\* Plain output under faults and the interactive display without: the run ends.
SPECIFICATION RunSpec
CONSTANTS
  Reasons = {"user", "hangup", "internal"}
  ControlSlots = 1
  QueueSlots = 1
  EventSlots = 1
  Environments <- PlainOrQuiet
  MaxPending = 1
INVARIANTS RunIsClean AllReleased
PROPERTIES RequestsEndRun
CHECK_DEADLOCK FALSE
