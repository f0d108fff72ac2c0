\* Control-C while a command does not read its input.
SPECIFICATION RunSpec
CONSTANTS
  Reasons = {"user", "hangup", "internal"}
  ControlSlots = 1
  QueueSlots = 1
  EventSlots = 1
  Environments <- Quiet
  MaxPending = 1
PROPERTY ControlCEndsRun
CHECK_DEADLOCK FALSE
