\* The interactive display: keyboard, lost terminal, failing redraws and logs.
SPECIFICATION RunSpec
CONSTANTS
  Reasons = {"user", "hangup", "internal"}
  ControlSlots = 1
  QueueSlots = 1
  EventSlots = 1
  Environments <- Failing
  MaxPending = 1
INVARIANTS FirstReasonWins FinalReachesResult
CHECK_DEADLOCK FALSE
