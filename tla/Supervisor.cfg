\* Either process may be killed or, the supervisor, stop at any step; every
\* system call may fail.  Only the parent is fair.
SPECIFICATION Spec
CONSTANTS
  Reasons = {"user", "hangup"}
  ControlSlots = 2
  QueueSlots = 1
  EventSlots = 2
  Environments <- Hostile
INVARIANTS LaunchIsClean NothingOutlivesReturn FinalHasCause
PROPERTIES ParentReturns SupervisorFollows
CHECK_DEADLOCK FALSE
