SPECIFICATION RunSpec
CHECK_DEADLOCK FALSE
CONSTANTS
  Transfers = {t1, t2}
  Servers = {u1, c1}
  Streams = {c1}
  MaxFaults = 1
  MaxQueries = 1
  MaxTries = 2
INVARIANTS ServedWhileNeeded ClosedIsClean FreedMeansIdle
PROPERTIES CleanupReturns CrashRecovered
