\* Processes die, file system calls fail and the host loses power.
SPECIFICATION Spec
CONSTANTS
  Procs = {p1, p2}
  RunIDs = {1, 2}
  NoProc = NoProc
  NoRun = NoRun
  PowerLoss = TRUE
  MaxMishaps = 1
INVARIANTS ExclusiveOwnership ActiveRunUntouched EvidenceReachable DurablyClaimable
PROPERTIES NobodyWaits
