\* A recovery beside a completion, nothing failing.
SPECIFICATION Spec
CONSTANTS
  Procs = {p1, p2}
  RunIDs = {1}
  NoProc = NoProc
  NoRun = NoRun
  MaxMishaps = 0
  PowerLoss = FALSE

INVARIANT ClaimNeverFails
