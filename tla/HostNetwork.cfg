SPECIFICATION Spec
CONSTANTS
  s1 = s1
  Procs = {p1, p2}
  Runs = {1, 2}
  Slots = {s1, s2}
  NoProc = NoProc
  NoRun = NoRun
  NoSlot = NoSlot
  Transfers = 1
  FirewallParts = 2
  MaxLeases = 1
  Environments <- MCEnvironments
INVARIANTS IdentitiesDisjoint LeasesSound EvidenceSuffices RecoveryFailsOnlyUnactivated HostLockReleased
SYMMETRY Symmetry
CHECK_DEADLOCK FALSE
