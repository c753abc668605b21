SPECIFICATION Spec
CONSTANTS
  NPROC = 3
  NCPU = 2
  MaxPid = 4
  KillPids = {2, 3}
  WaitAddrs = {0, 1}
  MaxCounts = {0, 2, 3}
  MemMayFail = TRUE
  MayFault = TRUE
INVARIANTS
  ParentsLive
  AncestorsOlder
  ZombieParentAwake
  PtvShowsTree
PROPERTY
  ReapedByParent
