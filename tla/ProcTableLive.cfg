SPECIFICATION FairSpec
CONSTANTS
  NPROC = 3
  NCPU = 2
  MaxPid = 3
  KillPids = {}
  WaitAddrs = {0}
  MaxCounts = {}
  MemMayFail = FALSE
  MayFault = FALSE
PROPERTY
  OrphansReaped
