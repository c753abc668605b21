SPECIFICATION FairSpec
CONSTANTS
  NPROC = 2
  NCPU = 2
  TMAX = 2
  Pauses = {1}
  MayKill = TRUE
INVARIANTS
  OneCpuPerThread
  NoffCountsLocks
  SleeperIsEarly
PROPERTY SleeperRuns
