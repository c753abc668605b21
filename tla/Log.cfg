SPECIFICATION FairSpec
CONSTANTS
  Procs = {p1, p2}
  initproc = p1
  Blocks = {b1, b2}
  Values = {0, 1}
  NotCached = NotCached
  LOGBLOCKS = 2
  MAXOPBLOCKS = 1
INVARIANTS
  LogSuffices
  QuietDurable
PROPERTIES
  CrashAtomic
  SleeperWoken
