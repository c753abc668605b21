SPECIFICATION Spec
CONSTANTS
  Procs = {p1, p2}
  NoProc = NoProc
  NBUF = 2
  Blocks = {k1, k2, k3}
  NoBlock = NoBlock
  Values = {0, 1}
  MaxPins = 1
INVARIANTS
  RefcntExact
  SleeperHasHolder
PROPERTY CacheTransparent
