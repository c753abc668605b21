SPECIFICATION Spec
CONSTANTS
  Procs = {p1, p2, p3}
  NoProc = NoProc
  Handler = Handler
  Blocks = {k1, k2, k3}
  NoBlock = NoBlock
  Values = {v1, v2}
  NUM = 7
  UMAX = 7
  MayKill = TRUE
SYMMETRY Interchangeable
INVARIANTS
  DescriptorsAccounted
  NobodyForgotten
PROPERTY TransfersOnce
