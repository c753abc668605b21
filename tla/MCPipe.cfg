SPECIFICATION PipeSpec
CONSTANTS
  PipeProcs = {p1, p2, p3}
  NoProc = NoProc
  Bytes = {0, 1}
  PIPESIZE = 2
  PIPE_UMAX = 4
  Counts = {3}
  MayKill = TRUE
SYMMETRY ProcSymmetry
CHECK_DEADLOCK FALSE
INVARIANTS
  FreedAtLastClose
  SleepersWait
PROPERTY FifoOrder
