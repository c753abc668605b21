SPECIFICATION Spec
CONSTANTS
  Procs = {p1, p2}
  First = p1
  None = None
  NINODES = 2
  NFILE = 3
  NOFILE = 2
  NBLOCKS = 5
  NDIRECT = 1
  NINDIRECT = 2
  BSIZE = 2
  BPB = 1
  MAXOPBLOCKS = 6
  Counts = {1, 3}
  Modes <- MCModes
  MaxCalls = 5
INVARIANTS
  BlocksAccounted
  TransactionFits
  FileRefsExact
PROPERTY FilesHoldWrites
CHECK_DEADLOCK FALSE
