SPECIFICATION MemSpec
CONSTANTS
  NPROC = 3
  NPAGES = 24
  FANOUT = 2
  PGSIZE = 2
  USERSTACK = 1
  MAXARG = 2
  Programs <- MCPrograms
  Sbrks <- MCSbrks
  Touched = {2, 6, 11}
  MaxCalls = 4
INVARIANTS
  NoPanic
  PagesAccounted
  AllOrNothing
CHECK_DEADLOCK FALSE
