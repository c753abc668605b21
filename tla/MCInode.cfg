SPECIFICATION Spec
CONSTANTS
  Procs = {p1, p2}
  NoProc = NoProc
  NINODES = 3
  NINODE = 3
  Names = {"a", "b"}
  Calls <- TreeCalls
  MaxLink = 2
  MayFail = TRUE
SYMMETRY ProcSymmetry
INVARIANTS
  RefsExact
  EntriesCounted
  FreedUnused
