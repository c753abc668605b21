SPECIFICATION Spec
CONSTANTS
  Readers = {p1}
  Writers = {p1, p2}
  None = None
  Intr = Intr
  Letters = {"a"}
  INPUT_BUF_SIZE = 2
  UMAX = 4
  BATCH = 1
  TX_FIFO = 3
  Reads = {2}
  Writes = {1}
  Killable = {p1}
INVARIANTS
  NoLostWakeup
  FifoNotOverrun
PROPERTY LineDiscipline
