SPECIFICATION Spec
CONSTANTS
  Readers = {r1, r2}
  Writers = {w1}
  INPUT_BUF_SIZE = 2
  UINT = 4
  UART_TX_BUF_SIZE = 2
  UINT64 = 4
  FIFO_DEPTH = 2
  Scripts <- Typed
  Sizes = {2}
  Start = 3
  Intr = Intr
SYMMETRY Perms
INVARIANTS OutputIntact TxAlive ReaderAwake
PROPERTY LineDiscipline
CHECK_DEADLOCK FALSE
