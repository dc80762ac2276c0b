SPECIFICATION Spec
CONSTANTS
  Procs = {p1, p2, p3, p4}
  NUM = 8
  RING = 2
  W = 4
  None = None
  Intr = Intr
SYMMETRY Symmetry
INVARIANTS DescsAccounted TransferDone WaiterServed
