SPECIFICATION Spec
CONSTANTS
  Procs = {p1, p2}
  Inums = {1, 2, 3}
  Elems = {"a", "b"}
  Calls <- MCCalls
  NINODE = {2, 3}
  MaxLinks = 3
  NoProc = NoProc
INVARIANTS RefsExact LinksCovered NoLeak IputWontBlock
SYMMETRY Symmetry
