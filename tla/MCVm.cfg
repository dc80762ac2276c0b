SPECIFICATION Spec
CONSTANTS
  Procs = {p1, p2}
  initproc = p1
  NPAGES = 20
  PGSIZE = 2
  LEVELS = 3
  R = 2
  Programs <- MCPrograms
  SbrkArgs <- MCSbrkArgs
  MaxSz = 9
  MAXARG = 2
  Copies <- MCCopies
  NoProc = NoProc
INVARIANT PagesExact
PROPERTIES AddressSpaces
