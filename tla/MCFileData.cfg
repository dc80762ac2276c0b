SPECIFICATION Spec
CONSTANTS
  f1 = f1
  f2 = f2
  f3 = f3
  A = A
  B = B
  Procs = {p1, p2}
  Inodes = {A, B}
  Files = {f1, f2, f3}
  Sizes = {1, 5}
  NBlocks = 4
  BPB = 3
  BSIZE = 2
  UINT = 16
  NDIRECT = 1
  MAXOPBLOCKS = 6
  f_ip <- MCf_ip
  Written = {f1, f2}
  Byte <- MCByte
  NoProc = NoProc
INVARIANTS BlocksAccounted ReadBack TransactionFits
SYMMETRY Symmetry
