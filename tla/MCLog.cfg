\* Two calls of up to two blocks each; the on-disk log has room for two blocks,
\* so that log_write() can also find it full, panic, and the machine be reset.
SPECIFICATION FairSpec
CONSTANTS
  Procs = {p1, p2}
  Blocks = {b1, b2}
  Vals = {v0, v1}
  Zero = v0
  NoBuf = NoBuf
  MAXOPBLOCKS = 3
  LOGSIZE = 6
  nlog = 3
  OpBlocks = 2
INVARIANTS LogInv Durable
PROPERTIES CrashAtomic LogProgress
