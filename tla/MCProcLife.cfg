SPECIFICATION FairSpec
CONSTANTS
  init = i
  Procs = {i, p1, p2}
  NoProc = NoProc
  KillArgs = {0, 1, 2, 3}
  MaxPid = 5
CHECK_DEADLOCK FALSE
INVARIANTS ParentAlive ZombieNoticed NotFreedOnCpu
PROPERTIES OrphanReaped
