SPECIFICATION FairSpec
CONSTANTS
  NPROC = 3
  CPUs = {c1, c2}
  Free = Free
  NoProc = NoProc
INVARIANTS SleepMutex NoLostWakeup SwtchSafe
PROPERTIES RunnableRuns FreeLockTaken
