SPECIFICATION FairSpec
CONSTANTS
  Writers = {w1, w2}
  Readers = {r1}
  Killable = {w1, r1}
  MaxKilled = 1
  Bytes = {0, 1}
  Sizes = {2}
  PIPESIZE = 2
  W = 4
  NoProc = NoProc
INVARIANT PipeAwake
PROPERTIES Fifo CallReturns
