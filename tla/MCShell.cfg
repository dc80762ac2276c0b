SPECIFICATION Spec
CONSTANTS
  MAXARGS = 3
  NPROC = 5
  NOFILE = 5
  NFILE = 5
  PIPESIZE = 2
  Scripts <- Typed
INVARIANTS ParseCorrect FilesExact RunsAsWritten
PROPERTY LineDone
CHECK_DEADLOCK FALSE
