CONSTANTS
  NPROC = 6
  NOFILE = 6
  NFILE = 4
  PIPESIZE = 1
  MAXARGS = 3
  Lines <- Typed
  Files = {"f"}
  MaxLines = 2
SPECIFICATION Spec
INVARIANT LineDoesWhatItSays
PROPERTY Terminates
CHECK_DEADLOCK FALSE
