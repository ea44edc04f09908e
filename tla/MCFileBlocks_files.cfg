CONSTANTS
  BSIZE = 2
  NDIRECT = 1
  IPB = 4
  BPB = 22
  ninodes = 4
  size = 20
  HostTrees <- Trees
  Procs = {p1, p2}
  TAG = 32
  Payloads <- Texts
  ReadLens = {6}
  MaxOps = 3
  MaxStats = 1
  Crashes = 1
  Rots = 2
SPECIFICATION Spec
SYMMETRY Symm
INVARIANTS BlocksOwned NothingLost ReadsBack NoFalseAlarm StatSum
CHECK_DEADLOCK FALSE
