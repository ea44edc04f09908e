CONSTANTS
  MAXINODES = 2
  NDP = 2
  NENT = 3
  MaxBlock = 13
  Names = {"a"}
  Types = {0, 1}
  Data = {"x"}
  StaleInums = TRUE
  FarNames = TRUE
  ReadDirs = TRUE
  Crashes = {}
  MaxCalls = 2
  Clients = {"c1", "c2"}
  Requests <- Few
  MaxStarts = 2
SPECIFICATION NetSpec
PROPERTIES RetriesTransparent CallReturns
CHECK_DEADLOCK FALSE
