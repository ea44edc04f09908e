CONSTANTS
  MAXINODES = 3
  NDP = 2
  NENT = 3
  MaxBlock = 14
  Names = {a, b}
  Types = {1}
  Data = {x}
  StaleInums = FALSE
  FarNames = TRUE
  ReadDirs = TRUE
  Crashes = {}
SPECIFICATION Spec
SYMMETRY Symm
INVARIANTS NoDangling
