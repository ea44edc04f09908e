CONSTANTS
  MAXINODES = 4
  NDP = 2
  NENT = 3
  MaxBlock = 14
  Names = {a, b, c}
  Types = {0, 1}
  Data = {x, y}
  StaleInums = FALSE
  FarNames = FALSE
  ReadDirs = FALSE
  Crashes = {"unlink"}
SPECIFICATION Spec
SYMMETRY Symm
INVARIANTS LogEnd NoSharing CRInSync NoDangling
PROPERTY ImplementsService
