CONSTANTS
  Procs = {p1, p2}
  Inums = {1, 2, 3}
  NINODE = 3
  Names = {"a", "b"}
  Paths <- TwoNames
  Ops = {"openw", "creat", "link", "unlink", "close"}
SPECIFICATION Spec
SYMMETRY Symm
INVARIANTS RefsCounted NoDangling
CHECK_DEADLOCK FALSE
