CONSTANTS
  Procs = {p1, p2}
  Inums = {1, 2, 3}
  NINODE = 3
  Names = {"a"}
  Paths <- Down
  Ops = {"mkdir", "unlink", "chdir"}
SPECIFICATION Spec
SYMMETRY Symm
INVARIANTS RefsCounted Coherent LinksCover NoLockCycle
CHECK_DEADLOCK FALSE
