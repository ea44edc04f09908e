CONSTANTS
  Procs = {p1, p2}
  Bufs = {b1, b2}
  Sectors = {1, 2, 3}
  Values = {x, y}
  Zero = x
  MaxHold = 2
  BadSectors = {3}
SPECIFICATION Spec
INVARIANTS OneCopy ValidIsDisk OwedWakeup Progress
PROPERTIES ImplementsStore IoCompletes
CHECK_DEADLOCK FALSE
