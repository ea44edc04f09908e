CONSTANTS
  NPROC = 3
  NCPU = 2
  MaxPid = 4
  KillPids = {2, 3}
  SleepTimes = {1}
  MemFails = TRUE
SPECIFICATION Spec
INVARIANTS OwnStack NoMissedExit ForkOwnsChild
CHECK_DEADLOCK FALSE
