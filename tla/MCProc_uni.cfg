CONSTANTS
  NPROC = 3
  NCPU = 1
  MaxPid = 3
  KillPids = {2}
  SleepTimes = {}
  MemFails = FALSE
SPECIFICATION FairSpec
PROPERTIES KilledExits OrphansReaped
CHECK_DEADLOCK FALSE
