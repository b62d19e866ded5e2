SPECIFICATION FairSpec
CONSTANTS
  NPROC = 3
  NCPU = 2
  Preempts = FALSE
  Calls = {"fork", "sleep", "kill"}
  KillPids = {2}
  SleepTicks = {2}
  MaxPid = 3
INVARIANTS
  NoLostTick
PROPERTIES
  SleepEnds
