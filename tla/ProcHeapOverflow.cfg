SPECIFICATION Spec
CONSTANTS
  NPROC = 3
  NCPU = 1
  Preempts = TRUE
  Calls = {"fork", "exit", "wait"}
  KillPids = {}
  SleepTicks = {}
  MaxPid = 3
INVARIANTS
  NoHeapOverflow
