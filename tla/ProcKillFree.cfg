SPECIFICATION Spec
CONSTANTS
  NPROC = 3
  NCPU = 2
  Preempts = FALSE
  Calls = {"fork", "wait", "kill"}
  KillPids = {0}
  SleepTicks = {}
  MaxPid = 3
INVARIANTS
  FreeSlotIsNotKilled
