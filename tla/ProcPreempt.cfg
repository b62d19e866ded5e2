SPECIFICATION Spec
CONSTANTS
  NPROC = 3
  NCPU = 2
  Preempts = TRUE
  Calls = {"fork", "exit", "wait", "kill", "sleep"}
  KillPids = {2}
  SleepTicks = {1, 2}
  MaxPid = 2
INVARIANTS
  TypeOK
  SchedHoldsOnlyProcLock
  NoLockCycle
PROPERTIES
  ImplementsRunQueue
