SPECIFICATION Spec
CONSTANTS
  NPROC = 3
  NCPU = 2
  Preempts = FALSE
  Calls = {"fork", "exit", "wait", "kill", "fault"}
  KillPids = {1, 2, 3}
  SleepTicks = {}
  MaxPid = 4
INVARIANTS
  NoHeapOverflow
  ParentCanWait
  NoLostExit
  FreeSlotIsNotKilled
PROPERTIES
  ImplementsRunQueue
