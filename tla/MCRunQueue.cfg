SPECIFICATION Spec
CONSTANTS
  Procs = {p1, p2, p3}
  CPUs = {c1, c2}
  Cap = 4
  NULL = NULL
SYMMETRY Symmetry
INVARIANTS
  NoLostProcess
  OneCpuPerProcess
  FreeSlotIsOffCpu
  RunningIsOnCpu
CHECK_DEADLOCK FALSE
