SPECIFICATION Spec
CONSTANTS
  NPROC = 2
  NCPU = 1
  Policies <- FairOnly
  MaxTicks = 4
  MaxBurst = 4
PROPERTIES
  PreemptedKeepsExeTime
CHECK_DEADLOCK FALSE
