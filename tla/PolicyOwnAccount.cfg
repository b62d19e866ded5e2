SPECIFICATION Spec
CONSTANTS
  NPROC = 2
  NCPU = 2
  Policies <- FairOnly
  MaxTicks = 2
  MaxBurst = 2
PROPERTIES
  AccountIsOwn
CHECK_DEADLOCK FALSE
