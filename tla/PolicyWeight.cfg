SPECIFICATION Spec
CONSTANTS
  NPROC = 2
  NCPU = 2
  Policies <- FairWeight
  MaxTicks = 2
  MaxBurst = 2
INVARIANTS
  AproxIsABurst
CHECK_DEADLOCK FALSE
