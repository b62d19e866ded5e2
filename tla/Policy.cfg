SPECIFICATION Spec
CONSTANTS
  NPROC = 2
  NCPU = 2
  Policies <- AllPolicies
  MaxTicks = 1
  MaxBurst = 2
INVARIANTS
  TypeOK
  AproxIsABurst
PROPERTIES
  ImplementsRunQueue
CHECK_DEADLOCK FALSE
