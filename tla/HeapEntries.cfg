SPECIFICATION Spec
CONSTANTS
  Procs = {1, 2, 3}
  Aprox = {0, 1}
  Exe = {0, 1}
  Algos = {0, 1}
  Cap = 5
  Twice = TRUE
INVARIANTS
  TypeOK
PROPERTIES
  EntriesKept
