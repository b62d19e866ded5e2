SPECIFICATION Spec
CONSTANTS
  Procs = {1, 2, 3, 4}
  Aprox = {0, 1, 2, 3}
  Exe = {0}
  Algos = {0}
  Cap = 4
  Twice = FALSE
PROPERTIES
  GetReturnsShortest
