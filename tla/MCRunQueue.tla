------------------------------ MODULE MCRunQueue ------------------------------
(* RunQueue for TLC: a few interchangeable processes and CPUs.              *)
EXTENDS RunQueue, TLC

\* Processes, and CPUs, are interchangeable in RunQueue.
Symmetry == Permutations(Procs) \cup Permutations(CPUs)
===============================================================================
