------------------------------ MODULE MCReadyHeap ------------------------------
(* ReadyHeap for TLC. *)
EXTENDS ReadyHeap
================================================================================
