---------------------------- MODULE RunQueueProofs ----------------------------
(***************************************************************************)
(* RunQueue keeps its promises for every number of processes and CPUs and  *)
(* every capacity of the heap.                                             *)
(***************************************************************************)
EXTENDS RunQueue, TLAPS

\* What relates the state of a process to the CPUs that hold it.  Taken alone,
\* OneCpuPerProcess is not inductive: a CPU that dispatches p has to know that
\* no other CPU is on p's stack, and it knows it from p's state.  A CPU that
\* runs p sees it RUNNING, and a CPU that is leaving p still has its lock.
IInv == TypeOK /\ NoLostProcess /\ OneCpuPerProcess /\ RunningIsOnCpu /\ FreeSlotIsOffCpu

\* The state userinit() leaves satisfies the invariant.
LEMMA InitIInv == Init => IInv
BY NullAssumption
   DEF Init, IInv, TypeOK, NoLostProcess, OneCpuPerProcess, RunningIsOnCpu, FreeSlotIsOffCpu, procstate

\* put(p) keeps the process states and the counts of entries typed.
LEMMA PutTypeOK ==
  ASSUME TypeOK, NEW p \in Procs, put(p)
  PROVE  /\ state' \in [Procs -> procstate]
         /\ ready' \in [Procs -> Nat]
         /\ heap_size' \in Nat
BY DEF TypeOK, put, procstate

\* Every step keeps the variables typed.
LEMMA NextTypeOK == TypeOK /\ [Next]_vars => TypeOK'
<1> SUFFICES ASSUME TypeOK, [Next]_vars PROVE TypeOK'
  OBVIOUS
<1> USE NullAssumption DEF TypeOK, procstate
<1>1. ASSUME NEW p \in Procs, Alloc(p) PROVE TypeOK'
  BY <1>1 DEF Alloc
<1>2. ASSUME NEW p \in Procs, Enqueue(p) PROVE TypeOK'
  BY <1>2, PutTypeOK DEF Enqueue
<1>3. ASSUME NEW p \in Procs, Reap(p) PROVE TypeOK'
  BY <1>3 DEF Reap
<1>4. ASSUME NEW c \in CPUs, Block(c) PROVE TypeOK'
  BY <1>4 DEF Block
<1>5. ASSUME NEW c \in CPUs, Yield(c) PROVE TypeOK'
  BY <1>5, PutTypeOK DEF Yield
<1>6. ASSUME NEW c \in CPUs, Get(c) PROVE TypeOK'
  BY <1>6 DEF Get
<1>7. ASSUME NEW c \in CPUs, Dispatch(c) PROVE TypeOK'
  BY <1>7 DEF Dispatch
<1>8. ASSUME NEW c \in CPUs, Discard(c) PROVE TypeOK'
  BY <1>8 DEF Discard
<1>9. ASSUME NEW c \in CPUs, Back(c) PROVE TypeOK'
  BY <1>9, PutTypeOK DEF Back
<1>10. CASE UNCHANGED vars
  BY <1>10 DEF vars
<1> QED
  BY <1>1, <1>2, <1>3, <1>4, <1>5, <1>6, <1>7, <1>8, <1>9, <1>10 DEF Next

\* No step loses a RUNNABLE process: the one that takes its entry out of the
\* heap keeps it in hand, and lets go of it only when it is not RUNNABLE.
LEMMA NextNoLostProcess == TypeOK /\ NoLostProcess /\ [Next]_vars => NoLostProcess'
<1> SUFFICES ASSUME TypeOK, NoLostProcess, [Next]_vars PROVE NoLostProcess'
  OBVIOUS
<1> USE NullAssumption DEF TypeOK, NoLostProcess, procstate
<1>1. ASSUME NEW p \in Procs, Alloc(p) \/ Reap(p) PROVE NoLostProcess'
  BY <1>1 DEF Alloc, Reap
<1>2. ASSUME NEW p \in Procs, Enqueue(p) PROVE NoLostProcess'
  BY <1>2 DEF Enqueue, put
<1>4. ASSUME NEW c \in CPUs, Block(c) PROVE NoLostProcess'
  BY <1>4 DEF Block
<1>5. ASSUME NEW c \in CPUs, Yield(c) PROVE NoLostProcess'
  BY <1>5 DEF Yield, put
<1>6. ASSUME NEW c \in CPUs, Get(c) PROVE NoLostProcess'
  BY <1>6 DEF Get
<1>7. ASSUME NEW c \in CPUs, Dispatch(c) PROVE NoLostProcess'
  BY <1>7 DEF Dispatch
<1>8. ASSUME NEW c \in CPUs, Discard(c) PROVE NoLostProcess'
  BY <1>8 DEF Discard
<1>9. ASSUME NEW c \in CPUs, Back(c) PROVE NoLostProcess'
  BY <1>9 DEF Back, put
<1>10. CASE UNCHANGED vars
  BY <1>10 DEF vars
<1> QED
  BY <1>1, <1>2, <1>4, <1>5, <1>6, <1>7, <1>8, <1>9, <1>10 DEF Next

\* The states of the processes and the places of the CPUs stay in agreement.
LEMMA NextOnCpu ==
  TypeOK /\ OneCpuPerProcess /\ RunningIsOnCpu /\ [Next]_vars
    => OneCpuPerProcess' /\ RunningIsOnCpu'
<1> SUFFICES ASSUME TypeOK, OneCpuPerProcess, RunningIsOnCpu, [Next]_vars
             PROVE  OneCpuPerProcess' /\ RunningIsOnCpu'
  OBVIOUS
<1> USE NullAssumption DEF TypeOK, OneCpuPerProcess, RunningIsOnCpu, procstate
<1>1. ASSUME NEW p \in Procs, Alloc(p) \/ Reap(p) PROVE OneCpuPerProcess' /\ RunningIsOnCpu'
  BY <1>1 DEF Alloc, Reap
<1>2. ASSUME NEW p \in Procs, Enqueue(p) PROVE OneCpuPerProcess' /\ RunningIsOnCpu'
  BY <1>2 DEF Enqueue, put
<1>4. ASSUME NEW c \in CPUs, Block(c) PROVE OneCpuPerProcess' /\ RunningIsOnCpu'
  BY <1>4 DEF Block
<1>5. ASSUME NEW c \in CPUs, Yield(c) PROVE OneCpuPerProcess' /\ RunningIsOnCpu'
  BY <1>5 DEF Yield, put
<1>6. ASSUME NEW c \in CPUs, Get(c) PROVE OneCpuPerProcess' /\ RunningIsOnCpu'
  BY <1>6 DEF Get
<1>7. ASSUME NEW c \in CPUs, Dispatch(c) PROVE OneCpuPerProcess' /\ RunningIsOnCpu'
  BY <1>7 DEF Dispatch, Leaving
<1>8. ASSUME NEW c \in CPUs, Discard(c) PROVE OneCpuPerProcess' /\ RunningIsOnCpu'
  BY <1>8 DEF Discard
<1>9. ASSUME NEW c \in CPUs, Back(c) PROVE OneCpuPerProcess' /\ RunningIsOnCpu'
  BY <1>9 DEF Back, put
<1>10. CASE UNCHANGED vars
  BY <1>10 DEF vars
<1> QED
  BY <1>1, <1>2, <1>4, <1>5, <1>6, <1>7, <1>8, <1>9, <1>10 DEF Next

\* A slot becomes free only when no CPU is on its stack, and is dispatched only
\* when it is not free.
LEMMA NextFreeSlotIsOffCpu ==
  TypeOK /\ OneCpuPerProcess /\ RunningIsOnCpu /\ FreeSlotIsOffCpu /\ [Next]_vars
    => FreeSlotIsOffCpu'
<1> SUFFICES ASSUME TypeOK, OneCpuPerProcess, RunningIsOnCpu, FreeSlotIsOffCpu, [Next]_vars
             PROVE  FreeSlotIsOffCpu'
  OBVIOUS
<1> USE NullAssumption DEF TypeOK, FreeSlotIsOffCpu, procstate
<1>1. ASSUME NEW p \in Procs, Alloc(p) PROVE FreeSlotIsOffCpu'
  BY <1>1 DEF Alloc
<1>2. ASSUME NEW p \in Procs, Enqueue(p) PROVE FreeSlotIsOffCpu'
  BY <1>2 DEF Enqueue, put
<1>3. ASSUME NEW p \in Procs, Reap(p) PROVE FreeSlotIsOffCpu'
  BY <1>3 DEF Reap, Leaving, RunningIsOnCpu
<1>4. ASSUME NEW c \in CPUs, Block(c) PROVE FreeSlotIsOffCpu'
  BY <1>4 DEF Block
<1>5. ASSUME NEW c \in CPUs, Yield(c) PROVE FreeSlotIsOffCpu'
  BY <1>5 DEF Yield, put
<1>6. ASSUME NEW c \in CPUs, Get(c) PROVE FreeSlotIsOffCpu'
  BY <1>6 DEF Get
<1>7. ASSUME NEW c \in CPUs, Dispatch(c) PROVE FreeSlotIsOffCpu'
  BY <1>7 DEF Dispatch
<1>8. ASSUME NEW c \in CPUs, Discard(c) PROVE FreeSlotIsOffCpu'
  BY <1>8 DEF Discard
<1>9. ASSUME NEW c \in CPUs, Back(c) PROVE FreeSlotIsOffCpu'
  BY <1>9 DEF Back, put
<1>10. CASE UNCHANGED vars
  BY <1>10 DEF vars
<1> QED
  BY <1>1, <1>2, <1>3, <1>4, <1>5, <1>6, <1>7, <1>8, <1>9, <1>10 DEF Next

\* The whole invariant holds in every reachable state.
THEOREM RunQueueInvariant == Spec => []IInv
<1>1. IInv /\ [Next]_vars => IInv'
  BY NextTypeOK, NextNoLostProcess, NextOnCpu, NextFreeSlotIsOffCpu DEF IInv
<1> QED
  BY InitIInv, <1>1, PTL DEF Spec

\* scheduler(), yield(), wakeup(), kill() and fork() never lose a process that
\* is ready to run, whatever number of times each of them has put it.
THEOREM ReadyProcessIsFound == Spec => []NoLostProcess
<1>1. IInv => NoLostProcess
  BY DEF IInv
<1> QED
  BY RunQueueInvariant, <1>1, PTL

\* Two CPUs never run on the kernel stack of the same process, duplicate heap
\* entries or not.
THEOREM KernelStackIsExclusive == Spec => []OneCpuPerProcess
<1>1. IInv => OneCpuPerProcess
  BY DEF IInv
<1> QED
  BY RunQueueInvariant, <1>1, PTL

\* wait() and allocproc() never hand out the slot, and so the kernel stack, of a
\* process that a CPU has not finished switching away from.
THEOREM FreeStackIsNotInUse == Spec => []FreeSlotIsOffCpu
<1>1. IInv => FreeSlotIsOffCpu
  BY DEF IInv
<1> QED
  BY RunQueueInvariant, <1>1, PTL
===============================================================================
