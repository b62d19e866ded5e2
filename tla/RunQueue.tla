------------------------------- MODULE RunQueue -------------------------------
(***************************************************************************)
(* What the process layer of kernel/proc.c promises about scheduling,      *)
(* without locks, kernel stacks or heap order.  A process is in one of the *)
(* states of enum procstate.  A CPU loops in scheduler(): it takes an      *)
(* entry out of the ready heap ("get"), looks at the process once it has   *)
(* its lock ("acq"), runs it ("run"), and cleans up when the process has   *)
(* switched back to it ("back").                                           *)
(*                                                                         *)
(* The ready heap is a bag: ready[p] counts the entries of p.  It is a bag *)
(* and not a set because yield() and then scheduler() both put() a process *)
(* that gives up the CPU.  get() may return any entry; which one it is, is *)
(* the subject of module ReadyHeap.                                        *)
(*                                                                         *)
(* put() makes no test against the end of its array.  Cap bounds the heaps *)
(* looked at here: the put() that would go beyond it is left out, and is   *)
(* the subject of NoHeapOverflow in module ProcTable.                      *)
(***************************************************************************)
EXTENDS Integers

CONSTANTS Procs,    \* slots of the process table
          CPUs,     \* harts running scheduler()
          Cap,      \* bound: entries of the ready heap (at most NPROC)
          NULL      \* no process

ASSUME CapAssumption == Cap \in Nat \ {0}
ASSUME NullAssumption == NULL \notin Procs

VARIABLES state,      \* p->state
          ready,      \* entries of p in proc_sched.heap
          heap_size,  \* proc_sched.heap_size
          spc,        \* where each CPU is in scheduler()
          hand        \* the p of scheduler() on each CPU, NULL before get()

vars == <<state, ready, heap_size, spc, hand>>

procstate == {"UNUSED", "USED", "SLEEPING", "RUNNABLE", "RUNNING", "ZOMBIE"}

TypeOK ==
  /\ state \in [Procs -> procstate]
  /\ ready \in [Procs -> Nat]
  /\ heap_size \in Nat
  /\ spc \in [CPUs -> {"get", "acq", "run", "back"}]
  /\ hand \in [CPUs -> Procs \cup {NULL}]
  /\ \A c \in CPUs : hand[c] = NULL <=> spc[c] = "get"

\* userinit() leaves one process in the heap.
Init ==
  /\ \E init \in Procs :
       /\ state = [p \in Procs |-> IF p = init THEN "RUNNABLE" ELSE "UNUSED"]
       /\ ready = [p \in Procs |-> IF p = init THEN 1 ELSE 0]
  /\ heap_size = 1
  /\ spc = [c \in CPUs |-> "get"]
  /\ hand = [c \in CPUs |-> NULL]

\* put(p): one more entry, and p is RUNNABLE whatever it was.  The guard is the
\* bound, not a test of the code.
put(p) ==
  /\ heap_size < Cap
  /\ ready' = [ready EXCEPT ![p] = @ + 1]
  /\ heap_size' = heap_size + 1
  /\ state' = [state EXCEPT ![p] = "RUNNABLE"]

-----------------------------------------------------------------------------
(* Processes *)

\* allocproc() takes a free slot.
Alloc(p) ==
  /\ state[p] = "UNUSED"
  /\ state' = [state EXCEPT ![p] = "USED"]
  /\ UNCHANGED <<ready, heap_size, spc, hand>>

\* Mutant of Leaving: p->lock is not held over swtch().
LeavingNever(p) == FALSE

\* A CPU is still on the kernel stack of p until it is through with "back".
Leaving(p) == \E c \in CPUs : spc[c] = "back" /\ hand[c] = p

\* Mutant of Enqueue: wakeup() without its test for SLEEPING.
EnqueueAny(p) ==
  /\ put(p)
  /\ UNCHANGED <<spc, hand>>

\* fork() puts its child; wakeup() and kill() put a sleeper, once they have its
\* lock.
Enqueue(p) ==
  /\ ~Leaving(p)
  /\ state[p] \in {"USED", "SLEEPING"}
  /\ put(p)
  /\ UNCHANGED <<spc, hand>>

\* wait() frees a child that has exited and has left its last CPU.
Reap(p) ==
  /\ ~Leaving(p)
  /\ state[p] = "ZOMBIE"
  /\ state' = [state EXCEPT ![p] = "UNUSED"]
  /\ UNCHANGED <<ready, heap_size, spc, hand>>

\* The running process gives up the CPU: sleep(), exit() ...
Block(c) ==
  /\ spc[c] = "run"
  /\ \E s \in {"SLEEPING", "ZOMBIE"} : state' = [state EXCEPT ![hand[c]] = s]
  /\ spc' = [spc EXCEPT ![c] = "back"]
  /\ UNCHANGED <<ready, heap_size, hand>>

\* ... or yield(), the only one that leaves it RUNNABLE.
Yield(c) ==
  /\ spc[c] = "run"
  /\ put(hand[c])
  /\ spc' = [spc EXCEPT ![c] = "back"]
  /\ UNCHANGED hand

-----------------------------------------------------------------------------
(* scheduler() *)

Get(c) ==
  /\ spc[c] = "get"
  /\ heap_size > 0
  /\ \E p \in Procs :
       /\ ready[p] > 0
       /\ ready' = [ready EXCEPT ![p] = @ - 1]
       /\ hand' = [hand EXCEPT ![c] = p]
  /\ heap_size' = heap_size - 1
  /\ spc' = [spc EXCEPT ![c] = "acq"]
  /\ UNCHANGED state

Dispatch(c) ==
  /\ spc[c] = "acq"
  /\ ~Leaving(hand[c])
  /\ state[hand[c]] = "RUNNABLE"
  /\ state' = [state EXCEPT ![hand[c]] = "RUNNING"]
  /\ spc' = [spc EXCEPT ![c] = "run"]
  /\ UNCHANGED <<ready, heap_size, hand>>

\* Mutant of Discard: the entry is dropped without a look at the state.
DiscardAny(c) ==
  /\ spc[c] = "acq"
  /\ spc' = [spc EXCEPT ![c] = "get"]
  /\ hand' = [hand EXCEPT ![c] = NULL]
  /\ UNCHANGED <<state, ready, heap_size>>

\* The entry was a second one, and the process has moved on since.
Discard(c) ==
  /\ spc[c] = "acq"
  /\ ~Leaving(hand[c])
  /\ state[hand[c]] # "RUNNABLE"
  /\ spc' = [spc EXCEPT ![c] = "get"]
  /\ hand' = [hand EXCEPT ![c] = NULL]
  /\ UNCHANGED <<state, ready, heap_size>>

\* The process is off the CPU.  A RUNNABLE one is put() a second time.
Back(c) ==
  /\ spc[c] = "back"
  /\ \/ state[hand[c]] = "RUNNABLE" /\ put(hand[c])
     \/ state[hand[c]] # "RUNNABLE" /\ UNCHANGED <<state, ready, heap_size>>
  /\ spc' = [spc EXCEPT ![c] = "get"]
  /\ hand' = [hand EXCEPT ![c] = NULL]

Next ==
  \/ \E p \in Procs : Alloc(p) \/ Enqueue(p) \/ Reap(p)
  \/ \E c \in CPUs : Block(c) \/ Yield(c) \/ Get(c) \/ Dispatch(c) \/ Discard(c) \/ Back(c)

Spec == Init /\ [][Next]_vars

-----------------------------------------------------------------------------
(* What the scheduling core must never get wrong *)

\* A RUNNABLE process is in the ready heap or in the hands of a CPU that is
\* about to look at it, so that some get() can still find it.  scheduler()
\* drops entries (proc.c:487), and nothing ever rescans the process table: a
\* process that lost its last entry would never run again.
NoLostProcess ==
  \A p \in Procs :
    state[p] = "RUNNABLE" => ready[p] > 0 \/ \E c \in CPUs : spc[c] = "acq" /\ hand[c] = p

\* No two CPUs are on the kernel stack of one process, even when a second
\* entry of a process that yields is taken out by another CPU before the
\* first one has switched away from it (proc.c:484-495).
OneCpuPerProcess ==
  \A c, d \in CPUs :
    /\ spc[c] \in {"run", "back"}
    /\ spc[d] \in {"run", "back"}
    /\ hand[c] = hand[d]
    => c = d

\* A slot that allocproc() may hand out is on no CPU: wait() does not free a
\* child that is still in exit() or swtch() (proc.c:414).
FreeSlotIsOffCpu ==
  \A c \in CPUs : spc[c] \in {"run", "back"} => state[hand[c]] \notin {"UNUSED", "USED"}

\* RUNNING is exactly being run by a CPU.
RunningIsOnCpu ==
  \A p \in Procs : state[p] = "RUNNING" <=> \E c \in CPUs : spc[c] = "run" /\ hand[c] = p
===============================================================================
