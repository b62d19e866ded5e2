------------------------------- MODULE ReadyHeap -------------------------------
(***************************************************************************)
(* The ready heap of kernel/proc.c by itself: put(), get() and             *)
(* change_sched() one after the other, as proc_sched.lock makes them.  How *)
(* long a process has run before it is put is up to it, so put() gives it  *)
(* any pair of keys.  Module SchedPolicy computes the keys; this one is    *)
(* about the order in which get() hands processes out.                     *)
(***************************************************************************)
EXTENDS HeapOps

CONSTANTS Procs,       \* processes
          Aprox, Exe,  \* values of cpu_burst_aprox and of exe_time
          Algos,       \* the algorithms change_sched() is called with
          Cap,         \* bound: entries in the heap, at most NPROC
          Twice        \* whether a process may be put while it has an entry

ASSUME ReadyHeapAssumption ==
  /\ Aprox \subseteq Nat /\ 0 \in Aprox
  /\ Exe \subseteq Nat /\ 0 \in Exe
  /\ Algos \subseteq {0, 1}
  /\ Cap \in Nat
  /\ Twice \in BOOLEAN

VARIABLES heap, heap_size, algorithm,   \* proc_sched
          cpu_burst_aprox, exe_time,    \* of every process
          op                            \* the operation that has just been done

vars == <<heap, heap_size, algorithm, cpu_burst_aprox, exe_time, op>>

\* What an algorithm sorts entries by.
KeyOf(algo, aprox, exe) == IF algo = 0 THEN aprox ELSE exe
Key == KeyOf(algorithm, cpu_burst_aprox, exe_time)

TypeOK ==
  /\ heap_size \in 0..Cap
  /\ heap \in [0..heap_size-1 -> Procs]
  /\ algorithm \in {0, 1}
  /\ cpu_burst_aprox \in [Procs -> Aprox]
  /\ exe_time \in [Procs -> Exe]
  /\ op \in [what : {"none", "put", "get", "chsched"}, p : Procs \cup {0}]

Init ==
  /\ heap_size = 0
  /\ heap = [i \in {} |-> 0]
  /\ algorithm = 0
  /\ cpu_burst_aprox = [p \in Procs |-> 0]
  /\ exe_time = [p \in Procs |-> 0]
  /\ op = [what |-> "none", p |-> 0]

put(p) ==
  /\ heap_size < Cap
  /\ Twice \/ CountIn(heap, p) = 0
  /\ \E k \in Aprox, e \in Exe :
       /\ cpu_burst_aprox' = [cpu_burst_aprox EXCEPT ![p] = k]
       /\ exe_time' = [exe_time EXCEPT ![p] = e]
  /\ heap' = Insert(heap, heap_size, p, KeyOf(algorithm, cpu_burst_aprox', exe_time'))
  /\ heap_size' = heap_size + 1
  /\ op' = [what |-> "put", p |-> p]
  /\ UNCHANGED algorithm

get ==
  /\ heap_size > 0
  /\ heap' = RemoveRoot(heap, heap_size, Key, cpu_burst_aprox)
  /\ heap_size' = heap_size - 1
  /\ op' = [what |-> "get", p |-> heap[0]]
  /\ UNCHANGED <<algorithm, cpu_burst_aprox, exe_time>>

change_sched(algo) ==
  /\ algorithm' = algo
  /\ heap' = rearrange_heap(heap, heap_size, KeyOf(algo, cpu_burst_aprox, exe_time), cpu_burst_aprox)
  /\ op' = [what |-> "chsched", p |-> 0]
  /\ UNCHANGED <<heap_size, cpu_burst_aprox, exe_time>>

Next ==
  \/ \E p \in Procs : put(p)
  \/ get
  \/ \E algo \in Algos : change_sched(algo)

Spec == Init /\ [][Next]_vars

-----------------------------------------------------------------------------
\* The loops move entries and neither lose nor copy one: put() adds the one it
\* is given, get() removes the one it returns, change_sched() only reorders.
EntriesKept ==
  [][\A p \in Procs :
       CountIn(heap', p) = CountIn(heap, p) + (IF op' = [what |-> "put", p |-> p] THEN 1 ELSE 0)
                                            - (IF op' = [what |-> "get", p |-> p] THEN 1 ELSE 0)]_vars

\* get() returns a process no other entry of the heap is shorter than: the
\* "shortest-job-first process sched_policy" of proc.h:116.
GetReturnsShortest ==
  [][op'.what = "get" => \A i \in DOMAIN heap : Key[op'.p] <= Key[heap[i]]]_vars
================================================================================
