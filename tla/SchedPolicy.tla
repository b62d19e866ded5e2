------------------------------ MODULE SchedPolicy ------------------------------
(***************************************************************************)
(* The scheduling policy of kernel/proc.c: the accounting that put(), get()*)
(* and timer_routine() do on every process, the heap they keep, and        *)
(* change_sched().  Processes come, sleep, wake up and exit at will, as    *)
(* ProcTable lets them.                                                    *)
(*                                                                         *)
(* put() and change_sched() are atomic under proc_sched.lock.  get() is    *)
(* not atomic for timer_routine(), which takes no lock: it resets          *)
(* cpu_burst, and sets timeslice only after the heap is in order again.    *)
(* The build (-O0) makes every access to p in timer_routine() a load or a  *)
(* store of its own, and so does the model; it reads, and change_sched()   *)
(* writes, the policy in one step.                                         *)
(***************************************************************************)
EXTENDS HeapOps

CONSTANTS NPROC, NCPU,
          Policies,    \* the arguments <<algo, is_preemptive, a>> chsched() is given
          MaxTicks,    \* bound: ticks
          MaxBurst     \* bound: ticks a process runs at a stretch

ASSUME SchedPolicyAssumption ==
  /\ NPROC \in Nat \ {0} /\ NCPU \in Nat \ {0}
  /\ Policies \subseteq Int \X Int \X Int
  /\ MaxTicks \in Nat /\ MaxBurst \in Nat

Procs == 0..NPROC-1
CPUs == 0..NCPU-1
NULL == -1

VARIABLES
  state, cpu_burst_aprox, cpu_burst, timeslice, put_timestamp, exe_time,   \* struct proc
  heap, heap_size, a, algorithm, is_preemptive,                            \* proc_sched
  sched_lock,      \* the CPU inside get() between the two accesses to its process, or NULL
  ticks,
  spc, hand,       \* scheduler() on each CPU, as in RunQueue, with "slice" inside get()
  tpc, tmp,        \* timer_routine() on each CPU and what it has loaded of cpu_burst
  panic            \* heap[] has overflowed

acctVars == <<cpu_burst_aprox, cpu_burst, timeslice, put_timestamp, exe_time>>
heapVars == <<heap, heap_size>>
policyVars == <<a, algorithm, is_preemptive>>
vars == <<state, acctVars, heapVars, policyVars, sched_lock, ticks, spc, hand, tpc, tmp, panic>>

procstate == {"UNUSED", "USED", "SLEEPING", "RUNNABLE", "RUNNING", "ZOMBIE"}

TypeOK ==
  /\ state \in [Procs -> procstate]
  /\ cpu_burst_aprox \in [Procs -> Int]
  /\ cpu_burst \in [Procs -> 0..MaxBurst]
  /\ timeslice \in [Procs -> 0..ticks \cup {1}]
  /\ put_timestamp \in [Procs -> 0..ticks]
  /\ exe_time \in [Procs -> Nat]
  /\ heap_size \in 0..NPROC
  /\ heap \in [0..heap_size-1 -> Procs]
  /\ a \in Int /\ algorithm \in {0, 1} /\ is_preemptive \in Nat
  /\ sched_lock \in CPUs \cup {NULL}
  /\ ticks \in 0..MaxTicks
  /\ spc \in [CPUs -> {"get", "slice", "acq", "run", "back"}]
  /\ hand \in [CPUs -> Procs \cup {NULL}]
  /\ tpc \in [CPUs -> {"idle", "load", "store", "check", "burst", "compare", "policy", "yield"}]
  /\ tmp \in [CPUs -> 0..MaxBurst]
  /\ panic \in BOOLEAN

Zero == [p \in Procs |-> 0]

\* After userinit(), with the initial proc_sched.
Init ==
  /\ state = [p \in Procs |-> IF p = 0 THEN "RUNNABLE" ELSE "UNUSED"]
  /\ cpu_burst_aprox = Zero /\ cpu_burst = Zero /\ timeslice = Zero
  /\ put_timestamp = Zero /\ exe_time = Zero
  /\ heap = [i \in {0} |-> 0] /\ heap_size = 1
  /\ a = 50 /\ algorithm = 0 /\ is_preemptive = 0
  /\ sched_lock = NULL
  /\ ticks = 0
  /\ spc = [c \in CPUs |-> "get"]
  /\ hand = [c \in CPUs |-> NULL]
  /\ tpc = [c \in CPUs |-> "idle"]
  /\ tmp = [c \in CPUs |-> 0]
  /\ panic = FALSE

-----------------------------------------------------------------------------
\* Integer division of C: towards zero.
CDiv(x, y) == IF x >= 0 THEN x \div y ELSE -((-x) \div y)

\* Exponential averaging, in percent.
Average(p) == CDiv(a * cpu_burst[p] + (100 - a) * cpu_burst_aprox[p], 100)

KeyOf(algo, aprox, exe) == IF algo = 0 THEN aprox ELSE exe

\* put(p).  Whether the estimate is updated depends on the state of the first
\* slot of the table (`proc->state'), not on that of p.
put(p) ==
  /\ sched_lock = NULL
  /\ cpu_burst_aprox' = [cpu_burst_aprox EXCEPT ![p] = IF state[0] # "RUNNING" THEN Average(p) ELSE @]
  /\ exe_time' = [exe_time EXCEPT ![p] = IF state[p] = "RUNNING" THEN @ + cpu_burst[p] ELSE 0]
  /\ put_timestamp' = [put_timestamp EXCEPT ![p] = ticks]
  /\ state' = [state EXCEPT ![p] = "RUNNABLE"]
  /\ \/ /\ heap_size < NPROC
        /\ heap' = Insert(heap, heap_size, p, KeyOf(algorithm, cpu_burst_aprox', exe_time'))
        /\ heap_size' = heap_size + 1
        /\ UNCHANGED panic
     \/ /\ heap_size >= NPROC
        /\ panic' = TRUE
        /\ UNCHANGED heapVars
  /\ UNCHANGED <<cpu_burst, timeslice>>

\* allocproc() and freeproc() clear the accounting.
clear(p) ==
  /\ cpu_burst_aprox' = [cpu_burst_aprox EXCEPT ![p] = 0]
  /\ cpu_burst' = [cpu_burst EXCEPT ![p] = 0]
  /\ timeslice' = [timeslice EXCEPT ![p] = 0]
  /\ put_timestamp' = [put_timestamp EXCEPT ![p] = 0]
  /\ exe_time' = [exe_time EXCEPT ![p] = 0]

\* Mutant of Leaving: p->lock is not held over swtch().
LeavingNever(p) == FALSE

\* p->lock is with the CPU that has just switched away from p.
Leaving(p) == \E c \in CPUs : spc[c] = "back" /\ hand[c] = p

\* CPU c executes the code of a process, outside timer_routine().
Runs(c) == ~panic /\ spc[c] = "run" /\ tpc[c] = "idle"

-----------------------------------------------------------------------------
(* scheduler() and get() *)

\* The root leaves the heap and its burst starts, all without p->lock.  Under
\* algorithm 1 its time slice is still to come.
GetPop(c) ==
  /\ ~panic /\ spc[c] = "get"
  /\ sched_lock = NULL
  /\ heap_size > 0
  /\ hand' = [hand EXCEPT ![c] = heap[0]]
  /\ cpu_burst' = [cpu_burst EXCEPT ![heap[0]] = 0]
  /\ heap' = RemoveRoot(heap, heap_size, KeyOf(algorithm, cpu_burst_aprox, exe_time), cpu_burst_aprox)
  /\ heap_size' = heap_size - 1
  /\ IF algorithm = 1
       THEN sched_lock' = c /\ spc' = [spc EXCEPT ![c] = "slice"]
       ELSE spc' = [spc EXCEPT ![c] = "acq"] /\ UNCHANGED sched_lock
  /\ UNCHANGED <<state, cpu_burst_aprox, timeslice, put_timestamp, exe_time, policyVars, ticks, tpc, tmp, panic>>

\* Mutant of cfs_timeslice: the wrong sign.
cfs_timesliceSum(p) ==
  LET share == (ticks + put_timestamp[p]) \div (heap_size + 1)
  IN  IF share = 0 THEN 1 ELSE share

\* The time it has waited, shared by the processes still waiting; at least 1.
cfs_timeslice(p) ==
  LET share == (ticks - put_timestamp[p]) \div (heap_size + 1)
  IN  IF share = 0 THEN 1 ELSE share

GetSlice(c) ==
  /\ ~panic /\ spc[c] = "slice"
  /\ timeslice' = [timeslice EXCEPT ![hand[c]] = cfs_timeslice(hand[c])]
  /\ sched_lock' = NULL
  /\ spc' = [spc EXCEPT ![c] = "acq"]
  /\ UNCHANGED <<state, cpu_burst_aprox, cpu_burst, put_timestamp, exe_time, heapVars, policyVars, ticks,
                 hand, tpc, tmp, panic>>

SchedRun(c) ==
  /\ ~panic /\ spc[c] = "acq" /\ ~Leaving(hand[c])
  /\ state[hand[c]] = "RUNNABLE"
  /\ state' = [state EXCEPT ![hand[c]] = "RUNNING"]
  /\ spc' = [spc EXCEPT ![c] = "run"]
  /\ UNCHANGED <<acctVars, heapVars, policyVars, sched_lock, ticks, hand, tpc, tmp, panic>>

SchedSkip(c) ==
  /\ ~panic /\ spc[c] = "acq" /\ ~Leaving(hand[c])
  /\ state[hand[c]] # "RUNNABLE"
  /\ spc' = [spc EXCEPT ![c] = "get"]
  /\ hand' = [hand EXCEPT ![c] = NULL]
  /\ UNCHANGED <<state, acctVars, heapVars, policyVars, sched_lock, ticks, tpc, tmp, panic>>

\* After swtch(): a process that yielded is put() once more.
SchedBack(c) ==
  /\ ~panic /\ spc[c] = "back"
  /\ \/ state[hand[c]] = "RUNNABLE" /\ put(hand[c])
     \/ state[hand[c]] # "RUNNABLE" /\ UNCHANGED <<state, acctVars, heapVars, panic>>
  /\ spc' = [spc EXCEPT ![c] = "get"]
  /\ hand' = [hand EXCEPT ![c] = NULL]
  /\ UNCHANGED <<policyVars, sched_lock, ticks, tpc, tmp>>

-----------------------------------------------------------------------------
(* The timer.  On CPU 0 clockintr() counts the tick before timer_routine(). *)

\* clockintr() on CPU 0, which may be in scheduler() or run a process.
ClockTick(c) ==
  /\ ~panic /\ c = 0 /\ ticks < MaxTicks
  /\ \/ spc[c] \in {"get", "acq"} /\ UNCHANGED tpc
     \/ Runs(c) /\ cpu_burst[hand[c]] < MaxBurst /\ tpc' = [tpc EXCEPT ![c] = "load"]
  /\ ticks' = ticks + 1
  /\ UNCHANGED <<state, acctVars, heapVars, policyVars, sched_lock, spc, hand, tmp, panic>>

\* timer_routine(): cpu_burst is loaded ...
TimerLoad(c) ==
  /\ \/ c = 0 /\ ~panic /\ tpc[c] = "load"
     \/ c # 0 /\ Runs(c) /\ cpu_burst[hand[c]] < MaxBurst
  /\ tmp' = [tmp EXCEPT ![c] = cpu_burst[hand[c]] + 1]
  /\ tpc' = [tpc EXCEPT ![c] = "store"]
  /\ UNCHANGED <<state, acctVars, heapVars, policyVars, sched_lock, ticks, spc, hand, panic>>

\* ... and stored ...
TimerStore(c) ==
  /\ ~panic /\ tpc[c] = "store"
  /\ cpu_burst' = [cpu_burst EXCEPT ![hand[c]] = tmp[c]]
  /\ tmp' = [tmp EXCEPT ![c] = 0]
  /\ tpc' = [tpc EXCEPT ![c] = "check"]
  /\ UNCHANGED <<state, cpu_burst_aprox, timeslice, put_timestamp, exe_time, heapVars, policyVars,
                 sched_lock, ticks, spc, hand, panic>>

\* ... and, if p->timeslice is not 0, compared with it ...
TimerCheck(c) ==
  /\ ~panic /\ tpc[c] = "check"
  /\ tpc' = [tpc EXCEPT ![c] = IF timeslice[hand[c]] # 0 THEN "burst" ELSE "policy"]
  /\ UNCHANGED <<state, acctVars, heapVars, policyVars, sched_lock, ticks, spc, hand, tmp, panic>>

TimerBurst(c) ==
  /\ ~panic /\ tpc[c] = "burst"
  /\ tmp' = [tmp EXCEPT ![c] = cpu_burst[hand[c]]]
  /\ tpc' = [tpc EXCEPT ![c] = "compare"]
  /\ UNCHANGED <<state, acctVars, heapVars, policyVars, sched_lock, ticks, spc, hand, panic>>

TimerCompare(c) ==
  /\ ~panic /\ tpc[c] = "compare"
  /\ tpc' = [tpc EXCEPT ![c] = IF tmp[c] = timeslice[hand[c]] THEN "yield" ELSE "policy"]
  /\ tmp' = [tmp EXCEPT ![c] = 0]
  /\ UNCHANGED <<state, acctVars, heapVars, policyVars, sched_lock, ticks, spc, hand, panic>>

\* ... and if that does not tell the process to yield, the policy may.
TimerPolicy(c) ==
  /\ ~panic /\ tpc[c] = "policy"
  /\ tpc' = [tpc EXCEPT ![c] = IF algorithm = 0 /\ is_preemptive = 1 THEN "yield" ELSE "idle"]
  /\ UNCHANGED <<state, acctVars, heapVars, policyVars, sched_lock, ticks, spc, hand, tmp, panic>>

\* yield().
TimerYield(c) ==
  /\ ~panic /\ tpc[c] = "yield"
  /\ put(hand[c])
  /\ spc' = [spc EXCEPT ![c] = "back"]
  /\ tpc' = [tpc EXCEPT ![c] = "idle"]
  /\ UNCHANGED <<policyVars, sched_lock, ticks, hand, tmp>>

-----------------------------------------------------------------------------
(* What processes do *)

\* Mutant of Accepted: the range of the weight is not tested.
AcceptedAnyWeight(algo, pre, pct) == ~(algo < 0 \/ algo > 1 \/ pre < 0)

\* change_sched() accepts its arguments.
Accepted(algo, pre, pct) ==
  /\ ~(algo < 0 \/ algo > 1 \/ pre < 0)
  /\ ~(algo = 0 /\ (pct < 0 \/ pct > 100))

change_sched(c) ==
  /\ Runs(c)
  /\ sched_lock = NULL
  /\ \E pol \in Policies :
       /\ Accepted(pol[1], pol[2], pol[3])
       /\ algorithm' = pol[1] /\ is_preemptive' = pol[2] /\ a' = pol[3]
       /\ heap' = rearrange_heap(heap, heap_size, KeyOf(pol[1], cpu_burst_aprox, exe_time), cpu_burst_aprox)
  /\ UNCHANGED <<state, acctVars, heap_size, sched_lock, ticks, spc, hand, tpc, tmp, panic>>

\* sleep() and exit().  init does not exit.
Block(c) ==
  /\ Runs(c)
  /\ \E s \in {"SLEEPING", "ZOMBIE"} :
       /\ s = "ZOMBIE" => hand[c] # 0
       /\ state' = [state EXCEPT ![hand[c]] = s]
  /\ spc' = [spc EXCEPT ![c] = "back"]
  /\ UNCHANGED <<acctVars, heapVars, policyVars, sched_lock, ticks, hand, tpc, tmp, panic>>

\* fork() by a running process takes a slot ...
Alloc(p) ==
  /\ ~panic /\ state[p] = "UNUSED"
  /\ \E c \in CPUs : Runs(c)
  /\ state' = [state EXCEPT ![p] = "USED"]
  /\ clear(p)
  /\ UNCHANGED <<heapVars, policyVars, sched_lock, ticks, spc, hand, tpc, tmp, panic>>

\* ... and puts the child; wakeup() and kill() put a sleeper.
Enqueue(p) ==
  /\ ~panic /\ state[p] \in {"USED", "SLEEPING"} /\ ~Leaving(p)
  /\ put(p)
  /\ UNCHANGED <<policyVars, sched_lock, ticks, spc, hand, tpc, tmp>>

\* wait() frees a child.
Reap(p) ==
  /\ ~panic /\ state[p] = "ZOMBIE" /\ ~Leaving(p)
  /\ state' = [state EXCEPT ![p] = "UNUSED"]
  /\ clear(p)
  /\ UNCHANGED <<heapVars, policyVars, sched_lock, ticks, spc, hand, tpc, tmp, panic>>

Next ==
  \/ \E c \in CPUs : \/ GetPop(c) \/ GetSlice(c) \/ SchedRun(c) \/ SchedSkip(c) \/ SchedBack(c)
                     \/ ClockTick(c) \/ TimerLoad(c) \/ TimerStore(c) \/ TimerCheck(c) \/ TimerBurst(c)
                     \/ TimerCompare(c) \/ TimerPolicy(c) \/ TimerYield(c)
                     \/ change_sched(c) \/ Block(c)
  \/ \E p \in Procs : Alloc(p) \/ Enqueue(p) \/ Reap(p)

Spec == Init /\ [][Next]_vars

-----------------------------------------------------------------------------
\* The heap is a run queue: with its order and its keys forgotten, every step
\* that does not overflow it is one of RunQueue, so that nothing of what
\* RunQueue promises depends on the order of the heap or on the policy.
RQ == INSTANCE RunQueue WITH
        Cap <- NPROC,
        ready <- [p \in Procs |-> CountIn(heap, p)],
        spc <- [c \in CPUs |-> IF spc[c] = "slice" THEN "acq" ELSE spc[c]]

ImplementsRunQueue == RQ!Init /\ [][~panic' => [RQ!Next]_(RQ!vars)]_vars

\* The estimate of a burst stays within the bursts it is made from, through
\* every change of policy that change_sched() accepts: it never becomes negative
\* or runs away.  It holds as long as the weight is "in %" (proc.h:122), which
\* change_sched() makes sure of for algorithm 0 only (proc.c:838).
AproxIsABurst == \A p \in Procs : cpu_burst_aprox[p] \in 0..MaxBurst

\* The accounting of a running process changes only in its own timer interrupt:
\* "p->lock must be held when using these" (proc.h:89), and put() has it then.
AccountIsOwn ==
  [][\A c \in CPUs : spc[c] = "run" /\ tpc[c] = "idle" /\ tpc'[c] = "idle"
       => /\ cpu_burst'[hand[c]] = cpu_burst[hand[c]]
          /\ timeslice'[hand[c]] = timeslice[hand[c]]]_vars

\* exe_time grows while a process uses the CPU, and is reset only "when process
\* is suspended or has never been executed on the cpu" (proc.c:770): never for
\* one that has only been preempted.
PreemptedKeepsExeTime ==
  [][\A p \in Procs : state[p] = "RUNNABLE" /\ state'[p] = "RUNNABLE" => exe_time'[p] >= exe_time[p]]_vars
================================================================================
