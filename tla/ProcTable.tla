------------------------------- MODULE ProcTable -------------------------------
(***************************************************************************)
(* The process layer of kernel/proc.c under its locks: scheduler() on every*)
(* CPU, the process life cycle (fork, exit, wait, kill), sleep and wakeup, *)
(* the timer interrupt with yield(), and sys_sleep() with clockintr().     *)
(*                                                                         *)
(* Grain.  A step runs from one lock acquisition to the next.  Code that   *)
(* needs only one lock from acquire to release is one step whose guard is  *)
(* that the lock is free; a lock that is held over several steps (p->lock  *)
(* over swtch(), wait_lock over exit() and wait(), tickslock over          *)
(* clockintr()) is a variable that names the CPU holding it.  pid_lock and *)
(* proc_sched.lock are only ever held inside one step.                     *)
(*                                                                         *)
(* kpc[p] is where process p is, in user mode or in the kernel; it moves   *)
(* only while some CPU runs p.  The ready heap is a bag (see RunQueue); the*)
(* policy that decides when timer_routine() yields is left open, except    *)
(* that Preempts = FALSE stands for the boot policy, in which it never     *)
(* does.                                                                   *)
(***************************************************************************)
EXTENDS Integers, FiniteSets

CONSTANTS NPROC,      \* slots of the process table and of the ready heap
          NCPU,       \* harts
          Preempts,   \* whether timer_routine() may yield
          Calls,      \* the system calls user programs make
          KillPids,   \* the pids they pass to kill()
          SleepTicks, \* the ticks they pass to sleep(), as the unsigned test reads them
          MaxPid      \* bound: the last pid allocpid() hands out

ASSUME ProcTableAssumption ==
  /\ NPROC \in Nat \ {0}
  /\ NCPU \in Nat \ {0}
  /\ Preempts \in BOOLEAN
  /\ KillPids \subseteq Nat
  /\ SleepTicks \subseteq Nat
  /\ MaxPid \in Nat \ {0}

Procs == 0..NPROC-1
CPUs == 0..NCPU-1
NULL == -1
initproc == 0
TICKS == NPROC        \* the channel &ticks; the channel of wait() is the process itself

VARIABLES
  state, chan, killed, pid, parent,       \* struct proc
  ready, heap_size,                       \* proc_sched
  spc, hand,                              \* scheduler() on each CPU, as in RunQueue
  irq,                                    \* the interrupt each CPU is serving
  clk,                                    \* clockintr(): the slot wakeup() looks at next
  plock, wait_lock, tickslock,            \* the CPU that holds each lock, or NULL
  kpc, rpc,                               \* where p is, and where yield() returns to
  idx, jdx, havekids, arg,                \* locals of the system call p is in
  rem,                                    \* ticks that sys_sleep() of p has yet to see
  nextpid,
  panic                                   \* why the kernel stopped, or "none"

procVars == <<state, chan, killed, pid, parent>>
heapVars == <<ready, heap_size>>
cpuVars == <<spc, hand, irq, clk>>
lockVars == <<plock, wait_lock, tickslock>>
threadVars == <<kpc, rpc, idx, jdx, havekids, arg, rem>>
vars == <<procVars, heapVars, cpuVars, lockVars, threadVars, nextpid, panic>>

\* Where a process holds no lock, so that interrupts are on ...
Interruptible == {"user", "ret", "fork_scan", "fork_parent", "fork_put", "exit_lock",
                  "wait_lock", "kill_scan", "sleep_lock", "sleep_relock"}
\* ... where it holds none, but usertrap() has not turned them on ...
Masked == {"exit_trap"}
\* ... where it holds wait_lock or tickslock ...
HoldsWaitLock == {"exit_reparent", "exit_wakeinit", "exit_wakeparent", "exit_zombie",
                  "wait_scan", "wait_sleep"}
HoldsTicksLock == {"sleep_sleep"}
\* ... and where swtch() has left it, with its own lock held.
Switched == {"forkret", "yield", "wait_slept", "sleep_slept", "dead"}
Places == Interruptible \cup Masked \cup HoldsWaitLock \cup HoldsTicksLock \cup Switched

procstate == {"UNUSED", "USED", "SLEEPING", "RUNNABLE", "RUNNING", "ZOMBIE"}

TypeOK ==
  /\ state \in [Procs -> procstate]
  /\ chan \in [Procs -> Procs \cup {TICKS, NULL}]
  /\ killed \in [Procs -> BOOLEAN]
  /\ pid \in [Procs -> 0..MaxPid]
  /\ parent \in [Procs -> Procs \cup {NULL}]
  /\ ready \in [Procs -> Nat]
  /\ heap_size \in 0..NPROC
  /\ spc \in [CPUs -> {"get", "acq", "run", "back"}]
  /\ hand \in [CPUs -> Procs \cup {NULL}]
  /\ irq \in [CPUs -> {"none", "clock", "timer"}]
  /\ clk \in 0..NPROC
  /\ plock \in [Procs -> CPUs \cup {NULL}]
  /\ wait_lock \in CPUs \cup {NULL}
  /\ tickslock \in CPUs \cup {NULL}
  /\ kpc \in [Procs -> Places]
  /\ rpc \in [Procs -> Interruptible]
  /\ idx \in [Procs -> 0..NPROC]
  /\ jdx \in [Procs -> 0..NPROC]
  /\ havekids \in [Procs -> BOOLEAN]
  /\ arg \in [Procs -> Nat]
  /\ rem \in [Procs -> Nat]
  /\ nextpid \in 1..MaxPid+1
  /\ panic \in {"none", "init exiting", "heap overflow"}

\* The machine after procinit() and userinit(): init is in the heap.
Init ==
  /\ state = [p \in Procs |-> IF p = initproc THEN "RUNNABLE" ELSE "UNUSED"]
  /\ chan = [p \in Procs |-> NULL]
  /\ killed = [p \in Procs |-> FALSE]
  /\ pid = [p \in Procs |-> IF p = initproc THEN 1 ELSE 0]
  /\ parent = [p \in Procs |-> NULL]
  /\ ready = [p \in Procs |-> IF p = initproc THEN 1 ELSE 0]
  /\ heap_size = 1
  /\ spc = [c \in CPUs |-> "get"]
  /\ hand = [c \in CPUs |-> NULL]
  /\ irq = [c \in CPUs |-> "none"]
  /\ clk = 0
  /\ plock = [p \in Procs |-> NULL]
  /\ wait_lock = NULL
  /\ tickslock = NULL
  /\ kpc = [p \in Procs |-> "forkret"]
  /\ rpc = [p \in Procs |-> "user"]
  /\ idx = [p \in Procs |-> 0]
  /\ jdx = [p \in Procs |-> 0]
  /\ havekids = [p \in Procs |-> FALSE]
  /\ arg = [p \in Procs |-> 0]
  /\ rem = [p \in Procs |-> 0]
  /\ nextpid = 2
  /\ panic = "none"

-----------------------------------------------------------------------------
(* put(), wakeup(), freeproc(), sched(): the pieces of the steps below *)

\* put(q).  heap[] has NPROC entries: one more is written over heap_size and the
\* padding after it.  heap_size then is half of a kernel address, and
\* heapify_up() faults on it: the kernel stops.
put(q) ==
  /\ state' = [state EXCEPT ![q] = "RUNNABLE"]
  /\ \/ /\ heap_size < NPROC
        /\ ready' = [ready EXCEPT ![q] = @ + 1]
        /\ heap_size' = heap_size + 1
        /\ UNCHANGED panic
     \/ /\ heap_size >= NPROC
        /\ panic' = "heap overflow"
        /\ UNCHANGED <<ready, heap_size>>

\* Mutant of wakeup: chan is compared, but not the state.
wakeupAwake(q, ch, self) ==
  IF q # self /\ plock[q] = NULL /\ chan[q] = ch
    THEN put(q)
    ELSE (q = self \/ plock[q] = NULL) /\ UNCHANGED <<ready, heap_size, state, panic>>

\* Mutant of wakeup: chan is compared with the caller.
wakeupCaller(q, ch, self) ==
  IF q # self /\ plock[q] = NULL /\ state[q] = "SLEEPING" /\ chan[q] = self
    THEN put(q)
    ELSE (q = self \/ plock[q] = NULL) /\ UNCHANGED <<ready, heap_size, state, panic>>

\* One turn of the loop of wakeup(ch), called by self (NULL in an interrupt
\* that found the CPU in scheduler()).
wakeup(q, ch, self) ==
  \/ /\ q # self
     /\ plock[q] = NULL
     /\ state[q] = "SLEEPING" /\ chan[q] = ch
     /\ put(q)
  \/ /\ q # self
     /\ plock[q] = NULL
     /\ ~(state[q] = "SLEEPING" /\ chan[q] = ch)
     /\ UNCHANGED <<ready, heap_size, state, panic>>
  \/ /\ q = self
     /\ UNCHANGED <<ready, heap_size, state, panic>>

\* Mutant of freeproc: the mark of kill() stays.
freeprocKilled(q) ==
  /\ state' = [state EXCEPT ![q] = "UNUSED"]
  /\ pid' = [pid EXCEPT ![q] = 0]
  /\ parent' = [parent EXCEPT ![q] = NULL]
  /\ chan' = [chan EXCEPT ![q] = NULL]
  /\ UNCHANGED killed

\* freeproc(q): the slot is free again, and unkilled.
freeproc(q) ==
  /\ state' = [state EXCEPT ![q] = "UNUSED"]
  /\ pid' = [pid EXCEPT ![q] = 0]
  /\ parent' = [parent EXCEPT ![q] = NULL]
  /\ chan' = [chan EXCEPT ![q] = NULL]
  /\ killed' = [killed EXCEPT ![q] = FALSE]

\* sched(): p, whose lock c has, leaves the CPU and will be found at `at'.
sched(c, p, at) ==
  /\ plock' = [plock EXCEPT ![p] = c]
  /\ spc' = [spc EXCEPT ![c] = "back"]
  /\ kpc' = [kpc EXCEPT ![p] = at]

\* CPU c executes process code, and no interrupt is in the way.
Runs(c, at) ==
  /\ panic = "none"
  /\ irq[c] = "none"
  /\ spc[c] = "run"
  /\ kpc[hand[c]] = at

\* myproc() on CPU c.
myproc(c) == IF spc[c] \in {"run", "back"} THEN hand[c] ELSE NULL

goto(p, at) == kpc' = [kpc EXCEPT ![p] = at]

\* sleep(ch, lk) up to swtch(); the caller's step also releases lk.
sleep(c, p, ch, at) ==
  /\ plock[p] = NULL
  /\ chan' = [chan EXCEPT ![p] = ch]
  /\ state' = [state EXCEPT ![p] = "SLEEPING"]
  /\ sched(c, p, at)

-----------------------------------------------------------------------------
(* scheduler() *)

\* get() under proc_sched.lock.  It finds the heap empty and tries again, or
\* takes an entry out.
SchedGet(c) ==
  /\ panic = "none" /\ irq[c] = "none" /\ spc[c] = "get"
  /\ heap_size > 0
  /\ \E p \in Procs :
       /\ ready[p] > 0
       /\ ready' = [ready EXCEPT ![p] = @ - 1]
       /\ hand' = [hand EXCEPT ![c] = p]
  /\ heap_size' = heap_size - 1
  /\ spc' = [spc EXCEPT ![c] = "acq"]
  /\ UNCHANGED <<procVars, irq, clk, lockVars, threadVars, nextpid, panic>>

\* Mutant of SchedRun: p->lock is not waited for.
SchedRunUnlocked(c) ==
  LET p == hand[c] IN
  /\ panic = "none" /\ irq[c] = "none" /\ spc[c] = "acq"
  /\ state[p] = "RUNNABLE"
  /\ state' = [state EXCEPT ![p] = "RUNNING"]
  /\ plock' = [plock EXCEPT ![p] = c]
  /\ spc' = [spc EXCEPT ![c] = "run"]
  /\ UNCHANGED <<chan, killed, pid, parent, heapVars, hand, irq, clk, wait_lock, tickslock,
                 threadVars, nextpid, panic>>

\* acquire(&p->lock), and p is RUNNABLE: swtch() to it with the lock held.
SchedRun(c) ==
  LET p == hand[c] IN
  /\ panic = "none" /\ irq[c] = "none" /\ spc[c] = "acq"
  /\ plock[p] = NULL
  /\ state[p] = "RUNNABLE"
  /\ state' = [state EXCEPT ![p] = "RUNNING"]
  /\ plock' = [plock EXCEPT ![p] = c]
  /\ spc' = [spc EXCEPT ![c] = "run"]
  /\ UNCHANGED <<chan, killed, pid, parent, heapVars, hand, irq, clk, wait_lock, tickslock,
                 threadVars, nextpid, panic>>

\* acquire(&p->lock), but p is not RUNNABLE: the entry is dropped.
SchedSkip(c) ==
  LET p == hand[c] IN
  /\ panic = "none" /\ irq[c] = "none" /\ spc[c] = "acq"
  /\ plock[p] = NULL
  /\ state[p] # "RUNNABLE"
  /\ spc' = [spc EXCEPT ![c] = "get"]
  /\ hand' = [hand EXCEPT ![c] = NULL]
  /\ UNCHANGED <<procVars, heapVars, irq, clk, lockVars, threadVars, nextpid, panic>>

\* Back from swtch(): put() again if RUNNABLE, c->proc = 0, release(&p->lock).
SchedBack(c) ==
  LET p == hand[c] IN
  /\ panic = "none" /\ spc[c] = "back"
  /\ \/ state[p] = "RUNNABLE" /\ put(p)
     \/ state[p] # "RUNNABLE" /\ UNCHANGED <<heapVars, state, panic>>
  /\ spc' = [spc EXCEPT ![c] = "get"]
  /\ hand' = [hand EXCEPT ![c] = NULL]
  /\ plock' = [plock EXCEPT ![p] = NULL]
  /\ UNCHANGED <<chan, killed, pid, parent, irq, clk, wait_lock, tickslock, threadVars, nextpid>>

\* The process that has just been switched to releases the p->lock that
\* scheduler() took, and goes on: in forkret(), yield() or sleep().
Resume(c) ==
  LET p == hand[c] IN
  /\ \/ Runs(c, "forkret") /\ goto(p, "user") /\ UNCHANGED chan
     \/ Runs(c, "yield") /\ goto(p, rpc[p]) /\ UNCHANGED chan
     \/ Runs(c, "wait_slept") /\ goto(p, "wait_lock") /\ chan' = [chan EXCEPT ![p] = NULL]
     \/ Runs(c, "sleep_slept") /\ goto(p, "sleep_relock") /\ chan' = [chan EXCEPT ![p] = NULL]
  /\ plock' = [plock EXCEPT ![p] = NULL]
  /\ rpc' = [rpc EXCEPT ![p] = "user"]
  /\ UNCHANGED <<state, killed, pid, parent, heapVars, cpuVars, wait_lock, tickslock,
                 idx, jdx, havekids, arg, rem, nextpid, panic>>

-----------------------------------------------------------------------------
(* Interrupts.  devintr() runs clockintr() on CPU 0 only, and usertrap() and *)
(* kerneltrap() then call timer_routine().  A tick that nothing in the model *)
(* can notice is left out.                                                   *)

Ticks == "sleep" \in Calls

\* Mutant of TimerIntr: acquire() does not turn interrupts off.
TimerIntrUnmasked(c) ==
  /\ panic = "none" /\ irq[c] = "none"
  /\ \/ spc[c] \in {"get", "acq"} /\ Ticks /\ c = 0
     \/ /\ spc[c] = "run" /\ kpc[hand[c]] \in Interruptible \cup HoldsTicksLock
        /\ Preempts \/ (Ticks /\ c = 0)
  /\ irq' = [irq EXCEPT ![c] = IF c = 0 /\ Ticks THEN "clock" ELSE "timer"]
  /\ UNCHANGED <<procVars, heapVars, spc, hand, clk, lockVars, threadVars, nextpid, panic>>

\* A CPU that finds a lock taken is interrupted as one that has not got to its
\* acquire() yet: spinning changes nothing but the interrupt enable.
TimerIntr(c) ==
  /\ panic = "none" /\ irq[c] = "none"
  /\ \/ spc[c] \in {"get", "acq"} /\ Ticks /\ c = 0
     \/ spc[c] = "run" /\ kpc[hand[c]] \in Interruptible /\ (Preempts \/ (Ticks /\ c = 0))
  /\ irq' = [irq EXCEPT ![c] = IF c = 0 /\ Ticks THEN "clock" ELSE "timer"]
  /\ UNCHANGED <<procVars, heapVars, spc, hand, clk, lockVars, threadVars, nextpid, panic>>

\* Mutant of ClockTick: tickslock is not waited for.
ClockTickUnlocked(c) ==
  /\ panic = "none" /\ irq[c] = "clock" /\ tickslock # c
  /\ tickslock' = c
  /\ rem' = [p \in Procs |-> IF rem[p] > 0 THEN rem[p] - 1 ELSE 0]
  /\ UNCHANGED <<procVars, heapVars, cpuVars, plock, wait_lock, kpc, rpc, idx, jdx, havekids, arg,
                 nextpid, panic>>

\* clockintr(): ticks++ under tickslock ...
ClockTick(c) ==
  /\ panic = "none" /\ irq[c] = "clock"
  /\ tickslock = NULL
  /\ tickslock' = c
  /\ rem' = [p \in Procs |-> IF rem[p] > 0 THEN rem[p] - 1 ELSE 0]
  /\ UNCHANGED <<procVars, heapVars, cpuVars, plock, wait_lock, kpc, rpc, idx, jdx, havekids, arg,
                 nextpid, panic>>

\* ... wakeup(&ticks), slot by slot ...
ClockWake(c) ==
  /\ panic = "none" /\ irq[c] = "clock" /\ tickslock = c
  /\ clk < NPROC
  /\ wakeup(clk, TICKS, myproc(c))
  /\ clk' = clk + 1
  /\ UNCHANGED <<chan, killed, pid, parent, spc, hand, irq, lockVars, threadVars, nextpid>>

\* ... and release.
ClockDone(c) ==
  /\ panic = "none" /\ irq[c] = "clock" /\ tickslock = c
  /\ clk = NPROC
  /\ clk' = 0
  /\ tickslock' = NULL
  /\ irq' = [irq EXCEPT ![c] = "timer"]
  /\ UNCHANGED <<procVars, heapVars, spc, hand, plock, wait_lock, threadVars, nextpid, panic>>

\* usertrap() lets a killed process exit before it looks at the timer.
TrapKilled(c) ==
  LET p == hand[c] IN
  /\ panic = "none" /\ irq[c] = "timer" /\ spc[c] = "run"
  /\ kpc[p] = "user" /\ killed[p]
  /\ irq' = [irq EXCEPT ![c] = "none"]
  /\ goto(p, "exit_trap")
  /\ UNCHANGED <<procVars, heapVars, spc, hand, clk, lockVars, rpc, idx, jdx, havekids, arg, rem,
                 nextpid, panic>>

\* timer_routine() returns: no process, or its time is not up.
TimerIgnored(c) ==
  /\ panic = "none" /\ irq[c] = "timer"
  /\ ~(spc[c] = "run" /\ kpc[hand[c]] = "user" /\ killed[hand[c]])
  /\ irq' = [irq EXCEPT ![c] = "none"]
  /\ UNCHANGED <<procVars, heapVars, spc, hand, clk, lockVars, threadVars, nextpid, panic>>

\* Mutant of TimerYield: where to return to is noted after the switch.
TimerYieldLate(c) ==
  LET p == hand[c] IN
  /\ panic = "none" /\ irq[c] = "timer" /\ spc[c] = "run"
  /\ Preempts
  /\ ~(kpc[p] = "user" /\ killed[p])
  /\ plock[p] = NULL
  /\ put(p)
  /\ sched(c, p, "yield")
  /\ rpc' = [rpc EXCEPT ![p] = kpc'[p]]
  /\ irq' = [irq EXCEPT ![c] = "none"]
  /\ UNCHANGED <<chan, killed, pid, parent, hand, clk, wait_lock, tickslock,
                 idx, jdx, havekids, arg, rem, nextpid>>

\* timer_routine() calls yield().
TimerYield(c) ==
  LET p == hand[c] IN
  /\ panic = "none" /\ irq[c] = "timer" /\ spc[c] = "run"
  /\ Preempts
  /\ ~(kpc[p] = "user" /\ killed[p])
  /\ plock[p] = NULL
  /\ put(p)
  /\ sched(c, p, "yield")
  /\ rpc' = [rpc EXCEPT ![p] = kpc[p]]
  /\ irq' = [irq EXCEPT ![c] = "none"]
  /\ UNCHANGED <<chan, killed, pid, parent, hand, clk, wait_lock, tickslock,
                 idx, jdx, havekids, arg, rem, nextpid>>

-----------------------------------------------------------------------------
(* System calls: usertrap() on the way in and out *)

\* ecall.  A killed process exits at once; else syscall() dispatches.  The
\* forks under way are counted against MaxPid so that allocpid() can serve them.
Syscall(c) ==
  LET p == hand[c]
      Forking == {q \in Procs : "fork_scan" \in {kpc[q], rpc[q]}}
  IN
  /\ Runs(c, "user")
  /\ \/ /\ killed[p]
        /\ goto(p, "exit_trap")
        /\ UNCHANGED <<arg, killed>>
     \/ /\ ~killed[p]
        /\ \/ /\ "fork" \in Calls /\ nextpid + Cardinality(Forking) <= MaxPid
              /\ goto(p, "fork_scan") /\ UNCHANGED <<arg, killed>>
           \/ "exit" \in Calls /\ goto(p, "exit_lock") /\ UNCHANGED <<arg, killed>>
           \/ "wait" \in Calls /\ goto(p, "wait_lock") /\ UNCHANGED <<arg, killed>>
           \/ /\ "kill" \in Calls /\ goto(p, "kill_scan")
              /\ \E k \in KillPids : arg' = [arg EXCEPT ![p] = k]
              /\ UNCHANGED killed
           \/ /\ "sleep" \in Calls /\ goto(p, "sleep_lock")
              /\ \E n \in SleepTicks : arg' = [arg EXCEPT ![p] = n]
              /\ UNCHANGED killed
     \/ \* not a system call but a fault: usertrap() kills the process
        /\ "fault" \in Calls
        /\ killed' = [killed EXCEPT ![p] = TRUE]
        /\ goto(p, "exit_trap")
        /\ UNCHANGED arg
  /\ UNCHANGED <<state, chan, pid, parent, heapVars, cpuVars, lockVars, rpc, idx, jdx, havekids, rem,
                 nextpid, panic>>

\* After syscall(): if(p->killed) exit(-1), else back to user mode.
SyscallRet(c) ==
  LET p == hand[c] IN
  /\ Runs(c, "ret")
  /\ goto(p, IF killed[p] THEN "exit_lock" ELSE "user")
  /\ UNCHANGED <<procVars, heapVars, cpuVars, lockVars, rpc, idx, jdx, havekids, arg, rem,
                 nextpid, panic>>

-----------------------------------------------------------------------------
(* fork() *)

\* allocproc() looks at slot idx under its lock.  A free slot becomes the child
\* np, and the lock is kept until it has its memory and files; if those cannot
\* be had the slot is freed again.  No free slot: fork() fails.
ForkScan(c) ==
  LET p == hand[c]
      q == idx[p]
  IN
  /\ Runs(c, "fork_scan")
  /\ plock[q] = NULL
  /\ \/ /\ state[q] = "UNUSED"
        /\ \/ /\ state' = [state EXCEPT ![q] = "USED"]
              /\ pid' = [pid EXCEPT ![q] = nextpid]
              /\ kpc' = [kpc EXCEPT ![p] = "fork_parent", ![q] = "forkret"]
              /\ UNCHANGED <<chan, killed, parent, idx>>
           \/ /\ freeproc(q)
              /\ goto(p, "ret")
              /\ idx' = [idx EXCEPT ![p] = 0]
        /\ nextpid' = nextpid + 1
     \/ /\ state[q] # "UNUSED"
        /\ \/ q + 1 < NPROC /\ idx' = [idx EXCEPT ![p] = q + 1] /\ UNCHANGED kpc
           \/ q + 1 = NPROC /\ idx' = [idx EXCEPT ![p] = 0] /\ goto(p, "ret")
        /\ UNCHANGED <<procVars, nextpid>>
  /\ UNCHANGED <<heapVars, cpuVars, lockVars, rpc, jdx, havekids, arg, rem, panic>>

\* np->parent = p under wait_lock, with no other lock held.
ForkParent(c) ==
  LET p == hand[c] IN
  /\ Runs(c, "fork_parent")
  /\ wait_lock = NULL
  /\ parent' = [parent EXCEPT ![idx[p]] = p]
  /\ goto(p, "fork_put")
  /\ UNCHANGED <<state, chan, killed, pid, heapVars, cpuVars, lockVars, rpc, idx, jdx, havekids,
                 arg, rem, nextpid, panic>>

\* put(np) under np->lock.
ForkPut(c) ==
  LET p == hand[c] IN
  /\ Runs(c, "fork_put")
  /\ plock[idx[p]] = NULL
  /\ put(idx[p])
  /\ goto(p, "ret")
  /\ idx' = [idx EXCEPT ![p] = 0]
  /\ UNCHANGED <<chan, killed, pid, parent, cpuVars, lockVars, rpc, jdx, havekids, arg, rem, nextpid>>

-----------------------------------------------------------------------------
(* exit() *)

\* Called by sys_exit() or at the end of a system call, or by usertrap() with
\* interrupts still off.
Exiting(c) == Runs(c, "exit_lock") \/ Runs(c, "exit_trap")

\* if(p == initproc) panic("init exiting").
ExitInit(c) ==
  /\ Exiting(c)
  /\ hand[c] = initproc
  /\ panic' = "init exiting"
  /\ UNCHANGED <<procVars, heapVars, cpuVars, lockVars, threadVars, nextpid>>

\* Mutant of ExitLock: reparent() is not called.
ExitLockOnly(c) ==
  LET p == hand[c] IN
  /\ Exiting(c)
  /\ p # initproc
  /\ wait_lock = NULL
  /\ wait_lock' = c
  /\ goto(p, "exit_wakeparent")
  /\ UNCHANGED <<procVars, heapVars, cpuVars, plock, tickslock, rpc, idx, jdx, havekids, arg, rem,
                 nextpid, panic>>

\* acquire(&wait_lock).
ExitLock(c) ==
  LET p == hand[c] IN
  /\ Exiting(c)
  /\ p # initproc
  /\ wait_lock = NULL
  /\ wait_lock' = c
  /\ goto(p, "exit_reparent")
  /\ UNCHANGED <<procVars, heapVars, cpuVars, plock, tickslock, rpc, idx, jdx, havekids, arg, rem,
                 nextpid, panic>>

\* Slots from i on whose parent is p: where the loops of reparent() and wait() act.
Children(p, i) == {q \in Procs : q >= i /\ parent[q] = p}

First(S) == CHOOSE q \in S : \A r \in S : q <= r

\* reparent(p): the next child is init's, and init is woken for each.
ExitReparent(c) ==
  LET p == hand[c]
      kids == Children(p, idx[p])
  IN
  /\ Runs(c, "exit_reparent")
  /\ \/ /\ kids # {}
        /\ parent' = [parent EXCEPT ![First(kids)] = initproc]
        /\ idx' = [idx EXCEPT ![p] = First(kids)]
        /\ goto(p, "exit_wakeinit")
     \/ /\ kids = {}
        /\ idx' = [idx EXCEPT ![p] = 0]
        /\ goto(p, "exit_wakeparent")
        /\ UNCHANGED parent
  /\ UNCHANGED <<state, chan, killed, pid, heapVars, cpuVars, lockVars, rpc, jdx, havekids, arg, rem,
                 nextpid, panic>>

\* wakeup(ch) from exit(), slot by slot, and then on to `at'.
ExitWakeup(c, p, ch, at) ==
  /\ \/ /\ jdx[p] < NPROC
        /\ wakeup(jdx[p], ch, p)
        /\ jdx' = [jdx EXCEPT ![p] = @ + 1]
        /\ UNCHANGED kpc
     \/ /\ jdx[p] = NPROC
        /\ jdx' = [jdx EXCEPT ![p] = 0]
        /\ goto(p, at)
        /\ UNCHANGED <<state, heapVars, panic>>
  /\ UNCHANGED <<chan, killed, pid, parent, cpuVars, lockVars, rpc, idx, havekids, arg, rem, nextpid>>

ExitWakeInit(c) ==
  Runs(c, "exit_wakeinit") /\ ExitWakeup(c, hand[c], initproc, "exit_reparent")

\* Mutant of ExitWakeParent: the wrong channel.
ExitWakeSelf(c) ==
  Runs(c, "exit_wakeparent") /\ ExitWakeup(c, hand[c], hand[c], "exit_zombie")

\* Parent might be sleeping in wait().
ExitWakeParent(c) ==
  Runs(c, "exit_wakeparent") /\ ExitWakeup(c, hand[c], parent[hand[c]], "exit_zombie")

\* acquire(&p->lock); ZOMBIE; release(&wait_lock); sched(), never to return.
ExitZombie(c) ==
  LET p == hand[c] IN
  /\ Runs(c, "exit_zombie")
  /\ plock[p] = NULL
  /\ state' = [state EXCEPT ![p] = "ZOMBIE"]
  /\ wait_lock' = NULL
  /\ sched(c, p, "dead")
  /\ UNCHANGED <<chan, killed, pid, parent, heapVars, hand, irq, clk, tickslock, rpc, idx, jdx,
                 havekids, arg, rem, nextpid, panic>>

-----------------------------------------------------------------------------
(* wait() *)

\* acquire(&wait_lock), on the way in and when sleep() returns; havekids = 0.
WaitLock(c) ==
  LET p == hand[c] IN
  /\ Runs(c, "wait_lock")
  /\ wait_lock = NULL
  /\ wait_lock' = c
  /\ goto(p, "wait_scan")
  /\ UNCHANGED <<procVars, heapVars, cpuVars, plock, tickslock, rpc, idx, jdx, havekids, arg, rem,
                 nextpid, panic>>

WaitReturns(p) ==
  /\ wait_lock' = NULL
  /\ goto(p, "ret")
  /\ idx' = [idx EXCEPT ![p] = 0]
  /\ havekids' = [havekids EXCEPT ![p] = FALSE]

\* The next child under its lock: a ZOMBIE is freed and returned, unless its
\* status cannot be copied out; any other is passed over.
WaitScan(c) ==
  LET p == hand[c]
      kids == Children(p, idx[p])
      np == First(kids)
  IN
  /\ Runs(c, "wait_scan")
  /\ kids # {}
  /\ plock[np] = NULL
  /\ \/ /\ state[np] = "ZOMBIE"
        /\ freeproc(np)
        /\ WaitReturns(p)
     \/ /\ state[np] = "ZOMBIE"
        /\ WaitReturns(p)
        /\ UNCHANGED procVars
     \/ /\ state[np] # "ZOMBIE"
        /\ idx' = [idx EXCEPT ![p] = np + 1]
        /\ havekids' = [havekids EXCEPT ![p] = TRUE]
        /\ UNCHANGED <<procVars, wait_lock, kpc>>
  /\ UNCHANGED <<heapVars, cpuVars, plock, tickslock, rpc, jdx, arg, rem, nextpid, panic>>

\* All children seen: return -1, or go to sleep.  p->killed is read without
\* p->lock.
WaitDecide(c) ==
  LET p == hand[c] IN
  /\ Runs(c, "wait_scan")
  /\ Children(p, idx[p]) = {}
  /\ \/ /\ ~havekids[p] \/ killed[p]
        /\ WaitReturns(p)
     \/ /\ havekids[p] /\ ~killed[p]
        /\ goto(p, "wait_sleep")
        /\ idx' = [idx EXCEPT ![p] = 0]
        /\ havekids' = [havekids EXCEPT ![p] = FALSE]
        /\ UNCHANGED wait_lock
  /\ UNCHANGED <<procVars, heapVars, cpuVars, plock, tickslock, rpc, jdx, arg, rem, nextpid, panic>>

\* Mutant of WaitSleep: wait_lock is not released.
WaitSleepLocked(c) ==
  LET p == hand[c] IN
  /\ Runs(c, "wait_sleep")
  /\ sleep(c, p, p, "wait_slept")
  /\ UNCHANGED <<killed, pid, parent, heapVars, hand, irq, clk, wait_lock, tickslock, rpc, idx, jdx,
                 havekids, arg, rem, nextpid, panic>>

\* sleep(p, &wait_lock).
WaitSleep(c) ==
  LET p == hand[c] IN
  /\ Runs(c, "wait_sleep")
  /\ sleep(c, p, p, "wait_slept")
  /\ wait_lock' = NULL
  /\ UNCHANGED <<killed, pid, parent, heapVars, hand, irq, clk, tickslock, rpc, idx, jdx, havekids,
                 arg, rem, nextpid, panic>>

-----------------------------------------------------------------------------
(* kill() *)

\* Slot idx under its lock: the wanted pid is marked and, if asleep, put().
KillScan(c) ==
  LET p == hand[c]
      q == idx[p]
      Return == goto(p, "ret") /\ idx' = [idx EXCEPT ![p] = 0] /\ arg' = [arg EXCEPT ![p] = 0]
  IN
  /\ Runs(c, "kill_scan")
  /\ plock[q] = NULL
  /\ \/ /\ pid[q] = arg[p]
        /\ killed' = [killed EXCEPT ![q] = TRUE]
        /\ \/ state[q] = "SLEEPING" /\ put(q)
           \/ state[q] # "SLEEPING" /\ UNCHANGED <<state, heapVars, panic>>
        /\ Return
     \/ /\ pid[q] # arg[p]
        /\ \/ q + 1 < NPROC /\ idx' = [idx EXCEPT ![p] = q + 1] /\ UNCHANGED <<kpc, arg>>
           \/ q + 1 = NPROC /\ Return
        /\ UNCHANGED <<killed, state, heapVars, panic>>
  /\ UNCHANGED <<chan, pid, parent, cpuVars, lockVars, rpc, jdx, havekids, rem, nextpid>>

-----------------------------------------------------------------------------
(* sys_sleep().  rem[p] is n - (ticks - ticks0), down to 0. *)

\* tickslock is taken, at first with ticks0 = ticks, then on every return from
\* sleep(); the loop ends when the ticks have passed or p is killed.
SleepLock(c) ==
  LET p == hand[c]
      left == IF kpc[p] = "sleep_lock" THEN arg[p] ELSE rem[p]
  IN
  /\ Runs(c, "sleep_lock") \/ Runs(c, "sleep_relock")
  /\ tickslock = NULL
  /\ \/ /\ left = 0 \/ killed[p]
        /\ goto(p, "ret")
        /\ rem' = [rem EXCEPT ![p] = 0]
        /\ UNCHANGED tickslock
     \/ /\ left > 0 /\ ~killed[p]
        /\ goto(p, "sleep_sleep")
        /\ rem' = [rem EXCEPT ![p] = left]
        /\ tickslock' = c
  /\ arg' = [arg EXCEPT ![p] = 0]
  /\ UNCHANGED <<procVars, heapVars, cpuVars, plock, wait_lock, rpc, idx, jdx, havekids, nextpid, panic>>

\* sleep(&ticks, &tickslock).
SleepSleep(c) ==
  LET p == hand[c] IN
  /\ Runs(c, "sleep_sleep")
  /\ sleep(c, p, TICKS, "sleep_slept")
  /\ tickslock' = NULL
  /\ UNCHANGED <<killed, pid, parent, heapVars, hand, irq, clk, wait_lock, rpc, idx, jdx, havekids,
                 arg, rem, nextpid, panic>>

-----------------------------------------------------------------------------
\* panic() loops forever; the other CPUs are of no interest after it.
Panicked == panic # "none" /\ UNCHANGED vars

CpuStep(c) ==
  \/ SchedGet(c) \/ SchedRun(c) \/ SchedSkip(c) \/ SchedBack(c) \/ Resume(c)
  \/ ClockTick(c) \/ ClockWake(c) \/ ClockDone(c) \/ TrapKilled(c) \/ TimerIgnored(c) \/ TimerYield(c)
  \/ SyscallRet(c)
  \/ ForkScan(c) \/ ForkParent(c) \/ ForkPut(c)
  \/ ExitInit(c) \/ ExitLock(c) \/ ExitReparent(c) \/ ExitWakeInit(c) \/ ExitWakeParent(c)
  \/ ExitZombie(c)
  \/ WaitLock(c) \/ WaitScan(c) \/ WaitDecide(c) \/ WaitSleep(c)
  \/ KillScan(c)
  \/ SleepLock(c) \/ SleepSleep(c)

Next == Panicked \/ \E c \in CPUs : TimerIntr(c) \/ Syscall(c) \/ CpuStep(c)

Spec == Init /\ [][Next]_vars

\* CPUs do not stop: one that can take a step goes on, and the timer of CPU 0,
\* pending since it fired, interrupts it if interrupts are enabled again and
\* again.  Nothing is assumed of user programs.
Fairness ==
  /\ \A c \in CPUs : WF_vars(CpuStep(c))
  /\ SF_vars(TimerIntr(0))

FairSpec == Spec /\ Fairness

-----------------------------------------------------------------------------
(* Scheduling *)

\* Until it stops, every step of the process layer is a step of RunQueue or
\* leaves RunQueue's variables alone: p->lock, handed over swtch(), is enough
\* to make dispatching, yielding, exiting and reaping atomic.
RQ == INSTANCE RunQueue WITH Cap <- NPROC

ImplementsRunQueue ==
  RQ!Init /\ [][panic' = "none" => RQ!Next]_<<state, ready, heap_size, spc, hand>>

\* A CPU that is between swtch() and the scheduler holds the lock of the process
\* it leaves and no other: sched()'s "sched p->lock", "sched locks" and "sched
\* running" panics (proc.c:513-518) cannot happen.
SchedHoldsOnlyProcLock ==
  \A c \in CPUs : spc[c] = "back" =>
    /\ {p \in Procs : plock[p] = c} = {hand[c]}
    /\ wait_lock # c /\ tickslock # c
    /\ state[hand[c]] # "RUNNING"

\* The holder of the lock CPU c needs for its next step, or NULL: the lock is
\* free, or the step needs none.
Awaits(c) ==
  LET p == hand[c]
      WokenNext(q, self) == IF q < NPROC /\ q # self THEN plock[q] ELSE NULL
  IN
  CASE irq[c] = "clock" /\ tickslock # c -> tickslock
    [] irq[c] = "clock" /\ tickslock = c -> WokenNext(clk, myproc(c))
    [] irq[c] = "timer" -> IF Preempts /\ spc[c] = "run" THEN plock[p] ELSE NULL
    [] irq[c] = "none" /\ spc[c] = "acq" -> plock[p]
    [] irq[c] = "none" /\ spc[c] = "run" ->
         CASE kpc[p] \in {"fork_parent", "exit_lock", "exit_trap", "wait_lock"} -> wait_lock
           [] kpc[p] \in {"sleep_lock", "sleep_relock"} -> tickslock
           [] kpc[p] \in {"fork_scan", "fork_put", "kill_scan"} -> plock[idx[p]]
           [] kpc[p] \in {"exit_wakeinit", "exit_wakeparent"} -> WokenNext(jdx[p], p)
           [] kpc[p] \in {"exit_zombie", "wait_sleep", "sleep_sleep"} -> plock[p]
           [] kpc[p] = "wait_scan" /\ Children(p, idx[p]) # {} -> plock[First(Children(p, idx[p]))]
           [] OTHER -> NULL
    [] OTHER -> NULL

\* No set of CPUs spins in acquire() for locks that only they themselves hold:
\* wait_lock "must be acquired before any p->lock" (proc.c:28), tickslock too,
\* and no interrupt handler spins for a lock of the CPU it has interrupted
\* (spinlock.c:24).
NoLockCycle ==
  ~ \E S \in SUBSET CPUs \ {{}} : \A c \in S : Awaits(c) \in S

\* No entry is ever written past the end of proc_sched.heap[NPROC].
NoHeapOverflow == panic # "heap overflow"

(* Parents and children *)

\* Whenever wait_lock is free, every process that has been put has a parent that
\* can still call wait() for it: exit() leaves no child with a dead parent, in
\* spite of the window in fork() in which the child has none.
ParentCanWait ==
  \A q \in Procs \ {initproc} :
    state[q] \in {"SLEEPING", "RUNNABLE", "RUNNING", "ZOMBIE"} =>
      /\ parent[q] # NULL
      /\ wait_lock = NULL => state[parent[q]] \in {"SLEEPING", "RUNNABLE", "RUNNING"}

\* No exit is missed: with wait_lock free, nobody sleeps in wait() while one of
\* its children, its own or one inherited from an exiting process, is a ZOMBIE.
NoLostExit ==
  wait_lock = NULL =>
    \A p, q \in Procs : ~( /\ state[p] = "SLEEPING" /\ chan[p] = p
                           /\ parent[q] = p /\ state[q] = "ZOMBIE" )

(* Sleeping *)

\* No tick is missed: with tickslock free, nobody whose time is up sleeps on.
NoLostTick ==
  tickslock = NULL =>
    \A p \in Procs : state[p] = "SLEEPING" /\ chan[p] = TICKS => rem[p] > 0

\* A process that sleeps for a number of ticks is put back in the heap in the
\* end, unless the kernel stops.
SleepEnds ==
  \A p \in Procs :
    state[p] = "SLEEPING" /\ chan[p] = TICKS ~> state[p] # "SLEEPING" \/ panic # "none"

(* Killing *)

\* A free slot carries no mark of an earlier kill().
FreeSlotIsNotKilled == \A p \in Procs : state[p] = "UNUSED" => ~killed[p]
===============================================================================
