# A TLA+ model of the xv6 process scheduler

This directory models the process layer of the kernel in `src/kernel`: xv6 for
RISC-V, whose round-robin scan of the process table has been replaced by a ready
heap with two policies, shortest job first (algorithm 0) and completely fair
(algorithm 1). It holds TLA+ modules, TLC configurations for small instances, and
proofs checked by TLAPS. `PROJECT.json` lists components, runs, findings, hazards
and theorems, and maps definitions to source lines.

## Inventory

| Part | State | Operations | Status |
|---|---|---|---|
| process table (`proc.c`) | `state`, `chan`, `killed`, `pid`, `parent` of each slot; `wait_lock`, `p->lock` | fork, exit, wait, kill, sleep, wakeup | ProcTable |
| scheduler (`proc.c`) | `cpu->proc`, where each CPU is | scheduler, sched, yield, forkret | RunQueue, ProcTable |
| ready heap (`proc.c`) | `proc_sched.heap`, `heap_size` | put, get, heapify, rearrange | HeapOps, ReadyHeap |
| policy (`proc.c`) | `a`, `algorithm`, `is_preemptive`; five accounting fields per process | put, get, timer_routine, change_sched | SchedPolicy |
| timer and traps (`trap.c`) | `ticks`, `tickslock` | usertrap, kerneltrap, clockintr, sys_sleep | ProcTable, SchedPolicy |
| spin and sleep locks | `noff`, `intena`; `locked`, `pid` | push_off, acquire, acquiresleep | planned |
| pipes | ring buffer, open ends | read, write, close | planned |
| log, buffer cache, disk driver | header, pins, descriptors | begin_op, commit, bget, rw, intr | planned |
| memory, file and inode tables | free list, reference counts | kalloc, fileclose, iget, iput | planned |
| uart, console | ring buffers | putc, intr, read | planned |
| virtual memory, exec, boot, printing, user programs | | | not modelled |

How the modelled parts interact: a timer interrupt (`trap.c`) calls
`timer_routine()`, which may `yield()`; `yield()`, `fork()`, `wakeup()`, `kill()`
and `scheduler()` itself `put()` a process in the heap; every CPU's `scheduler()`
takes one out with `get()`, acquires its lock and switches to it. `p->lock` is
held across `swtch()` and released on the other side.

What is hard about it: a process that yields is in the heap *before* it is off
its CPU, and is put a *second* time by the scheduler, so that entries are
duplicated and go stale; `get()` touches a process without its lock; sleepers
depend on wakeups from interrupts and from other processes that are exiting; and
slots are reused while old entries for them are still in the heap.

## Modules

- **RunQueue** is the abstract specification. A process has a state, the heap is
  a bag (`ready[p]` counts entries), and a CPU is at `get`, `acq` (it has an entry
  and waits for `p->lock`), `run` or `back` (after `swtch()`, still holding
  `p->lock`). `Leaving(p)` says that a CPU at `back` still has the lock. `Cap`
  bounds the heaps looked at; `put()` itself tests nothing (see NoHeapOverflow).
- **ProcTable** is the process layer with its locks. A step runs from one lock
  acquisition to the next. `plock`, `wait_lock` and `tickslock` name the CPU that
  holds them; `kpc[p]` is where process `p` is in the kernel. The loops of
  `wakeup()`, `kill()` and `allocproc()` visit one slot per step; those of
  `wait()` and `reparent()` visit one child per step, because they take a lock
  only for a child. `rem[p]` is `n - (ticks - ticks0)` of `sys_sleep()`, which is
  all that `ticks` is used for there. `Preempts` leaves open when
  `timer_routine()` yields; `FALSE` is the boot policy, which never does.
  `Awaits(c)` is the CPU that holds the lock CPU `c` needs next. A CPU that finds
  a lock taken may be interrupted in the model, as one that has not got to its
  `acquire()` yet; a real one spins with interrupts off, which changes nothing else.
  It implements RunQueue with the same variables (`ImplementsRunQueue`).
- **HeapOps** has the array loops as recursive operators, index by index as in
  the C code. **ReadyHeap** runs `put`, `get` and `change_sched` over them with
  arbitrary keys.
- **SchedPolicy** computes the keys: averaging, `exe_time`, time slices. `get()`
  is two steps under algorithm 1 and every access of `timer_routine()` to the
  process is one of its own, because it takes no lock; the policy it reads, and
  `change_sched()` writes, in one step. It implements RunQueue with
  `ready[p]` the number of entries of `p` in the array.
- **RunQueueProofs** proves theorems about RunQueue.
- **MCRunQueue, MCProcTable, MCReadyHeap, MCSchedPolicy** are the roots of the
  TLC runs. Operators whose comment begins "Mutant of" are faulty variants of a
  definition, one for each checked property; they are not part of any
  specification.

Writing past the end of `heap[]` is undefined behaviour: the entry lands on
`heap_size` and the padding before the lock, and `heapify_up()` then indexes with
half of a kernel address. The models stop there (`panic`), and the refinement speaks of the steps
before it.

## Runs

Passing runs:

| Run | Instance | Shows |
|---|---|---|
| run_queue | 3 processes, 2 CPUs, 4 entries, symmetric | no process lost, no stack shared or freed in use |
| proc_life_cycle | 3 slots, 2 CPUs, boot policy, pids to 4 | no overflow without preemption, orphans, exit/wait handshake, no mark of kill left in a free slot; ProcTable implements RunQueue |
| proc_preempt | 2 processes in 3 slots, 2 CPUs, all calls, sleeps of 1 and 2 ticks, preemption anywhere interrupts are on | no CPUs wait for each other's locks in a circle, `sched()` is entered with `p->lock` alone; ProcTable implements RunQueue |
| proc_sleep | 3 slots, 2 CPUs, sleeps of 2 ticks, so that the loop goes round again, and kill | no tick missed; sleepers are woken (liveness) |
| heap_entries | 3 processes, 5 entries with duplicates, both policies | the loops only permute entries |
| policy | 2 slots, 2 CPUs, 1 tick of the clock and bursts to 2, both policies, with and without preemption, refused weights | estimates in range, slices within the ticks gone by; SchedPolicy implements RunQueue |

Runs that find a violation (each is a finding in `PROJECT.json`):

| Run | What happens |
|---|---|
| proc_heap_overflow | every preemption adds an entry, on one CPU already |
| proc_kill_free_slot | `kill(0)` marks a free slot; its next process starts killed |
| heap_shortest_of_four | with four entries `get()` returns a longer job |
| policy_weight | a weight of 500 comes in with algorithm 1, and the estimate leaves the range of the bursts |
| policy_exe_time | the second `put()` of a preemption resets `exe_time` |
| policy_own_account | `get()` rewrites the account of a process another CPU runs |

The models show four more things for which no run is kept: a process killed
between the test and the sleep of `wait()` (proc.c:437) sleeps until a child
exits; `rearrange_heap()` can leave a longer job at the root; a slice given by the
fair policy still preempts under non-preemptive shortest job first (proc.c:860);
and on two CPUs the test for equality there can be missed, when `get()` finds a
duplicate entry of a running process and gives it a slice its burst has passed.

Bounds. Three processes are init, a parent and a child, enough for orphans, for
a killer with a victim and a bystander, and for reuse of a slot (`MaxPid` exceeds
the number of slots in proc_life_cycle). Two CPUs give every pairwise race, and
two processes in proc_preempt every pair of lock holders; the third slot leaves
the heap room for duplicates. `Cap` is one more than the processes in run_queue,
so duplicates fit. The clock of CPU 0 ticks once in policy, and the timer of CPU 1
as often as `MaxBurst` lets it. `MaxPid`, `MaxTicks`, `MaxBurst` and ReadyHeap's `Cap` are bounds of the models, not of the
code; the runs of RunQueue and SchedPolicy do not check deadlock because their
behaviours end at a bound or at a full heap. The runs of ProcTable do check it.

Fairness (proc_sleep). A CPU that can take a kernel step
takes it (weak fairness per CPU: CPUs do not stop). The timer of CPU 0 is taken
if interrupts are enabled there again and again (strong fairness: a pending
interrupt stays pending). User programs owe nothing: they may never make another
system call. Spin locks are not assumed fair beyond this.

## Proofs

RunQueueProofs shows, for any sets of processes and CPUs and any bound on the heap
(`NullAssumption`), that `IInv` is inductive: typing,
`NoLostProcess`, `OneCpuPerProcess`, `RunningIsOnCpu` and `FreeSlotIsOffCpu`.
`OneCpuPerProcess` alone is not inductive: the CPU that dispatches `p` must know
that no other CPU runs `p`, which follows from `p` being RUNNABLE
(`RunningIsOnCpu`), and that none is leaving it, which is the lock
(`~Leaving`). `FreeSlotIsOffCpu` rests on the same two facts at `Reap`.
`NoLostProcess` needs only typing: an entry leaves the heap into a hand, and a
hand is emptied only over a process that is not RUNNABLE or is put again.
There is one lemma per conjunct and one step per action in each.

Only model-checked: everything about ProcTable, ReadyHeap and SchedPolicy, both
refinements, and liveness. HeapOps is recursive and out of the prover's reach.

## Not modelled

Exit status, memory, open files and current directories (so `exit()` does not
sleep in `begin_op()` before it takes `wait_lock`), `fsinit()` in the first
`forkret()`, external interrupts, `growproc()`, 32-bit wrap-around of `ticks`
and of pids. The `put()` of `fork()` calls `holding(&np->lock)` with interrupts on. A
process that is moved to another CPU between the two reads of `holding()` may take
a lock held by that CPU earlier for its own, and put the child without the lock.
The child is USED then, and the others who take the lock of a USED process
(`wakeup()`, `kill()`, `allocproc()`) find nothing to do to its state, so the
outcome is that of the locked `put()`, which is the step in ProcTable.

## Plan

1. Storage: SleepLock; Bio over it; VirtioDisk with an external device; Log with
   crashes at every disk write, implementing an atomic disk
   (INSTANCE with a refinement mapping).
2. Communication: Pipe, implementing a bounded byte stream, with liveness of
   reader and writer; Uart and Console ring buffers.
3. Resources: Kalloc, FileTable, InodeTable: reference counts and their races.
4. Spinlock: `push_off`/`pop_off` nesting against interrupts and `sched()`'s
   saving of `intena`.
5. Proofs: typing and `SchedHoldsOnlyProcLock` of ProcTable, then its refinement
   of RunQueue; the recovery invariant of Log; the counters of Pipe; a stepwise
   form of the heap loops for `EntriesKept`.
