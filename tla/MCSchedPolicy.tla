----------------------------- MODULE MCSchedPolicy -----------------------------
(* SchedPolicy for TLC: what programs pass to chsched().                    *)
EXTENDS SchedPolicy

\* From the boot policy, shortest job first without preemption, to completely
\* fair and to shortest job first with preemption; and two weights that
\* change_sched() refuses.
AllPolicies == {<<1, 0, 50>>, <<0, 1, 50>>, <<0, 0, 500>>, <<0, 0, -1>>}

\* Completely fair, with a weight that leaves the estimate as it is.
FairOnly == {<<1, 0, 0>>}

\* Completely fair, with a weight that is no percentage.
FairWeight == {<<1, 0, 500>>}
================================================================================
