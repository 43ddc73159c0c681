------------------------------ MODULE JobGraph ------------------------------
(***************************************************************************)
(* What queue_job promises of a graph of jobs that users leave alone: a    *)
(* job runs after all the jobs it depends on, no more than Capacity jobs   *)
(* run at a time, an interrupted job is given back and runs again, and a   *)
(* job that is done stays done.  readme/USAGE.md and CONFIGURE.md of       *)
(* queue_job say so; JobQueue implements it.                               *)
(***************************************************************************)
EXTENDS Naturals, FiniteSets

CONSTANTS Job, Parents, Capacity

VARIABLE st     \* Job: waiting, ready, running, done or failed

Running == {j \in Job : st[j] = "running"}

ParentsDone(j) == \A p \in Parents[j] : st[p] = "done"

Move(j, from, to) == st[j] = from /\ st' = [st EXCEPT ![j] = to]

Init == st = [j \in Job |-> IF Parents[j] = {} THEN "ready" ELSE "waiting"]

\* Jobs whose parents are done become ready, together.
Unblock(S) ==
    /\ \A j \in S : st[j] = "waiting" /\ ParentsDone(j)
    /\ st' = [j \in Job |-> IF j \in S THEN "ready" ELSE st[j]]

Run(j) ==
    /\ Capacity = 0 \/ Cardinality(Running) < Capacity
    /\ Move(j, "ready", "running")

Finish(j) == Move(j, "running", "done")

\* Interrupted, or to be retried
GiveBack(j) == Move(j, "running", "ready")

GiveUp(j) == Move(j, "running", "failed")

Next ==
    \/ \E S \in SUBSET Job : Unblock(S)
    \/ \E j \in Job : Run(j) \/ Finish(j) \/ GiveBack(j) \/ GiveUp(j)

Spec == Init /\ [][Next]_st

=============================================================================
