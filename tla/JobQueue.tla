------------------------------ MODULE JobQueue ------------------------------
(***************************************************************************)
(* queue_job: jobs stored in the table queue_job, a job runner that keeps  *)
(* one channel of them in memory, and Odoo workers that execute them.      *)
(*                                                                         *)
(* The runner (jobrunner/runner.py, channels.py) learns of the table by    *)
(* notifications, which it reads late; it marks a job enqueued and asks    *)
(* for it by an HTTP request that nobody acknowledges.  A worker           *)
(* (controllers/main.py, job.py) uses three transactions per job: mark it  *)
(* started; lock and perform it and mark it done; wake the jobs that       *)
(* depend on it.  Odoo transactions run at REPEATABLE READ: an update of a *)
(* row that changed since the snapshot fails.  Failures and postponements  *)
(* are written by a new cursor, that is, over whatever is there.           *)
(***************************************************************************)
EXTENDS Naturals, FiniteSets

CONSTANTS
    Job,
    Worker,
    Parents,        \* depends_on
    Capacity,       \* of the channel; 0: unlimited
    Sequential,     \* the channel's option
    MaxRetries,     \* max_retries of every job; 0: infinite
    Outcomes,       \* what performing a job can end in
    Faults,         \* what can go wrong around it
    Acts,           \* what users do in the job views
    FaultBound,     \* number of faults in a behaviour
    ActBound,       \* number of user actions in a behaviour
    RequestBound,   \* requests under way for one job
    RetryBound,     \* attempts with which a job is postponed
    NoJob

ASSUME JobQueueAssumption ==
    /\ IsFiniteSet(Job)
    /\ Parents \in [Job -> SUBSET Job]
    /\ Capacity \in Nat
    /\ Sequential \in BOOLEAN
    /\ MaxRetries \in Nat
    /\ Outcomes \subseteq {"done", "failed", "retry", "ignore", "conflict"}
    /\ Faults \subseteq {"lost request", "crash", "crash before waking", "restart", "slow start"}
    /\ Acts \subseteq {"requeue", "done", "cancel"}
    /\ FaultBound \in Nat /\ ActBound \in Nat
    /\ RequestBound \in Nat /\ RetryBound \in Nat
    /\ NoJob \notin Job

VARIABLES
    state,      \* Job: state
    retry,      \* Job: retry
    eta,        \* Job: no eta, or an eta that the runner's copy has or has not
    fresh,      \* Job: date_enqueued is less than 10 seconds ago
    lockRow,    \* Job: it has a row in queue_job_lock
    reqs,       \* Job: HTTP requests /queue_job/runjob under way
    pc,         \* Worker: where it is in runjob
    on,         \* Worker: the job it handles
    tries,      \* Worker: Job.retry in its memory
    ready,      \* Worker: the parents it read at the start were all done
    clean,      \* Worker: the job's row is as in its snapshot
    queue,      \* runner: jobs in Channel._queue
    running,    \* runner: Channel._running
    failed,     \* runner: Channel._failed
    notes,      \* runner: jobs with a notification it has not read
    tx,         \* a user's requeue that has read the parents and not committed
    commits,    \* Job: how often its effects were committed (history; twice: or more)
    budget      \* how many faults and user actions are left

rowVars    == <<state, retry, eta, fresh, lockRow>>
workerVars == <<pc, on, tries, ready>>
runnerVars == <<queue, running, failed>>
vars == <<rowVars, reqs, workerVars, clean, runnerVars, notes, tx, commits, budget>>

State == {"wait", "pending", "enqueued", "started", "done", "failed", "cancelled"}

NoTx == [job |-> NoJob, to |-> "pending"]

Children(j) == {c \in Job : j \in Parents[c]}
ParentsIn(j, s, st) == \A p \in Parents[j] : st[p] = s

\* set_pending
Pending(parentsDone) == IF parentsDone THEN "pending" ELSE "wait"

\* Rows J are updated: the trigger queue_job_notify tells the runner, and
\* open transactions that read one of them will fail to update it.
Updated(J) ==
    /\ notes' = notes \cup J
    /\ clean' = [w \in Worker |-> clean[w] /\ on[w] \notin J]
    /\ tx' = IF tx.job \in J THEN NoTx ELSE tx

Fault(f) == /\ f \in Faults
            /\ budget.faults > 0
            /\ budget' = [budget EXCEPT !.faults = @ - 1]

Act(a) == /\ a \in Acts
          /\ budget.acts > 0
          /\ budget' = [budget EXCEPT !.acts = @ - 1]

\* delay() stores a graph of jobs in one transaction; add_depends.
Init ==
    /\ state = [j \in Job |-> IF Parents[j] = {} THEN "pending" ELSE "wait"]
    /\ retry = [j \in Job |-> 0]
    /\ eta = [j \in Job |-> "none"]
    /\ fresh = [j \in Job |-> FALSE]
    /\ lockRow = [j \in Job |-> FALSE]
    /\ reqs = [j \in Job |-> 0]
    /\ pc = [w \in Worker |-> "idle"]
    /\ on = [w \in Worker |-> NoJob]
    /\ tries = [w \in Worker |-> 0]
    /\ ready = [w \in Worker |-> FALSE]
    /\ clean = [w \in Worker |-> FALSE]
    /\ queue = {} /\ running = {} /\ failed = {}
    /\ notes = Job
    /\ tx = NoTx
    /\ commits = [j \in Job |-> 0]
    /\ budget = [faults |-> FaultBound, acts |-> ActBound]

(***************************************************************************)
(* The job runner                                                          *)
(***************************************************************************)

Active == {"enqueued", "started"}

\* ChannelManager.notify with the row as it is now: a job whose eta differs
\* from the runner's copy is first removed.
ReadNote(j) ==
    LET Drop(S) == IF eta[j] = "changed" THEN S \ {j} ELSE S
        Into(q, r, f) ==
            /\ queue'   = IF q THEN queue \cup {j} ELSE queue \ {j}
            /\ running' = IF r THEN running \cup {j} ELSE running \ {j}
            /\ failed'  = IF f THEN failed \cup {j} ELSE failed \ {j}
    IN  /\ j \in notes
        /\ notes' = notes \ {j}
        /\ eta' = [eta EXCEPT ![j] = IF @ = "changed" THEN "known" ELSE @]
        /\ \/ state[j] = "pending" /\ Into(TRUE, FALSE, FALSE)
           \/ state[j] \in Active /\ Into(FALSE, TRUE, FALSE)
           \/ state[j] = "failed" /\ Into(FALSE, FALSE, TRUE)
           \/ state[j] \in {"done", "cancelled"} /\ Into(FALSE, FALSE, FALSE)
           \/ /\ state[j] = "wait"
              /\ queue' = Drop(queue) /\ running' = Drop(running) /\ failed' = Drop(failed)
        /\ UNCHANGED <<state, retry, fresh, lockRow, reqs, workerVars, clean,
                       tx, commits, budget>>

\* Channel.has_capacity: a sequential channel blocks on failed jobs.
HasCapacity ==
    /\ ~(Sequential /\ failed # {})
    /\ Capacity = 0 \/ Cardinality(running) < Capacity

\* ChannelQueue.pop: an eta that is past is cleared in the runner's copy.
EtaPast(j) ==
    /\ HasCapacity
    /\ j \in queue
    /\ eta[j] = "known"
    /\ eta' = [eta EXCEPT ![j] = "changed"]
    /\ UNCHANGED <<state, retry, fresh, lockRow, reqs, workerVars, clean, runnerVars,
                   notes, tx, commits, budget>>

\* run_jobs: the channel yields j, the row is marked enqueued whatever its
\* state is by now, and the request is sent.
RunJob(j) ==
    /\ HasCapacity
    /\ j \in queue
    /\ eta[j] # "known"
    /\ reqs[j] < RequestBound
    /\ queue' = queue \ {j}
    /\ running' = running \cup {j}
    /\ state' = [state EXCEPT ![j] = "enqueued"]
    /\ fresh' = [fresh EXCEPT ![j] = TRUE]
    /\ reqs' = [reqs EXCEPT ![j] = @ + 1]
    /\ Updated({j})
    /\ UNCHANGED <<retry, eta, lockRow, workerVars, failed, commits, budget>>

\* A worker holds j's row in queue_job_lock.
Performing(j) == \E w \in Worker : on[w] = j /\ pc[w] = "performing"

\* Mutant: only enqueued jobs are looked at.
DeadEnqueued(j) == state[j] = "enqueued" /\ ~fresh[j] /\ lockRow[j] /\ ~Performing(j)

\* The selection of _query_requeue_dead_jobs: rows of queue_job_lock that
\* nobody has locked, of jobs enqueued more than 10 seconds ago.
Dead(j) == state[j] \in Active /\ ~fresh[j] /\ lockRow[j] /\ ~Performing(j)

\* requeue_dead_jobs
RequeueDead(j) ==
    /\ Dead(j)
    /\ state' = [state EXCEPT ![j] = IF MaxRetries # 0 /\ retry[j] > MaxRetries
                                     THEN "failed" ELSE "pending"]
    /\ retry' = [retry EXCEPT ![j] = IF state[j] = "started" THEN @ + 1 ELSE @]
    /\ Updated({j})
    /\ UNCHANGED <<eta, fresh, lockRow, reqs, workerVars, runnerVars, commits, budget>>

\* Mutant: started jobs are not read back.
RunningRowsEnqueued == {j \in Job : state[j] = "enqueued"}

RunningRows == {j \in Job : state[j] \in Active}

\* An exception or a restart of the runner: close_databases, then
\* initialize_databases reads every job that is not done.
Restart ==
    /\ Fault("restart")
    /\ queue'   = {j \in Job : state[j] = "pending"}
    /\ running' = RunningRows
    /\ failed'  = {j \in Job : state[j] = "failed"}
    /\ notes'   = {}
    /\ eta' = [j \in Job |-> IF eta[j] = "none" THEN "none" ELSE "known"]
    /\ UNCHANGED <<state, retry, fresh, lockRow, reqs, workerVars, clean, tx, commits>>

(***************************************************************************)
(* Time and the network                                                    *)
(***************************************************************************)

\* Ten seconds pass. Unless a start can be slow, a request is served and its
\* job locked within them.
Age(j) ==
    /\ fresh[j]
    /\ \/ "slow start" \in Faults
       \/ reqs[j] = 0 /\ ~\E w \in Worker : on[w] = j /\ pc[w] = "started"
    /\ fresh' = [fresh EXCEPT ![j] = FALSE]
    /\ UNCHANGED <<state, retry, eta, lockRow, reqs, workerVars, clean, runnerVars,
                   notes, tx, commits, budget>>

\* _async_http_get: the request never reaches a worker.
LoseRequest(j) ==
    /\ reqs[j] > 0
    /\ Fault("lost request")
    /\ reqs' = [reqs EXCEPT ![j] = @ - 1]
    /\ UNCHANGED <<rowVars, workerVars, clean, runnerVars, notes, tx, commits>>

(***************************************************************************)
(* A worker: the controller runjob                                         *)
(***************************************************************************)

\* runjob up to the first commit of _try_perform_job: SELECT ... FOR UPDATE
\* of an enqueued job, load, set_started, store, commit.
Start(w, j) ==
    /\ pc[w] = "idle"
    /\ reqs[j] > 0
    /\ reqs' = [reqs EXCEPT ![j] = @ - 1]
    /\ \/ /\ state[j] = "enqueued"
          /\ state'   = [state EXCEPT ![j] = "started"]
          /\ lockRow' = [lockRow EXCEPT ![j] = TRUE]
          /\ pc'    = [pc EXCEPT ![w] = "started"]
          /\ on'    = [on EXCEPT ![w] = j]
          /\ tries' = [tries EXCEPT ![w] = retry[j]]
          /\ ready' = [ready EXCEPT ![w] = ParentsIn(j, "done", state)]
          /\ Updated({j})
       \/ /\ state[j] # "enqueued"
          /\ UNCHANGED <<state, lockRow, workerVars, notes, clean, tx>>
    /\ UNCHANGED <<retry, eta, fresh, runnerVars, commits, budget>>

\* Mutant: the worker still has the job.
ReleaseKeepsJob(w) ==
    /\ pc' = [pc EXCEPT ![w] = "idle"]
    /\ UNCHANGED <<on, tries, ready>>

\* The worker is done with the request.
Release(w) ==
    /\ pc' = [pc EXCEPT ![w] = "idle"]
    /\ on' = [on EXCEPT ![w] = NoJob]
    /\ tries' = [tries EXCEPT ![w] = 0]
    /\ ready' = [ready EXCEPT ![w] = FALSE]

\* retry_postpone, with n attempts in memory
Postpone(w, n) ==
    LET j == on[w]
    IN  /\ n <= RetryBound
        /\ state' = [state EXCEPT ![j] = Pending(ready[w])]
        /\ retry' = [retry EXCEPT ![j] = n]
        /\ eta'   = [eta EXCEPT ![j] = "changed"]
        /\ Updated({j})
        /\ Release(w)
        /\ UNCHANGED <<fresh, lockRow, reqs, runnerVars, commits, budget>>

\* set_failed and store
StoreFailed(w, n) ==
    LET j == on[w]
    IN  /\ state' = [state EXCEPT ![j] = "failed"]
        /\ retry' = [retry EXCEPT ![j] = n]
        /\ Updated({j})
        /\ Release(w)
        /\ UNCHANGED <<eta, fresh, lockRow, reqs, runnerVars, commits, budget>>

\* Job.lock: the snapshot of the second transaction; a job that is not
\* started any more is postponed, and a row lock that another worker holds
\* is waited for.
Lock(w) ==
    /\ pc[w] = "started"
    /\ \/ /\ state[on[w]] = "started"
          /\ pc' = [pc EXCEPT ![w] = IF Performing(on[w]) THEN "locking" ELSE "performing"]
          /\ clean' = [clean EXCEPT ![w] = TRUE]
          /\ UNCHANGED <<rowVars, reqs, on, tries, ready, runnerVars, notes, tx, commits, budget>>
       \/ state[on[w]] # "started" /\ Postpone(w, tries[w])

\* ... until that worker's transaction ends.
Acquire(w) ==
    /\ pc[w] = "locking"
    /\ ~Performing(on[w])
    /\ pc' = [pc EXCEPT ![w] = "performing"]
    /\ UNCHANGED <<rowVars, reqs, on, tries, ready, clean, runnerVars, notes, tx, commits, budget>>

\* perform returns; set_done, store and commit, which fail when the row was
\* changed meanwhile: a serialization failure, so the job is postponed.
Succeed(w) ==
    LET j == on[w]
    IN  /\ pc[w] = "performing"
        /\ "done" \in Outcomes
        /\ \/ /\ clean[w]
              /\ state' = [state EXCEPT ![j] = "done"]
              /\ retry' = [retry EXCEPT ![j] = tries[w] + 1]
              /\ commits' = [commits EXCEPT ![j] = IF @ < 2 THEN @ + 1 ELSE @]
              /\ pc' = [pc EXCEPT ![w] = "waking"]
              /\ Updated({j})
              /\ UNCHANGED <<eta, fresh, lockRow, reqs, on, tries, ready, runnerVars, budget>>
           \/ ~clean[w] /\ Postpone(w, tries[w] + 1)

\* perform raises RetryableJobError
RetryLater(w) ==
    LET n == tries[w] + 1
    IN  /\ pc[w] = "performing"
        /\ \/ "ignore" \in Outcomes /\ Postpone(w, tries[w])
           \/ /\ "retry" \in Outcomes
              /\ \/ (MaxRetries = 0 \/ n < MaxRetries) /\ Postpone(w, n)
                 \/ (MaxRetries # 0 /\ n >= MaxRetries) /\ StoreFailed(w, n)

\* perform fails on a serialization failure of its own updates
Conflict(w) ==
    /\ pc[w] = "performing"
    /\ "conflict" \in Outcomes
    /\ Postpone(w, tries[w] + 1)

\* perform raises anything else
FailJob(w) ==
    /\ pc[w] = "performing"
    /\ "failed" \in Outcomes
    /\ StoreFailed(w, tries[w] + 1)

\* Mutant: one parent is enough.
DependentsAny(j, s, st) ==
    {c \in Children(j) : st[c] = "wait" /\ \E p \in Parents[c] : st[p] = s}

\* Mutant: only children that have no other parent.
DependentsOnly(j, s, st) == {c \in Children(j) : st[c] = "wait" /\ Parents[c] = {j}}

\* Children of j that wait and whose parents are all in state s, given the
\* states st: the query of enqueue_waiting and cancel_dependent_jobs.
Dependents(j, s, st) == {c \in Children(j) : st[c] = "wait" /\ ParentsIn(c, s, st)}

\* _enqueue_dependent_jobs
Wake(w) ==
    LET woken == Dependents(on[w], "done", state)
    IN  /\ pc[w] = "waking"
        /\ state' = [j \in Job |-> IF j \in woken THEN "pending" ELSE state[j]]
        /\ Updated(woken)
        /\ Release(w)
        /\ UNCHANGED <<retry, eta, fresh, lockRow, reqs, runnerVars, commits, budget>>

\* The worker's process is killed; its transaction is rolled back.
Crash(w) ==
    /\ \/ pc[w] \in {"started", "locking", "performing"} /\ Fault("crash")
       \/ pc[w] = "waking" /\ Fault("crash before waking")
    /\ Release(w)
    /\ UNCHANGED <<rowVars, reqs, clean, runnerVars, notes, tx, commits>>

(***************************************************************************)
(* Users, in the views and wizards of queue.job                            *)
(***************************************************************************)

\* Requeue (the wizard takes any selection): the parents are read ...
BeginRequeue(j) ==
    /\ tx = NoTx
    /\ state[j] # "wait"
    /\ Act("requeue")
    /\ tx' = [job |-> j, to |-> Pending(ParentsIn(j, "done", state))]
    /\ UNCHANGED <<rowVars, reqs, workerVars, clean, runnerVars, notes, commits>>

\* ... and the job is stored and committed, unless its row has changed.
CommitRequeue ==
    LET j == tx.job
    IN  /\ j # NoJob
        /\ state' = [state EXCEPT ![j] = tx.to]
        /\ retry' = [retry EXCEPT ![j] = 0]
        /\ commits' = [commits EXCEPT ![j] = 0]
        /\ Updated({j})
        /\ UNCHANGED <<eta, fresh, lockRow, reqs, workerVars, runnerVars, budget>>

\* Set to done, with enqueue_waiting
SetDone(j) ==
    LET st == [state EXCEPT ![j] = "done"]
        woken == Dependents(j, "done", st)
    IN  /\ state[j] # "done"
        /\ Act("done")
        /\ state' = [k \in Job |-> IF k \in woken THEN "pending" ELSE st[k]]
        /\ Updated({j} \cup woken)
        /\ UNCHANGED <<retry, eta, fresh, lockRow, reqs, workerVars, runnerVars, commits>>

\* Cancel, with cancel_dependent_jobs
Cancel(j) ==
    LET st == [state EXCEPT ![j] = "cancelled"]
        too == Dependents(j, "cancelled", st)
    IN  /\ state[j] \in {"pending", "failed", "enqueued"}
        /\ Act("cancel")
        /\ state' = [k \in Job |-> IF k \in too THEN "cancelled" ELSE st[k]]
        /\ Updated({j} \cup too)
        /\ UNCHANGED <<retry, eta, fresh, lockRow, reqs, workerVars, runnerVars, commits>>

(***************************************************************************)
(* Specification                                                           *)
(***************************************************************************)

Perform(w) == Succeed(w) \/ RetryLater(w) \/ Conflict(w) \/ FailJob(w)

RunnerStep == \E j \in Job : ReadNote(j) \/ EtaPast(j) \/ RunJob(j) \/ RequeueDead(j)

WorkerStep(w) ==
    \/ \E j \in Job : Start(w, j)
    \/ Lock(w)
    \/ Acquire(w)
    \/ Perform(w)
    \/ Wake(w)
    \/ Crash(w)

UserStep == CommitRequeue \/ \E j \in Job : BeginRequeue(j) \/ SetDone(j) \/ Cancel(j)

Next ==
    \/ RunnerStep
    \/ Restart
    \/ \E j \in Job : Age(j) \/ LoseRequest(j)
    \/ \E w \in Worker : WorkerStep(w)
    \/ UserStep

Spec == Init /\ [][Next]_vars

\* The runner loops for ever, time passes, and a worker that is alive goes on.
Fairness ==
    /\ \A j \in Job : /\ WF_vars(ReadNote(j)) /\ WF_vars(EtaPast(j))
                      /\ WF_vars(RequeueDead(j)) /\ WF_vars(Age(j))
    /\ WF_vars(\E j \in Job : RunJob(j))
    /\ WF_vars(\E w \in Worker, j \in Job : Start(w, j))
    /\ \A w \in Worker : /\ WF_vars(Lock(w)) /\ WF_vars(Acquire(w))
                         /\ WF_vars(Perform(w)) /\ WF_vars(Wake(w))
    /\ WF_vars(CommitRequeue)

FairSpec == Spec /\ Fairness

(***************************************************************************)
(* Properties                                                              *)
(***************************************************************************)

\* Every variable holds a value of its field.
TypeOK ==
    /\ state \in [Job -> State]
    /\ retry \in [Job -> Nat]
    /\ eta \in [Job -> {"none", "known", "changed"}]
    /\ fresh \in [Job -> BOOLEAN]
    /\ lockRow \in [Job -> BOOLEAN]
    /\ reqs \in [Job -> 0 .. RequestBound]
    /\ pc \in [Worker -> {"idle", "started", "locking", "performing", "waking"}]
    /\ on \in [Worker -> Job \cup {NoJob}]
    /\ \A w \in Worker : pc[w] = "idle" <=> on[w] = NoJob
    /\ tries \in [Worker -> Nat]
    /\ ready \in [Worker -> BOOLEAN]
    /\ clean \in [Worker -> BOOLEAN]
    /\ queue \subseteq Job /\ running \subseteq Job /\ failed \subseteq Job
    /\ notes \subseteq Job
    /\ tx \in [job : Job \cup {NoJob}, to : {"pending", "wait"}]
    /\ commits \in [Job -> Nat]
    /\ budget \in [faults : 0 .. FaultBound, acts : 0 .. ActBound]

\* No more jobs are enqueued or started than the channel has room for,
\* whatever users change behind the runner's back and whenever it restarts:
\* its memory of what runs is late, but always too large.
CapacityRespected ==
    Capacity # 0 => Cardinality({j \in Job : state[j] \in Active}) <= Capacity

\* The inductive reason: a job is enqueued or started only while the runner
\* counts it as running.
ActiveCounted == {j \in Job : state[j] \in Active} \subseteq running

RunningBounded == Capacity # 0 => Cardinality(running) <= Capacity

IInv == TypeOK /\ ActiveCounted /\ RunningBounded

\* Users leave the jobs alone, and a job is locked within ten seconds of its
\* request.
Undisturbed == Acts = {} /\ "slow start" \notin Faults

\* The effects of a job are committed once, however often it crashes, is
\* taken for dead, is asked for twice or is retried (a requeue by a user
\* starts a new count).
CommittedOnce == \A j \in Job : commits[j] <= 1 /\ (state[j] = "done" => commits[j] = 1)

\* A job runs only after all the jobs it depends on.
ParentsFirst ==
    \A j \in Job : state[j] \notin {"wait", "cancelled"} => ParentsIn(j, "done", state)

\* A job whose parents are all done does not wait, unless a worker that
\* finished one of them is about to wake it.
NoLostWakeup ==
    \A j \in Job :
        state[j] = "wait" /\ ParentsIn(j, "done", state)
            => \E w \in Worker : pc[w] = "waking" /\ on[w] \in Parents[j]

(***************************************************************************)
(* The inductive reason for these three, and for the refinement below, in  *)
(* an undisturbed queue: at most one request or worker has a job, and the  *)
(* row says which.                                                         *)
(***************************************************************************)

\* A request is for a job that was enqueued less than ten seconds ago.
RequestsOK ==
    \A j \in Job : reqs[j] > 0 => reqs[j] = 1 /\ state[j] = "enqueued" /\ fresh[j]

\* A worker on a job has it to itself, row included, until it is done.
HasJob(w) == pc[w] \in {"started", "performing"}

WorkersOK ==
    /\ \A w \in Worker :
          /\ pc[w] # "locking"
          /\ HasJob(w) => state[on[w]] = "started" /\ ready[w]
          /\ pc[w] = "started" => fresh[on[w]]
          /\ pc[w] = "performing" => clean[w]
          /\ pc[w] = "waking" => state[on[w]] = "done"
    /\ \A v, w \in Worker : HasJob(v) /\ HasJob(w) /\ on[v] = on[w] => v = w

\* What the runner holds in its queue is pending in the table too.
QueueOK == \A j \in queue : state[j] = "pending"

\* Nobody requeues or cancels, and every commit is of a job that is done.
HistoryOK ==
    /\ tx = NoTx
    /\ \A j \in Job : /\ state[j] # "cancelled"
                      /\ commits[j] = IF state[j] = "done" THEN 1 ELSE 0

QuietInv == IInv /\ RequestsOK /\ WorkersOK /\ QueueOK /\ HistoryOK /\ ParentsFirst

\* What users see of the graph of jobs.
Shown(s) == CASE s = "wait" -> "waiting"
              [] s = "pending" -> "ready"
              [] s \in Active -> "running"
              [] OTHER -> s

GraphState == [j \in Job |-> Shown(state[j])]

Graph == INSTANCE JobGraph WITH st <- GraphState

\* Crashed workers, restarts of the runner and its late view of the table
\* included, the queue executes the graph as JobGraph promises.
ImplementsJobGraph == Graph!Spec

\* A job that may run comes to an end.
EventuallyEnds ==
    \A j \in Job : state[j] \in {"pending", "enqueued", "started"}
                       ~> state[j] \in {"done", "failed", "cancelled"}

\* Refuted: "Set started and enqueued jobs but not locked to pending", with a buffer
\* that "prevents from requeuing jobs before they are actually started": when
\* such a job becomes pending, no request or worker is left that has it.
OnlyDeadRequeued ==
    [][\A j \in Job :
          state[j] \in Active /\ state'[j] = "pending"
              => reqs'[j] = 0 /\ \A w \in Worker : on'[w] # j]_vars

\* Refuted: "Jobs that remain in enqueued or started state ... will be automatically
\* re-queued": an enqueued job does not stay so.
EnqueuedMovesOn == \A j \in Job : state[j] = "enqueued" ~> state[j] # "enqueued"

=============================================================================
