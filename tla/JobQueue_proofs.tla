--------------------------- MODULE JobQueue_proofs ---------------------------
(***************************************************************************)
(* The theorems about the queue, for every graph of jobs, capacity, number *)
(* of workers and of faults.                                               *)
(*                                                                         *)
(*   - IInv relates the table to the runner's memory (an active job is     *)
(*     counted as running): types and the channel's capacity, whatever     *)
(*     users do;                                                           *)
(*   - QuietInv says where the one request or worker of each job is, and   *)
(*     what the table holds meanwhile: effects are committed once, parents *)
(*     come first, nobody is forgotten, and the queue implements JobGraph. *)
(*     It needs an Undisturbed queue: users leave the jobs alone, and no   *)
(*     worker is so slow to start that it is taken for dead.               *)
(*                                                                         *)
(* Below, the runner's tree of channels, for every tree: ChannelsInv has   *)
(* each job in its place on its way to the root.  And delayables: DelayInv *)
(* has objects made of earlier ones, the stored jobs those of the graph,   *)
(* and those run at once as far as the jobs before them.                   *)
(***************************************************************************)
EXTENDS JobQueue, Channels, Delayables, CountingUp, FiniteSetTheorems, SequenceTheorems, TLAPS

\* The constants that are numbers, and the blank job.
LEMMA Numbers ==
    /\ Capacity \in Nat /\ FaultBound \in Nat /\ ActBound \in Nat /\ RequestBound \in Nat
    /\ NoJob \notin Job
BY JobQueueAssumption

\* A subset of a set of jobs is no larger.
LEMMA SubsetSmaller ==
    ASSUME NEW R \in SUBSET Job, NEW S \in SUBSET R
    PROVE  /\ Cardinality(R) \in Nat /\ Cardinality(S) \in Nat
           /\ Cardinality(S) <= Cardinality(R)
<1>1. IsFiniteSet(R)
  BY FS_Subset, JobQueueAssumption
<1> QED  BY <1>1, FS_Subset, FS_CardinalityType

\* One more job makes a set at most one larger.
LEMMA OneMore ==
    ASSUME NEW R \in SUBSET Job, NEW j \in Job
    PROVE  Cardinality(R) \in Nat /\ Cardinality(R \cup {j}) <= Cardinality(R) + 1
<1>1. IsFiniteSet(R)
  BY FS_Subset, JobQueueAssumption
<1> QED  BY <1>1, FS_AddElement, FS_CardinalityType

\* Nothing is enqueued at first.
LEMMA InitIInv == Init => IInv
<1> SUFFICES ASSUME Init PROVE IInv
  OBVIOUS
<1>1. TypeOK
  <2>1. state \in [Job -> State]
    BY DEF Init, State
  <2>2. \A w \in Worker : pc[w] = "idle" <=> on[w] = NoJob
    BY DEF Init
  <2>3. reqs \in [Job -> 0 .. RequestBound]
    BY Numbers DEF Init
  <2>4. budget \in [faults : 0 .. FaultBound, acts : 0 .. ActBound]
    BY Numbers DEF Init
  <2>5. tx \in [job : Job \cup {NoJob}, to : {"pending", "wait"}]
    BY DEF Init, NoTx
  <2> QED  BY <2>1, <2>2, <2>3, <2>4, <2>5 DEF Init, TypeOK
<1>2. ActiveCounted
  BY DEF Init, ActiveCounted, Active
<1>3. RunningBounded
  <2>1. Cardinality(running) = 0
    BY FS_EmptySet DEF Init
  <2> QED  BY <2>1, Numbers DEF RunningBounded
<1> QED  BY <1>1, <1>2, <1>3 DEF IInv

\* The bound on the running jobs depends on the runner's memory alone.
LEMMA SameRunning ==
    ASSUME RunningBounded, running' = running PROVE RunningBounded'
BY DEF RunningBounded

\* A step that leaves the runner's count alone and activates no job
\* preserves the invariant.
LEMMA NotActivated ==
    ASSUME IInv, TypeOK', running' = running,
           \A j \in Job : state'[j] \in Active => state[j] \in Active
    PROVE  IInv'
BY SameRunning DEF IInv, ActiveCounted

\* The bookkeeping of a row update keeps its types.
LEMMA UpdatedTypes ==
    ASSUME TypeOK, NEW J \in SUBSET Job, Updated(J)
    PROVE  /\ notes' \subseteq Job
           /\ clean' \in [Worker -> BOOLEAN]
           /\ tx' \in [job : Job \cup {NoJob}, to : {"pending", "wait"}]
BY DEF TypeOK, Updated, NoTx

\* So does the end of a request.
LEMMA ReleaseTypes ==
    ASSUME TypeOK, NEW w \in Worker, Release(w)
    PROVE  /\ pc' \in [Worker -> {"idle", "started", "locking", "performing", "waking"}]
           /\ on' \in [Worker -> Job \cup {NoJob}]
           /\ \A v \in Worker : pc'[v] = "idle" <=> on'[v] = NoJob
           /\ tries' \in [Worker -> Nat]
           /\ ready' \in [Worker -> BOOLEAN]
BY DEF TypeOK, Release

\* A fault or a user action leaves one less.
LEMMA FaultTypes ==
    ASSUME TypeOK, NEW f, Fault(f)
    PROVE  budget' \in [faults : 0 .. FaultBound, acts : 0 .. ActBound]
<1>1. budget.faults \in 0 .. FaultBound /\ budget.faults > 0 /\ budget.acts \in 0 .. ActBound
  BY DEF Fault, TypeOK
<1>2. budget.faults - 1 \in 0 .. FaultBound
  BY <1>1, Numbers
<1> QED  BY <1>1, <1>2 DEF Fault, TypeOK

\* Likewise for user actions.
LEMMA ActTypes ==
    ASSUME TypeOK, NEW a, Act(a)
    PROVE  budget' \in [faults : 0 .. FaultBound, acts : 0 .. ActBound]
<1>1. budget.acts \in 0 .. ActBound /\ budget.acts > 0 /\ budget.faults \in 0 .. FaultBound
  BY DEF Act, TypeOK
<1>2. budget.acts - 1 \in 0 .. ActBound
  BY <1>1, Numbers
<1> QED  BY <1>1, <1>2 DEF Act, TypeOK

\* A worker that is not idle has a job.
LEMMA WorkerHasJob ==
    ASSUME TypeOK, NEW w \in Worker, pc[w] # "idle" PROVE on[w] \in Job
BY DEF TypeOK

\* The runner reads a notification: an active job is, or becomes, counted.
LEMMA ReadNoteIInv == ASSUME IInv, NEW j \in Job, ReadNote(j) PROVE IInv'
<1> USE DEF IInv
<1>1. TypeOK'
  BY DEF ReadNote, TypeOK, rowVars, workerVars
<1>2. running' \subseteq running
  BY DEF ReadNote, ActiveCounted
<1>3. ActiveCounted'
  BY DEF ReadNote, ActiveCounted, Active
<1>4. RunningBounded'
  <2>1. Cardinality(running') <= Cardinality(running)
        /\ Cardinality(running) \in Nat /\ Cardinality(running') \in Nat
    BY <1>2, SubsetSmaller DEF TypeOK
  <2> QED  BY <2>1, Numbers DEF RunningBounded
<1> QED  BY <1>1, <1>3, <1>4

\* The runner starts a job: there was room for one more.
LEMMA RunJobIInv == ASSUME IInv, NEW j \in Job, RunJob(j) PROVE IInv'
<1> USE DEF IInv
<1>1. TypeOK'
  <2>1. Updated({j}) /\ {j} \in SUBSET Job
    BY DEF RunJob
  <2>2. reqs' \in [Job -> 0 .. RequestBound]
    <3>1. reqs[j] \in 0 .. RequestBound /\ reqs[j] < RequestBound
      BY DEF RunJob, TypeOK
    <3>2. reqs[j] + 1 \in 0 .. RequestBound
      BY <3>1, Numbers
    <3> QED  BY <3>2 DEF RunJob, TypeOK
  <2> QED  BY <2>1, <2>2, UpdatedTypes DEF RunJob, TypeOK, State, workerVars
<1>2. ActiveCounted'
  BY DEF RunJob, ActiveCounted, Active, TypeOK
<1>3. RunningBounded'
  <2>1. running \in SUBSET Job /\ running' = running \cup {j}
    BY DEF RunJob, TypeOK
  <2>2. Capacity # 0 => Cardinality(running) < Capacity
    BY DEF RunJob, HasCapacity
  <2>3. Cardinality(running) \in Nat /\ Cardinality(running') <= Cardinality(running) + 1
    BY <2>1, OneMore
  <2>4. Cardinality(running') \in Nat
    BY <2>1, SubsetSmaller
  <2> QED  BY <2>2, <2>3, <2>4, Numbers DEF RunningBounded
<1> QED  BY <1>1, <1>2, <1>3

\* A restarted runner counts the active jobs, which it had counted before.
LEMMA RestartIInv == ASSUME IInv, Restart PROVE IInv'
<1> USE DEF IInv
<1>1. TypeOK'
  <2>1. budget' \in [faults : 0 .. FaultBound, acts : 0 .. ActBound]
    BY FaultTypes DEF Restart
  <2> QED  BY <2>1 DEF Restart, TypeOK, workerVars, RunningRows
<1>2. ActiveCounted'
  BY DEF Restart, ActiveCounted, RunningRows, Active
<1>3. running' \subseteq running
  BY DEF Restart, RunningRows, ActiveCounted
<1>4. RunningBounded'
  <2>1. Cardinality(running') <= Cardinality(running)
        /\ Cardinality(running) \in Nat /\ Cardinality(running') \in Nat
    BY <1>3, SubsetSmaller DEF TypeOK
  <2> QED  BY <2>1, Numbers DEF RunningBounded
<1> QED  BY <1>1, <1>2, <1>4

\* A dead job becomes pending or failed.
LEMMA RequeueDeadIInv == ASSUME IInv, NEW j \in Job, RequeueDead(j) PROVE IInv'
<1> USE DEF IInv
<1>1. Updated({j}) /\ {j} \in SUBSET Job
  BY DEF RequeueDead
<1>2. retry' \in [Job -> Nat]
  BY DEF RequeueDead, TypeOK
<1>3. TypeOK'
  BY <1>1, <1>2, UpdatedTypes DEF RequeueDead, TypeOK, State, workerVars, runnerVars
<1> QED  BY <1>3, NotActivated DEF RequeueDead, Active, TypeOK, runnerVars

\* An eta passes, or ten seconds, or a request is lost: no row changes state.
LEMMA TimeIInv ==
    ASSUME IInv, NEW j \in Job, EtaPast(j) \/ Age(j) \/ LoseRequest(j) PROVE IInv'
<1> USE DEF IInv
<1>1. CASE EtaPast(j)
  <2>1. TypeOK'
    BY <1>1 DEF EtaPast, TypeOK, workerVars, runnerVars
  <2> QED  BY <1>1, <2>1, NotActivated DEF EtaPast, runnerVars
<1>2. CASE Age(j)
  <2>1. TypeOK'
    BY <1>2 DEF Age, TypeOK, workerVars, runnerVars
  <2> QED  BY <1>2, <2>1, NotActivated DEF Age, runnerVars
<1>3. CASE LoseRequest(j)
  <2>1. budget' \in [faults : 0 .. FaultBound, acts : 0 .. ActBound]
    BY <1>3, FaultTypes DEF LoseRequest
  <2>2. reqs[j] \in 0 .. RequestBound /\ reqs[j] > 0
    BY <1>3 DEF LoseRequest, TypeOK
  <2>3. reqs[j] - 1 \in 0 .. RequestBound
    BY <2>2, Numbers
  <2>4. TypeOK'
    BY <1>3, <2>1, <2>3 DEF LoseRequest, TypeOK, rowVars, workerVars, runnerVars
  <2> QED  BY <1>3, <2>4, NotActivated DEF LoseRequest, rowVars, runnerVars
<1> QED  BY <1>1, <1>2, <1>3

\* A worker starts an enqueued job, which is active already.
LEMMA StartIInv ==
    ASSUME IInv, NEW w \in Worker, NEW j \in Job, Start(w, j) PROVE IInv'
<1> USE DEF IInv
<1>1. reqs' \in [Job -> 0 .. RequestBound]
  <2>1. reqs[j] \in 0 .. RequestBound /\ reqs[j] > 0
    BY DEF Start, TypeOK
  <2>2. reqs[j] - 1 \in 0 .. RequestBound
    BY <2>1, Numbers
  <2> QED  BY <2>2 DEF Start, TypeOK
<1>2. CASE state[j] = "enqueued"
  <2>1. Updated({j}) /\ {j} \in SUBSET Job
    BY <1>2 DEF Start
  <2>2. \A v \in Worker : pc'[v] = "idle" <=> on'[v] = NoJob
    BY <1>2, Numbers DEF Start, TypeOK
  <2>3. ready' \in [Worker -> BOOLEAN]
    BY <1>2 DEF Start, TypeOK, ParentsIn
  <2>4. tries' \in [Worker -> Nat]
    BY <1>2 DEF Start, TypeOK
  <2>5. TypeOK'
    <3>1. /\ state' \in [Job -> State] /\ lockRow' \in [Job -> BOOLEAN]
          /\ pc' \in [Worker -> {"idle", "started", "locking", "performing", "waking"}]
          /\ on' \in [Worker -> Job \cup {NoJob}]
      <4>1. state' = [state EXCEPT ![j] = "started"] /\ lockRow' = [lockRow EXCEPT ![j] = TRUE]
        BY <1>2 DEF Start
      <4>2. pc' = [pc EXCEPT ![w] = "started"] /\ on' = [on EXCEPT ![w] = j]
        BY <1>2 DEF Start
      <4> QED  BY <4>1, <4>2 DEF TypeOK, State
    <3>2. /\ notes' \in SUBSET Job /\ clean' \in [Worker -> BOOLEAN]
          /\ tx' \in [job : Job \cup {NoJob}, to : {"pending", "wait"}]
      BY <2>1, UpdatedTypes
    <3> QED  BY <1>1, <2>2, <2>3, <2>4, <3>1, <3>2 DEF Start, TypeOK, runnerVars
  <2> QED  BY <1>2, <2>5, NotActivated DEF Start, Active, TypeOK, runnerVars
<1>3. CASE state[j] # "enqueued"
  <2>1. TypeOK'
    BY <1>1, <1>3 DEF Start, TypeOK, workerVars, runnerVars
  <2> QED  BY <1>3, <2>1, NotActivated DEF Start, runnerVars
<1> QED  BY <1>2, <1>3

\* A postponed job is active no more.
LEMMA PostponeIInv ==
    ASSUME IInv, NEW w \in Worker, pc[w] # "idle", NEW n \in Nat, Postpone(w, n)
    PROVE  IInv'
<1> USE DEF IInv
<1>1. on[w] \in Job
  BY WorkerHasJob
<1>2. Updated({on[w]}) /\ {on[w]} \in SUBSET Job /\ Release(w)
  BY <1>1 DEF Postpone
<1>3. TypeOK'
  BY <1>1, <1>2, UpdatedTypes, ReleaseTypes
     DEF Postpone, Pending, TypeOK, State, runnerVars
<1> QED  BY <1>1, <1>3, NotActivated DEF Postpone, Pending, Active, TypeOK, runnerVars

\* Neither is a failed one.
LEMMA StoreFailedIInv ==
    ASSUME IInv, NEW w \in Worker, pc[w] # "idle", NEW n \in Nat, StoreFailed(w, n)
    PROVE  IInv'
<1> USE DEF IInv
<1>1. on[w] \in Job
  BY WorkerHasJob
<1>2. Updated({on[w]}) /\ {on[w]} \in SUBSET Job /\ Release(w)
  BY <1>1 DEF StoreFailed
<1>3. TypeOK'
  BY <1>1, <1>2, UpdatedTypes, ReleaseTypes DEF StoreFailed, TypeOK, State, runnerVars
<1> QED  BY <1>1, <1>3, NotActivated DEF StoreFailed, Active, TypeOK, runnerVars

\* A worker locks the job it started, or finds that it is not started.
LEMMA LockIInv ==
    ASSUME IInv, NEW w \in Worker, Lock(w) \/ Acquire(w) PROVE IInv'
<1> USE DEF IInv
<1>1. CASE Acquire(w)
  <2>1. TypeOK'
    BY <1>1, WorkerHasJob, Numbers DEF Acquire, TypeOK, rowVars, runnerVars
  <2> QED  BY <1>1, <2>1, NotActivated DEF Acquire, rowVars, runnerVars
<1>2. CASE Lock(w) /\ state[on[w]] = "started"
  <2>1. TypeOK'
    <3>1. /\ pc' \in [Worker -> {"idle", "started", "locking", "performing", "waking"}]
          /\ clean' \in [Worker -> BOOLEAN]
      BY <1>2 DEF Lock, TypeOK
    <3>2. \A v \in Worker : pc'[v] = "idle" <=> on'[v] = NoJob
      BY <1>2 DEF Lock, TypeOK
    <3> QED  BY <1>2, <3>1, <3>2 DEF Lock, TypeOK, rowVars, runnerVars
  <2> QED  BY <1>2, <2>1, NotActivated DEF Lock, rowVars, runnerVars
<1>3. CASE Lock(w) /\ state[on[w]] # "started"
  <2>1. tries[w] \in Nat
    BY DEF TypeOK
  <2> QED  BY <1>3, <2>1, PostponeIInv DEF Lock
<1> QED  BY <1>1, <1>2, <1>3

\* A performed job is done, postponed or failed.
LEMMA PerformIInv == ASSUME IInv, NEW w \in Worker, Perform(w) PROVE IInv'
<1> USE DEF IInv
<1>1. tries[w] \in Nat /\ tries[w] + 1 \in Nat /\ pc[w] # "idle" /\ on[w] \in Job
  BY WorkerHasJob DEF Perform, Succeed, RetryLater, Conflict, FailJob, TypeOK
<1>2. CASE Succeed(w) /\ clean[w]
  <2>1. Updated({on[w]}) /\ {on[w]} \in SUBSET Job
    BY <1>1, <1>2 DEF Succeed
  <2>2. commits' \in [Job -> Nat]
    BY <1>2 DEF Succeed, TypeOK
  <2>3. pc' \in [Worker -> {"idle", "started", "locking", "performing", "waking"}]
        /\ \A v \in Worker : pc'[v] = "idle" <=> on'[v] = NoJob
    BY <1>1, <1>2, Numbers DEF Succeed, TypeOK
  <2>4. state' \in [Job -> State] /\ retry' \in [Job -> Nat]
    BY <1>1, <1>2 DEF Succeed, TypeOK, State
  <2>5. TypeOK'
    BY <1>2, <2>1, <2>2, <2>3, <2>4, UpdatedTypes DEF Succeed, TypeOK, runnerVars
  <2> QED  BY <1>1, <1>2, <2>5, NotActivated DEF Succeed, Active, TypeOK, runnerVars
<1>3. CASE Succeed(w) /\ ~clean[w]
  BY <1>1, <1>3, PostponeIInv DEF Succeed
<1>4. CASE RetryLater(w)
  BY <1>1, <1>4, PostponeIInv, StoreFailedIInv DEF RetryLater
<1>5. CASE Conflict(w)
  BY <1>1, <1>5, PostponeIInv DEF Conflict
<1>6. CASE FailJob(w)
  BY <1>1, <1>6, StoreFailedIInv DEF FailJob
<1> QED  BY <1>2, <1>3, <1>4, <1>5, <1>6 DEF Perform

\* Jobs that are woken become pending.
LEMMA WakeIInv == ASSUME IInv, NEW w \in Worker, Wake(w) PROVE IInv'
<1> USE DEF IInv
<1> DEFINE woken == Dependents(on[w], "done", state)
<1>1. Updated(woken) /\ woken \in SUBSET Job /\ Release(w)
  BY DEF Wake, Dependents, Children
<1>2. state' \in [Job -> State]
  BY DEF Wake, TypeOK, State
<1>3. TypeOK'
  BY <1>1, <1>2, UpdatedTypes, ReleaseTypes DEF Wake, TypeOK, runnerVars
<1> QED  BY <1>3, NotActivated DEF Wake, Active, TypeOK, runnerVars

\* A killed worker changes no row.
LEMMA CrashIInv == ASSUME IInv, NEW w \in Worker, Crash(w) PROVE IInv'
<1> USE DEF IInv
<1>1. Release(w)
  BY DEF Crash
<1>2. budget' \in [faults : 0 .. FaultBound, acts : 0 .. ActBound]
  BY FaultTypes DEF Crash
<1>3. TypeOK'
  BY <1>1, <1>2, ReleaseTypes DEF Crash, TypeOK, rowVars, runnerVars
<1> QED  BY <1>3, NotActivated DEF Crash, rowVars, runnerVars

\* Users activate no job: a requeued job is pending or waits.
LEMMA UserIInv == ASSUME IInv, UserStep PROVE IInv'
<1> USE DEF IInv
<1>1. CASE CommitRequeue
  <2>1. tx.job \in Job /\ tx.to \in {"pending", "wait"}
    <3>1. tx.job \in Job \cup {NoJob} /\ tx.to \in {"pending", "wait"}
      BY DEF TypeOK
    <3>2. tx.job # NoJob
      BY <1>1 DEF CommitRequeue
    <3> QED  BY <3>1, <3>2
  <2>2. Updated({tx.job}) /\ {tx.job} \in SUBSET Job
    BY <1>1, <2>1 DEF CommitRequeue
  <2>3. TypeOK'
    BY <1>1, <2>1, <2>2, UpdatedTypes DEF CommitRequeue, TypeOK, State, workerVars, runnerVars
  <2> QED  BY <1>1, <2>1, <2>3, NotActivated DEF CommitRequeue, Active, TypeOK, runnerVars
<1>2. ASSUME NEW j \in Job, BeginRequeue(j) PROVE IInv'
  <2>1. budget' \in [faults : 0 .. FaultBound, acts : 0 .. ActBound]
    BY <1>2, ActTypes DEF BeginRequeue
  <2>2. tx' \in [job : Job \cup {NoJob}, to : {"pending", "wait"}]
    BY <1>2 DEF BeginRequeue, Pending
  <2>3. TypeOK'
    BY <1>2, <2>1, <2>2 DEF BeginRequeue, TypeOK, rowVars, workerVars, runnerVars
  <2> QED  BY <1>2, <2>3, NotActivated DEF BeginRequeue, rowVars, runnerVars
<1>3. ASSUME NEW j \in Job, SetDone(j) PROVE IInv'
  <2> DEFINE woken == Dependents(j, "done", [state EXCEPT ![j] = "done"])
  <2>1. Updated({j} \cup woken) /\ {j} \cup woken \in SUBSET Job
    BY <1>3 DEF SetDone, Dependents, Children
  <2>2. budget' \in [faults : 0 .. FaultBound, acts : 0 .. ActBound]
    BY <1>3, ActTypes DEF SetDone
  <2>3. state' \in [Job -> State]
    BY <1>3 DEF SetDone, TypeOK, State
  <2>4. TypeOK'
    BY <1>3, <2>1, <2>2, <2>3, UpdatedTypes DEF SetDone, TypeOK, workerVars, runnerVars
  <2> QED  BY <1>3, <2>4, NotActivated DEF SetDone, Active, TypeOK, runnerVars
<1>4. ASSUME NEW j \in Job, Cancel(j) PROVE IInv'
  <2> DEFINE too == Dependents(j, "cancelled", [state EXCEPT ![j] = "cancelled"])
  <2>1. Updated({j} \cup too) /\ {j} \cup too \in SUBSET Job
    BY <1>4 DEF Cancel, Dependents, Children
  <2>2. budget' \in [faults : 0 .. FaultBound, acts : 0 .. ActBound]
    BY <1>4, ActTypes DEF Cancel
  <2>3. state' \in [Job -> State]
    BY <1>4 DEF Cancel, TypeOK, State
  <2>4. TypeOK'
    BY <1>4, <2>1, <2>2, <2>3, UpdatedTypes DEF Cancel, TypeOK, workerVars, runnerVars
  <2> QED  BY <1>4, <2>4, NotActivated DEF Cancel, Active, TypeOK, runnerVars
<1> QED  BY <1>1, <1>2, <1>3, <1>4 DEF UserStep

\* IInv is inductive.
THEOREM StepIInv == IInv /\ [Next]_vars => IInv'
<1> SUFFICES ASSUME IInv, [Next]_vars PROVE IInv'
  OBVIOUS
<1>1. CASE RunnerStep
  BY <1>1, ReadNoteIInv, TimeIInv, RunJobIInv, RequeueDeadIInv DEF RunnerStep
<1>2. CASE Restart
  BY <1>2, RestartIInv
<1>3. ASSUME NEW j \in Job, Age(j) \/ LoseRequest(j) PROVE IInv'
  BY <1>3, TimeIInv
<1>4. ASSUME NEW w \in Worker, WorkerStep(w) PROVE IInv'
  BY <1>4, StartIInv, LockIInv, PerformIInv, WakeIInv, CrashIInv DEF WorkerStep
<1>5. CASE UserStep
  BY <1>5, UserIInv
<1>6. CASE UNCHANGED vars
  BY <1>6 DEF vars, rowVars, workerVars, runnerVars, IInv, TypeOK, ActiveCounted, RunningBounded
<1> QED  BY <1>1, <1>2, <1>3, <1>4, <1>5, <1>6 DEF Next

\* IInv holds in every reachable state, for all jobs, workers and faults.
THEOREM Invariance == Spec => []IInv
BY InitIInv, StepIInv, PTL DEF Spec

\* However users, crashes and restarts interfere, no more jobs are enqueued
\* or started than the channel's capacity.
THEOREM ChannelCapacity == Spec => []CapacityRespected
<1>1. IInv => CapacityRespected
  <2> SUFFICES ASSUME IInv, Capacity # 0
               PROVE  Cardinality({j \in Job : state[j] \in Active}) <= Capacity
    BY DEF CapacityRespected
  <2> DEFINE A == {j \in Job : state[j] \in Active}
  <2>1. A \in SUBSET running /\ running \in SUBSET Job
    BY DEF IInv, ActiveCounted, TypeOK
  <2>2. /\ Cardinality(A) \in Nat /\ Cardinality(running) \in Nat
        /\ Cardinality(A) <= Cardinality(running)
    BY <2>1, SubsetSmaller
  <2> QED  BY <2>2, Numbers DEF IInv, RunningBounded
<1> QED  BY <1>1, Invariance, PTL

(***************************************************************************)
(* The queue that users leave alone.                                       *)
(***************************************************************************)

\* Nothing is committed, and nobody works, at first.
LEMMA InitQuiet == Init => QuietInv
<1> SUFFICES ASSUME Init PROVE QuietInv
  OBVIOUS
<1>1. RequestsOK /\ QueueOK
  BY DEF Init, RequestsOK, QueueOK
<1>2. WorkersOK
  BY DEF Init, WorkersOK, HasJob
<1>3. HistoryOK /\ ParentsFirst
  BY DEF Init, HistoryOK, ParentsFirst, ParentsIn
<1> QED  BY <1>1, <1>2, <1>3, InitIInv DEF QuietInv

\* Users do nothing.
LEMMA NoUserStep == ASSUME Undisturbed, QuietInv PROVE ~UserStep
<1>1. ~CommitRequeue
  BY DEF CommitRequeue, QuietInv, HistoryOK, NoTx
<1>2. ~Act("requeue") /\ ~Act("done") /\ ~Act("cancel")
  BY DEF Act, Undisturbed
<1> QED  BY <1>1, <1>2 DEF UserStep, BeginRequeue, SetDone, Cancel

\* A worker on a job excludes a request for it and another worker on it.
LEMMA OneHolder ==
    ASSUME QuietInv, NEW w \in Worker, HasJob(w)
    PROVE  /\ on[w] \in Job /\ state[on[w]] = "started" /\ reqs[on[w]] = 0 /\ ready[w]
           /\ \A v \in Worker : HasJob(v) /\ on[v] = on[w] => v = w
<1>1. on[w] \in Job /\ state[on[w]] = "started"
  BY WorkerHasJob DEF QuietInv, IInv, WorkersOK, HasJob
<1>2. reqs[on[w]] \in 0 .. RequestBound
  BY <1>1 DEF QuietInv, IInv, TypeOK
<1> QED  BY <1>1, <1>2, Numbers DEF QuietInv, RequestsOK, WorkersOK

\* A job that is dead has no request and no worker.
LEMMA DeadIsAlone ==
    ASSUME QuietInv, NEW j \in Job, Dead(j)
    PROVE  reqs[j] = 0 /\ \A w \in Worker : HasJob(w) => on[w] # j
<1>1. reqs[j] \in 0 .. RequestBound
  BY DEF QuietInv, IInv, TypeOK
<1> QED  BY <1>1, Numbers DEF Dead, Performing, QuietInv, RequestsOK, WorkersOK, HasJob

\* The runner's reading, an eta and a lost notification change no row and no worker.
LEMMA ReadQuiet ==
    ASSUME QuietInv, NEW j \in Job, ReadNote(j) \/ EtaPast(j), IInv' PROVE QuietInv'
<1>1. /\ UNCHANGED <<state, fresh, reqs, pc, on, ready, clean, tx, commits>>
      /\ \A k \in queue' : k \in queue \/ (k = j /\ state[j] = "pending")
  <2>1. CASE ReadNote(j)
    BY <2>1 DEF ReadNote, workerVars
  <2>2. CASE EtaPast(j)
    BY <2>2 DEF EtaPast, workerVars, runnerVars
  <2> QED  BY <2>1, <2>2
<1> QED  BY <1>1 DEF QuietInv, RequestsOK, WorkersOK, HasJob, QueueOK, HistoryOK, ParentsFirst,
            ParentsIn

\* The runner asks for a job: it was pending, so nobody had it.
LEMMA RunQuiet == ASSUME QuietInv, NEW j \in Job, RunJob(j), IInv' PROVE QuietInv'
<1>1. state[j] = "pending" /\ reqs[j] = 0
  <2>1. state[j] = "pending"
    BY DEF RunJob, QuietInv, QueueOK
  <2>2. reqs[j] \in 0 .. RequestBound
    BY DEF QuietInv, IInv, TypeOK
  <2> QED  BY <2>1, <2>2, Numbers DEF QuietInv, RequestsOK
<1>2. \A w \in Worker : pc[w] # "idle" => on[w] # j
  <2> SUFFICES ASSUME NEW w \in Worker, pc[w] # "idle", on[w] = j PROVE FALSE
    OBVIOUS
  <2> QED  BY <1>1 DEF QuietInv, WorkersOK, HasJob, IInv, TypeOK
<1>3. /\ state' = [state EXCEPT ![j] = "enqueued"] /\ reqs' = [reqs EXCEPT ![j] = @ + 1]
      /\ fresh' = [fresh EXCEPT ![j] = TRUE] /\ queue' = queue \ {j}
      /\ UNCHANGED <<pc, on, ready, commits>>
      /\ clean' = [w \in Worker |-> clean[w] /\ on[w] # j]
      /\ tx' = IF tx.job = j THEN NoTx ELSE tx
  BY DEF RunJob, Updated, workerVars
<1>4. RequestsOK'
  BY <1>1, <1>3 DEF QuietInv, RequestsOK, IInv, TypeOK
<1>5. WorkersOK'
  BY <1>2, <1>3 DEF QuietInv, WorkersOK, HasJob, IInv, TypeOK
<1>6. QueueOK' /\ HistoryOK'
  BY <1>1, <1>3 DEF QuietInv, QueueOK, HistoryOK, IInv, TypeOK
<1>7. ParentsFirst'
  BY <1>1, <1>3 DEF QuietInv, ParentsFirst, ParentsIn, IInv, TypeOK
<1> QED  BY <1>4, <1>5, <1>6, <1>7 DEF QuietInv

\* A dead job is given back or failed: no request or worker is left that has it.
LEMMA RequeueDeadQuiet ==
    ASSUME QuietInv, NEW j \in Job, RequeueDead(j), IInv' PROVE QuietInv'
<1>1. /\ Dead(j) /\ state[j] \in Active /\ reqs[j] = 0
      /\ \A w \in Worker : HasJob(w) => on[w] # j
  BY DeadIsAlone DEF RequeueDead, Dead
<1>2. /\ \E s \in {"pending", "failed"} : state' = [state EXCEPT ![j] = s]
      /\ UNCHANGED <<reqs, fresh, pc, on, ready, commits, queue>>
      /\ clean' = [w \in Worker |-> clean[w] /\ on[w] # j]
      /\ tx' = IF tx.job = j THEN NoTx ELSE tx
  BY DEF RequeueDead, Updated, workerVars, runnerVars
<1>3. PICK s \in {"pending", "failed"} : state' = [state EXCEPT ![j] = s]
  BY <1>2
<1>4. RequestsOK'
  BY <1>1, <1>2, <1>3 DEF QuietInv, RequestsOK, IInv, TypeOK
<1>5. WorkersOK'
  BY <1>1, <1>2, <1>3 DEF QuietInv, WorkersOK, HasJob, IInv, TypeOK, Active
<1>6. QueueOK' /\ HistoryOK'
  BY <1>1, <1>2, <1>3 DEF QuietInv, QueueOK, HistoryOK, IInv, TypeOK, Active
<1>7. ParentsFirst'
  BY <1>1, <1>2, <1>3 DEF QuietInv, ParentsFirst, ParentsIn, IInv, TypeOK, Active
<1> QED  BY <1>4, <1>5, <1>6, <1>7 DEF QuietInv

\* A restarted runner reads the pending jobs from the table.
LEMMA RestartQuiet == ASSUME QuietInv, Restart, IInv' PROVE QuietInv'
BY DEF Restart, workerVars, QuietInv, RequestsOK, WorkersOK, HasJob, QueueOK, HistoryOK,
   ParentsFirst, ParentsIn

\* Ten seconds pass only for a job that no request and no start is under way for.
LEMMA AgeQuiet ==
    ASSUME Undisturbed, QuietInv, NEW j \in Job, Age(j), IInv' PROVE QuietInv'
<1>1. /\ reqs[j] = 0 /\ \A w \in Worker : pc[w] = "started" => on[w] # j
      /\ fresh' = [fresh EXCEPT ![j] = FALSE]
      /\ UNCHANGED <<state, reqs, pc, on, ready, clean, queue, tx, commits>>
  BY DEF Age, Undisturbed, workerVars, runnerVars
<1> QED  BY <1>1 DEF QuietInv, RequestsOK, WorkersOK, HasJob, QueueOK, HistoryOK, ParentsFirst,
            ParentsIn, IInv, TypeOK

\* A lost request is one less.
LEMMA LoseQuiet == ASSUME QuietInv, NEW j \in Job, LoseRequest(j), IInv' PROVE QuietInv'
<1>1. /\ reqs[j] > 0 /\ reqs' = [reqs EXCEPT ![j] = @ - 1]
      /\ UNCHANGED <<state, fresh, pc, on, ready, clean, queue, tx, commits>>
  BY DEF LoseRequest, rowVars, workerVars, runnerVars
<1>2. RequestsOK'
  BY <1>1 DEF QuietInv, RequestsOK, IInv, TypeOK
<1> QED  BY <1>1, <1>2 DEF QuietInv, WorkersOK, HasJob, QueueOK, HistoryOK, ParentsFirst, ParentsIn

\* A worker takes the one request for an enqueued job.
LEMMA StartQuiet ==
    ASSUME QuietInv, NEW w \in Worker, NEW j \in Job, Start(w, j), IInv' PROVE QuietInv'
<1>1. /\ reqs[j] = 1 /\ state[j] = "enqueued" /\ fresh[j] /\ pc[w] = "idle"
  BY DEF Start, QuietInv, RequestsOK
<1>2. \A v \in Worker : HasJob(v) => on[v] # j
  BY <1>1, OneHolder
<1>3. /\ state' = [state EXCEPT ![j] = "started"] /\ reqs' = [reqs EXCEPT ![j] = @ - 1]
      /\ pc' = [pc EXCEPT ![w] = "started"] /\ on' = [on EXCEPT ![w] = j]
      /\ ready' = [ready EXCEPT ![w] = ParentsIn(j, "done", state)]
      /\ clean' = [v \in Worker |-> clean[v] /\ on[v] # j]
      /\ tx' = IF tx.job = j THEN NoTx ELSE tx
      /\ UNCHANGED <<fresh, queue, commits>>
  BY <1>1 DEF Start, Updated, runnerVars
<1>4. RequestsOK'
  BY <1>1, <1>3 DEF QuietInv, RequestsOK, IInv, TypeOK
<1>5. WorkersOK'
  <2>1. ParentsIn(j, "done", state)
    BY <1>1 DEF QuietInv, ParentsFirst
  <2> QED  BY <1>1, <1>2, <1>3, <2>1 DEF QuietInv, WorkersOK, HasJob, IInv, TypeOK
<1>6. QueueOK' /\ HistoryOK'
  BY <1>1, <1>3 DEF QuietInv, QueueOK, HistoryOK, IInv, TypeOK
<1>7. ParentsFirst'
  BY <1>1, <1>3 DEF QuietInv, ParentsFirst, ParentsIn, IInv, TypeOK
<1> QED  BY <1>4, <1>5, <1>6, <1>7 DEF QuietInv

\* A worker gives its job back, or stores that it failed.
LEMMA GivenUpQuiet ==
    ASSUME QuietInv, NEW w \in Worker, HasJob(w), IInv',
           NEW s \in {"pending", "failed"}, state' = [state EXCEPT ![on[w]] = s],
           Updated({on[w]}), Release(w), UNCHANGED <<fresh, reqs, queue, commits>>
    PROVE  QuietInv'
<1> DEFINE j == on[w]
<1>1. /\ j \in Job /\ state[j] = "started" /\ reqs[j] = 0
      /\ \A v \in Worker : HasJob(v) /\ on[v] = j => v = w
  BY OneHolder
<1>2. /\ pc' = [pc EXCEPT ![w] = "idle"] /\ on' = [on EXCEPT ![w] = NoJob]
      /\ ready' = [ready EXCEPT ![w] = FALSE]
      /\ clean' = [v \in Worker |-> clean[v] /\ on[v] # j]
      /\ tx' = IF tx.job = j THEN NoTx ELSE tx
  BY DEF Release, Updated
<1> HIDE DEF j
<1>3. RequestsOK'
  BY <1>1 DEF QuietInv, RequestsOK, IInv, TypeOK, j
<1>4. WorkersOK'
  BY <1>1, <1>2 DEF QuietInv, WorkersOK, HasJob, IInv, TypeOK, j
<1>5. QueueOK' /\ HistoryOK'
  BY <1>1, <1>2 DEF QuietInv, QueueOK, HistoryOK, IInv, TypeOK, j
<1>6. ParentsFirst'
  BY <1>1 DEF QuietInv, ParentsFirst, ParentsIn, IInv, TypeOK, j
<1> QED  BY <1>3, <1>4, <1>5, <1>6 DEF QuietInv

\* A postponed job goes back to pending: its parents were done at the start.
LEMMA PostponeQuiet ==
    ASSUME QuietInv, NEW w \in Worker, HasJob(w), NEW n, Postpone(w, n), IInv' PROVE QuietInv'
<1>1. ready[w]
  BY OneHolder
<1>2. state' = [state EXCEPT ![on[w]] = "pending"]
  BY <1>1 DEF Postpone, Pending
<1> QED  BY <1>2, GivenUpQuiet DEF Postpone, runnerVars

\* Likewise for a failed one.
LEMMA StoreFailedQuiet ==
    ASSUME QuietInv, NEW w \in Worker, HasJob(w), NEW n, StoreFailed(w, n), IInv' PROVE QuietInv'
BY GivenUpQuiet DEF StoreFailed, runnerVars

\* A worker locks its job at once: nobody else performs it.
LEMMA LockQuiet == ASSUME QuietInv, NEW w \in Worker, Lock(w), IInv' PROVE QuietInv'
<1>1. HasJob(w) /\ pc[w] = "started"
  BY DEF Lock, HasJob
<1>2. /\ on[w] \in Job /\ state[on[w]] = "started"
      /\ \A v \in Worker : HasJob(v) /\ on[v] = on[w] => v = w
  BY <1>1, OneHolder
<1>3. ~Performing(on[w])
  BY <1>1, <1>2 DEF Performing, HasJob
<1>4. /\ pc' = [pc EXCEPT ![w] = "performing"] /\ clean' = [clean EXCEPT ![w] = TRUE]
      /\ UNCHANGED <<state, fresh, reqs, on, ready, queue, tx, commits>>
  BY <1>2, <1>3 DEF Lock, rowVars, runnerVars
<1>5. WorkersOK'
  BY <1>1, <1>2, <1>4 DEF QuietInv, WorkersOK, HasJob, IInv, TypeOK
<1> QED  BY <1>4, <1>5 DEF QuietInv, RequestsOK, QueueOK, HistoryOK, ParentsFirst, ParentsIn

\* Nobody waits for a row lock.
LEMMA AcquireNever == ASSUME QuietInv, NEW w \in Worker PROVE ~Acquire(w)
BY DEF Acquire, QuietInv, WorkersOK

\* A job that is performed and whose row is as read is done, committed once.
LEMMA SucceedQuiet ==
    ASSUME QuietInv, NEW w \in Worker, Succeed(w), IInv'
    PROVE  /\ QuietInv'
           /\ on[w] \in Job /\ state[on[w]] = "started"
           /\ state' = [state EXCEPT ![on[w]] = "done"]
           /\ pc' = [pc EXCEPT ![w] = "waking"] /\ on' = on
<1> DEFINE j == on[w]
<1>1. HasJob(w) /\ pc[w] = "performing" /\ clean[w]
  BY DEF Succeed, QuietInv, WorkersOK, HasJob
<1>2. /\ j \in Job /\ state[j] = "started" /\ reqs[j] = 0
      /\ \A v \in Worker : HasJob(v) /\ on[v] = j => v = w
  BY <1>1, OneHolder
<1>3. /\ state' = [state EXCEPT ![j] = "done"]
      /\ commits' = [commits EXCEPT ![j] = IF @ < 2 THEN @ + 1 ELSE @]
      /\ pc' = [pc EXCEPT ![w] = "waking"]
      /\ clean' = [v \in Worker |-> clean[v] /\ on[v] # j]
      /\ tx' = IF tx.job = j THEN NoTx ELSE tx
      /\ UNCHANGED <<fresh, reqs, on, ready, queue>>
  BY <1>1 DEF Succeed, Updated, runnerVars
<1> HIDE DEF j
<1>4. RequestsOK'
  BY <1>2, <1>3 DEF QuietInv, RequestsOK, IInv, TypeOK
<1>5. WorkersOK'
  BY <1>1, <1>2, <1>3 DEF QuietInv, WorkersOK, HasJob, IInv, TypeOK, j
<1>6. QueueOK'
  BY <1>2, <1>3 DEF QuietInv, QueueOK, IInv, TypeOK
<1>7. HistoryOK'
  <2>1. commits[j] = 0
    BY <1>2 DEF QuietInv, HistoryOK
  <2> QED  BY <1>2, <1>3, <2>1 DEF QuietInv, HistoryOK, IInv, TypeOK
<1>8. ParentsFirst'
  BY <1>2, <1>3 DEF QuietInv, ParentsFirst, ParentsIn, IInv, TypeOK
<1> QED  BY <1>2, <1>3, <1>4, <1>5, <1>6, <1>7, <1>8 DEF QuietInv, j

\* Whatever performing a job ends in.
LEMMA PerformQuiet == ASSUME QuietInv, NEW w \in Worker, Perform(w), IInv' PROVE QuietInv'
<1>1. CASE Succeed(w)
  BY <1>1, SucceedQuiet
<1>2. CASE RetryLater(w) \/ Conflict(w) \/ FailJob(w)
  <2>1. HasJob(w)
    BY <1>2 DEF RetryLater, Conflict, FailJob, HasJob
  <2> QED  BY <1>2, <2>1, PostponeQuiet, StoreFailedQuiet DEF RetryLater, Conflict, FailJob
<1> QED  BY <1>1, <1>2 DEF Perform

\* Jobs are woken whose parents are all done.
LEMMA WakeQuiet == ASSUME QuietInv, NEW w \in Worker, Wake(w), IInv' PROVE QuietInv'
<1> DEFINE woken == Dependents(on[w], "done", state)
<1>1. \A j \in woken : j \in Job /\ state[j] = "wait" /\ ParentsIn(j, "done", state)
  BY DEF Dependents, Children
<1>2. /\ pc[w] = "waking"
      /\ state' = [j \in Job |-> IF j \in woken THEN "pending" ELSE state[j]]
      /\ clean' = [v \in Worker |-> clean[v] /\ on[v] \notin woken]
      /\ tx' = IF tx.job \in woken THEN NoTx ELSE tx
      /\ pc' = [pc EXCEPT ![w] = "idle"] /\ on' = [on EXCEPT ![w] = NoJob]
      /\ ready' = [ready EXCEPT ![w] = FALSE]
      /\ UNCHANGED <<reqs, fresh, commits, queue>>
  BY DEF Wake, Updated, Release, runnerVars
<1> HIDE DEF woken
<1>3. \A v \in Worker : pc[v] # "idle" => on[v] \in Job \ woken
  BY <1>1 DEF QuietInv, WorkersOK, HasJob, IInv, TypeOK
<1>4. RequestsOK'
  BY <1>1, <1>2 DEF QuietInv, RequestsOK, IInv, TypeOK
<1>5. WorkersOK'
  BY <1>2, <1>3 DEF QuietInv, WorkersOK, HasJob, IInv, TypeOK
<1>6. QueueOK' /\ HistoryOK'
  BY <1>1, <1>2 DEF QuietInv, QueueOK, HistoryOK, IInv, TypeOK
<1>7. ParentsFirst'
  <2>1. \A j \in Job : ParentsIn(j, "done", state) => ParentsIn(j, "done", state')
    BY <1>1, <1>2, JobQueueAssumption DEF ParentsIn
  <2> QED  BY <1>1, <1>2, <2>1 DEF QuietInv, ParentsFirst
<1> QED  BY <1>4, <1>5, <1>6, <1>7 DEF QuietInv

\* A killed worker leaves its row as it is.
LEMMA CrashQuiet == ASSUME QuietInv, NEW w \in Worker, Crash(w), IInv' PROVE QuietInv'
<1>1. /\ pc' = [pc EXCEPT ![w] = "idle"] /\ on' = [on EXCEPT ![w] = NoJob]
      /\ ready' = [ready EXCEPT ![w] = FALSE]
      /\ UNCHANGED <<state, reqs, fresh, clean, queue, tx, commits>>
  BY DEF Crash, Release, rowVars, runnerVars
<1> QED  BY <1>1 DEF QuietInv, RequestsOK, WorkersOK, HasJob, QueueOK, HistoryOK, ParentsFirst,
            ParentsIn, IInv, TypeOK

\* QuietInv is inductive in an undisturbed queue.
LEMMA StepQuiet == ASSUME Undisturbed, QuietInv, [Next]_vars PROVE QuietInv'
<1>1. IInv'
  BY StepIInv DEF QuietInv
<1>2. CASE RunnerStep
  BY <1>1, <1>2, ReadQuiet, RunQuiet, RequeueDeadQuiet DEF RunnerStep
<1>3. CASE Restart
  BY <1>1, <1>3, RestartQuiet
<1>4. ASSUME NEW j \in Job, Age(j) \/ LoseRequest(j) PROVE QuietInv'
  BY <1>1, <1>4, AgeQuiet, LoseQuiet
<1>5. ASSUME NEW w \in Worker, WorkerStep(w) PROVE QuietInv'
  BY <1>1, <1>5, StartQuiet, LockQuiet, AcquireNever, PerformQuiet, WakeQuiet, CrashQuiet
     DEF WorkerStep
<1>6. CASE UNCHANGED vars
  BY <1>1, <1>6 DEF vars, rowVars, workerVars, runnerVars, QuietInv, RequestsOK, WorkersOK,
     HasJob, QueueOK, HistoryOK, ParentsFirst, ParentsIn
<1> QED  BY <1>2, <1>3, <1>4, <1>5, <1>6, NoUserStep DEF Next

\* In an undisturbed queue at most one request or worker has a job, whatever
\* crashes, restarts, lost requests, retries and conflicts do.
THEOREM QuietInvariance == ASSUME Undisturbed PROVE Spec => []QuietInv
BY InitQuiet, StepQuiet, PTL DEF Spec

\* The effects of a job are committed at most once, and exactly once when it
\* is done: the three transactions of runjob make a crash safe to repeat.
THEOREM OneCommit == ASSUME Undisturbed PROVE Spec => []CommittedOnce
<1>1. QuietInv => CommittedOnce
  BY DEF QuietInv, HistoryOK, CommittedOnce
<1> QED  BY <1>1, QuietInvariance, PTL

\* A job is enqueued, started or over only after all the jobs it depends on.
THEOREM ParentsBefore == ASSUME Undisturbed PROVE Spec => []ParentsFirst
<1>1. QuietInv => ParentsFirst
  BY DEF QuietInv
<1> QED  BY <1>1, QuietInvariance, PTL

\* As long as no row becomes "wait" or done and no waking worker lets go, a
\* job that nobody wakes still waits for a parent.
LEMMA SameWakers ==
    ASSUME NoLostWakeup,
           \A j \in Job : (state'[j] = "wait" => state[j] = "wait")
                          /\ (state'[j] = "done" => state[j] = "done"),
           \A w \in Worker : pc[w] = "waking" => pc'[w] = "waking" /\ on'[w] = on[w]
    PROVE  NoLostWakeup'
BY JobQueueAssumption DEF NoLostWakeup, ParentsIn

\* A worker that wakes the children of its job takes no other's chance.
LEMMA WakeWakes ==
    ASSUME QuietInv, NoLostWakeup, NEW w \in Worker, Wake(w) PROVE NoLostWakeup'
<1> DEFINE woken == Dependents(on[w], "done", state)
<1>1. /\ state' = [j \in Job |-> IF j \in woken THEN "pending" ELSE state[j]]
      /\ pc' = [pc EXCEPT ![w] = "idle"] /\ on' = [on EXCEPT ![w] = NoJob]
  BY DEF Wake, Release
<1> SUFFICES ASSUME NEW j \in Job, state'[j] = "wait", ParentsIn(j, "done", state')
             PROVE  \E v \in Worker : pc'[v] = "waking" /\ on'[v] \in Parents[j]
  BY DEF NoLostWakeup
<1>2. state[j] = "wait" /\ j \notin woken
  BY <1>1
<1>3. ParentsIn(j, "done", state)
  BY <1>1, JobQueueAssumption DEF ParentsIn
<1>4. PICK v \in Worker : pc[v] = "waking" /\ on[v] \in Parents[j]
  BY <1>2, <1>3 DEF NoLostWakeup
<1>5. v # w
  BY <1>2, <1>3, <1>4 DEF Dependents, Children
<1> QED  BY <1>1, <1>4, <1>5 DEF QuietInv, IInv, TypeOK

\* No step of an undisturbed queue forgets to wake a job, if no worker is
\* killed between its second and its third transaction.
LEMMA StepWakes ==
    ASSUME Undisturbed, "crash before waking" \notin Faults,
           QuietInv, NoLostWakeup, [Next]_vars
    PROVE  NoLostWakeup'
<1>1. ASSUME NEW j \in Job, ReadNote(j) \/ EtaPast(j) \/ Age(j) \/ LoseRequest(j) PROVE NoLostWakeup'
  BY <1>1, SameWakers DEF ReadNote, EtaPast, Age, LoseRequest, rowVars, workerVars
<1>2. ASSUME NEW j \in Job, RunJob(j) \/ RequeueDead(j) PROVE NoLostWakeup'
  <2>1. /\ \E s \in {"enqueued", "pending", "failed"} : state' = [state EXCEPT ![j] = s]
        /\ UNCHANGED <<pc, on>>
    BY <1>2 DEF RunJob, RequeueDead, workerVars
  <2>2. state \in [Job -> State]
    BY DEF QuietInv, IInv, TypeOK
  <2> QED  BY <2>1, <2>2, SameWakers
<1>3. CASE Restart
  BY <1>3, SameWakers DEF Restart, workerVars
<1>4. ASSUME NEW w \in Worker, NEW j \in Job, Start(w, j) PROVE NoLostWakeup'
  <2>1. /\ UNCHANGED state \/ state' = [state EXCEPT ![j] = "started"]
        /\ pc[w] = "idle"
        /\ \A v \in Worker : v # w => pc'[v] = pc[v] /\ on'[v] = on[v]
    BY <1>4 DEF Start, workerVars, QuietInv, IInv, TypeOK
  <2>2. state \in [Job -> State]
    BY DEF QuietInv, IInv, TypeOK
  <2> QED  BY <2>1, <2>2, SameWakers
<1>5. ASSUME NEW w \in Worker, Lock(w) PROVE NoLostWakeup'
  <2>1. HasJob(w) /\ pc[w] = "started"
    BY <1>5 DEF Lock, HasJob
  <2>2. state[on[w]] = "started"
    BY <2>1, OneHolder
  <2>3. /\ UNCHANGED <<state, on>>
        /\ \E at \in {"locking", "performing"} : pc' = [pc EXCEPT ![w] = at]
    BY <1>5, <2>2 DEF Lock, rowVars
  <2>4. \A v \in Worker : pc[v] = "waking" => pc'[v] = "waking" /\ on'[v] = on[v]
    BY <2>1, <2>3 DEF QuietInv, IInv, TypeOK
  <2> QED  BY <2>3, <2>4, SameWakers
<1>6. ASSUME NEW w \in Worker, RetryLater(w) \/ Conflict(w) \/ FailJob(w) PROVE NoLostWakeup'
  <2>1. HasJob(w) /\ pc[w] = "performing"
    BY <1>6 DEF RetryLater, Conflict, FailJob, HasJob
  <2>2. ready[w] /\ on[w] \in Job
    BY <2>1, OneHolder
  <2>3. (\E n : Postpone(w, n)) \/ (\E n : StoreFailed(w, n))
    BY <1>6 DEF RetryLater, Conflict, FailJob
  <2>4. /\ \E s \in {"pending", "failed"} : state' = [state EXCEPT ![on[w]] = s]
        /\ Release(w)
    BY <2>2, <2>3 DEF Postpone, Pending, StoreFailed
  <2>5. state \in [Job -> State]
    BY DEF QuietInv, IInv, TypeOK
  <2>6. \A v \in Worker : pc[v] = "waking" => pc'[v] = "waking" /\ on'[v] = on[v]
    BY <2>1, <2>4 DEF Release, QuietInv, IInv, TypeOK
  <2> QED  BY <2>2, <2>4, <2>5, <2>6, SameWakers
<1>7. ASSUME NEW w \in Worker, Succeed(w) PROVE NoLostWakeup'
  <2>1. /\ on[w] \in Job /\ state[on[w]] = "started" /\ state' = [state EXCEPT ![on[w]] = "done"]
        /\ pc' = [pc EXCEPT ![w] = "waking"] /\ on' = on
    BY <1>7, StepIInv, SucceedQuiet DEF QuietInv, Next, WorkerStep, Perform
  <2> SUFFICES ASSUME NEW j \in Job, state'[j] = "wait", ParentsIn(j, "done", state'),
                      on[w] \notin Parents[j]
               PROVE  \E v \in Worker : pc'[v] = "waking" /\ on'[v] \in Parents[j]
    BY <2>1 DEF NoLostWakeup, QuietInv, IInv, TypeOK
  <2>2. state[j] = "wait" /\ ParentsIn(j, "done", state)
    <3>1. state \in [Job -> State] /\ Parents[j] \subseteq Job
      BY JobQueueAssumption DEF QuietInv, IInv, TypeOK
    <3>2. \A k \in Job : k # on[w] => state'[k] = state[k]
      BY <2>1, <3>1
    <3>3. j # on[w]
      BY <2>1, <3>1
    <3> QED  BY <3>1, <3>2, <3>3 DEF ParentsIn
  <2> QED  BY <2>1, <2>2 DEF NoLostWakeup, QuietInv, IInv, TypeOK
<1>8. ASSUME NEW w \in Worker, Crash(w) PROVE NoLostWakeup'
  <2>1. pc[w] # "waking" /\ UNCHANGED state /\ Release(w)
    BY <1>8 DEF Crash, Fault, rowVars
  <2>2. \A v \in Worker : pc[v] = "waking" => pc'[v] = "waking" /\ on'[v] = on[v]
    BY <2>1 DEF Release, QuietInv, IInv, TypeOK
  <2> QED  BY <2>1, <2>2, SameWakers
<1>9. CASE UNCHANGED vars
  BY <1>9, SameWakers DEF vars, rowVars, workerVars
<1> QED
  BY <1>1, <1>2, <1>3, <1>4, <1>5, <1>6, <1>7, <1>8, <1>9, WakeWakes, AcquireNever, NoUserStep
     DEF Next, RunnerStep, WorkerStep, Perform

\* A job whose parents are all done is not forgotten: it waits only while a
\* worker that finished one of them has still to wake it.
THEOREM NobodyForgotten ==
    ASSUME Undisturbed, "crash before waking" \notin Faults
    PROVE  Spec => []NoLostWakeup
<1>1. Init => NoLostWakeup
  <2> SUFFICES ASSUME Init, NEW j \in Job, state[j] = "wait" PROVE ~ParentsIn(j, "done", state)
    BY DEF NoLostWakeup
  <2>1. Parents[j] # {} /\ Parents[j] \subseteq Job
    BY JobQueueAssumption DEF Init
  <2>2. PICK p \in Parents[j] : state[p] \in {"pending", "wait"}
    BY <2>1 DEF Init
  <2> QED  BY <2>2 DEF ParentsIn
<1>2. QuietInv /\ NoLostWakeup /\ [Next]_vars => NoLostWakeup'
  BY StepWakes
<1> QED  BY <1>1, <1>2, QuietInvariance, PTL DEF Spec

(***************************************************************************)
(* The queue implements the graph of jobs.                                 *)
(***************************************************************************)

\* What users see of each state.
LEMMA ShownStates ==
    /\ Shown("wait") = "waiting" /\ Shown("pending") = "ready"
    /\ Shown("enqueued") = "running" /\ Shown("started") = "running"
    /\ Shown("done") = "done" /\ Shown("failed") = "failed"
BY DEF Shown, Active

\* A step that leaves all rows' states alone is not seen.
LEMMA NotSeen == ASSUME UNCHANGED state PROVE UNCHANGED GraphState
BY DEF GraphState

\* One row that changes is one job of the graph that moves.
LEMMA OneSeen ==
    ASSUME TypeOK, NEW j \in Job, NEW s, state' = [state EXCEPT ![j] = s]
    PROVE  /\ GraphState' = [GraphState EXCEPT ![j] = Shown(s)]
           /\ GraphState[j] = Shown(state[j])
BY DEF GraphState, TypeOK

\* The parents of a job are done for the graph when their rows are.
LEMMA ParentsSeen ==
    ASSUME TypeOK, NEW j \in Job
    PROVE  ParentsIn(j, "done", state) => Graph!ParentsDone(j)
<1> SUFFICES ASSUME ParentsIn(j, "done", state) PROVE Graph!ParentsDone(j)
  OBVIOUS
<1>1. \A p \in Parents[j] : p \in Job /\ state[p] = "done"
  BY JobQueueAssumption DEF ParentsIn
<1>2. \A p \in Parents[j] : GraphState[p] = "done"
  BY <1>1, ShownStates DEF GraphState
<1> QED  BY <1>2 DEF Graph!ParentsDone

\* JobGraph counts with the same Cardinality.
LEMMA SameCardinality == \A S : Graph!Cardinality(S) = Cardinality(S)
BY DEF Graph!Cardinality, Cardinality

\* Marking a job enqueued lets it run, within the capacity.
LEMMA RunSeen == ASSUME QuietInv, NEW j \in Job, RunJob(j) PROVE Graph!Run(j)
<1>1. TypeOK /\ state[j] = "pending" /\ state' = [state EXCEPT ![j] = "enqueued"]
  BY DEF RunJob, QuietInv, QueueOK, IInv
<1>2. Graph!Move(j, "ready", "running")
  BY <1>1, OneSeen, ShownStates DEF Graph!Move
<1>3. Graph!Running \subseteq running
  <2> SUFFICES ASSUME NEW k \in Job, Shown(state[k]) = "running" PROVE state[k] \in Active
    BY DEF Graph!Running, GraphState, QuietInv, IInv, ActiveCounted
  <2>1. state[k] \in State
    BY <1>1 DEF TypeOK
  <2> QED  BY <2>1, ShownStates DEF Shown, State, Active
<1>4. /\ Cardinality(Graph!Running) \in Nat /\ Cardinality(running) \in Nat
      /\ Cardinality(Graph!Running) <= Cardinality(running)
  BY <1>1, <1>3, SubsetSmaller DEF TypeOK
<1>5. Capacity = 0 \/ Cardinality(running) < Capacity
  BY DEF RunJob, HasCapacity
<1> QED  BY <1>2, <1>4, <1>5, Numbers, SameCardinality DEF Graph!Run

\* A job that runs is given back, given up or finished.
LEMMA EndSeen ==
    ASSUME QuietInv, NEW j \in Job, state[j] \in Active,
           NEW s \in {"pending", "failed", "done"}, state' = [state EXCEPT ![j] = s]
    PROVE  Graph!GiveBack(j) \/ Graph!GiveUp(j) \/ Graph!Finish(j)
<1>1. TypeOK
  BY DEF QuietInv, IInv
<1>2. GraphState' = [GraphState EXCEPT ![j] = Shown(s)] /\ GraphState[j] = "running"
  BY <1>1, OneSeen, ShownStates DEF Active
<1>3. Shown(s) \in {"ready", "failed", "done"}
  BY ShownStates
<1> QED  BY <1>2, <1>3 DEF Graph!GiveBack, Graph!GiveUp, Graph!Finish, Graph!Move

\* Waking unblocks jobs whose parents are done.
LEMMA WakeSeen ==
    ASSUME QuietInv, NEW w \in Worker, Wake(w)
    PROVE  \E S \in SUBSET Job : Graph!Unblock(S)
<1> DEFINE woken == Dependents(on[w], "done", state)
<1>1. TypeOK /\ state' = [j \in Job |-> IF j \in woken THEN "pending" ELSE state[j]]
  BY DEF QuietInv, IInv, Wake
<1>2. \A j \in woken : j \in Job /\ state[j] = "wait" /\ ParentsIn(j, "done", state)
  BY DEF Dependents, Children
<1> HIDE DEF woken
<1>3. \A j \in woken : GraphState[j] = "waiting" /\ Graph!ParentsDone(j)
  <2> SUFFICES ASSUME NEW j \in woken PROVE GraphState[j] = "waiting" /\ Graph!ParentsDone(j)
    OBVIOUS
  <2> QED  BY <1>1, <1>2, ParentsSeen, ShownStates DEF GraphState
<1>4. GraphState' = [j \in Job |-> IF j \in woken THEN "ready" ELSE GraphState[j]]
  BY <1>1, ShownStates DEF GraphState
<1>5. woken \in SUBSET Job
  BY <1>2
<1> QED  BY <1>3, <1>4, <1>5 DEF Graph!Unblock

\* Every step of the undisturbed queue is a step of the graph, or not seen.
LEMMA StepSeen ==
    ASSUME Undisturbed, QuietInv, [Next]_vars PROVE [Graph!Next]_GraphState
<1>1. ASSUME NEW j \in Job, ReadNote(j) \/ EtaPast(j) \/ Age(j) \/ LoseRequest(j)
      PROVE  UNCHANGED GraphState
  BY <1>1, NotSeen DEF ReadNote, EtaPast, Age, LoseRequest, rowVars
<1>2. ASSUME NEW j \in Job, RunJob(j) PROVE Graph!Next
  BY <1>2, RunSeen DEF Graph!Next
<1>3. ASSUME NEW j \in Job, RequeueDead(j) PROVE Graph!Next
  <2>1. PICK s \in {"pending", "failed"} : state' = [state EXCEPT ![j] = s]
    BY <1>3 DEF RequeueDead
  <2>2. state[j] \in Active
    BY <1>3 DEF RequeueDead, Dead
  <2> QED  BY <2>1, <2>2, EndSeen DEF Graph!Next
<1>4. CASE Restart
  BY <1>4, NotSeen DEF Restart
<1>5. ASSUME NEW w \in Worker, NEW j \in Job, Start(w, j) PROVE UNCHANGED GraphState
  <2>1. UNCHANGED state \/ (state[j] = "enqueued" /\ state' = [state EXCEPT ![j] = "started"])
    BY <1>5 DEF Start
  <2>2. TypeOK
    BY DEF QuietInv, IInv
  <2> QED  BY <2>1, <2>2, NotSeen, ShownStates DEF GraphState, TypeOK
<1>6. ASSUME NEW w \in Worker, Lock(w) PROVE UNCHANGED GraphState
  <2>1. HasJob(w)
    BY <1>6 DEF Lock, HasJob
  <2>2. state[on[w]] = "started"
    BY <2>1, OneHolder
  <2> QED  BY <1>6, <2>2, NotSeen DEF Lock, rowVars
<1>7. ASSUME NEW w \in Worker, RetryLater(w) \/ Conflict(w) \/ FailJob(w) PROVE Graph!Next
  <2>1. HasJob(w)
    BY <1>7 DEF RetryLater, Conflict, FailJob, HasJob
  <2>2. on[w] \in Job /\ state[on[w]] \in Active /\ ready[w]
    BY <2>1, OneHolder DEF Active
  <2>3. (\E n : Postpone(w, n)) \/ (\E n : StoreFailed(w, n))
    BY <1>7 DEF RetryLater, Conflict, FailJob
  <2>4. PICK s \in {"pending", "failed"} : state' = [state EXCEPT ![on[w]] = s]
    BY <2>2, <2>3 DEF Postpone, Pending, StoreFailed
  <2> QED  BY <2>2, <2>4, EndSeen DEF Graph!Next
<1>8. ASSUME NEW w \in Worker, Succeed(w) PROVE Graph!Next
  <2>1. /\ on[w] \in Job /\ state[on[w]] = "started"
        /\ state' = [state EXCEPT ![on[w]] = "done"]
    BY <1>8, StepIInv, SucceedQuiet DEF QuietInv, Next, WorkerStep, Perform
  <2> QED  BY <2>1, EndSeen DEF Graph!Next, Active
<1>9. ASSUME NEW w \in Worker, Wake(w) PROVE Graph!Next
  BY <1>9, WakeSeen DEF Graph!Next
<1>10. ASSUME NEW w \in Worker, Crash(w) PROVE UNCHANGED GraphState
  BY <1>10, NotSeen DEF Crash, rowVars
<1>11. CASE UNCHANGED vars
  BY <1>11, NotSeen DEF vars, rowVars
<1> QED
  BY <1>1, <1>2, <1>3, <1>4, <1>5, <1>6, <1>7, <1>8, <1>9, <1>10, <1>11, AcquireNever, NoUserStep
     DEF Next, RunnerStep, WorkerStep, Perform

\* The queue executes the graph as JobGraph promises, for every graph of
\* jobs, capacity and number of workers, with crashes, restarts of the runner,
\* lost requests, retries and conflicts: each step is one of the graph or none.
THEOREM Refinement == ASSUME Undisturbed PROVE Spec => ImplementsJobGraph
<1>1. Init => Graph!Init
  <2> SUFFICES ASSUME Init PROVE Graph!Init
    OBVIOUS
  <2> QED  BY ShownStates DEF Init, GraphState, Graph!Init
<1>2. QuietInv /\ [Next]_vars => [Graph!Next]_GraphState
  BY StepSeen
<1> QED  BY <1>1, <1>2, QuietInvariance, PTL DEF Spec, ImplementsJobGraph, Graph!Spec

\* Every variable keeps its type.
THEOREM TypeCorrect == Spec => []TypeOK
<1>1. IInv => TypeOK
  BY DEF IInv
<1> QED  BY <1>1, Invariance, PTL

(***************************************************************************)
(* The tree of channels                                                     *)
(***************************************************************************)
\* What the runner's tree is made of.
Jobs == [Chan -> SUBSET Task]
Trees == [q : Jobs, run : Jobs, fail : Jobs, eta : [Task -> Nat], pause : [Chan -> Nat],
          out : SUBSET Task]

\* What the constants are.
LEMMA ChannelFacts ==
    /\ Root \in Chan /\ \A c \in Chan \ {Root} : Downstream[c] \in Chan /\ Downstream[c] # c
    /\ Room \in [Chan -> Nat] /\ Delay \in [Chan -> Nat]
    /\ Home \in [Task -> Chan] /\ Order \in [Task -> Nat] /\ IsFiniteSet(Task) /\ Etas \subseteq Nat
BY ChannelsAssumption

\* Where a job can be in the tree: nowhere, failed in its own channel, running all the way,
\* or in one queue of its way and running before that.
Nowhere(t, j) == \A d \in Chan : j \notin t.q[d] /\ j \notin t.run[d] /\ j \notin t.fail[d]
FailedAt(t, j) == \A d \in Chan : j \notin t.q[d] /\ j \notin t.run[d] /\ (j \in t.fail[d] <=> d = Home[j])
RunsAll(t, j) == \A d \in Chan : j \notin t.q[d] /\ j \notin t.fail[d] /\ (j \in t.run[d] <=> d \in Passes(j))
WaitsAt(t, j, c) ==
  \A d \in Chan : /\ j \in t.q[d] <=> d = c
                  /\ j \in t.run[d] <=> d \in Passes(j) /\ c \in Below[d]
                  /\ j \notin t.fail[d]
Waits(t, j) == \E c \in Passes(j) : WaitsAt(t, j, c)
InPlace(t, j) == Nowhere(t, j) \/ FailedAt(t, j) \/ RunsAll(t, j) \/ Waits(t, j)

\* The way of a job is a chain: the next channel is behind all before it.
LEMMA WayFacts ==
    ASSUME NEW j \in Task
    PROVE  /\ Passes(j) \subseteq Chan /\ Home[j] \in Passes(j) /\ Root \in Passes(j)
           /\ \A d \in Passes(j) : Home[j] \notin Below[d] /\ (d # Root <=> Root \in Below[d])
           /\ \A c \in Passes(j) \ {Root} :
                /\ Downstream[c] \in Passes(j) /\ Downstream[c] # c
                /\ \A d \in Passes(j) : Downstream[c] \in Below[d] <=> (d = c \/ c \in Below[d])
<1> DEFINE h == Home[j]
<1>1. h \in Chan /\ Passes(j) = {h} \union Below[h] /\ Below[h] \subseteq Chan
  BY ChannelsAssumption DEF Passes
<1>2. \A c \in Chan \ {Root} : Root \in Below[c] /\ Below[c] = {Downstream[c]} \union Below[Downstream[c]]
                               /\ Downstream[c] \in Chan
  BY ChannelsAssumption
<1>3. \A c \in Chan : c \notin Below[c] /\ Below[c] \subseteq Chan
  BY ChannelsAssumption
<1>4. \A c \in Chan : \A d, e \in Below[c] : d = e \/ d \in Below[e] \/ e \in Below[d]
  BY ChannelsAssumption
<1>5. \A c \in Chan : \A d \in Below[c] : Below[d] \subseteq Below[c]
  BY ChannelsAssumption
<1>0. Below[Root] = {}
  BY ChannelsAssumption
<1> HIDE DEF h
<1>6. Root \in Passes(j)
  BY <1>1, <1>2
<1>7. ASSUME NEW d \in Passes(j) PROVE h \notin Below[d] /\ (d # Root <=> Root \in Below[d])
  <2>1. d = h \/ Below[d] \subseteq Below[h]
    BY <1>1, <1>5
  <2> QED  BY <1>0, <1>1, <1>2, <1>3, <2>1
<1>8. ASSUME NEW c \in Passes(j) \ {Root}
      PROVE  /\ Downstream[c] \in Passes(j) /\ Downstream[c] # c
             /\ \A d \in Passes(j) : Downstream[c] \in Below[d] <=> (d = c \/ c \in Below[d])
  <2> DEFINE n == Downstream[c]
  <2>1. c \in Chan /\ n \in Below[c] /\ Below[c] = {n} \union Below[n] /\ n \in Chan
    BY <1>1, <1>2
  <2>2. n \in Passes(j)
    BY <1>1, <1>5, <2>1
  <2>3. n # c
    BY <1>3, <2>1
  <2>4. ASSUME NEW d \in Passes(j) PROVE n \in Below[d] <=> (d = c \/ c \in Below[d])
    <3> HIDE DEF n
    <3>1. d \in Chan
      BY <1>1
    <3>2. c \in Below[d] => n \in Below[d]
      BY <1>5, <2>1, <3>1
    <3>3. d = c \/ c \in Below[d] \/ d \in Below[c]
      BY <1>1, <1>4
    <3>4. d \in Below[c] => n \notin Below[d]
      BY <1>3, <1>5, <2>1, <3>1
    <3> QED  BY <2>1, <3>2, <3>3, <3>4
  <2> QED  BY <2>2, <2>3, <2>4
<1> QED  BY <1>1, <1>6, <1>7, <1>8 DEF h

(***************************************************************************)
(* One round of a channel's loop                                            *)
(***************************************************************************)
\* d is t after the etas of channel c that are past were dropped.
Dued(t, d, c, now) ==
  /\ d \in Trees /\ d.q = t.q /\ d.run = t.run /\ d.fail = t.fail /\ d.pause = t.pause /\ d.out = t.out
  /\ \A j \in Task : d.eta[j] = IF j \in t.q[c] /\ t.eta[j] <= now THEN 0 ELSE t.eta[j]

\* The etas that are past are dropped and nothing else.
LEMMA DueFacts ==
    ASSUME NEW t \in Trees, NEW c \in Chan, NEW now \in Nat
    PROVE  Dued(t, DueTasks(t, c, now), c, now)
<1> DEFINE f == [j \in Task |-> IF j \in t.q[c] /\ t.eta[j] <= now THEN 0 ELSE t.eta[j]]
<1>1. DueTasks(t, c, now) = [t EXCEPT !.eta = f]
  BY DEF DueTasks
<1>2. f \in [Task -> Nat] /\ \A j \in Task : f[j] = IF j \in t.q[c] /\ t.eta[j] <= now THEN 0 ELSE t.eta[j]
  BY DEF Trees
<1> HIDE DEF f
<1> QED  BY <1>1, <1>2 DEF Trees, Dued

\* A job popped is one of the queue.
LEMMA PoppedFacts ==
    ASSUME NEW t \in Trees, NEW c \in Chan, Popped(t, c) # {}
    PROVE  \E j \in t.q[c] : j \in Task /\ Popped(t, c) = {j}
<1> DEFINE plain == {j \in t.q[c] : t.eta[j] = 0}
           O == {n \in Nat : \E j \in plain : Order[j] = n}
<1>1. plain # {} /\ Popped(t, c) = {Earliest(plain)}
  BY DEF Popped
<1>2. plain \subseteq Task /\ plain \subseteq t.q[c]
  BY DEF Trees, Jobs
<1> HIDE DEF plain
<1>3. \A j \in plain : Order[j] \in O
  BY <1>2, ChannelFacts
<1>4. O # {} /\ O \in SUBSET Nat
  BY <1>1, <1>3
<1>5. PICK n \in O : \A m \in O : n <= m
  BY <1>4, LeastOf
<1>6. PICK j \in plain : Order[j] = n
  OBVIOUS
<1>7. \A k \in plain : Order[j] <= Order[k]
  BY <1>3, <1>5, <1>6
<1>8. Earliest(plain) \in plain
  BY <1>7 DEF Earliest
<1> QED  BY <1>1, <1>2, <1>8

\* What is popped depends on the queue of the channel and the etas in it.
LEMMA PoppedSame ==
    ASSUME NEW t, NEW s, NEW c, t.q[c] = s.q[c], \A j \in t.q[c] : t.eta[j] = s.eta[j]
    PROVE  Popped(t, c) = Popped(s, c)
<1> DEFINE plain(x) == {j \in x.q[c] : x.eta[j] = 0}
           later(x) == x.q[c] \ plain(x)
<1>1. plain(t) = plain(s) /\ later(t) = later(s) /\ later(t) \subseteq t.q[c]
  OBVIOUS
<1>2. NextEta(t, later(t)) = NextEta(s, later(t))
  BY <1>1, SMT DEF NextEta
<1>3. \A x : Popped(x, c) =
        IF plain(x) = {} \/ (c \in InSequence /\ later(x) # {} /\
                             Order[NextEta(x, later(x))] < Order[Earliest(plain(x))])
        THEN {} ELSE {Earliest(plain(x))}
  BY DEF Popped
<1> HIDE DEF plain, later
<1> QED  BY <1>1, <1>2, <1>3

\* A round that lets no job through.
LetsNone(t, r, c, now) ==
  /\ r \in Trees /\ r.q = t.q /\ r.run = t.run /\ r.fail = t.fail /\ r.pause = t.pause /\ r.out = t.out
  /\ r.eta = t.eta \/ Dued(t, r, c, now)
\* One that lets j through.
Through(t, r, c, now, j) ==
  /\ r \in Trees /\ j \in t.q[c] /\ HasRoom(t, c) /\ ~Pausing(t, c, now)
  /\ r.q[c] = t.q[c] \ {j}
  /\ c # Root => r.q[Downstream[c]] = t.q[Downstream[c]] \union {j}
  /\ \A d \in Chan \ {c} : c = Root \/ d # Downstream[c] => r.q[d] = t.q[d]
  /\ r.run[c] = t.run[c] \union {j} /\ \A d \in Chan \ {c} : r.run[d] = t.run[d]
  /\ r.fail = t.fail
  /\ r.pause[c] = (IF Delay[c] > 0 THEN now + Delay[c] ELSE t.pause[c])
  /\ \A d \in Chan \ {c} : r.pause[d] = t.pause[d]
  /\ r.out = IF c = Root THEN t.out \union {j} ELSE t.out
  /\ \A k \in Task : r.eta[k] = IF k \in t.q[c] /\ t.eta[k] <= now THEN 0 ELSE t.eta[k]

\* Channel c has nothing to do: it pauses, is full, or has no job that is due.
Quiet(t, c, now) ==
  \/ Pausing(t, c, now) \/ ~HasRoom(t, c)
  \/ Popped(t, c) = {} /\ \A j \in t.q[c] : t.eta[j] = 0 \/ t.eta[j] > now

\* A round lets no job through, and then the channel is quiet, or one.
LEMMA RoundFacts ==
    ASSUME NEW t \in Trees, NEW c \in Chan, NEW now \in Nat
    PROVE  LET r == LetOneThrough(t, c, now)
           IN  \/ LetsNone(t, r, c, now) /\ Quiet(r, c, now)
               \/ \E j \in Task : Through(t, r, c, now, j) /\ ~Quiet(t, c, now)
<1> DEFINE r == LetOneThrough(t, c, now)
           d == DueTasks(t, c, now)
<1>1. CASE Pausing(t, c, now) \/ ~HasRoom(t, c)
  <2>1. r = t
    BY <1>1 DEF LetOneThrough
  <2> QED  BY <1>1, <2>1 DEF LetsNone, Quiet
<1>2. CASE ~(Pausing(t, c, now) \/ ~HasRoom(t, c))
  <2>0. Dued(t, d, c, now)
    BY DueFacts
  <2>1. CASE Popped(d, c) = {}
    <3>1. r = d
      BY <1>2, <2>1 DEF LetOneThrough
    <3> HIDE DEF r, d
    <3>2. \A j \in d.q[c] : d.eta[j] = 0 \/ d.eta[j] > now
      BY <2>0 DEF Dued, Trees, Jobs
    <3> QED  BY <2>0, <2>1, <3>1, <3>2 DEF LetsNone, Dued, Quiet, r
  <2>2. CASE Popped(d, c) # {}
    <3> DEFINE j == CHOOSE x \in Popped(d, c) : TRUE
               u == [d EXCEPT !.q[c] = @ \ {j}, !.run[c] = @ \union {j},
                              !.pause[c] = IF Delay[c] > 0 THEN now + Delay[c] ELSE @]
    <3>1. r = IF c = Root THEN [u EXCEPT !.out = @ \union {j}]
              ELSE [u EXCEPT !.q[Downstream[c]] = @ \union {j}]
      BY <1>2, <2>2 DEF LetOneThrough
    <3> HIDE DEF r, d
    <3>2. d \in Trees
      BY <2>0 DEF Dued
    <3>3. j \in d.q[c] /\ j \in Task
      BY <2>2, <3>2, PoppedFacts
    <3> HIDE DEF j
    <3>4. /\ u \in Trees /\ u.q = [d.q EXCEPT ![c] = @ \ {j}] /\ u.run = [d.run EXCEPT ![c] = @ \union {j}]
          /\ u.fail = d.fail /\ u.eta = d.eta /\ u.out = d.out
          /\ u.pause = [d.pause EXCEPT ![c] = IF Delay[c] > 0 THEN now + Delay[c] ELSE @]
      <4>1. Delay[c] \in Nat
        BY ChannelFacts
      <4>2. /\ d.q \in Jobs /\ d.run \in Jobs /\ d.fail \in Jobs /\ d.eta \in [Task -> Nat]
            /\ d.pause \in [Chan -> Nat] /\ d.out \in SUBSET Task
        BY <3>2 DEF Trees
      <4>3. /\ [d.q EXCEPT ![c] = @ \ {j}] \in Jobs /\ [d.run EXCEPT ![c] = @ \union {j}] \in Jobs
            /\ [d.pause EXCEPT ![c] = IF Delay[c] > 0 THEN now + Delay[c] ELSE @] \in [Chan -> Nat]
        BY <3>3, <4>1, <4>2 DEF Jobs
      <4>4. /\ u.q = [d.q EXCEPT ![c] = @ \ {j}] /\ u.run = [d.run EXCEPT ![c] = @ \union {j}]
            /\ u.fail = d.fail /\ u.eta = d.eta /\ u.out = d.out
            /\ u.pause = [d.pause EXCEPT ![c] = IF Delay[c] > 0 THEN now + Delay[c] ELSE @]
        BY <3>2 DEF Trees
      <4> DEFINE qq == [d.q EXCEPT ![c] = @ \ {j}]
                 rr == [d.run EXCEPT ![c] = @ \union {j}]
                 pp == [d.pause EXCEPT ![c] = IF Delay[c] > 0 THEN now + Delay[c] ELSE @]
      <4>5. u = [d EXCEPT !.q = qq, !.run = rr, !.pause = pp]
        OBVIOUS
      <4> HIDE DEF u, qq, rr, pp
      <4>6. u \in Trees
        <5>1. qq \in Jobs /\ rr \in Jobs /\ pp \in [Chan -> Nat]
          BY <4>3 DEF qq, rr, pp
        <5> QED  BY <3>2, <4>5, <5>1 DEF Trees
      <4> QED  BY <4>4, <4>6
    <3> HIDE DEF u
    <3>5. /\ r \in Trees /\ r.run = u.run /\ r.fail = u.fail /\ r.eta = u.eta /\ r.pause = u.pause
          /\ r.out = IF c = Root THEN u.out \union {j} ELSE u.out
          /\ c = Root => r.q = u.q
          /\ c # Root => r.q = [u.q EXCEPT ![Downstream[c]] = @ \union {j}]
      <4>1. CASE c = Root
        <5> DEFINE w == u.out \union {j}
        <5>1. w \in SUBSET Task
          BY <3>3, <3>4 DEF Trees
        <5>2. r = [u EXCEPT !.out = w]
          BY <3>1, <4>1
        <5> HIDE DEF w
        <5>3. r \in Trees /\ r.out = w
          BY <3>4, <5>1, <5>2 DEF Trees
        <5>4. r.run = u.run /\ r.fail = u.fail /\ r.eta = u.eta /\ r.pause = u.pause /\ r.q = u.q
          BY <3>4, <5>2 DEF Trees
        <5> QED  BY <4>1, <5>3, <5>4 DEF w
      <4>2. CASE c # Root
        <5> DEFINE w == [u.q EXCEPT ![Downstream[c]] = @ \union {j}]
        <5>1. w \in Jobs
          BY <3>3, <3>4 DEF Trees, Jobs
        <5>2. r = [u EXCEPT !.q = w]
          BY <3>1, <4>2
        <5> HIDE DEF w
        <5>3. r \in Trees /\ r.q = w
          BY <3>4, <5>1, <5>2 DEF Trees
        <5>4. r.run = u.run /\ r.fail = u.fail /\ r.eta = u.eta /\ r.pause = u.pause /\ r.out = u.out
          BY <3>4, <5>2 DEF Trees
        <5> QED  BY <4>2, <5>3, <5>4 DEF w
      <4> QED  BY <4>1, <4>2
    <3>6. c # Root => Downstream[c] \in Chan /\ Downstream[c] # c
      BY ChannelFacts
    <3>7. /\ DOMAIN d.q = Chan /\ DOMAIN d.run = Chan /\ DOMAIN d.pause = Chan /\ DOMAIN u.q = Chan
      BY <3>2, <3>4 DEF Trees, Jobs
    <3>8. /\ r.q[c] = t.q[c] \ {j}
          /\ c # Root => r.q[Downstream[c]] = t.q[Downstream[c]] \union {j}
          /\ \A e \in Chan \ {c} : c = Root \/ e # Downstream[c] => r.q[e] = t.q[e]
      <4>1. d.q = t.q
        BY <2>0 DEF Dued
      <4>2. CASE c = Root
        BY <3>4, <3>5, <3>7, <4>1, <4>2
      <4>3. CASE c # Root
        <5>1. \A e \in Chan : u.q[e] = IF e = c THEN t.q[e] \ {j} ELSE t.q[e]
          BY <3>4, <3>7, <4>1
        <5>2. \A e \in Chan : r.q[e] = IF e = Downstream[c] THEN u.q[e] \union {j} ELSE u.q[e]
          BY <3>5, <3>7, <4>3
        <5> QED  BY <3>6, <4>3, <5>1, <5>2
      <4> QED  BY <4>2, <4>3
    <3>9. /\ r.run[c] = t.run[c] \union {j} /\ \A e \in Chan \ {c} : r.run[e] = t.run[e]
          /\ r.pause[c] = (IF Delay[c] > 0 THEN now + Delay[c] ELSE t.pause[c])
          /\ \A e \in Chan \ {c} : r.pause[e] = t.pause[e]
      BY <2>0, <3>4, <3>5, <3>7 DEF Dued
    <3>10. Through(t, r, c, now, j)
      BY <1>2, <2>0, <3>3, <3>4, <3>5, <3>8, <3>9 DEF Through, Dued
    <3>11. ~Quiet(t, c, now)
      <4>1. SUFFICES ASSUME Popped(t, c) = {}, \A k \in t.q[c] : t.eta[k] = 0 \/ t.eta[k] > now PROVE FALSE
        BY <1>2 DEF Quiet
      <4>2. \A k \in t.q[c] : k \in Task /\ t.eta[k] \in Nat
        BY DEF Trees, Jobs
      <4>3. d.q[c] = t.q[c] /\ \A k \in t.q[c] : t.eta[k] = d.eta[k]
        BY <2>0, <4>1, <4>2 DEF Dued
      <4> QED  BY <2>2, <4>1, <4>3, PoppedSame
    <3> QED  BY <3>3, <3>10, <3>11 DEF r
  <2> QED  BY <2>1, <2>2
<1> QED  BY <1>1, <1>2

(***************************************************************************)
(* What a channel's loop keeps                                              *)
(***************************************************************************)
\* Job j is where it was.
Same(t, s, j) ==
  \A d \in Chan : (j \in t.q[d] <=> j \in s.q[d]) /\ (j \in t.run[d] <=> j \in s.run[d])
                  /\ (j \in t.fail[d] <=> j \in s.fail[d])
\* A job that is where it was has the place it had.
LEMMA SamePlace ==
    ASSUME NEW t, NEW s, NEW j, Same(t, s, j)
    PROVE  /\ Nowhere(t, j) <=> Nowhere(s, j)
           /\ FailedAt(t, j) <=> FailedAt(s, j)
           /\ RunsAll(t, j) <=> RunsAll(s, j)
           /\ Waits(t, j) <=> Waits(s, j)
<1>1. \A c : WaitsAt(t, j, c) <=> WaitsAt(s, j, c)
  BY DEF Same, WaitsAt
<1>2. Waits(t, j) <=> Waits(s, j)
  BY <1>1 DEF Waits
<1> QED  BY <1>2 DEF Same, Nowhere, FailedAt, RunsAll

\* A tree with every job in its place, no channel over its limit, and pauses of throttled
\* channels only.
RoomOK(t, c) == Room[c] # 0 => Cardinality(t.run[c]) <= Room[c]
TreeOK(t) ==
  /\ t \in Trees /\ \A j \in Task : InPlace(t, j)
  /\ \A c \in Chan : RoomOK(t, c) /\ (t.pause[c] # 0 => Delay[c] > 0)

\* A job of a queue waits there, and nowhere else.
LEMMA QueuedWaits ==
    ASSUME NEW t, NEW j \in Task, InPlace(t, j), NEW c \in Chan, j \in t.q[c]
    PROVE  c \in Passes(j) /\ WaitsAt(t, j, c)
<1>1. Waits(t, j)
  BY DEF InPlace, Nowhere, FailedAt, RunsAll
<1>2. PICK d \in Passes(j) : WaitsAt(t, j, d)
  BY <1>1 DEF Waits
<1>3. c = d
  BY <1>2 DEF WaitsAt
<1> QED  BY <1>2, <1>3

\* A job let through waits in the next channel, or runs if there is none.
LEMMA ThroughKeeps ==
    ASSUME NEW t, NEW r, NEW c \in Chan, NEW now \in Nat, NEW j \in Task,
           TreeOK(t), Through(t, r, c, now, j)
    PROVE  /\ TreeOK(r) /\ Waits(t, j) /\ j \notin t.run[c]
           /\ \A k \in Task : k # j => Same(t, r, k) /\ (k \in r.out <=> k \in t.out)
           /\ \/ c = Root /\ RunsAll(r, j) /\ j \in r.out
              \/ c # Root /\ Waits(r, j) /\ (j \in r.out <=> j \in t.out)
<1> DEFINE n == Downstream[c]
<1>1. c \in Passes(j) /\ WaitsAt(t, j, c)
  BY QueuedWaits DEF TreeOK, Through
<1>2. Waits(t, j) /\ j \notin t.run[c]
  <2>1. c \notin Below[c]
    BY ChannelsAssumption
  <2> QED  BY <1>1, <2>1 DEF Waits, WaitsAt
<1>3. c # Root => n \in Chan /\ n # c
  BY ChannelFacts
<1>4. \A k \in Task : k # j => Same(t, r, k) /\ (k \in r.out <=> k \in t.out)
  BY <1>3 DEF Through, Same
<1>5. \A d \in Chan : (j \in r.run[d] <=> j \in t.run[d] \/ d = c) /\ j \notin r.fail[d]
  BY <1>1 DEF Through, WaitsAt
<1>6. Passes(j) \subseteq Chan /\ \A d \in Passes(j) : d # Root <=> Root \in Below[d]
  BY WayFacts
<1>7. ASSUME c = Root PROVE RunsAll(r, j) /\ j \in r.out
  <2>1. \A d \in Chan : j \notin r.q[d]
    BY <1>1, <1>7 DEF Through, WaitsAt
  <2>2. \A d \in Chan : j \in r.run[d] <=> d \in Passes(j)
    BY <1>1, <1>5, <1>6, <1>7 DEF WaitsAt
  <2>3. j \in r.out
    BY <1>7 DEF Through
  <2> QED  BY <1>5, <2>1, <2>2, <2>3 DEF RunsAll
<1>8. ASSUME c # Root PROVE Waits(r, j) /\ (j \in r.out <=> j \in t.out)
  <2>1. n \in Passes(j) /\ n # c /\ n \in Chan /\ \A d \in Passes(j) : n \in Below[d] <=> (d = c \/ c \in Below[d])
    BY <1>1, <1>6, <1>8, WayFacts
  <2> HIDE DEF n
  <2>2. \A d \in Chan : j \in r.q[d] <=> d = n
    BY <1>1, <1>8, <2>1 DEF Through, WaitsAt, n
  <2>3. \A d \in Chan : j \in r.run[d] <=> d \in Passes(j) /\ n \in Below[d]
    BY <1>1, <1>5, <2>1 DEF WaitsAt
  <2>4. WaitsAt(r, j, n)
    BY <1>5, <2>2, <2>3 DEF WaitsAt
  <2> QED  BY <1>8, <2>1, <2>4 DEF Waits, Through
<1>9. \A k \in Task : InPlace(r, k)
  <2>1. ASSUME NEW k \in Task, k # j PROVE InPlace(r, k)
    <3>1. InPlace(t, k) /\ Same(t, r, k)
      BY <1>4, <2>1 DEF TreeOK
    <3> QED  BY <3>1, SamePlace DEF InPlace
  <2> QED  BY <1>7, <1>8, <2>1 DEF InPlace
<1>10. ASSUME NEW d \in Chan PROVE RoomOK(r, d) /\ (r.pause[d] # 0 => Delay[d] > 0)
  <2>1. CASE d # c
    BY <2>1 DEF TreeOK, Through, RoomOK
  <2>2. CASE d = c
    <3>1. t.run[c] \subseteq Task /\ IsFiniteSet(Task)
      BY ChannelFacts DEF TreeOK, Trees, Jobs
    <3>2. IsFiniteSet(t.run[c])
      BY <3>1, FS_Subset
    <3>3. Cardinality(t.run[c] \union {j}) = Cardinality(t.run[c]) + 1 /\ Cardinality(t.run[c]) \in Nat
      BY <1>2, <3>2, FS_AddElement, FS_CardinalityType
    <3>4. Room[c] # 0 => Cardinality(t.run[c]) < Room[c]
      BY DEF Through, HasRoom
    <3>5. r.run[c] = t.run[c] \union {j} /\ Room[c] \in Nat
      BY ChannelFacts DEF Through
    <3>6. RoomOK(r, c)
      BY <3>3, <3>4, <3>5 DEF RoomOK
    <3>7. r.pause[c] # 0 => Delay[c] > 0
      BY DEF Through, TreeOK
    <3> QED  BY <2>2, <3>6, <3>7
  <2> QED  BY <2>1, <2>2
<1>11. r \in Trees
  BY DEF Through
<1> QED  BY <1>2, <1>4, <1>7, <1>8, <1>9, <1>10, <1>11 DEF TreeOK

\* What jobs do while channels are looked at: they stay, wait further on, or come out to run.
Tracked(t, s) ==
  \A j \in Task : \/ Same(t, s, j) /\ (j \in s.out <=> j \in t.out)
                  \/ Waits(t, j) /\ Waits(s, j) /\ (j \in s.out <=> j \in t.out)
                  \/ Waits(t, j) /\ RunsAll(s, j) /\ j \in s.out

\* What jobs do while channels are looked at, one after the other, they do in all.
LEMMA TrackedOn ==
    ASSUME NEW t, NEW s, NEW r, Tracked(t, s), Tracked(s, r)
    PROVE  Tracked(t, r)
<1>1. ASSUME NEW j \in Task, Waits(s, j), RunsAll(s, j) PROVE FALSE
  <2>1. PICK c \in Passes(j) : WaitsAt(s, j, c)
    BY <1>1 DEF Waits
  <2>2. c \in Chan
    BY WayFacts
  <2> QED  BY <1>1, <2>1, <2>2 DEF WaitsAt, RunsAll
<1>2. ASSUME NEW j \in Task
      PROVE  \/ Same(t, r, j) /\ (j \in r.out <=> j \in t.out)
             \/ Waits(t, j) /\ Waits(r, j) /\ (j \in r.out <=> j \in t.out)
             \/ Waits(t, j) /\ RunsAll(r, j) /\ j \in r.out
  <2>1. CASE Same(t, s, j) /\ (j \in s.out <=> j \in t.out)
    <3>1. Waits(t, j) <=> Waits(s, j)
      BY <2>1, SamePlace
    <3>2. Same(s, r, j) => Same(t, r, j)
      BY <2>1 DEF Same
    <3> QED  BY <2>1, <3>1, <3>2 DEF Tracked
  <2>2. CASE Waits(t, j) /\ Waits(s, j) /\ (j \in s.out <=> j \in t.out)
    <3>1. Same(s, r, j) => Waits(r, j)
      BY <2>2, SamePlace
    <3> QED  BY <2>2, <3>1 DEF Tracked
  <2>3. CASE Waits(t, j) /\ RunsAll(s, j) /\ j \in s.out
    <3>1. ~Waits(s, j)
      BY <1>1, <2>3
    <3>2. Same(s, r, j) => RunsAll(r, j)
      BY <2>3, SamePlace
    <3> QED  BY <2>3, <3>1, <3>2 DEF Tracked
  <2> QED  BY <2>1, <2>2, <2>3 DEF Tracked
<1> QED  BY <1>2 DEF Tracked

\* What is drained and pulled, step by step.
LEMMA DrainSteps ==
    ASSUME NEW t \in Trees, NEW c \in Chan, NEW now \in Nat, NEW S \in [0..Rounds -> SUBSET Trees],
           Unpaused(t, c, now) \in S[0],
           \A n \in 1..Rounds : \A s \in S[n - 1] : LetOneThrough(s, c, now) \in S[n]
    PROVE  Drained(t, c, now) \in S[Rounds]
<1> DEFINE base == Unpaused(t, c, now)
           step == [n \in 1..Rounds |-> [s \in Trees |-> LetOneThrough(s, c, now)]]
           f == CHOOSE f : f = [n \in 0..Rounds |-> IF n = 0 THEN base ELSE LetOneThrough(f[n - 1], c, now)]
<1>0. Rounds \in Nat
  BY ChannelFacts, FS_CardinalityType DEF Rounds
<1>1. Drained(t, c, now) = f[Rounds]
  BY DEF Drained
<1>2. base \in Trees
  <2>1. 0 \in 0..Rounds
    BY <1>0
  <2> QED  BY <2>1
<1>3. \A s \in Trees : LetOneThrough(s, c, now) \in Trees
  BY RoundFacts DEF LetsNone, Through
<1>4. step \in [1..Rounds -> [Trees -> Trees]]
  BY <1>3
<1> HIDE DEF base
<1>5. PICK g : g \in [0..Rounds -> Trees] /\ Stepped(Rounds, base, step, g)
  <2> HIDE DEF step
  <2> QED  BY ONLY <1>0, <1>2, <1>4, Stepping
<1>6. g = [n \in 0..Rounds |-> IF n = 0 THEN base ELSE LetOneThrough(g[n - 1], c, now)]
  <2>1. ASSUME NEW n \in 0..Rounds, n # 0 PROVE step[n][g[n - 1]] = LetOneThrough(g[n - 1], c, now)
    <3>1. n \in 1..Rounds /\ n - 1 \in 0..Rounds
      BY <1>0, <2>1
    <3>2. g[n - 1] \in Trees
      BY <1>5, <3>1
    <3> QED  BY <3>1, <3>2
  <2> HIDE DEF step
  <2> QED  BY <1>5, <2>1 DEF Stepped
<1>7. f = [n \in 0..Rounds |-> IF n = 0 THEN base ELSE LetOneThrough(f[n - 1], c, now)]
  BY <1>6
<1> HIDE DEF f, step
<1> DEFINE K == {n \in 0..Rounds : f[n] \in S[n]}
<1>8. 0 \in K
  <2>1. 0 \in 0..Rounds
    BY <1>0
  <2>2. f[0] = base
    BY <1>7, <2>1
  <2> QED  BY <2>1, <2>2 DEF base
<1>9. ASSUME NEW n \in 0..Rounds, n # Rounds, n \in K PROVE n + 1 \in K
  <2>1. n + 1 \in 1..Rounds /\ n + 1 \in 0..Rounds /\ (n + 1) - 1 = n /\ n + 1 # 0
    BY <1>0, <1>9
  <2>2. f[n + 1] = LetOneThrough(f[n], c, now)
    BY <1>7, <2>1
  <2>3. LetOneThrough(f[n], c, now) \in S[n + 1]
    BY <1>9, <2>1
  <2> QED  BY <2>1, <2>2, <2>3
<1> HIDE DEF K
<1>10. 0..Rounds \subseteq K
  BY <1>0, <1>8, <1>9, UpTo
<1>11. Rounds \in K
  BY <1>0, <1>10
<1> QED  BY <1>1, <1>11 DEF K

\* What runs in channel c in s and did not in t was let through: not in a pause, and but one
\* job if the channel is throttled, which then pauses.
Throttled(t, s, c, now) ==
  /\ t.run[c] \subseteq s.run[c]
  /\ \/ /\ s.run[c] = t.run[c]
        /\ s.pause[c] = t.pause[c] \/ (t.pause[c] <= now /\ s.pause[c] = 0)
     \/ /\ s.run[c] # t.run[c] /\ ~Pausing(t, c, now)
        /\ Delay[c] > 0 => s.pause[c] = now + Delay[c] /\ \E j : s.run[c] = t.run[c] \union {j}

\* s is t after some rounds of channel c.
Drain(t, s, c, now) ==
  /\ TreeOK(s) /\ Tracked(t, s) /\ Throttled(t, s, c, now)
  /\ \A d \in Chan \ {c} : s.run[d] = t.run[d] /\ s.pause[d] = t.pause[d]
  /\ \A d \in Chan \ {c} : c = Root \/ d # Downstream[c] => s.q[d] = t.q[d]
  /\ s.fail = t.fail /\ s.q[c] \subseteq t.q[c] /\ (c # Root => s.out = t.out)
  /\ \A k \in Task : k \notin t.q[c] => s.eta[k] = t.eta[k]

\* It begins so.
LEMMA DrainBase ==
    ASSUME NEW t, NEW c \in Chan, NEW now \in Nat, TreeOK(t)
    PROVE  Drain(t, Unpaused(t, c, now), c, now) /\ Unpaused(t, c, now).q = t.q
<1> DEFINE s == Unpaused(t, c, now)
<1>1. /\ s \in Trees /\ s.q = t.q /\ s.run = t.run /\ s.fail = t.fail /\ s.out = t.out /\ s.eta = t.eta
      /\ \A d \in Chan \ {c} : s.pause[d] = t.pause[d]
      /\ s.pause[c] = t.pause[c] \/ (t.pause[c] <= now /\ s.pause[c] = 0)
  <2>1. CASE t.pause[c] # 0 /\ now >= t.pause[c]
    <3> DEFINE p == [t.pause EXCEPT ![c] = 0]
    <3>1. p \in [Chan -> Nat] /\ p[c] = 0 /\ \A d \in Chan \ {c} : p[d] = t.pause[d]
      BY DEF TreeOK, Trees
    <3>2. s = [t EXCEPT !.pause = p]
      BY <2>1 DEF Unpaused
    <3> HIDE DEF s, p
    <3>3. /\ s \in Trees /\ s.q = t.q /\ s.run = t.run /\ s.fail = t.fail /\ s.out = t.out /\ s.eta = t.eta
          /\ s.pause = p
      BY <3>1, <3>2 DEF TreeOK, Trees
    <3>4. t.pause[c] \in Nat
      BY DEF TreeOK, Trees
    <3> QED  BY <2>1, <3>1, <3>3, <3>4
  <2>2. CASE ~(t.pause[c] # 0 /\ now >= t.pause[c])
    <3>1. s = t
      BY <2>2 DEF Unpaused
    <3> HIDE DEF s
    <3> QED  BY <3>1 DEF TreeOK
  <2> QED  BY <2>1, <2>2
<1> HIDE DEF s
<1>2. \A j \in Task : Same(t, s, j)
  BY <1>1 DEF Same
<1>3. \A j \in Task : InPlace(s, j)
  BY <1>2, SamePlace DEF InPlace, TreeOK
<1>4. TreeOK(s)
  BY <1>1, <1>3 DEF TreeOK, RoomOK
<1>5. Tracked(t, s)
  BY <1>1, <1>2 DEF Tracked
<1>6. Throttled(t, s, c, now)
  BY <1>1 DEF Throttled
<1> QED  BY <1>1, <1>4, <1>5, <1>6 DEF Drain, s

\* Each round goes on so, and makes the queue shorter unless the channel is quiet.
LEMMA DrainOn ==
    ASSUME NEW t, NEW s, NEW c \in Chan, NEW now \in Nat, TreeOK(t), Drain(t, s, c, now)
    PROVE  LET r == LetOneThrough(s, c, now)
           IN  /\ Drain(t, r, c, now)
               /\ Quiet(r, c, now) \/ (~Quiet(s, c, now) /\ \E j \in s.q[c] : r.q[c] = s.q[c] \ {j})
<1> DEFINE r == LetOneThrough(s, c, now)
<1>0. s \in Trees /\ TreeOK(s) /\ Delay[c] \in Nat /\ (c # Root => Downstream[c] \in Chan /\ Downstream[c] # c)
  BY ChannelFacts DEF Drain, TreeOK
<1>1. \/ LetsNone(s, r, c, now) /\ Quiet(r, c, now)
      \/ \E j \in Task : Through(s, r, c, now, j) /\ ~Quiet(s, c, now)
  BY <1>0, RoundFacts
<1> HIDE DEF r
<1>2. ASSUME LetsNone(s, r, c, now), Quiet(r, c, now) PROVE Drain(t, r, c, now)
  <2>1. \A j \in Task : Same(s, r, j) /\ (j \in r.out <=> j \in s.out)
    BY <1>2 DEF LetsNone, Same
  <2>2. \A j \in Task : InPlace(r, j)
    BY <1>0, <2>1, SamePlace DEF InPlace, TreeOK
  <2>3. TreeOK(r)
    BY <1>0, <1>2, <2>2 DEF TreeOK, RoomOK, LetsNone
  <2>4. Tracked(s, r)
    BY <2>1 DEF Tracked
  <2>5. Tracked(t, r)
    BY <2>4, TrackedOn DEF Drain
  <2>6. Throttled(t, r, c, now)
    BY <1>2 DEF Drain, LetsNone, Throttled
  <2>7. \A k \in Task : k \notin t.q[c] => r.eta[k] = t.eta[k]
    BY <1>2 DEF Drain, LetsNone, Dued
  <2> QED  BY <1>2, <2>3, <2>5, <2>6, <2>7 DEF Drain, LetsNone
<1>3. ASSUME NEW j \in Task, Through(s, r, c, now, j) PROVE Drain(t, r, c, now)
  <2>1. /\ TreeOK(r) /\ Waits(s, j) /\ j \notin s.run[c]
        /\ \A k \in Task : k # j => Same(s, r, k) /\ (k \in r.out <=> k \in s.out)
        /\ \/ c = Root /\ RunsAll(r, j) /\ j \in r.out
           \/ c # Root /\ Waits(r, j) /\ (j \in r.out <=> j \in s.out)
    BY <1>0, <1>3, ThroughKeeps
  <2>2. Tracked(s, r)
    BY <2>1 DEF Tracked
  <2>3. Tracked(t, r)
    BY <2>2, TrackedOn DEF Drain
  <2>4. Throttled(t, r, c, now)
    <3>1. r.run[c] = s.run[c] \union {j} /\ ~Pausing(s, c, now) /\ (Delay[c] > 0 => r.pause[c] = now + Delay[c])
      BY <1>3 DEF Through
    <3>2. t.run[c] \subseteq r.run[c] /\ r.run[c] # t.run[c]
      BY <2>1, <3>1 DEF Drain, Throttled
    <3>3. CASE s.run[c] = t.run[c]
      <4>1. s.pause[c] = t.pause[c] \/ t.pause[c] <= now
        BY <3>3 DEF Drain, Throttled
      <4>2. t.pause[c] \in Nat
        BY DEF TreeOK, Trees
      <4>3. ~Pausing(t, c, now)
        BY <3>1, <4>1, <4>2 DEF Pausing
      <4> QED  BY <3>1, <3>2, <3>3, <4>3 DEF Throttled
    <3>4. CASE s.run[c] # t.run[c]
      <4>1. ~Pausing(t, c, now) /\ (Delay[c] > 0 => s.pause[c] = now + Delay[c])
        BY <3>4 DEF Drain, Throttled
      <4>2. ~(Delay[c] > 0)
        BY <1>0, <3>1, <4>1 DEF Pausing
      <4> QED  BY <3>2, <4>1, <4>2 DEF Throttled
    <3> QED  BY <3>3, <3>4
  <2>5. r.q[c] \subseteq t.q[c] /\ (c # Root => r.out = t.out) /\ r.fail = t.fail
    BY <1>3 DEF Through, Drain
  <2>6. \A k \in Task : k \notin t.q[c] => r.eta[k] = t.eta[k]
    BY <1>3 DEF Drain, Through
  <2>7. /\ \A d \in Chan \ {c} : r.run[d] = t.run[d] /\ r.pause[d] = t.pause[d]
        /\ \A d \in Chan \ {c} : c = Root \/ d # Downstream[c] => r.q[d] = t.q[d]
    BY <1>3 DEF Drain, Through
  <2> QED  BY <2>1, <2>3, <2>4, <2>5, <2>6, <2>7 DEF Drain
<1>4. ASSUME NEW j \in Task, Through(s, r, c, now, j) PROVE \E k \in s.q[c] : r.q[c] = s.q[c] \ {k}
  BY <1>4 DEF Through
<1> QED  BY <1>1, <1>2, <1>3, <1>4 DEF r

\* After its loop a channel is quiet.
LEMMA DrainFacts ==
    ASSUME NEW t, NEW c \in Chan, NEW now \in Nat, TreeOK(t)
    PROVE  Drain(t, Drained(t, c, now), c, now) /\ Quiet(Drained(t, c, now), c, now)
<1> DEFINE N == Cardinality(Task)
           Short(s, n) == Drain(t, s, c, now) /\ (Quiet(s, c, now) \/ Cardinality(s.q[c]) + n <= N)
           S == [n \in 0..Rounds |-> {s \in Trees : Short(s, n)}]
<1>0. N \in Nat /\ Rounds = N + 1 /\ IsFiniteSet(Task)
  BY ChannelFacts, FS_CardinalityType DEF Rounds
<1>1. \A s \in Trees : s.q[c] \subseteq Task
  BY DEF Trees, Jobs
<1>2. \A s \in Trees : IsFiniteSet(s.q[c]) /\ Cardinality(s.q[c]) \in Nat /\ Cardinality(s.q[c]) <= N
  BY <1>0, <1>1, FS_Subset, FS_CardinalityType
<1>3. Unpaused(t, c, now) \in S[0]
  <2>1. Drain(t, Unpaused(t, c, now), c, now)
    BY DrainBase
  <2>2. Unpaused(t, c, now) \in Trees
    BY <2>1 DEF Drain, TreeOK
  <2>3. 0 \in 0..Rounds
    BY <1>0
  <2> HIDE DEF N
  <2>4. Short(Unpaused(t, c, now), 0)
    BY <1>0, <1>2, <2>1, <2>2
  <2> HIDE DEF Short
  <2> QED  BY <2>2, <2>3, <2>4
<1>4. ASSUME NEW n \in 1..Rounds, NEW s \in S[n - 1] PROVE LetOneThrough(s, c, now) \in S[n]
  <2> DEFINE r == LetOneThrough(s, c, now)
  <2>0. n - 1 \in 0..Rounds /\ n \in 0..Rounds /\ n \in Nat
    BY <1>0
  <2>1. s \in Trees /\ Short(s, n - 1)
    <3> HIDE DEF Short
    <3> QED  BY <2>0
  <2>2. Drain(t, r, c, now) /\ (Quiet(r, c, now) \/ (~Quiet(s, c, now) /\ \E j \in s.q[c] : r.q[c] = s.q[c] \ {j}))
    <3>1. Drain(t, s, c, now)
      BY <2>1
    <3> HIDE DEF S, Short, N
    <3> QED  BY <3>1, DrainOn
  <2> HIDE DEF r
  <2>3. r \in Trees
    BY <2>2 DEF Drain, TreeOK
  <2>4. ASSUME ~Quiet(r, c, now) PROVE Cardinality(r.q[c]) + n <= N
    <3>1. PICK j \in s.q[c] : r.q[c] = s.q[c] \ {j}
      BY <2>2, <2>4
    <3>0. IsFiniteSet(s.q[c])
      BY <1>2, <2>1
    <3>2. Cardinality(r.q[c]) = Cardinality(s.q[c]) - 1
      <4> HIDE DEF S, Short, N
      <4> QED  BY ONLY <3>0, <3>1, FS_RemoveElement
    <3>3. Cardinality(s.q[c]) + (n - 1) <= N
      BY <2>1, <2>2, <2>4
    <3>4. Cardinality(s.q[c]) \in Nat
      BY <1>2, <2>1
    <3> HIDE DEF N
    <3> QED  BY ONLY <1>0, <2>0, <3>2, <3>3, <3>4
  <2>5. Short(r, n)
    BY <2>2, <2>4
  <2> HIDE DEF Short
  <2> QED  BY <2>0, <2>3, <2>5 DEF r
<1>5. S \in [0..Rounds -> SUBSET Trees]
  OBVIOUS
<1>6. t \in Trees
  BY DEF TreeOK
<1>7. Drained(t, c, now) \in S[Rounds]
  <2> HIDE DEF S
  <2> QED  BY <1>3, <1>4, <1>5, <1>6, DrainSteps
<1>8. Drained(t, c, now) \in Trees /\ Short(Drained(t, c, now), Rounds)
  <2>1. Rounds \in 0..Rounds
    BY <1>0
  <2> HIDE DEF Short
  <2> QED  BY <1>7, <2>1
<1>9. Cardinality(Drained(t, c, now).q[c]) \in Nat
  BY <1>2, <1>8
<1> HIDE DEF N
<1> QED  BY <1>0, <1>8, <1>9

(***************************************************************************)
(* All channels, children first                                            *)
(***************************************************************************)
\* Being quiet is a matter of the channel and of the etas in its queue.
LEMMA QuietSame ==
    ASSUME NEW t, NEW s, NEW c, NEW now, Quiet(t, c, now),
           s.q[c] = t.q[c], s.run[c] = t.run[c], s.fail[c] = t.fail[c], s.pause[c] = t.pause[c],
           \A j \in t.q[c] : s.eta[j] = t.eta[j]
    PROVE  Quiet(s, c, now)
<1>1. (Pausing(t, c, now) <=> Pausing(s, c, now)) /\ (HasRoom(t, c) <=> HasRoom(s, c))
  BY DEF Pausing, HasRoom
<1>2. Popped(t, c) = Popped(s, c)
  BY PoppedSame
<1> QED  BY <1>1, <1>2 DEF Quiet

LastOne == Len(ChildrenFirst)

\* Each channel has one position, and children come first.
LEMMA PositionFacts ==
    /\ LastOne \in Nat /\ \A i \in 1..LastOne : ChildrenFirst[i] \in Chan
    /\ \A c \in Chan : \E i \in 1..LastOne : c = ChildrenFirst[i]
    /\ \A i, k \in 1..LastOne : ChildrenFirst[i] = ChildrenFirst[k] => i = k
    /\ \A i, k \in 1..LastOne :
         (ChildrenFirst[i] # Root /\ ChildrenFirst[k] = Downstream[ChildrenFirst[i]]) => i < k
<1>1. ChildrenFirst \in Seq(Chan)
  BY ChannelsAssumption
<1>2. LastOne \in Nat /\ DOMAIN ChildrenFirst = 1..LastOne /\ \A i \in 1..LastOne : ChildrenFirst[i] \in Chan
  BY <1>1 DEF LastOne
<1> HIDE DEF LastOne
<1>3. \A c \in Chan : \E i \in 1..LastOne : c = ChildrenFirst[i]
  <2>1. Range(ChildrenFirst) = Chan
    BY ChannelsAssumption
  <2> QED  BY <1>2, <2>1 DEF Range
<1>4. \A i, k \in 1..LastOne : (ChildrenFirst[i] = ChildrenFirst[k] => i = k)
                             /\ (ChildrenFirst[k] \in Below[ChildrenFirst[i]] => i < k)
  BY <1>2, ChannelsAssumption
<1>5. \A c \in Chan \ {Root} : Downstream[c] \in Below[c]
  BY ChannelsAssumption
<1> QED  BY <1>2, <1>3, <1>4, <1>5

\* What each channel's loop leads to, one after the other, all lead to.
LEMMA PullSteps ==
    ASSUME NEW t \in Trees, NEW now \in Nat, NEW S \in [0..LastOne -> SUBSET {s \in Trees : TreeOK(s)}],
           t \in S[0],
           \A i \in 1..LastOne : \A s \in S[i - 1] : Drained(s, ChildrenFirst[i], now) \in S[i]
    PROVE  Pulled(t, now) \in S[LastOne]
<1> DEFINE G == {s \in Trees : TreeOK(s)}
           step == [i \in 1..LastOne |-> [s \in G |-> Drained(s, ChildrenFirst[i], now)]]
           f == CHOOSE f : f = [i \in 0..LastOne |-> IF i = 0 THEN t
                                                   ELSE Drained(f[i - 1], ChildrenFirst[i], now)]
<1>0. LastOne \in Nat /\ \A i \in 1..LastOne : ChildrenFirst[i] \in Chan
  BY PositionFacts
<1>1. Pulled(t, now) = f[LastOne]
  BY DEF Pulled, LastOne
<1>2. t \in G
  <2>1. 0 \in 0..LastOne
    BY <1>0
  <2> QED  BY <2>1
<1>3. \A s \in G : \A c \in Chan : Drained(s, c, now) \in G
  <2>1. ASSUME NEW s \in G, NEW c \in Chan PROVE Drained(s, c, now) \in G
    <3>1. TreeOK(s)
      OBVIOUS
    <3>2. Drain(s, Drained(s, c, now), c, now)
      BY <3>1, DrainFacts
    <3> QED  BY <3>2 DEF Drain, TreeOK
  <2> QED  BY <2>1
<1> HIDE DEF G
<1>4. step \in [1..LastOne -> [G -> G]]
  BY <1>0, <1>3
<1>5. PICK g : g \in [0..LastOne -> G] /\ Stepped(LastOne, t, step, g)
  <2> HIDE DEF step
  <2> QED  BY ONLY <1>0, <1>2, <1>4, Stepping
<1>6. g = [i \in 0..LastOne |-> IF i = 0 THEN t ELSE Drained(g[i - 1], ChildrenFirst[i], now)]
  <2>1. ASSUME NEW n \in 0..LastOne, n # 0 PROVE step[n][g[n - 1]] = Drained(g[n - 1], ChildrenFirst[n], now)
    <3>1. n \in 1..LastOne /\ n - 1 \in 0..LastOne
      BY <1>0, <2>1
    <3>2. g[n - 1] \in G
      BY <1>5, <3>1
    <3> QED  BY <3>1, <3>2
  <2> HIDE DEF step
  <2> QED  BY <1>5, <2>1 DEF Stepped
<1>7. f = [i \in 0..LastOne |-> IF i = 0 THEN t ELSE Drained(f[i - 1], ChildrenFirst[i], now)]
  BY <1>6
<1> HIDE DEF f, step
<1> DEFINE K == {n \in 0..LastOne : f[n] \in S[n]}
<1>8. 0 \in K
  <2>1. 0 \in 0..LastOne
    BY <1>0
  <2>2. f[0] = t
    BY <1>7, <2>1
  <2> QED  BY <2>1, <2>2
<1>9. ASSUME NEW n \in 0..LastOne, n # LastOne, n \in K PROVE n + 1 \in K
  <2>1. n + 1 \in 1..LastOne /\ n + 1 \in 0..LastOne /\ (n + 1) - 1 = n /\ n + 1 # 0
    BY <1>0, <1>9
  <2>2. f[n + 1] = Drained(f[n], ChildrenFirst[n + 1], now)
    BY <1>7, <2>1
  <2>3. Drained(f[n], ChildrenFirst[n + 1], now) \in S[n + 1]
    BY <1>9, <2>1
  <2> QED  BY <2>1, <2>2, <2>3
<1> HIDE DEF K
<1>10. 0..LastOne \subseteq K
  BY <1>0, <1>8, <1>9, UpTo
<1>11. LastOne \in K
  BY <1>0, <1>10
<1> QED  BY <1>1, <1>11 DEF K

\* s is t after the first i channels.
Pull(t, s, now, i) ==
  /\ TreeOK(s) /\ Tracked(t, s)
  /\ \A k \in 1..LastOne :
       LET c == ChildrenFirst[k]
       IN  IF k <= i THEN Throttled(t, s, c, now) /\ Quiet(s, c, now)
           ELSE s.run[c] = t.run[c] /\ s.pause[c] = t.pause[c]

\* The loop of one more channel.
LEMMA PullOn ==
    ASSUME NEW t, NEW s, NEW now \in Nat, NEW i \in 1..LastOne, Pull(t, s, now, i - 1)
    PROVE  Pull(t, Drained(s, ChildrenFirst[i], now), now, i)
<1> DEFINE c == ChildrenFirst[i]
           r == Drained(s, c, now)
<1>0. LastOne \in Nat /\ c \in Chan
  BY PositionFacts
<1>1. Drain(s, r, c, now) /\ Quiet(r, c, now)
  BY <1>0, DrainFacts DEF Pull
<1> HIDE DEF r
<1>2. TreeOK(r) /\ TreeOK(s)
  BY <1>1 DEF Pull, Drain
<1>3. Tracked(t, r)
  BY <1>1, TrackedOn DEF Pull, Drain
<1>4. ASSUME NEW k \in 1..LastOne, k > i
      PROVE  r.run[ChildrenFirst[k]] = t.run[ChildrenFirst[k]] /\ r.pause[ChildrenFirst[k]] = t.pause[ChildrenFirst[k]]
  <2> DEFINE d == ChildrenFirst[k]
  <2>0. ~(k <= i - 1) /\ k # i
    BY ONLY <1>0, <1>4, i \in 1..LastOne, k \in 1..LastOne
  <2>a. d \in Chan
    BY PositionFacts
  <2>b. \A m, n \in 1..LastOne : ChildrenFirst[m] = ChildrenFirst[n] => m = n
    BY PositionFacts
  <2>c. d # c
    <3>1. d = c => k = i
      BY <2>b
    <3> QED  BY ONLY <2>0, <3>1
  <2>1. ~(k <= i - 1) /\ d \in Chan /\ d # c
    BY ONLY <2>0, <2>a, <2>c
  <2>2. s.run[d] = t.run[d] /\ s.pause[d] = t.pause[d]
    BY <2>1 DEF Pull
  <2> HIDE DEF d, c
  <2>3. r.run[d] = s.run[d] /\ r.pause[d] = s.pause[d]
    BY <1>1, <2>1 DEF Drain
  <2> QED  BY <2>2, <2>3 DEF d
<1>5. ASSUME NEW k \in 1..LastOne, k < i
      PROVE  Throttled(t, r, ChildrenFirst[k], now) /\ Quiet(r, ChildrenFirst[k], now)
  <2> DEFINE d == ChildrenFirst[k]
  <2>0. k <= i - 1 /\ k # i /\ ~(i < k)
    BY ONLY <1>0, <1>5, i \in 1..LastOne, k \in 1..LastOne
  <2>a. d \in Chan
    BY PositionFacts
  <2>b. \A m, n \in 1..LastOne : ChildrenFirst[m] = ChildrenFirst[n] => m = n
    BY PositionFacts
  <2>c. d # c
    <3>1. d = c => k = i
      BY <2>b
    <3> QED  BY ONLY <2>0, <3>1
  <2>d. \A m, n \in 1..LastOne : (ChildrenFirst[m] # Root /\ ChildrenFirst[n] = Downstream[ChildrenFirst[m]]) => m < n
    BY PositionFacts
  <2>e. c # Root => d # Downstream[c]
    BY <2>0, <2>d
  <2>1. k <= i - 1 /\ d \in Chan /\ d # c /\ (c # Root => d # Downstream[c])
    BY ONLY <2>0, <2>a, <2>c, <2>e
  <2>2. Throttled(t, s, d, now) /\ Quiet(s, d, now)
    BY <2>1 DEF Pull
  <2> HIDE DEF d, c
  <2>3. r.run[d] = s.run[d] /\ r.pause[d] = s.pause[d] /\ r.q[d] = s.q[d] /\ r.fail[d] = s.fail[d]
    BY <1>1, <2>1 DEF Drain
  <2>4. \A j \in s.q[d] : r.eta[j] = s.eta[j]
    <3>1. ASSUME NEW j \in s.q[d] PROVE j \in Task /\ j \notin s.q[c]
      <4>1. j \in Task
        BY <1>2, <2>1 DEF TreeOK, Trees, Jobs
      <4>2. WaitsAt(s, j, d)
        BY <1>2, <2>1, <4>1, QueuedWaits DEF TreeOK
      <4> QED  BY <1>0, <2>1, <4>1, <4>2 DEF WaitsAt
    <3> QED  BY <1>1, <3>1 DEF Drain
  <2>5. Quiet(r, d, now)
    BY <2>2, <2>3, <2>4, QuietSame
  <2>6. Throttled(t, r, d, now)
    BY <2>2, <2>3 DEF Throttled
  <2> QED  BY <2>5, <2>6 DEF d
<1>6. Throttled(t, r, c, now)
  <2>1. ~(i <= i - 1)
    BY <1>0
  <2>2. s.run[c] = t.run[c] /\ s.pause[c] = t.pause[c]
    BY <2>1 DEF Pull
  <2> HIDE DEF c
  <2>3. Throttled(s, r, c, now)
    BY <1>1 DEF Drain
  <2> QED  BY <2>2, <2>3 DEF Throttled, Pausing
<1>7. ASSUME NEW k \in 1..LastOne
      PROVE  IF k <= i THEN Throttled(t, r, ChildrenFirst[k], now) /\ Quiet(r, ChildrenFirst[k], now)
             ELSE r.run[ChildrenFirst[k]] = t.run[ChildrenFirst[k]] /\ r.pause[ChildrenFirst[k]] = t.pause[ChildrenFirst[k]]
  <2>1. k < i \/ k = i \/ k > i
    BY <1>0
  <2>2. CASE k = i
    BY <1>0, <1>1, <1>6, <2>2
  <2>3. CASE k < i
    BY <1>0, <1>5, <2>3
  <2>4. CASE k > i
    BY <1>0, <1>4, <2>4
  <2> QED  BY <2>1, <2>2, <2>3, <2>4
<1> QED  BY <1>2, <1>3, <1>7 DEF Pull, r

\* What the runner finds when it asks the root for jobs.
LEMMA PulledFacts ==
    ASSUME NEW t, NEW now \in Nat, TreeOK(t)
    PROVE  LET s == Pulled(t, now)
           IN  /\ TreeOK(s) /\ Tracked(t, s)
               /\ \A c \in Chan : Throttled(t, s, c, now) /\ Quiet(s, c, now)
<1> DEFINE S == [i \in 0..LastOne |-> {s \in Trees : Pull(t, s, now, i)}]
           s == Pulled(t, now)
<1>0. LastOne \in Nat
  BY PositionFacts
<1>1. S \in [0..LastOne -> SUBSET {x \in Trees : TreeOK(x)}]
  BY DEF Pull
<1>2. t \in S[0]
  <2>1. Tracked(t, t)
    BY DEF Tracked, Same
  <2>2. \A k \in 1..LastOne : ~(k <= 0)
    BY <1>0
  <2>3. Pull(t, t, now, 0)
    BY <2>1, <2>2 DEF Pull
  <2>4. 0 \in 0..LastOne
    BY <1>0
  <2> QED  BY <2>3, <2>4 DEF TreeOK
<1>3. ASSUME NEW i \in 1..LastOne, NEW x \in S[i - 1] PROVE Drained(x, ChildrenFirst[i], now) \in S[i]
  <2>0. i - 1 \in 0..LastOne /\ i \in 0..LastOne
    BY <1>0
  <2>1. Pull(t, x, now, i - 1)
    BY <2>0
  <2>2. Pull(t, Drained(x, ChildrenFirst[i], now), now, i)
    BY <2>1, PullOn
  <2>3. Drained(x, ChildrenFirst[i], now) \in Trees
    BY <2>2 DEF Pull, TreeOK
  <2> QED  BY <2>0, <2>2, <2>3
<1>4. t \in Trees
  BY DEF TreeOK
<1>5. s \in S[LastOne]
  <2> HIDE DEF S, s
  <2> QED  BY <1>1, <1>2, <1>3, <1>4, PullSteps DEF s
<1>6. Pull(t, s, now, LastOne)
  <2>1. LastOne \in 0..LastOne
    BY <1>0
  <2> HIDE DEF s
  <2> QED  BY <1>5, <2>1
<1> HIDE DEF s
<1>7. ASSUME NEW c \in Chan PROVE Throttled(t, s, c, now) /\ Quiet(s, c, now)
  <2>1. PICK k \in 1..LastOne : c = ChildrenFirst[k]
    BY PositionFacts
  <2>2. k <= LastOne
    BY <1>0
  <2> QED  BY <1>6, <2>1, <2>2 DEF Pull
<1> QED  BY <1>6, <1>7 DEF Pull, s

(***************************************************************************)
(* The timer                                                                *)
(***************************************************************************)
\* The timer is not due.
Early(t, now) == WakeupTime(t) = 0 \/ now < WakeupTime(t)
\* Before the time the timer is set to, no pause ends and no eta is reached in a channel that
\* is looked at.
LEMMA EarlyFacts ==
    ASSUME NEW t, NEW now \in Nat, TreeOK(t), Early(t, now),
           NEW c \in Chan, Reached(t, c), HasRoom(t, c)
    PROVE  IF t.pause[c] # 0 THEN now < t.pause[c]
           ELSE \A j \in t.q[c] : t.eta[j] # 0 => now < t.eta[j]
<1> DEFINE all == UNION {WantedAt(t, d) : d \in Chan}
<1>1. ASSUME NEW x \in WantedAt(t, c) PROVE now < x
  <2>1. x \in all
    OBVIOUS
  <2>2. all \subseteq Nat \ {0}
    <3>1. \A d \in Chan : WantedAt(t, d) \subseteq Nat \ {0}
      BY DEF WantedAt, TreeOK, Trees, Jobs
    <3> QED  BY <3>1
  <2>3. WakeupTime(t) = IF all = {} THEN 0 ELSE Min(all)
    BY DEF WakeupTime
  <2> HIDE DEF all
  <2>4. PICK m \in all : \A y \in all : m <= y
    BY <2>1, <2>2, LeastOf
  <2>5. Min(all) \in all /\ \A y \in all : Min(all) <= y
    BY <2>4 DEF Min
  <2>6. Min(all) \in Nat \ {0} /\ Min(all) <= x /\ x \in Nat
    BY <2>1, <2>2, <2>5
  <2> QED  BY <2>1, <2>3, <2>6 DEF Early
<1>2. CASE t.pause[c] # 0
  <2>1. t.pause[c] \in WantedAt(t, c)
    BY <1>2 DEF WantedAt
  <2> QED  BY <1>1, <1>2, <2>1
<1>3. CASE t.pause[c] = 0
  <2>1. ASSUME NEW j \in t.q[c], t.eta[j] # 0 PROVE t.eta[j] \in WantedAt(t, c)
    BY <1>3, <2>1 DEF WantedAt
  <2> QED  BY <1>1, <1>3, <2>1
<1> QED  BY <1>2, <1>3

\* Of a channel that is looked at nothing has changed that could let a job through.
Still(t, s, c) ==
  /\ s.run[c] = t.run[c] /\ s.fail[c] = t.fail[c]
  /\ HasRoom(t, c) => /\ s.pause[c] = t.pause[c]
                      /\ t.pause[c] = 0 => s.q[c] = t.q[c] /\ \A j \in t.q[c] : s.eta[j] = t.eta[j]
AllStill(t, s) ==
  TreeOK(s) /\ s.out = t.out /\ \A c \in Chan : Reached(t, c) => Still(t, s, c)

\* Such a channel is as quiet as it was, whatever is the time before the timer's.
LEMMA QuietTill ==
    ASSUME NEW t, NEW s, NEW before \in Nat, NEW now \in Nat, NEW c \in Chan,
           TreeOK(t), TreeOK(s), Early(t, now), Reached(t, c), Still(t, s, c), Quiet(t, c, before)
    PROVE  /\ Quiet(s, c, now)
           /\ HasRoom(s, c) => (Unpaused(s, c, now) = s)
<1>1. HasRoom(t, c) <=> HasRoom(s, c)
  BY DEF Still, HasRoom
<1>2. CASE ~HasRoom(t, c)
  BY <1>1, <1>2 DEF Quiet
<1>3. CASE HasRoom(t, c) /\ t.pause[c] # 0
  <2>1. now < t.pause[c] /\ s.pause[c] = t.pause[c] /\ t.pause[c] \in Nat
    BY <1>3, EarlyFacts DEF Still, TreeOK, Trees
  <2>2. Delay[c] > 0
    BY <1>3 DEF TreeOK
  <2>3. Quiet(s, c, now)
    BY <2>1, <2>2 DEF Quiet, Pausing
  <2>4. Unpaused(s, c, now) = s
    BY <2>1 DEF Unpaused
  <2> QED  BY <2>3, <2>4
<1>4. CASE HasRoom(t, c) /\ t.pause[c] = 0
  <2>1. s.pause[c] = 0 /\ s.q[c] = t.q[c] /\ \A j \in t.q[c] : s.eta[j] = t.eta[j]
    BY <1>4 DEF Still
  <2>2. \A j \in t.q[c] : t.eta[j] # 0 => now < t.eta[j]
    BY <1>4, EarlyFacts
  <2>3. ~Pausing(t, c, before)
    BY <1>4 DEF Pausing
  <2>4. Popped(t, c) = {}
    BY <1>4, <2>3 DEF Quiet
  <2>5. Popped(s, c) = {}
    BY <2>1, <2>4, PoppedSame
  <2>6. \A j \in t.q[c] : t.eta[j] \in Nat
    BY DEF TreeOK, Trees, Jobs
  <2>7. \A j \in s.q[c] : s.eta[j] = 0 \/ s.eta[j] > now
    BY <2>1, <2>2, <2>6
  <2>8. Unpaused(s, c, now) = s
    BY <2>1 DEF Unpaused
  <2> QED  BY <2>5, <2>7, <2>8 DEF Quiet
<1> QED  BY <1>2, <1>3, <1>4

\* A quiet channel stays as it is.
LEMMA QuietRound ==
    ASSUME NEW s, NEW c \in Chan, NEW now \in Nat, TreeOK(s), Quiet(s, c, now)
    PROVE  LET r == LetOneThrough(s, c, now)
           IN  /\ r \in Trees /\ r.q = s.q /\ r.run = s.run /\ r.fail = s.fail /\ r.pause = s.pause /\ r.out = s.out
               /\ \A j \in Task : r.eta[j] = s.eta[j]
<1> DEFINE r == LetOneThrough(s, c, now)
<1>1. LetsNone(s, r, c, now)
  BY RoundFacts DEF TreeOK
<1>2. CASE Pausing(s, c, now) \/ ~HasRoom(s, c)
  <2>1. r = s
    BY <1>2 DEF LetOneThrough
  <2> QED  BY <2>1 DEF TreeOK
<1>3. CASE \A j \in s.q[c] : s.eta[j] = 0 \/ s.eta[j] > now
  <2> HIDE DEF r
  <2>1. \A j \in Task : s.eta[j] \in Nat
    BY DEF TreeOK, Trees
  <2>2. \A j \in Task : r.eta[j] = s.eta[j]
    BY <1>1, <1>3, <2>1 DEF LetsNone, Dued
  <2> QED  BY <1>1, <2>2 DEF LetsNone, r
<1> QED  BY <1>2, <1>3 DEF Quiet

\* So the loop of a quiet channel changes nothing but a pause that is over.
LEMMA QuietLoop ==
    ASSUME NEW s, NEW c \in Chan, NEW now \in Nat, TreeOK(s), Quiet(s, c, now),
           HasRoom(s, c) => (Unpaused(s, c, now) = s)
    PROVE  LET r == Drained(s, c, now)
           IN  /\ r \in Trees /\ r.q = s.q /\ r.run = s.run /\ r.fail = s.fail /\ r.out = s.out
               /\ HasRoom(s, c) => r.pause[c] = s.pause[c]
               /\ \A d \in Chan \ {c} : r.pause[d] = s.pause[d]
               /\ \A j \in Task : r.eta[j] = s.eta[j]
<1> DEFINE u == Unpaused(s, c, now)
           Like(x) == /\ TreeOK(x) /\ Quiet(x, c, now)
                      /\ x.q = s.q /\ x.run = s.run /\ x.fail = s.fail /\ x.out = s.out
                      /\ HasRoom(s, c) => x.pause[c] = s.pause[c]
                      /\ \A d \in Chan \ {c} : x.pause[d] = s.pause[d]
                      /\ \A j \in Task : x.eta[j] = s.eta[j]
           S == [n \in 0..Rounds |-> {x \in Trees : Like(x)}]
<1>0. Rounds \in Nat /\ s \in Trees
  BY FS_CardinalityType, ChannelFacts DEF Rounds, TreeOK
<1>1. Like(u)
  <2>1. CASE HasRoom(s, c)
    <3>1. u = s
      BY <2>1
    <3> QED  BY <3>1
  <2>2. CASE ~HasRoom(s, c)
    <3>1. Drain(s, u, c, now) /\ u.q = s.q
      BY DrainBase
    <3>2. u.run = s.run /\ u.fail = s.fail /\ u.out = s.out /\ \A j \in Task : u.eta[j] = s.eta[j]
      BY <1>0, Zenon DEF Unpaused, Trees
    <3>3. TreeOK(u) /\ \A d \in Chan \ {c} : u.pause[d] = s.pause[d]
      BY <3>1 DEF Drain
    <3> HIDE DEF u
    <3>4. Quiet(u, c, now)
      BY <2>2, <3>2 DEF Quiet, HasRoom
    <3> QED  BY <2>2, <3>1, <3>2, <3>3, <3>4
  <2> QED  BY <2>1, <2>2
<1>2. ASSUME NEW x \in Trees, Like(x) PROVE LetOneThrough(x, c, now) \in Trees /\ Like(LetOneThrough(x, c, now))
  <2> DEFINE r == LetOneThrough(x, c, now)
  <2>1. TreeOK(x) /\ Quiet(x, c, now)
    BY <1>2
  <2>2. /\ r \in Trees /\ r.q = x.q /\ r.run = x.run /\ r.fail = x.fail /\ r.pause = x.pause /\ r.out = x.out
        /\ \A j \in Task : r.eta[j] = x.eta[j]
    BY <2>1, QuietRound
  <2> HIDE DEF r
  <2>3. \A j \in x.q[c] : j \in Task
    BY DEF Trees, Jobs
  <2>4. Quiet(r, c, now)
    BY <2>1, <2>2, <2>3, QuietSame
  <2>5. TreeOK(r)
    <3>1. \A j \in Task : Same(x, r, j)
      BY <2>2 DEF Same
    <3>2. \A j \in Task : InPlace(r, j)
      BY <2>1, <3>1, SamePlace DEF TreeOK, InPlace
    <3> QED  BY <2>1, <2>2, <3>2 DEF TreeOK, RoomOK
  <2> QED  BY <1>2, <2>2, <2>4, <2>5 DEF r
<1>3. S \in [0..Rounds -> SUBSET Trees]
  OBVIOUS
<1> HIDE DEF u, Like
<1>4. u \in S[0]
  <2>1. 0 \in 0..Rounds /\ u \in Trees
    BY <1>0, <1>1 DEF Like, TreeOK
  <2> QED  BY <1>1, <2>1
<1>5. ASSUME NEW n \in 1..Rounds, NEW x \in S[n - 1] PROVE LetOneThrough(x, c, now) \in S[n]
  <2>1. n - 1 \in 0..Rounds /\ n \in 0..Rounds
    BY <1>0
  <2>2. x \in Trees /\ Like(x)
    BY <2>1
  <2> QED  BY <1>2, <2>1, <2>2
<1>6. Drained(s, c, now) \in S[Rounds]
  <2> HIDE DEF S
  <2> QED  BY <1>0, <1>3, <1>4, <1>5, DrainSteps DEF u
<1>7. Drained(s, c, now) \in Trees /\ Like(Drained(s, c, now))
  <2>1. Rounds \in 0..Rounds
    BY <1>0
  <2> QED  BY <1>6, <2>1
<1> QED  BY <1>7 DEF Like

\* Before the timer's time no channel lets anything into one that is looked at.
LEMMA StillOn ==
    ASSUME NEW t, NEW s, NEW before \in Nat, NEW now \in Nat, NEW c \in Chan,
           TreeOK(t), Early(t, now), AllStill(t, s), \A d \in Chan : Quiet(t, d, before)
    PROVE  AllStill(t, Drained(s, c, now))
<1> DEFINE r == Drained(s, c, now)
<1>1. TreeOK(s) /\ s.out = t.out
  BY DEF AllStill
<1>2. Drain(s, r, c, now)
  BY <1>1, DrainFacts
<1>3. TreeOK(r)
  BY <1>2 DEF Drain
<1>4. CASE Reached(t, c)
  <2>1. Still(t, s, c) /\ Quiet(t, c, before)
    BY <1>4 DEF AllStill
  <2>2. Quiet(s, c, now) /\ (HasRoom(s, c) => (Unpaused(s, c, now) = s))
    BY <1>1, <1>4, <2>1, QuietTill
  <2>3. /\ r \in Trees /\ r.q = s.q /\ r.run = s.run /\ r.fail = s.fail /\ r.out = s.out
        /\ HasRoom(s, c) => r.pause[c] = s.pause[c]
        /\ \A d \in Chan \ {c} : r.pause[d] = s.pause[d]
        /\ \A j \in Task : r.eta[j] = s.eta[j]
    BY <1>1, <2>2, QuietLoop
  <2> HIDE DEF r
  <2>4. ASSUME NEW d \in Chan, Reached(t, d) PROVE Still(t, r, d)
    <3>1. Still(t, s, d)
      BY <2>4 DEF AllStill
    <3>2. HasRoom(t, d) => r.pause[d] = s.pause[d]
      <4>1. CASE d # c
        BY <2>3, <4>1
      <4>2. CASE d = c
        <5>1. HasRoom(t, c) => HasRoom(s, c)
          BY <2>1 DEF Still, HasRoom
        <5> QED  BY <2>3, <4>2, <5>1
      <4> QED  BY <4>1, <4>2
    <3>3. \A j \in t.q[d] : j \in Task
      BY DEF TreeOK, Trees, Jobs
    <3> QED  BY <2>3, <3>1, <3>2, <3>3 DEF Still
  <2> QED  BY <1>1, <1>3, <2>3, <2>4 DEF AllStill, r
<1>5. CASE ~Reached(t, c)
  <2> HIDE DEF r
  <2>1. c # Root
    BY <1>5, ChannelsAssumption DEF Reached
  <2>2. r.out = t.out
    BY <1>1, <1>2, <2>1 DEF Drain
  <2>3. ASSUME NEW d \in Chan, Reached(t, d) PROVE Still(t, r, d)
    <3>1. Still(t, s, d) /\ d # c
      BY <1>5, <2>3 DEF AllStill
    <3>2. r.run[d] = s.run[d] /\ r.fail[d] = s.fail[d] /\ r.pause[d] = s.pause[d]
      BY <1>2, <3>1 DEF Drain
    <3>3. ASSUME HasRoom(t, d), t.pause[d] = 0
          PROVE  r.q[d] = t.q[d] /\ \A j \in t.q[d] : r.eta[j] = t.eta[j]
      <4>1. d # Downstream[c]
        <5>1. Below[c] = {Downstream[c]} \union Below[Downstream[c]]
          BY <2>1, ChannelsAssumption
        <5> QED  BY <1>5, <2>3, <3>3, <5>1 DEF Reached
      <4>2. r.q[d] = s.q[d]
        BY <1>2, <3>1, <4>1 DEF Drain
      <4>3. s.q[d] = t.q[d] /\ \A j \in t.q[d] : s.eta[j] = t.eta[j]
        BY <3>1, <3>3 DEF Still
      <4>4. ASSUME NEW j \in s.q[d] PROVE r.eta[j] = s.eta[j]
        <5>1. j \in Task
          BY <1>1 DEF TreeOK, Trees, Jobs
        <5>2. WaitsAt(s, j, d)
          BY <1>1, <5>1, QueuedWaits DEF TreeOK
        <5>3. j \notin s.q[c]
          BY <3>1, <5>2 DEF WaitsAt
        <5> QED  BY <1>2, <5>1, <5>3 DEF Drain
      <4> QED  BY <4>2, <4>3, <4>4
    <3> QED  BY <3>1, <3>2, <3>3 DEF Still
  <2> QED  BY <1>3, <2>2, <2>3 DEF AllStill, r
<1> QED  BY <1>4, <1>5

\* If every channel was quiet, the runner finds nothing before its timer's time.
LEMMA NothingEarly ==
    ASSUME NEW t, NEW before \in Nat, NEW now \in Nat, TreeOK(t), Early(t, now),
           \A d \in Chan : Quiet(t, d, before)
    PROVE  Pulled(t, now).out = t.out
<1> DEFINE S == [i \in 0..LastOne |-> {s \in Trees : AllStill(t, s)}]
<1>0. LastOne \in Nat /\ \A i \in 1..LastOne : ChildrenFirst[i] \in Chan
  BY PositionFacts
<1>1. S \in [0..LastOne -> SUBSET {s \in Trees : TreeOK(s)}]
  BY DEF AllStill
<1>2. t \in Trees /\ t \in S[0]
  <2>1. AllStill(t, t)
    BY DEF AllStill, Still
  <2>2. 0 \in 0..LastOne
    BY <1>0
  <2> QED  BY <2>1, <2>2 DEF TreeOK
<1>3. ASSUME NEW i \in 1..LastOne, NEW s \in S[i - 1] PROVE Drained(s, ChildrenFirst[i], now) \in S[i]
  <2>1. i - 1 \in 0..LastOne /\ i \in 0..LastOne /\ ChildrenFirst[i] \in Chan
    BY <1>0
  <2>2. AllStill(t, s)
    BY <2>1
  <2>3. AllStill(t, Drained(s, ChildrenFirst[i], now))
    BY <2>1, <2>2, StillOn
  <2> QED  BY <2>1, <2>3 DEF AllStill, TreeOK
<1>4. Pulled(t, now) \in S[LastOne]
  <2> HIDE DEF S
  <2> QED  BY <1>1, <1>2, <1>3, PullSteps
<1>5. LastOne \in 0..LastOne
  BY <1>0
<1>6. AllStill(t, Pulled(t, now))
  BY <1>4, <1>5
<1> QED  BY <1>6 DEF AllStill

(***************************************************************************)
(* What the tree is told                                                    *)
(***************************************************************************)
\* Job j is elsewhere in r than in t, the others are not, and no channel runs more.
Moved(t, r, j) ==
  /\ r \in Trees /\ r.pause = t.pause /\ r.out = t.out
  /\ \A k \in Task : k # j => Same(t, r, k)
  /\ \A c \in Chan : r.run[c] \subseteq t.run[c] \union {j}

\* A tree stays in order when one job is put in its place.
LEMMA MovedOK ==
    ASSUME NEW t, NEW r, NEW j \in Task, TreeOK(t), Moved(t, r, j), InPlace(r, j),
           \A c \in Chan : r.run[c] \subseteq t.run[c]
    PROVE  TreeOK(r)
<1>1. \A k \in Task : InPlace(r, k)
  <2>1. ASSUME NEW k \in Task, k # j PROVE InPlace(r, k)
    <3>1. InPlace(t, k) /\ Same(t, r, k)
      BY <2>1 DEF TreeOK, Moved
    <3> QED  BY <3>1, SamePlace DEF InPlace
  <2> QED  BY <2>1
<1>2. ASSUME NEW c \in Chan PROVE RoomOK(r, c)
  <2>1. IsFiniteSet(t.run[c])
    <3>1. t.run[c] \subseteq Task /\ IsFiniteSet(Task)
      BY ChannelFacts DEF TreeOK, Trees, Jobs
    <3> QED  BY ONLY <3>1, FS_Subset
  <2>2. r.run[c] \subseteq t.run[c]
    OBVIOUS
  <2>3. IsFiniteSet(r.run[c]) /\ Cardinality(r.run[c]) <= Cardinality(t.run[c])
    BY ONLY <2>1, <2>2, FS_Subset
  <2>4. Cardinality(r.run[c]) \in Nat /\ Cardinality(t.run[c]) \in Nat
    BY ONLY <2>1, <2>3, FS_CardinalityType
  <2>5. RoomOK(t, c) /\ Room[c] \in Nat
    BY ChannelFacts DEF TreeOK
  <2> QED  BY <2>3, <2>4, <2>5 DEF RoomOK
<1> QED  BY <1>1, <1>2 DEF TreeOK, Moved

\* A job with a place is found on its way only.
LEMMA OnItsWay ==
    ASSUME NEW t, NEW j \in Task, InPlace(t, j), NEW c \in Chan, c \notin Passes(j)
    PROVE  j \notin t.q[c] /\ j \notin t.run[c] /\ j \notin t.fail[c]
<1>1. Home[j] \in Passes(j)
  BY WayFacts
<1>2. CASE Waits(t, j)
  <2>1. PICK d \in Passes(j) : WaitsAt(t, j, d)
    BY <1>2 DEF Waits
  <2> QED  BY <2>1 DEF WaitsAt
<1>3. CASE Nowhere(t, j) \/ FailedAt(t, j) \/ RunsAll(t, j)
  BY <1>1, <1>3 DEF Nowhere, FailedAt, RunsAll
<1> QED  BY <1>2, <1>3 DEF InPlace

\* A job that is removed from its channels is nowhere.
LEMMA RemovedFacts ==
    ASSUME NEW t, NEW j \in Task, t \in Trees, InPlace(t, j)
    PROVE  LET r == Removed(t, Passes(j), j)
           IN  /\ r \in Trees /\ r.pause = t.pause /\ r.out = t.out /\ r.eta = t.eta
               /\ Nowhere(r, j) /\ \A k \in Task : k # j => Same(t, r, k)
               /\ \A c \in Chan : r.run[c] \subseteq t.run[c]
<1> DEFINE cs == Passes(j)
           qq == Without(t.q, cs, j)
           rr == Without(t.run, cs, j)
           ff == Without(t.fail, cs, j)
           r == Removed(t, cs, j)
<1>0. t.q \in Jobs /\ t.run \in Jobs /\ t.fail \in Jobs
  BY DEF Trees
<1>1. /\ \A c \in Chan : qq[c] = IF c \in cs THEN t.q[c] \ {j} ELSE t.q[c]
      /\ \A c \in Chan : rr[c] = IF c \in cs THEN t.run[c] \ {j} ELSE t.run[c]
      /\ \A c \in Chan : ff[c] = IF c \in cs THEN t.fail[c] \ {j} ELSE t.fail[c]
  BY DEF Without
<1>2. qq \in Jobs /\ rr \in Jobs /\ ff \in Jobs
  <2>1. \A f \in Jobs : Without(f, cs, j) \in Jobs
    BY DEF Without, Jobs
  <2> QED  BY <1>0, <2>1
<1>3. r = [t EXCEPT !.q = qq, !.run = rr, !.fail = ff]
  BY DEF Removed, Trees
<1> HIDE DEF qq, rr, ff, r, cs
<1>4. /\ r \in Trees /\ r.q = qq /\ r.run = rr /\ r.fail = ff
      /\ r.pause = t.pause /\ r.out = t.out /\ r.eta = t.eta
  BY <1>2, <1>3 DEF Trees
<1>5. \A c \in Chan : c \notin cs => j \notin t.q[c] /\ j \notin t.run[c] /\ j \notin t.fail[c]
  BY OnItsWay DEF cs
<1>6. Nowhere(r, j)
  BY <1>1, <1>4, <1>5 DEF Nowhere
<1>7. \A k \in Task : k # j => Same(t, r, k)
  BY <1>1, <1>4 DEF Same
<1> QED  BY <1>1, <1>4, <1>6, <1>7 DEF r, cs

\* What a job that is put at one place leaves as it is.
LEMMA WithFacts ==
    ASSUME NEW f \in Jobs, NEW cs, NEW j \in Task
    PROVE  /\ With(f, cs, j) \in Jobs /\ Without(f, cs, j) \in Jobs
           /\ \A c \in Chan : \A k \in Task :
                /\ k \in With(f, cs, j)[c] <=> k \in f[c] \/ (k = j /\ c \in cs)
                /\ k \in Without(f, cs, j)[c] <=> k \in f[c] /\ ~(k = j /\ c \in cs)
           /\ \A c \in Chan : With(f, cs, j)[c] \subseteq f[c] \union {j}
BY DEF With, Without, Jobs

\* set_pending queues a job in its own channel, unless it waits there.
LEMMA PendingFacts ==
    ASSUME NEW t, NEW j \in Task, t \in Trees, InPlace(t, j)
    PROVE  LET r == SetPending(t, j)
           IN  /\ Moved(t, r, j) /\ Waits(r, j) /\ r.eta = t.eta
               /\ \A c \in Chan : r.run[c] \subseteq t.run[c]
<1> DEFINE r == SetPending(t, j)
           h == Home[j]
<1>0. h \in Passes(j) /\ h \in Chan /\ \A d \in Passes(j) : h \notin Below[d]
  BY WayFacts
<1>1. CASE j \in t.q[h]
  <2>1. r = t
    BY <1>1 DEF SetPending
  <2>2. Waits(t, j)
    BY <1>0, <1>1, QueuedWaits DEF Waits
  <2> QED  BY <2>1, <2>2 DEF Moved, Same
<1>2. CASE j \notin t.q[h]
  <2> DEFINE m == Removed(t, Passes(j), j)
             w == With(m.q, {h}, j)
  <2>1. r = [m EXCEPT !.q = w]
    BY <1>2 DEF SetPending, Removed
  <2>2. /\ m \in Trees /\ m.pause = t.pause /\ m.out = t.out /\ m.eta = t.eta
        /\ Nowhere(m, j) /\ \A k \in Task : k # j => Same(t, m, k)
        /\ \A c \in Chan : m.run[c] \subseteq t.run[c]
    BY RemovedFacts
  <2> HIDE DEF m
  <2>3. m.q \in Jobs
    BY <2>2 DEF Trees
  <2>4. w \in Jobs /\ \A c \in Chan : \A k \in Task : k \in w[c] <=> k \in m.q[c] \/ (k = j /\ c = h)
    BY <2>3, WithFacts
  <2> HIDE DEF w, r
  <2>5. r \in Trees /\ r.q = w /\ r.run = m.run /\ r.fail = m.fail /\ r.pause = m.pause /\ r.out = m.out /\ r.eta = m.eta
    BY <2>1, <2>2, <2>4 DEF Trees
  <2> HIDE DEF h
  <2>6. WaitsAt(r, j, h)
    BY <1>0, <2>2, <2>4, <2>5 DEF WaitsAt, Nowhere
  <2>7. \A k \in Task : k # j => Same(t, r, k)
    BY <2>2, <2>4, <2>5 DEF Same
  <2>8. Moved(t, r, j) /\ Waits(r, j)
    BY <1>0, <2>2, <2>5, <2>6, <2>7 DEF Moved, Waits
  <2> QED  BY <2>2, <2>5, <2>8 DEF r
<1> QED  BY <1>1, <1>2

\* set_failed puts a job with the failed ones of its own channel.
LEMMA FailedFacts ==
    ASSUME NEW t, NEW j \in Task, t \in Trees, InPlace(t, j)
    PROVE  LET r == SetFailed(t, j)
           IN  /\ Moved(t, r, j) /\ FailedAt(r, j) /\ r.eta = t.eta
               /\ \A c \in Chan : r.run[c] \subseteq t.run[c]
<1> DEFINE r == SetFailed(t, j)
           h == Home[j]
<1>0. h \in Passes(j) /\ h \in Chan
  BY WayFacts
<1>1. CASE j \in t.fail[h]
  <2>1. r = t
    BY <1>1 DEF SetFailed
  <2>2. FailedAt(t, j)
    <3>1. ~Waits(t, j)
      BY <1>0, <1>1 DEF Waits, WaitsAt
    <3>2. ~Nowhere(t, j) /\ ~RunsAll(t, j)
      BY <1>0, <1>1 DEF Nowhere, RunsAll
    <3> QED  BY <3>1, <3>2 DEF InPlace
  <2> QED  BY <2>1, <2>2 DEF Moved, Same
<1>2. CASE j \notin t.fail[h]
  <2> DEFINE m == Removed(t, Passes(j), j)
             w == With(m.fail, {h}, j)
  <2>1. r = [m EXCEPT !.fail = w]
    BY <1>2 DEF SetFailed, Removed
  <2>2. /\ m \in Trees /\ m.pause = t.pause /\ m.out = t.out /\ m.eta = t.eta
        /\ Nowhere(m, j) /\ \A k \in Task : k # j => Same(t, m, k)
        /\ \A c \in Chan : m.run[c] \subseteq t.run[c]
    BY RemovedFacts
  <2> HIDE DEF m
  <2>3. m.fail \in Jobs
    BY <2>2 DEF Trees
  <2>4. w \in Jobs /\ \A c \in Chan : \A k \in Task : k \in w[c] <=> k \in m.fail[c] \/ (k = j /\ c = h)
    BY <2>3, WithFacts
  <2> HIDE DEF w, r
  <2>5. r \in Trees /\ r.q = m.q /\ r.run = m.run /\ r.fail = w /\ r.pause = m.pause /\ r.out = m.out /\ r.eta = m.eta
    BY <2>1, <2>2, <2>4 DEF Trees
  <2>6. FailedAt(r, j)
    BY <1>0, <2>2, <2>4, <2>5 DEF FailedAt, Nowhere
  <2>7. \A k \in Task : k # j => Same(t, r, k)
    BY <2>2, <2>4, <2>5 DEF Same
  <2>8. Moved(t, r, j)
    BY <2>2, <2>5, <2>7 DEF Moved
  <2> QED  BY <2>2, <2>5, <2>6, <2>8 DEF r
<1> QED  BY <1>1, <1>2

\* set_running lets a job that is nowhere, or runs all its way, run all its way.
LEMMA RunningFacts ==
    ASSUME NEW t, NEW j \in Task, t \in Trees, Nowhere(t, j) \/ RunsAll(t, j)
    PROVE  LET r == SetRunning(t, j)
           IN  Moved(t, r, j) /\ RunsAll(r, j) /\ r.eta = t.eta
<1> DEFINE cs == {c \in Passes(j) : \A d \in Passes(j) : (d = c \/ c \in Below[d]) => j \notin t.run[d]}
           qq == Without(t.q, cs, j)
           rr == With(t.run, cs, j)
           ff == Without(t.fail, cs, j)
           r == SetRunning(t, j)
<1>0. t.q \in Jobs /\ t.run \in Jobs /\ t.fail \in Jobs
  BY DEF Trees
<1>1. r = [t EXCEPT !.q = qq, !.run = rr, !.fail = ff]
  BY DEF SetRunning, Trees
<1>2. Passes(j) \subseteq Chan
  BY WayFacts
<1>3. \A d \in Chan : d \in Passes(j) => (d \in cs \/ j \in t.run[d])
  BY <1>2 DEF Nowhere, RunsAll
<1>4. cs \subseteq Passes(j)
  OBVIOUS
<1> HIDE DEF cs
<1>5. /\ qq \in Jobs /\ rr \in Jobs /\ ff \in Jobs
      /\ \A c \in Chan : \A k \in Task :
           /\ k \in qq[c] <=> k \in t.q[c] /\ ~(k = j /\ c \in cs)
           /\ k \in rr[c] <=> k \in t.run[c] \/ (k = j /\ c \in cs)
           /\ k \in ff[c] <=> k \in t.fail[c] /\ ~(k = j /\ c \in cs)
      /\ \A c \in Chan : rr[c] \subseteq t.run[c] \union {j}
  BY <1>0, WithFacts
<1> HIDE DEF qq, rr, ff, r
<1>6. r \in Trees /\ r.q = qq /\ r.run = rr /\ r.fail = ff /\ r.pause = t.pause /\ r.out = t.out /\ r.eta = t.eta
  BY <1>1, <1>5 DEF Trees
<1>7. RunsAll(r, j)
  BY <1>3, <1>4, <1>5, <1>6 DEF RunsAll, Nowhere
<1>8. Moved(t, r, j)
  BY <1>5, <1>6 DEF Moved, Same
<1> QED  BY <1>6, <1>7, <1>8 DEF r

\* Job j is where its row says.
Fits(t, j, s) ==
  /\ s = "done" => Nowhere(t, j)
  /\ s \in {"enqueued", "started"} => RunsAll(t, j)
  /\ s = "failed" => FailedAt(t, j)
  /\ s = "pending" => Waits(t, j)

\* An eta that is not the object's takes the job out of its channels first.
LEMMA KnownFacts ==
    ASSUME NEW t, NEW j \in Task, TreeOK(t), NEW e \in Nat
    PROVE  LET k == IF e # t.eta[j] THEN [Removed(t, Passes(j), j) EXCEPT !.eta[j] = e] ELSE t
           IN  /\ Moved(t, k, j) /\ (k = t \/ Nowhere(k, j)) /\ InPlace(k, j)
               /\ \A c \in Chan : k.run[c] \subseteq t.run[c]
<1> DEFINE m == Removed(t, Passes(j), j)
           k == IF e # t.eta[j] THEN [m EXCEPT !.eta[j] = e] ELSE t
<1>0. t \in Trees /\ InPlace(t, j)
  BY DEF TreeOK
<1>1. CASE e = t.eta[j]
  <2>1. k = t
    BY <1>1
  <2> QED  BY <1>0, <2>1 DEF Moved, Same
<1>2. CASE e # t.eta[j]
  <2>1. /\ m \in Trees /\ m.pause = t.pause /\ m.out = t.out
        /\ Nowhere(m, j) /\ \A i \in Task : i # j => Same(t, m, i)
        /\ \A c \in Chan : m.run[c] \subseteq t.run[c]
    BY <1>0, RemovedFacts
  <2> HIDE DEF m
  <2> DEFINE f == [m.eta EXCEPT ![j] = e]
  <2>2. k = [m EXCEPT !.eta = f]
    BY <1>2
  <2>3. f \in [Task -> Nat]
    BY <2>1 DEF Trees
  <2> HIDE DEF f, k
  <2>4. k \in Trees /\ k.q = m.q /\ k.run = m.run /\ k.fail = m.fail /\ k.pause = m.pause /\ k.out = m.out
    BY <2>1, <2>2, <2>3 DEF Trees
  <2>5. Nowhere(k, j) /\ InPlace(k, j)
    BY <2>1, <2>4 DEF Nowhere, InPlace
  <2>6. Moved(t, k, j)
    BY <2>1, <2>4 DEF Moved, Same
  <2>7. /\ Moved(t, k, j) /\ (k = t \/ Nowhere(k, j)) /\ InPlace(k, j)
        /\ \A c \in Chan : k.run[c] \subseteq t.run[c]
    BY <2>1, <2>4, <2>5, <2>6
  <2> QED  BY ONLY <2>7 DEF k, m
<1> QED  BY <1>1, <1>2

\* Two moves of one job are one.
LEMMA MovedOn ==
    ASSUME NEW t, NEW k, NEW r, NEW j \in Task, Moved(t, k, j), Moved(k, r, j)
    PROVE  Moved(t, r, j)
<1>1. \A i \in Task : i # j => Same(t, r, i)
  BY DEF Moved, Same
<1>2. \A c \in Chan : r.run[c] \subseteq t.run[c] \union {j}
  BY DEF Moved
<1> QED  BY <1>1, <1>2 DEF Moved

\* What the tree is told puts the job where its row says.  A job that Odoo has, runs all its
\* way before, so that no channel runs more than it did.
LEMMA ToldFacts ==
    ASSUME NEW t, NEW j \in Task, TreeOK(t), row[j].eta \in Nat, row[j].state \in JobState,
           row[j].state \in {"enqueued", "started"} => RunsAll(t, j)
    PROVE  LET r == Told(t, j)
           IN  TreeOK(r) /\ Moved(t, r, j) /\ Fits(r, j, row[j].state)
<1> DEFINE k == IF row[j].eta # t.eta[j] THEN [Removed(t, Passes(j), j) EXCEPT !.eta[j] = row[j].eta] ELSE t
           s == row[j].state
           r == Told(t, j)
<1>1. r = IF s = "done" THEN Removed(k, Passes(j), j)
          ELSE IF s = "pending" THEN SetPending(k, j)
          ELSE IF s \in {"enqueued", "started"} THEN SetRunning(k, j)
          ELSE IF s = "failed" THEN SetFailed(k, j) ELSE k
  BY DEF Told
<1>2. /\ Moved(t, k, j) /\ (k = t \/ Nowhere(k, j)) /\ InPlace(k, j)
      /\ \A c \in Chan : k.run[c] \subseteq t.run[c]
  BY KnownFacts
<1> HIDE DEF k, s, r
<1>3. k \in Trees
  BY <1>2 DEF Moved
<1>4. SUFFICES /\ Moved(k, r, j) /\ InPlace(r, j) /\ Fits(r, j, s)
               /\ \A c \in Chan : r.run[c] \subseteq t.run[c]
  <2>1. Moved(t, r, j)
    BY <1>2, <1>4, MovedOn
  <2>2. TreeOK(r)
    BY <1>4, <2>1, MovedOK
  <2> QED  BY <1>4, <2>1, <2>2 DEF r, s
<1>5. CASE s = "done"
  <2>1. r = Removed(k, Passes(j), j)
    BY <1>1, <1>5
  <2>2. /\ r \in Trees /\ r.pause = k.pause /\ r.out = k.out
        /\ Nowhere(r, j) /\ \A i \in Task : i # j => Same(k, r, i)
        /\ \A c \in Chan : r.run[c] \subseteq k.run[c]
    BY <1>2, <1>3, <2>1, RemovedFacts
  <2> QED  BY <1>2, <1>5, <2>2 DEF Moved, InPlace, Fits
<1>6. CASE s = "pending"
  <2>1. r = SetPending(k, j)
    BY <1>1, <1>6
  <2>2. Moved(k, r, j) /\ Waits(r, j) /\ \A c \in Chan : r.run[c] \subseteq k.run[c]
    BY <1>2, <1>3, <2>1, PendingFacts
  <2> QED  BY <1>2, <1>6, <2>2 DEF InPlace, Fits
<1>7. CASE s = "failed"
  <2>1. r = SetFailed(k, j)
    BY <1>1, <1>7
  <2>2. Moved(k, r, j) /\ FailedAt(r, j) /\ \A c \in Chan : r.run[c] \subseteq k.run[c]
    BY <1>2, <1>3, <2>1, FailedFacts
  <2> QED  BY <1>2, <1>7, <2>2 DEF InPlace, Fits
<1>8. CASE s \in {"enqueued", "started"}
  <2>1. r = SetRunning(k, j)
    BY <1>1, <1>8
  <2>2. RunsAll(t, j)
    BY <1>8 DEF s
  <2>3. Moved(k, r, j) /\ RunsAll(r, j)
    BY <1>2, <1>3, <2>1, <2>2, RunningFacts
  <2>4. ASSUME NEW c \in Chan PROVE r.run[c] \subseteq t.run[c]
    <3>1. r.run[c] \subseteq k.run[c] \union {j} /\ k.run[c] \subseteq t.run[c]
      BY <1>2, <2>3 DEF Moved
    <3>2. j \in r.run[c] => j \in t.run[c]
      BY <2>2, <2>3 DEF RunsAll
    <3> QED  BY <3>1, <3>2
  <2> QED  BY <1>8, <2>3, <2>4 DEF InPlace, Fits
<1>9. CASE s = "wait"
  <2>1. r = k
    BY <1>1, <1>9
  <2> QED  BY <1>2, <1>3, <1>9, <2>1 DEF Moved, Same, Fits
<1> QED  BY <1>5, <1>6, <1>7, <1>8, <1>9 DEF s, JobState

(***************************************************************************)
(* The runner                                                               *)
(***************************************************************************)
\* Nothing is let through before the delay of a throttled channel is over.
Rested(t, now, last) ==
  \A c \in Chan : /\ last[c] <= now
                  /\ Delay[c] > 0 => \/ now >= last[c] + Delay[c]
                                     \/ t.pause[c] >= last[c] + Delay[c]

\* The runner went through all channels since it was told something.
Settled(t) == \E before \in Nat : \A c \in Chan : Quiet(t, c, before)

\* What every step keeps: each job in its place, where its row says once that was read; a job
\* that Odoo has, runs all its way even before; and a runner that sleeps has looked at
\* every channel.
ChannelsInv ==
  /\ row \in [Task -> [state : JobState, eta : Etas \union {0}]] /\ unread \subseteq Task
  /\ clock \in Nat /\ started \in [Chan -> Int]
  /\ TreeOK(Tree)
  /\ \A j \in Task : row[j].state \in {"enqueued", "started"} => RunsAll(Tree, j)
  /\ \A j \in Task \ unread : Fits(Tree, j, row[j].state)
  /\ Rested(Tree, clock, started)
  /\ asleep /\ unread = {} => Settled(Tree)

\* The runner's tree is the one it made.
LEMMA Become ==
    ASSUME NEW s, TreeOK(s), BecomeTree(s)
    PROVE  /\ TreeOK(Tree') /\ \A j \in Task : Same(s, Tree', j)
           /\ (Tree').q = s.q /\ (Tree').run = s.run /\ (Tree').fail = s.fail
           /\ (Tree').eta = s.eta /\ (Tree').pause = s.pause /\ (Tree').out = {}
<1> DEFINE u == Tree'
<1>1. /\ u.q = s.q /\ u.run = s.run /\ u.fail = s.fail /\ u.eta = s.eta /\ u.pause = s.pause /\ u.out = {}
      /\ u = [q |-> s.q, run |-> s.run, fail |-> s.fail, eta |-> s.eta, pause |-> s.pause, out |-> {}]
  BY DEF Tree, BecomeTree
<1> HIDE DEF u
<1>2. u \in Trees
  BY <1>1 DEF TreeOK, Trees
<1>3. \A j \in Task : Same(s, u, j)
  BY <1>1 DEF Same
<1>4. \A j \in Task : InPlace(u, j)
  BY <1>3, SamePlace DEF TreeOK, InPlace
<1>5. TreeOK(u)
  BY <1>1, <1>2, <1>4 DEF TreeOK, RoomOK
<1> QED  BY <1>1, <1>3, <1>5 DEF u

\* Where a job fits does not depend on the others.
LEMMA FitsSame ==
    ASSUME NEW t, NEW s, NEW j, NEW st, Same(t, s, j), Fits(t, j, st)
    PROVE  Fits(s, j, st)
BY SamePlace DEF Fits

\* It holds at first.
LEMMA ChannelsStart == ChannelsInit => ChannelsInv
<1>1. SUFFICES ASSUME ChannelsInit PROVE ChannelsInv
  OBVIOUS
<1>2. /\ Tree.q = [c \in Chan |-> {}] /\ Tree.run = [c \in Chan |-> {}] /\ Tree.fail = [c \in Chan |-> {}]
      /\ Tree.pause = [c \in Chan |-> 0] /\ Tree.eta = [j \in Task |-> 0] /\ Tree.out = {}
  BY <1>1 DEF ChannelsInit, Tree
<1>3. Tree \in Trees
  BY <1>1 DEF ChannelsInit, Tree, Trees, Jobs
<1>4. \A j \in Task : Nowhere(Tree, j)
  BY <1>2 DEF Nowhere
<1>5. TreeOK(Tree)
  <2>1. \A c \in Chan : Room[c] \in Nat /\ Cardinality(Tree.run[c]) = 0 /\ Tree.pause[c] = 0
    BY <1>2, FS_EmptySet, ChannelFacts
  <2> QED  BY <1>3, <1>4, <2>1 DEF TreeOK, RoomOK, InPlace
<1>6. row \in [Task -> [state : JobState, eta : Etas \union {0}]] /\ \A j \in Task : row[j].state = "pending"
  BY <1>1 DEF ChannelsInit, JobState
<1>7. \A c \in Chan : Delay[c] \in Nat
  BY ChannelFacts
<1>8. Rested(Tree, clock, started) /\ started \in [Chan -> Int] /\ clock \in Nat
  BY <1>1, <1>7 DEF ChannelsInit, Rested
<1> QED  BY <1>1, <1>5, <1>6, <1>8 DEF ChannelsInv, ChannelsInit

\* A job's state is told to the tree.
LEMMA ReadKeeps ==
    ASSUME ChannelsInv, NEW j \in Task, ReadNotification(j)
    PROVE  ChannelsInv'
<1> DEFINE t == Tree
           r == Told(t, j)
           u == Tree'
           s == row[j].state
<1>1. /\ row \in [Task -> [state : JobState, eta : Etas \union {0}]] /\ TreeOK(t)
      /\ \A k \in Task : row[k].state \in {"enqueued", "started"} => RunsAll(t, k)
      /\ \A k \in Task \ unread : Fits(t, k, row[k].state)
      /\ Rested(t, clock, started)
  BY DEF ChannelsInv
<1>2. TreeOK(r) /\ Moved(t, r, j) /\ Fits(r, j, s)
  <2>0. Etas \subseteq Nat
    BY ChannelFacts
  <2>a. row[j].eta \in Etas \union {0}
    BY <1>1
  <2>b. \A x \in Etas \union {0} : x \in Nat
    BY ONLY <2>0
  <2>c. row[j].state \in JobState
    BY <1>1
  <2>1. row[j].eta \in Nat /\ row[j].state \in JobState
    BY ONLY <2>a, <2>b, <2>c
  <2> HIDE DEF t
  <2> QED  BY <1>1, <2>1, ToldFacts
<1>3. BecomeTree(r) /\ unread' = unread \ {j} /\ asleep' = FALSE /\ UNCHANGED <<row, clock, started>>
  BY DEF ReadNotification
<1> HIDE DEF r
<1>4. TreeOK(u) /\ (\A k \in Task : Same(r, u, k)) /\ u.pause = r.pause
  BY <1>2, <1>3, Become
<1> HIDE DEF t, u
<1>5. ASSUME NEW k \in Task, Fits(t, k, row[k].state) \/ k = j PROVE Fits(u, k, row[k].state)
  <2>1. CASE k = j
    BY <1>2, <1>4, <2>1, FitsSame DEF s
  <2>2. CASE k # j
    <3>1. Same(t, r, k) /\ Same(r, u, k)
      BY <1>2, <1>4, <2>2 DEF Moved
    <3>2. Same(t, u, k)
      BY <3>1 DEF Same
    <3> QED  BY <1>5, <2>2, <3>2, FitsSame
  <2> QED  BY <2>1, <2>2
<1>6. \A k \in Task : row[k].state \in {"enqueued", "started"} => RunsAll(u, k)
  <2>1. ASSUME NEW k \in Task, row[k].state \in {"enqueued", "started"} PROVE RunsAll(u, k)
    <3>1. Fits(t, k, row[k].state)
      BY <1>1, <2>1 DEF Fits
    <3> QED  BY <1>5, <2>1, <3>1 DEF Fits
  <2> QED  BY <2>1
<1>7. \A k \in Task \ unread' : Fits(u, k, row[k].state)
  BY <1>1, <1>3, <1>5
<1>8. Rested(u, clock, started)
  BY <1>1, <1>2, <1>4 DEF Rested, Moved
<1>9. unread' \subseteq Task /\ clock \in Nat /\ started \in [Chan -> Int]
  BY <1>3 DEF ChannelsInv
<1> QED  BY <1>1, <1>3, <1>4, <1>6, <1>7, <1>8, <1>9 DEF ChannelsInv, u

\* A row is changed: the tree does not know yet, and the job is not started but where
\* Odoo has it.
LEMMA ChangeKeeps ==
    ASSUME ChannelsInv, NEW j \in Task, NEW s \in JobState, NEW e \in Etas, ChangeRow(j, s, e)
    PROVE  ChannelsInv'
<1> DEFINE u == Tree'
<1>1. /\ <<row[j].state, s>> \in RowMoves /\ row' = [row EXCEPT ![j] = [state |-> s, eta |-> e]]
      /\ unread' = unread \union {j} /\ UNCHANGED <<tree_vars, clock, started, asleep>>
  BY DEF ChangeRow
<1>2. u = Tree
  BY <1>1 DEF Tree, tree_vars
<1> HIDE DEF u
<1>3. row' \in [Task -> [state : JobState, eta : Etas \union {0}]]
  BY <1>1 DEF ChannelsInv
<1>4. \A k \in Task : k # j => row'[k] = row[k]
  BY <1>1 DEF ChannelsInv
<1>5. row'[j].state = s
  BY <1>1 DEF ChannelsInv
<1>6. s \in {"enqueued", "started"} => row[j].state \in {"enqueued", "started"}
  BY <1>1 DEF RowMoves
<1>7. \A k \in Task : row'[k].state \in {"enqueued", "started"} => RunsAll(u, k)
  BY <1>2, <1>4, <1>5, <1>6 DEF ChannelsInv
<1>8. \A k \in Task \ unread' : Fits(u, k, row'[k].state)
  BY <1>1, <1>2, <1>4 DEF ChannelsInv
<1>9. TreeOK(u) /\ Rested(u, clock, started) /\ unread' \subseteq Task /\ unread' # {}
  BY <1>1, <1>2 DEF ChannelsInv
<1> QED  BY <1>1, <1>3, <1>7, <1>8, <1>9 DEF ChannelsInv, u

\* What is sent to Odoo runs all its way; nothing else leaves the place its row has it at.
LEMMA SentOrKept ==
    ASSUME NEW t, NEW s, NEW j \in Task, t.out = {}, Tracked(t, s)
    PROVE  /\ j \in s.out => Waits(t, j) /\ RunsAll(s, j)
           /\ j \notin s.out => \A st : Fits(t, j, st) => Fits(s, j, st)
           /\ RunsAll(t, j) => RunsAll(s, j)
<1>1. ASSUME Waits(t, j) PROVE ~Nowhere(t, j) /\ ~FailedAt(t, j) /\ ~RunsAll(t, j)
  <2>1. PICK c \in Passes(j) : WaitsAt(t, j, c)
    BY <1>1 DEF Waits
  <2>2. c \in Chan /\ j \in t.q[c]
    BY <2>1, WayFacts DEF WaitsAt
  <2> QED  BY <2>2 DEF Nowhere, FailedAt, RunsAll
<1>2. CASE Same(t, s, j) /\ (j \in s.out <=> j \in t.out)
  <2>1. \A st : Fits(t, j, st) => Fits(s, j, st)
    BY <1>2, FitsSame
  <2>2. RunsAll(t, j) => RunsAll(s, j)
    BY <1>2, SamePlace
  <2> QED  BY <1>2, <2>1, <2>2
<1>3. CASE Waits(t, j) /\ Waits(s, j) /\ (j \in s.out <=> j \in t.out)
  <2>1. \A st : Fits(t, j, st) => Fits(s, j, st)
    BY <1>1, <1>3 DEF Fits
  <2> QED  BY <1>1, <1>3, <2>1
<1>4. CASE Waits(t, j) /\ RunsAll(s, j) /\ j \in s.out
  BY <1>1, <1>4
<1> QED  BY <1>2, <1>3, <1>4 DEF Tracked

\* A channel that let a job through was at rest before, and is again.
LEMMA RestedOn ==
    ASSUME NEW t, NEW s, NEW now \in Nat, NEW last \in [Chan -> Int], NEW new, TreeOK(t), TreeOK(s),
           Rested(t, now, last), \A c \in Chan : Throttled(t, s, c, now),
           \A c \in Chan : new[c] = IF s.run[c] \ t.run[c] # {} THEN now ELSE last[c]
    PROVE  /\ \A c \in Chan : s.run[c] \ t.run[c] # {} =>
                /\ now >= last[c] + Delay[c]
                /\ Delay[c] > 0 => Cardinality(s.run[c] \ t.run[c]) = 1
           /\ Rested(s, now, new)
<1>0. \A c \in Chan : /\ Delay[c] \in Nat /\ last[c] \in Int
                      /\ t.pause[c] \in Nat /\ s.pause[c] \in Nat
  BY ChannelFacts DEF TreeOK, Trees
<1>1. ASSUME NEW c \in Chan, s.run[c] \ t.run[c] # {}
      PROVE  /\ now >= last[c] + Delay[c] /\ new[c] = now
             /\ Delay[c] > 0 => Cardinality(s.run[c] \ t.run[c]) = 1 /\ s.pause[c] = now + Delay[c]
  <2>1. /\ s.run[c] # t.run[c] /\ ~Pausing(t, c, now)
        /\ Delay[c] > 0 => s.pause[c] = now + Delay[c] /\ \E j : s.run[c] = t.run[c] \union {j}
    BY <1>1 DEF Throttled
  <2>2. now >= last[c] + Delay[c]
    <3>1. /\ last[c] <= now
          /\ Delay[c] > 0 => now >= last[c] + Delay[c] \/ t.pause[c] >= last[c] + Delay[c]
      BY DEF Rested
    <3>2. Delay[c] > 0 => ~(now < t.pause[c])
      BY <2>1 DEF Pausing
    <3>3. Delay[c] \in Nat /\ last[c] \in Int /\ t.pause[c] \in Nat
      BY <1>0
    <3> QED  BY ONLY <3>1, <3>2, <3>3, now \in Nat
  <2>3. ASSUME Delay[c] > 0 PROVE Cardinality(s.run[c] \ t.run[c]) = 1
    <3>1. PICK j : s.run[c] = t.run[c] \union {j}
      BY <2>1, <2>3
    <3>2. s.run[c] \ t.run[c] = {j}
      BY <1>1, <3>1
    <3> QED  BY <3>2, FS_Singleton
  <2> QED  BY <1>1, <2>1, <2>2, <2>3
<1>2. ASSUME NEW c \in Chan, s.run[c] \ t.run[c] = {}
      PROVE  new[c] = last[c] /\ (s.pause[c] = t.pause[c] \/ (t.pause[c] <= now /\ s.pause[c] = 0))
  <2>1. s.run[c] = t.run[c]
    BY <1>2 DEF Throttled
  <2> QED  BY <1>2, <2>1 DEF Throttled
<1>3. Rested(s, now, new)
  <2>1. ASSUME NEW c \in Chan
        PROVE  /\ new[c] <= now
               /\ Delay[c] > 0 => now >= new[c] + Delay[c] \/ s.pause[c] >= new[c] + Delay[c]
    <3>0. Delay[c] \in Nat /\ last[c] \in Int /\ t.pause[c] \in Nat /\ s.pause[c] \in Nat
      BY <1>0
    <3>1. CASE s.run[c] \ t.run[c] # {}
      <4>1. new[c] = now /\ (Delay[c] > 0 => s.pause[c] = now + Delay[c])
        BY <1>1, <3>1
      <4> QED  BY ONLY <3>0, <4>1, now \in Nat
    <3>2. CASE s.run[c] \ t.run[c] = {}
      <4>1. new[c] = last[c] /\ (s.pause[c] = t.pause[c] \/ (t.pause[c] <= now /\ s.pause[c] = 0))
        BY <1>2, <3>2
      <4>2. /\ last[c] <= now
            /\ Delay[c] > 0 => now >= last[c] + Delay[c] \/ t.pause[c] >= last[c] + Delay[c]
        BY DEF Rested
      <4> QED  BY ONLY <3>0, <4>1, <4>2, now \in Nat
    <3> QED  BY <3>1, <3>2
  <2> QED  BY <2>1 DEF Rested
<1> QED  BY <1>1, <1>3

\* The runner asks the root for jobs, sends them, and sleeps.
LEMMA RunKeeps ==
    ASSUME ChannelsInv, RunJobs
    PROVE  /\ ChannelsInv'
           /\ \A c \in Chan : active'[c] \ active[c] # {} =>
                /\ clock >= started[c] + Delay[c]
                /\ Delay[c] > 0 => Cardinality(active'[c] \ active[c]) = 1
<1> DEFINE t == Tree
           s == Pulled(t, clock)
           u == Tree'
           new == [c \in Chan |-> IF s.run[c] \ t.run[c] # {} THEN clock ELSE started[c]]
<1>1. /\ row \in [Task -> [state : JobState, eta : Etas \union {0}]] /\ unread \subseteq Task /\ TreeOK(t)
      /\ \A k \in Task : row[k].state \in {"enqueued", "started"} => RunsAll(t, k)
      /\ \A k \in Task \ unread : Fits(t, k, row[k].state)
      /\ Rested(t, clock, started) /\ clock \in Nat /\ started \in [Chan -> Int]
  BY DEF ChannelsInv
<1>2. t.out = {} /\ t.run = active
  BY DEF Tree
<1>3. /\ unread = {} /\ BecomeTree(s) /\ unread' = s.out /\ asleep' = TRUE /\ clock' = clock
      /\ row' = [j \in Task |-> IF j \in s.out THEN [row[j] EXCEPT !.state = "enqueued"] ELSE row[j]]
      /\ started' = [c \in Chan |-> IF s.run[c] \ active[c] # {} THEN clock ELSE started[c]]
  BY DEF RunJobs
<1>4. started' = new
  BY <1>2, <1>3
<1> HIDE DEF t
<1>5. /\ TreeOK(s) /\ Tracked(t, s)
      /\ \A c \in Chan : Throttled(t, s, c, clock) /\ Quiet(s, c, clock)
  BY <1>1, PulledFacts
<1> HIDE DEF s
<1>6. /\ TreeOK(u) /\ (\A k \in Task : Same(s, u, k))
      /\ u.q = s.q /\ u.run = s.run /\ u.fail = s.fail /\ u.eta = s.eta /\ u.pause = s.pause
  BY <1>3, <1>5, Become
<1>7. active' = s.run
  BY <1>3 DEF BecomeTree
<1> HIDE DEF u
<1>8. /\ \A c \in Chan : s.run[c] \ t.run[c] # {} =>
           /\ clock >= started[c] + Delay[c]
           /\ Delay[c] > 0 => Cardinality(s.run[c] \ t.run[c]) = 1
      /\ Rested(s, clock, new)
  <2>1. \A c \in Chan : new[c] = IF s.run[c] \ t.run[c] # {} THEN clock ELSE started[c]
    OBVIOUS
  <2> HIDE DEF new
  <2> QED  BY <1>1, <1>5, <2>1, RestedOn
<1>9. row' \in [Task -> [state : JobState, eta : Etas \union {0}]]
  BY <1>1, <1>3 DEF JobState
<1>10. \A j \in Task : row'[j].state = IF j \in s.out THEN "enqueued" ELSE row[j].state
  BY <1>1, <1>3
<1>11. ASSUME NEW j \in Task
       PROVE  /\ row'[j].state \in {"enqueued", "started"} => RunsAll(u, j)
              /\ j \notin unread' => Fits(u, j, row'[j].state)
  <2>1. /\ j \in s.out => RunsAll(s, j)
        /\ j \notin s.out => \A st : Fits(t, j, st) => Fits(s, j, st)
        /\ RunsAll(t, j) => RunsAll(s, j)
    BY <1>2, <1>5, SentOrKept
  <2>2. /\ RunsAll(s, j) => RunsAll(u, j)
        /\ \A st : Fits(s, j, st) => Fits(u, j, st)
    BY <1>6, SamePlace, FitsSame
  <2>3. Fits(t, j, row[j].state) /\ (row[j].state \in {"enqueued", "started"} => RunsAll(t, j))
    BY <1>1, <1>3
  <2> QED  BY <1>3, <1>10, <2>1, <2>2, <2>3
<1>12. Settled(u)
  <2>1. ASSUME NEW c \in Chan PROVE Quiet(u, c, clock)
    <3>1. Quiet(s, c, clock)
      BY <1>5
    <3> QED  BY <1>6, <3>1, QuietSame
  <2> QED  BY <1>1, <2>1 DEF Settled
<1>13. Rested(u, clock, started')
  BY <1>4, <1>6, <1>8 DEF Rested
<1>14. started' \in [Chan -> Int]
  <2>1. \A c \in Chan : started[c] \in Int /\ clock \in Int
    BY <1>1
  <2> QED  BY <1>4, <2>1
<1>15. s.out \subseteq Task
  BY <1>5 DEF TreeOK, Trees
<1>16. ChannelsInv'
  BY <1>1, <1>3, <1>6, <1>9, <1>11, <1>12, <1>13, <1>14, <1>15 DEF ChannelsInv, u
<1> QED  BY <1>2, <1>7, <1>8, <1>16

\* Time passes, and pauses end.
LEMMA TickKeeps ==
    ASSUME ChannelsInv, Tick
    PROVE  ChannelsInv'
<1> DEFINE u == Tree'
<1>1. clock' = clock + 1 /\ UNCHANGED <<tree_vars, row, unread, started, asleep>>
  BY DEF Tick
<1>2. u = Tree
  BY <1>1 DEF Tree, tree_vars
<1> DEFINE t == Tree
<1>3. Rested(t, clock, started) /\ clock \in Nat /\ started \in [Chan -> Int] /\ TreeOK(t)
  BY DEF ChannelsInv
<1>4. Rested(t, clock', started)
  <2> HIDE DEF t
  <2>1. ASSUME NEW c \in Chan
        PROVE  /\ started[c] <= clock'
               /\ Delay[c] > 0 => clock' >= started[c] + Delay[c] \/ t.pause[c] >= started[c] + Delay[c]
    <3>1. Delay[c] \in Nat /\ started[c] \in Int /\ t.pause[c] \in Nat
      BY <1>3, ChannelFacts DEF TreeOK, Trees
    <3>2. /\ started[c] <= clock
          /\ Delay[c] > 0 => clock >= started[c] + Delay[c] \/ t.pause[c] >= started[c] + Delay[c]
      BY <1>3 DEF Rested
    <3>3. clock \in Nat /\ clock' = clock + 1
      BY <1>1, <1>3
    <3> QED  BY ONLY <3>1, <3>2, <3>3
  <2> QED  BY <2>1 DEF Rested
<1> HIDE DEF u
<1>5. clock' \in Nat
  BY <1>1, <1>3
<1> QED  BY <1>1, <1>2, <1>4, <1>5 DEF ChannelsInv, u

\* A step that changes nothing of the channels keeps it.
LEMMA StutterKeeps ==
    ASSUME ChannelsInv, UNCHANGED channel_vars
    PROVE  ChannelsInv'
<1> DEFINE u == Tree'
<1>1. UNCHANGED <<tree_vars, row, unread, clock, started, asleep>>
  BY DEF channel_vars
<1>2. u = Tree
  BY <1>1 DEF Tree, tree_vars
<1> HIDE DEF u
<1> QED  BY <1>1, <1>2 DEF ChannelsInv, u

\* The invariant says what the properties say.
LEMMA ChannelsSaid ==
    ASSUME ChannelsInv
    PROVE  CapacityKept /\ WakesInTime /\ KnowsTheTable
<1> DEFINE t == Tree
<1>1. TreeOK(t) /\ clock \in Nat /\ t.out = {}
  BY DEF ChannelsInv, Tree
<1>2. t.q = queued /\ t.run = active /\ t.fail = broken
  BY DEF Tree
<1>3. CapacityKept
  <2> HIDE DEF t
  <2> QED  BY <1>1, <1>2 DEF CapacityKept, TreeOK, RoomOK
<1>4. WakesInTime
  <2>1. SUFFICES ASSUME asleep, unread = {}, NEW now \in clock..EndOfTime, Early(t, now)
                 PROVE  Pulled(t, now).out = {}
    BY DEF WakesInTime, Early
  <2>2. PICK before \in Nat : \A c \in Chan : Quiet(t, c, before)
    BY <2>1 DEF ChannelsInv, Settled
  <2> HIDE DEF t
  <2>3. now \in Nat
    BY <1>1, <2>1, ChannelsAssumption
  <2>4. Pulled(t, now).out = t.out
    BY <1>1, <2>1, <2>2, <2>3, NothingEarly
  <2> QED  BY <1>1, <2>4
<1>5. KnowsTheTable
  <2>1. SUFFICES ASSUME unread = {}, NEW j \in Task
        PROVE  LET inQ == {c \in Chan : j \in queued[c]}
                   inRun == {c \in Chan : j \in active[c]}
                   inFail == {c \in Chan : j \in broken[c]}
                   s == row[j].state
               IN  /\ s = "done" => inQ \union inRun \union inFail = {}
                   /\ s \in {"enqueued", "started"} => inRun = Passes(j) /\ inQ \union inFail = {}
                   /\ s = "failed" => inFail = {Home[j]} /\ inQ \union inRun = {}
                   /\ s = "pending" => /\ inFail = {}
                                       /\ \E c \in Passes(j) :
                                            inQ = {c} /\ inRun = {d \in Passes(j) : c \in Below[d]}
    BY DEF KnowsTheTable
  <2> DEFINE inQ == {c \in Chan : j \in t.q[c]}
             inRun == {c \in Chan : j \in t.run[c]}
             inFail == {c \in Chan : j \in t.fail[c]}
             s == row[j].state
  <2>2. Fits(t, j, s)
    BY <2>1 DEF ChannelsInv
  <2>3. Passes(j) \subseteq Chan /\ Home[j] \in Chan
    BY WayFacts
  <2> HIDE DEF t, s
  <2>4. s = "done" => inQ \union inRun \union inFail = {}
    BY <2>2 DEF Fits, Nowhere
  <2>5. s \in {"enqueued", "started"} => inRun = Passes(j) /\ inQ \union inFail = {}
    BY <2>2, <2>3 DEF Fits, RunsAll
  <2>6. s = "failed" => inFail = {Home[j]} /\ inQ \union inRun = {}
    BY <2>2, <2>3 DEF Fits, FailedAt
  <2>7. ASSUME s = "pending"
        PROVE  inFail = {} /\ \E c \in Passes(j) : inQ = {c} /\ inRun = {d \in Passes(j) : c \in Below[d]}
    <3>1. PICK c \in Passes(j) : WaitsAt(t, j, c)
      BY <2>2, <2>7 DEF Fits, Waits
    <3>2. inFail = {} /\ inQ = {c} /\ inRun = {d \in Passes(j) : c \in Below[d]}
      BY <2>3, <3>1 DEF WaitsAt
    <3> QED  BY <3>2
  <2> QED  BY <1>2, <2>4, <2>5, <2>6, <2>7 DEF s
<1> QED  BY <1>3, <1>4, <1>5

\* No channel, of whatever level, runs more jobs than it has room for, and a throttled one
\* lets no two through within its delay; once it has read what it is told, the runner has
\* each job where its row says; and the timer of a runner that sleeps (get_wakeup_time) is
\* not set later than the next job.  For any tree of channels, with any capacities, delays
\* and sequential channels, and any number of jobs.
THEOREM ChannelsKept == ChannelsSpec => ChannelsHold
<1>1. ChannelsInit => ChannelsInv
  BY ChannelsStart
<1>2. ChannelsInv /\ [ChannelsNext]_channel_vars => ChannelsInv'
  <2>1. SUFFICES ASSUME ChannelsInv, [ChannelsNext]_channel_vars PROVE ChannelsInv'
    OBVIOUS
  <2>2. ASSUME NEW j \in Task, ReadNotification(j) PROVE ChannelsInv'
    BY <2>1, <2>2, ReadKeeps
  <2>3. ASSUME NEW j \in Task, NEW s \in JobState, NEW e \in Etas, ChangeRow(j, s, e) PROVE ChannelsInv'
    BY <2>1, <2>3, ChangeKeeps
  <2>4. CASE RunJobs
    BY <2>1, <2>4, RunKeeps
  <2>5. CASE Tick
    BY <2>1, <2>5, TickKeeps
  <2>6. CASE UNCHANGED channel_vars
    BY <2>1, <2>6, StutterKeeps
  <2> QED  BY <2>1, <2>2, <2>3, <2>4, <2>5, <2>6 DEF ChannelsNext
<1>3. ChannelsInv => CapacityKept /\ WakesInTime /\ KnowsTheTable
  BY ChannelsSaid
<1> DEFINE Kept == \A c \in Chan : active'[c] \ active[c] # {} /\ RunJobs =>
                     /\ clock >= started[c] + Delay[c]
                     /\ Delay[c] > 0 => Cardinality(active'[c] \ active[c]) = 1
<1>4. ChannelsInv => Kept
  BY RunKeeps
<1> HIDE DEF Kept
<1>5. ChannelsSpec => []ChannelsInv
  BY <1>1, <1>2, PTL DEF ChannelsSpec
<1>6. ChannelsSpec => [][Kept]_channel_vars
  BY <1>4, <1>5, PTL
<1>7. ThrottleKept <=> [][Kept]_channel_vars
  BY DEF ThrottleKept, Kept
<1> QED  BY <1>3, <1>5, <1>6, <1>7, PTL DEF ChannelsHold

-----------------------------------------------------------------------------
(***************************************************************************)
(* Graphs of delayables                                                     *)
(***************************************************************************)
\* F gives the value of a function g at each number from those before it.
Causal(M, W, F) ==
  /\ F \in [1..M -> [[1..M -> W] -> W]]
  /\ \A x \in 1..M : \A g, h \in [1..M -> W] :
       (\A p \in 1..M : p < x => g[p] = h[p]) => F[x][g] = F[x][h]
Recursed(M, F, g) == \A x \in 1..M : g[x] = F[x][g]

\* There is such a function.
LEMMA Recursing ==
    ASSUME NEW M \in Nat, NEW W, NEW w \in W, NEW F, Causal(M, W, F)
    PROVE  \E g \in [1..M -> W] : Recursed(M, F, g)
<1> DEFINE Good(n) == \E g \in [1..M -> W] : \A x \in 1..M : x <= n => g[x] = F[x][g]
           K == {n \in 0..M : Good(n)}
<1>1. 0 \in K
  <2>1. [x \in 1..M |-> w] \in [1..M -> W] /\ \A x \in 1..M : ~(x <= 0)
    OBVIOUS
  <2>2. Good(0)
    BY <2>1
  <2> QED  BY <2>2
<1>2. ASSUME NEW n \in 0..M, n # M, n \in K PROVE n + 1 \in K
  <2>0. n + 1 \in 1..M /\ n + 1 \in 0..M /\ n \in Int
    BY <1>2
  <2>1. PICK g \in [1..M -> W] : \A x \in 1..M : x <= n => g[x] = F[x][g]
    BY <1>2
  <2> DEFINE h == [g EXCEPT ![n + 1] = F[n + 1][g]]
  <2>a. F \in [1..M -> [[1..M -> W] -> W]]
    BY DEF Causal
  <2>2. h \in [1..M -> W] /\ h[n + 1] = F[n + 1][g] /\ \A x \in 1..M : x # n + 1 => h[x] = g[x]
    BY <2>0, <2>a
  <2> HIDE DEF h
  <2>3. ASSUME NEW x \in 1..M, x <= n + 1 PROVE h[x] = F[x][h]
    <3>1. \A p \in 1..M : p < x => g[p] = h[p]
      BY <2>0, <2>2, <2>3
    <3>2. F[x][g] = F[x][h]
      BY <2>2, <3>1 DEF Causal
    <3>3. x = n + 1 \/ (x <= n /\ x # n + 1)
      BY <2>0, <2>3
    <3> QED  BY <2>1, <2>2, <3>2, <3>3
  <2>4. Good(n + 1)
    BY <2>2, <2>3
  <2> QED  BY <2>0, <2>4
<1> HIDE DEF K
<1>3. 0..M \subseteq K
  BY <1>1, <1>2, UpTo
<1>4. Good(M)
  <2>1. M \in K
    BY <1>3
  <2> HIDE DEF Good
  <2> QED  BY <2>1 DEF K
<1>5. \A x \in 1..M : x <= M
  OBVIOUS
<1> QED  BY <1>4, <1>5 DEF Recursed

\* What is added to a finite set again and again is all added after as many times as it has members.
LEMMA Filling ==
    ASSUME NEW S, IsFiniteSet(S), NEW N, N = Cardinality(S), NEW F \in [SUBSET S -> SUBSET S],
           NEW f \in [0..N -> SUBSET S], f[0] # {},
           \A n \in 1..N : f[n] = f[n - 1] \union F[f[n - 1]]
    PROVE  F[f[N]] \subseteq f[N]
<1>0. N \in Nat
  BY FS_CardinalityType
<1>1. \A C \in SUBSET S : IsFiniteSet(C) /\ Cardinality(C) \in Nat /\ Cardinality(C) <= N
  BY FS_Subset, FS_CardinalityType
<1> DEFINE K == {n \in 0..N : F[f[n]] \subseteq f[n] \/ Cardinality(f[n]) >= n + 1}
<1>2. 0 \in K
  <2>1. 0 \in 0..N /\ f[0] \in SUBSET S
    BY <1>0
  <2>2. Cardinality(f[0]) # 0 /\ Cardinality(f[0]) \in Nat
    BY <1>1, <2>1, FS_EmptySet
  <2> QED  BY <2>1, <2>2
<1>3. ASSUME NEW n \in 0..N, n # N, n \in K PROVE n + 1 \in K
  <2>0. n \in Nat /\ n + 1 \in 1..N /\ n + 1 \in 0..N /\ (n + 1) - 1 = n
    BY <1>0, <1>3
  <2> DEFINE C == f[n]
             D == f[n + 1]
  <2>1. D = C \union F[C] /\ C \in SUBSET S /\ D \in SUBSET S
    BY <2>0
  <2> HIDE DEF C, D
  <2>2. CASE F[C] \subseteq C
    <3>1. D = C
      BY <2>1, <2>2
    <3> QED  BY <2>0, <2>2, <3>1 DEF C, D
  <2>3. CASE ~(F[C] \subseteq C)
    <3>1. Cardinality(C) >= n + 1
      BY <1>3, <2>3 DEF C
    <3>2. PICK y \in F[C] : y \notin C
      BY <2>3
    <3>3. Cardinality(C \union {y}) = Cardinality(C) + 1
      BY <1>1, <2>1, <3>2, FS_AddElement
    <3>4. Cardinality(C \union {y}) <= Cardinality(D)
      <4>1. C \union {y} \subseteq D /\ IsFiniteSet(D)
        BY <1>1, <2>1, <3>2
      <4> QED  BY <4>1, FS_Subset
    <3>5. Cardinality(D) >= (n + 1) + 1
      <4>1. Cardinality(C) \in Nat /\ Cardinality(D) \in Nat
        BY <1>1, <2>1
      <4> QED  BY ONLY <2>0, <3>1, <3>3, <3>4, <4>1
    <3> QED  BY <2>0, <3>5 DEF D
  <2> QED  BY <2>2, <2>3
<1> HIDE DEF K
<1>4. 0..N \subseteq K
  BY <1>0, <1>2, <1>3, UpTo
<1>5. N \in K /\ f[N] \in SUBSET S
  BY <1>0, <1>4
<1>6. ~(Cardinality(f[N]) >= N + 1)
  BY <1>0, <1>1, <1>5
<1> QED  BY <1>5, <1>6 DEF K

\* Where each member of a finite set of leaves has one before it, some member comes after itself.
LEMMA Cycle ==
    ASSUME NEW R \in SUBSET (Leaf \X Leaf), NEW U \in SUBSET Leaf, U # {},
           \A u \in U : \E p \in U : <<p, u>> \in R
    PROVE  \E l \in Leaf : l \in After(R, l)
<1>1. SUFFICES ASSUME \A l \in Leaf : l \notin After(R, l) PROVE FALSE
  OBVIOUS
<1>2. IsFiniteSet(Leaf)
  BY FS_Interval, DelayablesAssumption DEF Leaf
<1> DEFINE size == [l \in Leaf |-> Cardinality(After(R, l))]
           T == {size[l] : l \in U}
<1>3. \A l \in Leaf : /\ After(R, l) \subseteq Leaf /\ IsFiniteSet(After(R, l))
                      /\ Cardinality(After(R, l)) \in Nat
  <2>1. \A l \in Leaf : After(R, l) \subseteq Leaf
    BY DEF After
  <2> QED  BY <1>2, <2>1, FS_Subset, FS_CardinalityType
<1>4. size \in [Leaf -> Nat]
  BY <1>3
<1>5. IsFiniteSet(U)
  BY <1>2, FS_Subset
<1> HIDE DEF size
<1>6. IsFiniteSet(T)
  BY <1>5, ImageFinite
<1>7. T # {} /\ T \in SUBSET Int
  BY <1>4
<1>8. Max(T) \in T /\ \A x \in T : Max(T) >= x
  BY <1>6, <1>7, MaxMin
<1>9. PICK u \in U : size[u] = Max(T)
  BY <1>8
<1>10. PICK p \in U : <<p, u>> \in R
  OBVIOUS
<1>11. After(R, u) \union {u} \subseteq After(R, p)
  <2>1. u \in After(R, p)
    BY <1>10 DEF After
  <2>2. ASSUME NEW b \in After(R, u) PROVE b \in After(R, p)
    <3>1. SUFFICES ASSUME NEW C \in SUBSET Leaf, \A e \in R : e[1] = p \/ e[1] \in C => e[2] \in C PROVE b \in C
      BY DEF After
    <3>2. u \in C
      BY <1>10, <3>1
    <3>3. \A e \in R : e[1] = u \/ e[1] \in C => e[2] \in C
      BY <3>1, <3>2
    <3> QED  BY <3>1, <3>3 DEF After
  <2> QED  BY <2>1, <2>2
<1>12. Cardinality(After(R, u) \union {u}) = Cardinality(After(R, u)) + 1
  BY <1>1, <1>3, FS_AddElement
<1>13. Cardinality(After(R, u) \union {u}) <= Cardinality(After(R, p))
  BY <1>3, <1>11, FS_Subset
<1>14. size[p] >= size[u] + 1
  BY <1>3, <1>12, <1>13 DEF size
<1>15. size[p] <= size[u] /\ size[u] \in Nat /\ size[p] \in Nat
  <2>1. size[p] \in T
    OBVIOUS
  <2> QED  BY <1>4, <1>8, <1>9, <2>1
<1> QED  BY ONLY <1>14, <1>15

\* Chains and groups are made of objects made before them.
MadeOK ==
  /\ made \in Seq([kind : {"chain", "group"}, parts : Seq(Nat)])
  /\ \A i \in DOMAIN made : /\ made[i].parts # <<>>
                            /\ \A p \in ToSet(made[i].parts) : p \in 1..(Leaves + i - 1)
  /\ arrows \subseteq Objects \X Objects

\* What an object is made of.
LEMMA PartsFacts ==
    ASSUME MadeOK
    PROVE  /\ Len(made) \in Nat /\ Leaves + Len(made) \in Nat /\ Leaf \subseteq Objects
           /\ \A x \in Objects :
                /\ Parts(x) # <<>> /\ ToSet(Parts(x)) \subseteq Objects
                /\ KindOf(x) \in {"job", "chain", "group"} /\ (KindOf(x) = "job" <=> x \in Leaf)
                /\ x \in Leaf => Parts(x) = <<x>> /\ ToSet(Parts(x)) = {x}
                /\ x \notin Leaf => \A p \in ToSet(Parts(x)) : p < x
                /\ Len(Parts(x)) \in Nat \ {0} /\ ToSet(Parts(x)) = {Parts(x)[i] : i \in 1..Len(Parts(x))}
<1>0. Len(made) \in Nat /\ DOMAIN made = 1..Len(made) /\ Leaves \in Nat \ {0}
  BY DelayablesAssumption DEF MadeOK
<1>1. Leaf \subseteq Objects /\ Leaves + Len(made) \in Nat
  BY <1>0 DEF Leaf, Objects
<1>2. ASSUME NEW x \in Objects, x \in Leaf
      PROVE  /\ Parts(x) = <<x>> /\ ToSet(Parts(x)) = {x} /\ Len(Parts(x)) = 1 /\ KindOf(x) = "job"
             /\ ToSet(Parts(x)) = {Parts(x)[i] : i \in 1..1}
  <2>1. Parts(x) = <<x>> /\ KindOf(x) = "job"
    BY <1>2 DEF Parts, KindOf
  <2>2. ToSet(<<x>>) = {x} /\ Len(<<x>>) = 1 /\ {<<x>>[i] : i \in 1..1} = {x}
    BY DEF ToSet
  <2> QED  BY <2>1, <2>2
<1>3. ASSUME NEW x \in Objects, x \notin Leaf
      PROVE  /\ KindOf(x) \in {"chain", "group"} /\ Parts(x) \in Seq(Nat) /\ Parts(x) # <<>>
             /\ \A p \in ToSet(Parts(x)) : p \in Objects /\ p < x
  <2> DEFINE i == x - Leaves
  <2>1. i \in 1..Len(made) /\ x = Leaves + i /\ x \in Nat
    BY <1>0, <1>3 DEF Objects, Leaf
  <2>2. KindOf(x) = made[i].kind /\ Parts(x) = made[i].parts
    BY <1>3 DEF KindOf, Parts
  <2> HIDE DEF i
  <2>3. made[i] \in [kind : {"chain", "group"}, parts : Seq(Nat)]
    <3>1. made \in Seq([kind : {"chain", "group"}, parts : Seq(Nat)])
      BY DEF MadeOK
    <3> QED  BY ONLY <2>1, <3>1, ElementOfSeq
  <2>4. made[i].parts # <<>> /\ \A p \in ToSet(made[i].parts) : p \in 1..(Leaves + i - 1)
    BY <1>0, <2>1 DEF MadeOK
  <2>5. \A p \in 1..(Leaves + i - 1) : p \in Objects /\ p < x
    BY <1>0, <2>1 DEF Objects
  <2> QED  BY <2>2, <2>3, <2>4, <2>5
<1>4. ASSUME NEW x \in Objects, x \notin Leaf
      PROVE  Len(Parts(x)) \in Nat \ {0} /\ ToSet(Parts(x)) = {Parts(x)[i] : i \in 1..Len(Parts(x))}
  BY <1>3, <1>4 DEF ToSet
<1> QED  BY <1>0, <1>1, <1>2, <1>3, <1>4

Sides == [head : SUBSET Leaf, tail : SUBSET Leaf]
HeadTailOf(x, g) ==
  CASE KindOf(x) = "job"   -> [head |-> {x}, tail |-> {x}]
    [] KindOf(x) = "group" -> [head |-> UNION {g[p].head : p \in ToSet(Parts(x))},
                             tail |-> UNION {g[p].tail : p \in ToSet(Parts(x))}]
    [] KindOf(x) = "chain" -> [head |-> g[Head(Parts(x))].tail, tail |-> g[Last(Parts(x))].head]

\* Heads and tails are those the code computes, whatever the nesting.
LEMMA HeadTailFacts ==
    ASSUME MadeOK
    PROVE  HeadTail \in [Objects -> Sides] /\ \A x \in Objects : HeadTail[x] = HeadTailOf(x, HeadTail)
<1> DEFINE M == Leaves + Len(made)
           F == [x \in 1..M |-> [g \in [1..M -> Sides] |-> HeadTailOf(x, g)]]
<1>0. M \in Nat /\ Objects = 1..M /\ Leaf \subseteq Objects
  BY PartsFacts DEF Objects
<1>1. ASSUME NEW x \in Objects
      PROVE  /\ KindOf(x) \in {"job", "chain", "group"} /\ (KindOf(x) = "job" <=> x \in Leaf)
             /\ ToSet(Parts(x)) \subseteq Objects /\ Head(Parts(x)) \in ToSet(Parts(x)) /\ Last(Parts(x)) \in ToSet(Parts(x))
             /\ x \notin Leaf => \A p \in ToSet(Parts(x)) : p < x
  <2>1. /\ KindOf(x) \in {"job", "chain", "group"} /\ (KindOf(x) = "job" <=> x \in Leaf)
        /\ ToSet(Parts(x)) \subseteq Objects /\ (x \notin Leaf => \A p \in ToSet(Parts(x)) : p < x)
        /\ Len(Parts(x)) \in Nat \ {0} /\ ToSet(Parts(x)) = {Parts(x)[i] : i \in 1..Len(Parts(x))}
    BY PartsFacts
  <2>2. Head(Parts(x)) = Parts(x)[1] /\ Last(Parts(x)) = Parts(x)[Len(Parts(x))]
    BY DEF Last
  <2> QED  BY <2>1, <2>2
<1>2. ASSUME NEW x \in Objects, NEW g \in [Objects -> Sides] PROVE HeadTailOf(x, g) \in Sides
  <2>1. \A p \in ToSet(Parts(x)) : g[p] \in Sides /\ g[p].head \in SUBSET Leaf /\ g[p].tail \in SUBSET Leaf
    BY <1>1 DEF Sides
  <2> HIDE DEF M, F
  <2>2. CASE KindOf(x) = "job"
    BY <1>1, <2>2 DEF HeadTailOf, Sides
  <2>3. CASE KindOf(x) = "group"
    <3>1. HeadTailOf(x, g) = [head |-> UNION {g[p].head : p \in ToSet(Parts(x))},
                             tail |-> UNION {g[p].tail : p \in ToSet(Parts(x))}]
      BY <2>3 DEF HeadTailOf
    <3>2. UNION {g[p].head : p \in ToSet(Parts(x))} \in SUBSET Leaf /\ UNION {g[p].tail : p \in ToSet(Parts(x))} \in SUBSET Leaf
      BY <2>1
    <3> QED  BY <3>1, <3>2 DEF Sides
  <2>4. CASE KindOf(x) = "chain"
    BY <1>1, <2>1, <2>4 DEF HeadTailOf, Sides
  <2> QED  BY <1>1, <2>2, <2>3, <2>4
<1>3. ASSUME NEW x \in Objects, NEW g, NEW h, \A p \in Objects : p < x => g[p] = h[p]
      PROVE  HeadTailOf(x, g) = HeadTailOf(x, h)
  <2> HIDE DEF M, F
  <2>1. CASE KindOf(x) = "job"
    BY <2>1 DEF HeadTailOf
  <2>2. ASSUME x \notin Leaf PROVE \A p \in ToSet(Parts(x)) : g[p] = h[p]
    BY <1>1, <1>3, <2>2
  <2>3. CASE KindOf(x) = "group"
    <3>1. \A p \in ToSet(Parts(x)) : g[p] = h[p]
      BY <1>1, <2>2, <2>3
    <3>2. {g[p].head : p \in ToSet(Parts(x))} = {h[p].head : p \in ToSet(Parts(x))}
          /\ {g[p].tail : p \in ToSet(Parts(x))} = {h[p].tail : p \in ToSet(Parts(x))}
      BY <3>1
    <3> QED  BY <2>3, <3>2 DEF HeadTailOf
  <2>4. CASE KindOf(x) = "chain"
    BY <1>1, <2>2, <2>4 DEF HeadTailOf
  <2> QED  BY <1>1, <2>1, <2>3, <2>4
<1>4. F \in [1..M -> [[1..M -> Sides] -> Sides]]
  BY <1>0, <1>2
<1>5. [head |-> {}, tail |-> {}] \in Sides
  BY DEF Sides
<1>6. Causal(M, Sides, F)
  <2>1. \A x \in 1..M : \A g, h \in [1..M -> Sides] : (\A p \in 1..M : p < x => g[p] = h[p]) => F[x][g] = F[x][h]
    BY <1>0, <1>3
  <2> QED  BY <1>4, <2>1 DEF Causal
<1>7. PICK g \in [1..M -> Sides] : Recursed(M, F, g)
  <2> HIDE DEF F, M
  <2> QED  BY <1>0, <1>5, <1>6, Recursing
<1>8. g = [x \in Objects |-> HeadTailOf(x, g)]
  BY <1>0, <1>7 DEF Recursed
<1> DEFINE f == HeadTail
<1>10. f = [x \in Objects |-> HeadTailOf(x, f)]
  BY ONLY <1>8 DEF HeadTail, HeadTailOf
<1> HIDE DEF f, F
<1>11. \A x \in Objects : f[x] = HeadTailOf(x, f)
  BY <1>10
<1>12. f \in [Objects -> Sides]
  <2> DEFINE K == {n \in 0..M : \A x \in Objects : x <= n => f[x] = g[x]}
  <2>1. 0 \in K
    BY <1>0
  <2>2. ASSUME NEW n \in 0..M, n # M, n \in K PROVE n + 1 \in K
    <3>1. ASSUME NEW x \in Objects, x <= n + 1 PROVE f[x] = g[x]
      <4>1. \A p \in Objects : p < x => f[p] = g[p]
        BY <1>0, <2>2, <3>1
      <4>2. HeadTailOf(x, f) = HeadTailOf(x, g)
        BY <1>3, <4>1
      <4> QED  BY <1>8, <1>11, <4>2
    <3>2. n + 1 \in 0..M
      BY <1>0, <2>2
    <3> QED  BY <3>1, <3>2
  <2> HIDE DEF K
  <2>3. 0..M \subseteq K
    <3> HIDE DEF M
    <3> QED  BY <1>0, <2>1, <2>2, UpTo
  <2>4. M \in K
    BY <1>0, <2>3
  <2>5. \A x \in Objects : f[x] = g[x]
    BY <1>0, <2>4 DEF K
  <2>6. \A x \in Objects : f[x] \in Sides
    BY <1>0, <1>7, <2>5
  <2> QED  BY <1>10, <2>6
<1> QED  BY <1>11, <1>12 DEF f

\* The delayables of an object, whatever the nesting.
LEMMA JobsOfFacts ==
    ASSUME MadeOK
    PROVE  \A x \in Objects : JobsOf[x] = IF x \in Leaf THEN {x} ELSE UNION {JobsOf[p] : p \in ToSet(Parts(x))}
<1> DEFINE M == Leaves + Len(made)
           W == SUBSET Leaf
           Of(x, g) == IF x \in Leaf THEN {x} ELSE UNION {g[p] : p \in ToSet(Parts(x))}
           F == [x \in 1..M |-> [g \in [1..M -> W] |-> Of(x, g)]]
<1>0. M \in Nat /\ Objects = 1..M
  BY PartsFacts DEF Objects
<1>1. \A x \in Objects : /\ ToSet(Parts(x)) \subseteq Objects
                         /\ x \notin Leaf => \A p \in ToSet(Parts(x)) : p < x
  BY PartsFacts
<1>2. \A x \in Objects : \A g \in [Objects -> W] : Of(x, g) \in W
  BY <1>1
<1>3. ASSUME NEW x \in Objects, NEW g, NEW h, \A p \in Objects : p < x => g[p] = h[p]
      PROVE  Of(x, g) = Of(x, h)
  BY <1>1, <1>3
<1> HIDE DEF Of
<1>4. F \in [1..M -> [[1..M -> W] -> W]]
  BY <1>0, <1>2
<1>5. Causal(M, W, F)
  <2>1. \A x \in 1..M : \A g, h \in [1..M -> W] : (\A p \in 1..M : p < x => g[p] = h[p]) => F[x][g] = F[x][h]
    BY <1>0, <1>3
  <2> QED  BY <1>4, <2>1 DEF Causal
<1>6. PICK g \in [1..M -> W] : Recursed(M, F, g)
  <2>1. {} \in W
    OBVIOUS
  <2> HIDE DEF F, M, W
  <2> QED  BY <1>0, <1>5, <2>1, Recursing
<1>7. g = [x \in Objects |-> Of(x, g)]
  BY <1>0, <1>6 DEF Recursed
<1> DEFINE f == JobsOf
<1>8. f = [x \in Objects |-> Of(x, f)]
  BY ONLY <1>7 DEF JobsOf, Of
<1> HIDE DEF f
<1>9. \A x \in Objects : f[x] = Of(x, f)
  BY <1>8
<1> QED  BY <1>9 DEF f, Of

\* What holds of an object when it holds of its parts holds of all objects.
LEMMA ByParts ==
    ASSUME MadeOK, NEW S,
           \A x \in Objects : (x \notin Leaf => ToSet(Parts(x)) \subseteq S) => x \in S
    PROVE  Objects \subseteq S
<1> DEFINE I == Objects \ S
<1>1. SUFFICES ASSUME I # {} PROVE FALSE
  OBVIOUS
<1>2. I \in SUBSET Nat
  BY PartsFacts DEF Objects
<1>3. PICK x \in I : \A y \in I : x <= y
  BY <1>1, <1>2, LeastOf
<1>4. x \notin Leaf => \A p \in ToSet(Parts(x)) : p \in Objects /\ p < x
  BY PartsFacts
<1>5. \A p \in Objects : p < x => p \in S
  BY <1>2, <1>3 DEF Objects
<1> QED  BY <1>3, <1>4, <1>5

\* The first and the last part are parts.
LEMMA EndParts ==
    ASSUME MadeOK, NEW x \in Objects
    PROVE  /\ Head(Parts(x)) = Parts(x)[1] /\ Last(Parts(x)) = Parts(x)[Len(Parts(x))]
           /\ Head(Parts(x)) \in ToSet(Parts(x)) /\ Last(Parts(x)) \in ToSet(Parts(x))
           /\ 1 \in 1..Len(Parts(x)) /\ Len(Parts(x)) \in 1..Len(Parts(x))
<1>1. Len(Parts(x)) \in Nat \ {0} /\ ToSet(Parts(x)) = {Parts(x)[i] : i \in 1..Len(Parts(x))} /\ Parts(x) # <<>>
  BY PartsFacts
<1>2. 1 \in 1..Len(Parts(x)) /\ Len(Parts(x)) \in 1..Len(Parts(x))
  BY <1>1
<1>3. Head(Parts(x)) = Parts(x)[1] /\ Last(Parts(x)) = Parts(x)[Len(Parts(x))]
  BY DEF Last
<1> QED  BY <1>1, <1>2, <1>3

\* Every object has jobs.
LEMMA JobsFacts ==
    ASSUME MadeOK, NEW x \in Objects
    PROVE  JobsOf[x] \subseteq Leaf /\ JobsOf[x] # {}
<1> DEFINE S == {y \in Objects : JobsOf[y] \subseteq Leaf /\ JobsOf[y] # {}}
<1>1. ASSUME NEW y \in Objects, y \notin Leaf => ToSet(Parts(y)) \subseteq S PROVE y \in S
  <2>1. JobsOf[y] = IF y \in Leaf THEN {y} ELSE UNION {JobsOf[p] : p \in ToSet(Parts(y))}
    BY JobsOfFacts
  <2>2. Head(Parts(y)) \in ToSet(Parts(y))
    BY EndParts
  <2> QED  BY <1>1, <2>1, <2>2
<1> HIDE DEF S
<1>2. Objects \subseteq S
  BY <1>1, ByParts
<1> QED  BY <1>2 DEF S

\* What has no chain in it has none in its parts.
LEMMA BunchedParts ==
    ASSUME NEW x, Bunched(x)
    PROVE  KindOf(x) # "chain" /\ \A p \in ToSet(Parts(x)) : Bunched(p)
BY DEF Bunched

\* Of what has no chain in it, all jobs are first ones and last ones.
LEMMA BunchedFacts ==
    ASSUME MadeOK, NEW x \in Objects, Bunched(x)
    PROVE  HeadTail[x].head = JobsOf[x] /\ HeadTail[x].tail = JobsOf[x]
<1> DEFINE S == {y \in Objects : Bunched(y) => HeadTail[y].head = JobsOf[y] /\ HeadTail[y].tail = JobsOf[y]}
<1>1. ASSUME NEW y \in Objects, y \notin Leaf => ToSet(Parts(y)) \subseteq S, Bunched(y)
      PROVE  HeadTail[y].head = JobsOf[y] /\ HeadTail[y].tail = JobsOf[y]
  <2>1. JobsOf[y] = IF y \in Leaf THEN {y} ELSE UNION {JobsOf[p] : p \in ToSet(Parts(y))}
    BY JobsOfFacts
  <2>2. HeadTail[y] = HeadTailOf(y, HeadTail)
    BY HeadTailFacts
  <2>3. KindOf(y) \in {"job", "group"} /\ (KindOf(y) = "job" <=> y \in Leaf)
    BY <1>1, BunchedParts, PartsFacts
  <2>4. CASE y \in Leaf
    <3>1. HeadTail[y] = [head |-> {y}, tail |-> {y}]
      BY ONLY <2>2, <2>3, <2>4 DEF HeadTailOf
    <3> QED  BY ONLY <2>1, <2>4, <3>1
  <2>5. CASE y \notin Leaf
    <3> DEFINE P == ToSet(Parts(y))
    <3>1. HeadTail[y] = [head |-> UNION {HeadTail[p].head : p \in P}, tail |-> UNION {HeadTail[p].tail : p \in P}]
      BY ONLY <2>2, <2>3, <2>5 DEF HeadTailOf
    <3>2. \A p \in P : HeadTail[p].head = JobsOf[p] /\ HeadTail[p].tail = JobsOf[p]
      BY <1>1, <2>5, BunchedParts
    <3>3. JobsOf[y] = UNION {JobsOf[p] : p \in P}
      BY <2>1, <2>5
    <3> HIDE DEF P
    <3>4. \A z : z \in HeadTail[y].head <=> \E p \in P : z \in JobsOf[p]
      BY ONLY <3>1, <3>2
    <3>5. \A z : z \in HeadTail[y].tail <=> \E p \in P : z \in JobsOf[p]
      BY ONLY <3>1, <3>2
    <3>6. HeadTail[y].head \subseteq Leaf /\ HeadTail[y].tail \subseteq Leaf
      BY HeadTailFacts DEF Sides
    <3>7. HeadTail[y].head = JobsOf[y]
      BY ONLY <3>3, <3>4, <3>6
    <3>8. HeadTail[y].tail = JobsOf[y]
      BY ONLY <3>3, <3>5, <3>6
    <3> QED  BY <3>7, <3>8
  <2> QED  BY <2>4, <2>5
<1>2. \A y \in Objects : (y \notin Leaf => ToSet(Parts(y)) \subseteq S) => y \in S
  BY <1>1
<1> HIDE DEF S
<1>3. Objects \subseteq S
  BY <1>2, ByParts
<1> QED  BY <1>3 DEF S

\* What a graph reaches: all its objects are connected.
LEMMA VisitedFacts ==
    ASSUME MadeOK, NEW x \in Objects
    PROVE  /\ Visited(x) \subseteq Objects /\ x \in Visited(x)
           /\ \A y \in Visited(x) : OwnVertices(y) \subseteq Visited(x)
<1> DEFINE N == Cardinality(Objects)
           W == SUBSET Objects
           F == [C \in W |-> C \union UNION {OwnVertices(y) : y \in C}]
           step == [n \in 1..N |-> F]
           f == CHOOSE f : f = [n \in 0..N |-> IF n = 0 THEN {x} ELSE f[n - 1] \union UNION {OwnVertices(y) : y \in f[n - 1]}]
<1>0. IsFiniteSet(Objects) /\ N \in Nat
  <2>1. IsFiniteSet(Objects)
    BY PartsFacts, FS_Interval DEF Objects
  <2> QED  BY <2>1, FS_CardinalityType
<1>1. \A y \in Objects : OwnVertices(y) \subseteq Objects
  <2>1. \A y \in Objects : ToSet(Parts(y)) \subseteq Objects
    BY PartsFacts
  <2>2. \A y \in Objects : Called(y) \subseteq Objects
    BY DEF Called, MadeOK
  <2> QED  BY <2>1, <2>2 DEF OwnVertices
<1>2. F \in [W -> W] /\ \A C \in W : F[C] = C \union UNION {OwnVertices(y) : y \in C}
  BY <1>1
<1>3. Visited(x) = f[N]
  BY DEF Visited
<1>4. \A C \in W : F[C] = C \union UNION {OwnVertices(y) : y \in C}
  BY <1>2
<1> HIDE DEF F
<1>5. step \in [1..N -> [W -> W]]
  BY <1>2
<1>6. {x} \in W
  OBVIOUS
<1>7. PICK g : g \in [0..N -> W] /\ Stepped(N, {x}, step, g)
  <2> HIDE DEF step, N, W
  <2> QED  BY <1>0, <1>5, <1>6, Stepping
<1>8. g = [n \in 0..N |-> IF n = 0 THEN {x} ELSE g[n - 1] \union UNION {OwnVertices(y) : y \in g[n - 1]}]
  <2>1. ASSUME NEW n \in 0..N, n # 0 PROVE step[n][g[n - 1]] = g[n - 1] \union UNION {OwnVertices(y) : y \in g[n - 1]}
    <3>1. n \in 1..N /\ n - 1 \in 0..N
      BY <1>0, <2>1
    <3>2. g[n - 1] \in W
      BY <1>7, <3>1
    <3> QED  BY <1>4, <3>1, <3>2
  <2> HIDE DEF step
  <2> QED  BY <1>7, <2>1 DEF Stepped
<1>9. f = [n \in 0..N |-> IF n = 0 THEN {x} ELSE f[n - 1] \union UNION {OwnVertices(y) : y \in f[n - 1]}]
  BY <1>8
<1> HIDE DEF f, step
<1> DEFINE K == {n \in 0..N : f[n] \in W /\ x \in f[n]}
<1>10. 0 \in K
  <2>1. 0 \in 0..N
    BY <1>0
  <2>2. f[0] = {x}
    BY <1>9, <2>1
  <2> QED  BY <2>1, <2>2
<1>11. \A n \in 1..N : f[n] = f[n - 1] \union UNION {OwnVertices(y) : y \in f[n - 1]}
  BY <1>0, <1>9
<1>12. ASSUME NEW n \in 0..N, n # N, n \in K PROVE n + 1 \in K
  <2>1. n + 1 \in 1..N /\ n + 1 \in 0..N /\ (n + 1) - 1 = n
    BY <1>0, <1>12
  <2>2. f[n + 1] = f[n] \union UNION {OwnVertices(y) : y \in f[n]}
    BY <1>11, <2>1
  <2>3. f[n] \in W /\ x \in f[n]
    BY <1>12
  <2>4. f[n + 1] \in W
    BY <1>1, <2>2, <2>3
  <2> QED  BY <2>1, <2>2, <2>3, <2>4
<1> HIDE DEF K
<1>13. 0..N \subseteq K
  <2> HIDE DEF N
  <2> QED  BY <1>0, <1>10, <1>12, UpTo
<1>14. \A n \in 0..N : f[n] \in W /\ x \in f[n]
  BY <1>13 DEF K
<1>15. f \in [0..N -> W]
  BY <1>9, <1>14
<1>16. F[f[N]] \subseteq f[N]
  <2>1. \A n \in 1..N : f[n] = f[n - 1] \union F[f[n - 1]]
    <3>1. ASSUME NEW n \in 1..N PROVE f[n] = f[n - 1] \union F[f[n - 1]]
      <4>1. n - 1 \in 0..N
        BY <1>0
      <4>2. f[n - 1] \in W
        BY <1>14, <4>1
      <4> QED  BY <1>4, <1>11, <4>2
    <3> QED  BY <3>1
  <2>2. f[0] # {}
    <3>1. 0 \in 0..N
      BY <1>0
    <3> QED  BY <1>14, <3>1
  <2> DEFINE n == N
  <2>3. n = Cardinality(Objects) /\ f \in [0..n -> SUBSET Objects] /\ F \in [SUBSET Objects -> SUBSET Objects]
        /\ \A k \in 1..n : f[k] = f[k - 1] \union F[f[k - 1]]
    BY <1>2, <1>15, <2>1
  <2> HIDE DEF n
  <2>4. F[f[n]] \subseteq f[n]
    BY ONLY <1>0, <2>2, <2>3, Filling
  <2> QED  BY <2>4 DEF n
<1>17. N \in 0..N
  BY <1>0
<1>18. f[N] \in W /\ x \in f[N] /\ \A y \in f[N] : OwnVertices(y) \subseteq f[N]
  BY <1>4, <1>14, <1>16, <1>17
<1> QED  BY <1>3, <1>18

\* A pair of the relation is in order.
LEMMA AfterStep ==
    ASSUME NEW R, NEW a, NEW b \in Leaf, <<a, b>> \in R
    PROVE  b \in After(R, a)
<1>1. ASSUME NEW C \in SUBSET Leaf, \A e \in R : e[1] = a \/ e[1] \in C => e[2] \in C PROVE b \in C
  <2>1. <<a, b>>[1] = a /\ <<a, b>>[2] = b
    OBVIOUS
  <2> QED  BY <1>1, <2>1
<1> QED  BY <1>1 DEF After

\* The order is transitive.
LEMMA AfterTrans ==
    ASSUME NEW R, NEW a, NEW b \in After(R, a), NEW c \in After(R, b)
    PROVE  c \in After(R, a)
<1>1. ASSUME NEW C \in SUBSET Leaf, \A e \in R : e[1] = a \/ e[1] \in C => e[2] \in C PROVE c \in C
  <2>1. b \in C
    BY <1>1 DEF After
  <2>2. \A e \in R : e[1] = b \/ e[1] \in C => e[2] \in C
    BY <1>1, <2>1
  <2> QED  BY <1>1, <2>2 DEF After
<1>2. c \in Leaf
  BY DEF After
<1> QED  BY <1>1, <1>2 DEF After

\* One job is another, or comes before it.
Leads(R, a, b) == a = b \/ b \in After(R, a)

\* This is transitive.
LEMMA LeadsOn ==
    ASSUME NEW R, NEW a, NEW b, NEW c, Leads(R, a, b), Leads(R, b, c)
    PROVE  Leads(R, a, c)
BY AfterTrans DEF Leads

\* The jobs G of the n parts of a chain, the first ones H and the last ones T of
\* each: within a part jobs lead to last ones and come from first ones, and the
\* last ones of a part are before the first ones of the next.
Linked(R, n, G, H, T) ==
    /\ \A i \in 1..n : /\ G[i] \subseteq Leaf /\ H[i] \subseteq G[i] /\ T[i] \subseteq G[i]
                       /\ H[i] # {} /\ T[i] # {}
                       /\ \A a \in G[i] : \E e \in T[i] : Leads(R, a, e)
                       /\ \A b \in G[i] : \E f \in H[i] : Leads(R, f, b)
    /\ \A i \in 1..n : i < n => \A a \in T[i], b \in H[i + 1] : <<a, b>> \in R

\* Then every job comes from one of the first part.
LEMMA FromFirst ==
    ASSUME NEW n \in Nat, NEW R, NEW G, NEW H, NEW T, Linked(R, n, G, H, T),
           NEW i \in 1..n, NEW b \in G[i]
    PROVE  \E f \in G[1] : Leads(R, f, b)
<1> DEFINE K == {k \in 0..n : k # 0 => \A c \in G[k] : \E f \in G[1] : Leads(R, f, c)}
<1>1. 0 \in K
  OBVIOUS
<1>2. ASSUME NEW k \in 0..n, k # n, k \in K PROVE k + 1 \in K
  <2>1. k + 1 \in 1..n /\ k + 1 \in 0..n
    BY <1>2
  <2>2. ASSUME NEW c \in G[k + 1] PROVE \E f \in G[1] : Leads(R, f, c)
    <3>1. CASE k = 0
      BY <2>2, <3>1 DEF Leads
    <3>2. CASE k # 0
      <4>1. k \in 1..n /\ k < n
        BY <1>2, <3>2
      <4>2. PICK h \in H[k + 1] : Leads(R, h, c)
        BY <2>1, <2>2 DEF Linked
      <4>3. PICK t \in T[k] : t \in G[k]
        BY <4>1 DEF Linked
      <4>4. h \in Leaf /\ <<t, h>> \in R
        BY <2>1, <4>1 DEF Linked
      <4>5. Leads(R, t, h)
        BY <4>4, AfterStep DEF Leads
      <4>6. PICK f \in G[1] : Leads(R, f, t)
        BY <1>2, <3>2, <4>3
      <4> QED  BY <4>2, <4>5, <4>6, LeadsOn
    <3> QED  BY <3>1, <3>2
  <2> QED  BY <2>1, <2>2
<1> HIDE DEF K
<1>3. 0..n \subseteq K
  BY <1>1, <1>2, UpTo
<1>4. i \in K /\ i # 0
  BY <1>3
<1> QED  BY <1>4 DEF K

\* And every job leads to one of the last part.
LEMMA ToLast ==
    ASSUME NEW n \in Nat, NEW R, NEW G, NEW H, NEW T, Linked(R, n, G, H, T),
           NEW i \in 1..n, NEW a \in G[i]
    PROVE  \E e \in G[n] : Leads(R, a, e)
<1> DEFINE K == {k \in 0..n : k # n => \A c \in G[n - k] : \E e \in G[n] : Leads(R, c, e)}
<1>1. 0 \in K
  <2>1. n - 0 = n
    OBVIOUS
  <2> QED  BY <2>1 DEF Leads
<1>2. ASSUME NEW k \in 0..n, k # n, k \in K PROVE k + 1 \in K
  <2> DEFINE m == n - (k + 1)
  <2>1. k + 1 \in 0..n /\ m + 1 = n - k
    BY <1>2
  <2>2. ASSUME k + 1 # n, NEW c \in G[m] PROVE \E e \in G[n] : Leads(R, c, e)
    <3>1. m \in 1..n /\ m < n /\ m + 1 \in 1..n
      BY <1>2, <2>2
    <3> HIDE DEF m
    <3>2. PICK t \in T[m] : Leads(R, c, t)
      BY <2>2, <3>1 DEF Linked
    <3>3. PICK h \in H[m + 1] : h \in G[m + 1]
      BY <3>1 DEF Linked
    <3>4. h \in Leaf /\ <<t, h>> \in R
      BY <3>1, <3>3 DEF Linked
    <3>5. Leads(R, t, h)
      BY <3>4, AfterStep DEF Leads
    <3>6. PICK e \in G[n] : Leads(R, h, e)
      BY <1>2, <2>1, <3>3
    <3>7. Leads(R, c, h)
      BY <3>2, <3>5, LeadsOn
    <3> QED  BY <3>6, <3>7, LeadsOn
  <2> QED  BY <2>1, <2>2
<1> HIDE DEF K
<1>3. 0..n \subseteq K
  BY <1>1, <1>2, UpTo
<1>4. n - i \in 0..n /\ n - i # n /\ n - (n - i) = i
  OBVIOUS
<1>5. n - i \in K
  BY <1>3, <1>4
<1> QED  BY <1>4, <1>5 DEF K

\* What has no chain that begins or ends with a chain has no such part.
LEMMA StraightParts ==
    ASSUME NEW x, Straight(x)
    PROVE  /\ \A p \in ToSet(Parts(x)) : Straight(p)
           /\ KindOf(x) = "chain" => Bunched(Head(Parts(x))) /\ Bunched(Last(Parts(x)))
BY DEF Straight

\* The first and the last jobs of an object are the heads and the tails computed.
First(x) == HeadTail[x].head
Final(x) == HeadTail[x].tail

\* Of a chain, those of its first and of its last part, which have no others.
LEMMA ChainEnds ==
    ASSUME MadeOK, NEW x \in Objects, Straight(x), KindOf(x) = "chain"
    PROVE  /\ First(x) = JobsOf[Head(Parts(x))] /\ Final(x) = JobsOf[Last(Parts(x))]
           /\ HeadTail[Last(Parts(x))].tail = JobsOf[Last(Parts(x))]
<1>1. HeadTail[x] = HeadTailOf(x, HeadTail)
  BY HeadTailFacts
<1>2. HeadTail[x] = [head |-> HeadTail[Head(Parts(x))].tail, tail |-> HeadTail[Last(Parts(x))].head]
  BY ONLY <1>1, KindOf(x) = "chain" DEF HeadTailOf
<1>3. Head(Parts(x)) \in Objects /\ Last(Parts(x)) \in Objects
  BY EndParts, PartsFacts
<1>4. Bunched(Head(Parts(x))) /\ Bunched(Last(Parts(x)))
  BY StraightParts
<1>5. HeadTail[Head(Parts(x))].tail = JobsOf[Head(Parts(x))]
  BY <1>3, <1>4, BunchedFacts
<1>6. HeadTail[Last(Parts(x))].tail = JobsOf[Last(Parts(x))] /\ HeadTail[Last(Parts(x))].head = JobsOf[Last(Parts(x))]
  BY <1>3, <1>4, BunchedFacts
<1> QED  BY <1>2, <1>5, <1>6 DEF First, Final

\* What an object is made of, when it is not a job: the first and the last jobs of it.
LEMMA GroupEnds ==
    ASSUME MadeOK, NEW x \in Objects, KindOf(x) = "group"
    PROVE  /\ First(x) = UNION {First(p) : p \in ToSet(Parts(x))}
           /\ Final(x) = UNION {Final(p) : p \in ToSet(Parts(x))}
           /\ JobsOf[x] = UNION {JobsOf[p] : p \in ToSet(Parts(x))}
<1>1. HeadTail[x] = HeadTailOf(x, HeadTail)
  BY HeadTailFacts
<1>2. HeadTail[x] = [head |-> UNION {HeadTail[p].head : p \in ToSet(Parts(x))},
                     tail |-> UNION {HeadTail[p].tail : p \in ToSet(Parts(x))}]
  BY ONLY <1>1, KindOf(x) = "group" DEF HeadTailOf
<1>3. x \notin Leaf
  BY PartsFacts
<1>4. JobsOf[x] = UNION {JobsOf[p] : p \in ToSet(Parts(x))}
  BY <1>3, JobsOfFacts
<1>5. First(x) = HeadTail[x].head /\ Final(x) = HeadTail[x].tail
      /\ \A p : First(p) = HeadTail[p].head /\ Final(p) = HeadTail[p].tail
  BY DEF First, Final
<1> QED  BY ONLY <1>2, <1>4, <1>5

\* Of a job, the job.
LEMMA JobEnds ==
    ASSUME MadeOK, NEW x \in Leaf
    PROVE  First(x) = {x} /\ Final(x) = {x} /\ JobsOf[x] = {x} /\ Ends(x) = {x}
<1>1. x \in Objects /\ KindOf(x) = "job" /\ Parts(x) = <<x>>
  BY PartsFacts
<1>2. HeadTail[x] = HeadTailOf(x, HeadTail)
  BY <1>1, HeadTailFacts
<1>3. HeadTail[x] = [head |-> {x}, tail |-> {x}]
  BY ONLY <1>1, <1>2 DEF HeadTailOf
<1>4. Last(<<x>>) = x
  BY DEF Last
<1>5. JobsOf[x] = {x}
  BY <1>1, JobsOfFacts
<1> QED  BY <1>1, <1>3, <1>4, <1>5 DEF First, Final, Ends

\* First and last jobs are jobs of the object, and on_done attaches to the last.
LEMMA StraightFacts ==
    ASSUME MadeOK, NEW x \in Objects, Straight(x)
    PROVE  /\ First(x) \subseteq JobsOf[x] /\ Final(x) \subseteq JobsOf[x] /\ First(x) # {} /\ Final(x) # {}
           /\ \A a \in Final(x) : \E e \in Ends(x) : a \in HeadTail[e].tail
<1> DEFINE Fine(y) == First(y) \subseteq JobsOf[y] /\ Final(y) \subseteq JobsOf[y] /\ First(y) # {} /\ Final(y) # {}
           S == {y \in Objects : Straight(y) => Fine(y)}
<1>1. ASSUME NEW y \in Objects, y \notin Leaf => ToSet(Parts(y)) \subseteq S, Straight(y) PROVE Fine(y)
  <2>1. CASE y \in Leaf
    BY <2>1, JobEnds
  <2>2. CASE KindOf(y) = "group"
    <3>1. y \notin Leaf /\ Head(Parts(y)) \in ToSet(Parts(y))
      BY <2>2, PartsFacts, EndParts
    <3>2. \A p \in ToSet(Parts(y)) : Fine(p)
      BY <1>1, <3>1, StraightParts
    <3>3. /\ First(y) = UNION {First(p) : p \in ToSet(Parts(y))}
          /\ Final(y) = UNION {Final(p) : p \in ToSet(Parts(y))}
          /\ JobsOf[y] = UNION {JobsOf[p] : p \in ToSet(Parts(y))}
      BY <2>2, GroupEnds
    <3> QED  BY <3>1, <3>2, <3>3
  <2>3. CASE KindOf(y) = "chain"
    <3>1. y \notin Leaf /\ Head(Parts(y)) \in ToSet(Parts(y)) /\ Last(Parts(y)) \in ToSet(Parts(y))
          /\ ToSet(Parts(y)) \subseteq Objects
      BY <2>3, PartsFacts, EndParts
    <3>2. JobsOf[y] = UNION {JobsOf[p] : p \in ToSet(Parts(y))}
      BY <3>1, JobsOfFacts
    <3>3. First(y) = JobsOf[Head(Parts(y))] /\ Final(y) = JobsOf[Last(Parts(y))]
      BY <1>1, <2>3, ChainEnds
    <3>4. JobsOf[Head(Parts(y))] # {} /\ JobsOf[Last(Parts(y))] # {}
      BY <3>1, JobsFacts
    <3> QED  BY <3>1, <3>2, <3>3, <3>4
  <2> QED  BY <2>1, <2>2, <2>3, PartsFacts
<1>2. \A y \in Objects : (y \notin Leaf => ToSet(Parts(y)) \subseteq S) => y \in S
  BY <1>1
<1> HIDE DEF S
<1>3. Objects \subseteq S
  BY <1>2, ByParts
<1>4. Fine(x)
  BY <1>3 DEF S
<1>5. CASE x \in Leaf
  BY <1>4, <1>5, JobEnds DEF Final
<1>6. CASE KindOf(x) = "group"
  <2>1. Ends(x) = ToSet(Parts(x))
    BY <1>6 DEF Ends
  <2> QED  BY <1>4, <1>6, <2>1, GroupEnds DEF Final
<1>7. CASE KindOf(x) = "chain"
  <2>1. Ends(x) = {Last(Parts(x))}
    BY <1>7 DEF Ends
  <2> QED  BY <1>4, <1>7, <2>1, ChainEnds
<1> QED  BY <1>5, <1>6, <1>7, PartsFacts

\* The pairs between jobs of D that the graph of r merges are in R.
Carried(r, R, D) == \A y \in Visited(r) : \A e \in MergedEdges(y) : e \in Leaf \X Leaf /\ e[2] \in D => e \in R

\* Within an object every job leads to a last one and comes from a first one.
Spans(R, x) ==
    /\ \A a \in JobsOf[x] : \E e \in Final(x) : Leads(R, a, e)
    /\ \A b \in JobsOf[x] : \E f \in First(x) : Leads(R, f, b)

\* So it is in a chain of such parts.
LEMMA ChainSpans ==
    ASSUME MadeOK, NEW r \in Objects, NEW R, NEW D, Carried(r, R, D),
           NEW x \in Visited(r), Straight(x), KindOf(x) = "chain", JobsOf[x] \subseteq D,
           \A p \in ToSet(Parts(x)) : Spans(R, p)
    PROVE  Spans(R, x)
<1> DEFINE P == Parts(x)
           n == Len(P)
           G == [i \in 1..n |-> JobsOf[P[i]]]
           H == [i \in 1..n |-> First(P[i])]
           T == [i \in 1..n |-> Final(P[i])]
<1>0. x \in Objects
  BY VisitedFacts
<1>1. /\ n \in Nat \ {0} /\ ToSet(P) = {P[i] : i \in 1..n} /\ ToSet(P) \subseteq Objects /\ x \notin Leaf
      /\ 1 \in 1..n /\ n \in 1..n /\ Head(P) = P[1] /\ Last(P) = P[n]
  BY <1>0, PartsFacts, EndParts
<1>2. JobsOf[x] = UNION {JobsOf[p] : p \in ToSet(P)}
  BY <1>0, <1>1, JobsOfFacts
<1>3. \A p \in ToSet(P) : Straight(p)
  BY StraightParts
<1>4. First(x) = JobsOf[P[1]] /\ Final(x) = JobsOf[P[n]]
  BY <1>0, <1>1, ChainEnds
<1>5. \A i \in 1..(n - 1) : <<P[i], P[i + 1]>> \in OwnEdges(x)
  BY DEF OwnEdges
<1>a. \A p \in ToSet(P) : Spans(R, p)
  OBVIOUS
<1>b. \A i \in 1..n : G[i] = JobsOf[P[i]] /\ H[i] = First(P[i]) /\ T[i] = Final(P[i])
  OBVIOUS
<1> HIDE DEF P, n, G, H, T
<1>6. ASSUME NEW i \in 1..n
      PROVE  /\ P[i] \in ToSet(P) /\ P[i] \in Objects /\ Straight(P[i]) /\ Spans(R, P[i]) /\ JobsOf[P[i]] \subseteq Leaf
             /\ JobsOf[P[i]] \subseteq D /\ First(P[i]) \subseteq JobsOf[P[i]] /\ Final(P[i]) \subseteq JobsOf[P[i]]
             /\ First(P[i]) # {} /\ Final(P[i]) # {}
  <2>1. P[i] \in ToSet(P) /\ P[i] \in Objects
    BY <1>1
  <2>2. Straight(P[i]) /\ Spans(R, P[i]) /\ JobsOf[P[i]] \subseteq D
    BY <1>2, <1>3, <1>a, <2>1
  <2> QED  BY <2>1, <2>2, JobsFacts, StraightFacts
<1>7. ASSUME NEW i \in 1..n, i < n, NEW a \in T[i], NEW b \in H[i + 1] PROVE <<a, b>> \in R
  <2>1. i \in 1..(n - 1) /\ i + 1 \in 1..n
    BY <1>1, <1>7
  <2>2. a \in Final(P[i]) /\ b \in First(P[i + 1]) /\ a \in Leaf /\ b \in Leaf /\ b \in D
    BY <1>6, <1>7, <1>b, <2>1
  <2>3. <<a, b>> \in HeadTail[P[i]].tail \X HeadTail[P[i + 1]].head
    BY <2>2 DEF First, Final
  <2>4. <<a, b>> \in MergedEdges(x)
    <3> DEFINE e == <<P[i], P[i + 1]>>
    <3>1. e \in OwnEdges(x) /\ e[1] = P[i] /\ e[2] = P[i + 1]
      BY <1>5, <2>1
    <3> HIDE DEF e
    <3>2. <<a, b>> \in HeadTail[e[1]].tail \X HeadTail[e[2]].head
      BY ONLY <2>3, <3>1
    <3> QED  BY <3>1, <3>2 DEF MergedEdges
  <2> QED  BY <2>2, <2>4 DEF Carried
<1>8. Linked(R, n, G, H, T)
  <2>1. ASSUME NEW i \in 1..n
        PROVE  /\ G[i] \subseteq Leaf /\ H[i] \subseteq G[i] /\ T[i] \subseteq G[i] /\ H[i] # {} /\ T[i] # {}
               /\ \A a \in G[i] : \E e \in T[i] : Leads(R, a, e)
               /\ \A b \in G[i] : \E f \in H[i] : Leads(R, f, b)
    BY <1>6, <1>b DEF Spans
  <2> QED  BY <1>7, <2>1 DEF Linked
<1>9. ASSUME NEW a \in JobsOf[x]
      PROVE  (\E e \in Final(x) : Leads(R, a, e)) /\ (\E f \in First(x) : Leads(R, f, a))
  <2>1. PICK i \in 1..n : a \in G[i]
    BY <1>1, <1>2, <1>b
  <2>2. G[1] = First(x) /\ G[n] = Final(x)
    BY <1>1, <1>4, <1>b
  <2>3. \E e \in G[n] : Leads(R, a, e)
    BY <1>1, <1>8, <2>1, ToLast
  <2>4. \E f \in G[1] : Leads(R, f, a)
    BY <1>1, <1>8, <2>1, FromFirst
  <2> QED  BY <2>2, <2>3, <2>4
<1> QED  BY <1>9 DEF Spans

\* And in every object without a chain that begins or ends with one.
LEMMA Within ==
    ASSUME MadeOK, NEW r \in Objects, NEW R, NEW D, Carried(r, R, D),
           NEW x \in Visited(r), Straight(x), JobsOf[x] \subseteq D
    PROVE  Spans(R, x)
<1> DEFINE S == {y \in Objects : y \in Visited(r) /\ Straight(y) /\ JobsOf[y] \subseteq D => Spans(R, y)}
<1>1. ASSUME NEW y \in Objects, y \notin Leaf => ToSet(Parts(y)) \subseteq S,
             y \in Visited(r), Straight(y), JobsOf[y] \subseteq D
      PROVE  Spans(R, y)
  <2>1. CASE y \in Leaf
    BY <2>1, JobEnds DEF Spans, Leads
  <2>2. y \notin Leaf => \A p \in ToSet(Parts(y)) : Spans(R, p)
    <3> SUFFICES ASSUME y \notin Leaf, NEW p \in ToSet(Parts(y)) PROVE Spans(R, p)
      OBVIOUS
    <3>1. p \in Visited(r)
      BY <1>1, VisitedFacts DEF OwnVertices
    <3>2. JobsOf[y] = UNION {JobsOf[q] : q \in ToSet(Parts(y))}
      BY JobsOfFacts
    <3>3. JobsOf[p] \subseteq D
      BY <1>1, <3>2
    <3> QED  BY <1>1, <3>1, <3>3, StraightParts
  <2>3. CASE KindOf(y) = "group"
    <3>1. /\ First(y) = UNION {First(p) : p \in ToSet(Parts(y))}
          /\ Final(y) = UNION {Final(p) : p \in ToSet(Parts(y))}
          /\ JobsOf[y] = UNION {JobsOf[p] : p \in ToSet(Parts(y))}
      BY <2>3, GroupEnds
    <3>2. y \notin Leaf
      BY <2>3, PartsFacts
    <3> QED  BY <2>2, <3>1, <3>2 DEF Spans
  <2>4. CASE KindOf(y) = "chain"
    <3>1. y \notin Leaf
      BY <2>4, PartsFacts
    <3> QED  BY <1>1, <2>2, <2>4, <3>1, ChainSpans
  <2> QED  BY <2>1, <2>3, <2>4, PartsFacts
<1>2. \A y \in Objects : (y \notin Leaf => ToSet(Parts(y)) \subseteq S) => y \in S
  BY <1>1
<1> HIDE DEF S
<1>3. Objects \subseteq S
  BY <1>2, ByParts
<1>4. x \in Objects
  BY VisitedFacts
<1> QED  BY <1>3, <1>4 DEF S

\* Where the last jobs of one object are before the first ones of another, all are.
LEMMA Joined ==
    ASSUME MadeOK, NEW r \in Objects, NEW R, NEW D, Carried(r, R, D),
           NEW x \in Visited(r), NEW y \in Visited(r), Straight(x), Straight(y), JobsOf[x] \subseteq D, JobsOf[y] \subseteq D,
           \A a \in Final(x), b \in First(y) : <<a, b>> \in R
    PROVE  Before(R, x, y)
<1>0. x \in Objects /\ y \in Objects
  BY VisitedFacts
<1>1. ASSUME NEW a \in JobsOf[x], NEW b \in JobsOf[y] PROVE b \in After(R, a)
  <2>1. PICK e \in Final(x) : Leads(R, a, e)
    BY Within DEF Spans
  <2>2. PICK f \in First(y) : Leads(R, f, b)
    BY Within DEF Spans
  <2>3. f \in Leaf
    BY <1>0, JobsFacts, StraightFacts
  <2>4. f \in After(R, e)
    BY <2>3, AfterStep
  <2>5. f \in After(R, a)
    BY <2>1, <2>4, AfterTrans DEF Leads
  <2> QED  BY <2>2, <2>5, AfterTrans DEF Leads
<1> QED  BY <1>1 DEF Before

\* The jobs stored are those of the graph, and wait for those before them in it.
Stored ==
  phase = "delayed" =>
    /\ root \in Objects
    /\ \/ jobs = <<>>
       \/ jobs = [l \in Vertices(root) |-> {e[1] : e \in {d \in Edges(root) : d[2] = l}}]

\* So they wait for what the program put before them.
LEMMA StoredFacts ==
    ASSUME MadeOK, Stored
    PROVE  StoredInOrder
<1> DEFINE R == Depends(jobs)
           D == DOMAIN jobs
<1>1. SUFFICES ASSUME phase = "delayed", NEW p \in Promised, Straight(p[1]), Straight(p[2]),
                      JobsOf[p[1]] \union JobsOf[p[2]] \subseteq D
               PROVE  Before(R, p[1], p[2])
  BY DEF StoredInOrder
<1>2. p \in Objects \X Objects /\ root \in Objects
  BY <1>1 DEF Promised, Stored
<1> DEFINE x == p[1]
           y == p[2]
<1>3. x \in Objects /\ y \in Objects /\ p = <<x, y>>
  BY <1>2
<1>4. JobsOf[x] # {}
  BY <1>1, <1>3, JobsFacts
<1>5. jobs # <<>>
  <2>1. DOMAIN <<>> = {}
    OBVIOUS
  <2> QED  BY <1>1, <1>4, <2>1
<1>6. jobs = [l \in Vertices(root) |-> {e[1] : e \in {d \in Edges(root) : d[2] = l}}]
  BY <1>1, <1>5 DEF Stored
<1>7. Carried(root, R, D)
  <2>1. ASSUME NEW v \in Visited(root), NEW e \in MergedEdges(v), e \in Leaf \X Leaf, e[2] \in D PROVE e \in R
    <3>1. e \in Edges(root)
      BY <2>1 DEF Edges
    <3>2. e[2] \in Vertices(root)
      BY <1>6, <2>1
    <3>3. e[1] \in jobs[e[2]]
      BY <1>6, <3>1, <3>2
    <3> QED  BY <2>1, <3>3 DEF Depends
  <2> HIDE DEF R, D
  <2> QED  BY <2>1 DEF Carried
<1>8. Visited(root) \subseteq Objects /\ \A z \in Visited(root) : OwnVertices(z) \subseteq Visited(root)
  BY <1>2, VisitedFacts
<1>9. x \in Visited(root) /\ y \in Visited(root) /\ \A a \in Final(x), b \in First(y) : <<a, b>> \in R
  <2>0. ASSUME NEW v \in Visited(root), NEW z, <<z, y>> \in OwnEdges(v), NEW a \in HeadTail[z].tail \cap Leaf, NEW b \in First(y)
        PROVE  <<a, b>> \in R
    <3>1. HeadTail[y].head = First(y) /\ HeadTail[y] \in Sides
      BY <1>3, HeadTailFacts DEF First
    <3>2. b \in Leaf
      BY <3>1 DEF Sides
    <3>3. <<a, b>> \in HeadTail[z].tail \X HeadTail[y].head
      BY <2>0, <3>1
    <3>4. <<a, b>> \in MergedEdges(v)
      BY <2>0, <3>3 DEF MergedEdges
    <3>5. First(y) \subseteq JobsOf[y]
      BY <1>1, <1>3, StraightFacts
    <3>6. b \in D
      BY <1>1, <3>5
    <3> HIDE DEF R, D
    <3> QED  BY <1>7, <2>0, <3>2, <3>4, <3>6 DEF Carried
  <2>a. Final(x) \subseteq Leaf
    <3>1. HeadTail[x].tail = Final(x) /\ HeadTail[x] \in Sides
      BY <1>3, HeadTailFacts DEF Final
    <3> QED  BY <3>1 DEF Sides
  <2>1. CASE p \in arrows /\ x \in Visited(root)
    <3>1. y \in Called(x)
      BY <2>1 DEF Called
    <3>2. y \in Visited(root)
      BY <1>8, <2>1, <3>1 DEF OwnVertices
    <3>3. \A e \in Ends(x) : <<e, y>> \in OwnEdges(x)
      BY <3>1 DEF OwnEdges
    <3>4. \A a \in Final(x) : \E e \in Ends(x) : a \in HeadTail[e].tail
      BY <1>1, <1>3, StraightFacts
    <3> HIDE DEF R, x, y
    <3> QED  BY <2>0, <2>1, <2>a, <3>2, <3>3, <3>4
  <2>2. ASSUME NEW c \in Visited(root), KindOf(c) = "chain", NEW i \in 1..(Len(Parts(c)) - 1), Parts(c)[i] = x, Parts(c)[i + 1] = y
        PROVE  x \in Visited(root) /\ y \in Visited(root) /\ \A a \in Final(x), b \in First(y) : <<a, b>> \in R
    <3>1. <<x, y>> \in OwnEdges(c)
      BY <2>2 DEF OwnEdges
    <3>2. c \in Objects
      BY <1>8
    <3>3. ToSet(Parts(c)) = {Parts(c)[j] : j \in 1..Len(Parts(c))} /\ Len(Parts(c)) \in Nat
      BY <3>2, PartsFacts
    <3>4. x \in ToSet(Parts(c)) /\ y \in ToSet(Parts(c))
      <4>1. i \in 1..Len(Parts(c)) /\ i + 1 \in 1..Len(Parts(c))
        BY <3>3
      <4> QED  BY <2>2, <3>3, <4>1
    <3>5. x \in Visited(root) /\ y \in Visited(root)
      BY <1>8, <3>4 DEF OwnVertices
    <3>6. Final(x) = HeadTail[x].tail
      BY DEF Final
    <3> HIDE DEF R, x, y
    <3> QED  BY <2>0, <2>a, <3>1, <3>5, <3>6
  <2> QED  BY <1>1, <1>3, <2>1, <2>2 DEF Promised
<1> HIDE DEF R, D
<1>10. Straight(x) /\ Straight(y) /\ JobsOf[x] \subseteq D /\ JobsOf[y] \subseteq D
  BY <1>1
<1> QED  BY <1>2, <1>7, <1>9, <1>10, Joined

\* An enumeration of a finite set has each member once.
LEMMA Enumerated ==
    ASSUME NEW S, IsFiniteSet(S), NEW f \in SetToSeqs(S)
    PROVE  f \in Seq(S) /\ ToSet(f) = S /\ IsInjective(f)
<1> DEFINE n == Cardinality(S)
<1>1. n \in Nat
  BY FS_CardinalityType
<1>2. f \in [1..n -> S] /\ \A i, j \in 1..n : i # j => f[i] # f[j]
  BY DEF SetToSeqs
<1>3. IsFiniteSet(1..n) /\ Cardinality(1..n) = n
  BY <1>1, FS_Interval
<1> DEFINE D == 1..n
<1>4. f \in Injection(D, S)
  BY <1>2 DEF Injection, IsInjective
<1>5. Cardinality(D) = Cardinality(S)
  BY <1>3
<1> HIDE DEF D
<1>6. f \in Surjection(D, S)
  BY <1>4, <1>5, FS_Injection
<1>7. \A t \in S : \E i \in 1..n : f[i] = t
  BY <1>6 DEF Surjection, D
<1>8. DOMAIN f = 1..n
  BY <1>2
<1>9. ToSet(f) = S
  BY <1>2, <1>7, <1>8 DEF ToSet
<1>10. f \in Seq(S)
  BY <1>1, <1>2
<1> QED  BY <1>2, <1>8, <1>9, <1>10 DEF IsInjective

\* Of sequences without repetition: the rest, one with another behind, one with one more.
LEMMA Repeatless ==
    ASSUME NEW S, NEW s \in Seq(S), IsInjective(s)
    PROVE  /\ s # <<>> => /\ ToSet(Tail(s)) = ToSet(s) \ {Head(s)} /\ Head(s) \in ToSet(s)
                          /\ IsInjective(Tail(s)) /\ Tail(s) \in Seq(S)
           /\ \A t \in Seq(S) : IsInjective(t) /\ ToSet(s) \cap ToSet(t) = {}
                => s \o t \in Seq(S) /\ ToSet(s \o t) = ToSet(s) \union ToSet(t) /\ IsInjective(s \o t)
           /\ \A x \in S : x \notin ToSet(s)
                => /\ Append(s, x) \in Seq(S) /\ ToSet(Append(s, x)) = ToSet(s) \union {x}
                   /\ IsInjective(Append(s, x))
<1>0. /\ \A t \in Seq(S) : DOMAIN t = 1..Len(t) /\ Len(t) \in Nat /\ ToSet(t) = {t[i] : i \in 1..Len(t)}
      /\ \A i, j \in 1..Len(s) : s[i] = s[j] => i = j
  BY DEF ToSet, IsInjective
<1>1. ASSUME s # <<>>
      PROVE  /\ ToSet(Tail(s)) = ToSet(s) \ {Head(s)} /\ Head(s) \in ToSet(s)
             /\ IsInjective(Tail(s)) /\ Tail(s) \in Seq(S)
  <2>1. /\ Tail(s) \in Seq(S) /\ Len(Tail(s)) = Len(s) - 1 /\ Head(s) = s[1] /\ Len(s) \in Nat \ {0}
        /\ \A i \in 1..Len(Tail(s)) : Tail(s)[i] = s[i + 1]
    BY <1>1
  <2>a. ToSet(Tail(s)) = {Tail(s)[i] : i \in 1..Len(Tail(s))} /\ ToSet(s) = {s[i] : i \in 1..Len(s)}
    BY <1>0, <2>1
  <2>2. ToSet(Tail(s)) = {s[i + 1] : i \in 1..Len(Tail(s))} /\ ToSet(s) = {s[i] : i \in 1..Len(s)}
    BY ONLY <2>1, <2>a
  <2>3. 1 \in 1..Len(s) /\ Head(s) \in ToSet(s)
    BY <2>1, <2>2
  <2>4. ASSUME NEW x \in ToSet(Tail(s)) PROVE x \in ToSet(s) \ {Head(s)}
    <3>1. PICK i \in 1..Len(Tail(s)) : x = s[i + 1]
      BY <2>2
    <3>2. i + 1 \in 1..Len(s) /\ i + 1 # 1
      BY <2>1
    <3> QED  BY <1>0, <2>1, <2>2, <2>3, <3>1, <3>2
  <2>5. ASSUME NEW x \in ToSet(s) \ {Head(s)} PROVE x \in ToSet(Tail(s))
    <3>1. PICK i \in 1..Len(s) : x = s[i]
      BY <2>2
    <3>2. i # 1
      BY <2>1, <2>5, <3>1
    <3>3. i - 1 \in 1..Len(Tail(s)) /\ (i - 1) + 1 = i
      BY <2>1, <3>2
    <3> QED  BY <2>2, <3>1, <3>3
  <2>6. IsInjective(Tail(s))
    <3>1. ASSUME NEW i \in 1..Len(Tail(s)), NEW j \in 1..Len(Tail(s)), Tail(s)[i] = Tail(s)[j] PROVE i = j
      <4>1. i + 1 \in 1..Len(s) /\ j + 1 \in 1..Len(s) /\ s[i + 1] = s[j + 1]
        BY <2>1, <3>1
      <4>2. i + 1 = j + 1
        BY <1>0, <4>1
      <4> QED  BY <4>2
    <3>2. DOMAIN Tail(s) = 1..Len(Tail(s))
      BY <1>0, <2>1
    <3> QED  BY <3>1, <3>2 DEF IsInjective
  <2> QED  BY <2>1, <2>3, <2>4, <2>5, <2>6
<1>2. ASSUME NEW t \in Seq(S), IsInjective(t), ToSet(s) \cap ToSet(t) = {}
      PROVE  s \o t \in Seq(S) /\ ToSet(s \o t) = ToSet(s) \union ToSet(t) /\ IsInjective(s \o t)
  <2> DEFINE u == s \o t
             m == Len(s)
             n == Len(t)
  <2>1. /\ u \in Seq(S) /\ Len(u) = m + n /\ m \in Nat /\ n \in Nat
        /\ \A i \in 1..(m + n) : u[i] = IF i <= m THEN s[i] ELSE t[i - m]
    OBVIOUS
  <2>2. /\ ToSet(s) = {s[i] : i \in 1..m} /\ ToSet(t) = {t[i] : i \in 1..n} /\ ToSet(u) = {u[i] : i \in 1..(m + n)}
        /\ DOMAIN u = 1..(m + n) /\ DOMAIN t = 1..n
    BY <1>0, <2>1
  <2>a. \A i, j \in 1..n : t[i] = t[j] => i = j
    BY <1>2, <2>2 DEF IsInjective
  <2>b. \A i, j \in 1..m : s[i] = s[j] => i = j
    BY <1>0
  <2> HIDE DEF u, m, n
  <2>3. \A i \in 1..m : i \in 1..(m + n) /\ u[i] = s[i]
    BY <2>1
  <2>4. \A i \in 1..n : i + m \in 1..(m + n) /\ u[i + m] = t[i]
    BY <2>1
  <2>5. \A i \in 1..(m + n) : i \in 1..m \/ (i - m \in 1..n /\ i = (i - m) + m)
    BY <2>1
  <2>6. ASSUME NEW x \in ToSet(s) \union ToSet(t) PROVE x \in ToSet(u)
    BY <2>2, <2>3, <2>4
  <2>7. ASSUME NEW x \in ToSet(u) PROVE x \in ToSet(s) \union ToSet(t)
    BY <2>2, <2>3, <2>4, <2>5
  <2>8. ASSUME NEW i \in 1..(m + n), NEW j \in 1..(m + n), u[i] = u[j] PROVE i = j
    <3>1. \A k \in 1..m : u[k] \in ToSet(s)
      BY <2>2, <2>3
    <3>2. \A k \in 1..(m + n) : k - m \in 1..n => u[k] = t[k - m] /\ u[k] \in ToSet(t)
      BY <2>2, <2>4, <2>5, <2>1
    <3>3. CASE i \in 1..m /\ j \in 1..m
      BY <2>3, <2>8, <2>b, <3>3
    <3>4. CASE i - m \in 1..n /\ j - m \in 1..n
      <4>1. i - m = j - m
        BY <2>8, <2>a, <3>2, <3>4
      <4> QED  BY <2>1, <4>1
    <3> QED  BY <1>2, <2>5, <2>8, <3>1, <3>2, <3>3, <3>4
  <2>9. IsInjective(u)
    BY <2>2, <2>8 DEF IsInjective
  <2> QED  BY <2>1, <2>6, <2>7, <2>9 DEF u
<1>3. ASSUME NEW x \in S, x \notin ToSet(s)
      PROVE  /\ Append(s, x) \in Seq(S) /\ ToSet(Append(s, x)) = ToSet(s) \union {x}
             /\ IsInjective(Append(s, x))
  <2>1. <<x>> \in Seq(S) /\ ToSet(<<x>>) = {x} /\ IsInjective(<<x>>)
    BY DEF ToSet, IsInjective
  <2>2. Append(s, x) = s \o <<x>>
    OBVIOUS
  <2>3. ToSet(s) \cap ToSet(<<x>>) = {}
    BY <1>3, <2>1
  <2>4. s \o <<x>> \in Seq(S) /\ ToSet(s \o <<x>>) = ToSet(s) \union ToSet(<<x>>) /\ IsInjective(s \o <<x>>)
    BY ONLY <1>2, <2>1, <2>3
  <2> QED  BY ONLY <2>1, <2>2, <2>4
<1> QED  BY <1>1, <1>2, <1>3

\* Where the delayables of graph E have run as far as ran, and todo may run.
Open(E, ran, l) == {e \in E : e[2] = l /\ e[1] \notin ToSet(ran)}
Going(V, E, todo, ran, left) ==
  /\ V \subseteq Leaf /\ E \subseteq V \X V /\ left \in [V -> Nat]
  /\ todo \in Seq(V) /\ ran \in Seq(V) /\ IsInjective(todo) /\ IsInjective(ran)
  /\ ToSet(todo) \cap ToSet(ran) = {}
  /\ \A l \in V : left[l] = Cardinality(Open(E, ran, l))
  /\ \A l \in V : left[l] = 0 <=> l \in ToSet(todo) \union ToSet(ran)
  /\ \A i \in DOMAIN ran : \A e \in E : e[2] = ran[i] => \E j \in 1..(i - 1) : ran[j] = e[1]

\* The pairs of a graph are finite.
LEMMA OpenFinite ==
    ASSUME NEW V \in SUBSET Leaf, NEW E \in SUBSET (V \X V)
    PROVE  /\ IsFiniteSet(V)
           /\ \A ran, l : /\ IsFiniteSet(Open(E, ran, l)) /\ Cardinality(Open(E, ran, l)) \in Nat
                          /\ Cardinality(Open(E, ran, l)) = 0 <=> Open(E, ran, l) = {}
<1>1. IsFiniteSet(V)
  <2>1. IsFiniteSet(Leaf)
    BY FS_Interval, DelayablesAssumption DEF Leaf
  <2> QED  BY <2>1, FS_Subset
<1>2. IsFiniteSet(E)
  BY <1>1, FS_Product, FS_Subset
<1>3. ASSUME NEW ran, NEW l PROVE /\ IsFiniteSet(Open(E, ran, l)) /\ Cardinality(Open(E, ran, l)) \in Nat
                                  /\ Cardinality(Open(E, ran, l)) = 0 <=> Open(E, ran, l) = {}
  <2>1. Open(E, ran, l) \subseteq E
    BY DEF Open
  <2>2. IsFiniteSet(Open(E, ran, l))
    BY <1>2, <2>1, FS_Subset
  <2> QED  BY <2>2, FS_CardinalityType, FS_EmptySet
<1> QED  BY <1>1, <1>3

\* The next one runs, and those that waited only for it are free.
LEMMA GoesOn ==
    ASSUME NEW V, NEW E, NEW todo, NEW ran, NEW left, Going(V, E, todo, ran, left), todo # <<>>,
           NEW v, v = Head(todo), NEW children, children = {e[2] : e \in {d \in E : d[1] = v}},
           NEW left2, left2 = [l \in DOMAIN left |-> IF l \in children THEN left[l] - 1 ELSE left[l]],
           NEW order \in SetToSeqs(Free(left2, children))
    PROVE  Going(V, E, Tail(todo) \o order, Append(ran, v), left2)
<1>1. /\ V \subseteq Leaf /\ E \subseteq V \X V /\ left \in [V -> Nat] /\ DOMAIN left = V
      /\ todo \in Seq(V) /\ ran \in Seq(V) /\ IsInjective(todo) /\ IsInjective(ran)
      /\ ToSet(todo) \cap ToSet(ran) = {}
  BY DEF Going
<1>2. \A l \in V : left[l] = Cardinality(Open(E, ran, l)) /\ (left[l] = 0 <=> l \in ToSet(todo) \union ToSet(ran))
  BY DEF Going
<1>3. \A i \in DOMAIN ran : \A e \in E : e[2] = ran[i] => \E j \in 1..(i - 1) : ran[j] = e[1]
  BY DEF Going
<1>4. /\ ToSet(Tail(todo)) = ToSet(todo) \ {v} /\ v \in ToSet(todo) /\ IsInjective(Tail(todo)) /\ Tail(todo) \in Seq(V)
  BY <1>1, Repeatless
<1>5. v \in V /\ v \notin ToSet(ran) /\ left[v] = 0
  <2>1. Head(todo) \in V
    BY <1>1
  <2> QED  BY <1>1, <1>2, <1>4, <2>1
<1>6. /\ Append(ran, v) \in Seq(V) /\ ToSet(Append(ran, v)) = ToSet(ran) \union {v} /\ IsInjective(Append(ran, v))
  BY <1>1, <1>5, Repeatless
<1> DEFINE ran2 == Append(ran, v)
<1>7. \A k, l : IsFiniteSet(Open(E, k, l)) /\ Cardinality(Open(E, k, l)) \in Nat /\ (Cardinality(Open(E, k, l)) = 0 <=> Open(E, k, l) = {})
  BY <1>1, OpenFinite
<1>8. \A l \in V : l \in children <=> <<v, l>> \in E
  <2>1. \A e \in E : e = <<e[1], e[2]>>
    BY <1>1
  <2>2. children = {e[2] : e \in {d \in E : d[1] = v}}
    OBVIOUS
  <2>3. ASSUME NEW l \in V, l \in children PROVE <<v, l>> \in E
    <3>1. PICK e \in E : e[1] = v /\ e[2] = l
      BY <2>2, <2>3
    <3> QED  BY <2>1, <3>1
  <2>4. ASSUME NEW l \in V, <<v, l>> \in E PROVE l \in children
    <3>1. <<v, l>>[1] = v /\ <<v, l>>[2] = l
      OBVIOUS
    <3> QED  BY <2>2, <2>4, <3>1
  <2> QED  BY <2>3, <2>4
<1>9. children \subseteq V
  BY <1>1
<1>10. ASSUME NEW l \in V PROVE /\ Open(E, ran2, l) = Open(E, ran, l) \ {<<v, l>>}
                                /\ <<v, l>> \in Open(E, ran, l) <=> l \in children
  <2>1. \A e \in E : e = <<e[1], e[2]>>
    BY <1>1
  <2>2. \A e \in E : e[2] = l => (e = <<v, l>> <=> e[1] = v)
    BY <2>1
  <2>3. <<v, l>>[1] = v /\ <<v, l>>[2] = l
    OBVIOUS
  <2> HIDE DEF ran2
  <2>4. ToSet(ran2) = ToSet(ran) \union {v}
    BY <1>6 DEF ran2
  <2>5. Open(E, ran2, l) = Open(E, ran, l) \ {<<v, l>>}
    BY ONLY <2>2, <2>3, <2>4 DEF Open
  <2> QED  BY <1>5, <1>8, <2>3, <2>5 DEF Open
<1>11. \A l \in V : left2[l] = Cardinality(Open(E, ran2, l))
  <2>1. ASSUME NEW l \in V PROVE left2[l] = Cardinality(Open(E, ran2, l))
    <3>1. Cardinality(Open(E, ran, l) \ {<<v, l>>}) = IF l \in children THEN Cardinality(Open(E, ran, l)) - 1 ELSE Cardinality(Open(E, ran, l))
      BY <1>7, <1>10, FS_RemoveElement
    <3>2. left2[l] = IF l \in children THEN left[l] - 1 ELSE left[l]
      BY <1>1
    <3> QED  BY <1>2, <1>10, <3>1, <3>2
  <2> QED  BY <2>1
<1>12. left2 \in [V -> Nat]
  <2>1. \A l \in V : left2[l] \in Nat
    BY <1>7, <1>11
  <2> QED  BY <1>1, <2>1
<1>13. \A l \in children : left[l] # 0 /\ l \in V
  <2>1. ASSUME NEW l \in children PROVE left[l] # 0 /\ l \in V
    <3>1. l \in V /\ Open(E, ran, l) # {}
      BY <1>9, <1>10
    <3> QED  BY <1>2, <1>7, <3>1
  <2> QED  BY <2>1
<1>14. \A l \in V : left2[l] = IF l \in children THEN left[l] - 1 ELSE left[l]
  BY <1>1
<1> HIDE DEF ran2
<1>15. IsFiniteSet(Free(left2, children)) /\ Free(left2, children) = {l \in children : left2[l] = 0}
  <2>1. Free(left2, children) \subseteq V
    BY <1>9 DEF Free
  <2> QED  BY <1>1, <2>1, OpenFinite, FS_Subset DEF Free
<1>16. order \in Seq(Free(left2, children)) /\ ToSet(order) = {l \in children : left2[l] = 0} /\ IsInjective(order)
  BY <1>15, Enumerated
<1>17. order \in Seq(V)
  BY <1>9, <1>15, <1>16
<1>18. ToSet(Tail(todo)) \cap ToSet(order) = {}
  BY <1>1, <1>2, <1>4, <1>13, <1>16
<1> DEFINE todo2 == Tail(todo) \o order
<1>19. todo2 \in Seq(V) /\ ToSet(todo2) = (ToSet(todo) \ {v}) \union {l \in children : left2[l] = 0} /\ IsInjective(todo2)
  <2>1. todo2 \in Seq(V) /\ ToSet(todo2) = ToSet(Tail(todo)) \union ToSet(order) /\ IsInjective(todo2)
    BY <1>4, <1>16, <1>17, <1>18, Repeatless
  <2> QED  BY <1>4, <1>16, <2>1
<1> HIDE DEF todo2
<1>20. ToSet(ran2) = ToSet(ran) \union {v} /\ ran2 \in Seq(V) /\ IsInjective(ran2)
  BY <1>6 DEF ran2
<1>21. ToSet(todo2) \cap ToSet(ran2) = {}
  BY <1>1, <1>2, <1>5, <1>13, <1>19, <1>20
<1>22. \A l \in V : left2[l] = 0 <=> l \in ToSet(todo2) \union ToSet(ran2)
  <2>1. ASSUME NEW l \in V PROVE left2[l] = 0 <=> l \in ToSet(todo2) \union ToSet(ran2)
    <3>1. CASE l \in children
      <4>1. left[l] # 0 /\ l \notin ToSet(todo) \union ToSet(ran) /\ l # v
        BY <1>2, <1>5, <1>13, <3>1
      <4> QED  BY <1>19, <1>20, <3>1, <4>1
    <3>2. CASE l \notin children
      <4>1. left2[l] = left[l]
        BY <1>14, <3>2
      <4> QED  BY <1>2, <1>4, <1>19, <1>20, <3>2, <4>1
    <3> QED  BY <3>1, <3>2
  <2> QED  BY <2>1
<1>23. ASSUME NEW i \in DOMAIN ran2, NEW e \in E, e[2] = ran2[i] PROVE \E j \in 1..(i - 1) : ran2[j] = e[1]
  <2>1. /\ DOMAIN ran2 = 1..(Len(ran) + 1) /\ Len(ran) \in Nat /\ DOMAIN ran = 1..Len(ran)
        /\ (\A k \in 1..Len(ran) : ran2[k] = ran[k]) /\ ran2[Len(ran) + 1] = v
    BY <1>1 DEF ran2
  <2>2. CASE i \in 1..Len(ran)
    <3>1. PICK j \in 1..(i - 1) : ran[j] = e[1]
      BY <1>3, <1>23, <2>1, <2>2
    <3>2. j \in 1..Len(ran)
      BY <2>1, <2>2
    <3> QED  BY <2>1, <3>1, <3>2
  <2>3. CASE i = Len(ran) + 1
    <3>1. e[2] = v
      BY <1>23, <2>1, <2>3
    <3>2. Open(E, ran, v) = {}
      BY <1>2, <1>5, <1>7
    <3>3. e[1] \in ToSet(ran)
      BY <3>1, <3>2 DEF Open
    <3>4. PICK j \in 1..Len(ran) : ran[j] = e[1]
      BY <2>1, <3>3 DEF ToSet
    <3>5. j \in 1..(i - 1)
      BY <2>1, <2>3
    <3> QED  BY <2>1, <3>4, <3>5
  <2> QED  BY <1>23, <2>1, <2>2, <2>3
<1>24. Going(V, E, todo2, ran2, left2)
  BY <1>1, <1>11, <1>12, <1>19, <1>20, <1>21, <1>22, <1>23 DEF Going
<1> QED  BY <1>24 DEF todo2, ran2

\* At the start those nothing comes before may run.
LEMMA Starts ==
    ASSUME NEW V \in SUBSET Leaf, NEW E \in SUBSET (V \X V), NEW order \in SetToSeqs(Roots(V, E)),
           NEW left, left = [l \in V |-> Cardinality({e \in E : e[2] = l})]
    PROVE  Going(V, E, order, <<>>, left)
<1>1. /\ IsFiniteSet(V)
      /\ \A ran, l : /\ IsFiniteSet(Open(E, ran, l)) /\ Cardinality(Open(E, ran, l)) \in Nat
                     /\ Cardinality(Open(E, ran, l)) = 0 <=> Open(E, ran, l) = {}
  BY OpenFinite
<1>2. <<>> \in Seq(V) /\ ToSet(<<>>) = {} /\ DOMAIN <<>> = {} /\ IsInjective(<<>>)
  BY DEF ToSet, IsInjective
<1>3. \A l \in V : Open(E, <<>>, l) = {e \in E : e[2] = l}
  BY <1>2 DEF Open
<1>4. \A l \in V : left[l] = Cardinality(Open(E, <<>>, l))
  BY <1>3
<1>5. left \in [V -> Nat]
  <2>1. \A l \in V : left[l] \in Nat
    BY <1>1, <1>4
  <2> QED  BY <2>1
<1>6. Roots(V, E) \subseteq V /\ IsFiniteSet(Roots(V, E))
  <2>1. Roots(V, E) \subseteq V
    BY DEF Roots
  <2> QED  BY <1>1, <2>1, FS_Subset
<1>7. order \in Seq(Roots(V, E)) /\ ToSet(order) = Roots(V, E) /\ IsInjective(order)
  BY <1>6, Enumerated
<1>8. order \in Seq(V)
  BY <1>6, <1>7
<1>9. \A l \in V : left[l] = 0 <=> l \in ToSet(order) \union ToSet(<<>>)
  <2>1. ASSUME NEW l \in V PROVE left[l] = 0 <=> l \in ToSet(order) \union ToSet(<<>>)
    <3>1. left[l] = 0 <=> {e \in E : e[2] = l} = {}
      BY <1>1, <1>3, <1>4
    <3>2. {e \in E : e[2] = l} = {} <=> l \in Roots(V, E)
      BY DEF Roots
    <3> QED  BY <1>2, <1>7, <3>1, <3>2
  <2> QED  BY <2>1
<1> QED  BY <1>2, <1>4, <1>5, <1>7, <1>8, <1>9 DEF Going

\* So the jobs run in order, and all but those that wait for themselves.
LEMMA GoingFacts ==
    ASSUME NEW V, NEW E, NEW todo, NEW ran, NEW left, Going(V, E, todo, ran, left),
           todo = <<>>, ToSet(ran) # DOMAIN left
    PROVE  \E l \in Leaf : l \in After(E, l)
<1>1. /\ V \subseteq Leaf /\ E \subseteq V \X V /\ left \in [V -> Nat] /\ DOMAIN left = V
      /\ \A l \in V : left[l] = Cardinality(Open(E, ran, l)) /\ (left[l] = 0 <=> l \in ToSet(todo) \union ToSet(ran))
  BY DEF Going
<1>2. ToSet(todo) = {} /\ ToSet(ran) \subseteq V
  <2>1. ran \in Seq(V)
    BY DEF Going
  <2>2. \A i \in DOMAIN ran : ran[i] \in V
    BY <2>1
  <2> QED  BY <2>2 DEF ToSet
<1> DEFINE U == V \ ToSet(ran)
<1>3. U # {} /\ U \in SUBSET Leaf /\ E \in SUBSET (Leaf \X Leaf)
  BY <1>1, <1>2
<1>4. ASSUME NEW u \in U PROVE \E p \in U : <<p, u>> \in E
  <2>1. Cardinality(Open(E, ran, u)) # 0
    BY <1>1, <1>2
  <2>2. Open(E, ran, u) # {}
    <3>1. Cardinality(Open(E, ran, u)) = 0 <=> Open(E, ran, u) = {}
      BY <1>1, OpenFinite
    <3> QED  BY <2>1, <3>1
  <2>3. PICK e \in E : e[2] = u /\ e[1] \notin ToSet(ran)
    BY <2>2 DEF Open
  <2>4. e = <<e[1], e[2]>> /\ e[1] \in V
    BY <1>1
  <2> QED  BY <2>3, <2>4
<1> HIDE DEF U
<1> QED  BY ONLY <1>3, <1>4, Cycle

\* The graph of an object joins jobs it reaches, whatever the nesting.
LEMMA EdgesFacts ==
    ASSUME MadeOK, NEW x \in Objects
    PROVE  Vertices(x) \in SUBSET Leaf /\ Edges(x) \in SUBSET (Vertices(x) \X Vertices(x))
<1> DEFINE N == Leaves + Len(made)
           W == Visited(x)
           K == {n \in 0..N : \A y \in W : y <= n => HeadTail[y].head \union HeadTail[y].tail \subseteq W}
<1>0. N \in Nat /\ Objects = 1..N
  BY PartsFacts DEF Objects
<1>1. W \subseteq Objects /\ \A y \in W : OwnVertices(y) \subseteq W
  BY VisitedFacts
<1>2. \A y \in W : ToSet(Parts(y)) \subseteq W /\ Called(y) \subseteq W
  BY <1>1 DEF OwnVertices
<1>3. ASSUME NEW y \in Objects
      PROVE  /\ KindOf(y) \in {"job", "chain", "group"} /\ (KindOf(y) = "job" <=> y \in Leaf)
             /\ y \notin Leaf => \A p \in ToSet(Parts(y)) : p < y
             /\ Head(Parts(y)) \in ToSet(Parts(y)) /\ Last(Parts(y)) \in ToSet(Parts(y))
             /\ \A i \in 1..Len(Parts(y)) : Parts(y)[i] \in ToSet(Parts(y))
             /\ Len(Parts(y)) \in Nat
  <2>1. /\ KindOf(y) \in {"job", "chain", "group"} /\ (KindOf(y) = "job" <=> y \in Leaf)
        /\ (y \notin Leaf => \A p \in ToSet(Parts(y)) : p < y)
        /\ Len(Parts(y)) \in Nat \ {0} /\ ToSet(Parts(y)) = {Parts(y)[i] : i \in 1..Len(Parts(y))}
    BY PartsFacts
  <2>2. Head(Parts(y)) = Parts(y)[1] /\ Last(Parts(y)) = Parts(y)[Len(Parts(y))]
    BY DEF Last
  <2> QED  BY <2>1, <2>2
<1>4. 0 \in K
  BY <1>0, <1>1
<1>5. ASSUME NEW n \in 0..N, n # N, n \in K PROVE n + 1 \in K
  <2>1. ASSUME NEW y \in W, y <= n + 1 PROVE HeadTail[y].head \union HeadTail[y].tail \subseteq W
    <3>1. y \in Objects /\ HeadTail[y] = HeadTailOf(y, HeadTail)
      BY <1>1, HeadTailFacts
    <3>2. ASSUME y \notin Leaf, NEW p \in ToSet(Parts(y)) PROVE HeadTail[p].head \subseteq W /\ HeadTail[p].tail \subseteq W
      <4>1. p \in W /\ p < y
        BY <1>2, <1>3, <3>1, <3>2
      <4>2. p <= n
        BY <1>0, <1>1, <1>5, <2>1, <4>1
      <4> QED  BY <1>5, <4>1, <4>2
    <3>3. CASE KindOf(y) = "job"
      <4>1. HeadTail[y] = [head |-> {y}, tail |-> {y}]
        BY ONLY <3>1, <3>3 DEF HeadTailOf
      <4> QED  BY <4>1
    <3>4. CASE KindOf(y) = "group"
      <4>1. HeadTail[y] = [head |-> UNION {HeadTail[p].head : p \in ToSet(Parts(y))},
                           tail |-> UNION {HeadTail[p].tail : p \in ToSet(Parts(y))}]
        BY ONLY <3>1, <3>4 DEF HeadTailOf
      <4>2. \A p \in ToSet(Parts(y)) : HeadTail[p].head \subseteq W /\ HeadTail[p].tail \subseteq W
        BY <1>3, <3>1, <3>2, <3>4
      <4> HIDE DEF W
      <4> QED  BY ONLY <4>1, <4>2
    <3>5. CASE KindOf(y) = "chain"
      <4>1. HeadTail[y] = [head |-> HeadTail[Head(Parts(y))].tail, tail |-> HeadTail[Last(Parts(y))].head]
        BY ONLY <3>1, <3>5 DEF HeadTailOf
      <4>2. HeadTail[Head(Parts(y))].tail \subseteq W /\ HeadTail[Last(Parts(y))].head \subseteq W
        BY <1>3, <3>1, <3>2, <3>5
      <4> HIDE DEF W
      <4> QED  BY ONLY <4>1, <4>2
    <3> QED  BY <1>3, <3>1, <3>3, <3>4, <3>5
  <2>2. n + 1 \in 0..N
    BY <1>0, <1>5
  <2> QED  BY <2>1, <2>2
<1> HIDE DEF K
<1>6. N \in K
  <2>1. 0..N \subseteq K
    <3> HIDE DEF N
    <3> QED  BY <1>0, <1>4, <1>5, UpTo
  <2> QED  BY <1>0, <2>1
<1>7. \A y \in W : HeadTail[y].head \subseteq W \cap Leaf /\ HeadTail[y].tail \subseteq W \cap Leaf
  <2>1. ASSUME NEW y \in W PROVE HeadTail[y].head \subseteq W \cap Leaf /\ HeadTail[y].tail \subseteq W \cap Leaf
    <3>1. y \in Objects /\ y <= N
      BY <1>0, <1>1
    <3>2. HeadTail[y].head \union HeadTail[y].tail \subseteq W
      BY <1>6, <3>1 DEF K
    <3>3. HeadTail[y].head \subseteq Leaf /\ HeadTail[y].tail \subseteq Leaf
      BY <3>1, HeadTailFacts DEF Sides
    <3> QED  BY <3>2, <3>3
  <2> QED  BY <2>1
<1>8. ASSUME NEW y \in W, NEW e \in OwnEdges(y) PROVE e[1] \in W /\ e[2] \in W
  <2>1. y \in Objects
    BY <1>1
  <2>2. \A i \in 1..Len(Parts(y)) : Parts(y)[i] \in W
    BY <1>2, <1>3, <2>1
  <2>3. Ends(y) \subseteq W
    BY <1>2, <1>3, <2>1 DEF Ends
  <2>4. CASE e \in Ends(y) \X Called(y)
    BY <1>2, <2>3, <2>4
  <2>5. CASE e \in {<<Parts(y)[i], Parts(y)[i + 1]>> : i \in 1..(Len(Parts(y)) - 1)}
    <3>1. PICK i \in 1..(Len(Parts(y)) - 1) : e = <<Parts(y)[i], Parts(y)[i + 1]>>
      BY <2>5
    <3>2. i \in 1..Len(Parts(y)) /\ i + 1 \in 1..Len(Parts(y))
      BY <1>3, <2>1
    <3> QED  BY <2>2, <3>1, <3>2
  <2> QED  BY <1>8, <2>4, <2>5 DEF OwnEdges
<1> DEFINE V == W \cap Leaf
<1>9. ASSUME NEW d \in Edges(x) PROVE d \in V \X V
  <2>1. PICK y \in W : \E e \in OwnEdges(y) : d \in HeadTail[e[1]].tail \X HeadTail[e[2]].head
    BY <1>9 DEF Edges, MergedEdges
  <2>a. PICK e \in OwnEdges(y) : d \in HeadTail[e[1]].tail \X HeadTail[e[2]].head
    BY <2>1
  <2>2. HeadTail[e[1]].tail \subseteq V /\ HeadTail[e[2]].head \subseteq V
    BY <1>7, <1>8
  <2> HIDE DEF V
  <2> QED  BY <2>a, <2>2
<1>10. V = Vertices(x)
  BY DEF Vertices
<1> QED  BY <1>9, <1>10

-----------------------------------------------------------------------------
Running ==
  phase = "direct" =>
    /\ direct = [todo |-> direct.todo, graph |-> direct.graph, ran |-> direct.ran, left |-> direct.left]
    /\ Going(DOMAIN direct.left, direct.graph, direct.todo, direct.ran, direct.left)
DelayInv == MadeOK /\ Stored /\ Running /\ phase \in {"building", "delayed", "direct"}

\* The graphs do not change but with the objects and their connections.
LEMMA Frozen ==
    ASSUME UNCHANGED <<made, arrows>>
    PROVE  /\ MadeOK' = MadeOK /\ Objects' = Objects
           /\ \A x : (Vertices(x))' = Vertices(x) /\ (Edges(x))' = Edges(x)
<1>1. Objects' = Objects
  BY DEF Objects
<1>2. MadeOK' = MadeOK
  BY <1>1 DEF MadeOK
<1>3. HeadTail' = HeadTail
  BY SMT DEF HeadTail, KindOf, Parts, Called, Leaf, Objects
<1>4. ASSUME NEW CONSTANT x PROVE (Visited(x))' = Visited(x)
  BY SMT DEF Visited, OwnVertices, Parts, Called, Leaf, Objects
<1>5. ASSUME NEW CONSTANT x PROVE (OwnEdges(x))' = OwnEdges(x)
  BY DEF OwnEdges, KindOf, Parts, Called, Ends
<1>6. ASSUME NEW CONSTANT x PROVE (MergedEdges(x))' = MergedEdges(x)
  BY <1>3, <1>5 DEF MergedEdges
<1>7. ASSUME NEW CONSTANT x PROVE (Edges(x))' = Edges(x)
  BY <1>4, <1>6 DEF Edges
<1>8. ASSUME NEW CONSTANT x PROVE (Vertices(x))' = Vertices(x)
  BY <1>4 DEF Vertices
<1> QED  BY <1>1, <1>2, <1>7, <1>8

\* Nothing is made, stored or run yet.
LEMMA DelayStarts ==
    ASSUME DelayInit
    PROVE  DelayInv
<1>1. made = <<>> /\ arrows = {} /\ phase = "building"
  BY DEF DelayInit
<1>2. <<>> \in Seq([kind : {"chain", "group"}, parts : Seq(Nat)]) /\ DOMAIN <<>> = {}
  OBVIOUS
<1>3. MadeOK
  BY <1>1, <1>2 DEF MadeOK
<1> QED  BY <1>1, <1>3 DEF DelayInv, Stored, Running

\* A chain or a group is made of objects made before it.
LEMMA MakeKeeps ==
    ASSUME DelayInv, NEW k \in 2..3, NEW parts \in [1..k -> Objects], NEW kind \in {"chain", "group"}, Make(kind, parts)
    PROVE  DelayInv'
<1>1. MadeOK
  BY DEF DelayInv
<1>2. /\ made' = Append(made, [kind |-> kind, parts |-> parts])
      /\ arrows' = arrows /\ phase = "building" /\ phase' = phase
  BY DEF Make
<1> DEFINE T == [kind : {"chain", "group"}, parts : Seq(Nat)]
           new == [kind |-> kind, parts |-> parts]
           n == Len(made)
<1>3. made \in Seq(T) /\ n \in Nat /\ Leaves \in Nat \ {0} /\ arrows \subseteq Objects \X Objects
  BY <1>1, DelayablesAssumption DEF MadeOK
<1>4. Objects = 1..(Leaves + n)
  BY DEF Objects
<1>5. parts \in Seq(Nat) /\ parts # <<>> /\ \A p \in ToSet(parts) : p \in 1..(Leaves + n)
  <2>1. parts \in [1..k -> Nat]
    BY <1>3, <1>4
  <2>2. parts \in Seq(Nat) /\ Len(parts) = k
    BY <2>1
  <2>3. ToSet(parts) = {parts[i] : i \in 1..k}
    BY <2>1 DEF ToSet
  <2> QED  BY <1>4, <2>2, <2>3
<1>6. new \in T
  BY <1>5
<1> HIDE DEF T, new, n
<1>7. /\ made' \in Seq(T) /\ Len(made') = n + 1 /\ DOMAIN made' = 1..(n + 1)
      /\ made'[n + 1] = new /\ \A i \in 1..n : made'[i] = made[i]
  BY <1>2, <1>3, <1>6 DEF new, n
<1>8. \A i \in 1..n : made[i].parts # <<>> /\ \A p \in ToSet(made[i].parts) : p \in 1..(Leaves + i - 1)
  <2>1. DOMAIN made = 1..n
    BY <1>3 DEF n
  <2>2. \A i \in DOMAIN made : made[i].parts # <<>> /\ \A p \in ToSet(made[i].parts) : p \in 1..(Leaves + i - 1)
    BY <1>1 DEF MadeOK
  <2> QED  BY ONLY <2>1, <2>2
<1>9. \A i \in DOMAIN made' : made'[i].parts # <<>> /\ \A p \in ToSet(made'[i].parts) : p \in 1..(Leaves + i - 1)
  <2>1. ASSUME NEW i \in 1..(n + 1) PROVE made'[i].parts # <<>> /\ \A p \in ToSet(made'[i].parts) : p \in 1..(Leaves + i - 1)
    <3>1. CASE i = n + 1
      <4>1. made'[i].parts = parts /\ Leaves + i - 1 = Leaves + n
        BY <1>3, <1>7, <3>1 DEF new
      <4> QED  BY <1>5, <4>1
    <3>2. CASE i # n + 1
      <4>1. i \in 1..n
        BY <1>3, <3>2
      <4> QED  BY <1>7, <1>8, <4>1
    <3> QED  BY <3>1, <3>2
  <2> QED  BY <1>7, <2>1
<1>10. Objects' = 1..(Leaves + n + 1)
  BY <1>3, <1>7 DEF Objects
<1>11. arrows' \subseteq Objects' \X Objects'
  <2>1. Objects \subseteq Objects'
    BY <1>3, <1>4, <1>10
  <2> QED  BY <1>2, <1>3, <2>1
<1>12. MadeOK'
  BY <1>7, <1>9, <1>11 DEF MadeOK, T
<1> QED  BY <1>2, <1>12 DEF DelayInv, Stored, Running

\* An object is connected to another.
LEMMA OnDoneKeeps ==
    ASSUME DelayInv, NEW x \in Objects, NEW y \in Objects, OnDone(x, y)
    PROVE  DelayInv'
<1>1. /\ arrows' = arrows \union {<<x, y>>} /\ made' = made /\ phase = "building" /\ phase' = phase /\ MadeOK
  BY DEF OnDone, DelayInv
<1>2. Objects' = Objects
  BY <1>1 DEF Objects
<1>3. MadeOK'
  BY <1>1, <1>2 DEF MadeOK
<1> QED  BY <1>1, <1>3 DEF DelayInv, Stored, Running

\* The jobs of an object are stored, or none is.
LEMMA DelayGraphKeeps ==
    ASSUME DelayInv, NEW x \in Objects, DelayGraph(x)
    PROVE  DelayInv'
<1>1. phase' = "delayed" /\ root' = x /\ UNCHANGED <<made, arrows>> /\ MadeOK
  BY DEF DelayGraph, DelayInv
<1>2. \/ jobs' = <<>>
      \/ jobs' = [l \in Vertices(x) |-> {e[1] : e \in {d \in Edges(x) : d[2] = l}}]
  BY DEF DelayGraph
<1>3. MadeOK' /\ Objects' = Objects /\ (Vertices(root))' = Vertices(x) /\ (Edges(root))' = Edges(x)
  BY <1>1, Frozen
<1>4. Stored'
  BY <1>1, <1>2, <1>3 DEF Stored
<1> QED  BY <1>1, <1>3, <1>4 DEF DelayInv, Running

\* The jobs of an object are to run at once.
LEMMA DelayDirectKeeps ==
    ASSUME DelayInv, NEW x \in Objects, DelayDirect(x)
    PROVE  DelayInv'
<1>1. phase' = "direct" /\ UNCHANGED <<made, arrows>> /\ MadeOK
  BY DEF DelayDirect, DelayInv
<1>2. MadeOK'
  BY <1>1, Frozen
<1> DEFINE V == Vertices(x)
           E == Edges(x)
           left == [l \in V |-> Cardinality({e \in E : e[2] = l})]
<1>3. V \in SUBSET Leaf /\ E \in SUBSET (V \X V)
  BY <1>1, EdgesFacts
<1>4. PICK order \in SetToSeqs(Roots(V, E)) : direct' = [todo |-> order, graph |-> E, ran |-> <<>>, left |-> left]
  BY DEF DelayDirect
<1>5. DOMAIN left = V
  OBVIOUS
<1> DEFINE f == left
<1>6. f = [l \in V |-> Cardinality({e \in E : e[2] = l})]
  OBVIOUS
<1> HIDE DEF V, E, f
<1>7. Going(V, E, order, <<>>, f)
  BY <1>3, <1>6, Starts
<1>8. direct' = [todo |-> order, graph |-> E, ran |-> <<>>, left |-> f] /\ DOMAIN f = V
  BY <1>4, <1>5 DEF f
<1>9. Running'
  BY <1>7, <1>8 DEF Running
<1> QED  BY <1>1, <1>2, <1>9 DEF DelayInv, Stored

\* One more of them runs.
LEMMA RunNextKeeps ==
    ASSUME DelayInv, RunNext
    PROVE  DelayInv'
<1>1. phase = "direct" /\ phase' = phase /\ UNCHANGED <<made, arrows>> /\ MadeOK /\ direct.todo # <<>>
  BY DEF RunNext, DelayInv
<1>2. MadeOK'
  BY <1>1, Frozen
<1> DEFINE v == Head(direct.todo)
           children == {e[2] : e \in {d \in direct.graph : d[1] = v}}
           left == [l \in DOMAIN direct.left |-> IF l \in children THEN direct.left[l] - 1 ELSE direct.left[l]]
<1>3. PICK order \in SetToSeqs(Free(left, children)) :
        direct' = [direct EXCEPT !.todo = Tail(@) \o order, !.left = left, !.ran = Append(@, v)]
  BY DEF RunNext
<1>4. /\ direct = [todo |-> direct.todo, graph |-> direct.graph, ran |-> direct.ran, left |-> direct.left]
      /\ Going(DOMAIN direct.left, direct.graph, direct.todo, direct.ran, direct.left)
  BY <1>1 DEF DelayInv, Running
<1>5. DOMAIN left = DOMAIN direct.left
  OBVIOUS
<1> DEFINE u == v
           cs == children
           f == left
<1>6. /\ u = Head(direct.todo) /\ cs = {e[2] : e \in {d \in direct.graph : d[1] = u}}
      /\ f = [l \in DOMAIN direct.left |-> IF l \in cs THEN direct.left[l] - 1 ELSE direct.left[l]]
      /\ order \in SetToSeqs(Free(f, cs)) /\ DOMAIN f = DOMAIN direct.left
  BY <1>3, <1>5
<1>7. direct' = [direct EXCEPT !.todo = Tail(@) \o order, !.left = f, !.ran = Append(@, u)]
  BY <1>3
<1> HIDE DEF u, cs, f
<1>8. direct' = [todo |-> Tail(direct.todo) \o order, graph |-> direct.graph, ran |-> Append(direct.ran, u), left |-> f]
  BY ONLY <1>4, <1>7
<1>9. Going(DOMAIN direct.left, direct.graph, Tail(direct.todo) \o order, Append(direct.ran, u), f)
  BY ONLY <1>1, <1>4, <1>6, GoesOn
<1>10. Running'
  BY <1>6, <1>8, <1>9 DEF Running
<1> QED  BY <1>1, <1>2, <1>10 DEF DelayInv, Stored

\* Nothing happens.
LEMMA DelayRests ==
    ASSUME DelayInv, UNCHANGED delay_vars
    PROVE  DelayInv'
<1>1. UNCHANGED <<made, arrows, jobs, direct, root, phase>>
  BY DEF delay_vars
<1>2. MadeOK' = MadeOK /\ Objects' = Objects /\ (Vertices(root))' = Vertices(root) /\ (Edges(root))' = Edges(root)
  BY <1>1, Frozen
<1>3. Stored'
  BY <1>1, <1>2 DEF DelayInv, Stored
<1>4. Running'
  BY <1>1 DEF DelayInv, Running
<1> QED  BY <1>1, <1>2, <1>3, <1>4 DEF DelayInv

\* Run at once, the jobs run in the order of the graph.
LEMMA RunFacts ==
    ASSUME Running
    PROVE  RunsInOrder
<1> SUFFICES ASSUME phase = "direct" PROVE RunsInOrder
  BY DEF RunsInOrder
<1> DEFINE todo == direct.todo
           ran == direct.ran
           E == direct.graph
           left == direct.left
           V == DOMAIN left
<1>1. Going(V, E, todo, ran, left)
  BY DEF Running
<1> HIDE DEF todo, ran, E, left, V
<1>2. IsInjective(ran) /\ \A i \in DOMAIN ran : \A e \in E : e[2] = ran[i] => \E j \in 1..(i - 1) : ran[j] = e[1]
  BY <1>1 DEF Going
<1>3. todo = <<>> /\ ToSet(ran) # DOMAIN left => \E l \in Leaf : l \in After(E, l)
  BY <1>1, GoingFacts
<1> QED  BY <1>2, <1>3 DEF RunsInOrder, todo, ran, E, left

\* Stored with their dependencies, the jobs wait for those the program put before them,
\* however chains and groups nest, if only no chain begins or ends with a chain; run at once,
\* they run in the order of their graph, however they nest: for every number of delayables,
\* objects and connections, whatever object is delayed (queue_job/delay.py).
THEOREM JobsKeepOrder == DelaySpec => []JobsInOrder
<1>1. DelayInit => DelayInv
  BY DelayStarts
<1>2. DelayInv /\ [DelayNext]_delay_vars => DelayInv'
  <2> SUFFICES ASSUME DelayInv, [DelayNext]_delay_vars PROVE DelayInv'
    OBVIOUS
  <2>1. ASSUME NEW k \in 2..3, NEW parts \in [1..k -> Objects], Chain(parts) PROVE DelayInv'
    BY <2>1, MakeKeeps DEF Chain
  <2>2. ASSUME NEW k \in 2..3, NEW parts \in [1..k -> Objects], Group(parts) PROVE DelayInv'
    <3>1. Len(parts) = k
      BY <2>2
    <3>2. 1 \in 1..(Len(parts) - 1)
      BY <3>1
    <3>3. Make("group", parts)
      BY <2>2, <3>2 DEF Group
    <3> QED  BY <3>3, MakeKeeps
  <2>3. ASSUME NEW x \in Objects, NEW y \in Objects, OnDone(x, y) PROVE DelayInv'
    BY <2>3, OnDoneKeeps
  <2>4. ASSUME NEW x \in Objects, DelayGraph(x) PROVE DelayInv'
    BY <2>4, DelayGraphKeeps
  <2>5. ASSUME NEW x \in Objects, DelayDirect(x) PROVE DelayInv'
    BY <2>5, DelayDirectKeeps
  <2>6. CASE RunNext
    BY <2>6, RunNextKeeps
  <2>7. CASE UNCHANGED delay_vars
    BY <2>7, DelayRests
  <2> QED  BY <2>1, <2>2, <2>3, <2>4, <2>5, <2>6, <2>7 DEF DelayNext
<1>3. DelayInv => JobsInOrder
  BY StoredFacts, RunFacts DEF DelayInv, JobsInOrder
<1> QED  BY <1>1, <1>2, <1>3, PTL DEF DelaySpec
=============================================================================
