------------------------------ MODULE Channels ------------------------------
(***************************************************************************)
(* The channels of the job runner (queue_job/jobrunner/channels.py): a tree *)
(* in which a job waits in the queue of its own channel, runs there, that   *)
(* is, waits in the queue of the parent, and so on; what runs in the root   *)
(* is sent to Odoo.  A channel has a capacity, may be sequential, and may   *)
(* keep a delay (throttle) between jobs.                                    *)
(*                                                                         *)
(* JobQueue has one channel and all that happens to a job; here is the tree *)
(* and the clock, and the table of jobs only as far as the runner sees it.  *)
(***************************************************************************)
EXTENDS Integers, FiniteSets, Sequences, FiniteSetsExt, SequencesExt

CONSTANTS
  Chan,         \* channels
  Root,         \* the root channel
  Downstream,   \* the parent of each other channel
  Below,       \* the channels from the parent of each to the root
  ChildrenFirst,\* the channels, each after its children
  Room,         \* capacity of each channel; 0: unlimited
  InSequence,   \* sequential channels
  Delay,        \* throttle of each channel, in seconds; 0: none
  Task,         \* jobs
  Home,         \* the channel of each job
  Order,        \* priority, creation and number of each job, as one number
  Etas,         \* etas that occur; 0: none
  EndOfTime     \* bound of the clock

VARIABLES
  queued,       \* per channel: jobs in its queue, those with an eta included
  active,       \* per channel: Channel._running
  broken,       \* per channel: Channel._failed
  pausedUntil,  \* per channel: Channel._pause_until; 0: not paused
  objEta,       \* per job: eta of the runner's object
  row,          \* per job: state and eta in the table
  unread,       \* jobs with a notification the runner has not read
  clock,
  started,      \* per channel: when a job was last let through; -Delay: never
  asleep        \* the runner waits for a notification or its timer

tree_vars == <<queued, active, broken, pausedUntil, objEta>>
channel_vars == <<tree_vars, row, unread, clock, started, asleep>>

JobState == {"wait", "pending", "enqueued", "started", "done", "failed"}

ASSUME ChannelsAssumption ==
  /\ Root \in Chan /\ Downstream \in [Chan \ {Root} -> Chan]
  /\ Below \in [Chan -> SUBSET Chan] /\ Below[Root] = {}
  /\ \A c \in Chan \ {Root} :
       Root \in Below[c] /\ Below[c] = {Downstream[c]} \union Below[Downstream[c]]
  /\ \A c \in Chan : /\ c \notin Below[c]
                     /\ \A d, e \in Below[c] : d = e \/ d \in Below[e] \/ e \in Below[d]
                     /\ \A d \in Below[c] : Below[d] \subseteq Below[c]
  /\ ChildrenFirst \in Seq(Chan) /\ Range(ChildrenFirst) = Chan
  /\ \A i, k \in DOMAIN ChildrenFirst :
       /\ ChildrenFirst[i] = ChildrenFirst[k] => i = k
       /\ ChildrenFirst[k] \in Below[ChildrenFirst[i]] => i < k
  /\ Room \in [Chan -> Nat] /\ Delay \in [Chan -> Nat] /\ InSequence \subseteq Chan
  /\ \A c \in InSequence : Room[c] = 1
  /\ Home \in [Task -> Chan] /\ Order \in [Task -> Nat] /\ Etas \subseteq Nat
  /\ IsFiniteSet(Task) /\ EndOfTime \in Nat

ChannelsTypeOK ==
  /\ queued \in [Chan -> SUBSET Task] /\ active \in [Chan -> SUBSET Task]
  /\ broken \in [Chan -> SUBSET Task] /\ pausedUntil \in [Chan -> Nat]
  /\ objEta \in [Task -> Etas \union {0}]
  /\ row \in [Task -> [state : JobState, eta : Etas \union {0}]]
  /\ unread \subseteq Task /\ clock \in 0..EndOfTime /\ asleep \in BOOLEAN
  /\ started \in [Chan -> Int]

\* The channels a job passes, from its own one to the root.
Passes(j) == {Home[j]} \union Below[Home[j]]

(***************************************************************************)
(* A job's state is told to the tree                                        *)
(***************************************************************************)
Tree == [q |-> queued, run |-> active, fail |-> broken, eta |-> objEta,
         pause |-> pausedUntil, out |-> {}]

Without(f, cs, j) == [c \in Chan |-> IF c \in cs THEN f[c] \ {j} ELSE f[c]]
With(f, cs, j) == [c \in Chan |-> IF c \in cs THEN f[c] \union {j} ELSE f[c]]

\* remove
Removed(t, cs, j) == [t EXCEPT !.q = Without(@, cs, j), !.run = Without(@, cs, j),
                               !.fail = Without(@, cs, j)]

\* set_pending
SetPending(t, j) ==
  IF j \in t.q[Home[j]] THEN t
  ELSE LET r == Removed(t, Passes(j), j) IN [r EXCEPT !.q = With(@, {Home[j]}, j)]

\* set_running: from its own channel on, up to one where it runs already.
SetRunning(t, j) ==
  LET cs == {c \in Passes(j) : \A d \in Passes(j) :
                                (d = c \/ c \in Below[d]) => j \notin t.run[d]}
  IN  [t EXCEPT !.q = Without(@, cs, j), !.run = With(@, cs, j), !.fail = Without(@, cs, j)]

\* set_failed
SetFailed(t, j) ==
  IF j \in t.fail[Home[j]] THEN t
  ELSE LET r == Removed(t, Passes(j), j) IN [r EXCEPT !.fail = With(@, {Home[j]}, j)]

\* ChannelManager.notify, with the row as it is now.  An eta that is not the
\* object's makes a new object.  A job that waits for others is left alone.
Told(t, j) ==
  LET known == IF row[j].eta # t.eta[j]
               THEN [Removed(t, Passes(j), j) EXCEPT !.eta[j] = row[j].eta] ELSE t
      s == row[j].state
  IN  IF s = "done" THEN Removed(known, Passes(j), j)
      ELSE IF s = "pending" THEN SetPending(known, j)
      ELSE IF s \in {"enqueued", "started"} THEN SetRunning(known, j)
      ELSE IF s = "failed" THEN SetFailed(known, j) ELSE known

(***************************************************************************)
(* Jobs to run                                                              *)
(***************************************************************************)
\* A sequential channel blocks on failed jobs.
HasRoom(t, c) ==
  /\ ~(c \in InSequence /\ t.fail[c] # {})
  /\ Room[c] # 0 => Cardinality(t.run[c]) < Room[c]

Earliest(J) == CHOOSE j \in J : \A k \in J : Order[j] <= Order[k]

\* The first job of the queue of those with an eta.
NextEta(t, J) == CHOOSE j \in J : \A k \in J :
  t.eta[j] < t.eta[k] \/ (t.eta[j] = t.eta[k] /\ Order[j] <= Order[k])

\* ChannelQueue.pop: jobs whose eta is past have none any more; the first job
\* without an eta, unless the channel is sequential and the first one with an
\* eta comes before it.  {} is none.
DueTasks(t, c, now) ==
  [t EXCEPT !.eta = [j \in Task |-> IF j \in t.q[c] /\ t.eta[j] <= now THEN 0 ELSE t.eta[j]]]
Popped(t, c) ==
  LET plain == {j \in t.q[c] : t.eta[j] = 0}
      later == t.q[c] \ plain
  IN  IF plain = {} \/ (c \in InSequence /\ later # {} /\
                        Order[NextEta(t, later)] < Order[Earliest(plain)])
      THEN {} ELSE {Earliest(plain)}

Pausing(t, c, now) == Delay[c] > 0 /\ now < t.pause[c]

\* One round of the loop of get_jobs_to_run in channel c: a job popped runs
\* here and is queued in the parent; a throttled channel then pauses.
LetOneThrough(t, c, now) ==
  IF Pausing(t, c, now) \/ ~HasRoom(t, c) THEN t
  ELSE LET d == DueTasks(t, c, now)
       IN  IF Popped(d, c) = {} THEN d
           ELSE LET j == CHOOSE x \in Popped(d, c) : TRUE
                    r == [d EXCEPT !.q[c] = @ \ {j}, !.run[c] = @ \union {j},
                                   !.pause[c] = IF Delay[c] > 0 THEN now + Delay[c] ELSE @]
                IN  IF c = Root THEN [r EXCEPT !.out = @ \union {j}]
                    ELSE [r EXCEPT !.q[Downstream[c]] = @ \union {j}]

\* A pause that is over is forgotten, full or not.
Unpaused(t, c, now) ==
  IF t.pause[c] # 0 /\ now >= t.pause[c] THEN [t EXCEPT !.pause[c] = 0] ELSE t

\* The loop, as long as the channel lets jobs through.
Rounds == Cardinality(Task) + 1
Drained(t, c, now) ==
  LET after[n \in 0..Rounds] == IF n = 0 THEN Unpaused(t, c, now)
                                ELSE LetOneThrough(after[n - 1], c, now)
  IN  after[Rounds]

\* get_jobs_to_run of the root: children first.
Pulled(t, now) ==
  LET after[i \in 0..Len(ChildrenFirst)] == IF i = 0 THEN t
                                            ELSE Drained(after[i - 1], ChildrenFirst[i], now)
  IN  after[Len(ChildrenFirst)]

(***************************************************************************)
(* Wakeup time                                                              *)
(***************************************************************************)
\* The channels looked at, from the root on: not those behind one that is full
\* or that pauses.
Reached(t, c) == \A d \in Below[c] : HasRoom(t, d) /\ t.pause[d] = 0

\* Mutant: the end of a pause is not waited for.
WantedForEta(t, c) ==
  IF ~(Reached(t, c) /\ HasRoom(t, c)) THEN {} ELSE {t.eta[j] : j \in t.q[c]} \ {0}

\* When channel c itself wants to be looked at: at the end of its pause, or at
\* the first eta in its queue.
WantedAt(t, c) ==
  IF ~(Reached(t, c) /\ HasRoom(t, c)) THEN {}
  ELSE IF t.pause[c] # 0 THEN {t.pause[c]}
  ELSE {t.eta[j] : j \in t.q[c]} \ {0}

\* get_wakeup_time of the root; 0: no time.
WakeupTime(t) ==
  LET all == UNION {WantedAt(t, c) : c \in Chan}
  IN  IF all = {} THEN 0 ELSE Min(all)

(***************************************************************************)
(* The runner, its clock and the table                                      *)
(***************************************************************************)
BecomeTree(t) ==
  /\ queued' = t.q /\ active' = t.run /\ broken' = t.fail
  /\ pausedUntil' = t.pause /\ objEta' = t.eta

\* process_notifications
ReadNotification(j) ==
  /\ j \in unread
  /\ unread' = unread \ {j}
  /\ BecomeTree(Told(Tree, j))
  /\ asleep' = FALSE
  /\ UNCHANGED <<row, clock, started>>

Timer == asleep /\ WakeupTime(Tree) # 0 /\ WakeupTime(Tree) <= clock

\* run_jobs, when all notifications are read; then the runner sleeps.
RunJobs ==
  /\ unread = {} /\ (~asleep \/ Timer)
  /\ LET t == Pulled(Tree, clock)
     IN  /\ BecomeTree(t)
         /\ row' = [j \in Task |-> IF j \in t.out THEN [row[j] EXCEPT !.state = "enqueued"]
                                   ELSE row[j]]
         /\ unread' = t.out
         /\ started' = [c \in Chan |-> IF t.run[c] \ active[c] # {} THEN clock ELSE started[c]]
  /\ asleep' = TRUE
  /\ UNCHANGED clock

\* Workers and users change the row of a job; only a job that is enqueued is
\* started.  A job is put back with an eta or without.
RowMoves == {<<"enqueued", "started">>, <<"enqueued", "pending">>,
             <<"started", "done">>, <<"started", "failed">>, <<"started", "pending">>,
             <<"failed", "pending">>, <<"failed", "wait">>, <<"wait", "pending">>,
             <<"pending", "done">>}
ChangeRow(j, s, e) ==
  /\ <<row[j].state, s>> \in RowMoves
  /\ e # row[j].eta => s = "pending"
  /\ row' = [row EXCEPT ![j] = [state |-> s, eta |-> e]]
  /\ unread' = unread \union {j}
  /\ UNCHANGED <<tree_vars, clock, started, asleep>>

Tick ==
  /\ clock < EndOfTime
  /\ clock' = clock + 1
  /\ UNCHANGED <<tree_vars, row, unread, started, asleep>>

ChannelsInit ==
  /\ queued = [c \in Chan |-> {}] /\ active = [c \in Chan |-> {}]
  /\ broken = [c \in Chan |-> {}] /\ pausedUntil = [c \in Chan |-> 0]
  /\ objEta = [j \in Task |-> 0]
  /\ row \in [Task -> [state : {"pending"}, eta : Etas]]
  /\ unread = Task /\ clock = 0 /\ asleep = FALSE
  /\ started = [c \in Chan |-> -Delay[c]]

ChannelsNext ==
  \/ \E j \in Task : \/ ReadNotification(j)
                     \/ \E s \in JobState, e \in Etas : ChangeRow(j, s, e)
  \/ RunJobs \/ Tick

ChannelsSpec == ChannelsInit /\ [][ChannelsNext]_channel_vars

(***************************************************************************)
(* Properties                                                               *)
(***************************************************************************)
\* No channel, of whatever level, runs more jobs than it has room for.
CapacityKept ==
  \A c \in Chan : Room[c] # 0 => Cardinality(active[c]) <= Room[c]

\* "the runner will be woken in time": while it sleeps and nothing is told to
\* it, it finds nothing to run before the time its timer is set to, and that
\* time is not past when it is set ("if timeout remains a large negative
\* number, it is most probably a bug").
WakesInTime ==
  (asleep /\ unread = {}) =>
    LET w == WakeupTime(Tree)
    IN  \A now \in clock..EndOfTime : (w = 0 \/ now < w) => Pulled(Tree, now).out = {}

\* A throttled channel lets no two jobs through within its delay.
ThrottleKept ==
  [][\A c \in Chan : active'[c] \ active[c] # {} /\ RunJobs =>
       /\ clock >= started[c] + Delay[c]
       /\ Delay[c] > 0 => Cardinality(active'[c] \ active[c]) = 1]_channel_vars

\* Once it has read all notifications, the runner has each job where its row
\* says: nowhere, failed in its own channel, running all the way, or in one queue.
KnowsTheTable ==
  unread = {} => \A j \in Task :
    LET inQ == {c \in Chan : j \in queued[c]}
        inRun == {c \in Chan : j \in active[c]}
        inFail == {c \in Chan : j \in broken[c]}
        s == row[j].state
    IN  /\ s = "done" => inQ \union inRun \union inFail = {}
        /\ s \in {"enqueued", "started"} => inRun = Passes(j) /\ inQ \union inFail = {}
        /\ s = "failed" => inFail = {Home[j]} /\ inQ \union inRun = {}
        /\ s = "pending" => /\ inFail = {}
                            /\ \E c \in Passes(j) :
                                 inQ = {c} /\ inRun = {d \in Passes(j) : c \in Below[d]}

\* Refuted: "eta ignored, the job with eta has higher priority than the job
\* without eta; since it's a sequential queue we wait until eta": a sequential
\* channel lets its jobs through in their order.  Only the job of the nearest eta
\* is compared; one of higher priority and a later eta is passed.
SequentialInOrder ==
  [][RunJobs => \A c \in InSequence : \A j \in active'[c] \ active[c] :
       \A k \in queued[c] : Order[j] <= Order[k]]_channel_vars

\* The runner's picture of the channels is true and its limits hold.
ChannelsHold ==
  [](CapacityKept /\ WakesInTime /\ KnowsTheTable) /\ ThrottleKept
=============================================================================
