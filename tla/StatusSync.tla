----------------------------- MODULE StatusSync -----------------------------
(***************************************************************************)
(* The status of the lines of one sale order, held twice: in Odoo           *)
(* (sale.order.line.availability_status) and by the customer website.       *)
(*                                                                          *)
(*   - a user's save changes a line and, before its transaction commits,    *)
(*     sends ONE call with every line whose status differs from the last    *)
(*     one the website is known to hold (lgd_last_pushed_status);           *)
(*   - the website applies a batch as a whole or refuses it as a whole,     *)
(*     and refuses a status a line already has;                             *)
(*   - a call that fails leaves one augmont.api.retry row per line, which   *)
(*     a cron re-sends one by one;                                          *)
(*   - the website reports its own changes with a call of its own.          *)
(*                                                                          *)
(* Odoo runs every request in a REPEATABLE READ transaction: it reads a     *)
(* snapshot, a row another one has written since then cannot be written,    *)
(* and the request is then run again (odoo.service.model.retrying, not in   *)
(* this repository) on the same cursor object.                              *)
(***************************************************************************)
EXTENDS Integers, FiniteSets, SiteStatuses

CONSTANTS
  Lines,        \* lines of the order, each with an order_number of its own
  Reqs,         \* requests of users that can be open at a time
  Words,        \* the statuses of this instance
  SiteWords,    \* those the website sets by itself
  FailCodes,    \* how calls fail: EXCEPTION (no answer), 408 (no time)
  MaxSaves,     \* saves that change a status
  MaxResyncs,   \* {Save} clicked without a change
  MaxFaults,    \* calls that go unanswered, crashes of the cron
  MaxAborts,    \* requests rolled back after their call was sent
  MaxMoves      \* changes made by the website

Booked == "Diamond Booked"

ASSUME SyncAssumption ==
  /\ Words \subseteq DOMAIN Allowed
  /\ Booked \in Words
  /\ SiteWords \subseteq Words
  /\ FailCodes \subseteq {"EXCEPTION", "408"}
  /\ {MaxSaves, MaxResyncs, MaxFaults, MaxAborts, MaxMoves} \subseteq Nat

VARIABLES
  status,   \* [Lines -> Words]: availability_status, committed
  last,     \* [Lines -> Words]: lgd_last_pushed_status, committed
  rows,     \* augmont.api.retry, committed
  ids,      \* batches that left rows, in the order of their ids
  txn,      \* [Reqs -> a request's transaction]
  cron,     \* the retry job's transaction
  site,     \* [Lines -> Words]: what the website holds
  inbox,    \* the website's calls that Odoo has not answered yet
  held,     \* history: the words the website has held, per line
  left      \* the bounds that remain

vars == <<status, last, rows, ids, txn, cron, site, inbox, held, left>>

Entry == [line : Lines, word : Words]

Row == [id : Nat, line : Lines, word : Words,
        code : {"EXCEPTION", "408", "400", "200"},
        state : {"pending", "success", "failed"}]

Transaction ==
  [phase : {"idle", "open", "answered", "done", "retry"},
   op : SUBSET Entry,         \* the user's change, {} for {Save} alone
   status : [Lines -> Words], \* the lines as the transaction sees them
   last : [Lines -> Words],
   rows : SUBSET Row,         \* retry rows it has made
   seen : SUBSET Entry,       \* cr._lgd_pushed_statuses
   batch : SUBSET Entry,      \* answered 200, not recorded yet
   locks : SUBSET Lines,      \* rows it has written
   stale : SUBSET Lines]      \* rows others have written since its snapshot

CronRun == [on : BOOLEAN, up : BOOLEAN, todo : SUBSET Row, out : SUBSET Row]

Blank == [phase |-> "idle", op |-> {}, status |-> [l \in Lines |-> Booked],
          last |-> [l \in Lines |-> Booked], rows |-> {}, seen |-> {},
          batch |-> {}, locks |-> {}, stale |-> {}]

CronIdle == [on |-> FALSE, up |-> TRUE, todo |-> {}, out |-> {}]

Init ==
  /\ status = [l \in Lines |-> Booked]
  /\ last = [l \in Lines |-> Booked]
  /\ rows = {}
  /\ ids = 0
  /\ txn = [r \in Reqs |-> Blank]
  /\ cron = CronIdle
  /\ site = [l \in Lines |-> Booked]
  /\ inbox = {}
  /\ held = [l \in Lines |-> {Booked}]
  /\ left = [saves |-> MaxSaves, resyncs |-> MaxResyncs,
             faults |-> MaxFaults, aborts |-> MaxAborts, moves |-> MaxMoves]

Spend(what) ==
  /\ left[what] > 0
  /\ left' = [left EXCEPT ![what] = @ - 1]

-----------------------------------------------------------------------------
(* The website.                                                            *)

With(f, batch) ==
  [l \in Lines |-> IF \E e \in batch : e.line = l
                   THEN (CHOOSE e \in batch : e.line = l).word
                   ELSE f[l]]

Refused(batch) == {e \in batch : e.word \notin Allowed[site[e.line]]}

SiteApplies(batch) ==
  /\ Refused(batch) = {}
  /\ site' = With(site, batch)
  /\ held' = [l \in Lines |-> held[l] \cup {site'[l]}]

SiteMoves(l, w) ==
  /\ Spend("moves")
  /\ w \in SiteWords \cap Allowed[site[l]]
  /\ site' = [site EXCEPT ![l] = w]
  /\ held' = [held EXCEPT ![l] = @ \cup {w}]
  /\ inbox' = inbox \cup {[line |-> l, word |-> w]}
  /\ UNCHANGED <<status, last, rows, ids, txn, cron>>

-----------------------------------------------------------------------------
(* A request.                                                              *)

\* A save writes the order's row too (its status is recomputed), before the
\* push; the row stays locked until the transaction ends.
Holding(r) == txn[r].phase \notin {"idle", "retry"} /\ txn[r].op # {}

\* sale.order.line.write up to the push, or {Save} without a change.  A save
\* waits for the requests that hold the order or the line, and reads its
\* snapshot after them: one that read it earlier fails before it sends
\* anything and is run again.
Open(r, op, seen) ==
  /\ op # {} => \A q \in Reqs \ {r} :
       ~Holding(q) /\ \A e \in op : e.line \notin txn[q].locks
  /\ txn' = [txn EXCEPT ![r] =
       [Blank EXCEPT !.phase = "open", !.op = op,
                     !.status = With(status, op), !.last = last,
                     !.seen = seen, !.locks = {e.line : e \in op}]]

Save(r, l, w) ==
  /\ txn[r].phase = "idle"
  /\ w \in (Words \cap Allowed[status[l]]) \ SiteWords
  /\ Spend("saves")
  /\ Open(r, {[line |-> l, word |-> w]}, {})
  /\ UNCHANGED <<status, last, rows, ids, cron, site, inbox, held>>

Resync(r) ==
  /\ txn[r].phase = "idle"
  /\ Spend("resyncs")
  /\ Open(r, {}, {})
  /\ UNCHANGED <<status, last, rows, ids, cron, site, inbox, held>>

\* A serialization failure: rolled back and run again.  What the cursor
\* remembers of the calls it has sent survives the rollback.
Rerun(r) ==
  /\ txn[r].phase = "retry"
  /\ Open(r, txn[r].op, txn[r].seen)
  /\ UNCHANGED <<status, last, rows, ids, cron, site, inbox, held, left>>

DropUnchangedOnWebsite(t, entries) ==
  {e \in entries : t.last[e.line] # e.word}

DropAlreadyPushed(t, entries) == entries \ t.seen

Entries(t) ==
  LET all == {e \in Entry : e.word = t.status[e.line]}
  IN  DropAlreadyPushed(t, DropUnchangedOnWebsite(t, all))

\* Mutant: the code is stored as the state.
RowsSwapped(batch, code) ==
  {[id |-> ids, line |-> e.line, word |-> e.word, code |-> code,
    state |-> code] : e \in batch}

RowsOf(batch, code) ==
  {[id |-> ids, line |-> e.line, word |-> e.word, code |-> code,
    state |-> "pending"] : e \in batch}

\* No line to send: nothing is called.
PostNothing(r) ==
  /\ txn[r].phase = "open"
  /\ Entries(txn[r]) = {}
  /\ txn' = [txn EXCEPT ![r].phase = "done"]
  /\ UNCHANGED <<status, last, rows, ids, cron, site, inbox, held, left>>

PostOk(r) ==
  LET batch == Entries(txn[r]) IN
  /\ txn[r].phase = "open"
  /\ batch # {}
  /\ SiteApplies(batch)
  /\ txn' = [txn EXCEPT ![r].phase = "answered", ![r].batch = batch]
  /\ UNCHANGED <<status, last, rows, ids, cron, inbox, left>>

\* The refusal names one transition.  Lines that were at its word already,
\* or whose word is the one they were created with, are noise; when all are,
\* no row is made.
Noise(e, named) ==
  \/ site[named.line] = named.word /\ e.word = named.word
  \/ e.word = Booked

PostRefused(r) ==
  LET batch == Entries(txn[r]) IN
  /\ txn[r].phase = "open"
  /\ \E named \in Refused(batch) :
       IF \A e \in batch : Noise(e, named)
       THEN /\ txn' = [txn EXCEPT ![r].phase = "done"]
            /\ ids' = ids
       ELSE /\ txn' = [txn EXCEPT ![r].phase = "done",
                                  ![r].rows = RowsOf(batch, "400")]
            /\ ids' = ids + 1
  /\ UNCHANGED <<status, last, rows, cron, site, inbox, held, left>>

\* The website is unreachable, or applies the batch and its answer is lost,
\* or it answers that it has no time for it.
Fails(batch, code) ==
  /\ Spend("faults")
  /\ \/ UNCHANGED <<site, held>>
     \/ code = "EXCEPTION" /\ SiteApplies(batch)

\* Mutant: what was sent is recorded although no answer came.
PostFailsMarked(r) ==
  LET batch == Entries(txn[r]) IN
  /\ txn[r].phase = "open"
  /\ batch # {}
  /\ \E code \in FailCodes :
       /\ Fails(batch, code)
       /\ txn' = [txn EXCEPT ![r].phase = "answered", ![r].batch = batch,
                             ![r].rows = RowsOf(batch, code)]
  /\ ids' = ids + 1
  /\ UNCHANGED <<status, last, rows, cron, inbox>>

PostFails(r) ==
  LET batch == Entries(txn[r]) IN
  /\ txn[r].phase = "open"
  /\ batch # {}
  /\ \E code \in FailCodes :
       /\ Fails(batch, code)
       /\ txn' = [txn EXCEPT ![r].phase = "done",
                             ![r].rows = RowsOf(batch, code)]
  /\ ids' = ids + 1
  /\ UNCHANGED <<status, last, rows, cron, inbox>>

\* _lgd_mark_pushed: one UPDATE of the lines sent, after a 200.
Mark(r) ==
  LET t == txn[r]
      sent == {e.line : e \in t.batch} IN
  /\ t.phase = "answered"
  /\ \A q \in Reqs \ {r} : txn[q].locks \cap sent = {}
  /\ txn' = [txn EXCEPT ![r] =
       IF sent \cap t.stale # {}
       THEN [Blank EXCEPT !.phase = "retry", !.op = t.op,
                          !.seen = t.seen \cup t.batch]
       ELSE [t EXCEPT !.phase = "done", !.seen = @ \cup t.batch,
                      !.last = With(@, t.batch), !.batch = {},
                      !.locks = @ \cup sent]]
  /\ UNCHANGED <<status, last, rows, ids, cron, site, inbox, held, left>>

\* Mutant: a request writes back every line it has read.
MergeAll(old, new, locks) == new

\* What others see after the commit of a request that wrote these rows.
Merge(old, new, locks) ==
  [l \in Lines |-> IF l \in locks THEN new[l] ELSE old[l]]

\* The open requests have read the rows written before they were.
Staled(tx, locks) ==
  [q \in Reqs |-> IF tx[q].phase \in {"open", "answered", "done"}
                  THEN [tx[q] EXCEPT !.stale = @ \cup locks]
                  ELSE tx[q]]

Commit(r) ==
  LET t == txn[r] IN
  /\ t.phase = "done"
  /\ status' = Merge(status, t.status, t.locks)
  /\ last' = Merge(last, t.last, t.locks)
  /\ rows' = rows \cup t.rows
  /\ txn' = Staled([txn EXCEPT ![r] = Blank], t.locks)
  /\ UNCHANGED <<ids, cron, site, inbox, held, left>>

\* Something after the push fails: the transaction is rolled back, the
\* website keeps what it was told.
Abort(r) ==
  /\ txn[r].phase \in {"answered", "done"}
  /\ Spend("aborts")
  /\ txn' = [txn EXCEPT ![r] = Blank]
  /\ UNCHANGED <<status, last, rows, ids, cron, site, inbox, held>>

\* The website's call: the order is locked first, the line and what the
\* website holds are written together.
Receive(m) ==
  /\ m \in inbox
  /\ \A q \in Reqs : ~Holding(q) /\ m.line \notin txn[q].locks
  /\ status' = [status EXCEPT ![m.line] = m.word]
  /\ last' = [last EXCEPT ![m.line] = m.word]
  /\ txn' = Staled(txn, {m.line})
  /\ inbox' = inbox \ {m}
  /\ UNCHANGED <<rows, ids, cron, site, held, left>>

-----------------------------------------------------------------------------
(* The retry cron: one transaction over the pending rows, in id order.     *)

Pending == {row \in rows : row.state = "pending"}

\* A run probes the website first: `up' is whether it answered.
CronBegins(up) ==
  /\ ~cron.on
  /\ Pending # {}
  /\ cron' = [on |-> TRUE, up |-> up, todo |-> Pending, out |-> {}]
  /\ UNCHANGED <<status, last, rows, ids, txn, site, inbox, held>>

CronStart == CronBegins(TRUE) /\ UNCHANGED left

CronStartDown == CronBegins(FALSE) /\ Spend("faults")

IsPermanentFailure(row) == row.code = "400"

Examines(row) ==
  /\ cron.on
  /\ row \in cron.todo
  /\ \A other \in cron.todo : row.id <= other.id

Examined(row, as) ==
  cron' = [cron EXCEPT !.todo = @ \ {row}, !.out = @ \cup {as}]

CronGivesUp(row) ==
  /\ Examines(row)
  /\ IsPermanentFailure(row)
  /\ Examined(row, [row EXCEPT !.state = "failed"])
  /\ UNCHANGED <<status, last, rows, ids, txn, site, inbox, held, left>>

\* The website is up and the code is not that of a transient failure.
CronSkips(row) ==
  /\ Examines(row)
  /\ ~IsPermanentFailure(row)
  /\ cron.up
  /\ row.code # "EXCEPTION"
  /\ Examined(row, row)
  /\ UNCHANGED <<status, last, rows, ids, txn, site, inbox, held, left>>

\* Mutant: re-sent only while the website is down.
ResendDown(row) ==
  /\ Examines(row)
  /\ ~IsPermanentFailure(row)
  /\ ~cron.up

Resend(row) ==
  /\ Examines(row)
  /\ ~IsPermanentFailure(row)
  /\ cron.up => row.code = "EXCEPTION"

EntryOf(row) == {[line |-> row.line, word |-> row.word]}

CronOk(row) ==
  /\ Resend(row)
  /\ SiteApplies(EntryOf(row))
  /\ Examined(row, [row EXCEPT !.state = "success", !.code = "200"])
  /\ UNCHANGED <<status, last, rows, ids, txn, inbox, left>>

CronRefused(row) ==
  /\ Resend(row)
  /\ Refused(EntryOf(row)) # {}
  /\ Examined(row, [row EXCEPT !.state = "failed", !.code = "400"])
  /\ UNCHANGED <<status, last, rows, ids, txn, site, inbox, held, left>>

CronFails(row) ==
  /\ Resend(row)
  /\ \E code \in FailCodes :
       /\ Fails(EntryOf(row), code)
       /\ Examined(row, [row EXCEPT !.code = code])
  /\ UNCHANGED <<status, last, rows, ids, txn, inbox>>

CronCommit ==
  /\ cron.on
  /\ cron.todo = {}
  /\ rows' = {row \in rows : \A o \in cron.out :
                <<o.id, o.line>> # <<row.id, row.line>>} \cup cron.out
  /\ cron' = CronIdle
  /\ UNCHANGED <<status, last, ids, txn, site, inbox, held, left>>

CronCrash ==
  /\ cron.on
  /\ Spend("faults")
  /\ cron' = CronIdle
  /\ UNCHANGED <<status, last, rows, ids, txn, site, inbox, held>>

-----------------------------------------------------------------------------
Request(r) ==
  \/ Rerun(r) \/ PostNothing(r) \/ PostOk(r) \/ PostRefused(r)
  \/ Mark(r) \/ Commit(r)

CronRow(row) ==
  CronGivesUp(row) \/ CronSkips(row) \/ CronOk(row) \/ CronRefused(row)

Next ==
  \/ \E r \in Reqs :
       \/ \E l \in Lines, w \in Words : Save(r, l, w)
       \/ Resync(r)
       \/ Request(r)
       \/ PostFails(r)
       \/ Abort(r)
  \/ \E l \in Lines, w \in SiteWords : SiteMoves(l, w)
  \/ \E m \in inbox : Receive(m)
  \/ CronStart \/ CronStartDown
  \/ \E row \in cron.todo : CronRow(row) \/ CronFails(row)
  \/ CronCommit
  \/ CronCrash

Spec == Init /\ [][Next]_vars

\* The server finishes the requests it began, the website's calls are
\* answered, and the cron is run again and again.
FairSpec ==
  /\ Spec
  /\ \A r \in Reqs : WF_vars(Request(r))
  /\ WF_vars(\E m \in inbox : Receive(m))
  /\ WF_vars(CronStart)
  /\ WF_vars(\E row \in cron.todo : CronRow(row))
  /\ WF_vars(CronCommit)

-----------------------------------------------------------------------------
TypeOK ==
  /\ status \in [Lines -> Words]
  /\ last \in [Lines -> Words]
  /\ rows \subseteq Row
  /\ ids \in Nat
  /\ txn \in [Reqs -> Transaction]
  /\ cron \in CronRun
  /\ site \in [Lines -> Words]
  /\ inbox \subseteq Entry
  /\ held \in [Lines -> SUBSET Words]
  /\ left \in [{"saves", "resyncs", "faults", "aborts", "moves"} -> Nat]

\* lgd_last_pushed_status is a status the website really had: it is written
\* only with what the website said itself or answered 200 to, whatever was
\* lost, repeated or rolled back in between.
LastWasHeld == \A l \in Lines : last[l] \in held[l]

Quiet == inbox = {} /\ \A r \in Reqs : txn[r].phase = "idle"

\* "Drop entries whose status the website already holds": with statuses a
\* line takes once, and no request rolled back after its call, what a push
\* leaves out is what the website holds, in spite of the old rows that the
\* cron re-sends and of requests that work on old snapshots.
SuppressedIsHeld ==
  Quiet /\ left.aborts = MaxAborts =>
    \A l \in Lines : last[l] = status[l] => site[l] = status[l]

\* While every call is answered, users who save and re-send at the same time
\* never make a batch the website refuses, and leave both sides equal.
InStepUntilAFault ==
  left.faults = MaxFaults /\ left.aborts = MaxAborts =>
    /\ rows = {}
    /\ Quiet => site = status /\ last = status

\* Silence is agreement: what is not sent, or not to be sent any more, is there.
SilenceIsAgreement == SuppressedIsHeld /\ InStepUntilAFault

\* Every row that the website could not take for a while is resolved: the
\* cron, run again after a crash or an outage, makes it a success or fails it
\* for good.  (One the website answered 408 to stays pending while the
\* website is up: neither permanent nor transient for the cron.)
RowsEnd == <>[](\A row \in Pending : row.code # "EXCEPTION")

\* Refuted: "The status is saved in Odoo; the retry queue will re-send it."
Converges == <>[](Quiet => site = status)

=============================================================================
