-------------------------- MODULE StatusSync_proofs --------------------------
(* For all values of the constants: type correctness, that only what the   *)
(* website has held is recorded as held (LastWasHeld), and that silence is  *)
(* agreement (SilenceIsAgreement) where a line takes a status at most once. *)
EXTENDS StatusSync, TLAPS

(***************************************************************************)
(* Operators.                                                              *)
(***************************************************************************)

\* A batch written over the words of the lines gives words again.
LEMMA WithType ==
  ASSUME NEW f \in [Lines -> Words], NEW batch \in SUBSET Entry
  PROVE  With(f, batch) \in [Lines -> Words]
<1> SUFFICES ASSUME NEW l \in Lines
             PROVE  (IF \E e \in batch : e.line = l
                     THEN (CHOOSE e \in batch : e.line = l).word
                     ELSE f[l]) \in Words
  BY DEF With
<1>1. CASE \E e \in batch : e.line = l
  <2>1. (CHOOSE e \in batch : e.line = l) \in batch
    BY <1>1
  <2> QED BY <1>1, <2>1 DEF Entry
<1>2. CASE ~\E e \in batch : e.line = l
  BY <1>2
<1> QED BY <1>1, <1>2

\* A line has the word of an entry of the batch, or the one it had.
LEMMA WithCases ==
  ASSUME NEW f \in [Lines -> Words], NEW batch \in SUBSET Entry,
         NEW l \in Lines
  PROVE  \/ With(f, batch)[l] = f[l]
         \/ \E e \in batch : e.line = l /\ With(f, batch)[l] = e.word
<1>1. CASE \E e \in batch : e.line = l
  <2> DEFINE c == CHOOSE e \in batch : e.line = l
  <2>1. c \in batch /\ c.line = l
    BY <1>1
  <2>2. With(f, batch)[l] = c.word
    BY <1>1 DEF With
  <2> QED BY <2>1, <2>2
<1>2. CASE ~\E e \in batch : e.line = l
  BY <1>2 DEF With
<1> QED BY <1>1, <1>2

\* The same for one line a batch names only once.
LEMMA WithEntry ==
  ASSUME NEW f \in [Lines -> Words], NEW batch \in SUBSET Entry,
         NEW e \in batch,
         \A x, y \in batch : x.line = y.line => x = y
  PROVE  With(f, batch)[e.line] = e.word
<1> DEFINE c == CHOOSE x \in batch : x.line = e.line
<1>1. c \in batch /\ c.line = e.line
  OBVIOUS
<1>2. c = e
  BY <1>1
<1>3. e.line \in Lines
  BY DEF Entry
<1> QED BY <1>2, <1>3 DEF With

\* What a push sends are entries, one per line.
LEMMA EntriesType ==
  ASSUME NEW t
  PROVE  /\ Entries(t) \subseteq Entry
         /\ \A x, y \in Entries(t) : x.line = y.line => x = y
<1>1. Entries(t) \subseteq {e \in Entry : e.word = t.status[e.line]}
  BY DEF Entries, DropAlreadyPushed, DropUnchangedOnWebsite
<1>2. ASSUME NEW x \in Entry, NEW y \in Entry, x.line = y.line, x.word = y.word
      PROVE  x = y
  BY <1>2 DEF Entry
<1> QED BY <1>1, <1>2

(***************************************************************************)
(* Type correctness.                                                       *)
(***************************************************************************)

\* A request slot that is not used is a transaction.
LEMMA BlankType == Blank \in Transaction
BY SyncAssumption DEF Blank, Transaction

\* A fault used up leaves one less.
LEMMA SpendType ==
  ASSUME TypeOK,
         NEW what \in {"saves", "resyncs", "faults", "aborts", "moves"},
         Spend(what)
  PROVE  left' \in [{"saves", "resyncs", "faults", "aborts", "moves"} -> Nat]
BY DEF TypeOK, Spend

\* A request begins as a transaction with a snapshot.
LEMMA OpenType ==
  ASSUME TypeOK, NEW r \in Reqs, NEW op \in SUBSET Entry,
         NEW seen \in SUBSET Entry, Open(r, op, seen)
  PROVE  txn' \in [Reqs -> Transaction]
<1>1. With(status, op) \in [Lines -> Words]
  BY WithType DEF TypeOK
<1>2. {e.line : e \in op} \in SUBSET Lines
  BY DEF Entry
<1> DEFINE new == [Blank EXCEPT !.phase = "open", !.op = op,
                     !.status = With(status, op), !.last = last,
                     !.seen = seen, !.locks = {e.line : e \in op}]
<1>3. new \in Transaction
  BY <1>1, <1>2, BlankType DEF Transaction, TypeOK
<1>4. txn' = [txn EXCEPT ![r] = new]
  BY DEF Open
<1> HIDE DEF new
<1> QED BY <1>3, <1>4 DEF TypeOK

\* What a failed batch puts in the retry queue are rows.
LEMMA RowsType ==
  ASSUME TypeOK, NEW batch \in SUBSET Entry,
         NEW code \in {"EXCEPTION", "408", "400", "200"}
  PROVE  RowsOf(batch, code) \subseteq Row
BY DEF RowsOf, Row, Entry, TypeOK

\* A batch the website takes leaves words there that it has then held.
LEMMA SiteType ==
  ASSUME TypeOK, NEW batch \in SUBSET Entry, SiteApplies(batch)
  PROVE  /\ site' \in [Lines -> Words]
         /\ held' \in [Lines -> SUBSET Words]
         /\ \A l \in Lines : held[l] \subseteq held'[l] /\ site'[l] \in held'[l]
<1>1. site' = With(site, batch) /\ site' \in [Lines -> Words]
  BY WithType DEF TypeOK, SiteApplies
<1>2. held' = [l \in Lines |-> held[l] \cup {site'[l]}]
  BY DEF SiteApplies
<1> QED BY <1>1, <1>2 DEF TypeOK

\* A call without a proper answer may have been taken all the same: what was
\* held stays held.
LEMMA FailsType ==
  ASSUME TypeOK, NEW batch \in SUBSET Entry, NEW code \in FailCodes,
         Fails(batch, code)
  PROVE  /\ site' \in [Lines -> Words]
         /\ held' \in [Lines -> SUBSET Words]
         /\ \A l \in Lines : held[l] \subseteq held'[l]
         /\ left' \in [{"saves", "resyncs", "faults", "aborts", "moves"} -> Nat]
<1>1. left' \in [{"saves", "resyncs", "faults", "aborts", "moves"} -> Nat]
  BY SpendType DEF Fails
<1>2. CASE UNCHANGED <<site, held>>
  BY <1>1, <1>2 DEF TypeOK
<1>3. CASE SiteApplies(batch)
  BY <1>1, <1>3, SiteType
<1> QED BY <1>2, <1>3 DEF Fails

\* A commit over newer words leaves words.
LEMMA MergeType ==
  ASSUME NEW old \in [Lines -> Words], NEW new \in [Lines -> Words], NEW locks
  PROVE  Merge(old, new, locks) \in [Lines -> Words]
BY DEF Merge

\* A commit makes other snapshots old, and changes nothing else of them.
LEMMA StaledType ==
  ASSUME NEW tx \in [Reqs -> Transaction], NEW locks \in SUBSET Lines
  PROVE  Staled(tx, locks) \in [Reqs -> Transaction]
<1> SUFFICES ASSUME NEW q \in Reqs
             PROVE  [tx[q] EXCEPT !.stale = @ \cup locks] \in Transaction
  BY DEF Staled
<1> QED BY DEF Transaction

\* What a step of the cron makes of the row it examines.
LEMMA ExaminedType ==
  ASSUME TypeOK, NEW row \in cron.todo, NEW as \in Row, Examined(row, as)
  PROVE  cron' \in CronRun
BY DEF Examined, TypeOK, CronRun

\* Everything has its type at first.
LEMMA InitType == Init => TypeOK
<1> SUFFICES ASSUME Init PROVE TypeOK
  OBVIOUS
<1>1. txn \in [Reqs -> Transaction]
  BY BlankType DEF Init
<1>2. cron \in CronRun
  BY DEF Init, CronIdle, CronRun
<1> QED BY <1>1, <1>2, SyncAssumption DEF Init, TypeOK, Entry

\* A step of a request keeps the types.
LEMMA RequestType ==
  ASSUME TypeOK, NEW r \in Reqs,
         \/ \E l \in Lines, w \in Words : Save(r, l, w)
         \/ Resync(r)
         \/ Request(r)
         \/ PostFails(r)
         \/ Abort(r)
  PROVE  TypeOK'
<1> DEFINE t == txn[r]
<1>t. t \in Transaction
  BY DEF TypeOK
<1>e. Entries(t) \in SUBSET Entry
  BY EntriesType
<1>1. ASSUME NEW l \in Lines, NEW w \in Words, Save(r, l, w)
      PROVE  TypeOK'
  <2>1. {[line |-> l, word |-> w]} \in SUBSET Entry
    BY DEF Entry
  <2>2. txn' \in [Reqs -> Transaction]
    BY <1>1, <2>1, OpenType DEF Save
  <2>3. left' \in [{"saves", "resyncs", "faults", "aborts", "moves"} -> Nat]
    BY <1>1, SpendType DEF Save
  <2> QED BY <1>1, <2>2, <2>3 DEF TypeOK, Save
<1>2. CASE Resync(r)
  <2>1. txn' \in [Reqs -> Transaction]
    BY <1>2, OpenType DEF Resync
  <2>2. left' \in [{"saves", "resyncs", "faults", "aborts", "moves"} -> Nat]
    BY <1>2, SpendType DEF Resync
  <2> QED BY <1>2, <2>1, <2>2 DEF TypeOK, Resync
<1>3. CASE Rerun(r)
  <2>1. t.op \in SUBSET Entry /\ t.seen \in SUBSET Entry
    BY <1>t DEF Transaction
  <2>2. txn' \in [Reqs -> Transaction]
    BY <1>3, <2>1, OpenType DEF Rerun
  <2> QED BY <1>3, <2>2 DEF TypeOK, Rerun
<1>4. CASE PostNothing(r)
  <2>1. [t EXCEPT !.phase = "done"] \in Transaction
    BY <1>t DEF Transaction
  <2> QED BY <1>4, <2>1 DEF TypeOK, PostNothing
<1>5. CASE PostOk(r)
  <2>1. [t EXCEPT !.phase = "answered", !.batch = Entries(t)] \in Transaction
    BY <1>t, <1>e DEF Transaction
  <2>2. txn' = [txn EXCEPT ![r] = [t EXCEPT !.phase = "answered",
                                            !.batch = Entries(t)]]
    BY <1>5 DEF PostOk, TypeOK
  <2>3. txn' \in [Reqs -> Transaction]
    BY <2>1, <2>2 DEF TypeOK
  <2>4. site' \in [Lines -> Words] /\ held' \in [Lines -> SUBSET Words]
    BY <1>5, <1>e, SiteType DEF PostOk
  <2> QED BY <1>5, <2>3, <2>4 DEF TypeOK, PostOk
<1>6. CASE PostRefused(r)
  <2>1. RowsOf(Entries(t), "400") \in SUBSET Row
    BY <1>e, RowsType
  <2>2. [t EXCEPT !.phase = "done"] \in Transaction
    BY <1>t DEF Transaction
  <2>3. [t EXCEPT !.phase = "done", !.rows = RowsOf(Entries(t), "400")]
          \in Transaction
    BY <1>t, <2>1 DEF Transaction
  <2>4. /\ ids' \in Nat
        /\ \/ txn' = [txn EXCEPT ![r] = [t EXCEPT !.phase = "done"]]
           \/ txn' = [txn EXCEPT ![r] = [t EXCEPT !.phase = "done",
                                          !.rows = RowsOf(Entries(t), "400")]]
    BY <1>6 DEF PostRefused, TypeOK
  <2>5. txn' \in [Reqs -> Transaction]
    BY <2>2, <2>3, <2>4 DEF TypeOK
  <2> QED BY <1>6, <2>4, <2>5 DEF TypeOK, PostRefused
<1>7. CASE PostFails(r)
  <2>1. PICK code \in FailCodes :
          /\ Fails(Entries(t), code)
          /\ txn' = [txn EXCEPT ![r] = [t EXCEPT !.phase = "done",
                                          !.rows = RowsOf(Entries(t), code)]]
    BY <1>7 DEF PostFails, TypeOK
  <2>2. RowsOf(Entries(t), code) \in SUBSET Row
    BY <1>e, RowsType, SyncAssumption
  <2>3. [t EXCEPT !.phase = "done", !.rows = RowsOf(Entries(t), code)]
          \in Transaction
    BY <1>t, <2>2 DEF Transaction
  <2>4. txn' \in [Reqs -> Transaction]
    BY <2>1, <2>3 DEF TypeOK
  <2>5. /\ site' \in [Lines -> Words] /\ held' \in [Lines -> SUBSET Words]
        /\ left' \in [{"saves", "resyncs", "faults", "aborts", "moves"} -> Nat]
    BY <1>e, <2>1, FailsType
  <2>6. ids' = ids + 1 /\ UNCHANGED <<status, last, rows, cron, inbox>>
    BY <1>7 DEF PostFails
  <2> QED BY <2>4, <2>5, <2>6 DEF TypeOK
<1>8. CASE Mark(r)
  <2> DEFINE sent == {e.line : e \in t.batch}
             again == [Blank EXCEPT !.phase = "retry", !.op = t.op,
                                    !.seen = t.seen \cup t.batch]
             marked == [t EXCEPT !.phase = "done", !.seen = @ \cup t.batch,
                                 !.last = With(@, t.batch), !.batch = {},
                                 !.locks = @ \cup sent]
  <2>1. sent \in SUBSET Lines
    BY <1>t DEF Transaction, Entry
  <2>2. With(t.last, t.batch) \in [Lines -> Words]
    BY <1>t, WithType DEF Transaction
  <2>3. again \in Transaction
    BY <1>t, BlankType DEF Transaction
  <2>4. marked \in Transaction
    BY <1>t, <2>1, <2>2 DEF Transaction
  <2>5. \/ txn' = [txn EXCEPT ![r] = again]
        \/ txn' = [txn EXCEPT ![r] = marked]
    BY <1>8 DEF Mark
  <2> HIDE DEF again, marked
  <2>6. txn' \in [Reqs -> Transaction]
    BY <2>3, <2>4, <2>5 DEF TypeOK
  <2> QED BY <1>8, <2>6 DEF TypeOK, Mark
<1>9. CASE Commit(r)
  <2>1. /\ t.status \in [Lines -> Words] /\ t.last \in [Lines -> Words]
        /\ t.rows \subseteq Row /\ t.locks \in SUBSET Lines
    BY <1>t DEF Transaction
  <2>2. status' \in [Lines -> Words] /\ last' \in [Lines -> Words]
    BY <1>9, <2>1, MergeType DEF Commit, TypeOK
  <2>3. [txn EXCEPT ![r] = Blank] \in [Reqs -> Transaction]
    BY BlankType DEF TypeOK
  <2>4. txn' \in [Reqs -> Transaction]
    BY <1>9, <2>1, <2>3, StaledType DEF Commit
  <2> QED BY <1>9, <2>1, <2>2, <2>4 DEF TypeOK, Commit
<1>10. CASE Abort(r)
  <2>1. txn' \in [Reqs -> Transaction]
    BY <1>10, BlankType DEF Abort, TypeOK
  <2>2. left' \in [{"saves", "resyncs", "faults", "aborts", "moves"} -> Nat]
    BY <1>10, SpendType DEF Abort
  <2> QED BY <1>10, <2>1, <2>2 DEF TypeOK, Abort
<1> QED BY <1>1, <1>2, <1>3, <1>4, <1>5, <1>6, <1>7, <1>8, <1>9, <1>10
        DEF Request

\* A step of the retry cron keeps the types.
LEMMA CronRowType ==
  ASSUME TypeOK, NEW row \in cron.todo, CronRow(row) \/ CronFails(row)
  PROVE  TypeOK'
<1>r. row \in Row
  BY DEF TypeOK, CronRun
<1>e. EntryOf(row) \in SUBSET Entry
  BY <1>r DEF EntryOf, Entry, Row
<1>1. CASE CronGivesUp(row)
  <2>1. [row EXCEPT !.state = "failed"] \in Row
    BY <1>r DEF Row
  <2>2. cron' \in CronRun
    BY <1>1, <2>1, ExaminedType DEF CronGivesUp
  <2> QED BY <1>1, <2>2 DEF TypeOK, CronGivesUp
<1>2. CASE CronSkips(row)
  <2>1. cron' \in CronRun
    BY <1>2, <1>r, ExaminedType DEF CronSkips
  <2> QED BY <1>2, <2>1 DEF TypeOK, CronSkips
<1>3. CASE CronOk(row)
  <2>1. [row EXCEPT !.state = "success", !.code = "200"] \in Row
    BY <1>r DEF Row
  <2>2. cron' \in CronRun
    BY <1>3, <2>1, ExaminedType DEF CronOk
  <2>3. site' \in [Lines -> Words] /\ held' \in [Lines -> SUBSET Words]
    BY <1>3, <1>e, SiteType DEF CronOk
  <2> QED BY <1>3, <2>2, <2>3 DEF TypeOK, CronOk
<1>4. CASE CronRefused(row)
  <2>1. [row EXCEPT !.state = "failed", !.code = "400"] \in Row
    BY <1>r DEF Row
  <2>2. cron' \in CronRun
    BY <1>4, <2>1, ExaminedType DEF CronRefused
  <2> QED BY <1>4, <2>2 DEF TypeOK, CronRefused
<1>5. CASE CronFails(row)
  <2>1. PICK code \in FailCodes :
          Fails(EntryOf(row), code) /\ Examined(row, [row EXCEPT !.code = code])
    BY <1>5 DEF CronFails
  <2>2. [row EXCEPT !.code = code] \in Row
    BY <1>r, SyncAssumption DEF Row
  <2>3. cron' \in CronRun
    BY <2>1, <2>2, ExaminedType
  <2>4. /\ site' \in [Lines -> Words] /\ held' \in [Lines -> SUBSET Words]
        /\ left' \in [{"saves", "resyncs", "faults", "aborts", "moves"} -> Nat]
    BY <1>e, <2>1, FailsType
  <2>5. UNCHANGED <<status, last, rows, ids, txn, inbox>>
    BY <1>5 DEF CronFails
  <2> QED BY <2>3, <2>4, <2>5 DEF TypeOK
<1> QED BY <1>1, <1>2, <1>3, <1>4, <1>5 DEF CronRow

\* Every step keeps the types.
LEMMA StepType == TypeOK /\ [Next]_vars => TypeOK'
<1> SUFFICES ASSUME TypeOK, [Next]_vars
             PROVE  TypeOK'
  OBVIOUS
<1>1. ASSUME NEW r \in Reqs,
             \/ \E l \in Lines, w \in Words : Save(r, l, w)
             \/ Resync(r)
             \/ Request(r)
             \/ PostFails(r)
             \/ Abort(r)
      PROVE  TypeOK'
  BY <1>1, RequestType
<1>2. ASSUME NEW l \in Lines, NEW w \in SiteWords, SiteMoves(l, w)
      PROVE  TypeOK'
  <2>1. w \in Words
    BY SyncAssumption
  <2>2. left' \in [{"saves", "resyncs", "faults", "aborts", "moves"} -> Nat]
    BY <1>2, SpendType DEF SiteMoves
  <2>3. site' \in [Lines -> Words] /\ held' \in [Lines -> SUBSET Words]
    BY <1>2, <2>1 DEF SiteMoves, TypeOK
  <2>4. inbox' \subseteq Entry
    BY <1>2, <2>1 DEF SiteMoves, TypeOK, Entry
  <2> QED BY <1>2, <2>2, <2>3, <2>4 DEF SiteMoves, TypeOK
<1>3. ASSUME NEW m \in inbox, Receive(m)
      PROVE  TypeOK'
  <2>1. m.line \in Lines /\ m.word \in Words
    BY DEF TypeOK, Entry
  <2>2. txn' \in [Reqs -> Transaction]
    BY <1>3, <2>1, StaledType DEF Receive, TypeOK
  <2> QED BY <1>3, <2>1, <2>2 DEF Receive, TypeOK
<1>4. CASE CronStart \/ CronStartDown
  <2>1. PICK up \in BOOLEAN : CronBegins(up)
    BY <1>4 DEF CronStart, CronStartDown
  <2>2. cron' \in CronRun
    BY <2>1 DEF CronBegins, CronRun, Pending, TypeOK
  <2>3. left' \in [{"saves", "resyncs", "faults", "aborts", "moves"} -> Nat]
    BY <1>4, SpendType DEF CronStart, CronStartDown, TypeOK
  <2> QED BY <2>1, <2>2, <2>3 DEF CronBegins, TypeOK
<1>5. ASSUME NEW row \in cron.todo, CronRow(row) \/ CronFails(row)
      PROVE  TypeOK'
  BY <1>5, CronRowType
<1>6. CASE CronCommit
  BY <1>6 DEF CronCommit, CronIdle, CronRun, TypeOK
<1>7. CASE CronCrash
  <2>1. left' \in [{"saves", "resyncs", "faults", "aborts", "moves"} -> Nat]
    BY <1>7, SpendType DEF CronCrash
  <2> QED BY <1>7, <2>1 DEF CronCrash, CronIdle, CronRun, TypeOK
<1>8. CASE UNCHANGED vars
  BY <1>8 DEF vars, TypeOK
<1> QED BY <1>1, <1>2, <1>3, <1>4, <1>5, <1>6, <1>7, <1>8 DEF Next

\* Every variable keeps its type.
THEOREM TypeCorrect == Spec => []TypeOK
<1> QED BY InitType, StepType, PTL DEF Spec

(***************************************************************************)
(* What is recorded as held was held.  Inductive because whatever may      *)
(* still be recorded was held too: the records that open requests have     *)
(* read, the batches that were answered 200, and the statuses that the     *)
(* website has reported; and nothing is ever taken from `held'.            *)
(***************************************************************************)
HeldInv ==
  /\ \A l \in Lines : Booked \in held[l] /\ last[l] \in held[l]
  /\ \A r \in Reqs, l \in Lines : txn[r].last[l] \in held[l]
  /\ \A r \in Reqs : \A e \in txn[r].batch : e.word \in held[e.line]
  /\ \A m \in inbox : m.word \in held[m.line]

\* The website holds the first word of every line.
LEMMA InitHeld == Init => HeldInv
BY DEF Init, Blank, HeldInv

\* A step that changes none of the four, and only adds to `held'.
LEMMA HeldKept ==
  ASSUME TypeOK, HeldInv, UNCHANGED <<last, inbox>>,
         \A l \in Lines : held[l] \subseteq held'[l],
         \A r \in Reqs : \/ txn'[r] = txn[r]
                         \/ /\ txn'[r].last \in {txn[r].last, last, Blank.last}
                            /\ txn'[r].batch \in {txn[r].batch, {}}
  PROVE  HeldInv'
<1>1. \A l \in Lines : Booked \in held'[l] /\ last[l] \in held'[l]
  BY DEF HeldInv
<1>2. ASSUME NEW r \in Reqs, NEW l \in Lines
      PROVE  txn'[r].last[l] \in held'[l]
  <2>1. Blank.last[l] = Booked
    BY DEF Blank
  <2> QED BY <1>1, <2>1 DEF HeldInv
<1>3. ASSUME NEW r \in Reqs, NEW e \in txn'[r].batch
      PROVE  e.word \in held'[e.line]
  <2>1. e \in txn[r].batch
    BY <1>3
  <2>2. e.line \in Lines
    BY <2>1 DEF TypeOK, Transaction, Entry
  <2> QED BY <2>1, <2>2 DEF HeldInv
<1>4. ASSUME NEW m \in inbox'
      PROVE  m.word \in held'[m.line]
  <2>1. m \in inbox /\ m.line \in Lines
    BY DEF TypeOK, Entry
  <2> QED BY <2>1 DEF HeldInv
<1> QED BY <1>1, <1>2, <1>3, <1>4 DEF HeldInv

\* A request that begins copies words the website has held.
LEMMA OpenHeld ==
  ASSUME TypeOK, HeldInv, NEW r \in Reqs, NEW op, NEW seen,
         Open(r, op, seen), UNCHANGED <<last, inbox, held>>
  PROVE  HeldInv'
<1> DEFINE new == [Blank EXCEPT !.phase = "open", !.op = op,
                     !.status = With(status, op), !.last = last,
                     !.seen = seen, !.locks = {e.line : e \in op}]
<1>1. txn' = [txn EXCEPT ![r] = new]
  BY DEF Open
<1>2. new.last = last /\ new.batch = {}
  BY DEF Blank
<1> HIDE DEF new
<1>3. \A q \in Reqs : \/ txn'[q] = txn[q]
                      \/ txn'[q].last = last /\ txn'[q].batch = {}
  BY <1>1, <1>2 DEF TypeOK
<1> QED BY <1>3, HeldKept

\* What a batch answered 200 leaves on the website, it has held.
LEMMA AppliedHeld ==
  ASSUME TypeOK, NEW t, SiteApplies(Entries(t))
  PROVE  \A e \in Entries(t) : e.word \in held'[e.line]
<1> SUFFICES ASSUME NEW e \in Entries(t) PROVE e.word \in held'[e.line]
  OBVIOUS
<1>1. Entries(t) \in SUBSET Entry
      /\ \A x, y \in Entries(t) : x.line = y.line => x = y
  BY EntriesType
<1>2. With(site, Entries(t))[e.line] = e.word
  BY <1>1, WithEntry DEF TypeOK
<1>3. e.line \in Lines
  BY <1>1 DEF Entry
<1> QED BY <1>1, <1>2, <1>3, SiteType DEF SiteApplies

\* A step of a request records only words the website has held.
LEMMA RequestHeld ==
  ASSUME TypeOK, HeldInv, NEW r \in Reqs,
         \/ \E l \in Lines, w \in Words : Save(r, l, w)
         \/ Resync(r)
         \/ Request(r)
         \/ PostFails(r)
         \/ Abort(r)
  PROVE  HeldInv'
<1> DEFINE t == txn[r]
<1>t. t \in Transaction
  BY DEF TypeOK
<1>1. ASSUME NEW l \in Lines, NEW w \in Words, Save(r, l, w)
      PROVE  HeldInv'
  BY <1>1, OpenHeld DEF Save
<1>2. CASE Resync(r)
  BY <1>2, OpenHeld DEF Resync
<1>3. CASE Rerun(r)
  BY <1>3, OpenHeld DEF Rerun
<1>4. CASE PostNothing(r)
  <2>1. \A q \in Reqs : txn'[q].last = txn[q].last /\ txn'[q].batch = txn[q].batch
    BY <1>4, <1>t DEF PostNothing, TypeOK, Transaction
  <2> QED BY <1>4, <2>1, HeldKept DEF PostNothing
<1>5. CASE PostOk(r)
  <2>1. \A e \in Entries(t) : e.word \in held'[e.line]
    BY <1>5, AppliedHeld DEF PostOk
  <2>2. \A l \in Lines : held[l] \subseteq held'[l]
    BY <1>5, EntriesType, SiteType DEF PostOk
  <2>3. txn' = [txn EXCEPT ![r] = [t EXCEPT !.phase = "answered",
                                            !.batch = Entries(t)]]
    BY <1>5 DEF PostOk, TypeOK
  <2>4. txn'[r].batch = Entries(t) /\ txn'[r].last = t.last
    BY <1>t, <2>3 DEF TypeOK, Transaction
  <2>5. \A q \in Reqs \ {r} : txn'[q] = txn[q]
    BY <2>3 DEF TypeOK
  <2>6. \A l \in Lines : Booked \in held'[l] /\ last'[l] \in held'[l]
    BY <1>5, <2>2 DEF HeldInv, PostOk
  <2>7. \A q \in Reqs, l \in Lines : txn'[q].last[l] \in held'[l]
    BY <2>2, <2>4, <2>5 DEF HeldInv
  <2>8. \A q \in Reqs : \A e \in txn'[q].batch : e.word \in held'[e.line]
    <3> SUFFICES ASSUME NEW q \in Reqs, NEW e \in txn'[q].batch
                 PROVE  e.word \in held'[e.line]
      OBVIOUS
    <3>1. CASE q = r
      BY <2>1, <2>4, <3>1
    <3>2. CASE q # r
      <4>1. e \in txn[q].batch
        BY <2>5, <3>2
      <4>2. e.line \in Lines
        BY <4>1 DEF TypeOK, Transaction, Entry
      <4> QED BY <2>2, <4>1, <4>2 DEF HeldInv
    <3> QED BY <3>1, <3>2
  <2>9. \A m \in inbox' : m.word \in held'[m.line]
    BY <1>5, <2>2 DEF HeldInv, PostOk, TypeOK, Entry
  <2> QED BY <2>6, <2>7, <2>8, <2>9 DEF HeldInv
<1>6. CASE PostRefused(r)
  <2>1. \A q \in Reqs : txn'[q].last = txn[q].last /\ txn'[q].batch = txn[q].batch
    <3>1. txn'[r].last = t.last /\ txn'[r].batch = t.batch
      BY <1>6, <1>t DEF PostRefused, TypeOK, Transaction
    <3>2. \A q \in Reqs \ {r} : txn'[q] = txn[q]
      BY <1>6 DEF PostRefused, TypeOK
    <3> QED BY <3>1, <3>2
  <2> QED BY <1>6, <2>1, HeldKept DEF PostRefused
<1>7. CASE PostFails(r)
  <2>1. \A q \in Reqs : txn'[q].last = txn[q].last /\ txn'[q].batch = txn[q].batch
    <3>1. txn'[r].last = t.last /\ txn'[r].batch = t.batch
      BY <1>7, <1>t DEF PostFails, TypeOK, Transaction
    <3>2. \A q \in Reqs \ {r} : txn'[q] = txn[q]
      BY <1>7 DEF PostFails, TypeOK
    <3> QED BY <3>1, <3>2
  <2>2. \A l \in Lines : held[l] \subseteq held'[l]
    BY <1>7, EntriesType, FailsType DEF PostFails
  <2> QED BY <1>7, <2>1, <2>2, HeldKept DEF PostFails
<1>8. CASE Mark(r)
  <2> DEFINE sent == {e.line : e \in t.batch}
             again == [Blank EXCEPT !.phase = "retry", !.op = t.op,
                                    !.seen = t.seen \cup t.batch]
             marked == [t EXCEPT !.phase = "done", !.seen = @ \cup t.batch,
                                 !.last = With(@, t.batch), !.batch = {},
                                 !.locks = @ \cup sent]
  <2>1. \/ txn' = [txn EXCEPT ![r] = again]
        \/ txn' = [txn EXCEPT ![r] = marked]
    BY <1>8 DEF Mark
  <2>2. again.last = Blank.last /\ again.batch = {}
    BY DEF Blank
  <2>3. marked.last = With(t.last, t.batch) /\ marked.batch = {}
    BY <1>t DEF Transaction
  <2> HIDE DEF again, marked
  <2>4. UNCHANGED <<last, inbox, held>>
    BY <1>8 DEF Mark
  <2>5. CASE txn' = [txn EXCEPT ![r] = again]
    <3>1. \A q \in Reqs : \/ txn'[q] = txn[q]
                          \/ txn'[q].last = Blank.last /\ txn'[q].batch = {}
      BY <2>2, <2>5 DEF TypeOK
    <3> QED BY <2>4, <3>1, HeldKept
  <2>6. CASE txn' = [txn EXCEPT ![r] = marked]
    <3>1. \A l \in Lines : With(t.last, t.batch)[l] \in held[l]
      <4> SUFFICES ASSUME NEW l \in Lines
                   PROVE  With(t.last, t.batch)[l] \in held[l]
        OBVIOUS
      <4>1. \/ With(t.last, t.batch)[l] = t.last[l]
            \/ \E e \in t.batch : e.line = l /\ With(t.last, t.batch)[l] = e.word
        BY <1>t, WithCases DEF Transaction
      <4> QED BY <4>1 DEF HeldInv
    <3>2. \A q \in Reqs, l \in Lines : txn'[q].last[l] \in held'[l]
      BY <2>3, <2>4, <2>6, <3>1 DEF HeldInv, TypeOK
    <3>3. \A q \in Reqs : \A e \in txn'[q].batch : e.word \in held'[e.line]
      BY <2>3, <2>4, <2>6 DEF HeldInv, TypeOK
    <3> QED BY <2>4, <3>2, <3>3 DEF HeldInv
  <2> QED BY <2>1, <2>5, <2>6
<1>9. CASE Commit(r)
  <2> DEFINE mid == [txn EXCEPT ![r] = Blank]
  <2>1. \A q \in Reqs : \/ mid[q] = txn[q]
                        \/ mid[q].last = Blank.last /\ mid[q].batch = {}
    BY DEF TypeOK, Blank
  <2>2. mid \in [Reqs -> Transaction]
    BY BlankType DEF TypeOK
  <2>3. \A q \in Reqs : /\ txn'[q].last = mid[q].last
                        /\ txn'[q].batch = mid[q].batch
    <3>1. txn' = Staled(mid, t.locks)
      BY <1>9 DEF Commit
    <3> HIDE DEF mid
    <3> QED BY <2>2, <3>1 DEF Staled, Transaction
  <2> HIDE DEF mid
  <2>4. \A q \in Reqs, l \in Lines : txn'[q].last[l] \in held[l]
    <3>1. \A l \in Lines : Blank.last[l] = Booked
      BY DEF Blank
    <3> QED BY <2>1, <2>3, <3>1 DEF HeldInv
  <2>5. \A q \in Reqs : \A e \in txn'[q].batch : e.word \in held[e.line]
    BY <2>1, <2>3 DEF HeldInv
  <2>6. \A l \in Lines : last'[l] \in held[l]
    <3>1. \A l \in Lines : last'[l] \in {t.last[l], last[l]}
      BY <1>9 DEF Commit, Merge
    <3> QED BY <3>1 DEF HeldInv
  <2>7. UNCHANGED <<inbox, held>>
    BY <1>9 DEF Commit
  <2> QED BY <2>4, <2>5, <2>6, <2>7 DEF HeldInv
<1>10. CASE Abort(r)
  <2>1. \A q \in Reqs : \/ txn'[q] = txn[q]
                        \/ txn'[q].last = Blank.last /\ txn'[q].batch = {}
    BY <1>10 DEF Abort, TypeOK, Blank
  <2> QED BY <1>10, <2>1, HeldKept DEF Abort
<1> QED BY <1>1, <1>2, <1>3, <1>4, <1>5, <1>6, <1>7, <1>8, <1>9, <1>10
        DEF Request

\* Every step does.
LEMMA StepHeld == TypeOK /\ HeldInv /\ [Next]_vars => HeldInv'
<1> SUFFICES ASSUME TypeOK, HeldInv, [Next]_vars
             PROVE  HeldInv'
  OBVIOUS
<1>1. ASSUME NEW r \in Reqs,
             \/ \E l \in Lines, w \in Words : Save(r, l, w)
             \/ Resync(r)
             \/ Request(r)
             \/ PostFails(r)
             \/ Abort(r)
      PROVE  HeldInv'
  BY <1>1, RequestHeld
<1>2. ASSUME NEW l \in Lines, NEW w \in SiteWords, SiteMoves(l, w)
      PROVE  HeldInv'
  <2>1. /\ \A k \in Lines : held[k] \subseteq held'[k]
        /\ w \in held'[l]
        /\ inbox' = inbox \cup {[line |-> l, word |-> w]}
        /\ UNCHANGED <<last, txn>>
    BY <1>2 DEF SiteMoves, TypeOK
  <2>2. \A m \in inbox' : m.word \in held'[m.line]
    BY <2>1 DEF HeldInv, TypeOK, Entry
  <2>3. \A q \in Reqs : \A e \in txn[q].batch : e.line \in Lines
    BY DEF TypeOK, Transaction, Entry
  <2> QED BY <2>1, <2>2, <2>3 DEF HeldInv
<1>3. ASSUME NEW m \in inbox, Receive(m)
      PROVE  HeldInv'
  <2>1. m.line \in Lines /\ m.word \in held[m.line]
    BY DEF TypeOK, Entry, HeldInv
  <2>2. /\ last' = [last EXCEPT ![m.line] = m.word]
        /\ txn' = Staled(txn, {m.line})
        /\ inbox' \subseteq inbox
        /\ UNCHANGED held
    BY <1>3 DEF Receive
  <2>3. \A q \in Reqs : /\ txn'[q].last = txn[q].last
                        /\ txn'[q].batch = txn[q].batch
    BY <2>2 DEF Staled, TypeOK, Transaction
  <2>4. \A l \in Lines : last'[l] \in held[l]
    BY <2>1, <2>2 DEF HeldInv, TypeOK
  <2> QED BY <2>2, <2>3, <2>4 DEF HeldInv
<1>4. CASE CronStart \/ CronStartDown
  BY <1>4, HeldKept DEF CronStart, CronStartDown, CronBegins
<1>5. ASSUME NEW row \in cron.todo, CronRow(row) \/ CronFails(row)
      PROVE  HeldInv'
  <2>1. EntryOf(row) \in SUBSET Entry
    BY DEF EntryOf, Entry, Row, TypeOK, CronRun
  <2>2. \A l \in Lines : held[l] \subseteq held'[l]
    BY <1>5, <2>1, SiteType, FailsType
       DEF CronRow, CronGivesUp, CronSkips, CronOk, CronRefused, CronFails
  <2>3. UNCHANGED <<last, inbox, txn>>
    BY <1>5 DEF CronRow, CronGivesUp, CronSkips, CronOk, CronRefused, CronFails
  <2> QED BY <2>2, <2>3, HeldKept
<1>6. CASE CronCommit
  BY <1>6, HeldKept DEF CronCommit
<1>7. CASE CronCrash
  BY <1>7, HeldKept DEF CronCrash
<1>8. CASE UNCHANGED vars
  BY <1>8, HeldKept DEF vars
<1> QED BY <1>1, <1>2, <1>3, <1>4, <1>5, <1>6, <1>7, <1>8 DEF Next

\* lgd_last_pushed_status names only statuses the website has held.
THEOREM OnlyHeldIsRecorded == Spec => []LastWasHeld
<1>1. Init => TypeOK /\ HeldInv
  BY InitType, InitHeld
<1>2. TypeOK /\ HeldInv /\ [Next]_vars => (TypeOK /\ HeldInv)'
  BY StepType, StepHeld
<1>3. HeldInv => LastWasHeld
  BY DEF HeldInv, LastWasHeld
<1> QED BY <1>1, <1>2, <1>3, PTL DEF Spec

(***************************************************************************)
(* Silence is agreement, for any number of requests, saves and faults,     *)
(* when statuses are taken once.                                           *)
(***************************************************************************)

\* The scenario: a line takes a status at most once, the website sets only the last
\* status of a line, and where it may do so Odoo has nothing left to set.
OneWay ==
  /\ \E rank \in [Words -> Nat] : \A v, w \in Words : w \in Allowed[v] => rank[v] < rank[w]
  /\ \A x \in SiteWords : Allowed[x] \cap Words = {}
  /\ \A v \in Words : Allowed[v] \cap SiteWords # {} => Allowed[v] \cap Words \subseteq SiteWords
  /\ Booked \notin SiteWords

Rank == CHOOSE rank \in [Words -> Nat] :
          \A v, w \in Words : w \in Allowed[v] => rank[v] < rank[w]
Below(v, w) == Rank[v] < Rank[w]

\* A line at w has been at v, or may have been: v is w, or it comes before, and then
\* Odoo has left it, unless the website set w.
Passed(v, w) == v = w \/ (Below(v, w) /\ (Allowed[v] \cap SiteWords = {} \/ w \in SiteWords))

\* An open request sets l to w.
Sets(l, w) == \E r \in Reqs : [line |-> l, word |-> w] \in txn[r].op

\* The line has reached w in Odoo, or reaches it with the save that is under way.
Reached(l, w) == Passed(w, status[l]) \/ \E v \in Words : Sets(l, v) /\ Passed(w, v)

Active(r) == txn[r].phase \in {"open", "answered", "done"}

\* What the website was told it has held, and each status was told by one request.
ToldInv ==
  /\ \A l \in Lines : \A w \in held[l] : w = site[l] \/ Below(w, site[l])
  /\ \A r \in Reqs : \A e \in txn[r].seen \cup txn[r].batch : e.word \in held[e.line]
  /\ \A r \in Reqs : \A e \in txn[r].batch : e.word = txn[r].status[e.line]
  /\ \A r, q \in Reqs : r # q =>
       (txn[r].seen \cup txn[r].batch) \cap (txn[q].seen \cup txn[q].batch) = {}

\* A row is written by one request, which saw it as it is, and after its status was
\* told, unless the request is the save itself.
LockInv ==
  /\ \A r, q \in Reqs : r # q => txn[r].locks \cap txn[q].locks = {}
  /\ \A r \in Reqs : txn[r].locks \cap txn[r].stale = {}
  /\ \A r \in Reqs : \A l \in txn[r].locks :
       \/ \E w \in Words : [line |-> l, word |-> w] \in txn[r].op
       \/ [line |-> l, word |-> txn[r].status[l]] \in txn[r].seen
  /\ \A r \in Reqs : Active(r) \/ (txn[r].op = {} /\ txn[r].batch = {} /\ txn[r].locks = {})

\* Other lines than the one it sets a request sees as they are, or they are stale to it.
FreshInv ==
  \A r \in Reqs : Active(r) => \A l \in Lines :
    \/ txn[r].status[l] = status[l] \/ l \in txn[r].stale
    \/ \E w \in Words : [line |-> l, word |-> w] \in txn[r].op

\* One save at a time; it goes forward from what is stored, and when others have written
\* a line since its snapshot, the website was told what the save would tell of it.
SaveInv ==
  \A r \in Reqs : \A e \in txn[r].op :
    /\ txn[r].op = {e} /\ \A q \in Reqs \ {r} : txn[q].op = {}
    /\ e.word \in Allowed[status[e.line]] /\ e.word \notin SiteWords
    /\ txn[r].status[e.line] = e.word /\ e.line \in txn[r].locks
    /\ \A d \in txn[r].batch : d.line \notin txn[r].stale
    /\ \A k \in txn[r].stale : txn[r].status[k] \in held[k]
    /\ txn[r].phase = "open" => txn[r].seen = {}

\* Whatever may still be told was reached in Odoo.
WayInv ==
  /\ \A r \in Reqs : Active(r) => \A l \in Lines : Reached(l, txn[r].status[l])
  /\ \A r \in Reqs : \A row \in txn[r].rows : Reached(row.line, row.word)
  /\ \A row \in rows \cup cron.todo \cup cron.out : Reached(row.line, row.word)

\* The website's own change is due: the line is, or will be, where it was made from.
Due(l, x) ==
  \/ x \in Allowed[status[l]] /\ \A w \in Words : ~Sets(l, w)
  \/ \E w \in Words : Sets(l, w) /\ x \in Allowed[w]

\* The website is where Odoo has been, or has told Odoo of its change.
SiteInv ==
  /\ \A l \in Lines : Reached(l, site[l]) \/ [line |-> l, word |-> site[l]] \in inbox
  /\ \A l \in Lines : status[l] \in SiteWords => site[l] = status[l]
  /\ \A m \in inbox : m.word \in SiteWords /\ site[m.line] = m.word /\ Due(m.line, m.word)

AgreeInv == ToldInv /\ LockInv /\ FreshInv /\ SaveInv /\ WayInv /\ SiteInv

\* Until a fault: nothing is to be re-sent, what is stored is what was told, and only a
\* save has anything to tell, its own line.
TellsOwn(r) ==
  /\ txn[r].rows = {}
  /\ txn[r].op = {} =>
       txn[r].batch = {} /\ txn[r].locks = {} /\ txn[r].status = txn[r].last
  /\ \A e \in txn[r].op :
       /\ txn[r].locks = {e.line} /\ txn[r].batch \subseteq {e}
       /\ \A l \in Lines \ {e.line} : txn[r].last[l] = txn[r].status[l]
       /\ txn[r].phase = "open" =>
            site[e.line] = status[e.line] /\ txn[r].last[e.line] = status[e.line]
       /\ txn[r].phase = "answered" => txn[r].batch = {e}
       /\ txn[r].phase = "done" => txn[r].last[e.line] = e.word

QuietInv ==
  /\ rows = {} /\ cron = CronIdle /\ last = status
  /\ \A r \in Reqs : TellsOwn(r)

\* Words are ordered as a line takes them.
LEMMA Order ==
  ASSUME OneWay
  PROVE  /\ \A v \in Words : ~Below(v, v)
         /\ \A u, v, w \in Words : Below(u, v) /\ Below(v, w) => Below(u, w)
         /\ \A v, w \in Words : w \in Allowed[v] => Below(v, w)
<1>1. \E rank \in [Words -> Nat] :
        \A v, w \in Words : w \in Allowed[v] => rank[v] < rank[w]
  BY DEF OneWay
<1>2. /\ Rank \in [Words -> Nat]
      /\ \A v, w \in Words : w \in Allowed[v] => Rank[v] < Rank[w]
  BY <1>1 DEF Rank
<1> QED BY <1>2 DEF Below

\* What a line has passed it has passed when it goes on.
LEMMA PassedOn ==
  ASSUME OneWay, NEW v \in Words, NEW s \in Words, NEW w \in Words \cap Allowed[s],
         Passed(v, s)
  PROVE  Passed(v, w)
<1>1. Below(s, w)
  BY Order
<1>2. CASE v = s
  BY <1>1, <1>2 DEF Passed, OneWay
<1>3. CASE Below(v, s) /\ Allowed[v] \cap SiteWords = {}
  BY <1>1, <1>3, Order DEF Passed
<1>4. CASE s \in SiteWords
  BY <1>4 DEF OneWay
<1> QED BY <1>2, <1>3, <1>4 DEF Passed

\* Nothing that was reached is lost while saves only begin.
LEMMA ReachedKept ==
  ASSUME UNCHANGED status, \A q \in Reqs : txn[q].op \subseteq txn'[q].op
  PROVE  \A l, w : Reached(l, w) => Reached(l, w)'
BY DEF Reached, Sets

\* The words of an open save are words.
LEMMA SetsType ==
  ASSUME TypeOK, NEW r \in Reqs, NEW e \in txn[r].op
  PROVE  e \in Entry /\ e.line \in Lines /\ e.word \in Words
         /\ e = [line |-> e.line, word |-> e.word]
BY DEF TypeOK, Transaction, Entry

\* The website holds a line's own word, and what it was told before.
LEMMA AppliedAgree ==
  ASSUME OneWay, TypeOK, ToldInv, SiteInv, NEW batch \in SUBSET Entry,
         \A x, y \in batch : x.line = y.line => x = y,
         \A e \in batch : Reached(e.line, e.word),
         SiteApplies(batch), UNCHANGED <<status, inbox>>,
         \A q \in Reqs : txn'[q].op = txn[q].op
  PROVE  /\ \A e \in batch : e.word \notin held[e.line] /\ e.word \in held'[e.line]
         /\ \A l \in Lines : held[l] \subseteq held'[l]
         /\ \A l \in Lines : \A w \in held'[l] : w = site'[l] \/ Below(w, site'[l])
         /\ SiteInv'
<1>1. /\ \A l \in Lines : held[l] \subseteq held'[l] /\ site'[l] \in held'[l]
      /\ \A l \in Lines : held'[l] = held[l] \cup {site'[l]}
      /\ site' = With(site, batch) /\ site' \in [Lines -> Words]
      /\ held' \in [Lines -> SUBSET Words]
  BY SiteType DEF SiteApplies
<1>2. \A e \in batch : /\ e.line \in Lines /\ e.word \in Words
                       /\ site'[e.line] = e.word
                       /\ e.word \in Allowed[site[e.line]]
  <2> SUFFICES ASSUME NEW e \in batch
               PROVE  /\ e.line \in Lines /\ e.word \in Words
                      /\ site'[e.line] = e.word
                      /\ e.word \in Allowed[site[e.line]]
    OBVIOUS
  <2>1. With(site, batch)[e.line] = e.word
    BY WithEntry DEF TypeOK
  <2>2. e.word \in Allowed[site[e.line]]
    BY DEF SiteApplies, Refused
  <2> QED BY <1>1, <2>1, <2>2 DEF Entry
<1>3. \A l \in Lines : \/ site'[l] = site[l]
                       \/ \E e \in batch : e.line = l /\ site'[l] = e.word
  BY <1>1, WithCases DEF TypeOK
<1>4. \A e \in batch : Below(site[e.line], e.word)
  BY <1>2, Order DEF TypeOK
<1>5. \A e \in batch : e.word \notin held[e.line] /\ e.word \in held'[e.line]
  <2> SUFFICES ASSUME NEW e \in batch, e.word \in held[e.line]
               PROVE  FALSE
    BY <1>1, <1>2
  <2>1. e.word = site[e.line] \/ Below(e.word, site[e.line])
    BY <1>2 DEF ToldInv
  <2>2. site[e.line] \in Words /\ e.word \in Words
    BY <1>2 DEF TypeOK
  <2> QED BY <1>4, <2>1, <2>2, Order
<1>6. ASSUME NEW l \in Lines, NEW w \in held'[l]
      PROVE  w = site'[l] \/ Below(w, site'[l])
  <2>1. w \in Words /\ site[l] \in Words /\ site'[l] \in Words
    BY <1>1 DEF TypeOK
  <2>2. w = site'[l] \/ w = site[l] \/ Below(w, site[l])
    BY <1>1, <1>6 DEF ToldInv
  <2>3. site'[l] = site[l] \/ Below(site[l], site'[l])
    BY <1>3, <1>4
  <2> QED BY <2>1, <2>2, <2>3, Order
<1>7. \A l \in Lines : site[l] \in SiteWords => site'[l] = site[l]
  BY <1>2, <1>3 DEF OneWay
<1>8. \A l, w : Reached(l, w) => Reached(l, w)'
  BY ReachedKept
<1>9. SiteInv'
  <2>1. ASSUME NEW l \in Lines
        PROVE  Reached(l, site[l])' \/ [line |-> l, word |-> site'[l]] \in inbox'
    <3>1. CASE site'[l] = site[l]
      BY <1>8, <3>1 DEF SiteInv
    <3>2. CASE \E e \in batch : e.line = l /\ site'[l] = e.word
      BY <1>8, <3>2
    <3> QED BY <1>3, <3>1, <3>2
  <2>2. \A l \in Lines : status'[l] \in SiteWords => site'[l] = status'[l]
    BY <1>7 DEF SiteInv
  <2>3. ASSUME NEW m \in inbox
        PROVE  m.word \in SiteWords /\ site'[m.line] = m.word
               /\ Due(m.line, m.word)'
    <3>1. m.word \in SiteWords /\ site[m.line] = m.word /\ Due(m.line, m.word)
          /\ m.line \in Lines
      BY DEF SiteInv, TypeOK, Entry
    <3> QED BY <1>7, <3>1 DEF Due, Sets
  <2> QED BY <2>1, <2>2, <2>3 DEF SiteInv
<1> QED BY <1>1, <1>5, <1>6, <1>9

\* A push: the request's records may be told to the website, as rows or at once.
LEMMA PostAgree ==
  ASSUME OneWay, TypeOK, AgreeInv, NEW r \in Reqs, txn[r].phase = "open",
         \A q \in Reqs : q # r => txn'[q] = txn[q],
         /\ txn'[r].op = txn[r].op /\ txn'[r].status = txn[r].status
         /\ txn'[r].seen = txn[r].seen /\ txn'[r].locks = txn[r].locks
         /\ txn'[r].stale = txn[r].stale
         /\ txn'[r].phase \in {"answered", "done"},
         \/ txn'[r].batch = txn[r].batch
            /\ (UNCHANGED <<site, held>> \/ SiteApplies(Entries(txn[r])))
         \/ txn'[r].batch = Entries(txn[r]) /\ SiteApplies(Entries(txn[r])),
         \A row \in txn'[r].rows :
           \/ row \in txn[r].rows
           \/ row.line \in Lines /\ row.word = txn[r].status[row.line],
         UNCHANGED <<status, rows, cron, inbox>>
  PROVE  AgreeInv'
<1> DEFINE t == txn[r]
           batch == Entries(t)
<1>t. t \in Transaction
  BY DEF TypeOK
<1>e. /\ batch \in SUBSET Entry
      /\ \A x, y \in batch : x.line = y.line => x = y
  BY EntriesType
<1>w. \A e \in batch : e.line \in Lines /\ e.word = t.status[e.line]
  BY DEF Entries, DropAlreadyPushed, DropUnchangedOnWebsite, Entry
<1>a. Active(r) /\ Active(r)'
  BY DEF Active
<1>o. \A q \in Reqs : /\ txn'[q].op = txn[q].op /\ txn'[q].status = txn[q].status
                      /\ txn'[q].seen = txn[q].seen /\ txn'[q].locks = txn[q].locks
                      /\ txn'[q].stale = txn[q].stale
                      /\ Active(q)' <=> Active(q)
  BY <1>a DEF Active
<1>r. \A l, w : Reached(l, w) => Reached(l, w)'
  BY <1>o, ReachedKept
<1>b. \A e \in batch : Reached(e.line, e.word)
  BY <1>a, <1>w DEF AgreeInv, WayInv
<1>s. /\ SiteApplies(batch) =>
           \A e \in batch : e.word \notin held[e.line] /\ e.word \in held'[e.line]
      /\ \A l \in Lines : held[l] \subseteq held'[l]
      /\ \A l \in Lines : \A w \in held'[l] : w = site'[l] \/ Below(w, site'[l])
      /\ SiteInv'
  <2>1. CASE SiteApplies(batch)
    <3> HIDE DEF batch
    <3>1. ToldInv /\ SiteInv
      BY DEF AgreeInv
    <3> QED BY <1>e, <1>b, <1>o, <2>1, <3>1, AppliedAgree
  <2>2. CASE UNCHANGED <<site, held>> /\ ~SiteApplies(batch)
    <3>1. SiteInv'
      <4>1. \A l \in Lines : Reached(l, site[l])'
                             \/ [line |-> l, word |-> site[l]] \in inbox
        BY <1>r, <2>2 DEF AgreeInv, SiteInv
      <4>2. \A l, w : Due(l, w) => Due(l, w)'
        BY <1>o DEF Due, Sets
      <4> QED BY <2>2, <4>1, <4>2 DEF AgreeInv, SiteInv
    <3> QED BY <2>2, <3>1 DEF AgreeInv, ToldInv
  <2> QED BY <2>1, <2>2
<1>n. /\ \A q \in Reqs : q # r => txn'[q].batch = txn[q].batch
      /\ \/ txn'[r].batch = t.batch
         \/ SiteApplies(batch) /\ txn'[r].batch = batch
  OBVIOUS
<1>l. \A q \in Reqs : \A e \in txn[q].seen \cup txn[q].batch :
        e.line \in Lines /\ e.word \in held[e.line]
  BY DEF TypeOK, Transaction, Entry, AgreeInv, ToldInv
<1> HIDE DEF batch
<1>1. ToldInv'
  <2>1. \A q \in Reqs : \A e \in txn'[q].seen \cup txn'[q].batch :
          e.word \in held'[e.line]
    <3> SUFFICES ASSUME NEW q \in Reqs, NEW e \in txn'[q].seen \cup txn'[q].batch
                 PROVE  e.word \in held'[e.line]
      OBVIOUS
    <3>1. e \in txn[q].seen \cup txn[q].batch \/ (SiteApplies(batch) /\ e \in batch)
      BY <1>o, <1>n
    <3> QED BY <1>s, <1>l, <3>1
  <2>2. \A q \in Reqs : \A e \in txn'[q].batch : e.word = txn'[q].status[e.line]
    BY <1>o, <1>n, <1>w DEF AgreeInv, ToldInv
  <2>3. \A p, q \in Reqs : p # q =>
          (txn'[p].seen \cup txn'[p].batch) \cap (txn'[q].seen \cup txn'[q].batch) = {}
    <3> SUFFICES ASSUME NEW p \in Reqs, NEW q \in Reqs, p # q,
                        NEW e \in txn'[p].seen \cup txn'[p].batch,
                        e \in txn'[q].seen \cup txn'[q].batch
                 PROVE  FALSE
      OBVIOUS
    <3>1. \/ e \in txn[p].seen \cup txn[p].batch
          \/ SiteApplies(batch) /\ e \in batch /\ p = r
      BY <1>o, <1>n
    <3>2. \/ e \in txn[q].seen \cup txn[q].batch
          \/ SiteApplies(batch) /\ e \in batch /\ q = r
      BY <1>o, <1>n
    <3>3. ~(e \in txn[p].seen \cup txn[p].batch /\ e \in txn[q].seen \cup txn[q].batch)
      BY DEF AgreeInv, ToldInv
    <3> QED BY <1>s, <1>l, <3>1, <3>2, <3>3
  <2> QED BY <1>s, <2>1, <2>2, <2>3 DEF ToldInv
<1>2. LockInv'
  <2>1. \A q \in Reqs : ~Active(q)' => txn'[q].batch = {}
    BY <1>a, <1>n, <1>o DEF AgreeInv, LockInv
  <2> QED BY <1>o, <2>1 DEF AgreeInv, LockInv
<1>3. FreshInv'
  BY <1>o DEF AgreeInv, FreshInv
<1>4. SaveInv'
  <2> SUFFICES ASSUME NEW q \in Reqs, NEW e \in txn[q].op
               PROVE  /\ txn'[q].op = {e} /\ \A p \in Reqs \ {q} : txn'[p].op = {}
                      /\ e.word \in Allowed[status[e.line]] /\ e.word \notin SiteWords
                      /\ txn'[q].status[e.line] = e.word /\ e.line \in txn'[q].locks
                      /\ \A d \in txn'[q].batch : d.line \notin txn'[q].stale
                      /\ \A k \in txn'[q].stale : txn'[q].status[k] \in held'[k]
                      /\ txn'[q].phase = "open" => txn'[q].seen = {}
    BY <1>o DEF SaveInv
  <2>1. /\ txn[q].op = {e} /\ \A p \in Reqs \ {q} : txn[p].op = {}
        /\ e.word \in Allowed[status[e.line]] /\ e.word \notin SiteWords
        /\ txn[q].status[e.line] = e.word /\ e.line \in txn[q].locks
        /\ \A d \in txn[q].batch : d.line \notin txn[q].stale
        /\ \A k \in txn[q].stale : txn[q].status[k] \in held[k]
        /\ txn[q].phase = "open" => txn[q].seen = {}
    BY DEF AgreeInv, SaveInv
  <2>2. \A d \in txn'[q].batch : d.line \notin txn'[q].stale
    BY <1>o, <1>n, <1>s, <1>w, <2>1
  <2>3. \A k \in txn'[q].stale : txn'[q].status[k] \in held'[k]
    BY <1>o, <1>s, <2>1 DEF TypeOK, Transaction
  <2>4. txn'[q].phase = "open" => txn'[q].seen = {}
    BY <2>1
  <2> QED BY <1>o, <2>1, <2>2, <2>3, <2>4
<1>5. WayInv'
  <2>1. \A q \in Reqs : \A row \in txn'[q].rows : Reached(row.line, row.word)
    <3> SUFFICES ASSUME NEW q \in Reqs, NEW row \in txn'[q].rows
                 PROVE  Reached(row.line, row.word)
      OBVIOUS
    <3>1. CASE row \in txn[q].rows
      BY <3>1 DEF AgreeInv, WayInv
    <3>2. CASE q = r /\ row.line \in Lines /\ row.word = t.status[row.line]
      BY <1>a, <3>2 DEF AgreeInv, WayInv
    <3> QED BY <3>1, <3>2
  <2> QED BY <1>o, <1>r, <2>1 DEF AgreeInv, WayInv
<1> QED BY <1>s, <1>1, <1>2, <1>3, <1>4, <1>5 DEF AgreeInv

\* A request that runs again, or records its push, has told what it told.
LEMMA MarkAgree ==
  ASSUME OneWay, TypeOK, AgreeInv, NEW r \in Reqs, Mark(r)
  PROVE  AgreeInv'
<1> DEFINE t == txn[r]
           sent == {e.line : e \in t.batch}
           again == [Blank EXCEPT !.phase = "retry", !.op = t.op,
                                  !.seen = t.seen \cup t.batch]
           marked == [t EXCEPT !.phase = "done", !.seen = @ \cup t.batch,
                               !.last = With(@, t.batch), !.batch = {},
                               !.locks = @ \cup sent]
<1>t. t \in Transaction /\ t.phase = "answered" /\ Active(r)
  BY DEF TypeOK, Mark, Active
<1>u. UNCHANGED <<status, rows, cron, site, inbox, held>>
  BY DEF Mark
<1>q. \A q \in Reqs : q # r => txn'[q] = txn[q]
  BY DEF Mark, TypeOK
<1>n. \/ sent \cap t.stale # {} /\ txn'[r] = again
      \/ sent \cap t.stale = {} /\ txn'[r] = marked
  BY DEF Mark, TypeOK
<1>d. \A q \in Reqs \ {r} : txn[q].locks \cap sent = {}
  BY DEF Mark
<1>a. /\ again.phase = "retry" /\ again.op = t.op /\ again.batch = {}
      /\ again.seen = t.seen \cup t.batch /\ again.locks = {} /\ again.stale = {}
      /\ again.rows = {}
  BY DEF Blank
<1>m. /\ marked.phase = "done" /\ marked.op = t.op /\ marked.batch = {}
      /\ marked.seen = t.seen \cup t.batch /\ marked.locks = t.locks \cup sent
      /\ marked.stale = t.stale /\ marked.rows = t.rows /\ marked.status = t.status
  BY <1>t DEF Transaction
<1>f. /\ txn'[r].op = t.op /\ txn'[r].batch = {} /\ txn'[r].seen = t.seen \cup t.batch
      /\ txn'[r].phase # "open" /\ txn'[r].rows \subseteq t.rows
      /\ txn'[r].stale \subseteq t.stale
      /\ \/ ~Active(r)' /\ txn'[r].locks = {} /\ sent \cap t.stale # {}
         \/ /\ Active(r)' /\ txn'[r].locks = t.locks \cup sent /\ sent \cap t.stale = {}
            /\ txn'[r].status = t.status /\ txn'[r].stale = t.stale
  <2> HIDE DEF again, marked, sent
  <2> QED BY <1>n, <1>a, <1>m DEF Active
<1> HIDE DEF again, marked
<1>o. \A q \in Reqs : txn'[q].op = txn[q].op
  BY <1>f, <1>q
<1>r. \A l, w : Reached(l, w) => Reached(l, w)'
  BY <1>o, <1>u, ReachedKept
<1>v. ~Active(r)' => t.op = {}
  BY <1>f DEF AgreeInv, SaveInv
<1>b. \A e \in t.batch : e \in Entry /\ e.word = t.status[e.line]
  BY <1>t DEF AgreeInv, ToldInv, Transaction
<1>1. ToldInv'
  <2>1. \A q \in Reqs : /\ txn'[q].seen \cup txn'[q].batch
                           = txn[q].seen \cup txn[q].batch
                        /\ txn'[q].batch \in {txn[q].batch, {}}
    BY <1>f, <1>q
  <2>2. \A q \in Reqs : \A e \in txn'[q].batch : e.word = txn'[q].status[e.line]
    BY <1>f, <1>q DEF AgreeInv, ToldInv
  <2> QED BY <1>u, <2>1, <2>2 DEF AgreeInv, ToldInv
<1>2. LockInv'
  <2>1. \A p, q \in Reqs : p # q => txn'[p].locks \cap txn'[q].locks = {}
    <3>1. \A q \in Reqs : \/ q # r /\ txn'[q].locks = txn[q].locks
                          \/ q = r /\ txn'[q].locks \subseteq t.locks \cup sent
      BY <1>f, <1>q
    <3> HIDE DEF sent
    <3>2. \A p, q \in Reqs : p # q => txn[p].locks \cap txn[q].locks = {}
      BY DEF AgreeInv, LockInv
    <3> QED BY <1>d, <3>1, <3>2
  <2>2. \A q \in Reqs : txn'[q].locks \cap txn'[q].stale = {}
    <3>1. t.locks \cap t.stale = {}
      BY DEF AgreeInv, LockInv
    <3>2. txn'[r].locks \cap txn'[r].stale = {}
      <4> HIDE DEF sent, t
      <4> QED BY <1>f, <3>1
    <3> QED BY <1>q, <3>2 DEF AgreeInv, LockInv
  <2>3. ASSUME NEW q \in Reqs, NEW l \in txn'[q].locks
        PROVE  \/ \E w \in Words : [line |-> l, word |-> w] \in txn'[q].op
               \/ [line |-> l, word |-> txn'[q].status[l]] \in txn'[q].seen
    <3>1. CASE q # r
      BY <1>q, <3>1 DEF AgreeInv, LockInv
    <3>2. CASE q = r /\ l \in t.locks
      BY <1>f, <3>2 DEF AgreeInv, LockInv
    <3>3. CASE q = r /\ l \in sent
      <4>1. PICK e \in t.batch : e.line = l
        BY <3>3
      <4>2. e = [line |-> l, word |-> t.status[l]]
        BY <1>b, <4>1 DEF Entry
      <4> QED BY <1>f, <3>3, <4>2
    <3> QED BY <1>f, <3>1, <3>2, <3>3
  <2>4. \A q \in Reqs :
          Active(q)' \/ (txn'[q].op = {} /\ txn'[q].batch = {} /\ txn'[q].locks = {})
    <3>1. \A q \in Reqs : q # r => (Active(q)' <=> Active(q))
      BY <1>q DEF Active
    <3> QED BY <1>f, <1>q, <1>v, <3>1 DEF AgreeInv, LockInv
  <2> QED BY <2>1, <2>2, <2>3, <2>4 DEF LockInv
<1>3. FreshInv'
  <2>1. \A q \in Reqs : Active(q)' =>
          /\ Active(q) /\ txn'[q].status = txn[q].status
          /\ txn'[q].stale = txn[q].stale /\ txn'[q].op = txn[q].op
    BY <1>f, <1>q, <1>t DEF Active
  <2> QED BY <1>u, <2>1 DEF AgreeInv, FreshInv
<1>4. SaveInv'
  <2> SUFFICES ASSUME NEW q \in Reqs, NEW e \in txn[q].op
               PROVE  /\ txn'[q].op = {e} /\ \A p \in Reqs \ {q} : txn'[p].op = {}
                      /\ e.word \in Allowed[status[e.line]] /\ e.word \notin SiteWords
                      /\ txn'[q].status[e.line] = e.word /\ e.line \in txn'[q].locks
                      /\ \A d \in txn'[q].batch : d.line \notin txn'[q].stale
                      /\ \A k \in txn'[q].stale : txn'[q].status[k] \in held[k]
                      /\ txn'[q].phase = "open" => txn'[q].seen = {}
    BY <1>o, <1>u DEF SaveInv
  <2>1. /\ txn[q].op = {e} /\ \A p \in Reqs \ {q} : txn[p].op = {}
        /\ e.word \in Allowed[status[e.line]] /\ e.word \notin SiteWords
        /\ txn[q].status[e.line] = e.word /\ e.line \in txn[q].locks
        /\ \A d \in txn[q].batch : d.line \notin txn[q].stale
        /\ \A k \in txn[q].stale : txn[q].status[k] \in held[k]
        /\ txn[q].phase = "open" => txn[q].seen = {}
    BY DEF AgreeInv, SaveInv
  <2>2. CASE q # r
    BY <1>o, <1>q, <2>1, <2>2
  <2>3. CASE q = r
    <3>1. /\ txn'[r].locks = t.locks \cup sent /\ txn'[r].status = t.status
          /\ txn'[r].stale = t.stale
      BY <1>f, <1>v, <2>3
    <3> QED BY <1>f, <1>o, <2>1, <2>3, <3>1
  <2> QED BY <2>2, <2>3
<1>5. WayInv'
  <2>1. \A q \in Reqs : Active(q)' => Active(q) /\ txn'[q].status = txn[q].status
    BY <1>f, <1>q, <1>t DEF Active
  <2>2. \A q \in Reqs : txn'[q].rows \subseteq txn[q].rows
    BY <1>f, <1>q
  <2> QED BY <1>r, <1>u, <2>1, <2>2 DEF AgreeInv, WayInv
<1>6. SiteInv'
  BY <1>o, <1>r, <1>u DEF AgreeInv, SiteInv, Due, Sets
<1> QED BY <1>1, <1>2, <1>3, <1>4, <1>5, <1>6 DEF AgreeInv

\* What a commit writes: the line of its save, and lines that have not changed.
LEMMA CommitWrites ==
  ASSUME TypeOK, AgreeInv, NEW r \in Reqs, Commit(r)
  PROVE  /\ status' \in [Lines -> Words]
         /\ \A l \in Lines : \/ status'[l] = status[l]
                             \/ [line |-> l, word |-> status'[l]] \in txn[r].op
         /\ \A e \in txn[r].op : status'[e.line] = e.word
<1> DEFINE t == txn[r]
<1>t. t \in Transaction /\ Active(r)
  BY DEF TypeOK, Commit, Active
<1>1. \A l \in Lines : status'[l] = IF l \in t.locks THEN t.status[l] ELSE status[l]
  BY DEF Commit, Merge
<1>2. status' \in [Lines -> Words]
  BY <1>t, MergeType DEF Commit, TypeOK, Transaction
<1>3. \A e \in t.op : status'[e.line] = e.word
  BY <1>1, SetsType DEF AgreeInv, SaveInv
<1>4. ASSUME NEW l \in Lines, status'[l] # status[l]
      PROVE  [line |-> l, word |-> status'[l]] \in t.op
  <2>1. l \in t.locks /\ t.status[l] # status[l]
    BY <1>1, <1>4
  <2>2. l \notin t.stale
    BY <2>1 DEF AgreeInv, LockInv
  <2>3. PICK w \in Words : [line |-> l, word |-> w] \in t.op
    BY <1>t, <2>1, <2>2 DEF AgreeInv, FreshInv
  <2> QED BY <1>3, <2>3
<1> QED BY <1>2, <1>3, <1>4

\* A commit leaves the website told of all that it may still be told of.
LEMMA CommitAgree ==
  ASSUME OneWay, TypeOK, AgreeInv, NEW r \in Reqs, Commit(r)
  PROVE  AgreeInv'
<1> DEFINE t == txn[r]
           mid == [txn EXCEPT ![r] = Blank]
<1>t. t \in Transaction /\ t.phase = "done" /\ Active(r)
  BY DEF TypeOK, Commit, Active
<1>u. /\ UNCHANGED <<cron, site, inbox, held>>
      /\ rows' = rows \cup t.rows
  BY DEF Commit
<1>m. /\ mid \in [Reqs -> Transaction] /\ mid[r] = Blank
      /\ \A q \in Reqs : q # r => mid[q] = txn[q]
  BY BlankType DEF TypeOK
<1>x. txn' = Staled(mid, t.locks)
  BY DEF Commit
<1>b. /\ Blank.phase = "idle" /\ Blank.op = {} /\ Blank.batch = {} /\ Blank.seen = {}
      /\ Blank.rows = {} /\ Blank.locks = {} /\ Blank.stale = {}
  BY DEF Blank
<1> HIDE DEF mid
<1>n. txn'[r] = Blank
  BY <1>b, <1>m, <1>x DEF Staled
<1>q. \A q \in Reqs : q # r =>
        /\ txn'[q].op = txn[q].op /\ txn'[q].batch = txn[q].batch
        /\ txn'[q].seen = txn[q].seen /\ txn'[q].rows = txn[q].rows
        /\ txn'[q].locks = txn[q].locks /\ txn'[q].status = txn[q].status
        /\ txn'[q].phase = txn[q].phase
        /\ \/ Active(q) /\ txn'[q].stale = txn[q].stale \cup t.locks
           \/ ~Active(q) /\ txn'[q].stale = txn[q].stale
  <2> SUFFICES ASSUME NEW q \in Reqs, q # r
               PROVE  /\ txn'[q].op = txn[q].op /\ txn'[q].batch = txn[q].batch
                      /\ txn'[q].seen = txn[q].seen /\ txn'[q].rows = txn[q].rows
                      /\ txn'[q].locks = txn[q].locks /\ txn'[q].status = txn[q].status
                      /\ txn'[q].phase = txn[q].phase
                      /\ \/ Active(q) /\ txn'[q].stale = txn[q].stale \cup t.locks
                         \/ ~Active(q) /\ txn'[q].stale = txn[q].stale
    OBVIOUS
  <2>1. txn'[q] = IF Active(q) THEN [txn[q] EXCEPT !.stale = @ \cup t.locks]
                  ELSE txn[q]
    BY <1>m, <1>x DEF Staled, Active
  <2>2. txn[q] \in Transaction
    BY DEF TypeOK
  <2> HIDE DEF t
  <2> QED BY <2>1, <2>2 DEF Transaction
<1>a. /\ ~Active(r)'
      /\ \A q \in Reqs : q # r => (Active(q)' <=> Active(q))
  BY <1>n, <1>q, <1>b DEF Active
<1>c. /\ status' \in [Lines -> Words]
      /\ \A l \in Lines : \/ status'[l] = status[l]
                          \/ [line |-> l, word |-> status'[l]] \in t.op
      /\ \A e \in t.op : status'[e.line] = e.word
  BY CommitWrites
<1>s. \A e \in t.op : /\ e \in Entry /\ e.line \in Lines /\ e.word \in Words
                      /\ e = [line |-> e.line, word |-> e.word]
                      /\ t.op = {e} /\ \A p \in Reqs \ {r} : txn[p].op = {}
                      /\ e.word \in Allowed[status[e.line]] /\ e.word \notin SiteWords
  BY SetsType DEF AgreeInv, SaveInv
<1>r. ASSUME NEW l \in Lines, NEW w \in Words, Reached(l, w)
      PROVE  Reached(l, w)'
  <2>1. CASE Passed(w, status[l])
    <3>1. CASE status'[l] = status[l]
      BY <2>1, <3>1 DEF Reached
    <3>2. CASE [line |-> l, word |-> status'[l]] \in t.op
      <4>1. status'[l] \in Words \cap Allowed[status[l]] /\ status[l] \in Words
        BY <1>s, <1>c, <3>2 DEF TypeOK
      <4> QED BY <2>1, <4>1, PassedOn DEF Reached
    <3> QED BY <1>c, <3>1, <3>2
  <2>2. ASSUME NEW v \in Words, Sets(l, v), Passed(w, v)
        PROVE  Reached(l, w)'
    <3>1. PICK q \in Reqs : [line |-> l, word |-> v] \in txn[q].op
      BY <2>2 DEF Sets
    <3>2. CASE q = r
      <4>1. status'[l] = v
        BY <1>c, <3>1, <3>2
      <4> QED BY <2>2, <4>1 DEF Reached
    <3>3. CASE q # r
      <4>1. Sets(l, v)'
        BY <1>q, <3>1, <3>3 DEF Sets
      <4> QED BY <2>2, <4>1 DEF Reached
    <3> QED BY <3>2, <3>3
  <2> QED BY <1>r, <2>1, <2>2 DEF Reached
<1>k. \A q \in Reqs : q # r => txn[q].locks \cap t.locks = {}
  BY DEF AgreeInv, LockInv
<1>p. \A l \in t.locks : l \in Lines
  BY <1>t DEF Transaction
<1>1. ToldInv'
  <2>1. \A q \in Reqs : /\ txn'[q].seen \cup txn'[q].batch
                           \subseteq txn[q].seen \cup txn[q].batch
    BY <1>n, <1>q, <1>b
  <2>2. \A q \in Reqs : \A e \in txn'[q].batch : e.word = txn'[q].status[e.line]
    BY <1>n, <1>q, <1>b DEF AgreeInv, ToldInv
  <2> QED BY <1>u, <2>1, <2>2 DEF AgreeInv, ToldInv
<1>2. LockInv'
  <2>1. \A p, q \in Reqs : p # q => txn'[p].locks \cap txn'[q].locks = {}
    BY <1>n, <1>q, <1>b DEF AgreeInv, LockInv
  <2>2. \A q \in Reqs : txn'[q].locks \cap txn'[q].stale = {}
    <3> SUFFICES ASSUME NEW q \in Reqs, q # r
                 PROVE  txn'[q].locks \cap txn'[q].stale = {}
      BY <1>n, <1>b
    <3>1. txn[q].locks \cap txn[q].stale = {}
      BY DEF AgreeInv, LockInv
    <3> HIDE DEF t
    <3> QED BY <1>q, <1>k, <3>1
  <2>3. \A q \in Reqs : \A l \in txn'[q].locks :
          \/ \E w \in Words : [line |-> l, word |-> w] \in txn'[q].op
          \/ [line |-> l, word |-> txn'[q].status[l]] \in txn'[q].seen
    BY <1>n, <1>q, <1>b DEF AgreeInv, LockInv
  <2>4. \A q \in Reqs :
          Active(q)' \/ (txn'[q].op = {} /\ txn'[q].batch = {} /\ txn'[q].locks = {})
    BY <1>n, <1>q, <1>a, <1>b DEF AgreeInv, LockInv
  <2> QED BY <2>1, <2>2, <2>3, <2>4 DEF LockInv
<1>3. FreshInv'
  <2> SUFFICES ASSUME NEW q \in Reqs, q # r, Active(q), NEW l \in Lines
               PROVE  \/ txn'[q].status[l] = status'[l] \/ l \in txn'[q].stale
                      \/ \E w \in Words : [line |-> l, word |-> w] \in txn'[q].op
    BY <1>a DEF FreshInv
  <2>1. \/ txn[q].status[l] = status[l] \/ l \in txn[q].stale
        \/ \E w \in Words : [line |-> l, word |-> w] \in txn[q].op
    BY DEF AgreeInv, FreshInv
  <2>2. l \in t.locks \/ status'[l] = status[l]
    BY DEF Commit, Merge
  <2> HIDE DEF t
  <2> QED BY <1>q, <2>1, <2>2
<1>4. SaveInv'
  <2> SUFFICES ASSUME NEW q \in Reqs, q # r, NEW e \in txn[q].op
               PROVE  /\ txn'[q].op = {e} /\ \A p \in Reqs \ {q} : txn'[p].op = {}
                      /\ e.word \in Allowed[status'[e.line]] /\ e.word \notin SiteWords
                      /\ txn'[q].status[e.line] = e.word /\ e.line \in txn'[q].locks
                      /\ \A d \in txn'[q].batch : d.line \notin txn'[q].stale
                      /\ \A k \in txn'[q].stale : txn'[q].status[k] \in held[k]
                      /\ txn'[q].phase = "open" => txn'[q].seen = {}
    BY <1>n, <1>q, <1>b, <1>u DEF SaveInv
  <2>1. /\ txn[q].op = {e} /\ \A p \in Reqs \ {q} : txn[p].op = {}
        /\ e.word \in Allowed[status[e.line]] /\ e.word \notin SiteWords
        /\ txn[q].status[e.line] = e.word /\ e.line \in txn[q].locks
        /\ \A d \in txn[q].batch : d.line \notin txn[q].stale
        /\ \A k \in txn[q].stale : txn[q].status[k] \in held[k]
        /\ txn[q].phase = "open" => txn[q].seen = {}
    BY DEF AgreeInv, SaveInv
  <2>2. t.op = {} /\ \A p \in Reqs \ {q} : txn'[p].op = {}
    BY <1>n, <1>q, <1>b, <2>1
  <2>3. e.line \in Lines /\ status'[e.line] = status[e.line]
    BY <1>c, <2>2, SetsType
  <2>4. Active(q)
    BY DEF AgreeInv, LockInv
  \* A line r has written: q sees it as r does, and r has told its status.
  <2>5. ASSUME NEW k \in t.locks
        PROVE  /\ txn[q].status[k] \in held[k]
               /\ \A d \in txn[q].batch : d.line # k
    <3>1. k \in Lines /\ k # e.line
      BY <1>k, <1>p, <2>1
    <3>2. ~\E w \in Words : [line |-> k, word |-> w] \in txn[q].op
      BY <2>1, <3>1
    <3>3. txn[q].status[k] = status[k] \/ k \in txn[q].stale
      BY <2>4, <3>1, <3>2 DEF AgreeInv, FreshInv
    <3>4. k \notin t.stale
      BY DEF AgreeInv, LockInv
    <3>5. t.status[k] = status[k]
      BY <1>t, <2>2, <3>1, <3>4 DEF AgreeInv, FreshInv
    <3>6. [line |-> k, word |-> status[k]] \in t.seen
      <4>1. \/ \E w \in Words : [line |-> k, word |-> w] \in t.op
            \/ [line |-> k, word |-> t.status[k]] \in t.seen
        BY DEF AgreeInv, LockInv
      <4> QED BY <2>2, <3>5, <4>1
    <3>7. status[k] \in held[k]
      BY <3>6 DEF AgreeInv, ToldInv
    <3>8. txn[q].status[k] \in held[k]
      BY <2>1, <3>3, <3>7
    <3>9. ASSUME NEW d \in txn[q].batch, d.line = k
          PROVE  FALSE
      <4>1. d \in Entry
        BY DEF TypeOK, Transaction
      <4>2. txn[q].status[k] = status[k]
        BY <2>1, <3>3, <3>9
      <4>3. d.word = status[k]
        BY <3>9, <4>2 DEF AgreeInv, ToldInv
      <4>4. d = [line |-> k, word |-> status[k]]
        BY <3>9, <4>1, <4>3 DEF Entry
      <4>5. (t.seen \cup t.batch) \cap (txn[q].seen \cup txn[q].batch) = {}
        BY DEF AgreeInv, ToldInv
      <4> QED BY <3>6, <4>4, <4>5, <3>9
    <3> QED BY <3>8, <3>9
  <2>6. /\ \A d \in txn'[q].batch : d.line \notin txn'[q].stale
        /\ \A k \in txn'[q].stale : txn'[q].status[k] \in held[k]
    <3>1. txn'[q].batch = txn[q].batch /\ txn'[q].status = txn[q].status
          /\ txn'[q].stale = txn[q].stale \cup t.locks
      BY <1>q, <2>4
    <3> HIDE DEF t
    <3> QED BY <2>1, <2>5, <3>1
  <2> QED BY <1>q, <2>1, <2>2, <2>3, <2>6
<1>5. WayInv'
  <2>1. \A q \in Reqs : Active(q)' =>
          \A l \in Lines : Reached(l, txn[q].status[l])'
    <3> SUFFICES ASSUME NEW q \in Reqs, q # r, Active(q), NEW l \in Lines
                 PROVE  Reached(l, txn[q].status[l])'
      BY <1>a
    <3>1. txn'[q].status[l] = txn[q].status[l] /\ txn[q].status[l] \in Words
      BY <1>q DEF TypeOK, Transaction
    <3>2. Reached(l, txn[q].status[l])
      BY DEF AgreeInv, WayInv
    <3>3. \A w \in Words : Reached(l, w) => Reached(l, w)'
      BY <1>r
    <3> QED BY <3>1, <3>2, <3>3 DEF Reached
  <2>2. ASSUME NEW row \in Row, Reached(row.line, row.word)
        PROVE  Reached(row.line, row.word)'
    BY <1>r, <2>2 DEF Row
  <2>3. \A q \in Reqs : \A row \in txn'[q].rows : Reached(row.line, row.word)'
    <3> SUFFICES ASSUME NEW q \in Reqs, NEW row \in txn'[q].rows
                 PROVE  Reached(row.line, row.word)'
      OBVIOUS
    <3>1. row \in txn[q].rows
      BY <1>n, <1>q, <1>b
    <3>2. row \in Row
      BY <3>1 DEF TypeOK, Transaction
    <3> QED BY <2>2, <3>1, <3>2 DEF AgreeInv, WayInv
  <2>4. \A row \in rows' \cup cron'.todo \cup cron'.out : Reached(row.line, row.word)'
    <3> SUFFICES ASSUME NEW row \in rows' \cup cron'.todo \cup cron'.out
                 PROVE  Reached(row.line, row.word)'
      OBVIOUS
    <3>1. row \in rows \cup cron.todo \cup cron.out \/ row \in t.rows
      BY <1>u
    <3>2. row \in Row
      BY <1>t, <3>1 DEF TypeOK, Transaction, CronRun
    <3> QED BY <2>2, <3>1, <3>2 DEF AgreeInv, WayInv
  <2> QED BY <2>1, <2>3, <2>4 DEF WayInv
<1>6. SiteInv'
  <2>1. ASSUME NEW l \in Lines
        PROVE  Reached(l, site[l])' \/ [line |-> l, word |-> site'[l]] \in inbox'
    <3>1. Reached(l, site[l]) \/ [line |-> l, word |-> site[l]] \in inbox
      BY DEF AgreeInv, SiteInv
    <3>2. site[l] \in Words /\ site' = site /\ inbox' = inbox
      BY <1>u DEF TypeOK
    <3>3. Reached(l, site[l]) => Reached(l, site[l])'
      <4>1. \A w \in Words : Reached(l, w) => Reached(l, w)'
        BY <1>r
      <4> QED BY <3>2, <4>1 DEF Reached
    <3> QED BY <3>1, <3>2, <3>3
  <2>2. ASSUME NEW l \in Lines, status'[l] \in SiteWords
        PROVE  site'[l] = status'[l]
    <3>1. status'[l] = status[l]
      BY <1>c, <1>s, <2>2
    <3> QED BY <1>u, <2>2, <3>1 DEF AgreeInv, SiteInv
  <2>3. ASSUME NEW m \in inbox
        PROVE  m.word \in SiteWords /\ site[m.line] = m.word /\ Due(m.line, m.word)'
    <3>1. m.word \in SiteWords /\ site[m.line] = m.word /\ Due(m.line, m.word)
          /\ m.line \in Lines
      BY DEF AgreeInv, SiteInv, TypeOK, Entry
    <3>2. CASE t.op = {}
      <4>1. status'[m.line] = status[m.line]
        BY <1>c, <3>1, <3>2
      <4>2. \A w : Sets(m.line, w) <=> Sets(m.line, w)'
        BY <1>n, <1>q, <1>b, <3>2 DEF Sets
      <4> QED BY <3>1, <4>1, <4>2 DEF Due
    <3>3. ASSUME NEW e \in t.op
          PROVE  Due(m.line, m.word)'
      <4>1. \A w : ~Sets(m.line, w)'
        BY <1>n, <1>q, <1>b, <1>s DEF Sets
      <4>2. \A w : Sets(m.line, w) => m.line = e.line /\ w = e.word
        BY <1>s DEF Sets
      <4>3. m.word \in Allowed[status'[m.line]]
        <5>1. CASE m.line = e.line
          <6>1. Sets(m.line, e.word)
            BY <1>s, <5>1 DEF Sets
          <6>2. m.word \in Allowed[e.word]
            BY <1>s, <3>1, <4>2, <6>1 DEF Due
          <6> QED BY <1>c, <5>1, <6>2
        <5>2. CASE m.line # e.line
          <6>1. status'[m.line] = status[m.line]
            <7>1. [line |-> m.line, word |-> status'[m.line]] \notin t.op
              BY <4>2, <5>2 DEF Sets
            <7> QED BY <1>c, <3>1, <7>1
          <6> QED BY <3>1, <4>2, <5>2, <6>1 DEF Due
        <5> QED BY <5>1, <5>2
      <4> QED BY <4>1, <4>3 DEF Due
    <3> QED BY <3>1, <3>2, <3>3
  <2> QED BY <1>u, <2>1, <2>2, <2>3 DEF SiteInv
<1> QED BY <1>1, <1>2, <1>3, <1>4, <1>5, <1>6 DEF AgreeInv

\* A request begins, alone with the line it sets.
LEMMA OpenAgree ==
  ASSUME OneWay, TypeOK, AgreeInv, NEW r \in Reqs, NEW op \in SUBSET Entry,
         NEW seen, Open(r, op, seen), ~Active(r), seen \subseteq txn[r].seen,
         \A e \in op : /\ op = {e} /\ seen = {}
                       /\ e.word \in Allowed[status[e.line]] /\ e.word \notin SiteWords,
         UNCHANGED <<status, rows, cron, site, inbox, held>>
  PROVE  AgreeInv'
<1> DEFINE new == [Blank EXCEPT !.phase = "open", !.op = op,
                     !.status = With(status, op), !.last = last,
                     !.seen = seen, !.locks = {e.line : e \in op}]
<1>1. txn' = [txn EXCEPT ![r] = new]
  BY DEF Open
<1>2. /\ new.phase = "open" /\ new.op = op /\ new.status = With(status, op)
      /\ new.seen = seen /\ new.locks = {e.line : e \in op} /\ new.rows = {}
      /\ new.batch = {} /\ new.stale = {}
  BY DEF Blank
<1> HIDE DEF new
<1>n. /\ txn'[r].op = op /\ txn'[r].status = With(status, op) /\ txn'[r].phase = "open"
      /\ txn'[r].seen = seen /\ txn'[r].locks = {e.line : e \in op}
      /\ txn'[r].rows = {} /\ txn'[r].batch = {} /\ txn'[r].stale = {}
  BY <1>1, <1>2 DEF TypeOK
<1>q. \A q \in Reqs : q # r => txn'[q] = txn[q]
  BY <1>1 DEF TypeOK
<1>a. /\ Active(r)' /\ \A q \in Reqs : q # r => (Active(q)' <=> Active(q))
  BY <1>n, <1>q DEF Active
<1>o. txn[r].op = {}
  BY DEF AgreeInv, LockInv
<1>r. \A l, w : Reached(l, w) => Reached(l, w)'
  BY <1>n, <1>o, <1>q, ReachedKept
<1>h. \A e \in op : \A q \in Reqs \ {r} : txn[q].op = {} /\ e.line \notin txn[q].locks
  <2> SUFFICES ASSUME NEW e \in op, NEW q \in Reqs \ {r}
               PROVE  txn[q].op = {} /\ e.line \notin txn[q].locks
    OBVIOUS
  <2>1. ~Holding(q) /\ e.line \notin txn[q].locks
    BY DEF Open
  <2>2. CASE Active(q)
    BY <2>1, <2>2 DEF Holding, Active
  <2>3. CASE ~Active(q)
    BY <2>1, <2>3 DEF AgreeInv, LockInv
  <2> QED BY <2>2, <2>3
<1>e. \A e \in op : /\ e.line \in Lines /\ e.word \in Words
                    /\ e = [line |-> e.line, word |-> e.word]
                    /\ With(status, op)[e.line] = e.word
  <2>1. \A x, y \in op : x.line = y.line => x = y
    OBVIOUS
  <2>2. \A e \in op : With(status, op)[e.line] = e.word
    BY <2>1, WithEntry DEF TypeOK
  <2> QED BY <2>2 DEF Entry
<1>w. \A l \in Lines : \/ With(status, op)[l] = status[l]
                       \/ [line |-> l, word |-> With(status, op)[l]] \in op
  BY <1>e, WithCases DEF TypeOK
<1>3. ToldInv'
  <2>1. \A q \in Reqs : txn'[q].seen \cup txn'[q].batch \subseteq txn[q].seen \cup txn[q].batch
    BY <1>n, <1>q
  <2>2. \A q \in Reqs : \A e \in txn'[q].batch : e.word = txn'[q].status[e.line]
    BY <1>n, <1>q DEF AgreeInv, ToldInv
  <2> QED BY <2>1, <2>2 DEF AgreeInv, ToldInv
<1>4. LockInv'
  <2>1. \A q \in Reqs : q # r => txn'[q].locks \cap txn'[r].locks = {}
    BY <1>n, <1>q, <1>h
  <2>2. \A p, q \in Reqs : p # q => txn'[p].locks \cap txn'[q].locks = {}
    BY <1>q, <2>1 DEF AgreeInv, LockInv
  <2>3. \A q \in Reqs : txn'[q].locks \cap txn'[q].stale = {}
    BY <1>n, <1>q DEF AgreeInv, LockInv
  <2>4. \A l \in txn'[r].locks : \E w \in Words : [line |-> l, word |-> w] \in txn'[r].op
    BY <1>n, <1>e
  <2>5. \A q \in Reqs : q # r => \A l \in txn'[q].locks :
          \/ \E w \in Words : [line |-> l, word |-> w] \in txn'[q].op
          \/ [line |-> l, word |-> txn'[q].status[l]] \in txn'[q].seen
    BY <1>q DEF AgreeInv, LockInv
  <2>6. \A q \in Reqs :
          Active(q)' \/ (txn'[q].op = {} /\ txn'[q].batch = {} /\ txn'[q].locks = {})
    BY <1>a, <1>q DEF AgreeInv, LockInv
  <2> QED BY <2>2, <2>3, <2>4, <2>5, <2>6 DEF LockInv
<1>5. FreshInv'
  <2>1. \A l \in Lines : \/ txn'[r].status[l] = status[l]
                         \/ \E w \in Words : [line |-> l, word |-> w] \in txn'[r].op
    BY <1>n, <1>e, <1>w
  <2>2. \A q \in Reqs : q # r => (Active(q)' => \A l \in Lines :
          \/ txn'[q].status[l] = status[l] \/ l \in txn'[q].stale
          \/ \E w \in Words : [line |-> l, word |-> w] \in txn'[q].op)
    BY <1>a, <1>q DEF AgreeInv, FreshInv
  <2> QED BY <2>1, <2>2 DEF FreshInv
<1>6. SaveInv'
  <2> SUFFICES ASSUME NEW q \in Reqs, NEW e \in txn'[q].op
               PROVE  /\ txn'[q].op = {e} /\ \A p \in Reqs \ {q} : txn'[p].op = {}
                      /\ e.word \in Allowed[status[e.line]] /\ e.word \notin SiteWords
                      /\ txn'[q].status[e.line] = e.word /\ e.line \in txn'[q].locks
                      /\ \A d \in txn'[q].batch : d.line \notin txn'[q].stale
                      /\ \A k \in txn'[q].stale : txn'[q].status[k] \in held[k]
                      /\ txn'[q].phase = "open" => txn'[q].seen = {}
    BY DEF SaveInv
  <2>1. CASE q = r
    BY <1>n, <1>q, <1>h, <1>e, <2>1
  <2>2. CASE q # r
    <3>1. e \in txn[q].op
      BY <1>q, <2>2
    <3>2. op = {}
      BY <1>h, <2>2, <3>1
    <3> QED BY <1>n, <1>q, <1>o, <2>2, <3>1, <3>2 DEF AgreeInv, SaveInv
  <2> QED BY <2>1, <2>2
<1>7. WayInv'
  <2>1. ASSUME NEW l \in Lines
        PROVE  Reached(l, txn[r].status[l])'
    <3>1. txn'[r].status[l] \in Words
      BY <1>n, WithType DEF TypeOK
    <3>2. CASE txn'[r].status[l] = status[l]
      BY <3>2 DEF Reached, Passed
    <3>3. CASE [line |-> l, word |-> txn'[r].status[l]] \in txn'[r].op
      BY <3>1, <3>3 DEF Reached, Sets, Passed
    <3> QED BY <1>n, <1>w, <3>2, <3>3
  <2>2. ASSUME NEW q \in Reqs, q # r, Active(q), NEW l \in Lines
        PROVE  Reached(l, txn[q].status[l])'
    <3>1. Reached(l, txn[q].status[l]) /\ txn'[q].status[l] = txn[q].status[l]
      BY <1>q, <2>2 DEF AgreeInv, WayInv
    <3> QED BY <1>r, <3>1
  <2>3. \A q \in Reqs : \A row \in txn'[q].rows : Reached(row.line, row.word)'
    BY <1>n, <1>q, <1>r DEF AgreeInv, WayInv
  <2>4. \A row \in rows \cup cron.todo \cup cron.out : Reached(row.line, row.word)'
    BY <1>r DEF AgreeInv, WayInv
  <2> QED BY <1>a, <2>1, <2>2, <2>3, <2>4 DEF WayInv
<1>8. SiteInv'
  <2>1. ASSUME NEW l \in Lines
        PROVE  Reached(l, site[l])' \/ [line |-> l, word |-> site[l]] \in inbox
    BY <1>r DEF AgreeInv, SiteInv
  <2>2. ASSUME NEW m \in inbox
        PROVE  m.word \in SiteWords /\ site[m.line] = m.word /\ Due(m.line, m.word)'
    <3>1. m.word \in SiteWords /\ site[m.line] = m.word /\ Due(m.line, m.word)
          /\ m.line \in Lines
      BY DEF AgreeInv, SiteInv, TypeOK, Entry
    <3>2. CASE op = {}
      BY <1>n, <1>q, <1>o, <3>1, <3>2 DEF Due, Sets
    <3>3. ASSUME NEW e \in op
          PROVE  Due(m.line, m.word)'
      <4>1. \A w : ~Sets(m.line, w)
        BY <1>h, <1>o, <3>3 DEF Sets
      <4>2. m.word \in Allowed[status[m.line]]
        BY <3>1, <4>1 DEF Due
      <4>3. m.line # e.line
        <5>1. status[m.line] \in Words /\ m.word \in Words
          BY <3>1, SyncAssumption DEF TypeOK
        <5> QED BY <1>e, <3>1, <4>2, <5>1 DEF OneWay
      <4>4. \A w : ~Sets(m.line, w)'
        <5>1. \A w : [line |-> m.line, word |-> w] # e
          BY <4>3
        <5> QED BY <1>h, <1>n, <1>q, <5>1 DEF Sets
      <4> QED BY <4>2, <4>4 DEF Due
    <3> QED BY <3>1, <3>2, <3>3
  <2> QED BY <2>1, <2>2 DEF AgreeInv, SiteInv
<1> QED BY <1>3, <1>4, <1>5, <1>6, <1>7, <1>8 DEF AgreeInv

\* The website's call finds the line where the website changed it.
LEMMA ReceiveAgree ==
  ASSUME OneWay, TypeOK, AgreeInv, NEW m \in inbox, Receive(m)
  PROVE  AgreeInv'
<1>m. m.line \in Lines /\ m.word \in Words
  BY DEF TypeOK, Entry
<1>u. /\ UNCHANGED <<rows, cron, site, held>>
      /\ inbox' = inbox \ {m}
  BY DEF Receive
<1>o. \A q \in Reqs : txn[q].op = {} /\ m.line \notin txn[q].locks
  BY DEF Receive, Holding, Active, AgreeInv, LockInv
<1>d. m.word \in SiteWords /\ site[m.line] = m.word /\ m.word \in Allowed[status[m.line]]
  BY <1>o DEF AgreeInv, SiteInv, Due, Sets
<1>s. /\ status' = [status EXCEPT ![m.line] = m.word]
      /\ txn' = Staled(txn, {m.line})
  BY DEF Receive
<1>t. /\ status'[m.line] = m.word
      /\ \A l \in Lines : l # m.line => status'[l] = status[l]
  BY <1>m, <1>s DEF TypeOK
<1>q. \A q \in Reqs :
        /\ txn'[q].op = txn[q].op /\ txn'[q].batch = txn[q].batch
        /\ txn'[q].seen = txn[q].seen /\ txn'[q].rows = txn[q].rows
        /\ txn'[q].locks = txn[q].locks /\ txn'[q].status = txn[q].status
        /\ txn'[q].phase = txn[q].phase
        /\ \/ Active(q) /\ txn'[q].stale = txn[q].stale \cup {m.line}
           \/ ~Active(q) /\ txn'[q].stale = txn[q].stale
  <2> SUFFICES ASSUME NEW q \in Reqs
               PROVE  /\ txn'[q].op = txn[q].op /\ txn'[q].batch = txn[q].batch
                      /\ txn'[q].seen = txn[q].seen /\ txn'[q].rows = txn[q].rows
                      /\ txn'[q].locks = txn[q].locks /\ txn'[q].status = txn[q].status
                      /\ txn'[q].phase = txn[q].phase
                      /\ \/ Active(q) /\ txn'[q].stale = txn[q].stale \cup {m.line}
                         \/ ~Active(q) /\ txn'[q].stale = txn[q].stale
    OBVIOUS
  <2>1. txn'[q] = IF Active(q) THEN [txn[q] EXCEPT !.stale = @ \cup {m.line}]
                  ELSE txn[q]
    BY <1>s DEF Staled, Active
  <2>2. txn[q] \in Transaction
    BY DEF TypeOK
  <2> QED BY <2>1, <2>2 DEF Transaction
<1>a. \A q \in Reqs : Active(q)' <=> Active(q)
  BY <1>q DEF Active
<1>r. ASSUME NEW l \in Lines, NEW w \in Words, Reached(l, w)
      PROVE  Reached(l, w)'
  <2>1. Passed(w, status[l])
    BY <1>o, <1>r DEF Reached, Sets
  <2>2. CASE l = m.line
    <3>1. Passed(w, m.word)
      BY <1>m, <1>d, <2>1, <2>2, PassedOn DEF TypeOK
    <3> QED BY <1>t, <2>2, <3>1 DEF Reached
  <2>3. CASE l # m.line
    BY <1>t, <2>1, <2>3 DEF Reached
  <2> QED BY <2>2, <2>3
<1>1. ToldInv'
  BY <1>q, <1>u DEF AgreeInv, ToldInv
<1>2. LockInv'
  <2>1. \A q \in Reqs : txn'[q].locks \cap txn'[q].stale = {}
    BY <1>o, <1>q DEF AgreeInv, LockInv
  <2> QED BY <1>a, <1>q, <2>1 DEF AgreeInv, LockInv
<1>3. FreshInv'
  BY <1>a, <1>q, <1>t DEF AgreeInv, FreshInv
<1>4. SaveInv'
  BY <1>o, <1>q DEF SaveInv
<1>5. WayInv'
  <2>1. ASSUME NEW row \in Row, Reached(row.line, row.word)
        PROVE  Reached(row.line, row.word)'
    BY <1>r, <2>1 DEF Row
  <2>2. ASSUME NEW q \in Reqs, Active(q), NEW l \in Lines
        PROVE  Reached(l, txn[q].status[l])'
    <3>1. txn'[q].status[l] = txn[q].status[l] /\ txn[q].status[l] \in Words
      BY <1>q DEF TypeOK, Transaction
    <3>2. Reached(l, txn[q].status[l])
      BY <2>2 DEF AgreeInv, WayInv
    <3>3. \A w \in Words : Reached(l, w) => Reached(l, w)'
      BY <1>r
    <3> QED BY <3>1, <3>2, <3>3 DEF Reached
  <2>3. \A q \in Reqs : \A row \in txn'[q].rows : Reached(row.line, row.word)'
    <3>1. \A q \in Reqs : \A row \in txn[q].rows : row \in Row /\ Reached(row.line, row.word)
      BY DEF AgreeInv, WayInv, TypeOK, Transaction
    <3> QED BY <1>q, <2>1, <3>1
  <2>4. \A row \in rows \cup cron.todo \cup cron.out : Reached(row.line, row.word)'
    <3>1. \A row \in rows \cup cron.todo \cup cron.out : row \in Row /\ Reached(row.line, row.word)
      BY DEF AgreeInv, WayInv, TypeOK, CronRun
    <3> QED BY <2>1, <3>1
  <2> QED BY <1>a, <1>u, <2>2, <2>3, <2>4 DEF WayInv
<1>6. SiteInv'
  <2>1. ASSUME NEW l \in Lines
        PROVE  Reached(l, site[l])' \/ [line |-> l, word |-> site'[l]] \in inbox'
    <3>1. CASE l = m.line
      BY <1>d, <1>t, <1>u, <3>1 DEF Reached, Passed
    <3>2. CASE l # m.line /\ Reached(l, site[l])
      <4>1. \A w \in Words : Reached(l, w) => Reached(l, w)'
        BY <1>r
      <4>2. site[l] \in Words /\ site'[l] = site[l]
        BY <1>u DEF TypeOK
      <4> QED BY <3>2, <4>1, <4>2 DEF Reached
    <3>3. CASE l # m.line /\ [line |-> l, word |-> site[l]] \in inbox
      BY <1>u, <3>3
    <3> QED BY <3>1, <3>2, <3>3 DEF AgreeInv, SiteInv
  <2>2. \A l \in Lines : status'[l] \in SiteWords => site'[l] = status'[l]
    BY <1>d, <1>t, <1>u DEF AgreeInv, SiteInv
  <2>3. ASSUME NEW x \in inbox'
        PROVE  x.word \in SiteWords /\ site'[x.line] = x.word /\ Due(x.line, x.word)'
    <3>1. x \in inbox /\ x # m /\ x \in Entry /\ m \in Entry
      BY <1>u DEF TypeOK
    <3>2. x.word \in SiteWords /\ site[x.line] = x.word /\ Due(x.line, x.word)
      BY <3>1 DEF AgreeInv, SiteInv
    <3>3. x.line # m.line /\ x.line \in Lines
      BY <1>d, <3>1, <3>2 DEF Entry
    <3>4. status'[x.line] = status[x.line]
      BY <1>t, <3>3
    <3> QED BY <1>q, <1>u, <3>2, <3>4 DEF Due, Sets
  <2> QED BY <2>1, <2>2, <2>3 DEF SiteInv
<1> QED BY <1>1, <1>2, <1>3, <1>4, <1>5, <1>6 DEF AgreeInv

\* The website changes a line where Odoo is, or will be when its save commits.
LEMMA MoveAgree ==
  ASSUME OneWay, TypeOK, AgreeInv, NEW l \in Lines, NEW x \in SiteWords, SiteMoves(l, x)
  PROVE  AgreeInv'
<1>x. x \in Words /\ x \in Allowed[site[l]] /\ site[l] \in Words
  BY SyncAssumption DEF SiteMoves, TypeOK
<1>u. /\ UNCHANGED <<status, rows, txn, cron>>
      /\ inbox' = inbox \cup {[line |-> l, word |-> x]}
  BY DEF SiteMoves
<1>s. /\ site'[l] = x /\ \A k \in Lines : k # l => site'[k] = site[k]
      /\ held'[l] = held[l] \cup {x} /\ \A k \in Lines : k # l => held'[k] = held[k]
  BY DEF SiteMoves, TypeOK
<1>h. \A k \in Lines : held[k] \subseteq held'[k]
  BY <1>s
<1>n. site[l] \notin SiteWords
  BY <1>x DEF OneWay
<1>r. \A k, w : Reached(k, w) <=> Reached(k, w)'
  BY <1>u DEF Reached, Sets
<1>d. Due(l, x)
  <2>1. [line |-> l, word |-> site[l]] \notin inbox
    BY <1>n DEF AgreeInv, SiteInv
  <2>2. Reached(l, site[l])
    BY <2>1 DEF AgreeInv, SiteInv
  <2>3. status[l] \in Words
    BY DEF TypeOK
  <2>4. CASE Passed(site[l], status[l])
    <3>1. status[l] \notin SiteWords
      BY <1>n DEF AgreeInv, SiteInv
    <3>2. status[l] = site[l]
      BY <1>x, <2>4, <3>1 DEF Passed
    <3>3. \A w \in Words : ~Sets(l, w)
      <4> SUFFICES ASSUME NEW w \in Words, Sets(l, w)
                   PROVE  FALSE
        OBVIOUS
      <4>1. w \in Allowed[status[l]] /\ w \notin SiteWords
        BY DEF Sets, AgreeInv, SaveInv
      <4> QED BY <1>x, <3>2, <4>1 DEF OneWay
    <3> QED BY <1>x, <3>2, <3>3 DEF Due
  <2>5. ASSUME NEW v \in Words, Sets(l, v), Passed(site[l], v)
        PROVE  Due(l, x)
    <3>1. v \notin SiteWords
      BY <2>5 DEF Sets, AgreeInv, SaveInv
    <3>2. v = site[l]
      BY <1>x, <2>5, <3>1 DEF Passed
    <3> QED BY <1>x, <2>5, <3>2 DEF Due
  <2> QED BY <2>2, <2>4, <2>5 DEF Reached
<1>1. ToldInv'
  <2>1. ASSUME NEW k \in Lines, NEW w \in held'[k]
        PROVE  w = site'[k] \/ Below(w, site'[k])
    <3>1. CASE k # l
      BY <1>s, <2>1, <3>1 DEF AgreeInv, ToldInv
    <3>2. CASE k = l /\ w # x
      <4>1. w \in held[l] /\ w \in Words
        BY <1>s, <2>1, <3>2 DEF TypeOK
      <4>2. w = site[l] \/ Below(w, site[l])
        BY <4>1 DEF AgreeInv, ToldInv
      <4>3. Below(site[l], x)
        BY <1>x, Order
      <4> QED BY <1>s, <1>x, <3>2, <4>1, <4>2, <4>3, Order
    <3> QED BY <1>s, <3>1, <3>2
  <2>2. \A q \in Reqs : \A e \in txn[q].seen \cup txn[q].batch : e.word \in held'[e.line]
    <3> SUFFICES ASSUME NEW q \in Reqs, NEW e \in txn[q].seen \cup txn[q].batch
                 PROVE  e.word \in held'[e.line]
      OBVIOUS
    <3>1. e.line \in Lines
      BY DEF TypeOK, Transaction, Entry
    <3>2. e.word \in held[e.line]
      BY DEF AgreeInv, ToldInv
    <3> QED BY <1>h, <3>1, <3>2
  <2> QED BY <1>u, <2>1, <2>2 DEF AgreeInv, ToldInv
<1>2. LockInv' /\ FreshInv' /\ WayInv'
  <2>1. \A q \in Reqs : Active(q) <=> Active(q)'
    BY <1>u DEF Active
  <2>2. LockInv'
    BY <1>u, <2>1 DEF AgreeInv, LockInv
  <2>3. FreshInv'
    BY <1>u, <2>1 DEF AgreeInv, FreshInv
  <2>4. WayInv'
    BY <1>u, <1>r, <2>1 DEF AgreeInv, WayInv
  <2> QED BY <2>2, <2>3, <2>4
<1>3. SaveInv'
  <2>1. \A q \in Reqs : \A k \in txn[q].stale : k \in Lines
    BY DEF TypeOK, Transaction
  <2> QED BY <1>h, <1>u, <2>1 DEF AgreeInv, SaveInv
<1>4. SiteInv'
  <2>1. \A k \in Lines : Reached(k, site[k])' \/ [line |-> k, word |-> site'[k]] \in inbox'
    <3> SUFFICES ASSUME NEW k \in Lines
                 PROVE  Reached(k, site[k])' \/ [line |-> k, word |-> site'[k]] \in inbox'
      OBVIOUS
    <3>1. CASE k = l
      BY <1>s, <1>u, <3>1
    <3>2. CASE k # l
      <4>1. site'[k] = site[k]
        BY <1>s, <3>2
      <4>2. Reached(k, site[k]) \/ [line |-> k, word |-> site[k]] \in inbox
        BY DEF AgreeInv, SiteInv
      <4> QED BY <1>r, <1>u, <4>1, <4>2
    <3> QED BY <3>1, <3>2
  <2>2. \A k \in Lines : status'[k] \in SiteWords => site'[k] = status'[k]
    BY <1>n, <1>s, <1>u DEF AgreeInv, SiteInv
  <2>3. ASSUME NEW m \in inbox'
        PROVE  m.word \in SiteWords /\ site'[m.line] = m.word /\ Due(m.line, m.word)'
    <3>1. CASE m \in inbox
      <4>1. m.word \in SiteWords /\ site[m.line] = m.word /\ Due(m.line, m.word)
            /\ m.line \in Lines
        BY <3>1 DEF AgreeInv, SiteInv, TypeOK, Entry
      <4>2. m.line # l
        BY <1>n, <4>1
      <4> QED BY <1>s, <1>u, <4>1, <4>2 DEF Due, Sets
    <3>2. CASE m = [line |-> l, word |-> x]
      BY <1>d, <1>s, <1>u, <3>2 DEF Due, Sets
    <3> QED BY <1>u, <3>1, <3>2
  <2> QED BY <2>1, <2>2, <2>3 DEF SiteInv
<1> QED BY <1>1, <1>2, <1>3, <1>4 DEF AgreeInv

\* The cron re-sends statuses the line has had: the website takes one only where it
\* is behind, and then it is behind Odoo.
LEMMA CronAgree ==
  ASSUME OneWay, TypeOK, AgreeInv, UNCHANGED <<status, txn, inbox>>,
         \A row \in rows' \cup cron'.todo \cup cron'.out :
           \E old \in rows \cup cron.todo \cup cron.out :
             row.line = old.line /\ row.word = old.word,
         \/ UNCHANGED <<site, held>>
         \/ \E row \in cron.todo : SiteApplies(EntryOf(row))
  PROVE  AgreeInv'
<1>r. \A l, w : Reached(l, w) => Reached(l, w)'
  BY ReachedKept
<1>a. \A q \in Reqs : Active(q) <=> Active(q)'
  BY DEF Active
<1>s. /\ \A l \in Lines : held[l] \subseteq held'[l]
      /\ \A l \in Lines : \A w \in held'[l] : w = site'[l] \/ Below(w, site'[l])
      /\ SiteInv'
  <2>1. ASSUME NEW row \in cron.todo, SiteApplies(EntryOf(row))
        PROVE  /\ \A l \in Lines : held[l] \subseteq held'[l]
               /\ \A l \in Lines : \A w \in held'[l] : w = site'[l] \/ Below(w, site'[l])
               /\ SiteInv'
    <3> DEFINE batch == EntryOf(row)
    <3>1. batch \in SUBSET Entry /\ \A x, y \in batch : x.line = y.line => x = y
      BY DEF EntryOf, Entry, Row, TypeOK, CronRun
    <3>2. \A e \in batch : Reached(e.line, e.word)
      BY DEF EntryOf, AgreeInv, WayInv
    <3>3. ToldInv /\ SiteInv /\ SiteApplies(batch)
      BY <2>1 DEF AgreeInv
    <3> HIDE DEF batch
    <3> QED BY <3>1, <3>2, <3>3, AppliedAgree
  <2>2. CASE UNCHANGED <<site, held>>
    <3>1. \A l \in Lines : Reached(l, site[l])' \/ [line |-> l, word |-> site[l]] \in inbox
      BY <1>r, <2>2 DEF AgreeInv, SiteInv
    <3>2. \A l, w : Due(l, w) => Due(l, w)'
      BY DEF Due, Sets
    <3>3. SiteInv'
      BY <2>2, <3>1, <3>2 DEF AgreeInv, SiteInv
    <3> QED BY <2>2, <3>3 DEF AgreeInv, ToldInv
  <2> QED BY <2>1, <2>2
<1>1. ToldInv'
  <2>1. \A q \in Reqs : \A e \in txn[q].seen \cup txn[q].batch : e.word \in held'[e.line]
    <3> SUFFICES ASSUME NEW q \in Reqs, NEW e \in txn[q].seen \cup txn[q].batch
                 PROVE  e.word \in held'[e.line]
      OBVIOUS
    <3>1. e.line \in Lines
      BY DEF TypeOK, Transaction, Entry
    <3>2. e.word \in held[e.line]
      BY DEF AgreeInv, ToldInv
    <3> QED BY <1>s, <3>1, <3>2
  <2> QED BY <1>s, <2>1 DEF AgreeInv, ToldInv
<1>2. LockInv'
  BY <1>a DEF AgreeInv, LockInv
<1>3. FreshInv'
  BY <1>a DEF AgreeInv, FreshInv
<1>4. SaveInv'
  <2>1. \A q \in Reqs : \A k \in txn[q].stale : k \in Lines
    BY DEF TypeOK, Transaction
  <2> QED BY <1>s, <2>1 DEF AgreeInv, SaveInv
<1>5. WayInv'
  <2>1. \A row \in rows \cup cron.todo \cup cron.out : Reached(row.line, row.word)
    BY DEF AgreeInv, WayInv
  <2>2. \A row \in rows' \cup cron'.todo \cup cron'.out : Reached(row.line, row.word)'
    BY <1>r, <2>1
  <2> QED BY <1>a, <1>r, <2>2 DEF AgreeInv, WayInv
<1> QED BY <1>s, <1>1, <1>2, <1>3, <1>4, <1>5 DEF AgreeInv

\* At first both sides hold the first word.
LEMMA InitAgree == OneWay /\ Init => AgreeInv
<1> SUFFICES ASSUME OneWay, Init PROVE AgreeInv
  OBVIOUS
<1>1. \A r \in Reqs : /\ txn[r] = Blank /\ txn[r].phase = "idle" /\ txn[r].op = {}
                      /\ txn[r].batch = {} /\ txn[r].seen = {} /\ txn[r].locks = {}
                      /\ txn[r].stale = {} /\ txn[r].rows = {}
  BY DEF Init, Blank
<1>2. \A r \in Reqs : ~Active(r)
  BY <1>1 DEF Active
<1>3. rows = {} /\ cron.todo = {} /\ cron.out = {} /\ inbox = {}
  BY DEF Init, CronIdle
<1>4. \A l \in Lines : site[l] = Booked /\ held[l] = {Booked} /\ status[l] = Booked
  BY DEF Init
<1>5. \A l \in Lines : Reached(l, site[l])
  BY <1>4 DEF Reached, Passed
<1>6. ToldInv /\ LockInv /\ FreshInv
  BY <1>1, <1>2, <1>4 DEF ToldInv, LockInv, FreshInv
<1>7. SaveInv /\ WayInv
  BY <1>1, <1>2, <1>3 DEF SaveInv, WayInv
<1>8. SiteInv
  BY <1>3, <1>4, <1>5 DEF SiteInv, OneWay
<1> QED BY <1>6, <1>7, <1>8 DEF AgreeInv

\* Every step of a request that is not rolled back.
LEMMA RequestAgree ==
  ASSUME OneWay, TypeOK, AgreeInv, NEW r \in Reqs,
         \/ \E l \in Lines, w \in Words : Save(r, l, w)
         \/ Resync(r)
         \/ Request(r)
         \/ PostFails(r)
  PROVE  AgreeInv'
<1> DEFINE t == txn[r]
<1>t. t \in Transaction
  BY DEF TypeOK
<1>1. ASSUME NEW l \in Lines, NEW w \in Words, Save(r, l, w)
      PROVE  AgreeInv'
  <2> DEFINE op == {[line |-> l, word |-> w]}
  <2>1. op \in SUBSET Entry
    BY DEF Entry
  <2>2. \A e \in op : /\ op = {e} /\ e.word \in Allowed[status[e.line]]
                      /\ e.word \notin SiteWords
    BY <1>1 DEF Save
  <2>3. Open(r, op, {}) /\ ~Active(r)
        /\ UNCHANGED <<status, rows, cron, site, inbox, held>>
    BY <1>1 DEF Save, Active
  <2> HIDE DEF op
  <2> QED BY <2>1, <2>2, <2>3, OpenAgree
<1>2. CASE Resync(r)
  <2>1. Open(r, {}, {}) /\ ~Active(r)
        /\ UNCHANGED <<status, rows, cron, site, inbox, held>>
    BY <1>2 DEF Resync, Active
  <2> QED BY <2>1, OpenAgree
<1>3. CASE Rerun(r)
  <2>1. ~Active(r)
    BY <1>3 DEF Rerun, Active
  <2>2. t.op = {}
    BY <2>1 DEF AgreeInv, LockInv
  <2>3. Open(r, {}, t.seen) /\ UNCHANGED <<status, rows, cron, site, inbox, held>>
    BY <1>3, <2>2 DEF Rerun
  <2> QED BY <2>1, <2>3, OpenAgree
<1>4. CASE PostNothing(r)
  <2> DEFINE new == [t EXCEPT !.phase = "done"]
  <2>1. txn' = [txn EXCEPT ![r] = new]
    BY <1>4 DEF PostNothing, TypeOK
  <2>2. /\ new.op = t.op /\ new.status = t.status /\ new.seen = t.seen
        /\ new.locks = t.locks /\ new.stale = t.stale /\ new.batch = t.batch
        /\ new.rows = t.rows /\ new.phase = "done"
    BY <1>t DEF Transaction
  <2> HIDE DEF new
  <2>3. txn'[r] = new /\ \A q \in Reqs : q # r => txn'[q] = txn[q]
    BY <2>1 DEF TypeOK
  <2> QED BY <1>4, <2>2, <2>3, PostAgree DEF PostNothing
<1>5. CASE PostOk(r)
  <2> DEFINE new == [t EXCEPT !.phase = "answered", !.batch = Entries(t)]
  <2>1. txn' = [txn EXCEPT ![r] = new]
    BY <1>5 DEF PostOk, TypeOK
  <2>2. /\ new.op = t.op /\ new.status = t.status /\ new.seen = t.seen
        /\ new.locks = t.locks /\ new.stale = t.stale /\ new.batch = Entries(t)
        /\ new.rows = t.rows /\ new.phase = "answered"
    BY <1>t DEF Transaction
  <2> HIDE DEF new
  <2>3. txn'[r] = new /\ \A q \in Reqs : q # r => txn'[q] = txn[q]
    BY <2>1 DEF TypeOK
  <2> QED BY <1>5, <2>2, <2>3, PostAgree DEF PostOk
<1>6. ASSUME PostRefused(r) \/ PostFails(r)
      PROVE  AgreeInv'
  <2> DEFINE with(made) == [t EXCEPT !.phase = "done", !.rows = made]
  <2>1. \E made : /\ txn' = [txn EXCEPT ![r] = with(made)]
                  /\ made = t.rows \/ \E code : made = RowsOf(Entries(t), code)
    <3>1. CASE PostRefused(r)
      <4>1. \/ txn' = [txn EXCEPT ![r] = [t EXCEPT !.phase = "done"]]
            \/ txn' = [txn EXCEPT ![r] = with(RowsOf(Entries(t), "400"))]
        BY <3>1 DEF PostRefused, TypeOK
      <4>2. [t EXCEPT !.phase = "done"] = with(t.rows)
        BY <1>t DEF Transaction
      <4> QED BY <4>1, <4>2
    <3>2. CASE PostFails(r)
      <4>1. \E code \in FailCodes : txn' = [txn EXCEPT ![r] = with(RowsOf(Entries(t), code))]
        BY <3>2 DEF PostFails, TypeOK
      <4> QED BY <4>1
    <3> QED BY <1>6, <3>1, <3>2
  <2>2. PICK made : /\ txn' = [txn EXCEPT ![r] = with(made)]
                    /\ made = t.rows \/ \E code : made = RowsOf(Entries(t), code)
    BY <2>1
  <2>3. /\ with(made).op = t.op /\ with(made).status = t.status
        /\ with(made).seen = t.seen /\ with(made).locks = t.locks
        /\ with(made).stale = t.stale /\ with(made).batch = t.batch
        /\ with(made).rows = made /\ with(made).phase = "done"
    BY <1>t DEF Transaction
  <2> DEFINE new == with(made)
  <2>4. txn'[r] = new /\ \A q \in Reqs : q # r => txn'[q] = txn[q]
    BY <2>2 DEF TypeOK
  <2>5. \A row \in made : \/ row \in t.rows
                          \/ row.line \in Lines /\ row.word = t.status[row.line]
    <3>1. \A e \in Entries(t) : e.line \in Lines /\ e.word = t.status[e.line]
      BY DEF Entries, DropAlreadyPushed, DropUnchangedOnWebsite, Entry
    <3> QED BY <2>2, <3>1 DEF RowsOf
  <2>6. /\ UNCHANGED <<site, held>> \/ SiteApplies(Entries(t))
        /\ UNCHANGED <<status, rows, cron, inbox>> /\ t.phase = "open"
    BY <1>6 DEF PostRefused, PostFails, Fails
  <2>7. /\ new.op = t.op /\ new.status = t.status /\ new.seen = t.seen
        /\ new.locks = t.locks /\ new.stale = t.stale /\ new.batch = t.batch
        /\ new.rows = made /\ new.phase = "done"
    BY <2>3
  <2> HIDE DEF with, new
  <2> QED BY <2>4, <2>5, <2>6, <2>7, PostAgree
<1>7. CASE Mark(r)
  BY <1>7, MarkAgree
<1>8. CASE Commit(r)
  BY <1>8, CommitAgree
<1> QED BY <1>1, <1>2, <1>3, <1>4, <1>5, <1>6, <1>7, <1>8 DEF Request

\* A step of the cron over a row, or a run of it.
LEMMA CronStepAgree ==
  ASSUME OneWay, TypeOK, AgreeInv,
         \/ CronStart \/ CronStartDown
         \/ \E row \in cron.todo : CronRow(row) \/ CronFails(row)
         \/ CronCommit
         \/ CronCrash
  PROVE  AgreeInv'
<1> DEFINE all == rows \cup cron.todo \cup cron.out
<1>1. CASE CronStart \/ CronStartDown
  <2>1. \A row \in rows' \cup cron'.todo \cup cron'.out : row \in all
    BY <1>1 DEF CronStart, CronStartDown, CronBegins, Pending
  <2> QED BY <1>1, <2>1, CronAgree DEF CronStart, CronStartDown, CronBegins
<1>2. ASSUME NEW row \in cron.todo, CronRow(row) \/ CronFails(row)
      PROVE  AgreeInv'
  <2>r. row \in Row
    BY DEF TypeOK, CronRun
  <2>1. \E as : /\ Examined(row, as)
                /\ as.line = row.line /\ as.word = row.word
    <3> DEFINE as(s, c) == [row EXCEPT !.state = s, !.code = c]
    <3>1. \A s, c : as(s, c).line = row.line /\ as(s, c).word = row.word
      BY <2>r DEF Row
    <3>2. /\ [row EXCEPT !.state = "failed"] = as("failed", row.code)
          /\ row = as(row.state, row.code)
          /\ \A c : [row EXCEPT !.code = c] = as(row.state, c)
      BY <2>r DEF Row
    <3>3. \E s, c : Examined(row, as(s, c))
      <4>1. CASE CronGivesUp(row)
        BY <3>2, <4>1 DEF CronGivesUp
      <4>2. CASE CronSkips(row)
        <5>1. Examined(row, row)
          BY <4>2 DEF CronSkips
        <5>2. Examined(row, as(row.state, row.code))
          BY <3>2, <5>1
        <5> QED BY <5>2
      <4>3. CASE CronOk(row)
        BY <4>3 DEF CronOk
      <4>4. CASE CronRefused(row)
        BY <4>4 DEF CronRefused
      <4>5. CASE CronFails(row)
        <5>1. PICK c \in FailCodes : Examined(row, [row EXCEPT !.code = c])
          BY <4>5 DEF CronFails
        <5>2. Examined(row, as(row.state, c))
          BY <3>2, <5>1
        <5> QED BY <5>2
      <4> QED BY <1>2, <4>1, <4>2, <4>3, <4>4, <4>5 DEF CronRow
    <3> HIDE DEF as
    <3> QED BY <3>1, <3>3
  <2>2. PICK as : Examined(row, as) /\ as.line = row.line /\ as.word = row.word
    BY <2>1
  <2>3. cron'.todo \subseteq cron.todo /\ cron'.out = cron.out \cup {as}
    BY <2>2 DEF Examined, TypeOK, CronRun
  <2>4. /\ UNCHANGED <<status, txn, inbox, rows>>
        /\ UNCHANGED <<site, held>> \/ SiteApplies(EntryOf(row))
    BY <1>2 DEF CronRow, CronGivesUp, CronSkips, CronOk, CronRefused, CronFails, Fails
  <2>5. \A new \in rows' \cup cron'.todo \cup cron'.out :
          \E old \in rows \cup cron.todo \cup cron.out :
            new.line = old.line /\ new.word = old.word
    BY <2>2, <2>3, <2>4
  <2> QED BY <2>4, <2>5, CronAgree
<1>3. CASE CronCommit
  <2>1. \A row \in rows' \cup cron'.todo \cup cron'.out : row \in all
    BY <1>3 DEF CronCommit, CronIdle
  <2> QED BY <1>3, <2>1, CronAgree DEF CronCommit
<1>4. CASE CronCrash
  <2>1. \A row \in rows' \cup cron'.todo \cup cron'.out : row \in all
    BY <1>4 DEF CronCrash, CronIdle
  <2> QED BY <1>4, <2>1, CronAgree DEF CronCrash
<1> QED BY <1>1, <1>2, <1>3, <1>4

\* No request was rolled back after its call, no fault has happened.
NoAbort == left.aborts = MaxAborts
NoFault == left.faults = MaxFaults

\* What is left of a bound only falls: a request rolled back, or a fault, is used up.
LEMMA LeftFalls ==
  ASSUME TypeOK, [Next]_vars
  PROVE  /\ left'.aborts <= left.aborts /\ left'.faults <= left.faults
         /\ (\E r \in Reqs : Abort(r)) => left'.aborts < left.aborts
         /\ (\/ \E r \in Reqs : PostFails(r)
             \/ CronStartDown \/ CronCrash
             \/ \E row \in cron.todo : CronFails(row)) => left'.faults < left.faults
<1>l. left \in [{"saves", "resyncs", "faults", "aborts", "moves"} -> Nat]
  BY DEF TypeOK
<1>s. \A what \in {"saves", "resyncs", "faults", "aborts", "moves"} : Spend(what) =>
        /\ left'.aborts <= left.aborts /\ left'.faults <= left.faults
        /\ what = "aborts" => left'.aborts < left.aborts
        /\ what = "faults" => left'.faults < left.faults
  BY <1>l DEF Spend
<1>1. ASSUME NEW r \in Reqs,
             \/ \E l \in Lines, w \in Words : Save(r, l, w)
             \/ Resync(r)
      PROVE  left'.aborts <= left.aborts /\ left'.faults <= left.faults
  BY <1>1, <1>s DEF Save, Resync
<1>2. ASSUME NEW r \in Reqs, Request(r)
      PROVE  left' = left
  BY <1>2 DEF Request, Rerun, PostNothing, PostOk, PostRefused, Mark, Commit
<1>3. \A r \in Reqs : Abort(r) => Spend("aborts")
  BY DEF Abort
<1>4. /\ \A r \in Reqs : PostFails(r) => Spend("faults")
      /\ CronStartDown => Spend("faults")
      /\ CronCrash => Spend("faults")
      /\ \A row \in cron.todo : CronFails(row) => Spend("faults")
  BY DEF PostFails, CronStartDown, CronCrash, CronFails, Fails
<1>5. \A l \in Lines, w \in SiteWords : SiteMoves(l, w) => Spend("moves")
  BY DEF SiteMoves
<1>6. /\ \A m \in inbox : Receive(m) => left' = left
      /\ CronStart => left' = left
      /\ CronCommit => left' = left
      /\ \A row \in cron.todo : CronRow(row) => left' = left
      /\ UNCHANGED vars => left' = left
  BY DEF Receive, CronStart, CronCommit, CronRow, CronGivesUp, CronSkips, CronOk,
         CronRefused, vars
<1>7. left'.aborts <= left.aborts /\ left'.faults <= left.faults
  <2>1. left' = left => left'.aborts <= left.aborts /\ left'.faults <= left.faults
    BY <1>l
  <2>2. \/ left' = left
        \/ \E what \in {"saves", "resyncs", "faults", "aborts", "moves"} : Spend(what)
        \/ \E r \in Reqs : \/ \E l \in Lines, w \in Words : Save(r, l, w)
                           \/ Resync(r)
    BY <1>2, <1>3, <1>4, <1>5, <1>6 DEF Next
  <2> QED BY <1>1, <1>s, <2>1, <2>2
<1> QED BY <1>3, <1>4, <1>7, <1>s

\* While no request is rolled back, every step keeps the agreement.
LEMMA StepAgree ==
  ASSUME OneWay, TypeOK, AgreeInv, [Next]_vars, \A r \in Reqs : ~Abort(r)
  PROVE  AgreeInv'
<1>1. ASSUME NEW r \in Reqs,
             \/ \E l \in Lines, w \in Words : Save(r, l, w)
             \/ Resync(r)
             \/ Request(r)
             \/ PostFails(r)
      PROVE  AgreeInv'
  BY <1>1, RequestAgree
<1>2. ASSUME NEW l \in Lines, NEW w \in SiteWords, SiteMoves(l, w)
      PROVE  AgreeInv'
  BY <1>2, MoveAgree
<1>3. ASSUME NEW m \in inbox, Receive(m)
      PROVE  AgreeInv'
  BY <1>3, ReceiveAgree
<1>4. CASE \/ CronStart \/ CronStartDown
           \/ \E row \in cron.todo : CronRow(row) \/ CronFails(row)
           \/ CronCommit
           \/ CronCrash
  BY <1>4, CronStepAgree
<1>5. CASE UNCHANGED vars
  BY <1>5, CronAgree DEF vars
<1> QED BY <1>1, <1>2, <1>3, <1>4, <1>5 DEF Next

\* When nothing is under way, what Odoo holds as told is what the website has.
LEMMA SilentAgrees ==
  ASSUME OneWay, TypeOK, HeldInv, AgreeInv, inbox = {},
         \A r \in Reqs : txn[r].op = {},
         NEW l \in Lines, last[l] = status[l]
  PROVE  site[l] = status[l]
<1>1. site[l] \in Words /\ status[l] \in Words
  BY DEF TypeOK
<1>2. Passed(site[l], status[l])
  BY DEF AgreeInv, SiteInv, Reached, Sets
<1>3. status[l] = site[l] \/ Below(status[l], site[l])
  BY DEF HeldInv, AgreeInv, ToldInv
<1> QED BY <1>1, <1>2, <1>3, Order DEF Passed

\* Without a fault a save that begins finds both sides equal on its line.
LEMMA SaveInStep ==
  ASSUME OneWay, TypeOK, HeldInv, AgreeInv, QuietInv, NEW r \in Reqs,
         NEW l \in Lines, NEW w \in Words, Save(r, l, w)
  PROVE  site[l] = status[l]
<1>1. /\ status[l] \in Words /\ site[l] \in Words
      /\ w \in Allowed[status[l]] /\ w \notin SiteWords
  BY DEF TypeOK, Save
<1>2. \A q \in Reqs : txn[q].op = {}
  BY DEF Save, Open, Holding, Active, AgreeInv, LockInv
<1>3. \A x \in Words : ~Sets(l, x)
  BY <1>2 DEF Sets
<1>4. status[l] = site[l] \/ Below(status[l], site[l])
  BY DEF HeldInv, AgreeInv, ToldInv, QuietInv
<1>5. [line |-> l, word |-> site[l]] \notin inbox
  <2> SUFFICES ASSUME [line |-> l, word |-> site[l]] \in inbox
               PROVE  FALSE
    OBVIOUS
  <2>1. site[l] \in SiteWords /\ Due(l, site[l])
    BY DEF AgreeInv, SiteInv
  <2>2. site[l] \in Allowed[status[l]]
    BY <1>3, <2>1 DEF Due
  <2> QED BY <1>1, <2>1, <2>2 DEF OneWay
<1>6. Passed(site[l], status[l])
  BY <1>3, <1>5 DEF AgreeInv, SiteInv, Reached
<1> QED BY <1>1, <1>4, <1>6, Order DEF Passed

\* What a request may send until a fault: the status its save sets.
LEMMA OwnEntry ==
  ASSUME TypeOK, AgreeInv, QuietInv, NEW r \in Reqs, txn[r].phase = "open"
  PROVE  /\ txn[r].op = {} => Entries(txn[r]) = {}
         /\ \A e \in txn[r].op : /\ Entries(txn[r]) \subseteq {e}
                                 /\ Refused(Entries(txn[r])) = {}
                                 /\ Entries(txn[r]) = {} => txn[r].last[e.line] = e.word
<1> DEFINE t == txn[r]
<1>q. TellsOwn(r)
  BY DEF QuietInv
<1>e. /\ \A e \in Entries(t) : /\ e \in Entry /\ e.word = t.status[e.line]
                               /\ t.last[e.line] # e.word
      /\ \A e \in Entry : e.word = t.status[e.line] /\ t.last[e.line] # e.word
                          /\ e \notin t.seen => e \in Entries(t)
  BY DEF Entries, DropAlreadyPushed, DropUnchangedOnWebsite
<1>1. t.op = {} => Entries(t) = {}
  BY <1>q, <1>e DEF TellsOwn
<1>2. ASSUME NEW e \in t.op
      PROVE  /\ Entries(t) \subseteq {e}
             /\ Refused(Entries(t)) = {}
             /\ Entries(t) = {} => t.last[e.line] = e.word
  <2>1. /\ e.word = t.status[e.line] /\ t.seen = {} /\ e.word \in Allowed[status[e.line]]
        /\ e \in Entry
    BY SetsType DEF AgreeInv, SaveInv
  <2>2. /\ \A l \in Lines \ {e.line} : t.last[l] = t.status[l]
        /\ site[e.line] = status[e.line]
    BY <1>q DEF TellsOwn
  <2>3. Entries(t) \subseteq {e}
    BY <1>e, <2>1, <2>2 DEF Entry
  <2>4. Refused(Entries(t)) = {}
    BY <2>1, <2>2, <2>3 DEF Refused
  <2>5. Entries(t) = {} => t.last[e.line] = e.word
    BY <1>e, <2>1
  <2> QED BY <2>3, <2>4, <2>5
<1> QED BY <1>1, <1>2

\* A request that begins sees what was told, but for the status it sets.
LEMMA OpenQuiet ==
  ASSUME OneWay, TypeOK, AgreeInv, QuietInv, NEW r \in Reqs, NEW op \in SUBSET Entry,
         NEW seen, Open(r, op, seen), ~Active(r),
         \A e \in op : op = {e} /\ site[e.line] = status[e.line],
         UNCHANGED <<status, last, rows, cron, site>>
  PROVE  QuietInv'
<1> DEFINE new == [Blank EXCEPT !.phase = "open", !.op = op,
                     !.status = With(status, op), !.last = last,
                     !.seen = seen, !.locks = {e.line : e \in op}]
<1>1. txn' = [txn EXCEPT ![r] = new]
  BY DEF Open
<1>2. /\ new.phase = "open" /\ new.op = op /\ new.status = With(status, op)
      /\ new.last = last /\ new.locks = {e.line : e \in op} /\ new.rows = {}
      /\ new.batch = {}
  BY DEF Blank
<1> HIDE DEF new
<1>n. txn'[r] = new /\ \A q \in Reqs : q # r => txn'[q] = txn[q]
  BY <1>1 DEF TypeOK
<1>3. ASSUME NEW q \in Reqs, q # r
      PROVE  TellsOwn(q)'
  BY <1>n, <1>3 DEF QuietInv, TellsOwn
<1>4. TellsOwn(r)'
  <2>1. op = {} => With(status, op) = status
    BY DEF With, TypeOK
  <2>2. \A e \in op : \A l \in Lines \ {e.line} : With(status, op)[l] = status[l]
    BY WithCases DEF TypeOK
  <2>3. last = status
    BY DEF QuietInv
  <2> QED BY <1>n, <1>2, <2>1, <2>2, <2>3 DEF TellsOwn
<1> QED BY <1>3, <1>4 DEF QuietInv

\* Until a fault every step of a request tells its own line and no more.
LEMMA RequestQuiet ==
  ASSUME OneWay, TypeOK, HeldInv, AgreeInv, QuietInv, NEW r \in Reqs,
         \/ \E l \in Lines, w \in Words : Save(r, l, w)
         \/ Resync(r)
         \/ Request(r)
  PROVE  QuietInv'
<1> DEFINE t == txn[r]
<1>t. t \in Transaction
  BY DEF TypeOK
<1>q. \A q \in Reqs : TellsOwn(q)
  BY DEF QuietInv
<1>s. \A e \in t.op : /\ e \in Entry /\ e.line \in Lines /\ t.op = {e}
                      /\ \A q \in Reqs \ {r} : txn[q].op = {}
                      /\ t.status[e.line] = e.word
                      /\ \A d \in t.batch : d.line \notin t.stale
  BY SetsType DEF AgreeInv, SaveInv
<1>1. ASSUME NEW l \in Lines, NEW w \in Words, Save(r, l, w)
      PROVE  QuietInv'
  <2> DEFINE op == {[line |-> l, word |-> w]}
  <2>1. op \in SUBSET Entry
    BY DEF Entry
  <2>2. site[l] = status[l]
    BY <1>1, SaveInStep
  <2>3. \A e \in op : op = {e} /\ site[e.line] = status[e.line]
    BY <2>2
  <2>4. Open(r, op, {}) /\ ~Active(r) /\ UNCHANGED <<status, last, rows, cron, site>>
    BY <1>1 DEF Save, Active
  <2> HIDE DEF op
  <2> QED BY <2>1, <2>3, <2>4, OpenQuiet
<1>2. CASE Resync(r)
  <2>1. Open(r, {}, {}) /\ ~Active(r) /\ UNCHANGED <<status, last, rows, cron, site>>
    BY <1>2 DEF Resync, Active
  <2> QED BY <2>1, OpenQuiet
<1>3. CASE Rerun(r)
  <2>1. ~Active(r)
    BY <1>3 DEF Rerun, Active
  <2>2. t.op = {}
    BY <2>1 DEF AgreeInv, LockInv
  <2>3. Open(r, {}, t.seen) /\ UNCHANGED <<status, last, rows, cron, site>>
    BY <1>3, <2>2 DEF Rerun
  <2> QED BY <2>1, <2>3, OpenQuiet
<1>4. CASE PostNothing(r)
  <2> DEFINE new == [t EXCEPT !.phase = "done"]
  <2>1. /\ new.op = t.op /\ new.status = t.status /\ new.last = t.last
        /\ new.locks = t.locks /\ new.batch = t.batch /\ new.rows = t.rows
        /\ new.phase = "done"
    BY <1>t DEF Transaction
  <2>2. txn' = [txn EXCEPT ![r] = new]
    BY <1>4 DEF PostNothing, TypeOK
  <2> HIDE DEF new
  <2>3. txn'[r] = new /\ \A q \in Reqs : q # r => txn'[q] = txn[q]
    BY <2>2 DEF TypeOK
  <2>4. \A e \in t.op : t.last[e.line] = e.word
    BY <1>4, OwnEntry DEF PostNothing
  <2>5. TellsOwn(r)'
    BY <1>q, <2>1, <2>3, <2>4 DEF TellsOwn
  <2>6. \A q \in Reqs : q # r => TellsOwn(q)'
    BY <1>4, <1>q, <2>3 DEF TellsOwn, PostNothing
  <2> QED BY <1>4, <2>5, <2>6 DEF PostNothing, QuietInv
<1>5. CASE PostOk(r)
  <2> DEFINE new == [t EXCEPT !.phase = "answered", !.batch = Entries(t)]
  <2>1. /\ new.op = t.op /\ new.status = t.status /\ new.last = t.last
        /\ new.locks = t.locks /\ new.batch = Entries(t) /\ new.rows = t.rows
        /\ new.phase = "answered"
    BY <1>t DEF Transaction
  <2>2. txn' = [txn EXCEPT ![r] = new]
    BY <1>5 DEF PostOk, TypeOK
  <2> HIDE DEF new
  <2>3. txn'[r] = new /\ \A q \in Reqs : q # r => txn'[q] = txn[q]
    BY <2>2 DEF TypeOK
  <2>4. PICK e \in t.op : Entries(t) = {e}
    <3>1. t.phase = "open" /\ Entries(t) # {}
      BY <1>5 DEF PostOk
    <3>2. PICK e \in t.op : Entries(t) \subseteq {e}
      BY <3>1, OwnEntry
    <3> QED BY <3>1, <3>2
  <2>5. TellsOwn(r)'
    BY <1>q, <1>s, <2>1, <2>3, <2>4 DEF TellsOwn
  <2>6. \A q \in Reqs : q # r => TellsOwn(q)'
    BY <1>q, <1>s, <2>3, <2>4 DEF TellsOwn
  <2> QED BY <1>5, <2>5, <2>6 DEF PostOk, QuietInv
<1>6. CASE PostRefused(r)
  <2>1. t.phase = "open" /\ Refused(Entries(t)) # {}
    BY <1>6 DEF PostRefused
  <2> QED BY <2>1, OwnEntry DEF Refused
<1>7. CASE Mark(r)
  <2> DEFINE sent == {e.line : e \in t.batch}
             marked == [t EXCEPT !.phase = "done", !.seen = @ \cup t.batch,
                                 !.last = With(@, t.batch), !.batch = {},
                                 !.locks = @ \cup sent]
  <2>1. sent \cap t.stale = {}
    BY <1>q, <1>s DEF TellsOwn
  <2>2. txn' = [txn EXCEPT ![r] = marked]
    BY <1>7, <2>1 DEF Mark, TypeOK
  <2>3. /\ marked.op = t.op /\ marked.status = t.status
        /\ marked.last = With(t.last, t.batch) /\ marked.locks = t.locks \cup sent
        /\ marked.batch = {} /\ marked.rows = t.rows /\ marked.phase = "done"
    BY <1>t DEF Transaction
  <2> HIDE DEF marked
  <2>4. txn'[r] = marked /\ \A q \in Reqs : q # r => txn'[q] = txn[q]
    BY <2>2 DEF TypeOK
  <2>5. TellsOwn(r)'
    <3>1. CASE t.op = {}
      <4>1. t.batch = {} /\ t.locks = {} /\ t.status = t.last /\ t.rows = {}
        BY <1>q, <3>1 DEF TellsOwn
      <4>2. With(t.last, {}) = t.last
        BY <1>t DEF With, Transaction
      <4> QED BY <2>3, <2>4, <3>1, <4>1, <4>2 DEF TellsOwn
    <3>2. ASSUME NEW e \in t.op
          PROVE  TellsOwn(r)'
      <4>1. /\ t.batch = {e} /\ t.locks = {e.line} /\ t.rows = {} /\ t.op = {e}
            /\ \A l \in Lines \ {e.line} : t.last[l] = t.status[l]
        BY <1>7, <1>q, <1>s, <3>2 DEF TellsOwn, Mark
      <4>2. With(t.last, {e})[e.line] = e.word
        BY <1>s, <1>t, WithEntry DEF Transaction
      <4>3. \A l \in Lines \ {e.line} : With(t.last, {e})[l] = t.last[l]
        BY DEF With
      <4>4. sent = {e.line}
        BY <4>1
      <4>5. /\ txn'[r].op = {e} /\ txn'[r].locks = {e.line} /\ txn'[r].batch = {}
            /\ txn'[r].rows = {} /\ txn'[r].phase = "done"
            /\ txn'[r].last[e.line] = e.word
            /\ \A l \in Lines \ {e.line} : txn'[r].last[l] = txn'[r].status[l]
        <5> HIDE DEF sent
        <5> QED BY <2>3, <2>4, <4>1, <4>2, <4>3, <4>4
      <4> QED BY <4>5 DEF TellsOwn
    <3> QED BY <3>1, <3>2
  <2>6. \A q \in Reqs : q # r => TellsOwn(q)'
    BY <1>7, <1>q, <2>4 DEF TellsOwn, Mark
  <2> QED BY <1>7, <2>5, <2>6 DEF Mark, QuietInv
<1>8. CASE Commit(r)
  <2> DEFINE mid == [txn EXCEPT ![r] = Blank]
  <2>1. txn' = Staled(mid, t.locks)
    BY <1>8 DEF Commit
  <2>2. /\ mid \in [Reqs -> Transaction] /\ mid[r] = Blank
        /\ \A q \in Reqs : q # r => mid[q] = txn[q]
    BY BlankType DEF TypeOK
  <2> HIDE DEF mid
  <2>3. \A q \in Reqs :
          /\ txn'[q].op = mid[q].op /\ txn'[q].status = mid[q].status
          /\ txn'[q].last = mid[q].last /\ txn'[q].locks = mid[q].locks
          /\ txn'[q].batch = mid[q].batch /\ txn'[q].rows = mid[q].rows
          /\ txn'[q].phase = mid[q].phase
    BY <2>1, <2>2 DEF Staled, Transaction
  <2>4. /\ Blank.op = {} /\ Blank.status = Blank.last /\ Blank.locks = {}
        /\ Blank.batch = {} /\ Blank.rows = {}
    BY DEF Blank
  <2>5. TellsOwn(r)'
    BY <2>2, <2>3, <2>4 DEF TellsOwn
  <2>6. last' = status'
    <3>1. last = status
      BY DEF QuietInv
    <3>2. \A l \in t.locks : l \in Lines => t.last[l] = t.status[l]
      BY <1>8, <1>q, <1>s DEF TellsOwn, Commit
    <3>3. /\ status' = Merge(status, t.status, t.locks)
          /\ last' = Merge(last, t.last, t.locks)
      BY <1>8 DEF Commit
    <3> QED BY <3>1, <3>2, <3>3 DEF Merge
  <2>7. \A q \in Reqs : q # r => TellsOwn(q)'
    <3> SUFFICES ASSUME NEW q \in Reqs, q # r
                 PROVE  TellsOwn(q)'
      OBVIOUS
    <3>1. CASE txn[q].op = {}
      BY <1>q, <2>2, <2>3, <3>1 DEF TellsOwn
    <3>2. ASSUME NEW e \in txn[q].op
          PROVE  TellsOwn(q)'
      <4>1. t.op = {} /\ e.line \in Lines
        BY SetsType DEF AgreeInv, SaveInv
      <4>2. t.locks = {}
        BY <1>q, <4>1 DEF TellsOwn
      <4>3. status' = status
        BY <1>8, <4>2 DEF Commit, Merge, TypeOK
      <4>4. site' = site
        BY <1>8 DEF Commit
      <4> QED BY <1>q, <2>2, <2>3, <4>3, <4>4 DEF TellsOwn
    <3> QED BY <3>1, <3>2
  <2>8. rows' = {} /\ cron' = CronIdle
    BY <1>8, <1>q DEF Commit, QuietInv, TellsOwn
  <2> QED BY <2>5, <2>6, <2>7, <2>8 DEF QuietInv
<1> QED BY <1>1, <1>2, <1>3, <1>4, <1>5, <1>6, <1>7, <1>8 DEF Request

\* Without a fault and without a rollback every step keeps the quiet.
LEMMA StepQuiet ==
  ASSUME OneWay, TypeOK, HeldInv, AgreeInv, QuietInv, [Next]_vars,
         \A r \in Reqs : ~Abort(r) /\ ~PostFails(r),
         ~CronStartDown, ~CronCrash, \A row \in cron.todo : ~CronFails(row)
  PROVE  QuietInv'
<1>c. cron.todo = {} /\ cron.on = FALSE /\ Pending = {}
  BY DEF QuietInv, CronIdle, Pending
<1>1. ASSUME NEW r \in Reqs,
             \/ \E l \in Lines, w \in Words : Save(r, l, w)
             \/ Resync(r)
             \/ Request(r)
      PROVE  QuietInv'
  BY <1>1, RequestQuiet
<1>2. ASSUME NEW l \in Lines, NEW x \in SiteWords, SiteMoves(l, x)
      PROVE  QuietInv'
  <2>1. /\ x \in Allowed[site[l]] /\ x \in Words /\ site[l] \in Words
        /\ \A k \in Lines : k # l => site'[k] = site[k]
        /\ UNCHANGED <<status, last, rows, txn, cron>>
    BY <1>2, SyncAssumption DEF SiteMoves, TypeOK
  <2>2. ASSUME NEW r \in Reqs, NEW e \in txn[r].op, txn[r].phase = "open"
        PROVE  site'[e.line] = status[e.line]
    <3>1. site[e.line] = status[e.line] /\ e.line \in Lines /\ e.word \in Words
      BY <2>2, SetsType DEF QuietInv, TellsOwn
    <3>2. e.word \in Allowed[status[e.line]] /\ e.word \notin SiteWords
      BY DEF AgreeInv, SaveInv
    <3>3. e.line # l
      BY <2>1, <3>1, <3>2 DEF OneWay
    <3> QED BY <2>1, <3>1, <3>3
  <2>3. \A r \in Reqs : TellsOwn(r)'
    BY <2>1, <2>2 DEF QuietInv, TellsOwn
  <2> QED BY <2>1, <2>3 DEF QuietInv
<1>3. ASSUME NEW m \in inbox, Receive(m)
      PROVE  QuietInv'
  <2>1. /\ status' = [status EXCEPT ![m.line] = m.word]
        /\ last' = [last EXCEPT ![m.line] = m.word]
        /\ txn' = Staled(txn, {m.line}) /\ UNCHANGED <<rows, cron>>
    BY <1>3 DEF Receive
  <2>2. \A q \in Reqs :
          /\ txn'[q].op = txn[q].op /\ txn'[q].status = txn[q].status
          /\ txn'[q].last = txn[q].last /\ txn'[q].locks = txn[q].locks
          /\ txn'[q].batch = txn[q].batch /\ txn'[q].rows = txn[q].rows
    BY <2>1 DEF Staled, TypeOK, Transaction
  <2>3. \A q \in Reqs : txn[q].op = {}
    BY <1>3 DEF Receive, Holding, Active, AgreeInv, LockInv
  <2>4. \A q \in Reqs : TellsOwn(q)'
    BY <2>2, <2>3 DEF QuietInv, TellsOwn
  <2> QED BY <2>1, <2>4 DEF QuietInv
<1>4. ~CronStart /\ ~CronCommit
  BY <1>c DEF CronStart, CronBegins, CronCommit
<1>5. CASE UNCHANGED vars
  BY <1>5 DEF vars, QuietInv, TellsOwn
<1> QED BY <1>c, <1>1, <1>2, <1>3, <1>4, <1>5 DEF Next

\* The agreement and the quiet, for as long as the property speaks of them.
InStepInv ==
  /\ left.aborts <= MaxAborts /\ left.faults <= MaxFaults
  /\ NoAbort => AgreeInv
  /\ NoAbort /\ NoFault => QuietInv

\* It holds at first.
LEMMA InitInStep == OneWay /\ Init => InStepInv
<1> SUFFICES ASSUME OneWay, Init PROVE InStepInv
  OBVIOUS
<1>1. AgreeInv
  BY InitAgree
<1>2. \A r \in Reqs : TellsOwn(r)
  BY DEF Init, Blank, TellsOwn
<1>3. QuietInv
  BY <1>2 DEF Init, QuietInv
<1>4. left.aborts <= MaxAborts /\ left.faults <= MaxFaults
  BY SyncAssumption DEF Init
<1> QED BY <1>1, <1>3, <1>4 DEF InStepInv

\* Every step keeps it: what is used up of a bound does not come back.
LEMMA StepInStep ==
  OneWay /\ TypeOK /\ HeldInv /\ InStepInv /\ [Next]_vars => InStepInv'
<1> SUFFICES ASSUME OneWay, TypeOK, HeldInv, InStepInv, [Next]_vars
             PROVE  InStepInv'
  OBVIOUS
<1>b. /\ MaxAborts \in Nat /\ MaxFaults \in Nat
      /\ left.aborts \in Nat /\ left.faults \in Nat
      /\ left'.aborts \in Nat /\ left'.faults \in Nat
  BY SyncAssumption, StepType DEF TypeOK
<1>1. /\ left'.aborts <= left.aborts /\ left'.faults <= left.faults
      /\ (\E r \in Reqs : Abort(r)) => left'.aborts < left.aborts
      /\ (\/ \E r \in Reqs : PostFails(r)
          \/ CronStartDown \/ CronCrash
          \/ \E row \in cron.todo : CronFails(row)) => left'.faults < left.faults
  BY LeftFalls
<1>2. left'.aborts <= MaxAborts /\ left'.faults <= MaxFaults
  BY <1>b, <1>1 DEF InStepInv
<1>3. NoAbort' => NoAbort /\ left'.aborts = left.aborts
  BY <1>b, <1>1 DEF InStepInv, NoAbort
<1>4. NoFault' => NoFault /\ left'.faults = left.faults
  BY <1>b, <1>1 DEF InStepInv, NoFault
<1>5. NoAbort' => \A r \in Reqs : ~Abort(r)
  BY <1>b, <1>1, <1>3
<1>6. NoFault' => /\ \A r \in Reqs : ~PostFails(r)
                  /\ ~CronStartDown /\ ~CronCrash
                  /\ \A row \in cron.todo : ~CronFails(row)
  BY <1>b, <1>1, <1>4
<1>7. ASSUME NoAbort'
      PROVE  AgreeInv'
  BY <1>3, <1>5, <1>7, StepAgree DEF InStepInv
<1>8. ASSUME NoAbort', NoFault'
      PROVE  QuietInv'
  BY <1>3, <1>4, <1>5, <1>6, <1>8, StepQuiet DEF InStepInv
<1> QED BY <1>2, <1>7, <1>8 DEF InStepInv

\* The agreement is what the property says.
LEMMA InStepSilent == OneWay /\ TypeOK /\ HeldInv /\ InStepInv => SilenceIsAgreement
<1> SUFFICES ASSUME OneWay, TypeOK, HeldInv, InStepInv
             PROVE  SilenceIsAgreement
  OBVIOUS
<1>1. ASSUME NoAbort, Quiet, NEW l \in Lines, last[l] = status[l]
      PROVE  site[l] = status[l]
  <2>1. \A r \in Reqs : txn[r].op = {}
    BY <1>1 DEF Quiet, InStepInv, AgreeInv, LockInv, Active
  <2> QED BY <1>1, <2>1, SilentAgrees DEF Quiet, InStepInv
<1>2. SuppressedIsHeld
  BY <1>1 DEF SuppressedIsHeld, NoAbort
<1>3. ASSUME NoAbort, NoFault
      PROVE  rows = {} /\ (Quiet => site = status /\ last = status)
  <2>1. rows = {} /\ last = status
    BY <1>3 DEF InStepInv, QuietInv
  <2>2. Quiet => site = status
    BY <1>1, <1>3, <2>1 DEF TypeOK
  <2> QED BY <2>1, <2>2
<1>4. InStepUntilAFault
  BY <1>3 DEF InStepUntilAFault, NoAbort, NoFault
<1> QED BY <1>2, <1>4 DEF SilenceIsAgreement

\* Where statuses are taken once and no request is rolled back after its call: a line
\* whose status Odoo holds as told has it on the website, and until a call fails nothing
\* is left for the retry queue and both sides are equal when nothing is under way.
THEOREM SilenceAgrees ==
  ASSUME OneWay
  PROVE  Spec => []SilenceIsAgreement
<1>1. Init => TypeOK /\ HeldInv /\ InStepInv
  BY InitType, InitHeld, InitInStep
<1>2. TypeOK /\ HeldInv /\ InStepInv /\ [Next]_vars => (TypeOK /\ HeldInv /\ InStepInv)'
  BY StepType, StepHeld, StepInStep
<1>3. TypeOK /\ HeldInv /\ InStepInv => SilenceIsAgreement
  BY InStepSilent
<1> QED BY <1>1, <1>2, <1>3, PTL DEF Spec

\* The way of a stone that passes QC and is paid for is one: Odoo takes it to the
\* payment, the website reports that it was made.
LEMMA PaidWayIsOneWay ==
  ASSUME Words = {"Diamond Booked", "In QC process", "Payment Pending",
                  "Payment Completed"},
         SiteWords = {"Payment Completed"}
  PROVE  OneWay
<1> DEFINE rank == [w \in Words |-> CASE w = "Diamond Booked" -> 0
                                      [] w = "In QC process" -> 1
                                      [] w = "Payment Pending" -> 2
                                      [] w = "Payment Completed" -> 3]
<1>1. /\ Allowed["Diamond Booked"] = {"Confirmed", "Not available",
                                      "In QC process", "Cancelled"}
      /\ Allowed["In QC process"] = {"Payment Pending", "QC Fail",
                                     "Returned from memo", "Cancelled"}
      /\ Allowed["Payment Pending"] = {"Payment Completed", "Cancelled",
                                       "Dispatched"}
      /\ Allowed["Payment Completed"] = {"Dispatched", "Delivered",
                                         "Order Completed"}
  BY DEF Allowed
<1>2. /\ rank \in [Words -> Nat]
      /\ rank["Diamond Booked"] = 0 /\ rank["In QC process"] = 1
      /\ rank["Payment Pending"] = 2 /\ rank["Payment Completed"] = 3
  OBVIOUS
<1> HIDE DEF rank
<1>3. \A v, w \in Words : w \in Allowed[v] => rank[v] < rank[w]
  <2> SUFFICES ASSUME NEW v \in Words, NEW w \in Words, w \in Allowed[v]
               PROVE  rank[v] < rank[w]
    OBVIOUS
  <2>1. \/ v = "Diamond Booked" /\ w = "In QC process"
        \/ v = "In QC process" /\ w = "Payment Pending"
        \/ v = "Payment Pending" /\ w = "Payment Completed"
    BY <1>1
  <2>2. \/ rank[v] = 0 /\ rank[w] = 1
        \/ rank[v] = 1 /\ rank[w] = 2
        \/ rank[v] = 2 /\ rank[w] = 3
    BY ONLY <1>2, <2>1, Zenon
  <2> QED BY ONLY <2>2
<1>4. \A x \in SiteWords : Allowed[x] \cap Words = {}
  BY <1>1
<1>5. \A v \in Words : Allowed[v] \cap SiteWords # {} => Allowed[v] \cap Words \subseteq SiteWords
  BY <1>1
<1> QED BY <1>2, <1>3, <1>4, <1>5 DEF OneWay, Booked

=============================================================================
