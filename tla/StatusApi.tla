------------------------------ MODULE StatusApi ------------------------------
(***************************************************************************)
(* The website sets statuses of lines (POST /api/lgd/order/status), one or  *)
(* a list at a time, while other such calls and users' forms write lines of *)
(* the same orders.  A call is one transaction on a snapshot of the         *)
(* database; the row of the order is locked for each entry, and every write *)
(* of a line updates that row.  A row another transaction has changed since *)
(* the snapshot fails the one that locks or writes it, and Odoo runs the    *)
(* call again.  Parcels, whose entry reaches several lines, are in          *)
(* OfflinePush.                                                             *)
(***************************************************************************)
EXTENDS Integers, Sequences, FiniteSets, SequencesExt, OrderRules

CONSTANTS
  ApiLine,      \* lines
  ApiOrder,     \* sale orders
  OrderOf,      \* the order of each line
  FirstStatus,  \* status of each line when the calls come
  Request,      \* calls and forms
  Entries,      \* of each: its entries, [line, status, valid]
  ByForm,       \* those that are a user's form
  MaxTries,     \* bound of Odoo's retries
  Faulty        \* calls whose last entry may fail in the database

VARIABLES
  stored,       \* committed: the lines, the orders' status and state
  calls,          \* per request: its transaction
  replied       \* per request: the answer that was sent, per entry

api_vars == <<stored, calls, replied>>

ASSUME StatusApiAssumption ==
  /\ OrderOf \in [ApiLine -> ApiOrder] /\ ByForm \subseteq Request /\ Faulty \subseteq Request
  /\ FirstStatus \in [ApiLine -> STRING] /\ MaxTries \in Nat \ {0}
  /\ \A r \in Request : Entries[r] \in Seq([line : ApiLine, status : STRING, valid : BOOLEAN])

StatusOfLines(v, o) ==
  StatusOf(v.state[o] = "cancel", {v.line[l] : l \in {k \in ApiLine : OrderOf[k] = o}})

\* A transaction: none, or the view it has (its snapshot and what it wrote),
\* the lines it wrote, the order rows it holds, those of them it updated, and
\* those that others changed since its snapshot.
Started(tries) ==
  [on |-> TRUE, tries |-> tries, view |-> stored, wrote |-> {}, holds |-> {}, updated |-> {},
   stale |-> {}, aborted |-> FALSE, results |-> <<>>]
Over == [on |-> FALSE, tries |-> 0, view |-> stored, wrote |-> {}, holds |-> {},
         updated |-> {}, stale |-> {}, aborted |-> FALSE, results |-> <<>>]

NextEntry(r) == Entries[r][Len(calls[r].results) + 1]
HasEntry(r) == calls[r].on /\ Len(calls[r].results) < Len(Entries[r])
RowOf(r) == OrderOf[NextEntry(r).line]
Others(r) == Request \ {r}
HeldByOther(r) == \E q \in Others(r) : calls[q].on /\ RowOf(r) \in calls[q].holds

Answered(t, what) == [t EXCEPT !.results = Append(@, what)]

\* The transaction fails as a whole: it is run again, or the call is answered
\* with an error.
Failed(r) ==
  /\ UNCHANGED stored
  /\ IF calls[r].tries < MaxTries
     THEN calls' = [calls EXCEPT ![r] = Started(@.tries + 1)] /\ UNCHANGED replied
     ELSE calls' = [calls EXCEPT ![r].on = FALSE] /\ replied' = [replied EXCEPT ![r] = <<"failed">>]

Begin(r) ==
  /\ ~calls[r].on /\ replied[r] = <<>> /\ calls' = [calls EXCEPT ![r] = Started(1)]
  /\ UNCHANGED <<stored, replied>>

\* Entries without a number, with an unknown status, without the UTR or the
\* tracking their status asks for, or for no line.
Refuse(r) ==
  /\ HasEntry(r) /\ ~calls[r].aborted /\ ~NextEntry(r).valid
  /\ calls' = [calls EXCEPT ![r] = Answered(@, "error")] /\ UNCHANGED <<stored, replied>>

\* sale.order.line.write, then (not for a form) the endpoint's confirmation or
\* cancellation of the order, which may fail unnoticed.
WithStatus(v, e, form) ==
  LET o == OrderOf[e.line]
      w == [v EXCEPT !.line[e.line] = e.status]
      s == StatusOfLines(w, o)
      becomes == {v.state[o]}
        \union {x \in {"sale"} : ~form /\ s = "Order Confirmed" /\ v.state[o] = "draft"}
        \union {x \in {"cancel"} : ~form /\ e.status = "cancelled" /\ s = "Cancelled"}
  IN  {[w EXCEPT !.sdk[o] = s, !.state[o] = b] : b \in becomes}

\* "SQL PERSIST": the order's row is updated by every write of a line.
RowUpdated(v, w, o) == {o}

\* Mutant: without the lock the conflict meets the write, inside the entry's try.
ConflictSwallowed(r) ==
  calls' = [calls EXCEPT ![r] = [Answered(calls[r], "conflict") EXCEPT !.aborted = TRUE]]
  /\ UNCHANGED <<stored, replied>>
\* The lock of the order's row is outside the entry's try.
RowConflict(r) == Failed(r)

\* The transaction waits for the lock while another holds it.
ApplyEntry(r) ==
  /\ HasEntry(r) /\ ~calls[r].aborted /\ NextEntry(r).valid /\ ~HeldByOther(r)
  /\ IF RowOf(r) \in calls[r].stale
     THEN RowConflict(r)
     ELSE /\ \E w \in WithStatus(calls[r].view, NextEntry(r), r \in ByForm) :
               calls' = [calls EXCEPT ![r] = [Answered(calls[r], "success") EXCEPT
                         !.view = w, !.wrote = @ \union {NextEntry(r).line},
                         !.holds = @ \union {RowOf(r)},
                         !.updated = @ \union RowUpdated(calls[r].view, w, RowOf(r))]]
          /\ UNCHANGED <<stored, replied>>

\* A row of something else (a purchase order, a transfer) fails the write: the
\* endpoint answers with an error for the entry and goes on in a transaction
\* that can no longer do anything.
FailEntry(r) ==
  /\ HasEntry(r) /\ ~calls[r].aborted /\ NextEntry(r).valid /\ r \in Faulty /\ ~HeldByOther(r)
  /\ calls' = [calls EXCEPT ![r] = [Answered(calls[r], "conflict") EXCEPT !.aborted = TRUE,
                                  !.holds = @ \union {RowOf(r)}]]
  /\ UNCHANGED <<stored, replied>>

\* The next entry's search fails, outside its try.
FailCall(r) ==
  /\ HasEntry(r) /\ calls[r].aborted
  /\ calls' = [calls EXCEPT ![r].on = FALSE] /\ replied' = [replied EXCEPT ![r] = <<"failed">>]
  /\ UNCHANGED stored

\* Two calls wait for each other: the database ends one.
Waits(r, q) == /\ HasEntry(r) /\ ~calls[r].aborted /\ NextEntry(r).valid
               /\ calls[q].on /\ RowOf(r) \in calls[q].holds
Deadlock(r) == \E q \in Others(r) : Waits(r, q) /\ Waits(q, r) /\ Failed(r)

\* The commit: of an aborted transaction nothing is stored.
CommitCall(r) ==
  LET t == calls[r]
      kept == IF t.aborted THEN {} ELSE t.updated
  IN  /\ t.on /\ ~HasEntry(r)
      /\ stored' =
           IF t.aborted THEN stored
           ELSE [line |-> [l \in ApiLine |-> IF l \in t.wrote THEN t.view.line[l] ELSE stored.line[l]],
                 sdk |-> [o \in ApiOrder |-> IF o \in kept THEN t.view.sdk[o] ELSE stored.sdk[o]],
                 state |-> [o \in ApiOrder |-> IF o \in kept THEN t.view.state[o] ELSE stored.state[o]]]
      /\ calls' = [q \in Request |-> IF q = r THEN [calls[q] EXCEPT !.on = FALSE]
                                   ELSE IF calls[q].on THEN [calls[q] EXCEPT !.stale = @ \union kept]
                                   ELSE calls[q]]
      /\ replied' = [replied EXCEPT ![r] = IF r \in ByForm THEN <<"saved">> ELSE t.results]

ApiInit ==
  LET first == [line |-> FirstStatus, sdk |-> [o \in ApiOrder |-> "Order Received"],
                state |-> [o \in ApiOrder |-> "draft"]]
  IN  /\ stored = [first EXCEPT !.sdk = [o \in ApiOrder |-> StatusOfLines(first, o)]]
      /\ calls = [r \in Request |-> [Over EXCEPT !.view = stored]]
      /\ replied = [r \in Request |-> <<>>]

ApiNext ==
  \E r \in Request :
    \/ Begin(r) \/ Refuse(r) \/ ApplyEntry(r) \/ FailEntry(r) \/ FailCall(r)
    \/ Deadlock(r) \/ CommitCall(r)

ApiSpec == ApiInit /\ [][ApiNext]_api_vars

ApiTypeOK ==
  /\ \A o \in ApiOrder : stored.sdk[o] \in OrderStatuses /\ stored.state[o] \in {"draft", "sale", "cancel"}
  /\ \A r \in Request : /\ calls[r].tries \in 0..MaxTries /\ calls[r].updated \subseteq calls[r].holds
                        /\ Len(calls[r].results) <= Len(Entries[r])

-----------------------------------------------------------------------------
\* However calls and forms for the lines of one order interleave, the status
\* that is stored for it is that of the lines that are stored: none of them
\* computed it from lines another one was changing.
StoredStatusFollows ==
  \A o \in ApiOrder : stored.sdk[o] = StatusOfLines(stored, o)

\* What a call answers is what is stored when its answer leaves: an entry is
\* refused only for what it says, never because another call was faster, and a
\* line has the status of the last entry that was answered with success for it.
AnswersAreTrue ==
  [][\A r \in Request \ (Faulty \union ByForm) : CommitCall(r) =>
       LET done == replied'[r]
       IN  \A i \in DOMAIN done :
             /\ done[i] # "success" => ~Entries[r][i].valid
             /\ done[i] = "success"
                /\ (\A j \in DOMAIN done : j > i => Entries[r][j].line # Entries[r][i].line)
                => stored'.line[Entries[r][i].line] = Entries[r][i].status]_api_vars

\* What is answered and shown is what is stored.
ShownIsStored == []StoredStatusFollows /\ AnswersAreTrue
=============================================================================
