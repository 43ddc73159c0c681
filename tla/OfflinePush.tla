----------------------------- MODULE OfflinePush -----------------------------
(***************************************************************************)
(* An order made in Odoo (an offline order) is pushed to the website once,  *)
(* when it is confirmed, and again by a sweep every ten minutes until the   *)
(* website has accepted it.  The website answers with an id for each entry  *)
(* of the order; later statuses travel both ways under these ids.           *)
(*                                                                          *)
(* An entry stands for one stone, or for a parcel of melee: several lines   *)
(* that come from one size line of the customer's RFQ.  A parcel has one    *)
(* id, on the line that headed it when it was pushed.  A line may die (fail *)
(* QC, be cancelled) at any moment, also between a push and its answer, and *)
(* the administrator may change the way parcels are sent.                   *)
(*                                                                          *)
(* The website is external: it takes an order once by its invoice number    *)
(* and answers the same again, refuses an order with bad data (and may      *)
(* reserve the ids of a refused order), answers late or not at all.         *)
(***************************************************************************)
EXTENDS Integers, FiniteSets, Sequences

CONSTANTS
  LineSeq,      \* the lines of the order by their database ids
  SizeLine,     \* the RFQ size line of each line, or NoSize
  NoSize,       \* the line is a stone of its own
  NoNumber,     \* the line has no id of the website
  Moves,        \* pairs of statuses: how users move a line in this instance
  SiteMoves,    \* statuses the website sets in this instance
  Groupings,    \* the ways of sending parcels the administrator sets
  Reserves,     \* whether a refusal may reserve the ids it was asked for
  MaxRows       \* bound on the retry rows pending at a time

Line == {LineSeq[i] : i \in DOMAIN LineSeq}
IndexOf(l) == CHOOSE i \in DOMAIN LineSeq : LineSeq[i] = l
Lowest(S) == CHOOSE l \in S : \A m \in S : IndexOf(l) <= IndexOf(m)

Dead == {"cancelled", "replaced", "not_available", "qc_fail",
         "memo_returned"}
\* The live pipeline, least advanced first.
Progression ==
  <<"diamond_booked", "confirmed", "in_qc_process", "payment_pending",
    "payment_completed", "dispatched", "return_of_order", "re_dispatched",
    "delivered", "order_completed">>
Statuses == Dead \union {Progression[i] : i \in DOMAIN Progression}
CreateStatuses == {"diamond_booked", "confirmed"}

\* What a retry row may hold as the code of the failure: none (no answer), the
\* cron's own word for that, a refusal, an error of the website.
Codes == {"", "EXCEPTION", "400", "500"}
Retryable == {"", "EXCEPTION", "500"}

ASSUME OfflinePushAssumption ==
  /\ LineSeq \in Seq(Line)
  /\ \A i, j \in DOMAIN LineSeq : LineSeq[i] = LineSeq[j] => i = j
  /\ DOMAIN SizeLine = Line
  /\ NoNumber \notin Line
  /\ Moves \subseteq Statuses \X Statuses
  /\ SiteMoves \subseteq Statuses
  /\ Groupings \subseteq {"stones", "slices", "parcels"}
  /\ Reserves \subseteq BOOLEAN /\ FALSE \in Reserves
  /\ MaxRows \in Nat \ {0}

VARIABLES
  order,      \* state of the sale order: "draft", "sale" or "cancel"
  recent,     \* it is younger than the sweep's seven days
  status,     \* availability_status of each line
  number,     \* order_number of each line: the entry it was told, or NoNumber
  pushed,     \* lgd_offline_pushed
  error,      \* lgd_offline_push_error: the code of the last failure or "none"
  rows,       \* pending rows of augmont.api.retry with this order's payloads
  good,       \* the order's data satisfy the website (lab, seller's address)
  grouping,   \* lgd_offline_send_melee and lgd_offline_group_melee: parcels go
              \* out as "stones", as MELEE "slices" or as whole "parcels"
  entries,    \* the order on the website: its entries, {} before it has it
  reserved,   \* ids the website keeps from a refused order
  unheard     \* the website moved an entry whose id Odoo does not know

order_vars == <<order, recent, status, good, grouping>>
push_vars == <<number, pushed, error, rows>>
site_vars == <<entries, reserved, unheard>>
vars == <<order_vars, push_vars, site_vars>>

Entry == [ref : Line, stands : SUBSET Line, word : Statuses]
\* A payload is what the order looked like when it was built.
Row == [sent : SUBSET Entry, good : BOOLEAN, code : Codes]

TypeOK ==
  /\ order \in {"draft", "sale", "cancel"} /\ recent \in BOOLEAN
  /\ status \in [Line -> Statuses]
  /\ number \in [Line -> Line \union {NoNumber}]
  /\ pushed \in BOOLEAN /\ error \in Codes \union {"none"}
  /\ rows \subseteq Row
  /\ good \in BOOLEAN /\ grouping \in {"stones", "slices", "parcels"}
  /\ entries \subseteq Entry /\ reserved \subseteq Line
  /\ unheard \in BOOLEAN

(***************************************************************************)
(* Grouping                                                                 *)
(***************************************************************************)
LiveIn(st) == {l \in Line : st[l] \notin Dead}

\* What one entry stands for: a parcel only while lines go out as MELEE, and in
\* a payload only when parcels are sent whole.
KeyOf(l, forPayload) ==
  IF /\ SizeLine[l] # NoSize
     /\ IF forPayload THEN grouping = "parcels" ELSE grouping # "stones"
  THEN <<"szl", SizeLine[l]>> ELSE <<"line", l>>

Holders(kin) == {l \in kin : number[l] # NoNumber}

\* The line with an id, dead or not, else the lowest one alive.
HeadOf(members, kin) ==
  IF Holders(kin) # {} THEN Lowest(Holders(kin)) ELSE Lowest(members)

\* The groups with a live line, for lines of statuses st.
Groups(st, forPayload) ==
  LET kinOf(l) == {m \in Line : KeyOf(m, forPayload) = KeyOf(l, forPayload)}
      group(l) == LET kin == kinOf(l)
                      members == kin \intersect LiveIn(st)
                  IN  [head |-> HeadOf(members, kin), members |-> members,
                       kin |-> kin]
  IN  {group(l) : l \in LiveIn(st)}

\* Mutant: a refusal is final, as it is for the retry cron.
NeedsUnlessRefused ==
  /\ ~pushed /\ error # "400"
  /\ \E g \in Groups(status, FALSE) : Holders(g.kin) = {}

\* _lgd_needs_offline_push
NeedsPush ==
  /\ ~pushed
  /\ \E g \in Groups(status, FALSE) : Holders(g.kin) = {}

\* The status an entry is created with: of the head, or of a live line.
CreateWord(g) ==
  LET l == IF g.head \in g.members THEN g.head ELSE Lowest(g.members)
  IN  IF status[l] \in CreateStatuses THEN status[l] ELSE "diamond_booked"

Payload ==
  {[ref |-> g.head, stands |-> g.members, word |-> CreateWord(g)] :
     g \in Groups(status, TRUE)}

\* The status to report for line l, which has an id: its own, or the least
\* advanced of its parcel's live lines if the parcel has this one id.
Reported(st, l) ==
  LET spoken == {g \in Groups(st, FALSE) :
                   /\ l \in g.kin /\ Cardinality(g.kin) > 1
                   /\ Cardinality(Holders(g.kin)) <= 1}
  IN  IF spoken = {} THEN st[l]
      ELSE LET g == CHOOSE x \in spoken : TRUE
               first == CHOOSE i \in DOMAIN Progression :
                          /\ \E m \in g.members : st[m] = Progression[i]
                          /\ \A m \in g.members : \A j \in 1..(i - 1) :
                               st[m] # Progression[j]
           IN  Progression[first]

(***************************************************************************)
(* The website                                                              *)
(***************************************************************************)
Refs(sent) == {e.ref : e \in sent}

\* What the website makes of an order: it answers a known invoice number with
\* the entries it has, and refuses bad data and ids it keeps.
Accepts(sent, fine) ==
  entries # {} \/ (fine /\ Refs(sent) \intersect reserved = {})

Receive(sent, fine) ==
  IF Accepts(sent, fine)
  THEN /\ entries' = IF entries # {} THEN entries ELSE sent
       /\ UNCHANGED reserved
  ELSE /\ UNCHANGED entries
       /\ \E keep \in Reserves :
            reserved' = IF keep THEN reserved \union Refs(sent) ELSE reserved

(***************************************************************************)
(* The push                                                                 *)
(***************************************************************************)
\* Mutant: answers are matched by their place in the answer.
StoreByPlace(answer) ==
  LET refs == Refs(answer)
      place(l) == Cardinality({m \in Line : IndexOf(m) <= IndexOf(l)})
      told(l) == {r \in refs : Cardinality({q \in refs : IndexOf(q) <= IndexOf(r)})
                                 = place(l)}
  IN  [l \in Line |-> IF number[l] = NoNumber /\ told(l) # {}
                      THEN CHOOSE r \in told(l) : TRUE ELSE number[l]]

\* _lgd_store_order_unique_ids: by lineRef, over dead lines too, never twice.
Store(answer) ==
  [l \in Line |-> IF number[l] = NoNumber /\ l \in Refs(answer)
                  THEN l ELSE number[l]]

\* Mutant: the row is written with the code of the failure before this one.
NewRowStale(sent, fine, code) ==
  rows' = rows \union {[sent |-> sent, good |-> fine, code |-> error]}

NewRow(sent, fine, code) ==
  rows' = rows \union {[sent |-> sent, good |-> fine, code |-> code]}

\* The website answered 200.
Accepted ==
  /\ Accepts(Payload, good) /\ Receive(Payload, good)
  /\ number' = Store(entries')
  /\ pushed' = TRUE /\ error' = "none"

\* It refused, failed, or did not answer: a row for the retry cron.
Failed ==
  /\ Cardinality(rows) < MaxRows
  /\ \/ ~Accepts(Payload, good) /\ Receive(Payload, good)
        /\ error' = "400" /\ NewRow(Payload, good, "400")
     \/ UNCHANGED <<entries, reserved>>
        /\ error' = "500" /\ NewRow(Payload, good, "500")
     \/ UNCHANGED <<entries, reserved>>
        /\ error' = "" /\ NewRow(Payload, good, "")
     \/ Receive(Payload, good)
        /\ error' = "" /\ NewRow(Payload, good, "")
  /\ UNCHANGED <<number, pushed>>

\* action_confirm: the order is confirmed whatever the push does.
Confirm ==
  /\ order = "draft" /\ order' = "sale"
  /\ \/ NeedsPush /\ Accepted /\ UNCHANGED rows
     \/ NeedsPush /\ Failed
     \/ ~NeedsPush /\ UNCHANGED <<push_vars, entries, reserved>>
  /\ UNCHANGED <<recent, status, good, grouping, unheard>>

\* The transaction that confirms is rolled back after the website answered.
ConfirmRolledBack ==
  /\ order = "draft" /\ NeedsPush
  /\ Receive(Payload, good)
  /\ UNCHANGED <<order_vars, push_vars, unheard>>

\* _cron_lgd_push_offline_orders; a push that worked closes the pending rows.
SweepAccepted ==
  /\ order = "sale" /\ recent /\ NeedsPush
  /\ Accepted /\ rows' = {}
  /\ UNCHANGED <<order_vars, unheard>>

SweepFailed ==
  /\ order = "sale" /\ recent /\ NeedsPush
  /\ Failed
  /\ UNCHANGED <<order_vars, unheard>>

(***************************************************************************)
(* The retry cron, which replays the payload that failed                    *)
(***************************************************************************)
\* A refusal is permanent.
GiveUpRow(r) ==
  /\ r \in rows /\ r.code \notin Retryable
  /\ rows' = rows \ {r}
  /\ UNCHANGED <<order_vars, number, pushed, error, site_vars>>

\* Accepted: the row is done; the answer's ids are not read.
ReplayAccepted(r) ==
  /\ r \in rows /\ r.code \in Retryable
  /\ Accepts(r.sent, r.good) /\ Receive(r.sent, r.good)
  /\ rows' = rows \ {r}
  /\ UNCHANGED <<order_vars, number, pushed, error, unheard>>

\* Refused: permanent.  Failed or unanswered: it stays pending.
ReplayFailed(r) ==
  /\ r \in rows /\ r.code \in Retryable
  /\ \/ /\ ~Accepts(r.sent, r.good) /\ Receive(r.sent, r.good)
        /\ rows' = rows \ {r}
     \/ /\ \E code \in {"EXCEPTION", "500"} :
             rows' = (rows \ {r}) \union {[r EXCEPT !.code = code]}
        /\ UNCHANGED <<entries, reserved>>
     \/ /\ Receive(r.sent, r.good)
        /\ rows' = (rows \ {r}) \union {[r EXCEPT !.code = "EXCEPTION"]}
  /\ UNCHANGED <<order_vars, number, pushed, error, unheard>>

(***************************************************************************)
(* Statuses                                                                 *)
(***************************************************************************)
\* One batch with the reported status of every line that has an id.
Tell(st) ==
  {IF number[e.ref] = e.ref THEN [e EXCEPT !.word = Reported(st, e.ref)]
   ELSE e : e \in entries}

\* A user moves a line; the batch that follows may fail.
MoveLine(l, to) ==
  /\ order # "cancel" /\ <<status[l], to>> \in Moves
  /\ status' = [status EXCEPT ![l] = to]
  /\ entries' \in {entries, Tell(status')}
  /\ UNCHANGED <<order, recent, good, grouping, push_vars, reserved, unheard>>

\* Mutant: the call moves the dead lines of a parcel too.
TargetKin(l) ==
  IF Cardinality(Holders({m \in Line : KeyOf(m, FALSE) = KeyOf(l, FALSE)})) > 1
  THEN {l} ELSE {m \in Line : KeyOf(m, FALSE) = KeyOf(l, FALSE)}

\* The lines a call of the website for the id of line l writes.
Targets(l) ==
  LET mine == {g \in Groups(status, FALSE) :
                 /\ l \in g.kin /\ Cardinality(g.kin) > 1
                 /\ Cardinality(Holders(g.kin)) <= 1}
  IN  IF mine = {} THEN {l} ELSE UNION {g.members : g \in mine}

\* The website moves an entry and calls; the call names the id.
SiteMove(e, to) ==
  /\ e \in entries /\ e.word \notin Dead /\ to # e.word
  /\ entries' = (entries \ {e}) \union {[e EXCEPT !.word = to]}
  /\ IF number[e.ref] = e.ref
     THEN /\ status' = [l \in Line |-> IF l \in Targets(e.ref) THEN to
                                       ELSE status[l]]
          /\ UNCHANGED unheard
     ELSE /\ unheard' = TRUE
          /\ UNCHANGED status
  /\ UNCHANGED <<order, recent, good, grouping, push_vars, reserved>>

\* The order is cancelled with all that lives.
Cancel ==
  /\ order # "cancel" /\ order' = "cancel"
  /\ status' = [l \in Line |-> IF status[l] \in Dead THEN status[l]
                               ELSE "cancelled"]
  /\ entries' \in {entries, Tell(status')}
  /\ UNCHANGED <<recent, good, grouping, push_vars, reserved, unheard>>

\* Somebody adds the missing lab or the seller's address.  (Once the order is
\* pushed nothing reads its data or its age again.)
MendData ==
  /\ ~good /\ ~pushed /\ good' = TRUE
  /\ UNCHANGED <<order, recent, status, grouping, push_vars, site_vars>>

\* The administrator changes how parcels are sent.
Regroup(how) ==
  /\ how # grouping /\ grouping' = how
  /\ UNCHANGED <<order, recent, status, good, push_vars, site_vars>>

\* Seven days pass.
Expire ==
  /\ recent /\ ~pushed /\ recent' = FALSE
  /\ UNCHANGED <<order, status, good, grouping, push_vars, site_vars>>

(***************************************************************************)
(* Specification                                                            *)
(***************************************************************************)
Init ==
  /\ order = "draft" /\ recent = TRUE
  /\ status = [l \in Line |-> "diamond_booked"]
  /\ number = [l \in Line |-> NoNumber]
  /\ pushed = FALSE /\ error = "none" /\ rows = {}
  /\ good \in BOOLEAN /\ grouping \in Groupings
  /\ entries = {} /\ reserved = {} /\ unheard = FALSE

Next ==
  \/ Confirm \/ ConfirmRolledBack \/ SweepAccepted \/ SweepFailed
  \/ \E r \in rows : GiveUpRow(r) \/ ReplayAccepted(r) \/ ReplayFailed(r)
  \/ \E l \in Line : \E to \in Statuses : MoveLine(l, to)
  \/ \E e \in entries : \E to \in SiteMoves : SiteMove(e, to)
  \/ Cancel \/ MendData \/ Expire
  \/ \E how \in Groupings : Regroup(how)

\* The sweep runs every ten minutes; somebody mends the data; the website, asked
\* again and again, answers some time.
Fairness ==
  /\ WF_vars(MendData)
  /\ SF_vars(SweepAccepted)

Spec == Init /\ [][Next]_vars /\ Fairness

(***************************************************************************)
(* Properties                                                               *)
(***************************************************************************)
\* An id leads to the entry it names: the entry exists, it stands for the line
\* that holds the id or for its parcel, and no line holds another line's id.
\* (Statuses are routed by these ids, both ways.)
IdsAreRouted ==
  \A l \in Line : number[l] # NoNumber =>
    \E e \in entries :
      /\ e.ref = number[l]
      /\ \A m \in e.stands : m = l \/ (SizeLine[m] = SizeLine[l]
                                       /\ SizeLine[l] # NoSize)

\* No stone of a pushed order is missing on the website: what lives is in
\* exactly one entry, and that entry's id is known here.
PushedIsComplete ==
  pushed => \A l \in LiveIn(status) :
    /\ Cardinality({e \in entries : l \in e.stands}) = 1
    /\ \E e \in entries : l \in e.stands /\ number[e.ref] = e.ref

\* What was pushed is there in full, under the ids that lead to it.
PushedIsRouted == IdsAreRouted /\ PushedIsComplete

\* The lines one id speaks for as parcels are sent now.
Kin(l) == {m \in Line : KeyOf(m, FALSE) = KeyOf(l, FALSE)}

DeadWithLife(e, entered, st) ==
  e \in entered /\ e.word \in Dead /\ e.stands \intersect LiveIn(st) # {}

\* No entry comes to be dead on the website while a stone it stands for lives
\* here, but by what people do: the website moved it before Odoo knew its id,
\* parcels have since been sent stone by stone, or a user revives a stone.
DeadEntriesDied ==
  [][\A e \in entries' : DeadWithLife(e, entries', status') =>
       \/ \E d \in entries : d.ref = e.ref /\ DeadWithLife(d, entries, status)
       \/ number[e.ref] # e.ref
       \/ ~(e.stands \subseteq Kin(e.ref))
       \/ \E l \in e.stands : status[l] \in Dead /\ status'[l] \notin Dead
                           /\ <<status[l], status'[l]>> \in Moves]_vars

\* A dead stone changes only by a user's move, or by a call that names its own
\* id: with no stone of its parcel alive, or each under an id of its own.
DeadStayDead ==
  [][\A l \in Line : (status[l] \in Dead /\ status'[l] # status[l]) =>
       \/ <<status[l], status'[l]>> \in Moves
       \/ number[l] = l /\ (\/ Kin(l) \intersect LiveIn(status) = {}
                          \/ Cardinality(Holders(Kin(l))) > 1)]_vars

\* Stones of a parcel with one id live and die by their own line.
DeadAndAliveApart == DeadEntriesDied /\ DeadStayDead

\* A confirmed order with a live stone gets to the website, unless it is
\* cancelled, dies, gets too old, or the website kept its ids from a refusal.
EventuallyPushed ==
  (order = "sale" /\ LiveIn(status) # {}) ~>
    (pushed \/ order = "cancel" \/ LiveIn(status) = {} \/ ~recent
     \/ reserved # {})

(***************************************************************************)
(* The inductive invariants of OfflinePush_proofs.                          *)
(***************************************************************************)
SameParcel(l, m) == SizeLine[l] = SizeLine[m] /\ SizeLine[l] # NoSize

\* What one payload is made of: disjoint groups, each with a line of its own as
\* its head, within one parcel; a parcel that is cut is cut into single lines.
WellMade(S) ==
  /\ \A e \in S : e.ref \in e.stands
  /\ \A e \in S : \A m \in e.stands : m = e.ref \/ SameParcel(m, e.ref)
  /\ \A e, f \in S : e # f => e.stands \cap f.stands = {}
  /\ \A e, f \in S : e # f /\ SameParcel(e.ref, f.ref) => e.stands = {e.ref}

\* Ids are known from the push on, and then those of all entries.
NumbersOK ==
  /\ \A l \in Line : number[l] \in {NoNumber, l}
  /\ ~pushed => \A l \in Line : number[l] = NoNumber
  /\ pushed => entries # {} /\ \A l \in Refs(entries) : number[l] = l
  /\ \A l \in Line : number[l] = l => l \in Refs(entries)

RoutedInv ==
  TypeOK /\ NumbersOK /\ WellMade(entries) /\ \A r \in rows : WellMade(r.sent)

\* Users do not bring a dead line back to life.
DeadForGood == \A move \in Moves : move[1] \in Dead => move[2] \in Dead

\* No stone alive now was missing when the payload was made.
Covers(S) == \A l \in LiveIn(status) : \E e \in S : l \in e.stands

CompleteInv ==
  /\ RoutedInv
  /\ entries # {} => Covers(entries)
  /\ entries = {} => \A r \in rows : r.sent # {} => Covers(r.sent)

\* Nothing is sent dead.
SentAlive == RoutedInv /\ \A r \in rows : \A e \in r.sent : e.word \notin Dead
=============================================================================
