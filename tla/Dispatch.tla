------------------------------ MODULE Dispatch ------------------------------
(***************************************************************************)
(* The stones of one confirmed sale order on their way out: into the vault, *)
(* to Dispatch, into parcels (lgd.dispatch), to the courier, and, when a    *)
(* parcel went out on memo, kept by the customer or returned.  Beside them  *)
(* the customer invoice: one open draft that follows what is ready and not  *)
(* on memo, and the posted ones.                                            *)
(*                                                                          *)
(* Every action is one button; it runs in one transaction with every write  *)
(* that its writes trigger.  Of the paperwork only the two slips are kept:  *)
(* the label, the ticks, the courier and the dates are typed in before the  *)
(* hand-over and change nothing else.                                       *)
(***************************************************************************)
EXTENDS Integers, FiniteSets

CONSTANTS
  Stone,      \* lines of the order, one stone each
  Parcel,     \* parcels that can be made
  Address,
  NoParcel,
  FirstDest,  \* [Stone -> Address]: destinations before any split
  Held,       \* stones a vendor still owns (lgd_vendor_memo)
  Recorded,   \* stones with a current purchase line (lgd_po_line_id)
  Cancellable \* bound: lines that somebody cancels

ASSUME DispatchAssumption ==
  /\ NoParcel \notin Parcel
  /\ Address # {}
  /\ FirstDest \in [Stone -> Address]
  /\ Held \subseteq Recorded
  /\ Recorded \subseteq Stone
  /\ Cancellable \subseteq Stone \ Held

VARIABLES
  status,     \* availability_status of each line
  vault,      \* lgd_in_vault
  atDispatch, \* lgd_to_dispatch
  void,       \* lines whose quantity is zero
  parcelOf,   \* lgd_dispatch_id
  dest,       \* lgd_ship_address_eff
  outcome,    \* lgd_memo_outcome
  stock,      \* units of ours in the warehouse
  parcel,     \* [Parcel -> its record]
  allowed,    \* lgd_partial_dispatch_allowed
  draft,      \* stones on the open draft invoice, {} if there is none
  posted      \* [Stone -> posted invoice lines]

lineVars == <<status, vault, atDispatch, void, dest, outcome, stock>>
vars == <<lineVars, parcelOf, parcel, allowed, draft, posted>>

Status == {"payment_pending", "cancelled", "dispatched", "delivered",
           "return_of_order", "re_dispatched", "order_completed",
           "in_qc_process", "qc_fail", "memo_returned"}

\* LGD_DEAD_STATUSES: a line that will not go out on this order.
Dead == {"cancelled", "qc_fail", "memo_returned"}

\* `none' is a parcel that has not been made.
ParcelRecord ==
  [state : {"none", "draft", "handed_over", "delivered", "memo_closed",
            "cancelled"},
   type : {"sale", "memo"},
   to : Address,
   batch : SUBSET Parcel,    \* the parcels of its press of Make parcels
   approval : {"not_required", "pending", "approved", "refused"},
   slip : SUBSET Stone,      \* the invoice slip in the box, {} if none
   memoSlip : BOOLEAN]       \* memo_slip_printed

Unmade == [state |-> "none", type |-> "sale", batch |-> {}, slip |-> {},
           to |-> CHOOSE a \in Address : TRUE, memoSlip |-> FALSE,
           approval |-> "not_required"]

Init ==
  /\ status = [s \in Stone |-> "payment_pending"]
  /\ vault = {}
  /\ atDispatch = {}
  /\ void = {}
  /\ parcelOf = [s \in Stone |-> NoParcel]
  /\ dest = FirstDest
  /\ outcome = [s \in Stone |-> "none"]
  /\ stock = {}
  /\ parcel = [p \in Parcel |-> Unmade]
  /\ allowed = FALSE
  /\ draft = {}
  /\ posted = [s \in Stone |-> 0]

Lines(p) == {s \in Stone : parcelOf[s] = p}
Live == {s \in Stone : status[s] \notin Dead}

-----------------------------------------------------------------------------
(* The invoice.                                                            *)

\* _lgd_memo_lines.
OnMemo ==
  {s \in Stone : /\ parcelOf[s] # NoParcel
                 /\ parcel[parcelOf[s]].type = "memo"
                 /\ parcel[parcelOf[s]].state # "cancelled"}

\* lgd_invoice_ready, for the lines that are invoiced automatically.
Ready(auto, vaulted) == auto # {} /\ auto \subseteq vaulted

\* _lgd_prepare_invoice_for_lines: a line with a quantity that is on no
\* invoice yet.
Billable(lines, d, done) ==
  {s \in lines : s \notin d /\ s \notin void /\ done[s] = 0}

\* _lgd_try_create_invoice.
Prepare(d, auto, vaulted, done) ==
  IF Ready(auto, vaulted) THEN d \cup Billable(auto, d, done) ELSE d

\* Mutant: the draft keeps the stones that have gone on memo.
RescopeKeeps(d, live, memo, done) == Prepare(d, live \ memo, vault, done)

\* _lgd_sync_invoice_scope, which every write of a parcel's type or state and
\* of a line's parcel ends with: memo stones come off the draft, the others
\* get another chance to be on it.
Rescope(d, live, memo, done) ==
  Prepare(d \ memo, live \ memo, vault, done)

Post(lines) == [s \in Stone |-> posted[s] + (IF s \in lines THEN 1 ELSE 0)]

-----------------------------------------------------------------------------
(* To Dispatch.                                                            *)

\* _lgd_put_in_vault, after Accept or Take on memo.
PutInVault(s) ==
  /\ s \notin vault
  /\ vault' = vault \cup {s}
  /\ stock' = IF s \in Held THEN stock ELSE stock \cup {s}
  /\ draft' = Prepare(draft, Live \ OnMemo, vault', posted)
  /\ UNCHANGED <<status, atDispatch, void, dest, outcome, parcelOf, parcel,
                 allowed, posted>>

HandToDispatch(s) ==
  /\ s \in vault \ atDispatch
  /\ atDispatch' = atDispatch \cup {s}
  /\ UNCHANGED <<status, vault, void, dest, outcome, stock, parcelOf, parcel,
                 allowed, draft, posted>>

\* The line is cancelled; an invoice is not touched.  (Of a stone held for a
\* vendor the open RFQ changes too: not modelled.)
CancelLine(s) ==
  /\ s \in Cancellable
  /\ status[s] = "payment_pending"
  /\ status' = [status EXCEPT ![s] = "cancelled"]
  /\ void' = void \cup {s}
  /\ UNCHANGED <<vault, atDispatch, dest, outcome, stock, parcelOf, parcel,
                 allowed, draft, posted>>

-----------------------------------------------------------------------------
(* Parcels.                                                                *)

ReadyToDispatch == {s \in atDispatch \cap Live : parcelOf[s] = NoParcel}

\* Mutant: the flag of the order, no state of a parcel.
ApprovalFlag(a, sending, where, to) == IF allowed THEN "allowed" ELSE "pending"

\* _lgd_approval_state_for: what stays behind for the same destination and is
\* in no parcel.
ApprovalFor(a, sending, where, to) ==
  IF {s \in Live \ sending : where[s] = NoParcel /\ to[s] = a} = {}
  THEN "not_required"
  ELSE IF allowed THEN "approved" ELSE "pending"

\* One parcel per destination of the stones selected.
MakeParcels(S) ==
  /\ S # {}
  /\ S \subseteq ReadyToDispatch
  /\ LET places == {dest[s] : s \in S} IN
     \E made \in {m \in SUBSET {p \in Parcel : parcel[p].state = "none"} :
                    Cardinality(m) = Cardinality(places)} :
     \E of \in [places -> made] :
       /\ {of[a] : a \in places} = made
       /\ parcelOf' = [s \in Stone |-> IF s \in S THEN of[dest[s]]
                                       ELSE parcelOf[s]]
       /\ parcel' =
            [p \in Parcel |->
               IF p \in made
               THEN LET a == CHOOSE a \in places : of[a] = p IN
                    [Unmade EXCEPT
                       !.state = "draft", !.to = a, !.batch = made,
                       !.approval = ApprovalFor(a, {s \in S : dest[s] = a},
                                                parcelOf, dest)]
               ELSE parcel[p]]
  /\ draft' = Rescope(draft, Live, OnMemo', posted)
  /\ UNCHANGED <<lineVars, allowed, posted>>

\* The type of a draft parcel, chosen on its form.
SetType(p, t) ==
  /\ parcel[p].state = "draft"
  /\ parcel[p].type # t
  /\ t = "memo" => \A s \in Lines(p) : posted[s] = 0
  /\ parcel' = [parcel EXCEPT ![p].type = t]
  /\ UNCHANGED <<lineVars, parcelOf, allowed, posted>>
  /\ draft' = Rescope(draft, Live, OnMemo', posted)

PrintInvoiceSlip(p) ==
  /\ parcel[p].state = "draft"
  /\ parcel[p].type = "sale"
  /\ parcel' = [parcel EXCEPT ![p].slip = Lines(p)]
  /\ UNCHANGED <<lineVars, parcelOf, allowed, draft, posted>>

PrintMemoSlip(p) ==
  /\ parcel[p].state = "draft"
  /\ parcel[p].type = "memo"
  /\ parcel' = [parcel EXCEPT ![p].memoSlip = TRUE]
  /\ UNCHANGED <<lineVars, parcelOf, allowed, draft, posted>>

\* The sibling a split moves stones to: a draft parcel of the same press for
\* that address, or else a new one of the same type.
Siblings(p, a) ==
  LET there == {q \in parcel[p].batch \ {p} :
                  parcel[q].state = "draft" /\ parcel[q].to = a}
  IN  IF there # {} THEN there ELSE {q \in Parcel : parcel[q].state = "none"}

Sibling(p, q, a) ==
  IF parcel[q].state = "draft" THEN parcel[q]
  ELSE [Unmade EXCEPT !.state = "draft", !.to = a, !.type = parcel[p].type]

\* A split clears the paperwork of both parcels (but not the memo slip).
SlipAfterSplit(slip) == {}

\* Some stones of a draft parcel go to another address.  A source that is
\* left empty is cancelled.
Split(p, S, a) ==
  /\ parcel[p].state = "draft"
  /\ S # {}
  /\ S \subseteq Lines(p)
  /\ S = Lines(p) => Cardinality(S) = 1
  /\ a # parcel[p].to
  /\ \E q \in Siblings(p, a) :
       LET there == Sibling(p, q, a)
           batch == parcel[p].batch \cup {q}
           rest == Lines(p) \ S
           moved == [s \in Stone |-> IF s \in S THEN q ELSE parcelOf[s]]
           going == [s \in Stone |-> IF s \in S THEN a ELSE dest[s]]
       IN
       /\ there.type = "memo" => \A s \in S : posted[s] = 0
       /\ parcelOf' = moved
       /\ dest' = going
       /\ parcel' =
            [r \in Parcel |->
               CASE r = p ->
                      [parcel[p] EXCEPT
                         !.slip = SlipAfterSplit(@), !.batch = batch,
                         !.state = IF rest = {} THEN "cancelled" ELSE @,
                         !.approval = IF rest = {} THEN @
                            ELSE ApprovalFor(parcel[p].to, rest, moved, going)]
                 [] r = q ->
                      [there EXCEPT
                         !.slip = SlipAfterSplit(@), !.batch = batch,
                         !.approval = ApprovalFor(a, Lines(q) \cup S, moved,
                                                  going)]
                 [] r \in batch \ {p, q} -> [parcel[r] EXCEPT !.batch = batch]
                 [] OTHER -> parcel[r]]
  /\ draft' = Rescope(draft, Live, OnMemo', posted)
  /\ UNCHANGED <<status, vault, atDispatch, void, outcome, stock, allowed,
                 posted>>

CancelParcel(p) ==
  /\ parcel[p].state = "draft"
  /\ parcelOf' = [s \in Stone |-> IF s \in Lines(p) THEN NoParcel
                                  ELSE parcelOf[s]]
  /\ parcel' = [parcel EXCEPT ![p].state = "cancelled"]
  /\ draft' = Rescope(draft, Live, OnMemo', posted)
  /\ UNCHANGED <<lineVars, allowed, posted>>

\* The head of operations decides; an approval holds for the whole order.
ApprovePartial(p) ==
  /\ parcel[p].approval = "pending"
  /\ parcel' = [parcel EXCEPT ![p].approval = "approved"]
  /\ allowed' = TRUE
  /\ UNCHANGED <<lineVars, parcelOf, draft, posted>>

RefusePartial(p) ==
  /\ parcel[p].approval = "pending"
  /\ parcel' = [parcel EXCEPT ![p].approval = "refused"]
  /\ UNCHANGED <<lineVars, parcelOf, allowed, draft, posted>>

-----------------------------------------------------------------------------
(* Out of the building and back.                                           *)

SetStatus(S, w) == status' = [s \in Stone |-> IF s \in S THEN w ELSE status[s]]

\* _lgd_narrow_draft_to_parcel: what the invoice of a leaving parcel bills.
Narrow(p, d) == d \cap Lines(p)

\* Mutant: the draft as it is, without a new preparation.
LeavingInvoiceStale(p) ==
  IF parcel[p].type = "memo" THEN {} ELSE Narrow(p, draft)

\* A memo is not billed.  A sale gets the draft, prepared once more because
\* the order may have become ready since an earlier parcel left.
LeavingInvoice(p) ==
  IF parcel[p].type = "memo" THEN {}
  ELSE Narrow(p, Prepare(draft, Live \ OnMemo, vault, posted))

\* Mutant: a line without a quantity moves no stock.
GoodsBilled(p) == Lines(p) \ (Held \cup void)

\* _lgd_stock_lines: ours, not a vendor's.
Goods(p) == Lines(p) \ Held

\* The checks, the stock, the invoice, the parcel and the lines, in this
\* order: the scope of the draft is renewed with the statuses from before.
HandOver(p) ==
  LET left == IF parcel[p].type = "memo" THEN draft ELSE {}
  IN
  /\ parcel[p].state = "draft"
  /\ parcel[p].approval \in {"not_required", "approved"}
  /\ IF parcel[p].type = "memo" THEN parcel[p].memoSlip
                                ELSE parcel[p].slip # {}
  /\ Goods(p) \subseteq stock
  /\ stock' = stock \ Goods(p)
  /\ posted' = Post(LeavingInvoice(p))
  /\ parcel' = [parcel EXCEPT ![p].state = "handed_over"]
  /\ UNCHANGED <<vault, atDispatch, void, dest, outcome, parcelOf, allowed>>
  /\ draft' = Rescope(left, Live, OnMemo', posted')
  /\ SetStatus(Lines(p), "dispatched")

ConfirmDelivery(p) ==
  /\ parcel[p].state = "handed_over"
  /\ parcel' = [parcel EXCEPT ![p].state = "delivered"]
  /\ UNCHANGED <<vault, atDispatch, void, dest, outcome, stock, parcelOf,
                 allowed, posted>>
  /\ draft' = Rescope(draft, Live, OnMemo', posted)
  /\ SetStatus(Lines(p), "delivered")

\* Back from the courier: a delivered parcel is `handed_over' again.
ReturnOfOrder(p) ==
  /\ parcel[p].state \in {"handed_over", "delivered"}
  /\ SetStatus(Lines(p), "return_of_order")
  /\ parcel' = [parcel EXCEPT ![p].state = "handed_over"]
  /\ UNCHANGED <<vault, atDispatch, void, dest, outcome, stock, parcelOf,
                 allowed, posted>>
  /\ draft' = IF parcel[p].state = "delivered"
              THEN Rescope(draft, Live', OnMemo', posted)
              ELSE draft

ReDispatch(p) ==
  LET returned == {s \in Lines(p) : status[s] = "return_of_order"} IN
  /\ returned # {}
  /\ SetStatus(returned, "re_dispatched")
  /\ UNCHANGED <<vault, atDispatch, void, dest, outcome, stock, parcelOf,
                 parcel, allowed, draft, posted>>

Settled == {"delivered", "cancelled", "order_completed", "memo_returned"}

CompleteOrder(p) ==
  /\ parcel[p].state \in {"delivered", "memo_closed"}
  /\ \A s \in Stone : status[s] \in Settled
  /\ SetStatus({s \in Stone : status[s] = "delivered"}, "order_completed")
  /\ UNCHANGED <<vault, atDispatch, void, dest, outcome, stock, parcelOf,
                 parcel, allowed, draft, posted>>

-----------------------------------------------------------------------------
(* Memo.                                                                   *)

Undecided(p) == {s \in Lines(p) : outcome[s] = "none"}

\* _lgd_prepare_invoice_for_lines and its posting: nothing when no kept stone
\* can be billed, or else the open draft with what it holds.
KeptInvoice(kept, live) ==
  LET new == Billable(kept \cap live, draft, posted)
  IN  IF new = {} THEN {} ELSE draft \cup new

\* A returned stone with a purchase line goes to QC, the others are back.
StatusAfterReturn(s, kept, back) ==
  CASE s \in kept -> "delivered"
    [] s \in back \ Recorded -> "memo_returned"
    [] s \in back \cap Recorded
         /\ status[s] \in {"delivered", "memo_returned", "dispatched"} ->
         "in_qc_process"
    [] OTHER -> status[s]

\* One round of the screen "Record memo return".  The round that decides the
\* last stone closes the memo, and makes it a sale if any stone was kept.
MemoReturn(p, kept, back) ==
  LET status2 == [s \in Stone |-> StatusAfterReturn(s, kept, back)]
      live == {s \in Stone : status2[s] \notin Dead}
      bill == KeptInvoice(kept, live)
      closing == kept \cup back = Undecided(p)
      sold == kept # {} \/ \E s \in Lines(p) : outcome[s] = "kept"
  IN
  /\ parcel[p].type = "memo"
  /\ parcel[p].state \in {"handed_over", "delivered"}
  /\ kept \cup back # {}
  /\ kept \cap back = {}
  /\ kept \cup back \subseteq Undecided(p)
  /\ outcome' = [s \in Stone |-> CASE s \in kept -> "kept"
                                   [] s \in back -> "returned"
                                   [] OTHER -> outcome[s]]
  /\ status' = status2
  /\ stock' = stock \cup (back \cap Goods(p))
  /\ posted' = Post(bill)
  /\ UNCHANGED <<vault, atDispatch, void, dest, parcelOf, allowed>>
  /\ IF closing
     THEN /\ parcel' = [parcel EXCEPT ![p].state = "memo_closed",
                              ![p].type = IF sold THEN "sale" ELSE "memo"]
          /\ draft' = Rescope(draft \ bill, live, OnMemo', posted')
     ELSE /\ parcel' = parcel
          /\ draft' = draft \ bill

\* QC and Inventory finish with a stone that came back from a memo.
QcDecides(s) ==
  /\ outcome[s] = "returned"
  /\ status[s] = "in_qc_process"
  /\ \E w \in {"memo_returned", "qc_fail"} : SetStatus({s}, w)
  /\ UNCHANGED <<vault, atDispatch, void, dest, outcome, stock, parcelOf,
                 parcel, allowed, draft, posted>>

\* action_lgd_post_invoice.
PostInvoice ==
  LET d == Prepare(draft, Live \ OnMemo, vault, posted) IN
  /\ d # {}
  /\ posted' = Post(d)
  /\ draft' = {}
  /\ UNCHANGED <<lineVars, parcelOf, parcel, allowed>>

-----------------------------------------------------------------------------
OfLine(s) ==
  PutInVault(s) \/ HandToDispatch(s) \/ CancelLine(s) \/ QcDecides(s)

OfParcel(p) ==
  \/ \E t \in {"sale", "memo"} : SetType(p, t)
  \/ PrintInvoiceSlip(p)
  \/ PrintMemoSlip(p)
  \/ \E S \in SUBSET Lines(p), a \in Address : Split(p, S, a)
  \/ CancelParcel(p)
  \/ ApprovePartial(p)
  \/ RefusePartial(p)
  \/ HandOver(p)
  \/ ConfirmDelivery(p)
  \/ ReturnOfOrder(p)
  \/ ReDispatch(p)
  \/ CompleteOrder(p)
  \/ \E kept, back \in SUBSET Undecided(p) : MemoReturn(p, kept, back)

Next ==
  \/ \E s \in Stone : OfLine(s)
  \/ \E S \in SUBSET ReadyToDispatch : MakeParcels(S)
  \/ \E p \in Parcel : OfParcel(p)
  \/ PostInvoice

Spec == Init /\ [][Next]_vars

-----------------------------------------------------------------------------
TypeOK ==
  /\ status \in [Stone -> Status]
  /\ vault \subseteq Stone
  /\ atDispatch \subseteq Stone
  /\ void \subseteq Stone
  /\ parcelOf \in [Stone -> Parcel \cup {NoParcel}]
  /\ dest \in [Stone -> Address]
  /\ outcome \in [Stone -> {"none", "kept", "returned"}]
  /\ stock \subseteq Stone
  /\ parcel \in [Parcel -> ParcelRecord]
  /\ allowed \in BOOLEAN
  /\ draft \subseteq Stone
  /\ posted \in [Stone -> Nat]

\* "The single guarantee that a stone is never invoiced twice": a stone is on
\* one invoice at most, the draft or a posted one.
InvoicedOnce ==
  \A s \in Stone : posted[s] + (IF s \in draft THEN 1 ELSE 0) <= 1

\* "A memo is not a sale": while a parcel is a memo its stones are not on the
\* draft, and none is billed that the customer has not decided to keep.
MemoUnbilled ==
  \A s \in OnMemo : s \notin draft /\ (outcome[s] # "kept" => posted[s] = 0)

\* "Invoice the kept stones": every one, but for a line cancelled before the
\* memo left, whose quantity is zero.
KeptBilled ==
  \A s \in Stone \ void : outcome[s] = "kept" => posted[s] = 1

Left(p) == parcel[p].state \in {"handed_over", "delivered", "memo_closed"}

\* The stock of Odoo follows the parcels, not the stones: one of ours is
\* booked out once, when its parcel is handed over, and in again once, when its
\* return from a memo is recorded. A return of order books nothing, so that
\* sending the parcel out again must not book anything either.
StockFollowsParcel ==
  \A s \in vault \ Held :
    s \notin stock <=> /\ parcelOf[s] # NoParcel
                       /\ Left(parcelOf[s])
                       /\ outcome[s] # "returned"

\* The invoice slip in the box of a sale lists the stones in the box, whatever
\* was split off or added after it was printed.
SlipListsParcel ==
  \A p \in Parcel :
    parcel[p].state \in {"handed_over", "delivered"} /\ parcel[p].type = "sale"
      => parcel[p].slip = Lines(p)

\* Each stone is billed as it should be, whatever becomes of its parcels.
BilledAsDecided == InvoicedOnce /\ MemoUnbilled /\ KeptBilled

\* What leaves is booked out and listed, and what comes back is booked in.
ParcelsAccounted == StockFollowsParcel /\ SlipListsParcel

\* A sale parcel of an order whose stones are all in the vault is billed when
\* it leaves, also when an earlier parcel took the draft with it.
SaleLeavesBilled ==
  [][\A p \in Parcel :
       /\ parcel[p].state = "draft"
       /\ parcel'[p].state = "handed_over"
       /\ parcel[p].type = "sale"
       /\ Ready(Live \ OnMemo, vault)
       => \A s \in (Lines(p) \cap Live) \ void : posted'[s] = 1]_vars

\* Refuted: the stock has every stone of ours that is in the building, also one
\* that was "Returned to us" without a memo (the message of return of order).
StockIsHere ==
  \A s \in vault \ Held :
    \/ parcelOf[s] = NoParcel
    \/ ~Left(parcelOf[s])
    \/ outcome[s] = "returned"
    \/ status[s] = "return_of_order"
    => s \in stock

\* Refuted: "Nothing is ever invoiced for a returned stone."
ReturnedNeverBilled ==
  \A s \in Stone : outcome[s] = "returned" => posted[s] = 0

=============================================================================
