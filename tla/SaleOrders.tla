------------------------------ MODULE SaleOrders ------------------------------
(***************************************************************************)
(* One sale order from its booking to its cancellation: the statuses of its *)
(* lines, the order's own status (computed from them), Odoo's state, the    *)
(* vendor RFQs raised for the lines, the two ways of cancelling and the     *)
(* payment.                                                                 *)
(*                                                                          *)
(* Every write of a line's status goes through sale.order.line.write, which *)
(* carries a cascade of its own: a dead line leaves its RFQ, an RFQ with    *)
(* nothing wanted on it is cancelled, a line that enters QC confirms the    *)
(* order and every RFQ whose lines are all in QC, and the order's status is *)
(* computed again. The cascade is the operator WriteLines, from one order   *)
(* record to the next, so that handlers that write line after line (as      *)
(* action_cancel does) are folds of it.                                     *)
(***************************************************************************)
EXTENDS Integers, FiniteSets, Sequences, OrderRules

CONSTANTS
  LineSeq,       \* the lines of the order, in the order they are written in
  Spares,        \* those of them that do not exist at first
  VendorOf,      \* the vendor of each line
  NoPo,          \* not on any purchase order
  NoLine,        \* not replaced by any line
  SiteStatuses,  \* statuses the website sets in this instance
  Selections,    \* the sets of lines users set together in this instance
  MaxEdits,      \* bound on the statuses users and the website set
  Asks           \* what Odoo's own action_cancel may do for a confirmed order:
                 \* TRUE: answer with a wizard, FALSE: cancel

Line == {LineSeq[i] : i \in DOMAIN LineSeq}

\* RFQs: one per vendor, raised by the confirmation, one for each replacement.
PO == {VendorOf[l] : l \in Line} \union Spares

Manual == {"diamond_booked", "confirmed", "not_available", "cancelled"}
InFlight == {"in_qc_process", "qc_fail", "payment_pending",
             "payment_completed", "dispatched", "re_dispatched",
             "return_of_order", "delivered", "order_completed"}
Statuses == Manual \union InFlight \union {"replaced", "memo_returned"}
Dead == {"cancelled", "not_available", "replaced", "memo_returned"}
Unprintable == Dead \union {"qc_fail"}
\* Mutant: a replacement that failed QC waits for Sales for ever.
ClosingDead == {"cancelled", "replaced", "not_available"}
Closing == {"cancelled", "replaced", "not_available", "qc_fail"}
HandEditable == {"qc_fail", "diamond_booked", "dispatched",
                 "return_of_order", "re_dispatched", "delivered"}

ASSUME SaleOrdersAssumption ==
  /\ LineSeq \in Seq(Line)
  /\ Spares \subseteq Line
  /\ DOMAIN VendorOf = Line
  /\ \A l \in Line : VendorOf[l] \notin Spares
  /\ NoPo \notin PO /\ NoLine \notin Line
  /\ SiteStatuses \subseteq Statuses
  /\ Asks \subseteq BOOLEAN /\ Asks # {}
  /\ Selections \subseteq SUBSET Line
  /\ MaxEdits \in Nat

VARIABLES
  so,          \* the order: see SaleOrder
  cancelling,  \* action_cancel_unavailable_lines: which commit was its last
  wizard,      \* the cancellation wizard is open
  edits        \* how many times a status was set by hand or by the website

orderVars == <<so, cancelling, wizard, edits>>

SaleOrder ==
  [state : {"draft", "sale", "cancel"},
   status : [Line -> Statuses \union {"none"}],   \* availability_status
   sdk : OrderStatuses,                           \* sdk_augmont_status
   po : [PO -> {"none", "draft", "purchase", "cancel"}],
   buys : [Line -> PO \union {NoPo}],             \* the PO line of each line
   zeroed : SUBSET Line,                          \* product_uom_qty = 0
   replacedBy : [Line -> Line \union {NoLine}],
   pending : SUBSET Line,                         \* replacement_pending_sales
   asked : BOOLEAN,                               \* the activity is open
   request : {"none", "pending", "approved"},      \* none: or rejected
   packed : BOOLEAN]                              \* its delivery is packed

Present(r) == {l \in Line : r.status[l] # "none"}
On(r, p) == {l \in Line : r.buys[l] = p}

\* The line that is created next: ids, and so the order the lines are written
\* in, only grow.
Fresh(r, n) ==
  /\ r.status[n] = "none"
  /\ \A i \in DOMAIN LineSeq :
       r.status[LineSeq[i]] = "none" => \E j \in 1..i : LineSeq[j] = n

-----------------------------------------------------------------------------
(* The order's status.                                                     *)

OrderStatus(r) == StatusOf(r.state = "cancel", {r.status[l] : l \in Present(r)})

\* Mutant: not once it is paid.
ComputedUntilPaid(r) ==
  IF r.sdk = "Payment Completed" THEN r ELSE [r EXCEPT !.sdk = OrderStatus(r)]

\* The computed field, stored.
Computed(r) == [r EXCEPT !.sdk = OrderStatus(r)]

-----------------------------------------------------------------------------
(* Confirmation, RFQs and the write of a line.                             *)

\* Lines that the confirmation buys: not those on a live order already.
Unbought(r) ==
  {l \in Line : /\ r.status[l] = "confirmed"
                /\ r.replacedBy[l] = NoLine
                /\ l \notin r.zeroed
                /\ r.buys[l] = NoPo \/ r.po[r.buys[l]] = "cancel"}

\* action_confirm and _auto_create_confirm_pos: one new RFQ per vendor.
Confirm(r) ==
  LET lines == Unbought(r)
  IN Computed(
       [r EXCEPT
          !.state = "sale",
          !.po = [p \in PO |-> IF \E l \in lines : VendorOf[l] = p
                                 THEN "draft" ELSE r.po[p]],
          !.buys = [l \in Line |-> IF l \in lines THEN VendorOf[l]
                                     ELSE r.buys[l]]])

\* _auto_create_procurement_for_qc: confirms the order, then every RFQ of it
\* whose stones are all in QC.
AutoQc(r) ==
  LET c == IF r.state = "draft" THEN Confirm(r) ELSE r
      ready == {p \in PO : /\ c.po[p] = "draft"
                           /\ \A l \in On(c, p) :
                                c.status[l] = "in_qc_process"}
  IN [c EXCEPT !.po = [p \in PO |-> IF p \in ready THEN "purchase"
                                      ELSE c.po[p]]]

\* Mutant: one dead line cancels the RFQ of its siblings.
DropRfqWhole(r, dying) ==
  [r EXCEPT !.po = [p \in PO |-> IF r.po[p] = "draft" /\ On(r, p) \cap dying # {}
                                   THEN "cancel" ELSE r.po[p]]]

\* _cancel_or_reduce_related_rfq for the lines that just died: an RFQ with
\* nothing wanted on it is cancelled, any other loses those lines and is
\* looked at again by AutoQc if what remains of it has a stone in QC.
DropRfq(r, dying) ==
  LET hit == {p \in PO : r.po[p] = "draft" /\ On(r, p) \cap dying # {}}
      dead == {p \in hit : \A l \in On(r, p) : r.status[l] \in Dead}
      kept == hit \ dead
      cut == [r EXCEPT
                !.po = [p \in PO |-> IF p \in dead THEN "cancel" ELSE r.po[p]],
                !.buys = [l \in Line |-> IF l \in dying /\ r.buys[l] \in kept
                                           THEN NoPo ELSE r.buys[l]]]
  IN IF \E p \in kept : \E l \in On(cut, p) : cut.status[l] = "in_qc_process"
       THEN AutoQc(cut)
       ELSE cut

\* sale.order.line.write({'availability_status': s}) on the lines W; ok:
\* the automatic procurement succeeds (a failure is only caught when the
\* website writes).
WriteLines(r, W, s, ok) ==
  LET gone == {"cancelled", "not_available"}
      dying == {l \in W : r.status[l] \notin gone /\ s \in gone}
      entering == {l \in W : r.status[l] \in {"diamond_booked", "confirmed"}}
      closed == IF s \in Closing THEN W \cap r.pending ELSE {}
      w == [r EXCEPT
              !.status = [l \in Line |-> IF l \in W THEN s ELSE r.status[l]],
              !.pending = @ \ closed,
              !.asked = @ /\ ~(closed # {} /\ r.pending = closed),
              !.zeroed = IF s \in gone \union {"replaced"} THEN @ \union W
                                                           ELSE @]
      d == DropRfq(w, dying)
      q == IF ok /\ s = "in_qc_process" /\ entering # {} THEN AutoQc(d) ELSE d
  IN Computed(q)

\* Mutant: the lines get the order's label.
PaidOrderLabel(r) == WriteLines(r, Present(r), "Payment Completed", TRUE)

\* _safe_write_augmont_status('Payment Completed'): every line that is behind
\* follows. Without one, the order's status stays what was asked for.
PaidOrder(r) ==
  LET behind == {l \in Line : r.status[l] \in
                   {"diamond_booked", "confirmed", "in_qc_process",
                    "payment_pending"}}
  IN IF behind = {} THEN [r EXCEPT !.sdk = "Payment Completed"]
                    ELSE WriteLines(r, behind, "payment_completed", TRUE)

\* action_cancel writes line after line, each with its cascade.
CancelLines(r) ==
  LET after[i \in 0..Len(LineSeq)] ==
        IF i = 0 THEN r
          ELSE LET l == LineSeq[i]
                   q == after[i - 1]
               IN IF q.status[l] = "none" THEN q
                    ELSE WriteLines(q, {l}, "cancelled", TRUE)
  IN after[Len(LineSeq)]

\* Then Odoo's own: it cancels, or it asks first, unless a draft.
Cancelled(r, asks) ==
  LET c == CancelLines(r)
  IN IF asks /\ c.state = "sale" THEN c
       ELSE [c EXCEPT !.state = "cancel", !.sdk = "Cancelled"]

-----------------------------------------------------------------------------
(* Users of Procurement and Sales.                                         *)

BookedOrder ==
  [state |-> "draft",
   status |-> [l \in Line |-> IF l \in Spares THEN "none"
                                ELSE "diamond_booked"],
   sdk |-> "Order Received",
   po |-> [p \in PO |-> "none"],
   buys |-> [l \in Line |-> NoPo],
   zeroed |-> {},
   replacedBy |-> [l \in Line |-> NoLine],
   pending |-> {},
   asked |-> FALSE,
   request |-> "none",
   packed |-> FALSE]

\* The same order once Sales confirmed every stone of it: a reachable state,
\* taken as a second start so that MaxEdits can be small.
ConfirmedOrder ==
  Confirm([BookedOrder EXCEPT
             !.status = [l \in Line |-> IF l \in Spares THEN "none"
                                          ELSE "confirmed"]])

OrderInit ==
  /\ so \in {BookedOrder, ConfirmedOrder}
  /\ cancelling = "no"
  /\ wizard = FALSE
  /\ edits = 0

\* The bound on the statuses set.
Edit ==
  /\ edits < MaxEdits
  /\ edits' = edits + 1

\* can_edit_availability.
CanEdit(l) ==
  /\ so.status[l] # "none"
  /\ so.state = "draft" \/ so.status[l] \in HandEditable

\* The grid and the bulk wizard (lgd.line.bulk.wizard).
SetAvailability(W, s) ==
  /\ \A l \in W : CanEdit(l) /\ so.status[l] # s
  /\ Edit
  /\ so' = WriteLines(so, W, s, TRUE)
  /\ UNCHANGED <<cancelling, wizard>>

\* A line typed into the grid; create() drops it once a stone is in flight.
CreateLine(l) ==
  /\ Fresh(so, l)
  /\ so.state # "cancel"
  /\ \A m \in Line : so.status[m] \notin InFlight
  /\ so' = Computed([so EXCEPT !.status[l] = "diamond_booked"])
  /\ UNCHANGED <<cancelling, wizard, edits>>

\* action_confirm_wrapper.
ConfirmWrapper ==
  /\ so.state = "draft"
  /\ \A l \in Line : so.status[l] \notin {"diamond_booked", "not_available"}
  /\ \E l \in Present(so) : so.status[l] \notin Unprintable
  /\ so' = Confirm(so)
  /\ UNCHANGED <<cancelling, wizard, edits>>

\* action_save_statuses: procures what is in QC and on no order, and cancels
\* an order whose lines were all cancelled by hand.
SaveStatuses(asks) ==
  LET r == IF \E l \in Line : /\ so.status[l] = "in_qc_process"
                              /\ so.buys[l] = NoPo
             THEN Computed(AutoQc(so)) ELSE so
  IN /\ so' = IF r.sdk = "Cancelled" /\ r.state # "cancel"
                THEN Cancelled(r, asks) ELSE r
     /\ wizard' = (wizard \/ (r.sdk = "Cancelled" /\ so'.state = "sale"))
     /\ so' # so
     /\ UNCHANGED <<cancelling, edits>>

\* _apply_cancel_request.
RequestCancel ==
  /\ so.state # "cancel"
  /\ so.request \notin {"pending", "approved"}
  /\ so' = [so EXCEPT !.request = "pending"]
  /\ UNCHANGED <<cancelling, wizard, edits>>

\* _apply_cancel_rejection.
RejectCancel ==
  /\ so.request = "pending"
  /\ so' = [so EXCEPT !.request = "none"]
  /\ UNCHANGED <<cancelling, wizard, edits>>

\* action_approve_cancellation: a wizard Odoo may answer with is dropped.
ApproveCancel(asks) ==
  /\ so.request = "pending"
  /\ so' = Cancelled([so EXCEPT !.request = "approved"], asks)
  /\ UNCHANGED <<cancelling, wizard, edits>>

\* sale.order.cancel: the wizard's own action_cancel.
CancelWizard ==
  /\ wizard
  /\ so' = [Cancelled(so, FALSE) EXCEPT !.state = "cancel"]
  /\ wizard' = FALSE
  /\ UNCHANGED <<cancelling, edits>>

-----------------------------------------------------------------------------
(* action_cancel_unavailable_lines: three steps with a commit after each of *)
(* the first two.                                                          *)

With(r, s) == {l \in Line : r.status[l] = s}

Finish(r, asks) ==
  /\ UNCHANGED edits
  /\ so' = Cancelled(r, asks)
  /\ wizard' = (wizard \/ so'.state = "sale")
  /\ cancelling' = "no"

CancelUnavailable(asks) ==
  LET booked == With(so, "diamond_booked")
      missing == With(so, "not_available")
  IN /\ cancelling = "no"
     /\ so.state = "draft"
     /\ Present(so) # {}
     /\ \A l \in Present(so) :
          so.status[l] \in {"diamond_booked", "not_available", "cancelled"}
     /\ \/ /\ booked # {}
           /\ so' = WriteLines(so, booked, "not_available", TRUE)
           /\ cancelling' = "first"
           /\ UNCHANGED <<wizard, edits>>
        \/ /\ booked = {} /\ missing # {}
           /\ so' = WriteLines(so, missing, "cancelled", TRUE)
           /\ cancelling' = "second"
           /\ UNCHANGED <<wizard, edits>>
        \/ /\ booked = {} /\ missing = {}
           /\ Finish(so, asks)

\* After the first commit: lock again, read again, refuse a line that moved.
CancelSecondStep(asks) ==
  LET missing == With(so, "not_available")
  IN /\ cancelling = "first"
     /\ \A l \in Present(so) :
          so.status[l] \in {"not_available", "cancelled", "replaced"}
     /\ \/ /\ missing # {}
           /\ so' = WriteLines(so, missing, "cancelled", TRUE)
           /\ cancelling' = "second"
           /\ UNCHANGED <<wizard, edits>>
        \/ /\ missing = {}
           /\ Finish(so, asks)

CancelRefused ==
  /\ cancelling = "first"
  /\ \E l \in Present(so) :
       so.status[l] \notin {"not_available", "cancelled", "replaced"}
  /\ cancelling' = "no"
  /\ UNCHANGED <<so, wizard, edits>>

\* After the second commit: the order itself, with nothing read again.
CancelThirdStep(asks) ==
  /\ cancelling = "second"
  /\ Finish(so, asks)

\* The server dies between two commits.
CancelInterrupted ==
  /\ cancelling # "no"
  /\ cancelling' = "no"
  /\ UNCHANGED <<so, wizard, edits>>

-----------------------------------------------------------------------------
(* The website and the payment.                                            *)

\* update_sale_order_status: no check of the order or of the transition.
SiteWrites(l, s, ok) ==
  /\ so.status[l] # "none"
  /\ s # so.status[l]
  /\ Edit
  /\ so' = WriteLines(so, {l}, s, ok)
  /\ UNCHANGED <<cancelling, wizard>>

\* sale.order.write({'utr_number': ...}): the lines that wait for it.
EnterUtr ==
  LET due == With(so, "payment_pending")
  IN /\ due # {}
     /\ so' = WriteLines(so, due, "payment_completed", TRUE)
     /\ UNCHANGED <<cancelling, wizard, edits>>

\* Payment confirmed when a transfer is packed (pay_confirm.py), once a stone
\* passed QC: the lines that wait for it, then the order's status.
PackConfirmed ==
  LET due == With(so, "payment_pending")
      paid == IF due = {} THEN so
                ELSE WriteLines(so, due, "payment_completed", TRUE)
  IN /\ so.state = "sale"
     /\ ~so.packed
     /\ \E l \in Line : so.status[l] \in {"payment_pending",
                                         "payment_completed"}
     /\ so' = PaidOrder([paid EXCEPT !.packed = TRUE])
     /\ UNCHANGED <<cancelling, wizard, edits>>

OrderNext ==
  \/ \E W \in Selections, s \in Manual : SetAvailability(W, s)
  \/ \E l \in Spares : CreateLine(l)
  \/ ConfirmWrapper
  \/ \E asks \in Asks : SaveStatuses(asks)
  \/ RequestCancel
  \/ RejectCancel
  \/ \E asks \in Asks : ApproveCancel(asks)
  \/ CancelWizard
  \/ \E asks \in Asks : CancelUnavailable(asks)
  \/ \E asks \in Asks : CancelSecondStep(asks)
  \/ CancelRefused
  \/ \E asks \in Asks : CancelThirdStep(asks)
  \/ CancelInterrupted
  \/ \E l \in Line, s \in SiteStatuses, ok \in BOOLEAN : SiteWrites(l, s, ok)
  \/ EnterUtr
  \/ PackConfirmed

-----------------------------------------------------------------------------
OrderTypeOK ==
  /\ so \in SaleOrder
  /\ cancelling \in {"no", "first", "second"}
  /\ wizard \in BOOLEAN
  /\ edits \in 0..MaxEdits
=============================================================================
