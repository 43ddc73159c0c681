------------------------------ MODULE StoneOps ------------------------------
(***************************************************************************)
(* The operations flow of a stone in contact_stage_bar: inward, quality    *)
(* control, purchase commitment, custody and return to the vendor.         *)
(*                                                                         *)
(* A STONE is one sale.order.line; a LINE is one purchase.order.line for   *)
(* it (a line that is split off is copied, so a stone may have several     *)
(* lines over time); a PO is one purchase.order.  Each action is one RPC   *)
(* of models/lgd_ops_purchase_line.py or lgd_ops_purchase_order.py and     *)
(* runs in one database transaction.  The handlers take recordsets: they   *)
(* check every record, then treat the records one after another, which is  *)
(* a sequence of the single-line actions below.                            *)
(***************************************************************************)
EXTENDS Naturals, FiniteSets

CONSTANTS
    Stone,          \* sale order lines, one physical stone each
    Line,           \* identities of purchase order lines, used or still free
    StoneOf,        \* purchase.order.line.sale_line_id
    Order,          \* sale orders
    OrderOf,        \* sale.order.line.order_id
    Po,             \* identities of purchase orders, used or still free
    Procured,       \* the stones bought for the order; the others come from stock
    FirstRfq,       \* the RFQ on which procurement first asked for the stone
    FirstLine,      \* the stone's line on that RFQ
    NoPo,           \* the order_id of a line that does not exist
    SaleWords       \* the statuses that the website and Sales write into a line

ASSUME StoneOpsAssumption ==
    /\ StoneOf \in [Line -> Stone]
    /\ OrderOf \in [Stone -> Order]
    /\ Procured \subseteq Stone
    /\ FirstRfq \in [Procured -> Po]
    /\ FirstLine \in [Procured -> Line]
    /\ \A s \in Procured : StoneOf[FirstLine[s]] = s
    /\ NoPo \notin Po

VARIABLES
    stage,      \* Line: lgd_stage ("none": no such record)
    qty,        \* Line: product_qty, one stone per line
    po,         \* Line: order_id
    receipt,    \* Line: the incoming stock move made by confirming the PO
    ret,        \* Line: lgd_return_move_id, the move back to the vendor
    memo,       \* Line: lgd_memo_return_qc with lgd_memo_return_destination
    poState,    \* Po: state ("sent" is not told apart from "draft")
    voided,     \* Po: lgd_po_voided, "Returned - do not pay"
    status,     \* Stone: availability_status of the sale line
    vendorMemo, \* Stone: lgd_vendor_memo
    inVault,    \* Stone: lgd_in_vault
    trip        \* Stone: its memo parcel (lgd_dispatch_id) and lgd_memo_outcome

lineVars  == <<stage, qty, po, receipt, ret, memo>>
poVars    == <<poState, voided>>
saleVars  == <<status, vendorMemo, inVault, trip>>
vars      == <<lineVars, poVars, saleVars>>

Stage == {"none", "expected", "received", "with_qc", "in_qc", "qc_passed",
          "on_memo", "in_inventory", "rejected", "failed", "returned",
          "cust_returned", "split"}

\* spent_stages of _lgd_void_or_cancel_po.
Spent == {"rejected", "failed", "returned"}

\* "booked" stands for diamond_booked and confirmed, "payment_completed" also
\* for return_of_order, re_dispatched and order_completed: this flow treats
\* the members of each alike.
Status == {"booked", "not_available", "in_qc_process", "payment_pending",
           "payment_completed", "qc_fail", "dispatched", "delivered",
           "memo_returned", "replaced", "cancelled"}

ASSUME SaleWordsAssumption == SaleWords \subseteq Status

\* _LGD_DEAD_LINE_STATUSES
DeadStatus == {"cancelled", "not_available", "replaced", "memo_returned"}

\* LGD_DEAD_STATUSES: a stone that never ships on its order.
NeverShips == DeadStatus \cup {"qc_fail"}

On(p) == {l \in Line : po[l] = p}

(***************************************************************************)
(* Helpers: what the shared methods do to a tentative new state.           *)
(***************************************************************************)

\* Mutant: writes the stage of the purchase line.
StatusMoveToStage(l, to, onlyWhen) ==
    [status EXCEPT ![StoneOf[l]] = IF @ \in onlyWhen THEN stage[l] ELSE @]

\* _lgd_write_order_line_status: the status moves only from the listed ones.
StatusMove(l, to, onlyWhen) ==
    [status EXCEPT ![StoneOf[l]] = IF @ \in onlyWhen THEN to ELSE @]

\* purchase_stock: zeroing the quantity of a confirmed line withdraws its
\* pending receipt; it refuses to go below a quantity already received.
MayZero(L) == \A l \in L : receipt[l] # "done"

Withdraw(L) ==
    [l \in Line |-> IF l \in L /\ receipt[l] = "pending" THEN "cancelled" ELSE receipt[l]]

\* button_confirm: an open RFQ is confirmed; every line with a quantity gets
\* a receipt. q, o and r are the quantities, orders and receipts so far.
Receipts(P, q, o, r) ==
    [l \in Line |-> IF o[l] \in P /\ q[l] = 1 THEN "pending" ELSE r[l]]

\* _lgd_void_or_cancel_po(p): the lines somebody still waits for, and whether
\* anything was received, given the stages, quantities and receipts the
\* caller has just written.

\* Mutant: only a stone that is still to be inspected counts.
LiveUninspected(p, stg, q) ==
    {l \in On(p) : q[l] = 1 /\ stg[l] \in {"expected", "received", "with_qc", "in_qc"}}

Live(p, stg, q) == {l \in On(p) : q[l] = 1 /\ stg[l] \notin Spent}

ReceivedOn(p, r) == \E l \in On(p) : r[l] = "done"

\* button_cancel refuses a PO with a posted bill, which only a confirmed PO
\* can have; the PO is then flagged, as it is when something was received.
VoidOrCancel(p, stg, q, r) ==
    LET Leave  == receipt' = r /\ UNCHANGED poVars
        Cancel == /\ ~ReceivedOn(p, r)
                  /\ poState' = [poState EXCEPT ![p] = "cancel"]
                  /\ receipt' = [l \in Line |->
                        IF l \in On(p) /\ r[l] = "pending" THEN "cancelled" ELSE r[l]]
                  /\ UNCHANGED voided
        Void   == /\ ReceivedOn(p, r) \/ poState[p] = "purchase"
                  /\ voided' = [voided EXCEPT ![p] = TRUE]
                  /\ receipt' = r
                  /\ UNCHANGED poState
    IN  IF Live(p, stg, q) # {} THEN Leave ELSE Cancel \/ Void

Init ==
    LET first == {FirstLine[s] : s \in Procured}
    IN  /\ stage   = [l \in Line |-> IF l \in first THEN "expected" ELSE "none"]
        /\ qty     = [l \in Line |-> IF l \in first THEN 1 ELSE 0]
        /\ po      = [l \in Line |-> IF l \in first THEN FirstRfq[StoneOf[l]] ELSE NoPo]
        /\ receipt = [l \in Line |-> "none"]
        /\ ret     = [l \in Line |-> "none"]
        /\ memo    = [l \in Line |-> "none"]
        /\ poState = [p \in Po |-> IF \E s \in Procured : FirstRfq[s] = p
                                   THEN "draft" ELSE "unused"]
        /\ voided  = [p \in Po |-> FALSE]
        /\ status     = [s \in Stone |-> IF s \in Procured THEN "booked"
                                         ELSE "payment_pending"]
        /\ vendorMemo = [s \in Stone |-> FALSE]
        /\ inVault    = [s \in Stone |-> s \notin Procured]
        /\ trip       = [s \in Stone |-> "home"]

(***************************************************************************)
(* Logistics: inward                                                       *)
(***************************************************************************)

\* _lgd_action_receive
Receive(l) ==
    /\ stage[l] = "expected"
    /\ qty[l] > 0
    /\ poState[po[l]] # "cancel"
    /\ stage' = [stage EXCEPT ![l] = "received"]
    /\ UNCHANGED <<qty, po, receipt, ret, memo, poVars, saleVars>>

\* _lgd_action_reject
Reject(l) ==
    /\ stage[l] = "expected"
    /\ MayZero({l})
    /\ stage' = [stage EXCEPT ![l] = "rejected"]
    /\ qty'   = [qty EXCEPT ![l] = 0]
    /\ VoidOrCancel(po[l], stage', qty', Withdraw({l}))
    /\ status' = StatusMove(l, "not_available", {"booked"})
    /\ UNCHANGED <<po, ret, memo, vendorMemo, inVault, trip>>

\* _lgd_action_handover_qc
HandoverQc(l) ==
    /\ stage[l] = "received"
    /\ stage'  = [stage EXCEPT ![l] = "with_qc"]
    /\ status' = StatusMove(l, "in_qc_process", {"booked"})
    /\ UNCHANGED <<qty, po, receipt, ret, memo, poVars, vendorMemo, inVault, trip>>

(***************************************************************************)
(* Quality control                                                         *)
(***************************************************************************)

\* _lgd_action_qc_receive
QcReceive(l) ==
    /\ stage[l] = "with_qc"
    /\ stage' = [stage EXCEPT ![l] = "in_qc"]
    /\ UNCHANGED <<qty, po, receipt, ret, memo, poVars, saleVars>>

\* _lgd_action_pass, the inbound half
PassInbound(l) ==
    /\ stage[l] = "in_qc"
    /\ memo[l] = "none"
    /\ stage'  = [stage EXCEPT ![l] = "qc_passed"]
    /\ status' = StatusMove(l, "payment_pending", {"in_qc_process"})
    /\ UNCHANGED <<qty, po, receipt, ret, memo, poVars, vendorMemo, inVault, trip>>

\* _lgd_memo_return_pass: a vendor's stone leaves for the vendor, ours waits
\* to be accepted back.
PassMemoReturn(l) ==
    /\ stage[l] = "in_qc"
    /\ memo[l] # "none"
    /\ \/ /\ memo[l] = "vendor"
          /\ stage'  = [stage EXCEPT ![l] = "cust_returned"]
          /\ memo'   = [memo EXCEPT ![l] = "none"]
          /\ status' = StatusMove(l, "memo_returned", {"in_qc_process"})
       \/ /\ memo[l] = "stock"
          /\ stage' = [stage EXCEPT ![l] = "qc_passed"]
          /\ UNCHANGED <<memo, status>>
    /\ UNCHANGED <<qty, po, receipt, ret, poVars, vendorMemo, inVault, trip>>

\* Mutant: zeroes the stone also when it reached stock.
FailInboundZeroes(l) ==
    /\ stage[l] = "in_qc"
    /\ memo[l] = "none"
    /\ stage'  = [stage EXCEPT ![l] = "failed"]
    /\ qty'    = [qty EXCEPT ![l] = 0]
    /\ VoidOrCancel(po[l], stage', qty', Withdraw({l}))
    /\ status' = StatusMove(l, "qc_fail", {"in_qc_process"})
    /\ UNCHANGED <<po, ret, memo, vendorMemo, inVault, trip>>

\* _lgd_action_fail, the inbound half: a stone that reached stock gets a
\* return move, any other one is zeroed.
FailInbound(l) ==
    /\ stage[l] = "in_qc"
    /\ memo[l] = "none"
    /\ stage' = [stage EXCEPT ![l] = "failed"]
    /\ \/ /\ receipt[l] = "done"
          /\ ret' = [ret EXCEPT ![l] = "pending"]
          /\ UNCHANGED qty
          /\ VoidOrCancel(po[l], stage', qty', receipt)
       \/ /\ receipt[l] # "done"
          /\ qty' = [qty EXCEPT ![l] = 0]
          /\ UNCHANGED ret
          /\ VoidOrCancel(po[l], stage', qty', Withdraw({l}))
    /\ status' = StatusMove(l, "qc_fail", {"in_qc_process"})
    /\ UNCHANGED <<po, memo, vendorMemo, inVault, trip>>

\* _lgd_memo_return_fail
FailMemoReturn(l) ==
    /\ stage[l] = "in_qc"
    /\ memo[l] # "none"
    /\ stage'  = [stage EXCEPT ![l] = "failed"]
    /\ memo'   = [memo EXCEPT ![l] = "none"]
    /\ status' = StatusMove(l, "qc_fail", {"in_qc_process"})
    /\ UNCHANGED <<qty, po, receipt, ret, poVars, vendorMemo, inVault, trip>>

(***************************************************************************)
(* Procurement: committing to the purchase                                 *)
(***************************************************************************)

\* The standard Confirm button of a purchase order.
ButtonConfirm(p) ==
    /\ poState[p] = "draft"
    /\ poState' = [poState EXCEPT ![p] = "purchase"]
    /\ receipt' = Receipts({p}, qty, po, receipt)
    /\ UNCHANGED <<stage, qty, po, ret, memo, voided, saleVars>>

Ready(p) == {l \in On(p) : stage[l] = "qc_passed" /\ qty[l] > 0}
Rest(p)  == {l \in On(p) \ Ready(p) : qty[l] > 0}

\* _lgd_confirm_ready_stones when every remaining stone is ready
ConfirmWhole(p) ==
    /\ Ready(p) # {}
    /\ Rest(p) = {}
    /\ ButtonConfirm(p)

\* Quantities after the ready lines were copied and zeroed.

\* Mutant: the copied lines keep their quantity.
SplitQtyKept(ready, copies) == [l \in Line |-> IF l \in copies THEN 1 ELSE qty[l]]

SplitQty(ready, copies) ==
    [l \in Line |-> IF l \in copies THEN 1 ELSE IF l \in ready THEN 0 ELSE qty[l]]

\* _lgd_confirm_ready_stones otherwise: the ready lines are copied to a new
\* PO np, zeroed here, and np is confirmed. copy maps each ready line to its
\* copy; the copy carries the link, the stage and the inspection trail.
ConfirmSplit(p, np, copy) ==
    LET ready  == Ready(p)
        copies == {copy[l] : l \in ready}
        qtyNew == SplitQty(ready, copies)
        poNew  == [l \in Line |-> IF l \in copies THEN np ELSE po[l]]
    IN  /\ ready # {}
        /\ Rest(p) # {}
        /\ MayZero(ready)
        /\ poState[np] = "unused"
        /\ \A l \in ready : stage[copy[l]] = "none" /\ StoneOf[copy[l]] = StoneOf[l]
        /\ stage' = [l \in Line |-> IF l \in copies THEN "qc_passed"
                                    ELSE IF l \in ready THEN "split" ELSE stage[l]]
        /\ qty'   = qtyNew
        /\ po'    = poNew
        /\ receipt' = Receipts({np}, qtyNew, poNew, Withdraw(ready))
        /\ poState' = [poState EXCEPT ![np] = "purchase"]
        /\ UNCHANGED <<ret, memo, voided, saleVars>>

ConfirmReadyStones(p) ==
    \/ ConfirmWhole(p)
    \/ \E np \in Po : \E copy \in [Ready(p) -> Line] : ConfirmSplit(p, np, copy)

(***************************************************************************)
(* Inventory: custody                                                      *)
(***************************************************************************)

\* _lgd_action_accept, the inbound half. _lgd_accept_chain refuses when no
\* open receipt is left.
AcceptInbound(l) ==
    /\ memo[l] = "none"
    /\ stage[l] \in {"qc_passed", "on_memo"}
    /\ poState[po[l]] = "purchase"
    /\ receipt[l] = "pending"
    /\ receipt'    = [receipt EXCEPT ![l] = "done"]
    /\ stage'      = [stage EXCEPT ![l] = "in_inventory"]
    /\ vendorMemo' = [vendorMemo EXCEPT ![StoneOf[l]] = FALSE]
    /\ inVault'    = [inVault EXCEPT ![StoneOf[l]] = TRUE]
    /\ UNCHANGED <<qty, po, ret, memo, poVars, status, trip>>

\* Mutant: the memo-return mark stays on the line.
AcceptMemoReturnKeepsMark(l) ==
    /\ memo[l] # "none"
    /\ stage[l] = "qc_passed"
    /\ stage'  = [stage EXCEPT ![l] = "in_inventory"]
    /\ status' = StatusMove(l, "memo_returned", {"in_qc_process"})
    /\ UNCHANGED <<qty, po, receipt, ret, memo, poVars, vendorMemo, inVault, trip>>

\* _lgd_memo_return_accept: the destination was fixed when the stone came back.
AcceptMemoReturn(l) ==
    /\ memo[l] # "none"
    /\ stage[l] = "qc_passed"
    /\ stage'  = [stage EXCEPT ![l] = IF memo[l] = "vendor" THEN "cust_returned"
                                      ELSE "in_inventory"]
    /\ memo'   = [memo EXCEPT ![l] = "none"]
    /\ status' = StatusMove(l, "memo_returned", {"in_qc_process"})
    /\ UNCHANGED <<qty, po, receipt, ret, poVars, vendorMemo, inVault, trip>>

\* _lgd_action_take_on_memo: hold the vendor's stone while its RFQ is open.
TakeOnMemo(l) ==
    /\ stage[l] = "qc_passed"
    /\ poState[po[l]] = "draft"
    /\ memo[l] = "none"
    /\ stage'      = [stage EXCEPT ![l] = "on_memo"]
    /\ vendorMemo' = [vendorMemo EXCEPT ![StoneOf[l]] = TRUE]
    /\ inVault'    = [inVault EXCEPT ![StoneOf[l]] = TRUE]
    /\ UNCHANGED <<qty, po, receipt, ret, memo, poVars, status, trip>>

\* _lgd_action_mark_returned
MarkReturned(l) ==
    /\ stage[l] \in {"rejected", "failed", "cust_returned"}
    /\ ret'   = [ret EXCEPT ![l] = IF @ = "pending" THEN "done" ELSE @]
    /\ stage' = [stage EXCEPT ![l] = "returned"]
    /\ VoidOrCancel(po[l], stage', qty, receipt)
    /\ UNCHANGED <<qty, po, memo, saleVars>>

(***************************************************************************)
(* The customer memo, as this flow sees it                                 *)
(***************************************************************************)

\* A memo parcel is made of a vaulted stone that may still ship
\* (lgd_ready_to_dispatch) ...
MemoPack(s) ==
    /\ inVault[s]
    /\ trip[s] = "home"
    /\ status[s] \notin NeverShips
    /\ trip' = [trip EXCEPT ![s] = "packed"]
    /\ UNCHANGED <<lineVars, poVars, status, vendorMemo, inVault>>

\* ... or cancelled while it is a draft.
MemoUnpack(s) ==
    /\ trip[s] = "packed"
    /\ trip' = [trip EXCEPT ![s] = "home"]
    /\ UNCHANGED <<lineVars, poVars, status, vendorMemo, inVault>>

\* lgd_dispatch.py: hand over, whatever the status has become meanwhile.
MemoOut(s) ==
    /\ trip[s] = "packed"
    /\ trip'   = [trip EXCEPT ![s] = "out"]
    /\ status' = [status EXCEPT ![s] = "dispatched"]
    /\ UNCHANGED <<lineVars, poVars, vendorMemo, inVault>>

\* The memo return wizard records "kept".
MemoKept(s) ==
    /\ trip[s] = "out"
    /\ trip'   = [trip EXCEPT ![s] = "kept"]
    /\ status' = [status EXCEPT ![s] = "delivered"]
    /\ UNCHANGED <<lineVars, poVars, vendorMemo, inVault>>

\* lgd_po_line_id of the sale line
CurrentLines(s) ==
    {l \in Line : /\ StoneOf[l] = s
                  /\ stage[l] \notin {"none", "rejected", "failed", "returned", "split"}}

\* Mutant: an order that was confirmed means that the stone is ours.
ReturnToByOrder(l) == IF poState[po[l]] = "draft" THEN "vendor" ELSE "stock"

\* _compute_return_to: whose stone comes back.
ReturnTo(l) == IF stage[l] = "on_memo" \/ vendorMemo[StoneOf[l]] THEN "vendor" ELSE "stock"

\* The wizard records "returned"; _lgd_send_to_memo_return_qc queues the
\* stone for inspection.
MemoReturned(s) ==
    /\ trip[s] = "out"
    /\ trip' = [trip EXCEPT ![s] = "returned"]
    /\ \/ \E l \in CurrentLines(s) :
            /\ memo'   = [memo EXCEPT ![l] = ReturnTo(l)]
            /\ stage'  = [stage EXCEPT ![l] = "with_qc"]
            /\ status' = StatusMove(l, "in_qc_process",
                                    {"delivered", "memo_returned", "dispatched"})
       \/ /\ CurrentLines(s) = {}
          /\ ~vendorMemo[s]       \* an orphaned vendor stone is refused
          /\ status' = [status EXCEPT ![s] = "memo_returned"]
          /\ UNCHANGED <<stage, memo>>
    /\ UNCHANGED <<qty, po, receipt, ret, poVars, vendorMemo, inVault>>

(***************************************************************************)
(* The sale side: status writes of the website and of Sales, which do not  *)
(* carry the bypass key skip_auto_procurement. Odoo refuses none of them:  *)
(* its table of transitions is only logged against. What such a write does *)
(* to the QC transfer that follows a receipt is not part of `receipt`.     *)
(***************************************************************************)

OrdersOn(p, o) == {OrderOf[StoneOf[l]] : l \in {m \in Line : o[m] = p}}

\* _auto_create_procurement_for_qc(x): the RFQs of order x all of whose
\* stones are at in_qc_process (st and o: statuses and orders so far).
AllReady(x, st, o) ==
    {p \in Po : /\ poState[p] = "draft"
                /\ OrdersOn(p, o) = {x}
                /\ \A l \in Line : o[l] = p => st[StoneOf[l]] = "in_qc_process"}

\* ... each is confirmed and its logistics receipt validated. P is smaller
\* than AllReady when a missing bank rate stops the loop.
ConfirmAndReceive(P, q, o, r) ==
    /\ poState' = [p \in Po |-> IF p \in P THEN "purchase" ELSE poState[p]]
    /\ receipt' = [l \in Line |-> IF o[l] \in P /\ q[l] = 1 THEN "done" ELSE r[l]]

\* A sale line is moved to in_qc_process by the website or by Save.
StatusToQc(s) ==
    /\ "in_qc_process" \in SaleWords
    /\ status[s] = "booked"
    /\ status' = [status EXCEPT ![s] = "in_qc_process"]
    /\ \E P \in {{}, AllReady(OrderOf[s], status', po)} :
          ConfirmAndReceive(P, qty, po, receipt)
    /\ UNCHANGED <<stage, qty, po, ret, memo, voided, vendorMemo, inVault, trip>>

Gone == {"cancelled", "not_available"}

\* A sale line is given up. _cancel_or_reduce_related_rfq: an RFQ of this
\* order alone on which nothing is still wanted is cancelled; on any other
\* RFQ the stone's line is deleted, and the procurement of the lines that
\* are already in QC is triggered again.
CancelSaleLine(s, w) ==
    LET rfqs     == {p \in Po : /\ poState[p] = "draft"
                                /\ \E l \in On(p) : StoneOf[l] = s}
        wanted(p) == {l \in On(p) : /\ StoneOf[l] # s
                                    /\ status[StoneOf[l]] \notin DeadStatus}
        dropped  == {p \in rfqs : OrdersOn(p, po) = {OrderOf[s]} /\ wanted(p) = {}}
        deleted  == {l \in Line : StoneOf[l] = s /\ po[l] \in rfqs \ dropped}
        poNew    == [l \in Line |-> IF l \in deleted THEN NoPo ELSE po[l]]
        \* orders with a stone in QC on one of the reduced RFQs
        retrigger == {OrderOf[StoneOf[l]] : l \in
                         {m \in Line : /\ poNew[m] \in rfqs \ dropped
                                       /\ StoneOf[m] # s
                                       /\ status[StoneOf[m]] = "in_qc_process"}}
    IN  /\ w \in SaleWords \cap Gone
        /\ status[s] \notin Gone
        /\ status' = [status EXCEPT ![s] = w]
        /\ stage'   = [l \in Line |-> IF l \in deleted THEN "none" ELSE stage[l]]
        /\ qty'     = [l \in Line |-> IF l \in deleted THEN 0 ELSE qty[l]]
        /\ memo'    = [l \in Line |-> IF l \in deleted THEN "none" ELSE memo[l]]
        /\ po'      = poNew
        /\ \E P \in SUBSET UNION {AllReady(x, status', poNew) : x \in retrigger} :
              /\ P \cap dropped = {}
              /\ poState' = [p \in Po |-> IF p \in P THEN "purchase"
                                          ELSE IF p \in dropped THEN "cancel"
                                          ELSE poState[p]]
              /\ receipt' = [l \in Line |-> IF poNew[l] \in P /\ qty'[l] = 1
                                            THEN "done" ELSE receipt[l]]
        /\ UNCHANGED <<ret, voided, vendorMemo, inVault, trip>>

\* Any other write of a status changes the status alone.
WriteStatus(s, w) ==
    /\ w \in SaleWords \ {status[s]}
    /\ w \in Gone => status[s] \in Gone
    /\ ~(status[s] = "booked" /\ w = "in_qc_process")
    /\ status' = [status EXCEPT ![s] = w]
    /\ UNCHANGED <<lineVars, poVars, vendorMemo, inVault, trip>>

(***************************************************************************)
(* Specification                                                           *)
(***************************************************************************)

LineStep(l) ==
    \/ Receive(l)
    \/ Reject(l)
    \/ HandoverQc(l)
    \/ QcReceive(l)
    \/ PassInbound(l)
    \/ PassMemoReturn(l)
    \/ FailInbound(l)
    \/ FailMemoReturn(l)
    \/ AcceptInbound(l)
    \/ AcceptMemoReturn(l)
    \/ TakeOnMemo(l)
    \/ MarkReturned(l)

PoStep(p) ==
    \/ ButtonConfirm(p)
    \/ ConfirmReadyStones(p)

MemoStep(s) ==
    \/ MemoPack(s)
    \/ MemoUnpack(s)
    \/ MemoOut(s)
    \/ MemoKept(s)
    \/ MemoReturned(s)

SaleStep(s) ==
    \/ StatusToQc(s)
    \/ \E w \in SaleWords : CancelSaleLine(s, w) \/ WriteStatus(s, w)

Next ==
    \/ \E l \in Line : LineStep(l)
    \/ \E p \in Po : PoStep(p)
    \/ \E s \in Stone : MemoStep(s) \/ SaleStep(s)

Spec == Init /\ [][Next]_vars

(***************************************************************************)
(* Properties                                                              *)
(***************************************************************************)

\* Every variable holds a value of its field.
TypeOK ==
    /\ stage \in [Line -> Stage]
    /\ qty \in [Line -> {0, 1}]
    /\ po \in [Line -> Po \cup {NoPo}]
    /\ receipt \in [Line -> {"none", "pending", "done", "cancelled"}]
    /\ ret \in [Line -> {"none", "pending", "done"}]
    /\ memo \in [Line -> {"none", "vendor", "stock"}]
    /\ poState \in [Po -> {"unused", "draft", "purchase", "cancel"}]
    /\ voided \in [Po -> BOOLEAN]
    /\ status \in [Stone -> Status]
    /\ vendorMemo \in [Stone -> BOOLEAN]
    /\ inVault \in [Stone -> BOOLEAN]
    /\ trip \in [Stone -> {"home", "packed", "out", "kept", "returned"}]

\* A stone is asked for on one line at a time: splitting ready stones off an
\* RFQ ("copy, then zero") never leaves two lines that both buy the stone.
OneLivePurchase ==
    \A l, m \in Line :
        qty[l] = 1 /\ qty[m] = 1 /\ StoneOf[l] = StoneOf[m] => l = m

\* A stone counted as ours (in_inventory) was received on a confirmed
\* purchase order, also when it comes back from a customer memo, a path that
\* skips the purchase-order guard of Accept.
InventoryIsBought ==
    \A l \in Line :
        stage[l] = "in_inventory" => receipt[l] = "done" /\ poState[po[l]] = "purchase"

\* Goods are never received on an order that is still open or was cancelled:
\* _lgd_void_or_cancel_po cancels only an order on which no move is done.
ReceivedMeansPurchased ==
    \A l \in Line : receipt[l] = "done" => poState[po[l]] = "purchase"

\* An order that was cancelled, or flagged "do not pay", has no stone left
\* that somebody still waits for: no later step revives one of its lines.
DeadPoHasNothingLive ==
    \A l \in Line : \A p \in Po :
        po[l] = p /\ (poState[p] = "cancel" \/ voided[p])
            => qty[l] = 0 \/ stage[l] \in Spent

\* A stone that passed QC has a way on: its RFQ can still be committed (or
\* the stone held on memo), or its receipt is open and it can be accepted.
NoStrandedStone ==
    \A l \in Line :
        stage[l] \in {"qc_passed", "on_memo"} /\ memo[l] = "none"
            => \/ poState[po[l]] = "draft"
               \/ poState[po[l]] = "purchase" /\ receipt[l] = "pending"

\* The customer is asked to pay only for a stone that passed inspection and
\* is still held: the sale side and the purchase side agree on it.
PaymentAfterQc ==
    \A s \in Procured :
        status[s] = "payment_pending"
            => \E l \in Line : /\ StoneOf[l] = s /\ qty[l] = 1
                               /\ stage[l] \in {"qc_passed", "on_memo", "in_inventory"}

\* A sale line is released (memo_returned) only when the stone is neither
\* with QC nor waiting to be signed back in.
ReleasedAfterInspection ==
    \A s \in Stone :
        status[s] = "memo_returned"
            => \A l \in Line : StoneOf[l] = s => memo[l] = "none"

\* What was received, by Accept or by a status write of the website long
\* before the stone was inspected, stays on its order and is not rejected or
\* split off as if it had never come; if it fails its first inspection a move
\* takes it back to the vendor, and it is returned only when that was done.
GoodsGoBack ==
    \A l \in Line :
        receipt[l] = "done" /\ trip[StoneOf[l]] # "returned" =>
            /\ qty[l] = 1
            /\ stage[l] \notin {"none", "rejected", "split"}
            /\ stage[l] = "failed" => ret[l] = "pending"
            /\ stage[l] = "returned" => ret[l] = "done"

\* A stone is bought once, and received and ours only when bought.
BoughtOnce == OneLivePurchase /\ InventoryIsBought /\ ReceivedMeansPurchased

\* What the departments tell the sale side of a stone is what its inspections
\* said. Refuted once the website or Sales write "payment pending" or "returned
\* from memo" themselves, which Odoo lets them do.
InspectedFirst == PaymentAfterQc /\ ReleasedAfterInspection

\* No stone waits for an order that is over, no order leaves one behind.
NothingStranded == DeadPoHasNothingLive /\ NoStrandedStone

\* What holds whatever the website and Sales write into the lines, with the
\* receipts, confirmations and deletions that those writes cause.
StonesAreSafe == BoughtOnce /\ GoodsGoBack

\* Refuted: "Returned - do not pay" is for orders whose stones went back:
\* whatever was received on a voided order has a move back to the vendor.
VoidedHoldsNoStock ==
    \A l \in Line : \A p \in Po :
        po[l] = p /\ voided[p] /\ receipt[l] = "done" => ret[l] # "none"

(***************************************************************************)
(* The inductive invariant of StoneOps_proofs, checked here by TLC.        *)
(***************************************************************************)

\* Stages of a line that still stands for its stone.
Current == Stage \ {"none", "rejected", "failed", "returned", "split"}

\* A record that does not exist is blank, one that does has an order.
RecordsOK ==
    \A l \in Line :
        /\ stage[l] = "none" <=> po[l] = NoPo
        /\ stage[l] = "none" => qty[l] = 0 /\ receipt[l] = "none" /\ memo[l] = "none"
        /\ stage[l] \in Current => qty[l] = 1
        /\ po[l] # NoPo => poState[po[l]] # "unused"

\* Receipts exist on orders that were confirmed; what is ours, or comes back
\* to our stock, was received.
ReceiptsOK ==
    \A l \in Line :
        /\ po[l] # NoPo /\ poState[po[l]] = "draft" => receipt[l] = "none"
        /\ receipt[l] \in {"pending", "done"} => poState[po[l]] = "purchase"
        /\ stage[l] = "in_inventory" => receipt[l] = "done"
        /\ memo[l] = "stock" => receipt[l] = "done"

\* A memo return is somewhere between the customer and our stock, and a
\* stone is sent back to a vendor from there only.
MemoOK ==
    \A l \in Line :
        /\ memo[l] # "none" => stage[l] \in {"with_qc", "in_qc", "qc_passed"}
        /\ memo[l] = "vendor" => stage[l] # "qc_passed"
        /\ memo[l] # "none" \/ stage[l] = "cust_returned" => trip[StoneOf[l]] = "returned"

\* A vaulted stone is in custody (or ours), or back for inspection.
VaultOK ==
    \A l \in Line :
        inVault[StoneOf[l]] =>
            /\ stage[l] \in {"expected", "received", "with_qc", "in_qc", "qc_passed"}
                  => memo[l] # "none"
            /\ stage[l] \in Current /\ trip[StoneOf[l]] # "returned"
                  => stage[l] \in {"on_memo", "in_inventory"}

\* Only a stone in the vault goes out on memo.
OutOK == \A s \in Stone : trip[s] # "home" => inVault[s]

\* GoodsGoBack, and a line that is over but still buys its stone was received.
GoodsOK ==
    \A l \in Line :
        trip[StoneOf[l]] # "returned" =>
            qty[l] = 0 \/ stage[l] \in Current \/ receipt[l] = "done"

IInv == /\ TypeOK /\ RecordsOK /\ OneLivePurchase /\ ReceiptsOK
        /\ MemoOK /\ VaultOK /\ OutOK /\ GoodsOK /\ GoodsGoBack

\* While a memo return is with QC, or waits to be signed in, its sale line
\* asks for no payment and is not released; nor does a stone that is out.
ReinspectionOK ==
    /\ \A l \in Line : memo[l] # "none"
          => status[StoneOf[l]] \notin {"payment_pending", "memo_returned"}
    /\ \A s \in Stone : trip[s] = "out" => status[s] # "payment_pending"

InspectionInv == IInv /\ ReinspectionOK /\ PaymentAfterQc

\* Any stone on its way in, not only one that passed QC, is on an order that
\* is open, or confirmed with the stone's receipt still to come.
WayOnOK ==
    \A l \in Line :
        stage[l] \in Current \ {"in_inventory", "cust_returned"} /\ memo[l] = "none"
            => \/ poState[po[l]] = "draft"
               \/ poState[po[l]] = "purchase" /\ receipt[l] = "pending"

\* An order that is not there yet is not flagged.
UnusedOK == \A p \in Po : poState[p] = "unused" => ~voided[p]

CustodyInv == IInv /\ DeadPoHasNothingLive /\ WayOnOK /\ UnusedOK

=============================================================================
