------------------------------ MODULE Transfers ------------------------------
(***************************************************************************)
(* The stones of one sale order on their way through the warehouse's older  *)
(* chain of transfers:                                                      *)
(*                                                                          *)
(*   vendor --receipt--> QC --QC transfer--> LGD inventory --stage-->       *)
(*   dispatch staging --delivery--> customer                                *)
(*                                                                          *)
(* Every step is a transfer of its own, validated by somebody else; the     *)
(* code of button_validate hangs the next transfer and the statuses of the  *)
(* order's lines on it.  Most of these statuses are written for the whole   *)
(* order, whatever stones the transfer moves.  A line may die on the way.   *)
(*                                                                          *)
(* Every stone is a product of its own, so that a move finds its line.      *)
(* Dispatch parcels validate their own transfers (module Dispatch).         *)
(***************************************************************************)
EXTENDS Integers

CONSTANTS
  Gem,            \* the lines of the order, each a stone
  Vendor,         \* the vendors
  SoldBy,         \* the vendor of each stone
  Numbered,       \* the lines that have an id of the website, or whose parcel has
  Deaths,         \* pairs of statuses: how a line dies outside of this code
  MaxDeliveries   \* bound on the deliveries of the order

VARIABLES
  avail,        \* availability_status of each line
  place,        \* where the done transfers brought each stone
  due,          \* stones the vendors' receipts still bring
  inspect,      \* stones on the order's open QC transfer
  verdict,      \* qc_status of each stone's move there
  toStage,      \* stones on the open transfer from inventory to staging
  deliveries,   \* the transfers from staging to the customer
  cancelledSo   \* the sale order is cancelled

warehouse_vars == <<place, due, inspect, verdict, toStage>>
transfer_vars == <<avail, warehouse_vars, deliveries, cancelledSo>>

Gone == {"cancelled", "replaced", "not_available", "qc_fail"}
Behind == {"diamond_booked", "confirmed", "in_qc_process", "payment_pending"}
WithCourier == {"dispatched", "return_of_order", "re_dispatched"}
Availabilities == Gone \union Behind \union WithCourier \union
                  {"payment_completed", "delivered", "order_completed"}

Unused == [moves |-> {}, state |-> "none", tracked |-> FALSE,
           delivered |-> FALSE, completed |-> FALSE]
Delivery == [moves : SUBSET Gem, state : {"none", "assigned", "pack", "done"},
             tracked : BOOLEAN, delivered : BOOLEAN, completed : BOOLEAN]
DeliveryIds == 1..MaxDeliveries

ASSUME TransfersAssumption ==
  /\ SoldBy \in [Gem -> Vendor] /\ Numbered \subseteq Gem
  /\ Deaths \subseteq (Availabilities \ Gone) \X Gone
                      \union {<<"not_available", "replaced">>,
                              <<"qc_fail", "replaced">>}
  /\ MaxDeliveries \in Nat

TransfersTypeOK ==
  /\ avail \in [Gem -> Availabilities]
  /\ place \in [Gem -> {"vendor", "qc", "inventory", "staging", "customer"}]
  /\ due \subseteq Gem /\ inspect \subseteq Gem /\ toStage \subseteq Gem
  /\ verdict \in [Gem -> {"none", "pass", "fail"}]
  /\ deliveries \in [DeliveryIds -> Delivery]
  /\ cancelledSo \in BOOLEAN

\* The lines of statuses in From take status to.
Write(st, From, to) == [l \in Gem |-> IF st[l] \in From THEN to ELSE st[l]]

\* The stones S are at p.
Put(S, p) == [l \in Gem |-> IF l \in S THEN p ELSE place[l]]

(***************************************************************************)
(* Receipts and quality control                                             *)
(***************************************************************************)
\* What a receipt leaves alone ("replaced" is not among it).
Settled == {"cancelled", "not_available", "qc_fail", "payment_pending",
            "payment_completed", "delivered", "order_completed",
            "in_qc_process"} \union WithCourier

\* The received stones whose line is in QC go on the QC transfer of the order.
Queued(eligible) == inspect \union eligible

\* button_validate of a receipt from vendor v that brings the stones S; what it
\* does not bring stays due in a backorder.
Receive(v, S) ==
  /\ S # {} /\ S \subseteq {l \in due : SoldBy[l] = v}
  /\ avail' = [l \in Gem |-> IF l \in S /\ avail[l] \notin Settled
                             THEN "in_qc_process" ELSE avail[l]]
  /\ inspect' = Queued({l \in S : avail'[l] = "in_qc_process"})
  /\ due' = due \ S /\ place' = Put(S, "qc")
  /\ UNCHANGED <<verdict, toStage, deliveries, cancelledSo>>

\* action_pass and action_fail: taken once, whatever became of the line.
Decide(l, v, to) ==
  /\ l \in inspect /\ verdict[l] = "none"
  /\ verdict' = [verdict EXCEPT ![l] = v]
  /\ avail' = [avail EXCEPT ![l] = to]
  /\ UNCHANGED <<place, due, inspect, toStage, deliveries, cancelledSo>>

Pass(l) == Decide(l, "pass", "payment_pending")
Fail(l) == Decide(l, "fail", "qc_fail")

\* The moves that go on to LGD inventory.
Passed(S) == {l \in S : verdict[l] = "pass"}

\* button_validate of the QC transfer, refused until every move is decided.  If
\* a stone failed, every failed line of the order is cancelled, and with the
\* last line the order: unless Odoo asks first, that cancels this transfer too
\* and its stones stay where they are.
ValidateQc(asks) ==
  LET failed == {l \in inspect : verdict[l] = "fail"}
      after == IF failed # {} THEN Write(avail, {"qc_fail"}, "cancelled")
               ELSE avail
      over == failed # {} /\ \A l \in Gem : after[l] \in {"cancelled", "replaced"}
      stopped == over /\ ~asks /\ ~cancelledSo
      on == Passed(inspect)
  IN  /\ inspect # {} /\ \A l \in inspect : verdict[l] # "none"
      /\ avail' = after
      /\ inspect' = {}
      /\ IF stopped
         THEN /\ place' = place /\ toStage' = {}
              /\ cancelledSo' = TRUE
              /\ deliveries' = [d \in DeliveryIds |->
                                  IF deliveries[d].state = "done"
                                  THEN deliveries[d] ELSE Unused]
         ELSE /\ place' = [l \in Gem |-> CASE l \in on -> "inventory"
                                           [] l \in inspect \ on -> "vendor"
                                           [] OTHER -> place[l]]
              /\ toStage' = toStage \union on
              /\ UNCHANGED <<cancelledSo, deliveries>>
      /\ UNCHANGED <<due, verdict>>

(***************************************************************************)
(* Staging and packing                                                      *)
(***************************************************************************)
\* External: the warehouse's route.  The staged stones join a delivery that is
\* not packed yet, or make a new one.
Routed(S) ==
  \E d \in DeliveryIds :
    /\ \/ deliveries[d].state = "assigned"
       \/ deliveries[d].state = "none"
          /\ \A e \in DeliveryIds : e < d => deliveries[e].state # "none"
    /\ deliveries' = [deliveries EXCEPT ![d].moves = @ \union S,
                                        ![d].state = "assigned"]

\* button_validate of the transfer to staging: quantities are forced, all goes.
Stage ==
  /\ toStage # {} /\ toStage' = {}
  /\ place' = Put(toStage, "staging")
  /\ Routed(toStage)
  /\ UNCHANGED <<avail, due, inspect, verdict, cancelledSo>>

\* A UTR on the sale order (also the first step of the packing wizard, which
\* commits it): what is pending is paid.
EnterPayment ==
  /\ avail' = Write(avail, {"payment_pending"}, "payment_completed")
  /\ avail' # avail
  /\ UNCHANGED <<warehouse_vars, deliveries, cancelledSo>>

\* Mutant: a line that failed QC is paid with the order.
BehindOrFailed == Behind \union {"qc_fail"}

\* The lines that follow the order to Payment Completed.
Following == Behind

\* The packing wizard: pending lines are paid, then the order's own status is
\* written, which takes every line that is behind along.
PackDelivery(d) ==
  /\ deliveries[d].state = "assigned"
  /\ deliveries' = [deliveries EXCEPT ![d].state = "pack"]
  /\ avail' = Write(avail, Following, "payment_completed")
  /\ UNCHANGED <<warehouse_vars, cancelledSo>>

(***************************************************************************)
(* Delivery                                                                 *)
(***************************************************************************)
Ready == {"payment_pending", "payment_completed", "delivered",
          "order_completed"} \union WithCourier

\* "Cannot Validate without Packing!"
MayLeave(d) == deliveries[d].state = "pack"

\* What was never told to the website is swept out when the order leaves.
Swept(st) == [l \in Gem |-> IF st[l] = "diamond_booked" /\ l \notin Numbered
                            THEN "cancelled" ELSE st[l]]

\* button_validate of a delivery: all of the order that is paid is dispatched.
ValidateDelivery(d) ==
  /\ MayLeave(d)
  /\ \A l \in deliveries[d].moves : avail[l] \in Ready
  /\ deliveries' = [deliveries EXCEPT ![d].state = "done"]
  /\ place' = Put(deliveries[d].moves, "customer")
  /\ avail' = Swept(Write(avail, {"payment_completed"}, "dispatched"))
  /\ UNCHANGED <<due, inspect, verdict, toStage, cancelledSo>>

\* The Dispatch button: courier and number are saved and committed first...
TrackingSaved(d) ==
  /\ deliveries[d].state = "done" /\ ~deliveries[d].tracked
  /\ deliveries' = [deliveries EXCEPT ![d].tracked = TRUE]

\* ...then the order reads Dispatched, with all that is with the courier.
ApplyDispatch(d) ==
  /\ TrackingSaved(d)
  /\ avail' = Write(avail, {"payment_completed"} \union WithCourier, "dispatched")
  /\ UNCHANGED <<warehouse_vars, cancelledSo>>

\* The second step of Re-Dispatch.
ApplyRedispatch(d) ==
  /\ TrackingSaved(d)
  /\ avail' = Write(avail, {"payment_completed", "delivered"} \union WithCourier,
                    "re_dispatched")
  /\ UNCHANGED <<warehouse_vars, cancelledSo>>

\* The transaction ends between the two.
ApplyInterrupted(d) ==
  /\ TrackingSaved(d)
  /\ UNCHANGED <<avail, warehouse_vars, cancelledSo>>

\* action_open_redispatch_wizard: the first step of Re-Dispatch.
OpenRedispatch(d) ==
  /\ deliveries[d].state = "done" /\ deliveries[d].tracked
  /\ ~deliveries[d].completed /\ ~deliveries[d].delivered
  /\ deliveries' = [deliveries EXCEPT ![d].tracked = FALSE]
  /\ avail' = Write(avail, WithCourier \union {"delivered"}, "return_of_order")
  /\ UNCHANGED <<warehouse_vars, cancelledSo>>

\* action_delivered, of the whole order.
MarkDelivered(d) ==
  /\ deliveries[d].state = "done" /\ deliveries[d].tracked
  /\ ~deliveries[d].delivered
  /\ deliveries' = [deliveries EXCEPT ![d].delivered = TRUE]
  /\ avail' = Write(avail, {"payment_completed"} \union WithCourier, "delivered")
  /\ UNCHANGED <<warehouse_vars, cancelledSo>>

\* action_order_completed, of the whole order.
CompletedFrom == {"payment_completed", "delivered"} \union WithCourier

MarkCompleted(d) ==
  /\ deliveries[d].state = "done" /\ deliveries[d].tracked
  /\ deliveries[d].delivered /\ ~deliveries[d].completed
  /\ \E l \in Gem : avail[l] \in CompletedFrom
  /\ deliveries' = [deliveries EXCEPT ![d].completed = TRUE]
  /\ avail' = Write(avail, CompletedFrom, "order_completed")
  /\ UNCHANGED <<warehouse_vars, cancelledSo>>

(***************************************************************************)
(* Elsewhere                                                                *)
(***************************************************************************)
\* A line dies: the website's call, the grid, a replacement.  Its moves stay.
Dies(l, to) ==
  /\ <<avail[l], to>> \in Deaths
  /\ avail' = [avail EXCEPT ![l] = to]
  /\ UNCHANGED <<warehouse_vars, deliveries, cancelledSo>>

\* A booked stone is confirmed and bought: its vendor will send it.
Procured(l) ==
  /\ avail[l] = "diamond_booked" /\ ~cancelledSo
  /\ avail' = [avail EXCEPT ![l] = "confirmed"]
  /\ due' = due \union {l}
  /\ UNCHANGED <<place, inspect, verdict, toStage, deliveries, cancelledSo>>

\* The order is cancelled: its lines, and its open transfers; the receipts
\* belong to the purchase orders.
CancelSo ==
  /\ ~cancelledSo /\ cancelledSo' = TRUE
  /\ avail' = [l \in Gem |-> "cancelled"]
  /\ inspect' = {} /\ toStage' = {}
  /\ deliveries' = [d \in DeliveryIds |-> IF deliveries[d].state = "done"
                                          THEN deliveries[d] ELSE Unused]
  /\ UNCHANGED <<place, due, verdict>>

TransfersInit ==
  /\ avail \in [Gem -> {"confirmed", "diamond_booked"}]
  /\ place = [l \in Gem |-> "vendor"]
  /\ due = {l \in Gem : avail[l] = "confirmed"}
  /\ inspect = {} /\ toStage = {}
  /\ verdict = [l \in Gem |-> "none"]
  /\ deliveries = [d \in DeliveryIds |-> Unused]
  /\ cancelledSo = FALSE

TransfersNext ==
  \/ \E v \in Vendor : \E S \in SUBSET Gem : Receive(v, S)
  \/ \E l \in Gem : Pass(l) \/ Fail(l) \/ Procured(l)
  \/ \E asks \in BOOLEAN : ValidateQc(asks)
  \/ Stage \/ EnterPayment \/ CancelSo
  \/ \E d \in DeliveryIds :
       \/ PackDelivery(d) \/ ValidateDelivery(d)
       \/ ApplyDispatch(d) \/ ApplyRedispatch(d) \/ ApplyInterrupted(d)
       \/ OpenRedispatch(d) \/ MarkDelivered(d) \/ MarkCompleted(d)
  \/ \E l \in Gem : \E to \in Gone : Dies(l, to)

TransfersSpec == TransfersInit /\ [][TransfersNext]_transfer_vars

(***************************************************************************)
(* Properties                                                               *)
(***************************************************************************)
\* What quality control did not pass is never beyond it.
OnlyInspectedLeave ==
  \A l \in Gem : place[l] \in {"inventory", "staging", "customer"} =>
    verdict[l] = "pass"

\* What failed is over: no status written for the whole order revives it.
FailedIsOver == \A l \in Gem : verdict[l] = "fail" => avail[l] \in Gone

\* No stone that left reads unpaid.
PaidBeforeLeaving ==
  \A l \in Gem : place[l] = "customer" => avail[l] \notin Behind

\* A stone that reads In QC and is there can be decided on.
InQcIsInspected ==
  \A l \in Gem : (avail[l] = "in_qc_process" /\ place[l] = "qc") =>
    l \in inspect /\ verdict[l] = "none"

\* Refuted: goods that read Dispatched, Re-Dispatched or Return of Order are
\* with the courier: they left the warehouse.
CourierHasIt ==
  \A l \in Gem : avail[l] \in WithCourier => place[l] = "customer"

\* Goods and statuses agree: nothing but passed and paid stones leaves, and a
\* stone waiting for its inspection gets it.
GoodsMatchStatuses ==
  OnlyInspectedLeave /\ FailedIsOver /\ PaidBeforeLeaving /\ InQcIsInspected
=============================================================================
