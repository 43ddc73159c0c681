------------------------------ MODULE OrderRules ------------------------------
(***************************************************************************)
(* The status of a sale order as a function of the statuses of its lines,   *)
(* used by every component that writes one.                                 *)
(***************************************************************************)
OrderStatuses ==
  {"Order Received", "Delivered", "Order Completed", "Dispatched",
   "Payment Completed", "In QC process", "Availability Check",
   "Order Confirmed", "Payment Pending", "Confirmation Pending", "Cancelled"}

Norm(s) == IF s \in {"replaced", "memo_returned"} THEN "cancelled" ELSE s

C1Ignore == {"diamond_booked", "confirmed", "cancelled", "payment_completed"}
C3Ignore == {"diamond_booked", "confirmed", "qc_fail", "not_available",
             "cancelled"}
C7Ignore == {"cancelled", "not_available", "qc_fail", "diamond_booked",
             "confirmed", "payment_completed", "delivered", "order_completed"}
C9Ignore == {"not_available", "cancelled", "in_qc_process", "qc_fail",
             "payment_completed", "dispatched", "return_of_order",
             "re_dispatched", "delivered", "order_completed",
             "diamond_booked"}
Logistics == {"dispatched", "return_of_order", "re_dispatched"}


\* _compute_order_status_from_lines: the first rule that fits, C1 to C11.
StatusOf(orderCancelled, statuses) ==
  LET all == {Norm(s) : s \in statuses}
      arrived == all \ C1Ignore
  IN IF all = {} THEN "Order Received"
     ELSE IF orderCancelled THEN "Cancelled"
     ELSE IF arrived # {} /\ arrived \subseteq {"delivered", "order_completed"}
       THEN IF "delivered" \in arrived THEN "Delivered" ELSE "Order Completed"
     ELSE IF all \cap Logistics # {} THEN "Dispatched"
     ELSE IF all \ C3Ignore = {"payment_completed"} THEN "Payment Completed"
     ELSE IF "in_qc_process" \in all THEN "In QC process"
     ELSE IF all \cap {"not_available", "qc_fail"} # {} THEN "Availability Check"
     ELSE IF {"payment_pending", "confirmed"} \subseteq all THEN "Order Confirmed"
     ELSE IF all \ C7Ignore = {"payment_pending"} THEN "Payment Pending"
     ELSE IF {"confirmed", "diamond_booked"} \subseteq all
       THEN "Confirmation Pending"
     ELSE IF all \ C9Ignore = {"confirmed"} THEN "Order Confirmed"
     ELSE IF "diamond_booked" \in all THEN "Order Received"
     ELSE IF all = {"cancelled"} THEN "Cancelled"
     ELSE "Order Received"
=============================================================================
