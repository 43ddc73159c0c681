---------------------------- MODULE SiteStatuses ----------------------------
(***************************************************************************)
(* The statuses of a line the customer website knows and the transitions it *)
(* accepts: ALLOWED_AUGMONT_STATUS_TRANSITIONS, its copy of that table.     *)
(***************************************************************************)
\* The table both sides follow.
Allowed ==
  [w \in {"Diamond Booked", "Confirmed", "Not available", "In QC process",
          "QC Fail", "Replaced", "Payment Pending", "Payment Completed",
          "Dispatched", "Return of Order", "Re - Dispatched", "Delivered",
          "Returned from memo", "Cancelled", "Order Completed"} |->
     CASE w = "Diamond Booked" -> {"Confirmed", "Not available",
                                   "In QC process", "Cancelled"}
       [] w = "Confirmed" -> {"In QC process", "Not available", "Cancelled"}
       [] w = "Not available" -> {"Cancelled", "Replaced"}
       [] w = "In QC process" -> {"Payment Pending", "QC Fail",
                                  "Returned from memo", "Cancelled"}
       [] w = "QC Fail" -> {"Cancelled", "Replaced", "In QC process"}
       [] w = "Replaced" -> {"Not available", "QC Fail", "Cancelled"}
       [] w = "Payment Pending" -> {"Payment Completed", "Cancelled",
                                    "Dispatched"}
       [] w = "Payment Completed" -> {"Dispatched", "Delivered",
                                      "Order Completed"}
       [] w = "Dispatched" -> {"Delivered", "Return of Order",
                               "Returned from memo", "Re - Dispatched",
                               "In QC process", "Order Completed"}
       [] w = "Return of Order" -> {"Re - Dispatched", "Delivered",
                                    "Order Completed"}
       [] w = "Re - Dispatched" -> {"Delivered", "Return of Order",
                                    "Returned from memo", "Order Completed"}
       [] w = "Delivered" -> {"Order Completed", "Return of Order",
                              "Returned from memo", "Re - Dispatched",
                              "In QC process"}
       [] w = "Returned from memo" -> {"In QC process", "Cancelled"}
       [] OTHER -> {}]
=============================================================================
