------------------------------ MODULE Payments ------------------------------
(***************************************************************************)
(* Payment of an offline order (payment_offline_sales, odoo_payment_payu,   *)
(* custom_sale_order): a UTR number entered by hand, or a link to PayU or   *)
(* Stripe.  A link is a transaction, and the order keeps the token of the   *)
(* last one only.  PayU reports by webhook, Stripe is asked when the buyer  *)
(* comes back.  Amounts are left out: a link is for all that is due when it *)
(* is made.                                                                 *)
(***************************************************************************)
EXTENDS Integers, Sequences, FiniteSets, FiniteSetsExt, SequencesExt

CONSTANTS
  Item,         \* lines of the order
  ItemPrice,    \* price of each, tax included
  Entered,      \* statuses Procurement enters by hand
  Refusals,     \* what PayU may say of a payment it did not take
  MaxLinks      \* bound: links sent

VARIABLES
  item,         \* status of each line
  proof,        \* per line: how its payment was proven (ghost)
  sold,         \* its sale order was made
  order,        \* draft, open, confirmed or cancel
  link,         \* transaction of the order's payment_link_token, or 0
  tx,           \* payment transactions of the order, in order of creation
  forms,        \* PayU transactions whose signed form was handed out
  money,        \* transactions the buyer has paid, as the provider knows
  news          \* PayU's messages, which may arrive late, twice or never

payment_vars == <<item, proof, sold, order, link, tx, forms, money, news>>

ItemStatus == {"diamond_booked", "confirmed", "not_available", "cancelled", "in_qc_process",
               "qc_fail", "payment_pending", "payment_completed", "dispatched",
               "return_of_order", "re_dispatched", "delivered", "order_completed"}
TxState == {"draft", "pending", "done", "cancel", "error"}

ASSUME PaymentsAssumption ==
  /\ IsFiniteSet(Item) /\ ItemPrice \in [Item -> Nat] /\ Entered \subseteq ItemStatus
  /\ Refusals \subseteq {"pending", "cancel", "error"}
  /\ MaxLinks \in Nat

\* What proves the payment of a line: a transaction by its number, or
Unproven == 0
ByHand == -1
ByUtr == -2

PaymentsTypeOK ==
  /\ item \in [Item -> ItemStatus] /\ sold \in BOOLEAN
  /\ \A i \in Item : proof[i] \in {Unproven, ByHand, ByUtr} \union DOMAIN tx
  /\ order \in {"draft", "open", "confirmed", "cancel"} /\ link \in 0..Len(tx)
  /\ tx \in Seq([provider : {"payu", "stripe"}, state : TxState])
  /\ Len(tx) <= MaxLinks /\ money \union forms \subseteq DOMAIN tx
  /\ news \subseteq [of : forms, says : {"done"} \union Refusals]

\* _compute_amount, _compute_amounts: lines that are off count nothing.
AmountDue == \E i \in Item : item[i] \notin {"cancelled", "not_available"} /\ ItemPrice[i] > 0

(***************************************************************************)
(* _compute_augmont_status_from_lines: the first rule that holds            *)
(***************************************************************************)
SettledIgnores == {"diamond_booked", "confirmed", "qc_fail", "not_available", "cancelled"}
DeliveredIgnores ==
  SettledIgnores \union {"in_qc_process", "payment_pending", "payment_completed",
                         "dispatched", "re_dispatched"}
PendingIgnores == SettledIgnores \union {"payment_completed"}
ConfirmedIgnores ==
  ItemStatus \ {"confirmed", "payment_pending"}

\* The rules C1 to C11 over the statuses the lines have.
StatusShown ==
  LET has == {item[i] : i \in Item}
      only(ignored, s) == has \ ignored # {} /\ has \ ignored \subseteq s
      some(s) == has \intersect s # {}
  IN  IF has = {} THEN "Order Received"
      ELSE IF order = "cancel" THEN "Cancelled"
      ELSE IF only(DeliveredIgnores, {"delivered", "order_completed"}) THEN "Order Completed"
      ELSE IF some({"dispatched", "return_of_order", "re_dispatched"}) THEN "Dispatched"
      ELSE IF only(SettledIgnores, {"payment_completed"}) THEN "Payment Completed"
      ELSE IF "in_qc_process" \in has THEN "In QC process"
      ELSE IF some({"not_available", "qc_fail"}) THEN "Availability Check"
      ELSE IF {"payment_pending", "confirmed"} \subseteq has THEN "Order Confirmed"
      ELSE IF only(PendingIgnores, {"payment_pending"}) THEN "Payment Pending"
      ELSE IF {"confirmed", "diamond_booked"} \subseteq has THEN "Confirmation Pending"
      ELSE IF only(ConfirmedIgnores, {"confirmed"}) THEN "Order Confirmed"
      ELSE IF "diamond_booked" \in has THEN "Order Received"
      ELSE IF has = {"cancelled"} THEN "Cancelled"
      ELSE "Order Received"

(***************************************************************************)
(* The order                                                                *)
(***************************************************************************)
\* The availability of a line, by hand, once the order shows the column.
Enter(i, s) ==
  /\ order # "draft" /\ item[i] # s
  /\ item' = [item EXCEPT ![i] = s]
  /\ proof' = [proof EXCEPT ![i] = IF s = "payment_completed" THEN ByHand ELSE Unproven]
  /\ UNCHANGED <<sold, order, link, tx, forms, money, news>>

\* action_quotation_send, action_approve, action_done; action_set_to_quotation.
Proceed == order' = "open" /\ UNCHANGED <<item, proof, sold, link, tx, forms, money, news>>
BackToDraft == order' = "draft" /\ UNCHANGED <<item, proof, sold, link, tx, forms, money, news>>

\* action_confirm_offline_order: once.
ConfirmOffline ==
  /\ ~sold /\ sold' = TRUE /\ order' = "confirmed"
  /\ UNCHANGED <<item, proof, link, tx, forms, money, news>>

CancelOrder ==
  /\ order # "cancel" /\ order' = "cancel"
  /\ UNCHANGED <<item, proof, sold, link, tx, forms, money, news>>

\* _mark_payment_completed: the lines that await payment now.
Flip(by) ==
  LET due == {i \in Item : item[i] = "payment_pending"}
  IN  /\ item' = [i \in Item |-> IF i \in due THEN "payment_completed" ELSE item[i]]
      /\ proof' = [i \in Item |-> IF i \in due THEN by ELSE proof[i]]

\* _process_bank_transfer, with a UTR number.
BankTransfer == Flip(ByUtr) /\ UNCHANGED <<sold, order, link, tx, forms, money, news>>

(***************************************************************************)
(* Links                                                                    *)
(***************************************************************************)
\* _send_payu_link and _send_stripe_link; country, phone and currency decide.
NewLink(provider) ==
  /\ AmountDue /\ Len(tx) < MaxLinks
  /\ tx' = Append(tx, [provider |-> provider, state |-> "draft"])
  /\ link' = Len(tx) + 1
  /\ UNCHANGED <<item, proof, sold, order, forms, money, news>>

\* _process_online_payment: PayU for buyers in India, Stripe for the others.
SendPayuLink == NewLink("payu")
SendStripeLink == NewLink("stripe")

Latest(s) == IF s = {} THEN {} ELSE {Max(s)}
OpenOnes(provider) ==
  {t \in DOMAIN tx : tx[t].provider = provider /\ tx[t].state \in {"draft", "pending"}}

\* payu_initiate: the current link opens the last open PayU transaction.
PayuInitiate ==
  /\ link # 0 /\ tx[link].provider = "payu"
  /\ \E t \in Latest(OpenOnes("payu")) : forms' = forms \union {t}
  /\ UNCHANGED <<item, proof, sold, order, link, tx, money, news>>

\* The providers' pages.
PayuTakes(t) ==
  /\ money' = money \union {t} /\ news' = news \union {[of |-> t, says |-> "done"]}
  /\ UNCHANGED <<item, proof, sold, order, link, tx, forms>>
PayuRefuses(t, says) ==
  /\ t \notin money /\ news' = news \union {[of |-> t, says |-> says]}
  /\ UNCHANGED <<item, proof, sold, order, link, tx, forms, money>>
StripeTakes(t) ==
  /\ tx[t].provider = "stripe" /\ money' = money \union {t}
  /\ UNCHANGED <<item, proof, sold, order, link, tx, forms, news>>

\* _set_done, _set_pending, _set_canceled, _set_error of the payment module.
From(target) == CASE target = "done" -> {"draft", "pending", "error"}
                  [] target = "pending" -> {"draft"}
                  [] OTHER -> {"draft", "pending"}
Become(t, target) ==
  tx' = IF tx[t].state \in From(target) THEN [tx EXCEPT ![t].state = target] ELSE tx

\* The override of _set_done flips the lines whatever became of the transaction.
SetDone(t) == Become(t, "done") /\ Flip(t)

\* payu_webhook and _apply_updates.  The message stays: it may come again.
PayuWebhook(n) ==
  /\ IF n.says = "done" THEN SetDone(n.of)
     ELSE Become(n.of, n.says) /\ UNCHANGED <<item, proof>>
  /\ UNCHANGED <<sold, order, link, forms, money, news>>

\* Mutant: that the buyer is back is taken for a payment.
ConfirmPaidByRedirect(t) == tx[t].state # "error"
\* _stripe_confirm_paid: "never trust the redirect alone".
ConfirmPaid(t) == t \in money

\* stripe_return: whoever opens the page has a session's token, and only the
\* order's last one is known.
StripeReturn ==
  /\ link # 0 /\ tx[link].provider = "stripe"
  /\ \E t \in Latest({u \in DOMAIN tx : tx[u].provider = "stripe"}) :
       ConfirmPaid(t) /\ tx[t].state # "done" /\ SetDone(t)
  /\ UNCHANGED <<sold, order, link, forms, money, news>>

StripeCancel ==
  /\ link # 0 /\ tx[link].provider = "stripe"
  /\ \E t \in Latest(OpenOnes("stripe")) : Become(t, "cancel")
  /\ UNCHANGED <<item, proof, sold, order, link, forms, money, news>>

PaymentsInit ==
  /\ item = [i \in Item |-> "diamond_booked"] /\ proof = [i \in Item |-> Unproven]
  /\ sold = FALSE /\ order = "draft" /\ link = 0 /\ tx = <<>>
  /\ forms = {} /\ money = {} /\ news = {}

PaymentsNext ==
  \/ \E i \in Item, s \in Entered : Enter(i, s)
  \/ Proceed \/ BackToDraft \/ ConfirmOffline \/ CancelOrder \/ BankTransfer
  \/ SendPayuLink \/ SendStripeLink
  \/ PayuInitiate \/ StripeReturn \/ StripeCancel
  \/ \E t \in forms : PayuTakes(t) \/ \E s \in Refusals : PayuRefuses(t, s)
  \/ \E t \in DOMAIN tx : StripeTakes(t)
  \/ \E n \in news : PayuWebhook(n)

PaymentsSpec == PaymentsInit /\ [][PaymentsNext]_payment_vars

-----------------------------------------------------------------------------
\* A line is marked paid through a link only when the provider has the money
\* of that very transaction, whatever messages are repeated or overtaken,
\* whichever pages are opened and however often a new link is sent; and a
\* transaction is done only when it was paid.
PaidIsProven ==
  /\ \A i \in Item : proof[i] \in DOMAIN tx => proof[i] \in money
  /\ \A t \in DOMAIN tx : tx[t].state = "done" => t \in money

\* An order is shown as paid only when no line awaits payment or its QC and
\* each paid line has its proof.
ShownPaidIsPaid ==
  StatusShown = "Payment Completed" =>
    \A i \in Item : /\ item[i] \notin {"payment_pending", "in_qc_process"}
                    /\ item[i] = "payment_completed" => proof[i] # Unproven

\* Paid means paid, for a line and for the order.
PaidMeansPaid == PaidIsProven /\ ShownPaidIsPaid
=============================================================================
