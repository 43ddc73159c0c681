------------------------------ MODULE Office_proofs ------------------------------
(***************************************************************************)
(* The office: the components that MCOffice takes through their steps one   *)
(* at a time.  Each has a section: its inductive invariant, a lemma for     *)
(* each kind of step, and the theorem.                                      *)
(*                                                                          *)
(*   Payments         PaidInv: a message of the provider has the money      *)
(*                    behind it, a paid item its proof                      *)
(*   Transfers        PassedInv: what is on the way out was passed          *)
(*   StatusApi        ApiInv: a transaction sees what is stored but for     *)
(*                    the rows others changed, and it changes only rows it  *)
(*                    holds, as it saw them                                 *)
(*   Partners         Accounts: types only, the steps themselves show it;   *)
(*                    AddressInv: types and nobody's data, and what the     *)
(*                    migration does, order by order                        *)
(*   CustomerRfq      QuoteInv: the order exists when its quote says so,    *)
(*                    and its whole rows add up to it                       *)
(*   DocSeries        DocsInv: each number has its counter behind it, each  *)
(*                    number before a counter is out, and a duplicate has   *)
(*                    two counters; what the repair does, record by record  *)
(*   Assets           BooksInv: a board adds up (or goes by an ending date  *)
(*                    and is all booked), an entry is its lines, and an     *)
(*                    active asset has a posted bill; what a new board, an  *)
(*                    entry and the cron do to the sums                     *)
(***************************************************************************)
EXTENDS Payments, Transfers, StatusApi, Partners, CustomerRfq,
        DocSeries, Assets, CountingUp, SequenceTheorems, FiniteSetTheorems, TLAPS

(***************************************************************************)
(* Payments                                                                *)
(***************************************************************************)
USE PaymentsAssumption

\* Every message of a payment has the money behind it, every paid line its proof.
PaidInv ==
  /\ PaymentsTypeOK /\ proof \in [Item -> Int]
  /\ \A n \in news : n.says = "done" => n.of \in money
  /\ \A i \in Item : item[i] = "payment_completed" => proof[i] # Unproven
  /\ PaidIsProven

\* A set of numbers up to N has its largest among them.
LEMMA MaxIn ==
    ASSUME NEW N \in Nat, NEW S \in SUBSET (1..N), S # {}
    PROVE  Max(S) \in S
<1> DEFINE I == {n \in Nat : \A x \in S : x <= n}
<1>1. N \in I
  OBVIOUS
<1>2. PICK n \in I : \A j \in I : n <= j
  BY <1>1, LeastOf
<1>3. n \in S
  <2>1. SUFFICES ASSUME n \notin S PROVE FALSE
    OBVIOUS
  <2>2. \A x \in S : x <= n - 1
    BY <1>2, <2>1
  <2>3. n # 0
    <3>1. PICK x \in S : TRUE
      OBVIOUS
    <3>2. x <= n /\ x >= 1
      BY <1>2
    <3> QED  BY <1>2, <3>2
  <2>4. n - 1 \in I
    BY <2>2, <2>3, <1>2
  <2> QED  BY <1>2, <2>4
<1>4. \E x \in S : \A y \in S : x >= y
  BY <1>2, <1>3
<1> QED  BY <1>4 DEF Max

\* The last of the transactions of a kind is one of them.
LEMMA LatestIn ==
    ASSUME PaymentsTypeOK, NEW S \in SUBSET DOMAIN tx, NEW t \in Latest(S)
    PROVE  t \in S
<1>1. Len(tx) \in Nat /\ DOMAIN tx = 1..Len(tx)
  BY DEF PaymentsTypeOK
<1>2. S # {} => Max(S) \in S
  BY <1>1, MaxIn
<1> QED  BY <1>2 DEF Latest

\* Paying what is due with a proof that is good keeps the invariant.
LEMMA FlipPaid ==
    ASSUME PaidInv, NEW by \in {ByUtr} \union DOMAIN tx, by \in DOMAIN tx => by \in money,
           Flip(by)
    PROVE  /\ item' \in [Item -> ItemStatus] /\ proof' \in [Item -> Int]
           /\ \A i \in Item : proof'[i] \in {Unproven, ByHand, ByUtr} \union DOMAIN tx
           /\ \A i \in Item : item'[i] = "payment_completed" => proof'[i] # Unproven
           /\ \A i \in Item : proof'[i] \in DOMAIN tx => proof'[i] \in money
<1>1. DOMAIN tx \subseteq Nat \ {0}
  BY DEF PaidInv, PaymentsTypeOK
<1>2. by \in Int /\ by # Unproven
  BY <1>1 DEF ByUtr, Unproven
<1> QED  BY <1>2 DEF Flip, PaidInv, PaymentsTypeOK, PaidIsProven, ItemStatus

\* A transaction that changes its state, to done only when it is paid, keeps it.
LEMMA BecomePaid ==
    ASSUME PaidInv, NEW t \in DOMAIN tx, NEW target \in {"done", "pending", "cancel", "error"},
           target = "done" => t \in money, Become(t, target)
    PROVE  /\ tx' \in Seq([provider : {"payu", "stripe"}, state : TxState])
           /\ Len(tx') = Len(tx) /\ DOMAIN tx' = DOMAIN tx
           /\ \A u \in DOMAIN tx' : tx'[u].state = "done" => u \in money
<1>1. tx \in Seq([provider : {"payu", "stripe"}, state : TxState])
  BY DEF PaidInv, PaymentsTypeOK
<1>2. target \in TxState
  BY DEF TxState
<1>3. \A u \in DOMAIN tx : tx[u].state = "done" => u \in money
  BY DEF PaidInv, PaidIsProven
<1>4. CASE tx' = tx
  BY <1>1, <1>3, <1>4
<1>5. CASE tx' = [tx EXCEPT ![t].state = target]
  <2>1. tx[t] \in [provider : {"payu", "stripe"}, state : TxState]
    <3> DEFINE R == [provider : {"payu", "stripe"}, state : TxState]
    <3>1. tx \in Seq(R)
      BY <1>1
    <3> HIDE DEF R
    <3>2. tx[t] \in R
      BY ONLY <3>1, t \in DOMAIN tx
    <3> QED  BY <3>2 DEF R
  <2>2. [tx[t] EXCEPT !.state = target] \in [provider : {"payu", "stripe"}, state : TxState]
    BY <2>1, <1>2
  <2>3. tx' = [tx EXCEPT ![t] = [tx[t] EXCEPT !.state = target]]
    BY <1>5
  <2>4. /\ tx' \in Seq([provider : {"payu", "stripe"}, state : TxState])
        /\ Len(tx') = Len(tx) /\ DOMAIN tx' = DOMAIN tx
    BY <1>1, <2>2, <2>3
  <2>5. \A u \in DOMAIN tx : tx'[u].state = IF u = t THEN target ELSE tx[u].state
    BY <2>1, <2>3
  <2> QED  BY <1>3, <2>4, <2>5
<1> QED  BY <1>4, <1>5 DEF Become

\* What a step must give when it leaves the transactions and messages alone.
LEMMA LinesPaid ==
    ASSUME PaidInv, UNCHANGED <<sold, order, link, tx, forms, money, news>>,
           /\ item' \in [Item -> ItemStatus] /\ proof' \in [Item -> Int]
           /\ \A i \in Item : proof'[i] \in {Unproven, ByHand, ByUtr} \union DOMAIN tx
           /\ \A i \in Item : item'[i] = "payment_completed" => proof'[i] # Unproven
           /\ \A i \in Item : proof'[i] \in DOMAIN tx => proof'[i] \in money
    PROVE  PaidInv'
BY DEF PaidInv, PaymentsTypeOK, PaidIsProven

\* Every step, one case for each kind of them.
LEMMA StepPaid == ASSUME PaidInv, [PaymentsNext]_payment_vars PROVE PaidInv'
<1> USE DEF payment_vars
<1>0. /\ DOMAIN tx = 1..Len(tx) /\ Len(tx) \in Nat
      /\ DOMAIN tx \subseteq Nat \ {0} /\ forms \subseteq DOMAIN tx /\ money \subseteq DOMAIN tx
      /\ news \subseteq [of : forms, says : {"done"} \union Refusals]
      /\ PaymentsTypeOK
  BY DEF PaidInv, PaymentsTypeOK
<1>1. ASSUME NEW i \in Item, NEW s \in Entered, Enter(i, s) PROVE PaidInv'
  <2>1. ByHand \in Int /\ Unproven \in Int /\ ByHand # Unproven
        /\ ByHand \notin DOMAIN tx /\ Unproven \notin DOMAIN tx
    BY <1>0 DEF ByHand, Unproven
  <2>2. s \in ItemStatus
    OBVIOUS
  <2>3. /\ item' \in [Item -> ItemStatus] /\ proof' \in [Item -> Int]
        /\ \A k \in Item : proof'[k] = IF k = i
             THEN IF s = "payment_completed" THEN ByHand ELSE Unproven ELSE proof[k]
        /\ \A k \in Item : item'[k] = IF k = i THEN s ELSE item[k]
    BY <1>1, <2>1, <2>2 DEF Enter, PaidInv, PaymentsTypeOK
  <2>4. /\ \A k \in Item : proof'[k] \in {Unproven, ByHand, ByUtr} \union DOMAIN tx
        /\ \A k \in Item : item'[k] = "payment_completed" => proof'[k] # Unproven
        /\ \A k \in Item : proof'[k] \in DOMAIN tx => proof'[k] \in money
    BY <2>1, <2>3 DEF PaidInv, PaymentsTypeOK, PaidIsProven
  <2> QED  BY <1>1, <2>3, <2>4, LinesPaid DEF Enter
<1>2. CASE \/ Proceed \/ BackToDraft \/ ConfirmOffline \/ CancelOrder
           \/ UNCHANGED payment_vars
  BY <1>2 DEF Proceed, BackToDraft, ConfirmOffline, CancelOrder, PaidInv, PaymentsTypeOK,
              PaidIsProven
<1>3. CASE BankTransfer
  <2>1. ByUtr \notin DOMAIN tx
    BY <1>0 DEF ByUtr
  <2> QED  BY <1>3, <2>1, FlipPaid, LinesPaid DEF BankTransfer
<1>4. ASSUME NEW p \in {"payu", "stripe"}, NewLink(p) PROVE PaidInv'
  <2> DEFINE new == [provider |-> p, state |-> "draft"]
  <2>1. new \in [provider : {"payu", "stripe"}, state : TxState]
    BY DEF TxState
  <2>2. tx' = Append(tx, new) /\ link' = Len(tx) + 1 /\ Len(tx) < MaxLinks
        /\ UNCHANGED <<item, proof, sold, order, forms, money, news>>
    BY <1>4 DEF NewLink
  <2> HIDE DEF new
  <2>3. tx \in Seq([provider : {"payu", "stripe"}, state : TxState])
    BY DEF PaidInv, PaymentsTypeOK
  <2>4. /\ tx' \in Seq([provider : {"payu", "stripe"}, state : TxState])
        /\ Len(tx') = Len(tx) + 1 /\ DOMAIN tx' = 1..(Len(tx) + 1)
        /\ \A t \in DOMAIN tx : tx'[t] = tx[t]
        /\ tx'[Len(tx) + 1] = new
    BY <2>1, <2>2, <2>3
  <2>5. new.state = "draft"
    BY DEF new
  <2>6. \A t \in DOMAIN tx' : t \in DOMAIN tx \/ t = Len(tx) + 1
    BY <1>0, <2>4
  <2>7. PaidIsProven'
    <3>1. \A t \in DOMAIN tx' : tx'[t].state = "done" => t \in money'
      BY <2>2, <2>4, <2>5, <2>6 DEF PaidInv, PaidIsProven
    <3>2. \A i \in Item : proof'[i] \in DOMAIN tx
                           \/ proof'[i] \notin DOMAIN tx'
      <4>1. Len(tx) + 1 \notin {Unproven, ByHand, ByUtr}
        BY <1>0 DEF Unproven, ByHand, ByUtr
      <4>2. \A i \in Item : proof[i] \in {Unproven, ByHand, ByUtr} \union DOMAIN tx
        BY <1>0 DEF PaymentsTypeOK
      <4>3. Len(tx) + 1 \notin DOMAIN tx
        BY <1>0
      <4> QED  BY <2>2, <2>6, <4>1, <4>2, <4>3
    <3> QED  BY <2>2, <3>1, <3>2 DEF PaidInv, PaidIsProven
  <2>8. PaymentsTypeOK'
    <3>1. DOMAIN tx \subseteq DOMAIN tx'
      BY <1>0, <2>4
    <3>2. Len(tx') <= MaxLinks /\ link' \in 0..Len(tx')
      <4>1. MaxLinks \in Nat
        OBVIOUS
      <4>2. Len(tx) \in Nat /\ Len(tx) < MaxLinks
        BY <1>0, <2>2
      <4>3. Len(tx) + 1 <= MaxLinks /\ Len(tx) + 1 \in 0..(Len(tx) + 1)
        BY ONLY <4>1, <4>2
      <4> QED  BY <2>2, <2>4, <4>3
    <3> QED  BY <1>0, <2>2, <2>4, <3>1, <3>2 DEF PaymentsTypeOK
  <2> QED  BY <2>2, <2>7, <2>8 DEF PaidInv
<1>5. CASE PayuInitiate
  <2>1. OpenOnes("payu") \in SUBSET DOMAIN tx
    BY DEF OpenOnes
  <2>2. PICK t \in Latest(OpenOnes("payu")) : forms' = forms \union {t}
    BY <1>5 DEF PayuInitiate
  <2>3. t \in DOMAIN tx
    BY <1>0, <2>1, <2>2, LatestIn
  <2>4. UNCHANGED <<item, proof, sold, order, link, tx, money, news>>
    BY <1>5 DEF PayuInitiate
  <2> QED  BY <1>0, <2>2, <2>3, <2>4 DEF PaidInv, PaymentsTypeOK, PaidIsProven
<1>6. ASSUME NEW t \in forms, PayuTakes(t) PROVE PaidInv'
  BY <1>0, <1>6 DEF PayuTakes, PaidInv, PaymentsTypeOK, PaidIsProven
<1>7. ASSUME NEW t \in forms, NEW s \in Refusals, PayuRefuses(t, s) PROVE PaidInv'
  BY <1>0, <1>7 DEF PayuRefuses, PaidInv, PaymentsTypeOK, PaidIsProven
<1>8. ASSUME NEW t \in DOMAIN tx, StripeTakes(t) PROVE PaidInv'
  BY <1>0, <1>8 DEF StripeTakes, PaidInv, PaymentsTypeOK, PaidIsProven
<1>9. ASSUME NEW t \in DOMAIN tx, t \in money, SetDone(t),
             UNCHANGED <<sold, order, link, forms, money, news>>
      PROVE PaidInv'
  <2>1. /\ tx' \in Seq([provider : {"payu", "stripe"}, state : TxState])
        /\ Len(tx') = Len(tx) /\ DOMAIN tx' = DOMAIN tx
        /\ \A u \in DOMAIN tx' : tx'[u].state = "done" => u \in money
    BY <1>9, BecomePaid DEF SetDone
  <2>2. /\ item' \in [Item -> ItemStatus] /\ proof' \in [Item -> Int]
        /\ \A i \in Item : proof'[i] \in {Unproven, ByHand, ByUtr} \union DOMAIN tx
        /\ \A i \in Item : item'[i] = "payment_completed" => proof'[i] # Unproven
        /\ \A i \in Item : proof'[i] \in DOMAIN tx => proof'[i] \in money
    BY <1>9, FlipPaid DEF SetDone
  <2> QED  BY <1>0, <1>9, <2>1, <2>2 DEF PaidInv, PaymentsTypeOK, PaidIsProven
<1>10. ASSUME NEW t \in DOMAIN tx, NEW target \in {"pending", "cancel", "error"},
              Become(t, target), UNCHANGED <<item, proof, sold, order, link, forms, money, news>>
       PROVE PaidInv'
  <2>1. /\ tx' \in Seq([provider : {"payu", "stripe"}, state : TxState])
        /\ Len(tx') = Len(tx) /\ DOMAIN tx' = DOMAIN tx
        /\ \A u \in DOMAIN tx' : tx'[u].state = "done" => u \in money
    BY <1>10, BecomePaid
  <2> QED  BY <1>0, <1>10, <2>1 DEF PaidInv, PaymentsTypeOK, PaidIsProven
<1>11. ASSUME NEW n \in news, PayuWebhook(n) PROVE PaidInv'
  <2>1. n.of \in DOMAIN tx /\ n.says \in {"done"} \union Refusals
    BY <1>0
  <2>2. CASE n.says = "done"
    <3>1. n.of \in money
      BY <2>2 DEF PaidInv
    <3> QED  BY <1>9, <1>11, <2>1, <2>2, <3>1 DEF PayuWebhook
  <2>3. CASE n.says # "done"
    <3>1. n.says \in {"pending", "cancel", "error"}
      BY <2>1, <2>3
    <3> QED  BY <1>10, <1>11, <2>1, <2>3, <3>1 DEF PayuWebhook
  <2> QED  BY <2>2, <2>3
<1>12. CASE StripeReturn
  <2> DEFINE S == {u \in DOMAIN tx : tx[u].provider = "stripe"}
  <2>1. PICK t \in Latest(S) : ConfirmPaid(t) /\ SetDone(t)
    BY <1>12 DEF StripeReturn
  <2>2. S \in SUBSET DOMAIN tx
    OBVIOUS
  <2> HIDE DEF S
  <2>3. t \in DOMAIN tx /\ t \in money
    BY <1>0, <2>1, <2>2, LatestIn DEF ConfirmPaid
  <2> QED  BY <1>9, <1>12, <2>1, <2>3 DEF StripeReturn
<1>13. CASE StripeCancel
  <2>1. OpenOnes("stripe") \in SUBSET DOMAIN tx
    BY DEF OpenOnes
  <2>2. PICK t \in Latest(OpenOnes("stripe")) : Become(t, "cancel")
    BY <1>13 DEF StripeCancel
  <2>3. t \in DOMAIN tx
    BY <1>0, <2>1, <2>2, LatestIn
  <2> QED  BY <1>10, <1>13, <2>2, <2>3 DEF StripeCancel
<1> QED  BY <1>1, <1>2, <1>3, <1>4, <1>5, <1>6, <1>7, <1>8, <1>11, <1>12, <1>13
         DEF PaymentsNext, SendPayuLink, SendStripeLink

\* An order whose lines show it as paid has no line that still waits.
LEMMA ShownPaid == ASSUME PaidInv PROVE ShownPaidIsPaid
<1> DEFINE has == {item[i] : i \in Item}
<1>1. ASSUME StatusShown = "Payment Completed"
      PROVE  has \ SettledIgnores \subseteq {"payment_completed"}
  BY <1>1 DEF StatusShown
<1>2. ASSUME StatusShown = "Payment Completed", NEW i \in Item
      PROVE  item[i] \notin {"payment_pending", "in_qc_process"}
  BY <1>1, <1>2 DEF SettledIgnores
<1> QED  BY <1>2 DEF ShownPaidIsPaid, PaidInv

\* A line is paid through a link only with the money of that transaction, and the
\* order is shown as paid only when no line awaits payment or its QC: for every
\* number of lines and links, whatever messages come late, twice or never.
THEOREM PaidIsPaid == PaymentsSpec => []PaidMeansPaid
<1>1. PaymentsInit => PaidInv
  <2>1. SUFFICES ASSUME PaymentsInit PROVE PaidInv
    OBVIOUS
  <2>2. tx = <<>> /\ DOMAIN tx = {} /\ Len(tx) = 0
    BY <2>1 DEF PaymentsInit
  <2>3. /\ item = [i \in Item |-> "diamond_booked"] /\ proof = [i \in Item |-> Unproven]
        /\ sold = FALSE /\ order = "draft" /\ link = 0
        /\ forms = {} /\ money = {} /\ news = {}
    BY <2>1 DEF PaymentsInit
  <2>4. 0 <= MaxLinks /\ "diamond_booked" \in ItemStatus
    BY DEF ItemStatus
  <2>5. tx \in Seq([provider : {"payu", "stripe"}, state : TxState])
    BY <2>2
  <2>6. /\ item \in [Item -> ItemStatus] /\ link \in 0..Len(tx) /\ Len(tx) <= MaxLinks
        /\ \A i \in Item : proof[i] \in {Unproven, ByHand, ByUtr} \union DOMAIN tx
    BY <2>2, <2>3, <2>4
  <2>7. PaymentsTypeOK
    BY <2>2, <2>3, <2>5, <2>6 DEF PaymentsTypeOK
  <2> QED  BY <2>2, <2>3, <2>7 DEF PaidInv, PaidIsProven, Unproven
<1>2. PaidInv => PaidMeansPaid
  BY ShownPaid DEF PaidInv, PaidMeansPaid
<1> QED  BY <1>1, <1>2, StepPaid, PTL DEF PaymentsSpec

HIDE PaymentsAssumption

(***************************************************************************)
(* Transfers                                                               *)
(***************************************************************************)
USE TransfersAssumption

\* What comes in has no verdict, what reads In QC waits for it, and what is on the
\* way out was passed; when it is packed it is paid, too.
PassedInv ==
  /\ TransfersTypeOK
  /\ \A l \in due : l \notin inspect /\ verdict[l] = "none"
  /\ \A l \in Gem : avail[l] = "diamond_booked" => l \notin inspect /\ verdict[l] = "none"
  /\ \A l \in Gem : avail[l] = "in_qc_process" => l \in inspect /\ verdict[l] = "none"
  /\ \A l \in toStage : verdict[l] = "pass"
  /\ \A d \in DeliveryIds : \A l \in deliveries[d].moves : verdict[l] = "pass"
  /\ \A d \in DeliveryIds : deliveries[d].state = "pack" =>
       \A l \in deliveries[d].moves : avail[l] \notin Behind
  /\ OnlyInspectedLeave /\ FailedIsOver /\ PaidBeforeLeaving

\* The statuses may go on as long as nothing falls behind and nothing is revived.
Onwards ==
  \A l \in Gem : \/ avail'[l] = avail[l]
                 \/ /\ avail'[l] \notin Behind
                    /\ avail[l] \in Gone => avail'[l] \in Gone

\* No delivery gets a stone that was not passed, and none is packed unpaid.
LoadsKept ==
  \A d \in DeliveryIds :
    /\ \A l \in deliveries'[d].moves : verdict[l] = "pass"
    /\ deliveries'[d].state = "pack" =>
         \A l \in deliveries'[d].moves : avail'[l] \notin Behind

\* Statuses that are written while all goods stay.
LEMMA StatusesMove ==
    ASSUME PassedInv, TransfersTypeOK', Onwards, LoadsKept, UNCHANGED warehouse_vars
    PROVE  PassedInv'
BY DEF PassedInv, Onwards, LoadsKept, warehouse_vars, TransfersTypeOK, OnlyInspectedLeave,
       FailedIsOver, PaidBeforeLeaving, Behind

\* Writing a status that is not behind on lines that are not dead is going on.
LEMMA WriteOnwards ==
    ASSUME PassedInv, NEW Old, NEW to \in Availabilities, to \notin Behind,
           Old \intersect Gone = {}, avail' = Write(avail, Old, to)
    PROVE  Onwards /\ avail' \in [Gem -> Availabilities]
BY DEF PassedInv, TransfersTypeOK, Write, Onwards

\* The steps of a delivery that is out change no load.
LEMMA Loads ==
    ASSUME PassedInv, Onwards, NEW d \in DeliveryIds, NEW rec \in Delivery,
           deliveries' = [deliveries EXCEPT ![d] = rec],
           rec.moves = deliveries[d].moves, rec.state \in {deliveries[d].state, "done"}
    PROVE  LoadsKept /\ deliveries' \in [DeliveryIds -> Delivery]
<1>1. \A e \in DeliveryIds : deliveries'[e] = IF e = d THEN rec ELSE deliveries[e]
  BY DEF PassedInv, TransfersTypeOK
<1>2. deliveries' \in [DeliveryIds -> Delivery]
  BY DEF PassedInv, TransfersTypeOK
<1>3. \A e \in DeliveryIds : /\ deliveries'[e].moves = deliveries[e].moves
                             /\ deliveries'[e].state \in {deliveries[e].state, "done"}
  BY <1>1
<1>4. \A e \in DeliveryIds : deliveries[e].moves \subseteq Gem
  BY DEF PassedInv, TransfersTypeOK, Delivery
<1>5. \A l \in Gem : avail[l] \notin Behind => avail'[l] \notin Behind
  BY DEF Onwards
<1> QED  BY <1>2, <1>3, <1>4, <1>5 DEF LoadsKept, PassedInv

\* The buttons of a delivery that is out: one field of it, and a status.
LEMMA ButtonPassed ==
    ASSUME PassedInv, NEW d \in DeliveryIds, NEW rec \in Delivery,
           deliveries' = [deliveries EXCEPT ![d] = rec],
           rec.moves = deliveries[d].moves, rec.state = deliveries[d].state,
           Onwards, avail' \in [Gem -> Availabilities],
           UNCHANGED <<warehouse_vars, cancelledSo>>
    PROVE  PassedInv'
<1>1. LoadsKept /\ deliveries' \in [DeliveryIds -> Delivery]
  BY Loads
<1>2. TransfersTypeOK'
  BY <1>1 DEF PassedInv, TransfersTypeOK, warehouse_vars
<1> QED  BY <1>1, <1>2, StatusesMove

\* A receipt: what reads In QC now goes on the QC transfer, without a verdict.
LEMMA ReceivePassed ==
    ASSUME PassedInv, NEW v \in Vendor, NEW S \in SUBSET Gem, Receive(v, S)
    PROVE  PassedInv'
<1>1. /\ S \subseteq due
      /\ avail' = [l \in Gem |-> IF l \in S /\ avail[l] \notin Settled
                                 THEN "in_qc_process" ELSE avail[l]]
      /\ inspect' = inspect \union {l \in S : avail'[l] = "in_qc_process"}
      /\ due' = due \ S
      /\ place' = [l \in Gem |-> IF l \in S THEN "qc" ELSE place[l]]
      /\ UNCHANGED <<verdict, toStage, deliveries, cancelledSo>>
  BY DEF Receive, Queued, Put
<1>2. /\ TransfersTypeOK /\ due \subseteq Gem
      /\ \A l \in S : verdict[l] = "none" /\ l \notin inspect
  BY <1>1 DEF PassedInv, TransfersTypeOK
<1>3. avail' \in [Gem -> Availabilities]
  BY <1>1, <1>2 DEF TransfersTypeOK, Availabilities, Behind
<1>4. TransfersTypeOK'
  BY <1>1, <1>2, <1>3 DEF TransfersTypeOK
<1>5. \A l \in Gem : avail'[l] = IF l \in S /\ avail[l] \notin Settled
                                 THEN "in_qc_process" ELSE avail[l]
  BY <1>1
<1>6. \A l \in Gem : avail'[l] = "diamond_booked" => avail[l] = "diamond_booked" /\ l \notin S
  BY <1>5 DEF Settled, WithCourier
<1>7. \A l \in Gem : avail'[l] = "in_qc_process" => l \in inspect' /\ verdict'[l] = "none"
  BY <1>1, <1>2, <1>5 DEF PassedInv
<1>8. \A l \in Gem : verdict[l] = "pass" \/ verdict[l] = "fail" => avail'[l] = avail[l]
  BY <1>2, <1>5
<1>9. \A d \in DeliveryIds : deliveries[d].moves \subseteq Gem
  BY <1>2 DEF TransfersTypeOK, Delivery
<1>10. \A d \in DeliveryIds : deliveries'[d].state = "pack" =>
         \A l \in deliveries'[d].moves : avail'[l] \notin Behind
  BY <1>1, <1>8, <1>9 DEF PassedInv
<1>11. OnlyInspectedLeave' /\ FailedIsOver' /\ PaidBeforeLeaving'
  BY <1>1, <1>2, <1>8 DEF PassedInv, OnlyInspectedLeave, FailedIsOver, PaidBeforeLeaving
<1>12. \A l \in due' : l \notin inspect' /\ verdict'[l] = "none"
  BY <1>1, <1>2 DEF PassedInv
<1>13. \A l \in Gem : avail'[l] = "diamond_booked" => l \notin inspect' /\ verdict'[l] = "none"
  BY <1>1, <1>6 DEF PassedInv
<1> QED  BY <1>1, <1>4, <1>7, <1>10, <1>11, <1>12, <1>13 DEF PassedInv

\* A verdict is given once, on a stone that is on no transfer behind the inspection.
LEMMA DecidePassed ==
    ASSUME PassedInv, NEW l \in Gem, Pass(l) \/ Fail(l)
    PROVE  PassedInv'
<1>1. PICK v \in {"pass", "fail"}, to \in {"payment_pending", "qc_fail"} :
         Decide(l, v, to) /\ (v = "fail" => to = "qc_fail")
  BY DEF Pass, Fail
<1>2. /\ l \in inspect /\ verdict[l] = "none"
      /\ UNCHANGED <<place, due, inspect, toStage, deliveries, cancelledSo>>
      /\ TransfersTypeOK
  BY <1>1 DEF Decide, PassedInv
<1>3. /\ \A k \in Gem : verdict'[k] = IF k = l THEN v ELSE verdict[k]
      /\ \A k \in Gem : avail'[k] = IF k = l THEN to ELSE avail[k]
      /\ TransfersTypeOK'
  BY <1>1, <1>2 DEF Decide, TransfersTypeOK, Availabilities, Behind, Gone
<1>4. /\ l \notin due /\ l \notin toStage
      /\ \A d \in DeliveryIds : l \notin deliveries[d].moves
      /\ place[l] \notin {"inventory", "staging", "customer"}
  BY <1>2 DEF PassedInv, OnlyInspectedLeave
<1>5. due \subseteq Gem /\ toStage \subseteq Gem
      /\ \A d \in DeliveryIds : deliveries[d].moves \subseteq Gem
  BY <1>2 DEF TransfersTypeOK, Delivery
<1>6. OnlyInspectedLeave' /\ PaidBeforeLeaving'
  BY <1>2, <1>3, <1>4 DEF PassedInv, OnlyInspectedLeave, PaidBeforeLeaving
<1>7. FailedIsOver'
  BY <1>1, <1>3 DEF PassedInv, FailedIsOver, Gone
<1>8. /\ \A d \in DeliveryIds : \A k \in deliveries[d].moves :
           verdict'[k] = verdict[k] /\ avail'[k] = avail[k]
      /\ \A k \in due \union toStage : verdict'[k] = verdict[k]
  BY <1>3, <1>4, <1>5
<1>9. \A k \in Gem : avail'[k] \in {"diamond_booked", "in_qc_process"} =>
        avail[k] = avail'[k] /\ verdict'[k] = verdict[k]
  BY <1>3
<1> QED  BY <1>2, <1>3, <1>6, <1>7, <1>8, <1>9 DEF PassedInv

\* The QC transfer is done: passed stones go on, failed lines are cancelled, and with the
\* last of them the order.
LEMMA ValidatePassed ==
    ASSUME PassedInv, NEW asks \in BOOLEAN, ValidateQc(asks)
    PROVE  PassedInv'
<1> DEFINE failed == {l \in inspect : verdict[l] = "fail"}
           after == IF failed # {} THEN Write(avail, {"qc_fail"}, "cancelled") ELSE avail
           over == failed # {} /\ \A l \in Gem : after[l] \in {"cancelled", "replaced"}
           stopped == over /\ ~asks /\ ~cancelledSo
           on == Passed(inspect)
<1>1. /\ \A l \in inspect : verdict[l] # "none"
      /\ avail' = after /\ inspect' = {} /\ UNCHANGED <<due, verdict>>
  BY DEF ValidateQc
<1>2. /\ TransfersTypeOK
      /\ \A d \in DeliveryIds : deliveries[d].moves \subseteq Gem
  BY DEF PassedInv, TransfersTypeOK, Delivery
<1>3. /\ avail' \in [Gem -> Availabilities]
      /\ \A l \in Gem : \/ avail'[l] = avail[l]
                        \/ avail[l] = "qc_fail" /\ avail'[l] = "cancelled"
  BY <1>1, <1>2 DEF TransfersTypeOK, Write, Availabilities, Gone
<1>4. "cancelled" \notin Behind /\ {"qc_fail", "cancelled"} \subseteq Gone
  BY DEF Behind, Gone
<1>5. FailedIsOver'
  BY <1>1, <1>3, <1>4 DEF PassedInv, FailedIsOver
<1>6. /\ \A l \in due' : l \notin inspect' /\ verdict'[l] = "none"
      /\ \A l \in Gem : avail'[l] = "diamond_booked" => l \notin inspect' /\ verdict'[l] = "none"
      /\ \A l \in Gem : avail'[l] = "in_qc_process" => l \in inspect' /\ verdict'[l] = "none"
  BY <1>1, <1>3 DEF PassedInv
<1>7. \A l \in Gem : avail[l] \notin Behind => avail'[l] \notin Behind
  BY <1>3, <1>4
<1>8. CASE stopped
  <2>1. /\ place' = place /\ toStage' = {} /\ cancelledSo' = TRUE
        /\ deliveries' = [d \in DeliveryIds |-> IF deliveries[d].state = "done"
                                                THEN deliveries[d] ELSE Unused]
    BY <1>8 DEF ValidateQc
  <2>2. Unused \in Delivery /\ Unused.moves = {} /\ Unused.state = "none"
    BY DEF Unused, Delivery
  <2>3. TransfersTypeOK'
    BY <1>1, <1>2, <1>3, <2>1, <2>2 DEF TransfersTypeOK
  <2>4. \A d \in DeliveryIds :
          \/ deliveries'[d] = deliveries[d]
          \/ deliveries'[d].moves = {} /\ deliveries'[d].state = "none"
    BY <2>1, <2>2
  <2>5. OnlyInspectedLeave' /\ PaidBeforeLeaving'
    BY <1>1, <1>7, <2>1 DEF PassedInv, OnlyInspectedLeave, PaidBeforeLeaving
  <2>6. \A d \in DeliveryIds :
          /\ \A l \in deliveries'[d].moves : verdict'[l] = "pass"
          /\ deliveries'[d].state = "pack" =>
               \A l \in deliveries'[d].moves : avail'[l] \notin Behind
    BY <1>1, <1>2, <1>7, <2>4 DEF PassedInv
  <2> QED  BY <1>5, <1>6, <2>1, <2>3, <2>5, <2>6 DEF PassedInv
<1>9. CASE ~stopped
  <2>1. /\ place' = [l \in Gem |-> CASE l \in on -> "inventory"
                                     [] l \in inspect \ on -> "vendor"
                                     [] OTHER -> place[l]]
        /\ toStage' = toStage \union on
        /\ UNCHANGED <<cancelledSo, deliveries>>
    BY <1>9 DEF ValidateQc
  <2>2. on \subseteq Gem /\ \A l \in on : verdict[l] = "pass"
    BY <1>2 DEF Passed, TransfersTypeOK
  <2> HIDE DEF on, stopped, over, after, failed
  <2>3. \A l \in Gem : place'[l] = IF l \in on THEN "inventory"
                                   ELSE IF l \in inspect THEN "vendor" ELSE place[l]
    BY <2>1
  <2>4. TransfersTypeOK'
    BY <1>1, <1>2, <1>3, <2>1, <2>2, <2>3 DEF TransfersTypeOK
  <2>5. OnlyInspectedLeave' /\ PaidBeforeLeaving'
    BY <1>1, <1>7, <2>2, <2>3 DEF PassedInv, OnlyInspectedLeave, PaidBeforeLeaving
  <2>6. \A d \in DeliveryIds :
          /\ \A l \in deliveries'[d].moves : verdict'[l] = "pass"
          /\ deliveries'[d].state = "pack" =>
               \A l \in deliveries'[d].moves : avail'[l] \notin Behind
    BY <1>1, <1>2, <1>7, <2>1 DEF PassedInv
  <2>7. \A l \in toStage' : verdict'[l] = "pass"
    BY <1>1, <2>1, <2>2 DEF PassedInv
  <2> QED  BY <1>5, <1>6, <2>4, <2>5, <2>6, <2>7 DEF PassedInv
<1> QED  BY <1>8, <1>9

\* What was passed joins a delivery that is not packed.
LEMMA StagePassed == ASSUME PassedInv, Stage PROVE PassedInv'
<1>1. PICK d \in DeliveryIds :
        /\ deliveries[d].state \in {"assigned", "none"}
        /\ deliveries' = [deliveries EXCEPT ![d].moves = @ \union toStage,
                                            ![d].state = "assigned"]
  BY DEF Stage, Routed
<1>2. /\ toStage' = {} /\ UNCHANGED <<avail, due, inspect, verdict, cancelledSo>>
      /\ \A l \in Gem : place'[l] = IF l \in toStage THEN "staging" ELSE place[l]
      /\ place' = [l \in Gem |-> IF l \in toStage THEN "staging" ELSE place[l]]
  BY DEF Stage, Put
<1>3. TransfersTypeOK /\ toStage \subseteq Gem /\ deliveries[d] \in Delivery
  BY DEF PassedInv, TransfersTypeOK
<1>4. /\ \A e \in DeliveryIds : e # d => deliveries'[e] = deliveries[e]
      /\ deliveries'[d].moves = deliveries[d].moves \union toStage
      /\ deliveries'[d].state = "assigned"
      /\ deliveries' \in [DeliveryIds -> Delivery]
  BY <1>1, <1>3 DEF TransfersTypeOK, Delivery
<1>5. TransfersTypeOK'
  BY <1>2, <1>3, <1>4 DEF TransfersTypeOK
<1>6. \A e \in DeliveryIds :
        /\ \A l \in deliveries'[e].moves : verdict'[l] = "pass"
        /\ deliveries'[e].state = "pack" =>
             \A l \in deliveries'[e].moves : avail'[l] \notin Behind
  BY <1>2, <1>4 DEF PassedInv
<1>7. OnlyInspectedLeave' /\ PaidBeforeLeaving' /\ FailedIsOver'
  BY <1>2, <1>3 DEF PassedInv, OnlyInspectedLeave, PaidBeforeLeaving, FailedIsOver
<1> QED  BY <1>2, <1>5, <1>6, <1>7 DEF PassedInv

\* Packing pays what is behind, and revives nothing.
LEMMA PackPassed ==
    ASSUME PassedInv, NEW d \in DeliveryIds, PackDelivery(d)
    PROVE  PassedInv'
<1>1. /\ deliveries' = [deliveries EXCEPT ![d].state = "pack"]
      /\ avail' = Write(avail, Behind, "payment_completed")
      /\ UNCHANGED <<warehouse_vars, cancelledSo>>
  BY DEF PackDelivery, Following
<1>2. "payment_completed" \in Availabilities /\ "payment_completed" \notin Behind
      /\ Behind \intersect Gone = {}
  BY DEF Availabilities, Behind, Gone
<1>3. Onwards /\ avail' \in [Gem -> Availabilities]
  BY <1>1, <1>2, WriteOnwards
<1>4. TransfersTypeOK
  BY DEF PassedInv
<1>5. \A l \in Gem : avail'[l] \notin Behind
  BY <1>1, <1>2, <1>4 DEF Write, TransfersTypeOK
<1>6. /\ deliveries' \in [DeliveryIds -> Delivery]
      /\ \A e \in DeliveryIds : deliveries'[e].moves = deliveries[e].moves
      /\ \A e \in DeliveryIds : deliveries[e].moves \subseteq Gem
  BY <1>1, <1>4 DEF TransfersTypeOK, Delivery
<1>7. LoadsKept
  BY <1>5, <1>6 DEF LoadsKept, PassedInv
<1>8. TransfersTypeOK'
  BY <1>1, <1>3, <1>4, <1>6 DEF TransfersTypeOK, warehouse_vars
<1> QED  BY <1>1, <1>3, <1>7, <1>8, StatusesMove

\* A packed delivery leaves.
LEMMA LeavePassed ==
    ASSUME PassedInv, NEW d \in DeliveryIds, ValidateDelivery(d)
    PROVE  PassedInv'
<1> DEFINE S == deliveries[d].moves
           dispatched == Write(avail, {"payment_completed"}, "dispatched")
<1>1. /\ deliveries[d].state = "pack"
      /\ deliveries' = [deliveries EXCEPT ![d].state = "done"]
      /\ place' = [l \in Gem |-> IF l \in S THEN "customer" ELSE place[l]]
      /\ avail' = Swept(dispatched)
      /\ UNCHANGED <<due, inspect, verdict, toStage, cancelledSo>>
  BY DEF ValidateDelivery, MayLeave, Put
<1>2. TransfersTypeOK /\ S \subseteq Gem
  BY DEF PassedInv, TransfersTypeOK, Delivery
<1>3. /\ avail' \in [Gem -> Availabilities]
      /\ \A l \in Gem : \/ avail'[l] = avail[l]
                        \/ avail[l] = "payment_completed" /\ avail'[l] = "dispatched"
                        \/ avail[l] = "diamond_booked" /\ avail'[l] = "cancelled"
  BY <1>1, <1>2 DEF Swept, Write, TransfersTypeOK, Availabilities, Gone, WithCourier
<1>4. Onwards
  BY <1>3 DEF Onwards, Behind, Gone
<1>5. \A l \in S : verdict[l] = "pass" /\ avail[l] \notin Behind
  BY <1>1 DEF PassedInv
<1>6. deliveries' = [deliveries EXCEPT ![d] = [deliveries[d] EXCEPT !.state = "done"]]
  BY <1>1
<1>7. LoadsKept /\ deliveries' \in [DeliveryIds -> Delivery]
  <2> DEFINE rec == [deliveries[d] EXCEPT !.state = "done"]
  <2>1. deliveries[d] \in Delivery
    BY <1>2 DEF TransfersTypeOK
  <2>2. rec \in Delivery /\ rec.moves = deliveries[d].moves /\ rec.state = "done"
    BY <2>1 DEF Delivery
  <2>3. deliveries' = [deliveries EXCEPT ![d] = rec]
    BY <1>6
  <2> HIDE DEF rec
  <2> QED  BY <1>4, <2>2, <2>3, Loads
<1>8. TransfersTypeOK'
  BY <1>1, <1>2, <1>3, <1>7 DEF TransfersTypeOK
<1>9. /\ \A l \in Gem : place'[l] = IF l \in S THEN "customer" ELSE place[l]
      /\ \A l \in Gem : avail[l] \notin Behind => avail'[l] \notin Behind
  BY <1>1, <1>4 DEF Onwards
<1>10. OnlyInspectedLeave' /\ FailedIsOver' /\ PaidBeforeLeaving'
  <2>1. FailedIsOver'
    BY <1>1, <1>4 DEF Onwards, PassedInv, FailedIsOver
  <2> QED  BY <1>1, <1>5, <1>9, <2>1 DEF PassedInv, OnlyInspectedLeave, PaidBeforeLeaving
<1>11. \A l \in Gem : avail'[l] \in {"diamond_booked", "in_qc_process"} => avail'[l] = avail[l]
  BY <1>3
<1> QED  BY <1>1, <1>7, <1>8, <1>10, <1>11 DEF PassedInv, LoadsKept

\* Every step: the buttons of a delivery that is out, what happens elsewhere, and the
\* transfers.
LEMMA StepPassed == ASSUME PassedInv, [TransfersNext]_transfer_vars PROVE PassedInv'
<1> USE DEF transfer_vars
<1>0. TransfersTypeOK
  BY DEF PassedInv
<1>1. ASSUME NEW d \in DeliveryIds,
             \/ ApplyDispatch(d) \/ ApplyRedispatch(d) \/ ApplyInterrupted(d)
             \/ OpenRedispatch(d) \/ MarkDelivered(d) \/ MarkCompleted(d)
      PROVE  PassedInv'
  <2>1. deliveries[d] \in Delivery
    BY <1>0 DEF TransfersTypeOK
  <2>2. PICK rec \in Delivery : /\ deliveries' = [deliveries EXCEPT ![d] = rec]
                                /\ rec.moves = deliveries[d].moves
                                /\ rec.state = deliveries[d].state
    <3>1. PICK b \in BOOLEAN :
            \/ deliveries' = [deliveries EXCEPT ![d] = [deliveries[d] EXCEPT !.tracked = b]]
            \/ deliveries' = [deliveries EXCEPT ![d] = [deliveries[d] EXCEPT !.delivered = b]]
            \/ deliveries' = [deliveries EXCEPT ![d] = [deliveries[d] EXCEPT !.completed = b]]
      BY <1>1 DEF ApplyDispatch, ApplyRedispatch, ApplyInterrupted, OpenRedispatch,
                  MarkDelivered, MarkCompleted, TrackingSaved
    <3>2. CASE deliveries' = [deliveries EXCEPT ![d] = [deliveries[d] EXCEPT !.tracked = b]]
      <4> DEFINE rec == [deliveries[d] EXCEPT !.tracked = b]
      <4>1. /\ rec \in Delivery
            /\ rec.moves = deliveries[d].moves /\ rec.state = deliveries[d].state
        BY <2>1 DEF Delivery
      <4>2. deliveries' = [deliveries EXCEPT ![d] = rec]
        BY <3>2
      <4> HIDE DEF rec
      <4> QED  BY <4>1, <4>2
    <3>3. CASE deliveries' = [deliveries EXCEPT ![d] = [deliveries[d] EXCEPT !.delivered = b]]
      <4> DEFINE rec == [deliveries[d] EXCEPT !.delivered = b]
      <4>1. /\ rec \in Delivery
            /\ rec.moves = deliveries[d].moves /\ rec.state = deliveries[d].state
        BY <2>1 DEF Delivery
      <4>2. deliveries' = [deliveries EXCEPT ![d] = rec]
        BY <3>3
      <4> HIDE DEF rec
      <4> QED  BY <4>1, <4>2
    <3>4. CASE deliveries' = [deliveries EXCEPT ![d] = [deliveries[d] EXCEPT !.completed = b]]
      <4> DEFINE rec == [deliveries[d] EXCEPT !.completed = b]
      <4>1. /\ rec \in Delivery
            /\ rec.moves = deliveries[d].moves /\ rec.state = deliveries[d].state
        BY <2>1 DEF Delivery
      <4>2. deliveries' = [deliveries EXCEPT ![d] = rec]
        BY <3>4
      <4> HIDE DEF rec
      <4> QED  BY <4>1, <4>2
    <3> QED  BY <3>1, <3>2, <3>3, <3>4
  <2>3. /\ {"payment_completed", "delivered"} \intersect Gone = {}
        /\ WithCourier \intersect Gone = {} /\ Availabilities \ Behind # {}
        /\ {"dispatched", "re_dispatched", "return_of_order", "delivered", "order_completed"}
             \subseteq Availabilities \ Behind
    BY DEF Gone, WithCourier, Availabilities, Behind
  <2>4. /\ Onwards /\ avail' \in [Gem -> Availabilities]
        /\ UNCHANGED <<warehouse_vars, cancelledSo>>
    <3>1. CASE ApplyInterrupted(d)
      BY <1>0, <3>1 DEF ApplyInterrupted, Onwards, TransfersTypeOK
    <3>2. CASE ~ApplyInterrupted(d)
      <4>1. /\ \E Old, to : /\ avail' = Write(avail, Old, to)
                             /\ Old \intersect Gone = {}
                             /\ to \in Availabilities \ Behind
            /\ UNCHANGED <<warehouse_vars, cancelledSo>>
        BY <1>1, <2>3, <3>2 DEF ApplyDispatch, ApplyRedispatch, OpenRedispatch,
             MarkDelivered, MarkCompleted, CompletedFrom
      <4> QED  BY <4>1, WriteOnwards
    <3> QED  BY <3>1, <3>2
  <2> QED  BY <2>2, <2>4, ButtonPassed
<1>2. CASE EnterPayment
  <2>1. /\ avail' = Write(avail, {"payment_pending"}, "payment_completed")
        /\ UNCHANGED <<warehouse_vars, deliveries, cancelledSo>>
    BY <1>2 DEF EnterPayment
  <2>2. /\ "payment_completed" \in Availabilities /\ "payment_completed" \notin Behind
        /\ {"payment_pending"} \intersect Gone = {}
    BY DEF Availabilities, Behind, Gone
  <2>3. Onwards /\ avail' \in [Gem -> Availabilities]
    BY <2>1, <2>2, WriteOnwards
  <2>4. LoadsKept
    BY <1>0, <2>1, <2>3 DEF LoadsKept, Onwards, PassedInv, TransfersTypeOK, Delivery
  <2>5. TransfersTypeOK'
    BY <1>0, <2>1, <2>3 DEF TransfersTypeOK, warehouse_vars
  <2> QED  BY <2>1, <2>3, <2>4, <2>5, StatusesMove
<1>3. ASSUME NEW l \in Gem, NEW to \in Gone, Dies(l, to) PROVE PassedInv'
  <2>1. /\ avail' = [avail EXCEPT ![l] = to]
        /\ UNCHANGED <<warehouse_vars, deliveries, cancelledSo>>
    BY <1>3 DEF Dies
  <2>2. to \in Availabilities /\ to \notin Behind
    BY DEF Availabilities, Behind, Gone
  <2>3. Onwards /\ avail' \in [Gem -> Availabilities]
    BY <1>0, <2>1, <2>2 DEF Onwards, TransfersTypeOK
  <2>4. LoadsKept
    BY <1>0, <2>1, <2>3 DEF LoadsKept, Onwards, PassedInv, TransfersTypeOK, Delivery
  <2>5. TransfersTypeOK'
    BY <1>0, <2>1, <2>3 DEF TransfersTypeOK, warehouse_vars
  <2> QED  BY <2>1, <2>3, <2>4, <2>5, StatusesMove
<1>4. ASSUME NEW l \in Gem, Procured(l) PROVE PassedInv'
  <2>1. /\ avail[l] = "diamond_booked" /\ due' = due \union {l}
        /\ avail' = [avail EXCEPT ![l] = "confirmed"]
        /\ UNCHANGED <<place, inspect, verdict, toStage, deliveries, cancelledSo>>
    BY <1>4 DEF Procured
  <2>2. l \notin inspect /\ verdict[l] = "none"
    BY <2>1 DEF PassedInv
  <2>3. /\ TransfersTypeOK'
        /\ \A k \in Gem : avail'[k] = IF k = l THEN "confirmed" ELSE avail[k]
    BY <1>0, <2>1 DEF TransfersTypeOK, Availabilities, Behind
  <2>4. \A d \in DeliveryIds : deliveries[d].moves \subseteq Gem
    BY <1>0 DEF TransfersTypeOK, Delivery
  <2>5. OnlyInspectedLeave' /\ FailedIsOver' /\ PaidBeforeLeaving'
    BY <2>1, <2>2, <2>3 DEF PassedInv, OnlyInspectedLeave, FailedIsOver, PaidBeforeLeaving
  <2>6. \A d \in DeliveryIds : deliveries'[d].state = "pack" =>
          \A k \in deliveries'[d].moves : avail'[k] \notin Behind
    BY <2>1, <2>2, <2>3, <2>4 DEF PassedInv
  <2> QED  BY <2>1, <2>2, <2>3, <2>5, <2>6 DEF PassedInv
<1>5. CASE CancelSo
  <2>1. /\ avail' = [l \in Gem |-> "cancelled"] /\ inspect' = {} /\ toStage' = {}
        /\ deliveries' = [d \in DeliveryIds |-> IF deliveries[d].state = "done"
                                                THEN deliveries[d] ELSE Unused]
        /\ cancelledSo' = TRUE /\ UNCHANGED <<place, due, verdict>>
    BY <1>5 DEF CancelSo
  <2>2. Unused \in Delivery /\ Unused.moves = {} /\ Unused.state = "none"
    BY DEF Unused, Delivery
  <2>3. /\ "cancelled" \in Availabilities /\ "cancelled" \in Gone /\ "cancelled" \notin Behind
        /\ \A l \in Gem : avail'[l] = "cancelled"
    BY <2>1 DEF Availabilities, Gone, Behind
  <2>4. TransfersTypeOK'
    BY <1>0, <2>1, <2>2, <2>3 DEF TransfersTypeOK
  <2>5. \A d \in DeliveryIds :
          \/ deliveries'[d] = deliveries[d] /\ deliveries'[d].state = "done"
          \/ deliveries'[d].moves = {}
    BY <2>1, <2>2
  <2>6. OnlyInspectedLeave' /\ FailedIsOver' /\ PaidBeforeLeaving'
    BY <2>1, <2>3 DEF PassedInv, OnlyInspectedLeave, FailedIsOver, PaidBeforeLeaving
  <2> QED  BY <2>1, <2>3, <2>4, <2>5, <2>6 DEF PassedInv
<1>6. CASE UNCHANGED transfer_vars
  BY <1>6 DEF PassedInv, TransfersTypeOK, OnlyInspectedLeave, FailedIsOver, PaidBeforeLeaving,
              warehouse_vars
<1> QED  BY <1>1, <1>2, <1>3, <1>4, <1>5, <1>6, ReceivePassed, DecidePassed, ValidatePassed,
            StagePassed, PackPassed, LeavePassed DEF TransfersNext

\* Nothing but passed and paid stones leaves, no status written for the whole order
\* revives a failed one, and a stone that reads In QC gets its inspection: for every
\* number of stones, vendors and deliveries, whatever dies on the way.
THEOREM GoodsAgree == TransfersSpec => []GoodsMatchStatuses
<1>1. TransfersInit => PassedInv
  <2>1. SUFFICES ASSUME TransfersInit PROVE PassedInv
    OBVIOUS
  <2>2. Unused \in Delivery /\ Unused.moves = {} /\ Unused.state = "none"
    BY DEF Unused, Delivery
  <2>3. TransfersTypeOK
    BY <2>1, <2>2 DEF TransfersInit, TransfersTypeOK, Availabilities, Behind
  <2>4. OnlyInspectedLeave /\ FailedIsOver /\ PaidBeforeLeaving
    BY <2>1 DEF TransfersInit, OnlyInspectedLeave, FailedIsOver, PaidBeforeLeaving
  <2> QED  BY <2>1, <2>2, <2>3, <2>4 DEF TransfersInit, PassedInv
<1>2. PassedInv => GoodsMatchStatuses
  BY DEF PassedInv, GoodsMatchStatuses, InQcIsInspected
<1> QED  BY <1>1, <1>2, StepPassed, PTL DEF TransfersSpec

HIDE TransfersAssumption

(***************************************************************************)
(* StatusApi                                                               *)
(***************************************************************************)
USE StatusApiAssumption

Db == [line : [ApiLine -> STRING], sdk : [ApiOrder -> OrderStatuses],
       state : [ApiOrder -> {"draft", "sale", "cancel"}]]
Answer == {"success", "error", "conflict", "failed", "saved"}
Txn == [on : BOOLEAN, tries : 0..MaxTries, view : Db, wrote : SUBSET ApiLine,
        holds : SUBSET ApiOrder, updated : SUBSET ApiOrder, stale : SUBSET ApiOrder,
        aborted : BOOLEAN, results : Seq(Answer)]

\* In a database, or in a transaction's view of it, orders have the status of their lines.
Follows(db) == \A o \in ApiOrder : db.sdk[o] = StatusOfLines(db, o)

\* What a transaction did not write and nobody changed since its snapshot is as stored.
Seen(t, db) ==
  \A l \in ApiLine : l \notin t.wrote /\ OrderOf[l] \notin t.stale => t.view.line[l] = db.line[l]

\* The rows it updated are those of the lines it wrote, its own, and as it saw them.
Owns(t) ==
  /\ t.updated = {OrderOf[l] : l \in t.wrote}
  /\ t.updated \subseteq t.holds /\ t.updated \intersect t.stale = {}

\* Its answers are true of its view.
Truthful(r, t) ==
  /\ Len(t.results) <= Len(Entries[r])
  /\ r \notin Faulty =>
       ~t.aborted /\ \A i \in 1..Len(t.results) : t.results[i] # "success" => ~Entries[r][i].valid
  /\ ~t.aborted => \A i \in 1..Len(t.results) : t.results[i] = "success" =>
       /\ Entries[r][i].line \in t.wrote
       /\ (\A j \in 1..Len(t.results) : j > i => Entries[r][j].line # Entries[r][i].line)
          => t.view.line[Entries[r][i].line] = Entries[r][i].status

CallOK(r, t, db) == Follows(t.view) /\ Seen(t, db) /\ Owns(t) /\ Truthful(r, t)

ApiInv ==
  /\ stored \in Db /\ Follows(stored)
  /\ calls \in [Request -> Txn]
  /\ \A r \in Request : calls[r].on => CallOK(r, calls[r], stored)
  /\ \A r, q \in Request : calls[r].on /\ calls[q].on /\ r # q =>
       calls[r].holds \intersect calls[q].holds = {}
  /\ replied \in [Request -> Seq(Answer)]

\* Lines always give one of the statuses of an order.
LEMMA ShownIsStatus == \A c, S : StatusOf(c, S) \in OrderStatuses
BY DEF StatusOf, OrderStatuses

\* A line that is written takes its order along, also when that confirms or cancels it.
LEMMA WrittenView ==
    ASSUME NEW v \in Db, Follows(v), NEW e \in [line : ApiLine, status : STRING, valid : BOOLEAN],
           NEW byForm, NEW w \in WithStatus(v, e, byForm)
    PROVE  /\ w \in Db /\ Follows(w)
           /\ \A l \in ApiLine : w.line[l] = IF l = e.line THEN e.status ELSE v.line[l]
<1> DEFINE o == OrderOf[e.line]
           u == [v EXCEPT !.line[e.line] = e.status]
           s == StatusOfLines(u, o)
<1>1. PICK b \in {v.state[o], "sale", "cancel"} :
        /\ w = [u EXCEPT !.sdk[o] = s, !.state[o] = b]
        /\ b = "sale" => (v.state[o] = "sale" \/ v.state[o] = "draft")
        /\ b = "cancel" => (v.state[o] = "cancel" \/ (s = "Cancelled" /\ e.status = "cancelled"))
  BY DEF WithStatus
<1>2. /\ o \in ApiOrder /\ e.line \in ApiLine /\ e.status \in STRING
      /\ v.line \in [ApiLine -> STRING] /\ v.sdk \in [ApiOrder -> OrderStatuses]
      /\ v.state \in [ApiOrder -> {"draft", "sale", "cancel"}]
  BY DEF Db
<1>3. /\ u = [line |-> u.line, sdk |-> v.sdk, state |-> v.state]
      /\ u.line \in [ApiLine -> STRING]
      /\ \A l \in ApiLine : u.line[l] = IF l = e.line THEN e.status ELSE v.line[l]
  BY <1>2 DEF Db
<1>4. s \in OrderStatuses
  BY ShownIsStatus DEF StatusOfLines
<1> HIDE DEF s, u
<1>5. w = [line |-> u.line, sdk |-> [v.sdk EXCEPT ![o] = s], state |-> [v.state EXCEPT ![o] = b]]
  <2> DEFINE u1 == [u EXCEPT !.sdk[o] = s]
  <2>1. u1 = [line |-> u.line, sdk |-> [v.sdk EXCEPT ![o] = s], state |-> v.state]
    BY ONLY <1>3
  <2>2. w = [u1 EXCEPT !.state[o] = b]
    BY ONLY <1>1
  <2> HIDE DEF u1
  <2> QED  BY ONLY <2>1, <2>2
<1>6. w \in Db
  BY <1>1, <1>2, <1>3, <1>4, <1>5 DEF Db
<1>7. ASSUME NEW p \in ApiOrder PROVE w.sdk[p] = StatusOfLines(w, p)
  <2>1. CASE p # o
    <3>1. w.sdk[p] = v.sdk[p] /\ w.state[p] = v.state[p]
      BY <1>2, <1>5, <2>1
    <3>2. {w.line[l] : l \in {k \in ApiLine : OrderOf[k] = p}} =
          {v.line[l] : l \in {k \in ApiLine : OrderOf[k] = p}}
      BY <1>3, <1>5, <2>1
    <3> QED  BY <3>1, <3>2 DEF Follows, StatusOfLines
  <2>2. CASE p = o
    <3> DEFINE has == {w.line[l] : l \in {k \in ApiLine : OrderOf[k] = o}}
    <3>1. w.sdk[o] = s /\ w.state[o] = b
      BY <1>2, <1>5
    <3>2. s = StatusOf(v.state[o] = "cancel", has)
      <4>1. u.state = v.state /\ w.line = u.line
        BY <1>3, <1>5
      <4> QED  BY <4>1 DEF s, StatusOfLines
    <3>3. e.status \in has
      BY <1>2, <1>3, <1>5
    <3>4. CASE (b = "cancel") = (v.state[o] = "cancel")
      BY <2>2, <3>1, <3>2, <3>4 DEF StatusOfLines
    <3>5. CASE b = "cancel" /\ s = "Cancelled"
      <4>1. StatusOf(TRUE, has) = "Cancelled"
        <5> HIDE DEF has
        <5>1. {Norm(x) : x \in has} # {}
          BY <3>3
        <5> QED  BY <5>1 DEF StatusOf
      <4> QED  BY <2>2, <3>1, <3>5, <4>1 DEF StatusOfLines
    <3> QED  BY <1>1, <3>4, <3>5
  <2> QED  BY <2>1, <2>2
<1> QED  BY <1>3, <1>5, <1>6, <1>7 DEF Follows

\* A step of one call that stores nothing.
LEMMA CallMoves ==
    ASSUME ApiInv, NEW r \in Request, NEW t \in Txn, UNCHANGED stored,
           calls' = [calls EXCEPT ![r] = t], replied' \in [Request -> Seq(Answer)],
           t.on => CallOK(r, t, stored),
           \A q \in Request \ {r} : t.on /\ calls[q].on => t.holds \intersect calls[q].holds = {}
    PROVE  ApiInv'
<1>1. /\ \A q \in Request : calls'[q] = IF q = r THEN t ELSE calls[q]
      /\ calls' \in [Request -> Txn]
  BY DEF ApiInv
<1>3. \A q \in Request : calls'[q].on => CallOK(q, calls'[q], stored')
  BY <1>1 DEF ApiInv
<1>4. \A p, q \in Request : calls'[p].on /\ calls'[q].on /\ p # q =>
        calls'[p].holds \intersect calls'[q].holds = {}
  BY <1>1 DEF ApiInv
<1>5. stored' \in Db /\ Follows(stored')
  BY DEF ApiInv
<1> QED  BY <1>1, <1>3, <1>4, <1>5 DEF ApiInv

\* A transaction that starts sees what is stored.
LEMMA StartOK ==
    ASSUME ApiInv, NEW r \in Request, NEW n \in 0..MaxTries
    PROVE  Started(n) \in Txn /\ Started(n).holds = {} /\ CallOK(r, Started(n), stored)
<1>1. stored \in Db /\ <<>> \in Seq(Answer)
  BY DEF ApiInv
<1>2. /\ Started(n) \in Txn /\ Started(n).holds = {} /\ Started(n).view = stored
      /\ Started(n).wrote = {} /\ Started(n).updated = {} /\ Started(n).stale = {}
      /\ Started(n).results = <<>> /\ Started(n).aborted = FALSE
  BY <1>1 DEF Started, Txn
<1>3. Len(Entries[r]) \in Nat
  OBVIOUS
<1> QED  BY <1>2, <1>3 DEF CallOK, Seen, Owns, Truthful, ApiInv

\* One that failed starts again or ends.
LEMMA FailedOK == ASSUME ApiInv, NEW r \in Request, Failed(r) PROVE ApiInv'
<1>1. CASE calls[r].tries < MaxTries
  <2>1. calls[r].tries + 1 \in 0..MaxTries
    BY <1>1 DEF ApiInv, Txn
  <2> DEFINE t == Started(calls[r].tries + 1)
  <2>2. t \in Txn /\ t.holds = {} /\ CallOK(r, t, stored)
    BY <2>1, StartOK
  <2>3. /\ calls' = [calls EXCEPT ![r] = t] /\ UNCHANGED <<stored, replied>>
    BY <1>1 DEF Failed, ApiInv
  <2> HIDE DEF t
  <2> QED  BY <2>2, <2>3, CallMoves DEF ApiInv
<1>2. CASE ~(calls[r].tries < MaxTries)
  <2> DEFINE t == [calls[r] EXCEPT !.on = FALSE]
  <2>1. t \in Txn /\ t.on = FALSE
    BY DEF ApiInv, Txn
  <2>2. /\ calls' = [calls EXCEPT ![r] = t] /\ UNCHANGED stored
        /\ replied' = [replied EXCEPT ![r] = <<"failed">>]
    BY <1>2 DEF Failed
  <2>3. replied' \in [Request -> Seq(Answer)]
    <3>1. <<"failed">> \in Seq(Answer)
      BY DEF Answer
    <3> QED  BY <2>2, <3>1 DEF ApiInv
  <2> HIDE DEF t
  <2> QED  BY <2>1, <2>2, <2>3, CallMoves
<1> QED  BY <1>1, <1>2

\* An entry that is answered.
LEMMA AnsweredOK ==
    ASSUME ApiInv, NEW r \in Request, HasEntry(r), ~calls[r].aborted,
           NEW what \in Answer, NEW t \in Txn,
           t.on, t.results = Append(calls[r].results, what),
           Follows(t.view), Seen(t, stored), Owns(t),
           t.wrote \in {calls[r].wrote, calls[r].wrote \union {NextEntry(r).line}},
           r \notin Faulty => ~t.aborted /\ (what # "success" => ~NextEntry(r).valid),
           ~t.aborted /\ what = "success" =>
              /\ NextEntry(r).line \in t.wrote
              /\ t.view.line[NextEntry(r).line] = NextEntry(r).status,
           ~t.aborted => \A l \in ApiLine : 
              t.view.line[l] = calls[r].view.line[l] \/ (what = "success" /\ l = NextEntry(r).line)
    PROVE  CallOK(r, t, stored)
<1> DEFINE n == Len(calls[r].results) + 1
           R == calls[r].results
           S == t.results
<1>1. R \in Seq(Answer) /\ n \in Nat /\ n <= Len(Entries[r]) /\ calls[r].on
  BY DEF HasEntry, ApiInv, Txn
<1>2. /\ Len(S) = n /\ S[n] = what /\ \A i \in 1..Len(R) : S[i] = R[i]
      /\ Len(R) = n - 1
  BY <1>1
<1>3. \A i \in 1..n : i = n \/ i \in 1..Len(R)
  BY <1>1, <1>2
<1>4. /\ NextEntry(r) = Entries[r][n]
      /\ \A i \in 1..n : Entries[r][i].line \in ApiLine
  <2> DEFINE Rec == [line : ApiLine, status : STRING, valid : BOOLEAN]
             E == Entries[r]
  <2>1. E \in Seq(Rec) /\ \A e \in Rec : e.line \in ApiLine
    OBVIOUS
  <2>2. NextEntry(r) = Entries[r][n]
    BY DEF NextEntry
  <2> HIDE DEF Rec, E, n
  <2>3. n <= Len(E) /\ n \in Nat
    BY <1>1 DEF E
  <2>4. \A i \in 1..n : E[i] \in Rec
    BY ONLY <2>1, <2>3
  <2> QED  BY <2>1, <2>2, <2>4 DEF E
<1>5. Truthful(r, calls[r])
  BY <1>1 DEF ApiInv, CallOK
<1> HIDE DEF n, R, S
<1>6. Truthful(r, t)
  <2>1. Len(S) <= Len(Entries[r])
    BY <1>1, <1>2
  <2>2. ASSUME r \notin Faulty
        PROVE  ~t.aborted /\ \A i \in 1..Len(S) : S[i] # "success" => ~Entries[r][i].valid
    <3>1. ~t.aborted /\ (what # "success" => ~NextEntry(r).valid)
      BY <2>2
    <3>2. ASSUME NEW i \in 1..Len(S), S[i] # "success" PROVE ~Entries[r][i].valid
      <4>1. CASE i = n
        BY <1>2, <1>4, <3>1, <3>2, <4>1
      <4>2. CASE i \in 1..Len(R)
        BY <1>2, <1>5, <2>2, <3>2, <4>2 DEF Truthful, R
      <4> QED  BY <1>2, <1>3, <3>2, <4>1, <4>2
    <3> QED  BY <3>1, <3>2
  <2>3. ASSUME ~t.aborted, NEW i \in 1..Len(S), S[i] = "success"
        PROVE  /\ Entries[r][i].line \in t.wrote
               /\ (\A j \in 1..Len(S) : j > i => Entries[r][j].line # Entries[r][i].line)
                  => t.view.line[Entries[r][i].line] = Entries[r][i].status
    <3>1. CASE i = n
      BY <1>2, <1>4, <2>3, <3>1
    <3>2. CASE i \in 1..Len(R)
      <4>1. /\ Entries[r][i].line \in calls[r].wrote
            /\ (\A j \in 1..Len(R) : j > i => Entries[r][j].line # Entries[r][i].line)
               => calls[r].view.line[Entries[r][i].line] = Entries[r][i].status
        BY <1>2, <1>5, <2>3, <3>2 DEF Truthful, R
      <4>2. Entries[r][i].line \in t.wrote
        BY <4>1
      <4>3. n \in 1..Len(S) /\ n > i /\ \A j \in 1..Len(R) : j \in 1..Len(S)
        BY <1>1, <1>2, <3>2
      <4>4. ASSUME \A j \in 1..Len(S) : j > i => Entries[r][j].line # Entries[r][i].line
            PROVE  t.view.line[Entries[r][i].line] = Entries[r][i].status
        <5>1. Entries[r][i].line # NextEntry(r).line /\ Entries[r][i].line \in ApiLine
          BY <1>2, <1>3, <1>4, <2>3, <4>3, <4>4
        <5> QED  BY <2>3, <4>1, <4>3, <4>4, <5>1
      <4> QED  BY <4>2, <4>4
    <3> QED  BY <1>2, <1>3, <2>3, <3>1, <3>2
  <2> QED  BY <2>1, <2>2, <2>3 DEF Truthful, S
<1> QED  BY <1>6 DEF CallOK

\* The entry a call is at.
LEMMA EntryIs ==
    ASSUME ApiInv, NEW r \in Request, HasEntry(r)
    PROVE  /\ NextEntry(r) \in [line : ApiLine, status : STRING, valid : BOOLEAN]
           /\ NextEntry(r).line \in ApiLine /\ RowOf(r) \in ApiOrder
<1> DEFINE Rec == [line : ApiLine, status : STRING, valid : BOOLEAN]
           E == Entries[r]
<1>1. E \in Seq(Rec)
  OBVIOUS
<1>2. Len(calls[r].results) \in Nat
  BY DEF ApiInv, Txn
<1> HIDE DEF Rec, E
<1>3. Len(calls[r].results) + 1 <= Len(E)
  BY <1>1, <1>2 DEF HasEntry, E
<1>4. E[Len(calls[r].results) + 1] \in Rec
  BY ONLY <1>1, <1>2, <1>3
<1> QED  BY <1>4 DEF NextEntry, RowOf, E, Rec

\* An entry that is refused, or one whose write fails: nothing is written.
LEMMA UnwrittenOK ==
    ASSUME ApiInv, NEW r \in Request, Refuse(r) \/ FailEntry(r)
    PROVE  ApiInv'
<1>1. PICK what \in {"error", "conflict"}, t \in Txn :
        /\ HasEntry(r) /\ ~calls[r].aborted
        /\ calls' = [calls EXCEPT ![r] = t] /\ UNCHANGED <<stored, replied>>
        /\ t.on /\ t.view = calls[r].view /\ t.wrote = calls[r].wrote
        /\ t.updated = calls[r].updated /\ t.stale = calls[r].stale
        /\ t.results = Append(calls[r].results, what)
        /\ calls[r].holds \subseteq t.holds
        /\ \A q \in Request \ {r} : calls[q].on => t.holds \intersect calls[q].holds = {}
        /\ r \notin Faulty => ~t.aborted /\ ~NextEntry(r).valid
  <2>1. calls[r] \in Txn /\ calls[r].on /\ HasEntry(r) /\ ~calls[r].aborted
    BY DEF ApiInv, Refuse, FailEntry, HasEntry
  <2>2. calls[r].results \in Seq(Answer) /\ {"error", "conflict"} \subseteq Answer
    BY <2>1 DEF Txn, Answer
  <2>3. \A q \in Request \ {r} : calls[q].on => calls[r].holds \intersect calls[q].holds = {}
    BY <2>1 DEF ApiInv
  <2>4. CASE Refuse(r)
    <3> DEFINE t == [calls[r] EXCEPT !.results = Append(@, "error")]
    <3>1. Append(calls[r].results, "error") \in Seq(Answer)
      BY <2>2
    <3>2. /\ t \in Txn /\ t.on = calls[r].on /\ t.view = calls[r].view /\ t.wrote = calls[r].wrote
          /\ t.updated = calls[r].updated /\ t.stale = calls[r].stale
          /\ t.results = Append(calls[r].results, "error")
          /\ t.holds = calls[r].holds /\ t.aborted = calls[r].aborted
      BY <2>1, <3>1 DEF Txn
    <3>3. calls' = [calls EXCEPT ![r] = t] /\ ~NextEntry(r).valid /\ UNCHANGED <<stored, replied>>
      BY <2>4 DEF Refuse, Answered
    <3> HIDE DEF t
    <3> QED  BY <2>1, <2>3, <3>2, <3>3
  <2>5. CASE FailEntry(r)
    <3> DEFINE t == [[calls[r] EXCEPT !.results = Append(@, "conflict")] EXCEPT
                       !.aborted = TRUE, !.holds = @ \union {RowOf(r)}]
    <3>1. Append(calls[r].results, "conflict") \in Seq(Answer)
      BY <2>2
    <3>2. RowOf(r) \in ApiOrder
      BY <2>1, EntryIs
    <3>3. /\ t \in Txn /\ t.on = calls[r].on /\ t.view = calls[r].view /\ t.wrote = calls[r].wrote
          /\ t.updated = calls[r].updated /\ t.stale = calls[r].stale
          /\ t.results = Append(calls[r].results, "conflict")
          /\ t.holds = calls[r].holds \union {RowOf(r)}
      BY <2>1, <3>1, <3>2 DEF Txn
    <3>4. calls' = [calls EXCEPT ![r] = t] /\ r \in Faulty /\ UNCHANGED <<stored, replied>>
      BY <2>4, <2>5 DEF FailEntry, Answered
    <3>5. \A q \in Request \ {r} : calls[q].on => RowOf(r) \notin calls[q].holds
      BY <2>5 DEF FailEntry, HeldByOther, Others
    <3> HIDE DEF t
    <3> QED  BY <2>1, <2>3, <3>3, <3>4, <3>5
  <2> QED  BY <2>4, <2>5
<1>2. CallOK(r, calls[r], stored) /\ calls[r].on
  BY <1>1 DEF ApiInv, HasEntry
<1>3. Follows(t.view) /\ Seen(t, stored) /\ Owns(t)
  BY <1>1, <1>2 DEF CallOK, Seen, Owns
<1>4. what \in Answer /\ what # "success"
  BY <1>1 DEF Answer
<1>5. CallOK(r, t, stored)
  BY <1>1, <1>3, <1>4, AnsweredOK
<1> QED  BY <1>1, <1>5, CallMoves DEF ApiInv

\* An entry that is applied.
LEMMA AppliedOK ==
    ASSUME ApiInv, NEW r \in Request, ApplyEntry(r)
    PROVE  ApiInv'
<1>1. CASE RowOf(r) \in calls[r].stale
  BY <1>1, FailedOK DEF ApplyEntry, RowConflict
<1>2. CASE RowOf(r) \notin calls[r].stale
  <2> DEFINE c == calls[r]
             e == NextEntry(r)
             o == RowOf(r)
  <2>1. /\ c \in Txn /\ c.on /\ HasEntry(r) /\ ~c.aborted /\ CallOK(r, c, stored)
        /\ e.valid /\ \A q \in Request \ {r} : calls[q].on => o \notin calls[q].holds
    BY DEF ApplyEntry, ApiInv, HasEntry, HeldByOther, Others
  <2>2. PICK w \in WithStatus(c.view, e, r \in ByForm) :
          calls' = [calls EXCEPT ![r] = [Answered(calls[r], "success") EXCEPT
                      !.view = w, !.wrote = @ \union {e.line},
                      !.holds = @ \union {o}, !.updated = @ \union {o}]]
    BY <1>2 DEF ApplyEntry, RowUpdated
  <2>3. UNCHANGED <<stored, replied>>
    BY <1>2 DEF ApplyEntry
  <2> DEFINE t == [[c EXCEPT !.results = Append(@, "success")] EXCEPT
                     !.view = w, !.wrote = @ \union {e.line},
                     !.holds = @ \union {o}, !.updated = @ \union {o}]
  <2>4. e \in [line : ApiLine, status : STRING, valid : BOOLEAN]
    BY <2>1, EntryIs
  <2>5. e.line \in ApiLine /\ o = OrderOf[e.line] /\ o \in ApiOrder
    BY <2>4 DEF RowOf
  <2>6. /\ w \in Db /\ Follows(w)
        /\ \A l \in ApiLine : w.line[l] = IF l = e.line THEN e.status ELSE c.view.line[l]
    <3>1. c.view \in Db /\ Follows(c.view)
      BY <2>1 DEF Txn, CallOK
    <3>2. w \in WithStatus(c.view, e, FALSE)
      BY <2>2 DEF WithStatus
    <3> HIDE DEF c, e, o
    <3> QED  BY <2>4, <3>1, <3>2, WrittenView
  <2>7. Append(c.results, "success") \in Seq(Answer) /\ "success" \in Answer
    BY <2>1 DEF Txn, Answer
  <2>8. /\ t \in Txn /\ t.on = c.on /\ t.view = w /\ t.wrote = c.wrote \union {e.line}
        /\ t.updated = c.updated \union {o} /\ t.stale = c.stale
        /\ t.results = Append(c.results, "success")
        /\ t.holds = c.holds \union {o} /\ t.aborted = c.aborted
    BY <2>1, <2>5, <2>6, <2>7 DEF Txn
  <2>9. calls' = [calls EXCEPT ![r] = t]
    BY <2>2 DEF Answered
  <2> HIDE DEF t
  <2>10. Seen(t, stored)
    BY <2>1, <2>5, <2>6, <2>8 DEF CallOK, Seen
  <2>11. Owns(t)
    BY <1>2, <2>1, <2>5, <2>8 DEF CallOK, Owns
  <2>12. CallOK(r, t, stored)
    <3>1. t.view.line[e.line] = e.status /\ e.line \in t.wrote
      BY <2>5, <2>6, <2>8
    <3>2. \A l \in ApiLine : t.view.line[l] = c.view.line[l] \/ l = e.line
      BY <2>6, <2>8
    <3> QED  BY <2>1, <2>6, <2>7, <2>8, <2>10, <2>11, <3>1, <3>2, AnsweredOK
  <2>13. \A q \in Request \ {r} : calls[q].on => t.holds \intersect calls[q].holds = {}
    BY <2>1, <2>8 DEF ApiInv
  <2> QED  BY <2>3, <2>8, <2>9, <2>12, <2>13, CallMoves DEF ApiInv
<1> QED  BY <1>1, <1>2

\* What a commit stores, and what it tells the others.
LEMMA CommitOK ==
    ASSUME ApiInv, NEW r \in Request, CommitCall(r)
    PROVE  ApiInv'
<1> DEFINE t == calls[r]
           kept == IF t.aborted THEN {} ELSE t.updated
<1>1. t \in Txn /\ t.on /\ CallOK(r, t, stored) /\ stored \in Db /\ Follows(stored)
  BY DEF CommitCall, ApiInv
<1>2. /\ t.view \in Db /\ Follows(t.view) /\ kept \subseteq t.holds /\ t.wrote \subseteq ApiLine
      /\ t.results \in Seq(Answer) /\ t.updated \subseteq ApiOrder
  BY <1>1 DEF Txn, CallOK, Owns
<1>3. calls' = [q \in Request |-> IF q = r THEN [calls[q] EXCEPT !.on = FALSE]
                                 ELSE IF calls[q].on THEN [calls[q] EXCEPT !.stale = @ \union kept]
                                 ELSE calls[q]]
  BY DEF CommitCall
<1>4. stored' \in Db /\ Follows(stored')
      /\ \A l \in ApiLine : OrderOf[l] \notin kept => stored'.line[l] = stored.line[l]
  <2>1. CASE t.aborted
    BY <1>1, <2>1 DEF CommitCall
  <2>2. CASE ~t.aborted
    <3> DEFINE L == [l \in ApiLine |-> IF l \in t.wrote THEN t.view.line[l] ELSE stored.line[l]]
               K == [o \in ApiOrder |-> IF o \in t.updated THEN t.view.sdk[o] ELSE stored.sdk[o]]
               S == [o \in ApiOrder |-> IF o \in t.updated THEN t.view.state[o] ELSE stored.state[o]]
    <3>1. stored' = [line |-> L, sdk |-> K, state |-> S]
      BY <2>2 DEF CommitCall
    <3>2. /\ L \in [ApiLine -> STRING] /\ K \in [ApiOrder -> OrderStatuses]
          /\ S \in [ApiOrder -> {"draft", "sale", "cancel"}]
      BY <1>1, <1>2 DEF Db
    <3>3. \A l \in ApiLine : l \in t.wrote => OrderOf[l] \in t.updated /\ OrderOf[l] \notin t.stale
      BY <1>1 DEF CallOK, Owns
    <3>4. \A l \in ApiLine : OrderOf[l] \in t.updated => L[l] = t.view.line[l]
      BY <1>1 DEF CallOK, Owns, Seen
    <3>5. \A l \in ApiLine : OrderOf[l] \notin t.updated => L[l] = stored.line[l]
      BY <3>3
    <3>6. \A o \in ApiOrder : o \in t.updated => K[o] = t.view.sdk[o] /\ S[o] = t.view.state[o]
      OBVIOUS
    <3>7. \A o \in ApiOrder : o \notin t.updated => K[o] = stored.sdk[o] /\ S[o] = stored.state[o]
      OBVIOUS
    <3> HIDE DEF L, K, S
    <3>8. ASSUME NEW o \in ApiOrder PROVE stored'.sdk[o] = StatusOfLines(stored', o)
      <4> DEFINE mine == {k \in ApiLine : OrderOf[k] = o}
      <4>1. CASE o \in t.updated
        <5>1. {L[l] : l \in mine} = {t.view.line[l] : l \in mine}
          BY <3>4, <4>1
        <5>2. /\ StatusOfLines(stored', o) = StatusOf(S[o] = "cancel", {L[l] : l \in mine})
              /\ stored'.sdk[o] = K[o]
          BY <3>1 DEF StatusOfLines
        <5>3. t.view.sdk[o] = StatusOf(t.view.state[o] = "cancel", {t.view.line[l] : l \in mine})
          BY <1>2 DEF Follows, StatusOfLines
        <5> QED  BY <3>6, <4>1, <5>1, <5>2, <5>3
      <4>2. CASE o \notin t.updated
        <5>1. {L[l] : l \in mine} = {stored.line[l] : l \in mine}
          BY <3>5, <4>2
        <5>2. /\ StatusOfLines(stored', o) = StatusOf(S[o] = "cancel", {L[l] : l \in mine})
              /\ stored'.sdk[o] = K[o]
          BY <3>1 DEF StatusOfLines
        <5>3. stored.sdk[o] = StatusOf(stored.state[o] = "cancel", {stored.line[l] : l \in mine})
          BY <1>1 DEF Follows, StatusOfLines
        <5> QED  BY <3>7, <4>2, <5>1, <5>2, <5>3
      <4> QED  BY <4>1, <4>2
    <3> QED  BY <2>2, <3>1, <3>2, <3>5, <3>8 DEF Db, Follows
  <2> QED  BY <2>1, <2>2
<1> HIDE DEF kept
<1>5. \A q \in Request :
        /\ calls'[q].on => q # r /\ calls[q].on
        /\ calls'[q].on => calls'[q] = [calls[q] EXCEPT !.stale = @ \union kept]
  <2>1. \A q \in Request : calls[q] \in Txn
    BY DEF ApiInv
  <2>2. [calls[r] EXCEPT !.on = FALSE].on = FALSE
    BY <2>1 DEF Txn
  <2> QED  BY <1>3, <2>1, <2>2
<1>6. kept \subseteq ApiOrder
  BY <1>2 DEF kept
<1>7. calls' \in [Request -> Txn]
  <2>1. \A q \in Request : calls[q] \in Txn
    BY DEF ApiInv
  <2>2. \A q \in Request : [calls[q] EXCEPT !.on = FALSE] \in Txn
    BY <2>1 DEF Txn
  <2>3. \A q \in Request : [calls[q] EXCEPT !.stale = @ \union kept] \in Txn
    BY <1>6, <2>1 DEF Txn
  <2> QED  BY <1>3, <2>1, <2>2, <2>3
<1>8. ASSUME NEW q \in Request, calls'[q].on
      PROVE  /\ CallOK(q, calls'[q], stored') /\ calls'[q].holds = calls[q].holds
             /\ calls[q].on /\ q # r
  <2> DEFINE u == calls'[q]
  <2>1. q # r /\ calls[q].on /\ calls[q] \in Txn /\ CallOK(q, calls[q], stored)
    BY <1>5, <1>8 DEF ApiInv
  <2>2. /\ u.view = calls[q].view /\ u.wrote = calls[q].wrote /\ u.holds = calls[q].holds
        /\ u.updated = calls[q].updated /\ u.aborted = calls[q].aborted
        /\ u.results = calls[q].results /\ u.stale = calls[q].stale \union kept
    BY <1>5, <1>8, <2>1 DEF Txn
  <2>3. kept \intersect calls[q].holds = {}
    BY <1>1, <1>2, <2>1 DEF ApiInv
  <2>4. Seen(u, stored')
    BY <1>4, <2>1, <2>2 DEF CallOK, Seen
  <2>5. Owns(u)
    BY <2>1, <2>2, <2>3 DEF CallOK, Owns
  <2>6. Follows(u.view) /\ Truthful(q, u)
    BY <2>1, <2>2 DEF CallOK, Truthful
  <2> QED  BY <2>1, <2>2, <2>4, <2>5, <2>6 DEF CallOK
<1>9. replied' \in [Request -> Seq(Answer)]
  <2>1. <<"saved">> \in Seq(Answer)
    BY DEF Answer
  <2> QED  BY <1>2, <2>1 DEF CommitCall, ApiInv
<1> QED  BY <1>4, <1>7, <1>8, <1>9 DEF ApiInv

\* Every step of every call.
LEMMA ApiStep == ASSUME ApiInv, [ApiNext]_api_vars PROVE ApiInv'
<1>1. ASSUME NEW r \in Request, Begin(r) PROVE ApiInv'
  <2> DEFINE t == Started(1)
  <2>1. t \in Txn /\ t.holds = {} /\ CallOK(r, t, stored)
    BY StartOK
  <2>2. calls' = [calls EXCEPT ![r] = t] /\ UNCHANGED <<stored, replied>>
    BY <1>1 DEF Begin
  <2> HIDE DEF t
  <2> QED  BY <2>1, <2>2, CallMoves DEF ApiInv
<1>2. ASSUME NEW r \in Request, FailCall(r) PROVE ApiInv'
  <2> DEFINE t == [calls[r] EXCEPT !.on = FALSE]
  <2>1. t \in Txn /\ t.on = FALSE
    BY DEF ApiInv, Txn
  <2>2. /\ calls' = [calls EXCEPT ![r] = t] /\ UNCHANGED stored
        /\ replied' = [replied EXCEPT ![r] = <<"failed">>]
    BY <1>2 DEF FailCall
  <2>3. replied' \in [Request -> Seq(Answer)]
    <3>1. <<"failed">> \in Seq(Answer)
      BY DEF Answer
    <3> QED  BY <2>2, <3>1 DEF ApiInv
  <2> HIDE DEF t
  <2> QED  BY <2>1, <2>2, <2>3, CallMoves
<1>3. ASSUME NEW r \in Request, Deadlock(r) PROVE ApiInv'
  BY <1>3, FailedOK DEF Deadlock
<1>4. CASE UNCHANGED api_vars
  BY <1>4 DEF ApiInv, api_vars
<1> QED  BY <1>1, <1>2, <1>3, <1>4, UnwrittenOK, AppliedOK, CommitOK DEF ApiNext

\* Whatever the calls and forms, their number, their entries and their order: what is
\* shown of an order and what was answered to the website is what is stored.
THEOREM ShownAsStored == ApiSpec => ShownIsStored
<1>1. ApiInit => ApiInv
  <2>1. SUFFICES ASSUME ApiInit PROVE ApiInv
    OBVIOUS
  <2> DEFINE first == [line |-> FirstStatus, sdk |-> [o \in ApiOrder |-> "Order Received"],
                       state |-> [o \in ApiOrder |-> "draft"]]
  <2>2. stored = [line |-> FirstStatus, sdk |-> [o \in ApiOrder |-> StatusOfLines(first, o)],
                  state |-> first.state]
    BY <2>1 DEF ApiInit
  <2>3. \A o \in ApiOrder : StatusOfLines(first, o) \in OrderStatuses
                            /\ StatusOfLines(stored, o) = StatusOfLines(first, o)
    BY <2>2, ShownIsStatus DEF StatusOfLines
  <2> HIDE DEF first
  <2>4. stored \in Db /\ Follows(stored)
    <3>1. first.state \in [ApiOrder -> {"draft", "sale", "cancel"}]
      BY DEF first
    <3> QED  BY <2>2, <2>3, <3>1 DEF Db, Follows
  <2>5. /\ calls = [r \in Request |-> [Over EXCEPT !.view = stored]]
        /\ replied = [r \in Request |-> <<>>]
    BY <2>1 DEF ApiInit
  <2> DEFINE t == [Over EXCEPT !.view = stored]
  <2>6. t \in Txn /\ t.on = FALSE
    <3>1. <<>> \in Seq(Answer)
      OBVIOUS
    <3>2. Over \in Txn /\ Over.on = FALSE
      BY <2>4, <3>1 DEF Over, Txn
    <3> HIDE DEF Over
    <3> QED  BY <2>4, <3>2 DEF Txn
  <2> HIDE DEF t
  <2>7. calls \in [Request -> Txn] /\ \A r \in Request : calls[r].on = FALSE
    BY <2>5, <2>6 DEF t
  <2>8. replied \in [Request -> Seq(Answer)]
    BY <2>5
  <2> QED  BY <2>4, <2>7, <2>8 DEF ApiInv
<1>2. ApiInv => StoredStatusFollows
  BY DEF ApiInv, Follows, StoredStatusFollows
<1>3. ApiInv /\ [ApiNext]_api_vars =>
        [\A r \in Request \ (Faulty \union ByForm) : CommitCall(r) =>
           LET done == replied'[r]
           IN  \A i \in DOMAIN done :
                 /\ done[i] # "success" => ~Entries[r][i].valid
                 /\ done[i] = "success"
                    /\ (\A j \in DOMAIN done : j > i => Entries[r][j].line # Entries[r][i].line)
                    => stored'.line[Entries[r][i].line] = Entries[r][i].status]_api_vars
  <2>1. SUFFICES ASSUME ApiInv, NEW r \in Request \ (Faulty \union ByForm), CommitCall(r)
                 PROVE  \A i \in DOMAIN replied'[r] :
                          /\ replied'[r][i] # "success" => ~Entries[r][i].valid
                          /\ replied'[r][i] = "success"
                             /\ (\A j \in DOMAIN replied'[r] : j > i => Entries[r][j].line # Entries[r][i].line)
                             => stored'.line[Entries[r][i].line] = Entries[r][i].status
    OBVIOUS
  <2>2. calls[r] \in Txn /\ Truthful(r, calls[r]) /\ replied'[r] = calls[r].results
    BY <2>1 DEF ApiInv, CommitCall, CallOK
  <2>3. ~calls[r].aborted /\ DOMAIN replied'[r] = 1..Len(calls[r].results)
    BY <2>1, <2>2 DEF Truthful, Txn
  <2>4. \A l \in calls[r].wrote : stored'.line[l] = calls[r].view.line[l]
    <3>1. calls[r].wrote \subseteq ApiLine
      BY <2>2 DEF Txn
    <3> QED  BY <2>1, <2>3, <3>1 DEF CommitCall
  <2> QED  BY <2>1, <2>2, <2>3, <2>4 DEF Truthful
<1> QED  BY <1>1, <1>2, <1>3, ApiStep, PTL DEF ApiSpec, ShownIsStored, AnswersAreTrue

HIDE StatusApiAssumption

(***************************************************************************)
(* Partners                                                                *)
(***************************************************************************)
USE PartnersAssumption

Stages == {"open", "contacted", "registered", "converted"}
AccountRec == [stage : Stages \union {Nil}, country : Country \union {Nil}, full : BOOLEAN,
               numbers : SUBSET IdNumber, kyc : Kyc \union {Nil}]
Accounts == acct \in [Account -> AccountRec]

\* The stages are four, none of them is Nil, and they are ranked in their order.
LEMMA StagesAre ==
  /\ Range(AccountStage) = Stages /\ Nil \notin Stages
  /\ Rank(Nil) = 0 /\ Rank("open") = 1 /\ Rank("registered") = 3
  /\ \A s \in Stages : Rank(s) \in 1..4
<1>1. Range(AccountStage) = Stages
  BY DEF Range, AccountStage, Stages
<1>2. Nil \notin Stages
  BY <1>1
<1>3. \A i \in 1..4 : AccountStage[i] = IF i = 1 THEN "open" ELSE IF i = 2 THEN "contacted"
                                        ELSE IF i = 3 THEN "registered" ELSE "converted"
  BY DEF AccountStage
<1>4. ASSUME NEW s \in Stages
      PROVE  Rank(s) \in 1..4 /\ AccountStage[Rank(s)] = s
  <2>1. \E i \in 1..4 : AccountStage[i] = s
    BY <1>3 DEF Stages
  <2>2. Rank(s) = CHOOSE i \in 1..4 : AccountStage[i] = s
    BY <1>2 DEF Rank
  <2> QED  BY <2>1, <2>2
<1>5. {"open", "registered"} \subseteq Stages
  BY DEF Stages
<1>6. Rank("open") = 1 /\ Rank("registered") = 3
  BY <1>3, <1>4, <1>5
<1> QED  BY <1>1, <1>2, <1>4, <1>6 DEF Rank

\* What the website's copy makes of an account.
LEMMA CopiedFacts ==
    ASSUME NEW r \in AccountRec, r.stage \in Stages, NEW p \in Profile
    PROVE  LET n == Advanced(Overlaid(r, p))
           IN  /\ n \in AccountRec
               /\ n.stage = r.stage \/ (n.stage = "registered" /\ Complete(n)
                                         /\ r.stage \in {"open", "contacted"})
               /\ r.kyc \in {"verified", "manual_verified"} => n.kyc # "pending"
<1> DEFINE o == Overlaid(r, p)
           n == Advanced(o)
           k == IF p.kyc = Nil \/ (p.kyc = "pending" /\ r.kyc \in {"verified", "manual_verified"})
                THEN r.kyc ELSE p.kyc
           c == IF p.country = Nil THEN r.country ELSE p.country
<1>1. p \in [country : Country \union {Nil}, full : BOOLEAN,
             numbers : SUBSET IdNumber, kyc : Kyc \union {Nil}]
  OBVIOUS
<1>2. /\ c \in Country \union {Nil} /\ k \in Kyc \union {Nil}
      /\ r.kyc \in {"verified", "manual_verified"} => k # "pending"
  BY <1>1 DEF AccountRec
<1>3. o = [r EXCEPT !.country = c, !.full = @ \/ p.full, !.numbers = @ \union p.numbers, !.kyc = k]
  BY DEF Overlaid
<1> HIDE DEF k, c, o
<1>4. o \in AccountRec /\ o.stage = r.stage /\ o.kyc = k
  BY <1>1, <1>2, <1>3 DEF AccountRec
<1>5. CASE o.stage \in {"open", "contacted"} /\ Complete(o)
  <2>1. n = [o EXCEPT !.stage = "registered"]
    BY <1>5 DEF Advanced
  <2>2. /\ n \in AccountRec /\ n.stage = "registered" /\ n.kyc = o.kyc /\ n.country = o.country
        /\ n.full = o.full /\ n.numbers = o.numbers
    BY <1>4, <2>1 DEF AccountRec, Stages
  <2>3. Complete(n)
    BY <1>5, <2>2 DEF Complete, HasNumber
  <2> QED  BY <1>2, <1>4, <1>5, <2>2, <2>3 DEF o
<1>6. CASE ~(o.stage \in {"open", "contacted"} /\ Complete(o))
  <2>1. n = o
    BY <1>6 DEF Advanced
  <2> QED  BY <1>2, <1>4, <2>1 DEF o
<1> QED  BY <1>5, <1>6

\* The website's copy of an account, on what is stored of it.
LEMMA WebsiteFacts ==
    ASSUME Accounts, NEW a \in Account, NEW p \in Profile, WebsiteSays(a, p)
    PROVE  /\ acct' \in [Account -> AccountRec]
           /\ \A b \in Account : b # a => acct'[b] = acct[b]
           /\ \/ acct'[a].stage = acct[a].stage
              \/ acct'[a].stage = "open" /\ acct[a].stage = Nil
              \/ /\ acct'[a].stage = "registered" /\ Complete(acct'[a])
                 /\ acct[a].stage \in {Nil, "open", "contacted"}
           /\ acct[a].kyc \in {"verified", "manual_verified"} => acct'[a].kyc # "pending"
<1> DEFINE s == IF acct[a].stage = Nil THEN "open" ELSE acct[a].stage
           r == [acct[a] EXCEPT !.stage = s]
           n == Advanced(Overlaid(r, p))
<1>1. acct[a] \in AccountRec
  BY DEF Accounts
<1>2. s \in Stages
  BY <1>1 DEF AccountRec, Stages
<1>3. r \in AccountRec /\ r.stage = s /\ r.kyc = acct[a].kyc
  <2> HIDE DEF s
  <2> QED  BY <1>1, <1>2 DEF AccountRec
<1>4. acct' = [acct EXCEPT ![a] = n]
  BY DEF WebsiteSays
<1> HIDE DEF r
<1>5. /\ n \in AccountRec
      /\ (n.stage = s) \/ (n.stage = "registered" /\ Complete(n) /\ s \in {"open", "contacted"})
      /\ acct[a].kyc \in {"verified", "manual_verified"} => n.kyc # "pending"
  BY <1>2, <1>3, CopiedFacts
<1> HIDE DEF n
<1>6. acct'[a] = n /\ acct' \in [Account -> AccountRec] /\ \A b \in Account : b # a => acct'[b] = acct[b]
  BY <1>4, <1>5 DEF Accounts
<1> QED  BY <1>5, <1>6

\* What Sales saves.
LEMMA SaveFacts ==
    ASSUME Accounts, NEW a \in Account, NEW s \in Range(AccountStage), SaveAccount(a, s)
    PROVE  /\ acct' \in [Account -> AccountRec]
           /\ \A b \in Account : b # a => acct'[b] = acct[b]
           /\ MaySave(acct[a], acct'[a])
<1>1. PICK new : MaySave(acct[a], new) /\ acct' = [acct EXCEPT ![a] = new] /\ new \in AccountRec
  <2> DEFINE r == [acct[a] EXCEPT !.stage = s]
  <2>1. r \in AccountRec
    BY StagesAre DEF Accounts, AccountRec
  <2>2. PICK new : /\ MaySave(acct[a], new) /\ acct' = [acct EXCEPT ![a] = new]
                   /\ \/ new = r \/ \E b \in BOOLEAN : new = [r EXCEPT !.full = b]
                      \/ \E c \in Country \union {Nil} : new = [r EXCEPT !.country = c]
                      \/ \E n \in SUBSET IdNumber : new = [r EXCEPT !.numbers = n]
                      \/ \E k \in Kyc : new = [r EXCEPT !.kyc = k]
    BY DEF SaveAccount
  <2> HIDE DEF r
  <2>3. new \in AccountRec
    BY <2>1, <2>2 DEF AccountRec
  <2> QED  BY <2>2, <2>3
<1> QED  BY <1>1 DEF Accounts

\* No account gets into a gated stage incomplete, and the website never takes back what
\* an account reached or was verified for: for all accounts and whatever is said of them.
THEOREM AccountsOnlyMoveOn == PartnersSpec => AccountsMoveOn
<1> DEFINE Next == \/ AccountsNext /\ UNCHANGED address_vars
                   \/ AddressesNext /\ UNCHANGED account_vars
<1>1. AccountsInit => Accounts
  BY DEF AccountsInit, Accounts, AccountRec
<1>2. Accounts /\ [Next]_partner_vars => Accounts'
  BY WebsiteFacts, SaveFacts DEF AccountsNext, account_vars, partner_vars, Accounts
<1>3. ASSUME Accounts, [Next]_partner_vars, NEW a \in Account,
             acct'[a].stage \in Gated, acct'[a].stage # acct[a].stage
      PROVE  Complete(acct'[a])
  <2>1. CASE AccountsNext
    <3>1. ASSUME NEW b \in Account, NEW p \in Profile, WebsiteSays(b, p) PROVE Complete(acct'[a])
      BY <1>3, <3>1, WebsiteFacts DEF Gated
    <3>2. ASSUME NEW b \in Account, NEW s \in Range(AccountStage), SaveAccount(b, s)
          PROVE  Complete(acct'[a])
      BY <1>3, <3>2, SaveFacts DEF MaySave
    <3> QED  BY <2>1, <3>1, <3>2 DEF AccountsNext
  <2>2. CASE UNCHANGED acct
    BY <1>3, <2>2
  <2> QED  BY <1>3, <2>1, <2>2 DEF account_vars, partner_vars
<1>4. ASSUME Accounts, NEW a \in Account, NEW p \in Profile, WebsiteSays(a, p)
      PROVE  /\ Rank(acct'[a].stage) >= Rank(acct[a].stage)
             /\ acct[a].kyc \in {"verified", "manual_verified"} => acct'[a].kyc # "pending"
  <2>1. acct[a].stage \in Stages \union {Nil}
    BY <1>4 DEF Accounts, AccountRec
  <2>2. Rank("contacted") <= 3
    <3>1. AccountStage[Rank("contacted")] = "contacted" /\ Rank("contacted") \in 1..4
      <4>1. \E i \in 1..4 : AccountStage[i] = "contacted"
        BY DEF AccountStage
      <4>2. Nil # "contacted"
        BY StagesAre DEF Stages
      <4> QED  BY <4>1, <4>2 DEF Rank
    <3>2. AccountStage[4] = "converted"
      BY DEF AccountStage
    <3> QED  BY <3>1, <3>2
  <2> QED  BY <1>4, <2>1, <2>2, StagesAre, WebsiteFacts
<1>5. Accounts /\ [Next]_partner_vars =>
        [\A a \in Account : (acct'[a].stage \in Gated /\ acct'[a].stage # acct[a].stage)
           => Complete(acct'[a])]_partner_vars
  BY <1>3
<1>6. Accounts /\ [Next]_partner_vars =>
        [\A a \in Account : acct'[a] # acct[a] =>
           \A p \in Profile : WebsiteSays(a, p) =>
             /\ Rank(acct'[a].stage) >= Rank(acct[a].stage)
             /\ acct[a].kyc \in {"verified", "manual_verified"} => acct'[a].kyc # "pending"
        ]_partner_vars
  BY <1>4
<1> QED  BY <1>1, <1>2, <1>5, <1>6, PTL
         DEF PartnersSpec, AccountsMoveOn, OnlyCompleteRegister, WebsiteNeverTakesBack

AddressRec == [type : {"delivery", "contact", Nil}, primary : BOOLEAN, person : BOOLEAN,
               text : Text \union {Nil}, active : BOOLEAN]
Box == [Address -> AddressRec]
Shipping == [box : Box, ship : [Sale -> [text : Text \union {Nil}, to : Address \union {Nil}]]]

\* What is a delivery address with a person's name in c, was so in b already.
NoNewNames(b, c) ==
  \A x \in Address : (c[x].type = "delivery" /\ c[x].person) => c[x] = b[x]

\* The same addresses, but for which of them are primary and whom they name.
SameButMarks(b, c) ==
  /\ \A y \in Address : c[y].type = b[y].type /\ c[y].text = b[y].text /\ c[y].active = b[y].active
  /\ NoNewNames(b, c)

\* An address that is written gets or loses the mark, and its name if it is for delivery.
LEMMA MarkedFacts ==
    ASSUME NEW b \in AddressRec, NEW m \in BOOLEAN
    PROVE  /\ Marked(b, m) \in AddressRec /\ Marked(b, m).primary = m
           /\ Marked(b, m).type = b.type /\ Marked(b, m).text = b.text
           /\ Marked(b, m).active = b.active
           /\ Marked(b, m).type = "delivery" => ~Marked(b, m).person
  BY DEF AddressRec, Marked, Scrubbed

\* Taking the mark from the siblings changes nothing but marks and names, and not x.
LEMMA ClearedFacts ==
    ASSUME NEW b \in Box, NEW x \in Address
    PROVE  LET c == SiblingsCleared(b, x)
           IN  c \in Box /\ SameButMarks(b, c) /\ c[x] = b[x]
<1> DEFINE c == SiblingsCleared(b, x)
<1>1. ASSUME NEW y \in Address
      PROVE  /\ c[y] \in AddressRec /\ c[y].type = b[y].type
             /\ c[y].text = b[y].text /\ c[y].active = b[y].active
             /\ (c[y].type = "delivery" /\ c[y].person) => c[y] = b[y]
  <2>1. b[y] \in AddressRec
    BY DEF Box
  <2>2. c[y] = b[y] \/ c[y] = Marked(b[y], FALSE)
    BY DEF SiblingsCleared
  <2> HIDE DEF c
  <2> QED  BY <2>1, <2>2, MarkedFacts
<1>2. c \in Box /\ c[x] = b[x]
  <2>1. c = [y \in Address |-> c[y]]
    BY DEF SiblingsCleared
  <2>2. c[x] = b[x]
    BY DEF SiblingsCleared
  <2> HIDE DEF c
  <2> QED  BY <1>1, <2>1, <2>2 DEF Box
<1> HIDE DEF c
<1>3. SameButMarks(b, c)
  BY <1>1 DEF SameButMarks, NoNewNames
<1> QED  BY <1>2, <1>3 DEF c

\* With the same addresses, the same ones are found and free.
LEMMA SameFound ==
    ASSUME NEW b, NEW c, SameButMarks(b, c)
    PROVE  /\ Fresh(c) = Fresh(b) /\ Deliveries(c) = Deliveries(b)
           /\ \A t : MadeOf(c, t) = MadeOf(b, t)
<1>1. Fresh(c) = Fresh(b) /\ Deliveries(c) = Deliveries(b)
  BY DEF SameButMarks, Fresh, Deliveries
<1>2. \A t : MadeOf(c, t) = MadeOf(b, t)
  <2>1. \A x \in Deliveries(b) : x \in Address
    BY DEF Deliveries
  <2> QED  BY <1>1, <2>1 DEF SameButMarks, MadeOf
<1> QED  BY <1>1, <1>2

\* c has, besides the addresses of b, a new one at the free id x, made of the text t; only
\* the new one may have a name that is new, if it is said to have one.
HasNew(b, c, x, t, named) ==
  /\ c \in Box /\ Fresh(c) = Fresh(b) \ {x}
  /\ \A y \in Address : (c[y].type = "delivery" /\ c[y].person) => (c[y] = b[y] \/ (named /\ y = x))
  /\ c[x].text = t
  /\ \A u : MadeOf(c, u) = IF u = t THEN MadeOf(b, u) \union {x} ELSE MadeOf(b, u)
  /\ Deliveries(c) = Deliveries(b) \union {x}

\* A new address takes a free id and is found by its text.
LEMMA MadeFacts ==
    ASSUME NEW b \in Box, NEW x \in Fresh(b), NEW t \in Text \union {Nil},
           NEW mark \in BOOLEAN, NEW named \in BOOLEAN
    PROVE  HasNew(b, [b EXCEPT ![x] = DeliveryOf(t, mark, named)], x, t, named)
<1> DEFINE a == DeliveryOf(t, mark, named)
           m == [b EXCEPT ![x] = a]
<1>1. x \in Address /\ b[x].type = Nil /\ Nil # "delivery"
  BY DEF Fresh
<1>2. a \in AddressRec /\ a.type = "delivery" /\ a.person = named /\ a.text = t /\ a.active = TRUE
  BY DEF AddressRec, DeliveryOf
<1> HIDE DEF a
<1>4. m \in Box /\ m[x] = a /\ \A y \in Address : y # x => m[y] = b[y]
  BY <1>1, <1>2 DEF Box
<1> HIDE DEF m
<1>5. Fresh(m) = Fresh(b) \ {x}
  BY <1>1, <1>2, <1>4 DEF Fresh
<1>6. Deliveries(m) = Deliveries(b) \union {x}
  BY <1>1, <1>2, <1>4 DEF Deliveries
<1>7. \A u : MadeOf(m, u) = IF u = t THEN MadeOf(b, u) \union {x} ELSE MadeOf(b, u)
  <2>1. x \notin Deliveries(b) /\ Deliveries(b) \subseteq Address
    BY <1>1 DEF Deliveries
  <2>2. m[x].text = t
    BY <1>2, <1>4
  <2> QED  BY <1>4, <1>6, <2>1, <2>2 DEF MadeOf
<1>8. /\ \A y \in Address : (m[y].type = "delivery" /\ m[y].person) => (m[y] = b[y] \/ (named /\ y = x))
      /\ m[x].text = t
  BY <1>2, <1>4
<1> QED  BY <1>4, <1>5, <1>6, <1>7, <1>8 DEF HasNew, m, a

\* A new address that is not primary, and a new primary one.
LEMMA NewFacts ==
    ASSUME NEW b \in Box, NEW x \in Fresh(b), NEW t \in Text \union {Nil},
           NEW mark \in BOOLEAN, NEW named \in BOOLEAN
    PROVE  LET c == WithNew(b, x, t, mark, named)
           IN  HasNew(b, c, x, t, named) /\ (mark => x \in Deliveries(c) /\ c[x].primary)
<1> DEFINE m == [b EXCEPT ![x] = DeliveryOf(t, mark, named)]
           d == SiblingsCleared(m, x)
           c == WithNew(b, x, t, mark, named)
<1>1. c = IF mark THEN d ELSE m
  BY DEF WithNew
<1>2. HasNew(b, m, x, t, named)
  BY MadeFacts
<1>4. x \in Address
  BY DEF Fresh
<1>5. m[x].primary = mark
  BY <1>4 DEF Box, DeliveryOf
<1> HIDE DEF m, c
<1>6. m \in Box
  BY <1>2 DEF HasNew
<1>7. d \in Box /\ SameButMarks(m, d) /\ d[x] = m[x]
  BY <1>4, <1>6, ClearedFacts
<1> HIDE DEF d
<1>8. /\ Fresh(d) = Fresh(m) /\ Deliveries(d) = Deliveries(m)
      /\ \A u : MadeOf(d, u) = MadeOf(m, u)
  BY <1>7, SameFound
<1>9. \A y \in Address : (d[y].type = "delivery" /\ d[y].person) => (d[y] = b[y] \/ (named /\ y = x))
  BY <1>2, <1>7 DEF HasNew, SameButMarks, NoNewNames
<1>10. HasNew(b, d, x, t, named) /\ x \in Deliveries(d)
  BY <1>2, <1>7, <1>8, <1>9 DEF HasNew
<1>11. CASE mark
  BY <1>1, <1>5, <1>7, <1>10, <1>11 DEF c
<1>12. CASE ~mark
  BY <1>1, <1>2, <1>12 DEF c
<1> QED  BY <1>11, <1>12

Found(b, t) == CHOOSE x \in MadeOf(b, t) : TRUE

\* In r the order o is pointed at the address made of its text t; only if s had none, one
\* is made, and takes a free id.
Placed(s, r, o, t) ==
  /\ r \in Shipping
  /\ NoNewNames(s.box, r.box)
  /\ r.ship = [s.ship EXCEPT ![o].to = Found(r.box, t)]
  /\ MadeOf(r.box, t) # {}
  /\ \A u : u # t => MadeOf(r.box, u) = MadeOf(s.box, u)
  /\ MadeOf(s.box, t) # {} => r.box = s.box
  /\ MadeOf(s.box, t) = {} => \E x \in Fresh(s.box) : Fresh(r.box) = Fresh(s.box) \ {x}

\* That is what the platform's address does to an order with a usable text.
LEMMA PlacedFacts ==
    ASSUME NEW s \in Shipping, NEW o \in Sale, NEW t \in Text \ Junk,
           MadeOf(s.box, t) = {} => Fresh(s.box) # {}
    PROVE  Placed(s, Addressed(s, o, t), o, t)
<1> DEFINE r == Addressed(s, o, t)
<1>1. s.box \in Box /\ s.ship \in [Sale -> [text : Text \union {Nil}, to : Address \union {Nil}]]
  BY DEF Shipping
<1>2. \A b \in Box : MadeOf(b, t) \subseteq Address
  BY DEF MadeOf, Deliveries
<1>3. \A x \in Address : [s.ship EXCEPT ![o].to = x] \in [Sale -> [text : Text \union {Nil}, to : Address \union {Nil}]]
  BY <1>1
<1>4. CASE MadeOf(s.box, t) # {}
  <2>1. r = [s EXCEPT !.ship[o].to = Found(s.box, t)]
    BY <1>4 DEF Addressed, Found
  <2>2. Found(s.box, t) \in Address
    BY <1>1, <1>2, <1>4 DEF Found
  <2>3. r.box = s.box /\ r.ship = [s.ship EXCEPT ![o].to = Found(s.box, t)]
    BY <2>1 DEF Shipping
  <2>4. r \in Shipping
    BY <1>1, <1>3, <2>1, <2>2, <2>3 DEF Shipping
  <2> HIDE DEF r
  <2>5. /\ NoNewNames(s.box, r.box)
        /\ r.ship = [s.ship EXCEPT ![o].to = Found(r.box, t)]
        /\ MadeOf(r.box, t) # {}
        /\ \A u : u # t => MadeOf(r.box, u) = MadeOf(s.box, u)
        /\ MadeOf(s.box, t) # {} => r.box = s.box
    BY <1>4, <2>3 DEF NoNewNames
  <2> QED  BY <1>4, <2>4, <2>5 DEF r, Placed
<1>5. CASE MadeOf(s.box, t) = {}
  <2> DEFINE x == CHOOSE y \in Fresh(s.box) : TRUE
             c == WithNew(s.box, x, t, FALSE, FALSE)
  <2>1. x \in Fresh(s.box) /\ x \in Address
    BY <1>5 DEF Fresh
  <2>2. r = [box |-> c, ship |-> [s.ship EXCEPT ![o].to = x]]
    BY <1>5 DEF Addressed
  <2> HIDE DEF x
  <2>3. /\ c \in Box /\ Fresh(c) = Fresh(s.box) \ {x}
        /\ NoNewNames(s.box, c)
        /\ \A u : MadeOf(c, u) = IF u = t THEN MadeOf(s.box, u) \union {x} ELSE MadeOf(s.box, u)
    <3>1. HasNew(s.box, c, x, t, FALSE)
      BY <1>1, <2>1, NewFacts
    <3> QED  BY <3>1 DEF HasNew, NoNewNames
  <2> HIDE DEF c
  <2>4. MadeOf(c, t) = {x} /\ \A u : u # t => MadeOf(c, u) = MadeOf(s.box, u)
    BY <1>5, <2>3
  <2>5. Found(c, t) = x
    BY <2>4 DEF Found
  <2>6. r \in Shipping
    BY <1>3, <2>1, <2>2, <2>3 DEF Shipping
  <2>7. r.box = c /\ r.ship = [s.ship EXCEPT ![o].to = x]
    BY <2>2
  <2> HIDE DEF r
  <2>8. /\ NoNewNames(s.box, r.box)
        /\ r.ship = [s.ship EXCEPT ![o].to = Found(r.box, t)]
        /\ MadeOf(r.box, t) # {}
        /\ \A u : u # t => MadeOf(r.box, u) = MadeOf(s.box, u)
        /\ \E y \in Fresh(s.box) : Fresh(r.box) = Fresh(s.box) \ {y}
    BY <2>1, <2>3, <2>4, <2>5, <2>7
  <2> QED  BY <1>5, <2>6, <2>8 DEF r, Placed
<1> QED  BY <1>4, <1>5

\* What the conversion makes of the orders in u, if f has what it makes of fewer.
TextStep(s, f, u) ==
  IF u = {} THEN s
  ELSE LET o == CHOOSE o \in u : TRUE
       IN  Addressed(f[u \ {o}], o, f[u \ {o}].ship[o].text)
Texts(s, f, U) == f = [u \in U |-> TextStep(s, f, u)]
Usable(s) == {o \in Sale : s.ship[o].text \notin Junk \union {Nil}}

\* The conversion is defined for every set of orders, one after the other.
LEMMA TextsRun ==
    ASSUME NEW s
    PROVE  \E f : Texts(s, f, SUBSET Usable(s)) /\ TextsConverted(s) = f[Usable(s)]
<1> DEFINE S == Usable(s)
           N == Cardinality(S)
           K == {n \in 0..N : \E f : Texts(s, f, Small(S, n))}
<1>0. IsFiniteSet(S)
  BY FS_Subset DEF Usable
<1>1. N \in Nat
  BY <1>0, FS_CardinalityType
<1>2. 0 \in K
  <2> DEFINE f == [u \in Small(S, 0) |-> s]
  <2>1. ASSUME NEW u \in Small(S, 0) PROVE TextStep(s, f, u) = s
    <3>1. u = {}
      <4>1. IsFiniteSet(u) /\ Cardinality(u) <= 0
        BY <1>0, FS_Subset DEF Small
      <4> QED  BY <4>1, FS_CardinalityType, FS_EmptySet
    <3> QED  BY <3>1 DEF TextStep
  <2>2. Texts(s, f, Small(S, 0))
    BY <2>1 DEF Texts
  <2> QED  BY <1>1, <2>2
<1>3. ASSUME NEW n \in 0..N, n # N, n \in K PROVE n + 1 \in K
  <2>1. PICK f : Texts(s, f, Small(S, n))
    BY <1>3
  <2> DEFINE h == [u \in Small(S, n + 1) |-> IF Cardinality(u) <= n THEN f[u] ELSE TextStep(s, f, u)]
  <2>2. ASSUME NEW u \in Small(S, n + 1) PROVE h[u] = TextStep(s, h, u)
    <3>1. u \in SUBSET S /\ Cardinality(u) <= n + 1
      BY DEF Small
    <3>2. TextStep(s, h, u) = TextStep(s, f, u)
      <4>1. CASE u = {}
        BY <4>1 DEF TextStep
      <4>2. CASE u # {}
        <5> DEFINE o == CHOOSE o \in u : TRUE
        <5>1. u \ {o} \in SUBSET S /\ Cardinality(u \ {o}) <= n /\ Cardinality(u \ {o}) <= n + 1
          BY <1>0, <1>1, <1>3, <3>1, <4>2, OneLess
        <5>2. h[u \ {o}] = f[u \ {o}]
          BY <5>1 DEF Small
        <5> HIDE DEF h
        <5> QED  BY <4>2, <5>2 DEF TextStep
      <4> QED  BY <4>1, <4>2
    <3>3. CASE Cardinality(u) <= n
      <4>1. u \in Small(S, n)
        BY <3>1, <3>3 DEF Small
      <4>2. f[u] = TextStep(s, f, u)
        BY <2>1, <4>1 DEF Texts
      <4> QED  BY <3>2, <3>3, <4>2
    <3>4. CASE ~(Cardinality(u) <= n)
      <4>1. h[u] = TextStep(s, f, u)
        BY <3>4
      <4> HIDE DEF h
      <4> QED  BY <3>2, <4>1
    <3> QED  BY <3>3, <3>4
  <2>3. h = [u \in Small(S, n + 1) |-> h[u]]
    OBVIOUS
  <2> HIDE DEF h
  <2>4. Texts(s, h, Small(S, n + 1))
    BY <2>2, <2>3 DEF Texts
  <2>5. n + 1 \in 0..N
    BY <1>1, <1>3
  <2> QED  BY <2>4, <2>5
<1> HIDE DEF K
<1>4. 0..N \subseteq K
  BY <1>1, <1>2, <1>3, UpTo
<1>5. Small(S, N) = SUBSET S
  <2>1. ASSUME NEW u \in SUBSET S PROVE Cardinality(u) <= N
    BY <1>0, FS_Subset
  <2> QED  BY <2>1 DEF Small
<1>6. \E f : Texts(s, f, SUBSET S)
  <2>1. N \in K
    BY <1>1, <1>4
  <2>2. \E f : Texts(s, f, Small(S, N))
    BY <2>1 DEF K
  <2> QED  BY <1>5, <2>2
<1> DEFINE f == CHOOSE f : f = [u \in SUBSET S |-> TextStep(s, f, u)]
<1>7. f = [u \in SUBSET S |-> TextStep(s, f, u)]
  BY <1>6 DEF Texts
<1>8. TextsConverted(s) = f[S]
  BY DEF TextsConverted, FoldSet, MapThenFoldSet, TextStep, Usable
<1> HIDE DEF f
<1> QED  BY <1>7, <1>8 DEF Texts

\* The texts of the orders, and those that no address is made of.
TextsOf(s) == {s.ship[o].text : o \in Sale}
Missing(s, b) == {t \in TextsOf(s) : MadeOf(b, t) = {}}

\* There are finitely many texts and ids.
LEMMA FiniteTexts ==
    ASSUME NEW s, NEW b
    PROVE  /\ IsFiniteSet(TextsOf(s)) /\ IsFiniteSet(Missing(s, b)) /\ IsFiniteSet(Fresh(b))
           /\ Cardinality(TextsOf(s)) \in Nat /\ Cardinality(Missing(s, b)) \in Nat
           /\ Cardinality(Fresh(b)) \in Nat
           /\ Cardinality(Missing(s, b)) <= Cardinality(TextsOf(s))
<1> DEFINE g == [o \in Sale |-> s.ship[o].text]
<1>1. g \in Surjection(Sale, TextsOf(s))
  BY DEF Surjection, TextsOf
<1>2. IsFiniteSet(TextsOf(s))
  BY <1>1, FS_Surjection
<1>3. Missing(s, b) \subseteq TextsOf(s) /\ Fresh(b) \subseteq Address
  BY DEF Missing, Fresh
<1>4. IsFiniteSet(Missing(s, b)) /\ Cardinality(Missing(s, b)) <= Cardinality(TextsOf(s))
  BY <1>2, <1>3, FS_Subset
<1>5. IsFiniteSet(Fresh(b))
  BY <1>3, FS_Subset
<1> QED  BY <1>2, <1>4, <1>5, FS_CardinalityType

\* What the conversion of the orders in u has done: each is pointed at the address made of
\* its text, and there are still more free ids than texts without an address.
Converted(s, r, u) ==
  /\ r \in Shipping
  /\ NoNewNames(s.box, r.box)
  /\ \A o \in Sale : r.ship[o].text = s.ship[o].text
  /\ \A o \in u : /\ MadeOf(r.box, s.ship[o].text) # {}
                  /\ r.ship[o].to = Found(r.box, s.ship[o].text)
  /\ Cardinality(Fresh(r.box)) > Cardinality(Missing(s, r.box))

\* One more order is converted.
LEMMA ConvertOne ==
    ASSUME NEW s \in Shipping, NEW u \in SUBSET Usable(s), NEW r, Converted(s, r, u),
           NEW o \in Usable(s)
    PROVE  Converted(s, Addressed(r, o, r.ship[o].text), u \union {o})
<1> DEFINE t == s.ship[o].text
           n == Addressed(r, o, t)
<1>1. o \in Sale /\ t \in Text \ Junk /\ r.ship[o].text = t /\ r \in Shipping
  <2>1. s.ship[o].text \in Text \union {Nil}
    BY DEF Usable, Shipping
  <2> QED  BY <2>1 DEF Usable, Converted
<1>2. /\ IsFiniteSet(Missing(s, r.box)) /\ IsFiniteSet(Fresh(r.box))
      /\ Cardinality(Missing(s, r.box)) \in Nat /\ Cardinality(Fresh(r.box)) \in Nat
  BY FiniteTexts
<1>3. Cardinality(Fresh(r.box)) > Cardinality(Missing(s, r.box))
  BY DEF Converted
<1>4. Fresh(r.box) # {} /\ (MadeOf(r.box, t) = {} => t \in Missing(s, r.box))
  <2>1. Cardinality(Fresh(r.box)) # 0
    BY <1>2, <1>3
  <2>2. Fresh(r.box) # {}
    BY <2>1, FS_EmptySet
  <2>3. t \in TextsOf(s)
    BY <1>1 DEF TextsOf
  <2> QED  BY <2>2, <2>3 DEF Missing
<1> HIDE DEF t
<1>0. Placed(r, n, o, t)
  BY <1>1, <1>4, PlacedFacts
<1> HIDE DEF n
<1>5. /\ n \in Shipping
      /\ NoNewNames(r.box, n.box)
      /\ n.ship = [r.ship EXCEPT ![o].to = Found(n.box, t)]
      /\ MadeOf(n.box, t) # {}
      /\ \A v : v # t => MadeOf(n.box, v) = MadeOf(r.box, v)
      /\ MadeOf(r.box, t) # {} => n.box = r.box
      /\ MadeOf(r.box, t) = {} => \E x \in Fresh(r.box) : Fresh(n.box) = Fresh(r.box) \ {x}
  BY <1>0 DEF Placed
<1>6. r.ship \in [Sale -> [text : Text \union {Nil}, to : Address \union {Nil}]]
  BY <1>1 DEF Shipping
<1>7. \A p \in Sale : n.ship[p].text = r.ship[p].text /\ (p # o => n.ship[p] = r.ship[p])
  BY <1>1, <1>5, <1>6
<1>8. n.ship[o].to = Found(n.box, t)
  BY <1>1, <1>5, <1>6
<1>9. ASSUME NEW p \in u \union {o}
      PROVE  MadeOf(n.box, s.ship[p].text) # {} /\ n.ship[p].to = Found(n.box, s.ship[p].text)
  <2>1. CASE p = o
    BY <1>5, <1>8, <2>1 DEF t
  <2>2. CASE p # o
    <3>1. /\ p \in Sale /\ n.ship[p].to = r.ship[p].to /\ s.ship[p].text \in Text
          /\ MadeOf(r.box, s.ship[p].text) # {}
          /\ r.ship[p].to = Found(r.box, s.ship[p].text)
      <4>1. p \in u /\ p \in Sale /\ s.ship[p].text \notin Junk \union {Nil}
        BY <2>2 DEF Usable
      <4>2. s.ship[p].text \in Text \union {Nil}
        BY <4>1 DEF Shipping
      <4> QED  BY <1>7, <2>2, <4>1, <4>2 DEF Converted
    <3>2. MadeOf(n.box, s.ship[p].text) = MadeOf(r.box, s.ship[p].text)
      BY <1>5, <3>1
    <3>3. Found(n.box, s.ship[p].text) = Found(r.box, s.ship[p].text)
      BY <3>2 DEF Found
    <3> QED  BY <3>1, <3>2, <3>3
  <2> QED  BY <2>1, <2>2
<1>10. Cardinality(Fresh(n.box)) > Cardinality(Missing(s, n.box))
  <2>1. CASE MadeOf(r.box, t) # {}
    BY <1>3, <1>5, <2>1
  <2>2. CASE MadeOf(r.box, t) = {}
    <3>1. Cardinality(Fresh(n.box)) = Cardinality(Fresh(r.box)) - 1
      <4>1. PICK x \in Fresh(r.box) : Fresh(n.box) = Fresh(r.box) \ {x}
        BY <1>5, <2>2
      <4>2. Cardinality(Fresh(r.box) \ {x}) = Cardinality(Fresh(r.box)) - 1
        BY <1>2, FS_RemoveElement
      <4> QED  BY <4>1, <4>2
    <3>2. Missing(s, n.box) \subseteq Missing(s, r.box) \ {t}
      <4>1. ASSUME NEW v \in Missing(s, n.box) PROVE v \in Missing(s, r.box) /\ v # t
        <5>1. v \in TextsOf(s) /\ MadeOf(n.box, v) = {}
          BY DEF Missing
        <5>2. v # t
          BY <1>5, <5>1
        <5>3. MadeOf(r.box, v) = {}
          BY <1>5, <5>1, <5>2
        <5> QED  BY <5>1, <5>2, <5>3 DEF Missing
      <4> QED  BY <4>1
    <3>3. /\ IsFiniteSet(Missing(s, r.box) \ {t})
          /\ Cardinality(Missing(s, r.box) \ {t}) = Cardinality(Missing(s, r.box)) - 1
      BY <1>2, <1>4, <2>2, FS_RemoveElement
    <3>4. Cardinality(Missing(s, n.box)) <= Cardinality(Missing(s, r.box) \ {t})
      BY <3>2, <3>3, FS_Subset
    <3>5. Cardinality(Missing(s, n.box)) \in Nat /\ Cardinality(Fresh(n.box)) \in Nat
      BY FiniteTexts
    <3> QED  BY ONLY <1>2, <1>3, <3>1, <3>3, <3>4, <3>5
  <2> QED  BY <2>1, <2>2
<1>11. NoNewNames(s.box, n.box)
  BY <1>5 DEF Converted, NoNewNames
<1> QED  BY <1>1, <1>5, <1>7, <1>9, <1>10, <1>11 DEF Converted, n

\* The room to migrate is enough for the texts.
Roomy(s) == Cardinality(Fresh(s.box)) > Cardinality(TextsOf(s))

\* The conversion of all usable texts.
LEMMA TextsFacts ==
    ASSUME NEW s \in Shipping, Roomy(s)
    PROVE  Converted(s, TextsConverted(s), Usable(s))
<1> DEFINE S == Usable(s)
           N == Cardinality(S)
<1>1. PICK f : Texts(s, f, SUBSET S) /\ TextsConverted(s) = f[S]
  BY TextsRun
<1> DEFINE K == {n \in 0..N : \A u \in Small(S, n) : Converted(s, f[u], u)}
<1>2. IsFiniteSet(S) /\ N \in Nat
  BY FS_Subset, FS_CardinalityType DEF Usable
<1>3. \A u \in SUBSET S : f[u] = TextStep(s, f, u)
  BY <1>1 DEF Texts
<1>4. Converted(s, f[{}], {})
  <2>1. f[{}] = s
    BY <1>3 DEF TextStep
  <2>2. Cardinality(Fresh(s.box)) > Cardinality(Missing(s, s.box))
    BY FiniteTexts DEF Roomy
  <2> QED  BY <2>1, <2>2 DEF Converted, NoNewNames
<1>5. 0 \in K
  <2>1. ASSUME NEW u \in Small(S, 0) PROVE Converted(s, f[u], u)
    <3>1. IsFiniteSet(u) /\ Cardinality(u) <= 0
      BY <1>2, FS_Subset DEF Small
    <3>2. u = {}
      BY <3>1, FS_CardinalityType, FS_EmptySet
    <3> QED  BY <1>4, <3>2
  <2>2. 0 \in 0..N
    BY <1>2
  <2> QED  BY <2>1, <2>2
<1>6. ASSUME NEW n \in 0..N, n # N, n \in K PROVE n + 1 \in K
  <2>1. ASSUME NEW u \in Small(S, n + 1) PROVE Converted(s, f[u], u)
    <3>1. u \in SUBSET S /\ Cardinality(u) <= n + 1
      BY DEF Small
    <3>2. CASE u = {}
      BY <1>4, <3>2
    <3>3. CASE u # {}
      <4> DEFINE o == CHOOSE o \in u : TRUE
                 v == u \ {o}
      <4>1. o \in u /\ v \in SUBSET S /\ Cardinality(v) <= n
        BY <1>2, <1>6, <3>1, <3>3, OneLess
      <4>2. f[u] = Addressed(f[v], o, f[v].ship[o].text)
        BY <1>3, <3>1, <3>3 DEF TextStep
      <4> HIDE DEF o
      <4>3. Converted(s, f[v], v)
        BY <1>6, <4>1 DEF Small
      <4>4. u = v \union {o} /\ o \in S
        BY <3>1, <4>1
      <4> HIDE DEF v
      <4>5. Converted(s, Addressed(f[v], o, f[v].ship[o].text), v \union {o})
        BY <4>1, <4>3, <4>4, ConvertOne
      <4> QED  BY <4>2, <4>4, <4>5
    <3> QED  BY <3>2, <3>3
  <2>2. n + 1 \in 0..N
    BY <1>2, <1>6
  <2> QED  BY <2>1, <2>2
<1> HIDE DEF K
<1>7. N \in K
  BY <1>2, <1>5, <1>6, UpTo
<1>8. S \in Small(S, N)
  BY <1>2 DEF Small
<1> QED  BY <1>1, <1>7, <1>8 DEF K

\* Where every order is pointed at the address made of its text, there is nothing to convert.
LEMMA TextsSettled ==
    ASSUME NEW s \in Shipping,
           \A o \in Usable(s) : /\ MadeOf(s.box, s.ship[o].text) # {}
                                /\ s.ship[o].to = Found(s.box, s.ship[o].text)
    PROVE  TextsConverted(s) = s
<1> DEFINE S == Usable(s)
           N == Cardinality(S)
<1>1. PICK f : Texts(s, f, SUBSET S) /\ TextsConverted(s) = f[S]
  BY TextsRun
<1> DEFINE K == {n \in 0..N : \A u \in Small(S, n) : f[u] = s}
<1>2. IsFiniteSet(S) /\ N \in Nat
  BY FS_Subset, FS_CardinalityType DEF Usable
<1>3. \A u \in SUBSET S : f[u] = TextStep(s, f, u)
  BY <1>1 DEF Texts
<1>4. f[{}] = s
  BY <1>3 DEF TextStep
<1>5. 0 \in K
  <2>1. ASSUME NEW u \in Small(S, 0) PROVE f[u] = s
    <3>1. IsFiniteSet(u) /\ Cardinality(u) <= 0
      BY <1>2, FS_Subset DEF Small
    <3>2. u = {}
      BY <3>1, FS_CardinalityType, FS_EmptySet
    <3> QED  BY <1>4, <3>2
  <2>2. 0 \in 0..N
    BY <1>2
  <2> QED  BY <2>1, <2>2
<1>6. ASSUME NEW n \in 0..N, n # N, n \in K PROVE n + 1 \in K
  <2>1. ASSUME NEW u \in Small(S, n + 1) PROVE f[u] = s
    <3>1. u \in SUBSET S /\ Cardinality(u) <= n + 1
      BY DEF Small
    <3>2. CASE u = {}
      BY <1>4, <3>2
    <3>3. CASE u # {}
      <4> DEFINE o == CHOOSE o \in u : TRUE
                 v == u \ {o}
      <4>1. o \in u /\ v \in SUBSET S /\ Cardinality(v) <= n
        BY <1>2, <1>6, <3>1, <3>3, OneLess
      <4>2. f[u] = Addressed(f[v], o, f[v].ship[o].text)
        BY <1>3, <3>1, <3>3 DEF TextStep
      <4> HIDE DEF o
      <4>3. f[v] = s
        BY <1>6, <4>1 DEF Small
      <4>4. f[u] = Addressed(s, o, s.ship[o].text)
        BY <4>2, <4>3
      <4>5. /\ o \in Sale /\ s.ship[o].text \notin Junk
            /\ MadeOf(s.box, s.ship[o].text) # {}
            /\ s.ship[o].to = Found(s.box, s.ship[o].text)
        BY <3>1, <4>1 DEF Usable
      <4>6. Addressed(s, o, s.ship[o].text) = [s EXCEPT !.ship[o].to = s.ship[o].to]
        BY <4>5 DEF Addressed, Found
      <4>7. [s EXCEPT !.ship[o].to = s.ship[o].to] = s
        BY <4>5 DEF Shipping
      <4> QED  BY <4>4, <4>6, <4>7
    <3> QED  BY <3>2, <3>3
  <2>2. n + 1 \in 0..N
    BY <1>2, <1>6
  <2> QED  BY <2>1, <2>2
<1> HIDE DEF K
<1>7. N \in K
  BY <1>2, <1>5, <1>6, UpTo
<1>8. S \in Small(S, N)
  BY <1>2 DEF Small
<1> QED  BY <1>1, <1>7, <1>8 DEF K

\* After the account's own shipping address is converted there is a primary address, and
\* the orders' texts still have theirs.
BlockSettled(r, n) ==
  /\ n \in Shipping /\ n.ship = r.ship
  /\ NoNewNames(r.box, n.box)
  /\ \E x \in Deliveries(n.box) : n.box[x].primary
  /\ \A t : MadeOf(r.box, t) # {} => MadeOf(n.box, t) = MadeOf(r.box, t)

\* The conversion of the account's own shipping address, where an id is free.
LEMMA BlockFacts ==
    ASSUME NEW r \in Shipping, Fresh(r.box) # {}, NEW block \in Text
    PROVE  BlockSettled(r, BlockConverted(r, block))
<1> DEFINE n == BlockConverted(r, block)
<1>1. r.box \in Box /\ r = [box |-> r.box, ship |-> r.ship]
      /\ r.ship \in [Sale -> [text : Text \union {Nil}, to : Address \union {Nil}]]
  BY DEF Shipping
<1>2. CASE \E x \in Deliveries(r.box) : r.box[x].primary
  <2>1. n = r
    BY <1>2 DEF BlockConverted
  <2> QED  BY <1>2, <2>1 DEF BlockSettled, NoNewNames
<1>3. CASE ~(\E x \in Deliveries(r.box) : r.box[x].primary) /\ MadeOf(r.box, block) # {}
  <2> DEFINE x == CHOOSE y \in MadeOf(r.box, block) : TRUE
             a == Marked(r.box[x], TRUE)
             m == [r.box EXCEPT ![x] = a]
             c == SiblingsCleared(m, x)
  <2>1. x \in MadeOf(r.box, block) /\ x \in Deliveries(r.box) /\ x \in Address
    <3>1. x \in MadeOf(r.box, block)
      BY <1>3
    <3> QED  BY <3>1 DEF MadeOf, Deliveries
  <2>2. n = [r EXCEPT !.box = c]
    BY <1>3 DEF BlockConverted
  <2> HIDE DEF x
  <2>3. m \in Box /\ SameButMarks(r.box, m) /\ m[x].primary
    <3>1. r.box[x] \in AddressRec
      BY <1>1, <2>1 DEF Box
    <3>5. a \in AddressRec /\ a.primary /\ a.type = r.box[x].type /\ a.text = r.box[x].text
          /\ a.active = r.box[x].active /\ (a.type = "delivery" => ~a.person)
      BY <3>1, MarkedFacts
    <3> HIDE DEF a
    <3>6. m[x] = a /\ \A y \in Address : y # x => m[y] = r.box[y]
      BY <1>1, <2>1 DEF Box
    <3>7. m \in Box
      BY <1>1, <2>1, <3>5 DEF Box
    <3> HIDE DEF m
    <3> QED  BY <3>5, <3>6, <3>7 DEF SameButMarks, NoNewNames
  <2> HIDE DEF m
  <2>4. c \in Box /\ SameButMarks(m, c) /\ c[x] = m[x]
    BY <2>1, <2>3, ClearedFacts
  <2> HIDE DEF c
  <2>5. SameButMarks(r.box, c)
    BY <2>3, <2>4 DEF SameButMarks, NoNewNames
  <2>6. /\ Deliveries(c) = Deliveries(r.box) /\ NoNewNames(r.box, c)
        /\ \A t : MadeOf(c, t) = MadeOf(r.box, t)
    BY <2>5, SameFound DEF SameButMarks
  <2>7. n = [box |-> c, ship |-> r.ship]
    BY <1>1, <2>2
  <2>8. n \in Shipping /\ n.box = c /\ n.ship = r.ship
    BY <1>1, <2>4, <2>7 DEF Shipping
  <2> HIDE DEF n
  <2> QED  BY <2>1, <2>3, <2>4, <2>6, <2>8 DEF BlockSettled, n
<1>4. CASE ~(\E x \in Deliveries(r.box) : r.box[x].primary) /\ MadeOf(r.box, block) = {}
  <2> DEFINE x == CHOOSE y \in Fresh(r.box) : TRUE
             c == WithNew(r.box, x, block, TRUE, FALSE)
  <2>1. x \in Fresh(r.box)
    OBVIOUS
  <2>2. n = [r EXCEPT !.box = c]
    BY <1>4 DEF BlockConverted
  <2> HIDE DEF x
  <2>3. HasNew(r.box, c, x, block, FALSE) /\ x \in Deliveries(c) /\ c[x].primary
    BY <1>1, <2>1, NewFacts
  <2> HIDE DEF c
  <2>4. /\ c \in Box /\ NoNewNames(r.box, c)
        /\ \A t : MadeOf(c, t) = IF t = block THEN MadeOf(r.box, t) \union {x} ELSE MadeOf(r.box, t)
    BY <2>3 DEF HasNew, NoNewNames
  <2>5. n = [box |-> c, ship |-> r.ship]
    BY <1>1, <2>2
  <2>6. n \in Shipping /\ n.box = c /\ n.ship = r.ship
    BY <1>1, <2>4, <2>5 DEF Shipping
  <2>7. ASSUME NEW t, MadeOf(r.box, t) # {} PROVE MadeOf(c, t) = MadeOf(r.box, t)
    BY <1>4, <2>4, <2>7
  <2> HIDE DEF n
  <2> QED  BY <2>3, <2>4, <2>6, <2>7 DEF BlockSettled, n
<1> QED  BY <1>2, <1>3, <1>4

\* The migration: it leaves no name on what it writes, and another one right after it
\* changes nothing.
LEMMA MigratedFacts ==
    ASSUME NEW s \in Shipping, Roomy(s), NEW block \in Text
    PROVE  /\ Migrated(s, block) \in Shipping
           /\ NoNewNames(s.box, Migrated(s, block).box)
           /\ Migrated(Migrated(s, block), block) = Migrated(s, block)
<1> DEFINE r == TextsConverted(s)
           n == BlockConverted(r, block)
<1>1. Converted(s, r, Usable(s))
  BY TextsFacts
<1>2. Migrated(s, block) = n
  BY DEF Migrated
<1> HIDE DEF r
<1>3. r \in Shipping /\ NoNewNames(s.box, r.box) /\ Fresh(r.box) # {}
  <2>1. Cardinality(Fresh(r.box)) > Cardinality(Missing(s, r.box))
    BY <1>1 DEF Converted
  <2>2. Cardinality(Fresh(r.box)) \in Nat /\ Cardinality(Missing(s, r.box)) \in Nat
    BY FiniteTexts
  <2>3. Cardinality(Fresh(r.box)) # 0
    BY <2>1, <2>2
  <2>4. Fresh(r.box) # {}
    BY <2>3, FS_EmptySet
  <2> QED  BY <1>1, <2>4 DEF Converted
<1>4. BlockSettled(r, n)
  BY <1>3, BlockFacts
<1> HIDE DEF n
<1>5. n \in Shipping /\ n.ship = r.ship /\ NoNewNames(r.box, n.box)
      /\ (\E x \in Deliveries(n.box) : n.box[x].primary)
      /\ \A t : MadeOf(r.box, t) # {} => MadeOf(n.box, t) = MadeOf(r.box, t)
  BY <1>4 DEF BlockSettled
<1>6. ASSUME NEW o \in Usable(n)
      PROVE  MadeOf(n.box, n.ship[o].text) # {} /\ n.ship[o].to = Found(n.box, n.ship[o].text)
  <2>1. o \in Sale /\ n.ship[o].text \notin Junk \union {Nil}
    BY DEF Usable
  <2>2. n.ship[o].text = s.ship[o].text /\ n.ship[o].to = r.ship[o].to
    BY <1>1, <1>5, <2>1 DEF Converted
  <2>3. o \in Usable(s)
    BY <2>1, <2>2 DEF Usable
  <2>4. MadeOf(r.box, s.ship[o].text) # {} /\ r.ship[o].to = Found(r.box, s.ship[o].text)
    BY <1>1, <2>3 DEF Converted
  <2>5. MadeOf(n.box, s.ship[o].text) = MadeOf(r.box, s.ship[o].text)
    BY <1>5, <2>4
  <2>6. Found(n.box, s.ship[o].text) = Found(r.box, s.ship[o].text)
    BY <2>5 DEF Found
  <2> QED  BY <2>2, <2>4, <2>5, <2>6
<1>7. TextsConverted(n) = n
  BY <1>5, <1>6, TextsSettled
<1>8. Migrated(n, block) = n
  BY <1>5, <1>7 DEF Migrated, BlockConverted
<1>9. NoNewNames(s.box, n.box)
  BY <1>3, <1>5 DEF NoNewNames
<1> QED  BY <1>2, <1>5, <1>8, <1>9

\* The customer's addresses and the orders' choice of them are well formed.
AddressInv ==
  /\ box \in Box
  /\ shipTo \in [Sale -> [text : Text \union {Nil}, to : Address \union {Nil}]]

\* What an address is replaced with decides whether it has a name.
LEMMA OneReplaced ==
    ASSUME NEW b \in Box, NEW x \in Address, NEW a \in AddressRec,
           a.type = "delivery" => ~a.person
    PROVE  [b EXCEPT ![x] = a] \in Box /\ NoNewNames(b, [b EXCEPT ![x] = a])
<1> DEFINE c == [b EXCEPT ![x] = a]
<1>1. c \in Box
  BY DEF Box
<1>2. c[x] = a /\ \A y \in Address : y # x => c[y] = b[y]
  BY DEF Box
<1> HIDE DEF c
<1>3. NoNewNames(b, c)
  BY <1>2 DEF NoNewNames
<1> QED  BY <1>1, <1>3 DEF c

\* Whatever is done to the addresses, they stay so, and no write leaves a name.
LEMMA AddressStep ==
    ASSUME AddressInv, AddressesNext PROVE AddressInv' /\ Unnamed(box, box')
<1> DEFINE s == [box |-> box, ship |-> shipTo]
           Quiet == box' \in Box /\ NoNewNames(box, box')
<1>1. box \in Box /\ shipTo \in [Sale -> [text : Text \union {Nil}, to : Address \union {Nil}]]
  BY DEF AddressInv
<1>2. s \in Shipping /\ s.box = box /\ s.ship = shipTo
  BY <1>1 DEF Shipping
<1>3. Quiet => box' \in Box /\ Unnamed(box, box')
  BY DEF NoNewNames, Unnamed
<1> SUFFICES box' \in Box /\ Unnamed(box, box')
             /\ shipTo' \in [Sale -> [text : Text \union {Nil}, to : Address \union {Nil}]]
  BY DEF AddressInv
<1>4. ASSUME NEW x \in Address, NEW mark \in BOOLEAN, NEW named \in BOOLEAN,
             EnterAddress(x, mark, named)
      PROVE  box' \in Box /\ Unnamed(box, box') /\ shipTo' = shipTo
  <2>1. x \in Fresh(box) /\ shipTo' = shipTo /\ box' = WithNew(box, x, Nil, mark, named)
    BY <1>4 DEF EnterAddress
  <2>2. HasNew(box, box', x, Nil, named)
    BY <1>1, <2>1, NewFacts
  <2>3. box[x].type = Nil
    BY <2>1 DEF Fresh
  <2> QED  BY <2>1, <2>2, <2>3 DEF HasNew, Unnamed
<1>5. ASSUME NEW x \in Address, NEW t \in {"delivery", "contact"}, NEW p \in BOOLEAN,
             EditAddress(x, t, p)
      PROVE  Quiet /\ shipTo' = shipTo
  <2> DEFINE a == Scrubbed([box[x] EXCEPT !.type = t, !.person = p])
  <2>1. box[x] \in AddressRec
    BY <1>1 DEF Box
  <2>2. a \in AddressRec /\ (a.type = "delivery" => ~a.person)
    BY <2>1 DEF AddressRec, Scrubbed
  <2>3. box' = [box EXCEPT ![x] = a] /\ shipTo' = shipTo
    BY <1>5 DEF EditAddress
  <2> HIDE DEF a
  <2> QED  BY <1>1, <2>2, <2>3, OneReplaced
<1>6. ASSUME NEW x \in Address, Archive(x)
      PROVE  Quiet /\ shipTo' = shipTo
  <2> DEFINE a == Scrubbed([box[x] EXCEPT !.active = ~box[x].active])
  <2>1. box[x] \in AddressRec
    BY <1>1 DEF Box
  <2>2. a \in AddressRec /\ (a.type = "delivery" => ~a.person)
    BY <2>1 DEF AddressRec, Scrubbed
  <2>3. box' = [box EXCEPT ![x] = a] /\ shipTo' = shipTo
    BY <1>6 DEF Archive
  <2> HIDE DEF a
  <2> QED  BY <1>1, <2>2, <2>3, OneReplaced
<1>7. ASSUME NEW x \in Address, DeleteAddress(x)
      PROVE  Quiet /\ shipTo' = shipTo
  <2>1. NoAddress \in AddressRec /\ ~NoAddress.person
    BY DEF AddressRec, NoAddress
  <2>2. box' = [box EXCEPT ![x] = NoAddress] /\ shipTo' = shipTo
    BY <1>7 DEF DeleteAddress
  <2> QED  BY <1>1, <2>1, <2>2, OneReplaced
<1>8. ASSUME NEW x \in Address, MarkPrimary(x)
      PROVE  Quiet /\ shipTo' = shipTo
  <2> DEFINE a == Marked(box[x], TRUE)
             m == [box EXCEPT ![x] = a]
  <2>1. box[x] \in AddressRec
    BY <1>1 DEF Box
  <2>2. a \in AddressRec /\ (a.type = "delivery" => ~a.person)
    BY <2>1, MarkedFacts
  <2>3. box' = SiblingsCleared(m, x) /\ shipTo' = shipTo
    BY <1>8 DEF MarkPrimary
  <2> HIDE DEF a
  <2>4. m \in Box /\ NoNewNames(box, m)
    BY <1>1, <2>2, OneReplaced
  <2> HIDE DEF m
  <2>5. box' \in Box /\ SameButMarks(m, box')
    BY <2>3, <2>4, ClearedFacts
  <2>6. NoNewNames(box, box')
    BY <2>4, <2>5 DEF SameButMarks, NoNewNames
  <2> QED  BY <2>3, <2>5, <2>6
<1>9. ASSUME NEW o \in Sale, NEW x \in Address \union {Nil}, ChooseAddress(o, x)
      PROVE  /\ Quiet
             /\ shipTo' \in [Sale -> [text : Text \union {Nil}, to : Address \union {Nil}]]
  BY <1>1, <1>9 DEF ChooseAddress, NoNewNames
<1>10. ASSUME NEW o \in Sale, NEW t \in Text, WebsiteShips(o, t)
       PROVE  /\ Quiet
              /\ shipTo' \in [Sale -> [text : Text \union {Nil}, to : Address \union {Nil}]]
  <2> DEFINE h == [shipTo EXCEPT ![o].text = t]
             r == [box |-> box, ship |-> h]
             n == Addressed(r, o, t)
  <2>1. h \in [Sale -> [text : Text \union {Nil}, to : Address \union {Nil}]]
    BY <1>1
  <2>2. Fresh(box) # {} /\ box' = n.box /\ shipTo' = n.ship
    BY <1>10 DEF WebsiteShips
  <2> HIDE DEF h
  <2>3. r \in Shipping /\ r.box = box
    BY <1>1, <2>1 DEF Shipping
  <2>4. CASE t \in Junk
    <3>1. n = [r EXCEPT !.ship[o].to = Nil]
      BY <2>4 DEF Addressed
    <3>2. n.box = box /\ n.ship = [h EXCEPT ![o].to = Nil]
      BY <3>1
    <3> HIDE DEF n
    <3>3. NoNewNames(box, n.box)
      BY <3>2 DEF NoNewNames
    <3> QED  BY <1>1, <2>1, <2>2, <3>2, <3>3
  <2>5. CASE t \notin Junk
    <3> HIDE DEF r
    <3>1. Placed(r, n, o, t)
      BY <2>2, <2>3, <2>5, PlacedFacts
    <3> HIDE DEF n
    <3>2. n \in Shipping /\ NoNewNames(box, n.box)
      BY <2>3, <3>1 DEF Placed
    <3> QED  BY <2>2, <3>2 DEF Shipping
  <2> QED  BY <2>4, <2>5
<1>11. ASSUME NEW block \in Text \ Junk, Migrate(block)
       PROVE  /\ Quiet
              /\ shipTo' \in [Sale -> [text : Text \union {Nil}, to : Address \union {Nil}]]
  <2> DEFINE n == Migrated(s, block)
  <2>1. Roomy(s)
    BY <1>2, <1>11 DEF Migrate, RoomToMigrate, Roomy, TextsOf
  <2>2. box' = n.box /\ shipTo' = n.ship
    BY <1>11 DEF Migrate
  <2> HIDE DEF s
  <2>3. n \in Shipping /\ NoNewNames(box, n.box)
    BY <1>2, <2>1, MigratedFacts
  <2> QED  BY <2>2, <2>3 DEF Shipping
<1>12. CASE \E x \in Address :
              \/ \E b, p \in BOOLEAN : EnterAddress(x, b, p)
              \/ \E t \in {"delivery", "contact"}, b \in BOOLEAN : EditAddress(x, t, b)
              \/ Archive(x) \/ DeleteAddress(x)
              \/ MarkPrimary(x)
              \/ \E o \in Sale : ChooseAddress(o, x)
  BY <1>1, <1>3, <1>4, <1>5, <1>6, <1>7, <1>8, <1>9, <1>12
<1>13. CASE \E o \in Sale : ChooseAddress(o, Nil) \/ \E t \in Text : WebsiteShips(o, t)
  BY <1>3, <1>9, <1>10, <1>13
<1>14. CASE \E t \in Text \ Junk : Migrate(t)
  BY <1>3, <1>11, <1>14
<1> QED  BY <1>12, <1>13, <1>14 DEF AddressesNext

\* Of every behaviour: a delivery address has a person's name only until the first write
\* after it was entered with it, whichever way it came to be one, and wherever a migration
\* can run, a second one right after it changes nothing.
THEOREM AddressesStaySettled == PartnersSpec => AddressesSettle
<1> DEFINE Next == \/ AccountsNext /\ UNCHANGED address_vars
                   \/ AddressesNext /\ UNCHANGED account_vars
<1>1. AddressesInit => AddressInv
  <2>1. NoAddress \in AddressRec
    BY DEF AddressRec, NoAddress
  <2> QED  BY <2>1 DEF AddressesInit, AddressInv, Box
<1>2. ASSUME AddressInv, [Next]_partner_vars PROVE AddressInv' /\ [Unnamed(box, box')]_partner_vars
  <2>1. CASE UNCHANGED address_vars
    <3>1. AddressInv' /\ box' = box
      BY <1>2, <2>1 DEF AddressInv, address_vars
    <3> QED  BY <3>1 DEF Unnamed
  <2>2. CASE AddressesNext
    BY <1>2, <2>2, AddressStep
  <2>3. UNCHANGED partner_vars => UNCHANGED address_vars
    BY DEF partner_vars, address_vars
  <2> QED  BY <1>2, <2>1, <2>2, <2>3
<1>3. ASSUME AddressInv PROVE MigrationSettles
  <2> DEFINE s == [box |-> box, ship |-> shipTo]
  <2>1. s \in Shipping
    BY <1>3 DEF AddressInv, Shipping
  <2>2. RoomToMigrate => Roomy(s)
    BY DEF RoomToMigrate, Roomy, TextsOf
  <2> HIDE DEF s
  <2>3. RoomToMigrate => \A block \in Text \ Junk :
          Migrated(Migrated(s, block), block) = Migrated(s, block)
    BY <2>1, <2>2, MigratedFacts
  <2> QED  BY <2>3 DEF MigrationSettles, s
<1>4. AddressInv /\ [Next]_partner_vars => AddressInv' /\ [Unnamed(box, box')]_partner_vars
  BY <1>2
<1> QED  BY <1>1, <1>3, <1>4, PTL DEF PartnersSpec, AddressesSettle, NoNameSurvives

HIDE PartnersAssumption

(***************************************************************************)
(* CustomerRfq                                                             *)
(***************************************************************************)
USE CustomerRfqAssumption

Quote == [state : RfqStates, price : Nat, different : BOOLEAN,
          costing : [SizeRow -> Nat], rate : Nat, dollars : BOOLEAN]

\* The order exists when its quote says so, once, and at its rate; each of its lines
\* has the shared product or one of its own; the lines of whole rows are the total.
QuoteInv ==
  /\ rfq \in Quote /\ shape \in Shape /\ form \in [RfqUser -> {"closed", "price", "rate"}]
  /\ offer \in [state : {"none", "draft", "sale", "cancel"}, sales : {0, 1},
                quoted : {offer.quoted}, lines : {offer.lines}, rate : Nat]
  /\ stone \in [OrderLine -> [product : 0..3, cert : Certificate \union {NoCert}]]
  /\ entered \in [OrderLine -> Certificate \union {NoCert}]
  /\ IF offer.state = "none"
     THEN offer.sales = 0 /\ rfq.state # "offline_order_created"
     ELSE offer.sales = 1 /\ rfq.state = "offline_order_created" /\ offer.rate = rfq.rate
  /\ OrderIsTheQuote
  /\ \A l \in OrderLine : stone[l].product \in {0, l} /\ stone[l].cert = entered[l]

\* Rounding to a cent is half a cent off at most, and rounds a half up.
LEMMA CentsAre ==
    ASSUME NEW a \in Nat, NEW b \in Nat \ {0}
    PROVE  LET r == Cents(a, b)
           IN  r \in Nat /\ 2 * a - b < 2 * (b * r) /\ 2 * (b * r) <= 2 * a + b
<1> DEFINE y == 2 * a + b
           n == 2 * b
           q == y \div n
           m == y % n
<1>1. y \in Nat /\ n \in Nat /\ n > 0
  OBVIOUS
<1>2. q \in Int /\ m \in 0..(n - 1) /\ y = n * q + m
  <2> HIDE DEF y, n
  <2> QED  BY <1>1
<1>3. q >= 0
  <2>1. q <= -1 => n * q <= n * (-1)
    <3> HIDE DEF q, n
    <3> QED  BY <1>1, <1>2
  <2> HIDE DEF q, n, m, y
  <2> QED  BY <1>1, <1>2, <2>1
<1>4. n * q = 2 * (b * q)
  <2> HIDE DEF q
  <2> QED  BY <1>2
<1>5. Cents(a, b) = q
  BY DEF Cents
<1>6. 2 * a - b < 2 * (b * q) /\ 2 * (b * q) <= 2 * a + b
  <2>1. y = 2 * (b * q) + m /\ y = 2 * a + b /\ n = 2 * b
    BY <1>2, <1>4
  <2> DEFINE z == b * q
  <2>2. z \in Int /\ m \in Int /\ 0 <= m /\ m <= n - 1
    BY <1>1, <1>2
  <2> HIDE DEF y, n, q, m, z
  <2>3. y = 2 * z + m
    BY <2>1 DEF z
  <2>4. 2 * a - b < 2 * z /\ 2 * z <= 2 * a + b
    BY <2>1, <2>2, <2>3
  <2> QED  BY <2>4 DEF z
<1> QED  BY <1>2, <1>3, <1>5, <1>6

\* The margin's band is one of the table's.
LEMMA BandIs == ASSUME NEW w PROVE Band(w) \in 0..9
<1> DEFINE S == {i \in DOMAIN Bounds : 100 * w >= Bounds[i] * Fine}
<1>1. S \subseteq 1..9
  BY DEF Bounds
<1> HIDE DEF S
<1>2. Cardinality(S) \in 0..9
  BY <1>1, AtMost
<1> QED  BY <1>2 DEF Band, S

\* What a row weighs and how many stones it is are natural numbers.
LEMMA RowIs ==
    ASSUME QuoteInv, NEW row \in SizeRow
    PROVE  /\ shape.qty[row] \in Nat /\ PieceWeight \in Nat
           /\ RowWeight(row) \in Nat /\ RowCount(row) \in Nat
<1> DEFINE q == shape.qty[row]
<1>1. q \in Nat /\ shape.perPiece \in Nat
  BY DEF QuoteInv, RfqShape
<1> HIDE DEF q
<1>2. UsualPiece = 2 /\ Carat = 44
  BY DEF UsualPiece, Carat
<1>3. PieceWeight \in Nat
  BY <1>1, <1>2 DEF PieceWeight
<1>4. RowWeight(row) \in Nat
  BY <1>1, <1>2, <1>3 DEF RowWeight, q
<1>5. RowCount(row) \in Nat
  <2>1. q \div 44 \in Nat /\ q \div 44 + 1 \in Nat
    BY <1>1
  <2> QED  BY <1>2, <2>1 DEF RowCount, Rounded, q
<1> QED  BY <1>1, <1>3, <1>4, <1>5 DEF q

\* What a quote weighs, how many stones it is and what it comes to are natural numbers.
LEMMA TotalIs ==
    ASSUME QuoteInv
    PROVE  EffectiveCarat \in Nat /\ StoneCount \in Nat /\ Exact \in Nat /\ rfq.price \in Nat
<1>1. /\ shape \in RfqShape /\ rfq \in Quote /\ IsFiniteSet(SizeRow)
  BY DEF QuoteInv
<1>2. /\ shape.weight \in Nat /\ shape.perPiece \in Nat /\ shape.qty \in [SizeRow -> Nat]
      /\ shape.count \in Nat /\ rfq.price \in Nat /\ rfq.costing \in [SizeRow -> Nat]
  BY <1>1 DEF RfqShape, Quote
<1>3. ASSUME NEW T \in SUBSET SizeRow, NEW f \in [T -> Nat] PROVE SumFunction(f) \in Nat
  <2>1. IsFiniteSet(T) /\ \A row \in T : f[row] = 1 * f[row]
    BY <1>1, <1>3, FS_Subset
  <2> QED  BY <1>3, <2>1, SumFacts
<1>4. EffectiveCarat \in Nat
  <2> DEFINE f == [row \in SizeRow |-> RowWeight(row)]
  <2>1. f \in [SizeRow -> Nat]
    BY RowIs
  <2> HIDE DEF f
  <2>2. SumFunction(f) \in Nat
    BY <1>3, <2>1
  <2> QED  BY <1>2, <2>2 DEF EffectiveCarat, RowsCarat, f, Carat
<1>5. StoneCount \in Nat
  <2> DEFINE f == [row \in FullRows |-> RowCount(row)]
  <2>1. f \in [FullRows -> Nat] /\ FullRows \in SUBSET SizeRow
    BY RowIs DEF FullRows
  <2> HIDE DEF f
  <2>2. SumFunction(f) \in Nat
    BY <1>3, <2>1
  <2> QED  BY <1>2, <2>2 DEF StoneCount, f
<1>6. BasePrice \in Nat
  <2> DEFINE f == [row \in SizeRow |-> rfq.costing[row] * shape.qty[row] * Carat]
  <2>1. f \in [SizeRow -> Nat]
    BY <1>2 DEF Carat
  <2> HIDE DEF f
  <2>2. SumFunction(f) \in Nat
    BY <1>3, <2>1
  <2>3. rfq.price * EffectiveCarat \in Nat
    BY <1>2, <1>4
  <2> QED  BY <2>2, <2>3 DEF BasePrice, f
<1>7. MarginPercent \in Nat
  BY BandIs DEF MarginPercent
<1>8. Exact \in Nat
  <2> HIDE DEF BasePrice, MarginPercent
  <2> QED  BY <1>6, <1>7 DEF Exact
<1> QED  BY <1>2, <1>4, <1>5, <1>8

\* The lines of a quote without rows are its total, to half a cent each.
LEMMA FlatAddsUp ==
    ASSUME QuoteInv, shape.kind # "rows", OrderTotal # 0, NEW d, d = 2 * (LinesTotal - OrderTotal)
    PROVE  LET slack == IF shape.kind = "parcel" THEN 0 ELSE StoneCount
           IN  2 * OrderTotal >= slack => -slack <= d /\ d <= slack
<1> DEFINE n == Times
           T == OrderTotal
           e == Cents(T, n)
<1>1. shape.kind \in {"parcel", "legacy"} /\ shape.count \in Nat /\ rfq.price \in Nat
  BY DEF QuoteInv, RfqShape, Quote
<1>2. n \in Nat \ {0} /\ (shape.kind = "parcel" => n = 1) /\ (shape.kind = "legacy" => n = StoneCount)
  BY <1>1 DEF Times, StoneCount
<1>3. T \in Nat
  <2> DEFINE x == Exact * Times
             y == 100 * Fine
  <2>1. x \in Nat /\ y \in Nat \ {0}
    BY <1>2, TotalIs DEF Fine, Carat
  <2> HIDE DEF x, y
  <2>2. Cents(x, y) \in Nat
    BY <2>1, CentsAre
  <2> QED  BY <2>2 DEF OrderTotal, x, y
<1>4. LinesTotal = n * (IF e # 0 THEN e ELSE rfq.price)
  BY DEF LinesTotal, UnitPrice
<1> HIDE DEF n, T
<1>5. e \in Nat /\ 2 * T - n < 2 * (n * e) /\ 2 * (n * e) <= 2 * T + n
  BY <1>2, <1>3, CentsAre
<1> HIDE DEF e
<1>6. T # 0 /\ d = 2 * (LinesTotal - T)
  BY DEF T
<1>7. 2 * T >= n => e # 0
  <2>1. e = 0 => n * e = 0
    BY <1>2
  <2> QED  BY <1>2, <1>3, <1>5, <2>1
<1> DEFINE z == n * e
<1>8. z \in Int
  BY <1>2, <1>5
<1>9. 2 * T >= n => LinesTotal = z
  BY <1>4, <1>7
<1>10. CASE shape.kind = "parcel"
  <2>1. n = 1 /\ 2 * T >= n /\ z = e
    BY <1>2, <1>3, <1>5, <1>6, <1>10
  <2>2. LinesTotal = T
    BY <1>3, <1>5, <1>9, <2>1
  <2> QED  BY <1>3, <1>6, <1>10, <2>2
<1>11. CASE shape.kind = "legacy"
  <2>1. 2 * T - n < 2 * z /\ 2 * z <= 2 * T + n
    BY <1>5
  <2> HIDE DEF z
  <2>2. 2 * T >= n => -n <= 2 * (z - T) /\ 2 * (z - T) <= n
    BY <1>2, <1>3, <1>8, <2>1
  <2>3. 2 * T >= n => -n <= d /\ d <= n
    BY <1>6, <1>9, <2>2
  <2> QED  BY <1>2, <1>11, <2>3 DEF T
<1> QED  BY <1>1, <1>10, <1>11

\* The stones of a whole row weigh something, and cost what the row costs at the rate
\* shown, to half a cent each.
LEMMA RowIsItsStones ==
    ASSUME QuoteInv, shape.kind = "rows", WholeRows, SaleRate \in Nat, NEW row \in SizeRow,
           NEW f, f = RowCount(row) * StonePrice(row)
    PROVE  /\ f \in Nat /\ RowWeight(row) # 0
           /\ (2 * Fine) * f <= (2 * SaleRate) * RowWeight(row) + Fine * RowCount(row)
           /\ (2 * SaleRate) * RowWeight(row) <= (2 * Fine) * f + Fine * RowCount(row)
<1> DEFINE c == RowCount(row)
           q == shape.qty[row]
           P == PieceWeight
           p == StonePrice(row)
           R == SaleRate
           W == RowWeight(row)
<1>1. q \in Nat /\ P \in Nat /\ W \in Nat /\ c \in Nat /\ R \in Nat /\ f = c * p
  BY RowIs
<1>2. c > 0
  BY DEF WholeRows, FullRows
<1>3. Carat = 44 /\ Fine = 1936
  BY DEF Carat, Fine
<1>4. P # 0
  BY <1>3 DEF PieceWeight, UsualPiece
<1>5. W = q * (IF shape.pieces THEN P ELSE 44)
  BY <1>3 DEF RowWeight
<1>6. q # 0
  <2>1. SUFFICES ASSUME q = 0 PROVE FALSE
    OBVIOUS
  <2>2. RowCount(row) = 0
    BY <2>1 DEF RowCount, Rounded, Carat
  <2> QED  BY <1>2, <2>2
<1>7. CASE shape.pieces
  <2>1. c = q \div 44 /\ q % 44 = 0 /\ p = Cents(R * P, 44)
    BY <1>3, <1>7 DEF RowCount, WholeRows, StonePrice
  <2> HIDE DEF c, q, P, R, W, p
  <2>2. q = 44 * c
    BY <1>1, <2>1
  <2> DEFINE X == R * P
  <2>3. X \in Nat
    BY <1>1
  <2> HIDE DEF X
  <2>4. p \in Nat /\ 2 * X - 44 < 2 * (44 * p) /\ 2 * (44 * p) <= 2 * X + 44
    <3>1. p = Cents(X, 44)
      BY <2>1 DEF X
    <3>2. 44 \in Nat \ {0}
      OBVIOUS
    <3> HIDE DEF Cents
    <3> QED  BY ONLY <2>3, <3>1, <3>2, CentsAre
  <2>5. W = 44 * (c * P) /\ W # 0
    <3>1. W = q * P
      BY <1>5, <1>7
    <3>2. W = 44 * (c * P)
      BY <1>1, <2>2, <3>1
    <3>3. q * P # 0
      BY <1>1, <1>4, <1>6
    <3> QED  BY <3>1, <3>2, <3>3
  <2> DEFINE Y == c * X
             F == c * p
  <2>6. Y \in Nat /\ F \in Nat
    BY <1>1, <2>3, <2>4
  <2>7. 88 * F <= 2 * Y + 44 * c /\ 2 * Y <= 88 * F + 44 * c
    <3>1. 88 * p <= 2 * X + 44 /\ 2 * X <= 88 * p + 44
      BY <2>3, <2>4
    <3>2. c * (88 * p) <= c * (2 * X + 44) /\ c * (2 * X) <= c * (88 * p + 44)
      BY ONLY <1>1, <2>3, <2>4, <3>1
    <3>3. /\ c * (88 * p) = 88 * F /\ c * (2 * X + 44) = 2 * Y + 44 * c
          /\ c * (2 * X) = 2 * Y /\ c * (88 * p + 44) = 88 * F + 44 * c
      BY <1>1, <2>3, <2>4
    <3> QED  BY <3>2, <3>3
  <2>8. (2 * R) * W = 88 * Y
    BY <1>1, <2>5 DEF X
  <2>9. f = F
    BY <1>1
  <2> HIDE DEF Y, F
  <2>10. 3872 * f <= 88 * Y + 1936 * c /\ 88 * Y <= 3872 * f + 1936 * c
    BY <1>1, <2>6, <2>7, <2>9
  <2> QED  BY <1>3, <2>5, <2>6, <2>8, <2>9, <2>10 DEF R, W, c
<1>8. CASE ~shape.pieces
  <2>1. p = Cents(R * q, 44 * c)
    BY <1>3, <1>8 DEF StonePrice
  <2>2. W = 44 * q
    BY <1>1, <1>5, <1>8
  <2> HIDE DEF c, q, R, W, p
  <2> DEFINE X == R * q
             b == 44 * c
  <2>3. X \in Nat /\ b \in Nat \ {0}
    BY <1>1, <1>2
  <2> HIDE DEF X, b
  <2>4. p \in Nat /\ 2 * X - b < 2 * (b * p) /\ 2 * (b * p) <= 2 * X + b
    BY <2>1, <2>3, CentsAre DEF X, b
  <2> DEFINE F == c * p
  <2>5. F \in Nat /\ f = F /\ b * p = 44 * F /\ b = 44 * c
    BY <1>1, <2>4 DEF b
  <2>6. (2 * R) * W = 88 * X
    BY <1>1, <2>2 DEF X
  <2> HIDE DEF F
  <2>7. 3872 * f <= 88 * X + 1936 * c /\ 88 * X <= 3872 * f + 1936 * c
    BY <1>1, <2>3, <2>4, <2>5
  <2>8. W # 0
    BY <1>1, <1>6, <2>2
  <2> QED  BY <1>3, <2>5, <2>6, <2>7, <2>8 DEF R, W, c
<1> QED  BY <1>7, <1>8

\* The lines of whole rows are the quote, to half a cent each and half a cent a carat.
LEMMA RowsAddUp ==
    ASSUME QuoteInv, shape.kind = "rows", WholeRows, SizeRow # {},
           NEW d, d = 2 * Fine * (LinesTotal - OrderTotal)
    PROVE  LET slack == Fine * (StoneCount + 1) + EffectiveCarat
           IN  -slack <= d /\ d <= slack
<1> DEFINE R == SaleRate
           T == OrderTotal
           L == LinesTotal
           E == EffectiveCarat
           N == StoneCount
           X == Exact
           f == [row \in SizeRow |-> RowCount(row) * StonePrice(row)]
           w == [row \in SizeRow |-> RowWeight(row)]
           n == [row \in SizeRow |-> RowCount(row)]
<1>1. E \in Nat /\ N \in Nat /\ X \in Nat /\ rfq.price \in Nat /\ IsFiniteSet(SizeRow)
  BY TotalIs
<1>2. Fine = 1936
  BY DEF Carat, Fine
<1>3. R \in Nat /\ (E # 0 => 2 * X - 100 * E < 2 * ((100 * E) * R) /\ 2 * ((100 * E) * R) <= 2 * X + 100 * E)
  <2> HIDE DEF E, X
  <2> DEFINE b == 100 * E
  <2>1. E # 0 => b \in Nat \ {0}
    BY <1>1
  <2>2. R = IF E = 0 THEN rfq.price ELSE Cents(X, b)
    BY DEF SaleRate, E, X
  <2> HIDE DEF R, b
  <2>3. E # 0 => Cents(X, b) \in Nat /\ 2 * X - b < 2 * (b * Cents(X, b)) /\ 2 * (b * Cents(X, b)) <= 2 * X + b
    BY <1>1, <2>1, CentsAre
  <2> QED  BY <1>1, <2>2, <2>3 DEF b
<1>4. T \in Nat /\ 2 * X - 193600 < 2 * (193600 * T) /\ 2 * (193600 * T) <= 2 * X + 193600
  <2>1. T = Cents(X * 1, 100 * 1936)
    BY <1>2 DEF OrderTotal, Times
  <2> HIDE DEF T, X
  <2>2. T = Cents(X, 193600)
    BY <1>1, <2>1
  <2> QED  BY <1>1, <2>2, CentsAre
<1>5. ASSUME NEW row \in SizeRow
      PROVE  /\ RowCount(row) * StonePrice(row) \in Nat /\ RowCount(row) \in Nat
             /\ RowWeight(row) \in Nat \ {0}
             /\ 3872 * (RowCount(row) * StonePrice(row)) <= (2 * R) * RowWeight(row) + 1936 * RowCount(row)
             /\ (2 * R) * RowWeight(row) <= 3872 * (RowCount(row) * StonePrice(row)) + 1936 * RowCount(row)
  <2> DEFINE c == RowCount(row) * StonePrice(row)
  <2>1. c = RowCount(row) * StonePrice(row)
    OBVIOUS
  <2>2. RowCount(row) \in Nat /\ RowWeight(row) \in Nat /\ SaleRate \in Nat
    BY <1>3, RowIs
  <2> HIDE DEF c
  <2>3. /\ c \in Nat /\ RowWeight(row) # 0
        /\ (2 * Fine) * c <= (2 * SaleRate) * RowWeight(row) + Fine * RowCount(row)
        /\ (2 * SaleRate) * RowWeight(row) <= (2 * Fine) * c + Fine * RowCount(row)
    BY <2>1, <2>2, RowIsItsStones
  <2>4. 2 * Fine = 3872
    BY <1>2
  <2> QED  BY <1>2, <2>2, <2>3, <2>4 DEF c
<1>6. FullRows = SizeRow
  BY DEF WholeRows
<1>7. L = SumFunction(f) /\ N = SumFunction(n)
  BY <1>6 DEF LinesTotal, StoneCount
<1>8. f \in [SizeRow -> Nat] /\ w \in [SizeRow -> Nat] /\ n \in [SizeRow -> Nat]
  BY <1>5
<1>9. \A row \in SizeRow : /\ 3872 * f[row] <= (2 * R) * w[row] + 1936 * n[row]
                           /\ (2 * R) * w[row] <= 3872 * f[row] + 1936 * n[row]
                           /\ w[row] # 0 /\ w[row] = 1 * w[row]
  BY <1>5
<1>10. RowsCarat = SumFunction(w)
  BY DEF RowsCarat
<1> HIDE DEF f, w, n
<1>11. SumFunction(w) # 0 /\ SumFunction(w) \in Nat /\ SumFunction(f) \in Nat
  <2>1. \A row \in SizeRow : f[row] = 1 * f[row]
    BY <1>8
  <2>2. (\A row \in SizeRow : w[row] # 0) /\ \A row \in SizeRow : w[row] = 1 * w[row]
    BY <1>9
  <2>3. IsFiniteSet(SizeRow) /\ SizeRow # {} /\ 1 \in Nat
    BY <1>1
  <2>4. SumFunction(w) # 0 /\ SumFunction(w) \in Nat
    <3>1. ASSUME NEW g \in [SizeRow -> Nat], \A row \in SizeRow : g[row] = 1 * g[row],
                 \A row \in SizeRow : g[row] # 0
          PROVE  SumFunction(g) # 0 /\ SumFunction(g) \in Nat
      BY ONLY <2>3, <3>1, SumFacts
    <3> QED  BY ONLY <1>8, <2>2, <3>1
  <2>5. SumFunction(f) \in Nat
    BY ONLY <1>8, <2>1, <2>3, SumFacts
  <2> QED  BY <2>4, <2>5
<1>12. E = SumFunction(w) /\ E # 0
  BY <1>10, <1>11 DEF EffectiveCarat
<1> DEFINE r2 == 2 * R
<1>13. r2 \in Nat
  BY <1>3
<1>14. 3872 * L <= r2 * E + 1936 * N /\ r2 * E <= 3872 * L + 1936 * N
  <2>1. Bounded(SizeRow, 3872, f, r2, w, 1936, n) /\ Bounded(SizeRow, r2, w, 3872, f, 1936, n)
    BY <1>9 DEF Bounded
  <2>4. IsFiniteSet(SizeRow) /\ r2 \in Nat /\ 3872 \in Nat /\ 1936 \in Nat
    BY <1>1, <1>13
  <2> HIDE DEF r2, R
  <2>2. 3872 * SumFunction(f) <= r2 * SumFunction(w) + 1936 * SumFunction(n)
    BY ONLY <1>8, <2>1, <2>4, SumsBounded
  <2>3. r2 * SumFunction(w) <= 3872 * SumFunction(f) + 1936 * SumFunction(n)
    BY ONLY <1>8, <2>1, <2>4, SumsBounded
  <2> HIDE DEF L, E, N
  <2> QED  BY <1>7, <1>12, <2>2, <2>3
<1> DEFINE Z == R * E
<1>15. Z \in Nat /\ r2 * E = 2 * Z /\ (100 * E) * R = 100 * Z
  <2> HIDE DEF R, E
  <2> QED  BY <1>1, <1>3
<1>16. L \in Nat
  BY <1>7, <1>11
<1>17. d = 3872 * (L - T)
  BY <1>2, <1>4, <1>16
<1> HIDE DEF R, T, L, E, N, X, r2, Z
<1>18. 200 * Z - 100 * E <= 2 * X /\ 2 * X < 200 * Z + 100 * E
  BY <1>1, <1>3, <1>12, <1>15
<1>19. 3872 * T - 1936 <= 2 * Z + E /\ 2 * Z - E <= 3872 * T + 1936
  BY <1>1, <1>4, <1>15, <1>18
<1>20. -(1936 * (N + 1) + E) <= d /\ d <= 1936 * (N + 1) + E
  BY <1>1, <1>4, <1>14, <1>15, <1>16, <1>17, <1>19
<1> QED  BY <1>2, <1>20 DEF N, E

\* Whether rows are whole, their stones and their weight are a matter of the rows alone.
LEMMA SameRows ==
    ASSUME UNCHANGED shape
    PROVE  /\ WholeRows' <=> WholeRows
           /\ StoneCount' = StoneCount /\ EffectiveCarat' = EffectiveCarat
<1>1. \A row : RowCount(row)' = RowCount(row) /\ RowWeight(row)' = RowWeight(row)
  BY DEF RowCount, RowWeight, PieceWeight
<1>2. FullRows' = FullRows
  BY <1>1 DEF FullRows
<1>3. WholeRows' <=> WholeRows
  BY <1>2 DEF WholeRows
<1>4. StoneCount' = StoneCount
  BY <1>1, <1>2 DEF StoneCount
<1>5. EffectiveCarat' = EffectiveCarat
  BY <1>1 DEF EffectiveCarat, RowsCarat
<1> QED  BY <1>3, <1>4, <1>5

\* Whether the order is the quote is a matter of the rows and the two totals alone.
LEMMA StillTheQuote ==
    ASSUME UNCHANGED shape, offer'.sales = offer.sales, offer'.lines = offer.lines,
           offer'.quoted = offer.quoted, OrderIsTheQuote
    PROVE  OrderIsTheQuote'
BY SameRows DEF OrderIsTheQuote, RowsAreTheQuote, FlatIsTheQuote

\* Every step of the quote, its order and their stones.
LEMMA QuoteStep == ASSUME QuoteInv, [RfqNext]_rfq_vars PROVE QuoteInv'
<1>1. CASE SendToProcurement \/ SendBackToSales \/ CancelRfq
  <2>1. \E s \in RfqStates \ {"offline_order_created"} :
          /\ rfq' = [rfq EXCEPT !.state = s] /\ rfq.state # "offline_order_created"
          /\ UNCHANGED <<shape, form, offer, stone, entered>>
    BY <1>1 DEF SendToProcurement, SendBackToSales, CancelRfq, RfqStates
  <2> QED  BY <2>1, StillTheQuote DEF QuoteInv, Quote
<1>2. CASE CreateOfflineOrder
  <2>1. /\ rfq.state = "sent_back_to_sales"
        /\ offer' = [state |-> "sale", sales |-> offer.sales + 1,
                     quoted |-> OrderTotal, lines |-> LinesTotal, rate |-> rfq.rate]
        /\ rfq' = [rfq EXCEPT !.state = "offline_order_created"]
        /\ UNCHANGED <<shape, form, stone, entered>>
    BY <1>2 DEF CreateOfflineOrder, OrderedRfq
  <2>2. offer.sales = 0 /\ rfq \in Quote
    BY <2>1 DEF QuoteInv
  <2>3. rfq' \in Quote /\ rfq'.state = "offline_order_created" /\ rfq'.rate = rfq.rate
    BY <2>1, <2>2 DEF Quote, RfqStates
  <2>4. /\ offer'.state = "sale" /\ offer'.sales = 1 /\ offer'.rate = rfq.rate
        /\ offer'.quoted = OrderTotal /\ offer'.lines = LinesTotal
        /\ offer' \in [state : {"none", "draft", "sale", "cancel"}, sales : {0, 1},
                       quoted : {offer'.quoted}, lines : {offer'.lines}, rate : Nat]
    BY <2>1, <2>2 DEF Quote
  <2>5. OrderIsTheQuote'
    <3>1. /\ WholeRows' => WholeRows
          /\ StoneCount' = StoneCount /\ EffectiveCarat' = EffectiveCarat
      BY <2>1, SameRows
    <3>2. OrderTotal # 0 /\ (shape.kind = "rows" => FullRows # {})
      BY <1>2 DEF CreateOfflineOrder
    <3>3. CASE shape.kind # "rows"
      <4>1. FlatIsTheQuote'
        BY <2>1, <2>4, <3>1, <3>2, <3>3, FlatAddsUp DEF FlatIsTheQuote
      <4> QED  BY <2>1, <3>3, <4>1 DEF OrderIsTheQuote
    <3>4. CASE shape.kind = "rows"
      <4>1. SizeRow # {}
        BY <3>2, <3>4 DEF FullRows
      <4>2. WholeRows => RowsAreTheQuote'
        BY <2>1, <2>4, <3>1, <3>4, <4>1, RowsAddUp DEF RowsAreTheQuote
      <4> QED  BY <2>1, <3>1, <3>4, <4>2 DEF OrderIsTheQuote
    <3> QED  BY <3>3, <3>4
  <2> QED  BY <2>1, <2>3, <2>4, <2>5 DEF QuoteInv
<1>3. ASSUME NEW u \in RfqUser, NEW what \in {"price", "rate"}, OpenForm(u, what) PROVE QuoteInv'
  BY <1>3, StillTheQuote DEF OpenForm, QuoteInv
<1>4. ASSUME NEW u \in RfqUser,
             \/ \E p \in Price : SavePrice(u, p)
             \/ \E row \in SizeRow, p \in Price : SaveCosting(u, row, p)
             \/ \E r \in Rate : SaveRate(u, r)
      PROVE  QuoteInv'
  <2>1. /\ rfq' \in Quote /\ rfq'.state = rfq.state
        /\ rfq.state = "offline_order_created" => rfq'.rate = rfq.rate
    <3>1. rfq \in Quote
      BY DEF QuoteInv
    <3>2. ASSUME NEW p \in Price, SavePrice(u, p)
          PROVE  rfq' \in Quote /\ rfq'.state = rfq.state /\ rfq'.rate = rfq.rate
      <4> DEFINE c == IF p = 0 /\ ~rfq.different THEN rfq.costing ELSE [row \in SizeRow |-> p]
      <4>1. c \in [SizeRow -> Nat] /\ p \in Nat
        BY <3>1 DEF Quote
      <4>2. rfq' = [rfq EXCEPT !.price = p, !.different = FALSE, !.costing = c]
        BY <3>2 DEF SavePrice
      <4> HIDE DEF c
      <4> QED  BY <3>1, <4>1, <4>2 DEF Quote
    <3>3. ASSUME NEW row \in SizeRow, NEW p \in Price, SaveCosting(u, row, p)
          PROVE  rfq' \in Quote /\ rfq'.state = rfq.state /\ rfq'.rate = rfq.rate
      <4> DEFINE c == [rfq.costing EXCEPT ![row] = p]
      <4>1. c \in [SizeRow -> Nat]
        BY <3>1 DEF Quote
      <4>2. rfq' = [rfq EXCEPT !.price = 0, !.different = TRUE, !.costing = c]
        BY <3>1, <3>3 DEF SaveCosting, Quote
      <4> HIDE DEF c
      <4> QED  BY <3>1, <4>1, <4>2 DEF Quote
    <3>4. ASSUME NEW r \in Rate, SaveRate(u, r)
          PROVE  /\ rfq' \in Quote /\ rfq'.state = rfq.state
                 /\ rfq.state = "offline_order_created" => rfq'.rate = rfq.rate
      <4>1. rfq' = rfq \/ (rfq' = [rfq EXCEPT !.rate = r] /\ RateMayBe(r))
        BY <3>4 DEF SaveRate
      <4> QED  BY <3>1, <4>1 DEF Quote, RateMayBe
    <3> QED  BY <1>4, <3>2, <3>3, <3>4
  <2>2. /\ UNCHANGED <<shape, offer, stone, entered>>
        /\ form' \in [RfqUser -> {"closed", "price", "rate"}]
    BY <1>4 DEF SavePrice, SaveCosting, SaveRate, QuoteInv
  <2> QED  BY <2>1, <2>2, StillTheQuote DEF QuoteInv
<1>5. CASE CancelOffer \/ SetToQuotation \/ ConfirmOffer
  <2>1. \E s \in {"draft", "cancel"} :
          /\ offer' = [offer EXCEPT !.state = s] /\ offer.state # "none"
          /\ UNCHANGED <<rfq, shape, form, stone, entered>>
    BY <1>5 DEF CancelOffer, SetToQuotation, ConfirmOffer, MayConfirm, QuoteInv
  <2> QED  BY <2>1, StillTheQuote DEF QuoteInv
<1>6. ASSUME NEW l \in OrderLine, NEW c \in Certificate, EnterCertificate(l, c) PROVE QuoteInv'
  <2>1. /\ UNCHANGED <<rfq, shape, form, offer>> /\ OrderLine \subseteq 0..3
        /\ entered' \in [OrderLine -> Certificate \union {NoCert}]
        /\ \A m \in OrderLine : entered'[m] = IF m = l THEN c ELSE entered[m]
    BY <1>6 DEF EnterCertificate, QuoteInv, OrderLine
  <2>2. /\ stone \in [OrderLine -> [product : 0..3, cert : Certificate \union {NoCert}]]
        /\ \A m \in OrderLine : stone[m].product \in {0, m} /\ stone[m].cert = entered[m]
    BY DEF QuoteInv
  <2>3. CASE Shared(l)
    <3>1. stone' = [stone EXCEPT ![l] = [product |-> l, cert |-> c]]
      BY <1>6, <2>3 DEF EnterCertificate
    <3> QED  BY <2>1, <2>2, <3>1, StillTheQuote DEF QuoteInv
  <2>4. CASE ~Shared(l)
    <3>1. \A m \in OrderLine : stone[m].product = stone[l].product => m = l
      BY <2>4 DEF Shared
    <3>2. stone' = [m \in OrderLine |-> IF m = l THEN [stone[m] EXCEPT !.cert = c] ELSE stone[m]]
      BY <1>6, <2>4, <3>1 DEF EnterCertificate
    <3>3. /\ stone' \in [OrderLine -> [product : 0..3, cert : Certificate \union {NoCert}]]
          /\ \A m \in OrderLine : /\ stone'[m].product = stone[m].product
                                  /\ stone'[m].cert = IF m = l THEN c ELSE stone[m].cert
      BY <2>2, <3>2
    <3> QED  BY <2>1, <2>2, <3>3, StillTheQuote DEF QuoteInv
  <2> QED  BY <2>3, <2>4
<1>7. CASE UNCHANGED rfq_vars
  <2>1. UNCHANGED <<rfq, shape, form, offer, stone, entered>>
    BY <1>7 DEF rfq_vars
  <2> QED  BY <2>1, StillTheQuote DEF QuoteInv
<1> QED  BY <1>1, <1>2, <1>3, <1>4, <1>5, <1>6, <1>7 DEF RfqNext

\* What is sold is what was quoted: a quote becomes one order and one sale order, at its
\* total and its rate, with the certificates of its own stones.
THEOREM SoldOnceAsQuoted == RfqSpec => []SoldAsQuoted
<1>1. RfqInit => QuoteInv
  <2>1. SUFFICES ASSUME RfqInit PROVE QuoteInv
    OBVIOUS
  <2>2. rfq \in Quote /\ rfq.state = "draft"
    <3>1. PICK d \in BOOLEAN :
            rfq = [state |-> "draft", price |-> 0, different |-> FALSE,
                   costing |-> [row \in SizeRow |-> 0], rate |-> 0, dollars |-> d]
      BY <2>1 DEF RfqInit
    <3> QED  BY <3>1 DEF Quote, RfqStates
  <2>3. /\ stone \in [OrderLine -> [product : 0..3, cert : Certificate \union {NoCert}]]
        /\ entered \in [OrderLine -> Certificate \union {NoCert}]
        /\ \A l \in OrderLine : stone[l].product \in {0, l} /\ stone[l].cert = entered[l]
    BY <2>1 DEF RfqInit
  <2>4. shape \in Shape /\ form \in [RfqUser -> {"closed", "price", "rate"}]
        /\ offer = [state |-> "none", sales |-> 0, quoted |-> 0, lines |-> 0, rate |-> 0]
    BY <2>1 DEF RfqInit
  <2>5. OrderIsTheQuote
    BY <2>4 DEF OrderIsTheQuote
  <2> QED  BY <2>2, <2>3, <2>4, <2>5 DEF QuoteInv
<1>2. QuoteInv => SoldAsQuoted
  <2>1. SUFFICES ASSUME QuoteInv PROVE SoldAsQuoted
    OBVIOUS
  <2>2. OneSaleOrder
    BY <2>1 DEF QuoteInv, OneSaleOrder
  <2>3. RateIsTheOrders
    BY <2>1 DEF QuoteInv, RateIsTheOrders
  <2>4. OwnCertificate
    BY <2>1 DEF QuoteInv, OwnCertificate
  <2>5. OrderIsTheQuote
    BY <2>1 DEF QuoteInv
  <2> QED  BY <2>2, <2>3, <2>4, <2>5 DEF SoldAsQuoted
<1> QED  BY <1>1, <1>2, QuoteStep, PTL DEF RfqSpec

HIDE CustomerRfqAssumption

(***************************************************************************)
(* DocSeries                                                               *)
(***************************************************************************)
USE DocSeriesAssumption

DocNumber == [head : Setting, n : Nat]

\* Each number that is out was drawn from a counter of its prefix and year, which stands
\* behind it.
BehindCounters(rows, number) ==
  \A d \in Doc : number[d] # Unnumbered =>
    /\ StartNo <= number[d].n
    /\ \E c \in rows : c.head = number[d].head /\ number[d].n < c.next

\* All numbers before a counter are out.
Filled(rows, number) ==
  \A c \in rows : \A k \in StartNo..(c.next - 1) :
    \E d \in Doc : number[d] # Unnumbered /\ number[d].head = c.head /\ number[d].n = k

OnePerRow(rows) == \A c, e \in rows : c.id = e.id => c = e

\* The table and the numbers agree.
Numbering(rows, number) ==
  /\ rows \in SUBSET Row /\ IsFiniteSet(rows)
  /\ number \in [Doc -> DocNumber \union {Unnumbered}]
  /\ OnePerRow(rows) /\ \A c \in rows : StartNo <= c.next
  /\ BehindCounters(rows, number) /\ Filled(rows, number)

\* A counter that may be drawn from: one of the table, or a new one.
MayDraw(rows, c) ==
  \/ c \in rows
  \/ c \in Row /\ c.next = StartNo /\ \A e \in rows : e.id # c.id

\* A duplicate has two counters.
Explained(rows, number) ==
  \A d, e \in Doc : /\ d # e /\ SameKind(d, e) /\ Kind[Column[d]] \in Renumbered
                    /\ number[d] # Unnumbered /\ number[d] = number[e]
                    => \E c, b \in rows : c # b /\ c.head = number[d].head /\ b.head = number[d].head

\* The counter is moved on by one, the others stay.
LEMMA AdvanceFacts ==
    ASSUME NEW rows \in SUBSET Row, IsFiniteSet(rows), OnePerRow(rows),
           NEW c, MayDraw(rows, c)
    PROVE  \E a : /\ Advance(rows, c) = (rows \ {c}) \union {a}
                  /\ a \in Row /\ a.id = c.id /\ a.head = c.head /\ a.next = c.next + 1
                  /\ c \in Row /\ Advance(rows, c) \in SUBSET Row
                  /\ IsFiniteSet(Advance(rows, c)) /\ OnePerRow(Advance(rows, c))
                  /\ \A e \in rows \ {c} : e.id # a.id
<1> DEFINE a == [c EXCEPT !.next = c.next + 1]
           r == (rows \ {c}) \union {a}
<1>1. c \in Row
  BY DEF MayDraw
<1>2. a \in Row /\ a.id = c.id /\ a.head = c.head /\ a.next = c.next + 1
  BY <1>1 DEF Row
<1>3. Advance(rows, c) = r
  BY DEF Advance
<1> HIDE DEF a
<1>4. r \in SUBSET Row
  BY <1>2
<1>5. IsFiniteSet(r)
  <2>1. IsFiniteSet(rows \ {c})
    BY FS_Subset
  <2> QED  BY <2>1, FS_AddElement
<1>6. \A e \in rows \ {c} : e.id # a.id
  BY <1>2 DEF MayDraw, OnePerRow
<1>7. OnePerRow(r)
  BY <1>6 DEF OnePerRow
<1> HIDE DEF r
<1> QED  BY <1>1, <1>2, <1>3, <1>4, <1>5, <1>6, <1>7 DEF r

\* A number is drawn for a record that has none, or whose number another record has.
LEMMA DrawnKeeps ==
    ASSUME NEW rows, NEW number, Numbering(rows, number), NEW c, MayDraw(rows, c), NEW d \in Doc,
           number[d] # Unnumbered => \E e \in Doc : e # d /\ number[e] = number[d]
    PROVE  Numbering(Advance(rows, c), [number EXCEPT ![d] = Number(c)])
<1> DEFINE n == Number(c)
           m == [number EXCEPT ![d] = n]
           r == Advance(rows, c)
<1>1. /\ rows \in SUBSET Row /\ IsFiniteSet(rows)
      /\ number \in [Doc -> DocNumber \union {Unnumbered}]
      /\ OnePerRow(rows) /\ \A e \in rows : StartNo <= e.next
      /\ BehindCounters(rows, number) /\ Filled(rows, number)
  BY DEF Numbering
<1>2. PICK a : /\ r = (rows \ {c}) \union {a}
               /\ a \in Row /\ a.id = c.id /\ a.head = c.head /\ a.next = c.next + 1
               /\ c \in Row /\ r \in SUBSET Row /\ IsFiniteSet(r) /\ OnePerRow(r)
  BY <1>1, AdvanceFacts
<1>3. n \in DocNumber /\ n.head = c.head /\ n.n = c.next /\ n # Unnumbered
  <2>1. n \in DocNumber /\ n.head = c.head /\ n.n = c.next
    BY <1>2 DEF Number, DocNumber, Row
  <2> QED  BY <2>1 DEF DocNumber, Setting, Years
<1>4. c.next \in Nat /\ StartNo <= c.next
  BY <1>1, <1>2 DEF MayDraw, Row
<1> HIDE DEF n, r
<1>5. m \in [Doc -> DocNumber \union {Unnumbered}] /\ m[d] = n /\ \A e \in Doc : e # d => m[e] = number[e]
  BY <1>1, <1>3
<1> HIDE DEF m
<1>6. ASSUME NEW e \in Doc, number[e] # Unnumbered
      PROVE  \E f \in Doc : m[f] = number[e]
  BY <1>5, <1>6
<1>7. \A e \in r : StartNo <= e.next
  BY <1>1, <1>2, <1>4
<1>8. BehindCounters(r, m)
  <2>1. SUFFICES ASSUME NEW e \in Doc, m[e] # Unnumbered
                 PROVE  StartNo <= m[e].n /\ \E b \in r : b.head = m[e].head /\ m[e].n < b.next
    BY DEF BehindCounters
  <2>2. CASE e = d
    BY <1>2, <1>3, <1>4, <1>5, <2>2
  <2>3. CASE e # d
    <3>1. m[e] = number[e] /\ m[e].n \in Nat
      BY <1>1, <1>5, <2>1, <2>3 DEF DocNumber
    <3>2. PICK b \in rows : b.head = number[e].head /\ number[e].n < b.next /\ StartNo <= number[e].n
      BY <1>1, <2>1, <3>1 DEF BehindCounters
    <3>3. CASE b = c
      BY <1>2, <1>4, <3>1, <3>2, <3>3
    <3>4. CASE b # c
      BY <1>2, <3>1, <3>2, <3>4
    <3> QED  BY <3>3, <3>4
  <2> QED  BY <2>2, <2>3
<1>9. Filled(r, m)
  <2>1. SUFFICES ASSUME NEW b \in r, NEW k \in StartNo..(b.next - 1)
                 PROVE  \E f \in Doc : m[f] # Unnumbered /\ m[f].head = b.head /\ m[f].n = k
    BY DEF Filled
  <2>2. ASSUME NEW e \in rows, e.head = b.head, k \in StartNo..(e.next - 1)
        PROVE  \E f \in Doc : m[f] # Unnumbered /\ m[f].head = b.head /\ m[f].n = k
    <3>1. PICK g \in Doc : number[g] # Unnumbered /\ number[g].head = e.head /\ number[g].n = k
      BY <1>1, <2>2 DEF Filled
    <3>2. PICK f \in Doc : m[f] = number[g]
      BY <1>6, <3>1
    <3> QED  BY <2>2, <3>1, <3>2
  <2>3. CASE b \in rows
    BY <2>1, <2>2, <2>3
  <2>4. CASE b = a /\ k = c.next
    BY <1>2, <1>3, <1>5, <2>4
  <2>5. CASE b = a /\ k # c.next
    <3>1. k \in StartNo..(c.next - 1)
      BY <1>2, <1>4, <2>1, <2>5
    <3>2. c \in rows
      BY <3>1, <1>4 DEF MayDraw
    <3> QED  BY <1>2, <2>2, <2>5, <3>1, <3>2
  <2> QED  BY <1>2, <2>3, <2>4, <2>5
<1> QED  BY <1>2, <1>5, <1>7, <1>8, <1>9 DEF Numbering, m, r, n

\* A drawn number is a duplicate only if a second counter of its prefix and year stands.
LEMMA DrawnExplained ==
    ASSUME NEW rows, NEW number, Numbering(rows, number), Explained(rows, number),
           NEW c, MayDraw(rows, c), NEW d \in Doc
    PROVE  Explained(Advance(rows, c), [number EXCEPT ![d] = Number(c)])
<1> DEFINE n == Number(c)
           m == [number EXCEPT ![d] = n]
           r == Advance(rows, c)
<1>1. /\ rows \in SUBSET Row /\ IsFiniteSet(rows) /\ OnePerRow(rows)
      /\ number \in [Doc -> DocNumber \union {Unnumbered}] /\ BehindCounters(rows, number)
  BY DEF Numbering
<1>2. PICK a : /\ r = (rows \ {c}) \union {a} /\ a.id = c.id /\ a.head = c.head /\ c \in Row
               /\ \A e \in rows \ {c} : e.id # a.id
  BY <1>1, AdvanceFacts
<1>3. n.head = c.head /\ n.n = c.next /\ c.next \in Nat
  BY <1>2 DEF Number, Row
<1> HIDE DEF n, r
<1>4. m[d] = n /\ \A e \in Doc : e # d => m[e] = number[e]
  BY <1>1
<1> HIDE DEF m
<1>5. ASSUME NEW e \in Doc, e # d, number[e] # Unnumbered, number[e] = n
      PROVE  \E b \in rows \ {c} : b.head = c.head
  <2>1. PICK b \in rows : b.head = c.head /\ c.next < b.next
    BY <1>1, <1>3, <1>5 DEF BehindCounters
  <2>2. b # c
    BY <1>3, <2>1
  <2> QED  BY <2>1, <2>2
<1>6. ASSUME NEW b \in rows \ {c}, b.head = c.head
      PROVE  \E x, y \in r : x # y /\ x.head = c.head /\ y.head = c.head
  <2>1. b # a /\ a \in r /\ b \in r
    BY <1>2, <1>6
  <2> QED  BY <1>2, <1>6, <2>1
<1>7. ASSUME NEW x \in rows, NEW y \in rows, x # y, x.head = y.head
      PROVE  \E v, w \in r : v # w /\ v.head = x.head /\ w.head = x.head
  <2>1. CASE x = c
    BY <1>6, <1>7, <2>1
  <2>2. CASE y = c
    BY <1>6, <1>7, <2>2
  <2>3. CASE x # c /\ y # c
    BY <1>2, <1>7, <2>3
  <2> QED  BY <2>1, <2>2, <2>3
<1>8. Explained(r, m)
  <2>1. SUFFICES ASSUME NEW e \in Doc, NEW f \in Doc, e # f, SameKind(e, f),
                        Kind[Column[e]] \in Renumbered, m[e] # Unnumbered, m[e] = m[f]
                 PROVE  \E x, y \in r : x # y /\ x.head = m[e].head /\ y.head = m[e].head
    BY DEF Explained
  <2>2. CASE e = d
    BY <1>3, <1>4, <1>5, <1>6, <2>1, <2>2
  <2>3. CASE f = d
    BY <1>3, <1>4, <1>5, <1>6, <2>1, <2>3
  <2>4. CASE e # d /\ f # d
    <3>1. m[e] = number[e] /\ m[f] = number[f]
      BY <1>4, <2>4
    <3>2. PICK x \in rows, y \in rows : x # y /\ x.head = number[e].head /\ y.head = number[e].head
      BY <2>1, <3>1 DEF Explained
    <3> QED  BY <1>7, <3>1, <3>2
  <2> QED  BY <2>2, <2>3, <2>4
<1> QED  BY <1>8 DEF m, r, n

\* Of the counters of a prefix and year, one is the oldest, and one is furthest on.
LEMMA HeldFacts ==
    ASSUME NEW rows \in SUBSET Row, IsFiniteSet(rows), NEW h, Held(rows, h) # {}
    PROVE  LET top == Max({e.next : e \in Held(rows, h)})
           IN  /\ Oldest(Held(rows, h)) \in Held(rows, h)
               /\ FoundCounter(rows, h) \in Held(rows, h)
               /\ \E e \in Held(rows, h) : e.next = top
               /\ \A e \in Held(rows, h) : e.next <= top
<1> DEFINE H == Held(rows, h)
           T == {e.next : e \in H}
<1>1. H \in SUBSET rows /\ IsFiniteSet(H)
  <2>1. H \in SUBSET rows
    BY DEF Held
  <2> QED  BY <2>1, FS_Subset
<1> HIDE DEF H
<1>2. ASSUME NEW S \in SUBSET H, S # {} PROVE Oldest(S) \in S
  <2> DEFINE f == [c \in S |-> c.id]
             I == {f[c] : c \in S}
  <2>1. IsFiniteSet(S)
    BY <1>1, FS_Subset
  <2>2. IsFiniteSet(I)
    <3> HIDE DEF f
    <3> QED  BY <2>1, ImageFinite
  <2>3. I \in SUBSET Int /\ I # {} /\ \A c \in S : c.id \in I
    BY <1>1, <1>2 DEF Row
  <2>4. \A i \in I : \E c \in S : c.id = i
    OBVIOUS
  <2> HIDE DEF I
  <2>5. PICK i \in I : \A j \in I : i <= j
    BY <2>2, <2>3, Extremes DEF HasEnds
  <2>6. \E c \in S : \A e \in S : c.id <= e.id
    <3>1. PICK c \in S : c.id = i
      BY <2>4
    <3>2. ASSUME NEW e \in S PROVE c.id <= e.id
      BY <2>3, <2>5, <3>1
    <3> QED  BY <3>2
  <2> QED  BY <2>6 DEF Oldest
<1>3. Max(T) \in T /\ \A t \in T : Max(T) >= t
  <2> DEFINE f == [c \in H |-> c.next]
             I == {f[c] : c \in H}
  <2>1. IsFiniteSet(I)
    <3> HIDE DEF f
    <3> QED  BY <1>1, ImageFinite
  <2>2. I = T
    OBVIOUS
  <2>3. T \in SUBSET Int /\ T # {}
    BY <1>1 DEF Row, H
  <2> HIDE DEF T, I
  <2> QED  BY <2>1, <2>2, <2>3, MaxMin
<1>4. /\ \E e \in H : e.next = Max(T)
      /\ \A e \in H : e.next <= Max(T)
  <2>1. \A e \in H : e.next \in Int /\ Max(T) >= e.next
    BY <1>1, <1>3 DEF Row
  <2>2. Max(T) \in Int /\ \E e \in H : e.next = Max(T)
    BY <1>1, <1>3 DEF Row
  <2> HIDE DEF T
  <2> QED  BY <2>1, <2>2
<1>5. Furthest(H) # {} /\ Furthest(H) \in SUBSET H
  <2>1. PICK e \in H : e.next = Max(T)
    BY <1>4
  <2>2. \A b \in H : b.next <= e.next
    BY <1>4, <2>1
  <2> QED  BY <2>2 DEF Furthest
<1>6. Oldest(H) \in H /\ Oldest(Furthest(H)) \in H
  <2>1. H # {}
    BY DEF H
  <2>2. Oldest(H) \in H
    BY <1>2, <2>1
  <2>3. Oldest(Furthest(H)) \in Furthest(H)
    BY <1>2, <1>5
  <2> QED  BY <1>5, <2>2, <2>3
<1> QED  BY <1>4, <1>6 DEF H, FoundCounter

\* A new row of the table has an id that no row has.
LEMMA NewCounterFacts ==
    ASSUME NEW rows \in SUBSET Row, IsFiniteSet(rows), NEW h \in Setting, NEW id \in NewIds(rows)
    PROVE  MayDraw(rows, NewCounter(id, h)) /\ Youngest(rows) \in NewIds(rows)
<1> DEFINE f == [c \in rows |-> c.id]
           I == {f[c] : c \in rows}
           T == {0} \union {c.id : c \in rows}
<1>1. IsFiniteSet(I)
  <2> HIDE DEF f
  <2> QED  BY ImageFinite
<1>2. T = I \union {0}
  OBVIOUS
<1>3. T \in SUBSET Int /\ T # {} /\ \A c \in rows : c.id \in T
  BY DEF Row
<1> HIDE DEF I
<1>4. IsFiniteSet(T)
  BY <1>1, <1>2, FS_AddElement
<1>5. id \in {1 + Max(T), Min(T) - 1}
  BY DEF NewIds, Youngest
<1> HIDE DEF T
<1>6. /\ Max(T) \in Int /\ \A x \in T : Max(T) >= x
      /\ Min(T) \in Int /\ \A x \in T : Min(T) <= x
  BY <1>3, <1>4, MaxMin
<1>7. id \in Int /\ \A c \in rows : c.id # id
  <2>1. \A x \in T : x \in Int
    BY <1>3
  <2>2. id \in Int /\ id \notin T
    BY <1>5, <1>6, <2>1
  <2> QED  BY <1>3, <2>2
<1>8. NewCounter(id, h) \in Row /\ NewCounter(id, h).next = StartNo /\ NewCounter(id, h).id = id
  BY <1>7 DEF NewCounter, Row
<1> QED  BY <1>7, <1>8 DEF MayDraw, NewIds

\* One counter per prefix and year.
Single(rows) == \A c, e \in rows : c.head = e.head => c = e

\* The first pass leaves one counter per prefix and year, and they agree with the numbers.
LEMMA MergedFacts ==
    ASSUME Numbering(counters, issued)
    PROVE  Numbering(MergedRows, issued) /\ Single(MergedRows)
<1> DEFINE f == [c \in counters |-> [Oldest(Held(counters, c.head)) EXCEPT
                    !.next = Max({e.next : e \in Held(counters, c.head)})]]
           M == {f[c] : c \in counters}
<1>1. /\ counters \in SUBSET Row /\ IsFiniteSet(counters)
      /\ issued \in [Doc -> DocNumber \union {Unnumbered}]
      /\ OnePerRow(counters) /\ \A c \in counters : StartNo <= c.next
      /\ BehindCounters(counters, issued) /\ Filled(counters, issued)
  BY DEF Numbering
<1>2. MergedRows = M
  BY DEF MergedRows
<1>3. ASSUME NEW c \in counters
      PROVE  /\ f[c] \in Row /\ f[c].head = c.head
             /\ \E e \in counters : e.head = c.head /\ e.id = f[c].id
             /\ \E e \in counters : e.head = c.head /\ e.next = f[c].next
             /\ \A e \in counters : e.head = c.head => e.next <= f[c].next
             /\ \A e \in counters : e.head = c.head => f[e] = f[c]
  <2> DEFINE o == Oldest(Held(counters, c.head))
             top == Max({e.next : e \in Held(counters, c.head)})
  <2>1. Held(counters, c.head) # {}
    BY DEF Held
  <2>2. /\ o \in Held(counters, c.head)
        /\ \E e \in Held(counters, c.head) : e.next = top
        /\ \A e \in Held(counters, c.head) : e.next <= top
    BY <1>1, <2>1, HeldFacts
  <2>3. f[c] = [o EXCEPT !.next = top]
    OBVIOUS
  <2>4. \A e \in counters : e.head = c.head => f[e] = f[c]
    OBVIOUS
  <2> HIDE DEF f, o, top
  <2>5. o \in Row /\ o.head = c.head /\ o \in counters /\ top \in Nat
    BY <1>1, <2>2 DEF Held, Row
  <2>6. f[c] \in Row /\ f[c].head = c.head /\ f[c].id = o.id /\ f[c].next = top
    BY <2>3, <2>5 DEF Row
  <2> QED  BY <2>2, <2>4, <2>5, <2>6 DEF Held
<1>4. IsFiniteSet(M)
  <2> HIDE DEF f
  <2> QED  BY <1>1, ImageFinite
<1> HIDE DEF f
<1>5. M \in SUBSET Row
  <2>1. \A c \in counters : f[c] \in Row
    BY <1>3
  <2> QED  BY <2>1
<1>6. Single(M)
  <2>1. SUFFICES ASSUME NEW c \in counters, NEW e \in counters, f[c].head = f[e].head
                 PROVE  f[c] = f[e]
    BY DEF Single
  <2> QED  BY <1>3, <2>1
<1>7. OnePerRow(M)
  <2>1. SUFFICES ASSUME NEW c \in counters, NEW e \in counters, f[c].id = f[e].id
                 PROVE  f[c] = f[e]
    BY DEF OnePerRow
  <2>2. PICK x \in counters : x.head = c.head /\ x.id = f[c].id
    BY <1>3
  <2>3. PICK y \in counters : y.head = e.head /\ y.id = f[e].id
    BY <1>3
  <2>4. x = y
    BY <1>1, <2>1, <2>2, <2>3 DEF OnePerRow
  <2> QED  BY <1>3, <2>2, <2>3, <2>4
<1>8. \A m \in M : StartNo <= m.next
  <2>1. ASSUME NEW c \in counters PROVE StartNo <= f[c].next
    BY <1>1, <1>3
  <2> QED  BY <2>1
<1>9. BehindCounters(M, issued)
  <2>1. SUFFICES ASSUME NEW d \in Doc, issued[d] # Unnumbered
                 PROVE  StartNo <= issued[d].n /\ \E m \in M : m.head = issued[d].head /\ issued[d].n < m.next
    BY DEF BehindCounters
  <2>2. PICK c \in counters : c.head = issued[d].head /\ issued[d].n < c.next /\ StartNo <= issued[d].n
    BY <1>1, <2>1 DEF BehindCounters
  <2>3. issued[d].n \in Nat /\ c.next \in Nat /\ f[c].next \in Nat
    BY <1>1, <1>3, <2>1 DEF DocNumber, Row
  <2>4. f[c].head = issued[d].head /\ c.next <= f[c].next /\ f[c] \in M
    BY <1>3, <2>2
  <2> QED  BY <2>2, <2>3, <2>4
<1>10. Filled(M, issued)
  <2>1. SUFFICES ASSUME NEW c \in counters, NEW k \in StartNo..(f[c].next - 1)
                 PROVE  \E d \in Doc : issued[d] # Unnumbered /\ issued[d].head = f[c].head /\ issued[d].n = k
    BY DEF Filled
  <2>2. PICK e \in counters : e.head = c.head /\ e.next = f[c].next
    BY <1>3
  <2>3. k \in StartNo..(e.next - 1)
    BY <2>1, <2>2
  <2>4. PICK d \in Doc : issued[d] # Unnumbered /\ issued[d].head = e.head /\ issued[d].n = k
    BY <1>1, <2>3 DEF Filled
  <2>5. f[c].head = c.head
    BY <1>3
  <2> QED  BY <2>2, <2>4, <2>5
<1> HIDE DEF M
<1> QED  BY <1>1, <1>2, <1>4, <1>5, <1>6, <1>7, <1>8, <1>9, <1>10 DEF Numbering

\* The records up to k have no number that an earlier record of their type has, if the
\* repair renumbers that type.
Distinct(number, k) ==
  \A d, e \in Doc : /\ e < d /\ d <= k /\ SameKind(d, e) /\ Kind[Column[d]] \in Renumbered
                    /\ number[d] # Unnumbered
                    => number[e] # number[d]
RepairedTo(st, k) == Numbering(st.rows, st.number) /\ Single(st.rows) /\ Distinct(st.number, k)

\* One record is looked at.
LEMMA ReissueKeeps ==
    ASSUME setting \in [Series -> Setting], NEW d \in Doc, NEW st, RepairedTo(st, d - 1)
    PROVE  RepairedTo(Reissue(st, d), d)
<1> DEFINE Twin == /\ Kind[Column[d]] \in Renumbered /\ st.number[d] # Unnumbered
                   /\ \E e \in Doc : e < d /\ SameKind(d, e) /\ st.number[e] = st.number[d]
           h == setting[Column[d]]
           c == IF Held(st.rows, h) = {} THEN NewCounter(Youngest(st.rows), h)
                ELSE FoundCounter(st.rows, h)
           n == Number(c)
           m == [st.number EXCEPT ![d] = n]
           r == Advance(st.rows, c)
<1>1. Numbering(st.rows, st.number) /\ Single(st.rows) /\ Distinct(st.number, d - 1) /\ d \in Nat
  BY DEF RepairedTo
<1>2. h \in Setting
  OBVIOUS
<1>3. /\ st.rows \in SUBSET Row /\ IsFiniteSet(st.rows) /\ OnePerRow(st.rows)
      /\ st.number \in [Doc -> DocNumber \union {Unnumbered}] /\ BehindCounters(st.rows, st.number)
  BY <1>1 DEF Numbering
<1>4. CASE ~Twin
  <2>1. Reissue(st, d) = st
    BY <1>4 DEF Reissue
  <2>2. Distinct(st.number, d)
    <3>1. SUFFICES ASSUME NEW x \in Doc, NEW y \in Doc, y < x, x <= d, SameKind(x, y),
                          Kind[Column[x]] \in Renumbered, st.number[x] # Unnumbered
                   PROVE  st.number[y] # st.number[x]
      BY DEF Distinct
    <3>2. CASE x = d
      BY <1>4, <3>1, <3>2
    <3>3. CASE x # d
      <4>0. x \in Nat /\ d \in Nat
        OBVIOUS
      <4>1. x <= d - 1
        BY ONLY <3>1, <3>3, <4>0
      <4> QED  BY <1>1, <3>1, <4>1 DEF Distinct
    <3> QED  BY <3>2, <3>3
  <2> QED  BY <1>1, <2>1, <2>2 DEF RepairedTo
<1>5. CASE Twin
  <2>1. Reissue(st, d) = [rows |-> r, number |-> m]
    BY <1>5 DEF Reissue
  <2>2. c.head = h /\ MayDraw(st.rows, c) /\ (c \in st.rows \/ Held(st.rows, h) = {})
    <3>1. CASE Held(st.rows, h) = {}
      <4>0. c = NewCounter(Youngest(st.rows), h)
        BY <3>1
      <4>1. Youngest(st.rows) \in NewIds(st.rows)
        BY DEF NewIds
      <4> HIDE DEF h
      <4>2. MayDraw(st.rows, c)
        BY <1>2, <1>3, <4>0, <4>1, NewCounterFacts
      <4> QED  BY <3>1, <4>0, <4>2 DEF NewCounter
    <3>2. CASE Held(st.rows, h) # {}
      <4>0. c = FoundCounter(st.rows, h)
        BY <3>2
      <4> HIDE DEF h
      <4>1. c \in Held(st.rows, h)
        BY <1>3, <3>2, <4>0, HeldFacts
      <4> QED  BY <4>1 DEF Held, MayDraw
    <3> QED  BY <3>1, <3>2
  <2> HIDE DEF c, h
  <2>3. PICK a : /\ r = (st.rows \ {c}) \union {a} /\ a.head = c.head /\ c \in Row
    <3>1. c \in Row
      BY <1>3, <2>2 DEF MayDraw
    <3> QED  BY <1>3, <2>2, <3>1, AdvanceFacts
  <2>4. Numbering(r, m)
    <3>1. \E e \in Doc : e # d /\ st.number[e] = st.number[d]
      <4>1. PICK e \in Doc : e < d /\ st.number[e] = st.number[d]
        BY <1>5
      <4>0. e \in Nat /\ d \in Nat
        OBVIOUS
      <4>2. e # d
        BY ONLY <4>0, <4>1
      <4> QED  BY <4>1, <4>2
    <3> QED  BY <1>1, <2>2, <3>1, DrawnKeeps
  <2>5. ASSUME NEW e \in st.rows, e.head = c.head PROVE e = c
    BY <1>1, <2>2, <2>5 DEF Single, Held
  <2>6. Single(r)
    <3>1. SUFFICES ASSUME NEW x \in r, NEW y \in r, x.head = y.head PROVE x = y
      BY DEF Single
    <3> QED  BY <1>1, <2>3, <2>5, <3>1 DEF Single
  <2>7. n.n = c.next /\ n.head = c.head /\ c.next \in Nat
    BY <2>3 DEF Number, Row
  <2>8. ASSUME NEW e \in Doc, st.number[e] # Unnumbered PROVE st.number[e] # n
    <3>1. PICK b \in st.rows : b.head = st.number[e].head /\ st.number[e].n < b.next
      BY <1>3, <2>8 DEF BehindCounters
    <3>2. SUFFICES ASSUME st.number[e] = n PROVE FALSE
      OBVIOUS
    <3>3. b = c
      BY <2>5, <2>7, <3>1, <3>2
    <3> QED  BY <2>7, <3>1, <3>2, <3>3
  <2>9. m[d] = n /\ \A e \in Doc : e # d => m[e] = st.number[e]
    BY <1>3
  <2>10. n # Unnumbered
    <3>1. n \in DocNumber
      BY <2>3 DEF Number, DocNumber, Row
    <3> QED  BY <3>1 DEF DocNumber, Setting, Years
  <2> HIDE DEF m, n, r
  <2>11. Distinct(m, d)
    <3>1. SUFFICES ASSUME NEW x \in Doc, NEW y \in Doc, y < x, x <= d, SameKind(x, y),
                          Kind[Column[x]] \in Renumbered, m[x] # Unnumbered
                   PROVE  m[y] # m[x]
      BY DEF Distinct
    <3>2. CASE x = d
      BY <2>8, <2>9, <2>10, <3>1, <3>2
    <3>3. CASE x # d
      <4>0. x \in Nat /\ y \in Nat /\ d \in Nat
        OBVIOUS
      <4>1. x <= d - 1 /\ y # d
        BY <3>1, <3>3, <4>0
      <4>2. m[x] = st.number[x] /\ m[y] = st.number[y]
        BY <2>9, <3>3, <4>1
      <4> QED  BY <1>1, <3>1, <4>1, <4>2 DEF Distinct
    <3> QED  BY <3>2, <3>3
  <2> QED  BY <2>1, <2>4, <2>6, <2>11 DEF RepairedTo
<1> QED  BY <1>4, <1>5

\* With one counter per prefix and year that stands behind its numbers, the third pass
\* changes nothing.
LEMMA PushedNowhere ==
    ASSUME NEW rows, NEW number, Numbering(rows, number), Single(rows)
    PROVE  PushedPast(rows, number) = rows
<1> DEFINE T(c) == {c.next} \union
                     {number[d].n + 1 : d \in {e \in Doc : /\ Kind[Column[e]] \in Renumbered
                                                           /\ number[e] # Unnumbered
                                                           /\ number[e].head = c.head}}
           g(c) == [c EXCEPT !.next = Max(T(c))]
<1>1. PushedPast(rows, number) = {g(c) : c \in rows}
  BY DEF PushedPast
<1>2. ASSUME NEW c \in rows PROVE g(c) = c
  <2>1. c \in Row /\ c.next \in Nat
    BY DEF Numbering, Row
  <2>2. ASSUME NEW e \in Doc, number[e] # Unnumbered, number[e].head = c.head
        PROVE  number[e].n + 1 \in Nat /\ number[e].n + 1 <= c.next
    <3>1. number[e].n \in Nat
      BY <2>2 DEF Numbering, DocNumber
    <3>2. PICK b \in rows : b.head = number[e].head /\ number[e].n < b.next
      BY <2>2 DEF Numbering, BehindCounters
    <3>3. b = c
      BY <2>2, <3>2 DEF Single
    <3> QED  BY <2>1, <3>1, <3>2, <3>3
  <2>3. c.next \in T(c) /\ \A t \in T(c) : t \in Nat /\ t <= c.next
    <3>1. ASSUME NEW t \in T(c) PROVE t \in Nat /\ t <= c.next
      <4>1. CASE t = c.next
        BY <2>1, <4>1
      <4>2. CASE t # c.next
        <5>1. PICK e \in Doc : number[e] # Unnumbered /\ number[e].head = c.head /\ t = number[e].n + 1
          BY <3>1, <4>2
        <5> QED  BY <2>2, <5>1
      <4> QED  BY <4>1, <4>2
    <3> QED  BY <3>1
  <2> DEFINE U == T(c)
  <2>4. U = T(c)
    OBVIOUS
  <2> HIDE DEF U, T
  <2>5. Max(U) = c.next
    BY <2>1, <2>3, <2>4 DEF Max
  <2> QED  BY <2>1, <2>4, <2>5 DEF Row
<1> HIDE DEF g
<1> QED  BY <1>1, <1>2

\* The second pass, record after record, if f has what it leaves after each.
After(base, f, k) ==
  IF k = 0 THEN base ELSE IF k \in Doc THEN Reissue(f[k - 1], k) ELSE f[k - 1]
Passes(base, f, n) == f = [k \in 0..n |-> After(base, f, k)]

\* The last id there is.
LEMMA LastIs == LastDoc \in Nat /\ \A d \in Doc : d <= LastDoc
<1> DEFINE T == {0} \union Doc
<1>1. IsFiniteSet(Doc \union {0})
  BY FS_AddElement
<1>2. T = Doc \union {0}
  OBVIOUS
<1>3. T \in SUBSET Int /\ T # {} /\ \A t \in T : t \in Nat
  OBVIOUS
<1> HIDE DEF T
<1>4. Max(T) \in T /\ \A t \in T : Max(T) >= t
  BY <1>1, <1>2, <1>3, MaxMin
<1>5. \A d \in Doc : d \in T
  BY <1>2
<1> QED  BY <1>3, <1>4, <1>5 DEF LastDoc, T

\* The pass is defined for every record.
LEMMA PassExists ==
    ASSUME NEW base
    PROVE  \E f : Passes(base, f, LastDoc)
<1> DEFINE N == LastDoc
           S == {k \in 0..N : \E f : Passes(base, f, k)}
<1>1. N \in Nat
  BY LastIs
<1>2. 0 \in S
  <2> DEFINE f == [i \in 0..0 |-> base]
  <2>1. \A i \in 0..0 : After(base, f, i) = base
    BY DEF After
  <2>2. Passes(base, f, 0)
    BY <2>1 DEF Passes
  <2>3. 0 \in 0..N
    BY <1>1
  <2> QED  BY <2>2, <2>3
<1>3. ASSUME NEW k \in 0..N, k # N, k \in S PROVE k + 1 \in S
  <2>1. PICK f : Passes(base, f, k)
    BY <1>3
  <2>0. k \in Nat
    BY <1>1
  <2> DEFINE g == [i \in 0..(k + 1) |-> IF i <= k THEN f[i] ELSE After(base, f, k + 1)]
  <2>2. ASSUME NEW i \in 0..(k + 1) PROVE g[i] = After(base, g, i)
    <3>1. i = 0 \/ g[i - 1] = f[i - 1]
      BY <2>0
    <3>2. After(base, g, i) = After(base, f, i)
      <4> HIDE DEF g
      <4> QED  BY <3>1 DEF After
    <3>3. i <= k => f[i] = After(base, f, i)
      <4> HIDE DEF g
      <4> QED  BY <2>0, <2>1 DEF Passes
    <3>4. i <= k \/ i = k + 1
      BY <2>0
    <3>5. g[i] = IF i <= k THEN f[i] ELSE After(base, f, k + 1)
      OBVIOUS
    <3> HIDE DEF g
    <3> QED  BY <2>0, <3>2, <3>3, <3>4, <3>5
  <2>3. g = [i \in 0..(k + 1) |-> g[i]]
    OBVIOUS
  <2> HIDE DEF g
  <2>4. Passes(base, g, k + 1)
    BY <2>2, <2>3 DEF Passes
  <2>5. k + 1 \in 0..N
    BY <1>1, <1>3
  <2> QED  BY <2>4, <2>5
<1> HIDE DEF S
<1>4. 0..N \subseteq S
  BY <1>1, <1>2, <1>3, UpTo
<1> QED  BY <1>1, <1>4 DEF S

\* The second pass leaves no duplicate that the repair renumbers.
LEMMA ReissuedFacts ==
    ASSUME setting \in [Series -> Setting], Numbering(counters, issued)
    PROVE  RepairedTo(Reissued, LastDoc)
<1> DEFINE base == [rows |-> MergedRows, number |-> issued]
           f == CHOOSE f : f = [k \in 0..LastDoc |-> After(base, f, k)]
           N == LastDoc
<1>1. f = [k \in 0..N |-> After(base, f, k)]
  BY PassExists DEF Passes
<1>2. Reissued = f[N]
  BY DEF Reissued, After
<1>3. N \in Nat /\ \A d \in Doc : d <= N /\ d \in Nat /\ d # 0
  BY LastIs
<1>4. RepairedTo(base, 0)
  <2>1. Numbering(MergedRows, issued) /\ Single(MergedRows)
    BY MergedFacts
  <2>2. Distinct(issued, 0)
    BY DEF Distinct
  <2> QED  BY <2>1, <2>2 DEF RepairedTo
<1> HIDE DEF f, base
<1>5. \A k \in 0..N : f[k] = After(base, f, k)
  BY <1>1
<1> DEFINE K == {k \in 0..N : RepairedTo(f[k], k)}
<1>6. 0 \in K
  <2>1. 0 \in 0..N
    BY <1>3
  <2>2. f[0] = base
    BY <1>5, <2>1 DEF After
  <2> QED  BY <1>4, <2>1, <2>2
<1>7. ASSUME NEW k \in 0..N, k # N, k \in K PROVE k + 1 \in K
  <2>1. k \in Nat /\ k + 1 \in 0..N /\ k + 1 # 0 /\ (k + 1) - 1 = k
    BY <1>3, <1>7
  <2>2. RepairedTo(f[k], k)
    BY <1>7
  <2>3. CASE k + 1 \in Doc
    <3>1. f[k + 1] = Reissue(f[k], k + 1)
      BY <1>5, <2>1, <2>3 DEF After
    <3>2. RepairedTo(f[k], (k + 1) - 1)
      BY <2>1, <2>2
    <3>3. RepairedTo(Reissue(f[k], k + 1), k + 1)
      BY <2>3, <3>2, ReissueKeeps
    <3> QED  BY <2>1, <3>1, <3>3
  <2>4. CASE k + 1 \notin Doc
    <3>1. f[k + 1] = f[k]
      BY <1>5, <2>1, <2>4 DEF After
    <3>2. Distinct(f[k].number, k + 1)
      <4>1. \A d \in Doc : d <= k + 1 => d <= k
        BY <1>3, <2>1, <2>4
      <4>2. Distinct(f[k].number, k)
        BY <2>2 DEF RepairedTo
      <4> QED  BY <4>1, <4>2 DEF Distinct
    <3>3. RepairedTo(f[k], k + 1)
      BY <2>2, <3>2 DEF RepairedTo
    <3> QED  BY <2>1, <3>1, <3>3
  <2> QED  BY <2>3, <2>4
<1> HIDE DEF K
<1>8. N \in K
  <2>1. 0..N \subseteq K
    BY <1>3, <1>6, <1>7, UpTo
  <2> QED  BY <1>3, <2>1
<1> QED  BY <1>2, <1>8 DEF K

\* What the repair writes: numbers that agree with the counters, one counter per prefix and
\* year, and no duplicate that it renumbers.
LEMMA RepairFacts ==
    ASSUME setting \in [Series -> Setting], Numbering(counters, issued), Repair
    PROVE  /\ Numbering(counters, issued)' /\ NothingLeftToRepair'
           /\ UNCHANGED <<setting, drawing, thisYear, resets>>
<1>1. RepairedTo(Reissued, LastDoc)
  BY ReissuedFacts
<1>2. PushedPast(Reissued.rows, Reissued.number) = Reissued.rows
  BY <1>1, PushedNowhere DEF RepairedTo
<1>3. counters' = Reissued.rows /\ issued' = Reissued.number
  BY <1>2 DEF Repair, RepairedState
<1>4. Numbering(counters', issued') /\ Distinct(issued', LastDoc)
  BY <1>1, <1>3 DEF RepairedTo
<1>5. Numbering(counters, issued)'
  BY <1>4 DEF Numbering, OnePerRow, BehindCounters, Filled
<1>6. NothingLeftToRepair'
  <2>1. SUFFICES ASSUME NEW d \in Doc, NEW e \in Doc, d # e, SameKind(d, e),
                        Kind[Column[d]] \in Renumbered, issued'[d] # Unnumbered,
                        issued'[d] = issued'[e]
                 PROVE  FALSE
    BY DEF NothingLeftToRepair
  <2>2. d \in Nat /\ e \in Nat /\ d <= LastDoc /\ e <= LastDoc
    BY LastIs
  <2>3. CASE e < d
    BY <1>4, <2>1, <2>2, <2>3 DEF Distinct
  <2>4. CASE ~(e < d)
    <3>1. d < e
      BY <2>1, <2>2, <2>4
    <3>2. SameKind(e, d) /\ Kind[Column[e]] \in Renumbered
      BY <2>1 DEF SameKind
    <3> QED  BY <1>4, <2>1, <2>2, <3>1, <3>2 DEF Distinct
  <2> QED  BY <2>3, <2>4
<1> QED  BY <1>5, <1>6 DEF Repair

\* Until a counter is set back: the counters and the numbers agree, a duplicate has two
\* counters, and only records without a number are being drawn for.
DocsSound ==
  /\ setting \in [Series -> Setting] /\ thisYear \in Years
  /\ Numbering(counters, issued) /\ Explained(counters, issued)
  /\ \A d \in Doc : drawing[d] # Unnumbered => issued[d] = Unnumbered /\ drawing[d].head \in Setting
DocsInv ==
  /\ resets \in Nat /\ drawing = [d \in Doc |-> drawing[d]]
  /\ resets = 0 => DocsSound

\* Without a new number or a move of a counter they agree as before.
LEMMA SameNumbers ==
    ASSUME DocsSound, UNCHANGED <<counters, issued>>,
           setting' \in [Series -> Setting] /\ thisYear' \in Years,
           \A d \in Doc : drawing'[d] # Unnumbered => issued[d] = Unnumbered /\ drawing'[d].head \in Setting
    PROVE  DocsSound'
BY DEF DocsSound, Numbering, OnePerRow, BehindCounters, Filled, Explained

\* Whatever happens, it stays so.
LEMMA DocsStep == ASSUME DocsInv, [DocsNext]_doc_vars PROVE DocsInv'
<1>1. resets \in Nat /\ drawing = [d \in Doc |-> drawing[d]]
  BY DEF DocsInv
<1>2. CASE UNCHANGED doc_vars
  BY <1>2 DEF doc_vars, DocsInv, DocsSound, Numbering, OnePerRow, BehindCounters, Filled, Explained
<1>3. ASSUME NEW d \in Doc, BeginDrawing(d) PROVE DocsInv'
  <2>1. /\ issued[d] = Unnumbered
        /\ drawing' = [drawing EXCEPT ![d] = [head |-> setting[Column[d]], rows |-> counters]]
        /\ UNCHANGED <<setting, counters, issued, thisYear, resets>>
    BY <1>3 DEF BeginDrawing
  <2>2. /\ drawing'[d] = [head |-> setting[Column[d]], rows |-> counters]
        /\ \A e \in Doc : e # d => drawing'[e] = drawing[e]
        /\ drawing' = [e \in Doc |-> drawing'[e]]
    BY <1>1, <2>1
  <2>3. ASSUME DocsSound PROVE DocsSound'
    <3>1. \A e \in Doc : drawing'[e] # Unnumbered => issued[e] = Unnumbered /\ drawing'[e].head \in Setting
      BY <2>1, <2>2, <2>3 DEF DocsSound
    <3>2. setting' \in [Series -> Setting] /\ thisYear' \in Years /\ UNCHANGED <<counters, issued>>
      BY <2>1, <2>3 DEF DocsSound
    <3> QED  BY <2>3, <3>1, <3>2, SameNumbers
  <2> QED  BY <2>1, <2>2, <2>3 DEF DocsInv
<1>4. ASSUME NEW d \in Doc, Draw(d) PROVE DocsInv'
  <2>1. PICK c \in CountersOf(d) : UseUp(d, c)
    BY <1>4 DEF Draw
  <2>2. /\ drawing[d] # Unnumbered /\ drawing' = [drawing EXCEPT ![d] = Unnumbered]
        /\ UNCHANGED <<setting, thisYear, resets>>
    BY <1>4 DEF Draw
  <2>3. counters' = Advance(counters, c) /\ issued' = [issued EXCEPT ![d] = Number(c)]
    BY <2>1 DEF UseUp
  <2>4. /\ drawing'[d] = Unnumbered
        /\ \A e \in Doc : e # d => drawing'[e] = drawing[e]
        /\ drawing' = [e \in Doc |-> drawing'[e]]
    BY <1>1, <2>2
  <2>5. ASSUME DocsSound PROVE DocsSound'
    <3>1. issued[d] = Unnumbered /\ drawing[d].head \in Setting /\ Numbering(counters, issued)
          /\ Explained(counters, issued)
      BY <2>2, <2>5 DEF DocsSound
    <3>2. counters \in SUBSET Row /\ IsFiniteSet(counters)
          /\ issued \in [Doc -> DocNumber \union {Unnumbered}]
      BY <3>1 DEF Numbering
    <3>3. MayDraw(counters, c)
      <4>1. CASE c \in counters
        BY <4>1 DEF MayDraw
      <4>2. CASE c \notin counters
        <5>1. PICK id \in NewIds(counters) : c = NewCounter(id, drawing[d].head)
          BY <4>2 DEF CountersOf, Locked
        <5> QED  BY <3>1, <3>2, <5>1, NewCounterFacts
      <4> QED  BY <4>1, <4>2
    <3>4. Numbering(counters', issued')
      BY <2>3, <3>1, <3>3, DrawnKeeps
    <3>5. Explained(counters', issued')
      BY <2>3, <3>1, <3>3, DrawnExplained
    <3>6. \A e \in Doc : drawing'[e] # Unnumbered => issued'[e] = Unnumbered /\ drawing'[e].head \in Setting
      <4>1. \A e \in Doc : e # d => issued'[e] = issued[e]
        BY <2>3, <3>2
      <4> QED  BY <2>4, <2>5, <4>1 DEF DocsSound
    <3> QED  BY <2>2, <2>5, <3>4, <3>5, <3>6
             DEF DocsSound, Numbering, OnePerRow, BehindCounters, Filled, Explained
  <2> QED  BY <2>2, <2>4, <2>5 DEF DocsInv
<1>5. ASSUME NEW d \in Doc, GiveUp(d) PROVE DocsInv'
  <2>1. /\ drawing' = [drawing EXCEPT ![d] = Unnumbered]
        /\ UNCHANGED <<setting, counters, issued, thisYear, resets>>
    BY <1>5 DEF GiveUp
  <2>2. /\ drawing'[d] = Unnumbered
        /\ \A e \in Doc : e # d => drawing'[e] = drawing[e]
        /\ drawing' = [e \in Doc |-> drawing'[e]]
    BY <1>1, <2>1
  <2>3. ASSUME DocsSound PROVE DocsSound'
    <3>1. \A e \in Doc : drawing'[e] # Unnumbered => issued[e] = Unnumbered /\ drawing'[e].head \in Setting
      BY <2>1, <2>2, <2>3 DEF DocsSound
    <3>2. setting' \in [Series -> Setting] /\ thisYear' \in Years /\ UNCHANGED <<counters, issued>>
      BY <2>1, <2>3 DEF DocsSound
    <3> QED  BY <2>3, <3>1, <3>2, SameNumbers
  <2> QED  BY <2>1, <2>2, <2>3 DEF DocsInv
<1>6. CASE RollYear \/ NewYear \/ \E s \in Series : EditSeries(s)
  <2>1. UNCHANGED <<counters, issued, drawing, resets>>
    BY <1>6 DEF RollYear, NewYear, EditSeries
  <2>2. ASSUME DocsSound PROVE setting' \in [Series -> Setting] /\ thisYear' \in Years
    <3>0. setting \in [Series -> Setting] /\ thisYear \in Years
      BY <2>2 DEF DocsSound
    <3>1. CASE RollYear
      <4>1. ASSUME NEW s \in Series PROVE [setting[s] EXCEPT !.fy = thisYear] \in Setting
        BY <3>0 DEF Setting
      <4>2. setting' = [s \in Series |-> [setting[s] EXCEPT !.fy = thisYear]] /\ thisYear' = thisYear
        BY <3>1 DEF RollYear
      <4> QED  BY <3>0, <4>1, <4>2
    <3>2. CASE NewYear
      BY <3>0, <3>2 DEF NewYear, Years
    <3>3. CASE \E s \in Series : EditSeries(s)
      BY <3>0, <3>3 DEF EditSeries
    <3> QED  BY <1>6, <3>1, <3>2, <3>3
  <2>3. ASSUME DocsSound PROVE DocsSound'
    <3>1. \A e \in Doc : drawing'[e] # Unnumbered => issued[e] = Unnumbered /\ drawing'[e].head \in Setting
      BY <2>1, <2>3 DEF DocsSound
    <3> QED  BY <2>1, <2>2, <2>3, <3>1, SameNumbers
  <2> QED  BY <1>1, <2>1, <2>3 DEF DocsInv
<1>7. ASSUME NEW c \in counters, ResetCounter(c) PROVE DocsInv'
  <2>1. resets' = resets + 1 /\ drawing' = drawing
    BY <1>7 DEF ResetCounter
  <2>2. resets' \in Nat /\ resets' # 0
    BY <1>1, <2>1
  <2> QED  BY <1>1, <2>1, <2>2 DEF DocsInv
<1>8. CASE Repair
  <2>1. UNCHANGED <<setting, drawing, thisYear, resets>> /\ \A d \in Doc : drawing[d] = Unnumbered
    BY <1>8 DEF Repair
  <2>2. ASSUME DocsSound PROVE DocsSound'
    <3>1. setting \in [Series -> Setting] /\ Numbering(counters, issued)
      BY <2>2 DEF DocsSound
    <3>2. Numbering(counters, issued)' /\ NothingLeftToRepair'
      BY <1>8, <3>1, RepairFacts
    <3>3. Explained(counters, issued)'
      BY <3>2 DEF NothingLeftToRepair, Explained
    <3> QED  BY <2>1, <2>2, <3>2, <3>3 DEF DocsSound
  <2> QED  BY <1>1, <2>1, <2>2 DEF DocsInv
<1> QED  BY <1>2, <1>3, <1>4, <1>5, <1>6, <1>7, <1>8 DEF DocsNext

\* Of every behaviour: as long as no counter is set back, two documents of a type that is
\* renumbered have one number only while two counters of its prefix and year stand, no
\* number is left out, and a repair leaves no such duplicate.
THEOREM NumbersRun == DocsSpec => NumbersAreSound
<1>1. DocsInit => DocsInv
  <2>1. SUFFICES ASSUME DocsInit PROVE DocsInv
    OBVIOUS
  <2>2. /\ setting \in [Series -> Setting] /\ counters = {} /\ issued = [d \in Doc |-> Unnumbered]
        /\ drawing = [d \in Doc |-> Unnumbered] /\ thisYear = 0 /\ resets = 0
    BY <2>1 DEF DocsInit
  <2>3. Numbering(counters, issued)
    BY <2>2, FS_EmptySet DEF Numbering, OnePerRow, BehindCounters, Filled
  <2>4. Explained(counters, issued)
    BY <2>2 DEF Explained
  <2> QED  BY <2>2, <2>3, <2>4 DEF DocsInv, DocsSound, Years
<1>2. DocsInv /\ [DocsNext]_doc_vars => DocsInv'
  BY DocsStep
<1>3. ASSUME DocsInv PROVE TwinsExplainDuplicates /\ NoGaps
  <2>1. SUFFICES ASSUME resets = 0 PROVE TwinsExplainDuplicates /\ NoGaps
    BY DEF TwinsExplainDuplicates, NoGaps
  <2>2. Numbering(counters, issued) /\ Explained(counters, issued)
    BY <1>3, <2>1 DEF DocsInv, DocsSound
  <2>3. TwinsExplainDuplicates
    <3>1. SUFFICES ASSUME NEW d \in Doc, NEW e \in Doc, d # e, SameKind(d, e),
                          Kind[Column[d]] \in Renumbered, issued[d] # Unnumbered,
                          issued[d] = issued[e]
                   PROVE  Cardinality(Held(counters, issued[d].head)) > 1
      BY DEF TwinsExplainDuplicates
    <3> DEFINE H == Held(counters, issued[d].head)
    <3>2. PICK c \in counters, b \in counters :
                 c # b /\ c.head = issued[d].head /\ b.head = issued[d].head
      BY <2>2, <3>1 DEF Explained
    <3>3. c \in H /\ b \in H /\ H \in SUBSET counters
      BY <3>2 DEF Held
    <3> HIDE DEF H
    <3>4. IsFiniteSet(counters)
      BY <2>2 DEF Numbering
    <3>5. IsFiniteSet(H)
      BY <3>3, <3>4, FS_Subset
    <3>6. Cardinality(H) \in Nat /\ Cardinality(H \ {c}) = Cardinality(H) - 1
          /\ IsFiniteSet(H \ {c})
      BY <3>3, <3>5, FS_RemoveElement, FS_CardinalityType
    <3>9. b \in H \ {c}
      BY <3>2, <3>3
    <3>7. Cardinality(H \ {c}) # 0 /\ Cardinality(H \ {c}) \in Nat
      <4> DEFINE G == H \ {c}
      <4>1. IsFiniteSet(G) /\ G # {}
        BY <3>6, <3>9
      <4> HIDE DEF G
      <4>2. Cardinality(G) # 0 /\ Cardinality(G) \in Nat
        BY <4>1, FS_EmptySet, FS_CardinalityType
      <4> QED  BY <4>2 DEF G
    <3>8. Cardinality(H) > 1
      BY <3>6, <3>7
    <3> QED  BY <3>8 DEF H
  <2>4. NoGaps
    <3>1. SUFFICES ASSUME NEW c \in counters, NEW k \in HaveIt(c.head), NEW j \in StartNo..k
                   PROVE  j \in HaveIt(c.head)
      BY DEF NoGaps
    <3>2. PICK d \in Doc : issued[d] # Unnumbered /\ issued[d].head = c.head /\ issued[d].n = k
      BY DEF HaveIt
    <3>3. issued[d] \in DocNumber /\ counters \in SUBSET Row
      BY <2>2, <3>2 DEF Numbering
    <3>4. PICK b \in counters : b.head = c.head /\ k < b.next
      BY <2>2, <3>2 DEF Numbering, BehindCounters
    <3>5. k \in Nat /\ b.next \in Nat
      BY <3>2, <3>3 DEF DocNumber, Row
    <3>6. j \in StartNo..(b.next - 1)
      BY <3>4, <3>5
    <3>7. PICK e \in Doc : issued[e] # Unnumbered /\ issued[e].head = b.head /\ issued[e].n = j
      BY <2>2, <3>6 DEF Numbering, Filled
    <3> QED  BY <3>4, <3>7 DEF HaveIt
  <2> QED  BY <2>3, <2>4
<1>4. ASSUME DocsInv, counters # {} /\ resets = 0 /\ Repair PROVE NothingLeftToRepair'
  BY <1>4, RepairFacts DEF DocsInv, DocsSound
<1>5. DocsInv => [counters # {} /\ resets = 0 /\ Repair => NothingLeftToRepair']_doc_vars
  BY <1>4
<1> QED  BY <1>1, <1>2, <1>3, <1>5, PTL DEF DocsSpec, NumbersAreSound, RepairSettles

HIDE DocSeriesAssumption

(***************************************************************************)
(* Assets                                                                  *)
(***************************************************************************)
Lines == Seq(Line)

\* What there is of a line.
LEMMA LineFacts ==
    ASSUME NEW ls \in Lines
    PROVE  /\ Len(ls) \in Nat /\ DOMAIN ls = 1..Len(ls)
           /\ \A n \in 1..Len(ls) : /\ ls[n] \in Line /\ ls[n].amount \in Int
                                      /\ ls[n].entry \in 0..MaxEntries /\ ls[n].due \in Nat
<1>1. Len(ls) \in Nat /\ DOMAIN ls = 1..Len(ls)
  BY DEF Lines
<1>2. ASSUME NEW n \in 1..Len(ls) PROVE ls[n] \in Line
  BY ElementOfSeq DEF Lines
<1> QED  BY <1>1, <1>2 DEF Line

\* What line n adds to the sum of the lines K, and the running sum.
Adds(ls, K, n) == IF n \in K THEN ls[n].amount ELSE 0
Running(ls, K, f) ==
  /\ f \in [0..Len(ls) -> Int] /\ f[0] = 0
  /\ \A n \in 1..Len(ls) : f[n] = f[n - 1] + Adds(ls, K, n)

\* The sum of lines is the last of the running sums.
LEMMA SumRunning ==
    ASSUME NEW ls \in Lines, NEW K
    PROVE  \E f : Running(ls, K, f) /\ SumOver(ls, K) = f[Len(ls)]
<1> DEFINE N == Len(ls)
           step == [n \in 1..N |-> [x \in Int |-> x + Adds(ls, K, n)]]
<1>1. N \in Nat /\ \A n \in 1..N : ls[n] \in Line /\ ls[n].amount \in Int
  BY LineFacts
<1>2. \A n \in 1..N : Adds(ls, K, n) \in Int
  BY <1>1 DEF Adds
<1>3. step \in [1..N -> [Int -> Int]]
  BY <1>2
<1>4. PICK g : g \in [0..N -> Int] /\ Stepped(N, 0, step, g)
  <2> HIDE DEF step, N
  <2>1. 0 \in Int /\ N \in Nat
    BY <1>1
  <2> QED  BY ONLY <2>1, <1>3, Stepping
<1>5. ASSUME NEW n \in 0..N, n # 0 PROVE step[n][g[n - 1]] = g[n - 1] + Adds(ls, K, n)
  <2>1. n \in 1..N /\ n - 1 \in 0..N
    BY <1>1, <1>5
  <2>2. g[n - 1] \in Int
    BY <1>4, <2>1
  <2> QED  BY <2>1, <2>2
<1>6. g = [n \in 0..N |-> IF n = 0 THEN 0 ELSE g[n - 1] + Adds(ls, K, n)]
  <2> HIDE DEF step
  <2> QED  BY <1>4, <1>5 DEF Stepped
<1> DEFINE f == CHOOSE f : f = [n \in 0..N |-> IF n = 0 THEN 0 ELSE f[n - 1] + (IF n \in K THEN ls[n].amount ELSE 0)]
<1>7. f = [n \in 0..N |-> IF n = 0 THEN 0 ELSE f[n - 1] + (IF n \in K THEN ls[n].amount ELSE 0)]
  BY <1>6 DEF Adds
<1>8. SumOver(ls, K) = f[N]
  BY DEF SumOver
<1> HIDE DEF f
<1>9. f[0] = 0 /\ \A n \in 1..N : f[n] = f[n - 1] + Adds(ls, K, n)
  <2>1. 0 \in 0..N
    BY <1>1
  <2>2. f[0] = 0
    BY <1>7, <2>1
  <2>3. ASSUME NEW n \in 1..N PROVE f[n] = f[n - 1] + Adds(ls, K, n)
    <3>1. n \in 0..N /\ n # 0
      OBVIOUS
    <3> QED  BY <1>7, <3>1 DEF Adds
  <2> QED  BY <2>2, <2>3
<1>10. \A n \in 0..N : f[n] \in Int
  <2> DEFINE I == {n \in 0..N : f[n] \in Int}
  <2>1. 0 \in I
    BY <1>1, <1>9
  <2>2. ASSUME NEW n \in 0..N, n # N, n \in I PROVE n + 1 \in I
    <3>1. n + 1 \in 1..N /\ (n + 1) - 1 = n
      BY <1>1, <2>2
    <3>2. f[n + 1] = f[n] + Adds(ls, K, n + 1)
      BY <1>9, <3>1
    <3>3. f[n] \in Int /\ Adds(ls, K, n + 1) \in Int
      BY <1>2, <2>2, <3>1
    <3> QED  BY <3>1, <3>2, <3>3
  <2> HIDE DEF I
  <2>3. 0..N \subseteq I
    BY <1>1, <2>1, <2>2, UpTo
  <2> QED  BY <2>3 DEF I
<1>11. f \in [0..N -> Int]
  BY <1>7, <1>10
<1> QED  BY <1>8, <1>9, <1>11 DEF Running

\* Where the same is added line by line, the sums are the same.
LEMMA SameSum ==
    ASSUME NEW l \in Lines, NEW K, NEW m \in Lines, NEW J, Len(m) = Len(l),
           \A n \in 1..Len(l) : Adds(m, J, n) = Adds(l, K, n)
    PROVE  SumOver(m, J) = SumOver(l, K)
<1>1. PICK f : Running(l, K, f) /\ SumOver(l, K) = f[Len(l)]
  BY SumRunning
<1>2. PICK g : Running(m, J, g) /\ SumOver(m, J) = g[Len(l)]
  BY SumRunning
<1> DEFINE N == Len(l)
           I == {n \in 0..N : g[n] = f[n]}
<1>3. N \in Nat
  BY DEF Lines
<1>4. 0 \in I
  BY <1>1, <1>2, <1>3 DEF Running
<1>5. ASSUME NEW n \in 0..N, n # N, n \in I PROVE n + 1 \in I
  <2>1. n + 1 \in 1..N /\ (n + 1) - 1 = n
    BY <1>3, <1>5
  <2>2. f[n + 1] = f[n] + Adds(l, K, n + 1) /\ g[n + 1] = g[n] + Adds(m, J, n + 1)
    BY <1>1, <1>2, <2>1 DEF Running
  <2> QED  BY <1>5, <2>1, <2>2
<1> HIDE DEF I
<1>6. 0..N \subseteq I
  BY <1>3, <1>4, <1>5, UpTo
<1>7. N \in I
  BY <1>3, <1>6
<1> QED  BY <1>1, <1>2, <1>7 DEF I

\* Where only line k adds anything, its amount is the sum.
LEMMA OneAdds ==
    ASSUME NEW l \in Lines, NEW K, NEW k \in 1..Len(l),
           \A n \in 1..Len(l) : n # k => Adds(l, K, n) = 0
    PROVE  SumOver(l, K) = Adds(l, K, k)
<1>1. PICK f : Running(l, K, f) /\ SumOver(l, K) = f[Len(l)]
  BY SumRunning
<1> DEFINE N == Len(l)
           I == {n \in 0..N : f[n] = IF n < k THEN 0 ELSE Adds(l, K, k)}
<1>2. N \in Nat /\ k \in 1..N
  BY DEF Lines
<1>3. 0 \in I
  BY <1>1, <1>2 DEF Running
<1>4. ASSUME NEW n \in 0..N, n # N, n \in I PROVE n + 1 \in I
  <2>1. n + 1 \in 1..N /\ (n + 1) - 1 = n
    BY <1>2, <1>4
  <2>2. f[n + 1] = f[n] + Adds(l, K, n + 1) /\ f[n + 1] \in Int
    BY <1>1, <2>1 DEF Running
  <2>3. f[n] = IF n < k THEN 0 ELSE Adds(l, K, k)
    BY <1>4
  <2>4. f[n + 1] = IF n + 1 < k THEN 0 ELSE Adds(l, K, k)
    <3>0. Adds(l, K, n + 1) \in Int /\ Adds(l, K, k) \in Int
      BY <1>2, <2>1, LineFacts DEF Adds
    <3>1. CASE n + 1 = k
      BY <2>2, <2>3, <3>0, <3>1
    <3>2. CASE n + 1 # k
      <4>1. Adds(l, K, n + 1) = 0
        BY <2>1, <3>2
      <4>2. n < k <=> n + 1 < k
        BY <3>2
      <4> QED  BY <2>2, <2>3, <3>0, <4>1, <4>2
    <3> QED  BY <3>1, <3>2
  <2> QED  BY <2>1, <2>4
<1> HIDE DEF I
<1>5. 0..N \subseteq I
  BY <1>2, <1>3, <1>4, UpTo
<1>6. N \in I
  BY <1>2, <1>5
<1> QED  BY <1>1, <1>2, <1>6 DEF I

\* A line at the end adds its own.
LEMMA SumAppend ==
    ASSUME NEW l \in Lines, NEW x \in Line, NEW K
    PROVE  /\ Append(l, x) \in Lines /\ Len(Append(l, x)) = Len(l) + 1
           /\ SumOver(Append(l, x), K) = SumOver(l, K) + (IF Len(l) + 1 \in K THEN x.amount ELSE 0)
           /\ SumOver(l, K) \in Int
<1> DEFINE m == Append(l, x)
           N == Len(l)
<1>1. /\ m \in Lines /\ Len(m) = N + 1 /\ N \in Nat
      /\ \A n \in 1..N : m[n] = l[n]
      /\ m[N + 1] = x
  BY DEF Lines
<1>2. PICK f : Running(l, K, f) /\ SumOver(l, K) = f[N]
  BY SumRunning
<1>3. PICK g : Running(m, K, g) /\ SumOver(m, K) = g[N + 1]
  BY <1>1, SumRunning
<1> DEFINE I == {n \in 0..N : g[n] = f[n]}
<1> HIDE DEF m
<1>4. 0 \in I
  BY <1>1, <1>2, <1>3 DEF Running
<1>5. ASSUME NEW n \in 0..N, n # N, n \in I PROVE n + 1 \in I
  <2>1. n + 1 \in 1..N /\ n + 1 \in 1..(N + 1) /\ (n + 1) - 1 = n
    BY <1>1, <1>5
  <2>2. f[n + 1] = f[n] + Adds(l, K, n + 1)
    BY <1>2, <2>1 DEF Running
  <2>3. g[n + 1] = g[n] + Adds(m, K, n + 1)
    BY <1>1, <1>3, <2>1 DEF Running
  <2>4. Adds(m, K, n + 1) = Adds(l, K, n + 1)
    BY <1>1, <2>1 DEF Adds
  <2> QED  BY <1>5, <2>1, <2>2, <2>3, <2>4
<1> HIDE DEF I
<1>6. 0..N \subseteq I
  BY <1>1, <1>4, <1>5, UpTo
<1>7. g[N] = f[N]
  BY <1>1, <1>6 DEF I
<1>8. g[N + 1] = g[N] + Adds(m, K, N + 1)
  <2>1. N + 1 \in 1..(N + 1) /\ (N + 1) - 1 = N
    BY <1>1
  <2> QED  BY <1>1, <1>3, <2>1 DEF Running
<1>9. Adds(m, K, N + 1) = IF N + 1 \in K THEN x.amount ELSE 0
  BY <1>1 DEF Adds
<1>10. f[N] \in Int
  BY <1>1, <1>2 DEF Running
<1> QED  BY <1>1, <1>2, <1>3, <1>7, <1>8, <1>9, <1>10 DEF m

\* The number after one below N.
LEMMA NextNumber ==
    ASSUME NEW N \in Nat, NEW n \in 0..N, n # N
    PROVE  n + 1 \in 1..N /\ n + 1 \in 0..N /\ (n + 1) - 1 = n
OBVIOUS

\* The lines made for entries of E, and their sum.
Of(ls, E) == {k \in DOMAIN ls : ls[k].entry \in E}
EntrySum(ls, E) == SumOver(ls, Of(ls, E))

\* The sums of the model are such sums.
LEMMA SumForms ==
    ASSUME NEW l \in Lines
    PROVE  /\ Total(l) = EntrySum(l, 0..MaxEntries)
           /\ SumOver(l, WithMove(l)) = EntrySum(l, 1..MaxEntries)
           /\ \A e : SumOver(l, MadeFor(l, e)) = EntrySum(l, {e})
<1>1. \A n \in DOMAIN l : l[n].entry \in 0..MaxEntries
  BY LineFacts
<1>2. Of(l, 0..MaxEntries) = DOMAIN l
  BY <1>1 DEF Of
<1>3. Of(l, 1..MaxEntries) = WithMove(l)
  <2>1. \A x \in 0..MaxEntries : x # 0 <=> x \in 1..MaxEntries
    BY AssetsAssumption
  <2> QED  BY <1>1, <2>1 DEF Of, WithMove
<1>4. \A e : Of(l, {e}) = MadeFor(l, e)
  BY DEF Of, MadeFor
<1> QED  BY <1>2, <1>3, <1>4 DEF EntrySum, Total

\* A line at the end adds its own to the sum of its entry.
LEMMA EntryAppend ==
    ASSUME NEW l \in Lines, NEW x \in Line, NEW E
    PROVE  /\ EntrySum(Append(l, x), E) = EntrySum(l, E) + (IF x.entry \in E THEN x.amount ELSE 0)
           /\ EntrySum(l, E) \in Int
<1> DEFINE m == Append(l, x)
           N == Len(l)
           J == Of(m, E)
<1>1. /\ m \in Lines /\ Len(m) = N + 1 /\ N \in Nat
      /\ \A n \in 1..N : m[n] = l[n]
      /\ m[N + 1] = x
  BY DEF Lines
<1>2. DOMAIN m = 1..(N + 1) /\ DOMAIN l = 1..N
  BY <1>1, LineFacts
<1> HIDE DEF m
<1>3. SumOver(l, J) = SumOver(l, Of(l, E))
  <2>1. \A n \in 1..N : n \in J <=> n \in Of(l, E)
    BY <1>1, <1>2 DEF Of
  <2>2. \A n \in 1..N : Adds(l, J, n) = Adds(l, Of(l, E), n)
    BY <2>1 DEF Adds
  <2> HIDE DEF J
  <2> QED  BY <2>2, SameSum
<1>4. N + 1 \in J <=> x.entry \in E
  BY <1>1, <1>2 DEF Of
<1> HIDE DEF J
<1>5. SumOver(m, J) = SumOver(l, J) + (IF N + 1 \in J THEN x.amount ELSE 0) /\ SumOver(l, J) \in Int
  BY SumAppend DEF m
<1> QED  BY <1>3, <1>4, <1>5 DEF EntrySum, m, J

\* The kept lines, one after the other.
Keeping(ls, f) ==
  /\ f \in [0..Len(ls) -> Lines] /\ f[0] = <<>>
  /\ \A n \in 1..Len(ls) :
       f[n] = IF ls[n].entry # 0 THEN Append(f[n - 1], ls[n]) ELSE f[n - 1]

\* The kept lines are the last of them.
LEMMA KeptRunning ==
    ASSUME NEW ls \in Lines
    PROVE  \E f : Keeping(ls, f) /\ Kept(ls) = f[Len(ls)]
<1> DEFINE N == Len(ls)
           Next(x, n) == IF ls[n].entry # 0 THEN Append(x, ls[n]) ELSE x
           step == [n \in 1..N |-> [x \in Lines |-> Next(x, n)]]
<1>1. N \in Nat /\ \A n \in 1..N : ls[n] \in Line
  BY LineFacts
<1>2. ASSUME NEW n \in 1..N, NEW x \in Lines PROVE Next(x, n) \in Lines
  <2>1. Append(x, ls[n]) \in Lines
    BY <1>1, SumAppend
  <2> QED  BY <2>1
<1> HIDE DEF Next
<1>3. step \in [1..N -> [Lines -> Lines]]
  BY <1>2
<1>4. PICK g : g \in [0..N -> Lines] /\ Stepped(N, <<>>, step, g)
  <2> HIDE DEF step, N
  <2>1. <<>> \in Lines /\ N \in Nat
    BY <1>1 DEF Lines
  <2> QED  BY ONLY <2>1, <1>3, Stepping
<1>5. ASSUME NEW n \in 0..N, n # 0 PROVE step[n][g[n - 1]] = Next(g[n - 1], n)
  <2>1. n \in 1..N /\ n - 1 \in 0..N
    BY <1>1, <1>5
  <2>2. g[n - 1] \in Lines
    BY <1>4, <2>1
  <2> QED  BY <2>1, <2>2
<1>6. g = [n \in 0..N |-> IF n = 0 THEN <<>> ELSE Next(g[n - 1], n)]
  <2> HIDE DEF step
  <2> QED  BY <1>4, <1>5 DEF Stepped
<1> DEFINE f == CHOOSE f : f = [n \in 0..N |->
                  IF n = 0 THEN <<>>
                  ELSE IF ls[n].entry # 0 THEN Append(f[n - 1], ls[n]) ELSE f[n - 1]]
<1>7. f = [n \in 0..N |-> IF n = 0 THEN <<>>
                  ELSE IF ls[n].entry # 0 THEN Append(f[n - 1], ls[n]) ELSE f[n - 1]]
  BY <1>6 DEF Next
<1>8. Kept(ls) = f[N]
  BY DEF Kept, Linked
<1> HIDE DEF f
<1>9. f[0] = <<>> /\ \A n \in 1..N : f[n] = Next(f[n - 1], n)
  <2>1. 0 \in 0..N
    BY <1>1
  <2>2. f[0] = <<>>
    BY <1>7, <2>1
  <2>3. ASSUME NEW n \in 1..N PROVE f[n] = Next(f[n - 1], n)
    <3>1. n \in 0..N /\ n # 0
      OBVIOUS
    <3> QED  BY <1>7, <3>1 DEF Next
  <2> QED  BY <2>2, <2>3
<1>10. \A n \in 0..N : f[n] \in Lines
  <2> DEFINE I == {n \in 0..N : f[n] \in Lines}
  <2>1. 0 \in I
    <3>1. <<>> \in Lines
      BY DEF Lines
    <3>2. 0 \in 0..N
      BY <1>1
    <3> QED  BY <1>9, <3>1, <3>2
  <2>2. ASSUME NEW n \in 0..N, n # N, n \in I PROVE n + 1 \in I
    <3>1. n + 1 \in 1..N /\ (n + 1) - 1 = n
      BY <1>1, <2>2
    <3>2. f[n + 1] = Next(f[n], n + 1)
      BY <1>9, <3>1
    <3>3. f[n + 1] \in Lines
      BY <1>2, <2>2, <3>1, <3>2
    <3> QED  BY <3>1, <3>3
  <2> HIDE DEF I
  <2>3. 0..N \subseteq I
    BY <1>1, <2>1, <2>2, UpTo
  <2> QED  BY <2>3 DEF I
<1>11. f \in [0..N -> Lines]
  BY <1>7, <1>10
<1> QED  BY <1>8, <1>9, <1>11 DEF Keeping, Next

\* Kept is what has an entry, and nothing of what any entry has is lost.
LEMMA KeptFacts ==
    ASSUME NEW ls \in Lines
    PROVE  /\ Kept(ls) \in Lines
           /\ \A k \in 1..Len(Kept(ls)) :
                Kept(ls)[k].entry # 0 /\ \E n \in 1..Len(ls) : Kept(ls)[k] = ls[n]
           /\ \A E \in SUBSET (1..MaxEntries) : EntrySum(Kept(ls), E) = EntrySum(ls, E)
           /\ WithMove(ls) = {} => Kept(ls) = <<>>
           /\ Len(Kept(ls)) <= Len(ls) /\ (MadeFor(ls, 0) # {} => Len(Kept(ls)) < Len(ls))
<1>1. PICK f : Keeping(ls, f) /\ Kept(ls) = f[Len(ls)]
  BY KeptRunning
<1> DEFINE N == Len(ls)
<1>0. N \in Nat
  BY LineFacts
<1>2. N \in Nat /\ DOMAIN ls = 1..N /\ \A n \in 1..N : ls[n] \in Line
  BY LineFacts
<1>3. \A n \in 0..N : f[n] \in Lines
  BY <1>1 DEF Keeping
<1>4. ASSUME NEW n \in 0..N, n # N
      PROVE  /\ n + 1 \in 1..N /\ n + 1 \in 0..N
             /\ f[n + 1] = IF ls[n + 1].entry # 0 THEN Append(f[n], ls[n + 1]) ELSE f[n]
  <2>1. n + 1 \in 1..N /\ n + 1 \in 0..N /\ (n + 1) - 1 = n
    BY <1>0, <1>4, NextNumber
  <2> QED  BY <1>1, <2>1 DEF Keeping
<1>5. f[0] = <<>> /\ 0 \in 0..N /\ N \in 0..N
  BY <1>1, <1>2 DEF Keeping
<1> DEFINE Whence(n) == \A k \in 1..Len(f[n]) :
                          f[n][k].entry # 0 /\ \E m \in 1..N : f[n][k] = ls[m]
           I == {n \in 0..N : Whence(n)}
<1>6. 0 \in I
  BY <1>5
<1>7. ASSUME NEW n \in 0..N, n # N, n \in I PROVE n + 1 \in I
  <2>1. CASE ls[n + 1].entry # 0
    <3> DEFINE m == Append(f[n], ls[n + 1])
    <3>1. f[n + 1] = m
      BY <1>4, <1>7, <2>1
    <3>2. /\ f[n] \in Lines /\ Len(f[n]) \in Nat /\ Len(m) = Len(f[n]) + 1
          /\ \A k \in 1..Len(f[n]) : m[k] = f[n][k]
          /\ m[Len(f[n]) + 1] = ls[n + 1]
      <4>1. f[n] \in Lines /\ ls[n + 1] \in Line
        BY <1>2, <1>3, <1>4, <1>7
      <4> QED  BY <4>1 DEF Lines
    <3> HIDE DEF m
    <3>3. ASSUME NEW k \in 1..Len(m) PROVE m[k].entry # 0 /\ \E i \in 1..N : m[k] = ls[i]
      <4>1. CASE k \in 1..Len(f[n])
        BY <1>7, <3>2, <4>1
      <4>2. CASE k = Len(f[n]) + 1
        BY <1>4, <1>7, <2>1, <3>2, <4>2
      <4> QED  BY <3>2, <4>1, <4>2
    <3> QED  BY <1>4, <1>7, <3>1, <3>3
  <2>2. CASE ls[n + 1].entry = 0
    BY <1>4, <1>7, <2>2
  <2> QED  BY <2>1, <2>2
<1>8. Whence(N)
  <2> HIDE DEF I
  <2>1. 0..N \subseteq I
    BY <1>2, <1>6, <1>7, UpTo
  <2> QED  BY <1>5, <2>1 DEF I
<1>9. ASSUME NEW E \in SUBSET (1..MaxEntries) PROVE EntrySum(f[N], E) = EntrySum(ls, E)
  <2>1. PICK g : Running(ls, Of(ls, E), g) /\ SumOver(ls, Of(ls, E)) = g[N]
    BY SumRunning
  <2> DEFINE J == {n \in 0..N : EntrySum(f[n], E) = g[n]}
  <2>2. 0 \in J
    <3>1. EntrySum(<<>>, E) = 0
      <4>1. <<>> \in Lines /\ Len(<<>>) = 0
        BY DEF Lines
      <4>2. PICK h : Running(<<>>, Of(<<>>, E), h) /\ SumOver(<<>>, Of(<<>>, E)) = h[Len(<<>>)]
        BY <4>1, SumRunning
      <4> QED  BY <4>1, <4>2 DEF EntrySum, Running
    <3> QED  BY <1>5, <2>1, <3>1 DEF Running
  <2>3. ASSUME NEW n \in 0..N, n # N, n \in J PROVE n + 1 \in J
    <3>1. n + 1 \in 1..N /\ n + 1 \in 0..N /\ (n + 1) - 1 = n
      BY <1>0, <2>3, NextNumber
    <3>2. g[n + 1] = g[n] + Adds(ls, Of(ls, E), n + 1)
      BY <2>1, <3>1 DEF Running
    <3>3. Adds(ls, Of(ls, E), n + 1) = IF ls[n + 1].entry \in E THEN ls[n + 1].amount ELSE 0
      BY <1>2, <3>1 DEF Adds, Of
    <3>4. EntrySum(f[n], E) = g[n] /\ f[n] \in Lines /\ ls[n + 1] \in Line
      BY <1>2, <1>3, <2>3, <3>1
    <3>5. EntrySum(f[n + 1], E) = g[n + 1]
      <4>1. CASE ls[n + 1].entry # 0
        <5>1. f[n + 1] = Append(f[n], ls[n + 1])
          BY <1>4, <2>3, <4>1
        <5>2. EntrySum(Append(f[n], ls[n + 1]), E)
                = EntrySum(f[n], E) + (IF ls[n + 1].entry \in E THEN ls[n + 1].amount ELSE 0)
          BY <3>4, EntryAppend
        <5> QED  BY <3>2, <3>3, <3>4, <5>1, <5>2
      <4>2. CASE ls[n + 1].entry = 0
        <5>1. f[n + 1] = f[n]
          BY <1>4, <2>3, <4>2
        <5>2. 0 \notin E
          OBVIOUS
        <5>3. g[n] \in Int
          BY <2>1, <2>3 DEF Running
        <5> QED  BY <3>2, <3>3, <3>4, <4>2, <5>1, <5>2, <5>3
      <4> QED  BY <4>1, <4>2
    <3> QED  BY <3>1, <3>5
  <2> HIDE DEF J
  <2>4. 0..N \subseteq J
    BY <1>2, <2>2, <2>3, UpTo
  <2>5. EntrySum(f[N], E) = g[N]
    BY <1>5, <2>4 DEF J
  <2> QED  BY <2>1, <2>5 DEF EntrySum
<1>10. ASSUME WithMove(ls) = {} PROVE f[N] = <<>>
  <2> DEFINE J == {n \in 0..N : f[n] = <<>>}
  <2>1. \A n \in 1..N : ls[n].entry = 0
    BY <1>2, <1>10 DEF WithMove
  <2>2. 0 \in J
    BY <1>5
  <2>3. ASSUME NEW n \in 0..N, n # N, n \in J PROVE n + 1 \in J
    BY <1>4, <2>1, <2>3
  <2> HIDE DEF J
  <2>4. 0..N \subseteq J
    BY <1>2, <2>2, <2>3, UpTo
  <2> QED  BY <1>5, <2>4 DEF J
\* Each line without entry is one less.
<1>11. Len(f[N]) <= N /\ (MadeFor(ls, 0) # {} => Len(f[N]) < N)
  <2> DEFINE Short(n) == Len(f[n]) <= n /\ ((\E k \in 1..n : ls[k].entry = 0) => Len(f[n]) < n)
             J == {n \in 0..N : Short(n)}
  <2>1. 0 \in J
    <3>1. Len(f[0]) = 0 /\ \A k : ~(k \in 1..0)
      BY <1>5
    <3> QED  BY <1>5, <3>1
  <2>2. ASSUME NEW n \in 0..N, n # N, n \in J PROVE n + 1 \in J
    <3>1. n + 1 \in 1..N /\ n + 1 \in 0..N /\ n \in Nat
      BY <1>0, <1>4, <2>2
    <3>2. Short(n) /\ f[n] \in Lines /\ Len(f[n]) \in Nat
      BY <1>3, <2>2, LineFacts
    <3>3. CASE ls[n + 1].entry # 0
      <4>1. f[n + 1] = Append(f[n], ls[n + 1])
        BY <1>4, <2>2, <3>3
      <4>2. Len(f[n + 1]) = Len(f[n]) + 1
        BY <1>2, <3>1, <3>2, <4>1, SumAppend
      <4>3. (\E k \in 1..(n + 1) : ls[k].entry = 0) => \E k \in 1..n : ls[k].entry = 0
        <5>1. \A k \in 1..(n + 1) : k # n + 1 => k \in 1..n
          BY <3>1
        <5> QED  BY <3>3, <5>1
      <4>4. Len(f[n + 1]) <= n + 1
        BY <3>1, <3>2, <4>2
      <4>5. (\E k \in 1..(n + 1) : ls[k].entry = 0) => Len(f[n + 1]) < n + 1
        BY <3>1, <3>2, <4>2, <4>3
      <4> QED  BY <3>1, <4>4, <4>5
    <3>4. CASE ls[n + 1].entry = 0
      <4>1. f[n + 1] = f[n]
        BY <1>4, <2>2, <3>4
      <4>2. Len(f[n + 1]) < n + 1 /\ Len(f[n + 1]) <= n + 1
        BY <3>1, <3>2, <4>1
      <4> QED  BY <3>1, <4>2
    <3> QED  BY <3>3, <3>4
  <2> HIDE DEF J
  <2>3. 0..N \subseteq J
    BY <1>2, <2>1, <2>2, UpTo
  <2>4. Short(N)
    BY <1>5, <2>3 DEF J
  <2> QED  BY <1>2, <2>4 DEF MadeFor
<1> QED  BY <1>1, <1>3, <1>5, <1>8, <1>9, <1>10, <1>11

\* Rounding gives whole units.
LEMMA RoundedInt ==
    ASSUME NEW num \in Int, NEW den \in Nat \ {0}
    PROVE  RoundedAmount(num, den) \in Int
<1>1. 2 * den \in Nat \ {0} /\ 2 * num + den \in Int /\ den - 2 * num \in Int
  OBVIOUS
<1>2. \A x \in Int, y \in Nat \ {0} : x \div y \in Int
  OBVIOUS
<1>3. (2 * num + den) \div (2 * den) \in Int /\ (den - 2 * num) \div (2 * den) \in Int
  BY <1>1, <1>2
<1> QED  BY <1>3 DEF RoundedAmount

\* Where the board stands: what is left, the date and the lines so far.
BoardState == [left : Int, due : Nat, lines : Lines]

\* What a line of the board takes, as long as it is not behind the last one.
LEMMA AmountInt ==
    ASSUME NEW b \in Bill, NEW a \in Asset, NEW left \in Int, NEW toDepr \in Int,
           NEW done \in Nat, NEW last \in Nat, NEW seq \in Nat, done < seq, seq <= last
    PROVE  /\ BoardAmount(Category[b], a, seq, left, toDepr, last, done) \in Int
           /\ seq = last => BoardAmount(Category[b], a, seq, left, toDepr, last, done) = left
<1> DEFINE cat == Category[b]
           cut == IF cat.prorata /\ seq = 1 THEN FirstShare ELSE <<1, 1>>
           part == CASE cat.linear /\ cat.prorata -> <<toDepr, a.number>>
                     [] cat.linear /\ ~cat.prorata -> <<toDepr, last - done>>
                     [] OTHER -> <<left * Factor[1], Factor[2]>>
<1>1. cat.linear \in BOOLEAN /\ cat.prorata \in BOOLEAN
  BY AssetsAssumption DEF CategoryFields
<1>2. cut[1] \in Int /\ cut[2] \in Nat \ {0}
  BY AssetsAssumption
<1>3. part[1] \in Int /\ part[2] \in Nat \ {0}
  <2>1. a.number \in Nat \ {0}
    BY DEF Asset
  <2>2. CASE cat.linear /\ cat.prorata
    BY <2>1, <2>2
  <2>3. CASE cat.linear /\ ~cat.prorata
    <3>1. last - done \in Nat \ {0}
      OBVIOUS
    <3>2. part = <<toDepr, last - done>>
      BY <2>3
    <3> HIDE DEF part
    <3> QED  BY <3>1, <3>2
  <2>4. CASE ~cat.linear
    <3>1. part = <<left * Factor[1], Factor[2]>>
      BY <2>4
    <3>2. Factor[1] \in Int /\ Factor[2] \in Nat \ {0}
      BY AssetsAssumption
    <3>3. left * Factor[1] \in Int
      BY <3>2
    <3> HIDE DEF part
    <3> QED  BY <3>1, <3>2, <3>3
  <2> QED  BY <1>1, <2>2, <2>3, <2>4
<1> HIDE DEF cut, part
<1>4. part[1] * cut[1] \in Int /\ part[2] * cut[2] \in Nat \ {0}
  <2>1. part[1] * cut[1] \in Int
    BY <1>2, <1>3
  <2>2. part[2] * cut[2] \in Nat \ {0}
    BY <1>2, <1>3
  <2> QED  BY <2>1, <2>2
<1>5. RoundedAmount(part[1] * cut[1], part[2] * cut[2]) \in Int
  BY <1>4, RoundedInt
<1>6. BoardAmount(cat, a, seq, left, toDepr, last, done)
        = IF seq = last THEN left ELSE RoundedAmount(part[1] * cut[1], part[2] * cut[2])
  BY DEF BoardAmount, PartOf, cut, part
<1> QED  BY <1>5, <1>6

\* The last line of an asset that goes by a number of entries.
OfNumber(b, a) == a.number + (IF Category[b].prorata THEN 1 ELSE 0)

\* The number of the last line and the date of the first that is new are numbers.
LEMMA LastFacts ==
    ASSUME NEW b \in Bill, NEW a \in Asset
    PROVE  /\ FirstDue(Kept(a.lines)) \in Nat /\ LastLine(b, a) \in Nat
           /\ Category[b].byEnd \in BOOLEAN /\ OfNumber(b, a) \in Nat \ {0}
           /\ ~Category[b].byEnd => LastLine(b, a) = OfNumber(b, a)
<1> DEFINE kept == Kept(a.lines)
           first == FirstDue(kept)
<1>1. a.lines \in Lines /\ a.number \in Nat \ {0} /\ a.ends \in Nat
  BY DEF Asset, Lines
<1>2. kept \in Lines
  BY <1>1, KeptFacts
<1>3. first \in Nat
  <2> HIDE DEF kept
  <2>1. Len(kept) \in Nat /\ \A n \in 1..Len(kept) : kept[n].due \in Nat
    BY <1>2, LineFacts
  <2>2. CASE kept # <<>>
    <3>1. Len(kept) \in 1..Len(kept)
      BY <1>2, <2>1, <2>2 DEF Lines
    <3> QED  BY <2>1, <3>1 DEF FirstDue
  <2> QED  BY <2>2 DEF FirstDue
<1>4. Category[b].byEnd \in BOOLEAN /\ Category[b].prorata \in BOOLEAN
  BY AssetsAssumption DEF CategoryFields
<1> HIDE DEF first
<1>5. LastLine(b, a) = IF Category[b].byEnd THEN IF a.ends < first THEN 0 ELSE a.ends - first + 1
                       ELSE OfNumber(b, a)
  BY DEF LastLine, OfNumber, first
<1>6. OfNumber(b, a) \in Nat \ {0}
  BY <1>1, <1>4 DEF OfNumber
<1>7. LastLine(b, a) \in Nat
  BY <1>1, <1>3, <1>5, <1>6
<1> QED  BY <1>3, <1>4, <1>5, <1>6, <1>7 DEF first

\* The entries lines have are those of other lines, or none.
NoNewEntries(new, old) ==
  \A k \in 1..Len(new) : new[k].entry # 0 => \E n \in 1..Len(old) : new[k].entry = old[n].entry

\* One more line of the board: what it takes is left no more, and entries are as before.
Continued(st, r, old) ==
  /\ r \in BoardState
  /\ r.left + EntrySum(r.lines, 0..MaxEntries) = st.left + EntrySum(st.lines, 0..MaxEntries)
  /\ \A E \in SUBSET (1..MaxEntries) : EntrySum(r.lines, E) = EntrySum(st.lines, E)
  /\ NoNewEntries(st.lines, old) => NoNewEntries(r.lines, old)
  /\ Len(r.lines) <= Len(st.lines) + 1

\* That is what a line of the board does, and the last one leaves nothing.
LEMMA AddedFacts ==
    ASSUME NEW b \in Bill, NEW a \in Asset, NEW st \in BoardState, NEW seq \in Nat, NEW old,
           Len(Kept(a.lines)) < seq, seq <= LastLine(b, a)
    PROVE  /\ Continued(st, LineAdded(b, a, st, seq), old)
           /\ seq = LastLine(b, a) => LineAdded(b, a, st, seq).left = 0
<1> DEFINE done == Len(Kept(a.lines))
           last == LastLine(b, a)
           m == BoardAmount(Category[b], a, seq, st.left, Residual(b, a), last, done)
           x == [seq |-> seq, amount |-> m, due |-> st.due, entry |-> 0]
           r == [left |-> st.left - m, due |-> st.due + 1, lines |-> Append(st.lines, x)]
<1>1. a.lines \in Lines /\ a.number \in Nat \ {0} /\ a.salvage \in Nat
  BY DEF Asset, Lines
<1>2. done \in Nat
  BY <1>1, KeptFacts, LineFacts
<1>3. last \in Nat
  BY LastFacts
<1>4. Residual(b, a) \in Int
  <2>1. SumOver(a.lines, WithMove(a.lines)) \in Int
    <3>1. PICK f : Running(a.lines, WithMove(a.lines), f) /\ SumOver(a.lines, WithMove(a.lines)) = f[Len(a.lines)]
      BY <1>1, SumRunning
    <3>2. Len(a.lines) \in 0..Len(a.lines)
      BY <1>1, LineFacts
    <3> QED  BY <3>1, <3>2 DEF Running
  <2>2. BillPrice[b] \in Nat
    BY AssetsAssumption
  <2> QED  BY <1>1, <2>1, <2>2 DEF Residual, Depreciable
<1>5. st.left \in Int /\ st.due \in Nat /\ st.lines \in Lines
  BY DEF BoardState
<1>6. m \in Int /\ (seq = last => m = st.left)
  <2> HIDE DEF done, last
  <2>1. done < seq /\ seq <= last
    BY DEF done, last
  <2>2. b \in Bill /\ a \in Asset /\ seq \in Nat /\ st.left \in Int
    BY <1>5
  <2> DEFINE left == st.left
             rest == Residual(b, a)
  <2>3. left \in Int /\ rest \in Int
    BY <1>4, <1>5
  <2> HIDE DEF left, rest
  <2>4. /\ BoardAmount(Category[b], a, seq, left, rest, last, done) \in Int
        /\ seq = last => BoardAmount(Category[b], a, seq, left, rest, last, done) = left
    BY ONLY <1>2, <1>3, <2>1, <2>2, <2>3, AmountInt
  <2> QED  BY <2>4 DEF left, rest
<1>7. LineAdded(b, a, st, seq) = IF m = 0 THEN st ELSE r
  BY DEF LineAdded
<1> HIDE DEF m
<1>8. CASE m = 0
  <2>1. LineAdded(b, a, st, seq) = st
    BY <1>7, <1>8
  <2>2. seq = last => st.left = 0
    BY <1>6, <1>8
  <2>3. Len(st.lines) <= Len(st.lines) + 1
    BY <1>5, LineFacts
  <2> QED  BY <2>1, <2>2, <2>3 DEF Continued
<1>9. CASE m # 0
  <2>1. LineAdded(b, a, st, seq) = r
    BY <1>7, <1>9
  <2>2. x \in Line /\ x.entry = 0 /\ x.amount = m
    BY <1>5, <1>6, AssetsAssumption DEF Line
  <2> HIDE DEF x
  <2>3. /\ Append(st.lines, x) \in Lines /\ Len(Append(st.lines, x)) = Len(st.lines) + 1
        /\ \A E : /\ EntrySum(Append(st.lines, x), E) = EntrySum(st.lines, E) + (IF 0 \in E THEN m ELSE 0)
                  /\ EntrySum(st.lines, E) \in Int
    BY <1>5, <2>2, SumAppend, EntryAppend
  <2>4. r \in BoardState /\ r.left = st.left - m /\ r.lines = Append(st.lines, x)
    BY <1>5, <1>6, <2>3 DEF BoardState
  <2> HIDE DEF r
  <2>5. r.left + EntrySum(r.lines, 0..MaxEntries) = st.left + EntrySum(st.lines, 0..MaxEntries)
    <3>1. 0 \in 0..MaxEntries
      BY AssetsAssumption
    <3>2. EntrySum(r.lines, 0..MaxEntries) = EntrySum(st.lines, 0..MaxEntries) + m
      BY <2>3, <2>4, <3>1
    <3>3. EntrySum(st.lines, 0..MaxEntries) \in Int
      BY <2>3
    <3> QED  BY <1>5, <1>6, <2>4, <3>2, <3>3
  <2>6. ASSUME NEW E \in SUBSET (1..MaxEntries)
        PROVE  EntrySum(r.lines, E) = EntrySum(st.lines, E)
    <3>1. 0 \notin E
      OBVIOUS
    <3>2. EntrySum(r.lines, E) = EntrySum(st.lines, E) + 0 /\ EntrySum(st.lines, E) \in Int
      BY <2>3, <2>4, <3>1
    <3> QED  BY <3>2
  <2>7. ASSUME NoNewEntries(st.lines, old) PROVE NoNewEntries(r.lines, old)
    <3>1. ASSUME NEW k \in 1..Len(r.lines), r.lines[k].entry # 0
          PROVE  \E n \in 1..Len(old) : r.lines[k].entry = old[n].entry
      <4>0. Len(st.lines) \in Nat /\ Len(r.lines) = Len(st.lines) + 1
        BY <1>5, <2>3, <2>4, LineFacts
      <4>1. CASE k = Len(st.lines) + 1
        <5>1. r.lines[k] = x
          BY <1>5, <2>2, <2>4, <4>1 DEF Lines
        <5> QED  BY <2>2, <3>1, <5>1
      <4>2. CASE k \in 1..Len(st.lines)
        <5>1. r.lines[k] = st.lines[k]
          BY <1>5, <2>2, <2>4, <4>2 DEF Lines
        <5> QED  BY <2>7, <3>1, <4>2, <5>1 DEF NoNewEntries
      <4> QED  BY <3>1, <4>0, <4>1, <4>2
    <3> QED  BY <3>1 DEF NoNewEntries
  <2>8. seq = last => r.left = 0
    BY <1>5, <1>6, <2>4
  <2>9. Len(r.lines) <= Len(st.lines) + 1
    BY <1>5, <2>3, <2>4, LineFacts
  <2> QED  BY <2>1, <2>4, <2>5, <2>6, <2>7, <2>8, <2>9 DEF Continued
<1> QED  BY <1>8, <1>9

\* Lines that add up to what is to be depreciated, or, of an asset by ending date, all have entries.
WholeBoard(b, a, lines) ==
  Total(lines) = Depreciable(b, a) \/ (Category[b].byEnd /\ MadeFor(lines, 0) = {})

\* An asset by number has its last line behind those that are kept, if anything is left.
HasRoom(b, a) ==
  ~Category[b].byEnd => /\ Len(Kept(a.lines)) <= OfNumber(b, a)
                        /\ Residual(b, a) = 0 \/ Len(Kept(a.lines)) < OfNumber(b, a)

\* A board that is complete, has all that the entries have, no line too many, and makes no entry.
SoundBoard(b, a, n) ==
  /\ n = [a EXCEPT !.lines = n.lines] /\ n.lines \in Lines
  /\ WholeBoard(b, a, n.lines)
  /\ ~Category[b].byEnd => Len(n.lines) <= OfNumber(b, a)
  /\ \A E \in SUBSET (1..MaxEntries) : EntrySum(n.lines, E) = EntrySum(a.lines, E)
  /\ NoNewEntries(n.lines, a.lines)

\* The residual is a number, and what an asset is worth less what has entries.
LEMMA ResidualFacts ==
    ASSUME NEW b \in Bill, NEW a \in Asset
    PROVE  /\ a.lines \in Lines /\ Depreciable(b, a) \in Int
           /\ Residual(b, a) = Depreciable(b, a) - EntrySum(a.lines, 1..MaxEntries)
           /\ Residual(b, a) \in Int /\ EntrySum(a.lines, 1..MaxEntries) \in Int
<1>1. a.lines \in Lines /\ a.salvage \in Nat
  BY DEF Asset, Lines
<1>2. SumOver(a.lines, WithMove(a.lines)) = EntrySum(a.lines, 1..MaxEntries)
  BY <1>1, SumForms
<1>3. EntrySum(a.lines, 1..MaxEntries) \in Int
  <2>1. [seq |-> 0, amount |-> 0, due |-> 0, entry |-> 0] \in Line
    BY AssetsAssumption DEF Line
  <2> QED  BY <1>1, <2>1, EntryAppend
<1>4. BillPrice[b] \in Nat
  BY AssetsAssumption
<1> QED  BY <1>1, <1>2, <1>3, <1>4 DEF Residual, Depreciable

\* The sum of kept lines is all of them.
LEMMA KeptAll ==
    ASSUME NEW ls \in Lines
    PROVE  EntrySum(Kept(ls), 0..MaxEntries) = EntrySum(ls, 1..MaxEntries)
<1> DEFINE K == Kept(ls)
<1>1. K \in Lines /\ (\A k \in 1..Len(K) : K[k].entry # 0)
      /\ EntrySum(K, 1..MaxEntries) = EntrySum(ls, 1..MaxEntries)
  BY KeptFacts
<1> HIDE DEF K
<1>2. \A k \in DOMAIN K : K[k].entry \in 0..MaxEntries /\ K[k].entry # 0
  BY <1>1, LineFacts
<1>3. Of(K, 0..MaxEntries) = Of(K, 1..MaxEntries)
  <2>1. \A x \in 0..MaxEntries : x # 0 => x \in 1..MaxEntries
    BY AssetsAssumption
  <2>2. \A x \in 1..MaxEntries : x \in 0..MaxEntries
    BY AssetsAssumption
  <2> QED  BY <1>2, <2>1, <2>2 DEF Of
<1> QED  BY <1>1, <1>3 DEF EntrySum, K

\* Computing the board again is sound, if there is a line left to take what is left.
LEMMA BoardFacts ==
    ASSUME NEW b \in Bill, NEW a \in Asset, HasRoom(b, a)
    PROVE  SoundBoard(b, a, Board(b, a))
<1> DEFINE kept == Kept(a.lines)
           first == FirstDue(kept)
           last == LastLine(b, a)
           missing == Max({0, last - Len(kept)})
           base == [left |-> Residual(b, a), due |-> first, lines |-> kept]
<1>1. /\ a.lines \in Lines /\ Depreciable(b, a) \in Int /\ Residual(b, a) \in Int
      /\ Residual(b, a) = Depreciable(b, a) - EntrySum(a.lines, 1..MaxEntries)
      /\ EntrySum(a.lines, 1..MaxEntries) \in Int
  BY ResidualFacts
<1>2. /\ kept \in Lines /\ NoNewEntries(kept, a.lines)
      /\ \A E \in SUBSET (1..MaxEntries) : EntrySum(kept, E) = EntrySum(a.lines, E)
  BY <1>1, KeptFacts DEF NoNewEntries
<1>3. EntrySum(kept, 0..MaxEntries) = EntrySum(a.lines, 1..MaxEntries)
  BY <1>1, KeptAll
<1>4. Len(kept) \in Nat /\ last \in Nat /\ first \in Nat
  <2>1. Len(kept) \in Nat
    BY <1>2, LineFacts
  <2> QED  BY <2>1, LastFacts
<1>5. /\ Category[b].byEnd \in BOOLEAN /\ OfNumber(b, a) \in Nat \ {0}
      /\ ~Category[b].byEnd => last = OfNumber(b, a) /\ Len(kept) <= last
                               /\ (Residual(b, a) = 0 \/ Len(kept) < last)
  BY LastFacts DEF HasRoom
<1>5a. MadeFor(kept, 0) = {}
  <2>1. \A k \in 1..Len(kept) : kept[k].entry # 0
    BY <1>1, KeptFacts
  <2>2. DOMAIN kept = 1..Len(kept)
    BY <1>2, LineFacts
  <2> HIDE DEF kept
  <2> QED  BY <2>1, <2>2 DEF MadeFor
<1>6. CASE Residual(b, a) = 0
  <2>1. Board(b, a) = [a EXCEPT !.lines = kept]
    BY <1>6 DEF Board
  <2>2. Board(b, a).lines = kept
    BY <2>1 DEF Asset
  <2>3. Total(kept) = Depreciable(b, a)
    BY <1>1, <1>2, <1>3, <1>6, SumForms
  <2> QED  BY <1>2, <1>5, <2>1, <2>2, <2>3 DEF SoundBoard, WholeBoard
<1>7. CASE Residual(b, a) # 0 /\ last <= Len(kept)
  <2>1. Category[b].byEnd
    BY <1>4, <1>5, <1>7
  <2>2. missing = 0
    <3> DEFINE d == last - Len(kept)
    <3>1. d \in Int /\ d <= 0
      BY <1>4, <1>7
    <3> HIDE DEF d
    <3>2. \A x \in {0, d} : 0 >= x
      BY <3>1
    <3>3. Max({0, d}) \in {0, d} /\ \A x \in {0, d} : Max({0, d}) >= x
      BY <3>2 DEF Max
    <3>4. Max({0, d}) = 0
      BY <3>1, <3>3
    <3> QED  BY <3>4 DEF d
  <2> DEFINE f == CHOOSE f : f = [n \in 0..missing |->
                    IF n = 0 THEN base ELSE LineAdded(b, a, f[n - 1], Len(kept) + n)]
  <2>3. Board(b, a) = [a EXCEPT !.lines = f[missing].lines]
    BY <1>7 DEF Board
  <2> HIDE DEF missing
  <2>4. f[0] = base
    <3> DEFINE g == [n \in 0..missing |-> base]
    <3>1. \A n \in 0..missing : n = 0
      BY <2>2
    <3>2. g = [n \in 0..missing |-> IF n = 0 THEN base ELSE LineAdded(b, a, g[n - 1], Len(kept) + n)]
      BY <3>1
    <3> HIDE DEF g
    <3>3. f = [n \in 0..missing |-> IF n = 0 THEN base ELSE LineAdded(b, a, f[n - 1], Len(kept) + n)]
      BY <3>2
    <3> HIDE DEF f, base
    <3>4. 0 \in 0..missing
      BY <2>2
    <3> QED  BY <3>3, <3>4
  <2> HIDE DEF f
  <2>5. Board(b, a) = [a EXCEPT !.lines = kept]
    BY <2>2, <2>3, <2>4
  <2>6. Board(b, a).lines = kept
    BY <2>5 DEF Asset
  <2> QED  BY <1>2, <1>5a, <2>1, <2>5, <2>6 DEF SoundBoard, WholeBoard
<1>8. CASE Residual(b, a) # 0 /\ last > Len(kept)
  <2> DEFINE f == CHOOSE f : f = [n \in 0..missing |->
                    IF n = 0 THEN base ELSE LineAdded(b, a, f[n - 1], Len(kept) + n)]
  <2>0. Board(b, a) = [a EXCEPT !.lines = f[missing].lines]
    BY <1>8 DEF Board
  <2>1. missing \in Nat \ {0} /\ Len(kept) + missing = last
    <3>1. last - Len(kept) \in Nat \ {0}
      BY <1>4, <1>8
    <3> DEFINE d == last - Len(kept)
    <3> HIDE DEF d
    <3>2. \A x \in {0, d} : d >= x
      BY <3>1 DEF d
    <3>3. Max({0, d}) \in {0, d} /\ \A x \in {0, d} : Max({0, d}) >= x
      BY <3>2 DEF Max
    <3>4. Max({0, d}) = d
      BY <3>1, <3>3 DEF d
    <3> QED  BY <1>4, <3>1, <3>4 DEF d
  <2> DEFINE step == [n \in 1..missing |-> [st \in BoardState |-> LineAdded(b, a, st, Len(kept) + n)]]
  <2>2. base \in BoardState
    BY <1>1, <1>2, <1>4 DEF BoardState
  <2> HIDE DEF missing, base, first
  <2>3. ASSUME NEW n \in 1..missing, NEW st \in BoardState
        PROVE  /\ Continued(st, LineAdded(b, a, st, Len(kept) + n), a.lines)
               /\ LineAdded(b, a, st, Len(kept) + n) \in BoardState
               /\ n = missing => LineAdded(b, a, st, Len(kept) + n).left = 0
    <3> DEFINE seq == Len(kept) + n
    <3>1. seq \in Nat /\ Len(kept) < seq /\ seq <= last /\ (n = missing => seq = last)
      BY <1>4, <2>1
    <3> HIDE DEF seq
    <3> QED  BY <3>1, AddedFacts DEF Continued, seq
  <2>4. step \in [1..missing -> [BoardState -> BoardState]]
    BY <2>3
  <2>5. PICK g : g \in [0..missing -> BoardState] /\ Stepped(missing, base, step, g)
    <3> HIDE DEF step
    <3>1. missing \in Nat
      BY <2>1
    <3> QED  BY ONLY <2>2, <2>4, <3>1, Stepping
  <2>6. ASSUME NEW n \in 0..missing, n # 0
        PROVE  step[n][g[n - 1]] = LineAdded(b, a, g[n - 1], Len(kept) + n)
    <3>1. n \in 1..missing /\ n - 1 \in 0..missing
      BY <2>1, <2>6
    <3>2. g[n - 1] \in BoardState
      BY <2>5, <3>1
    <3> QED  BY <3>1, <3>2
  <2>7. g = [n \in 0..missing |-> IF n = 0 THEN base ELSE LineAdded(b, a, g[n - 1], Len(kept) + n)]
    <3> HIDE DEF step
    <3> QED  BY <2>5, <2>6 DEF Stepped
  <2>8. f = [n \in 0..missing |-> IF n = 0 THEN base ELSE LineAdded(b, a, f[n - 1], Len(kept) + n)]
    BY <2>7
  <2> HIDE DEF f
  <2> DEFINE Good(st) == /\ st \in BoardState /\ NoNewEntries(st.lines, a.lines)
                         /\ st.left + EntrySum(st.lines, 0..MaxEntries) = Depreciable(b, a)
                         /\ \A E \in SUBSET (1..MaxEntries) : EntrySum(st.lines, E) = EntrySum(a.lines, E)
             Few(st, n) == Len(st.lines) <= Len(kept) + n
             I == {n \in 0..missing : Good(f[n]) /\ Few(f[n], n) /\ (n = missing => f[n].left = 0)}
  <2>9. 0 \in I
    <3>1. 0 \in 0..missing /\ 0 # missing
      BY <2>1
    <3>2. f[0] = base
      BY <2>8, <3>1
    <3>3. base.left = Residual(b, a) /\ base.lines = kept
      BY DEF base
    <3>4. Good(base)
      <4>1. Residual(b, a) + EntrySum(kept, 0..MaxEntries) = Depreciable(b, a)
        <5> HIDE DEF kept
        <5> QED  BY <1>1, <1>3
      <4> QED  BY <1>2, <2>2, <3>3, <4>1
    <3>5. Few(base, 0)
      BY <1>4, <3>3
    <3> QED  BY <3>1, <3>2, <3>4, <3>5
  <2>10. ASSUME NEW n \in 0..missing, n # missing, n \in I PROVE n + 1 \in I
    <3>1. n + 1 \in 1..missing /\ n + 1 \in 0..missing /\ (n + 1) - 1 = n /\ n + 1 # 0
      BY <2>1, <2>10
    <3>2. f[n + 1] = LineAdded(b, a, f[n], Len(kept) + (n + 1))
      BY <2>8, <3>1
    <3>3. Good(f[n])
      BY <2>10
    <3>4. /\ Continued(f[n], f[n + 1], a.lines) /\ f[n + 1] \in BoardState
          /\ n + 1 = missing => f[n + 1].left = 0
      BY <2>3, <3>1, <3>2, <3>3
    <3>5. Good(f[n + 1])
      BY <3>3, <3>4 DEF Continued
    <3>6. Few(f[n + 1], n + 1)
      <4>1. Few(f[n], n) /\ f[n].lines \in Lines /\ f[n + 1].lines \in Lines
        BY <2>10, <3>3, <3>4 DEF BoardState
      <4>2. Len(f[n].lines) \in Nat /\ Len(f[n + 1].lines) \in Nat
        BY <4>1, LineFacts
      <4>3. Len(f[n + 1].lines) <= Len(f[n].lines) + 1
        BY <3>4 DEF Continued
      <4> QED  BY <1>4, <3>1, <4>1, <4>2, <4>3
    <3> QED  BY <3>1, <3>4, <3>5, <3>6
  <2> HIDE DEF I
  <2>11. missing \in I
    <3>1. missing \in Nat /\ missing \in 0..missing
      BY <2>1
    <3>2. 0..missing \subseteq I
      BY <2>9, <2>10, <3>1, UpTo
    <3> QED  BY <3>1, <3>2
  <2>12. Good(f[missing]) /\ Few(f[missing], missing) /\ f[missing].left = 0
    BY <2>11 DEF I
  <2>13. f[missing].lines \in Lines
    BY <2>12 DEF BoardState
  <2>14. Total(f[missing].lines) = Depreciable(b, a)
    <3>1. EntrySum(f[missing].lines, 0..MaxEntries) = Total(f[missing].lines)
      BY <2>13, SumForms
    <3>2. Total(f[missing].lines) \in Int
      <4>1. [seq |-> 0, amount |-> 0, due |-> 0, entry |-> 0] \in Line
        BY AssetsAssumption DEF Line
      <4> QED  BY <2>13, <3>1, <4>1, EntryAppend
    <3> QED  BY <2>12, <3>1, <3>2
  <2>15. Board(b, a).lines = f[missing].lines
    BY <2>0 DEF Asset
  <2>16. Len(f[missing].lines) <= last
    BY <2>1, <2>12
  <2> QED  BY <1>5, <2>0, <2>12, <2>13, <2>14, <2>15, <2>16 DEF SoundBoard, WholeBoard
<1> QED  BY <1>4, <1>6, <1>7, <1>8

\* Where no line adds anything the sum is nothing.
LEMMA NoneAdds ==
    ASSUME NEW l \in Lines, NEW K, \A n \in 1..Len(l) : Adds(l, K, n) = 0
    PROVE  SumOver(l, K) = 0
<1>1. Len(l) \in Nat
  BY LineFacts
<1>2. CASE Len(l) = 0
  <2>1. PICK f : Running(l, K, f) /\ SumOver(l, K) = f[Len(l)]
    BY SumRunning
  <2> QED  BY <1>2, <2>1 DEF Running
<1>3. CASE Len(l) # 0
  <2>1. 1 \in 1..Len(l)
    BY <1>1, <1>3
  <2>2. SumOver(l, K) = Adds(l, K, 1)
    BY <2>1, OneAdds
  <2> QED  BY <2>1, <2>2
<1> QED  BY <1>2, <1>3

\* An entry no line has.
LEMMA NoEntrySum ==
    ASSUME NEW l \in Lines, NEW e, \A n \in 1..Len(l) : l[n].entry # e
    PROVE  EntrySum(l, {e}) = 0
<1>1. \A n \in 1..Len(l) : Adds(l, Of(l, {e}), n) = 0
  BY DEF Adds, Of
<1> QED  BY <1>1, NoneAdds DEF EntrySum

\* An asset of bill b whose board is complete and has no line too many; a draft has no entries,
\* and what is closed has nothing left.
AssetOK(b, a) ==
  /\ a \in Asset /\ WholeBoard(b, a, a.lines)
  /\ ~Category[b].byEnd => Len(a.lines) <= OfNumber(b, a)
  /\ a.state = "draft" => WithMove(a.lines) = {}
  /\ a.state = "close" => Residual(b, a) = 0

\* The assets f agree with the entries es.
ShareIn(f, id, e) == IF id[2] \in DOMAIN f[id[1]] THEN EntrySum(f[id[1]][id[2]].lines, {e}) ELSE 0
SharesIn(f, e) == [id \in AssetIds |-> ShareIn(f, id, e)]
AssetsOK(f, n) ==
  /\ f \in [Bill -> Seq(Asset)]
  /\ \A b \in Bill : Len(f[b]) <= MaxCopies[b]
  /\ \A b \in Bill : \A i \in 1..Len(f[b]) :
       AssetOK(b, f[b][i]) /\ \A k \in 1..Len(f[b][i].lines) : f[b][i].lines[k].entry <= n
Agreeing(f, es) ==
  /\ AssetsOK(f, Len(es)) /\ es \in Seq(Entry) /\ Len(es) <= MaxEntries
  /\ \A e \in 1..Len(es) : es[e].amount = SumFunction(SharesIn(f, e))

\* More entries may come, of which the assets have what they say.
LEMMA StillAgreeing ==
    ASSUME NEW f, NEW es, Agreeing(f, es), NEW g, NEW fs,
           fs \in Seq(Entry), Len(es) <= Len(fs), Len(fs) <= MaxEntries, AssetsOK(g, Len(fs)),
           \A e \in 1..Len(es) : fs[e].amount = es[e].amount,
           \A id \in AssetIds : \A e \in 1..Len(es) : ShareIn(g, id, e) = ShareIn(f, id, e),
           \A e \in 1..Len(fs) : e > Len(es) => fs[e].amount = SumFunction(SharesIn(g, e))
    PROVE  Agreeing(g, fs)
<1>1. ASSUME NEW e \in 1..Len(fs) PROVE fs[e].amount = SumFunction(SharesIn(g, e))
  <2>1. Len(es) \in Nat /\ Len(fs) \in Nat
    BY DEF Agreeing
  <2>2. CASE e > Len(es)
    BY <2>2
  <2>3. CASE e <= Len(es)
    <3>1. e \in 1..Len(es)
      BY <2>1, <2>3
    <3>2. SharesIn(g, e) = SharesIn(f, e)
      BY <3>1 DEF SharesIn
    <3> QED  BY <3>1, <3>2 DEF Agreeing
  <2> QED  BY <2>1, <2>2, <2>3
<1> QED  BY <1>1 DEF Agreeing

\* An id of an asset.
LEMMA IdFacts ==
    ASSUME NEW f, NEW n, AssetsOK(f, n)
    PROVE  /\ \A id \in AssetIds : id[1] \in Bill /\ id[2] \in 1..MaxCopies[id[1]] /\ id = <<id[1], id[2]>>
           /\ \A b \in Bill : \A i \in 1..Len(f[b]) : <<b, i>> \in AssetIds
           /\ \A b \in Bill : f[b] \in Seq(Asset) /\ DOMAIN f[b] = 1..Len(f[b]) /\ Len(f[b]) \in Nat
           /\ \A b \in Bill : \A i \in 1..Len(f[b]) :
                f[b][i] \in Asset /\ f[b][i].lines \in Lines /\ AssetOK(b, f[b][i])
<1>1. \A id \in AssetIds : id[1] \in Bill /\ id[2] \in 1..MaxCopies[id[1]] /\ id = <<id[1], id[2]>>
  BY DEF AssetIds
<1>2. \A b \in Bill : f[b] \in Seq(Asset) /\ DOMAIN f[b] = 1..Len(f[b]) /\ Len(f[b]) \in Nat
  BY DEF AssetsOK
<1>3. ASSUME NEW b \in Bill, NEW i \in 1..Len(f[b])
      PROVE  <<b, i>> \in AssetIds /\ f[b][i] \in Asset /\ f[b][i].lines \in Lines /\ AssetOK(b, f[b][i])
  <2>1. MaxCopies[b] \in Nat /\ Len(f[b]) <= MaxCopies[b]
    BY AssetsAssumption DEF AssetsOK
  <2>2. i \in 1..MaxCopies[b]
    BY <1>2, <2>1
  <2>3. AssetOK(b, f[b][i])
    BY DEF AssetsOK
  <2> QED  BY <2>2, <2>3 DEF AssetIds, AssetOK, Asset, Lines
<1> QED  BY <1>1, <1>2, <1>3

\* As many assets as before, the same ones active.
AsActive(f, g) ==
  \A b \in Bill : Len(g[b]) = Len(f[b]) /\ \A i \in 1..Len(f[b]) : g[b][i].active = f[b][i].active

\* One asset changes to one that has of each entry what it had.
LEMMA OneChanged ==
    ASSUME NEW f, NEW es, Agreeing(f, es), NEW b \in Bill, NEW i \in 1..Len(f[b]), NEW a,
           AssetOK(b, a), NoNewEntries(a.lines, f[b][i].lines), a.active = f[b][i].active,
           \A e \in 1..MaxEntries : EntrySum(a.lines, {e}) = EntrySum(f[b][i].lines, {e})
    PROVE  LET g == [f EXCEPT ![b][i] = a] IN Agreeing(g, es) /\ AsActive(f, g)
<1> DEFINE g == [f EXCEPT ![b][i] = a]
<1>1. AssetsOK(f, Len(es)) /\ f \in [Bill -> Seq(Asset)]
  BY DEF Agreeing, AssetsOK
<1>2. a \in Asset
  BY DEF AssetOK
<1>3. /\ g \in [Bill -> Seq(Asset)] /\ \A c \in Bill : c # b => g[c] = f[c]
      /\ g[b] = [f[b] EXCEPT ![i] = a]
  <2>1. [f[b] EXCEPT ![i] = a] \in Seq(Asset)
    BY <1>1, <1>2, ExceptSeq
  <2> QED  BY <1>1, <2>1
<1>4. /\ Len(g[b]) = Len(f[b]) /\ g[b][i] = a
      /\ \A j \in 1..Len(f[b]) : j # i => g[b][j] = f[b][j]
  BY <1>1, <1>2, <1>3, ExceptSeq
<1> HIDE DEF g
<1>5. ASSUME NEW c \in Bill, NEW j \in 1..Len(g[c])
      PROVE  AssetOK(c, g[c][j]) /\ \A k \in 1..Len(g[c][j].lines) : g[c][j].lines[k].entry <= Len(es)
  <2>1. CASE c = b /\ j = i
    <3>1. ASSUME NEW k \in 1..Len(a.lines) PROVE a.lines[k].entry <= Len(es)
      <4>1. CASE a.lines[k].entry = 0
        BY <4>1 DEF Agreeing
      <4>2. CASE a.lines[k].entry # 0
        BY <1>1, <4>2 DEF NoNewEntries, AssetsOK
      <4> QED  BY <4>1, <4>2
    <3> QED  BY <1>4, <2>1, <3>1
  <2>2. CASE ~(c = b /\ j = i)
    <3>1. j \in 1..Len(f[c]) /\ g[c][j] = f[c][j]
      BY <1>3, <1>4, <2>2
    <3> QED  BY <1>1, <3>1 DEF AssetsOK
  <2> QED  BY <2>1, <2>2
<1>6. \A c \in Bill : Len(g[c]) = Len(f[c])
  BY <1>3, <1>4
<1>7. AssetsOK(g, Len(es))
  BY <1>1, <1>3, <1>5, <1>6 DEF AssetsOK
<1>8. ASSUME NEW id \in AssetIds, NEW e \in 1..Len(es) PROVE ShareIn(g, id, e) = ShareIn(f, id, e)
  <2>1. id[1] \in Bill /\ DOMAIN g[id[1]] = 1..Len(g[id[1]]) /\ DOMAIN f[id[1]] = 1..Len(f[id[1]])
    BY <1>1, <1>7, IdFacts
  <2>2. e \in 1..MaxEntries
    BY AssetsAssumption DEF Agreeing
  <2>3. CASE id[1] = b /\ id[2] = i
    BY <1>4, <1>6, <2>1, <2>2, <2>3 DEF ShareIn
  <2>4. CASE ~(id[1] = b /\ id[2] = i)
    <3>1. id[2] \in 1..Len(f[id[1]]) => g[id[1]][id[2]] = f[id[1]][id[2]]
      BY <1>3, <1>4, <2>1, <2>4
    <3> QED  BY <1>6, <2>1, <3>1 DEF ShareIn
  <2> QED  BY <2>3, <2>4
<1>9. Agreeing(g, es)
  <2>1. es \in Seq(Entry) /\ Len(es) \in Nat /\ Len(es) <= MaxEntries
    BY DEF Agreeing
  <2>2. \A e \in 1..Len(es) : ~(e > Len(es))
    BY <2>1
  <2>3. Len(es) <= Len(es)
    BY <2>1
  <2> QED  BY <1>7, <1>8, <2>1, <2>2, <2>3, StillAgreeing
<1>10. AsActive(f, g)
  BY <1>3, <1>4, <1>6 DEF AsActive
<1> QED  BY <1>9, <1>10 DEF g

\* Where lines add up and all have entries, nothing is left.
LEMMA AllLinked ==
    ASSUME NEW b \in Bill, NEW a \in Asset, Total(a.lines) = Depreciable(b, a), MadeFor(a.lines, 0) = {}
    PROVE  Residual(b, a) = 0
<1>1. a.lines \in Lines /\ Depreciable(b, a) \in Int
      /\ Residual(b, a) = Depreciable(b, a) - EntrySum(a.lines, 1..MaxEntries)
  BY ResidualFacts
<1>2. Of(a.lines, 0..MaxEntries) = Of(a.lines, 1..MaxEntries)
  <2>1. \A k \in DOMAIN a.lines : a.lines[k].entry \in 0..MaxEntries /\ a.lines[k].entry # 0
    BY <1>1, LineFacts DEF MadeFor
  <2>2. /\ \A x \in 0..MaxEntries : x # 0 => x \in 1..MaxEntries
        /\ \A x \in 1..MaxEntries : x \in 0..MaxEntries
    BY AssetsAssumption
  <2> QED  BY <2>1, <2>2 DEF Of
<1>3. Total(a.lines) = EntrySum(a.lines, 1..MaxEntries)
  BY <1>1, <1>2, SumForms DEF EntrySum
<1> QED  BY <1>1, <1>3

\* So there is a last line for what is left of an asset that is all right, or of a draft, however
\* many lines it is given.
LEMMA RoomFacts ==
    ASSUME NEW b \in Bill, NEW a
    PROVE  /\ AssetOK(b, a) => HasRoom(b, a)
           /\ a \in Asset /\ WithMove(a.lines) = {} => HasRoom(b, a)
<1>1. ASSUME AssetOK(b, a) PROVE HasRoom(b, a)
  <2>1. a \in Asset /\ WholeBoard(b, a, a.lines) /\ (~Category[b].byEnd => Len(a.lines) <= OfNumber(b, a))
    BY <1>1 DEF AssetOK
  <2>2. a.lines \in Lines
    BY <2>1 DEF Asset, Lines
  <2>3. Len(Kept(a.lines)) <= Len(a.lines) /\ (MadeFor(a.lines, 0) # {} => Len(Kept(a.lines)) < Len(a.lines))
    BY <2>2, KeptFacts
  <2>4. Len(Kept(a.lines)) \in Nat /\ Len(a.lines) \in Nat /\ OfNumber(b, a) \in Nat
    BY <2>1, <2>2, KeptFacts, LineFacts, LastFacts
  <2>5. ~Category[b].byEnd => Residual(b, a) = 0 \/ MadeFor(a.lines, 0) # {}
    BY <2>1, AllLinked DEF WholeBoard
  <2> QED  BY <2>1, <2>3, <2>4, <2>5 DEF HasRoom
<1>2. ASSUME a \in Asset, WithMove(a.lines) = {} PROVE HasRoom(b, a)
  <2>1. a.lines \in Lines
    BY <1>2 DEF Asset, Lines
  <2>2. Kept(a.lines) = <<>> /\ Len(<<>>) = 0 /\ OfNumber(b, a) \in Nat \ {0}
    BY <1>2, <2>1, KeptFacts, LastFacts
  <2> QED  BY <2>2 DEF HasRoom
<1> QED  BY <1>1, <1>2

\* A board computed again keeps an asset all right.
LEMMA BoardOK ==
    ASSUME NEW b \in Bill, NEW a \in Asset, HasRoom(b, a),
           a.state = "draft" => WithMove(a.lines) = {},
           a.state = "close" => Residual(b, a) = 0
    PROVE  /\ AssetOK(b, Board(b, a)) /\ NoNewEntries(Board(b, a).lines, a.lines)
           /\ \A e \in 1..MaxEntries : EntrySum(Board(b, a).lines, {e}) = EntrySum(a.lines, {e})
           /\ Board(b, a).active = a.active
<1> DEFINE n == Board(b, a)
<1>1. a.lines \in Lines
  BY DEF Asset, Lines
<1>3. SoundBoard(b, a, n)
  BY BoardFacts
<1> HIDE DEF n
<1>4. /\ n = [a EXCEPT !.lines = n.lines] /\ n.lines \in Lines /\ NoNewEntries(n.lines, a.lines)
      /\ WholeBoard(b, a, n.lines) /\ (~Category[b].byEnd => Len(n.lines) <= OfNumber(b, a))
      /\ \A E \in SUBSET (1..MaxEntries) : EntrySum(n.lines, E) = EntrySum(a.lines, E)
  BY <1>3 DEF SoundBoard
<1>5. n \in Asset /\ n.state = a.state /\ n.active = a.active /\ n.salvage = a.salvage /\ n.number = a.number
  BY <1>4 DEF Asset, Lines
<1>6. Depreciable(b, n) = Depreciable(b, a) /\ OfNumber(b, n) = OfNumber(b, a)
  BY <1>5 DEF Depreciable, OfNumber
<1>7. ASSUME n.state = "draft" PROVE WithMove(n.lines) = {}
  <2>1. WithMove(a.lines) = {} /\ DOMAIN a.lines = 1..Len(a.lines)
    BY <1>1, <1>5, <1>7, LineFacts
  <2>2. \A k \in 1..Len(n.lines) : n.lines[k].entry = 0
    BY <1>4, <2>1 DEF NoNewEntries, WithMove
  <2> QED  BY <1>4, <2>2, LineFacts DEF WithMove
<1>8. n.state = "close" => Residual(b, n) = 0
  <2>1. EntrySum(n.lines, 1..MaxEntries) = EntrySum(a.lines, 1..MaxEntries)
    BY <1>4
  <2>2. Residual(b, n) = Residual(b, a)
    BY <1>5, <1>6, <2>1, ResidualFacts
  <2> QED  BY <1>5, <2>2
<1>9. AssetOK(b, n)
  BY <1>4, <1>5, <1>6, <1>7, <1>8 DEF AssetOK, WholeBoard
<1>10. \A e \in 1..MaxEntries : {e} \in SUBSET (1..MaxEntries)
  OBVIOUS
<1> QED  BY <1>4, <1>5, <1>9, <1>10 DEF n

\* There are finitely many assets; sums over them are numbers.
LEMMA IdsFinite == IsFiniteSet(AssetIds)
<1> DEFINE ids == [b \in Bill |-> {b} \X (1..MaxCopies[b])]
           T == {ids[b] : b \in Bill}
<1>1. ASSUME NEW b \in Bill PROVE IsFiniteSet(ids[b])
  <2>1. IsFiniteSet({b})
    BY FS_Singleton
  <2>2. MaxCopies[b] \in Nat
    BY AssetsAssumption
  <2>3. IsFiniteSet(1..MaxCopies[b])
    BY <2>2, FS_Interval
  <2>4. IsFiniteSet({b} \X (1..MaxCopies[b]))
    BY <2>1, <2>3, FS_Product
  <2> QED  BY <2>4
<1>4. UNION T = AssetIds
  BY DEF AssetIds
<1> HIDE DEF ids
<1>2. IsFiniteSet(T)
  BY AssetsAssumption, ImageFinite
<1>3. IsFiniteSet(UNION T)
  <2>1. \A x \in T : IsFiniteSet(x)
    BY <1>1
  <2> HIDE DEF T
  <2> QED  BY <1>2, <2>1, FS_UNION
<1> QED  BY <1>3, <1>4

\* Sums of entries are numbers, and so are the shares.
LEMMA ShareInt ==
    ASSUME NEW f, NEW n, AssetsOK(f, n)
    PROVE  /\ \A l \in Lines : \A E : EntrySum(l, E) \in Int
           /\ \A e : SharesIn(f, e) \in [AssetIds -> Int] /\ SumFunction(SharesIn(f, e)) \in Int
           /\ \A e : \A id \in AssetIds : SharesIn(f, e)[id] = ShareIn(f, id, e)
<1>1. \A l \in Lines : \A E : EntrySum(l, E) \in Int
  <2>1. [seq |-> 0, amount |-> 0, due |-> 0, entry |-> 0] \in Line
    BY AssetsAssumption DEF Line
  <2> QED  BY <2>1, EntryAppend
<1>2. ASSUME NEW e, NEW id \in AssetIds PROVE ShareIn(f, id, e) \in Int
  <2>1. id[1] \in Bill /\ DOMAIN f[id[1]] = 1..Len(f[id[1]])
    BY IdFacts
  <2>2. id[2] \in 1..Len(f[id[1]]) => f[id[1]][id[2]].lines \in Lines
    BY <2>1, IdFacts
  <2> QED  BY <1>1, <2>1, <2>2 DEF ShareIn
<1>3. \A e : SharesIn(f, e) \in [AssetIds -> Int]
  BY <1>2 DEF SharesIn
<1>4. \A e : SumFunction(SharesIn(f, e)) \in Int
  BY <1>3, IdsFinite, OnlyOne
<1> QED  BY <1>1, <1>3, <1>4 DEF SharesIn

\* Assets of the same number that have of each entry what they had, and entries to come of
\* which they have what these say.
Reshaped(f, g, es, fs) ==
  /\ g \in [Bill -> Seq(Asset)] /\ fs \in Seq(Entry) /\ Len(es) <= Len(fs) /\ Len(fs) <= MaxEntries
  /\ \A b \in Bill : Len(g[b]) = Len(f[b])
  /\ \A b \in Bill : \A i \in 1..Len(f[b]) :
       /\ AssetOK(b, g[b][i]) /\ g[b][i].active = f[b][i].active
       /\ \A k \in 1..Len(g[b][i].lines) : g[b][i].lines[k].entry <= Len(fs)
       /\ \A e \in 1..Len(es) : EntrySum(g[b][i].lines, {e}) = EntrySum(f[b][i].lines, {e})
  /\ \A e \in 1..Len(es) : fs[e].amount = es[e].amount

\* They agree again.
LEMMA ReshapedAgrees ==
    ASSUME NEW f, NEW es, Agreeing(f, es), NEW g, NEW fs, Reshaped(f, g, es, fs),
           \A e \in 1..Len(fs) : e > Len(es) => fs[e].amount = SumFunction(SharesIn(g, e))
    PROVE  Agreeing(g, fs) /\ AsActive(f, g)
<1>1. AssetsOK(f, Len(es))
  BY DEF Agreeing
<1>2. AssetsOK(g, Len(fs))
  BY <1>1 DEF Reshaped, AssetsOK
<1>3. ASSUME NEW id \in AssetIds, NEW e \in 1..Len(es) PROVE ShareIn(g, id, e) = ShareIn(f, id, e)
  <2>1. id[1] \in Bill /\ DOMAIN g[id[1]] = 1..Len(g[id[1]]) /\ DOMAIN f[id[1]] = 1..Len(f[id[1]])
    BY <1>1, <1>2, IdFacts
  <2>2. Len(g[id[1]]) = Len(f[id[1]])
    BY <2>1 DEF Reshaped
  <2>3. id[2] \in 1..Len(f[id[1]])
          => EntrySum(g[id[1]][id[2]].lines, {e}) = EntrySum(f[id[1]][id[2]].lines, {e})
    BY <2>1 DEF Reshaped
  <2> QED  BY <2>1, <2>2, <2>3 DEF ShareIn
<1>4. AsActive(f, g)
  BY DEF Reshaped, AsActive
<1> QED  BY <1>2, <1>3, <1>4, StillAgreeing DEF Reshaped

\* One asset gets a line for one new entry, of its amount.
LEMMA EntryMade ==
    ASSUME NEW f, NEW es, Agreeing(f, es), NEW b \in Bill, NEW i \in 1..Len(f[b]), NEW a, NEW x \in Entry,
           Len(es) < MaxEntries, AssetOK(b, a), a.active = f[b][i].active,
           \A k \in 1..Len(a.lines) : a.lines[k].entry <= Len(es) + 1,
           \A e \in 1..Len(es) : EntrySum(a.lines, {e}) = EntrySum(f[b][i].lines, {e}),
           x.amount = EntrySum(a.lines, {Len(es) + 1})
    PROVE  LET g == [f EXCEPT ![b][i] = a] IN Agreeing(g, Append(es, x)) /\ AsActive(f, g)
<1> DEFINE g == [f EXCEPT ![b][i] = a]
           N == Len(es)
           fs == Append(es, x)
<1>1. AssetsOK(f, Len(es)) /\ f \in [Bill -> Seq(Asset)] /\ es \in Seq(Entry) /\ N \in Nat
  <2>1. AssetsOK(f, Len(es)) /\ es \in Seq(Entry)
    BY DEF Agreeing
  <2>2. f \in [Bill -> Seq(Asset)]
    BY <2>1 DEF AssetsOK
  <2>3. Len(es) \in Nat
    BY <2>1
  <2> QED  BY <2>1, <2>2, <2>3
<1>2. a \in Asset /\ a.lines \in Lines
  BY DEF AssetOK, Asset, Lines
<1>3. /\ g \in [Bill -> Seq(Asset)] /\ \A c \in Bill : c # b => g[c] = f[c]
      /\ g[b] = [f[b] EXCEPT ![i] = a]
  <2>1. [f[b] EXCEPT ![i] = a] \in Seq(Asset)
    BY <1>1, <1>2, ExceptSeq
  <2> QED  BY <1>1, <2>1
<1>4. /\ Len(g[b]) = Len(f[b]) /\ g[b][i] = a
      /\ \A j \in 1..Len(f[b]) : j # i => g[b][j] = f[b][j]
  BY <1>1, <1>2, <1>3, ExceptSeq
<1>5. fs \in Seq(Entry) /\ Len(fs) = N + 1 /\ fs[N + 1] = x /\ \A e \in 1..N : fs[e] = es[e]
  BY <1>1
<1> HIDE DEF g, fs
<1>6. ASSUME NEW c \in Bill, NEW j \in 1..Len(f[c])
      PROVE  /\ AssetOK(c, g[c][j]) /\ g[c][j].active = f[c][j].active /\ g[c][j].lines \in Lines
             /\ \A k \in 1..Len(g[c][j].lines) : g[c][j].lines[k].entry <= N + 1
             /\ \A e \in 1..N : EntrySum(g[c][j].lines, {e}) = EntrySum(f[c][j].lines, {e})
             /\ (c # b \/ j # i) => EntrySum(g[c][j].lines, {N + 1}) = 0
  <2>1. CASE c = b /\ j = i
    BY <1>2, <1>4, <2>1
  <2>2. CASE c # b \/ j # i
    <3>1. g[c][j] = f[c][j]
      BY <1>3, <1>4, <2>2
    <3>2. AssetOK(c, f[c][j]) /\ f[c][j].lines \in Lines
      BY <1>1, IdFacts
    <3>3. \A k \in 1..Len(f[c][j].lines) : f[c][j].lines[k].entry \in 0..MaxEntries /\ f[c][j].lines[k].entry <= N
      <4>1. \A k \in 1..Len(f[c][j].lines) : f[c][j].lines[k].entry \in 0..MaxEntries
        BY <3>2, LineFacts
      <4>2. \A k \in 1..Len(f[c][j].lines) : f[c][j].lines[k].entry <= N
        BY <1>1 DEF AssetsOK
      <4> QED  BY <4>1, <4>2
    <3>4. \A y \in 0..MaxEntries : y <= N => y <= N + 1 /\ y # N + 1
      <4>1. N \in Nat /\ MaxEntries \in Nat
        BY <1>1, AssetsAssumption
      <4> HIDE DEF N
      <4> QED  BY ONLY <4>1
    <3>5. \A k \in 1..Len(f[c][j].lines) : f[c][j].lines[k].entry <= N + 1 /\ f[c][j].lines[k].entry # N + 1
      BY <3>3, <3>4
    <3>6. EntrySum(f[c][j].lines, {N + 1}) = 0
      BY <3>2, <3>5, NoEntrySum
    <3> QED  BY <3>1, <3>2, <3>5, <3>6
  <2> QED  BY <2>1, <2>2
<1>7. \A c \in Bill : Len(g[c]) = Len(f[c])
  BY <1>3, <1>4
<1>8. N <= Len(fs) /\ Len(fs) <= MaxEntries
  BY <1>1, <1>5, AssetsAssumption
<1>9. Reshaped(f, g, es, fs)
  <2>1. ASSUME NEW c \in Bill, NEW j \in 1..Len(f[c])
        PROVE  /\ AssetOK(c, g[c][j]) /\ g[c][j].active = f[c][j].active
               /\ \A k \in 1..Len(g[c][j].lines) : g[c][j].lines[k].entry <= Len(fs)
               /\ \A e \in 1..Len(es) : EntrySum(g[c][j].lines, {e}) = EntrySum(f[c][j].lines, {e})
    BY <1>5, <1>6
  <2>2. \A e \in 1..Len(es) : fs[e].amount = es[e].amount
    BY <1>5
  <2>3. g \in [Bill -> Seq(Asset)] /\ fs \in Seq(Entry) /\ Len(es) <= Len(fs) /\ Len(fs) <= MaxEntries
    BY <1>3, <1>5, <1>8
  <2> HIDE DEF N
  <2> QED  BY ONLY <1>7, <2>1, <2>2, <2>3 DEF Reshaped
<1>10. AssetsOK(g, Len(fs))
  BY <1>1, <1>9 DEF Reshaped, AssetsOK
<1>11. fs[N + 1].amount = SumFunction(SharesIn(g, N + 1))
  <2> DEFINE S == SharesIn(g, N + 1)
  <2>1. S \in [AssetIds -> Int] /\ \A id \in AssetIds : S[id] = ShareIn(g, id, N + 1)
    BY <1>10, ShareInt
  <2>2. <<b, i>> \in AssetIds /\ DOMAIN g[b] = 1..Len(f[b])
    BY <1>1, <1>7, <1>10, IdFacts
  <2>3. S[<<b, i>>] = EntrySum(a.lines, {N + 1})
    BY <1>4, <2>1, <2>2 DEF ShareIn
  <2>4. ASSUME NEW id \in AssetIds, id # <<b, i>> PROVE S[id] = 0
    <3>1. id[1] \in Bill /\ id = <<id[1], id[2]>> /\ DOMAIN g[id[1]] = 1..Len(f[id[1]])
      BY <1>7, <1>10, IdFacts
    <3>2. id[1] # b \/ id[2] # i
      BY <2>4, <3>1
    <3>3. id[2] \in 1..Len(f[id[1]]) => EntrySum(g[id[1]][id[2]].lines, {N + 1}) = 0
      BY <1>6, <3>1, <3>2
    <3> QED  BY <2>1, <3>1, <3>3 DEF ShareIn
  <2> HIDE DEF S
  <2>5. SumFunction(S) = S[<<b, i>>]
    BY <2>1, <2>2, <2>4, IdsFinite, OnlyOne
  <2> QED  BY <1>5, <2>3, <2>5 DEF S
<1>12. ASSUME NEW e \in 1..Len(fs), e > N PROVE fs[e].amount = SumFunction(SharesIn(g, e))
  <2>1. e = N + 1
    BY <1>1, <1>5, <1>12
  <2> QED  BY <1>11, <2>1
<1>13. Agreeing(g, fs) /\ AsActive(f, g)
  BY <1>9, <1>12, ReshapedAgrees
<1> QED  BY <1>13 DEF g, fs

\* Posting entries closes what is spent and changes nothing else.
LEMMA PostedAgrees ==
    ASSUME NEW f, NEW es, Agreeing(f, es), NEW E
    PROVE  Agreeing(Posted(f, E), es) /\ AsActive(f, Posted(f, E))
<1> DEFINE g == Posted(f, E)
<1>1. AssetsOK(f, Len(es)) /\ f \in [Bill -> Seq(Asset)] /\ es \in Seq(Entry) /\ Len(es) \in Nat
      /\ Len(es) <= MaxEntries
  BY DEF Agreeing, AssetsOK
<1>2. ASSUME NEW b \in Bill
      PROVE  DOMAIN f[b] = 1..Len(f[b]) /\ Len(f[b]) \in Nat /\ f[b] \in Seq(Asset)
  BY <1>1, IdFacts
<1>3. ASSUME NEW b \in Bill, NEW i \in 1..Len(f[b])
      PROVE  /\ AssetOK(b, ClosedIfSpent(b, f[b][i])) /\ ClosedIfSpent(b, f[b][i]).lines = f[b][i].lines
             /\ ClosedIfSpent(b, f[b][i]).active = f[b][i].active
  <2> DEFINE a == f[b][i]
             c == [a EXCEPT !.state = "close"]
  <2>1. a \in Asset /\ AssetOK(b, a)
    BY <1>1, IdFacts
  <2>2. c \in Asset /\ c.state = "close" /\ c.lines = a.lines /\ c.salvage = a.salvage /\ c.active = a.active
        /\ c.number = a.number
    BY <2>1 DEF Asset
  <2> HIDE DEF a, c
  <2>3. /\ Residual(b, c) = Residual(b, a) /\ Depreciable(b, c) = Depreciable(b, a)
        /\ OfNumber(b, c) = OfNumber(b, a)
    BY <2>2 DEF Residual, Depreciable, OfNumber
  <2>4. ClosedIfSpent(b, a) = IF Residual(b, a) = 0 THEN c ELSE a
    BY DEF ClosedIfSpent, c
  <2>5. AssetOK(b, ClosedIfSpent(b, a)) /\ ClosedIfSpent(b, a).lines = a.lines
        /\ ClosedIfSpent(b, a).active = a.active
    <3>1. CASE Residual(b, a) = 0
      <4>1. AssetOK(b, c)
        BY <2>1, <2>2, <2>3, <3>1 DEF AssetOK, WholeBoard
      <4> QED  BY <2>2, <2>4, <3>1, <4>1
    <3>2. CASE Residual(b, a) # 0
      BY <2>1, <2>4, <3>2
    <3> QED  BY <3>1, <3>2
  <2> QED  BY <2>5 DEF a
<1>4. ASSUME NEW b \in Bill
      PROVE  /\ g[b] \in Seq(Asset) /\ Len(g[b]) = Len(f[b])
             /\ \A i \in 1..Len(f[b]) : g[b][i] = f[b][i] \/ g[b][i] = ClosedIfSpent(b, f[b][i])
  <2>1. g[b] = [i \in 1..Len(f[b]) |->
                  IF HasLineOf(f[b][i], E) THEN ClosedIfSpent(b, f[b][i]) ELSE f[b][i]]
    BY <1>2 DEF Posted
  <2>2. \A i \in 1..Len(f[b]) : f[b][i] \in Asset /\ ClosedIfSpent(b, f[b][i]) \in Asset
    BY <1>1, <1>3, IdFacts DEF AssetOK
  <2>3. g[b] \in [1..Len(f[b]) -> Asset]
    BY <2>1, <2>2
  <2>4. g[b] \in Seq(Asset) /\ Len(g[b]) = Len(f[b])
    BY <1>2, <2>3
  <2> QED  BY <2>1, <2>4
<1>5. g \in [Bill -> Seq(Asset)]
  <2>1. g = [b \in Bill |-> g[b]]
    BY DEF Posted
  <2> HIDE DEF g
  <2> QED  BY <1>4, <2>1
<1> HIDE DEF g
<1>6. ASSUME NEW b \in Bill, NEW i \in 1..Len(f[b])
      PROVE  AssetOK(b, g[b][i]) /\ g[b][i].lines = f[b][i].lines /\ g[b][i].active = f[b][i].active
  <2>1. AssetOK(b, f[b][i])
    BY <1>1, IdFacts
  <2> QED  BY <1>3, <1>4, <2>1
<1>7. Reshaped(f, g, es, es)
  <2>1. Len(es) <= Len(es)
    BY <1>1
  <2>2. \A b \in Bill : \A i \in 1..Len(f[b]) : \A k \in 1..Len(f[b][i].lines) : f[b][i].lines[k].entry <= Len(es)
    BY <1>1 DEF AssetsOK
  <2> QED  BY <1>1, <1>4, <1>5, <1>6, <2>1, <2>2 DEF Reshaped
<1>8. \A e \in 1..Len(es) : ~(e > Len(es))
  BY <1>1
<1> QED  BY <1>7, <1>8, ReshapedAgrees DEF g

\* A bill that is not posted has no active asset, and none has two.
OneActive(bs, f) ==
  \A b \in Bill : \A i \in 1..Len(f[b]) : f[b][i].active =>
    bs[b] = "posted" /\ \A j \in 1..Len(f[b]) : f[b][j].active => i = j

BooksInv ==
  /\ bill \in [Bill -> {"draft", "posted"}] /\ period \in 0..EndOfBooks
  /\ Agreeing(asset, entry) /\ OneActive(bill, asset)

\* It depends on which are active.
LEMMA StillOneActive ==
    ASSUME NEW bs, NEW f, NEW g, OneActive(bs, f), AsActive(f, g)
    PROVE  OneActive(bs, g)
<1>1. \A b \in Bill : Len(g[b]) = Len(f[b])
  BY DEF AsActive
<1>2. \A b \in Bill : \A i \in 1..Len(f[b]) : g[b][i].active = f[b][i].active
  BY DEF AsActive
<1> QED  BY <1>1, <1>2 DEF OneActive

\* Steps that leave the bills and the calendar.
LEMMA BooksStep ==
    ASSUME BooksInv, UNCHANGED <<bill, period>>, Agreeing(asset', entry'), AsActive(asset, asset')
    PROVE  BooksInv'
<1>1. OneActive(bill, asset') /\ bill' = bill /\ period' = period
  BY StillOneActive DEF BooksInv
<1>2. OneActive(bill', asset')
  BY <1>1
<1> QED  BY <1>1, <1>2 DEF BooksInv

\* Where a listed asset is.
LEMMA ListedFacts ==
    ASSUME BooksInv, NEW id \in Listed
    PROVE  /\ id \in AssetIds /\ id[1] \in Bill /\ id[2] \in 1..Len(asset[id[1]]) /\ id = <<id[1], id[2]>>
           /\ The(id) = asset[id[1]][id[2]] /\ The(id) \in Asset /\ The(id).lines \in Lines
           /\ AssetOK(id[1], The(id)) /\ The(id).active
           /\ \A k \in 1..Len(The(id).lines) : The(id).lines[k].entry <= Len(entry)
<1>1. AssetsOK(asset, Len(entry))
  BY DEF BooksInv, Agreeing
<1>2. id \in AssetIds /\ id[2] \in DOMAIN asset[id[1]] /\ The(id).active
  BY DEF Listed, Known
<1>3. id[1] \in Bill /\ id = <<id[1], id[2]>> /\ id[2] \in 1..Len(asset[id[1]])
  BY <1>1, <1>2, IdFacts
<1>4. \A k \in 1..Len(asset[id[1]][id[2]].lines) : asset[id[1]][id[2]].lines[k].entry <= Len(entry)
  BY <1>1, <1>3 DEF AssetsOK
<1> QED  BY <1>1, <1>2, <1>3, <1>4, IdFacts DEF The

\* A step on one asset.
LEMMA SetStep ==
    ASSUME BooksInv, NEW id \in Listed, NEW a, Set(id, a), UNCHANGED <<bill, entry, period>>,
           AssetOK(id[1], a), NoNewEntries(a.lines, The(id).lines), a.active = The(id).active,
           \A e \in 1..MaxEntries : EntrySum(a.lines, {e}) = EntrySum(The(id).lines, {e})
    PROVE  BooksInv'
<1> DEFINE b == id[1]
           i == id[2]
           g == [asset EXCEPT ![b][i] = a]
<1>1. b \in Bill /\ i \in 1..Len(asset[b]) /\ The(id) = asset[b][i]
  BY ListedFacts
<1>2. asset' = g /\ entry' = entry
  BY DEF Set
<1> HIDE DEF b, i
<1>3. AssetOK(b, a) /\ Agreeing(asset, entry)
  BY DEF b, BooksInv
<1>4. Agreeing(g, entry) /\ AsActive(asset, g)
  BY <1>1, <1>3, OneChanged
<1> HIDE DEF g
<1> QED  BY <1>2, <1>4, BooksStep

\* A step that computes the board again of an asset changed in duration and salvage value only.
LEMMA BoardStep ==
    ASSUME BooksInv, NEW id \in Listed, NEW c \in Asset, HasRoom(id[1], c),
           c.lines = The(id).lines, c.active = The(id).active, c.state = The(id).state,
           c.state # "close" \/ c = The(id),
           Set(id, Board(id[1], c)), UNCHANGED <<bill, entry, period>>
    PROVE  BooksInv'
<1> DEFINE a == The(id)
           b == id[1]
           d == Board(b, c)
<1>1. b \in Bill /\ a \in Asset /\ AssetOK(b, a)
  BY ListedFacts
<1>2. /\ c.state = "draft" => WithMove(c.lines) = {}
      /\ c.state = "close" => Residual(b, c) = 0
  BY <1>1 DEF AssetOK
<1>3. HasRoom(b, c)
  OBVIOUS
<1> HIDE DEF b
<1>4. /\ AssetOK(b, d) /\ NoNewEntries(d.lines, c.lines) /\ d.active = c.active
      /\ \A e \in 1..MaxEntries : EntrySum(d.lines, {e}) = EntrySum(c.lines, {e})
  BY <1>1, <1>2, <1>3, BoardOK
<1>5. Set(id, d)
  BY DEF b
<1> HIDE DEF d
<1> QED  BY <1>4, <1>5, SetStep DEF b

\* The form: the state changes, or the board is computed again.
LEMMA FormSteps ==
    ASSUME BooksInv, NEW id \in Listed,
           Validate(id) \/ SetToDraft(id) \/ EditDraft(id) \/ Save(id) \/ Modify(id)
    PROVE  BooksInv'
<1> DEFINE a == The(id)
           b == id[1]
<1>1. b \in Bill /\ a \in Asset /\ a.lines \in Lines /\ AssetOK(b, a)
  BY ListedFacts
<1>2. NoNewEntries(a.lines, a.lines)
  BY DEF NoNewEntries
<1>3. CASE Validate(id) \/ SetToDraft(id)
  <2> DEFINE s == IF Validate(id) THEN "open" ELSE "draft"
             c == [a EXCEPT !.state = s]
  <2>1. Set(id, c) /\ UNCHANGED <<bill, entry, period>>
    BY <1>3 DEF Validate, SetToDraft
  <2>2. s = "draft" => WithMove(a.lines) = {}
    BY <1>3 DEF SetToDraft
  <2>3. s \in {"draft", "open"}
    OBVIOUS
  <2> HIDE DEF s, a, b
  <2>4. /\ c \in Asset /\ c.lines = a.lines /\ c.active = a.active /\ c.salvage = a.salvage /\ c.state = s
        /\ c.number = a.number
    BY <1>1, <2>3 DEF Asset
  <2> HIDE DEF c
  <2>5. AssetOK(b, c)
    BY <1>1, <2>2, <2>3, <2>4 DEF AssetOK, WholeBoard, Depreciable, OfNumber
  <2> QED  BY <1>2, <2>1, <2>4, <2>5, SetStep DEF a, b
<1>4. ASSUME NEW c \in AnotherDuration(id)
      PROVE  /\ c \in Asset /\ c.lines = a.lines /\ c.active = a.active /\ c.state = a.state
             /\ c.salvage = a.salvage
  <2>1. PICK n \in Nat \ {0}, e \in Nat : c = [a EXCEPT !.ends = e] \/ c = [a EXCEPT !.number = n]
    <3>1. \A n \in Periods : n \in Nat \ {0}
      BY AssetsAssumption
    <3>2. \A e \in EndDates : e \in Nat
      BY AssetsAssumption
    <3>3. 1 \in Nat \ {0}
      OBVIOUS
    <3> QED  BY <3>1, <3>2, <3>3 DEF AnotherDuration
  <2> HIDE DEF a
  <2> QED  BY <1>1, <2>1 DEF Asset
<1>5. CASE EditDraft(id)
  <2>1. PICK n \in AnotherDuration(id), s \in Salvages : Set(id, Board(b, [n EXCEPT !.salvage = s]))
    BY <1>5 DEF EditDraft
  <2>2. s \in Nat /\ a.state = "draft" /\ UNCHANGED <<bill, entry, period>>
    BY <1>5, AssetsAssumption DEF EditDraft
  <2> DEFINE c == [n EXCEPT !.salvage = s]
  <2>3. Set(id, Board(b, c))
    BY <2>1
  <2>4. c \in Asset /\ c.lines = a.lines /\ c.active = a.active /\ c.state = a.state
    <3>1. n \in Asset /\ n.lines = a.lines /\ n.active = a.active /\ n.state = a.state
      BY <1>4
    <3> HIDE DEF a
    <3> QED  BY <2>2, <3>1 DEF Asset
  <2> HIDE DEF c
  <2>5. WithMove(c.lines) = {}
    BY <1>1, <2>2, <2>4 DEF AssetOK
  <2>6. HasRoom(b, c)
    BY <1>1, <2>4, <2>5, RoomFacts
  <2> QED  BY <2>2, <2>3, <2>4, <2>6, BoardStep
<1>6. CASE Save(id)
  <2>1. Set(id, Board(b, a)) /\ UNCHANGED <<bill, entry, period>>
    BY <1>6 DEF Save
  <2>2. HasRoom(b, a)
    BY <1>1, RoomFacts
  <2> QED  BY <1>1, <2>1, <2>2, BoardStep
<1>7. CASE Modify(id)
  <2>1. PICK c \in AnotherDuration(id) : LongEnough(c) /\ Set(id, Board(b, c))
    BY <1>7 DEF Modify
  <2>2. a.state = "open" /\ UNCHANGED <<bill, entry, period>>
    BY <1>7 DEF Modify
  <2>3. c \in Asset /\ c.lines = a.lines /\ c.active = a.active /\ c.state = a.state
    BY <1>4
  <2>4. HasRoom(b, c)
    <3>1. c.number > Len(Kept(c.lines)) /\ c.number \in Nat /\ c.lines \in Lines
      BY <2>1, <2>3 DEF LongEnough, Kept, Asset, Lines
    <3>2. Len(Kept(c.lines)) \in Nat
      BY <3>1, KeptFacts, LineFacts
    <3>3. OfNumber(b, c) >= c.number /\ OfNumber(b, c) \in Nat
      BY <3>1 DEF OfNumber
    <3> QED  BY <3>1, <3>2, <3>3 DEF HasRoom
  <2>5. c.state # "close"
    BY <2>2, <2>3
  <2> HIDE DEF a
  <2> QED  BY <2>1, <2>2, <2>3, <2>4, <2>5, BoardStep DEF a
<1> QED  BY <1>3, <1>5, <1>6, <1>7

\* Disposing of an asset.
LEMMA DisposeStep ==
    ASSUME BooksInv, NEW id \in Listed, Dispose(id)
    PROVE  BooksInv'
<1> DEFINE a == The(id)
           b == id[1]
           i == id[2]
           N == Len(entry)
           kept == Kept(a.lines)
           line == [seq |-> Len(kept) + 1, amount |-> Residual(b, a), due |-> period, entry |-> N + 1]
           c == [a EXCEPT !.lines = Append(kept, line), !.number = Len(kept) + 1, !.ends = period]
           x == [state |-> "draft", amount |-> line.amount]
<1>1. /\ b \in Bill /\ a \in Asset /\ a.lines \in Lines /\ AssetOK(b, a) /\ i \in 1..Len(asset[b])
      /\ a = asset[b][i] /\ \A k \in 1..Len(a.lines) : a.lines[k].entry <= N
  BY ListedFacts
<1>2. Agreeing(asset, entry) /\ entry \in Seq(Entry) /\ N \in Nat
  <2>1. Agreeing(asset, entry)
    BY DEF BooksInv
  <2>2. entry \in Seq(Entry)
    BY <2>1 DEF Agreeing
  <2> QED  BY <2>1, <2>2
<1>3. /\ asset' = [asset EXCEPT ![b][i] = c] /\ entry' = Append(entry, x) /\ UNCHANGED <<bill, period>>
      /\ a.state = "open" /\ N < MaxEntries
  BY DEF Dispose, Set, Kept
<1>4. kept \in Lines /\ Len(kept) \in Nat /\ N + 1 \in 1..MaxEntries
  <2>1. kept \in Lines
    BY <1>1, KeptFacts
  <2>2. Len(kept) \in Nat
    BY <2>1, LineFacts
  <2>3. N + 1 \in 1..MaxEntries
    BY <1>2, <1>3, AssetsAssumption
  <2> QED  BY <2>1, <2>2, <2>3
<1>5. /\ Residual(b, a) \in Int /\ Depreciable(b, a) \in Int
      /\ Residual(b, a) = Depreciable(b, a) - EntrySum(a.lines, 1..MaxEntries)
      /\ EntrySum(a.lines, 1..MaxEntries) \in Int
  BY <1>1, ResidualFacts
<1>6. line \in Line /\ line.entry = N + 1 /\ line.amount = Residual(b, a)
  <2>1. period \in Nat
    BY AssetsAssumption DEF BooksInv
  <2>2. N + 1 \in 0..MaxEntries
    BY <1>4
  <2> HIDE DEF a, b, N
  <2> QED  BY <1>4, <1>5, <2>1, <2>2 DEF Line
<1>7. x \in Entry /\ x.amount = Residual(b, a)
  BY <1>5, <1>6 DEF Entry
<1> HIDE DEF a, b, i, line, x
<1>8. Append(kept, line) \in Lines /\ Len(Append(kept, line)) = Len(kept) + 1
  BY <1>4, <1>6, SumAppend
<1>9. /\ c \in Asset /\ c.lines = Append(kept, line) /\ c.state = "open" /\ c.active = a.active
      /\ c.salvage = a.salvage /\ c.number = Len(kept) + 1
  <2> DEFINE n == Len(kept) + 1
             q == Append(kept, line)
  <2>1. n \in Nat \ {0} /\ q \in Lines /\ a \in Asset /\ a.state = "open" /\ period \in Nat
    BY <1>1, <1>3, <1>4, <1>8, AssetsAssumption DEF BooksInv
  <2> HIDE DEF n, q
  <2>2. LET d == [a EXCEPT !.lines = q, !.number = n, !.ends = period]
        IN  /\ d \in Asset /\ d.lines = q /\ d.state = "open" /\ d.active = a.active
            /\ d.salvage = a.salvage /\ d.number = n
    BY ONLY <2>1 DEF Asset, Lines
  <2> QED  BY <2>2 DEF n, q
<1>10. \A E : EntrySum(c.lines, E) = EntrySum(kept, E) + (IF N + 1 \in E THEN Residual(b, a) ELSE 0)
  BY <1>4, <1>6, <1>9, EntryAppend
<1>11. \A E : EntrySum(kept, E) \in Int
  BY <1>4, <1>6, EntryAppend
<1>12. \A E \in SUBSET (1..MaxEntries) : EntrySum(kept, E) = EntrySum(a.lines, E)
  BY <1>1, KeptFacts
<1>13. EntrySum(kept, 0..MaxEntries) = EntrySum(a.lines, 1..MaxEntries)
  BY <1>1, KeptAll
<1>14. \A k \in 1..Len(kept) : kept[k].entry <= N /\ kept[k].entry \in 0..MaxEntries
  <2>1. \A k \in 1..Len(kept) : \E n \in 1..Len(a.lines) : kept[k] = a.lines[n]
    BY <1>1, KeptFacts
  <2> HIDE DEF kept
  <2> QED  BY <1>1, <1>4, <2>1, LineFacts
<1> HIDE DEF c, kept
<1>15. AssetOK(b, c)
  <2>1. Total(c.lines) = EntrySum(c.lines, 0..MaxEntries)
    BY <1>8, <1>9, SumForms
  <2>2. N + 1 \in 0..MaxEntries
    BY <1>4
  <2>3. Total(c.lines) = EntrySum(a.lines, 1..MaxEntries) + Residual(b, a)
    BY <1>10, <1>13, <2>1, <2>2
  <2>4. Total(c.lines) = Depreciable(b, a)
    BY <1>5, <2>3
  <2>5. Len(c.lines) <= OfNumber(b, c)
    <3>1. Len(c.lines) = Len(kept) + 1 /\ Len(kept) \in Nat
      BY <1>4, <1>8, <1>9
    <3> QED  BY <1>9, <3>1 DEF OfNumber
  <2> QED  BY <1>9, <2>4, <2>5 DEF AssetOK, WholeBoard, Depreciable
<1>16. ASSUME NEW e \in 1..N PROVE EntrySum(c.lines, {e}) = EntrySum(asset[b][i].lines, {e})
  <2>1. N + 1 \notin {e} /\ {e} \in SUBSET (1..MaxEntries)
    BY <1>2, <1>3, AssetsAssumption
  <2>2. EntrySum(c.lines, {e}) = EntrySum(kept, {e}) + 0
    BY <1>10, <2>1
  <2> QED  BY <1>1, <1>11, <1>12, <2>1, <2>2
<1>17. x.amount = EntrySum(c.lines, {N + 1})
  <2>1. \A y \in 0..MaxEntries : y <= N => y # N + 1
    BY <1>2
  <2>2. \A k \in 1..Len(kept) : kept[k].entry # N + 1
    BY <1>14, <2>1
  <2>3. EntrySum(kept, {N + 1}) = 0
    BY <1>4, <2>2, NoEntrySum
  <2> QED  BY <1>5, <1>7, <1>10, <2>3
<1>18. ASSUME NEW k \in 1..Len(c.lines) PROVE c.lines[k].entry <= N + 1
  <2>1. CASE k = Len(kept) + 1
    <3>1. c.lines[k] = line
      BY <1>4, <1>6, <1>9, <2>1 DEF Lines
    <3> QED  BY <1>2, <1>6, <3>1
  <2>2. CASE k \in 1..Len(kept)
    <3>1. c.lines[k] = kept[k]
      BY <1>4, <1>6, <1>9, <2>2 DEF Lines
    <3>2. \A y \in 0..MaxEntries : y <= N => y <= N + 1
      BY <1>2
    <3> QED  BY <1>14, <2>2, <3>1, <3>2
  <2> QED  BY <1>4, <1>8, <1>9, <2>1, <2>2
<1> DEFINE g == [asset EXCEPT ![b][i] = c]
<1>19. Agreeing(g, Append(entry, x)) /\ AsActive(asset, g)
  <2>1. c.active = asset[b][i].active
    BY <1>1, <1>9
  <2> HIDE DEF g
  <2>2. Agreeing([asset EXCEPT ![b][i] = c], Append(entry, x)) /\ AsActive(asset, [asset EXCEPT ![b][i] = c])
    BY <1>1, <1>2, <1>3, <1>7, <1>15, <1>16, <1>17, <1>18, <2>1, EntryMade DEF N
  <2> QED  BY <2>2 DEF g
<1>20. asset' = g /\ entry' = Append(entry, x) /\ UNCHANGED <<bill, period>>
  BY <1>3 DEF c, kept, line, x
<1> HIDE DEF g
<1> QED  BY <1>19, <1>20, BooksStep

\* A line that gets a number it has not; the others are as they were.
LinkedTo(l, m, N, M) ==
  /\ m \in Lines /\ Len(m) = Len(l)
  /\ \A k \in 1..Len(l) : /\ m[k].amount = l[k].amount
                          /\ m[k].entry = l[k].entry \/ (l[k].entry = 0 /\ m[k].entry \in (N + 1)..M)

\* It changes no sum over entries there were.
LEMMA LinkedFacts ==
    ASSUME NEW b \in Bill, NEW a, AssetOK(b, a), NEW m, NEW N \in Nat, NEW M \in Nat, N <= M,
           LinkedTo(a.lines, m, N, M), a.state # "open" => \A k \in 1..Len(m) : m[k].entry = a.lines[k].entry,
           \A k \in 1..Len(a.lines) : a.lines[k].entry <= N
    PROVE  LET c == [a EXCEPT !.lines = m]
           IN  /\ AssetOK(b, c) /\ c.active = a.active /\ c.lines = m
               /\ \A e \in 1..N : EntrySum(m, {e}) = EntrySum(a.lines, {e})
               /\ \A k \in 1..Len(m) : m[k].entry <= M
<1> DEFINE c == [a EXCEPT !.lines = m]
           l == a.lines
<1>1. a \in Asset /\ l \in Lines
  BY DEF AssetOK, Asset, Lines
<1>2. /\ m \in Lines /\ Len(m) = Len(l)
      /\ \A k \in 1..Len(l) : /\ m[k].amount = l[k].amount
                              /\ m[k].entry = l[k].entry \/ (l[k].entry = 0 /\ m[k].entry \in (N + 1)..M)
  BY DEF LinkedTo
<1>3. /\ c \in Asset /\ c.lines = m /\ c.state = a.state /\ c.active = a.active /\ c.salvage = a.salvage
      /\ c.number = a.number
  BY <1>1, <1>2 DEF Asset, Lines
<1> HIDE DEF c
<1>4. DOMAIN l = 1..Len(l) /\ DOMAIN m = 1..Len(l)
  BY <1>1, <1>2, LineFacts
<1>4a. \A k \in 1..Len(l) : l[k].entry \in 0..MaxEntries /\ m[k].entry \in 0..MaxEntries
  BY <1>1, <1>2, LineFacts
<1>5. Total(m) = Total(l)
  <2>1. \A n \in 1..Len(l) : Adds(m, DOMAIN m, n) = Adds(l, DOMAIN l, n)
    BY <1>2, <1>4 DEF Adds
  <2> HIDE DEF l
  <2> QED  BY <1>1, <1>2, <2>1, SameSum DEF Total
<1>6. ASSUME a.state # "open" PROVE WithMove(m) = WithMove(l) /\ SumOver(m, WithMove(m)) = SumOver(l, WithMove(l))
  <2>1. WithMove(m) = WithMove(l)
    BY <1>2, <1>4, <1>6 DEF WithMove
  <2>2. \A n \in 1..Len(l) : Adds(m, WithMove(l), n) = Adds(l, WithMove(l), n)
    BY <1>2 DEF Adds
  <2> HIDE DEF l
  <2>3. SumOver(m, WithMove(l)) = SumOver(l, WithMove(l))
    BY <1>1, <1>2, <2>2, SameSum
  <2> QED  BY <2>1, <2>3
<1>7. AssetOK(b, c)
  <2>1. Depreciable(b, c) = Depreciable(b, a)
    BY <1>3 DEF Depreciable
  <2>2. a.state # "open" => Residual(b, c) = Residual(b, a)
    BY <1>3, <1>6, <2>1 DEF Residual
  <2>3. MadeFor(l, 0) = {} => MadeFor(m, 0) = {}
    <3>1. \A y \in (N + 1)..M : y # 0
      OBVIOUS
    <3> QED  BY <1>2, <1>4, <3>1 DEF MadeFor
  <2>4. OfNumber(b, c) = OfNumber(b, a) /\ Len(m) = Len(l)
    BY <1>2, <1>3 DEF OfNumber
  <2> QED  BY <1>3, <1>5, <1>6, <2>1, <2>2, <2>3, <2>4 DEF AssetOK, WholeBoard
<1>8. ASSUME NEW e \in 1..N PROVE EntrySum(m, {e}) = EntrySum(l, {e})
  <2>1. \A k \in 1..Len(l) : m[k].entry = e <=> l[k].entry = e
    <3>1. \A y \in (N + 1)..M : y # e
      OBVIOUS
    <3>2. 0 # e
      OBVIOUS
    <3> QED  BY <1>2, <3>1, <3>2
  <2>2. \A n \in 1..Len(l) : Adds(m, Of(m, {e}), n) = Adds(l, Of(l, {e}), n)
    BY <1>2, <1>4, <2>1 DEF Adds, Of
  <2> HIDE DEF l
  <2> QED  BY <1>1, <1>2, <2>2, SameSum DEF EntrySum
<1>9. ASSUME NEW k \in 1..Len(m) PROVE m[k].entry <= M
  <2>1. \A y \in 0..MaxEntries : y <= N => y <= M
    BY AssetsAssumption
  <2>2. \A y \in (N + 1)..M : y <= M
    OBVIOUS
  <2> QED  BY <1>2, <1>4a, <2>1, <2>2
<1> QED  BY <1>3, <1>7, <1>8, <1>9 DEF c

\* Booking a line from the board.
LEMMA BookLineStep ==
    ASSUME BooksInv, NEW id \in Listed, NEW k \in DOMAIN The(id).lines, BookLine(id, k)
    PROVE  BooksInv'
<1> DEFINE a == The(id)
           b == id[1]
           i == id[2]
           N == Len(entry)
           l == a.lines
           m == [l EXCEPT ![k] = WithNumber(@, N + 1)]
           c == [a EXCEPT !.lines = m]
           g == [asset EXCEPT ![b][i] = c]
           post == Category[b].opens
           x == [state |-> IF post THEN "posted" ELSE "draft", amount |-> l[k].amount]
<1>1. /\ b \in Bill /\ a \in Asset /\ l \in Lines /\ AssetOK(b, a) /\ i \in 1..Len(asset[b])
      /\ a = asset[b][i] /\ \A n \in 1..Len(l) : l[n].entry <= N
  BY ListedFacts
<1>2. Agreeing(asset, entry) /\ entry \in Seq(Entry) /\ N \in Nat
  <2>1. Agreeing(asset, entry)
    BY DEF BooksInv
  <2>2. entry \in Seq(Entry)
    BY <2>1 DEF Agreeing
  <2> QED  BY <2>1, <2>2
<1>3. k \in 1..Len(l) /\ l[k] \in Line /\ l[k].amount \in Int /\ Len(l) \in Nat /\ DOMAIN l = 1..Len(l)
  BY <1>1, LineFacts
<1>4. WithEntry(a, k, N + 1) = c
  BY <1>1, <1>3 DEF WithEntry, Asset
<1>5. /\ asset' = (IF post THEN Posted(g, {N + 1}) ELSE g) /\ entry' = Append(entry, x)
      /\ UNCHANGED <<bill, period>> /\ a.state = "open" /\ l[k].entry = 0 /\ N + 1 <= MaxEntries
  <2> HIDE DEF c
  <2> QED  BY <1>4 DEF BookLine
<1>6. N + 1 \in 1..MaxEntries /\ N + 1 \in 0..MaxEntries /\ N < MaxEntries /\ N + 1 \in (N + 1)..(N + 1)
  BY <1>2, <1>5, AssetsAssumption
<1>7. /\ WithNumber(l[k], N + 1) \in Line /\ WithNumber(l[k], N + 1).amount = l[k].amount
      /\ WithNumber(l[k], N + 1).entry = N + 1
  BY <1>3, <1>6 DEF WithNumber, Line
<1> HIDE DEF a, b, i, N
<1>8. /\ m \in Lines /\ Len(m) = Len(l) /\ m[k] = WithNumber(l[k], N + 1)
      /\ \A n \in 1..Len(l) : n # k => m[n] = l[n]
  BY <1>1, <1>3, <1>7, ExceptSeq DEF Lines
<1> HIDE DEF l, m
<1>9. LinkedTo(l, m, N, N + 1)
  <2>1. ASSUME NEW n \in 1..Len(l)
        PROVE  /\ m[n].amount = l[n].amount
               /\ m[n].entry = l[n].entry \/ (l[n].entry = 0 /\ m[n].entry \in (N + 1)..(N + 1))
    <3>1. CASE n = k
      BY <1>5, <1>6, <1>7, <1>8, <3>1
    <3>2. CASE n # k
      BY <1>8, <3>2
    <3> QED  BY <3>1, <3>2
  <2> QED  BY <1>8, <2>1 DEF LinkedTo
<1>10. /\ AssetOK(b, c) /\ c.active = a.active /\ c.lines = m
       /\ \A e \in 1..N : EntrySum(m, {e}) = EntrySum(l, {e})
       /\ \A n \in 1..Len(m) : m[n].entry <= N + 1
  <2>1. N + 1 \in Nat /\ N <= N + 1
    BY <1>2
  <2>2. a.state = "open"
    BY <1>5
  <2>3. LinkedTo(a.lines, m, N, N + 1) /\ \A n \in 1..Len(a.lines) : a.lines[n].entry <= N
    BY <1>1, <1>9 DEF l
  <2> DEFINE M == N + 1
             d == [a EXCEPT !.lines = m]
  <2>4. M \in Nat /\ N <= M /\ LinkedTo(a.lines, m, N, M)
    BY <2>1, <2>3
  <2> HIDE DEF M, d
  <2>5. /\ AssetOK(b, d) /\ d.active = a.active /\ d.lines = m
        /\ \A e \in 1..N : EntrySum(m, {e}) = EntrySum(a.lines, {e})
        /\ \A n \in 1..Len(m) : m[n].entry <= M
    <3>1. a.state # "open" => \A n \in 1..Len(m) : m[n].entry = a.lines[n].entry
      BY <2>2
    <3>2. b \in Bill /\ AssetOK(b, a) /\ N \in Nat /\ \A n \in 1..Len(a.lines) : a.lines[n].entry <= N
      BY <1>1, <1>2, <2>3
    <3> QED  BY ONLY <2>4, <3>1, <3>2, LinkedFacts DEF d
  <2> QED  BY <2>5 DEF l, M, d
<1>11. EntrySum(m, {N + 1}) = x.amount
  <2>1. \A y \in 0..MaxEntries : y <= N => y # N + 1
    BY <1>2
  <2>2. \A n \in 1..Len(l) : l[n].entry \in 0..MaxEntries
    BY <1>1, LineFacts
  <2>3. DOMAIN m = 1..Len(l)
    BY <1>8, LineFacts
  <2>4. ASSUME NEW n \in 1..Len(m), n # k PROVE Adds(m, Of(m, {N + 1}), n) = 0
    BY <1>1, <1>8, <2>1, <2>2, <2>4 DEF Adds, Of
  <2>5. SumOver(m, Of(m, {N + 1})) = Adds(m, Of(m, {N + 1}), k)
    BY <1>3, <1>8, <2>4, OneAdds
  <2>6. Adds(m, Of(m, {N + 1}), k) = l[k].amount
    BY <1>3, <1>7, <1>8, <2>3 DEF Adds, Of
  <2> QED  BY <2>5, <2>6 DEF EntrySum
<1>12. x \in Entry
  BY <1>3 DEF Entry
<1> HIDE DEF c, x, g, post
<1>13. Agreeing(g, Append(entry, x)) /\ AsActive(asset, g)
  <2>1. c.active = asset[b][i].active /\ \A e \in 1..N : EntrySum(c.lines, {e}) = EntrySum(asset[b][i].lines, {e})
    BY <1>1, <1>10 DEF l
  <2>2. x.amount = EntrySum(c.lines, {N + 1}) /\ \A n \in 1..Len(c.lines) : c.lines[n].entry <= N + 1
    BY <1>10, <1>11
  <2>3. Agreeing([asset EXCEPT ![b][i] = c], Append(entry, x)) /\ AsActive(asset, [asset EXCEPT ![b][i] = c])
    BY <1>1, <1>2, <1>6, <1>10, <1>12, <2>1, <2>2, EntryMade DEF N
  <2> QED  BY <2>3 DEF g
<1>14. Agreeing(Posted(g, {N + 1}), Append(entry, x)) /\ AsActive(g, Posted(g, {N + 1}))
  BY <1>13, PostedAgrees
<1>15. AsActive(asset, Posted(g, {N + 1}))
  BY <1>13, <1>14 DEF AsActive
<1> QED  BY <1>5, <1>13, <1>14, <1>15, BooksStep

\* Nothing has an entry in no lines.
LEMMA NoLines == <<>> \in Lines /\ Len(<<>>) = 0 /\ \A e : EntrySum(<<>>, {e}) = 0
<1>1. <<>> \in Lines /\ Len(<<>>) = 0
  BY DEF Lines
<1>2. ASSUME NEW e PROVE EntrySum(<<>>, {e}) = 0
  <2>1. \A n \in 1..Len(<<>>) : <<>>[n].entry # e
    BY <1>1
  <2> QED  BY <1>1, <2>1, NoEntrySum
<1> QED  BY <1>1, <1>2

\* Posting a bill adds an asset whose board is new.
LEMMA PostBillStep ==
    ASSUME BooksInv, NEW b \in Bill, PostBill(b)
    PROVE  BooksInv'
<1> DEFINE new == [state |-> IF Category[b].opens THEN "open" ELSE "draft", active |-> TRUE,
                   salvage |-> 0, number |-> Category[b].number, ends |-> Category[b].ends, lines |-> <<>>]
           d == Board(b, new)
           g == [asset EXCEPT ![b] = Append(@, d)]
           n == Len(asset[b])
<1>1. /\ bill[b] = "draft" /\ n < MaxCopies[b] /\ bill' = [bill EXCEPT ![b] = "posted"]
      /\ asset' = g /\ UNCHANGED <<entry, period>>
  BY DEF PostBill
<1>2. Agreeing(asset, entry) /\ AssetsOK(asset, Len(entry)) /\ entry \in Seq(Entry) /\ Len(entry) <= MaxEntries
  BY DEF BooksInv, Agreeing
<1>3. Len(entry) \in Nat /\ MaxCopies[b] \in Nat
  BY <1>2, AssetsAssumption
<1>4. n \in Nat /\ asset[b] \in Seq(Asset) /\ asset \in [Bill -> Seq(Asset)]
  <2>1. asset \in [Bill -> Seq(Asset)]
    BY <1>2 DEF AssetsOK
  <2> QED  BY <2>1
<1>5. /\ new \in Asset /\ new.lines = <<>> /\ new.active = TRUE /\ new.state \in {"draft", "open"}
      /\ new.number \in Nat \ {0}
  <2>1. Category[b].number \in Nat \ {0} /\ Category[b].ends \in Nat /\ <<>> \in Seq(Line)
    BY AssetsAssumption DEF CategoryFields
  <2> QED  BY <2>1 DEF Asset
<1> HIDE DEF new
<1>6. Kept(new.lines) = <<>> /\ WithMove(new.lines) = {}
  <2>1. WithMove(<<>>) = {}
    BY DEF WithMove
  <2> QED  BY <1>5, <2>1, NoLines, KeptFacts
<1>7. HasRoom(b, new)
  BY <1>5, <1>6, RoomFacts
<1>8. /\ AssetOK(b, d) /\ NoNewEntries(d.lines, new.lines) /\ d.active = TRUE
      /\ \A e \in 1..MaxEntries : EntrySum(d.lines, {e}) = EntrySum(new.lines, {e})
  BY <1>5, <1>6, <1>7, BoardOK
<1> HIDE DEF d
<1>9. d \in Asset /\ \A k \in 1..Len(d.lines) : d.lines[k].entry = 0
  BY <1>5, <1>8, NoLines DEF AssetOK, NoNewEntries
<1>10. \A e \in 1..MaxEntries : EntrySum(d.lines, {e}) = 0
  BY <1>5, <1>8, NoLines
<1>11. /\ g \in [Bill -> Seq(Asset)] /\ \A c \in Bill : c # b => g[c] = asset[c]
       /\ g[b] = Append(asset[b], d)
  <2>1. Append(asset[b], d) \in Seq(Asset)
    BY <1>4, <1>9
  <2> QED  BY <1>4, <2>1
<1>12. /\ Len(g[b]) = n + 1 /\ g[b][n + 1] = d /\ \A i \in 1..n : g[b][i] = asset[b][i]
  BY <1>4, <1>9, <1>11
<1> HIDE DEF g, n
<1>13. ASSUME NEW c \in Bill
       PROVE  /\ Len(g[c]) <= MaxCopies[c]
              /\ \A i \in 1..Len(g[c]) : /\ AssetOK(c, g[c][i])
                                         /\ \A k \in 1..Len(g[c][i].lines) : g[c][i].lines[k].entry <= Len(entry)
  <2>1. CASE c # b
    BY <1>2, <1>11, <2>1 DEF AssetsOK
  <2>2. CASE c = b
    <3>1. n + 1 <= MaxCopies[b]
      BY <1>1, <1>3, <1>4
    <3>2. ASSUME NEW i \in 1..(n + 1)
          PROVE  AssetOK(b, g[b][i]) /\ \A k \in 1..Len(g[b][i].lines) : g[b][i].lines[k].entry <= Len(entry)
      <4>1. CASE i = n + 1
        BY <1>3, <1>8, <1>9, <1>12, <4>1
      <4>2. CASE i \in 1..n
        BY <1>2, <1>12, <4>2 DEF AssetsOK, n
      <4>3. n \in Nat /\ i \in 1..(n + 1)
        BY <1>4
      <4>4. i = n + 1 \/ i \in 1..n
        BY ONLY <4>3
      <4> QED  BY ONLY <4>1, <4>2, <4>4
    <3> QED  BY <1>12, <2>2, <3>1, <3>2
  <2> QED  BY <2>1, <2>2
<1>14. AssetsOK(g, Len(entry))
  BY <1>11, <1>13 DEF AssetsOK
<1>15. ASSUME NEW id \in AssetIds, NEW e \in 1..Len(entry) PROVE ShareIn(g, id, e) = ShareIn(asset, id, e)
  <2>1. /\ id[1] \in Bill /\ DOMAIN g[id[1]] = 1..Len(g[id[1]])
        /\ DOMAIN asset[id[1]] = 1..Len(asset[id[1]])
    BY <1>2, <1>14, IdFacts
  <2>2. CASE id[1] # b
    <3>1. g[id[1]] = asset[id[1]]
      BY <1>11, <2>1, <2>2
    <3> QED  BY <3>1 DEF ShareIn
  <2>3. CASE id[1] = b /\ id[2] \in 1..n
    <3>1. id[2] \in 1..Len(g[b])
      BY <1>4, <1>12, <2>3
    <3> QED  BY <1>12, <2>1, <2>3, <3>1 DEF ShareIn, n
  <2>4. CASE id[1] = b /\ id[2] \notin 1..n
    <3>1. ShareIn(asset, id, e) = 0
      BY <2>1, <2>4 DEF ShareIn, n
    <3>2. e \in 1..MaxEntries
      BY <1>2, <1>3, AssetsAssumption
    <3>3. id[2] \in 1..Len(g[b]) => id[2] = n + 1
      BY <1>4, <1>12, <2>4
    <3>4. ShareIn(g, id, e) = 0
      BY <1>10, <1>12, <2>1, <2>4, <3>2, <3>3 DEF ShareIn
    <3> QED  BY <3>1, <3>4
  <2> QED  BY <2>2, <2>3, <2>4
<1>16. Agreeing(g, entry)
  <2>1. Len(entry) <= Len(entry) /\ \A e \in 1..Len(entry) : ~(e > Len(entry))
    BY <1>3
  <2> QED  BY <1>2, <1>14, <1>15, <2>1, StillAgreeing
<1>17. OneActive(bill', g)
  <2>0. OneActive(bill, asset) /\ bill \in [Bill -> {"draft", "posted"}]
    BY DEF BooksInv
  <2>1. ASSUME NEW c \in Bill, NEW i \in 1..Len(g[c]), g[c][i].active
        PROVE  bill'[c] = "posted" /\ \A j \in 1..Len(g[c]) : g[c][j].active => i = j
    <3>1. CASE c # b
      <4>1. g[c] = asset[c] /\ bill'[c] = bill[c]
        BY <1>1, <1>11, <2>0, <3>1
      <4> QED  BY <2>0, <2>1, <4>1 DEF OneActive
    <3>2. CASE c = b
      <4>1. \A j \in 1..n : ~asset[b][j].active
        BY <1>1, <2>0 DEF OneActive, n
      <4>2. \A j \in 1..Len(g[b]) : g[b][j].active => j = n + 1
        <5>1. \A j \in 1..Len(g[b]) : j # n + 1 => j \in 1..n
          BY <1>4, <1>12
        <5> QED  BY <1>12, <4>1, <5>1
      <4>3. bill'[b] = "posted"
        BY <1>1, <2>0
      <4> QED  BY <2>1, <3>2, <4>2, <4>3
    <3> QED  BY <3>1, <3>2
  <2> QED  BY <2>1 DEF OneActive
<1>18. bill' \in [Bill -> {"draft", "posted"}] /\ period' \in 0..EndOfBooks
  BY <1>1 DEF BooksInv
<1> QED  BY <1>1, <1>16, <1>17, <1>18 DEF BooksInv

\* Resetting a bill to draft puts its assets away.
LEMMA ResetBillStep ==
    ASSUME BooksInv, NEW b \in Bill, ResetBill(b)
    PROVE  BooksInv'
<1> DEFINE h == Archived(b)
           g == [asset EXCEPT ![b] = h]
           n == Len(asset[b])
<1>1. /\ bill' = [bill EXCEPT ![b] = "draft"] /\ asset' = g /\ UNCHANGED <<entry, period>>
      /\ \A i \in DOMAIN asset[b] : asset[b][i].active => asset[b][i].state = "draft"
  BY DEF ResetBill
<1>2. Agreeing(asset, entry) /\ AssetsOK(asset, Len(entry)) /\ entry \in Seq(Entry) /\ Len(entry) <= MaxEntries
  BY DEF BooksInv, Agreeing
<1>3. Len(entry) \in Nat
  BY <1>2
<1>4. n \in Nat /\ asset[b] \in Seq(Asset) /\ asset \in [Bill -> Seq(Asset)] /\ DOMAIN asset[b] = 1..n
  <2>1. asset \in [Bill -> Seq(Asset)]
    BY <1>2 DEF AssetsOK
  <2> QED  BY <2>1
<1>5. ASSUME NEW i \in 1..n
      PROVE  /\ AssetOK(b, h[i]) /\ ~h[i].active /\ NoNewEntries(h[i].lines, asset[b][i].lines)
             /\ \A e \in 1..MaxEntries : EntrySum(h[i].lines, {e}) = EntrySum(asset[b][i].lines, {e})
  <2> DEFINE a == asset[b][i]
             c == [a EXCEPT !.active = FALSE]
  <2>1. a \in Asset /\ AssetOK(b, a)
    BY <1>2, IdFacts
  <2>2. h[i] = IF a.active THEN Board(b, c) ELSE a
    BY <1>4 DEF Archived
  <2>3. CASE a.active
    <3>1. a.state = "draft" /\ WithMove(a.lines) = {}
      BY <1>1, <1>4, <2>1, <2>3 DEF AssetOK
    <3>2. c \in Asset /\ c.lines = a.lines /\ c.state = a.state /\ c.active = FALSE
      BY <2>1 DEF Asset
    <3> HIDE DEF c, h, a
    <3>0. HasRoom(b, c)
      BY <3>1, <3>2, RoomFacts
    <3>3. /\ AssetOK(b, Board(b, c)) /\ NoNewEntries(Board(b, c).lines, c.lines)
          /\ \A e \in 1..MaxEntries : EntrySum(Board(b, c).lines, {e}) = EntrySum(c.lines, {e})
          /\ Board(b, c).active = c.active
      BY <3>0, <3>1, <3>2, BoardOK
    <3>4. h[i] = Board(b, c)
      BY <2>2, <2>3
    <3> QED  BY <3>2, <3>3, <3>4 DEF a
  <2>4. CASE ~a.active
    <3>1. h[i] = a
      BY <2>2, <2>4
    <3>2. NoNewEntries(a.lines, a.lines)
      BY DEF NoNewEntries
    <3> HIDE DEF h
    <3> QED  BY <2>1, <2>4, <3>1, <3>2
  <2> QED  BY <2>3, <2>4
<1>6. h \in Seq(Asset) /\ Len(h) = n /\ DOMAIN h = 1..n
  <2>1. \A i \in 1..n : h[i] \in Asset
    BY <1>5 DEF AssetOK
  <2>2. h = [i \in 1..n |-> h[i]]
    BY <1>4 DEF Archived
  <2> HIDE DEF h, n
  <2>3. h \in [1..n -> Asset]
    BY <2>1, <2>2
  <2>4. h \in Seq(Asset)
    BY <1>4, <2>3
  <2> QED  BY <1>4, <2>3, <2>4
<1> HIDE DEF h
<1>7. /\ g \in [Bill -> Seq(Asset)] /\ (\A c \in Bill : c # b => g[c] = asset[c]) /\ g[b] = h
  BY <1>4, <1>6
<1> HIDE DEF g, n
<1>8. ASSUME NEW i \in 1..n, NEW k \in 1..Len(h[i].lines) PROVE h[i].lines[k].entry <= Len(entry)
  <2>1. CASE h[i].lines[k].entry = 0
    BY <1>3, <2>1
  <2>2. CASE h[i].lines[k].entry # 0
    BY <1>2, <1>5, <2>2 DEF NoNewEntries, AssetsOK, n
  <2> QED  BY <2>1, <2>2
<1>9. AssetsOK(g, Len(entry))
  <2>1. ASSUME NEW c \in Bill
        PROVE  /\ Len(g[c]) <= MaxCopies[c]
               /\ \A i \in 1..Len(g[c]) : /\ AssetOK(c, g[c][i])
                                          /\ \A k \in 1..Len(g[c][i].lines) : g[c][i].lines[k].entry <= Len(entry)
    <3>1. CASE c # b
      BY <1>2, <1>7, <3>1 DEF AssetsOK
    <3>2. CASE c = b
      <4>1. n <= MaxCopies[b]
        BY <1>2 DEF AssetsOK, n
      <4> QED  BY <1>5, <1>6, <1>7, <1>8, <3>2, <4>1
    <3> QED  BY <3>1, <3>2
  <2> QED  BY <1>7, <2>1 DEF AssetsOK
<1>10. ASSUME NEW id \in AssetIds, NEW e \in 1..Len(entry) PROVE ShareIn(g, id, e) = ShareIn(asset, id, e)
  <2>1. CASE id[1] # b
    <3>1. g[id[1]] = asset[id[1]]
      BY <1>2, <1>7, <2>1, IdFacts
    <3> QED  BY <3>1 DEF ShareIn
  <2>2. CASE id[1] = b
    <3>1. e \in 1..MaxEntries
      BY <1>2, <1>3, AssetsAssumption
    <3>2. id[2] \in 1..n => EntrySum(h[id[2]].lines, {e}) = EntrySum(asset[b][id[2]].lines, {e})
      BY <1>5, <3>1
    <3> QED  BY <1>4, <1>6, <1>7, <2>2, <3>2 DEF ShareIn
  <2> QED  BY <2>1, <2>2
<1>11. Agreeing(g, entry)
  <2>1. Len(entry) <= Len(entry) /\ \A e \in 1..Len(entry) : ~(e > Len(entry))
    BY <1>3
  <2> QED  BY <1>2, <1>9, <1>10, <2>1, StillAgreeing
<1>12. OneActive(bill', g)
  <2>0. OneActive(bill, asset) /\ bill \in [Bill -> {"draft", "posted"}]
    BY DEF BooksInv
  <2>1. ASSUME NEW c \in Bill, NEW i \in 1..Len(g[c]), g[c][i].active
        PROVE  bill'[c] = "posted" /\ \A j \in 1..Len(g[c]) : g[c][j].active => i = j
    <3>1. c # b
      BY <1>5, <1>6, <1>7, <2>1
    <3>2. g[c] = asset[c] /\ bill'[c] = bill[c]
      BY <1>1, <1>7, <2>0, <3>1
    <3> QED  BY <2>0, <2>1, <3>2 DEF OneActive
  <2> QED  BY <2>1 DEF OneActive
<1>13. bill' \in [Bill -> {"draft", "posted"}] /\ period' \in 0..EndOfBooks
  BY <1>1 DEF BooksInv
<1> QED  BY <1>1, <1>11, <1>12, <1>13 DEF BooksInv

\* Entries change their states, not their amounts.
LEMMA Restated ==
    ASSUME NEW f, NEW es, Agreeing(f, es), NEW e \in DOMAIN es, NEW s \in {"draft", "posted", "cancel"}
    PROVE  Agreeing(f, [es EXCEPT ![e].state = s])
<1> DEFINE x == [es[e] EXCEPT !.state = s]
           fs == [es EXCEPT ![e] = x]
<1>1. es \in Seq(Entry) /\ Len(es) <= MaxEntries /\ AssetsOK(f, Len(es))
  BY DEF Agreeing
<1>2. Len(es) \in Nat /\ e \in 1..Len(es) /\ es[e] \in Entry
  BY <1>1
<1>3. x \in Entry /\ x.amount = es[e].amount
  BY <1>2 DEF Entry
<1>4. fs = [es EXCEPT ![e].state = s]
  OBVIOUS
<1> HIDE DEF x
<1>5. /\ fs \in Seq(Entry) /\ Len(fs) = Len(es) /\ fs[e] = x
      /\ \A d \in 1..Len(es) : d # e => fs[d] = es[d]
  BY <1>1, <1>2, <1>3, ExceptSeq
<1> HIDE DEF fs
<1>6. \A d \in 1..Len(es) : fs[d].amount = es[d].amount
  BY <1>3, <1>5
<1>7. Agreeing(f, fs)
  BY <1>1, <1>5, <1>6 DEF Agreeing
<1> QED  BY <1>4, <1>7

\* Steps of the accountant.
LEMMA EntrySteps ==
    ASSUME BooksInv, NEW e \in DOMAIN entry, PostEntry(e) \/ UnpostEntry(e) \/ CancelEntry(e)
    PROVE  BooksInv'
<1>1. Agreeing(asset, entry)
  BY DEF BooksInv
<1>2. AsActive(asset, asset)
  BY DEF AsActive
<1>3. CASE PostEntry(e)
  <2>1. /\ entry' = [entry EXCEPT ![e].state = "posted"] /\ asset' = Posted(asset, {e})
        /\ UNCHANGED <<bill, period>>
    BY <1>3 DEF PostEntry
  <2>2. Agreeing(asset, entry')
    BY <1>1, <2>1, Restated
  <2>3. Agreeing(asset', entry') /\ AsActive(asset, asset')
    BY <2>1, <2>2, PostedAgrees
  <2> QED  BY <2>1, <2>3, BooksStep
<1>4. CASE UnpostEntry(e) \/ CancelEntry(e)
  <2>1. PICK s \in {"draft", "cancel"} : entry' = [entry EXCEPT ![e].state = s]
    BY <1>4 DEF UnpostEntry, CancelEntry
  <2>2. asset' = asset /\ UNCHANGED <<bill, period>>
    BY <1>4 DEF UnpostEntry, CancelEntry
  <2>3. Agreeing(asset, entry')
    BY <1>1, <2>1, Restated
  <2> QED  BY <1>2, <2>2, <2>3, BooksStep
<1> QED  BY <1>3, <1>4

\* A finite set as a sequence: each of its elements once.
SeqFor(q, S) ==
  /\ q \in Seq(S) /\ Len(q) \in Nat /\ DOMAIN q = 1..Len(q)
  /\ \A k \in 1..Len(q) : q[k] \in S /\ \A j \in 1..Len(q) : q[j] = q[k] => j = k
  /\ \A x \in S : \E k \in 1..Len(q) : q[k] = x
LEMMA SetToSeqFacts ==
    ASSUME NEW S, IsFiniteSet(S)
    PROVE  SeqFor(SetToSeq(S), S)
<1> DEFINE n == Cardinality(S)
           q == SetToSeq(S)
<1>1. n \in Nat /\ ExistsBijection(1..n, S)
  BY FS_CardinalityType
<1>2. \E f \in [1..n -> S] : IsInjective(f)
  BY <1>1 DEF ExistsBijection, Bijection, Injection
<1>3. q \in [1..n -> S] /\ IsInjective(q)
  BY <1>2 DEF SetToSeq
<1>4. q \in Injection(1..n, S)
  BY <1>3 DEF Injection
<1>5. Cardinality(1..n) = n
  BY <1>1, FS_Interval
<1>6. q \in Surjection(1..n, S)
  <2> HIDE DEF q
  <2> QED  BY <1>4, <1>5, FS_Injection
<1>7. \A x \in S : \E k \in 1..n : q[k] = x
  BY <1>6 DEF Surjection
<1> HIDE DEF q, n
<1>8. q \in Seq(S) /\ Len(q) = n /\ DOMAIN q = 1..n
  BY <1>1, <1>3
<1>9. \A k \in 1..n : q[k] \in S /\ \A j \in 1..n : q[j] = q[k] => j = k
  BY <1>3, <1>8 DEF IsInjective
<1> QED  BY <1>1, <1>7, <1>8, <1>9 DEF SeqFor, q

\* The lines the cron books are finitely many, lines of open assets that have no entry.
LEMMA DueFacts ==
    ASSUME BooksInv, NEW grouped
    PROVE  /\ IsFiniteSet(Due(grouped))
           /\ \A l \in Due(grouped) :
                /\ l = <<l[1], l[2]>> /\ l[1] \in Listed /\ The(l[1]).state = "open"
                /\ Category[l[1][1]].grouped = grouped
                /\ l[2] \in 1..Len(The(l[1]).lines) /\ The(l[1]).lines[l[2]].entry = 0
<1> DEFINE X == {i \in Listed : The(i).state = "open" /\ Category[i[1]].grouped = grouped}
           lot == [id \in X |-> {id} \X DueOf(id)]
           T == {lot[id] : id \in X}
<1>1. ASSUME NEW id \in X
      PROVE  /\ IsFiniteSet(lot[id])
             /\ \A k \in DueOf(id) : k \in 1..Len(The(id).lines) /\ The(id).lines[k].entry = 0
  <2>1. The(id).lines \in Lines
    BY ListedFacts
  <2>2. Len(The(id).lines) \in Nat /\ DOMAIN The(id).lines = 1..Len(The(id).lines)
    BY <2>1, LineFacts
  <2>3. \A k \in DueOf(id) : k \in 1..Len(The(id).lines) /\ The(id).lines[k].entry = 0
    BY <2>2 DEF DueOf
  <2>4. IsFiniteSet(1..Len(The(id).lines))
    <3> DEFINE n == Len(The(id).lines)
    <3>1. 1 \in Int /\ n \in Int
      BY <2>2
    <3> HIDE DEF n
    <3>2. IsFiniteSet(1..n)
      BY ONLY <3>1, FS_Interval
    <3> QED  BY ONLY <3>2 DEF n
  <2>5. IsFiniteSet(DueOf(id))
    BY <2>3, <2>4, FS_Subset
  <2>6. IsFiniteSet({id})
    BY FS_Singleton
  <2>7. IsFiniteSet({id} \X DueOf(id))
    BY <2>5, <2>6, FS_Product
  <2> QED  BY <2>3, <2>7
<1>2. IsFiniteSet(X)
  <2>1. X \in SUBSET AssetIds
    BY DEF Listed, Known
  <2> HIDE DEF X
  <2> QED  BY <2>1, IdsFinite, FS_Subset
<1>3. UNION T = Due(grouped)
  BY DEF Due
<1>4. IsFiniteSet(UNION T)
  <2> HIDE DEF X, lot
  <2>1. IsFiniteSet(T) /\ \A x \in T : IsFiniteSet(x)
    BY <1>1, <1>2, ImageFinite
  <2> HIDE DEF T
  <2> QED  BY <2>1, FS_UNION
<1>5. ASSUME NEW l \in Due(grouped)
      PROVE  \E id \in X : \E k \in DueOf(id) : l = <<id, k>>
  BY DEF Due
<1>6. ASSUME NEW l \in Due(grouped)
      PROVE  /\ l = <<l[1], l[2]>> /\ l[1] \in Listed /\ The(l[1]).state = "open"
             /\ Category[l[1][1]].grouped = grouped
             /\ l[2] \in 1..Len(The(l[1]).lines) /\ The(l[1]).lines[l[2]].entry = 0
  <2>0. PICK id \in X : \E k \in DueOf(id) : l = <<id, k>>
    BY <1>5
  <2>1. PICK k \in DueOf(id) : l = <<id, k>>
    BY <2>0
  <2>2. l[1] = id /\ l[2] = k /\ l = <<l[1], l[2]>>
    BY <2>1
  <2>3. id \in Listed /\ The(id).state = "open" /\ Category[id[1]].grouped = grouped
    BY <2>1
  <2>4. k \in 1..Len(The(id).lines) /\ The(id).lines[k].entry = 0
    BY <1>1, <2>1
  <2> HIDE DEF X
  <2> QED  BY <2>2, <2>3, <2>4
<1> QED  BY <1>3, <1>4, <1>6

\* The lines of an asset after some have got their number.
Relinked(b, i, l, number) ==
  [k \in DOMAIN l |-> IF <<<<b, i>>, k>> \in DOMAIN number THEN WithNumber(l[k], number[<<<<b, i>>, k>>]) ELSE l[k]]

\* Numbers are for lines that have none, and new; the lines that get them have them.
NewNumbers(b, i, l, number, N, M) ==
  \A k \in 1..Len(l) : <<<<b, i>>, k>> \in DOMAIN number =>
    l[k].entry = 0 /\ number[<<<<b, i>>, k>>] \in (N + 1)..M
HaveNumbers(b, i, l, number, m) ==
  \A k \in 1..Len(l) :
    m[k].entry = IF <<<<b, i>>, k>> \in DOMAIN number THEN number[<<<<b, i>>, k>>] ELSE l[k].entry

\* So it is of the lines of an asset.
LEMMA RelinkedFacts ==
    ASSUME NEW b, NEW i, NEW l \in Lines, NEW number, NEW N \in Nat, NEW M \in Nat, M <= MaxEntries, N <= M,
           NewNumbers(b, i, l, number, N, M)
    PROVE  /\ LinkedTo(l, Relinked(b, i, l, number), N, M)
           /\ HaveNumbers(b, i, l, number, Relinked(b, i, l, number))
<1> DEFINE m == Relinked(b, i, l, number)
<1>1. Len(l) \in Nat /\ DOMAIN l = 1..Len(l) /\ \A k \in 1..Len(l) : l[k] \in Line
  BY LineFacts
<1>2. ASSUME NEW k \in 1..Len(l)
      PROVE  /\ m[k] \in Line /\ m[k].amount = l[k].amount
             /\ m[k].entry = IF <<<<b, i>>, k>> \in DOMAIN number THEN number[<<<<b, i>>, k>>] ELSE l[k].entry
  <2> DEFINE at == <<<<b, i>>, k>>
             e == number[at]
  <2>1. m[k] = IF at \in DOMAIN number THEN WithNumber(l[k], e) ELSE l[k]
    BY <1>1 DEF Relinked
  <2>2. CASE at \in DOMAIN number
    <3>1. e \in (N + 1)..M
      BY <2>2 DEF NewNumbers
    <3>2. e \in 0..MaxEntries
      BY <3>1, AssetsAssumption
    <3> HIDE DEF e, m
    <3>3. /\ WithNumber(l[k], e) \in Line /\ WithNumber(l[k], e).amount = l[k].amount
          /\ WithNumber(l[k], e).entry = e
      BY <1>1, <3>2 DEF WithNumber, Line
    <3> QED  BY <2>1, <2>2, <3>3 DEF e
  <2>3. CASE at \notin DOMAIN number
    <3> HIDE DEF m
    <3> QED  BY <1>1, <2>1, <2>3
  <2> QED  BY <2>2, <2>3
<1>3. m \in Lines /\ Len(m) = Len(l)
  <2>1. m = [k \in 1..Len(l) |-> m[k]]
    BY <1>1 DEF Relinked
  <2> HIDE DEF m
  <2>2. m \in [1..Len(l) -> Line]
    BY <1>2, <2>1
  <2> QED  BY <1>1, <2>2 DEF Lines
<1> HIDE DEF m
<1>4. LinkedTo(l, m, N, M)
  <2>1. ASSUME NEW k \in 1..Len(l), <<<<b, i>>, k>> \in DOMAIN number
        PROVE  l[k].entry = 0 /\ number[<<<<b, i>>, k>>] \in (N + 1)..M
    BY <2>1 DEF NewNumbers
  <2> QED  BY <1>2, <1>3, <2>1 DEF LinkedTo
<1>5. HaveNumbers(b, i, l, number, m)
  BY <1>2 DEF HaveNumbers
<1> QED  BY <1>4, <1>5 DEF m

\* The cron books all lines that are due.
LEMMA CronStep ==
    ASSUME BooksInv, Cron
    PROVE  BooksInv'
<1> DEFINE N == Len(entry)
           single == Due(FALSE)
           together == Due(TRUE)
           own == SetToSeq(single)
           K == Len(own)
           shared == N + K + 1
           number == [l \in single \union together |->
                        IF l \in together THEN shared ELSE N + CHOOSE k \in DOMAIN own : own[k] = l]
           made == [k \in DOMAIN own |->
                      [state |-> IF Category[own[k][1][1]].opens THEN "posted" ELSE "draft",
                       amount |-> AmountOf(own[k])]]
           share(id) == IF id \in Known
                        THEN SumOver(The(id).lines, {k \in DOMAIN The(id).lines : <<id, k>> \in together})
                        ELSE 0
           group == [state |-> "posted", amount |-> SumFunction([id \in AssetIds |-> share(id)])]
           both == IF together = {} THEN made ELSE Append(made, group)
           posts == {N + k : k \in {i \in DOMAIN both : both[i].state = "posted"}}
           g == LinkedAll(number)
           fs == entry \o both
           M == N + Len(both)
<1>1. /\ M <= MaxEntries /\ asset' = Posted(g, posts) /\ entry' = fs /\ UNCHANGED <<bill, period>>
  BY DEF Cron
<1>2. /\ Agreeing(asset, entry) /\ AssetsOK(asset, N) /\ entry \in Seq(Entry)
      /\ N \in Nat /\ N <= MaxEntries /\ asset \in [Bill -> Seq(Asset)]
  <2>1. Agreeing(asset, entry)
    BY DEF BooksInv
  <2>2. AssetsOK(asset, N) /\ entry \in Seq(Entry) /\ N <= MaxEntries
    BY <2>1 DEF Agreeing
  <2>3. N \in Nat /\ asset \in [Bill -> Seq(Asset)]
    BY <2>2 DEF AssetsOK
  <2> QED  BY <2>1, <2>2, <2>3
<1>3. SeqFor(own, single)
  BY DueFacts, SetToSeqFacts
<1>4. /\ K \in Nat /\ DOMAIN own = 1..K
      /\ \A k \in 1..K : own[k] \in single /\ \A j \in 1..K : own[j] = own[k] => j = k
      /\ \A l \in single : \E k \in 1..K : own[k] = l
  BY <1>3 DEF SeqFor
<1>5. ASSUME NEW l \in single \union together
      PROVE  /\ l = <<l[1], l[2]>> /\ l[1] \in Listed /\ The(l[1]).state = "open"
             /\ l[2] \in 1..Len(The(l[1]).lines) /\ The(l[1]).lines[l[2]].entry = 0
  <2>1. PICK grouped \in BOOLEAN : l \in Due(grouped)
    BY <1>5
  <2> QED  BY ONLY BooksInv, <2>1, DueFacts
<1>6. single \cap together = {}
  <2>1. ASSUME NEW l \in Due(FALSE), l \in Due(TRUE) PROVE FALSE
    <3>1. Category[l[1][1]].grouped = FALSE
      BY ONLY BooksInv, <2>1, DueFacts
    <3>2. Category[l[1][1]].grouped = TRUE
      BY ONLY BooksInv, <2>1, DueFacts
    <3> QED  BY <3>1, <3>2
  <2> QED  BY <2>1
<1>7. DOMAIN number = single \union together
  OBVIOUS
<1>8. \A l \in together : number[l] = N + K + 1
  OBVIOUS
<1>9. ASSUME NEW k \in 1..K PROVE number[own[k]] = N + k
  <2>1. own[k] \in single /\ own[k] \notin together
    BY <1>4, <1>6
  <2>2. (CHOOSE j \in DOMAIN own : own[j] = own[k]) = k
    <3>1. \E j \in DOMAIN own : own[j] = own[k]
      BY <1>4
    <3> QED  BY <1>4, <3>1
  <2> HIDE DEF own, single, together
  <2> QED  BY <2>1, <2>2
<1> HIDE DEF number, own, single, together
<1>10. \A k \in 1..K : AmountOf(own[k]) \in Int
  <2>1. ASSUME NEW k \in 1..K PROVE AmountOf(own[k]) \in Int
    <3>1. own[k][1] \in Listed /\ own[k][2] \in 1..Len(The(own[k][1]).lines)
      BY <1>4, <1>5
    <3>2. The(own[k][1]).lines \in Lines
      BY <3>1, ListedFacts
    <3> QED  BY <3>1, <3>2, LineFacts DEF AmountOf
  <2> QED  BY <2>1
<1>11. /\ made \in Seq(Entry) /\ Len(made) = K
       /\ \A k \in 1..K : made[k].amount = AmountOf(own[k])
  <2>1. made \in [1..K -> Entry]
    BY <1>4, <1>10 DEF Entry
  <2> HIDE DEF K
  <2>2. \A k \in 1..K : made[k].amount = AmountOf(own[k])
    BY <1>4
  <2> HIDE DEF made
  <2> QED  BY <1>4, <2>1, <2>2
<1> HIDE DEF made, K
<1> DEFINE shares == [id \in AssetIds |-> share(id)]
<1>12. ASSUME NEW id \in AssetIds PROVE share(id) \in Int
  <2>1. CASE id \in Known
    <3>1. id[1] \in Bill /\ id[2] \in 1..Len(asset[id[1]])
      BY <1>2, <2>1, IdFacts DEF Known
    <3>2. The(id).lines \in Lines
      BY <1>2, <3>1, IdFacts DEF The
    <3>3. [seq |-> 0, amount |-> 0, due |-> 0, entry |-> 0] \in Line
      BY AssetsAssumption DEF Line
    <3> QED  BY <2>1, <3>2, <3>3, SumAppend
  <2>2. CASE id \notin Known
    BY <2>2
  <2> QED  BY <2>1, <2>2
<1>13. group \in Entry /\ group.amount = SumFunction(shares)
  <2> HIDE DEF share
  <2>1. shares \in [AssetIds -> Int]
    BY <1>12
  <2> HIDE DEF shares
  <2>2. SumFunction(shares) \in Int
    BY <2>1, IdsFinite, OnlyOne
  <2> QED  BY <2>2 DEF Entry, shares
<1> HIDE DEF group, shares, share
<1>14. /\ both \in Seq(Entry) /\ \A k \in 1..K : both[k] = made[k]
       /\ Len(both) = IF together = {} THEN K ELSE K + 1
       /\ together # {} => both[K + 1] = group
  BY <1>4, <1>11, <1>13
<1> HIDE DEF both, posts
<1>15. /\ fs \in Seq(Entry) /\ Len(fs) = M /\ M \in Nat /\ N <= M /\ M <= MaxEntries
       /\ \A e \in 1..N : fs[e] = entry[e]
       /\ \A k \in 1..Len(both) : fs[N + k] = both[k]
  <2>1. Len(both) \in Nat
    BY <1>14
  <2>0. entry \in Seq(Entry) /\ both \in Seq(Entry) /\ Len(entry) = N
    BY <1>2, <1>14
  <2>2. fs \in Seq(Entry) /\ Len(fs) = M
    BY <2>0
  <2>3. \A e \in 1..N : fs[e] = entry[e]
    BY <2>0
  <2>4. ASSUME NEW k \in 1..Len(both) PROVE fs[N + k] = both[k]
    <3>1. N + k \in 1..(N + Len(both)) /\ ~(N + k <= N) /\ (N + k) - N = k
      BY <1>2, <2>1
    <3> QED  BY <2>0, <3>1
  <2> QED  BY <1>1, <1>2, <2>1, <2>2, <2>3, <2>4
<1> HIDE DEF fs
<1>16. ASSUME NEW l \in DOMAIN number
       PROVE  /\ number[l] \in (N + 1)..M /\ (l \in together <=> number[l] = N + K + 1)
              /\ \A k \in 1..K : number[l] = N + k <=> l = own[k]
  <2>1. CASE l \in together
    <3>1. number[l] = N + K + 1 /\ Len(both) = K + 1
      BY <1>8, <1>14, <2>1
    <3>2. \A k \in 1..K : number[l] # N + k /\ l # own[k]
      BY <1>2, <1>4, <1>6, <2>1, <3>1
    <3>3. number[l] \in (N + 1)..M
      BY <1>2, <1>4, <3>1
    <3> QED  BY <2>1, <3>1, <3>2, <3>3
  <2>2. CASE l \in single
    <3>1. PICK k \in 1..K : own[k] = l
      BY <1>4, <2>2
    <3>2. number[l] = N + k /\ l \notin together
      BY <1>6, <1>9, <2>2, <3>1
    <3>3. N + k # N + K + 1 /\ N + k \in (N + 1)..M
      <4>1. Len(both) \in Nat /\ K <= Len(both)
        BY <1>4, <1>14
      <4> QED  BY <1>2, <1>4, <4>1
    <3>4. \A j \in 1..K : N + k = N + j <=> l = own[j]
      <4>0. N \in Nat /\ K \in Nat /\ k \in 1..K
        BY <1>2, <1>4, <3>1
      <4>1. \A j \in 1..K : N + k = N + j <=> k = j
        <5> HIDE DEF N
        <5> QED  BY ONLY <4>0
      <4> QED  BY <1>4, <3>1, <4>1
    <3> QED  BY <3>2, <3>3, <3>4
  <2> QED  BY <1>7, <2>1, <2>2
<1>17. M \in Nat /\ N <= M /\ M <= MaxEntries
  BY <1>15
<1> DEFINE old(b, i) == asset[b][i].lines
           new(b, i) == Relinked(b, i, old(b, i), number)
<1>18. ASSUME NEW b \in Bill, NEW i \in 1..Len(asset[b])
       PROVE  /\ AssetOK(b, asset[b][i]) /\ old(b, i) \in Lines
              /\ DOMAIN old(b, i) = 1..Len(old(b, i))
              /\ \A k \in 1..Len(old(b, i)) : old(b, i)[k].entry <= N /\ old(b, i)[k].entry \in 0..MaxEntries
              /\ LinkedTo(old(b, i), new(b, i), N, M)
              /\ \A k \in 1..Len(old(b, i)) :
                   new(b, i)[k].entry = IF <<<<b, i>>, k>> \in DOMAIN number
                                        THEN number[<<<<b, i>>, k>>] ELSE old(b, i)[k].entry
  <2>1. AssetOK(b, asset[b][i]) /\ old(b, i) \in Lines
    BY <1>2, IdFacts
  <2>2. \A k \in 1..Len(old(b, i)) : old(b, i)[k].entry <= N
    BY <1>2 DEF AssetsOK
  <2>3. ASSUME NEW k \in 1..Len(old(b, i)), <<<<b, i>>, k>> \in DOMAIN number
        PROVE  old(b, i)[k].entry = 0 /\ number[<<<<b, i>>, k>>] \in (N + 1)..M
    <3>1. The(<<b, i>>).lines[k].entry = 0
      BY <1>5, <1>7, <2>3
    <3> QED  BY <1>16, <2>3, <3>1 DEF The
  <2> DEFINE l == old(b, i)
  <2>4. l \in Lines /\ NewNumbers(b, i, l, number, N, M)
    BY <2>1, <2>3 DEF NewNumbers
  <2>5. /\ LinkedTo(l, Relinked(b, i, l, number), N, M)
        /\ HaveNumbers(b, i, l, number, Relinked(b, i, l, number))
    <3> HIDE DEF l, M, N
    <3>1. N \in Nat /\ M \in Nat /\ M <= MaxEntries /\ N <= M
      BY <1>2, <1>17 DEF M, N
    <3> QED  BY ONLY <2>4, <3>1, RelinkedFacts
  <2>6. DOMAIN l = 1..Len(l) /\ \A k \in 1..Len(l) : l[k].entry \in 0..MaxEntries
    BY <2>1, LineFacts DEF l
  <2> QED  BY <2>1, <2>2, <2>5, <2>6 DEF l, HaveNumbers
<1> HIDE DEF M, N
<1>19. ASSUME NEW b \in Bill, NEW i \in 1..Len(asset[b])
       PROVE  LET c == [asset[b][i] EXCEPT !.lines = new(b, i)]
              IN  /\ AssetOK(b, c) /\ c.active = asset[b][i].active /\ c.lines = new(b, i)
                  /\ \A e \in 1..N : EntrySum(new(b, i), {e}) = EntrySum(old(b, i), {e})
                  /\ \A k \in 1..Len(new(b, i)) : new(b, i)[k].entry <= M
  <2> DEFINE a == asset[b][i]
             m == new(b, i)
  <2>1. AssetOK(b, a) /\ LinkedTo(a.lines, m, N, M) /\ \A k \in 1..Len(a.lines) : a.lines[k].entry <= N
    BY <1>18
  <2>2. ASSUME a.state # "open", NEW k \in 1..Len(m) PROVE m[k].entry = a.lines[k].entry
    <3>1. <<<<b, i>>, k>> \notin DOMAIN number
      <4>1. CASE <<<<b, i>>, k>> \in DOMAIN number
        <5>1. The(<<b, i>>).state = "open"
          BY <1>5, <1>7, <4>1
        <5> QED  BY <2>2, <5>1 DEF The
      <4> QED  BY <4>1
    <3>2. k \in 1..Len(old(b, i))
      BY <2>1 DEF LinkedTo
    <3> QED  BY <1>18, <3>1, <3>2
  <2> HIDE DEF a, m
  <2>3. LET c == [a EXCEPT !.lines = m]
        IN  /\ AssetOK(b, c) /\ c.active = a.active /\ c.lines = m
            /\ \A e \in 1..N : EntrySum(m, {e}) = EntrySum(a.lines, {e})
            /\ \A k \in 1..Len(m) : m[k].entry <= M
    BY ONLY <1>2, <1>17, <2>1, <2>2, LinkedFacts
  <2> QED  BY <2>3 DEF a, m
<1>20. ASSUME NEW b \in Bill
       PROVE  /\ g[b] \in Seq(Asset) /\ Len(g[b]) = Len(asset[b]) /\ DOMAIN asset[b] = 1..Len(asset[b])
              /\ DOMAIN g[b] = 1..Len(asset[b])
              /\ \A i \in 1..Len(asset[b]) : g[b][i] = [asset[b][i] EXCEPT !.lines = new(b, i)]
  <2>1. DOMAIN asset[b] = 1..Len(asset[b]) /\ Len(asset[b]) \in Nat
    BY <1>2, IdFacts
  <2> DEFINE joined(i) == [asset[b][i] EXCEPT !.lines = new(b, i)]
  <2>2. g[b] = [i \in 1..Len(asset[b]) |-> joined(i)]
    <3>1. ASSUME NEW i \in 1..Len(asset[b])
          PROVE  joined(i) = [asset[b][i] EXCEPT !.lines = [k \in DOMAIN @ |->
                   IF <<<<b, i>>, k>> \in DOMAIN number
                   THEN WithNumber(@[k], number[<<<<b, i>>, k>>]) ELSE @[k]]]
      BY DEF Relinked
    <3>2. g[b] = [i \in DOMAIN asset[b] |->
                   [asset[b][i] EXCEPT !.lines = [k \in DOMAIN @ |->
                      IF <<<<b, i>>, k>> \in DOMAIN number
                      THEN WithNumber(@[k], number[<<<<b, i>>, k>>]) ELSE @[k]]]]
      BY DEF LinkedAll
    <3> HIDE DEF joined, g
    <3> QED  BY <2>1, <3>1, <3>2
  <2>3. \A i \in 1..Len(asset[b]) : joined(i) \in Asset
    BY <1>19 DEF AssetOK
  <2> HIDE DEF joined, g
  <2>4. g[b] \in [1..Len(asset[b]) -> Asset] /\ \A i \in 1..Len(asset[b]) : g[b][i] = joined(i)
    BY <2>2, <2>3
  <2>5. g[b] \in Seq(Asset) /\ Len(g[b]) = Len(asset[b]) /\ DOMAIN g[b] = 1..Len(asset[b])
    BY <2>1, <2>4
  <2> QED  BY <2>1, <2>4, <2>5 DEF joined
<1>21. g \in [Bill -> Seq(Asset)]
  <2>1. g = [b \in Bill |-> g[b]]
    BY DEF LinkedAll
  <2> HIDE DEF g
  <2> QED  BY <1>20, <2>1
<1> HIDE DEF g
<1>22. ASSUME NEW b \in Bill, NEW i \in 1..Len(asset[b])
       PROVE  /\ AssetOK(b, g[b][i]) /\ g[b][i].active = asset[b][i].active /\ g[b][i].lines = new(b, i)
              /\ \A e \in 1..N : EntrySum(g[b][i].lines, {e}) = EntrySum(asset[b][i].lines, {e})
              /\ \A k \in 1..Len(g[b][i].lines) : g[b][i].lines[k].entry <= M
  <2>1. g[b][i] = [asset[b][i] EXCEPT !.lines = new(b, i)]
    BY <1>20
  <2> HIDE DEF new
  <2> DEFINE c == [asset[b][i] EXCEPT !.lines = new(b, i)]
  <2>2. /\ AssetOK(b, c) /\ c.active = asset[b][i].active /\ c.lines = new(b, i)
        /\ \A e \in 1..N : EntrySum(new(b, i), {e}) = EntrySum(asset[b][i].lines, {e})
        /\ \A k \in 1..Len(new(b, i)) : new(b, i)[k].entry <= M
    BY <1>19
  <2>3. g[b][i] = c
    BY <2>1
  <2> HIDE DEF c, old
  <2> QED  BY <2>2, <2>3
<1>23. Reshaped(asset, g, entry, fs)
  <2>1. Len(entry) <= Len(fs) /\ Len(fs) <= MaxEntries /\ fs \in Seq(Entry) /\ Len(fs) = M /\ Len(entry) = N
    BY <1>15 DEF N
  <2>2. \A e \in 1..Len(entry) : fs[e].amount = entry[e].amount
    BY <1>15, <2>1
  <2>3. \A b \in Bill : Len(g[b]) = Len(asset[b])
    BY <1>20
  <2> HIDE DEF new, old
  <2>4. \A b \in Bill : \A i \in 1..Len(asset[b]) :
          /\ AssetOK(b, g[b][i]) /\ g[b][i].active = asset[b][i].active
          /\ \A k \in 1..Len(g[b][i].lines) : g[b][i].lines[k].entry <= Len(fs)
          /\ \A e \in 1..Len(entry) : EntrySum(g[b][i].lines, {e}) = EntrySum(asset[b][i].lines, {e})
    BY <1>22, <2>1
  <2> QED  BY ONLY <1>21, <2>1, <2>2, <2>3, <2>4 DEF Reshaped
<1>24. AssetsOK(g, M)
  <2>1. \A b \in Bill : Len(g[b]) <= MaxCopies[b]
    BY <1>2, <1>20 DEF AssetsOK
  <2>2. \A b \in Bill : \A i \in 1..Len(g[b]) :
          AssetOK(b, g[b][i]) /\ \A k \in 1..Len(g[b][i].lines) : g[b][i].lines[k].entry <= M
    BY <1>20, <1>22
  <2> QED  BY ONLY <1>21, <2>1, <2>2 DEF AssetsOK
\* Which lines have an entry the cron makes.
<1>25. ASSUME NEW b \in Bill, NEW i \in 1..Len(asset[b]), NEW k \in 1..Len(old(b, i))
       PROVE  /\ \A j \in 1..K : new(b, i)[k].entry = N + j <=> <<<<b, i>>, k>> = own[j]
              /\ new(b, i)[k].entry = N + K + 1 <=> <<<<b, i>>, k>> \in together
              /\ new(b, i)[k].amount = old(b, i)[k].amount
  <2> DEFINE at == <<<<b, i>>, k>>
             y == old(b, i)[k].entry
             z == new(b, i)[k].entry
  <2>1. /\ y \in 0..MaxEntries /\ y <= N /\ z = (IF at \in DOMAIN number THEN number[at] ELSE y)
        /\ new(b, i)[k].amount = old(b, i)[k].amount
    BY <1>18 DEF LinkedTo
  <2> HIDE DEF at, y, z
  <2>2. CASE at \in DOMAIN number
    BY <1>16, <2>1, <2>2 DEF at, z
  <2>3. CASE at \notin DOMAIN number
    <3>1. y # N + K + 1 /\ \A j \in 1..K : y # N + j
      <4>1. N \in Nat /\ K \in Nat /\ y \in Nat /\ y <= N
        BY <1>2, <1>4, <2>1, AssetsAssumption
      <4> QED  BY ONLY <4>1
    <3>2. at \notin together /\ \A j \in 1..K : at # own[j]
      BY <1>4, <1>7, <2>3
    <3> QED  BY <2>1, <2>3, <3>1, <3>2 DEF at, z
  <2> QED  BY <2>2, <2>3
<1> DEFINE Got(b, i, e) == EntrySum(new(b, i), {e})
<1>26. ASSUME NEW b \in Bill, NEW i \in 1..Len(asset[b])
       PROVE  /\ new(b, i) \in Lines /\ Len(new(b, i)) = Len(old(b, i)) /\ DOMAIN new(b, i) = 1..Len(old(b, i))
  <2> DEFINE m == new(b, i)
  <2>1. m \in Lines /\ Len(m) = Len(old(b, i))
    BY <1>18 DEF LinkedTo
  <2> HIDE DEF m
  <2>2. DOMAIN m = 1..Len(old(b, i))
    BY <2>1, LineFacts
  <2> QED  BY <2>1, <2>2 DEF m
<1>27. ASSUME NEW id \in AssetIds, NEW e
       PROVE  /\ id[1] \in Bill /\ id = <<id[1], id[2]>>
              /\ id \in Known <=> id[2] \in 1..Len(asset[id[1]])
              /\ ShareIn(g, id, e) = IF id \in Known THEN Got(id[1], id[2], e) ELSE 0
  <2>1. id[1] \in Bill /\ id = <<id[1], id[2]>>
    BY <1>2, IdFacts
  <2>2. id \in Known <=> id[2] \in 1..Len(asset[id[1]])
    BY <1>20, <2>1 DEF Known
  <2> HIDE DEF new, old
  <2>3. id \in Known => g[id[1]][id[2]].lines = new(id[1], id[2])
    BY <1>22, <2>1, <2>2
  <2> QED  BY <1>20, <2>1, <2>2, <2>3 DEF ShareIn
<1>28. ASSUME NEW k \in 1..K PROVE fs[N + k].amount = SumFunction(SharesIn(g, N + k))
  <2> DEFINE S == SharesIn(g, N + k)
             l == own[k]
             id == l[1]
             n == l[2]
  <2>1. l \in DOMAIN number /\ l = <<id, n>> /\ id \in Listed /\ n \in 1..Len(The(id).lines)
    BY <1>4, <1>5, <1>7
  <2>2. id \in AssetIds /\ id \in Known /\ id = <<id[1], id[2]>> /\ id[1] \in Bill /\ id[2] \in 1..Len(asset[id[1]])
        /\ The(id) = asset[id[1]][id[2]]
    BY <2>1, ListedFacts DEF Listed
  <2> HIDE DEF l, id, n
  <2>3. S \in [AssetIds -> Int] /\ \A x \in AssetIds : S[x] = ShareIn(g, x, N + k)
    BY <1>24, ShareInt
  <2> HIDE DEF S
  <2>4. n \in 1..Len(old(id[1], id[2])) /\ <<<<id[1], id[2]>>, n>> = l
    BY <2>1, <2>2
  <2>5. Got(id[1], id[2], N + k) = AmountOf(l)
    <3> DEFINE m == new(id[1], id[2])
               o == old(id[1], id[2])
    <3>1. m \in Lines /\ Len(m) = Len(o) /\ DOMAIN m = 1..Len(o)
      BY <1>26, <2>2
    <3>2. \A j \in 1..Len(o) : m[j].entry = N + k <=> <<<<id[1], id[2]>>, j>> = l
      BY <1>25, <2>2 DEF l
    <3>3. \A j \in 1..Len(o) : m[j].amount = o[j].amount
      BY <1>25, <2>2
    <3>4. AmountOf(l) = o[n].amount
      BY <2>1, <2>2 DEF AmountOf, id, n
    <3>5. \A j \in 1..Len(o) : m[j].entry = N + k <=> j = n
      <4>1. \A j : <<<<id[1], id[2]>>, j>> = l <=> j = n
        BY <2>4
      <4> QED  BY <3>2, <4>1
    <3> HIDE DEF m, o
    <3>6. n \in 1..Len(m) /\ n \in 1..Len(o)
      BY <2>4, <3>1 DEF o
    <3>7. \A j \in 1..Len(m) : j # n => Adds(m, Of(m, {N + k}), j) = 0
      BY <3>1, <3>5 DEF Adds, Of
    <3>8. Adds(m, Of(m, {N + k}), n) = o[n].amount
      BY <3>1, <3>3, <3>5, <3>6 DEF Adds, Of
    <3>9. SumOver(m, Of(m, {N + k})) = Adds(m, Of(m, {N + k}), n)
      BY <3>1, <3>6, <3>7, OneAdds
    <3>10. EntrySum(m, {N + k}) = AmountOf(l)
      BY <3>4, <3>8, <3>9 DEF EntrySum
    <3> QED  BY <3>10 DEF m
  <2>6. S[id] = AmountOf(l)
    BY <1>27, <2>2, <2>3, <2>5
  <2>7. ASSUME NEW x \in AssetIds, x # id PROVE S[x] = 0
    <3>1. x[1] \in Bill /\ x = <<x[1], x[2]>>
      BY <1>27
    <3>2. CASE x \in Known
      <4>1. x[2] \in 1..Len(asset[x[1]])
        BY <1>27, <3>2
      <4> DEFINE m == new(x[1], x[2])
                 o == old(x[1], x[2])
      <4>2. m \in Lines /\ Len(m) = Len(o)
        BY <1>26, <3>1, <4>1
      <4>3. \A j \in 1..Len(o) : m[j].entry = N + k => <<<<x[1], x[2]>>, j>> = l
        BY <1>25, <3>1, <4>1 DEF l
      <4>4. \A j : <<<<x[1], x[2]>>, j>> # l
        BY <2>1, <2>7, <3>1
      <4> HIDE DEF m, o
      <4>5. \A j \in 1..Len(m) : m[j].entry # N + k
        BY <4>2, <4>3, <4>4
      <4>6. EntrySum(m, {N + k}) = 0
        BY <4>2, <4>5, NoEntrySum
      <4> QED  BY <1>27, <2>3, <3>2, <4>6 DEF m
    <3>3. CASE x \notin Known
      BY <1>27, <2>3, <3>3
    <3> QED  BY <3>2, <3>3
  <2>8. SumFunction(S) = S[id]
    BY <2>2, <2>3, <2>7, IdsFinite, OnlyOne
  <2>9. fs[N + k].amount = AmountOf(l)
    <3>1. k \in 1..Len(both)
      BY <1>4, <1>14
    <3> QED  BY <1>11, <1>14, <1>15, <3>1 DEF l
  <2> QED  BY <2>6, <2>8, <2>9 DEF S
<1>29. ASSUME together # {} PROVE fs[N + K + 1].amount = SumFunction(SharesIn(g, N + K + 1))
  <2> DEFINE e == N + K + 1
  <2>1. ASSUME NEW id \in AssetIds PROVE ShareIn(g, id, e) = share(id)
    <3>1. id[1] \in Bill /\ id = <<id[1], id[2]>>
      BY <1>27
    <3>2. CASE id \in Known
      <4>1. id[2] \in 1..Len(asset[id[1]])
        BY <1>27, <3>2
      <4> DEFINE m == new(id[1], id[2])
                 o == old(id[1], id[2])
                 J == {k \in DOMAIN o : <<id, k>> \in together}
      <4>2. m \in Lines /\ Len(m) = Len(o) /\ o \in Lines /\ DOMAIN m = 1..Len(o) /\ DOMAIN o = 1..Len(o)
        BY <1>18, <1>26, <3>1, <4>1
      <4>3. \A j \in 1..Len(o) : /\ m[j].entry = e <=> <<id, j>> \in together
                                 /\ m[j].amount = o[j].amount
        BY <1>25, <3>1, <4>1
      <4>4. share(id) = SumOver(o, J)
        BY <3>2 DEF share, The
      <4> HIDE DEF m, o, e
      <4>5. \A j \in 1..Len(o) : Adds(m, Of(m, {e}), j) = Adds(o, J, j)
        BY <4>2, <4>3 DEF Adds, Of
      <4> HIDE DEF J
      <4>6. EntrySum(m, {e}) = SumOver(o, J)
        BY <4>2, <4>5, SameSum DEF EntrySum
      <4> QED  BY <1>27, <3>2, <4>4, <4>6 DEF m
    <3>3. CASE id \notin Known
      BY <1>27, <3>3 DEF share
    <3> QED  BY <3>2, <3>3
  <2>2. SharesIn(g, e) = shares
    <3> HIDE DEF e, share
    <3> QED  BY <2>1 DEF SharesIn, shares
  <2>3. fs[e].amount = group.amount
    <3>1. K + 1 \in 1..Len(both) /\ N + K + 1 = N + (K + 1)
      BY <1>2, <1>4, <1>14, <1>29
    <3> QED  BY <1>14, <1>15, <1>29, <3>1
  <2> QED  BY <1>13, <2>2, <2>3
<1>30. ASSUME NEW e \in 1..Len(fs), e > Len(entry) PROVE fs[e].amount = SumFunction(SharesIn(g, e))
  <2>1. e \in 1..M /\ e > N
    BY <1>15, <1>30 DEF N
  <2>2. (e - N \in 1..K /\ e = N + (e - N)) \/ (together # {} /\ e = N + K + 1)
    BY <1>2, <1>4, <1>14, <2>1 DEF M
  <2> QED  BY <1>28, <1>29, <2>2
<1>31. Agreeing(g, fs) /\ AsActive(asset, g)
  BY <1>2, <1>23, <1>30, ReshapedAgrees
<1>32. Agreeing(Posted(g, posts), fs) /\ AsActive(g, Posted(g, posts))
  BY <1>31, PostedAgrees
<1>33. AsActive(asset, Posted(g, posts))
  BY <1>31, <1>32 DEF AsActive
<1> QED  BY <1>1, <1>32, <1>33, BooksStep

\* The books start empty.
LEMMA BooksInit == ASSUME AssetsInit PROVE BooksInv
<1>1. /\ bill = [b \in Bill |-> "draft"] /\ asset = [b \in Bill |-> <<>>] /\ entry = <<>> /\ period = 0
  BY DEF AssetsInit
<1>2. asset \in [Bill -> Seq(Asset)] /\ \A b \in Bill : asset[b] = <<>> /\ Len(asset[b]) = 0
  BY <1>1
<1>3. Len(entry) = 0 /\ entry \in Seq(Entry) /\ Len(entry) <= MaxEntries
  BY <1>1, AssetsAssumption
<1>4. \A b \in Bill : MaxCopies[b] \in Nat
  BY AssetsAssumption
<1>5. AssetsOK(asset, Len(entry))
  BY <1>2, <1>4 DEF AssetsOK
<1>6. Agreeing(asset, entry)
  BY <1>3, <1>5 DEF Agreeing
<1>7. OneActive(bill, asset)
  BY <1>2 DEF OneActive
<1>8. bill \in [Bill -> {"draft", "posted"}] /\ period \in 0..EndOfBooks
  BY <1>1, AssetsAssumption
<1> QED  BY <1>6, <1>7, <1>8 DEF BooksInv

\* Every step keeps them in agreement.
LEMMA BooksKept == ASSUME BooksInv, [AssetsNext]_asset_vars PROVE BooksInv'
<1>1. CASE \E b \in Bill : PostBill(b) \/ ResetBill(b)
  BY <1>1, PostBillStep, ResetBillStep
<1>2. CASE \E id \in Listed : \/ Validate(id) \/ SetToDraft(id) \/ EditDraft(id) \/ Save(id)
                               \/ Modify(id) \/ Dispose(id)
  BY <1>2, FormSteps, DisposeStep
<1>3. CASE \E id \in Listed : \E k \in DOMAIN The(id).lines : BookLine(id, k)
  BY <1>3, BookLineStep
<1>4. CASE \E e \in DOMAIN entry : PostEntry(e) \/ UnpostEntry(e) \/ CancelEntry(e)
  BY <1>4, EntrySteps
<1>5. CASE Cron
  BY <1>5, CronStep
<1>6. CASE NextPeriod
  <2>1. period + 1 \in 0..EndOfBooks /\ period' = period + 1
    BY <1>6, AssetsAssumption DEF NextPeriod, BooksInv
  <2>2. UNCHANGED <<bill, asset, entry>>
    BY <1>6 DEF NextPeriod
  <2> QED  BY <2>1, <2>2 DEF BooksInv
<1>7. CASE UNCHANGED asset_vars
  BY <1>7 DEF BooksInv, asset_vars
<1> QED  BY <1>1, <1>2, <1>3, <1>4, <1>5, <1>6, <1>7 DEF AssetsNext

\* What the invariant says of the books.
LEMMA BooksThen == ASSUME BooksInv PROVE BooksAgree
<1>1. Agreeing(asset, entry) /\ AssetsOK(asset, Len(entry))
  BY DEF BooksInv, Agreeing
<1>2. ASSUME NEW id \in Known
      PROVE  /\ id \in AssetIds /\ id[1] \in Bill /\ id[2] \in 1..Len(asset[id[1]])
             /\ The(id).lines \in Lines /\ AssetOK(id[1], The(id))
  BY <1>1, IdFacts DEF Known, The
<1>3. BoardAddsUp
  BY <1>2 DEF BoardAddsUp, AssetOK, WholeBoard
<1>4. EntriesKeepTheirLines
  <2>1. ASSUME NEW e \in DOMAIN entry PROVE entry[e].amount = SumFunction([id \in AssetIds |-> Share(id, e)])
    <3>1. ASSUME NEW id \in AssetIds PROVE Share(id, e) = ShareIn(asset, id, e)
      <4>1. CASE id \in Known
        <5>1. SumOver(The(id).lines, MadeFor(The(id).lines, e)) = EntrySum(The(id).lines, {e})
          BY <1>2, <4>1, SumForms
        <5>2. id[2] \in DOMAIN asset[id[1]]
          BY <4>1 DEF Known
        <5> QED  BY <4>1, <5>1, <5>2 DEF Share, ShareIn, The
      <4>2. CASE id \notin Known
        BY <4>2 DEF Share, ShareIn, Known
      <4> QED  BY <4>1, <4>2
    <3>2. SharesIn(asset, e) = [id \in AssetIds |-> Share(id, e)]
      BY <3>1 DEF SharesIn
    <3>3. e \in 1..Len(entry)
      BY <1>1 DEF Agreeing
    <3>4. entry[e].amount = SumFunction(SharesIn(asset, e))
      BY <1>1, <3>3 DEF Agreeing
    <3> QED  BY <3>2, <3>4
  <2> QED  BY <2>1 DEF EntriesKeepTheirLines
<1>5. OneAssetRuns
  <2>1. ASSUME NEW b \in Bill
        PROVE  /\ Cardinality({i \in DOMAIN asset[b] : asset[b][i].active}) <= 1
               /\ \A i \in DOMAIN asset[b] : asset[b][i].state = "close" => Residual(b, asset[b][i]) = 0
    <3> DEFINE A == {i \in DOMAIN asset[b] : asset[b][i].active}
    <3>1. DOMAIN asset[b] = 1..Len(asset[b])
      BY <1>1, IdFacts
    <3>2. \A i, j \in A : i = j
      BY <3>1 DEF BooksInv, OneActive
    <3> HIDE DEF A
    <3>3. Cardinality(A) <= 1
      <4>1. CASE A = {}
        BY <4>1, FS_EmptySet
      <4>2. CASE A # {}
        <5>1. PICK i : A = {i}
          BY <3>2, <4>2
        <5> QED  BY <5>1, FS_Singleton
      <4> QED  BY <4>1, <4>2
    <3>4. \A i \in 1..Len(asset[b]) : AssetOK(b, asset[b][i])
      BY <1>1, IdFacts
    <3>5. \A i \in DOMAIN asset[b] : asset[b][i].state = "close" => Residual(b, asset[b][i]) = 0
      BY <3>1, <3>4 DEF AssetOK
    <3> QED  BY <3>3, <3>5 DEF A
  <2> QED  BY <2>1 DEF OneAssetRuns
<1> QED  BY <1>3, <1>4, <1>5 DEF BooksAgree

\* Whatever is booked by hand or by the cron, modified, disposed of, posted or cancelled, and however
\* it rounds: a board adds up to its asset's value, or belongs to an asset by ending date and has no line
\* left to book; an entry adds up to the lines that point to it, and a bill has at most one active asset.
THEOREM BooksStayAgreed == AssetsSpec => []BooksAgree
<1>1. AssetsInit => BooksInv
  BY BooksInit
<1>2. BooksInv /\ [AssetsNext]_asset_vars => BooksInv'
  BY BooksKept
<1>3. BooksInv => BooksAgree
  BY BooksThen
<1> QED  BY <1>1, <1>2, <1>3, PTL DEF AssetsSpec
=============================================================================
