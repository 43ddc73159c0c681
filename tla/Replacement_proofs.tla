-------------------------- MODULE Replacement_proofs --------------------------
(***************************************************************************)
(* Orders of any number of lines, vendors and replacements.                *)
(*                                                                         *)
(* The first part says of the handlers of an order, each a function from   *)
(* one order to the next, what they keep: RFQs that buy what is wanted     *)
(* (Sound), links and pending replacements (Kept), and for what an RFQ may *)
(* be cancelled (Evolves, OnlyDead, NoCancel).  The second part reads each *)
(* action as one of five kinds of step (FiveSteps): a legal change of the  *)
(* order, a replacement joined, confirmed or withdrawn, a step of a wizard.*)
(* The invariants of the last part (Inv, SwapInv, HistoryInv, TwiceInv,    *)
(* AskedInv) need to look at these five only.  At the end, what the website is told  *)
(* of a swap (ReplacementPush): PushInv, the push knows what a swap did.   *)
(***************************************************************************)
EXTENDS Replacement, ReplacementPush, CountingUp, FiniteSetTheorems, TLAPS

USE SaleOrdersAssumption

(***************************************************************************)
(* One order record to the next                                            *)
(***************************************************************************)

\* Every order has a status.
LEMMA StatusType ==
    ASSUME NEW c, NEW S
    PROVE  StatusOf(c, S) \in OrderStatuses
BY DEF StatusOf, OrderStatuses

\* The computed status changes nothing else.
LEMMA ComputedFacts ==
    ASSUME NEW r \in SaleOrder
    PROVE  /\ Computed(r) \in SaleOrder
           /\ Computed(r).state = r.state /\ Computed(r).status = r.status
           /\ Computed(r).po = r.po /\ Computed(r).buys = r.buys
           /\ Computed(r).zeroed = r.zeroed
           /\ Computed(r).replacedBy = r.replacedBy
           /\ Computed(r).pending = r.pending /\ Computed(r).asked = r.asked
           /\ Computed(r).request = r.request
           /\ Computed(r).packed = r.packed
           /\ Computed(r).sdk = OrderStatus(r)
           /\ Computed(r).sdk = OrderStatus(Computed(r))
<1>1. OrderStatus(r) \in OrderStatuses
  BY StatusType DEF OrderStatus
<1>2. \A x : [r EXCEPT !.sdk = x].status = r.status /\ [r EXCEPT !.sdk = x].state = r.state
  BY DEF SaleOrder
<1>3. OrderStatus(Computed(r)) = OrderStatus(r)
  BY <1>2 DEF Computed, OrderStatus, Present
<1> HIDE DEF OrderStatus
<1> QED  BY <1>1, <1>3 DEF Computed, SaleOrder

\* Where the confirmation of an order leaves everything.
LEMMA ConfirmFields ==
    ASSUME NEW r \in SaleOrder
    PROVE  /\ Confirm(r) \in SaleOrder
           /\ Confirm(r).state = "sale" /\ Confirm(r).status = r.status
           /\ Confirm(r).po = [p \in PO |-> IF \E l \in Unbought(r) : VendorOf[l] = p
                                             THEN "draft" ELSE r.po[p]]
           /\ Confirm(r).buys = [l \in Line |-> IF l \in Unbought(r) THEN VendorOf[l]
                                                  ELSE r.buys[l]]
           /\ Confirm(r).zeroed = r.zeroed /\ Confirm(r).replacedBy = r.replacedBy
           /\ Confirm(r).pending = r.pending /\ Confirm(r).asked = r.asked
           /\ Confirm(r).request = r.request
           /\ Confirm(r).packed = r.packed
           /\ Confirm(r).sdk = OrderStatus(Confirm(r))
<1> DEFINE po == [p \in PO |-> IF \E l \in Unbought(r) : VendorOf[l] = p
                                             THEN "draft" ELSE r.po[p]]
           buys == [l \in Line |-> IF l \in Unbought(r) THEN VendorOf[l]
                                                  ELSE r.buys[l]]
           x == [r EXCEPT !.state = "sale", !.po = po, !.buys = buys]
<1>1. po \in [PO -> {"none", "draft", "purchase", "cancel"}]
  BY DEF SaleOrder
<1>2. buys \in [Line -> PO \union {NoPo}]
  BY DEF SaleOrder, PO
<1>3. Confirm(r) = Computed(x)
  BY DEF Confirm
<1> HIDE DEF po, buys
<1>4. /\ x \in SaleOrder /\ x.state = "sale" /\ x.po = po /\ x.buys = buys
      /\ x.status = r.status /\ x.replacedBy = r.replacedBy /\ x.pending = r.pending
      /\ x.asked = r.asked /\ x.request = r.request /\ x.packed = r.packed
      /\ x.zeroed = r.zeroed
  BY <1>1, <1>2 DEF SaleOrder
<1> HIDE DEF x
<1>5. /\ Computed(x) \in SaleOrder /\ Computed(x).sdk = OrderStatus(Computed(x))
      /\ Computed(x).state = x.state /\ Computed(x).status = x.status
      /\ Computed(x).po = x.po /\ Computed(x).buys = x.buys
      /\ Computed(x).zeroed = x.zeroed /\ Computed(x).replacedBy = x.replacedBy
      /\ Computed(x).pending = x.pending /\ Computed(x).asked = x.asked
      /\ Computed(x).request = x.request
      /\ Computed(x).packed = x.packed
  BY <1>4, ComputedFacts
<1> QED  BY <1>3, <1>4, <1>5 DEF po, buys

(***************************************************************************)
(* Procurement changes RFQs only                                           *)
(***************************************************************************)

\* What no write of a line changes, or changes in one direction only.
Kept(r, q) ==
    /\ q.request = r.request /\ q.packed = r.packed /\ q.replacedBy = r.replacedBy
    /\ Present(q) = Present(r)
    /\ q.pending \subseteq r.pending
    /\ r.asked /\ q.pending # {} => q.asked
    /\ q.state = r.state \/ (r.state = "draft" /\ q.state = "sale")
    /\ r.zeroed \subseteq q.zeroed
    /\ \A n \in Spares : Own(r, n) => Own(q, n)

\* Lines on an open RFQ stay on it, but for the lines D.
Stays(r, q, D) ==
    \A l \in Line \ D :
        r.buys[l] # NoPo /\ r.po[r.buys[l]] = "draft" => q.buys[l] = r.buys[l]

\* Procurement: the statuses stay, no RFQ is cancelled, only confirmed lines
\* are bought.
Procured(r, q) ==
    /\ q.status = r.status /\ Kept(r, q)
    /\ \A l \in Line : r.status[l] # "confirmed" => q.buys[l] = r.buys[l]
    /\ \A l \in Line : r.buys[l] # NoPo /\ r.po[r.buys[l]] # "cancel" =>
                         q.buys[l] = r.buys[l]
    /\ \A p \in PO : q.po[p] = "cancel" => r.po[p] = "cancel"
    /\ \A D : Wanted(r, D) => Wanted(q, D)

\* A vendor's RFQ is not a replacement's.
LEMMA VendorRfq ==
    ASSUME NEW l \in Line
    PROVE  VendorOf[l] \in PO /\ VendorOf[l] # NoPo /\ VendorOf[l] \notin Spares
BY DEF PO

\* Confirming raises one RFQ per vendor for what is not bought yet, and touches no
\* status: no RFQ is cancelled and what is bought stays bought where it is.
LEMMA ConfirmProcures ==
    ASSUME NEW r \in SaleOrder, RfqShape(r), r.state = "draft"
    PROVE  /\ Confirm(r) \in SaleOrder
           /\ RfqShape(Confirm(r))
           /\ Procured(r, Confirm(r))
<1> DEFINE c == Confirm(r)
           U == Unbought(r)
<1>1. /\ c \in SaleOrder /\ c.state = "sale" /\ c.status = r.status
      /\ c.replacedBy = r.replacedBy /\ c.pending = r.pending /\ c.asked = r.asked
      /\ c.request = r.request /\ c.packed = r.packed /\ c.zeroed = r.zeroed
  BY ConfirmFields
<1>2. c.po = [p \in PO |-> IF \E l \in U : VendorOf[l] = p THEN "draft" ELSE r.po[p]]
  BY ConfirmFields
<1>3. c.buys = [l \in Line |-> IF l \in U THEN VendorOf[l] ELSE r.buys[l]]
  BY ConfirmFields
<1>4. \A l \in U : /\ l \in Line /\ r.status[l] = "confirmed" /\ l \notin r.zeroed
                   /\ r.buys[l] = NoPo \/ r.po[r.buys[l]] = "cancel"
  BY DEF Unbought
<1>5. r.buys \in [Line -> PO \union {NoPo}] /\ r.status \in [Line -> Statuses \union {"none"}]
  BY DEF SaleOrder
<1> HIDE DEF c, U
<1>6. \A l \in Line : r.buys[l] \in Spares \union {NoPo}
  BY DEF RfqShape
<1>7. RfqShape(c)
  <2>1. \A l \in Line : c.buys[l] # NoPo => c.status[l] # "none"
    BY <1>1, <1>3, <1>4 DEF RfqShape
  <2>2. \A l \in Line : c.buys[l] \in Spares => c.buys[l] = l
    BY <1>3, VendorRfq DEF RfqShape
  <2> QED  BY <1>1, <2>1, <2>2 DEF RfqShape
<1>8. ASSUME NEW n \in Spares, Own(r, n) PROVE Own(c, n)
  <2>1. n \notin U
    <3>1. n # NoPo
      BY DEF PO
    <3> QED  BY <1>4, <1>8, <3>1 DEF Own
  <2>2. n \in Line /\ n \in PO
    BY DEF PO
  <2>3. c.buys[n] = r.buys[n]
    BY <1>3, <2>1, <2>2
  <2>4. c.po[n] = r.po[n]
    BY <1>2, <1>4, <2>2, VendorRfq
  <2> QED  BY <1>1, <1>8, <2>3, <2>4 DEF Own
<1>9. Kept(r, c)
  BY <1>1, <1>8 DEF Kept, Present
<1>10. \A l \in Line : r.buys[l] # NoPo /\ r.po[r.buys[l]] # "cancel" => c.buys[l] = r.buys[l]
  BY <1>3, <1>4, <1>5
<1>11. \A p \in PO : c.po[p] = "cancel" => r.po[p] = "cancel"
  BY <1>2
<1>12. ASSUME NEW D, Wanted(r, D),
              NEW l \in Line \ D, c.buys[l] # NoPo, c.po[c.buys[l]] = "draft"
       PROVE  c.status[l] \notin Gone
  <2>1. CASE l \in U
    BY <1>1, <1>4, <2>1 DEF Gone
  <2>2. CASE l \notin U
    <3>1. c.buys[l] = r.buys[l] /\ r.buys[l] \in Spares /\ r.buys[l] \in PO
      BY <1>3, <1>6, <1>12, <2>2 DEF PO
    <3>2. \A m \in U : VendorOf[m] # r.buys[l]
      BY <3>1, <1>4, VendorRfq
    <3>3. c.po[r.buys[l]] = r.po[r.buys[l]]
      BY <3>1, <3>2, <1>2
    <3> QED  BY <1>1, <1>12, <3>1, <3>3 DEF Wanted
  <2> QED  BY <2>1, <2>2
<1>13. \A D : Wanted(r, D) => Wanted(c, D)
  BY <1>12 DEF Wanted
<1>14. \A l \in Line : r.status[l] # "confirmed" => c.buys[l] = r.buys[l]
  BY <1>3, <1>4
<1> QED  BY <1>1, <1>7, <1>9, <1>10, <1>11, <1>13, <1>14 DEF Procured, c

\* An order that is left alone counts as procured.
LEMMA ProcuredRefl ==
    ASSUME NEW r
    PROVE  Procured(r, r)
BY DEF Procured, Kept

\* The procurement started by In QC process confirms, and turns into orders only
\* RFQs whose lines are all in QC.
LEMMA AutoQcProcures ==
    ASSUME NEW r \in SaleOrder, RfqShape(r)
    PROVE  /\ AutoQc(r) \in SaleOrder
           /\ RfqShape(AutoQc(r))
           /\ Procured(r, AutoQc(r))
<1> DEFINE c == IF r.state = "draft" THEN Confirm(r) ELSE r
           ready == {p \in PO : /\ c.po[p] = "draft"
                                /\ \A l \in On(c, p) :
                                     c.status[l] = "in_qc_process"}
           po == [p \in PO |-> IF p \in ready THEN "purchase" ELSE c.po[p]]
           q == [c EXCEPT !.po = po]
<1>1. c \in SaleOrder /\ RfqShape(c) /\ Procured(r, c)
  BY ConfirmProcures, ProcuredRefl
<1>2. AutoQc(r) = q
  BY DEF AutoQc
<1>3. ready \subseteq PO
  OBVIOUS
<1> HIDE DEF c, ready
<1>4. po \in [PO -> {"none", "draft", "purchase", "cancel"}]
  BY <1>1 DEF SaleOrder
<1>5. \A p \in PO : po[p] = c.po[p] \/ po[p] = "purchase"
  OBVIOUS
<1> HIDE DEF po
<1>6. /\ q \in SaleOrder /\ q.po = po
      /\ q.state = c.state /\ q.status = c.status /\ q.buys = c.buys
      /\ q.replacedBy = c.replacedBy /\ q.pending = c.pending /\ q.asked = c.asked
      /\ q.request = c.request /\ q.packed = c.packed /\ q.zeroed = c.zeroed
  BY <1>1, <1>4 DEF SaleOrder
<1> HIDE DEF q
<1>7. RfqShape(q)
  BY <1>1, <1>6 DEF RfqShape
<1>8. Kept(r, q)
  <2>1. Kept(r, c)
    BY <1>1 DEF Procured
  <2>2. Present(q) = Present(c)
    BY <1>6 DEF Present
  <2>3. \A n \in Spares : Own(c, n) => Own(q, n)
    <3>1. Spares \subseteq PO
      BY DEF PO
    <3> QED  BY <1>5, <1>6, <3>1 DEF Own
  <2> QED  BY <1>6, <2>1, <2>2, <2>3 DEF Kept
<1>9. /\ q.status = r.status
      /\ \A l \in Line : r.buys[l] # NoPo /\ r.po[r.buys[l]] # "cancel" => q.buys[l] = r.buys[l]
  BY <1>1, <1>6 DEF Procured
<1>10. \A p \in PO : q.po[p] = "cancel" => r.po[p] = "cancel"
  BY <1>1, <1>5, <1>6 DEF Procured
<1>11. \A l \in Line : c.buys[l] # NoPo => c.buys[l] \in PO
  BY <1>1 DEF SaleOrder
<1>12. \A D : Wanted(c, D) => Wanted(q, D)
  BY <1>5, <1>6, <1>11 DEF Wanted
<1>13. \A D : Wanted(r, D) => Wanted(q, D)
  BY <1>1, <1>12 DEF Procured
<1>14. \A l \in Line : r.status[l] # "confirmed" => q.buys[l] = r.buys[l]
  BY <1>1, <1>6 DEF Procured
<1> QED  BY <1>2, <1>6, <1>7, <1>8, <1>9, <1>10, <1>13, <1>14 DEF Procured

(***************************************************************************)
(* Lines die                                                               *)
(***************************************************************************)

\* Only open RFQs are cancelled, for the lines D, when none on it is wanted.
CancelsFor(r, q, D) ==
    \A p \in PO : r.po[p] # "cancel" /\ q.po[p] = "cancel" =>
        /\ r.po[p] = "draft"
        /\ On(r, p) \intersect D # {}
        /\ \A l \in On(r, p) : q.status[l] \in Dead

\* Taking dead lines off their RFQ cancels it when all it buys is dead, confirms it
\* when the rest is ready, and leaves every other RFQ alone.
LEMMA DropRfqFacts ==
    ASSUME NEW r \in SaleOrder, RfqShape(r), NEW D \in SUBSET Line, Wanted(r, D),
           D \subseteq r.zeroed
    PROVE  /\ DropRfq(r, D) \in SaleOrder
           /\ RfqShape(DropRfq(r, D))
           /\ DropRfq(r, D).status = r.status
           /\ Kept(r, DropRfq(r, D))
           /\ Stays(r, DropRfq(r, D), D)
           /\ CancelsFor(r, DropRfq(r, D), D)
           /\ Wanted(DropRfq(r, D), {})
<1> DEFINE hit == {p \in PO : r.po[p] = "draft" /\ On(r, p) \cap D # {}}
           dead == {p \in hit : \A l \in On(r, p) : r.status[l] \in Dead}
           kept == hit \ dead
           po == [p \in PO |-> IF p \in dead THEN "cancel" ELSE r.po[p]]
           buys == [l \in Line |-> IF l \in D /\ r.buys[l] \in kept THEN NoPo ELSE r.buys[l]]
           cut == [r EXCEPT !.po = po, !.buys = buys]
           q == DropRfq(r, D)
<1>1. q = cut \/ q = AutoQc(cut)
  BY DEF DropRfq
<1>2. \A p \in PO : /\ p \in hit <=> r.po[p] = "draft" /\ On(r, p) \cap D # {}
                    /\ p \in dead <=> p \in hit /\ \A l \in On(r, p) : r.status[l] \in Dead
                    /\ p \in kept <=> p \in hit /\ p \notin dead
  OBVIOUS
<1>3. hit \subseteq PO /\ dead \subseteq PO /\ kept \subseteq PO
  OBVIOUS
<1>4. r.buys \in [Line -> PO \union {NoPo}] /\ r.po \in [PO -> {"none", "draft", "purchase", "cancel"}]
  BY DEF SaleOrder
<1> HIDE DEF hit, dead, kept
<1>5. po \in [PO -> {"none", "draft", "purchase", "cancel"}] /\ buys \in [Line -> PO \union {NoPo}]
  BY <1>4
<1>6. \A p \in PO : po[p] = IF p \in dead THEN "cancel" ELSE r.po[p]
  OBVIOUS
<1>7. \A l \in Line : buys[l] = IF l \in D /\ r.buys[l] \in kept THEN NoPo ELSE r.buys[l]
  OBVIOUS
<1> HIDE DEF po, buys
<1>8. /\ cut \in SaleOrder /\ cut.po = po /\ cut.buys = buys
      /\ cut.state = r.state /\ cut.status = r.status
      /\ cut.replacedBy = r.replacedBy /\ cut.pending = r.pending /\ cut.asked = r.asked
      /\ cut.request = r.request /\ cut.packed = r.packed /\ cut.zeroed = r.zeroed
  BY <1>5 DEF SaleOrder
<1> HIDE DEF cut, q
<1>9. RfqShape(cut)
  <2>1. \A l \in Line : cut.buys[l] # NoPo => cut.buys[l] = r.buys[l]
    BY <1>7, <1>8
  <2>2. NoPo \notin Spares
    BY DEF PO
  <2>3. \A l \in Line : cut.buys[l] = NoPo \/ cut.buys[l] = r.buys[l]
    BY <1>7, <1>8
  <2> QED  BY <1>8, <2>1, <2>2, <2>3 DEF RfqShape
<1>10. Kept(r, cut)
  <2>1. ASSUME NEW n \in Spares, Own(r, n) PROVE Own(cut, n)
    <3>1. n \in PO /\ n \in Line
      BY DEF PO
    <3>2. \A l \in On(r, n) : l = n
      BY DEF On, RfqShape
    <3>3. n \in hit => n \in D
      BY <1>2, <3>1, <3>2
    <3>4. cut.buys[n] # r.buys[n] => cut.buys[n] = NoPo /\ n \in D
      BY <1>7, <1>8, <3>1
    <3>5. cut.po[n] # r.po[n] => n \in D
      BY <1>2, <1>6, <1>8, <3>1, <3>3
    <3> QED  BY <1>8, <2>1, <3>4, <3>5 DEF Own
  <2> QED  BY <1>8, <2>1 DEF Kept, Present
<1>11. Stays(r, cut, D)
  BY <1>7, <1>8 DEF Stays
<1>12. CancelsFor(r, cut, D)
  BY <1>2, <1>6, <1>8 DEF CancelsFor
<1>13. Wanted(cut, {})
  <2>1. SUFFICES ASSUME NEW l \in Line, cut.buys[l] # NoPo, cut.po[cut.buys[l]] = "draft"
                 PROVE  cut.status[l] \notin Gone
    BY DEF Wanted
  <2>2. cut.buys[l] = r.buys[l] /\ r.buys[l] \in PO /\ r.buys[l] # NoPo
    BY <1>4, <1>7, <1>8, <2>1
  <2>3. r.buys[l] \notin dead /\ r.po[r.buys[l]] = "draft"
    BY <1>6, <1>8, <2>1, <2>2
  <2>4. l \notin D
    <3>1. l \in On(r, r.buys[l])
      BY DEF On
    <3>2. ASSUME l \in D PROVE FALSE
      <4>1. r.buys[l] \in kept
        BY <1>2, <2>2, <2>3, <3>1, <3>2
      <4> QED  BY <1>7, <1>8, <2>1, <3>2, <4>1
    <3> QED  BY <3>2
  <2> QED  BY <1>8, <2>2, <2>3, <2>4 DEF Wanted
<1>14. CASE q = cut
  BY <1>8, <1>9, <1>10, <1>11, <1>12, <1>13, <1>14 DEF q
<1>15. CASE q = AutoQc(cut)
  <2>1. q \in SaleOrder /\ RfqShape(q) /\ Procured(cut, q)
    BY <1>8, <1>9, <1>15, AutoQcProcures
  <2>2. q.status = r.status /\ Kept(cut, q) /\ Stays(cut, q, {}) /\ Wanted(q, {})
    BY <1>8, <1>13, <2>1 DEF Procured, Stays
  <2>3. Kept(r, q)
    BY <1>10, <2>2 DEF Kept
  <2>4. CancelsFor(r, q, D)
    <3>1. \A p \in PO : q.po[p] = "cancel" => cut.po[p] = "cancel"
      BY <2>1 DEF Procured
    <3> QED  BY <1>8, <1>12, <2>2, <3>1 DEF CancelsFor
  <2>5. Stays(r, q, D)
    <3>1. SUFFICES ASSUME NEW l \in Line \ D, r.buys[l] # NoPo, r.po[r.buys[l]] = "draft"
                   PROVE  q.buys[l] = r.buys[l]
      BY DEF Stays
    <3>2. cut.buys[l] = r.buys[l] /\ r.buys[l] \in PO
      BY <1>4, <1>11, <3>1 DEF Stays
    <3>3. CASE r.buys[l] \notin dead
      BY <1>6, <1>8, <2>2, <3>1, <3>2, <3>3 DEF Stays
    <3>4. CASE r.buys[l] \in dead
      <4>1. l \in On(r, r.buys[l])
        BY DEF On
      <4>2. r.status[l] # "confirmed"
        BY <1>2, <3>2, <3>4, <4>1 DEF Dead
      <4> QED  BY <1>8, <2>1, <3>2, <4>2 DEF Procured
    <3> QED  BY <3>3, <3>4
  <2> QED  BY <2>1, <2>2, <2>3, <2>4, <2>5 DEF q
<1> QED  BY <1>1, <1>14, <1>15

(***************************************************************************)
(* The write of a line, with all it starts                                 *)
(***************************************************************************)

\* What two changes keep, both keep.
LEMMA KeptTrans ==
    ASSUME NEW r, NEW x, NEW q, Kept(r, x), Kept(x, q)
    PROVE  Kept(r, q)
BY DEF Kept

\* An order whose RFQs buy what is wanted.
Sound(r) == r \in SaleOrder /\ RfqShape(r) /\ Wanted(r, {})

\* What the write of status s on the lines W makes of r.
Written(r, q, W, s) ==
    /\ q.status = [l \in Line |-> IF l \in W THEN s ELSE r.status[l]]
    /\ q.sdk = OrderStatus(q)
    /\ Kept(r, q)
    /\ s \in Closing => q.pending \intersect W = {}
    /\ CancelsFor(r, q, {l \in W : s \in Gone})
    /\ Stays(r, q, {l \in W : s \in Gone})

\* A line that does not exist yet has no status.
LEMMA NoStatus == "none" \notin Statuses
BY DEF Statuses, Manual, InFlight

\* What goes before and does not read the RFQs.
Marked(r, w, W, s) ==
    /\ w \in SaleOrder
    /\ w.status = [l \in Line |-> IF l \in W THEN s ELSE r.status[l]]
    /\ w.pending = r.pending \ (IF s \in Closing THEN W ELSE {})
    /\ r.asked /\ w.pending # {} => w.asked
    /\ w.state = r.state /\ w.po = r.po /\ w.buys = r.buys
    /\ w.replacedBy = r.replacedBy /\ w.request = r.request /\ w.packed = r.packed
    /\ r.zeroed \subseteq w.zeroed /\ (s \in Gone => W \subseteq w.zeroed)

\* Writing the statuses alone keeps the shape of the RFQs, and closes the pending
\* replacements among the lines written.
LEMMA MarkedFacts ==
    ASSUME NEW r, Sound(r), NEW W \in SUBSET Present(r), NEW s \in Statuses,
           NEW w, Marked(r, w, W, s)
    PROVE  /\ RfqShape(w)
           /\ Kept(r, w)
           /\ s \in Closing => w.pending \intersect W = {}
<1>1. RfqShape(r) /\ W \subseteq Line /\ \A l \in W : r.status[l] # "none"
  BY DEF Sound, Present
<1>2. \A l \in Line : w.status[l] = IF l \in W THEN s ELSE r.status[l]
  BY DEF Marked
<1>3. RfqShape(w)
  BY <1>1, <1>2, NoStatus DEF RfqShape, Marked
<1>4. Present(w) = Present(r)
  BY <1>1, <1>2, NoStatus DEF Present
<1>5. \A n \in Spares : Own(r, n) => Own(w, n)
  BY DEF Own, Marked
<1>6. Kept(r, w)
  BY <1>4, <1>5 DEF Kept, Marked
<1>7. s \in Closing => w.pending \intersect W = {}
  BY DEF Marked
<1> QED  BY <1>3, <1>6, <1>7

\* The write of a status on any lines, with all it starts (closing, zeroing,
\* confirming, dropping RFQs, computing the order's status), keeps the order sound
\* and changes the status of those lines only.
LEMMA WriteFacts ==
    ASSUME NEW r, Sound(r), NEW W \in SUBSET Present(r), NEW s \in Statuses, NEW ok
    PROVE  /\ Sound(WriteLines(r, W, s, ok))
           /\ Written(r, WriteLines(r, W, s, ok), W, s)
<1> DEFINE dying == {l \in W : r.status[l] \notin Gone /\ s \in Gone}
           entering == {l \in W : r.status[l] \in {"diamond_booked", "confirmed"}}
           closed == IF s \in Closing THEN W \cap r.pending ELSE {}
           zeroed == IF s \in Gone \union {"replaced"} THEN r.zeroed \union W
                                                       ELSE r.zeroed
           status == [l \in Line |-> IF l \in W THEN s ELSE r.status[l]]
           asked == r.asked /\ ~(closed # {} /\ r.pending = closed)
           w == [r EXCEPT !.status = status, !.pending = @ \ closed,
                          !.asked = asked, !.zeroed = zeroed]
           d == DropRfq(w, dying)
           q == IF ok /\ s = "in_qc_process" /\ entering # {} THEN AutoQc(d) ELSE d
           e == WriteLines(r, W, s, ok)
           D == {l \in W : s \in Gone}
<1>1. r \in SaleOrder /\ RfqShape(r) /\ Wanted(r, {}) /\ W \subseteq Line
  BY DEF Sound, Present
<1>2. e = Computed(q)
  <2>1. w = [r EXCEPT
              !.status = [l \in Line |-> IF l \in W THEN s ELSE r.status[l]],
              !.pending = @ \ closed,
              !.asked = @ /\ ~(closed # {} /\ r.pending = closed),
              !.zeroed = IF s \in {"cancelled", "not_available"} \union {"replaced"}
                           THEN @ \union W ELSE @]
    BY <1>1 DEF SaleOrder, Gone
  <2>2. dying = {l \in W : r.status[l] \notin {"cancelled", "not_available"}
                           /\ s \in {"cancelled", "not_available"}}
    BY DEF Gone
  <2> HIDE DEF w, dying
  <2> QED  BY <2>1, <2>2 DEF WriteLines
<1>3. /\ w \in SaleOrder /\ RfqShape(w)
      /\ w.status = [l \in Line |-> IF l \in W THEN s ELSE r.status[l]]
      /\ w.po = r.po /\ w.buys = r.buys
      /\ Kept(r, w)
      /\ s \in Closing => w.pending \intersect W = {}
      /\ s \in Gone => W \subseteq w.zeroed
  <2>1. closed = (IF s \in Closing THEN W \cap r.pending ELSE {})
    OBVIOUS
  <2>2. zeroed \in SUBSET Line /\ r.zeroed \subseteq zeroed /\ (s \in Gone => W \subseteq zeroed)
    BY <1>1 DEF SaleOrder
  <2>3. asked \in BOOLEAN /\ (r.asked /\ r.pending # closed => asked)
    OBVIOUS
  <2>4. status = [l \in Line |-> IF l \in W THEN s ELSE r.status[l]]
    OBVIOUS
  <2>5. status \in [Line -> Statuses \union {"none"}]
    BY <1>1 DEF SaleOrder
  <2> HIDE DEF closed, zeroed, asked, status
  <2>6. /\ w \in SaleOrder /\ w.status = status /\ w.pending = r.pending \ closed
        /\ w.asked = asked /\ w.zeroed = zeroed
        /\ w.state = r.state /\ w.po = r.po /\ w.buys = r.buys
        /\ w.replacedBy = r.replacedBy /\ w.request = r.request /\ w.packed = r.packed
    BY <1>1, <2>2, <2>3, <2>5 DEF SaleOrder
  <2> HIDE DEF w
  <2>7. w.pending = r.pending \ (IF s \in Closing THEN W ELSE {})
    BY <2>1, <2>6
  <2>8. r.asked /\ w.pending # {} => w.asked
    <3>1. w.pending # {} => r.pending # closed
      BY <2>6
    <3> QED  BY <2>3, <2>6, <3>1
  <2>9. Marked(r, w, W, s)
    BY <2>2, <2>4, <2>6, <2>7, <2>8 DEF Marked
  <2>10. RfqShape(w) /\ Kept(r, w) /\ (s \in Closing => w.pending \intersect W = {})
    BY <2>9, MarkedFacts
  <2> QED  BY <2>2, <2>4, <2>6, <2>10
<1>4. dying \in SUBSET Line /\ dying \subseteq D
  BY <1>1
<1>5. \A l \in Line : l \in dying <=> l \in W /\ r.status[l] \notin Gone /\ s \in Gone
  BY <1>1
<1> HIDE DEF w, dying, status, asked, zeroed, closed
<1>6. Wanted(w, dying)
  BY <1>1, <1>3, <1>5 DEF Wanted
<1>7. /\ d \in SaleOrder /\ RfqShape(d) /\ d.status = w.status
      /\ Kept(w, d) /\ Stays(w, d, dying) /\ CancelsFor(w, d, dying)
      /\ Wanted(d, {})
  <2>1. dying \subseteq w.zeroed
    BY <1>3, <1>4, <1>5
  <2> QED  BY <1>3, <1>4, <1>6, <2>1, DropRfqFacts
<1> HIDE DEF d
<1>8. Stays(r, d, D) /\ CancelsFor(r, d, D)
  <2>1. On(w, d) = On(r, d) /\ \A p \in PO : On(w, p) = On(r, p)
    BY <1>3 DEF On
  <2>2. Stays(r, d, D)
    BY <1>3, <1>4, <1>7 DEF Stays
  <2>3. CancelsFor(r, d, D)
    <3> HIDE DEF D
    <3> QED  BY <1>3, <1>4, <1>7, <2>1 DEF CancelsFor
  <2> QED  BY <2>2, <2>3
<1>9. Procured(d, q) /\ q \in SaleOrder /\ RfqShape(q)
  BY <1>7, AutoQcProcures, ProcuredRefl
<1> HIDE DEF q
<1>10. q.status = w.status /\ Kept(d, q) /\ Wanted(q, {}) /\ Kept(r, q)
  <2>1. q.status = d.status /\ Kept(d, q) /\ Wanted(q, {})
    BY <1>7, <1>9 DEF Procured
  <2>2. Kept(r, d)
    BY <1>3, <1>7, KeptTrans
  <2>3. Kept(r, q)
    BY <2>1, <2>2, KeptTrans
  <2> QED  BY <1>7, <2>1, <2>3
<1>11. CancelsFor(r, q, D)
  <2> HIDE DEF D
  <2>1. \A p \in PO : q.po[p] = "cancel" => d.po[p] = "cancel"
    BY <1>9 DEF Procured
  <2> QED  BY <1>7, <1>8, <1>10, <2>1 DEF CancelsFor
<1>12. Stays(r, q, D)
  <2>1. SUFFICES ASSUME NEW l \in Line \ D, r.buys[l] # NoPo, r.po[r.buys[l]] = "draft"
                 PROVE  q.buys[l] = r.buys[l]
    BY DEF Stays
  <2>2. d.buys[l] = r.buys[l]
    BY <1>8, <2>1 DEF Stays
  <2>3. r.buys[l] \in PO /\ l \in On(r, r.buys[l])
    BY <1>1, <2>1 DEF SaleOrder, On
  <2>4. d.po[r.buys[l]] = "cancel" => d.status[l] \in Dead
    BY <1>8, <2>1, <2>3 DEF CancelsFor
  <2>5. d.status[l] \in Dead => d.status[l] # "confirmed"
    BY DEF Dead
  <2>6. d.status[l] # "confirmed" => q.buys[l] = d.buys[l]
    BY <1>9 DEF Procured
  <2>7. d.po[r.buys[l]] # "cancel" => q.buys[l] = d.buys[l]
    BY <1>9, <2>1, <2>2 DEF Procured
  <2> QED  BY <2>2, <2>4, <2>5, <2>6, <2>7
<1>13. /\ e \in SaleOrder
       /\ e.state = q.state /\ e.status = q.status /\ e.po = q.po /\ e.buys = q.buys
       /\ e.replacedBy = q.replacedBy /\ e.pending = q.pending /\ e.asked = q.asked
       /\ e.request = q.request /\ e.packed = q.packed /\ e.zeroed = q.zeroed
       /\ e.sdk = OrderStatus(e)
  BY <1>2, <1>9, ComputedFacts
<1> HIDE DEF e
<1>14. RfqShape(e) /\ Wanted(e, {})
  BY <1>9, <1>10, <1>13 DEF RfqShape, Wanted
<1>15. Kept(r, e)
  <2>1. Present(e) = Present(q) /\ \A n \in Spares : Own(q, n) => Own(e, n)
    BY <1>13 DEF Present, Own
  <2> QED  BY <1>10, <1>13, <2>1 DEF Kept
<1>16. s \in Closing => e.pending \intersect W = {}
  BY <1>3, <1>7, <1>10, <1>13 DEF Kept
<1>17. CancelsFor(r, e, D)
  <2> HIDE DEF D
  <2> QED  BY <1>11, <1>13 DEF CancelsFor
<1>18. Stays(r, e, D)
  BY <1>12, <1>13 DEF Stays
<1> QED  BY <1>3, <1>10, <1>13, <1>14, <1>15, <1>16, <1>17, <1>18 DEF Sound, Written, e

(***************************************************************************)
(* Cancelling: line after line                                             *)
(***************************************************************************)
Step(r, f, i) ==
    IF i = 0 THEN r
    ELSE LET l == LineSeq[i]
         IN  IF f[i - 1].status[l] = "none" THEN f[i - 1]
             ELSE WriteLines(f[i - 1], {l}, "cancelled", TRUE)

\* The order after each of the first k lines.
Run(r, f, k) == f = [i \in 0..k |-> Step(r, f, i)]

\* The cancellation of one line after the other is defined for every number of lines.
LEMMA RunExists ==
    ASSUME NEW r
    PROVE  \E f : Run(r, f, Len(LineSeq))
<1> DEFINE N == Len(LineSeq)
           S == {k \in 0..N : \E f : Run(r, f, k)}
<1>1. N \in Nat
  OBVIOUS
<1>2. 0 \in S
  <2> DEFINE f == [i \in 0..0 |-> r]
  <2>1. \A i \in 0..0 : Step(r, f, i) = r
    BY DEF Step
  <2>2. Run(r, f, 0)
    BY <2>1 DEF Run
  <2> QED  BY <1>1, <2>2
<1>3. ASSUME NEW k \in 0..N, k # N, k \in S PROVE k + 1 \in S
  <2>1. PICK f : Run(r, f, k)
    BY <1>3
  <2> DEFINE g == [i \in 0..(k + 1) |-> IF i <= k THEN f[i] ELSE Step(r, f, k + 1)]
  <2>2. ASSUME NEW i \in 0..(k + 1) PROVE g[i] = Step(r, g, i)
    <3>1. i = 0 \/ g[i - 1] = f[i - 1]
      OBVIOUS
    <3>2. Step(r, g, i) = Step(r, f, i)
      <4> HIDE DEF g
      <4> QED  BY <3>1 DEF Step
    <3>3. i <= k => f[i] = Step(r, f, i)
      <4> HIDE DEF g
      <4> QED  BY <2>1 DEF Run
    <3>4. i <= k \/ i = k + 1
      OBVIOUS
    <3> QED  BY <3>2, <3>3, <3>4
  <2>3. g = [i \in 0..(k + 1) |-> g[i]]
    OBVIOUS
  <2> HIDE DEF g
  <2>4. Run(r, g, k + 1)
    BY <2>2, <2>3 DEF Run
  <2>5. k + 1 \in 0..N
    BY <1>1, <1>3
  <2> QED  BY <2>4, <2>5
<1> HIDE DEF S
<1>4. 0..N \subseteq S
  BY <1>1, <1>2, <1>3, UpTo
<1> QED  BY <1>1, <1>4 DEF S

\* CancelLines is the last order of that run.
LEMMA CancelRun ==
    ASSUME NEW r
    PROVE  \E f : Run(r, f, Len(LineSeq)) /\ CancelLines(r) = f[Len(LineSeq)]
<1> DEFINE f == CHOOSE f : f = [i \in 0..Len(LineSeq) |-> Step(r, f, i)]
<1>1. f = [i \in 0..Len(LineSeq) |-> Step(r, f, i)]
  BY RunExists DEF Run
<1>2. CancelLines(r) = f[Len(LineSeq)]
  BY DEF CancelLines, Step
<1> HIDE DEF f
<1> QED  BY <1>1, <1>2 DEF Run

\* The order's status is the one its lines give, but for the case of a payment.
Follows(r) == r.sdk # OrderStatus(r) => r.packed /\ r.sdk = "Payment Completed"

\* The first k lines are cancelled.
CancelledTo(r, q, k) ==
    /\ Sound(q) /\ Kept(r, q)
    /\ \A l \in Line : q.status[l] \in {r.status[l], "cancelled"}
    /\ \A i \in 1..k : q.status[LineSeq[i]] \in {"none", "cancelled"}
    /\ \A n \in q.pending : q.status[n] = r.status[n]
    /\ Follows(r) => Follows(q)

\* After the run every line is cancelled; the order is sound after each line,
\* whatever the order of the lines, and nothing else has moved.
LEMMA CancelLinesFacts ==
    ASSUME NEW r, Sound(r)
    PROVE  CancelledTo(r, CancelLines(r), Len(LineSeq))
<1> DEFINE N == Len(LineSeq)
<1>1. PICK f : Run(r, f, N) /\ CancelLines(r) = f[N]
  BY CancelRun
<1> DEFINE S == {k \in 0..N : CancelledTo(r, f[k], k)}
<1>2. N \in Nat /\ \A i \in 1..N : LineSeq[i] \in Line
  BY DEF Line
<1>3. \A i \in 0..N : f[i] = Step(r, f, i)
  BY <1>1 DEF Run
<1>4. 0 \in S
  <2>1. f[0] = r
    <3>1. f[0] = Step(r, f, 0)
      BY <1>2, <1>3
    <3> QED  BY <3>1 DEF Step
  <2>2. CancelledTo(r, r, 0)
    BY DEF CancelledTo, Kept
  <2> QED  BY <1>2, <2>1, <2>2
<1>5. ASSUME NEW k \in 0..N, k # N, k \in S PROVE k + 1 \in S
  <2> DEFINE l == LineSeq[k + 1]
             x == f[k]
             y == f[k + 1]
  <2>1. k + 1 \in 1..N /\ l \in Line
    BY <1>2, <1>5
  <2>2. CancelledTo(r, x, k)
    BY <1>5
  <2>3. y = IF x.status[l] = "none" THEN x ELSE WriteLines(x, {l}, "cancelled", TRUE)
    <3>1. y = Step(r, f, k + 1)
      BY <1>2, <1>3, <2>1
    <3>2. k + 1 # 0 /\ (k + 1) - 1 = k
      BY <1>2
    <3> QED  BY <3>1, <3>2 DEF Step
  <2>4. k + 1 \in 0..N /\ k \in Nat
    BY <1>2, <2>1
  <2> HIDE DEF x, y, l
  <2>5. CASE x.status[l] = "none"
    <3>1. y = x
      BY <2>3, <2>5
    <3>2. \A i \in 1..(k + 1) : y.status[LineSeq[i]] \in {"none", "cancelled"}
      <4>1. \A i \in 1..(k + 1) : i \in 1..k \/ i = k + 1
        BY <2>4
      <4> QED  BY <2>2, <2>5, <3>1, <4>1 DEF CancelledTo, l
    <3>3. CancelledTo(r, y, k + 1)
      BY <2>2, <3>1, <3>2 DEF CancelledTo
    <3> QED  BY <2>4, <3>3 DEF y
  <2>6. CASE x.status[l] # "none"
    <3>1. y = WriteLines(x, {l}, "cancelled", TRUE)
      BY <2>3, <2>6
    <3>2. Sound(x) /\ Kept(r, x) /\ x.status \in [Line -> Statuses \union {"none"}]
      BY <2>2 DEF CancelledTo, Sound, SaleOrder
    <3>3. {l} \in SUBSET Present(x) /\ "cancelled" \in Statuses
      BY <2>1, <2>6 DEF Present, Statuses, Manual
    <3>4. Sound(y) /\ Written(x, y, {l}, "cancelled")
      BY <3>1, <3>2, <3>3, WriteFacts
    <3>5. /\ \A m \in Line : y.status[m] = IF m = l THEN "cancelled" ELSE x.status[m]
          /\ Kept(x, y) /\ Follows(y)
      BY <3>4 DEF Written, Follows
    <3>6. Kept(r, y)
      BY <3>2, <3>5, KeptTrans
    <3>7. \A m \in Line : y.status[m] \in {r.status[m], "cancelled"}
      BY <2>2, <3>5 DEF CancelledTo
    <3>8. \A i \in 1..(k + 1) : y.status[LineSeq[i]] \in {"none", "cancelled"}
      <4>1. \A i \in 1..(k + 1) : i \in 1..k \/ i = k + 1
        BY <2>4
      <4>2. \A i \in 1..(k + 1) : LineSeq[i] \in Line
        BY <1>2, <2>1
      <4>3. y.status[LineSeq[k + 1]] = "cancelled"
        BY <2>1, <3>5 DEF l
      <4>4. ASSUME NEW i \in 1..k PROVE y.status[LineSeq[i]] \in {"none", "cancelled"}
        <5>1. x.status[LineSeq[i]] \in {"none", "cancelled"}
          BY <2>2 DEF CancelledTo
        <5>2. LineSeq[i] \in Line
          BY <2>4, <4>2
        <5> QED  BY <3>5, <5>1, <5>2
      <4> QED  BY <4>1, <4>3, <4>4
    <3>9. \A n \in y.pending : y.status[n] = r.status[n]
      <4>1. y.pending \subseteq x.pending /\ x.pending \subseteq Line
        BY <2>2, <3>5 DEF Kept, CancelledTo, Sound, SaleOrder
      <4>2. l \notin y.pending
        BY <3>4 DEF Written, Closing
      <4> QED  BY <2>2, <3>5, <4>1, <4>2 DEF CancelledTo
    <3>10. CancelledTo(r, y, k + 1)
      BY <3>4, <3>5, <3>6, <3>7, <3>8, <3>9 DEF CancelledTo
    <3> QED  BY <2>4, <3>10 DEF y
  <2> QED  BY <2>5, <2>6
<1> HIDE DEF S
<1>6. 0..N \subseteq S
  BY <1>2, <1>4, <1>5, UpTo
<1>7. N \in S
  BY <1>2, <1>6
<1> QED  BY <1>1, <1>7 DEF S

(***************************************************************************)
(* What the steps of an order have in common                               *)
(***************************************************************************)

\* Users and the website close no line as replaced or returned from memo.
Honest == SiteStatuses \intersect {"replaced", "memo_returned"} = {}

\* Sales is asked about lines that can be accepted.
Acceptable(r) == \A n \in r.pending : r.status[n] \notin Unprintable

\* What every step of the order does to the links between its lines.
Evolves(r, q) ==
    /\ Sound(q)
    /\ q.replacedBy = r.replacedBy
    /\ q.pending \subseteq r.pending
    /\ r.asked /\ q.pending # {} => q.asked
    /\ Present(r) \subseteq Present(q)
    /\ \A n \in Spares : Own(r, n) => Own(q, n)
    /\ Honest => \A l \in Line : q.status[l] = "replaced" => r.status[l] = "replaced"
    /\ Honest /\ Acceptable(r) => Acceptable(q)
    /\ Present(r) # {} /\ Follows(r) => Follows(q)

\* An RFQ is cancelled when no stone on it is wanted at the end.
OnlyDead(r, q) ==
    \A p \in PO : r.po[p] = "draft" /\ q.po[p] = "cancel" =>
        \A l \in On(r, p) : q.status[l] \in Dead

NoCancel(r, q) == \A p \in PO : q.po[p] = "cancel" => r.po[p] = "cancel"

\* Nothing is left to sell, nor on order.
AllCancelled(q) ==
    /\ \A l \in Present(q) : q.status[l] = "cancelled"
    /\ \A l \in Present(q) : q.buys[l] # NoPo => q.po[q.buys[l]] # "draft"

\* Two legal changes are one.
LEMMA EvolvesTrans ==
    ASSUME NEW r, NEW x, NEW q, Evolves(r, x), Evolves(x, q)
    PROVE  Evolves(r, q)
<1>1. Present(r) # {} => Present(x) # {}
  BY DEF Evolves
<1> QED  BY <1>1 DEF Evolves

\* A write of a status is a legal change; it cancels an RFQ only when all it buys is
\* dead, and none at all unless the status takes a line away.
LEMMA WriteEvolves ==
    ASSUME NEW r, Sound(r), NEW W \in SUBSET Present(r), NEW s \in Statuses, NEW ok,
           Honest => s \notin {"replaced", "memo_returned"}
    PROVE  LET q == WriteLines(r, W, s, ok)
           IN  /\ Evolves(r, q)
               /\ OnlyDead(r, q)
               /\ s \notin Gone => NoCancel(r, q)
               /\ q.request = r.request /\ q.packed = r.packed
<1> DEFINE q == WriteLines(r, W, s, ok)
<1>1. Sound(q) /\ Written(r, q, W, s)
  BY WriteFacts
<1> HIDE DEF q
<1>2. W \subseteq Line
  BY DEF Present
<1>3. \A l \in Line : q.status[l] = IF l \in W THEN s ELSE r.status[l]
  BY <1>1 DEF Written
<1>4. Kept(r, q) /\ Follows(q)
  BY <1>1 DEF Written, Follows
<1>5. q.pending \subseteq r.pending /\ r.pending \subseteq Line
  BY <1>4 DEF Kept, Sound, SaleOrder
<1>6. Honest => \A l \in Line : q.status[l] = "replaced" => r.status[l] = "replaced"
  BY <1>3
<1>7. ASSUME Honest, Acceptable(r) PROVE Acceptable(q)
  <2>1. SUFFICES ASSUME NEW n \in q.pending, q.status[n] \in Unprintable PROVE FALSE
    BY DEF Acceptable
  <2>2. n \in Line /\ n \in r.pending
    BY <1>5
  <2>3. n \in W /\ s \in Unprintable
    BY <1>3, <1>7, <2>1, <2>2 DEF Acceptable
  <2>4. s \in Closing
    BY <1>7, <2>3 DEF Unprintable, Dead, Closing
  <2> QED  BY <1>1, <2>1, <2>3, <2>4 DEF Written
<1>8. OnlyDead(r, q)
  BY <1>1 DEF Written, CancelsFor, OnlyDead
<1>9. s \notin Gone => NoCancel(r, q)
  BY <1>1 DEF Written, CancelsFor, NoCancel
<1> QED  BY <1>1, <1>4, <1>6, <1>7, <1>8, <1>9 DEF Evolves, Kept, q

\* So is the cancellation of the whole order, after which every line is cancelled.
LEMMA CancelledEvolves ==
    ASSUME NEW r, Sound(r), NEW asks
    PROVE  LET q == Cancelled(r, asks)
           IN  /\ Evolves(r, q)
               /\ OnlyDead(r, q)
               /\ AllCancelled(q)
               /\ q.request = r.request /\ q.packed = r.packed
               /\ Present(q) = Present(r)
<1> DEFINE c == CancelLines(r)
           q == Cancelled(r, asks)
<1>1. CancelledTo(r, c, Len(LineSeq))
  BY CancelLinesFacts
<1>2. q = c \/ q = [c EXCEPT !.state = "cancel", !.sdk = "Cancelled"]
  BY DEF Cancelled
<1> HIDE DEF c, q
<1>3. Sound(c) /\ Kept(r, c) /\ (Follows(r) => Follows(c))
  BY <1>1 DEF CancelledTo
<1>4. c \in SaleOrder /\ RfqShape(c) /\ Wanted(c, {})
  BY <1>3 DEF Sound
<1>5. /\ q \in SaleOrder /\ q.status = c.status /\ q.po = c.po /\ q.buys = c.buys
      /\ q.replacedBy = c.replacedBy /\ q.pending = c.pending /\ q.asked = c.asked
      /\ q.request = c.request /\ q.packed = c.packed /\ q.zeroed = c.zeroed
      /\ q = c \/ (q.state = "cancel" /\ q.sdk = "Cancelled")
  <2>1. CASE q = c
    BY <1>4, <2>1
  <2>2. CASE q = [c EXCEPT !.state = "cancel", !.sdk = "Cancelled"]
    <3>1. "Cancelled" \in OrderStatuses
      BY DEF OrderStatuses
    <3> HIDE DEF OrderStatuses
    <3> QED  BY <1>4, <2>2, <3>1 DEF SaleOrder
  <2> QED  BY <1>2, <2>1, <2>2
<1>6. Sound(q)
  BY <1>4, <1>5 DEF Sound, RfqShape, Wanted
<1>7. Present(q) = Present(r) /\ Present(q) = Present(c)
  BY <1>3, <1>5 DEF Present, Kept
<1>8. \A l \in Line : c.status[l] \in {"none", "cancelled"}
  BY <1>1 DEF CancelledTo, Line
<1>9. \A l \in Line : q.status[l] \in {"none", "cancelled"}
  BY <1>5, <1>8
<1>10. AllCancelled(q)
  BY <1>6, <1>9 DEF AllCancelled, Present, Sound, Wanted, Gone
<1>11. OnlyDead(r, q)
  <2>1. \A p \in PO : \A l \in On(r, p) : l \in Present(r)
    BY DEF On, Present, Sound, RfqShape, PO
  <2>2. \A l \in Present(r) : q.status[l] = "cancelled"
    BY <1>7, <1>10 DEF AllCancelled
  <2> QED  BY <2>1, <2>2 DEF OnlyDead, Dead
<1>12. ASSUME Present(r) # {}, Follows(r) PROVE Follows(q)
  <2>1. CASE q = c
    BY <1>3, <1>12, <2>1
  <2>2. CASE q.state = "cancel" /\ q.sdk = "Cancelled"
    <3>1. \A S : S # {} => StatusOf(TRUE, S) = "Cancelled"
      BY DEF StatusOf
    <3>2. PICK l \in Present(q) : TRUE
      BY <1>7, <1>12
    <3>3. OrderStatus(q) = "Cancelled"
      <4>1. q.status[l] \in {q.status[m] : m \in Present(q)}
        BY <3>2
      <4> QED  BY <2>2, <3>1, <4>1 DEF OrderStatus
    <3> QED  BY <2>2, <3>3 DEF Follows
  <2> QED  BY <1>5, <2>1, <2>2
<1>13. \A n \in Spares : Own(r, n) => Own(q, n)
  BY <1>3, <1>5 DEF Kept, Own
<1>14. Acceptable(r) => Acceptable(q)
  <2>1. SUFFICES ASSUME Acceptable(r), NEW n \in q.pending PROVE q.status[n] \notin Unprintable
    BY DEF Acceptable
  <2>2. n \in c.pending /\ n \in r.pending
    BY <1>3, <1>5, <2>1 DEF Kept
  <2>3. q.status[n] = r.status[n]
    BY <1>1, <1>5, <2>2 DEF CancelledTo
  <2> QED  BY <2>1, <2>2, <2>3 DEF Acceptable
<1> QED  BY <1>3, <1>5, <1>6, <1>7, <1>9, <1>10, <1>11, <1>12, <1>13, <1>14 DEF Evolves, Kept, q

\* A step of an order.
Steps(r, q) ==
    /\ Evolves(r, q)
    /\ OnlyDead(r, q)
    /\ r.request = "pending" /\ q.request = "approved" =>
         AllCancelled(q) /\ Present(q) = Present(r)

\* An RFQ that is cancelled when every line is cancelled had only dead lines.
LEMMA CancelledOnlyDead ==
    ASSUME NEW r, Sound(r), NEW q, Present(r) \subseteq Present(q), AllCancelled(q)
    PROVE  OnlyDead(r, q)
<1>1. \A p \in PO : \A l \in On(r, p) : l \in Present(r)
  BY DEF On, Present, Sound, RfqShape, PO
<1> QED  BY <1>1 DEF OnlyDead, AllCancelled, Dead

\* Steps that only confirm and procure.
LEMMA ProcuredEvolves ==
    ASSUME NEW r, Sound(r), NEW q \in SaleOrder, RfqShape(q), Procured(r, q), Follows(q)
    PROVE  /\ Evolves(r, q) /\ NoCancel(r, q) /\ OnlyDead(r, q)
           /\ q.request = r.request
<1>1. Wanted(q, {}) /\ Kept(r, q) /\ q.status = r.status /\ NoCancel(r, q)
  BY DEF Procured, Sound, NoCancel
<1>2. \A n \in q.pending : n \in r.pending
  BY <1>1 DEF Kept
<1>3. Acceptable(r) => Acceptable(q)
  BY <1>1, <1>2 DEF Acceptable
<1>4. OnlyDead(r, q)
  BY <1>1 DEF OnlyDead, NoCancel
<1> QED  BY <1>1, <1>3, <1>4 DEF Evolves, Kept, Sound

\* A computed status follows the lines.
LEMMA ComputedFollows ==
    ASSUME NEW r, Sound(r)
    PROVE  /\ Evolves(r, Computed(r)) /\ NoCancel(r, Computed(r)) /\ Follows(Computed(r))
           /\ Computed(r).request = r.request /\ Computed(r).status = r.status
           /\ Computed(r).state = r.state
<1> DEFINE q == Computed(r)
<1>1. /\ q \in SaleOrder
      /\ q.state = r.state /\ q.status = r.status
      /\ q.po = r.po /\ q.buys = r.buys
      /\ q.replacedBy = r.replacedBy
      /\ q.pending = r.pending /\ q.asked = r.asked
      /\ q.request = r.request
      /\ q.packed = r.packed /\ q.zeroed = r.zeroed
      /\ q.sdk = OrderStatus(q)
  BY ComputedFacts DEF Sound
<1> HIDE DEF q
<1>2. Sound(q)
  BY <1>1 DEF Sound, RfqShape, Wanted
<1>3. Present(q) = Present(r) /\ \A n \in Spares : Own(r, n) => Own(q, n)
  BY <1>1 DEF Present, Own
<1>4. Acceptable(r) => Acceptable(q)
  BY <1>1 DEF Acceptable
<1> QED  BY <1>1, <1>2, <1>3, <1>4 DEF Evolves, Follows, NoCancel, q

\* A step that leaves lines and RFQs alone.
LEMMA AsideEvolves ==
    ASSUME NEW r, Sound(r), NEW q \in SaleOrder,
           q.state = r.state, q.status = r.status, q.po = r.po, q.buys = r.buys,
           q.replacedBy = r.replacedBy, q.pending = r.pending, q.asked = r.asked,
           q.zeroed = r.zeroed,
           Follows(r) => Follows(q)
    PROVE  Evolves(r, q) /\ NoCancel(r, q) /\ OnlyDead(r, q)
<1>1. Sound(q)
  BY DEF Sound, RfqShape, Wanted
<1>2. Present(q) = Present(r) /\ \A n \in Spares : Own(r, n) => Own(q, n)
  BY DEF Present, Own
<1>3. Acceptable(r) => Acceptable(q)
  BY DEF Acceptable
<1> QED  BY <1>1, <1>2, <1>3 DEF Evolves, NoCancel, OnlyDead

\* The computed status depends on the state and the lines only.
LEMMA SameStatus ==
    ASSUME NEW r, NEW q, q.state = r.state, q.status = r.status
    PROVE  OrderStatus(q) = OrderStatus(r)
BY DEF OrderStatus, Present

\* Payment Completed, written on a packed order, raises the lines behind it; it is a
\* legal change that cancels nothing.
LEMMA PaidEvolves ==
    ASSUME NEW r, Sound(r), r.packed
    PROVE  /\ Evolves(r, PaidOrder(r)) /\ NoCancel(r, PaidOrder(r))
           /\ PaidOrder(r).request = r.request
<1> DEFINE behind == {l \in Line : r.status[l] \in
                       {"diamond_booked", "confirmed", "in_qc_process", "payment_pending"}}
           q == [r EXCEPT !.sdk = "Payment Completed"]
           x == WriteLines(r, behind, "payment_completed", TRUE)
<1>1. PaidOrder(r) = IF behind = {} THEN q ELSE x
  BY DEF PaidOrder
<1>2. behind \in SUBSET Present(r)
  BY DEF Present
<1>3. "payment_completed" \in Statuses /\ "payment_completed" \notin Gone
  BY DEF Statuses, InFlight, Gone
<1> HIDE DEF behind
<1>4. Evolves(r, x) /\ NoCancel(r, x) /\ x.request = r.request
  <2>1. Honest => "payment_completed" \notin {"replaced", "memo_returned"}
    OBVIOUS
  <2> HIDE DEF q
  <2> QED  BY ONLY <1>2, <1>3, <2>1, WriteEvolves, Sound(r)
<1> HIDE DEF x
<1>5. Evolves(r, q) /\ NoCancel(r, q) /\ q.request = r.request
  <2>1. r \in SaleOrder /\ "Payment Completed" \in OrderStatuses
    BY DEF Sound, OrderStatuses
  <2>2. /\ q \in SaleOrder
        /\ q.state = r.state /\ q.status = r.status /\ q.po = r.po /\ q.buys = r.buys
        /\ q.replacedBy = r.replacedBy /\ q.pending = r.pending /\ q.asked = r.asked
        /\ q.sdk = "Payment Completed" /\ q.packed = r.packed /\ q.request = r.request
        /\ q.zeroed = r.zeroed
    BY <2>1 DEF SaleOrder
  <2> HIDE DEF q
  <2>3. Follows(q)
    BY <2>2 DEF Follows
  <2> QED  BY <2>2, <2>3, AsideEvolves
<1> QED  BY <1>1, <1>4, <1>5

(***************************************************************************)
(* The order: users, the website, payments                                 *)
(***************************************************************************)

\* A step that writes a status is a legal step of the order.
LEMMA WriteSteps ==
    ASSUME Sound(so), NEW W \in SUBSET Present(so), NEW s \in Statuses, NEW ok,
           Honest => s \notin {"replaced", "memo_returned"},
           so' = WriteLines(so, W, s, ok)
    PROVE  Steps(so, so')
<1> DEFINE q == WriteLines(so, W, s, ok)
<1>1. Evolves(so, q) /\ OnlyDead(so, q) /\ q.request = so.request
  BY WriteEvolves
<1> HIDE DEF q
<1>2. so' = q
  BY DEF q
<1> QED  BY <1>1, <1>2 DEF Steps

\* A step that ends with the cancellation of the order is one, too.
LEMMA CancelledSteps ==
    ASSUME NEW r, Sound(r), NEW x, Evolves(r, x), Present(x) = Present(r), NEW asks,
           NEW q, q = Cancelled(x, asks)
    PROVE  Steps(r, q)
<1>1. Sound(x)
  BY DEF Evolves
<1>2. Evolves(x, q) /\ AllCancelled(q) /\ Present(q) = Present(x)
  BY <1>1, CancelledEvolves
<1>3. Evolves(r, q)
  BY <1>2, EvolvesTrans
<1>4. OnlyDead(r, q)
  BY <1>2, CancelledOnlyDead
<1> QED  BY <1>2, <1>3, <1>4 DEF Steps

\* An order that is left alone changes legally.
LEMMA EvolvesRefl ==
    ASSUME NEW r, Sound(r)
    PROVE  Evolves(r, r)
BY DEF Evolves

\* Cancelling the order at the end of the wizard.
LEMMA FinishSteps ==
    ASSUME Sound(so), OrderTypeOK, NEW asks \in Asks, Finish(so, asks)
    PROVE  Steps(so, so') /\ OrderTypeOK'
<1>1. so' = Cancelled(so, asks)
  BY DEF Finish
<1>2. Steps(so, so')
  BY <1>1, EvolvesRefl, CancelledSteps
<1>3. so' \in SaleOrder
  BY <1>2 DEF Steps, Evolves, Sound
<1>4. wizard' \in BOOLEAN /\ cancelling' \in {"no", "first", "second"} /\ edits' \in 0..MaxEdits
  BY DEF Finish, OrderTypeOK
<1> QED  BY <1>2, <1>3, <1>4 DEF OrderTypeOK

\* The statuses a user edits.
LEMMA SetAvailabilitySteps ==
    ASSUME Sound(so), OrderTypeOK, NEW W \in Selections, NEW s \in Manual,
           SetAvailability(W, s)
    PROVE  Steps(so, so') /\ OrderTypeOK'
<1>1. W \in SUBSET Present(so)
  BY DEF SetAvailability, CanEdit, Present
<1>2. s \in Statuses /\ s \notin {"replaced", "memo_returned"}
  BY DEF Statuses, Manual
<1>3. Steps(so, so')
  BY <1>1, <1>2, WriteSteps DEF SetAvailability
<1>4. edits' \in 0..MaxEdits
  BY DEF SetAvailability, Edit, OrderTypeOK
<1> QED  BY <1>3, <1>4 DEF Steps, Evolves, Sound, OrderTypeOK, SetAvailability

\* A line added by hand.
LEMMA CreateLineSteps ==
    ASSUME Sound(so), OrderTypeOK, NEW n \in Spares, CreateLine(n)
    PROVE  Steps(so, so') /\ OrderTypeOK'
<1> DEFINE status == [so.status EXCEPT ![n] = "diamond_booked"]
           x == [so EXCEPT !.status[n] = "diamond_booked"]
<1>1. so \in SaleOrder /\ so.status[n] = "none" /\ n \in Line /\ RfqShape(so) /\ Wanted(so, {})
  BY DEF OrderTypeOK, CreateLine, Fresh, Sound
<1>2. "diamond_booked" \in Statuses /\ "diamond_booked" \notin Unprintable \union Gone
  BY DEF Statuses, Manual, Unprintable, Dead, Gone
<1>3. status \in [Line -> Statuses \union {"none"}]
  BY <1>1, <1>2 DEF SaleOrder
<1>4. /\ x \in SaleOrder /\ x.status = status
      /\ x.state = so.state /\ x.po = so.po /\ x.buys = so.buys
      /\ x.replacedBy = so.replacedBy /\ x.pending = so.pending /\ x.asked = so.asked
      /\ x.request = so.request /\ x.packed = so.packed /\ x.zeroed = so.zeroed
  <2>1. x = [so EXCEPT !.status = status]
    BY <1>1 DEF SaleOrder
  <2> HIDE DEF status, x
  <2> QED  BY <1>1, <1>3, <2>1 DEF SaleOrder
<1>5. \A l \in Line : x.status[l] = IF l = n THEN "diamond_booked" ELSE so.status[l]
  BY <1>1, <1>4 DEF SaleOrder
<1>6. so' = Computed(x)
  BY DEF CreateLine
<1> HIDE DEF x, status
<1>7. Sound(x)
  BY <1>1, <1>2, <1>4, <1>5 DEF Sound, RfqShape, Wanted
<1>8. /\ Evolves(x, so') /\ NoCancel(x, so') /\ Follows(so')
      /\ so'.request = so.request
  BY <1>4, <1>6, <1>7, ComputedFollows
<1>9. Present(so) \subseteq Present(x)
  BY <1>2, <1>5, NoStatus DEF Present
<1>10. Acceptable(so) => Acceptable(x)
  BY <1>1, <1>2, <1>4, <1>5 DEF Acceptable, SaleOrder
<1>11. \A k \in Spares : Own(so, k) => Own(x, k)
  BY <1>4 DEF Own
<1>12. \A l \in Line : x.status[l] = "replaced" => so.status[l] = "replaced"
  BY <1>5
<1>13. Evolves(so, so')
  BY <1>4, <1>8, <1>9, <1>10, <1>11, <1>12 DEF Evolves
<1>14. OnlyDead(so, so')
  BY <1>4, <1>8 DEF NoCancel, OnlyDead
<1> QED  BY <1>8, <1>13, <1>14 DEF Steps, Evolves, Sound, OrderTypeOK, CreateLine

\* The confirmation.
LEMMA ConfirmWrapperSteps ==
    ASSUME Sound(so), OrderTypeOK, ConfirmWrapper
    PROVE  Steps(so, so') /\ OrderTypeOK'
<1>1. so' = Confirm(so) /\ so.state = "draft" /\ so \in SaleOrder /\ RfqShape(so)
  BY DEF ConfirmWrapper, Sound
<1>2. so' \in SaleOrder /\ RfqShape(so') /\ Procured(so, so')
  BY <1>1, ConfirmProcures
<1>3. Follows(so')
  BY <1>1, ConfirmFields DEF Follows
<1>4. Evolves(so, so') /\ OnlyDead(so, so') /\ so'.request = so.request
  BY <1>2, <1>3, ProcuredEvolves
<1> QED  BY <1>2, <1>4 DEF Steps, OrderTypeOK, ConfirmWrapper

\* The save, which procures and may cancel the order.
LEMMA SaveStatusesSteps ==
    ASSUME Sound(so), OrderTypeOK, NEW asks \in Asks, SaveStatuses(asks)
    PROVE  Steps(so, so') /\ OrderTypeOK'
<1> DEFINE p == AutoQc(so)
           r == IF \E l \in Line : /\ so.status[l] = "in_qc_process"
                                   /\ so.buys[l] = NoPo
                  THEN Computed(p) ELSE so
<1>1. p \in SaleOrder /\ RfqShape(p) /\ Procured(so, p)
  BY AutoQcProcures DEF Sound
<1>2. so' = IF r.sdk = "Cancelled" /\ r.state # "cancel" THEN Cancelled(r, asks) ELSE r
  BY DEF SaveStatuses
<1>3. wizard' \in BOOLEAN /\ cancelling' = cancelling /\ edits' = edits
  BY DEF SaveStatuses, OrderTypeOK
<1>4. Sound(p)
  BY <1>1 DEF Sound, Procured
<1>5. r = Computed(p) \/ r = so
  OBVIOUS
<1> HIDE DEF p
<1>6. /\ Computed(p) \in SaleOrder /\ RfqShape(Computed(p)) /\ Procured(so, Computed(p))
      /\ Follows(Computed(p))
  <2> DEFINE e == Computed(p)
  <2>1. /\ e \in SaleOrder /\ e.state = p.state /\ e.status = p.status
        /\ e.po = p.po /\ e.buys = p.buys /\ e.replacedBy = p.replacedBy
        /\ e.pending = p.pending /\ e.asked = p.asked
        /\ e.request = p.request /\ e.packed = p.packed /\ e.zeroed = p.zeroed
        /\ Follows(e)
    BY <1>1, ComputedFacts DEF Follows
  <2> HIDE DEF e
  <2>2. RfqShape(e) /\ (\A D : Wanted(p, D) => Wanted(e, D))
    BY <1>1, <2>1 DEF RfqShape, Wanted
  <2>3. Kept(so, p)
    BY <1>1 DEF Procured
  <2>4. Present(e) = Present(p) /\ \A n \in Spares : Own(p, n) => Own(e, n)
    BY <2>1 DEF Present, Own
  <2>5. Kept(so, e)
    BY <2>1, <2>3, <2>4 DEF Kept
  <2>6. Procured(so, e)
    BY <1>1, <2>1, <2>2, <2>5 DEF Procured
  <2> QED  BY <2>1, <2>2, <2>6 DEF e
<1>7. Evolves(so, r) /\ OnlyDead(so, r) /\ r.request = so.request /\ Present(r) = Present(so)
  <2>1. CASE r = so
    BY <2>1, EvolvesRefl DEF OnlyDead
  <2>2. CASE r = Computed(p)
    <3>1. Kept(so, r)
      BY <1>6, <2>2 DEF Procured
    <3> HIDE DEF r
    <3>2. Evolves(so, r) /\ OnlyDead(so, r) /\ r.request = so.request
      BY <1>6, <2>2, ProcuredEvolves
    <3> QED  BY <3>1, <3>2 DEF Kept
  <2> QED  BY <1>5, <2>1, <2>2
<1> HIDE DEF r
<1>8. Steps(so, so')
  <2>1. CASE so' = r
    BY <1>7, <2>1 DEF Steps
  <2>2. CASE so' = Cancelled(r, asks)
    BY <1>7, <2>2, CancelledSteps
  <2> QED  BY <1>2, <2>1, <2>2
<1> QED  BY <1>3, <1>8 DEF Steps, Evolves, Sound, OrderTypeOK

\* The requests to cancel, and what is written on the order itself.
LEMMA RequestSteps ==
    ASSUME Sound(so), OrderTypeOK, RequestCancel \/ RejectCancel
    PROVE  Steps(so, so') /\ OrderTypeOK'
<1>1. PICK v \in {"pending", "none"} : so' = [so EXCEPT !.request = v]
  BY DEF RequestCancel, RejectCancel
<1>2. so \in SaleOrder
  BY DEF Sound
<1>3. /\ so' \in SaleOrder /\ so'.request = v
      /\ so'.state = so.state /\ so'.status = so.status /\ so'.po = so.po
      /\ so'.buys = so.buys /\ so'.replacedBy = so.replacedBy
      /\ so'.pending = so.pending /\ so'.asked = so.asked
      /\ so'.sdk = so.sdk /\ so'.packed = so.packed /\ so'.zeroed = so.zeroed
  BY <1>1, <1>2 DEF SaleOrder
<1>4. Follows(so) => Follows(so')
  BY <1>3, SameStatus DEF Follows
<1>5. Evolves(so, so') /\ OnlyDead(so, so')
  BY <1>3, <1>4, AsideEvolves
<1>6. Steps(so, so')
  BY <1>3, <1>5 DEF Steps
<1> QED  BY <1>3, <1>6 DEF OrderTypeOK, RequestCancel, RejectCancel

\* The approval of a cancellation.
LEMMA ApproveCancelSteps ==
    ASSUME Sound(so), OrderTypeOK, NEW asks \in Asks, ApproveCancel(asks)
    PROVE  Steps(so, so') /\ OrderTypeOK'
<1> DEFINE x == [so EXCEPT !.request = "approved"]
<1>1. so \in SaleOrder
  BY DEF Sound
<1>2. /\ x \in SaleOrder
      /\ x.state = so.state /\ x.status = so.status /\ x.po = so.po
      /\ x.buys = so.buys /\ x.replacedBy = so.replacedBy
      /\ x.pending = so.pending /\ x.asked = so.asked
      /\ x.sdk = so.sdk /\ x.packed = so.packed /\ x.zeroed = so.zeroed
  BY <1>1 DEF SaleOrder
<1>3. so' = Cancelled(x, asks)
  BY DEF ApproveCancel
<1> HIDE DEF x
<1>4. Follows(so) => Follows(x)
  BY <1>2, SameStatus DEF Follows
<1>5. Evolves(so, x) /\ Present(x) = Present(so)
  BY <1>2, <1>4, AsideEvolves DEF Present
<1>6. Steps(so, so')
  BY <1>3, <1>5, CancelledSteps
<1> QED  BY <1>6 DEF Steps, Evolves, Sound, OrderTypeOK, ApproveCancel

\* The cancellation by the wizard of Sales.
LEMMA CancelWizardSteps ==
    ASSUME Sound(so), OrderTypeOK, CancelWizard
    PROVE  Steps(so, so') /\ OrderTypeOK'
<1> DEFINE q == Cancelled(so, FALSE)
<1>1. so' = [q EXCEPT !.state = "cancel"]
  BY DEF CancelWizard
<1>2. q = [CancelLines(so) EXCEPT !.state = "cancel", !.sdk = "Cancelled"]
  BY DEF Cancelled
<1>3. CancelLines(so) \in SaleOrder
  BY CancelLinesFacts DEF CancelledTo, Sound
<1>4. Steps(so, q)
  BY EvolvesRefl, CancelledSteps
<1>5. q.state = "cancel" /\ q \in SaleOrder
  <2>1. q \in SaleOrder
    BY <1>4 DEF Steps, Evolves, Sound
  <2> DEFINE c == CancelLines(so)
  <2> HIDE DEF c, q
  <2>2. q = [c EXCEPT !.state = "cancel", !.sdk = "Cancelled"] /\ c \in SaleOrder
    BY <1>2, <1>3 DEF c
  <2>3. q.state = "cancel"
    BY ONLY <2>2 DEF SaleOrder
  <2> QED  BY <2>1, <2>3
<1> HIDE DEF q
<1>6. so' = q
  BY <1>1, <1>5 DEF SaleOrder
<1> QED  BY <1>4, <1>5, <1>6 DEF OrderTypeOK, CancelWizard

\* The cancellation of unavailable lines, with its commit between two writes.
LEMMA CancelUnavailableSteps ==
    ASSUME Sound(so), OrderTypeOK, NEW asks \in Asks,
           CancelUnavailable(asks) \/ CancelSecondStep(asks) \/ CancelThirdStep(asks)
    PROVE  Steps(so, so') /\ OrderTypeOK'
<1>1. \A s \in Statuses : With(so, s) \in SUBSET Present(so)
  BY NoStatus DEF With, Present
<1>2. {"diamond_booked", "not_available", "cancelled"} \subseteq Statuses
  BY DEF Statuses, Manual
<1>3. CASE Finish(so, asks)
  BY <1>3, FinishSteps
<1>4. ASSUME NEW W \in SUBSET Present(so), NEW s \in {"not_available", "cancelled"},
             so' = WriteLines(so, W, s, TRUE),
             cancelling' \in {"first", "second"}, UNCHANGED <<wizard, edits>>
      PROVE  Steps(so, so') /\ OrderTypeOK'
  <2>1. Steps(so, so')
    BY <1>2, <1>4, WriteSteps
  <2> QED  BY <1>4, <2>1 DEF Steps, Evolves, Sound, OrderTypeOK
<1>5. \/ Finish(so, asks)
      \/ \E W \in SUBSET Present(so), s \in {"not_available", "cancelled"} :
           /\ so' = WriteLines(so, W, s, TRUE)
           /\ cancelling' \in {"first", "second"}
           /\ UNCHANGED <<wizard, edits>>
  BY <1>1, <1>2 DEF CancelUnavailable, CancelSecondStep, CancelThirdStep
<1> QED  BY <1>3, <1>4, <1>5

\* The website's write of one line.
LEMMA SiteSteps ==
    ASSUME Sound(so), OrderTypeOK, NEW l \in Line, NEW s \in SiteStatuses,
           NEW ok \in BOOLEAN, SiteWrites(l, s, ok)
    PROVE  Steps(so, so') /\ OrderTypeOK'
<1>1. {l} \in SUBSET Present(so)
  BY DEF SiteWrites, Present
<1>2. s \in Statuses /\ (Honest => s \notin {"replaced", "memo_returned"})
  BY DEF Honest
<1>3. so' = WriteLines(so, {l}, s, ok)
  BY DEF SiteWrites
<1>4. Steps(so, so')
  BY ONLY <1>1, <1>2, <1>3, WriteSteps, Sound(so)
<1>5. edits' \in 0..MaxEdits
  BY DEF SiteWrites, Edit, OrderTypeOK
<1> QED  BY <1>4, <1>5 DEF Steps, Evolves, Sound, OrderTypeOK, SiteWrites

\* The payment's reference entered by hand.
LEMMA EnterUtrSteps ==
    ASSUME Sound(so), OrderTypeOK, EnterUtr
    PROVE  Steps(so, so') /\ OrderTypeOK'
<1>1. With(so, "payment_pending") \in SUBSET Present(so)
  BY DEF With, Present
<1>2. /\ "payment_completed" \in Statuses
      /\ Honest => "payment_completed" \notin {"replaced", "memo_returned"}
  BY DEF Statuses, InFlight
<1>3. so' = WriteLines(so, With(so, "payment_pending"), "payment_completed", TRUE)
  BY DEF EnterUtr
<1>4. Steps(so, so')
  BY ONLY <1>1, <1>2, <1>3, WriteSteps, Sound(so)
<1> QED  BY <1>4 DEF Steps, Evolves, Sound, OrderTypeOK, EnterUtr

\* The confirmation of the payment in Logistics.
LEMMA PackConfirmedSteps ==
    ASSUME Sound(so), OrderTypeOK, PackConfirmed
    PROVE  Steps(so, so') /\ OrderTypeOK'
<1> DEFINE due == With(so, "payment_pending")
           written == WriteLines(so, due, "payment_completed", TRUE)
           paid == IF due = {} THEN so ELSE written
           x == [paid EXCEPT !.packed = TRUE]
<1>1. so' = PaidOrder(x)
  BY DEF PackConfirmed
<1>2. due \in SUBSET Present(so)
  BY DEF With, Present
<1>3. /\ "payment_completed" \in Statuses /\ "payment_completed" \notin Gone
      /\ Honest => "payment_completed" \notin {"replaced", "memo_returned"}
  BY DEF Statuses, InFlight, Gone
<1> HIDE DEF due
<1>4. Evolves(so, written) /\ NoCancel(so, written) /\ written.request = so.request
  BY ONLY <1>2, <1>3, WriteEvolves, Sound(so)
<1>5. paid = so \/ paid = written
  OBVIOUS
<1> HIDE DEF written, paid
<1>6. Evolves(so, paid) /\ NoCancel(so, paid) /\ paid.request = so.request
  BY <1>4, <1>5, EvolvesRefl DEF NoCancel
<1>7. paid \in SaleOrder /\ Sound(paid)
  BY <1>6 DEF Evolves, Sound
<1>8. /\ x \in SaleOrder /\ x.packed
      /\ x.state = paid.state /\ x.status = paid.status /\ x.po = paid.po
      /\ x.buys = paid.buys /\ x.replacedBy = paid.replacedBy
      /\ x.pending = paid.pending /\ x.asked = paid.asked
      /\ x.sdk = paid.sdk /\ x.request = paid.request /\ x.zeroed = paid.zeroed
  BY <1>7 DEF SaleOrder
<1> HIDE DEF x
<1>9. Follows(paid) => Follows(x)
  BY <1>8, SameStatus DEF Follows
<1>10. Evolves(paid, x) /\ NoCancel(paid, x) /\ Sound(x)
  BY <1>7, <1>8, <1>9, AsideEvolves DEF Evolves
<1>11. Evolves(x, so') /\ NoCancel(x, so') /\ so'.request = x.request
  BY <1>1, <1>8, <1>10, PaidEvolves
<1>12. Evolves(so, so')
  BY <1>6, <1>10, <1>11, EvolvesTrans
<1>13. OnlyDead(so, so')
  BY <1>6, <1>10, <1>11 DEF NoCancel, OnlyDead
<1>14. Steps(so, so')
  BY <1>6, <1>8, <1>11, <1>12, <1>13 DEF Steps
<1> QED  BY <1>14 DEF Steps, Evolves, Sound, OrderTypeOK, PackConfirmed

\* Nothing of the order moves when the cancellation is refused or cut short.
LEMMA OrderSteps ==
    ASSUME Sound(so), OrderTypeOK, OrderNext
    PROVE  Steps(so, so') /\ OrderTypeOK'
<1>1. CASE CancelRefused \/ CancelInterrupted
  <2>1. so' = so /\ OrderTypeOK'
    BY <1>1 DEF CancelRefused, CancelInterrupted, OrderTypeOK
  <2> QED  BY <2>1, EvolvesRefl DEF Steps, OnlyDead
<1> QED
  BY <1>1, SetAvailabilitySteps, CreateLineSteps, ConfirmWrapperSteps, SaveStatusesSteps,
     RequestSteps, ApproveCancelSteps, CancelWizardSteps, CancelUnavailableSteps,
     SiteSteps, EnterUtrSteps, PackConfirmedSteps DEF OrderNext

(***************************************************************************)
(* A stone is replaced                                                     *)
(***************************************************************************)

\* What replacing o by n makes of the order r.
Joined(r, q, o, n, sales) ==
    /\ Sound(q) /\ Follows(q)
    /\ Present(q) = Present(r) \union {n}
    /\ \A l \in Line : q.status[l] = IF l = o THEN "replaced"
                                      ELSE IF l = n THEN "diamond_booked" ELSE r.status[l]
    /\ q.replacedBy = [r.replacedBy EXCEPT ![o] = n]
    /\ o \notin q.pending
    /\ \A m \in q.pending : m \in r.pending \/ (m = n /\ sales)
    /\ sales => q.asked
    /\ r.asked /\ q.pending # {} => q.asked
    /\ NoCancel(r, q)
    /\ q.request = r.request
    /\ o # n /\ Own(q, n)
    /\ \A m \in Spares : m # n /\ Own(r, m) => Own(q, m)

\* Joining a replacement to a stone: a new line on an RFQ of its own, the stone closed
\* as Replaced and pointing to it.
LEMMA ReplacedFacts ==
    ASSUME NEW r, Sound(r), NEW o \in Present(r), NEW n \in Spares, r.status[n] = "none",
           NEW sales \in BOOLEAN
    PROVE  Joined(r, Replaced(r, o, n, sales), o, n, sales)
<1> DEFINE status == [r.status EXCEPT ![n] = "diamond_booked"]
           po == [r.po EXCEPT ![n] = "draft"]
           buys == [r.buys EXCEPT ![n] = n]
           pending == IF sales THEN r.pending \union {n} ELSE r.pending
           by == [r.replacedBy EXCEPT ![o] = n]
           x == [r EXCEPT !.status = status, !.po = po, !.buys = buys,
                          !.pending = pending, !.replacedBy = by]
           y == WriteLines(x, {o}, "replaced", TRUE)
           q == Replaced(r, o, n, sales)
<1>1. r \in SaleOrder /\ RfqShape(r) /\ Wanted(r, {})
  BY DEF Sound
<1>2. n \in Line /\ o \in Line /\ n # o /\ n \in PO
  BY DEF Present, PO
<1>3. "diamond_booked" \in Statuses /\ "diamond_booked" \notin Gone \union Closing
  BY DEF Statuses, Manual, Gone, Closing
<1>4. /\ status \in [Line -> Statuses \union {"none"}]
      /\ po \in [PO -> {"none", "draft", "purchase", "cancel"}]
      /\ buys \in [Line -> PO \union {NoPo}]
      /\ pending \in SUBSET Line
      /\ by \in [Line -> Line \union {NoLine}]
  BY <1>1, <1>2, <1>3 DEF SaleOrder
<1>5. q = [y EXCEPT !.asked = @ \/ sales]
  <2>1. [r EXCEPT
                !.status[n] = "diamond_booked",
                !.po[n] = "draft",
                !.buys[n] = n,
                !.pending = IF sales THEN @ \union {n} ELSE @,
                !.replacedBy[o] = n] = x
    BY <1>1 DEF SaleOrder
  <2> HIDE DEF x
  <2> QED  BY <2>1 DEF Replaced
<1>6. /\ \A l \in Line : status[l] = IF l = n THEN "diamond_booked" ELSE r.status[l]
      /\ \A p \in PO : po[p] = IF p = n THEN "draft" ELSE r.po[p]
      /\ \A l \in Line : buys[l] = IF l = n THEN n ELSE r.buys[l]
      /\ \A m \in pending : m \in r.pending \/ (m = n /\ sales)
  BY <1>1, <1>2 DEF SaleOrder
<1>7. by[o] = n /\ \A l \in Line : l # o => by[l] = r.replacedBy[l]
  BY <1>1, <1>2 DEF SaleOrder
<1> HIDE DEF status, po, buys, pending
<1>8. by = [r.replacedBy EXCEPT ![o] = n]
  OBVIOUS
<1> HIDE DEF by
<1>9. /\ x \in SaleOrder /\ x.status = status /\ x.po = po /\ x.buys = buys
      /\ x.pending = pending /\ x.replacedBy = by
      /\ x.state = r.state /\ x.asked = r.asked /\ x.request = r.request
      /\ x.zeroed = r.zeroed
  BY <1>1, <1>4 DEF SaleOrder
<1> HIDE DEF x
<1>10. Sound(x)
  <2>1. RfqShape(x)
    BY <1>1, <1>2, <1>3, <1>6, <1>9, NoStatus DEF RfqShape
  <2>2. \A l \in Line : l # n => r.buys[l] # n
    BY <1>1 DEF RfqShape
  <2>3. \A l \in Line : r.buys[l] # NoPo => r.buys[l] \in PO
    BY <1>1 DEF SaleOrder
  <2>4. Wanted(x, {})
    BY <1>1, <1>3, <1>6, <1>9, <2>2, <2>3 DEF Wanted
  <2> QED  BY <1>9, <2>1, <2>4 DEF Sound
<1>11. Present(x) = Present(r) \union {n}
  BY <1>2, <1>3, <1>6, <1>9, NoStatus DEF Present
<1>12. Sound(y) /\ Written(x, y, {o}, "replaced")
  <2>1. {o} \in SUBSET Present(x) /\ "replaced" \in Statuses
    BY <1>11 DEF Statuses
  <2> QED  BY ONLY <2>1, <1>10, WriteFacts
<1> HIDE DEF y, q
<1>13. /\ q \in SaleOrder /\ q.asked = (y.asked \/ sales)
       /\ q.status = y.status /\ q.po = y.po /\ q.buys = y.buys
       /\ q.pending = y.pending /\ q.replacedBy = y.replacedBy
       /\ q.state = y.state /\ q.request = y.request /\ q.sdk = y.sdk
       /\ q.packed = y.packed /\ q.zeroed = y.zeroed
  <2>1. y \in SaleOrder
    BY <1>12 DEF Sound
  <2> QED  BY <1>5, <2>1 DEF SaleOrder
<1>14. /\ Kept(x, y) /\ Follows(y) /\ CancelsFor(x, y, {})
       /\ y.pending \intersect {o} = {}
       /\ \A l \in Line : y.status[l] = IF l = o THEN "replaced" ELSE x.status[l]
  BY <1>12 DEF Written, Follows, CancelsFor, Gone, Closing
<1>15. Sound(q) /\ Follows(q)
  <2>1. Sound(q)
    BY <1>12, <1>13 DEF Sound, RfqShape, Wanted
  <2>2. OrderStatus(q) = OrderStatus(y)
    BY <1>13, SameStatus
  <2> QED  BY <1>13, <1>14, <2>1, <2>2 DEF Follows
<1>16. Present(q) = Present(r) \union {n}
  BY <1>11, <1>13, <1>14 DEF Present, Kept
<1>17. \A l \in Line : q.status[l] = IF l = o THEN "replaced"
                                      ELSE IF l = n THEN "diamond_booked" ELSE r.status[l]
  BY <1>6, <1>9, <1>13, <1>14
<1>18. q.replacedBy = [r.replacedBy EXCEPT ![o] = n]
  BY <1>8, <1>9, <1>13, <1>14 DEF Kept
<1>19. o \notin q.pending /\ \A m \in q.pending : m \in r.pending \/ (m = n /\ sales)
  BY <1>6, <1>9, <1>13, <1>14 DEF Kept
<1>20. (sales => q.asked) /\ (r.asked /\ q.pending # {} => q.asked)
  BY <1>9, <1>13, <1>14 DEF Kept
<1>21. NoCancel(r, q)
  BY <1>6, <1>9, <1>13, <1>14 DEF NoCancel, CancelsFor
<1>22. q.request = r.request
  BY <1>9, <1>13, <1>14 DEF Kept
<1>23. \A m \in Spares : Own(x, m) => Own(q, m)
  BY <1>13, <1>14 DEF Kept, Own
<1>24. Own(x, n)
  BY <1>2, <1>6, <1>9 DEF Own
<1>25. ASSUME NEW m \in Spares, m # n, Own(r, m) PROVE Own(x, m)
  <2>1. m \in Line /\ m \in PO
    BY DEF PO
  <2>2. x.buys[m] = r.buys[m] /\ x.po[m] = r.po[m]
    BY <1>6, <1>9, <1>25, <2>1
  <2> QED  BY <1>9, <1>25, <2>2 DEF Own
<1>26. \A m \in Spares : m # n /\ Own(r, m) => Own(q, m)
  BY <1>23, <1>25
<1> QED  BY <1>2, <1>15, <1>16, <1>17, <1>18, <1>19, <1>20, <1>21, <1>22, <1>23, <1>24, <1>26
           DEF Joined, q

\* What rejecting the replacement n of o makes of the order r.
Withdrawn(r, q, o, n, back) ==
    /\ Sound(q) /\ Follows(q)
    /\ Present(q) = Present(r)
    /\ \A l \in Line : q.status[l] = IF l = o THEN back
                                      ELSE IF l = n THEN "cancelled" ELSE r.status[l]
    /\ q.replacedBy = [r.replacedBy EXCEPT ![o] = NoLine]
    /\ q.pending \subseteq r.pending \ {n}
    /\ back \in Closing => o \notin q.pending
    /\ n \in Spares /\ n # o /\ Own(r, n) => OnlyDead(r, q)
    /\ \A m \in Spares : Own(r, m) => Own(q, m)
    /\ q.request = r.request

\* The order once the rejection of n, which replaced o, is done.
Undone(r, o, n, back) ==
    LET cut == WriteLines([r EXCEPT !.pending = @ \ {n}], {n}, "cancelled", TRUE)
    IN  [WriteLines([cut EXCEPT !.replacedBy[o] = NoLine], {o}, back, TRUE)
           EXCEPT !.asked = FALSE]

\* Undoing a replacement: the new line cancelled, the stone back at its old status
\* with no successor.
LEMMA UndoneFacts ==
    ASSUME NEW r, Sound(r), NEW n \in Present(r), NEW o \in Present(r), NEW back \in Statuses
    PROVE  Withdrawn(r, Undone(r, o, n, back), o, n, back)
<1> DEFINE x == [r EXCEPT !.pending = @ \ {n}]
           cut == WriteLines(x, {n}, "cancelled", TRUE)
           by == [cut.replacedBy EXCEPT ![o] = NoLine]
           y == [cut EXCEPT !.replacedBy = by]
           z == WriteLines(y, {o}, back, TRUE)
           q == Undone(r, o, n, back)
           D == {l \in {o} : back \in Gone}
<1>1. r \in SaleOrder /\ RfqShape(r) /\ Wanted(r, {}) /\ n \in Line /\ o \in Line
  BY DEF Sound, Present
<1>2. /\ x \in SaleOrder /\ x.status = r.status /\ x.po = r.po /\ x.buys = r.buys
      /\ x.pending = r.pending \ {n} /\ x.replacedBy = r.replacedBy
      /\ x.state = r.state /\ x.asked = r.asked /\ x.request = r.request
      /\ x.zeroed = r.zeroed
  BY <1>1 DEF SaleOrder
<1>3. Sound(x) /\ Present(x) = Present(r)
  <2> HIDE DEF x
  <2> QED  BY <1>1, <1>2 DEF Sound, RfqShape, Wanted, Present
<1>4. Sound(cut) /\ Written(x, cut, {n}, "cancelled")
  <2> HIDE DEF x
  <2>1. {n} \in SUBSET Present(x) /\ "cancelled" \in Statuses
    BY <1>3 DEF Statuses, Manual
  <2> QED  BY ONLY <2>1, <1>3, WriteFacts
<1>5. cut \in SaleOrder
  BY <1>4 DEF Sound
<1>6. q = [z EXCEPT !.asked = FALSE]
  <2> HIDE DEF cut
  <2>1. [cut EXCEPT !.replacedBy[o] = NoLine] = y
    BY <1>5 DEF SaleOrder
  <2> HIDE DEF y
  <2> QED  BY <2>1 DEF Undone, cut
<1> HIDE DEF cut, x
<1>7. by \in [Line -> Line \union {NoLine}]
  BY <1>5 DEF SaleOrder
<1>8. by = [cut.replacedBy EXCEPT ![o] = NoLine]
  OBVIOUS
<1> HIDE DEF by
<1>9. /\ y \in SaleOrder /\ y.status = cut.status /\ y.po = cut.po /\ y.buys = cut.buys
      /\ y.pending = cut.pending /\ y.replacedBy = by
      /\ y.state = cut.state /\ y.request = cut.request /\ y.zeroed = cut.zeroed
  BY <1>5, <1>7 DEF SaleOrder
<1> HIDE DEF y
<1>10. Sound(y) /\ Present(y) = Present(cut)
  BY <1>4, <1>9 DEF Sound, RfqShape, Wanted, Present
<1>11. Kept(x, cut) /\ CancelsFor(x, cut, {n}) /\ Stays(x, cut, {n})
       /\ \A l \in Line : cut.status[l] = IF l = n THEN "cancelled" ELSE x.status[l]
  <2>1. {l \in {n} : "cancelled" \in Gone} = {n}
    BY DEF Gone
  <2> QED  BY <1>4, <2>1 DEF Written
<1>12. Present(cut) = Present(r) /\ cut.pending \subseteq x.pending /\ cut.request = x.request
       /\ cut.replacedBy = x.replacedBy
  BY <1>3, <1>11 DEF Kept
<1>13. Sound(z) /\ Written(y, z, {o}, back)
  <2>1. {o} \in SUBSET Present(y)
    BY <1>10, <1>12
  <2> QED  BY ONLY <2>1, <1>10, WriteFacts, back \in Statuses
<1> HIDE DEF z, q
<1>14. /\ q \in SaleOrder /\ q.status = z.status /\ q.po = z.po /\ q.buys = z.buys
       /\ q.pending = z.pending /\ q.replacedBy = z.replacedBy
       /\ q.state = z.state /\ q.request = z.request /\ q.sdk = z.sdk
       /\ q.packed = z.packed /\ q.zeroed = z.zeroed
  <2>1. z \in SaleOrder
    BY <1>13 DEF Sound
  <2> QED  BY <1>6, <2>1 DEF SaleOrder
<1>15. /\ Kept(y, z) /\ Follows(z) /\ CancelsFor(y, z, D)
       /\ back \in Closing => o \notin z.pending
       /\ \A l \in Line : z.status[l] = IF l = o THEN back ELSE y.status[l]
  <2> HIDE DEF D
  <2>1. D = {l \in {o} : back \in Gone}
    BY DEF D
  <2> QED  BY <1>13, <2>1 DEF Written, Follows
<1>16. Sound(q) /\ Follows(q)
  <2>1. Sound(q)
    BY <1>13, <1>14 DEF Sound, RfqShape, Wanted
  <2>2. OrderStatus(q) = OrderStatus(z)
    BY <1>14, SameStatus
  <2> QED  BY <1>14, <1>15, <2>1, <2>2 DEF Follows
<1>17. Present(q) = Present(r)
  <2>1. Present(q) = Present(z) /\ Present(z) = Present(y)
    BY <1>14, <1>15 DEF Present, Kept
  <2> QED  BY <1>10, <1>12, <2>1
<1>18. \A l \in Line : q.status[l] = IF l = o THEN back
                                      ELSE IF l = n THEN "cancelled" ELSE r.status[l]
  BY <1>2, <1>9, <1>11, <1>14, <1>15
<1>19. q.replacedBy = [r.replacedBy EXCEPT ![o] = NoLine] /\ q.request = r.request
  BY <1>2, <1>8, <1>9, <1>12, <1>14, <1>15 DEF Kept
<1>20. q.pending \subseteq r.pending \ {n} /\ (back \in Closing => o \notin q.pending)
  BY <1>2, <1>9, <1>12, <1>14, <1>15 DEF Kept
<1>21. ASSUME n \in Spares, n # o, Own(r, n), NEW p \in PO, r.po[p] = "draft", q.po[p] = "cancel",
              NEW l \in On(r, p)
       PROVE  q.status[l] \in Dead
  <2>1. l \in Line /\ r.buys[l] = p /\ p # NoPo
    BY <1>21 DEF On, PO
  <2>2. "cancelled" \in Dead /\ \A s \in Gone : s \in Dead
    BY DEF Dead, Gone
  <2>3. CASE cut.po[p] = "cancel"
    <3>1. On(x, p) \intersect {n} # {} /\ \A m \in On(x, p) : cut.status[m] \in Dead
      BY <1>2, <1>11, <1>21, <2>3 DEF CancelsFor
    <3>2. On(x, p) = On(r, p)
      BY <1>2 DEF On
    <3>3. r.buys[n] = p
      BY <3>1, <3>2 DEF On
    <3>4. p = n /\ l = n
      BY <1>1, <1>21, <2>1, <3>3 DEF Own, RfqShape
    <3> QED  BY <1>18, <1>21, <2>1, <2>2, <3>4
  <2>4. CASE cut.po[p] # "cancel"
    <3>1. D # {} /\ \A m \in On(y, p) : z.status[m] \in Dead
      BY <1>9, <1>14, <1>15, <1>21, <2>4 DEF CancelsFor
    <3>2. CASE l = n
      BY <1>1, <1>18, <2>1, <2>2, <3>1, <3>2
    <3>3. CASE l # n
      <4>1. cut.buys[l] = p
        BY <1>2, <1>11, <1>21, <2>1, <3>3 DEF Stays
      <4>2. l \in On(y, p)
        BY <1>9, <2>1, <4>1 DEF On
      <4> QED  BY <1>14, <3>1, <4>2
    <3> QED  BY <3>2, <3>3
  <2> QED  BY <2>3, <2>4
<1>22. n \in Spares /\ n # o /\ Own(r, n) => OnlyDead(r, q)
  BY <1>21 DEF OnlyDead
<1>23. \A m \in Spares : Own(r, m) => Own(q, m)
  <2>1. \A m \in Spares : Own(r, m) => Own(x, m)
    BY <1>2 DEF Own
  <2>2. \A m \in Spares : Own(x, m) => Own(cut, m)
    BY <1>11 DEF Kept
  <2>3. \A m \in Spares : Own(cut, m) => Own(y, m)
    BY <1>9 DEF Own
  <2>4. \A m \in Spares : Own(y, m) => Own(z, m)
    BY <1>15 DEF Kept
  <2>5. \A m \in Spares : Own(z, m) => Own(q, m)
    BY <1>14 DEF Own
  <2> QED  BY <2>1, <2>2, <2>3, <2>4, <2>5
<1> QED  BY <1>16, <1>17, <1>18, <1>19, <1>20, <1>22, <1>23 DEF Withdrawn, q

(***************************************************************************)
(* Every step of the module is one of five                                 *)
(***************************************************************************)
Inv == TypeOK /\ RfqInv /\ LinkInv

OrderVars == <<cancelling, wizard, edits>>

OrderStep == Steps(so, so') /\ OrderTypeOK' /\ UNCHANGED replacementVars

JoinStep(o, n, sales) ==
    /\ so.status[n] = "none"
    /\ Joined(so, so', o, n, sales)
    /\ Links(o, n)
    /\ replacing' \subseteq replacing /\ rejecting' = rejecting
    /\ UNCHANGED <<OrderVars, rejected>>

ConfirmStep(n) ==
    /\ so'.pending = so.pending \ {n}
    /\ so' \in SaleOrder
    /\ so'.state = so.state /\ so'.status = so.status /\ so'.po = so.po
    /\ so'.buys = so.buys /\ so'.replacedBy = so.replacedBy
    /\ so'.sdk = so.sdk /\ so'.packed = so.packed /\ so'.request = so.request
    /\ so'.zeroed = so.zeroed
    /\ UNCHANGED <<OrderVars, replacementVars>>

WithdrawStep(n, back) ==
    /\ n \in rejecting
    /\ back = IF preStatus[replaces[n]] = "none" THEN "not_available"
                ELSE preStatus[replaces[n]]
    /\ Withdrawn(so, so', replaces[n], n, back)
    /\ preStatus' = [preStatus EXCEPT ![replaces[n]] = "none"]
    /\ rejecting' = rejecting \ {n}
    /\ rejected' = rejected \union {n}
    /\ UNCHANGED <<OrderVars, replaces, replacing>>

WizardStep ==
    /\ replacing' \subseteq Present(so) /\ rejecting' \subseteq rejecting \union so.pending
    /\ UNCHANGED <<so, OrderVars, replaces, preStatus, rejected>>

\* What Inv says of the order.
LEMMA SoundOrder == ASSUME Inv PROVE Sound(so) /\ OrderTypeOK
BY DEF Inv, TypeOK, OrderTypeOK, RfqInv, Sound

\* Every step is of one of the five kinds.
LEMMA FiveSteps ==
    ASSUME Inv, [Next]_vars
    PROVE  \/ OrderStep
           \/ \E o \in Present(so), n \in Spares, sales \in BOOLEAN : JoinStep(o, n, sales)
           \/ \E n \in so.pending : ConfirmStep(n)
           \/ \E n \in rejecting, back \in Statuses : WithdrawStep(n, back)
           \/ WizardStep
<1>1. Sound(so) /\ OrderTypeOK /\ so \in SaleOrder
  BY SoundOrder DEF Sound
<1>2. CASE OrderNext /\ UNCHANGED replacementVars
  <2>1. Steps(so, so') /\ OrderTypeOK'
    BY <1>1, <1>2, OrderSteps
  <2> QED  BY <1>2, <2>1 DEF OrderStep
<1>3. ASSUME NEW o \in Line, NEW n \in Spares, NEW sales \in NeedsSales,
             Submit(o, n, sales) \/ SiteReplaces(o, n, sales)
      PROVE  o \in Present(so) /\ sales \in BOOLEAN /\ JoinStep(o, n, sales)
  <2>1. o \in Present(so)
    <3>1. so.status[o] \in Replaceable => so.status[o] # "none"
      BY DEF Replaceable
    <3>2. replacing \subseteq Present(so)
      BY DEF Inv, LinkInv
    <3> QED  BY <1>3, <3>1, <3>2 DEF Submit, SiteReplaces, Present
  <2>2. so' = Replaced(so, o, n, sales) /\ so.status[n] = "none" /\ sales \in BOOLEAN
    BY <1>3 DEF Submit, SiteReplaces, NeedsSales, Fresh
  <2>3. Joined(so, so', o, n, sales)
    <3> DEFINE q == Replaced(so, o, n, sales)
    <3>1. Joined(so, q, o, n, sales)
      BY <1>1, <2>1, <2>2, ReplacedFacts
    <3> HIDE DEF q
    <3>2. so' = q
      BY <2>2 DEF q
    <3> QED  BY <3>1, <3>2
  <2>4. /\ Links(o, n)
        /\ replacing' \subseteq replacing /\ rejecting' = rejecting
        /\ UNCHANGED <<OrderVars, rejected>>
    BY <1>3 DEF Submit, SiteReplaces, OrderVars
  <2> QED  BY <2>1, <2>2, <2>3, <2>4 DEF JoinStep
<1>4. ASSUME NEW n \in Spares, ConfirmReplacement(n)
      PROVE  n \in so.pending /\ ConfirmStep(n)
  <2>1. so' = [so EXCEPT !.pending = @ \ {n}, !.asked = FALSE] /\ n \in so.pending
    BY <1>4 DEF ConfirmReplacement
  <2>2. /\ so'.pending = so.pending \ {n}
        /\ so' \in SaleOrder
        /\ so'.state = so.state /\ so'.status = so.status /\ so'.po = so.po
        /\ so'.buys = so.buys /\ so'.replacedBy = so.replacedBy
        /\ so'.sdk = so.sdk /\ so'.packed = so.packed /\ so'.request = so.request
        /\ so'.zeroed = so.zeroed
    BY <1>1, <2>1 DEF SaleOrder
  <2> QED  BY <1>4, <2>1, <2>2 DEF ConfirmReplacement, ConfirmStep, OrderVars
<1>5. ASSUME NEW n \in Spares, Reject(n)
      PROVE  n \in rejecting /\ \E back \in Statuses : WithdrawStep(n, back)
  <2> DEFINE o == replaces[n]
             back == IF preStatus[o] = "none" THEN "not_available" ELSE preStatus[o]
  <2>1. n \in rejecting /\ n \in Present(so) /\ o \in Present(so)
    BY <1>5 DEF Reject, Inv, LinkInv
  <2>2. back \in Statuses
    <3>1. o \in Line /\ preStatus \in [Line -> Statuses \union {"none"}]
      BY <2>1 DEF Inv, TypeOK, Present
    <3>2. "not_available" \in Statuses
      BY DEF Statuses, Manual
    <3> QED  BY <3>1, <3>2
  <2>3. so' = Undone(so, o, n, back)
    BY <1>5 DEF Reject, Undone
  <2> HIDE DEF back, o
  <2>4. Withdrawn(so, so', o, n, back)
    <3> DEFINE q == Undone(so, o, n, back)
    <3>1. Withdrawn(so, q, o, n, back)
      BY <1>1, <2>1, <2>2, UndoneFacts
    <3> HIDE DEF q
    <3>2. so' = q
      BY <2>3 DEF q
    <3> QED  BY <3>1, <3>2
  <2>5. /\ preStatus' = [preStatus EXCEPT ![o] = "none"]
        /\ rejecting' = rejecting \ {n}
        /\ rejected' = rejected \union {n}
        /\ UNCHANGED <<OrderVars, replaces, replacing>>
    BY <1>5 DEF Reject, OrderVars, o
  <2>6. WithdrawStep(n, back)
    BY <2>1, <2>4, <2>5 DEF WithdrawStep, back, o
  <2> QED  BY <2>1, <2>2, <2>6
<1>6. ASSUME (\E o \in Line : OpenReplaceStone(o)) \/ (\E n \in Spares : OpenReject(n))
             \/ CloseWizards \/ UNCHANGED vars
      PROVE  WizardStep
  <2>1. \A o \in Line : so.status[o] \in Replaceable => o \in Present(so)
    BY DEF Present, Replaceable
  <2>2. replacing \subseteq Present(so)
    BY DEF Inv, LinkInv
  <2>3. replacing' \subseteq Present(so) /\ rejecting' \subseteq rejecting \union so.pending
    BY <1>6, <2>1, <2>2 DEF OpenReplaceStone, OpenReject, CloseWizards, vars, replacementVars
  <2>4. UNCHANGED <<so, OrderVars, replaces, preStatus, rejected>>
    BY <1>6 DEF OpenReplaceStone, OpenReject, CloseWizards, vars, replacementVars, orderVars,
                OrderVars
  <2> QED  BY <2>3, <2>4 DEF WizardStep
<1> QED  BY <1>2, <1>3, <1>4, <1>5, <1>6 DEF Next, ReplacementNext

(***************************************************************************)
(* Types, RFQs and links, for every order                                  *)
(***************************************************************************)

\* An order as booked, or confirmed at once.
LEMMA StartFacts ==
    ASSUME OrderInit
    PROVE  /\ Sound(so) /\ so.pending = {} /\ OrderTypeOK
           /\ \A o \in Line : so.replacedBy[o] = NoLine
           /\ \A l \in Line : so.status[l] \in {"none", "diamond_booked", "confirmed"}
           /\ Line \ Spares \subseteq Present(so)
           /\ Follows(so)
<1> DEFINE confirmed == [l \in Line |-> IF l \in Spares THEN "none" ELSE "confirmed"]
           x == [BookedOrder EXCEPT !.status = confirmed]
           b == BookedOrder
<1>1. {"diamond_booked", "confirmed"} \subseteq Statuses /\ "Order Received" \in OrderStatuses
  BY DEF Statuses, Manual, OrderStatuses
<1>2. /\ b \in SaleOrder /\ b.state = "draft" /\ b.pending = {}
      /\ b.status = [l \in Line |-> IF l \in Spares THEN "none" ELSE "diamond_booked"]
      /\ b.buys = [l \in Line |-> NoPo] /\ b.replacedBy = [l \in Line |-> NoLine]
      /\ b.sdk = "Order Received"
  BY <1>1 DEF BookedOrder, SaleOrder
<1>3. confirmed \in [Line -> Statuses \union {"none"}]
  BY <1>1
<1>4. so \in {b, Confirm(x)}
  BY DEF OrderInit, ConfirmedOrder
<1>5. \A l \in Line : confirmed[l] = IF l \in Spares THEN "none" ELSE "confirmed"
  OBVIOUS
<1> HIDE DEF confirmed, b
<1>6. /\ x \in SaleOrder /\ x.state = "draft" /\ x.pending = {} /\ x.status = confirmed
      /\ x.buys = [l \in Line |-> NoPo] /\ x.replacedBy = [l \in Line |-> NoLine]
  BY <1>2, <1>3 DEF SaleOrder, b
<1> HIDE DEF x
<1>7. NoPo \notin Spares
  BY DEF PO
<1>8. Sound(b) /\ Sound(x)
  BY <1>2, <1>6, <1>7 DEF Sound, RfqShape, Wanted
<1>9. Sound(so) => OrderTypeOK
  <2>1. edits \in 0..MaxEdits /\ wizard \in BOOLEAN /\ cancelling \in {"no", "first", "second"}
    <3>1. edits = 0 /\ wizard = FALSE /\ cancelling = "no"
      BY Zenon DEF OrderInit
    <3>2. MaxEdits \in Nat
      OBVIOUS
    <3>3. 0 \in 0..MaxEdits
      BY ONLY <3>2
    <3> QED  BY ONLY <3>1, <3>3
  <2> QED  BY <2>1 DEF Sound, OrderTypeOK
<1>10. CASE so = b
  <2>1. Line \ Spares \subseteq Present(so)
    BY <1>2, <1>10 DEF Present
  <2>2. \A l \in Present(so) : so.status[l] = "diamond_booked"
    BY <1>2, <1>10 DEF Present
  <2>3. OrderStatus(so) = "Order Received"
    <3> DEFINE S == {so.status[l] : l \in Present(so)}
    <3>1. S = {} \/ S = {"diamond_booked"}
      BY <2>2
    <3>2. OrderStatus(so) = StatusOf(FALSE, S)
      BY <1>2, <1>10 DEF OrderStatus
    <3> HIDE DEF S
    <3>3. StatusOf(FALSE, {}) = "Order Received"
      BY DEF StatusOf
    <3>4. StatusOf(FALSE, {"diamond_booked"}) = "Order Received"
      <4>1. {Norm(s) : s \in {"diamond_booked"}} = {"diamond_booked"}
        BY DEF Norm
      <4> DEFINE all == {Norm(s) : s \in {"diamond_booked"}}
      <4>2. /\ all # {} /\ all \ C1Ignore = {} /\ all \cap Logistics = {}
            /\ all \ C3Ignore = {} /\ "in_qc_process" \notin all
            /\ all \cap {"not_available", "qc_fail"} = {}
            /\ ~({"payment_pending", "confirmed"} \subseteq all)
            /\ all \ C7Ignore = {} /\ ~({"confirmed", "diamond_booked"} \subseteq all)
            /\ all \ C9Ignore = {} /\ "diamond_booked" \in all
        BY <4>1 DEF C1Ignore, C3Ignore, C7Ignore, C9Ignore, Logistics
      <4> HIDE DEF all
      <4> QED  BY <4>2 DEF StatusOf, all
    <3> QED  BY <3>1, <3>2, <3>3, <3>4
  <2>4. Follows(so)
    BY <1>2, <1>10, <2>3 DEF Follows
  <2>5. \A l \in Line : so.status[l] \in {"none", "diamond_booked"} /\ so.replacedBy[l] = NoLine
    BY <1>2, <1>10
  <2>6. Sound(so) /\ so.pending = {}
    BY <1>2, <1>8, <1>10
  <2> QED  BY <1>9, <2>1, <2>4, <2>5, <2>6
<1>11. CASE so = Confirm(x)
  <2>1. so \in SaleOrder /\ RfqShape(so) /\ Procured(x, so)
    BY <1>6, <1>8, <1>11, ConfirmProcures DEF Sound
  <2>2. Sound(so) /\ so.status = confirmed
    BY <1>6, <1>8, <2>1 DEF Sound, Procured
  <2>3. so.pending = {} /\ so.replacedBy = [l \in Line |-> NoLine] /\ so.sdk = OrderStatus(so)
    BY <1>6, <1>11, ConfirmFields
  <2>4. Line \ Spares \subseteq Present(so)
    BY <1>5, <2>2 DEF Present
  <2>5. Follows(so)
    BY <2>3 DEF Follows
  <2>6. \A l \in Line : so.status[l] \in {"none", "confirmed"} /\ so.replacedBy[l] = NoLine
    BY <1>5, <2>2, <2>3
  <2> QED  BY <1>9, <2>2, <2>3, <2>4, <2>5, <2>6
<1> QED  BY <1>4, <1>10, <1>11

\* A new order has no replacement.
LEMMA InvInit == Init => Inv
<1>1. SUFFICES ASSUME Init PROVE Inv
  OBVIOUS
<1>2. Sound(so) /\ so.pending = {} /\ OrderTypeOK /\ \A o \in Line : so.replacedBy[o] = NoLine
  BY <1>1, StartFacts DEF Init
<1>3. TypeOK
  BY <1>1, <1>2 DEF Init, TypeOK
<1>4. LinkInv
  BY <1>1, <1>2 DEF Init, LinkInv
<1> QED  BY <1>2, <1>3, <1>4 DEF Inv, Sound, RfqInv

\* Each kind of step keeps the invariant.
LEMMA InvNext == Inv /\ [Next]_vars => Inv'
<1>1. SUFFICES ASSUME Inv, [Next]_vars PROVE Inv'
  OBVIOUS
<1> USE DEF OrderVars, replacementVars
<1>2. TypeOK /\ RfqInv /\ LinkInv /\ Sound(so) /\ OrderTypeOK
  BY <1>1, SoundOrder DEF Inv
<1>3. Sound(so') /\ OrderTypeOK' => RfqInv'
  BY DEF Sound, RfqInv
<1>4. \A l \in Line : l # NoLine
  OBVIOUS
<1>5. CASE OrderStep
  <2>1. Evolves(so, so') /\ OrderTypeOK' /\ UNCHANGED replacementVars
    BY <1>5 DEF OrderStep, Steps
  <2>2. TypeOK'
    BY <1>2, <2>1 DEF TypeOK
  <2>3. LinkInv'
    <3>1. /\ so'.pending \subseteq so.pending /\ Present(so) \subseteq Present(so')
          /\ so'.replacedBy = so.replacedBy
      BY <2>1 DEF Evolves
    <3> QED  BY <1>2, <2>1, <3>1 DEF LinkInv
  <2> QED  BY <1>3, <2>1, <2>2, <2>3 DEF Inv, Evolves
<1>6. ASSUME NEW o \in Present(so), NEW n \in Spares, NEW sales \in BOOLEAN,
             JoinStep(o, n, sales)
      PROVE  Inv'
  <2>1. o \in Line /\ n \in Line /\ n \notin Present(so)
    BY <1>6 DEF Present, JoinStep
  <2>2. /\ Joined(so, so', o, n, sales) /\ Links(o, n)
        /\ replacing' \subseteq replacing /\ rejecting' = rejecting
        /\ UNCHANGED <<OrderVars, rejected>>
    BY <1>6 DEF JoinStep
  <2>3. /\ Sound(so') /\ Present(so') = Present(so) \union {n}
        /\ so'.replacedBy = [so.replacedBy EXCEPT ![o] = n]
        /\ \A m \in so'.pending : m \in so.pending \/ m = n
    BY <2>2 DEF Joined
  <2>4. TypeOK'
    <3>1. so.status[o] \in Statuses \union {"none"}
      BY <1>2, <2>1 DEF Sound, SaleOrder
    <3> QED  BY <1>2, <2>1, <2>2, <2>3, <3>1 DEF TypeOK, OrderTypeOK, Links, Sound
  <2>5. LinkInv'
    <3>1. \A m \in Line : replaces'[m] = IF m = n THEN o ELSE replaces[m]
      BY <1>2, <2>2 DEF TypeOK, Links
    <3>2. \A m \in Line : so'.replacedBy[m] = IF m = o THEN n ELSE so.replacedBy[m]
      BY <1>2, <2>3 DEF Sound, SaleOrder
    <3>3. so'.pending \union rejecting' \subseteq Present(so') \intersect Spares
      BY <1>2, <2>2, <2>3 DEF LinkInv
    <3>4. \A m \in so'.pending \union rejecting' : replaces'[m] \in Present(so')
      <4>1. \A m \in so'.pending \union rejecting' : m \in Line
        BY <3>3
      <4> QED  BY <1>2, <2>2, <2>3, <3>1, <4>1 DEF LinkInv
    <3> QED  BY <1>2, <2>2, <2>3, <3>2, <3>3, <3>4 DEF LinkInv
  <2> QED  BY <1>3, <2>3, <2>4, <2>5 DEF Inv, TypeOK
<1>7. ASSUME NEW n \in so.pending, ConfirmStep(n) PROVE Inv'
  <2>1. Sound(so')
    BY <1>2, <1>7 DEF ConfirmStep, Sound, RfqShape, Wanted
  <2>2. TypeOK'
    BY <1>2, <1>7 DEF ConfirmStep, TypeOK, OrderTypeOK
  <2>3. LinkInv'
    BY <1>2, <1>7 DEF ConfirmStep, LinkInv, Present
  <2> QED  BY <1>3, <2>1, <2>2, <2>3 DEF Inv, TypeOK
<1>8. ASSUME NEW n \in rejecting, NEW back \in Statuses, WithdrawStep(n, back) PROVE Inv'
  <2> DEFINE o == replaces[n]
  <2>1. o \in Line /\ n \in Line
    BY <1>2 DEF LinkInv, Present
  <2>2. /\ Sound(so') /\ Present(so') = Present(so)
        /\ so'.replacedBy = [so.replacedBy EXCEPT ![o] = NoLine]
        /\ so'.pending \subseteq so.pending
    BY <1>8 DEF WithdrawStep, Withdrawn
  <2>3. TypeOK'
    <3>1. /\ replaces' = replaces /\ replacing' = replacing
          /\ rejecting' \subseteq rejecting /\ rejected' = rejected \union {n}
      BY <1>8 DEF WithdrawStep
    <3>2. preStatus' \in [Line -> Statuses \union {"none"}]
      BY <1>2, <1>8, <2>1 DEF WithdrawStep, TypeOK
    <3>3. OrderTypeOK'
      BY <1>2, <1>8, <2>2 DEF WithdrawStep, OrderTypeOK, Sound
    <3> QED  BY <1>2, <2>1, <3>1, <3>2, <3>3 DEF TypeOK
  <2>4. LinkInv'
    <3>1. \A m \in Line : so'.replacedBy[m] = IF m = o THEN NoLine ELSE so.replacedBy[m]
      BY <1>2, <2>2 DEF Sound, SaleOrder
    <3> QED  BY <1>2, <1>8, <2>2, <3>1 DEF WithdrawStep, LinkInv
  <2> QED  BY <1>3, <2>2, <2>3, <2>4 DEF Inv, TypeOK
<1>9. CASE WizardStep
  <2>1. TypeOK'
    BY <1>2, <1>9 DEF WizardStep, TypeOK, OrderTypeOK, LinkInv, Present
  <2>2. LinkInv' /\ RfqInv'
    BY <1>2, <1>9 DEF WizardStep, LinkInv, RfqInv, Present
  <2> QED  BY <2>1, <2>2 DEF Inv
<1> QED  BY <1>1, <1>5, <1>6, <1>7, <1>8, <1>9, FiveSteps

\* The invariant holds in every reachable state.
LEMMA InvAlways == Spec => []Inv
BY InvInit, InvNext, PTL DEF Spec

(***************************************************************************)
(* The theorems                                                            *)
(***************************************************************************)

\* Every variable keeps its type, for any number of lines, spare lines and
\* vendors, and whatever users, the website and an unattended wizard do.
THEOREM TypeCorrect == Spec => []TypeOK
BY InvAlways, PTL DEF Inv

\* The order's own status follows its lines whatever writes them, for any order
\* that was booked with a stone: with none, cancelling it names a status that
\* its lines do not give (_compute_order_status_from_lines).
THEOREM OrderFollowsLines ==
    ASSUME Spares # Line
    PROVE  Spec => []StatusFollowsLines
<1> DEFINE J == Follows(so) /\ Line \ Spares \subseteq Present(so)
<1>1. Init => J
  BY StartFacts DEF Init
<1>2. Inv /\ J /\ [Next]_vars => J'
  <2>1. SUFFICES ASSUME Inv, J, [Next]_vars PROVE J'
    OBVIOUS
  <2>2. Present(so) # {}
    <3>1. Line \ Spares # {}
      OBVIOUS
    <3> QED  BY <2>1, <3>1
  <2>3. CASE OrderStep
    BY <2>1, <2>2, <2>3 DEF OrderStep, Steps, Evolves
  <2>4. ASSUME NEW o \in Present(so), NEW n \in Spares, NEW sales \in BOOLEAN,
               JoinStep(o, n, sales)
        PROVE  J'
    BY <2>1, <2>4 DEF JoinStep, Joined
  <2>5. ASSUME NEW n \in so.pending, ConfirmStep(n) PROVE J'
    <3>1. OrderStatus(so') = OrderStatus(so) /\ Present(so') = Present(so)
      BY <2>5, SameStatus DEF ConfirmStep, Present
    <3> QED  BY <2>1, <2>5, <3>1 DEF ConfirmStep, Follows
  <2>6. ASSUME NEW n \in rejecting, NEW back \in Statuses, WithdrawStep(n, back) PROVE J'
    BY <2>1, <2>6 DEF WithdrawStep, Withdrawn
  <2>7. CASE WizardStep
    <3>1. so' = so
      BY <2>7 DEF WizardStep
    <3> QED  BY <2>1, <3>1
  <2> QED  BY <2>1, <2>3, <2>4, <2>5, <2>6, <2>7, FiveSteps
<1>3. J => StatusFollowsLines
  BY DEF Follows, StatusFollowsLines
<1> QED  BY <1>1, <1>2, <1>3, InvAlways, PTL DEF Spec

\* An order has finitely many lines.
LEMMA LineFinite == IsFiniteSet(Line)
<1>1. LineSeq \in Surjection(1..Len(LineSeq), Line)
  BY DEF Surjection, Line
<1>2. IsFiniteSet(1..Len(LineSeq))
  BY FS_Interval
<1> QED  BY <1>1, <1>2, FS_Surjection

\* Sales is asked about what can be accepted and is reminded of it, and a line
\* closed as Replaced has a replacement that Sales did not refuse: nothing is
\* lost between _create_replacement, the rejection and everything else that
\* goes on, although the Replace Stone wizard may be submitted long after its
\* stone moved on, and replace it twice or more.  It needs users of the website
\* not to close lines as Replaced or Returned from memo.
THEOREM NoneForgotten ==
    ASSUME Honest
    PROVE  Spec => []ReplacementsKept
<1> DEFINE J == AskedInv /\ Acceptable(so) /\ HistoryInv /\ TwiceInv /\ ReplacedHasSuccessor
<1>1. Init => J
  <2>1. SUFFICES ASSUME Init PROVE J
    OBVIOUS
  <2>2. so.pending = {} /\ \A l \in Line : so.status[l] \in {"none", "diamond_booked", "confirmed"}
    BY <2>1, StartFacts DEF Init
  <2>3. HistoryInv /\ TwiceInv
    BY <2>1 DEF Init, HistoryInv, TwiceInv
  <2> QED  BY <2>2, <2>3 DEF AskedInv, Acceptable, ReplacedHasSuccessor
<1>2. Inv /\ J /\ [Next]_vars => J'
  <2>1. SUFFICES ASSUME Inv, J, [Next]_vars PROVE J'
    OBVIOUS
  <2>2. TypeOK /\ LinkInv /\ Sound(so) /\ so.pending \subseteq Line
    BY <2>1, SoundOrder DEF Inv, Sound, SaleOrder
  <2>3. CASE OrderStep
    <3>1. Evolves(so, so') /\ replaces' = replaces /\ preStatus' = preStatus /\ rejected' = rejected
      BY <2>3 DEF OrderStep, Steps, replacementVars
    <3>2. AskedInv'
      BY <2>1, <3>1 DEF AskedInv, Evolves
    <3>3. Acceptable(so)'
      BY <2>1, <3>1 DEF Evolves
    <3>4. ReplacedHasSuccessor' /\ TwiceInv'
      BY <2>1, <3>1 DEF ReplacedHasSuccessor, TwiceInv, Successors, Evolves
    <3>5. HistoryInv'
      <4>1. so'.pending \subseteq so.pending /\ Present(so) \subseteq Present(so')
        BY <3>1 DEF Evolves
      <4> QED  BY <2>1, <3>1, <4>1 DEF HistoryInv
    <3> QED  BY <3>2, <3>3, <3>4, <3>5
  <2>4. ASSUME NEW o \in Present(so), NEW n \in Spares, NEW sales \in BOOLEAN,
               JoinStep(o, n, sales)
        PROVE  J'
    <3>1. /\ Joined(so, so', o, n, sales) /\ Links(o, n)
          /\ so.status[n] = "none" /\ rejected' = rejected
      BY <2>4 DEF JoinStep
    <3>2. n \in Line /\ o \in Line /\ n \notin Present(so)
      BY <3>1 DEF Present
    <3>3. /\ Present(so') = Present(so) \union {n}
          /\ \A m \in so'.pending : m \in so.pending \/ (m = n /\ sales)
          /\ o \notin so'.pending
          /\ sales => so'.asked
          /\ o # n
      BY <3>1 DEF Joined
    <3>4. AskedInv'
      <4>1. SUFFICES ASSUME so'.pending # {},
                            \A m, k \in Present(so') \intersect Spares : m = k
                     PROVE  so'.asked
        BY DEF AskedInv
      <4>2. PICK m \in so'.pending : TRUE
        BY <4>1
      <4>3. m \in so.pending => m \in Present(so') \intersect Spares /\ m # n
        BY <2>2, <3>2, <3>3 DEF LinkInv
      <4> QED  BY <3>3, <4>1, <4>2, <4>3
    <3>5. \A l \in Line : so'.status[l] = IF l = o THEN "replaced"
                                          ELSE IF l = n THEN "diamond_booked" ELSE so.status[l]
      BY <3>1 DEF Joined
    <3>6. Acceptable(so)'
      <4>1. "diamond_booked" \notin Unprintable
        BY DEF Unprintable, Dead
      <4>2. \A m \in so'.pending : m \in Line /\ m # o
        BY <2>2, <3>2, <3>3
      <4>3. \A m \in so'.pending : m # n => m \in so.pending
        BY <3>3
      <4>4. \A m \in so.pending : so.status[m] \notin Unprintable
        BY <2>1 DEF Acceptable
      <4>5. \A m \in so'.pending : so'.status[m] \notin Unprintable
        BY <3>5, <4>1, <4>2, <4>3, <4>4
      <4> QED  BY <4>5 DEF Acceptable
    <3>7. /\ \A m \in Line : replaces'[m] = IF m = n THEN o ELSE replaces[m]
          /\ \A l \in Line : preStatus'[l] = IF l = o THEN so.status[o] ELSE preStatus[l]
      BY <2>2, <3>1, <3>2 DEF TypeOK, Links
    <3>8. HistoryInv'
      BY <2>1, <3>1, <3>2, <3>3, <3>7 DEF HistoryInv
    <3>9. replaces[n] = NoLine /\ n \notin rejected
      BY <2>1, <3>2 DEF HistoryInv
    <3>10. \A l \in Line : Successors(l)' = IF l = o THEN Successors(l) \union {n} ELSE Successors(l)
      BY <3>1, <3>2, <3>7, <3>9 DEF Successors
    <3>11. ReplacedHasSuccessor'
      BY <2>1, <3>2, <3>3, <3>5, <3>10 DEF ReplacedHasSuccessor
    <3>12. TwiceInv'
      <4>1. n \notin Successors(o)
        BY <3>2, <3>9 DEF Successors
      <4>2. preStatus'[o] = "replaced" => Successors(o) # {}
        BY <2>1, <3>2, <3>7 DEF ReplacedHasSuccessor
      <4> QED  BY <2>1, <3>2, <3>7, <3>10, <4>1, <4>2 DEF TwiceInv
    <3> QED  BY <3>4, <3>6, <3>8, <3>11, <3>12
  <2>5. ASSUME NEW n \in so.pending, ConfirmStep(n) PROVE J'
    <3>1. /\ so'.pending = so.pending \ {n} /\ so'.status = so.status
          /\ replaces' = replaces /\ preStatus' = preStatus /\ rejected' = rejected
      BY <2>5 DEF ConfirmStep, replacementVars
    <3>2. Present(so') = Present(so)
      BY <3>1 DEF Present
    <3>3. AskedInv'
      BY <2>2, <3>1, <3>2 DEF AskedInv, LinkInv
    <3>4. HistoryInv'
      BY <2>1, <3>1, <3>2 DEF HistoryInv
    <3> QED  BY <2>1, <3>1, <3>3, <3>4 DEF Acceptable, TwiceInv, ReplacedHasSuccessor, Successors
  <2>6. ASSUME NEW n \in rejecting, NEW back \in Statuses, WithdrawStep(n, back) PROVE J'
    <3> DEFINE o == replaces[n]
    <3>1. /\ Withdrawn(so, so', o, n, back) /\ replaces' = replaces
          /\ preStatus' = [preStatus EXCEPT ![o] = "none"]
          /\ rejected' = rejected \union {n}
          /\ back = IF preStatus[o] = "none" THEN "not_available" ELSE preStatus[o]
      BY <2>6 DEF WithdrawStep
    <3>2. o \in Line /\ n \in Line /\ n \in Present(so) \intersect Spares
      BY <2>2 DEF LinkInv, Present
    <3>3. o # NoLine /\ o \notin so.pending
      BY <2>1, <3>2 DEF HistoryInv
    <3>4. Present(so') = Present(so) /\ so'.pending \subseteq so.pending \ {n}
      BY <3>1 DEF Withdrawn
    <3>5. \A l \in Line : so'.status[l] = IF l = o THEN back
                                          ELSE IF l = n THEN "cancelled" ELSE so.status[l]
      BY <3>1 DEF Withdrawn
    <3>6. AskedInv'
      BY <2>2, <3>2, <3>4 DEF AskedInv, LinkInv
    <3>7. Acceptable(so)'
      <4>1. \A m \in so'.pending : m \in Line /\ m # o /\ m # n /\ m \in so.pending
        BY <2>2, <3>3, <3>4
      <4> QED  BY <2>1, <3>5, <4>1 DEF Acceptable
    <3>8. HistoryInv'
      BY <2>1, <3>1, <3>2, <3>4 DEF HistoryInv
    <3>9. \A l \in Line : preStatus'[l] = IF l = o THEN "none" ELSE preStatus[l]
      BY <2>2, <3>1, <3>2 DEF TypeOK
    <3>10. \A l \in Line : Successors(l)' = IF l = o THEN Successors(l) \ {n} ELSE Successors(l)
      BY <3>1, <3>2 DEF Successors
    <3> HIDE DEF o
    <3>11. TwiceInv'
      BY <2>1, <3>9, <3>10 DEF TwiceInv
    <3>12. ReplacedHasSuccessor'
      <4>1. SUFFICES ASSUME NEW l \in Line, so'.status[l] = "replaced"
                     PROVE  Successors(l)' # {}
        BY DEF ReplacedHasSuccessor
      <4>2. CASE l = o
        <5>1. preStatus[o] = "replaced"
          BY <3>1, <3>5, <4>1, <4>2
        <5>2. PICK m, k \in Successors(o) : m # k
          BY <2>1, <3>2, <5>1 DEF TwiceInv
        <5> QED  BY <3>10, <4>2, <5>2
      <4>3. CASE l # o
        <5>1. so.status[l] = "replaced"
          BY <3>5, <4>1, <4>3
        <5> QED  BY <2>1, <3>10, <4>3, <5>1 DEF ReplacedHasSuccessor
      <4> QED  BY <4>2, <4>3
    <3> QED  BY <3>6, <3>7, <3>8, <3>11, <3>12
  <2>7. CASE WizardStep
    <3>1. so' = so /\ replaces' = replaces /\ preStatus' = preStatus /\ rejected' = rejected
      BY <2>7 DEF WizardStep
    <3> QED  BY <2>1, <3>1 DEF AskedInv, HistoryInv, TwiceInv, ReplacedHasSuccessor, Successors
  <2> QED  BY <2>1, <2>3, <2>4, <2>5, <2>6, <2>7, FiveSteps
<1>3. J /\ Inv => ReplacementsKept
  <2>1. SUFFICES ASSUME J, Inv PROVE ReplacementsKept
    OBVIOUS
  <2>2. ASSUME Cardinality(Present(so) \cap Spares) = 1
        PROVE  \A m, n \in Present(so) \cap Spares : m = n
    <3>1. IsFiniteSet(Present(so) \cap Spares)
      <4>1. Present(so) \cap Spares \subseteq Line
        BY DEF Present
      <4> QED  BY <4>1, LineFinite, FS_Subset
    <3>2. \E x : Present(so) \cap Spares = {x}
      BY <2>2, <3>1, FS_Singleton
    <3> QED  BY <3>2
  <2> QED  BY <2>1, <2>2 DEF AskedInv, Acceptable, ReplacementsKept, PendingIsOpen
<1> QED  BY <1>1, <1>2, <1>3, InvAlways, PTL DEF Spec

\* What is cancelled takes what it must with it, and nothing else: a stone that
\* died is on no open RFQ (_cancel_or_reduce_related_rfq), an RFQ is cancelled
\* only when no stone on it is wanted, and an approved cancellation leaves
\* nothing to sell or to buy.
THEOREM CancellationIsExact == Spec => CancelsExactly
<1> DEFINE J == Inv /\ SwapInv
<1>1. Init => SwapInv
  <2>1. SUFFICES ASSUME Init PROVE SwapInv
    OBVIOUS
  <2> QED  BY <2>1, StartFacts DEF Init, SwapInv
<1>2. J /\ [Next]_vars => SwapInv'
  <2>1. SUFFICES ASSUME J, [Next]_vars PROVE SwapInv'
    OBVIOUS
  <2>2. TypeOK /\ LinkInv /\ SwapInv
    BY <2>1 DEF Inv
  <2>3. \A n \in so.pending \union rejecting : n \in Spares /\ n \in Present(so)
    BY <2>2 DEF LinkInv
  <2>4. CASE OrderStep
    <3>1. Evolves(so, so') /\ replaces' = replaces /\ rejecting' = rejecting
      BY <2>4 DEF OrderStep, Steps, replacementVars
    <3> QED  BY <2>2, <2>3, <3>1 DEF Evolves, SwapInv
  <2>5. ASSUME NEW o \in Present(so), NEW n \in Spares, NEW sales \in BOOLEAN,
               JoinStep(o, n, sales)
        PROVE  SwapInv'
    <3>1. /\ \A m \in so'.pending : m \in so.pending \/ m = n
          /\ o # n /\ Own(so', n)
          /\ \A m \in Spares : m # n /\ Own(so, m) => Own(so', m)
          /\ rejecting' = rejecting /\ so.status[n] = "none"
      BY <2>5 DEF JoinStep, Joined
    <3>2. n \notin Present(so) /\ n \in Line
      BY <3>1 DEF Present
    <3>3. \A m \in Line : replaces'[m] = IF m = n THEN o ELSE replaces[m]
      BY <2>2, <2>5 DEF JoinStep, Links, TypeOK
    <3>4. SUFFICES ASSUME NEW m \in so'.pending \union rejecting'
                   PROVE  Own(so', m) /\ replaces'[m] # m
      BY DEF SwapInv
    <3>5. CASE m = n
      BY <3>1, <3>2, <3>3, <3>5
    <3>6. CASE m # n
      <4>1. m \in so.pending \union rejecting /\ m \in Spares /\ m \in Line
        BY <2>3, <3>1, <3>4, <3>6
      <4> QED  BY <2>2, <3>1, <3>3, <3>6, <4>1 DEF SwapInv
    <3> QED  BY <3>5, <3>6
  <2>6. ASSUME NEW n \in so.pending, ConfirmStep(n) PROVE SwapInv'
    <3>1. /\ so'.pending \subseteq so.pending /\ so'.buys = so.buys /\ so'.po = so.po
          /\ so'.zeroed = so.zeroed /\ rejecting' = rejecting /\ replaces' = replaces
      BY <2>6 DEF ConfirmStep, replacementVars
    <3> QED  BY <2>2, <3>1 DEF SwapInv, Own
  <2>7. ASSUME NEW n \in rejecting, NEW back \in Statuses, WithdrawStep(n, back) PROVE SwapInv'
    <3>1. /\ so'.pending \subseteq so.pending /\ rejecting' \subseteq rejecting
          /\ replaces' = replaces /\ \A m \in Spares : Own(so, m) => Own(so', m)
      BY <2>7 DEF WithdrawStep, Withdrawn
    <3> QED  BY <2>2, <2>3, <3>1 DEF SwapInv
  <2>8. CASE WizardStep
    <3>1. so' = so /\ replaces' = replaces /\ rejecting' \subseteq rejecting \union so.pending
      BY <2>8 DEF WizardStep
    <3> QED  BY <2>2, <3>1 DEF SwapInv
  <2> QED  BY <2>1, <2>4, <2>5, <2>6, <2>7, <2>8, FiveSteps
<1>3. J => DraftRfqBuysWanted
  BY SoundOrder DEF Sound, Wanted, Gone, DraftRfqBuysWanted
<1>4. J /\ [Next]_vars => OnlyDead(so, so')
  <2>1. SUFFICES ASSUME J, [Next]_vars PROVE OnlyDead(so, so')
    OBVIOUS
  <2>2. CASE OrderStep
    BY <2>2 DEF OrderStep, Steps
  <2>3. ASSUME NEW o \in Present(so), NEW n \in Spares, NEW sales \in BOOLEAN,
               JoinStep(o, n, sales)
        PROVE  OnlyDead(so, so')
    BY <2>3 DEF JoinStep, Joined, NoCancel, OnlyDead
  <2>4. ASSUME NEW n \in so.pending, ConfirmStep(n) PROVE OnlyDead(so, so')
    BY <2>4 DEF ConfirmStep, OnlyDead
  <2>5. ASSUME NEW n \in rejecting, NEW back \in Statuses, WithdrawStep(n, back)
        PROVE  OnlyDead(so, so')
    <3>1. n \in Spares /\ Own(so, n) /\ replaces[n] # n
      BY <2>1 DEF Inv, LinkInv, SwapInv
    <3> QED  BY <2>5, <3>1 DEF WithdrawStep, Withdrawn
  <2>6. CASE WizardStep
    BY <2>6 DEF WizardStep, OnlyDead
  <2> QED  BY <2>1, <2>2, <2>3, <2>4, <2>5, <2>6, FiveSteps
<1>5. OnlyDead(so, so') =>
        \A p \in PO : so.po[p] = "draft" /\ so'.po[p] = "cancel" =>
          \A l \in On(so, p) : so'.status[l] \in Dead
  BY DEF OnlyDead
<1>6. J /\ [Next]_vars =>
        (so.request = "pending" /\ so'.request = "approved" =>
           /\ \A l \in Present(so) : so'.status[l] = "cancelled"
           /\ \A l \in Present(so) :
                so'.buys[l] # NoPo => so'.po[so'.buys[l]] # "draft")
  <2>1. SUFFICES ASSUME J, [Next]_vars, so.request = "pending", so'.request = "approved"
                 PROVE  AllCancelled(so') /\ Present(so') = Present(so)
    BY DEF AllCancelled
  <2>2. CASE OrderStep
    BY <2>1, <2>2 DEF OrderStep, Steps
  <2>3. ASSUME so'.request = so.request PROVE FALSE
    BY <2>1, <2>3
  <2>4. ASSUME NEW o \in Present(so), NEW n \in Spares, NEW sales \in BOOLEAN,
               JoinStep(o, n, sales)
        PROVE  so'.request = so.request
    BY <2>4 DEF JoinStep, Joined
  <2>5. ASSUME NEW n \in so.pending, ConfirmStep(n) PROVE so'.request = so.request
    BY <2>5 DEF ConfirmStep
  <2>6. ASSUME NEW n \in rejecting, NEW back \in Statuses, WithdrawStep(n, back)
        PROVE  so'.request = so.request
    BY <2>6 DEF WithdrawStep, Withdrawn
  <2>7. WizardStep => so'.request = so.request
    BY DEF WizardStep
  <2> QED  BY <2>1, <2>2, <2>3, <2>4, <2>5, <2>6, <2>7, FiveSteps
<1> QED
  BY <1>1, <1>2, <1>3, <1>4, <1>5, <1>6, InvInit, InvNext, PTL
     DEF Spec, CancelsExactly, LiveSiblingKeepsRfq, ApprovedIsCancelled

(***************************************************************************)
(* ReplacementPush                                                         *)
(***************************************************************************)
HIDE SaleOrdersAssumption
USE PushAssumption

Words == DOMAIN Allowed \union {NoWord}
OrderLineRec == [word : Words, num : Nat, last : Words, of : StoneLine \union {0}]
Views == [StoneLine -> OrderLineRec]
Swap == [phase : {"made", "told", "done"}, old : StoneLine, new : StoneLine, stale : BOOLEAN,
         seen : SUBSET [num : Nat, word : Words],
         rows : SUBSET [line : StoneLine, state : {"pending", "success", "failed"}, whole : BOOLEAN],
         swapped : BOOLEAN, whole : BOOLEAN, view : Views]

OnePerId(v) == \A k, l \in StoneLine : v[k].num # 0 /\ v[k].num = v[l].num => k = l

\* While its transaction runs the replacement is another line, booked; what the website
\* did of it is known to the status push.
SwapOK(t) ==
  /\ t.old # t.new /\ OnePerId(t.view)
  /\ t.phase = "made" => ~t.swapped
  /\ t.phase \in {"made", "told"} => t.view[t.new].word = "Diamond Booked"
  /\ t.phase = "told" /\ t.swapped =>
       {[num |-> t.view[t.old].num, word |-> "Replaced"],
        [num |-> t.view[t.new].num, word |-> "Diamond Booked"]} \subseteq t.seen

PushInv ==
  /\ lines \in Views /\ OnePerId(lines)
  /\ retries \subseteq [line : StoneLine, state : {"pending", "success", "failed"}, whole : BOOLEAN]
  /\ IsFiniteSet(DOMAIN online) /\ DOMAIN online \subseteq Nat
  /\ replace = Closed \/ (replace \in Swap /\ SwapOK(replace))

\* The statuses the wizard writes are known to the website.
LEMMA WordsAre == {"Diamond Booked", "Not available", "Replaced", "Cancelled"} \subseteq Words
BY DEF Words, Allowed

\* There is always an id the website has not used.
LEMMA FreeNumIs ==
    ASSUME PushInv
    PROVE  FreeNum \in Nat /\ FreeNum \notin DOMAIN online
<1> DEFINE n == Cardinality(DOMAIN online)
<1>1. n \in Nat
  BY FS_CardinalityType DEF PushInv
<1>2. \E k \in 1..(n + 1) : k \notin DOMAIN online
  <2>1. SUFFICES ASSUME 1..(n + 1) \subseteq DOMAIN online PROVE FALSE
    OBVIOUS
  <2>2. Cardinality(1..(n + 1)) <= n
    BY <2>1, FS_Subset DEF PushInv
  <2>3. Cardinality(1..(n + 1)) = n + 1
    <3> HIDE DEF n
    <3>1. Cardinality(1..(n + 1)) = IF 1 > n + 1 THEN 0 ELSE (n + 1) - 1 + 1
      BY <1>1, FS_Interval
    <3> QED  BY <1>1, <3>1
  <2> HIDE DEF n
  <2> QED  BY <1>1, <2>2, <2>3
<1>3. FreeNum \in 1..(n + 1) /\ FreeNum \notin DOMAIN online
  BY <1>2 DEF FreeNum
<1> HIDE DEF n
<1> QED  BY <1>1, <1>3

\* A saved status, pushed or not, moves no id.
LEMMA MarkedView ==
    ASSUME NEW v \in Views, OnePerId(v), NEW batch
    PROVE  MarkLast(v, batch) \in Views /\ OnePerId(MarkLast(v, batch))
<1> DEFINE m == MarkLast(v, batch)
<1>1. \A l \in StoneLine : m[l] = [v[l] EXCEPT !.last = IF \E e \in batch : e.line = l THEN v[l].word ELSE @]
  BY DEF MarkLast
<1>2. ASSUME NEW l \in StoneLine PROVE m[l] \in OrderLineRec /\ m[l].num = v[l].num
  <2> DEFINE x == IF \E e \in batch : e.line = l THEN v[l].word ELSE v[l].last
  <2>1. v[l] \in OrderLineRec
    BY DEF Views
  <2>2. x \in Words
    BY <2>1 DEF OrderLineRec
  <2>3. m[l] = [v[l] EXCEPT !.last = x]
    BY <1>1
  <2> HIDE DEF x, m
  <2> QED  BY <2>1, <2>2, <2>3 DEF OrderLineRec
<1>3. m \in [StoneLine -> OrderLineRec]
  <2>1. m = [l \in StoneLine |-> m[l]]
    BY DEF MarkLast
  <2> HIDE DEF m
  <2> QED  BY <1>2, <2>1
<1>4. OnePerId(m)
  <2> HIDE DEF m
  <2> QED  BY <1>2 DEF OnePerId
<1> QED  BY <1>3, <1>4 DEF Views

\* An id is stored for a line when no other has it.
LEMMA StoredView ==
    ASSUME NEW v \in Views, OnePerId(v), NEW l \in StoneLine, NEW num \in Nat, Stores(v, l, num)
    PROVE  [v EXCEPT ![l].num = num] \in Views /\ OnePerId([v EXCEPT ![l].num = num])
<1> DEFINE w == [v EXCEPT ![l].num = num]
<1>1. w \in Views
  BY DEF Views, OrderLineRec
<1>2. \A k \in StoneLine : w[k].num = IF k = l THEN num ELSE v[k].num
  BY DEF Views, OrderLineRec
<1>3. OnePerId(w)
  <2> HIDE DEF w
  <2> QED  BY <1>2 DEF OnePerId, Stores
<1> QED  BY <1>1, <1>3

\* A save of another user, with its push.
LEMMA SaveKeeps ==
    ASSUME PushInv, NEW v \in Views, OnePerId(v), SavedAs(v)
    PROVE  PushInv'
<1>1. lines' \in Views /\ OnePerId(lines') /\ DOMAIN online' = DOMAIN online /\ UNCHANGED retries
  BY MarkedView DEF SavedAs, SiteAfter
<1>2. replace' = Closed \/ (replace' \in Swap /\ SwapOK(replace'))
  <2>1. CASE replace = Closed
    BY <2>1 DEF SavedAs
  <2>2. CASE replace # Closed
    <3>1. replace \in Swap /\ SwapOK(replace) /\ replace' = [replace EXCEPT !.stale = TRUE]
      BY <2>2 DEF PushInv, SavedAs
    <3>2. /\ replace' \in Swap /\ replace'.phase = replace.phase /\ replace'.old = replace.old
          /\ replace'.new = replace.new /\ replace'.view = replace.view
          /\ replace'.seen = replace.seen /\ replace'.swapped = replace.swapped
      BY <3>1 DEF Swap
    <3> QED  BY <3>1, <3>2 DEF SwapOK
  <2> QED  BY <2>1, <2>2
<1> QED  BY <1>1, <1>2 DEF PushInv

\* A step of the transaction: the committed lines and the retry rows stay.
LEMMA SwapKeeps ==
    ASSUME PushInv, NEW t \in Swap, SwapOK(t), replace' = t, UNCHANGED <<lines, retries>>,
           IsFiniteSet(DOMAIN online'), DOMAIN online' \subseteq Nat
    PROVE  PushInv'
BY DEF PushInv

\* What the website has after a swap.
LEMMA SwappedSite ==
    ASSUME PushInv, NEW num
    PROVE  /\ IsFiniteSet(DOMAIN Swapped(num, FreeNum))
           /\ DOMAIN Swapped(num, FreeNum) \subseteq Nat
<1>1. DOMAIN Swapped(num, FreeNum) = DOMAIN online \union {FreeNum}
  BY DEF Swapped
<1> QED  BY <1>1, FreeNumIs, FS_AddElement DEF PushInv

\* The website takes the post: the id it gives is stored, and both stones are marked.
LEMMA TakenKeeps == ASSUME PushInv, PushTaken PROVE PushInv'
<1> DEFINE t == replace
           num == t.view[t.old].num
<1>1. t \in Swap /\ SwapOK(t) /\ t.phase = "made" /\ num \in Nat /\ UNCHANGED <<lines, retries>>
  <2>1. t \in Swap /\ SwapOK(t) /\ t.phase = "made" /\ UNCHANGED <<lines, retries>>
    <3>1. t.phase = "made" /\ UNCHANGED <<lines, retries>>
      BY DEF PushTaken
    <3>2. replace # Closed
      BY <3>1 DEF Closed
    <3> QED  BY <3>1, <3>2 DEF PushInv
  <2> QED  BY <2>1 DEF Swap, Views, OrderLineRec
<1>2. PICK id \in Nat :
        replace' = [t EXCEPT !.phase = "told", !.swapped = TRUE,
                      !.view = IF Stores(t.view, t.new, id) THEN [t.view EXCEPT ![t.new].num = id] ELSE t.view,
                      !.seen = MarkReplacementPushed(@, IF Stores(t.view, t.new, id)
                                 THEN [t.view EXCEPT ![t.new].num = id] ELSE t.view, t.old, t.new)]
  <2>1. AnswerIds(t.old, FreeNum) \subseteq Nat /\ DOMAIN online \subseteq Nat
    <3>1. t.old \in StoneLine /\ lines \in Views
      BY <1>1 DEF Swap, PushInv
    <3>2. lines[t.old].num \in Nat
      BY <3>1 DEF Views, OrderLineRec
    <3> HIDE DEF t
    <3> QED  BY <3>2, FreeNumIs DEF AnswerIds, PushInv
  <2> QED  BY <2>1 DEF PushTaken
<1>3. IsFiniteSet(DOMAIN online') /\ DOMAIN online' \subseteq Nat
  BY SwappedSite DEF PushTaken, PushInv
<1> DEFINE v == IF Stores(t.view, t.new, id) THEN [t.view EXCEPT ![t.new].num = id] ELSE t.view
           told == MarkReplacementPushed(t.seen, v, t.old, t.new)
<1>4. /\ v \in Views /\ OnePerId(v) /\ v[t.new].word = "Diamond Booked"
      /\ \A l \in StoneLine : v[l].num \in Nat
  <2>1. t.view \in Views /\ t.new \in StoneLine /\ OnePerId(t.view)
        /\ t.view[t.new].word = "Diamond Booked"
    BY <1>1 DEF Swap, SwapOK
  <2>2. v \in Views /\ OnePerId(v)
    BY <2>1, StoredView
  <2>3. v[t.new].word = "Diamond Booked"
    BY <2>1 DEF Views, OrderLineRec
  <2> HIDE DEF v
  <2> QED  BY <2>2, <2>3 DEF Views, OrderLineRec
<1> HIDE DEF v
<1>5. told \in SUBSET [num : Nat, word : Words]
      /\ {[num |-> v[t.old].num, word |-> "Replaced"],
          [num |-> v[t.new].num, word |-> "Diamond Booked"]} \subseteq told
  <2> DEFINE one == [num |-> v[t.old].num, word |-> "Replaced"]
             other == [num |-> v[t.new].num, word |-> "Diamond Booked"]
  <2>1. one \in [num : Nat, word : Words] /\ other \in [num : Nat, word : Words]
    <3>1. t.old \in StoneLine /\ t.new \in StoneLine
      BY <1>1 DEF Swap
    <3> QED  BY <1>4, <3>1, WordsAre
  <2>2. told = t.seen \union {one, other}
    BY DEF MarkReplacementPushed
  <2>3. t.seen \in SUBSET [num : Nat, word : Words]
    BY <1>1 DEF Swap
  <2> QED  BY ONLY <2>1, <2>2, <2>3
<1> HIDE DEF told
<1>6. replace' = [t EXCEPT !.phase = "told", !.swapped = TRUE, !.view = v, !.seen = told]
  BY <1>2 DEF v, told
<1>7. replace' \in Swap /\ SwapOK(replace')
  <2>1. /\ replace' \in Swap /\ replace'.phase = "told" /\ replace'.view = v
        /\ replace'.seen = told /\ replace'.old = t.old /\ replace'.new = t.new
    BY <1>1, <1>4, <1>5, <1>6 DEF Swap
  <2> QED  BY <1>1, <1>4, <1>5, <2>1 DEF SwapOK
<1> QED  BY <1>1, <1>3, <1>7, SwapKeeps

\* The post is lost, refused, or not sent.
LEMMA UntoldKeeps == ASSUME PushInv, PushFails \/ PushNowhere PROVE PushInv'
<1> DEFINE t == replace
<1>1. t \in Swap /\ SwapOK(t) /\ t.phase = "made" /\ UNCHANGED <<lines, retries>>
  BY DEF PushFails, PushNowhere, PushInv, Closed
<1>2. RetryRow("pending") \union RetryRow("failed") \subseteq
        [line : StoneLine, state : {"pending", "success", "failed"}, whole : BOOLEAN]
  BY <1>1 DEF RetryRow, Swap
<1>3. PICK rows \in {t.rows, RetryRow("pending"), RetryRow("failed")} :
        replace' = [t EXCEPT !.phase = "told", !.rows = rows]
  <2>1. CASE PushFails
    BY <2>1 DEF PushFails
  <2>2. CASE PushNowhere
    <3>1. [t EXCEPT !.phase = "told"] = [t EXCEPT !.phase = "told", !.rows = t.rows]
      BY <1>1 DEF Swap
    <3> QED  BY <2>2, <3>1 DEF PushNowhere
  <2> QED  BY <2>1, <2>2
<1>4. IsFiniteSet(DOMAIN online') /\ DOMAIN online' \subseteq Nat
  BY SwappedSite DEF PushFails, PushNowhere, PushInv
<1>5. replace' \in Swap /\ SwapOK(replace')
  <2>1. rows \in SUBSET [line : StoneLine, state : {"pending", "success", "failed"}, whole : BOOLEAN]
    BY <1>1, <1>2, <1>3 DEF Swap
  <2>2. /\ replace' \in Swap /\ replace'.phase = "told" /\ replace'.view = t.view
        /\ replace'.seen = t.seen /\ replace'.old = t.old /\ replace'.new = t.new
        /\ replace'.swapped = t.swapped
    BY <1>1, <1>3, <2>1 DEF Swap
  <2> QED  BY <1>1, <2>2 DEF SwapOK
<1> QED  BY <1>1, <1>4, <1>5, SwapKeeps

\* The original is closed, or the transaction runs again on what is committed now.
LEMMA CompletedKeeps == ASSUME PushInv, CompleteSwap PROVE PushInv'
<1> DEFINE t == replace
           v == [t.view EXCEPT ![t.old].word = "Replaced"]
           again == [lines EXCEPT ![t.new] = [t.view[t.new] EXCEPT !.num = 0]]
<1>1. t \in Swap /\ SwapOK(t) /\ t.phase = "told" /\ UNCHANGED <<lines, retries>>
  BY DEF CompleteSwap, PushInv, Closed
<1>2. t.view \in Views /\ t.old \in StoneLine /\ t.new \in StoneLine /\ t.old # t.new
      /\ OnePerId(t.view) /\ t.view[t.new].word = "Diamond Booked"
  BY <1>1 DEF Swap, SwapOK
<1>3. DOMAIN online' = DOMAIN online
  BY DEF CompleteSwap, SiteAfter
<1>4. CASE t.stale
  <2>1. again \in Views /\ again[t.new].word = "Diamond Booked"
    BY <1>2 DEF PushInv, Views, OrderLineRec
  <2>2. \A l \in StoneLine : again[l].num = IF l = t.new THEN 0 ELSE lines[l].num
    BY <1>2 DEF PushInv, Views, OrderLineRec
  <2>3. replace' = [t EXCEPT !.phase = "made", !.stale = FALSE, !.rows = {}, !.swapped = FALSE,
                               !.view = again]
    BY <1>4 DEF CompleteSwap
  <2> HIDE DEF again
  <2>4. OnePerId(again)
    BY <2>2 DEF PushInv, OnePerId
  <2>5. /\ replace' \in Swap /\ replace'.phase = "made" /\ replace'.view = again
        /\ replace'.old = t.old /\ replace'.new = t.new /\ replace'.swapped = FALSE
    BY <1>1, <2>1, <2>3 DEF Swap
  <2>6. SwapOK(replace')
    BY <1>2, <2>1, <2>4, <2>5 DEF SwapOK
  <2> QED  BY <1>1, <1>3, <2>5, <2>6, SwapKeeps DEF PushInv
<1>5. CASE ~t.stale
  <2>1. v \in Views /\ OnePerId(v)
    <3>1. v \in Views
      BY <1>2, WordsAre DEF Views, OrderLineRec
    <3>2. \A l \in StoneLine : v[l].num = t.view[l].num
      BY <1>2 DEF Views, OrderLineRec
    <3> HIDE DEF v
    <3> QED  BY <1>2, <3>1, <3>2 DEF OnePerId
  <2>2. PICK w \in {v, MarkLast(v, Batch(v, t.seen))} : replace' = [t EXCEPT !.phase = "done", !.view = w]
    BY <1>5 DEF CompleteSwap
  <2> HIDE DEF v
  <2>3. w \in Views /\ OnePerId(w)
    BY <2>1, <2>2, MarkedView
  <2>4. /\ replace' \in Swap /\ replace'.phase = "done" /\ replace'.view = w
        /\ replace'.old = t.old /\ replace'.new = t.new
    BY <1>1, <2>2, <2>3 DEF Swap
  <2>5. SwapOK(replace')
    BY <1>2, <2>3, <2>4 DEF SwapOK
  <2> QED  BY <1>1, <1>3, <2>4, <2>5, SwapKeeps DEF PushInv
<1> QED  BY <1>4, <1>5

\* The cron's answer may bring the id.
LEMMA ResentKeeps == ASSUME PushInv, NEW row \in retries, Resend(row) PROVE PushInv'
<1>1. /\ row.line \in StoneLine /\ row.whole \in BOOLEAN /\ lines \in Views /\ OnePerId(lines)
      /\ row \in [line : StoneLine, state : {"pending", "success", "failed"}, whole : BOOLEAN]
  BY DEF PushInv
<1>2. /\ lines' = lines \/ \E id \in Nat : Stores(lines, row.line, id)
                                        /\ lines' = [lines EXCEPT ![row.line].num = id]
      /\ \E state \in {"success", "failed"} : retries' = (retries \ {row}) \union {[row EXCEPT !.state = state]}
      /\ IsFiniteSet(DOMAIN online') /\ DOMAIN online' \subseteq Nat
      /\ replace' = replace
  <2>1. DOMAIN online \subseteq Nat /\ IsFiniteSet(DOMAIN online)
    BY DEF PushInv
  <2> QED  BY <2>1, FreeNumIs, SwappedSite DEF Resend
<1>3. lines' \in Views /\ OnePerId(lines')
  BY <1>1, <1>2, StoredView
<1>4. retries' \subseteq [line : StoneLine, state : {"pending", "success", "failed"}, whole : BOOLEAN]
  BY <1>1, <1>2 DEF PushInv
<1> QED  BY <1>2, <1>3, <1>4 DEF PushInv

\* Every step: the saves, the transaction and the cron.
LEMMA PushStep == ASSUME PushInv, [PushNext]_push_vars PROVE PushInv'
<1>1. ASSUME NEW l \in StoneLine, NEW w \in DOMAIN Allowed, Move(l, w) PROVE PushInv'
  <2> DEFINE v == [lines EXCEPT ![l].word = w]
  <2>1. v \in Views
    BY DEF PushInv, Views, OrderLineRec, Words
  <2>2. \A k \in StoneLine : v[k].num = lines[k].num
    BY DEF PushInv, Views, OrderLineRec
  <2>3. SavedAs(v)
    BY <1>1 DEF Move
  <2> HIDE DEF v
  <2>4. OnePerId(v)
    BY <2>2 DEF PushInv, OnePerId
  <2> QED  BY <2>1, <2>3, <2>4, SaveKeeps
<1>2. ASSUME NEW n \in StoneLine, RejectNew(n) PROVE PushInv'
  <2> DEFINE v == [lines EXCEPT ![n].word = "Cancelled", ![lines[n].of].word = "Not available"]
  <2> DEFINE o == lines[n].of
             u == [lines EXCEPT ![n].word = "Cancelled"]
  <2>0. o \in StoneLine /\ lines \in Views
    BY <1>2 DEF RejectNew, PushInv, Views, OrderLineRec
  <2>1. v \in Views
    <3>1. u \in Views
      BY <2>0, WordsAre DEF Views, OrderLineRec
    <3>2. v = [u EXCEPT ![o].word = "Not available"]
      OBVIOUS
    <3> HIDE DEF u, v, o
    <3> QED  BY <2>0, <3>1, <3>2, WordsAre DEF Views, OrderLineRec
  <2>2. \A k \in StoneLine : v[k].num = lines[k].num
    BY <2>0 DEF Views, OrderLineRec
  <2>3. SavedAs(v)
    BY <1>2 DEF RejectNew
  <2> HIDE DEF v, o, u
  <2>4. OnePerId(v)
    BY <2>2 DEF PushInv, OnePerId
  <2> QED  BY <2>1, <2>3, <2>4, SaveKeeps
<1>3. ASSUME NEW o \in StoneLine, NEW n \in StoneLine, SubmitNew(o, n) PROVE PushInv'
  <2> DEFINE v == [lines EXCEPT ![n] = [word |-> "Diamond Booked", num |-> 0, last |-> NoWord, of |-> o]]
  <2>1. v \in Views /\ v[n].word = "Diamond Booked"
    BY WordsAre DEF PushInv, Views, OrderLineRec, Words
  <2>2. \A k \in StoneLine : v[k].num = IF k = n THEN 0 ELSE lines[k].num
    BY DEF PushInv, Views, OrderLineRec
  <2>3. PICK whole \in BOOLEAN :
          replace' = [phase |-> "made", old |-> o, new |-> n, stale |-> FALSE, seen |-> {},
                      rows |-> {}, swapped |-> FALSE, whole |-> whole, view |-> v]
    BY <1>3 DEF SubmitNew
  <2>4. o # n
    BY <1>3 DEF SubmitNew, Has, NoWord
  <2> HIDE DEF v
  <2>5. OnePerId(v)
    BY <2>2 DEF PushInv, OnePerId
  <2>6. replace' \in Swap /\ SwapOK(replace')
    BY <2>1, <2>3, <2>4, <2>5 DEF Swap, SwapOK
  <2> QED  BY <1>3, <2>6 DEF PushInv, SubmitNew
<1>4. CASE CommitSwap
  <2>1. replace \in Swap /\ OnePerId(replace.view)
    BY <1>4 DEF CommitSwap, PushInv, Closed, SwapOK
  <2>2. lines' \in Views /\ OnePerId(lines')
    BY <1>4, <2>1 DEF CommitSwap, Swap
  <2>3. retries' \subseteq [line : StoneLine, state : {"pending", "success", "failed"}, whole : BOOLEAN]
    BY <1>4, <2>1 DEF CommitSwap, Swap, PushInv
  <2> QED  BY <1>4, <2>2, <2>3 DEF CommitSwap, PushInv
<1>5. CASE AbortSwap
  BY <1>5 DEF AbortSwap, PushInv
<1>6. CASE UNCHANGED push_vars
  BY <1>6 DEF push_vars, PushInv
<1> QED  BY <1>1, <1>2, <1>3, <1>4, <1>5, <1>6, TakenKeeps, UntoldKeeps, CompletedKeeps, ResentKeeps
         DEF PushNext

\* No two lines have one id, and a swap is not told again in its transaction: for any
\* number of lines, lost answers and saves of others.
THEOREM ToldOnce == PushSpec => []SwapToldOnce
<1>1. PushInit => PushInv
  <2>1. SUFFICES ASSUME PushInit PROVE PushInv
    OBVIOUS
  <2>2. lines \in Views /\ \A l \in StoneLine : lines[l].num = IF l \in Sold THEN l ELSE 0
    BY <2>1, WordsAre DEF PushInit, Views, OrderLineRec, Words
  <2>3. OnePerId(lines)
    BY <2>2 DEF OnePerId
  <2>4. DOMAIN online = Sold
    BY <2>1 DEF PushInit
  <2> QED  BY <2>1, <2>2, <2>3, <2>4 DEF PushInit, PushInv
<1>2. PushInv => SwapToldOnce
  <2>1. SUFFICES ASSUME PushInv PROVE SwapToldOnce
    OBVIOUS
  <2>2. OneLinePerId
    BY <2>1 DEF PushInv, OnePerId, OneLinePerId
  <2>3. ASSUME replace # Closed, replace.phase = "told", replace.swapped,
               NEW e \in Batch([replace.view EXCEPT ![replace.old].word = "Replaced"], replace.seen)
        PROVE  e.line \notin {replace.old, replace.new}
    <3> DEFINE v == [replace.view EXCEPT ![replace.old].word = "Replaced"]
    <3>1. replace \in Swap /\ SwapOK(replace) /\ replace.view \in Views
          /\ replace.old \in StoneLine /\ replace.new \in StoneLine
      BY <2>1, <2>3 DEF PushInv, Swap
    <3>2. /\ v[replace.old].word = "Replaced" /\ v[replace.new].word = "Diamond Booked"
          /\ v[replace.old].num = replace.view[replace.old].num
          /\ v[replace.new].num = replace.view[replace.new].num
      BY <2>3, <3>1 DEF SwapOK, Views, OrderLineRec
    <3>3. /\ e.line \in StoneLine /\ e.num = v[e.line].num /\ e.word = v[e.line].word
          /\ [num |-> e.num, word |-> e.word] \notin replace.seen
      BY <2>3 DEF Batch, Identified
    <3> HIDE DEF v
    <3> QED  BY <2>3, <3>1, <3>2, <3>3 DEF SwapOK
  <2> QED  BY <2>2, <2>3 DEF SwapToldOnce, SwapIsNotEchoed
<1> QED  BY <1>1, <1>2, PushStep, PTL DEF PushSpec

HIDE PushAssumption
=============================================================================
