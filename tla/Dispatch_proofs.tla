--------------------------- MODULE Dispatch_proofs ---------------------------
(* What holds of Dispatch for every order, whatever its number of stones,  *)
(* parcels and addresses.                                                  *)
EXTENDS Dispatch, TLAPS

\* Where the stones are: one in a parcel is in the vault's books, its parcel
\* exists, and one with a memo outcome is in a parcel that left.
Custody ==
  /\ atDispatch \subseteq vault
  /\ \A s \in Stone : parcelOf[s] # NoParcel =>
       s \in vault /\ parcel[parcelOf[s]].state \notin {"none", "cancelled"}
  /\ \A s \in Stone : outcome[s] # "none" =>
       parcelOf[s] # NoParcel /\ Left(parcelOf[s])

\* A slip printed for a draft parcel is cleared before its stones change.
DraftSlips ==
  \A p \in Parcel : parcel[p].state = "draft" => parcel[p].slip \in {{}, Lines(p)}

IInv ==
  /\ TypeOK
  /\ Custody
  /\ DraftSlips
  /\ SlipListsParcel
  /\ StockFollowsParcel
  /\ InvoicedOnce
  /\ MemoUnbilled
  /\ KeptBilled

-----------------------------------------------------------------------------
(* The operators of the invoice.                                           *)

\* What a preparation returns: the draft, and stones that are ready, have a
\* quantity and are on no invoice.
LEMMA PrepareFacts ==
  ASSUME NEW d, NEW auto, NEW vaulted, NEW done
  PROVE  /\ d \subseteq Prepare(d, auto, vaulted, done)
         /\ Prepare(d, auto, vaulted, done) \subseteq d \cup auto
         /\ \A s \in Prepare(d, auto, vaulted, done) : s \in d \/ done[s] = 0
         /\ Ready(auto, vaulted) =>
              \A s \in auto \ void :
                done[s] = 0 => s \in Prepare(d, auto, vaulted, done)
  BY DEF Prepare, Billable

\* What a new scope returns: no stone on memo, none billed already.
LEMMA RescopeFacts ==
  ASSUME NEW d \in SUBSET Stone, NEW live \in SUBSET Stone, NEW memo, NEW done
  PROVE  /\ Rescope(d, live, memo, done) \subseteq Stone
         /\ Rescope(d, live, memo, done) \cap memo = {}
         /\ \A s \in Rescope(d, live, memo, done) : s \in d \/ done[s] = 0
  BY PrepareFacts DEF Rescope

\* The lines that still go out are lines of the order.
LEMMA LiveType == Live \subseteq Stone
  BY DEF Live

\* What leaves with a sale was on the draft or ready, and is not on memo.
LEMMA LeavingFacts ==
  ASSUME TypeOK, NEW p \in Parcel
  PROVE  /\ LeavingInvoice(p) \subseteq Lines(p)
         /\ \A s \in LeavingInvoice(p) : s \in draft \/ posted[s] = 0
         /\ LeavingInvoice(p) # {} => parcel[p].type = "sale"
<1>1. CASE parcel[p].type = "memo"
  BY <1>1 DEF LeavingInvoice
<1>2. CASE parcel[p].type # "memo"
  <2>1. parcel[p].type = "sale"
    BY <1>2 DEF TypeOK, ParcelRecord
  <2>2. LeavingInvoice(p)
          = Prepare(draft, Live \ OnMemo, vault, posted) \cap Lines(p)
    BY <1>2 DEF LeavingInvoice, Narrow
  <2>3. \A s \in Prepare(draft, Live \ OnMemo, vault, posted) :
          s \in draft \/ posted[s] = 0
    BY PrepareFacts
  <2>4. QED
    BY <2>1, <2>2, <2>3
<1>3. QED
  BY <1>1, <1>2

\* The invoice of a memo's round bills kept stones and what the draft holds.
LEMMA KeptFacts ==
  ASSUME NEW kept, NEW live
  PROVE  /\ KeptInvoice(kept, live) \subseteq draft \cup (kept \cap live)
         /\ \A s \in KeptInvoice(kept, live) : s \in draft \/ posted[s] = 0
         /\ KeptInvoice(kept, live) = {} \/ draft \subseteq KeptInvoice(kept, live)
         /\ \A s \in (kept \cap live) \ (void \cup draft) :
              posted[s] = 0 => s \in KeptInvoice(kept, live)
  BY DEF KeptInvoice, Billable

\* Posting counts one more line at most for each stone.
LEMMA PostType ==
  ASSUME TypeOK, NEW lines
  PROVE  /\ Post(lines) \in [Stone -> Nat]
         /\ \A s \in Stone : Post(lines)[s] = posted[s]
                                  + (IF s \in lines THEN 1 ELSE 0)
  BY DEF Post, TypeOK

\* A status written to some lines is a status.
LEMMA StatusType ==
  ASSUME TypeOK, NEW S, NEW w \in Status, SetStatus(S, w)
  PROVE  /\ status' \in [Stone -> Status]
         /\ \A s \in Stone : status'[s] = IF s \in S THEN w ELSE status[s]
  BY DEF SetStatus, TypeOK

\* A parcel not made yet is a parcel record.
LEMMA UnmadeType == Unmade \in ParcelRecord
  BY DispatchAssumption DEF Unmade, ParcelRecord

\* The approval a new or split parcel asks for is one of the field.
LEMMA ApprovalType ==
  ASSUME NEW a, NEW sending, NEW where, NEW to
  PROVE  ApprovalFor(a, sending, where, to)
           \in {"not_required", "approved", "pending"}
  BY DEF ApprovalFor

-----------------------------------------------------------------------------
(* The two actions that move stones between parcels.                       *)

\* Make parcels moves stones that were in none into parcels that were not
\* made, and nothing else.
Made(S, made) ==
  /\ \A p \in made : parcel[p].state = "none"
  /\ parcelOf' \in [Stone -> Parcel \cup {NoParcel}]
  /\ \A s \in S : parcelOf'[s] \in made
  /\ \A s \in Stone \ S : parcelOf'[s] = parcelOf[s]
  /\ parcel' \in [Parcel -> ParcelRecord]
  /\ \A p \in Parcel \ made : parcel'[p] = parcel[p]
  /\ \A p \in made : /\ parcel'[p].state = "draft"
                     /\ parcel'[p].type = "sale"
                     /\ parcel'[p].slip = {}

\* Make parcels puts the chosen stones, and no others, in new draft parcels.
LEMMA MakeFacts ==
  ASSUME TypeOK, NEW S \in SUBSET ReadyToDispatch, MakeParcels(S)
  PROVE  \E made \in SUBSET Parcel : Made(S, made)
<1> DEFINE places == {dest[s] : s \in S}
           choice(of, p) == CHOOSE a \in places : of[a] = p
           new(made, of, p) ==
             [Unmade EXCEPT
                !.state = "draft", !.to = choice(of, p), !.batch = made,
                !.approval = ApprovalFor(choice(of, p),
                               {s \in S : dest[s] = choice(of, p)},
                               parcelOf, dest)]
<1>0. PICK made \in SUBSET {p \in Parcel : parcel[p].state = "none"} :
        \E of \in [places -> made] :
          /\ {of[a] : a \in places} = made
          /\ parcelOf' = [s \in Stone |-> IF s \in S THEN of[dest[s]]
                                          ELSE parcelOf[s]]
          /\ parcel' = [p \in Parcel |-> IF p \in made
                                          THEN new(made, of, p)
                                          ELSE parcel[p]]
  BY DEF MakeParcels
<1>1. PICK of \in [places -> made] :
          /\ {of[a] : a \in places} = made
          /\ parcelOf' = [s \in Stone |-> IF s \in S THEN of[dest[s]]
                                          ELSE parcelOf[s]]
          /\ parcel' = [p \in Parcel |-> IF p \in made THEN new(made, of, p)
                                        ELSE parcel[p]]
  BY <1>0
<1>2. S \subseteq Stone
  BY DEF ReadyToDispatch, Live
<1>3. places \subseteq Address
  BY <1>2 DEF TypeOK
<1>4. \A p \in made : choice(of, p) \in places
  BY <1>1
<1>5. ASSUME NEW p \in made
      PROVE  /\ new(made, of, p) \in ParcelRecord
             /\ new(made, of, p).state = "draft"
             /\ new(made, of, p).type = "sale"
             /\ new(made, of, p).slip = {}
  <2> DEFINE c == choice(of, p)
             app == ApprovalFor(c, {s \in S : dest[s] = c}, parcelOf, dest)
  <2>1. c \in Address
    BY <1>3, <1>4
  <2>2. app \in {"not_required", "pending", "approved", "refused"}
    BY ApprovalType
  <2>3. made \subseteq Parcel
    BY <1>1
  <2> HIDE DEF c, app
  <2>4. new(made, of, p) = [Unmade EXCEPT !.state = "draft", !.to = c,
                              !.batch = made, !.approval = app]
    BY DEF c, app
  <2>5. Unmade.type = "sale" /\ Unmade.slip = {}
    BY DEF Unmade
  <2> HIDE DEF new
  <2>6. QED
    BY <2>1, <2>2, <2>3, <2>4, <2>5, UnmadeType DEF ParcelRecord
<1> HIDE DEF new
<1>6. parcel' \in [Parcel -> ParcelRecord]
  BY <1>1, <1>5 DEF TypeOK
<1>7. \A s \in S : parcelOf'[s] \in made
  <2>1. SUFFICES ASSUME NEW s \in S PROVE of[dest[s]] \in made
    BY <1>1, <1>2
  <2>2. dest[s] \in places
    OBVIOUS
  <2>3. QED
    BY <1>1, <2>2
<1>8. parcelOf' \in [Stone -> Parcel \cup {NoParcel}]
  <2>1. \A s \in Stone : (IF s \in S THEN of[dest[s]] ELSE parcelOf[s])
                            \in Parcel \cup {NoParcel}
    BY <1>1, <1>2, <1>7 DEF TypeOK
  <2>2. QED
    BY <1>1, <2>1
<1>9. QED
  BY <1>1, <1>2, <1>5, <1>6, <1>7, <1>8 DEF Made

\* A split moves S to another parcel q, a draft or a new one; the slips of
\* both are cleared, and only a parcel that is left empty is cancelled.
Moved(p, S, q) ==
  /\ parcel[q].state \in {"none", "draft"}
  /\ parcelOf' \in [Stone -> Parcel \cup {NoParcel}]
  /\ \A s \in S : parcelOf'[s] = q
  /\ \A s \in Stone \ S : parcelOf'[s] = parcelOf[s]
  /\ dest' \in [Stone -> Address]
  /\ parcel' \in [Parcel -> ParcelRecord]
  /\ parcel'[p].state = IF S = Lines(p) THEN "cancelled" ELSE "draft"
  /\ parcel'[p].type = parcel[p].type
  /\ parcel'[p].slip = {}
  /\ parcel'[q].state = "draft"
  /\ parcel'[q].slip = {}
  /\ parcel[q].state = "draft" => parcel'[q].type = parcel[q].type
  /\ parcel'[q].type = "memo" => \A s \in S : posted[s] = 0
  /\ \A r \in Parcel \ {p, q} : /\ parcel'[r].state = parcel[r].state
                                /\ parcel'[r].type = parcel[r].type
                                /\ parcel'[r].slip = parcel[r].slip

\* A split moves the chosen stones to one other draft parcel, slips cleared.
LEMMA SplitFacts ==
  ASSUME TypeOK, NEW p \in Parcel, NEW S \in SUBSET Lines(p),
         NEW a \in Address, Split(p, S, a)
  PROVE  \E q \in Parcel \ {p} : Moved(p, S, q)
<1> DEFINE rest == Lines(p) \ S
           moved(q) == [s \in Stone |-> IF s \in S THEN q ELSE parcelOf[s]]
           going == [s \in Stone |-> IF s \in S THEN a ELSE dest[s]]
           batch(q) == parcel[p].batch \cup {q}
           appP(q) == ApprovalFor(parcel[p].to, rest, moved(q), going)
           appQ(q) == ApprovalFor(a, Lines(q) \cup S, moved(q), going)
           newP(q) == [parcel[p] EXCEPT
                         !.slip = SlipAfterSplit(@), !.batch = batch(q),
                         !.state = IF rest = {} THEN "cancelled" ELSE @,
                         !.approval = IF rest = {} THEN @ ELSE appP(q)]
           newQ(q) == [Sibling(p, q, a) EXCEPT
                         !.slip = SlipAfterSplit(@), !.batch = batch(q),
                         !.approval = appQ(q)]
<1>1. PICK q \in Siblings(p, a) :
        /\ Sibling(p, q, a).type = "memo" => \A s \in S : posted[s] = 0
        /\ parcelOf' = moved(q)
        /\ dest' = going
        /\ parcel' = [r \in Parcel |->
                        CASE r = p -> newP(q)
                          [] r = q -> newQ(q)
                          [] r \in batch(q) \ {p, q} ->
                               [parcel[r] EXCEPT !.batch = batch(q)]
                          [] OTHER -> parcel[r]]
  BY DEF Split
<1>2. parcel[p].state = "draft"
  BY DEF Split
<1>3. /\ parcel[p] \in ParcelRecord
      /\ parcel[p].batch \subseteq Parcel
  BY DEF TypeOK, ParcelRecord
<1>4. /\ q \in Parcel \ {p}
      /\ parcel[q].state \in {"none", "draft"}
  <2> DEFINE there == {x \in parcel[p].batch \ {p} :
                         parcel[x].state = "draft" /\ parcel[x].to = a}
  <2>1. CASE there # {}
    BY <2>1, <1>3 DEF Siblings
  <2>2. CASE there = {}
    BY <2>2, <1>2 DEF Siblings
  <2>3. QED
    BY <2>1, <2>2
<1>5. batch(q) \subseteq Parcel
  BY <1>3, <1>4
<1>6. /\ Sibling(p, q, a) \in ParcelRecord
      /\ Sibling(p, q, a).state = "draft"
      /\ parcel[q].state = "draft" => Sibling(p, q, a).type = parcel[q].type
  <2>1. CASE parcel[q].state = "draft"
    BY <2>1, <1>4 DEF Sibling, TypeOK
  <2>2. CASE parcel[q].state # "draft"
    <3>1. Sibling(p, q, a) = [Unmade EXCEPT !.state = "draft", !.to = a,
                                            !.type = parcel[p].type]
      BY <2>2 DEF Sibling
    <3>2. parcel[p].type \in {"sale", "memo"}
      BY <1>3 DEF ParcelRecord
    <3>3. QED
      BY <2>2, <3>1, <3>2 DEF Unmade, ParcelRecord
  <2>3. QED
    BY <2>1, <2>2
<1>7. /\ appP(q) \in {"not_required", "pending", "approved", "refused"}
      /\ appQ(q) \in {"not_required", "pending", "approved", "refused"}
  BY ApprovalType
<1> HIDE DEF appP, appQ, batch
<1>8. /\ newP(q) \in ParcelRecord
      /\ newP(q).state = IF S = Lines(p) THEN "cancelled" ELSE "draft"
      /\ newP(q).type = parcel[p].type
      /\ newP(q).slip = {}
  <2>1. CASE rest = {}
    <3>1. newP(q) = [parcel[p] EXCEPT !.slip = {}, !.batch = batch(q),
                                      !.state = "cancelled"]
      BY <1>3, <2>1 DEF SlipAfterSplit, ParcelRecord
    <3> HIDE DEF newP
    <3>2. S = Lines(p)
      BY <2>1
    <3>3. QED
      BY <1>3, <1>5, <3>1, <3>2 DEF ParcelRecord
  <2>2. CASE rest # {}
    <3>1. newP(q) = [parcel[p] EXCEPT !.slip = {}, !.batch = batch(q),
                                      !.approval = appP(q)]
      BY <1>3, <2>2 DEF SlipAfterSplit, ParcelRecord
    <3> HIDE DEF newP
    <3>2. S # Lines(p)
      BY <2>2
    <3>3. QED
      BY <1>2, <1>3, <1>5, <1>7, <3>1, <3>2 DEF ParcelRecord
  <2>3. QED
    BY <2>1, <2>2
<1>9. /\ newQ(q) \in ParcelRecord
      /\ newQ(q).state = "draft"
      /\ newQ(q).type = Sibling(p, q, a).type
      /\ newQ(q).slip = {}
  BY <1>5, <1>6, <1>7 DEF ParcelRecord, SlipAfterSplit
<1> HIDE DEF newP, newQ
<1>10. ASSUME NEW r \in Parcel \ {p, q}
       PROVE  /\ parcel'[r] \in ParcelRecord
              /\ parcel'[r].state = parcel[r].state
              /\ parcel'[r].type = parcel[r].type
              /\ parcel'[r].slip = parcel[r].slip
  <2>1. \/ parcel'[r] = parcel[r]
        \/ parcel'[r] = [parcel[r] EXCEPT !.batch = batch(q)]
    BY <1>1
  <2>2. parcel[r] \in ParcelRecord
    BY DEF TypeOK
  <2>3. QED
    BY <2>1, <2>2, <1>5 DEF ParcelRecord
<1>11. parcel'[p] = newP(q) /\ parcel'[q] = newQ(q)
  BY <1>1, <1>4
<1>12. parcel' \in [Parcel -> ParcelRecord]
  <2>1. \A r \in Parcel : parcel'[r] \in ParcelRecord
    BY <1>8, <1>9, <1>10, <1>11
  <2>2. parcel' = [r \in Parcel |-> parcel'[r]]
    BY <1>1
  <2>3. QED
    BY <2>1, <2>2
<1>13. dest' \in [Stone -> Address]
  BY <1>1 DEF TypeOK
<1>14. /\ parcelOf' \in [Stone -> Parcel \cup {NoParcel}]
       /\ \A s \in S : parcelOf'[s] = q
       /\ \A s \in Stone \ S : parcelOf'[s] = parcelOf[s]
  <2>1. S \subseteq Stone
    BY DEF Lines
  <2>2. QED
    BY <1>1, <1>4, <2>1 DEF TypeOK
<1>15. QED
  BY <1>1, <1>4, <1>6, <1>8, <1>9, <1>10, <1>11, <1>12, <1>13, <1>14
     DEF Moved

-----------------------------------------------------------------------------
(* Every step keeps the types.                                             *)

\* A new scope of the draft is a set of stones.
LEMMA DraftType ==
  ASSUME TypeOK, NEW d \in SUBSET draft, NEW live \in SUBSET Stone,
         NEW memo, NEW vaulted, NEW done
  PROVE  /\ Rescope(d, live, memo, done) \subseteq Stone
         /\ Prepare(d, live, vaulted, done) \subseteq Stone
  BY PrepareFacts, RescopeFacts DEF TypeOK

\* Writing one parcel leaves a table of parcels.
LEMMA ParcelEdit ==
  ASSUME TypeOK, NEW p \in Parcel, NEW r \in ParcelRecord
  PROVE  [parcel EXCEPT ![p] = r] \in [Parcel -> ParcelRecord]
  BY DEF TypeOK

\* Every button keeps the types.
LEMMA TypeStep ==
  ASSUME TypeOK, [Next]_vars
  PROVE  TypeOK'
<1> USE DEF lineVars
<1>0. Live \subseteq Stone
  BY LiveType
<1>1. ASSUME NEW s \in Stone, PutInVault(s) PROVE TypeOK'
  BY <1>1, <1>0, DraftType DEF PutInVault, TypeOK
<1>2. ASSUME NEW s \in Stone, HandToDispatch(s) PROVE TypeOK'
  BY <1>2 DEF HandToDispatch, TypeOK
<1>3. ASSUME NEW s \in Stone, CancelLine(s) PROVE TypeOK'
  BY <1>3 DEF CancelLine, TypeOK, Status
<1>4. ASSUME NEW s \in Stone, QcDecides(s) PROVE TypeOK'
  <2>1. PICK w \in {"memo_returned", "qc_fail"} : SetStatus({s}, w)
    BY <1>4 DEF QcDecides
  <2>2. status' \in [Stone -> Status]
    BY <2>1, StatusType DEF Status
  <2>3. QED
    BY <1>4, <2>2 DEF QcDecides, TypeOK
<1>5. ASSUME NEW S \in SUBSET ReadyToDispatch, MakeParcels(S) PROVE TypeOK'
  <2>1. /\ parcelOf' \in [Stone -> Parcel \cup {NoParcel}]
        /\ parcel' \in [Parcel -> ParcelRecord]
    BY <1>5, MakeFacts DEF Made
  <2>2. draft' \subseteq Stone
    BY <1>5, <1>0, DraftType DEF MakeParcels
  <2>3. QED
    BY <1>5, <2>1, <2>2 DEF MakeParcels, TypeOK
<1>6. ASSUME NEW p \in Parcel, NEW t \in {"sale", "memo"}, SetType(p, t)
      PROVE  TypeOK'
  <2>1. draft' \subseteq Stone
    BY <1>6, <1>0, DraftType DEF SetType
  <2>2. parcel' \in [Parcel -> ParcelRecord]
    BY <1>6 DEF SetType, TypeOK, ParcelRecord
  <2>3. QED
    BY <1>6, <2>1, <2>2 DEF SetType, TypeOK
<1>7. ASSUME NEW p \in Parcel, PrintInvoiceSlip(p) PROVE TypeOK'
  <2>1. Lines(p) \subseteq Stone
    BY DEF Lines
  <2>2. parcel' \in [Parcel -> ParcelRecord]
    BY <1>7, <2>1 DEF PrintInvoiceSlip, TypeOK, ParcelRecord
  <2>3. QED
    BY <1>7, <2>2 DEF PrintInvoiceSlip, TypeOK
<1>8. ASSUME NEW p \in Parcel, PrintMemoSlip(p) PROVE TypeOK'
  <2> DEFINE r == [parcel[p] EXCEPT !.memoSlip = TRUE]
  <2>1. parcel' \in [Parcel -> ParcelRecord]
    <3>1. TRUE \in BOOLEAN
      OBVIOUS
    <3>2. parcel[p] \in ParcelRecord
      BY DEF TypeOK
    <3>3. r \in ParcelRecord
      BY <3>1, <3>2 DEF ParcelRecord
    <3>4. parcel' = [parcel EXCEPT ![p] = r]
      BY <1>8 DEF PrintMemoSlip
    <3> HIDE DEF r
    <3>5. QED
      BY <3>3, <3>4, ParcelEdit
  <2>2. QED
    BY <1>8, <2>1 DEF PrintMemoSlip, TypeOK
<1>9. ASSUME NEW p \in Parcel, NEW S \in SUBSET Lines(p), NEW a \in Address,
             Split(p, S, a)
      PROVE  TypeOK'
  <2>1. /\ parcel' \in [Parcel -> ParcelRecord]
        /\ parcelOf' \in [Stone -> Parcel \cup {NoParcel}]
        /\ dest' \in [Stone -> Address]
    BY <1>9, SplitFacts DEF Moved
  <2>2. draft' \subseteq Stone
    BY <1>9, <1>0, DraftType DEF Split
  <2>3. QED
    BY <1>9, <2>1, <2>2 DEF Split, TypeOK
<1>10. ASSUME NEW p \in Parcel, CancelParcel(p) PROVE TypeOK'
  <2>1. draft' \subseteq Stone
    BY <1>10, <1>0, DraftType DEF CancelParcel
  <2>2. /\ parcel' \in [Parcel -> ParcelRecord]
        /\ parcelOf' \in [Stone -> Parcel \cup {NoParcel}]
    <3>1. parcel' \in [Parcel -> ParcelRecord]
      <4>1. parcel' = [parcel EXCEPT ![p].state = "cancelled"]
        BY <1>10 DEF CancelParcel
      <4>2. QED
        BY <4>1 DEF TypeOK, ParcelRecord
    <3>2. parcelOf' \in [Stone -> Parcel \cup {NoParcel}]
      BY <1>10 DEF CancelParcel, TypeOK
    <3>3. QED
      BY <3>1, <3>2
  <2>3. QED
    BY <1>10, <2>1, <2>2 DEF CancelParcel, TypeOK
<1>11. ASSUME NEW p \in Parcel, ApprovePartial(p) \/ RefusePartial(p)
       PROVE  TypeOK'
  <2>1. parcel' \in [Parcel -> ParcelRecord]
    <3>1. PICK w \in {"approved", "refused"} :
            parcel' = [parcel EXCEPT ![p].approval = w]
      BY <1>11 DEF ApprovePartial, RefusePartial
    <3>2. QED
      BY <3>1 DEF TypeOK, ParcelRecord
  <2>2. QED
    BY <1>11, <2>1 DEF ApprovePartial, RefusePartial, TypeOK
<1>12. ASSUME NEW p \in Parcel, HandOver(p) PROVE TypeOK'
  <2>1. draft' \subseteq Stone
    <3>1. PICK left \in SUBSET draft :
            draft' = Rescope(left, Live, OnMemo', posted')
      BY <1>12 DEF HandOver
    <3>2. QED
      BY <3>1, <1>0, DraftType
  <2>2. parcel' \in [Parcel -> ParcelRecord]
    BY <1>12 DEF HandOver, TypeOK, ParcelRecord
  <2>3. status' \in [Stone -> Status]
    BY <1>12, StatusType DEF HandOver, Status
  <2>4. posted' \in [Stone -> Nat]
    BY <1>12, PostType DEF HandOver
  <2>5. stock' \subseteq Stone
    BY <1>12 DEF HandOver, TypeOK
  <2>6. QED
    BY <1>12, <2>1, <2>2, <2>3, <2>4, <2>5 DEF HandOver, TypeOK
<1>13. ASSUME NEW p \in Parcel, ConfirmDelivery(p) PROVE TypeOK'
  <2>1. draft' \subseteq Stone
    BY <1>13, <1>0, DraftType DEF ConfirmDelivery
  <2>2. parcel' \in [Parcel -> ParcelRecord]
    BY <1>13 DEF ConfirmDelivery, TypeOK, ParcelRecord
  <2>3. status' \in [Stone -> Status]
    BY <1>13, StatusType DEF ConfirmDelivery, Status
  <2>4. QED
    BY <1>13, <2>1, <2>2, <2>3 DEF ConfirmDelivery, TypeOK
<1>14. ASSUME NEW p \in Parcel, ReturnOfOrder(p) PROVE TypeOK'
  <2>1. status' \in [Stone -> Status]
    BY <1>14, StatusType DEF ReturnOfOrder, Status
  <2>2. parcel' \in [Parcel -> ParcelRecord]
    BY <1>14 DEF ReturnOfOrder, TypeOK, ParcelRecord
  <2>3. draft' \subseteq Stone
    <3>1. Live' \subseteq Stone
      BY DEF Live
    <3>2. QED
      BY <1>14, <3>1, DraftType DEF ReturnOfOrder, TypeOK
  <2>4. QED
    BY <1>14, <2>1, <2>2, <2>3 DEF ReturnOfOrder, TypeOK
<1>15. ASSUME NEW p \in Parcel, ReDispatch(p) PROVE TypeOK'
  <2>1. status' \in [Stone -> Status]
    BY <1>15, StatusType DEF ReDispatch, Status
  <2>2. QED
    BY <1>15, <2>1 DEF ReDispatch, TypeOK
<1>16. ASSUME NEW p \in Parcel, CompleteOrder(p) PROVE TypeOK'
  <2>1. status' \in [Stone -> Status]
    BY <1>16, StatusType DEF CompleteOrder, Status
  <2>2. QED
    BY <1>16, <2>1 DEF CompleteOrder, TypeOK
<1>17. ASSUME NEW p \in Parcel, NEW kept \in SUBSET Undecided(p),
              NEW back \in SUBSET Undecided(p), MemoReturn(p, kept, back)
       PROVE  TypeOK'
  <2>1. status' \in [Stone -> Status]
    <3>1. status' = [s \in Stone |-> StatusAfterReturn(s, kept, back)]
      BY <1>17 DEF MemoReturn
    <3>2. \A s \in Stone : StatusAfterReturn(s, kept, back) \in Status
      BY DEF StatusAfterReturn, TypeOK, Status
    <3>3. QED
      BY <3>1, <3>2
  <2>2. outcome' \in [Stone -> {"none", "kept", "returned"}]
    BY <1>17 DEF MemoReturn, TypeOK
  <2>3. stock' \subseteq Stone
    BY <1>17 DEF MemoReturn, TypeOK, Undecided, Lines
  <2>4. posted' \in [Stone -> Nat]
    BY <1>17, PostType DEF MemoReturn
  <2>5. parcel' \in [Parcel -> ParcelRecord]
    <3>1. CASE parcel' = parcel
      BY <3>1 DEF TypeOK
    <3>2. CASE parcel' # parcel
      <4>1. PICK t \in {"sale", "memo"} :
              parcel' = [parcel EXCEPT ![p].state = "memo_closed", ![p].type = t]
        BY <1>17, <3>2 DEF MemoReturn
      <4>2. parcel[p] \in ParcelRecord
        BY DEF TypeOK
      <4> DEFINE r == [parcel[p] EXCEPT !.state = "memo_closed", !.type = t]
      <4>3. r \in ParcelRecord
        BY <4>2 DEF ParcelRecord
      <4>4. parcel' = [parcel EXCEPT ![p] = r]
        BY <4>1 DEF TypeOK
      <4> HIDE DEF r
      <4>5. QED
        BY <4>3, <4>4, ParcelEdit
    <3>3. QED
      BY <3>1, <3>2
  <2>6. draft' \subseteq Stone
    <3>1. PICK d \in SUBSET draft, live \in SUBSET Stone :
            draft' = d \/ draft' = Rescope(d, live, OnMemo', posted')
      BY <1>17 DEF MemoReturn
    <3>2. CASE draft' = d
      BY <3>2 DEF TypeOK
    <3>3. CASE draft' # d
      <4>1. draft' = Rescope(d, live, OnMemo', posted')
        BY <3>1, <3>3
      <4>2. QED
        BY <4>1, DraftType
    <3>4. QED
      BY <3>2, <3>3
  <2>7. QED
    BY <1>17, <2>1, <2>2, <2>3, <2>4, <2>5, <2>6 DEF MemoReturn, TypeOK
<1>18. ASSUME PostInvoice PROVE TypeOK'
  BY <1>18, PostType DEF PostInvoice, TypeOK
<1>19. ASSUME UNCHANGED vars PROVE TypeOK'
  BY <1>19 DEF vars, TypeOK
<1>20. QED
  BY <1>1, <1>2, <1>3, <1>4, <1>5, <1>6, <1>7, <1>8, <1>9, <1>10, <1>11,
     <1>12, <1>13, <1>14, <1>15, <1>16, <1>17, <1>18, <1>19
     DEF Next, OfLine, OfParcel

\* Every variable keeps its type, whatever the order and its parcels.
THEOREM TypeCorrect == Spec => []TypeOK
<1>1. Init => TypeOK
  <2>1. SUFFICES ASSUME Init PROVE TypeOK
    OBVIOUS
  <2>2. parcel \in [Parcel -> ParcelRecord]
    BY <2>1, UnmadeType DEF Init
  <2>3. QED
    BY <2>1, <2>2, DispatchAssumption DEF Init, TypeOK, Status
<1>2. TypeOK /\ [Next]_vars => TypeOK'
  BY TypeStep
<1>3. QED
  BY <1>1, <1>2, PTL DEF Spec

-----------------------------------------------------------------------------
(* Stones, parcels and slips.                                              *)

\* What a step does not do to parcels and their stones: then Custody and the
\* slips stay as they are.
Still ==
  /\ UNCHANGED <<atDispatch, vault, parcelOf, outcome>>
  /\ \A p \in Parcel : /\ parcel'[p].state = parcel[p].state
                       /\ parcel'[p].slip = parcel[p].slip
                       /\ parcel'[p].type = parcel[p].type

\* A step that moves no stone and no parcel keeps the boxes as they are.
LEMMA StillStep ==
  ASSUME TypeOK, Custody, DraftSlips, SlipListsParcel, Still
  PROVE  Custody' /\ DraftSlips' /\ SlipListsParcel'
<1>1. \A p : Lines(p)' = Lines(p)
  BY DEF Lines, Still
<1>2. Custody'
  BY DEF Custody, Still, Left, TypeOK
<1>3. DraftSlips' /\ SlipListsParcel'
  BY <1>1 DEF DraftSlips, SlipListsParcel, Still
<1>4. QED
  BY <1>2, <1>3

\* Every button keeps the custody of the stones and the slips of the drafts.
LEMMA BoxStep ==
  ASSUME TypeOK, Custody, DraftSlips, SlipListsParcel, [Next]_vars
  PROVE  Custody' /\ DraftSlips' /\ SlipListsParcel'
<1> USE DEF lineVars
<1>1. ASSUME NEW s \in Stone, PutInVault(s)
      PROVE  Custody' /\ DraftSlips' /\ SlipListsParcel'
  <2>1. Custody'
    BY <1>1 DEF PutInVault, Custody, Left
  <2>2. DraftSlips' /\ SlipListsParcel'
    BY <1>1 DEF PutInVault, DraftSlips, SlipListsParcel, Lines
  <2>3. QED
    BY <2>1, <2>2
<1>2. ASSUME NEW s \in Stone, HandToDispatch(s)
      PROVE  Custody' /\ DraftSlips' /\ SlipListsParcel'
  <2>1. Custody'
    BY <1>2 DEF HandToDispatch, Custody, Left
  <2>2. DraftSlips' /\ SlipListsParcel'
    BY <1>2 DEF HandToDispatch, DraftSlips, SlipListsParcel, Lines
  <2>3. QED
    BY <2>1, <2>2
<1>3. ASSUME NEW s \in Stone, CancelLine(s) \/ QcDecides(s) PROVE Still
  BY <1>3 DEF CancelLine, QcDecides, Still
<1>4. ASSUME NEW S \in SUBSET ReadyToDispatch, MakeParcels(S)
      PROVE  Custody' /\ DraftSlips' /\ SlipListsParcel'
  <2>0. PICK made \in SUBSET Parcel : Made(S, made)
    BY <1>4, MakeFacts
  <2>1. /\ \A p \in made : parcel[p].state = "none"
        /\ \A s \in S : parcelOf'[s] \in made
        /\ \A s \in Stone \ S : parcelOf'[s] = parcelOf[s]
        /\ \A p \in Parcel \ made : parcel'[p] = parcel[p]
        /\ \A p \in made : /\ parcel'[p].state = "draft"
                           /\ parcel'[p].slip = {}
    BY <2>0 DEF Made
  <2>2. /\ UNCHANGED <<atDispatch, vault, outcome>>
        /\ \A s \in S : s \in atDispatch /\ s \in Stone /\ parcelOf[s] = NoParcel
    BY <1>4 DEF MakeParcels, ReadyToDispatch, Live
  <2>3. \A s \in Stone \ S : parcelOf[s] \in (Parcel \ made) \cup {NoParcel}
    BY <2>1 DEF Custody, TypeOK
  <2>4. \A p \in Parcel \ made : Lines(p)' = Lines(p)
    BY <2>1, <2>2, DispatchAssumption DEF Lines
  <2>5. Custody'
    <3>1. atDispatch' \subseteq vault'
      BY <2>2 DEF Custody
    <3>2. ASSUME NEW s \in Stone, parcelOf'[s] # NoParcel
          PROVE  s \in vault' /\ parcel'[parcelOf'[s]].state
                                  \notin {"none", "cancelled"}
      BY <2>1, <2>2, <2>3, <3>2 DEF Custody
    <3>3. ASSUME NEW s \in Stone, outcome'[s] # "none"
          PROVE  (parcelOf[s] # NoParcel /\ Left(parcelOf[s]))'
      BY <2>1, <2>2, <2>3, <3>3 DEF Custody, Left
    <3>4. QED
      BY <3>1, <3>2, <3>3 DEF Custody
  <2>6. DraftSlips' /\ SlipListsParcel'
    BY <2>1, <2>4 DEF DraftSlips, SlipListsParcel
  <2>7. QED
    BY <2>5, <2>6
<1>5. ASSUME NEW p \in Parcel, NEW t \in {"sale", "memo"}, SetType(p, t)
      PROVE  Custody' /\ DraftSlips' /\ SlipListsParcel'
  <2>1. \A q \in Parcel : /\ parcel'[q].state = parcel[q].state
                          /\ parcel'[q].slip = parcel[q].slip
                          /\ q # p => parcel'[q].type = parcel[q].type
    BY <1>5 DEF SetType, TypeOK, ParcelRecord
  <2>2. Custody'
    BY <1>5, <2>1 DEF SetType, Custody, Left, TypeOK
  <2>3. DraftSlips' /\ SlipListsParcel'
    BY <1>5, <2>1 DEF SetType, DraftSlips, SlipListsParcel, Lines
  <2>4. QED
    BY <2>2, <2>3
<1>6. ASSUME NEW p \in Parcel, PrintInvoiceSlip(p)
      PROVE  Custody' /\ DraftSlips' /\ SlipListsParcel'
  <2>1. \A q \in Parcel : /\ parcel'[q].state = parcel[q].state
                          /\ parcel'[q].type = parcel[q].type
                          /\ parcel'[q].slip = IF q = p THEN Lines(p)
                                               ELSE parcel[q].slip
    BY <1>6 DEF PrintInvoiceSlip, TypeOK, ParcelRecord
  <2>2. Custody'
    BY <1>6, <2>1 DEF PrintInvoiceSlip, Custody, Left, TypeOK
  <2>3. DraftSlips' /\ SlipListsParcel'
    BY <1>6, <2>1 DEF PrintInvoiceSlip, DraftSlips, SlipListsParcel, Lines
  <2>4. QED
    BY <2>2, <2>3
<1>7. ASSUME NEW p \in Parcel,
             PrintMemoSlip(p) \/ ApprovePartial(p) \/ RefusePartial(p)
      PROVE  Still
  <2>1. UNCHANGED <<atDispatch, vault, parcelOf, outcome>>
    BY <1>7 DEF PrintMemoSlip, ApprovePartial, RefusePartial
  <2>2. \/ parcel' = [parcel EXCEPT ![p].memoSlip = TRUE]
        \/ \E w : parcel' = [parcel EXCEPT ![p].approval = w]
    BY <1>7 DEF PrintMemoSlip, ApprovePartial, RefusePartial
  <2>3. QED
    BY <2>1, <2>2 DEF Still, TypeOK, ParcelRecord
<1>8. ASSUME NEW p \in Parcel, NEW S \in SUBSET Lines(p), NEW a \in Address,
             Split(p, S, a)
      PROVE  Custody' /\ DraftSlips' /\ SlipListsParcel'
  <2>0. PICK q \in Parcel \ {p} : Moved(p, S, q)
    BY <1>8, SplitFacts
  <2>1. /\ parcel[q].state \in {"none", "draft"}
        /\ \A s \in S : parcelOf'[s] = q
        /\ \A s \in Stone \ S : parcelOf'[s] = parcelOf[s]
        /\ parcel'[p].state = IF S = Lines(p) THEN "cancelled" ELSE "draft"
        /\ parcel'[p].slip = {}
        /\ parcel'[q].state = "draft"
        /\ parcel'[q].slip = {}
        /\ \A r \in Parcel \ {p, q} : /\ parcel'[r].state = parcel[r].state
                                     /\ parcel'[r].type = parcel[r].type
                                     /\ parcel'[r].slip = parcel[r].slip
    BY <2>0 DEF Moved
  <2>2. /\ UNCHANGED <<atDispatch, vault, outcome>>
        /\ parcel[p].state = "draft"
        /\ \A s \in S : s \in Stone /\ parcelOf[s] = p
    BY <1>8 DEF Split, Lines
  <2>3. \A r \in Parcel \ {p, q} : Lines(r)' = Lines(r)
    BY <2>1, <2>2 DEF Lines
  <2>4. Custody'
    <3>1. atDispatch' \subseteq vault'
      BY <2>2 DEF Custody
    <3>2. ASSUME NEW s \in Stone, parcelOf'[s] # NoParcel
          PROVE  s \in vault' /\ parcel'[parcelOf'[s]].state
                                  \notin {"none", "cancelled"}
      <4>1. CASE s \in S
        BY <2>1, <2>2, <4>1, DispatchAssumption DEF Custody
      <4>2. CASE s \notin S
        <5>1. parcelOf'[s] = parcelOf[s]
          BY <2>1, <4>2
        <5>2. parcelOf[s] \in Parcel
          BY <5>1, <3>2 DEF TypeOK
        <5>3. parcelOf[s] = p => S # Lines(p)
          BY <4>2 DEF Lines
        <5>4. QED
          BY <2>1, <2>2, <3>2, <5>1, <5>2, <5>3 DEF Custody
      <4>3. QED
        BY <4>1, <4>2
    <3>3. ASSUME NEW s \in Stone, outcome'[s] # "none"
          PROVE  (parcelOf[s] # NoParcel /\ Left(parcelOf[s]))'
      <4>1. /\ parcelOf[s] \in Parcel
            /\ Left(parcelOf[s])
        BY <2>2, <3>3 DEF Custody, TypeOK
      <4>2. parcelOf[s] \notin {p, q}
        BY <2>1, <2>2, <4>1 DEF Left
      <4>3. QED
        BY <2>1, <2>2, <4>1, <4>2, DispatchAssumption DEF Left
    <3>4. QED
      BY <3>1, <3>2, <3>3 DEF Custody
  <2>5. DraftSlips' /\ SlipListsParcel'
    BY <2>1, <2>3 DEF DraftSlips, SlipListsParcel
  <2>6. QED
    BY <2>4, <2>5
<1>9. ASSUME NEW p \in Parcel, CancelParcel(p)
      PROVE  Custody' /\ DraftSlips' /\ SlipListsParcel'
  <2>1. /\ UNCHANGED <<atDispatch, vault, outcome>>
        /\ parcel[p].state = "draft"
        /\ \A s \in Stone : parcelOf'[s] = IF parcelOf[s] = p THEN NoParcel
                                           ELSE parcelOf[s]
    BY <1>9 DEF CancelParcel, Lines
  <2>2. \A q \in Parcel \ {p} : parcel'[q] = parcel[q]
    BY <1>9 DEF CancelParcel, TypeOK
  <2>3. parcel'[p].state = "cancelled"
    BY <1>9 DEF CancelParcel, TypeOK, ParcelRecord
  <2>4. \A q \in Parcel \ {p} : Lines(q)' = Lines(q)
    BY <2>1, DispatchAssumption DEF Lines
  <2>5. Custody'
    <3>1. \A s \in Stone : parcelOf[s] # NoParcel => parcelOf[s] \in Parcel
      BY DEF TypeOK
    <3>2. QED
      BY <2>1, <2>2, <3>1 DEF Custody, Left
  <2>6. DraftSlips' /\ SlipListsParcel'
    BY <2>2, <2>3, <2>4 DEF DraftSlips, SlipListsParcel
  <2>7. QED
    BY <2>5, <2>6
<1>10. ASSUME NEW p \in Parcel, HandOver(p)
       PROVE  Custody' /\ DraftSlips' /\ SlipListsParcel'
  <2>1. /\ UNCHANGED <<atDispatch, vault, outcome, parcelOf>>
        /\ parcel[p].state = "draft"
        /\ parcel[p].type = "sale" => parcel[p].slip # {}
    BY <1>10 DEF HandOver
  <2>2. \A q \in Parcel \ {p} : parcel'[q] = parcel[q]
    BY <1>10 DEF HandOver, TypeOK
  <2>3. /\ parcel'[p].state = "handed_over"
        /\ parcel'[p].type = parcel[p].type
        /\ parcel'[p].slip = parcel[p].slip
    BY <1>10 DEF HandOver, TypeOK, ParcelRecord
  <2>4. \A q \in Parcel : Lines(q)' = Lines(q)
    BY <2>1 DEF Lines
  <2>5. Custody'
    <3>1. \A s \in Stone : parcelOf[s] # NoParcel => parcelOf[s] \in Parcel
      BY DEF TypeOK
    <3>2. QED
      BY <2>1, <2>2, <2>3, <3>1 DEF Custody, Left
  <2>6. DraftSlips' /\ SlipListsParcel'
    BY <2>1, <2>2, <2>3, <2>4 DEF DraftSlips, SlipListsParcel
  <2>7. QED
    BY <2>5, <2>6
<1>11. ASSUME NEW p \in Parcel, ConfirmDelivery(p) \/ ReturnOfOrder(p)
       PROVE  Custody' /\ DraftSlips' /\ SlipListsParcel'
  <2>1. /\ UNCHANGED <<atDispatch, vault, outcome, parcelOf>>
        /\ parcel[p].state \in {"handed_over", "delivered"}
    BY <1>11 DEF ConfirmDelivery, ReturnOfOrder
  <2>2. PICK w \in {"handed_over", "delivered"} :
          parcel' = [parcel EXCEPT ![p].state = w]
    BY <1>11 DEF ConfirmDelivery, ReturnOfOrder
  <2>3. /\ \A q \in Parcel \ {p} : parcel'[q] = parcel[q]
        /\ parcel'[p].state \in {"handed_over", "delivered"}
        /\ parcel'[p].type = parcel[p].type
        /\ parcel'[p].slip = parcel[p].slip
    BY <2>2 DEF TypeOK, ParcelRecord
  <2>4. \A q \in Parcel : Lines(q)' = Lines(q)
    BY <2>1 DEF Lines
  <2>5. Custody'
    <3>1. \A s \in Stone : parcelOf[s] # NoParcel => parcelOf[s] \in Parcel
      BY DEF TypeOK
    <3>2. QED
      BY <2>1, <2>3, <3>1 DEF Custody, Left
  <2>6. DraftSlips' /\ SlipListsParcel'
    BY <2>1, <2>3, <2>4 DEF DraftSlips, SlipListsParcel
  <2>7. QED
    BY <2>5, <2>6
<1>12. ASSUME NEW p \in Parcel, ReDispatch(p) \/ CompleteOrder(p) PROVE Still
  BY <1>12 DEF ReDispatch, CompleteOrder, Still
<1>13. ASSUME NEW p \in Parcel, NEW kept \in SUBSET Undecided(p),
              NEW back \in SUBSET Undecided(p), MemoReturn(p, kept, back)
       PROVE  Custody' /\ DraftSlips' /\ SlipListsParcel'
  <2>1. /\ UNCHANGED <<atDispatch, vault, parcelOf>>
        /\ parcel[p].state \in {"handed_over", "delivered"}
        /\ parcel[p].type = "memo"
        /\ \A s \in Stone : s \notin kept \cup back => outcome'[s] = outcome[s]
    BY <1>13 DEF MemoReturn
  <2>2. \A s \in kept \cup back : parcelOf[s] = p
    BY DEF Undecided, Lines
  <2>3. /\ \A q \in Parcel \ {p} : parcel'[q] = parcel[q]
        /\ parcel'[p].state = "memo_closed" \/ parcel'[p] = parcel[p]
    BY <1>13 DEF MemoReturn, TypeOK, ParcelRecord
  <2>4. \A q \in Parcel : Lines(q)' = Lines(q)
    BY <2>1 DEF Lines
  <2>5. Custody'
    <3>1. \A s \in Stone : parcelOf[s] # NoParcel => parcelOf[s] \in Parcel
      BY DEF TypeOK
    <3>2. QED
      BY <2>1, <2>2, <2>3, <3>1, DispatchAssumption DEF Custody, Left
  <2>6. DraftSlips' /\ SlipListsParcel'
    BY <2>1, <2>3, <2>4 DEF DraftSlips, SlipListsParcel
  <2>7. QED
    BY <2>5, <2>6
<1>14. ASSUME PostInvoice \/ UNCHANGED vars PROVE Still
  BY <1>14 DEF PostInvoice, vars, Still
<1>15. QED
  BY <1>1, <1>2, <1>3, <1>4, <1>5, <1>6, <1>7, <1>8, <1>9, <1>10, <1>11,
     <1>12, <1>13, <1>14, StillStep DEF Next, OfLine, OfParcel

\* The slip in the box lists the stones in the box, whatever was split.
THEOREM SlipIsTrue == Spec => []SlipListsParcel
<1>1. Init => Custody /\ DraftSlips /\ SlipListsParcel
  BY DEF Init, Custody, DraftSlips, SlipListsParcel, Unmade
<1>2. TypeOK /\ Custody /\ DraftSlips /\ SlipListsParcel /\ [Next]_vars
        => Custody' /\ DraftSlips' /\ SlipListsParcel'
  BY BoxStep
<1>3. QED
  BY <1>1, <1>2, TypeCorrect, PTL DEF Spec

-----------------------------------------------------------------------------
(* The invoice.                                                            *)

\* What is on memo are lines of the order.
LEMMA MemoType == OnMemo \subseteq Stone
  BY DEF OnMemo

\* A step that bills nothing keeps the books: the draft loses stones or takes
\* unbilled ones, never one on memo, and only unbilled stones go on memo.
NothingBilled ==
  /\ UNCHANGED <<posted, outcome>>
  /\ void \subseteq void'
  /\ \A s \in draft' : s \in draft \/ posted[s] = 0
  /\ draft' \cap OnMemo' = {}
  /\ \A s \in OnMemo' : s \in OnMemo \/ posted[s] = 0

\* A step that bills nothing and only renews the draft keeps the books.
LEMMA NothingBilledStep ==
  ASSUME TypeOK, InvoicedOnce, MemoUnbilled, KeptBilled, NothingBilled
  PROVE  InvoicedOnce' /\ MemoUnbilled' /\ KeptBilled'
<1>1. posted \in [Stone -> Nat]
  BY DEF TypeOK
<1>2. InvoicedOnce'
  BY <1>1 DEF InvoicedOnce, NothingBilled
<1>3. MemoUnbilled'
  BY <1>1 DEF MemoUnbilled, NothingBilled
<1>4. KeptBilled'
  BY DEF KeptBilled, NothingBilled
<1>5. QED
  BY <1>2, <1>3, <1>4

\* A step that renews the scope of the draft and bills nothing.
LEMMA RescopeStep ==
  ASSUME TypeOK, NEW live \in SUBSET Stone,
         draft' = Rescope(draft, live, OnMemo', posted),
         UNCHANGED <<posted, outcome, void>>,
         \A s \in OnMemo' : s \in OnMemo \/ posted[s] = 0
  PROVE  NothingBilled
<1>1. draft \in SUBSET Stone
  BY DEF TypeOK
<1>2. QED
  BY <1>1, RescopeFacts DEF NothingBilled

\* A step that touches neither the invoices nor what is on memo.
LEMMA AsideStep ==
  ASSUME MemoUnbilled, UNCHANGED <<posted, outcome, draft, parcelOf>>,
         void \subseteq void', OnMemo' = OnMemo
  PROVE  NothingBilled
  BY DEF NothingBilled, MemoUnbilled

\* What is on memo depends on the types and on what is cancelled only.
LEMMA MemoSame ==
  ASSUME TypeOK, UNCHANGED parcelOf,
         \A q \in Parcel : /\ parcel'[q].type = parcel[q].type
                           /\ parcel'[q].state = "cancelled"
                                <=> parcel[q].state = "cancelled"
  PROVE  OnMemo' = OnMemo
<1>1. \A s \in Stone : parcelOf[s] # NoParcel => parcelOf[s] \in Parcel
  BY DEF TypeOK
<1>2. QED
  BY <1>1 DEF OnMemo

\* Every button keeps the books of the invoices.
LEMMA InvoiceStep ==
  ASSUME TypeOK, Custody, InvoicedOnce, MemoUnbilled, KeptBilled, [Next]_vars
  PROVE  InvoicedOnce' /\ MemoUnbilled' /\ KeptBilled'
<1> USE DEF lineVars
<1>0. /\ Live \subseteq Stone
      /\ posted \in [Stone -> Nat]
      /\ draft \subseteq Stone
  BY LiveType DEF TypeOK
<1>1. ASSUME NEW s \in Stone, PutInVault(s) PROVE NothingBilled
  <2>1. OnMemo' = OnMemo
    BY <1>1 DEF PutInVault, OnMemo
  <2>2. /\ draft' = Prepare(draft, Live \ OnMemo, vault', posted)
        /\ UNCHANGED <<posted, outcome, void>>
    BY <1>1 DEF PutInVault
  <2>3. \A x \in draft' : x \in draft \cup (Live \ OnMemo)
                          /\ (x \in draft \/ posted[x] = 0)
    BY <2>2, PrepareFacts
  <2>4. QED
    BY <2>1, <2>2, <2>3 DEF NothingBilled, MemoUnbilled
<1>2. ASSUME NEW s \in Stone,
             HandToDispatch(s) \/ CancelLine(s) \/ QcDecides(s)
      PROVE  NothingBilled
  <2>1. OnMemo' = OnMemo
    BY <1>2 DEF HandToDispatch, CancelLine, QcDecides, OnMemo
  <2>2. QED
    BY <1>2, <2>1, AsideStep DEF HandToDispatch, CancelLine, QcDecides
<1>3. ASSUME NEW S \in SUBSET ReadyToDispatch, MakeParcels(S)
      PROVE  NothingBilled
  <2>1. PICK made \in SUBSET Parcel : Made(S, made)
    BY <1>3, MakeFacts
  <2>2. ASSUME NEW s \in OnMemo' PROVE s \in OnMemo
    <3>1. s \in Stone /\ parcelOf'[s] \in Parcel /\ s \notin S
      BY <2>1, <2>2 DEF OnMemo, Made
    <3>2. parcelOf'[s] = parcelOf[s] /\ parcelOf[s] # NoParcel
      BY <2>1, <2>2, <3>1 DEF OnMemo, Made
    <3>3. parcelOf[s] \notin made
      BY <2>1, <3>1, <3>2 DEF Made, Custody
    <3>4. QED
      BY <2>1, <2>2, <3>1, <3>2, <3>3 DEF OnMemo, Made
  <2>3. QED
    BY <1>3, <1>0, <2>2, RescopeStep DEF MakeParcels
<1>4. ASSUME NEW p \in Parcel, NEW t \in {"sale", "memo"}, SetType(p, t)
      PROVE  NothingBilled
  <2>1. \A q \in Parcel : /\ parcel'[q].state = parcel[q].state
                          /\ q # p => parcel'[q].type = parcel[q].type
    BY <1>4 DEF SetType, TypeOK, ParcelRecord
  <2>2. /\ parcel'[p].type = t
        /\ t = "memo" => \A s \in Lines(p) : posted[s] = 0
    <3>1. parcel'[p].type = t
      BY <1>4 DEF SetType, TypeOK, ParcelRecord
    <3>2. t = "memo" => \A s \in Lines(p) : posted[s] = 0
      BY <1>4 DEF SetType
    <3>3. QED
      BY <3>1, <3>2
  <2>3. ASSUME NEW s \in OnMemo' PROVE s \in OnMemo \/ posted[s] = 0
    <3>1. /\ s \in Stone
          /\ parcelOf[s] # NoParcel
          /\ parcel'[parcelOf[s]].type = "memo"
          /\ parcel'[parcelOf[s]].state # "cancelled"
      BY <1>4, <2>3 DEF SetType, OnMemo
    <3>2. parcelOf[s] \in Parcel
      BY <3>1 DEF TypeOK
    <3>3. CASE parcelOf[s] = p
      BY <2>2, <3>1, <3>3 DEF Lines
    <3>4. CASE parcelOf[s] # p
      BY <2>1, <3>1, <3>2, <3>4 DEF OnMemo
    <3>5. QED
      BY <3>3, <3>4
  <2>4. QED
    BY <1>4, <1>0, <2>3, RescopeStep DEF SetType
<1>5. ASSUME NEW p \in Parcel,
             \/ PrintInvoiceSlip(p) \/ PrintMemoSlip(p)
             \/ ApprovePartial(p) \/ RefusePartial(p)
      PROVE  NothingBilled
  <2>1. UNCHANGED <<posted, outcome, draft, parcelOf, void>>
    BY <1>5 DEF PrintInvoiceSlip, PrintMemoSlip, ApprovePartial, RefusePartial
  <2>2. \/ parcel' = [parcel EXCEPT ![p].memoSlip = TRUE]
        \/ parcel' = [parcel EXCEPT ![p].slip = Lines(p)]
        \/ \E w : parcel' = [parcel EXCEPT ![p].approval = w]
    BY <1>5 DEF PrintInvoiceSlip, PrintMemoSlip, ApprovePartial, RefusePartial
  <2>3. \A q \in Parcel : /\ parcel'[q].state = parcel[q].state
                          /\ parcel'[q].type = parcel[q].type
    BY <2>2 DEF TypeOK, ParcelRecord
  <2>4. OnMemo' = OnMemo
    BY <2>1, <2>3, MemoSame
  <2>5. QED
    BY <2>1, <2>4, AsideStep
<1>6. ASSUME NEW p \in Parcel, NEW S \in SUBSET Lines(p), NEW a \in Address,
             Split(p, S, a)
      PROVE  NothingBilled
  <2>1. PICK q \in Parcel \ {p} : Moved(p, S, q)
    BY <1>6, SplitFacts
  <2>2. ASSUME NEW s \in OnMemo' PROVE s \in OnMemo \/ posted[s] = 0
    <3>1. /\ s \in Stone
          /\ parcelOf'[s] \in Parcel
          /\ parcel'[parcelOf'[s]].type = "memo"
          /\ parcel'[parcelOf'[s]].state # "cancelled"
      BY <2>1, <2>2 DEF OnMemo, Moved
    <3>2. CASE s \in S
      BY <2>1, <3>1, <3>2 DEF Moved
    <3>3. CASE s \notin S
      <4>1. parcelOf'[s] = parcelOf[s] /\ parcelOf[s] # NoParcel
        BY <2>1, <3>1, <3>3, DispatchAssumption DEF Moved
      <4>2. parcel[parcelOf[s]].state \notin {"none", "cancelled"}
        BY <3>1, <4>1 DEF Custody
      <4>3. parcel[parcelOf[s]].type = "memo"
        BY <2>1, <3>1, <4>1, <4>2 DEF Moved
      <4>4. QED
        BY <3>1, <4>1, <4>2, <4>3 DEF OnMemo
    <3>4. QED
      BY <3>2, <3>3
  <2>3. QED
    BY <1>6, <1>0, <2>2, RescopeStep DEF Split
<1>7. ASSUME NEW p \in Parcel, CancelParcel(p) PROVE NothingBilled
  <2>1. ASSUME NEW s \in OnMemo' PROVE s \in OnMemo
    <3>1. /\ s \in Stone
          /\ parcelOf'[s] # NoParcel
          /\ parcel'[parcelOf'[s]].type = "memo"
      BY <2>1 DEF OnMemo
    <3>2. parcelOf'[s] = parcelOf[s] /\ parcelOf[s] # p
      BY <1>7, <3>1 DEF CancelParcel, Lines
    <3>3. parcelOf[s] \in Parcel
      BY <3>1, <3>2 DEF TypeOK
    <3>4. parcel'[parcelOf[s]] = parcel[parcelOf[s]]
      BY <1>7, <3>2, <3>3 DEF CancelParcel, TypeOK
    <3>5. QED
      BY <2>1, <3>1, <3>2, <3>4 DEF OnMemo
  <2>2. QED
    BY <1>7, <1>0, <2>1, RescopeStep DEF CancelParcel
<1>8. ASSUME NEW p \in Parcel, HandOver(p)
      PROVE  InvoicedOnce' /\ MemoUnbilled' /\ KeptBilled'
  <2> DEFINE bill == LeavingInvoice(p)
             left == IF parcel[p].type = "memo" THEN draft ELSE {}
  <2>1. /\ UNCHANGED <<outcome, void, parcelOf>>
        /\ posted' = Post(bill)
        /\ draft' = Rescope(left, Live, OnMemo', posted')
        /\ parcel' = [parcel EXCEPT ![p].state = "handed_over"]
        /\ parcel[p].state = "draft"
    BY <1>8 DEF HandOver
  <2>2. /\ bill \subseteq Lines(p)
        /\ \A s \in bill : s \in draft \/ posted[s] = 0
        /\ bill # {} => parcel[p].type = "sale"
    BY LeavingFacts
  <2>3. /\ \A s \in Stone : posted'[s] = posted[s] + (IF s \in bill THEN 1 ELSE 0)
        /\ posted' \in [Stone -> Nat]
    BY <2>1, PostType
  <2>4. left \subseteq Stone /\ left \subseteq draft /\ (left = {} \/ bill = {})
    BY <1>0, <2>2
  <2> HIDE DEF bill, left
  <2>5. /\ draft' \cap OnMemo' = {}
        /\ \A s \in draft' : s \in left \/ posted'[s] = 0
        /\ draft' \subseteq Stone
    BY <2>1, <2>4, <1>0, RescopeFacts
  <2>6. OnMemo' = OnMemo
    <3>1. \A q \in Parcel : /\ parcel'[q].type = parcel[q].type
                            /\ parcel'[q].state = "cancelled"
                                 <=> parcel[q].state = "cancelled"
      BY <2>1 DEF TypeOK, ParcelRecord
    <3>2. QED
      BY <2>1, <3>1, MemoSame
  <2>7. InvoicedOnce'
    <3>1. SUFFICES ASSUME NEW s \in Stone
                   PROVE  posted'[s] + (IF s \in draft' THEN 1 ELSE 0) <= 1
      BY DEF InvoicedOnce
    <3>2. posted[s] + (IF s \in draft THEN 1 ELSE 0) <= 1 /\ posted[s] \in Nat
      BY <1>0 DEF InvoicedOnce
    <3>3. QED
      BY <2>2, <2>3, <2>4, <2>5, <3>2
  <2>8. MemoUnbilled'
    <3>1. \A s \in OnMemo : s \in Stone /\ s \notin bill
      BY <2>2 DEF OnMemo, Lines
    <3>2. QED
      BY <1>0, <2>1, <2>3, <2>5, <2>6, <3>1 DEF MemoUnbilled
  <2>9. KeptBilled'
    <3>1. SUFFICES ASSUME NEW s \in Stone \ void, outcome[s] = "kept"
                   PROVE  posted'[s] = 1
      BY <2>1 DEF KeptBilled
    <3>2. posted[s] = 1
      BY <3>1 DEF KeptBilled
    <3>3. posted'[s] <= 1 /\ posted'[s] \in Nat
      BY <2>7, <2>3 DEF InvoicedOnce
    <3>4. QED
      BY <2>3, <3>2, <3>3
  <2>10. QED
    BY <2>7, <2>8, <2>9
<1>9. ASSUME NEW p \in Parcel, ConfirmDelivery(p) \/ ReturnOfOrder(p)
      PROVE  NothingBilled
  <2>1. /\ UNCHANGED <<outcome, void, parcelOf, posted>>
        /\ parcel[p].state \in {"handed_over", "delivered"}
    BY <1>9 DEF ConfirmDelivery, ReturnOfOrder
  <2>2. PICK w \in {"handed_over", "delivered"} :
          parcel' = [parcel EXCEPT ![p].state = w]
    BY <1>9 DEF ConfirmDelivery, ReturnOfOrder
  <2>3. \A q \in Parcel : /\ parcel'[q].type = parcel[q].type
                          /\ parcel'[q].state = "cancelled"
                               <=> parcel[q].state = "cancelled"
    BY <2>1, <2>2 DEF TypeOK, ParcelRecord
  <2>4. OnMemo' = OnMemo
    BY <2>1, <2>3, MemoSame
  <2>5. Live' \subseteq Stone
    BY DEF Live
  <2>6. CASE draft' = draft
    BY <2>1, <2>4, <2>6, AsideStep
  <2>7. CASE draft' # draft
    <3>1. PICK live \in SUBSET Stone :
            draft' = Rescope(draft, live, OnMemo', posted)
      BY <1>9, <1>0, <2>5, <2>7 DEF ConfirmDelivery, ReturnOfOrder
    <3>2. QED
      BY <2>1, <2>4, <3>1, RescopeStep
  <2>8. QED
    BY <2>6, <2>7
<1>10. ASSUME NEW p \in Parcel, ReDispatch(p) \/ CompleteOrder(p)
       PROVE  NothingBilled
  <2>1. OnMemo' = OnMemo
    BY <1>10 DEF ReDispatch, CompleteOrder, OnMemo
  <2>2. QED
    BY <1>10, <2>1, AsideStep DEF ReDispatch, CompleteOrder
<1>11. ASSUME NEW p \in Parcel, NEW kept \in SUBSET Undecided(p),
              NEW back \in SUBSET Undecided(p), MemoReturn(p, kept, back)
       PROVE  InvoicedOnce' /\ MemoUnbilled' /\ KeptBilled'
  <2> DEFINE live == {s \in Stone : StatusAfterReturn(s, kept, back) \notin Dead}
             bill == KeptInvoice(kept, live)
  <2>1. /\ UNCHANGED <<void, parcelOf>>
        /\ posted' = Post(bill)
        /\ parcel[p].type = "memo"
        /\ parcel[p].state \in {"handed_over", "delivered"}
        /\ kept \cap back = {}
        /\ outcome' = [s \in Stone |-> CASE s \in kept -> "kept"
                                         [] s \in back -> "returned"
                                         [] OTHER -> outcome[s]]
    BY <1>11 DEF MemoReturn
  <2>0. \A s \in Stone : outcome'[s] = IF s \in kept THEN "kept"
                                      ELSE IF s \in back THEN "returned"
                                      ELSE outcome[s]
    BY <2>1
  <2>2. /\ bill \subseteq draft \cup kept
        /\ \A s \in bill : s \in draft \/ posted[s] = 0
        /\ \A s \in (kept \cap live) \ (void \cup draft) :
              posted[s] = 0 => s \in bill
    BY KeptFacts
  <2>3. /\ \A s \in Stone : posted'[s] = posted[s] + (IF s \in bill THEN 1 ELSE 0)
        /\ posted' \in [Stone -> Nat]
    BY <2>1, PostType
  <2>4. ASSUME NEW s \in kept PROVE s \in live
    <3>1. StatusAfterReturn(s, kept, back) = "delivered"
      BY <2>1 DEF StatusAfterReturn
    <3>2. s \in Stone
      BY DEF Undecided, Lines
    <3>3. QED
      BY <3>1, <3>2 DEF Dead
  <2>5. \A s \in kept \cup back : /\ s \in Stone
                                  /\ s \in OnMemo
                                  /\ outcome[s] = "none"
    BY <2>1, DispatchAssumption DEF Undecided, Lines, OnMemo
  <2>6. \/ parcel' = parcel
        \/ \E t : parcel' = [parcel EXCEPT ![p].state = "memo_closed", ![p].type = t]
    <3>1. status' = [s \in Stone |-> StatusAfterReturn(s, kept, back)]
      BY <1>11 DEF MemoReturn
    <3>2. QED
      BY <1>11 DEF MemoReturn
  <2>7. OnMemo' \subseteq OnMemo
    <3>1. \A q \in Parcel \ {p} : parcel'[q] = parcel[q]
      BY <2>6 DEF TypeOK
    <3>2. QED
      BY <2>1, <3>1 DEF OnMemo, TypeOK
  <2>8. /\ \A s \in draft' : s \in draft \ bill \/ posted'[s] = 0
        /\ draft' \cap OnMemo' = {}
    <3>1. live = {s \in Stone : [x \in Stone |-> StatusAfterReturn(x, kept, back)][s]
                                  \notin Dead}
      OBVIOUS
    <3>2. \/ draft' = draft \ bill
          \/ draft' = Rescope(draft \ bill, live, OnMemo', posted')
      BY <1>11, <3>1 DEF MemoReturn
    <3>3. draft \ bill \in SUBSET Stone /\ live \in SUBSET Stone
      BY <1>0
    <3> HIDE DEF live, bill
    <3>4. CASE draft' = draft \ bill
      BY <2>7, <3>4 DEF MemoUnbilled
    <3>5. CASE draft' = Rescope(draft \ bill, live, OnMemo', posted')
      BY <3>3, <3>5, RescopeFacts
    <3>6. QED
      BY <3>2, <3>4, <3>5
  <2> HIDE DEF live, bill
  <2>9. InvoicedOnce'
    <3>1. SUFFICES ASSUME NEW s \in Stone
                   PROVE  posted'[s] + (IF s \in draft' THEN 1 ELSE 0) <= 1
      BY DEF InvoicedOnce
    <3>2. posted[s] + (IF s \in draft THEN 1 ELSE 0) <= 1 /\ posted[s] \in Nat
      BY <1>0 DEF InvoicedOnce
    <3>3. QED
      BY <2>2, <2>3, <2>8, <3>2
  <2>10. MemoUnbilled'
    <3>1. SUFFICES ASSUME NEW s \in OnMemo'
                   PROVE  s \notin draft' /\ (outcome'[s] # "kept" => posted'[s] = 0)
      BY DEF MemoUnbilled
    <3>2. s \in Stone /\ s \in OnMemo /\ s \notin draft
      BY <2>7, <3>1, MemoType DEF MemoUnbilled
    <3>3. ASSUME outcome'[s] # "kept" PROVE posted'[s] = 0
      <4>1. s \notin kept
        BY <2>0, <3>2, <3>3
      <4>2. outcome[s] # "kept"
        BY <2>0, <2>5, <3>2, <3>3, <4>1
      <4>3. posted[s] = 0 /\ s \notin bill
        BY <2>2, <3>2, <4>1, <4>2 DEF MemoUnbilled
      <4>4. QED
        BY <2>3, <3>2, <4>3
    <3>4. QED
      BY <2>8, <3>1, <3>3
  <2>11. KeptBilled'
    <3>1. SUFFICES ASSUME NEW s \in Stone \ void, outcome'[s] = "kept"
                   PROVE  posted'[s] = 1
      BY <2>1 DEF KeptBilled
    <3>2. posted'[s] <= 1 /\ posted'[s] \in Nat
      BY <2>9, <2>3 DEF InvoicedOnce
    <3>3. CASE s \in kept
      <4>1. s \notin draft /\ posted[s] = 0
        BY <2>5, <3>3 DEF MemoUnbilled
      <4>2. s \in bill
        BY <2>2, <2>4, <3>3, <4>1
      <4>3. QED
        BY <2>3, <4>1, <4>2
    <3>4. CASE s \notin kept
      <4>1. outcome[s] = "kept"
        BY <2>0, <3>1, <3>4
      <4>2. posted[s] = 1
        BY <4>1 DEF KeptBilled
      <4>3. QED
        BY <2>3, <3>2, <4>2
    <3>5. QED
      BY <3>3, <3>4
  <2>12. QED
    BY <2>9, <2>10, <2>11
<1>12. ASSUME PostInvoice PROVE InvoicedOnce' /\ MemoUnbilled' /\ KeptBilled'
  <2> DEFINE d == Prepare(draft, Live \ OnMemo, vault, posted)
  <2>1. /\ UNCHANGED <<void, outcome, parcelOf, parcel>>
        /\ posted' = Post(d)
        /\ draft' = {}
    BY <1>12 DEF PostInvoice
  <2>2. /\ d \subseteq draft \cup (Live \ OnMemo)
        /\ \A s \in d : s \in draft \/ posted[s] = 0
    BY PrepareFacts
  <2>3. /\ \A s \in Stone : posted'[s] = posted[s] + (IF s \in d THEN 1 ELSE 0)
        /\ posted' \in [Stone -> Nat]
    BY <2>1, PostType
  <2> HIDE DEF d
  <2>4. OnMemo' = OnMemo
    BY <2>1 DEF OnMemo
  <2>5. InvoicedOnce'
    <3>1. SUFFICES ASSUME NEW s \in Stone
                   PROVE  posted'[s] + (IF s \in draft' THEN 1 ELSE 0) <= 1
      BY DEF InvoicedOnce
    <3>2. posted[s] + (IF s \in draft THEN 1 ELSE 0) <= 1 /\ posted[s] \in Nat
      BY <1>0 DEF InvoicedOnce
    <3>3. QED
      BY <2>1, <2>2, <2>3, <3>2
  <2>6. MemoUnbilled'
    BY <2>1, <2>2, <2>3, <2>4, <1>0, MemoType DEF MemoUnbilled
  <2>7. KeptBilled'
    <3>1. SUFFICES ASSUME NEW s \in Stone \ void, outcome[s] = "kept"
                   PROVE  posted'[s] = 1
      BY <2>1 DEF KeptBilled
    <3>2. posted[s] = 1
      BY <3>1 DEF KeptBilled
    <3>3. posted'[s] <= 1 /\ posted'[s] \in Nat
      BY <2>5, <2>3 DEF InvoicedOnce
    <3>4. QED
      BY <2>3, <3>2, <3>3
  <2>8. QED
    BY <2>5, <2>6, <2>7
<1>13. ASSUME UNCHANGED vars PROVE NothingBilled
  <2>1. OnMemo' = OnMemo
    BY <1>13 DEF vars, OnMemo
  <2>2. QED
    BY <1>13, <2>1, AsideStep DEF vars
<1>14. QED
  BY <1>1, <1>2, <1>3, <1>4, <1>5, <1>6, <1>7, <1>8, <1>9, <1>10, <1>11,
     <1>12, <1>13, NothingBilledStep DEF Next, OfLine, OfParcel

-----------------------------------------------------------------------------
(* The stock.                                                              *)

\* A stone that is booked out: its parcel left, and no memo return is recorded.
Away(s) == /\ parcelOf[s] # NoParcel
           /\ Left(parcelOf[s])
           /\ outcome[s] # "returned"

\* Every button keeps the stock in step with the parcels.
LEMMA StockStep ==
  ASSUME TypeOK, Custody, StockFollowsParcel, [Next]_vars
  PROVE  StockFollowsParcel'
<1> USE DEF lineVars
<1>0. /\ \A s \in vault \ Held : s \in Stone /\ (s \notin stock <=> Away(s))
      /\ \A s \in Stone : parcelOf[s] # NoParcel => parcelOf[s] \in Parcel
  BY DEF StockFollowsParcel, Away, TypeOK
<1>1. ASSUME UNCHANGED <<vault, stock>>,
             \A s \in vault : Away(s)' <=> Away(s)
      PROVE  StockFollowsParcel'
  BY <1>0, <1>1 DEF StockFollowsParcel, Away
<1>2. ASSUME UNCHANGED <<vault, stock, parcelOf, outcome>>,
             \A p \in Parcel : Left(p)' <=> Left(p)
      PROVE  StockFollowsParcel'
  BY <1>0, <1>1, <1>2 DEF Away, TypeOK
<1>3. ASSUME NEW s \in Stone, PutInVault(s) PROVE StockFollowsParcel'
  <2>1. /\ UNCHANGED <<parcelOf, parcel, outcome>>
        /\ s \notin vault
        /\ vault' = vault \cup {s}
        /\ stock' = IF s \in Held THEN stock ELSE stock \cup {s}
    BY <1>3 DEF PutInVault
  <2>2. parcelOf[s] = NoParcel
    BY <2>1 DEF Custody
  <2>3. \A x : Away(x)' <=> Away(x)
    BY <2>1 DEF Away, Left
  <2>4. ~Away(s)
    BY <2>2 DEF Away
  <2>5. \A x \in vault' \ Held : x \notin stock' <=> Away(x)'
    BY <1>0, <2>1, <2>3, <2>4
  <2>6. QED
    BY <2>5 DEF StockFollowsParcel, Away
<1>4. ASSUME NEW s \in Stone, HandToDispatch(s) \/ CancelLine(s) \/ QcDecides(s)
      PROVE  StockFollowsParcel'
  <2>1. UNCHANGED <<vault, stock, parcelOf, outcome, parcel>>
    BY <1>4 DEF HandToDispatch, CancelLine, QcDecides
  <2>2. QED
    BY <1>2, <2>1 DEF Left
<1>5. ASSUME NEW S \in SUBSET ReadyToDispatch, MakeParcels(S)
      PROVE  StockFollowsParcel'
  <2>1. PICK made \in SUBSET Parcel : Made(S, made)
    BY <1>5, MakeFacts
  <2>2. UNCHANGED <<vault, stock, outcome>>
    BY <1>5 DEF MakeParcels
  <2>3. ASSUME NEW s \in Stone PROVE Away(s)' <=> Away(s)
    <3>1. CASE s \in S
      <4>1. ~Away(s)
        BY <3>1 DEF ReadyToDispatch, Away
      <4>2. ~Away(s)'
        BY <2>1, <3>1 DEF Made, Away, Left
      <4>3. QED
        BY <4>1, <4>2
    <3>2. CASE s \notin S
      <4>1. /\ parcelOf'[s] = parcelOf[s]
            /\ parcelOf[s] # NoParcel =>
                 /\ parcelOf[s] \in Parcel \ made
                 /\ parcel'[parcelOf[s]] = parcel[parcelOf[s]]
        BY <1>0, <2>1, <3>2 DEF Made, Custody
      <4>2. QED
        BY <2>2, <4>1 DEF Away, Left
    <3>3. QED
      BY <3>1, <3>2
  <2>4. QED
    BY <1>1, <2>2, <2>3 DEF TypeOK
<1>6. ASSUME NEW p \in Parcel, NEW t \in {"sale", "memo"}, SetType(p, t)
      PROVE  StockFollowsParcel'
  <2>1. /\ UNCHANGED <<vault, stock, parcelOf, outcome>>
        /\ parcel' = [parcel EXCEPT ![p].type = t]
    BY <1>6 DEF SetType
  <2>2. \A q \in Parcel : Left(q)' <=> Left(q)
    BY <2>1 DEF Left, TypeOK, ParcelRecord
  <2>3. QED
    BY <1>2, <2>1, <2>2
<1>7. ASSUME NEW p \in Parcel,
             \/ PrintInvoiceSlip(p) \/ PrintMemoSlip(p)
             \/ ApprovePartial(p) \/ RefusePartial(p)
      PROVE  StockFollowsParcel'
  <2>1. UNCHANGED <<vault, stock, parcelOf, outcome>>
    BY <1>7 DEF PrintInvoiceSlip, PrintMemoSlip, ApprovePartial, RefusePartial
  <2>2. \/ parcel' = [parcel EXCEPT ![p].memoSlip = TRUE]
        \/ parcel' = [parcel EXCEPT ![p].slip = Lines(p)]
        \/ \E w : parcel' = [parcel EXCEPT ![p].approval = w]
    BY <1>7 DEF PrintInvoiceSlip, PrintMemoSlip, ApprovePartial, RefusePartial
  <2>3. \A q \in Parcel : Left(q)' <=> Left(q)
    BY <2>2 DEF Left, TypeOK, ParcelRecord
  <2>4. QED
    BY <1>2, <2>1, <2>3
<1>8. ASSUME NEW p \in Parcel, NEW S \in SUBSET Lines(p), NEW a \in Address,
             Split(p, S, a)
      PROVE  StockFollowsParcel'
  <2>1. PICK q \in Parcel \ {p} : Moved(p, S, q)
    BY <1>8, SplitFacts
  <2>2. UNCHANGED <<vault, stock, outcome>> /\ parcel[p].state = "draft"
    BY <1>8 DEF Split
  <2>3. \A r \in Parcel : Left(r)' <=> Left(r)
    BY <2>1, <2>2 DEF Moved, Left
  <2>4. ASSUME NEW s \in Stone PROVE Away(s)' <=> Away(s)
    <3>1. CASE s \in S
      <4>1. parcelOf[s] = p /\ ~Left(p)
        BY <2>2, <3>1 DEF Lines, Left
      <4>2. parcelOf'[s] = q /\ ~Left(q)'
        BY <2>1, <3>1 DEF Moved, Left
      <4>3. QED
        BY <4>1, <4>2 DEF Away, Left
    <3>2. CASE s \notin S
      <4>1. parcelOf'[s] = parcelOf[s]
        BY <2>1, <3>2 DEF Moved
      <4>2. QED
        BY <1>0, <2>2, <2>3, <4>1 DEF Away, Left
    <3>3. QED
      BY <3>1, <3>2
  <2>5. QED
    BY <1>1, <2>2, <2>4 DEF TypeOK
<1>9. ASSUME NEW p \in Parcel, CancelParcel(p) PROVE StockFollowsParcel'
  <2>1. /\ UNCHANGED <<vault, stock, outcome>>
        /\ parcel[p].state = "draft"
        /\ \A s \in Stone : parcelOf'[s] = IF parcelOf[s] = p THEN NoParcel
                                           ELSE parcelOf[s]
    BY <1>9 DEF CancelParcel, Lines
  <2>2. \A q \in Parcel \ {p} : parcel'[q] = parcel[q]
    BY <1>9 DEF CancelParcel, TypeOK
  <2>3. \A s \in Stone : Away(s)' <=> Away(s)
    BY <1>0, <2>1, <2>2 DEF Away, Left
  <2>4. QED
    BY <1>1, <2>1, <2>3 DEF TypeOK
<1>10. ASSUME NEW p \in Parcel, HandOver(p) PROVE StockFollowsParcel'
  <2>1. /\ UNCHANGED <<vault, outcome, parcelOf>>
        /\ parcel[p].state = "draft"
        /\ stock' = stock \ (Lines(p) \ Held)
    BY <1>10 DEF HandOver, Goods
  <2>2. /\ \A q \in Parcel \ {p} : parcel'[q] = parcel[q]
        /\ parcel'[p].state = "handed_over"
    BY <1>10 DEF HandOver, TypeOK, ParcelRecord
  <2>3. ASSUME NEW s \in vault \ Held PROVE s \notin stock' <=> Away(s)'
    <3>1. CASE parcelOf[s] = p
      <4>1. s \notin stock'
        BY <1>0, <2>1, <2>3, <3>1 DEF Lines
      <4>2. outcome[s] = "none"
        BY <1>0, <2>1, <2>3, <3>1 DEF Custody, Left
      <4>3. Away(s)'
        BY <2>1, <2>2, <3>1, <4>2, DispatchAssumption DEF Away, Left
      <4>4. QED
        BY <4>1, <4>3
    <3>2. CASE parcelOf[s] # p
      <4>1. s \in stock' <=> s \in stock
        BY <2>1, <3>2 DEF Lines
      <4>2. Away(s)' <=> Away(s)
        BY <1>0, <2>1, <2>2, <2>3, <3>2 DEF Away, Left
      <4>3. QED
        BY <1>0, <2>3, <4>1, <4>2
    <3>3. QED
      BY <3>1, <3>2
  <2>4. QED
    BY <2>1, <2>3 DEF StockFollowsParcel, Away
<1>11. ASSUME NEW p \in Parcel, ConfirmDelivery(p) \/ ReturnOfOrder(p)
       PROVE  StockFollowsParcel'
  <2>1. /\ UNCHANGED <<vault, stock, parcelOf, outcome>>
        /\ parcel[p].state \in {"handed_over", "delivered"}
    BY <1>11 DEF ConfirmDelivery, ReturnOfOrder
  <2>2. PICK w \in {"handed_over", "delivered"} :
          parcel' = [parcel EXCEPT ![p].state = w]
    BY <1>11 DEF ConfirmDelivery, ReturnOfOrder
  <2>3. \A q \in Parcel : Left(q)' <=> Left(q)
    BY <2>1, <2>2 DEF Left, TypeOK, ParcelRecord
  <2>4. QED
    BY <1>2, <2>1, <2>3
<1>12. ASSUME NEW p \in Parcel, ReDispatch(p) \/ CompleteOrder(p)
       PROVE  StockFollowsParcel'
  <2>1. UNCHANGED <<vault, stock, parcelOf, outcome, parcel>>
    BY <1>12 DEF ReDispatch, CompleteOrder
  <2>2. QED
    BY <1>2, <2>1 DEF Left
<1>13. ASSUME NEW p \in Parcel, NEW kept \in SUBSET Undecided(p),
              NEW back \in SUBSET Undecided(p), MemoReturn(p, kept, back)
       PROVE  StockFollowsParcel'
  <2>1. /\ UNCHANGED <<vault, parcelOf>>
        /\ parcel[p].state \in {"handed_over", "delivered"}
        /\ stock' = stock \cup (back \cap (Lines(p) \ Held))
        /\ kept \cap back = {}
        /\ outcome' = [s \in Stone |-> CASE s \in kept -> "kept"
                                         [] s \in back -> "returned"
                                         [] OTHER -> outcome[s]]
    BY <1>13 DEF MemoReturn, Goods
  <2>2. /\ \A s \in Stone \ (kept \cup back) : outcome'[s] = outcome[s]
        /\ \A s \in kept : outcome'[s] = "kept"
        /\ \A s \in back : outcome'[s] = "returned"
    BY <2>1 DEF Undecided, Lines
  <2>3. /\ \A q \in Parcel \ {p} : parcel'[q] = parcel[q]
        /\ parcel'[p].state = "memo_closed" \/ parcel'[p] = parcel[p]
    BY <1>13 DEF MemoReturn, TypeOK, ParcelRecord
  <2>4. \A q \in Parcel : Left(q)' <=> Left(q)
    BY <2>1, <2>3 DEF Left
  <2>5. \A s \in kept \cup back : parcelOf[s] = p /\ outcome[s] = "none"
    BY DEF Undecided, Lines
  <2>6. ASSUME NEW s \in vault \ Held PROVE s \notin stock' <=> Away(s)'
    <3>1. CASE s \in back
      <4>1. s \in stock'
        BY <1>0, <2>1, <2>5, <2>6, <3>1 DEF Lines
      <4>2. ~Away(s)'
        BY <2>2, <3>1 DEF Away
      <4>3. QED
        BY <4>1, <4>2
    <3>2. CASE s \notin back
      <4>1. s \in stock' <=> s \in stock
        BY <2>1, <3>2
      <4>2. outcome'[s] = "returned" <=> outcome[s] = "returned"
        BY <1>0, <2>2, <2>5, <2>6, <3>2
      <4>3. Away(s)' <=> Away(s)
        BY <1>0, <2>1, <2>4, <2>6, <4>2 DEF Away, Left
      <4>4. QED
        BY <1>0, <2>6, <4>1, <4>3
    <3>3. QED
      BY <3>1, <3>2
  <2>7. QED
    BY <2>1, <2>6 DEF StockFollowsParcel, Away
<1>14. ASSUME PostInvoice \/ UNCHANGED vars PROVE StockFollowsParcel'
  <2>1. UNCHANGED <<vault, stock, parcelOf, outcome, parcel>>
    BY <1>14 DEF PostInvoice, vars
  <2>2. QED
    BY <1>2, <2>1 DEF Left
<1>15. QED
  BY <1>3, <1>4, <1>5, <1>6, <1>7, <1>8, <1>9, <1>10, <1>11, <1>12, <1>13,
     <1>14 DEF Next, OfLine, OfParcel

-----------------------------------------------------------------------------
(* The invariant and what follows from it.                                 *)

\* The invariant holds when no stone is in the vault and nothing is made.
LEMMA InitIInv == Init => IInv
<1>1. SUFFICES ASSUME Init PROVE IInv
  OBVIOUS
<1>2. TypeOK
  <2>1. parcel \in [Parcel -> ParcelRecord]
    BY <1>1, UnmadeType DEF Init
  <2>2. QED
    BY <1>1, <2>1, DispatchAssumption DEF Init, TypeOK, Status
<1>3. Custody /\ DraftSlips /\ SlipListsParcel
  BY <1>1 DEF Init, Custody, DraftSlips, SlipListsParcel, Unmade
<1>4. StockFollowsParcel /\ InvoicedOnce /\ MemoUnbilled /\ KeptBilled
  BY <1>1 DEF Init, StockFollowsParcel, InvoicedOnce, MemoUnbilled, OnMemo,
              KeptBilled
<1>5. QED
  BY <1>2, <1>3, <1>4 DEF IInv

\* The invariant is inductive: every button keeps all of it.
LEMMA StepIInv == IInv /\ [Next]_vars => IInv'
  BY TypeStep, BoxStep, StockStep, InvoiceStep DEF IInv

\* The invariant holds for any number of stones, parcels and addresses.
THEOREM Invariant == Spec => []IInv
  BY InitIInv, StepIInv, PTL DEF Spec

\* A stone is never on two invoices, whatever parcels, memos and postings
\* do to the draft.
THEOREM NeverInvoicedTwice == Spec => []InvoicedOnce
<1>1. IInv => InvoicedOnce
  BY DEF IInv
<1>2. QED
  BY <1>1, Invariant, PTL

\* Stones on memo are not billed before the customer keeps them.
THEOREM MemoIsNotASale == Spec => []MemoUnbilled
<1>1. IInv => MemoUnbilled
  BY DEF IInv
<1>2. QED
  BY <1>1, Invariant, PTL

\* Every kept stone has been billed.
THEOREM KeptIsBilled == Spec => []KeptBilled
<1>1. IInv => KeptBilled
  BY DEF IInv
<1>2. QED
  BY <1>1, Invariant, PTL

\* The stock is booked out with the parcel and in with the memo return, and
\* with nothing else.
THEOREM StockIsTrue == Spec => []StockFollowsParcel
<1>1. IInv => StockFollowsParcel
  BY DEF IInv
<1>2. QED
  BY <1>1, Invariant, PTL

\* Every stone is billed as its memo was decided, however parcels are split,
\* narrowed, handed over and posted.
THEOREM BilledRight == Spec => []BilledAsDecided
<1>1. InvoicedOnce /\ MemoUnbilled /\ KeptBilled => BilledAsDecided
  BY DEF BilledAsDecided
<1>2. QED
  BY <1>1, NeverInvoicedTwice, MemoIsNotASale, KeptIsBilled, PTL

\* What left is booked out and on its slip, what came back from a memo is booked
\* in, however parcels are split, returned and sent again.
THEOREM ParcelsStayAccounted == Spec => []ParcelsAccounted
<1>1. StockFollowsParcel /\ SlipListsParcel => ParcelsAccounted
  BY DEF ParcelsAccounted
<1>2. QED
  BY <1>1, StockIsTrue, SlipIsTrue, PTL

-----------------------------------------------------------------------------
(* Leaving.                                                                *)

Leaves(p) == parcel[p].state = "draft" /\ parcel'[p].state = "handed_over"

\* Only Hand over makes a parcel leave.
LEMMA LeavesByHandOver ==
  ASSUME TypeOK, [Next]_vars, NEW p \in Parcel, Leaves(p)
  PROVE  HandOver(p)
<1> USE DEF lineVars
<1>1. parcel' # parcel
  BY DEF Leaves
<1>2. ASSUME NEW s \in Stone, OfLine(s) PROVE FALSE
  BY <1>1, <1>2 DEF OfLine, PutInVault, HandToDispatch, CancelLine, QcDecides
<1>3. ASSUME NEW S \in SUBSET ReadyToDispatch, MakeParcels(S) PROVE FALSE
  <2>1. PICK made \in SUBSET Parcel : Made(S, made)
    BY <1>3, MakeFacts
  <2>2. QED
    BY <2>1 DEF Made, Leaves
<1>4. ASSUME NEW q \in Parcel, NEW t \in {"sale", "memo"}, SetType(q, t)
      PROVE  FALSE
  BY <1>4 DEF SetType, Leaves, TypeOK, ParcelRecord
<1>5. ASSUME NEW q \in Parcel, PrintInvoiceSlip(q) PROVE FALSE
  BY <1>5 DEF PrintInvoiceSlip, Leaves, TypeOK, ParcelRecord
<1>6. ASSUME NEW q \in Parcel, PrintMemoSlip(q) PROVE FALSE
  BY <1>6 DEF PrintMemoSlip, Leaves, TypeOK, ParcelRecord
<1>7. ASSUME NEW q \in Parcel, NEW S \in SUBSET Lines(q), NEW a \in Address,
             Split(q, S, a)
      PROVE  FALSE
  <2>1. PICK r \in Parcel \ {q} : Moved(q, S, r)
    BY <1>7, SplitFacts
  <2>2. QED
    BY <2>1 DEF Moved, Leaves
<1>8. ASSUME NEW q \in Parcel, CancelParcel(q) PROVE FALSE
  BY <1>8 DEF CancelParcel, Leaves, TypeOK, ParcelRecord
<1>9. ASSUME NEW q \in Parcel, ApprovePartial(q) \/ RefusePartial(q) PROVE FALSE
  <2>1. PICK w : parcel' = [parcel EXCEPT ![q].approval = w]
    BY <1>9 DEF ApprovePartial, RefusePartial
  <2>2. QED
    BY <2>1 DEF Leaves, TypeOK, ParcelRecord
<1>10. ASSUME NEW q \in Parcel, HandOver(q) PROVE q = p
  BY <1>10 DEF HandOver, Leaves, TypeOK
<1>11. ASSUME NEW q \in Parcel, ConfirmDelivery(q) \/ ReturnOfOrder(q) PROVE FALSE
  <2>1. /\ parcel[q].state \in {"handed_over", "delivered"}
        /\ \E w : parcel' = [parcel EXCEPT ![q].state = w]
    BY <1>11 DEF ConfirmDelivery, ReturnOfOrder
  <2>2. QED
    BY <2>1 DEF Leaves, TypeOK
<1>12. ASSUME NEW q \in Parcel, ReDispatch(q) \/ CompleteOrder(q) PROVE FALSE
  BY <1>1, <1>12 DEF ReDispatch, CompleteOrder
<1>13. ASSUME NEW q \in Parcel, NEW kept \in SUBSET Undecided(q),
              NEW back \in SUBSET Undecided(q), MemoReturn(q, kept, back)
       PROVE  FALSE
  <2>1. /\ parcel[q].state \in {"handed_over", "delivered"}
        /\ \A r \in Parcel \ {q} : parcel'[r] = parcel[r]
    BY <1>13 DEF MemoReturn, TypeOK
  <2>2. QED
    BY <2>1 DEF Leaves
<1>14. ASSUME PostInvoice \/ UNCHANGED vars PROVE FALSE
  BY <1>1, <1>14 DEF PostInvoice, vars
<1>15. QED
  BY <1>2, <1>3, <1>4, <1>5, <1>6, <1>7, <1>8, <1>9, <1>10, <1>11, <1>12,
     <1>13, <1>14 DEF Next, OfParcel

\* A sale that leaves when the order is ready is billed as it leaves, for a
\* draft that an earlier parcel narrowed is prepared once more.
THEOREM LeavesBilled == Spec => SaleLeavesBilled
<1>1. ASSUME IInv, [Next]_vars, NEW p \in Parcel, Leaves(p),
             parcel[p].type = "sale", Ready(Live \ OnMemo, vault),
             NEW s \in (Lines(p) \cap Live) \ void
      PROVE  posted'[s] = 1
  <2> DEFINE ready == Prepare(draft, Live \ OnMemo, vault, posted)
  <2>1. TypeOK /\ InvoicedOnce
    BY <1>1 DEF IInv
  <2>2. HandOver(p)
    BY <1>1, <2>1, LeavesByHandOver
  <2>3. s \in Stone /\ s \in Lines(p) /\ s \notin OnMemo
    BY <1>1 DEF Lines, OnMemo
  <2>4. /\ posted' = Post(LeavingInvoice(p))
        /\ LeavingInvoice(p) = ready \cap Lines(p)
    BY <1>1, <2>2 DEF HandOver, LeavingInvoice, Narrow
  <2>5. /\ posted[s] = 0 => s \in ready
        /\ s \in ready => s \in draft \/ posted[s] = 0
    <3>1. s \in (Live \ OnMemo) \ void
      BY <1>1, <2>3
    <3>2. QED
      BY <1>1, <3>1, PrepareFacts
  <2>6. posted'[s] = posted[s] + (IF s \in LeavingInvoice(p) THEN 1 ELSE 0)
    BY <2>1, <2>3, <2>4, PostType
  <2>7. posted[s] \in Nat /\ posted[s] + (IF s \in draft THEN 1 ELSE 0) <= 1
    BY <2>1, <2>3 DEF TypeOK, InvoicedOnce
  <2> HIDE DEF ready
  <2>8. QED
    BY <2>3, <2>4, <2>5, <2>6, <2>7
<1>2. IInv /\ [Next]_vars => [\A p \in Parcel :
           /\ parcel[p].state = "draft"
           /\ parcel'[p].state = "handed_over"
           /\ parcel[p].type = "sale"
           /\ Ready(Live \ OnMemo, vault)
        => \A s \in (Lines(p) \cap Live) \ void : posted'[s] = 1]_vars
  BY <1>1 DEF Leaves
<1>3. QED
  BY <1>2, Invariant, PTL DEF Spec, SaleLeavesBilled

=============================================================================
