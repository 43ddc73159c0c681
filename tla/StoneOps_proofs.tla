--------------------------- MODULE StoneOps_proofs ---------------------------
(***************************************************************************)
(* What the operations flow of StoneOps keeps true for any number of       *)
(* stones, lines and purchase orders.                                      *)
(*                                                                         *)
(* Three inductive invariants, each resting on the one before:             *)
(*   - IInv, about purchases: who may be bought, received, ours;           *)
(*   - InspectionInv, about what the sale side is told;                    *)
(*   - CustodyInv, about the way on of every stone.                        *)
(* The first holds whatever the website and Sales write into the lines;    *)
(* the second as long as they do not write "payment pending" or "returned  *)
(* from memo" themselves; the third as long as they write nothing.         *)
(***************************************************************************)
EXTENDS StoneOps, TLAPS

USE StoneOpsAssumption, SaleWordsAssumption

\* The ways _lgd_void_or_cancel_po can leave a purchase order: as it is or
\* flagged, or cancelled, which it does only when nothing was received on it.
LEMMA VoidOrCancelCases ==
    ASSUME TypeOK, NEW p \in Po, NEW stg, NEW q,
           NEW r \in [Line -> {"none", "pending", "done", "cancelled"}],
           VoidOrCancel(p, stg, q, r)
    PROVE  \/ receipt' = r /\ poState' = poState /\ voided' \in [Po -> BOOLEAN]
           \/ /\ \A l \in Line : po[l] = p => r[l] # "done"
              /\ poState' = [poState EXCEPT ![p] = "cancel"]
              /\ receipt' = [l \in Line |->
                    IF po[l] = p /\ r[l] = "pending" THEN "cancelled" ELSE r[l]]
              /\ voided' = voided
<1>1. CASE Live(p, stg, q) # {}
  BY <1>1 DEF VoidOrCancel, poVars, TypeOK
<1>2. CASE /\ ~ReceivedOn(p, r)
           /\ poState' = [poState EXCEPT ![p] = "cancel"]
           /\ receipt' = [l \in Line |->
                 IF l \in On(p) /\ r[l] = "pending" THEN "cancelled" ELSE r[l]]
           /\ voided' = voided
  BY <1>2 DEF On, ReceivedOn
<1>3. CASE /\ voided' = [voided EXCEPT ![p] = TRUE]
           /\ receipt' = r /\ poState' = poState
  BY <1>3 DEF TypeOK
<1> QED  BY <1>1, <1>2, <1>3 DEF VoidOrCancel

\* The invariant holds when procurement has just asked for the stones.
LEMMA InitIInv == Init => IInv
<1> SUFFICES ASSUME Init PROVE IInv
  OBVIOUS
<1>1. TypeOK
  BY DEF Init, TypeOK, Stage, Status
<1>2. RecordsOK
  BY DEF Init, RecordsOK, Current, Stage
<1>3. OneLivePurchase
  BY DEF Init, OneLivePurchase
<1>4. ReceiptsOK
  BY DEF Init, ReceiptsOK
<1>5. MemoOK
  BY DEF Init, MemoOK
<1>6. VaultOK
  <2> SUFFICES ASSUME NEW l \in Line, inVault[StoneOf[l]] PROVE stage[l] = "none"
    BY DEF VaultOK, Current
  <2>1. StoneOf[l] \notin Procured
    BY DEF Init
  <2>2. l \notin {FirstLine[s] : s \in Procured}
    BY <2>1
  <2> QED  BY <2>2 DEF Init
<1>7. OutOK /\ GoodsOK /\ GoodsGoBack
  BY DEF Init, OutOK, GoodsOK, GoodsGoBack, Current, Stage
<1> QED  BY <1>1, <1>2, <1>3, <1>4, <1>5, <1>6, <1>7 DEF IInv


\* A stone has at most one line that still stands for it.
LEMMA OneCurrentLine ==
    ASSUME IInv, NEW l \in Line, NEW m \in Line, StoneOf[l] = StoneOf[m],
           stage[l] \in Current, stage[m] \in Current
    PROVE  l = m
BY DEF IInv, RecordsOK, OneLivePurchase

\* A line that exists is on a purchase order that does.
LEMMA OrderOfLine ==
    ASSUME IInv, NEW l \in Line, stage[l] # "none"
    PROVE  po[l] \in Po /\ poState[po[l]] # "unused"
BY DEF IInv, RecordsOK, TypeOK

\* Logistics inwards a stone.
LEMMA ReceiveIInv == ASSUME IInv, NEW l \in Line, Receive(l) PROVE IInv'
<1> USE DEF IInv, Receive, poVars, saleVars
<1>1. TypeOK'
  BY DEF TypeOK, Stage, Status
<1>2. RecordsOK'
  BY DEF RecordsOK, TypeOK, Current, Stage
<1>3. OneLivePurchase'
  BY DEF OneLivePurchase
<1>4. ReceiptsOK'
  BY DEF ReceiptsOK, TypeOK, MemoOK, RecordsOK
<1>5. MemoOK'
  BY DEF MemoOK, TypeOK, ReceiptsOK
<1>6. VaultOK'
  BY DEF VaultOK, TypeOK, Current, Stage, MemoOK, RecordsOK, OneLivePurchase
<1>7. OutOK'
  BY DEF OutOK, TypeOK
<1>8. GoodsOK' /\ GoodsGoBack'
  BY DEF GoodsOK, GoodsGoBack, RecordsOK, TypeOK, Current, Stage
<1> QED  BY <1>1, <1>2, <1>3, <1>4, <1>5, <1>6, <1>7, <1>8

\* Logistics hands a stone to quality control.
LEMMA HandoverQcIInv == ASSUME IInv, NEW l \in Line, HandoverQc(l) PROVE IInv'
<1> USE DEF IInv, HandoverQc, StatusMove, poVars, saleVars
<1>1. TypeOK'
  BY DEF TypeOK, Stage, Status
<1>2. RecordsOK'
  BY DEF RecordsOK, TypeOK, Current, Stage
<1>3. OneLivePurchase'
  BY DEF OneLivePurchase
<1>4. ReceiptsOK'
  BY DEF ReceiptsOK, TypeOK, MemoOK, RecordsOK
<1>5. MemoOK'
  BY DEF MemoOK, TypeOK, ReceiptsOK
<1>6. VaultOK'
  BY DEF VaultOK, TypeOK, Current, Stage, MemoOK, RecordsOK, OneLivePurchase
<1>7. OutOK'
  BY DEF OutOK, TypeOK
<1>8. GoodsOK' /\ GoodsGoBack'
  BY DEF GoodsOK, GoodsGoBack, RecordsOK, TypeOK, Current, Stage
<1> QED  BY <1>1, <1>2, <1>3, <1>4, <1>5, <1>6, <1>7, <1>8

\* Quality control takes the stone in.
LEMMA QcReceiveIInv == ASSUME IInv, NEW l \in Line, QcReceive(l) PROVE IInv'
<1> USE DEF IInv, QcReceive, poVars, saleVars
<1>1. TypeOK'
  BY DEF TypeOK, Stage, Status
<1>2. RecordsOK'
  BY DEF RecordsOK, TypeOK, Current, Stage
<1>3. OneLivePurchase'
  BY DEF OneLivePurchase
<1>4. ReceiptsOK'
  BY DEF ReceiptsOK, TypeOK, MemoOK, RecordsOK
<1>5. MemoOK'
  BY DEF MemoOK, TypeOK, ReceiptsOK
<1>6. VaultOK'
  BY DEF VaultOK, TypeOK, Current, Stage, MemoOK, RecordsOK, OneLivePurchase
<1>7. OutOK'
  BY DEF OutOK, TypeOK
<1>8. GoodsOK' /\ GoodsGoBack'
  BY DEF GoodsOK, GoodsGoBack, RecordsOK, TypeOK, Current, Stage
<1> QED  BY <1>1, <1>2, <1>3, <1>4, <1>5, <1>6, <1>7, <1>8

\* An inbound stone passes inspection.
LEMMA PassInboundIInv == ASSUME IInv, NEW l \in Line, PassInbound(l) PROVE IInv'
<1> USE DEF IInv, PassInbound, StatusMove, poVars, saleVars
<1>1. TypeOK'
  BY DEF TypeOK, Stage, Status
<1>2. RecordsOK'
  BY DEF RecordsOK, TypeOK, Current, Stage
<1>3. OneLivePurchase'
  BY DEF OneLivePurchase
<1>4. ReceiptsOK'
  BY DEF ReceiptsOK, TypeOK, MemoOK, RecordsOK
<1>5. MemoOK'
  BY DEF MemoOK, TypeOK, ReceiptsOK
<1>6. VaultOK'
  BY DEF VaultOK, TypeOK, Current, Stage, MemoOK, RecordsOK, OneLivePurchase
<1>7. OutOK'
  BY DEF OutOK, TypeOK
<1>8. GoodsOK' /\ GoodsGoBack'
  BY DEF GoodsOK, GoodsGoBack, RecordsOK, TypeOK, Current, Stage
<1> QED  BY <1>1, <1>2, <1>3, <1>4, <1>5, <1>6, <1>7, <1>8

\* A stone that came back from a customer passes re-inspection.
LEMMA PassMemoReturnIInv == ASSUME IInv, NEW l \in Line, PassMemoReturn(l) PROVE IInv'
<1> USE DEF IInv, PassMemoReturn, StatusMove, poVars, saleVars
<1>1. TypeOK'
  <2>1. stage' \in [Line -> Stage] /\ memo' \in [Line -> {"none", "vendor", "stock"}]
    BY DEF TypeOK, Stage
  <2>2. status' \in [Stone -> Status]
    BY DEF TypeOK, Status
  <2> QED  BY <2>1, <2>2 DEF TypeOK
<1>2. RecordsOK'
  BY DEF RecordsOK, TypeOK, Current, Stage
<1>3. OneLivePurchase'
  BY DEF OneLivePurchase
<1>4. ReceiptsOK'
  BY DEF ReceiptsOK, TypeOK, MemoOK, RecordsOK
<1>5. MemoOK'
  BY DEF MemoOK, TypeOK, ReceiptsOK
<1>6. VaultOK'
  BY DEF VaultOK, TypeOK, Current, Stage, MemoOK, RecordsOK, OneLivePurchase
<1>7. OutOK'
  BY DEF OutOK, TypeOK
<1>8. GoodsOK' /\ GoodsGoBack'
  BY DEF GoodsOK, GoodsGoBack, RecordsOK, TypeOK, Current, Stage
<1> QED  BY <1>1, <1>2, <1>3, <1>4, <1>5, <1>6, <1>7, <1>8

\* A stone that came back from a customer fails re-inspection.
LEMMA FailMemoReturnIInv == ASSUME IInv, NEW l \in Line, FailMemoReturn(l) PROVE IInv'
<1> USE DEF IInv, FailMemoReturn, StatusMove, poVars, saleVars
<1>1. TypeOK'
  BY DEF TypeOK, Stage, Status
<1>2. RecordsOK'
  BY DEF RecordsOK, TypeOK, Current, Stage
<1>3. OneLivePurchase'
  BY DEF OneLivePurchase
<1>4. ReceiptsOK'
  BY DEF ReceiptsOK, TypeOK, MemoOK, RecordsOK
<1>5. MemoOK'
  BY DEF MemoOK, TypeOK, ReceiptsOK
<1>6. VaultOK'
  BY DEF VaultOK, TypeOK, Current, Stage, MemoOK, RecordsOK, OneLivePurchase
<1>7. OutOK'
  BY DEF OutOK, TypeOK
<1>8. GoodsOK' /\ GoodsGoBack'
  BY DEF GoodsOK, GoodsGoBack, MemoOK, RecordsOK, TypeOK, Current, Stage
<1> QED  BY <1>1, <1>2, <1>3, <1>4, <1>5, <1>6, <1>7, <1>8

\* Inventory accepts a bought stone: the receipt becomes done on a
\* confirmed order.
LEMMA AcceptInboundIInv == ASSUME IInv, NEW l \in Line, AcceptInbound(l) PROVE IInv'
<1> USE DEF IInv, AcceptInbound, poVars, saleVars
<1>1. TypeOK'
  BY DEF TypeOK, Stage, Status
<1>2. RecordsOK'
  BY DEF RecordsOK, TypeOK, Current, Stage
<1>3. OneLivePurchase'
  BY DEF OneLivePurchase
<1>4. ReceiptsOK'
  BY DEF ReceiptsOK, TypeOK, MemoOK, RecordsOK
<1>5. MemoOK'
  BY DEF MemoOK, TypeOK, ReceiptsOK
<1>6. VaultOK'
  <2> SUFFICES ASSUME NEW m \in Line, inVault'[StoneOf[m]], stage'[m] \in Current
               PROVE  /\ stage'[m] \in {"expected", "received", "with_qc", "in_qc", "qc_passed"}
                           => memo[m] # "none"
                      /\ trip[StoneOf[m]] # "returned"
                           => stage'[m] \in {"on_memo", "in_inventory"}
    BY DEF VaultOK, Current, Stage
  <2>1. CASE m = l
    BY <2>1 DEF TypeOK
  <2>2. CASE m # l
    <3>1. stage[m] \in Current /\ stage[l] \in Current
      BY <2>2 DEF TypeOK, Current, Stage
    <3>2. StoneOf[m] # StoneOf[l]
      BY <3>1, <2>2, OneCurrentLine
    <3> QED  BY <3>1, <3>2, <2>2 DEF VaultOK, TypeOK
  <2> QED  BY <2>1, <2>2
<1>7. OutOK'
  BY DEF OutOK, TypeOK
<1>8. GoodsOK' /\ GoodsGoBack'
  BY DEF GoodsOK, GoodsGoBack, RecordsOK, TypeOK, Current, Stage
<1> QED  BY <1>1, <1>2, <1>3, <1>4, <1>5, <1>6, <1>7, <1>8

\* Inventory signs a memo return back in: only a stone whose mark says
\* "stock", hence a received one, becomes ours.
LEMMA AcceptMemoReturnIInv == ASSUME IInv, NEW l \in Line, AcceptMemoReturn(l) PROVE IInv'
<1> USE DEF IInv, AcceptMemoReturn, StatusMove, poVars, saleVars
<1>1. TypeOK'
  BY DEF TypeOK, Stage, Status
<1>2. RecordsOK'
  BY DEF RecordsOK, TypeOK, Current, Stage
<1>3. OneLivePurchase'
  BY DEF OneLivePurchase
<1>4. ReceiptsOK'
  BY DEF ReceiptsOK, TypeOK, MemoOK, RecordsOK
<1>5. MemoOK'
  BY DEF MemoOK, TypeOK, ReceiptsOK
<1>6. VaultOK'
  BY DEF VaultOK, TypeOK, Current, Stage, MemoOK, RecordsOK, OneLivePurchase
<1>7. OutOK'
  BY DEF OutOK, TypeOK
<1>8. GoodsOK' /\ GoodsGoBack'
  BY DEF GoodsOK, GoodsGoBack, RecordsOK, TypeOK, Current, Stage
<1> QED  BY <1>1, <1>2, <1>3, <1>4, <1>5, <1>6, <1>7, <1>8

\* A stone is taken into custody before it is bought.
LEMMA TakeOnMemoIInv == ASSUME IInv, NEW l \in Line, TakeOnMemo(l) PROVE IInv'
<1> USE DEF IInv, TakeOnMemo, poVars, saleVars
<1>1. TypeOK'
  BY DEF TypeOK, Stage, Status
<1>2. RecordsOK'
  BY DEF RecordsOK, TypeOK, Current, Stage
<1>3. OneLivePurchase'
  BY DEF OneLivePurchase
<1>4. ReceiptsOK'
  BY DEF ReceiptsOK, TypeOK, MemoOK, RecordsOK
<1>5. MemoOK'
  BY DEF MemoOK, TypeOK, ReceiptsOK
<1>6. VaultOK'
  <2> SUFFICES ASSUME NEW m \in Line, inVault'[StoneOf[m]], stage'[m] \in Current
               PROVE  /\ stage'[m] \in {"expected", "received", "with_qc", "in_qc", "qc_passed"}
                           => memo[m] # "none"
                      /\ trip[StoneOf[m]] # "returned"
                           => stage'[m] \in {"on_memo", "in_inventory"}
    BY DEF VaultOK, Current, Stage
  <2>1. CASE m = l
    BY <2>1 DEF TypeOK
  <2>2. CASE m # l
    <3>1. stage[m] \in Current /\ stage[l] \in Current
      BY <2>2 DEF TypeOK, Current, Stage
    <3>2. StoneOf[m] # StoneOf[l]
      BY <3>1, <2>2, OneCurrentLine
    <3> QED  BY <3>1, <3>2, <2>2 DEF VaultOK, TypeOK
  <2> QED  BY <2>1, <2>2
<1>7. OutOK'
  BY DEF OutOK, TypeOK
<1>8. GoodsOK' /\ GoodsGoBack'
  BY DEF GoodsOK, GoodsGoBack, RecordsOK, TypeOK, Current, Stage
<1> QED  BY <1>1, <1>2, <1>3, <1>4, <1>5, <1>6, <1>7, <1>8

\* A stone is packed, unpacked, leaves on memo or is kept by the customer.
LEMMA MemoTripIInv ==
    ASSUME IInv, NEW s \in Stone,
           \/ MemoPack(s) \/ MemoUnpack(s) \/ MemoOut(s) \/ MemoKept(s)
    PROVE  IInv'
<1> USE DEF IInv
<1>1. /\ UNCHANGED lineVars /\ UNCHANGED poVars /\ UNCHANGED <<inVault, vendorMemo>>
      /\ trip[s] # "returned" /\ inVault[s]
      /\ \E w \in {"home", "packed", "out", "kept"} : trip' = [trip EXCEPT ![s] = w]
      /\ status' \in [Stone -> Status]
  <2>1. CASE MemoPack(s)
    BY <2>1 DEF MemoPack, TypeOK
  <2>2. CASE MemoUnpack(s)
    BY <2>2 DEF MemoUnpack, OutOK, TypeOK
  <2>3. CASE MemoOut(s)
    BY <2>3 DEF MemoOut, OutOK, TypeOK, Status
  <2>4. CASE MemoKept(s)
    BY <2>4 DEF MemoKept, OutOK, TypeOK, Status
  <2> QED  BY <2>1, <2>2, <2>3, <2>4
<1>2. \A x \in Stone : trip'[x] = "returned" <=> trip[x] = "returned"
  BY <1>1 DEF TypeOK
<1> USE DEF lineVars, poVars
<1>3. TypeOK'
  <2>1. trip' \in [Stone -> {"home", "packed", "out", "kept", "returned"}]
    BY <1>1 DEF TypeOK
  <2> QED  BY <1>1, <2>1 DEF TypeOK
<1>4. RecordsOK' /\ OneLivePurchase' /\ ReceiptsOK'
  BY <1>1 DEF RecordsOK, OneLivePurchase, ReceiptsOK
<1>5. MemoOK' /\ VaultOK'
  BY <1>1, <1>2 DEF MemoOK, VaultOK
<1>6. OutOK'
  BY <1>1 DEF OutOK, TypeOK
<1>7. GoodsOK' /\ GoodsGoBack'
  BY <1>1, <1>2 DEF GoodsOK, GoodsGoBack
<1> QED  BY <1>3, <1>4, <1>5, <1>6, <1>7

\* The stone comes back: its mark is chosen from what was bought.
LEMMA MemoReturnedIInv == ASSUME IInv, NEW s \in Stone, MemoReturned(s) PROVE IInv'
<1> USE DEF IInv
<1>0. /\ trip' = [trip EXCEPT ![s] = "returned"] /\ trip[s] = "out" /\ inVault[s]
      /\ UNCHANGED <<qty, po, receipt, ret, voided, poState, vendorMemo, inVault>>
      /\ status' \in [Stone -> Status]
  BY DEF MemoReturned, poVars, OutOK, StatusMove, TypeOK, Status
<1>1. CASE UNCHANGED <<stage, memo>>
  <2>1. TypeOK' /\ OutOK'
    BY <1>0, <1>1 DEF TypeOK, OutOK
  <2>2. RecordsOK' /\ OneLivePurchase' /\ ReceiptsOK'
    BY <1>0, <1>1 DEF RecordsOK, OneLivePurchase, ReceiptsOK
  <2>3. \A x \in Stone : trip[x] = "returned" => trip'[x] = "returned"
    BY <1>0 DEF TypeOK
  <2>4. MemoOK' /\ VaultOK' /\ GoodsOK' /\ GoodsGoBack'
    BY <1>0, <1>1, <2>3 DEF MemoOK, VaultOK, GoodsOK, GoodsGoBack
  <2> QED  BY <2>1, <2>2, <2>4
<1>2. ASSUME NEW l \in CurrentLines(s),
             memo' = [memo EXCEPT ![l] = ReturnTo(l)],
             stage'  = [stage EXCEPT ![l] = "with_qc"]
      PROVE  IInv'
  <2> USE <1>2 DEF ReturnTo
  <2>1. l \in Line /\ StoneOf[l] = s /\ stage[l] \in Current
    BY DEF CurrentLines, Current, TypeOK
  <2>2. stage[l] \in {"on_memo", "in_inventory"}
    BY <1>0, <2>1 DEF VaultOK
  <2>3. TypeOK' /\ OutOK'
    BY <1>0, <2>1 DEF TypeOK, Stage, OutOK
  <2>4. RecordsOK' /\ OneLivePurchase'
    BY <1>0, <2>1 DEF RecordsOK, OneLivePurchase, Current, Stage, TypeOK
  <2>5. ReceiptsOK'
    BY <1>0, <2>1, <2>2 DEF ReceiptsOK, TypeOK
  <2>6. MemoOK'
    BY <1>0, <2>1 DEF MemoOK, TypeOK
  <2>7. VaultOK'
    BY <1>0, <2>1 DEF VaultOK, TypeOK, Current, Stage
  <2>8. GoodsOK' /\ GoodsGoBack'
    BY <1>0, <2>1 DEF GoodsOK, GoodsGoBack, TypeOK
  <2> QED  BY <2>3, <2>4, <2>5, <2>6, <2>7, <2>8
<1> QED  BY <1>1, <1>2 DEF MemoReturned

\* Website or Sales write a status that starts nothing else.
LEMMA WriteStatusIInv ==
    ASSUME IInv, NEW s \in Stone, NEW w \in SaleWords, WriteStatus(s, w)
    PROVE  IInv'
BY DEF WriteStatus, IInv, lineVars, poVars, TypeOK, RecordsOK, OneLivePurchase, ReceiptsOK,
   MemoOK, VaultOK, OutOK, GoodsOK, GoodsGoBack

\* An RFQ is confirmed with the standard button.
LEMMA ButtonConfirmIInv == ASSUME IInv, NEW p \in Po, ButtonConfirm(p) PROVE IInv'
<1> USE DEF IInv, ButtonConfirm, Receipts, saleVars
<1>1. TypeOK'
  BY DEF TypeOK
<1>2. RecordsOK' /\ OneLivePurchase'
  BY DEF RecordsOK, OneLivePurchase, TypeOK
<1>3. ReceiptsOK'
  BY DEF ReceiptsOK, RecordsOK, TypeOK
<1>4. MemoOK' /\ VaultOK' /\ OutOK'
  BY DEF MemoOK, VaultOK, OutOK
<1>5. GoodsOK' /\ GoodsGoBack'
  BY DEF GoodsOK, GoodsGoBack, ReceiptsOK, RecordsOK, TypeOK
<1> QED  BY <1>1, <1>2, <1>3, <1>4, <1>5

\* The website moves a line to in_qc_process and RFQs may be confirmed
\* and received.
LEMMA StatusToQcIInv == ASSUME IInv, NEW s \in Stone, StatusToQc(s) PROVE IInv'
<1> PICK P \in {{}, AllReady(OrderOf[s], status', po)} : ConfirmAndReceive(P, qty, po, receipt)
  BY DEF StatusToQc
<1>1. P \subseteq Po /\ \A p \in P : poState[p] = "draft"
  BY DEF AllReady
<1> USE DEF IInv, StatusToQc, ConfirmAndReceive
<1>2. TypeOK'
  BY <1>1 DEF TypeOK, Status
<1>3. RecordsOK' /\ OneLivePurchase'
  BY <1>1 DEF RecordsOK, OneLivePurchase, TypeOK
<1>4. ReceiptsOK'
  BY <1>1 DEF ReceiptsOK, RecordsOK, TypeOK
<1>5. MemoOK' /\ OutOK'
  BY DEF MemoOK, OutOK, TypeOK
<1>6. VaultOK'
  BY DEF VaultOK, TypeOK
<1>7. GoodsOK' /\ GoodsGoBack'
  BY <1>1 DEF GoodsOK, GoodsGoBack, ReceiptsOK, RecordsOK, TypeOK, Current, Stage
<1> QED  BY <1>2, <1>3, <1>4, <1>5, <1>6, <1>7

\* What a step may do to purchase orders and receipts when it ends in
\* _lgd_void_or_cancel_po: cancel an order, withdraw a pending receipt.
OrdersKept ==
    /\ receipt' \in [Line -> {"none", "pending", "done", "cancelled"}]
    /\ poState' \in [Po -> {"unused", "draft", "purchase", "cancel"}]
    /\ voided' \in [Po -> BOOLEAN]
    /\ \A l \in Line : (receipt'[l] = receipt[l])
                        \/ (receipt[l] = "pending" /\ receipt'[l] = "cancelled")
    /\ \A l \in Line : receipt'[l] \in {"pending", "done"}
                        => poState'[po[l]] = "purchase"
    /\ \A p \in Po : \/ poState'[p] = poState[p]
                     \/ poState[p] # "unused" /\ poState'[p] = "cancel"

\* The part of the invariant about purchase orders and receipts survives
\* _lgd_void_or_cancel_po, whatever the caller has just written, provided the
\* receipts r it passes down are those of before with pending ones withdrawn.
LEMMA VoidOrCancelReceipts ==
    ASSUME IInv, NEW p \in Po, poState[p] # "unused", NEW stg, NEW q,
           NEW r \in [Line -> {"none", "pending", "done", "cancelled"}],
           \A l \in Line : r[l] # receipt[l] => receipt[l] = "pending" /\ r[l] = "cancelled",
           VoidOrCancel(p, stg, q, r)
    PROVE  OrdersKept
<1> USE DEF IInv
<1>1. CASE receipt' = r /\ poState' = poState /\ voided' \in [Po -> BOOLEAN]
  <2>1. \A l \in Line : (r[l] = receipt[l]) \/ (receipt[l] = "pending" /\ r[l] = "cancelled")
    OBVIOUS
  <2>2. \A l \in Line : r[l] \in {"pending", "done"} => poState[po[l]] = "purchase"
    BY <2>1 DEF ReceiptsOK
  <2> QED  BY <1>1, <2>1, <2>2 DEF TypeOK, OrdersKept
<1>2. CASE /\ \A l \in Line : po[l] = p => r[l] # "done"
           /\ poState' = [poState EXCEPT ![p] = "cancel"]
           /\ receipt' = [l \in Line |->
                 IF po[l] = p /\ r[l] = "pending" THEN "cancelled" ELSE r[l]]
           /\ voided' = voided
  <2>1. \A l \in Line : (receipt'[l] = receipt[l])
                       \/ (receipt[l] = "pending" /\ receipt'[l] = "cancelled")
    BY <1>2
  <2>2. \A l \in Line : receipt'[l] \in {"pending", "done"} =>
           po[l] # p /\ poState[po[l]] = "purchase" /\ po[l] \in Po
    BY <1>2, <2>1 DEF ReceiptsOK, RecordsOK, TypeOK
  <2>3. \A o \in Po : \/ poState'[o] = poState[o]
                      \/ poState[o] # "unused" /\ poState'[o] = "cancel"
    BY <1>2 DEF TypeOK
  <2>4. \A l \in Line : receipt'[l] \in {"pending", "done"} => poState'[po[l]] = "purchase"
    BY <1>2, <2>2 DEF TypeOK
  <2> QED  BY <1>2, <2>1, <2>3, <2>4 DEF TypeOK, OrdersKept
<1> QED  BY <1>1, <1>2, VoidOrCancelCases

\* Logistics rejects a stone; its order may be cancelled or flagged.
LEMMA RejectIInv == ASSUME IInv, NEW l \in Line, Reject(l) PROVE IInv'
<1> USE DEF IInv, Reject, StatusMove
<1>1. po[l] \in Po /\ poState[po[l]] # "unused"
  BY OrderOfLine
<1> DEFINE r == Withdraw({l})
<1>2. /\ r \in [Line -> {"none", "pending", "done", "cancelled"}]
      /\ \A m \in Line : r[m] # receipt[m] => receipt[m] = "pending" /\ r[m] = "cancelled"
  BY DEF Withdraw, TypeOK
<1>3. OrdersKept
  <2> HIDE DEF r
  <2> QED  BY <1>1, <1>2, VoidOrCancelReceipts DEF r
<1>4. TypeOK'
  <2>1. qty' \in [Line -> {0, 1}] /\ stage' \in [Line -> Stage] /\ status' \in [Stone -> Status]
    BY DEF TypeOK, Stage, Status
  <2> QED  BY <1>3, <2>1 DEF OrdersKept, TypeOK
<1>5. RecordsOK'
  BY <1>3 DEF OrdersKept, RecordsOK, TypeOK, Current, Stage
<1>6. OneLivePurchase'
  BY DEF OneLivePurchase, TypeOK
<1>7. ReceiptsOK'
  BY <1>3 DEF OrdersKept, RecordsOK, ReceiptsOK, TypeOK
<1>8. MemoOK' /\ OutOK'
  BY DEF MemoOK, OutOK, TypeOK
<1>9. VaultOK'
  BY DEF VaultOK, TypeOK, Current
<1>10. GoodsOK' /\ GoodsGoBack'
  BY <1>3 DEF OrdersKept, MayZero, GoodsOK, GoodsGoBack, RecordsOK, TypeOK, Current, Stage
<1> QED  BY <1>4, <1>5, <1>6, <1>7, <1>8, <1>9, <1>10

\* An inbound stone fails; its order may be cancelled or flagged.
LEMMA FailInboundIInv == ASSUME IInv, NEW l \in Line, FailInbound(l) PROVE IInv'
<1> USE DEF IInv, FailInbound, StatusMove
<1>1. po[l] \in Po /\ poState[po[l]] # "unused"
  BY OrderOfLine
<1>2. OrdersKept
  <2>1. PICK r \in {receipt, Withdraw({l})} : VoidOrCancel(po[l], stage', qty', r)
    OBVIOUS
  <2>2. /\ r \in [Line -> {"none", "pending", "done", "cancelled"}]
        /\ \A m \in Line : r[m] # receipt[m] => receipt[m] = "pending" /\ r[m] = "cancelled"
    BY DEF Withdraw, TypeOK
  <2> QED  BY <1>1, <2>1, <2>2, VoidOrCancelReceipts
<1>3. qty' \in [Line -> {0, 1}] /\ ret' \in [Line -> {"none", "pending", "done"}]
      /\ \A m \in Line : qty'[m] = qty[m] \/ (m = l /\ qty'[m] = 0)
  BY DEF TypeOK
<1>4. TypeOK'
  BY <1>2, <1>3 DEF OrdersKept, TypeOK, Stage, Status
<1>5. RecordsOK'
  BY <1>2, <1>3 DEF OrdersKept, RecordsOK, TypeOK, Current, Stage
<1>6. OneLivePurchase'
  BY <1>3 DEF OneLivePurchase, TypeOK
<1>7. ReceiptsOK'
  BY <1>2 DEF OrdersKept, RecordsOK, ReceiptsOK, TypeOK
<1>8. MemoOK' /\ OutOK'
  BY DEF MemoOK, OutOK, TypeOK
<1>9. VaultOK'
  BY DEF VaultOK, TypeOK, Current
<1>10. GoodsOK' /\ GoodsGoBack'
  <2>1. CASE receipt[l] = "done"
    <3>1. ret' = [ret EXCEPT ![l] = "pending"] /\ qty' = qty
      BY <2>1
    <3> QED  BY <1>2, <2>1, <3>1 DEF OrdersKept, GoodsOK, GoodsGoBack, TypeOK, Current, Stage
  <2>2. CASE receipt[l] # "done"
    <3>1. ret' = ret /\ qty' = [qty EXCEPT ![l] = 0]
      BY <2>2
    <3> QED  BY <1>2, <2>2, <3>1 DEF OrdersKept, GoodsOK, GoodsGoBack, TypeOK, Current, Stage
  <2> QED  BY <2>1, <2>2
<1> QED  BY <1>4, <1>5, <1>6, <1>7, <1>8, <1>9, <1>10

\* A failed or rejected stone has gone back; its order may be flagged.
LEMMA MarkReturnedIInv == ASSUME IInv, NEW l \in Line, MarkReturned(l) PROVE IInv'
<1> USE DEF IInv, MarkReturned, saleVars
<1>1. po[l] \in Po /\ poState[po[l]] # "unused"
  BY OrderOfLine
<1>2. OrdersKept
  BY <1>1, VoidOrCancelReceipts DEF TypeOK
<1>3. TypeOK'
  <2>1. stage' \in [Line -> Stage] /\ ret' \in [Line -> {"none", "pending", "done"}]
    BY DEF TypeOK, Stage
  <2> QED  BY <1>2, <2>1 DEF OrdersKept, TypeOK
<1>4. RecordsOK'
  BY <1>2 DEF OrdersKept, RecordsOK, TypeOK, Current, Stage
<1>5. OneLivePurchase' /\ MemoOK' /\ OutOK'
  BY DEF OneLivePurchase, MemoOK, OutOK, TypeOK
<1>6. ReceiptsOK'
  BY <1>2 DEF OrdersKept, RecordsOK, ReceiptsOK, TypeOK
<1>7. VaultOK'
  BY DEF VaultOK, TypeOK, Current
<1>8. GoodsOK' /\ GoodsGoBack'
  BY <1>2 DEF OrdersKept, GoodsOK, GoodsGoBack, MemoOK, RecordsOK, TypeOK, Current, Stage
<1> QED  BY <1>3, <1>4, <1>5, <1>6, <1>7, <1>8

\* Ready stones are copied to a new order and zeroed on the old one:
\* the copy is the only line that still buys the stone.
LEMMA ConfirmSplitIInv ==
    ASSUME IInv, NEW p \in Po, NEW np \in Po, NEW copy \in [Ready(p) -> Line],
           ConfirmSplit(p, np, copy)
    PROVE  IInv'
<1> DEFINE ready  == Ready(p)
           copies == {copy[l] : l \in ready}
<1>1. /\ \A l \in ready : /\ l \in Line /\ po[l] = p /\ stage[l] = "qc_passed" /\ qty[l] = 1
                          /\ copy[l] \in Line /\ stage[copy[l]] = "none"
                          /\ StoneOf[copy[l]] = StoneOf[l]
                          /\ receipt[l] # "done"
      /\ np \in Po /\ poState[np] = "unused" /\ poState' = [poState EXCEPT ![np] = "purchase"]
  BY DEF ConfirmSplit, Ready, On, MayZero, IInv, TypeOK
<1>2. /\ copies \subseteq Line
      /\ \A c \in copies : stage[c] = "none" /\ \E l \in ready : c = copy[l] /\ StoneOf[c] = StoneOf[l]
      /\ copies \cap ready = {}
  BY <1>1
<1>3. /\ stage' = [l \in Line |-> IF l \in copies THEN "qc_passed"
                                  ELSE IF l \in ready THEN "split" ELSE stage[l]]
      /\ qty'   = [l \in Line |-> IF l \in copies THEN 1
                                  ELSE IF l \in ready THEN 0 ELSE qty[l]]
      /\ po'    = [l \in Line |-> IF l \in copies THEN np ELSE po[l]]
      /\ UNCHANGED <<ret, memo, voided, status, vendorMemo, inVault, trip>>
  BY DEF ConfirmSplit, SplitQty, saleVars
<1>4. receipt' = [l \in Line |-> IF po'[l] = np /\ qty'[l] = 1 THEN "pending"
                                ELSE IF l \in ready /\ receipt[l] = "pending" THEN "cancelled"
                                ELSE receipt[l]]
  BY <1>3 DEF ConfirmSplit, SplitQty, Receipts, Withdraw
<1>5. \A l \in Line : po'[l] = np <=> l \in copies
  BY <1>1, <1>2, <1>3 DEF IInv, RecordsOK, TypeOK
<1>6. \A l \in copies \cup ready : memo[l] = "none"
  <2>1. \A l \in copies : memo[l] = "none"
    BY <1>2 DEF IInv, RecordsOK
  <2>2. \A l \in ready : memo[l] = "none"
    BY <1>1 DEF IInv, MemoOK, ReceiptsOK, TypeOK
  <2> QED  BY <2>1, <2>2
<1> HIDE DEF ready, copies
<1>7. TypeOK'
  BY <1>1, <1>2, <1>3, <1>4 DEF IInv, TypeOK, Stage
<1>8. RecordsOK'
  BY <1>1, <1>2, <1>3, <1>4, <1>5, <1>6 DEF IInv, RecordsOK, TypeOK, Current, Stage
<1>9. OneLivePurchase'
  <2> SUFFICES ASSUME NEW l \in Line, NEW m \in Line, StoneOf[l] = StoneOf[m],
                      qty'[l] = 1, qty'[m] = 1
               PROVE  l = m
    BY DEF OneLivePurchase
  <2> DEFINE Old(k) == IF k \in copies THEN CHOOSE x \in ready : k = copy[x] ELSE k
  <2>1. \A k \in {l, m} : k \in copies => Old(k) \in ready /\ copy[Old(k)] = k
    BY DEF copies
  <2>2. \A k \in {l, m} : k \notin copies => Old(k) = k /\ k \notin ready /\ qty[k] = 1
    BY <1>3
  <2>3. \A k \in {l, m} : Old(k) \in Line /\ qty[Old(k)] = 1 /\ StoneOf[Old(k)] = StoneOf[k]
    BY <2>1, <2>2, <1>1
  <2> HIDE DEF Old
  <2>4. Old(l) = Old(m)
    BY <2>3 DEF IInv, OneLivePurchase
  <2> QED  BY <2>1, <2>2, <2>4
<1>10. ReceiptsOK'
  BY <1>1, <1>2, <1>3, <1>4, <1>5, <1>6 DEF IInv, ReceiptsOK, RecordsOK, TypeOK
<1>11. MemoOK' /\ OutOK'
  BY <1>3, <1>6 DEF IInv, MemoOK, OutOK
<1>12. VaultOK'
  <2> SUFFICES ASSUME NEW l \in copies PROVE ~inVault[StoneOf[l]]
    BY <1>2, <1>3 DEF IInv, VaultOK, Current
  <2> QED  BY <1>1, <1>2, <1>6 DEF IInv, VaultOK
<1>13. GoodsOK' /\ GoodsGoBack'
  BY <1>1, <1>2, <1>3, <1>4, <1>5 DEF IInv, GoodsOK, GoodsGoBack, RecordsOK, TypeOK, Current, Stage
<1> QED  BY <1>7, <1>8, <1>9, <1>10, <1>11, <1>12, <1>13 DEF IInv

\* A sale line is cancelled: RFQs are dropped or reduced, others received.
LEMMA CancelSaleLineIInv ==
    ASSUME IInv, NEW s \in Stone, NEW w \in SaleWords, CancelSaleLine(s, w) PROVE IInv'
<1> DEFINE rfqs == {p \in Po : poState[p] = "draft" /\ \E l \in On(p) : StoneOf[l] = s}
<1>1. PICK deleted \in SUBSET Line, dropped \in SUBSET rfqs, P \in SUBSET Po :
        /\ \A l \in deleted : StoneOf[l] = s /\ po[l] \in rfqs
        /\ \A p \in P : poState[p] = "draft"
        /\ status' = [status EXCEPT ![s] = w]
        /\ stage' = [l \in Line |-> IF l \in deleted THEN "none" ELSE stage[l]]
        /\ qty'   = [l \in Line |-> IF l \in deleted THEN 0 ELSE qty[l]]
        /\ memo'  = [l \in Line |-> IF l \in deleted THEN "none" ELSE memo[l]]
        /\ po'    = [l \in Line |-> IF l \in deleted THEN NoPo ELSE po[l]]
        /\ poState' = [p \in Po |-> IF p \in P THEN "purchase"
                                    ELSE IF p \in dropped THEN "cancel" ELSE poState[p]]
        /\ receipt' = [l \in Line |-> IF po'[l] \in P /\ qty'[l] = 1
                                      THEN "done" ELSE receipt[l]]
        /\ UNCHANGED <<ret, voided, vendorMemo, inVault, trip>>
  <2> DEFINE wanted(p) == {l \in On(p) : /\ StoneOf[l] # s
                                         /\ status[StoneOf[l]] \notin DeadStatus}
             dropped == {p \in rfqs : OrdersOn(p, po) = {OrderOf[s]} /\ wanted(p) = {}}
             deleted == {l \in Line : StoneOf[l] = s /\ po[l] \in rfqs \ dropped}
             poNew   == [l \in Line |-> IF l \in deleted THEN NoPo ELSE po[l]]
             retrigger == {OrderOf[StoneOf[l]] : l \in
                             {m \in Line : /\ poNew[m] \in rfqs \ dropped
                                           /\ StoneOf[m] # s
                                           /\ status[StoneOf[m]] = "in_qc_process"}}
  <2>1. \E P \in SUBSET UNION {AllReady(x, status', poNew) : x \in retrigger} :
              /\ poState' = [p \in Po |-> IF p \in P THEN "purchase"
                                          ELSE IF p \in dropped THEN "cancel"
                                          ELSE poState[p]]
              /\ receipt' = [l \in Line |-> IF poNew[l] \in P /\ qty'[l] = 1
                                            THEN "done" ELSE receipt[l]]
    BY DEF CancelSaleLine
  <2>2. PICK P \in SUBSET UNION {AllReady(x, status', poNew) : x \in retrigger} :
              /\ poState' = [p \in Po |-> IF p \in P THEN "purchase"
                                          ELSE IF p \in dropped THEN "cancel"
                                          ELSE poState[p]]
              /\ receipt' = [l \in Line |-> IF poNew[l] \in P /\ qty'[l] = 1
                                            THEN "done" ELSE receipt[l]]
    BY <2>1
  <2>3. P \in SUBSET Po /\ \A p \in P : poState[p] = "draft"
    BY DEF AllReady
  <2>4. /\ status' = [status EXCEPT ![s] = w]
        /\ stage' = [l \in Line |-> IF l \in deleted THEN "none" ELSE stage[l]]
        /\ qty'   = [l \in Line |-> IF l \in deleted THEN 0 ELSE qty[l]]
        /\ memo'  = [l \in Line |-> IF l \in deleted THEN "none" ELSE memo[l]]
        /\ po'    = poNew
        /\ UNCHANGED <<ret, voided, vendorMemo, inVault, trip>>
    BY DEF CancelSaleLine
  <2>5. /\ deleted \in SUBSET Line /\ dropped \in SUBSET rfqs
        /\ \A l \in deleted : StoneOf[l] = s /\ po[l] \in rfqs
    OBVIOUS
  <2> HIDE DEF rfqs, dropped, deleted, retrigger
  <2> USE <2>3, <2>5
  <2> WITNESS deleted \in SUBSET Line, dropped \in SUBSET rfqs, P \in SUBSET Po
  <2> QED  BY <2>2, <2>3, <2>4, <2>5
<1>2. /\ \A l \in deleted : receipt[l] = "none"
      /\ \A p \in dropped : poState[p] = "draft"
  BY <1>1 DEF IInv, ReceiptsOK
<1>3. TypeOK'
  <2>1. w \in Status
    BY DEF CancelSaleLine, Gone, Status
  <2> QED  BY <1>1, <2>1 DEF IInv, TypeOK, Stage
<1>4. RecordsOK'
  BY <1>1, <1>2 DEF IInv, RecordsOK, TypeOK, Current, Stage
<1>5. OneLivePurchase'
  BY <1>1 DEF IInv, OneLivePurchase, TypeOK
<1>6. ReceiptsOK'
  BY <1>1, <1>2 DEF IInv, ReceiptsOK, RecordsOK, TypeOK
<1>7. MemoOK' /\ OutOK'
  BY <1>1 DEF IInv, MemoOK, OutOK, TypeOK
<1>8. VaultOK'
  BY <1>1 DEF IInv, VaultOK, TypeOK, Current
<1>9. GoodsOK' /\ GoodsGoBack'
  BY <1>1, <1>2 DEF IInv, GoodsOK, GoodsGoBack, ReceiptsOK, RecordsOK, TypeOK, Current, Stage
<1> QED  BY <1>3, <1>4, <1>5, <1>6, <1>7, <1>8, <1>9 DEF IInv

\* IInv is inductive: every step of every handler preserves it.
THEOREM StepIInv == IInv /\ [Next]_vars => IInv'
<1> SUFFICES ASSUME IInv, [Next]_vars PROVE IInv'
  OBVIOUS
<1>1. ASSUME NEW l \in Line, LineStep(l) PROVE IInv'
  BY <1>1, ReceiveIInv, RejectIInv, HandoverQcIInv, QcReceiveIInv, PassInboundIInv,
     PassMemoReturnIInv, FailInboundIInv, FailMemoReturnIInv, AcceptInboundIInv,
     AcceptMemoReturnIInv, TakeOnMemoIInv, MarkReturnedIInv DEF LineStep
<1>2. ASSUME NEW p \in Po, PoStep(p) PROVE IInv'
  BY <1>2, ButtonConfirmIInv, ConfirmSplitIInv DEF PoStep, ConfirmReadyStones, ConfirmWhole
<1>3. ASSUME NEW s \in Stone, MemoStep(s) PROVE IInv'
  BY <1>3, MemoTripIInv, MemoReturnedIInv DEF MemoStep
<1>4. ASSUME NEW s \in Stone, SaleStep(s) PROVE IInv'
  BY <1>4, StatusToQcIInv, CancelSaleLineIInv, WriteStatusIInv DEF SaleStep
<1>5. CASE UNCHANGED vars
  BY <1>5 DEF vars, lineVars, poVars, saleVars, IInv, TypeOK, RecordsOK,
     OneLivePurchase, ReceiptsOK, MemoOK, VaultOK, OutOK, GoodsOK, GoodsGoBack
<1> QED  BY <1>1, <1>2, <1>3, <1>4, <1>5 DEF Next

\* IInv holds in every reachable state, for any number of stones, purchase
\* lines and orders, whatever the sale side writes.
THEOREM Invariance == Spec => []IInv
BY InitIInv, StepIInv, PTL DEF Spec

\* Every field keeps a value of its selection.
THEOREM TypeCorrect == Spec => []TypeOK
<1>1. IInv => TypeOK
  BY DEF IInv
<1> QED  BY <1>1, Invariance, PTL

\* However often stones are split off, confirmed, received by the sale side
\* or sent back, no stone is bought twice.
THEOREM NeverBoughtTwice == Spec => []OneLivePurchase
<1>1. IInv => OneLivePurchase
  BY DEF IInv
<1> QED  BY <1>1, Invariance, PTL

\* Goods are received only on purchase orders that are, and stay, confirmed.
THEOREM ReceivedOnPurchase == Spec => []ReceivedMeansPurchased
<1>1. IInv => ReceivedMeansPurchased
  BY DEF IInv, ReceiptsOK, ReceivedMeansPurchased
<1> QED  BY <1>1, Invariance, PTL

\* A stone that counts as ours was received on a confirmed purchase order.
THEOREM StockIsBought == Spec => []InventoryIsBought
<1>1. IInv => InventoryIsBought
  BY DEF IInv, ReceiptsOK, InventoryIsBought
<1> QED  BY <1>1, Invariance, PTL

\* However RFQs are split, reduced, voided or cancelled, a stone is asked for
\* once, received on confirmed orders only, and ours only once it was received.
THEOREM OnePurchase == Spec => []BoughtOnce
<1>1. OneLivePurchase /\ InventoryIsBought /\ ReceivedMeansPurchased => BoughtOnce
  BY DEF BoughtOnce
<1> QED  BY <1>1, NeverBoughtTwice, StockIsBought, ReceivedOnPurchase, PTL

(***************************************************************************)
(* What the sale side is told                                              *)
(***************************************************************************)

\* A stone that passed inspection and has not left.
Held == {"qc_passed", "on_memo", "in_inventory"}

\* Nothing is asked of the customer for a stone whose line leaves that state.
LEMMA PaymentKept ==
    ASSUME PaymentAfterQc,
           \A s \in Stone : status'[s] = "payment_pending" => status[s] = "payment_pending",
           \A l \in Line :
              stage[l] \in Held /\ qty[l] = 1 /\ status'[StoneOf[l]] = "payment_pending"
                  => stage'[l] \in Held /\ qty'[l] = 1
    PROVE  PaymentAfterQc'
<1> SUFFICES ASSUME NEW s \in Procured, status'[s] = "payment_pending"
             PROVE  \E l \in Line : StoneOf[l] = s /\ qty'[l] = 1 /\ stage'[l] \in Held
  BY DEF PaymentAfterQc, Held
<1>1. PICK l \in Line : StoneOf[l] = s /\ qty[l] = 1 /\ stage[l] \in Held
  BY DEF PaymentAfterQc, Held
<1> QED  BY <1>1

\* What a step may do to the marks of memo returns and to what is written of
\* their sale lines.
LEMMA ReinspectionKept ==
    ASSUME IInv, ReinspectionOK,
           \A l \in Line : memo'[l] # "none" => memo[l] # "none",
           \A s \in Stone : trip'[s] = "out" => trip[s] = "out",
           \A s \in Stone : status'[s] # status[s] /\ status'[s] \in {"payment_pending", "memo_returned"}
              => \E l \in Line : /\ StoneOf[l] = s /\ memo'[l] = "none" /\ stage[l] \in Current
                                 /\ trip[s] = "out" => status'[s] # "payment_pending"
    PROVE  ReinspectionOK'
<1>1. ASSUME NEW m \in Line, memo'[m] # "none"
      PROVE  status'[StoneOf[m]] \notin {"payment_pending", "memo_returned"}
  <2> SUFFICES ASSUME status'[StoneOf[m]] # status[StoneOf[m]],
                      status'[StoneOf[m]] \in {"payment_pending", "memo_returned"}
               PROVE  FALSE
    BY <1>1 DEF ReinspectionOK
  <2>1. PICK l \in Line : StoneOf[l] = StoneOf[m] /\ memo'[l] = "none" /\ stage[l] \in Current
    OBVIOUS
  <2>2. memo[m] # "none"
    BY <1>1
  <2>3. stage[m] \in Current
    BY <2>2 DEF IInv, MemoOK, Current, Stage
  <2> QED  BY <1>1, <2>1, <2>3, OneCurrentLine
<1>2. ASSUME NEW s \in Stone, trip'[s] = "out" PROVE status'[s] # "payment_pending"
  BY <1>2 DEF ReinspectionOK
<1> QED  BY <1>1, <1>2 DEF ReinspectionOK

\* A line that is inspected for the first time passes: it is held from now on.
LEMMA PassInspected ==
    ASSUME InspectionInv, NEW l \in Line, PassInbound(l)
    PROVE  PaymentAfterQc' /\ ReinspectionOK'
<1> USE DEF InspectionInv, IInv
<1>1. /\ stage[l] = "in_qc" /\ memo[l] = "none" /\ qty[l] = 1
      /\ stage' = [stage EXCEPT ![l] = "qc_passed"] /\ UNCHANGED <<qty, memo, trip>>
      /\ \A s \in Stone : s # StoneOf[l] => status'[s] = status[s]
  BY DEF PassInbound, RecordsOK, Current, Stage, StatusMove, TypeOK
<1>2. PaymentAfterQc'
  <2> SUFFICES ASSUME NEW s \in Procured, status'[s] = "payment_pending"
               PROVE  \E m \in Line : StoneOf[m] = s /\ qty'[m] = 1 /\ stage'[m] \in Held
    BY DEF PaymentAfterQc, Held
  <2>1. CASE s = StoneOf[l]
    BY <1>1, <2>1 DEF Held, TypeOK
  <2>2. CASE s # StoneOf[l]
    <3>1. PICK m \in Line : StoneOf[m] = s /\ qty[m] = 1 /\ stage[m] \in Held
      BY <1>1, <2>2 DEF PaymentAfterQc, Held
    <3> QED  BY <1>1, <2>2, <3>1 DEF TypeOK
  <2> QED  BY <2>1, <2>2
<1>3. trip[StoneOf[l]] # "out"
  BY <1>1 DEF OutOK, VaultOK
<1>4. stage[l] \in Current
  BY <1>1 DEF Current, Stage
<1>5. ReinspectionOK'
  BY <1>1, <1>3, <1>4, ReinspectionKept
<1> QED  BY <1>2, <1>5

\* The other steps of one line: receiving, handing over, failing, accepting,
\* taking on memo and sending back.
LEMMA LineInspected ==
    ASSUME InspectionInv, NEW l \in Line, LineStep(l)
    PROVE  PaymentAfterQc' /\ ReinspectionOK'
<1> USE DEF InspectionInv, IInv
<1>1. CASE \/ Receive(l) \/ Reject(l) \/ HandoverQc(l) \/ QcReceive(l)
  <2>1. /\ stage[l] \notin Held /\ UNCHANGED <<memo, trip>>
        /\ \A m \in Line : m # l => stage'[m] = stage[m] /\ qty'[m] = qty[m]
        /\ \A s \in Stone : status'[s] # status[s]
              => status'[s] \in {"not_available", "in_qc_process"}
    BY <1>1 DEF Receive, Reject, HandoverQc, QcReceive, StatusMove, saleVars, Held, TypeOK
  <2>2. PaymentAfterQc'
    BY <2>1, PaymentKept
  <2>3. ReinspectionOK'
    BY <2>1, ReinspectionKept
  <2> QED  BY <2>2, <2>3
<1>2. CASE PassInbound(l)
  BY <1>2, PassInspected
<1>3. CASE PassMemoReturn(l) \/ FailInbound(l) \/ FailMemoReturn(l)
  <2>1. /\ stage[l] \notin Held /\ stage[l] \in Current /\ trip' = trip
        /\ \A m \in Line : m # l => stage'[m] = stage[m] /\ qty'[m] = qty[m] /\ memo'[m] = memo[m]
        /\ \A s \in Stone : status'[s] # status[s]
              => s = StoneOf[l] /\ memo'[l] = "none" /\ status'[s] \in {"memo_returned", "qc_fail"}
        /\ memo'[l] \in {memo[l], "none"}
    BY <1>3 DEF PassMemoReturn, FailInbound, FailMemoReturn, StatusMove, Held, Current, Stage, TypeOK
  <2>2. PaymentAfterQc'
    BY <2>1, PaymentKept
  <2>3. ReinspectionOK'
    BY <2>1, ReinspectionKept
  <2> QED  BY <2>2, <2>3
<1>4. CASE AcceptInbound(l) \/ TakeOnMemo(l)
  <2>1. /\ stage'[l] \in Held /\ UNCHANGED <<status, qty, memo, trip>>
        /\ \A m \in Line : m # l => stage'[m] = stage[m]
    BY <1>4 DEF AcceptInbound, TakeOnMemo, Held, TypeOK
  <2> QED  BY <2>1, PaymentKept DEF ReinspectionOK
<1>5. CASE AcceptMemoReturn(l)
  <2>1. /\ memo[l] # "none" /\ memo'[l] = "none" /\ qty' = qty /\ stage[l] \in Current
        /\ \A m \in Line : m # l => stage'[m] = stage[m] /\ memo'[m] = memo[m]
        /\ \A s \in Stone : status'[s] # status[s]
              => s = StoneOf[l] /\ status'[s] = "memo_returned"
        /\ trip' = trip
    BY <1>5 DEF AcceptMemoReturn, StatusMove, Current, Stage, TypeOK
  <2>2. status[StoneOf[l]] # "payment_pending"
    BY <2>1 DEF ReinspectionOK
  <2>3. PaymentAfterQc'
    BY <2>1, <2>2, PaymentKept
  <2>4. ReinspectionOK'
    BY <2>1, ReinspectionKept
  <2> QED  BY <2>3, <2>4
<1>6. CASE MarkReturned(l)
  <2>1. /\ stage[l] \notin Held /\ UNCHANGED <<status, qty, memo, trip>>
        /\ \A m \in Line : m # l => stage'[m] = stage[m]
    BY <1>6 DEF MarkReturned, saleVars, Held, TypeOK
  <2> QED  BY <2>1, PaymentKept DEF ReinspectionOK
<1> QED  BY <1>1, <1>2, <1>3, <1>4, <1>5, <1>6 DEF LineStep

\* A stone whose line is split off passed inspection on the copy as well.
LEMMA SplitInspected ==
    ASSUME InspectionInv, NEW p \in Po, NEW np \in Po, NEW copy \in [Ready(p) -> Line],
           ConfirmSplit(p, np, copy)
    PROVE  PaymentAfterQc' /\ ReinspectionOK'
<1> DEFINE ready  == Ready(p)
           copies == {copy[l] : l \in ready}
<1>1. /\ stage' = [l \in Line |-> IF l \in copies THEN "qc_passed"
                                  ELSE IF l \in ready THEN "split" ELSE stage[l]]
      /\ qty'   = [l \in Line |-> IF l \in copies THEN 1
                                  ELSE IF l \in ready THEN 0 ELSE qty[l]]
      /\ UNCHANGED <<memo, status, trip>>
      /\ \A l \in ready : copy[l] \in Line /\ StoneOf[copy[l]] = StoneOf[l]
  BY DEF ConfirmSplit, SplitQty, saleVars
<1>2. PaymentAfterQc'
  <2> SUFFICES ASSUME NEW s \in Procured, status[s] = "payment_pending"
               PROVE  \E l \in Line : StoneOf[l] = s /\ qty'[l] = 1 /\ stage'[l] \in Held
    BY <1>1 DEF PaymentAfterQc, Held
  <2>1. PICK l \in Line : StoneOf[l] = s /\ qty[l] = 1 /\ stage[l] \in Held
    BY DEF InspectionInv, PaymentAfterQc, Held
  <2>2. CASE l \in ready
    <3>1. copy[l] \in copies /\ copy[l] \in Line /\ StoneOf[copy[l]] = s
      BY <1>1, <2>1, <2>2
    <3> QED  BY <1>1, <3>1 DEF Held
  <2>3. CASE l \notin ready
    BY <1>1, <2>1, <2>3 DEF Held
  <2> QED  BY <2>2, <2>3
<1> QED  BY <1>1, <1>2 DEF InspectionInv, ReinspectionOK

\* Neither the website nor Sales asks for payment, or releases a stone, on its
\* own account.
LeaveItToQc == SaleWords \cap {"payment_pending", "memo_returned"} = {}

\* The customer's side of a memo.
LEMMA MemoInspected ==
    ASSUME InspectionInv, NEW s \in Stone, MemoStep(s)
    PROVE  PaymentAfterQc' /\ ReinspectionOK'
<1> USE DEF InspectionInv, IInv
<1>1. CASE MemoPack(s) \/ MemoUnpack(s) \/ MemoOut(s) \/ MemoKept(s)
  <2>1. /\ UNCHANGED <<stage, qty, memo>>
        /\ \A t \in Stone : status'[t] # status[t] => status'[t] \in {"dispatched", "delivered"}
        /\ \A t \in Stone : trip'[t] = "out" => trip[t] = "out" \/ status'[t] = "dispatched"
    BY <1>1 DEF MemoPack, MemoUnpack, MemoOut, MemoKept, lineVars, TypeOK
  <2>2. PaymentAfterQc'
    BY <2>1, PaymentKept
  <2>3. ReinspectionOK'
    BY <2>1 DEF ReinspectionOK
  <2> QED  BY <2>2, <2>3
<1>2. CASE MemoReturned(s)
  <2>1. /\ status[s] # "payment_pending" /\ trip[s] = "out" /\ qty' = qty
        /\ trip' = [trip EXCEPT ![s] = "returned"]
        /\ \A l \in Line : StoneOf[l] # s => stage'[l] = stage[l] /\ memo'[l] = memo[l]
        /\ \A t \in Stone : t # s => status'[t] = status[t]
        /\ \/ status'[s] = "in_qc_process"
           \/ status'[s] = status[s] /\ status[s] # "memo_returned"
           \/ status'[s] = "memo_returned" /\ memo' = memo
    BY <1>2 DEF MemoReturned, CurrentLines, StatusMove, ReinspectionOK, TypeOK
  <2>2. PaymentAfterQc'
    BY <2>1, PaymentKept
  <2>3. \A l \in Line : StoneOf[l] = s => memo[l] = "none"
    BY <2>1 DEF MemoOK
  <2>4. ReinspectionOK'
    BY <2>1, <2>3 DEF ReinspectionOK, TypeOK
  <2> QED  BY <2>2, <2>4
<1> QED  BY <1>1, <1>2 DEF MemoStep

\* The website and Sales.
LEMMA SaleInspected ==
    ASSUME InspectionInv, LeaveItToQc, NEW s \in Stone, SaleStep(s)
    PROVE  PaymentAfterQc' /\ ReinspectionOK'
<1> USE DEF InspectionInv, IInv
<1>1. PICK w \in SaleWords : /\ status' = [status EXCEPT ![s] = w]
                             /\ StatusToQc(s) \/ CancelSaleLine(s, w) \/ WriteStatus(s, w)
  <2>1. CASE StatusToQc(s)
    BY <2>1 DEF StatusToQc
  <2>2. ASSUME NEW w \in SaleWords, CancelSaleLine(s, w) PROVE status' = [status EXCEPT ![s] = w]
    BY <2>2 DEF CancelSaleLine
  <2>3. ASSUME NEW w \in SaleWords, WriteStatus(s, w) PROVE status' = [status EXCEPT ![s] = w]
    BY <2>3 DEF WriteStatus
  <2> QED  BY <2>1, <2>2, <2>3 DEF SaleStep
<1>2. /\ w \notin {"payment_pending", "memo_returned"} /\ trip' = trip
      /\ \A t \in Stone : t # s => status'[t] = status[t]
      /\ status'[s] = w
  BY <1>1 DEF LeaveItToQc, StatusToQc, CancelSaleLine, WriteStatus, TypeOK
<1>3. /\ \A l \in Line : StoneOf[l] # s => stage'[l] = stage[l] /\ qty'[l] = qty[l]
      /\ \A l \in Line : memo'[l] # "none" => memo[l] # "none"
  <2>1. CASE StatusToQc(s)
    BY <2>1 DEF StatusToQc
  <2>2. CASE CancelSaleLine(s, w)
    <3>1. PICK deleted \in SUBSET {l \in Line : StoneOf[l] = s} :
            /\ stage' = [l \in Line |-> IF l \in deleted THEN "none" ELSE stage[l]]
            /\ qty'   = [l \in Line |-> IF l \in deleted THEN 0 ELSE qty[l]]
            /\ memo'  = [l \in Line |-> IF l \in deleted THEN "none" ELSE memo[l]]
      BY <2>2 DEF CancelSaleLine
    <3> QED  BY <3>1
  <2>3. CASE WriteStatus(s, w)
    BY <2>3 DEF WriteStatus, lineVars
  <2> QED  BY <1>1, <2>1, <2>2, <2>3
<1>4. PaymentAfterQc'
  BY <1>2, <1>3, PaymentKept
<1>5. ReinspectionOK'
  BY <1>2, <1>3 DEF ReinspectionOK
<1> QED  BY <1>4, <1>5

\* InspectionInv is inductive.
LEMMA StepInspection ==
    ASSUME InspectionInv, LeaveItToQc, [Next]_vars PROVE InspectionInv'
<1>1. IInv'
  BY StepIInv DEF InspectionInv
<1>2. ASSUME NEW p \in Po, PoStep(p) PROVE PaymentAfterQc' /\ ReinspectionOK'
  <2>1. CASE ButtonConfirm(p)
    BY <2>1 DEF ButtonConfirm, saleVars, InspectionInv, PaymentAfterQc, ReinspectionOK
  <2> QED  BY <1>2, <2>1, SplitInspected DEF PoStep, ConfirmReadyStones, ConfirmWhole
<1>3. CASE UNCHANGED vars
  BY <1>1, <1>3 DEF vars, lineVars, saleVars, InspectionInv, PaymentAfterQc, ReinspectionOK
<1> QED  BY <1>1, <1>2, <1>3, LineInspected, MemoInspected, SaleInspected DEF Next, InspectionInv

\* The customer is asked to pay only for a stone that passed inspection and is
\* still held, and a sale line is released only when no stone of it is with QC
\* or waits to be signed in: as long as the website and Sales leave these two
\* statuses to the departments, whatever else they book, cancel, fail, send to
\* QC or write meanwhile.
THEOREM ToldAsInspected == ASSUME LeaveItToQc PROVE Spec => []InspectedFirst
<1>1. Init => InspectionInv
  BY InitIInv DEF Init, InspectionInv, ReinspectionOK, PaymentAfterQc
<1>2. InspectionInv => InspectedFirst
  BY DEF InspectionInv, ReinspectionOK, InspectedFirst, ReleasedAfterInspection
<1> QED  BY <1>1, <1>2, StepInspection, PTL DEF Spec

\* Whatever is written into the lines, and whatever is received, confirmed or
\* deleted in consequence: bought once, and failed goods go back.
THEOREM SafeStones == Spec => []StonesAreSafe
<1>1. BoughtOnce /\ IInv => StonesAreSafe
  BY DEF StonesAreSafe, IInv
<1> QED  BY <1>1, OnePurchase, Invariance, PTL

(***************************************************************************)
(* Custody, while only the operations flow writes the statuses             *)
(***************************************************************************)

\* Stages of a stone on its way in.
Inward == Current \ {"in_inventory", "cust_returned"}

\* Steps that leave orders and receipts alone and bring no stone back from
\* the dead keep every stone on an order that is not over.
LEMMA OrdersUntouched ==
    ASSUME CustodyInv, UNCHANGED <<po, qty, receipt, poState, voided>>,
           \A l \in Line : /\ stage[l] \in Spent => stage'[l] \in Spent
                           /\ (stage'[l] \in Inward /\ memo'[l] = "none")
                                => (stage[l] \in Inward /\ memo[l] = "none")
    PROVE  DeadPoHasNothingLive' /\ WayOnOK' /\ UnusedOK'
BY DEF CustodyInv, DeadPoHasNothingLive, WayOnOK, UnusedOK, Inward

\* _lgd_void_or_cancel_po after the stage of one line was written: an order is
\* cancelled or flagged only when nobody waits for any of its stones.
LEMMA VoidOrCancelCustody ==
    ASSUME CustodyInv, NEW l \in Line, po[l] \in Po,
           poState[po[l]] # "unused", UNCHANGED <<po, memo>>,
           stage'[l] \in Spent, \A m \in Line : m # l => stage'[m] = stage[m] /\ qty'[m] = qty[m],
           stage[l] \in Spent \/ qty[l] = 1, qty'[l] \in {0, qty[l]},
           NEW r \in [Line -> {"none", "pending", "done", "cancelled"}],
           \A m \in Line : m # l => r[m] = receipt[m],
           VoidOrCancel(po[l], stage', qty', r)
    PROVE  DeadPoHasNothingLive' /\ WayOnOK' /\ UnusedOK'
<1> USE DEF CustodyInv, IInv
<1> DEFINE p == po[l]
<1>1. l \notin Live(p, stage', qty')
  BY DEF Live
<1>2. CASE Live(p, stage', qty') # {}
  <2>1. receipt' = r /\ UNCHANGED <<poState, voided>>
    BY <1>2 DEF VoidOrCancel, poVars
  <2>2. DeadPoHasNothingLive'
    BY <2>1 DEF DeadPoHasNothingLive
  <2>3. WayOnOK'
    BY <2>1 DEF WayOnOK, Spent, Current, Stage
  <2>4. UnusedOK'
    BY <2>1 DEF UnusedOK
  <2> QED  BY <2>2, <2>3, <2>4
<1>3. CASE Live(p, stage', qty') = {}
  <2>1. \A m \in Line : po[m] = p => qty'[m] # 1 \/ stage'[m] \in Spent
    BY <1>3 DEF Live, On
  <2>2. \A m \in Line : po[m] = p => stage'[m] \notin Inward
    <3> SUFFICES ASSUME NEW m \in Line, po[m] = p, stage'[m] \in Inward PROVE FALSE
      OBVIOUS
    <3>1. m # l /\ stage[m] \in Current /\ qty'[m] = qty[m]
      BY DEF Inward, Spent, Current, Stage
    <3> QED  BY <2>1, <3>1 DEF RecordsOK, Inward, Spent, Current, Stage
  <2>3. /\ \A q \in Po : q # p => poState'[q] = poState[q] /\ voided'[q] = voided[q]
        /\ poState'[p] # "unused"
        /\ \A m \in Line : po[m] # p => receipt'[m] = receipt[m]
    BY <1>3 DEF VoidOrCancel, On, TypeOK
  <2>4. DeadPoHasNothingLive'
    <3> SUFFICES ASSUME NEW m \in Line, po[m] \in Po, poState'[po[m]] = "cancel" \/ voided'[po[m]]
                 PROVE  qty'[m] = 0 \/ stage'[m] \in Spent
      BY DEF DeadPoHasNothingLive
    <3>1. CASE po[m] = p
      <4>1. qty'[m] \in {0, 1}
        BY DEF TypeOK
      <4> QED  BY <2>1, <3>1, <4>1
    <3>2. CASE po[m] # p
      BY <2>3, <3>2 DEF DeadPoHasNothingLive
    <3> QED  BY <3>1, <3>2
  <2>5. WayOnOK'
    <3> SUFFICES ASSUME NEW m \in Line, stage'[m] \in Inward, memo[m] = "none"
                 PROVE  \/ poState'[po[m]] = "draft"
                        \/ poState'[po[m]] = "purchase" /\ receipt'[m] = "pending"
      BY DEF WayOnOK, Inward
    <3>1. po[m] # p /\ m # l
      BY <2>2
    <3>2. stage[m] = stage'[m] /\ po[m] \in Po
      BY <3>1 DEF RecordsOK, TypeOK, Inward, Current
    <3> QED  BY <2>3, <3>1, <3>2 DEF WayOnOK, Inward
  <2>6. UnusedOK'
    BY <2>3 DEF UnusedOK
  <2> QED  BY <2>4, <2>5, <2>6
<1> QED  BY <1>2, <1>3

\* One line's steps.
LEMMA LineCustody ==
    ASSUME CustodyInv, NEW l \in Line, LineStep(l)
    PROVE  DeadPoHasNothingLive' /\ WayOnOK' /\ UnusedOK'
<1> USE DEF CustodyInv, IInv
<1>1. CASE \/ Receive(l) \/ HandoverQc(l) \/ QcReceive(l) \/ PassInbound(l) \/ TakeOnMemo(l)
           \/ PassMemoReturn(l) \/ FailMemoReturn(l) \/ AcceptMemoReturn(l)
  <2>1. UNCHANGED <<po, qty, receipt, poState, voided>>
    BY <1>1 DEF Receive, HandoverQc, QcReceive, PassInbound, TakeOnMemo, PassMemoReturn,
       FailMemoReturn, AcceptMemoReturn, poVars
  <2>2. /\ stage[l] \in Inward /\ \A m \in Line : m # l => stage'[m] = stage[m] /\ memo'[m] = memo[m]
        /\ (stage'[l] \in Inward /\ memo'[l] = "none") => memo[l] = "none"
    BY <1>1 DEF Receive, HandoverQc, QcReceive, PassInbound, TakeOnMemo, PassMemoReturn,
       FailMemoReturn, AcceptMemoReturn, Inward, Current, Stage, TypeOK
  <2>3. \A m \in Line : stage[m] \in Spent => stage'[m] \in Spent
    BY <2>2 DEF Spent, Inward, Current
  <2> QED  BY <2>1, <2>2, <2>3, OrdersUntouched
<1>2. CASE Reject(l) \/ FailInbound(l) \/ MarkReturned(l)
  <2>1. /\ stage[l] \in Spent \/ stage[l] \in Current
        /\ stage'[l] \in Spent /\ UNCHANGED <<po, memo>> /\ qty'[l] \in {0, qty[l]}
        /\ \A m \in Line : m # l => stage'[m] = stage[m] /\ qty'[m] = qty[m]
    BY <1>2 DEF Reject, FailInbound, MarkReturned, Spent, Current, Stage, TypeOK
  <2>2. po[l] \in Po /\ poState[po[l]] # "unused"
    BY <2>1, OrderOfLine DEF Spent, Current
  <2>3. PICK r \in {receipt, Withdraw({l})} : VoidOrCancel(po[l], stage', qty', r)
    BY <1>2 DEF Reject, FailInbound, MarkReturned
  <2>4. /\ r \in [Line -> {"none", "pending", "done", "cancelled"}]
        /\ \A m \in Line : m # l => r[m] = receipt[m]
    BY <2>3 DEF Withdraw, TypeOK
  <2>5. stage[l] \in Spent \/ qty[l] = 1
    BY <2>1 DEF RecordsOK
  <2> QED  BY <2>1, <2>2, <2>3, <2>4, <2>5, VoidOrCancelCustody
<1>3. CASE AcceptInbound(l)
  <2>1. /\ stage[l] \in Current \ Spent /\ stage' = [stage EXCEPT ![l] = "in_inventory"]
        /\ receipt' = [receipt EXCEPT ![l] = "done"] /\ UNCHANGED <<po, qty, memo, poState, voided>>
    BY <1>3 DEF AcceptInbound, poVars, Current, Stage, Spent
  <2>2. DeadPoHasNothingLive'
    <3>1. qty[l] # 0 /\ stage[l] \notin Spent
      BY <2>1 DEF RecordsOK
    <3> QED  BY <2>1, <3>1 DEF DeadPoHasNothingLive, TypeOK
  <2>3. WayOnOK'
    BY <2>1 DEF WayOnOK, TypeOK
  <2> QED  BY <2>1, <2>2, <2>3 DEF UnusedOK
<1> QED  BY <1>1, <1>2, <1>3 DEF LineStep

\* Confirming an order opens a receipt for each of its stones.
LEMMA ConfirmCustody ==
    ASSUME CustodyInv, NEW p \in Po, ButtonConfirm(p)
    PROVE  DeadPoHasNothingLive' /\ WayOnOK' /\ UnusedOK'
<1> USE DEF CustodyInv, IInv
<1>1. /\ poState[p] = "draft" /\ poState' = [poState EXCEPT ![p] = "purchase"]
      /\ receipt' = [l \in Line |-> IF po[l] = p /\ qty[l] = 1 THEN "pending" ELSE receipt[l]]
      /\ UNCHANGED <<stage, qty, po, memo, voided>>
  BY DEF ButtonConfirm, Receipts
<1>2. DeadPoHasNothingLive' /\ UnusedOK'
  BY <1>1 DEF DeadPoHasNothingLive, UnusedOK, TypeOK
<1>3. WayOnOK'
  BY <1>1 DEF WayOnOK, RecordsOK, TypeOK
<1> QED  BY <1>2, <1>3

\* Splitting moves the ready stones to an order of their own, with receipts.
LEMMA SplitCustody ==
    ASSUME CustodyInv, NEW p \in Po, NEW np \in Po, NEW copy \in [Ready(p) -> Line],
           ConfirmSplit(p, np, copy)
    PROVE  DeadPoHasNothingLive' /\ WayOnOK' /\ UnusedOK'
<1> USE DEF CustodyInv, IInv
<1> DEFINE ready  == Ready(p)
           copies == {copy[l] : l \in ready}
<1>1. /\ stage' = [l \in Line |-> IF l \in copies THEN "qc_passed"
                                  ELSE IF l \in ready THEN "split" ELSE stage[l]]
      /\ qty'   = [l \in Line |-> IF l \in copies THEN 1
                                  ELSE IF l \in ready THEN 0 ELSE qty[l]]
      /\ po'    = [l \in Line |-> IF l \in copies THEN np ELSE po[l]]
      /\ poState[np] = "unused" /\ poState' = [poState EXCEPT ![np] = "purchase"]
      /\ UNCHANGED <<memo, voided>>
      /\ receipt' = [l \in Line |-> IF po'[l] = np /\ qty'[l] = 1 THEN "pending"
                                    ELSE IF l \in ready /\ receipt[l] = "pending" THEN "cancelled"
                                    ELSE receipt[l]]
  BY DEF ConfirmSplit, SplitQty, Receipts, Withdraw, saleVars
<1> HIDE DEF ready, copies
<1>2. \A l \in Line : po[l] # np
  BY <1>1 DEF RecordsOK, TypeOK
<1>3. DeadPoHasNothingLive'
  <2> SUFFICES ASSUME NEW l \in Line, po'[l] \in Po, poState'[po'[l]] = "cancel" \/ voided[po'[l]]
               PROVE  qty'[l] = 0 \/ stage'[l] \in Spent
    BY <1>1 DEF DeadPoHasNothingLive
  <2>1. l \notin copies
    BY <1>1 DEF UnusedOK, TypeOK
  <2>2. CASE l \in ready
    BY <1>1, <2>1, <2>2
  <2>3. CASE l \notin ready
    <3>1. po'[l] = po[l] /\ qty'[l] = qty[l] /\ stage'[l] = stage[l]
      BY <1>1, <2>1, <2>3
    <3>2. poState[po[l]] = "cancel" \/ voided[po[l]]
      BY <1>1, <1>2, <3>1 DEF TypeOK
    <3> QED  BY <3>1, <3>2 DEF DeadPoHasNothingLive
  <2> QED  BY <2>2, <2>3
<1>4. WayOnOK'
  <2> SUFFICES ASSUME NEW l \in Line, stage'[l] \in Inward, memo[l] = "none"
               PROVE  \/ poState'[po'[l]] = "draft"
                      \/ poState'[po'[l]] = "purchase" /\ receipt'[l] = "pending"
    BY <1>1 DEF WayOnOK, Inward
  <2>1. CASE l \in copies
    BY <1>1, <2>1 DEF TypeOK
  <2>2. CASE l \notin copies
    <3>1. l \notin ready /\ stage'[l] = stage[l] /\ po'[l] = po[l]
      BY <1>1, <2>2 DEF Inward, Current
    <3>2. receipt'[l] = receipt[l] /\ po[l] \in Po
      BY <1>1, <1>2, <3>1 DEF RecordsOK, TypeOK, Inward, Current
    <3> QED  BY <1>1, <1>2, <3>1, <3>2 DEF WayOnOK, Inward, TypeOK
  <2> QED  BY <2>1, <2>2
<1>5. UnusedOK'
  BY <1>1 DEF UnusedOK, TypeOK
<1> QED  BY <1>3, <1>4, <1>5

\* Memos to customers leave the orders alone.
LEMMA MemoCustody ==
    ASSUME CustodyInv, NEW s \in Stone, MemoStep(s)
    PROVE  DeadPoHasNothingLive' /\ WayOnOK' /\ UnusedOK'
<1> USE DEF CustodyInv, IInv
<1>1. CASE MemoPack(s) \/ MemoUnpack(s) \/ MemoOut(s) \/ MemoKept(s)
  BY <1>1, OrdersUntouched DEF MemoPack, MemoUnpack, MemoOut, MemoKept, lineVars, poVars
<1>2. CASE MemoReturned(s)
  <2>1. UNCHANGED <<po, qty, receipt, poState, voided>>
    BY <1>2 DEF MemoReturned, poVars
  <2>2. \A l \in Line : \/ stage'[l] = stage[l] /\ memo'[l] = memo[l]
                        \/ stage[l] \notin Spent /\ memo'[l] # "none"
    BY <1>2 DEF MemoReturned, CurrentLines, ReturnTo, Spent, TypeOK
  <2> QED  BY <2>1, <2>2, OrdersUntouched
<1> QED  BY <1>1, <1>2 DEF MemoStep

\* CustodyInv is inductive.
LEMMA StepCustody == ASSUME CustodyInv, SaleWords = {}, [Next]_vars PROVE CustodyInv'
<1>1. IInv'
  BY StepIInv DEF CustodyInv
<1>2. ASSUME NEW p \in Po, PoStep(p) PROVE DeadPoHasNothingLive' /\ WayOnOK' /\ UnusedOK'
  BY <1>2, ConfirmCustody, SplitCustody DEF PoStep, ConfirmReadyStones, ConfirmWhole
<1>3. CASE UNCHANGED vars
  BY <1>1, <1>3 DEF vars, lineVars, poVars, CustodyInv, DeadPoHasNothingLive, WayOnOK, UnusedOK
<1>4. \A s \in Stone : ~SaleStep(s)
  BY DEF SaleStep, StatusToQc
<1> QED  BY <1>1, <1>2, <1>3, <1>4, LineCustody, MemoCustody DEF Next, CustodyInv

\* While only the operations flow writes the statuses, no stone waits on an
\* order that is cancelled or flagged "do not pay", and a stone that passed QC
\* can be committed, held on memo or accepted.
THEOREM NoneStranded == ASSUME SaleWords = {} PROVE Spec => []NothingStranded
<1>1. Init => CustodyInv
  <2> SUFFICES ASSUME Init PROVE DeadPoHasNothingLive /\ WayOnOK /\ UnusedOK
    BY InitIInv DEF CustodyInv
  <2>1. DeadPoHasNothingLive /\ UnusedOK
    BY DEF Init, DeadPoHasNothingLive, UnusedOK
  <2>2. WayOnOK
    <3> SUFFICES ASSUME NEW l \in Line, stage[l] # "none" PROVE poState[po[l]] = "draft"
      BY DEF WayOnOK, Current
    <3>1. PICK s \in Procured : l = FirstLine[s]
      BY DEF Init
    <3>2. StoneOf[l] = s /\ po[l] = FirstRfq[s] /\ FirstRfq[s] \in Po
      BY <3>1 DEF Init
    <3> QED  BY <3>2 DEF Init
  <2> QED  BY <2>1, <2>2
<1>2. CustodyInv => NothingStranded
  BY DEF CustodyInv, NothingStranded, WayOnOK, NoStrandedStone, Current, Stage
<1> QED  BY <1>1, <1>2, StepCustody, PTL DEF Spec

=============================================================================
