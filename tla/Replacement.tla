----------------------------- MODULE Replacement -----------------------------
(***************************************************************************)
(* Replacing a stone of a sale order that is not available or failed QC.    *)
(* Procurement does it with the Replace Stone wizard, the customer on the   *)
(* website (/api/lgd/order/stone/replace). A new line is added, an RFQ is   *)
(* raised for it and the original is closed as Replaced. If the price or    *)
(* the lab differs too much, Sales confirms or rejects it later; a          *)
(* rejection cancels the new line and puts the original back.               *)
(*                                                                          *)
(* The module extends SaleOrders: everything that happens to an order goes  *)
(* on between the steps of a replacement.                                   *)
(***************************************************************************)
EXTENDS SaleOrders

VARIABLES
  replaces,     \* [Line -> Line or NoLine]: replaces_line_id
  preStatus,    \* [Line -> status]: lgd_pre_replacement_status
  replacing,    \* lines for which the Replace Stone wizard is open
  rejecting,    \* lines for which the reject wizard is open
  rejected      \* replacements that Sales refused, as the order's messages say

replacementVars == <<replaces, preStatus, replacing, rejecting, rejected>>
vars == <<so, cancelling, wizard, edits, replacementVars>>

\* _replacement_price_outcome: does Sales have to confirm? The price decides.
NeedsSales == BOOLEAN

Replaceable == {"not_available", "qc_fail"}

Init ==
  /\ OrderInit
  /\ replaces = [l \in Line |-> NoLine]
  /\ preStatus = [l \in Line |-> "none"]
  /\ replacing = {}
  /\ rejecting = {}
  /\ rejected = {}

\* _create_replacement and _replacement_complete: the new line, its own RFQ,
\* the link, the original's status. sales: Sales has to confirm.
Replaced(r, o, n, sales) ==
  LET new == [r EXCEPT
                !.status[n] = "diamond_booked",
                !.po[n] = "draft",
                !.buys[n] = n,
                !.pending = IF sales THEN @ \union {n} ELSE @,
                !.replacedBy[o] = n]
      closed == WriteLines(new, {o}, "replaced", TRUE)
  IN [closed EXCEPT !.asked = @ \/ sales]

Links(o, n) ==
  /\ replaces' = [replaces EXCEPT ![n] = o]
  /\ preStatus' = [preStatus EXCEPT ![o] = so.status[o]]

\* action_open_replace_stone.
OpenReplaceStone(o) ==
  /\ so.status[o] \in Replaceable
  /\ replacing = {}
  /\ replacing' = replacing \union {o}
  /\ UNCHANGED <<orderVars, replaces, preStatus, rejecting, rejected>>

\* action_submit: the stone, the vendor and the price are looked at, the
\* status of the original is not: it may have been replaced on the website,
\* cancelled or found again since the wizard was opened.
Submit(o, n, sales) ==
  /\ o \in replacing
  /\ Fresh(so, n) /\ n # o
  /\ so' = Replaced(so, o, n, sales)
  /\ Links(o, n)
  /\ replacing' = replacing \ {o}
  /\ UNCHANGED <<cancelling, wizard, edits, rejecting, rejected>>

\* StoneReplacementAPI._process: the website names the new line itself. A call
\* repeated with the same request id finds that line and changes nothing.
SiteReplaces(o, n, sales) ==
  /\ so.status[o] \in Replaceable
  /\ Fresh(so, n) /\ n # o
  /\ so' = Replaced(so, o, n, sales)
  /\ Links(o, n)
  /\ UNCHANGED <<cancelling, wizard, edits, replacing, rejecting, rejected>>

\* action_replacement_confirm.
ConfirmReplacement(n) ==
  /\ n \in so.pending
  /\ so' = [so EXCEPT !.pending = @ \ {n}, !.asked = FALSE]
  /\ UNCHANGED <<cancelling, wizard, edits, replacementVars>>

\* action_replacement_reject opens the wizard that asks for the reason.
OpenReject(n) ==
  /\ n \in so.pending
  /\ n \notin rejecting
  /\ rejecting' = rejecting \union {n}
  /\ UNCHANGED <<orderVars, replaces, preStatus, replacing, rejected>>

\* _replacement_do_reject: not asked again whether it is still pending.
Reject(n) ==
  LET o == replaces[n]
      back == IF preStatus[o] = "none" THEN "not_available" ELSE preStatus[o]
      cut == WriteLines([so EXCEPT !.pending = @ \ {n}], {n}, "cancelled",
                        TRUE)
      undone == WriteLines([cut EXCEPT !.replacedBy[o] = NoLine], {o}, back,
                           TRUE)
  IN /\ n \in rejecting
     /\ so' = [undone EXCEPT !.asked = FALSE]
     /\ preStatus' = [preStatus EXCEPT ![o] = "none"]
     /\ rejecting' = rejecting \ {n}
     /\ rejected' = rejected \union {n}
     /\ UNCHANGED <<cancelling, wizard, edits, replaces, replacing>>

\* A wizard is closed without an answer.
CloseWizards ==
  /\ replacing # {} \/ rejecting # {}
  /\ replacing' = {}
  /\ rejecting' = {}
  /\ UNCHANGED <<orderVars, replaces, preStatus, rejected>>

ReplacementNext ==
  \/ \E o \in Line : OpenReplaceStone(o)
  \/ \E o \in Line, n \in Spares, sales \in NeedsSales : Submit(o, n, sales)
  \/ \E o \in Line, n \in Spares, sales \in NeedsSales : SiteReplaces(o, n, sales)
  \/ \E n \in Spares : ConfirmReplacement(n)
  \/ \E n \in Spares : OpenReject(n)
  \/ \E n \in Spares : Reject(n)
  \/ CloseWizards

Next ==
  \/ OrderNext /\ UNCHANGED replacementVars
  \/ ReplacementNext

Spec == Init /\ [][Next]_vars

-----------------------------------------------------------------------------
TypeOK ==
  /\ OrderTypeOK
  /\ replaces \in [Line -> Line \union {NoLine}]
  /\ preStatus \in [Line -> Statuses \union {"none"}]
  /\ replacing \in SUBSET Line
  /\ rejecting \in SUBSET Line
  /\ rejected \in SUBSET Line

\* An open RFQ never buys a stone that was cancelled or is not available: the
\* line leaves the RFQ in whatever way it dies (_cancel_or_reduce_related_rfq).
DraftRfqBuysWanted ==
  \A l \in Line :
    so.buys[l] # NoPo /\ so.po[so.buys[l]] = "draft" =>
      so.status[l] \notin {"cancelled", "not_available"}

\* An RFQ is cancelled only when no stone on it is wanted any more: its other
\* stones are live whoever cancels one of them ("cancelling one of them used
\* to cancel the RFQ").
LiveSiblingKeepsRfq ==
  [][\A p \in PO :
       so.po[p] = "draft" /\ so'.po[p] = "cancel" =>
         \A l \in On(so, p) : so'.status[l] \in Dead]_vars

\* Sales is asked only about a replacement that can still be accepted
\* (_LGD_REPLACEMENT_DEAD_STATUSES), and is reminded of it while it is the
\* only one that ever was.
PendingIsOpen ==
  /\ \A n \in so.pending : so.status[n] \notin Unprintable
  /\ so.pending # {} /\ Cardinality(Present(so) \cap Spares) = 1 => so.asked

\* The lines that replace o, but for those Sales refused.
Successors(o) == {n \in Line : replaces[n] = o /\ n \notin rejected}

\* A stone closed as Replaced has a replacement that Sales did not refuse: it
\* is not lost ("closed as Replaced with replaced_by_line_id empty"), although
\* a wizard submitted late replaces it twice over and each replacement is
\* refused or kept on its own.
ReplacedHasSuccessor ==
  \A o \in Line : so.status[o] = "replaced" => Successors(o) # {}

\* Refuted: and it says which ("closed as Replaced with replaced_by_line_id
\* empty" is "lost data", _create_replacement). Two replacements of one stone,
\* one of them refused: the stone goes back to Replaced, by nothing.
ReplacedSaysBy ==
  \A o \in Line : so.status[o] = "replaced" => so.replacedBy[o] # NoLine

\* The order's status is the one its lines give, except when a payment
\* confirmed in Logistics named it itself (_safe_write_augmont_status).
StatusFollowsLines ==
  so.sdk # OrderStatus(so) => so.packed /\ so.sdk = "Payment Completed"

\* An approved cancellation leaves no stone to sell and no RFQ open in the
\* step that approves it.
ApprovedIsCancelled ==
  [][so.request = "pending" /\ so'.request = "approved" =>
       /\ \A l \in Present(so) : so'.status[l] = "cancelled"
       /\ \A l \in Present(so) :
            so'.buys[l] # NoPo => so'.po[so'.buys[l]] # "draft"]_vars

\* No replacement is forgotten: it is asked about while it can be accepted, and
\* what was replaced has it.
ReplacementsKept == PendingIsOpen /\ ReplacedHasSuccessor

\* What is cancelled takes what it must with it, and nothing else.
CancelsExactly ==
  []DraftRfqBuysWanted /\ LiveSiblingKeepsRfq /\ ApprovedIsCancelled

\* Refuted: a payment confirmed in Logistics moves the lines that wait for it
\* and no other ("DO NOT update qc_fail, cancelled, not_available, confirmed,
\* or in_qc_process").
PackMovesOnlyDue ==
  [][~so.packed /\ so'.packed =>
       \A l \in Line : so'.status[l] # so.status[l] =>
         so.status[l] = "payment_pending"]_vars

-----------------------------------------------------------------------------
(***************************************************************************)
(* What the proofs need: stronger than the properties, and inductive.       *)
(***************************************************************************)

\* A line on an RFQ exists; a replacement's own RFQ has no other line; before
\* the order is confirmed there is no other RFQ.
RfqShape(r) ==
  /\ \A l \in Line : r.buys[l] # NoPo => r.status[l] # "none"
  /\ \A l \in Line : r.buys[l] \in Spares => r.buys[l] = l
  /\ r.state = "draft" => \A l \in Line : r.buys[l] \in Spares \union {NoPo}

Gone == {"cancelled", "not_available"}

\* DraftRfqBuysWanted of any order, but for the lines D.
Wanted(r, D) ==
  \A l \in Line \ D :
    r.buys[l] # NoPo /\ r.po[r.buys[l]] = "draft" => r.status[l] \notin Gone

RfqInv == RfqShape(so) /\ Wanted(so, {})

\* Only lines that exist replace one another, and only they wait for Sales.
LinkInv ==
  /\ so.pending \union rejecting \subseteq Present(so) \intersect Spares
  /\ replacing \subseteq Present(so)
  /\ \A n \in so.pending \union rejecting : replaces[n] \in Present(so)
  /\ \A o \in Line : so.replacedBy[o] # NoLine =>
       so.replacedBy[o] \in Present(so)

\* A replacement is bought on its own RFQ, or is no longer needed.
Own(r, n) ==
  \/ r.buys[n] = n /\ r.po[n] # "cancel"
  \/ r.buys[n] \in {n, NoPo} /\ n \in r.zeroed
SwapInv == \A n \in so.pending \union rejecting : Own(so, n) /\ replaces[n] # n

\* What replaces a line exists, and so does the line, for which Sales is not
\* asked; what Sales refused exists.
HistoryInv ==
  /\ \A n \in Line : replaces[n] # NoLine =>
       n \in Present(so) /\ replaces[n] \in Present(so) \ so.pending
  /\ rejected \subseteq Present(so)

\* A line that would go back to Replaced was replaced twice.
TwiceInv ==
  \A o \in Line : preStatus[o] = "replaced" =>
    \E m, n \in Successors(o) : m # n

\* Sales is reminded while there is one replacement.
AskedInv ==
  so.pending # {} /\ (\A m, n \in Present(so) \intersect Spares : m = n) =>
    so.asked

=============================================================================
