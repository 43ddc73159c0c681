--------------------------- MODULE ReplacementPush ---------------------------
(***************************************************************************)
(* Telling the website about a replacement raised in Odoo                   *)
(* (models/lgd_replacement_push.py).  Inside the transaction of the Replace *)
(* Stone wizard the new stone is posted; the website cancels the original   *)
(* line, adds one for the new stone and answers with its id, which the new  *)
(* line keeps.  An attempt that fails leaves a row for the retry cron.  The *)
(* status pushes of the order (StatusSync) go on around it, and saves of    *)
(* other users make the wizard's transaction fail and run again.            *)
(***************************************************************************)
EXTENDS Integers, FiniteSets, SiteStatuses

CONSTANTS
  StoneLine,  \* lines of one order
  Sold,       \* those it has from the start
  MaxFaults,  \* answers that are lost, not JSON or without an id
  MaxNews     \* changes of a line's status by users

ASSUME PushAssumption ==
  /\ StoneLine \subseteq Nat \ {0} /\ Sold \subseteq StoneLine /\ IsFiniteSet(Sold)
  /\ MaxFaults \in Nat /\ MaxNews \in Nat

VARIABLES
  lines,    \* committed: [word, num (website id, 0: none), last (pushed), of (replaces, 0: none)]
  retries,   \* retry rows: [line, state]
  replace,  \* the wizard's transaction
  online,   \* the website: [id -> word]
  budget    \* what is left of the bounds

push_vars == <<lines, retries, replace, online, budget>>

Closed == [phase |-> "none"]
NoWord == "none"
Has(v, l) == v[l].word # NoWord
Identified(v) == {l \in StoneLine : Has(v, l) /\ v[l].num # 0}
HeldCancelled(num) == num # 0 => online[num] = "Cancelled"
FreeNum == CHOOSE n \in 1..(Cardinality(DOMAIN online) + 1) : n \notin DOMAIN online

-----------------------------------------------------------------------------
(* The status push (_call_augmont_status_api): all lines whose status is    *)
(* not the last one pushed, in one call, taken or refused as a whole.       *)

Batch(v, seen) ==
  {e \in {[line |-> l, num |-> v[l].num, word |-> v[l].word] : l \in Identified(v)} :
     e.word # v[e.line].last /\ [num |-> e.num, word |-> e.word] \notin seen}

Takes(batch) == \A e \in batch : e.num \in DOMAIN online => e.word \in Allowed[online[e.num]]

SiteAfter(batch) ==
  [n \in DOMAIN online |-> LET for == {e \in batch : e.num = n}
                           IN  IF for = {} THEN online[n] ELSE (CHOOSE e \in for : TRUE).word]
MarkLast(v, batch) ==
  [l \in StoneLine |-> [v[l] EXCEPT !.last = IF \E e \in batch : e.line = l THEN v[l].word ELSE @]]

\* A save of lines and its push; the order's row is written too, so a wizard
\* that has read the order before fails when it writes.
SavedAs(v) ==
  LET batch == Batch(v, {})
  IN  /\ IF Takes(batch)
         THEN lines' = MarkLast(v, batch) /\ online' = SiteAfter(batch)
         ELSE lines' = v /\ UNCHANGED online
      /\ replace' = IF replace = Closed THEN Closed ELSE [replace EXCEPT !.stale = TRUE]
      /\ UNCHANGED retries

\* Another user, or the vendor's answer, moves a line.
Move(l, w) ==
  /\ Has(lines, l) /\ w \in Allowed[lines[l].word] \ {"Replaced"} /\ budget.news > 0
  /\ replace = Closed \/ replace.phase # "done"
  /\ SavedAs([lines EXCEPT ![l].word = w])
  /\ budget' = [budget EXCEPT !.news = @ - 1]

\* Sales rejects a replacement: the new line is cancelled, the original back.
RejectNew(n) ==
  /\ Has(lines, n) /\ lines[n].of # 0 /\ lines[n].word = "Diamond Booked"
  /\ lines[lines[n].of].word = "Replaced" /\ replace = Closed /\ budget.news > 0
  /\ SavedAs([lines EXCEPT ![n].word = "Cancelled", ![lines[n].of].word = "Not available"])
  /\ budget' = [budget EXCEPT !.news = @ - 1]

-----------------------------------------------------------------------------
(* The wizard's transaction.                                                *)

\* The post names a stone the website knows, or describes it: `whole`, unless
\* one of the fields the website requires is blank.  It is not checked before
\* the post is sent.
Answerable(whole) == whole

\* action_submit and _create_replacement up to the push.
SubmitNew(o, n) ==
  /\ replace = Closed /\ lines[o].word \in {"Not available", "QC Fail"} /\ ~Has(lines, n)
  /\ \E whole \in BOOLEAN :
       replace' =
                [phase |-> "made", old |-> o, new |-> n, stale |-> FALSE, seen |-> {}, rows |-> {},
                 swapped |-> FALSE, whole |-> whole,
                 view |-> [lines EXCEPT ![n] = [word |-> "Diamond Booked", num |-> 0,
                                                last |-> NoWord, of |-> o]]]
  /\ UNCHANGED <<lines, retries, online, budget>>

\* replace-product at the website: refused for a line it holds as cancelled, or
\* answered again with the line it made.
Swapped(num, new) ==
  [n \in DOMAIN online \union {new} |->
     IF n = num THEN "Cancelled" ELSE IF n = new THEN "Diamond Booked" ELSE online[n]]

\* _lgd_store_replacement_unique_id: an id came back, and no other line has it.
Stores(v, l, num) == num # 0 /\ \A k \in StoneLine \ {l} : v[k].num # num

\* Mutant: the status push is not told.
MarkReplacementNot(seen, v, o, n) == seen

\* _lgd_mark_replacement_pushed, for the rest of the transaction only.
MarkReplacementPushed(seen, v, o, n) ==
  seen \union {[num |-> v[o].num, word |-> "Replaced"],
               [num |-> v[n].num, word |-> "Diamond Booked"]}

\* The answer to a post for line l of a transaction's view: the ids an answer
\* may carry are the new line's, the original's (the flat spelling), or none.
AnswerIds(o, new) == {new, lines[o].num, 0}

PushTaken ==
  LET t == replace
      num == t.view[t.old].num
  IN  /\ t.phase = "made" /\ num # 0 /\ Answerable(t.whole)
      /\ \/ ~HeldCancelled(num) /\ online' = Swapped(num, FreeNum)
            /\ \E id \in AnswerIds(t.old, FreeNum) :
                 LET v == IF Stores(t.view, t.new, id) THEN [t.view EXCEPT ![t.new].num = id]
                          ELSE t.view
                 IN  /\ budget' = IF id = FreeNum THEN budget ELSE [budget EXCEPT !.faults = @ - 1]
                     /\ replace' = [t EXCEPT !.phase = "told", !.view = v, !.swapped = TRUE,
                                      !.seen = MarkReplacementPushed(@, v, t.old, t.new)]
         \/ HeldCancelled(num) /\ UNCHANGED <<online, budget>>
            /\ \E id \in DOMAIN online \ {num} :
                 LET v == IF Stores(t.view, t.new, id) THEN [t.view EXCEPT ![t.new].num = id]
                          ELSE t.view
                 IN  replace' = [t EXCEPT !.phase = "told", !.view = v, !.swapped = TRUE,
                                   !.seen = MarkReplacementPushed(@, v, t.old, t.new)]
      /\ budget'.faults >= 0
      /\ UNCHANGED <<lines, retries>>

\* No answer (the website may have done it), or one that is not JSON: queued to
\* be sent again.  Refused, the row is kept and never sent.
RetryRow(code) == {[line |-> replace.new, state |-> code, whole |-> replace.whole]}
PushFails ==
  LET t == replace
      num == t.view[t.old].num
  IN  /\ t.phase = "made"
      /\ \/ /\ budget.faults > 0 /\ budget' = [budget EXCEPT !.faults = @ - 1]
            /\ replace' = [t EXCEPT !.phase = "told", !.rows = RetryRow("pending")]
            /\ \/ UNCHANGED online
               \/ ~HeldCancelled(num) /\ Answerable(t.whole) /\ online' = Swapped(num, FreeNum)
         \/ /\ HeldCancelled(num) \/ ~Answerable(t.whole)
            /\ replace' = [t EXCEPT !.phase = "told", !.rows = RetryRow("failed")]
            /\ UNCHANGED <<online, budget>>
      /\ UNCHANGED <<lines, retries>>

\* base_augmont_url is not set: nothing is sent or queued.
PushNowhere ==
  /\ replace.phase = "made" /\ budget.faults > 0
  /\ budget' = [budget EXCEPT !.faults = @ - 1]
  /\ replace' = [replace EXCEPT !.phase = "told"]
  /\ UNCHANGED <<lines, retries, online>>

\* _replacement_complete closes the original, which pushes statuses; a row
\* that others have written runs the whole transaction again, on the cursor
\* that remembers what was pushed.
CompleteSwap ==
  LET t == replace
      v == [t.view EXCEPT ![t.old].word = "Replaced"]
      batch == Batch(v, t.seen)
  IN  /\ t.phase = "told"
      /\ IF t.stale
         THEN /\ replace' = [t EXCEPT !.phase = "made", !.stale = FALSE, !.rows = {}, !.swapped = FALSE,
                               !.view = [lines EXCEPT ![t.new] = [t.view[t.new] EXCEPT !.num = 0]]]
              /\ UNCHANGED online
         ELSE /\ replace' = [t EXCEPT !.phase = "done",
                               !.view = IF Takes(batch) THEN MarkLast(v, batch) ELSE v]
              /\ online' = IF Takes(batch) THEN SiteAfter(batch) ELSE online
      /\ UNCHANGED <<lines, retries, budget>>

CommitSwap ==
  /\ replace.phase = "done"
  /\ lines' = replace.view /\ retries' = retries \union replace.rows /\ replace' = Closed
  /\ UNCHANGED <<online, budget>>

\* The purchase order or the activity cannot be made: Odoo rolls back.
AbortSwap ==
  /\ replace.phase \in {"told", "done"} /\ budget.faults > 0
  /\ budget' = [budget EXCEPT !.faults = @ - 1]
  /\ replace' = Closed /\ UNCHANGED <<lines, retries, online>>

-----------------------------------------------------------------------------
\* The cron sends the post as it was built: taken, its id is adopted.
Resend(row) ==
  LET n == row.line
      o == lines[n].of
      num == lines[o].num
      answered(id) == lines' = IF Stores(lines, n, id) THEN [lines EXCEPT ![n].num = id] ELSE lines
  IN  /\ row \in retries /\ row.state = "pending" /\ replace = Closed
      /\ \/ ~HeldCancelled(num) /\ Answerable(row.whole) /\ online' = Swapped(num, FreeNum)
            /\ answered(FreeNum) /\ retries' = (retries \ {row}) \union {[row EXCEPT !.state = "success"]}
         \/ num # 0 /\ HeldCancelled(num) /\ Answerable(row.whole) /\ UNCHANGED online
            /\ (\E id \in DOMAIN online \ {num} : answered(id))
            /\ retries' = (retries \ {row}) \union {[row EXCEPT !.state = "success"]}
         \/ (HeldCancelled(num) \/ ~Answerable(row.whole)) /\ UNCHANGED <<online, lines>>
            /\ retries' = (retries \ {row}) \union {[row EXCEPT !.state = "failed"]}
      /\ UNCHANGED <<replace, budget>>

PushInit ==
  /\ lines = [l \in StoneLine |->
       IF l \in Sold THEN [word |-> "Diamond Booked", num |-> l, last |-> "Diamond Booked", of |-> 0]
       ELSE [word |-> NoWord, num |-> 0, last |-> NoWord, of |-> 0]]
  /\ retries = {} /\ replace = Closed /\ online = [n \in Sold |-> "Diamond Booked"]
  /\ budget = [faults |-> MaxFaults, news |-> MaxNews]

PushNext ==
  \/ \E l \in StoneLine : \E w \in DOMAIN Allowed : Move(l, w)
  \/ \E n \in StoneLine : RejectNew(n)
  \/ \E o, n \in StoneLine : SubmitNew(o, n)
  \/ PushTaken \/ PushFails \/ PushNowhere \/ CompleteSwap \/ CommitSwap \/ AbortSwap
  \/ \E row \in retries : Resend(row)

PushSpec == PushInit /\ [][PushNext]_push_vars

PushTypeOK ==
  /\ \A l \in StoneLine : lines[l].word \in DOMAIN Allowed \union {NoWord} /\ lines[l].num \in Nat
  /\ \A row \in retries : row.line \in StoneLine /\ row.state \in {"pending", "success", "failed"}
  /\ budget.faults \in 0..MaxFaults /\ budget.news \in 0..MaxNews

-----------------------------------------------------------------------------
\* However posts are lost, repeated, rolled back or answered with an id that
\* is not the new line's, no two lines of Odoo have the same website id: a
\* status of the website always reaches one stone.
OneLinePerId ==
  \A k, l \in StoneLine : lines[k].num # 0 /\ lines[k].num = lines[l].num => k = l

\* Once the website has taken a swap, the status push in the same transaction
\* says nothing of its two stones, which the website would refuse with the
\* rest of the batch (docstring of _lgd_mark_replacement_pushed).
SwapIsNotEchoed ==
  replace # Closed => (replace.phase = "told" /\ replace.swapped =>
    \A e \in Batch([replace.view EXCEPT ![replace.old].word = "Replaced"], replace.seen) :
      e.line \notin {replace.old, replace.new})

\* Refuted: nor does any later push of the order: what the website did itself is not
\* told to it again.
SwapIsNeverRefused ==
  replace = Closed =>
    \A n \in StoneLine : lines[n].of # 0 /\ lines[n].num # 0 /\ lines[lines[n].of].word = "Replaced" =>
      \A e \in Batch(lines, {}) : e.line = lines[n].of => e.word \in Allowed[online[e.num]]

\* A swap is told once and its lines stay apart.
SwapToldOnce == OneLinePerId /\ SwapIsNotEchoed
=============================================================================
