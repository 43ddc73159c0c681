----------------------------- MODULE DocSeries -----------------------------
(***************************************************************************)
(* The numbers of the documents (contact_stage_bar/models/lgd_doc_series):  *)
(* a series per document type and channel names a prefix and a financial    *)
(* year, a counter is kept per prefix and year, and a document draws its    *)
(* number in the transaction that writes it.  Counters are found by their   *)
(* prefix, and nothing but that search keeps them from being created twice. *)
(***************************************************************************)
EXTENDS Integers, FiniteSets, FiniteSetsExt, SequencesExt

CONSTANTS
  Series,       \* numbering series
  Kind,         \* document type of each series
  PrefixText,     \* prefixes that occur
  Doc,          \* records to be numbered, ordered by document type, then by id
  Column,       \* the series of each record: its type and its order's channel
  Renumbered,   \* types whose duplicates the repair rewrites (not invoices)
  StartNo,      \* start_no of every series
  LastNo,       \* the last number that fits 16 characters
  LastYear,     \* bound of the calendar
  MaxResets,    \* bound: counters set back by hand or by an older backup
  Unnumbered    \* not a number

VARIABLES
  setting,      \* per series: prefix and fy_code
  counters,     \* rows of ir.sequence that belong to a series
  issued,       \* per document: its number
  drawing,      \* per document: snapshot of the transaction that draws
  thisYear,     \* the current financial year
  resets

doc_vars == <<setting, counters, issued, drawing, thisYear, resets>>

ASSUME DocSeriesAssumption ==
  /\ Doc \subseteq Nat \ {0} /\ IsFiniteSet(Doc)
  /\ Column \in [Doc -> Series] /\ StartNo \in Nat \ {0} /\ LastNo \in Nat
  /\ MaxResets \in Nat /\ LastYear \in Nat
  /\ Unnumbered \notin [head : [prefix : PrefixText, fy : 0..LastYear], n : Nat]

Years == 0..LastYear
Setting == [prefix : PrefixText, fy : Years]
Number(c) == [head |-> c.head, n |-> c.next]
Row == [id : Int, head : Setting, next : Nat]

DocTypeOK ==
  /\ setting \in [Series -> Setting] /\ counters \subseteq Row
  /\ issued \in [Doc -> [head : Setting, n : Nat] \union {Unnumbered}]
  /\ \A d \in Doc : \/ drawing[d] = Unnumbered
                    \/ drawing[d].head \in Setting /\ drawing[d].rows \subseteq Row
  /\ thisYear \in Years /\ resets \in 0..MaxResets

\* _lgd_sequence among the rows a transaction sees: by prefix, the furthest
\* when there are several, and the oldest of equals.
Held(rows, head) == {c \in rows : c.head = head}
Furthest(cs) == {c \in cs : \A e \in cs : e.next <= c.next}
Oldest(cs) == CHOOSE c \in cs : \A e \in cs : c.id <= e.id
FoundCounter(rows, head) == Oldest(Furthest(Held(rows, head)))
NewCounter(id, head) == [id |-> id, head |-> head, next |-> StartNo]
\* Ids are taken before the commit: a new row may be the oldest or the youngest.
Youngest(rows) == 1 + Max({0} \union {c.id : c \in rows})
NewIds(rows) == {Youngest(rows), Min({0} \union {c.id : c \in rows}) - 1}

\* next_by_id on row c of the table: what is left in the table.
Advance(rows, c) == (rows \ {c}) \union {[c EXCEPT !.next = @ + 1]}

\* Mutant: the number is taken from the counter the transaction read.
LockedStale(rows, c) == \E e \in rows : e.id = c.id
\* The row lock of a no_gap sequence: a counter another transaction moved on
\* since the snapshot makes this one fail, and it is run again.
Locked(rows, c) == c \in rows

\* The counters document d may draw from: the one found, which must still be
\* as it was read, or a new one.
CountersOf(d) ==
  LET h == drawing[d].head
  IN  IF Held(drawing[d].rows, h) = {} THEN {NewCounter(id, h) : id \in NewIds(counters)}
      ELSE {c \in {FoundCounter(drawing[d].rows, h)} : Locked(counters, c)}

\* _lgd_next_number and the commit of the document.  A number over the limit
\* is refused, and the transaction takes nothing.
UseUp(d, c) ==
  /\ c.next <= LastNo /\ counters' = Advance(counters, c)
  /\ issued' = [issued EXCEPT ![d] = Number(c)]

BeginDrawing(d) ==
  /\ issued[d] = Unnumbered /\ drawing[d] = Unnumbered
  /\ drawing' = [drawing EXCEPT ![d] = [head |-> setting[Column[d]], rows |-> counters]]
  /\ UNCHANGED <<setting, counters, issued, thisYear, resets>>

Draw(d) ==
  /\ drawing[d] # Unnumbered /\ \E c \in CountersOf(d) : UseUp(d, c)
  /\ drawing' = [drawing EXCEPT ![d] = Unnumbered]
  /\ UNCHANGED <<setting, thisYear, resets>>

\* The transaction fails: a lock, a later error of the document, a refusal.
GiveUp(d) ==
  /\ drawing[d] # Unnumbered /\ drawing' = [drawing EXCEPT ![d] = Unnumbered]
  /\ UNCHANGED <<setting, counters, issued, thisYear, resets>>

\* action_lgd_roll_financial_year for all series.
RollYear ==
  /\ \E s \in Series : setting[s].fy # thisYear
  /\ setting' = [s \in Series |-> [setting[s] EXCEPT !.fy = thisYear]]
  /\ UNCHANGED <<counters, issued, drawing, thisYear, resets>>

\* The form of a series: the prefix, and the year, which may be any.
EditSeries(s) ==
  /\ \E v \in Setting : setting' = [setting EXCEPT ![s] = v]
  /\ UNCHANGED <<counters, issued, drawing, thisYear, resets>>

NewYear ==
  /\ thisYear < LastYear /\ thisYear' = thisYear + 1
  /\ UNCHANGED <<setting, counters, issued, drawing, resets>>

\* A counter reset, or restored from an older backup.
ResetCounter(c) ==
  /\ resets < MaxResets /\ c.next > StartNo
  /\ counters' = (counters \ {c}) \union {[c EXCEPT !.next = StartNo]}
  /\ resets' = resets + 1 /\ UNCHANGED <<setting, issued, drawing, thisYear>>

(***************************************************************************)
(* _lgd_repair_numbering                                                    *)
(***************************************************************************)
\* First pass: one row per prefix, the oldest, at the furthest of the group.
MergedRows == {[Oldest(Held(counters, c.head)) EXCEPT
               !.next = Max({e.next : e \in Held(counters, c.head)})] : c \in counters}

SameKind(d, e) == Kind[Column[d]] = Kind[Column[e]]

\* Second pass, for one record: a number an earlier record of its type has is
\* replaced by a fresh one of its own series.
Reissue(st, d) ==
  LET h == setting[Column[d]]
      c == IF Held(st.rows, h) = {} THEN NewCounter(Youngest(st.rows), h) ELSE FoundCounter(st.rows, h)
  IN  IF /\ Kind[Column[d]] \in Renumbered /\ st.number[d] # Unnumbered
         /\ \E e \in Doc : e < d /\ SameKind(d, e) /\ st.number[e] = st.number[d]
      THEN [rows |-> Advance(st.rows, c), number |-> [st.number EXCEPT ![d] = Number(c)]]
      ELSE st

\* Third pass: no counter at or before a number it has issued.
PushedPast(rows, number) ==
  {[c EXCEPT !.next =
      Max({@} \union {number[d].n + 1 : d \in {e \in Doc : /\ Kind[Column[e]] \in Renumbered
                                                           /\ number[e] # Unnumbered
                                                           /\ number[e].head = c.head}})]
     : c \in rows}

\* The records one after the other.
LastDoc == Max({0} \union Doc)
Reissued ==
  LET after[k \in 0..LastDoc] ==
        IF k = 0 THEN [rows |-> MergedRows, number |-> issued]
        ELSE IF k \in Doc THEN Reissue(after[k - 1], k) ELSE after[k - 1]
  IN  after[LastDoc]

RepairedState ==
  LET st == Reissued
  IN  [rows |-> PushedPast(st.rows, st.number), number |-> st.number]

\* At an upgrade, with no request running.  A fresh number over the limit
\* fails the upgrade.
Repair ==
  /\ \A d \in Doc : drawing[d] = Unnumbered
  /\ \A d \in Doc : RepairedState.number[d] # issued[d] => RepairedState.number[d].n <= LastNo
  /\ counters' = RepairedState.rows /\ issued' = RepairedState.number
  /\ UNCHANGED <<setting, drawing, thisYear, resets>>

DocsInit ==
  /\ setting \in {f \in [Series -> Setting] : \A s \in Series : f[s].fy = 0}
  /\ counters = {} /\ issued = [d \in Doc |-> Unnumbered]
  /\ drawing = [d \in Doc |-> Unnumbered] /\ thisYear = 0 /\ resets = 0

DocsNext ==
  \/ \E d \in Doc : BeginDrawing(d) \/ Draw(d) \/ GiveUp(d)
  \/ \E s \in Series : EditSeries(s)
  \/ \E c \in counters : ResetCounter(c)
  \/ RollYear \/ NewYear \/ Repair

DocsSpec == DocsInit /\ [][DocsNext]_doc_vars

-----------------------------------------------------------------------------
HaveIt(h) == {issued[d].n : d \in {e \in Doc : issued[e] # Unnumbered /\ issued[e].head = h}}

\* Two documents of one type have the same number only while two counters of
\* that prefix and year stand in the table: the race of two first documents is
\* the only way to a duplicate, and the repair ends it.
TwinsExplainDuplicates ==
  resets = 0 =>
    \A d, e \in Doc : /\ d # e /\ SameKind(d, e) /\ Kind[Column[d]] \in Renumbered
                      /\ issued[d] # Unnumbered /\ issued[d] = issued[e]
                      => Cardinality(Held(counters, issued[d].head)) > 1

\* Rule 46 allows no gap: whatever is rolled back, raced for, merged or
\* issued anew, the numbers of a prefix and year run from the first to the last.
NoGaps ==
  resets = 0 =>
    \A c \in counters : \A k \in HaveIt(c.head) : StartNo..k \subseteq HaveIt(c.head)

\* Comment of _lgd_repair_numbering: a duplicate "cannot be left standing",
\* and the repair is idempotent: repairing what is repaired changes nothing.
NothingLeftToRepair ==
  \A d, e \in Doc : d # e /\ SameKind(d, e) /\ Kind[Column[d]] \in Renumbered
                    /\ issued[d] # Unnumbered => issued[d] # issued[e]
RepairSettles ==
  [][counters # {} /\ resets = 0 /\ Repair => NothingLeftToRepair']_doc_vars

\* The numbers of a document type: consecutive, and unique but for the race
\* that the repair ends.
NumbersAreSound == [](TwinsExplainDuplicates /\ NoGaps) /\ RepairSettles
=============================================================================
