------------------------------- MODULE Assets -------------------------------
(***************************************************************************)
(* Assets and their depreciation (om_account_asset): a posted bill creates  *)
(* an asset, the asset a board of depreciation lines, and a line, by hand   *)
(* or by the cron, a journal entry.  Amounts are whole units of the         *)
(* currency's rounding; dates count periods.                                *)
(***************************************************************************)
EXTENDS Integers, FiniteSets, FiniteSetsExt, SequencesExt, Functions

CONSTANTS
  Bill,         \* bills with one line that has an asset category
  Category,     \* of each bill: method, prorata, opens, grouped, number or end
  BillPrice,    \* value of each bill's line
  Periods,      \* numbers of depreciations a user may enter
  EndDates,     \* ending dates a user may enter
  Salvages,     \* salvage values a user may enter
  Factor,       \* degressive factor, as <<numerator, denominator>>
  FirstShare,   \* part of the first period an asset existed in, likewise
  MaxCopies,    \* bound: assets made for each bill
  MaxEntries,   \* bound: journal entries
  EndOfBooks    \* bound of the calendar

VARIABLES
  bill,         \* state of each bill
  asset,        \* per bill: the assets created for it, in order
  entry,        \* journal entries of depreciation, in order
  period        \* today

asset_vars == <<bill, asset, entry, period>>

\* account.asset.category: what an asset takes from it.  The time method is a
\* number of entries or an ending date, and only the former can be prorated.
CategoryFields == [linear : BOOLEAN, prorata : BOOLEAN, opens : BOOLEAN,
                   grouped : BOOLEAN, number : Nat \ {0}, byEnd : BOOLEAN, ends : Nat]
ASSUME AssetsAssumption ==
  /\ IsFiniteSet(Bill) /\ Category \in [Bill -> CategoryFields]
  /\ \A b \in Bill : Category[b].byEnd => ~Category[b].prorata
  /\ BillPrice \in [Bill -> Nat] /\ Periods \subseteq Nat \ {0} /\ Salvages \subseteq Nat
  /\ EndDates \subseteq Nat
  /\ Factor \in Nat \X (Nat \ {0}) /\ FirstShare \in Nat \X (Nat \ {0})
  /\ MaxCopies \in [Bill -> Nat] /\ MaxEntries \in Nat /\ EndOfBooks \in Nat

Line == [seq : Nat, amount : Int, due : Nat, entry : 0..MaxEntries]
Asset == [state : {"draft", "open", "close"}, active : BOOLEAN, salvage : Nat,
          number : Nat \ {0}, ends : Nat, lines : Seq(Line)]
Entry == [state : {"draft", "posted", "cancel"}, amount : Int]

AssetsTypeOK ==
  /\ bill \in [Bill -> {"draft", "posted"}]
  /\ \A b \in Bill : Len(asset[b]) <= MaxCopies[b] /\ \A i \in DOMAIN asset[b] : asset[b][i] \in Asset
  /\ entry \in Seq(Entry) /\ Len(entry) <= MaxEntries
  /\ period \in 0..EndOfBooks

AssetIds == UNION {{b} \X (1..MaxCopies[b]) : b \in Bill}
Known == {id \in AssetIds : id[2] \in DOMAIN asset[id[1]]}
The(id) == asset[id[1]][id[2]]
\* Users work from the list, which leaves archived assets out.
Listed == {id \in Known : The(id).active}

\* The sum of the amounts of lines, those numbered in K.
SumOver(lines, K) ==
  LET upTo[n \in 0..Len(lines)] ==
        IF n = 0 THEN 0 ELSE upTo[n - 1] + (IF n \in K THEN lines[n].amount ELSE 0)
  IN  upTo[Len(lines)]
Total(lines) == SumOver(lines, DOMAIN lines)

\* move_check: the line has an entry, posted or not.
WithMove(lines) == {k \in DOMAIN lines : lines[k].entry # 0}
MadeFor(lines, e) == {k \in DOMAIN lines : lines[k].entry = e}
Linked(lines) ==
  LET upTo[n \in 0..Len(lines)] ==
        IF n = 0 THEN <<>>
        ELSE IF lines[n].entry # 0 THEN Append(upTo[n - 1], lines[n]) ELSE upTo[n - 1]
  IN  upTo[Len(lines)]

\* _amount_residual
Depreciable(b, a) == BillPrice[b] - a.salvage
Residual(b, a) == Depreciable(b, a) - SumOver(a.lines, WithMove(a.lines))

\* currency_id.round of num/den: to the nearest unit, halves away from zero.
RoundedAmount(num, den) ==
  IF num >= 0 THEN (2 * num + den) \div (2 * den) ELSE -((den - 2 * num) \div (2 * den))

(***************************************************************************)
(* compute_depreciation_board                                               *)
(***************************************************************************)
\* _compute_board_amount: the last line takes what is left; a linear line is
\* an equal part, or with prorata a part of the whole number; a degressive one
\* a fixed part of what is left; with prorata the first is cut to its share.
PartOf(cat, a, seq, left, toDepr, last, done) ==
  LET cut == IF cat.prorata /\ seq = 1 THEN FirstShare ELSE <<1, 1>>
      part == CASE cat.linear /\ cat.prorata -> <<toDepr, a.number>>
                [] cat.linear /\ ~cat.prorata -> <<toDepr, last - done>>
                [] OTHER -> <<left * Factor[1], Factor[2]>>
  IN  RoundedAmount(part[1] * cut[1], part[2] * cut[2])

\* Mutant: the last line is a part as the others are.
LastAsOthers(cat, a, seq, left, toDepr, last, done) ==
  PartOf(cat, a, seq, left, toDepr, last, done)
BoardAmount(cat, a, seq, left, toDepr, last, done) ==
  IF seq = last THEN left ELSE PartOf(cat, a, seq, left, toDepr, last, done)

\* The lines a new board keeps, and when the first of the others is due.
Kept(lines) == Linked(lines)
FirstDue(kept) == IF kept = <<>> THEN 0 ELSE kept[Len(kept)].due + 1

\* _compute_board_undone_dotation_nb: the number of the last line.  With prorata
\* there is one more, for the rest of the first period.  Up to an ending date the
\* periods are counted from the first line that is not kept, and yet the result
\* is the number of the last line, as if none were kept.
LastLine(b, a) ==
  LET first == FirstDue(Kept(a.lines))
  IN  IF Category[b].byEnd THEN IF a.ends < first THEN 0 ELSE a.ends - first + 1
      ELSE a.number + (IF Category[b].prorata THEN 1 ELSE 0)

\* The line of number seq, unless it rounds to zero: then the date does not
\* move on for it.
LineAdded(b, a, st, seq) ==
  LET done == Len(Kept(a.lines))
      m == BoardAmount(Category[b], a, seq, st.left, Residual(b, a), LastLine(b, a), done)
  IN  IF m = 0 THEN st
      ELSE [left |-> st.left - m, due |-> st.due + 1,
            lines |-> Append(st.lines, [seq |-> seq, amount |-> m, due |-> st.due, entry |-> 0])]

\* The kept lines, and behind them those for what is left.
Board(b, a) ==
  LET kept == Kept(a.lines)
      missing == Max({0, LastLine(b, a) - Len(kept)})
      after[n \in 0..missing] ==
        IF n = 0 THEN [left |-> Residual(b, a), due |-> FirstDue(kept), lines |-> kept]
        ELSE LineAdded(b, a, after[n - 1], Len(kept) + n)
  IN  IF Residual(b, a) = 0 THEN [a EXCEPT !.lines = kept]
      ELSE [a EXCEPT !.lines = after[missing].lines]

Set(id, a) == asset' = [asset EXCEPT ![id[1]][id[2]] = a]

(***************************************************************************)
(* Bills                                                                    *)
(***************************************************************************)
\* action_post and asset_create: an asset with the category's values, and the
\* category may confirm it at once.
PostBill(b) ==
  /\ bill[b] = "draft" /\ Len(asset[b]) < MaxCopies[b]
  /\ bill' = [bill EXCEPT ![b] = "posted"]
  /\ LET new == [state |-> IF Category[b].opens THEN "open" ELSE "draft", active |-> TRUE,
                 salvage |-> 0, number |-> Category[b].number,
                 ends |-> Category[b].ends, lines |-> <<>>]
     IN  asset' = [asset EXCEPT ![b] = Append(@, Board(b, new))]
  /\ UNCHANGED <<entry, period>>

\* Mutant: the assets of the bill stay.
ArchivedNot(b) == asset[b]
Archived(b) ==
  [i \in DOMAIN asset[b] |->
     IF asset[b][i].active THEN Board(b, [asset[b][i] EXCEPT !.active = FALSE]) ELSE asset[b][i]]

\* button_draft: refused when an asset of the bill runs; the others are put away.
ResetBill(b) ==
  /\ bill[b] = "posted"
  /\ \A i \in DOMAIN asset[b] : asset[b][i].active => asset[b][i].state = "draft"
  /\ bill' = [bill EXCEPT ![b] = "draft"]
  /\ asset' = [asset EXCEPT ![b] = Archived(b)]
  /\ UNCHANGED <<entry, period>>

(***************************************************************************)
(* The form of an asset                                                     *)
(***************************************************************************)
\* The duration of an asset as a user may enter it: the number of entries, or
\* the ending date, whichever the asset goes by.
AnotherDuration(id) ==
  IF Category[id[1]].byEnd THEN {[The(id) EXCEPT !.ends = e] : e \in EndDates}
                           ELSE {[The(id) EXCEPT !.number = n] : n \in Periods}

Validate(id) ==
  /\ The(id).state = "draft" /\ Set(id, [The(id) EXCEPT !.state = "open"])
  /\ UNCHANGED <<bill, entry, period>>

\* set_to_draft: offered while the asset has no entry.
SetToDraft(id) ==
  /\ The(id).state = "open" /\ WithMove(The(id).lines) = {}
  /\ Set(id, [The(id) EXCEPT !.state = "draft"])
  /\ UNCHANGED <<bill, entry, period>>

\* write: the board is computed again.  A draft may be given another duration and
\* salvage value, other assets an analytic account only.
EditDraft(id) ==
  /\ The(id).state = "draft"
  /\ \E a \in AnotherDuration(id), s \in Salvages :
       s <= BillPrice[id[1]] /\ Set(id, Board(id[1], [a EXCEPT !.salvage = s]))
  /\ UNCHANGED <<bill, entry, period>>

Save(id) == Set(id, Board(id[1], The(id))) /\ UNCHANGED <<bill, entry, period>>

\* asset.modify: more depreciations than entries, "to allow for complete
\* depreciation of the asset"; nothing is asked of an ending date.
LongEnough(a) == a.number > Len(Linked(a.lines))

Modify(id) ==
  /\ The(id).state = "open"
  /\ \E a \in AnotherDuration(id) : LongEnough(a) /\ Set(id, Board(id[1], a))
  /\ UNCHANGED <<bill, entry, period>>

\* set_to_close: the lines without entry give way to one for all that is left,
\* whose entry is made but not posted.
Dispose(id) ==
  LET a == The(id)
      kept == Linked(a.lines)
      line == [seq |-> Len(kept) + 1, amount |-> Residual(id[1], a), due |-> period,
               entry |-> Len(entry) + 1]
  IN  /\ a.state = "open" /\ MadeFor(a.lines, 0) # {} /\ Len(entry) < MaxEntries
      /\ Set(id, [a EXCEPT !.lines = Append(kept, line), !.number = Len(kept) + 1, !.ends = period])
      /\ entry' = Append(entry, [state |-> "draft", amount |-> line.amount])
      /\ UNCHANGED <<bill, period>>

(***************************************************************************)
(* Entries                                                                  *)
(***************************************************************************)
\* post_lines_and_close_asset
ClosedIfSpent(b, a) == IF Residual(b, a) = 0 THEN [a EXCEPT !.state = "close"] ELSE a

HasLineOf(a, es) == \E k \in DOMAIN a.lines : a.lines[k].entry \in es
\* The assets after entries es are posted.
Posted(f, es) ==
  [b \in Bill |-> [i \in DOMAIN f[b] |->
     IF HasLineOf(f[b][i], es) THEN ClosedIfSpent(b, f[b][i]) ELSE f[b][i]]]

WithNumber(l, e) == [l EXCEPT !.entry = e]
WithEntry(a, k, e) == [a EXCEPT !.lines[k] = WithNumber(@, e)]

\* create_move from the board: one line, posted at once if the category opens.
BookLine(id, k) ==
  LET a == The(id)
      e == Len(entry) + 1
      linked == [asset EXCEPT ![id[1]][id[2]] = WithEntry(a, k, e)]
      post == Category[id[1]].opens
  IN  /\ a.state = "open" /\ a.lines[k].entry = 0 /\ e <= MaxEntries
      /\ asset' = IF post THEN Posted(linked, {e}) ELSE linked
      /\ entry' = Append(entry, [state |-> IF post THEN "posted" ELSE "draft",
                                 amount |-> a.lines[k].amount])
      /\ UNCHANGED <<bill, period>>

\* _compute_entries: the lines the cron books today.
DueOf(id) == {k \in DOMAIN The(id).lines : The(id).lines[k].entry = 0 /\ The(id).lines[k].due <= period}
Due(grouped) ==
  UNION {{id} \X DueOf(id) :
           id \in {i \in Listed : The(i).state = "open" /\ Category[i[1]].grouped = grouped}}
AmountOf(l) == The(l[1]).lines[l[2]].amount

\* The lines that get the entry they have in number.
LinkedAll(number) ==
  [b \in Bill |-> [i \in DOMAIN asset[b] |->
    [asset[b][i] EXCEPT !.lines = [k \in DOMAIN @ |->
       IF <<<<b, i>>, k>> \in DOMAIN number
       THEN WithNumber(@[k], number[<<<<b, i>>, k>>]) ELSE @[k]]]]]

\* compute_generated_entries: an entry for each line of an asset of its own,
\* one for all lines of a category that groups.
Cron ==
  LET own == SetToSeq(Due(FALSE))
      together == Due(TRUE)
      shared == Len(entry) + Len(own) + 1
      number == [l \in Due(FALSE) \union together |->
                   IF l \in together THEN shared
                   ELSE Len(entry) + CHOOSE k \in DOMAIN own : own[k] = l]
      made == [k \in DOMAIN own |->
                 [state |-> IF Category[own[k][1][1]].opens THEN "posted" ELSE "draft",
                  amount |-> AmountOf(own[k])]]
      share(id) == IF id \in Known
                   THEN SumOver(The(id).lines, {k \in DOMAIN The(id).lines : <<id, k>> \in together})
                   ELSE 0
      both == IF together = {} THEN made
              ELSE Append(made, [state |-> "posted",
                                 amount |-> SumFunction([id \in AssetIds |-> share(id)])])
      posts == {Len(entry) + k : k \in {i \in DOMAIN both : both[i].state = "posted"}}
  IN  /\ Due(FALSE) \union Due(TRUE) # {} /\ Len(entry) + Len(both) <= MaxEntries
      /\ asset' = Posted(LinkedAll(number), posts) /\ entry' = entry \o both
      /\ UNCHANGED <<bill, period>>

\* action_post, button_draft and button_cancel of an entry by an accountant.
\* Cancelling does not free the line.
PostEntry(e) ==
  /\ entry[e].state = "draft" /\ entry' = [entry EXCEPT ![e].state = "posted"]
  /\ asset' = Posted(asset, {e}) /\ UNCHANGED <<bill, period>>
UnpostEntry(e) ==
  /\ entry[e].state = "posted" /\ entry' = [entry EXCEPT ![e].state = "draft"]
  /\ UNCHANGED <<bill, asset, period>>
CancelEntry(e) ==
  /\ entry[e].state = "draft" /\ entry' = [entry EXCEPT ![e].state = "cancel"]
  /\ UNCHANGED <<bill, asset, period>>

NextPeriod == period < EndOfBooks /\ period' = period + 1 /\ UNCHANGED <<bill, asset, entry>>

AssetsInit ==
  /\ bill = [b \in Bill |-> "draft"] /\ asset = [b \in Bill |-> <<>>]
  /\ entry = <<>> /\ period = 0

AssetsNext ==
  \/ \E b \in Bill : PostBill(b) \/ ResetBill(b)
  \/ \E id \in Listed : Validate(id) \/ SetToDraft(id) \/ EditDraft(id) \/ Save(id)
                     \/ Modify(id) \/ Dispose(id)
  \/ \E id \in Listed : \E k \in DOMAIN The(id).lines : BookLine(id, k)
  \/ \E e \in DOMAIN entry : PostEntry(e) \/ UnpostEntry(e) \/ CancelEntry(e)
  \/ Cron \/ NextPeriod

AssetsSpec == AssetsInit /\ [][AssetsNext]_asset_vars

-----------------------------------------------------------------------------
\* Whatever was booked, modified or disposed of, and however it rounds, the
\* lines of an asset's board add up to its value less its salvage value; an asset
\* that goes by an ending date is short of it only when no line is left to book.
BoardAddsUp ==
  \A id \in Known :
    \/ Total(The(id).lines) = Depreciable(id[1], The(id))
    \/ Category[id[1]].byEnd /\ MadeFor(The(id).lines, 0) = {}

\* Refuted: a board always depreciates its asset completely.
BoardIsComplete ==
  \A id \in Known : Total(The(id).lines) = Depreciable(id[1], The(id))

\* What the lines of an asset have of an entry.
Share(id, e) == IF id \in Known THEN SumOver(The(id).lines, MadeFor(The(id).lines, e)) ELSE 0

\* A new board never takes a line away from an entry made for it, posted or
\* not: an entry's amount is that of the lines that point to it.
EntriesKeepTheirLines ==
  \A e \in DOMAIN entry : entry[e].amount = SumFunction([id \in AssetIds |-> Share(id, e)])

\* A bill has one asset at a time that may depreciate it, however often it is
\* reset to draft and posted again, and what is closed has nothing left.
OneAssetRuns ==
  \A b \in Bill :
    /\ Cardinality({i \in DOMAIN asset[b] : asset[b][i].active}) <= 1
    /\ \A i \in DOMAIN asset[b] : asset[b][i].state = "close" => Residual(b, asset[b][i]) = 0

\* What the books say of an asset agrees with its board and its bill.
BooksAgree == BoardAddsUp /\ EntriesKeepTheirLines /\ OneAssetRuns
=============================================================================
