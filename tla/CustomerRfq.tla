----------------------------- MODULE CustomerRfq -----------------------------
(***************************************************************************)
(* A customer's request for a quote: Sales writes it, Procurement prices it *)
(* and sends it back, Sales turns it into an offline order (custom.sale.-   *)
(* order), which creates a sale order.  What the quote totals is computed   *)
(* from its rows whenever it is read; what the order totals is the sum of   *)
(* the lines built from the same rows.                                      *)
(*                                                                          *)
(* Views decide what can be typed, when a form is opened; the server checks *)
(* less, and a form may be saved long after it was opened.  Two requests    *)
(* that write the same record do not interleave (the second one fails and   *)
(* is run again), so a request is one step.                                 *)
(*                                                                          *)
(* Money is counted in cents, and is rounded to a cent wherever the code    *)
(* stores it in a field of money or of a price, and nowhere else.           *)
(* Quantities, and the weight of one piece, are whole numbers of 1/44, so   *)
(* that half a carat and the usual piece, 1/22 carat, are among them; the   *)
(* weight of a row or of a quote counts 1/44 of 1/44 carat.                 *)
(***************************************************************************)
EXTENDS Integers, FiniteSets, Sequences, FiniteSetsExt

CONSTANTS
  SizeRow,       \* the rows of the quote: customer.rfq.size.line
  Shape,         \* the quotes of this instance: records of RfqShape
  Price,         \* prices per carat that Procurement types, 0 for none
  Rate,          \* dollar rates that are typed, 0 for none
  Margin,        \* the margin in percent by band of the weight, the default at 0
  RfqUser,       \* users with a form of the quote open
  Certificate    \* certificates typed on the stones of the order

Carat == 44
Fine == Carat * Carat
UsualPiece == Carat \div 22
Threshold == 50

\* A quote: with size rows (in carats or in pieces), a melee parcel with one
\* weight, or the older kind, a weight per stone and a number of stones.
RfqShape == [kind : {"rows", "parcel", "legacy"}, pieces : BOOLEAN,
             qty : [SizeRow -> Nat], perPiece : Nat, weight : Nat, count : Nat]

ASSUME CustomerRfqAssumption ==
  /\ IsFiniteSet(SizeRow)
  /\ Shape \subseteq RfqShape
  /\ Price \subseteq Nat /\ Rate \subseteq Nat
  /\ Margin \in [0..9 -> Nat]

VARIABLES
  rfq,      \* the quote: its state, the flat price, whether rows have prices of
            \* their own, these prices, the dollar rate and whether it is needed
  shape,    \* its rows: a member of Shape
  form,     \* forms open for editing: what their user may change in them
  seen,     \* the price Sales saw when the quote was sent back
  offer,    \* the offline order: its state, the sale orders it created, the
            \* total quoted and the total of the lines, and the rate
  stone,    \* product of each line of the order: lines share one at first
  entered   \* the certificate last entered for each line

rfq_vars == <<rfq, shape, form, seen, offer, stone, entered>>

RfqStates == {"draft", "sent_to_procurement", "sent_back_to_sales",
              "offline_order_created", "cancel"}
NoCert == "none"
\* Lines of the order are numbered; product 0 is the shared one.
OrderLine == 1..3

RfqTypeOK ==
  /\ rfq \in [state : RfqStates, price : Nat, different : BOOLEAN,
              costing : [SizeRow -> Nat], rate : Nat, dollars : BOOLEAN]
  /\ shape \in Shape
  /\ form \in [RfqUser -> {"closed", "price", "rate"}]
  /\ seen \in Nat
  /\ offer \in [state : {"none", "draft", "sale", "cancel"}, sales : Nat,
                quoted : Nat, lines : Nat, rate : Nat]
  /\ stone \in [OrderLine -> [product : 0..3, cert : Certificate \union {NoCert}]]
  /\ entered \in [OrderLine -> Certificate \union {NoCert}]

(***************************************************************************)
(* The arithmetic of a quote                                                *)
(***************************************************************************)
\* Python's round: halves go to the even neighbour.
Rounded(w) ==
  LET n == w \div Carat
      r == 2 * (w % Carat)
  IN  IF r > Carat \/ (r = Carat /\ n % 2 = 1) THEN n + 1 ELSE n

\* The number of stones of a row: pieces are cut, carats are rounded.
RowCount(row) ==
  IF shape.pieces THEN shape.qty[row] \div Carat ELSE Rounded(shape.qty[row])

FullRows == {row \in SizeRow : RowCount(row) > 0}

\* _rfq_stone_count
StoneCount ==
  IF shape.kind = "rows" THEN SumFunction([row \in FullRows |-> RowCount(row)])
  ELSE IF shape.count > 1 THEN shape.count ELSE 1

\* _lgd_stone_carat: the weight that was typed for one piece, else the usual.
PieceWeight == IF shape.perPiece # 0 THEN shape.perPiece ELSE UsualPiece

\* The weight of a row: pieces times the weight of one.
RowWeight(row) == shape.qty[row] * (IF shape.pieces THEN PieceWeight ELSE Carat)

RowsCarat == SumFunction([row \in SizeRow |-> RowWeight(row)])
EffectiveCarat ==
  IF shape.kind = "rows" /\ RowsCarat # 0 THEN RowsCarat ELSE shape.weight * Carat

\* _carat_to_band: how many of the table's lower bounds (in hundredths of a
\* carat) a weight has reached; 0 for a weight below all bands.
Bounds == <<100, 150, 200, 250, 300, 400, 500, 600, 700>>
Band(w) == Cardinality({i \in DOMAIN Bounds : 100 * w >= Bounds[i] * Fine})
MarginPercent == Margin[Band(EffectiveCarat)]

\* What a field of money or of a price keeps of a / b cents: halves go up.
Cents(a, b) == (2 * a + b) \div (2 * b)

\* With prices of their own the rows are extended by their quantities.
BasePrice ==
  IF rfq.different /\ shape.kind = "rows"
  THEN SumFunction([row \in SizeRow |-> rfq.costing[row] * shape.qty[row] * Carat])
  ELSE rfq.price * EffectiveCarat

\* The quote before any rounding, in hundredths of cents and times Fine.
Exact == BasePrice * (100 + MarginPercent)

\* The rate per carat: the quote divided by its weight.
SaleRate ==
  IF EffectiveCarat = 0 THEN rfq.price ELSE Cents(Exact, 100 * EffectiveCarat)

\* How often the quote's weight is sold: once for each stone of an older quote.
Times == IF shape.kind = "legacy" THEN StoneCount ELSE 1

\* The order's total: rate x total weight, from the rate that is not rounded.
OrderTotal == Cents(Exact * Times, 100 * Fine)

\* The total through the stones; where nothing is left of it, the price asked.
UnitPrice ==
  LET each == Cents(OrderTotal, Times)
  IN  IF each # 0 THEN each ELSE rfq.price

\* Mutant: every stone of a row is priced at the weight of all of them.
RowPrice(row) ==
  IF shape.pieces THEN RowCount(row) * Cents(SaleRate * PieceWeight, Carat)
  ELSE Cents(SaleRate * shape.qty[row], Carat)

\* The price of a stone of a row: the rate shown x the weight of the stone.
StonePrice(row) ==
  IF shape.pieces THEN Cents(SaleRate * PieceWeight, Carat)
  ELSE Cents(SaleRate * shape.qty[row], Carat * RowCount(row))

\* The total of the lines built from the quote, each at its own price.
LinesTotal ==
  IF shape.kind = "rows"
  THEN SumFunction([row \in FullRows |-> RowCount(row) * StonePrice(row)])
  ELSE Times * UnitPrice

\* Typos are refused: no row and no quote of more than fifty stones.
TooMany ==
  IF shape.kind = "rows" THEN \E row \in SizeRow : RowCount(row) > Threshold
  ELSE shape.kind = "legacy" /\ StoneCount > Threshold

(***************************************************************************)
(* Procurement and Sales                                                    *)
(***************************************************************************)
SendToProcurement ==
  /\ rfq.state = "draft"
  /\ rfq' = [rfq EXCEPT !.state = "sent_to_procurement"]
  /\ UNCHANGED <<shape, form, seen, offer, stone, entered>>

\* Forms show prices for editing while Procurement has the quote, and the rate
\* until the order exists or the quote is cancelled.
OpenForm(u, what) ==
  /\ form[u] = "closed"
  /\ \/ what = "price" /\ rfq.state = "sent_to_procurement"
     \/ what = "rate" /\ rfq.state \notin {"offline_order_created", "cancel"}
  /\ form' = [form EXCEPT ![u] = what]
  /\ UNCHANGED <<rfq, shape, seen, offer, stone, entered>>

\* write: a flat price is copied to all rows; ticking Different prices clears
\* the flat price, and unticking it the rows' prices.  The state is not checked.
SavePrice(u, p) ==
  /\ form[u] = "price" /\ form' = [form EXCEPT ![u] = "closed"]
  /\ rfq' = [rfq EXCEPT !.price = p, !.different = FALSE,
                        !.costing = IF p = 0 /\ ~rfq.different THEN @
                                     ELSE [row \in SizeRow |-> p]]
  /\ UNCHANGED <<shape, seen, offer, stone, entered>>

SaveCosting(u, row, p) ==
  /\ form[u] = "price" /\ form' = [form EXCEPT ![u] = "closed"]
  /\ shape.kind = "rows"
  /\ rfq' = [rfq EXCEPT !.price = 0, !.different = TRUE, !.costing[row] = p]
  /\ UNCHANGED <<shape, seen, offer, stone, entered>>

\* Mutant: the rate is locked by the view only.
RateFree(r) == TRUE

\* write refuses another rate once the order exists.
RateMayBe(r) == rfq.state = "offline_order_created" => r = rfq.rate

SaveRate(u, r) ==
  /\ form[u] = "rate" /\ form' = [form EXCEPT ![u] = "closed"]
  /\ rfq' = IF RateMayBe(r) THEN [rfq EXCEPT !.rate = r] ELSE rfq
  /\ UNCHANGED <<shape, seen, offer, stone, entered>>

SendBackToSales ==
  /\ rfq.state = "sent_to_procurement"
  /\ IF rfq.different
     THEN SizeRow # {} /\ \A row \in SizeRow : rfq.costing[row] > 0
     ELSE rfq.price > 0
  /\ rfq' = [rfq EXCEPT !.state = "sent_back_to_sales"]
  /\ seen' = OrderTotal
  /\ UNCHANGED <<shape, form, offer, stone, entered>>

\* _apply_cancellation, by the wizard
CancelRfq ==
  /\ rfq.state \notin {"cancel", "offline_order_created"}
  /\ rfq' = [rfq EXCEPT !.state = "cancel"]
  /\ UNCHANGED <<shape, form, seen, offer, stone, entered>>

\* Mutant: the quote takes the state of its order.
OrderedAsSale(r) == [r EXCEPT !.state = "sale"]

OrderedRfq(r) == [r EXCEPT !.state = "offline_order_created"]

\* action_create_offline_order: the stone, the order, its lines, its
\* confirmation and the rate, in one transaction.
CreateOfflineOrder ==
  /\ rfq.state = "sent_back_to_sales"
  /\ OrderTotal # 0 /\ (rfq.dollars => rfq.rate # 0)
  /\ ~TooMany /\ (shape.kind = "rows" => FullRows # {})
  /\ offer' = [state |-> "sale", sales |-> offer.sales + 1,
               quoted |-> OrderTotal, lines |-> LinesTotal, rate |-> rfq.rate]
  /\ rfq' = OrderedRfq(rfq)
  /\ UNCHANGED <<shape, form, seen, stone, entered>>

(***************************************************************************)
(* The offline order                                                        *)
(***************************************************************************)
\* _apply_cancellation of custom.sale.order: the sale order is left alone.
CancelOffer ==
  /\ offer.state \in {"draft", "sale"}
  /\ offer' = [offer EXCEPT !.state = "cancel"]
  /\ UNCHANGED <<rfq, shape, form, seen, stone, entered>>

SetToQuotation ==
  /\ offer.state = "cancel"
  /\ offer' = [offer EXCEPT !.state = "draft"]
  /\ UNCHANGED <<rfq, shape, form, seen, stone, entered>>

\* action_confirm_offline_order makes no second sale order.
MayConfirm(o) == o.state = "draft" /\ o.sales = 0

ConfirmOffer ==
  /\ MayConfirm(offer)
  /\ offer' = [offer EXCEPT !.state = "sale", !.sales = @ + 1]
  /\ UNCHANGED <<rfq, shape, form, seen, stone, entered>>

(***************************************************************************)
(* The stones of the order                                                  *)
(***************************************************************************)
\* _ensure_isolated_product: a product that other lines have too is copied.
Shared(l) == \E m \in OrderLine \ {l} : stone[m].product = stone[l].product

\* A certificate typed, or fetched, on a line is written to its product.
EnterCertificate(l, c) ==
  /\ offer.sales > 0
  /\ entered' = [entered EXCEPT ![l] = c]
  /\ stone' = IF Shared(l)
              THEN [stone EXCEPT ![l] = [product |-> l, cert |-> c]]
              ELSE [m \in OrderLine |->
                      IF stone[m].product = stone[l].product
                      THEN [stone[m] EXCEPT !.cert = c] ELSE stone[m]]
  /\ UNCHANGED <<rfq, shape, form, seen, offer>>

(***************************************************************************)
(* Specification                                                            *)
(***************************************************************************)
RfqInit ==
  /\ shape \in Shape
  /\ rfq \in {[state |-> "draft", price |-> 0, different |-> FALSE,
               costing |-> [row \in SizeRow |-> 0], rate |-> 0, dollars |-> d] :
                d \in BOOLEAN}
  /\ form = [u \in RfqUser |-> "closed"]
  /\ seen = 0
  /\ offer = [state |-> "none", sales |-> 0, quoted |-> 0, lines |-> 0,
              rate |-> 0]
  /\ stone = [l \in OrderLine |-> [product |-> 0, cert |-> NoCert]]
  /\ entered = [l \in OrderLine |-> NoCert]

RfqNext ==
  \/ SendToProcurement \/ SendBackToSales \/ CancelRfq \/ CreateOfflineOrder
  \/ \E u \in RfqUser :
       \/ \E what \in {"price", "rate"} : OpenForm(u, what)
       \/ \E p \in Price : SavePrice(u, p)
       \/ \E row \in SizeRow, p \in Price : SaveCosting(u, row, p)
       \/ \E r \in Rate : SaveRate(u, r)
  \/ CancelOffer \/ SetToQuotation \/ ConfirmOffer
  \/ \E l \in OrderLine, c \in Certificate : EnterCertificate(l, c)

RfqSpec == RfqInit /\ [][RfqNext]_rfq_vars

(***************************************************************************)
(* Properties                                                               *)
(***************************************************************************)
\* A quote becomes one order and an order one sale order, however the order is
\* cancelled, set back and confirmed again; a cancelled quote has none.
OneSaleOrder ==
  /\ offer.sales <= 1
  /\ rfq.state = "cancel" => offer.sales = 0

\* The lines of the order are the total that was quoted, to half a cent for each
\* line, if no row is rounded away, pieces are whole numbers and a stone is worth
\* half a cent; lines of rows are priced from the rate as it is shown, which is
\* half a cent off for each carat.
WholeRows ==
  shape.kind = "rows" =>
    /\ FullRows = SizeRow
    /\ shape.pieces => \A row \in SizeRow : shape.qty[row] % Carat = 0
RowsAreTheQuote ==
  LET d == 2 * Fine * (offer.lines - offer.quoted)
      slack == Fine * (StoneCount + 1) + EffectiveCarat
  IN  -slack <= d /\ d <= slack
FlatIsTheQuote ==
  LET d == 2 * (offer.lines - offer.quoted)
      slack == IF shape.kind = "parcel" THEN 0 ELSE StoneCount
  IN  2 * offer.quoted >= slack => -slack <= d /\ d <= slack
OrderIsTheQuote ==
  (offer.sales > 0 /\ WholeRows) =>
     IF shape.kind = "rows" THEN RowsAreTheQuote ELSE FlatIsTheQuote

\* Refuted: "This is the price_unit of every generated line, so order_total ==
\* sum(lines) by construction on both paths."
OrderTotalIsLines == (offer.sales > 0 /\ WholeRows) => offer.lines = offer.quoted

\* The dollar rate of a quote stays the one its order was priced at, also when
\* a form that was opened before is saved after the order exists.
RateIsTheOrders == offer.sales > 0 => offer.rate = rfq.rate

\* A certificate entered for a stone stays that stone's: the lines of an order
\* share one product until one of them is edited.
OwnCertificate == \A l \in OrderLine : stone[l].cert = entered[l]

\* Refuted: "Once sent back to Sales the price is locked for everyone, so a
\* later edit can't silently drift from the value Sales already saw."
PriceIsTheOneSeen ==
  (rfq.state \in {"sent_back_to_sales", "offline_order_created"}) =>
     OrderTotal = seen

\* What is sold is what was quoted: one order, at the total and the rate of the
\* quote, with the certificates of its own stones.
SoldAsQuoted ==
  OneSaleOrder /\ OrderIsTheQuote /\ RateIsTheOrders /\ OwnCertificate
=============================================================================
