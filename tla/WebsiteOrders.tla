---------------------------- MODULE WebsiteOrders ----------------------------
(***************************************************************************)
(* The website's call /api/lgd/order/cart_add: it brings an order with its  *)
(* entries, and is repeated when it was not answered or answered with an    *)
(* error.  It finds or makes the sale order, a product per stone and a line *)
(* per entry; an entry is a certified stone or a parcel (MELEE) with its    *)
(* children.                                                                *)
(*                                                                          *)
(* A call is one transaction at REPEATABLE READ: it computes on the snapshot*)
(* of its start, and fails at the end if a record it changes was changed    *)
(* meanwhile.  What it only inserts conflicts with nothing.  An error of    *)
(* its own, in the middle of the entries, is answered as such but does not  *)
(* roll back the entries before it.                                         *)
(***************************************************************************)
EXTENDS Integers, FiniteSets, Sequences, FiniteSetsExt, SequencesExt

CONSTANTS
  Call,         \* the calls of the website in this instance
  Cart,         \* the invoice and the sequence of entries of each call
  Clerk,        \* server processes
  None,         \* an identifier that the payload leaves out
  MaxServed     \* bound on the calls served

VARIABLES
  db,           \* the committed tables: orders, products and lines
  txn,          \* the call each process is serving, and its snapshot
  answered,     \* calls that were answered with success at least once
  served        \* number of calls begun

website_vars == <<db, txn, answered, served>>

\* An entry: its id on the website, the identifiers of its stone (a parcel has
\* none of these), the stone itself, its children if it is a parcel, and
\* whether the data cannot be read.
EntryKind == {"stone", "parcel"}
Idle == [call |-> None, snap |-> None]

ASSUME WebsiteOrdersAssumption ==
  /\ Cart \in [Call -> [invoice : STRING, entries : Seq([
       kind : EntryKind, number : STRING \union {None},
       cert : STRING \union {None}, sku : STRING \union {None},
       stock : STRING \union {None}, stone : STRING,
       children : SUBSET Nat, faulty : BOOLEAN])]]
  /\ \A c \in Call : \A i \in DOMAIN Cart[c].entries : IsFiniteSet(Cart[c].entries[i].children)
  /\ MaxServed \in Nat /\ None \notin Call /\ None \notin Clerk \X Nat

Orders(d) == DOMAIN d.orders
Products(d) == DOMAIN d.products
Lines(d) == DOMAIN d.lines

WebsiteTypeOK ==
  /\ \A o \in Orders(db) : db.orders[o].state \in {"draft", "sale"}
  /\ \A l \in Lines(db) : /\ db.lines[l].order \in Orders(db)
                          /\ db.lines[l].product \in Products(db)
  /\ answered \subseteq Call /\ served \in 0..MaxServed
  /\ \A w \in Clerk : txn[w].call \in Call \union {None}

(***************************************************************************)
(* Tables                                                                   *)
(***************************************************************************)
\* External: ids are drawn from a sequence that no rollback turns back.
NewId(w, ids) == <<w, Cardinality({i \in ids : i[1] = w}) + 1>>

Insert(table, id, rec) ==
  [i \in DOMAIN table \union {id} |-> IF i = id THEN rec ELSE table[i]]

\* The records that were there and are not the same any more.
Rewritten(before, after) == {i \in DOMAIN before : after[i] # before[i]}

\* Mutant: concurrent updates of a record overwrite each other.
LastWriteWins(snap, mine, now) == {}

\* Records of a table that mine and somebody else changed since snap.
Clash(snap, mine, now) == Rewritten(snap, mine) \intersect Rewritten(snap, now)

Merged(snap, mine, now) ==
  [i \in DOMAIN mine \union DOMAIN now |->
     IF i \in DOMAIN mine /\ (i \notin DOMAIN snap \/ mine[i] # snap[i])
     THEN mine[i] ELSE now[i]]

\* The unique index on the stock number of LGD.
UniqueSku(products) ==
  \A p, q \in DOMAIN products :
    (products[p].sku = products[q].sku /\ products[p].sku # None) => p = q

(***************************************************************************)
(* One entry                                                                *)
(***************************************************************************)
\* _lgd_find_stone: by certificate, else by LGD's number, else by the vendor's.
FindStone(products, e) ==
  LET by(field) == {p \in DOMAIN products :
                      e[field] # None /\ products[p][field] = e[field]}
  IN  IF by("cert") # {} THEN by("cert")
      ELSE IF by("sku") # {} THEN by("sku") ELSE by("stock")

\* Parcels are found by the id the website has for them.
FindParcel(products, site) ==
  {p \in DOMAIN products : products[p].site = site}

ProductOf(e) == [cert |-> e.cert, sku |-> e.sku, stock |-> e.stock,
                 site |-> <<e.stone>>, stone |-> e.stone]
ParcelProduct(site, stone) == [cert |-> None, sku |-> None, stock |-> None,
                               site |-> site, stone |-> stone]

\* The product found is rewritten with all the payload says, else one is made.
SaveProduct(d, found, rec, w) ==
  LET p == IF found = {} THEN NewId(w, Products(d))
           ELSE CHOOSE x \in found : TRUE
  IN  [id |-> p, db |-> [d EXCEPT !.products = Insert(@, p, rec)]]

\* A new line; the order's total changes with it.
AddLine(d, rec, w) ==
  [d EXCEPT !.lines = Insert(@, NewId(w, Lines(d)), rec),
            !.orders[rec.order].size = @ + 1]

\* The line is looked for by the entry's number, and if there is none under
\* this number by its stone: certificate and, if given, LGD's number.
ExistingLine(d, o, e) ==
  LET mine == {l \in Lines(d) : d.lines[l].order = o}
      numbered == {l \in mine : e.number # None /\ d.lines[l].number = e.number}
      sameStone == {l \in mine :
        LET p == d.products[d.lines[l].product]
        IN  p.cert = e.cert /\ (e.sku # None => p.sku = e.sku)}
  IN  IF numbered # {} THEN numbered ELSE sameStone

BookStone(d, o, e, w) ==
  LET saved == SaveProduct(d, FindStone(d.products, e), ProductOf(e), w)
  IN  IF ExistingLine(saved.db, o, e) # {} THEN saved.db
      ELSE AddLine(saved.db, [order |-> o, number |-> e.number,
                              product |-> saved.id, stone |-> e.stone,
                              parent |-> None, child |-> 0], w)

\* A child of a parcel: its line is looked for under its parent by its place.
BookChild(d, o, parent, e, child, w) ==
  IF \E l \in Lines(d) : d.lines[l].parent = parent /\ d.lines[l].child = child
  THEN d
  ELSE LET site == <<e.stone, child>>
           saved == SaveProduct(d, FindParcel(d.products, site),
                                ParcelProduct(site, e.stone), w)
       IN  AddLine(saved.db, [order |-> o, number |-> e.number,
                              product |-> saved.id, stone |-> e.stone,
                              parent |-> parent, child |-> child], w)

BookChildren(d, o, parent, e, w) ==
  FoldSet(LAMBDA c, x : BookChild(x, o, parent, e, c, w), d, e.children)

\* The parcel's own line, under the entry's number; a line that is there is
\* left as it is.  Unreadable data of a child comes up after this line is made.
BookParcel(d, o, e, w) ==
  LET saved == SaveProduct(d, FindParcel(d.products, <<e.stone>>),
                           ParcelProduct(<<e.stone>>, e.stone), w)
      heads(x) == {l \in Lines(x) : /\ x.lines[l].order = o
                                    /\ x.lines[l].number = e.number
                                    /\ x.lines[l].parent = None}
      headed == IF heads(saved.db) # {} THEN saved.db
                ELSE AddLine(saved.db, [order |-> o, number |-> e.number,
                               product |-> saved.id, stone |-> e.stone,
                               parent |-> None, child |-> 0], w)
      head == CHOOSE l \in heads(headed) : TRUE
  IN  IF e.faulty THEN headed
      ELSE BookChildren(headed, o, head, e, w)

BookEntry(d, o, e, w) ==
  IF e.kind = "parcel" THEN BookParcel(d, o, e, w)
  ELSE IF e.faulty THEN d ELSE BookStone(d, o, e, w)
BookEntries(d, o, es, w) == FoldLeft(LAMBDA x, e : BookEntry(x, o, e, w), d, es)

(***************************************************************************)
(* One call                                                                 *)
(***************************************************************************)
\* The open order of this invoice.
OpenOrder(d, c) ==
  {o \in Orders(d) : d.orders[o].invoice = Cart[c].invoice
                     /\ d.orders[o].state = "draft"}

\* The entries up to the first one that cannot be read.
Attempted(c) ==
  LET es == Cart[c].entries
      bad == {i \in DOMAIN es : es[i].faulty}
  IN  IF bad = {} THEN es ELSE SubSeq(es, 1, Min(bad))

\* What the call makes of the tables d, and whether it says so.
Booked(d, c, w) ==
  LET found == OpenOrder(d, c)
      o == IF found # {} THEN CHOOSE x \in found : TRUE ELSE NewId(w, Orders(d))
      start == IF found # {} THEN d
               ELSE [d EXCEPT !.orders = Insert(@, o,
                       [invoice |-> Cart[c].invoice, state |-> "draft", size |-> 0])]
      todo == Attempted(c)
  IN  [db |-> BookEntries(start, o, todo, w),
       ok |-> \A i \in DOMAIN todo : ~todo[i].faulty]

Arrive(w, c) ==
  /\ txn[w] = Idle /\ served < MaxServed
  /\ served' = served + 1
  /\ txn' = [txn EXCEPT ![w] = [call |-> c, snap |-> db]]
  /\ UNCHANGED <<db, answered>>

\* The tables after the call of w, merged with what was committed meanwhile.
Result(w) == Booked(txn[w].snap, txn[w].call, w).db
AfterCall(w) ==
  [t \in DOMAIN db |-> Merged(txn[w].snap[t], Result(w)[t], db[t])]
Refused(w) ==
  \/ \E t \in DOMAIN db : Clash(txn[w].snap[t], Result(w)[t], db[t]) # {}
  \/ ~UniqueSku(AfterCall(w).products)

\* The call ends; what it did stays, also when an entry could not be read.
Commit(w) ==
  /\ txn[w] # Idle /\ ~Refused(w)
  /\ db' = AfterCall(w)
  /\ answered' = IF Booked(txn[w].snap, txn[w].call, w).ok
                 THEN answered \union {txn[w].call} ELSE answered
  /\ txn' = [txn EXCEPT ![w] = Idle]
  /\ UNCHANGED served

\* The database refuses: answered as an error, or run again by the framework.
Conflict(w) ==
  /\ txn[w] # Idle /\ Refused(w)
  /\ \E again \in {Idle, [call |-> txn[w].call, snap |-> db]} :
       txn' = [txn EXCEPT ![w] = again]
  /\ UNCHANGED <<db, answered, served>>

\* Sales confirms an order: later calls do not find it.
ConfirmOrder(o) ==
  /\ o \in Orders(db) /\ db.orders[o].state = "draft"
  /\ db' = [db EXCEPT !.orders[o].state = "sale"]
  /\ UNCHANGED <<txn, answered, served>>

WebsiteInit ==
  /\ db = [orders |-> << >>, products |-> << >>, lines |-> << >>]
  /\ txn = [w \in Clerk |-> Idle]
  /\ answered = {} /\ served = 0

WebsiteNext ==
  \/ \E w \in Clerk : (\E c \in Call : Arrive(w, c)) \/ Commit(w) \/ Conflict(w)
  \/ \E o \in Orders(db) : ConfirmOrder(o)

WebsiteSpec == WebsiteInit /\ [][WebsiteNext]_website_vars

(***************************************************************************)
(* Properties                                                               *)
(***************************************************************************)
\* However often, and by however many processes at a time, a call is served: no
\* order has two lines for one entry (or one child of it).
OneLinePerEntry ==
  \A l, m \in Lines(db) :
    LET a == db.lines[l]
        b == db.lines[m]
    IN  (/\ a.order = b.order /\ a.number = b.number /\ a.child = b.child
         /\ a.stone = b.stone) => l = m

\* A line shows the stone it was ordered for: no later entry, of this order or
\* another one, rewrote its product into another stone.  (The vendors' numbers
\* of different stones differ.)
LineShowsItsStone ==
  \A l \in Lines(db) : db.products[db.lines[l].product].stone = db.lines[l].stone

\* What was answered with success is on an order in full, with all children, if
\* its stones have a certificate or a number of LGD.
SuccessIsBooked ==
  \A c \in answered : \A i \in DOMAIN Cart[c].entries :
    LET e == Cart[c].entries[i]
        on == {l \in Lines(db) :
                 /\ db.orders[db.lines[l].order].invoice = Cart[c].invoice
                 /\ db.lines[l].number = e.number /\ db.lines[l].stone = e.stone}
    IN  (e.kind = "parcel" \/ e.cert # None \/ e.sku # None) =>
          \A n \in {0} \union e.children : \E l \in on : db.lines[l].child = n

\* Refuted: "No orderUniqueId (or an older order that predates it): fall back
\* to identifying the stone itself": an entry that has its own number is on the
\* order once its call was answered with success.
NumberedIsBooked ==
  \A c \in answered : \A i \in DOMAIN Cart[c].entries :
    Cart[c].entries[i].number # None =>
      \E l \in Lines(db) : db.lines[l].number = Cart[c].entries[i].number

\* What the website means by an entry, on which these rest: a certificate or number belongs
\* to one stone, and what is a stone is no parcel; a parcel is numbered and its children are
\* counted from 1; what comes without a number is always described in the same way; and on
\* one invoice a number stands for one thing, and a thing has one number.
Named(c) == Range(Cart[c].entries)
Unambiguous ==
  /\ \A c, d \in Call : \A e \in Named(c), f \in Named(d) :
       /\ e.kind = "stone" /\ f.kind = "stone"
          /\ (\E field \in {"cert", "sku", "stock"} : e[field] # None /\ e[field] = f[field])
          => e.stone = f.stone
       /\ e.stone = f.stone =>
            /\ e.kind = f.kind
            /\ e.number = None => e.cert = f.cert /\ (e.sku # None => e.sku = f.sku)
       /\ Cart[c].invoice = Cart[d].invoice =>
            /\ e.number = f.number /\ e.number # None => e.stone = f.stone
            /\ e.stone = f.stone => e.number = f.number
  /\ \A c \in Call : \A e \in Named(c) :
       IF e.kind = "parcel" THEN e.number # None /\ 0 \notin e.children ELSE e.children = {}

\* An answered call is booked once, in full, with the stones it named.
BookedAsCalled == OneLinePerEntry /\ LineShowsItsStone /\ SuccessIsBooked
=============================================================================
