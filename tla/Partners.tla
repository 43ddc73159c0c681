------------------------------ MODULE Partners ------------------------------
(***************************************************************************)
(* Accounts and the delivery addresses of one customer.                     *)
(*                                                                          *)
(* An account moves through the stages open, contacted, registered and      *)
(* converted.  The last two are gated: they need all required fields and    *)
(* the registration number of the account's country.  Sales saves accounts  *)
(* by hand; each order of the website brings the platform's copy of them.   *)
(*                                                                          *)
(* Delivery addresses are children of the customer's account.  Sales enters *)
(* them, the website's orders and the migration run at each update of the   *)
(* application make them of free text.                                      *)
(***************************************************************************)
EXTENDS Integers, FiniteSets, FiniteSetsExt, SequencesExt

CONSTANTS
  Account,      \* accounts
  Profile,     \* what the website may say of an account
  Address,      \* ids of delivery addresses
  Text,         \* free texts of addresses, normalised
  Junk,         \* texts that are no address
  Sale,         \* orders of the customer
  Nil           \* nothing

VARIABLES
  acct,         \* the accounts
  box,          \* the customer's addresses
  shipTo        \* each order: its free text and its delivery address

account_vars == <<acct>>
address_vars == <<box, shipTo>>
partner_vars == <<acct, box, shipTo>>

AccountStage == <<"open", "contacted", "registered", "converted">>
Rank(s) == IF s = Nil THEN 0 ELSE CHOOSE i \in 1..4 : AccountStage[i] = s
Country == {"IN", "BH"}
Kyc == {"pending", "verified", "manual_verified", "not_verified", "failed"}
IdNumber == {"vat", "ein"}

\* The fields an account needs are complete or not; what the website says of
\* them completes them.
ASSUME PartnersAssumption ==
  /\ Profile \subseteq [country : Country \union {Nil}, full : BOOLEAN,
                         numbers : SUBSET IdNumber, kyc : Kyc \union {Nil}]
  /\ Junk \subseteq Text
  /\ Nil \notin Range(AccountStage) \union {"delivery", "contact"}
  /\ IsFiniteSet(Address) /\ IsFiniteSet(Sale)

PartnersTypeOK ==
  /\ acct \in [Account -> [stage : Range(AccountStage) \union {Nil},
                           country : Country \union {Nil}, full : BOOLEAN,
                           numbers : SUBSET IdNumber, kyc : Kyc \union {Nil}]]
  /\ box \in [Address -> [type : {"delivery", "contact", Nil}, primary : BOOLEAN,
                          person : BOOLEAN, text : Text \union {Nil},
                          active : BOOLEAN]]
  /\ shipTo \in [Sale -> [text : Text \union {Nil}, to : Address \union {Nil}]]

(***************************************************************************)
(* Accounts                                                                 *)
(***************************************************************************)
\* The registration number: the GSTIN in India, the EIN everywhere else.
HasNumber(r) == (IF r.country = "IN" THEN "vat" ELSE "ein") \in r.numbers

Complete(r) == r.full /\ r.country # Nil /\ HasNumber(r)
Gated == {"registered", "converted"}

\* Mutant: any account that is complete is put to Registered.
AdvancedFromAnywhere(r) ==
  IF Complete(r) THEN [r EXCEPT !.stage = "registered"] ELSE r

\* _lgd_try_advance_stage: a complete account moves on by itself, forwards only.
Advanced(r) ==
  IF r.stage \in {"open", "contacted"} /\ Complete(r)
  THEN [r EXCEPT !.stage = "registered"] ELSE r

\* What is there is written, what is missing leaves the account's value.  The
\* initial `pending` does not undo a verification; a downgrade does.
Overlaid(r, p) ==
  [r EXCEPT !.country = IF p.country = Nil THEN @ ELSE p.country,
            !.full = @ \/ p.full,
            !.numbers = @ \union p.numbers,
            !.kyc = IF p.kyc = Nil \/ (p.kyc = "pending" /\
                         @ \in {"verified", "manual_verified"})
                    THEN @ ELSE p.kyc]

\* _lgd_upsert_from_website: an account that is there keeps its stage but for
\* the advance; a new one starts at Open.
WebsiteSays(a, p) ==
  LET r == [acct[a] EXCEPT !.stage = IF @ = Nil THEN "open" ELSE @]
  IN  acct' = [acct EXCEPT ![a] = Advanced(Overlaid(r, p))]

\* The gate holds on what the account is after the write, and only on a move
\* into a gated stage.
MaySave(old, new) ==
  (new.stage \in Gated /\ new.stage # old.stage) => Complete(new)

\* Sales saves an account, a new one too: its stage and one more change.
SaveAccount(a, s) ==
  LET r == [acct[a] EXCEPT !.stage = s]
      one == {r} \union {[r EXCEPT !.full = b] : b \in BOOLEAN}
                 \union {[r EXCEPT !.country = c] : c \in Country \union {Nil}}
                 \union {[r EXCEPT !.numbers = n] : n \in SUBSET IdNumber}
                 \union {[r EXCEPT !.kyc = k] : k \in Kyc}
  IN  \E new \in one : /\ MaySave(acct[a], new)
                       /\ acct' = [acct EXCEPT ![a] = new]

(***************************************************************************)
(* Addresses                                                                *)
(***************************************************************************)
NoAddress == [type |-> Nil, primary |-> FALSE, person |-> FALSE,
              text |-> Nil, active |-> TRUE]
Fresh(b) == {x \in Address : b[x].type = Nil}
Deliveries(b) == {x \in Address : b[x].type = "delivery" /\ b[x].active}

\* Mutant: a delivery address keeps whom it carries.
Unscrubbed(new) == new

\* write: the type an address has after the write decides what it may carry.
Scrubbed(new) == IF new.type = "delivery" THEN [new EXCEPT !.person = FALSE] ELSE new

\* An address gets the mark, or loses it.
Marked(a, mark) == Scrubbed([a EXCEPT !.primary = mark])

\* The other primary addresses of the customer lose the mark.  Archived ones,
\* and children of another type, are not among those looked at.
SiblingsCleared(b, x) ==
  [y \in Address |-> IF y # x /\ y \in Deliveries(b) /\ b[y].primary
                     THEN Marked(b[y], FALSE) ELSE b[y]]

\* A new delivery address.  The person it carries is what the partner's own
\* create composes of first and last name when the values were scrubbed already.
DeliveryOf(text, mark, person) ==
  [type |-> "delivery", primary |-> mark, person |-> person, text |-> text, active |-> TRUE]

\* Mutant: the text an address was made of is not kept.
WithNewTextless(b, x, text, mark, person) ==
  LET made == [b EXCEPT ![x] = DeliveryOf(Nil, mark, person)]
  IN  IF mark THEN SiblingsCleared(made, x) ELSE made

\* create
WithNew(b, x, text, mark, person) ==
  LET made == [b EXCEPT ![x] = DeliveryOf(text, mark, person)]
  IN  IF mark THEN SiblingsCleared(made, x) ELSE made

\* By hand, with a first and a last name or without: the name composed of them
\* stays unless a write of the same create scrubs it (the mirroring of the billing
\* address does, where the shipping address is said not to differ).
EnterAddress(x, mark, person) ==
  /\ x \in Fresh(box)
  /\ box' = WithNew(box, x, Nil, mark, person)
  /\ UNCHANGED shipTo

\* A child is edited: its type, who is to be asked for there.
EditAddress(x, type, person) ==
  /\ box[x].type # Nil
  /\ box' = [box EXCEPT ![x] = Scrubbed([box[x] EXCEPT !.type = type, !.person = person])]
  /\ UNCHANGED shipTo

Archive(x) ==
  /\ box[x].type # Nil
  /\ box' = [box EXCEPT ![x] = Scrubbed([box[x] EXCEPT !.active = ~box[x].active])]
  /\ UNCHANGED shipTo

\* unlink: only what no order points at.
DeleteAddress(x) ==
  /\ x \in Deliveries(box) /\ \A o \in Sale : shipTo[o].to # x
  /\ box' = [box EXCEPT ![x] = NoAddress]
  /\ UNCHANGED shipTo

\* write: the address marked is the primary one, the others are not.
MarkPrimary(x) ==
  /\ x \in Deliveries(box)
  /\ box' = SiblingsCleared([box EXCEPT ![x] = Marked(box[x], TRUE)], x)
  /\ UNCHANGED shipTo

\* The address made of a text earlier, found by that text.
MadeOf(b, t) == {x \in Deliveries(b) : b[x].text = t}

\* _lgd_match_or_create_address for the order o: its address, found or made;
\* the customer's account if the text is no address.
Addressed(s, o, t) ==
  IF t \in Junk THEN [s EXCEPT !.ship[o].to = Nil]
  ELSE IF MadeOf(s.box, t) # {}
       THEN [s EXCEPT !.ship[o].to = CHOOSE x \in MadeOf(s.box, t) : TRUE]
       ELSE LET x == CHOOSE y \in Fresh(s.box) : TRUE
            IN  [box |-> WithNew(s.box, x, t, FALSE, FALSE), ship |-> [s.ship EXCEPT ![o].to = x]]

\* An order of the website, with its address as one text.
WebsiteShips(o, t) ==
  /\ shipTo[o].text = Nil /\ Fresh(box) # {}
  /\ LET s == Addressed([box |-> box, ship |-> [shipTo EXCEPT ![o].text = t]], o, t)
     IN  box' = s.box /\ shipTo' = s.ship

\* Sales chooses an address of the customer, or no address, for the order.
ChooseAddress(o, x) ==
  /\ x \in Deliveries(box) \union {Nil}
  /\ shipTo' = [shipTo EXCEPT ![o].to = x]
  /\ UNCHANGED box

(***************************************************************************)
(* The migration                                                            *)
(***************************************************************************)
\* _lgd_convert_text_addresses: each order with a usable text is pointed at the
\* address made of it.
TextsConverted(s) ==
  FoldSet(LAMBDA o, r : Addressed(r, o, r.ship[o].text), s,
          {o \in Sale : s.ship[o].text \notin Junk \union {Nil}})

\* _lgd_convert_parent_shipping_blocks: a customer without a primary address
\* gets one, of the text `block` of the account's own shipping address.
BlockConverted(s, block) ==
  IF \E x \in Deliveries(s.box) : s.box[x].primary THEN s
  ELSE IF MadeOf(s.box, block) # {}
       THEN LET x == CHOOSE y \in MadeOf(s.box, block) : TRUE
            IN  [s EXCEPT !.box = SiblingsCleared([s.box EXCEPT ![x] = Marked(s.box[x], TRUE)], x)]
       ELSE [s EXCEPT !.box = WithNew(s.box, CHOOSE y \in Fresh(s.box) : TRUE, block, TRUE, FALSE)]

Migrated(s, block) == BlockConverted(TextsConverted(s), block)

\* Bound: only as long as there are ids for all it may make.
RoomToMigrate == Cardinality(Fresh(box)) > Cardinality({shipTo[o].text : o \in Sale})

Migrate(block) ==
  /\ RoomToMigrate
  /\ LET s == Migrated([box |-> box, ship |-> shipTo], block)
     IN  box' = s.box /\ shipTo' = s.ship

(***************************************************************************)
(* Behaviour                                                                *)
(***************************************************************************)
AccountsInit ==
  acct = [a \in Account |-> [stage |-> Nil, country |-> Nil, full |-> FALSE,
                             numbers |-> {}, kyc |-> Nil]]
AddressesInit ==
  /\ box = [x \in Address |-> NoAddress]
  /\ shipTo = [o \in Sale |-> [text |-> Nil, to |-> Nil]]

AccountsNext ==
  \E a \in Account : \/ \E p \in Profile : WebsiteSays(a, p)
                     \/ \E s \in Range(AccountStage) : SaveAccount(a, s)

AddressesNext ==
  \/ \E x \in Address :
       \/ \E b, p \in BOOLEAN : EnterAddress(x, b, p)
       \/ \E t \in {"delivery", "contact"}, b \in BOOLEAN : EditAddress(x, t, b)
       \/ Archive(x) \/ DeleteAddress(x)
       \/ MarkPrimary(x)
       \/ \E o \in Sale : ChooseAddress(o, x)
  \/ \E o \in Sale : ChooseAddress(o, Nil) \/ \E t \in Text : WebsiteShips(o, t)
  \/ \E t \in Text \ Junk : Migrate(t)

PartnersSpec == AccountsInit /\ AddressesInit /\
  [][ \/ AccountsNext /\ UNCHANGED address_vars
      \/ AddressesNext /\ UNCHANGED account_vars ]_partner_vars

(***************************************************************************)
(* Properties                                                               *)
(***************************************************************************)
\* Who comes into a gated stage is complete at that moment, by whichever way:
\* by hand, together with other changes, or by what the website sends.
OnlyCompleteRegister ==
  [][\A a \in Account :
       (acct'[a].stage \in Gated /\ acct'[a].stage # acct[a].stage)
         => Complete(acct'[a])]_partner_vars

\* "Only ever forwards, and never out of Converted"; and a verification is not
\* undone by the initial status of the platform's copy.
WebsiteNeverTakesBack ==
  [][\A a \in Account : acct'[a] # acct[a] =>
       \A p \in Profile : WebsiteSays(a, p) =>
         /\ Rank(acct'[a].stage) >= Rank(acct[a].stage)
         /\ acct[a].kyc \in {"verified", "manual_verified"} => acct'[a].kyc # "pending"
       ]_partner_vars

\* A delivery address carries a person's name only if it was entered with it and
\* never written since: no write leaves it a name or gives it one, whatever it was
\* before, and none is ever made of a text with one.
Unnamed(b, c) ==
  \A x \in Address :
    (c[x].type = "delivery" /\ c[x].person)
      => c[x] = b[x] \/ (b[x].type = Nil /\ c[x].text = Nil)

NoNameSurvives == [][Unnamed(box, box')]_partner_vars

\* "Idempotent by design": a second run of the migration, right after the first
\* one, changes nothing.
MigrationSettles ==
  RoomToMigrate =>
    \A block \in Text \ Junk :
      LET once == Migrated([box |-> box, ship |-> shipTo], block)
      IN  Fresh(once.box) # {} => Migrated(once, block) = once

\* Refuted: "create()/write() below already guarantee at most one primary per
\* parent".
AtMostOnePrimary ==
  \A x, y \in Deliveries(box) : (box[x].primary /\ box[y].primary) => x = y

\* An account only moves on, and into a gated stage only when complete.
AccountsMoveOn == OnlyCompleteRegister /\ WebsiteNeverTakesBack

\* A write of a delivery address leaves no name on it, and what the migration made
\* it leaves alone.
AddressesSettle == NoNameSurvives /\ []MigrationSettles
=============================================================================
