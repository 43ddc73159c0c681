------------------------------ MODULE MCOffice ------------------------------
(***************************************************************************)
(* Small instances of the components that share no state with each other   *)
(* in their modules: a run takes one of them, `part`, through its steps    *)
(* while the others rest in an initial state.                              *)
(***************************************************************************)
EXTENDS CustomerRfq, Transfers, WebsiteOrders, Partners, Channels, DocSeries,
        Assets, Payments, StatusApi, ReplacementPush, Delayables, TLC

CONSTANTS r1, r2, u1, g1, g2, g3, v1, v2, w1, w2

VARIABLE part

\* CustomerRfq: quotes of two rows of carats or of pieces, of a parcel, and of
\* the time before there were rows; a margin that falls with the weight.
Blank == [kind |-> "rows", pieces |-> FALSE, qty |-> [r \in SizeRow |-> 0],
          perPiece |-> 0, weight |-> 0, count |-> 0]
MCShape ==
  {[Blank EXCEPT !.qty = (r1 :> x) @@ (r2 :> y)] : x \in {18, 44, 66}, y \in {22, 110}}
  \union {[Blank EXCEPT !.pieces = TRUE, !.perPiece = p, !.qty = (r1 :> x) @@ (r2 :> 44)] :
            p \in {0, 5}, x \in {132, 66}}
  \union {[Blank EXCEPT !.kind = "parcel", !.weight = 110, !.count = n] : n \in {0, 3}}
  \union {[Blank EXCEPT !.kind = "legacy", !.weight = 53, !.count = n] : n \in {0, 3}}
MCMargin == [i \in 0..9 |-> 30 - 2 * i]

\* Transfers: three stones of two vendors, and how lines die beside them.
MCSoldBy == (g1 :> v1) @@ (g2 :> v2) @@ (g3 :> v2)
MCDeaths ==
  {<<"confirmed", "not_available">>, <<"not_available", "replaced">>,
   <<"in_qc_process", "cancelled">>, <<"payment_completed", "cancelled">>,
   <<"qc_fail", "replaced">>, <<"dispatched", "cancelled">>}

\* WebsiteOrders: an invoice with a faulty parcel and its correction, and
\* another that sells the same certificate, and a stone without a number.
Loose(n, c, k, s) ==
  [kind |-> "stone", number |-> n, cert |-> c, sku |-> k, stock |-> s,
   stone |-> s, children |-> {}, faulty |-> FALSE]
Bagged(n, kids, bad) ==
  [kind |-> "parcel", number |-> n, cert |-> None, sku |-> None, stock |-> None,
   stone |-> "p", children |-> kids, faulty |-> bad]
MCCart == [c \in Call |->
  IF c = "other"
  THEN [invoice |-> "i2", entries |-> <<Loose("4", "c1", None, "a"), Loose(None, "c5", "k5", "d")>>]
  ELSE [invoice |-> "i1",
        entries |-> <<Loose("1", "c1", "k1", "a"), Bagged("2", {1, 2}, c = "bad"),
                      Loose("3", None, "k3", "b")>>]]

\* These calls are as CallsAreBooked supposes calls to be.
ASSUME MCUnambiguous == Unambiguous

\* Partners
MCProfile ==
  [country : {Nil, "IN", "BH"}, full : {TRUE}, numbers : {{}, {"vat"}, {"ein"}},
   kyc : {"pending", "failed"}]

\* Channels: a sequential channel and a throttled one under the root.
MCDownstream == [c \in Chan \ {Root} |-> Root]
MCBelow == [c \in Chan |-> {Root} \ {c}]
MCOrderOfChannels == <<"s", "t", "root">>
MCRoom == [c \in Chan |-> IF c = "root" THEN 2 ELSE 1]
MCDelay == [c \in Chan |-> IF c = "t" THEN 2 ELSE 0]
MCHome == [j \in Task |-> IF j = 1 THEN "s" ELSE "t"]
MCOrder == [j \in Task |-> j]

\* DocSeries: three documents, the second one offline, of one type.
MCKind == [s \in Series |-> "memo_out"]
MCColumn == [d \in Doc |-> IF d = 2 THEN "off" ELSE "on"]

\* Assets: a linear asset that goes by an ending date, is confirmed by hand and may
\* be made twice, and a degressive one with a number of entries that is prorated,
\* runs at once and is posted by group.
MCCategory == [b \in Bill |->
  [linear |-> b = 1, prorata |-> b = 2, opens |-> b = 2, grouped |-> b = 2,
   number |-> 2, byEnd |-> b = 1, ends |-> 1]]
MCPrice == [b \in Bill |-> IF b = 1 THEN 5 ELSE 3]
MCCopies == [b \in Bill |-> IF b = 1 THEN 2 ELSE 1]
MCFactor == <<1, 3>>
MCFirstShare == <<1, 2>>

\* Payments
MCItemPrice == [i \in Item |-> 1]

\* StatusApi: lines 1 and 2 of one order, line 3 of another.
MCOrderOf == [l \in ApiLine |-> IF l = 3 THEN "O2" ELSE "O1"]
MCFirstStatus == [l \in ApiLine |-> "dispatched"]
Says(l, s) == [line |-> l, status |-> s, valid |-> TRUE]
Bad(l, s) == [line |-> l, status |-> s, valid |-> FALSE]
MCEntries == [r \in Request |->
  CASE r = "single" -> <<Says(1, "delivered")>>
    [] r = "bulk" -> <<Says(2, "delivered"), Bad(3, "payment_completed"), Says(3, "cancelled")>>
    [] r = "list" -> <<Says(3, "confirmed"), Says(1, "return_of_order"), Says(1, "delivered")>>
    [] r = "form" -> <<Says(2, "delivered")>>]

Part == {"rfq", "transfers", "website", "accounts", "addresses", "channels",
         "docs", "assets", "payments", "api", "push", "delay"}

\* One of its initial states for a component that rests.
OfficeInit ==
  /\ part \in Part
  /\ RfqInit /\ (part # "rfq" => shape = (CHOOSE s \in Shape : TRUE) /\ ~rfq.dollars)
  /\ TransfersInit /\ (part # "transfers" => due = {})
  /\ WebsiteInit /\ AccountsInit /\ AddressesInit
  /\ ChannelsInit /\ (part # "channels" => \A j \in Task : row[j].eta = 0)
  /\ DocsInit /\ AssetsInit /\ PaymentsInit /\ ApiInit /\ PushInit /\ DelayInit

OfficeNext ==
  /\ \/ part = "rfq" /\ RfqNext
     \/ part = "transfers" /\ TransfersNext
     \/ part = "website" /\ WebsiteNext
     \/ part = "accounts" /\ AccountsNext
     \/ part = "addresses" /\ AddressesNext
     \/ part = "channels" /\ ChannelsNext
     \/ part = "docs" /\ DocsNext
     \/ part = "assets" /\ AssetsNext
     \/ part = "payments" /\ PaymentsNext
     \/ part = "api" /\ ApiNext
     \/ part = "push" /\ PushNext
     \/ part = "delay" /\ DelayNext
  /\ UNCHANGED part
  /\ part # "rfq" => UNCHANGED rfq_vars
  /\ part # "transfers" => UNCHANGED transfer_vars
  /\ part # "website" => UNCHANGED website_vars
  /\ part # "accounts" => UNCHANGED account_vars
  /\ part # "addresses" => UNCHANGED address_vars
  /\ part # "channels" => UNCHANGED channel_vars
  /\ part # "docs" => UNCHANGED doc_vars
  /\ part # "assets" => UNCHANGED asset_vars
  /\ part # "payments" => UNCHANGED payment_vars
  /\ part # "api" => UNCHANGED api_vars
  /\ part # "push" => UNCHANGED push_vars
  /\ part # "delay" => UNCHANGED delay_vars

office_vars ==
  <<part, rfq_vars, transfer_vars, website_vars, partner_vars, channel_vars,
    doc_vars, asset_vars, payment_vars, api_vars, push_vars, delay_vars>>
OfficeSpec == OfficeInit /\ [][OfficeNext]_office_vars

\* The components' variables keep their types.
OfficeTypeOK ==
  /\ part \in Part
  /\ RfqTypeOK /\ TransfersTypeOK /\ WebsiteTypeOK /\ PartnersTypeOK
  /\ ChannelsTypeOK /\ DocTypeOK /\ AssetsTypeOK /\ PaymentsTypeOK
  /\ ApiTypeOK /\ PushTypeOK /\ DelayTypeOK
=============================================================================
