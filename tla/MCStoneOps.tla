----------------------------- MODULE MCStoneOps -----------------------------
(***************************************************************************)
(* Small instances of StoneOps: two stones of one order on one RFQ, either *)
(* of which can be split off; or three stones, the third of another order, *)
(* merged on one RFQ (a multi-source RFQ), one of which can be split off.  *)
(***************************************************************************)
EXTENDS StoneOps, TLC

CONSTANTS s1, s2, s3, l1, l2, l3, l4, l5, p1, p2, o1, o2

\* Two stones of one order on one RFQ; each can be split off once.
TwoStones   == {s1, s2}
TwoLines    == {l1, l2, l4, l5}
TwoStoneOf  == (l1 :> s1) @@ (l2 :> s2) @@ (l4 :> s1) @@ (l5 :> s2)
TwoOrderOf  == (s1 :> o1) @@ (s2 :> o1)
TwoRfq      == (s1 :> p1) @@ (s2 :> p1)
TwoFirst    == (s1 :> l1) @@ (s2 :> l2)

\* ... and a third stone, sold from stock: no purchase line.
WithStock     == {s1, s2, s3}
WithStockOrderOf == TwoOrderOf @@ (s3 :> o1)

\* Two stones of two sale orders, merged on one RFQ; one can be split off.
MergedLines   == {l1, l2, l5}
MergedStoneOf == (l1 :> s1) @@ (l2 :> s2) @@ (l5 :> s2)
MergedOrderOf == (s1 :> o1) @@ (s2 :> o2)

\* The sale side writes every status.
AnyWord == Status

=============================================================================
