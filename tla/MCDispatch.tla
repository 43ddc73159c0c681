----------------------------- MODULE MCDispatch -----------------------------
(* A small instance of Dispatch.                                           *)
EXTENDS Dispatch, TLC

CONSTANTS s1, s2, p1, p2, a1, a2

\* A stone a vendor owns, and one of ours whose purchase record is gone and
\* whose line may be cancelled.
MCStone == {s1, s2}
MCHeld == {s1}
MCRecorded == {s1}
MCCancellable == {s2}
MCFirstDest == [s \in MCStone |-> a1]

MCParcel == {p1, p2}
MCAddress == {a1, a2}
MCSymmetry == Permutations(Parcel)
=============================================================================
