---------------------------- MODULE MCOfflinePush ----------------------------
EXTENDS OfflinePush, TLC
CONSTANTS a, b, c, p
MCLineSeq == <<a, b, c>>
MCSizeLine == (a :> p) @@ (b :> p) @@ (c :> NoSize)
MCMoves == {<<"diamond_booked", "in_qc_process">>, <<"in_qc_process", "qc_fail">>}
=============================================================================
