---------------------------- MODULE MCReplacement ----------------------------
(* Small instances of Replacement: an order of one stone and places for two *)
(* more lines, typed in or replacements, all from one vendor.               *)
EXTENDS Replacement

CONSTANTS a, n1, n2, v

MCLineSeq == <<a, n1, n2>>
MCSpares == {n1, n2}
MCSelections == {{a}, {n1}, {a, n1}}
MCOneVendor == [l \in {a, n1, n2} |-> v]
MCSite == {"in_qc_process", "qc_fail", "payment_pending", "cancelled"}
=============================================================================
