---------------------------- MODULE MCStatusSync ----------------------------
(* Small instances of StatusSync.                                          *)
EXTENDS StatusSync

CONSTANTS a, b, r1, r2

MCLines == {a, b}
MCReqs == {r1, r2}

\* Statuses a line takes at most once, the last one set by the website.
MCForward == {"Diamond Booked", "In QC process", "Payment Pending",
              "Payment Completed"}
MCFailCodes == {"EXCEPTION", "408"}
MCSiteWords == {"Payment Completed"}

=============================================================================
