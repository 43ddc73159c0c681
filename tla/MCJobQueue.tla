----------------------------- MODULE MCJobQueue -----------------------------
(***************************************************************************)
(* Small instances of JobQueue: two jobs in a chain, or two jobs that a    *)
(* third one waits for.                                                    *)
(***************************************************************************)
EXTENDS JobQueue, TLC

CONSTANTS a, b, c, w1, w2

Chain == (a :> {}) @@ (b :> {a})
Join  == (a :> {}) @@ (b :> {}) @@ (c :> {a, b})

\* Workers are alike, and so are the two parents of a join.
AlikeWorkers == Permutations(Worker)
AlikeParents == Permutations({a, b}) \cup Permutations(Worker)

=============================================================================
