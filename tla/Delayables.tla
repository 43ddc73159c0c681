----------------------------- MODULE Delayables -----------------------------
(***************************************************************************)
(* Graphs of jobs before they are jobs (queue_job/delay.py).  A program     *)
(* makes delayables, chains and groups of them, connects them with on_done, *)
(* and delays one of them: the graphs of all it reaches are merged into one *)
(* between plain delayables, whose jobs are stored with their dependencies, *)
(* or run at once in a topological order (tests).                           *)
(*                                                                          *)
(* An object is a number: 1..Leaves are delayables, the others are chains   *)
(* and groups, made of objects made before them.                            *)
(***************************************************************************)
EXTENDS Integers, Sequences, FiniteSets, SequencesExt

CONSTANTS
  Leaves,      \* number of delayables
  MaxObjects,  \* bound of the objects
  MaxOnDone,   \* bound of the calls of on_done
  Keyed,       \* delayables with an identity key
  MayExist     \* keys of which the queue may hold a job that has not started

ASSUME DelayablesAssumption ==
  /\ Leaves \in Nat \ {0} /\ MaxObjects \in Nat /\ MaxOnDone \in Nat
  /\ MayExist \subseteq Keyed /\ Keyed \subseteq 1..Leaves

VARIABLES
  made,     \* chains and groups: [kind, parts]
  arrows,   \* calls of on_done: <<parent, child>>
  jobs,     \* stored: [delayable -> its job's parents]
  direct,   \* run at once: [todo, left, ran, graph], or NotYet
  root,     \* the object that was delayed
  phase     \* "building", "delayed", "direct"

delay_vars == <<made, arrows, jobs, direct, root, phase>>

Leaf == 1..Leaves
Objects == 1..(Leaves + Len(made))
NotYet == [todo |-> <<>>, left |-> <<>>, ran |-> <<>>, graph |-> {}]
KindOf(x) == IF x \in Leaf THEN "job" ELSE made[x - Leaves].kind
Parts(x) == IF x \in Leaf THEN <<x>> ELSE made[x - Leaves].parts
Called(x) == {a[2] : a \in {b \in arrows : b[1] = x}}

-----------------------------------------------------------------------------
(* The graph each object keeps.                                            *)

\* What on_done connects in it: of a chain its last part, of a group each.
Ends(x) == IF KindOf(x) = "group" THEN ToSet(Parts(x)) ELSE {Last(Parts(x))}

OwnVertices(x) == ToSet(Parts(x)) \union Called(x)
OwnEdges(x) ==
  (IF KindOf(x) = "chain" THEN {<<Parts(x)[i], Parts(x)[i + 1]>> : i \in 1..(Len(Parts(x)) - 1)} ELSE {})
  \union (Ends(x) \X Called(x))

\* _head and _tail.  Those of a chain ask its first part for its tail and its
\* last part for its head.
HeadTail ==
  LET f[x \in Objects] ==
        CASE KindOf(x) = "job"   -> [head |-> {x}, tail |-> {x}]
          [] KindOf(x) = "group" -> [head |-> UNION {f[p].head : p \in ToSet(Parts(x))},
                                   tail |-> UNION {f[p].tail : p \in ToSet(Parts(x))}]
          [] KindOf(x) = "chain" -> [head |-> f[Head(Parts(x))].tail, tail |-> f[Last(Parts(x))].head]
  IN  f

\* The graphs _connect_graphs visits from x.
Visited(x) ==
  LET f[n \in 0..Cardinality(Objects)] ==
        IF n = 0 THEN {x} ELSE f[n - 1] \union UNION {OwnVertices(y) : y \in f[n - 1]}
  IN  f[Cardinality(Objects)]

\* Mutant: a part is connected by its heads.
MergedByHeads(y) ==
  UNION {HeadTail[e[1]].head \X HeadTail[e[2]].head : e \in OwnEdges(y)}

\* _merge_graph: from the tails of a vertex to the heads of its neighbours.
MergedEdges(y) == UNION {HeadTail[e[1]].tail \X HeadTail[e[2]].head : e \in OwnEdges(y)}

Vertices(x) == Visited(x) \cap Leaf
Edges(x) == UNION {MergedEdges(y) : y \in Visited(x)}

-----------------------------------------------------------------------------
(* The program.                                                            *)

Used == UNION {ToSet(made[i].parts) : i \in DOMAIN made}

Make(kind, parts) ==
  /\ phase = "building" /\ Len(made) < MaxObjects - Leaves
  /\ ToSet(parts) \cap Used = {} /\ IsInjective(parts)
  /\ made' = Append(made, [kind |-> kind, parts |-> parts])
  /\ UNCHANGED <<arrows, jobs, direct, root, phase>>
Chain(parts) == Make("chain", parts)
\* A group is a set: one order of its parts stands for all.
Group(parts) == \A i \in 1..(Len(parts) - 1) : parts[i] < parts[i + 1] /\ Make("group", parts)

OnDone(x, y) ==
  /\ phase = "building" /\ Cardinality(arrows) < MaxOnDone /\ x # y /\ <<x, y>> \notin arrows
  /\ arrows' = arrows \union {<<x, y>>}
  /\ UNCHANGED <<made, jobs, direct, root, phase>>

\* add_depends refuses a job that depends on itself.
DependsOnItself(x) == \E l \in Leaf : <<l, l>> \in Edges(x)

\* delay(): unless every job with a key has one in the queue already, all
\* are stored.
DelayGraph(x) ==
  /\ phase = "building" /\ ~DependsOnItself(x) /\ phase' = "delayed" /\ root' = x
  /\ \E exist \in SUBSET MayExist :
       LET keyed == Vertices(x) \cap Keyed
       IN  jobs' = IF keyed # {} /\ keyed \subseteq exist THEN <<>>
                   ELSE [l \in Vertices(x) |-> {e[1] : e \in {d \in Edges(x) : d[2] = l}}]
  /\ UNCHANGED <<made, arrows, direct>>

\* _execute_graph_direct and topological_sort, one delayable a step.
Roots(vs, es) == vs \ {e[2] : e \in es}
DelayDirect(x) ==
  /\ phase = "building" /\ phase' = "direct" /\ root' = x
  /\ \E order \in SetToSeqs(Roots(Vertices(x), Edges(x))) :
       direct' = [todo |-> order, graph |-> Edges(x), ran |-> <<>>,
                  left |-> [l \in Vertices(x) |-> Cardinality({e \in Edges(x) : e[2] = l})]]
  /\ UNCHANGED <<made, arrows, jobs>>

\* Those no other parent of is still to run.
Free(left, children) == {c \in children : left[c] = 0}

RunNext ==
  LET v == Head(direct.todo)
      children == {e[2] : e \in {d \in direct.graph : d[1] = v}}
      left == [l \in DOMAIN direct.left |-> IF l \in children THEN direct.left[l] - 1 ELSE direct.left[l]]
  IN  /\ phase = "direct" /\ direct.todo # <<>>
      /\ \E order \in SetToSeqs(Free(left, children)) :
           direct' = [direct EXCEPT !.todo = Tail(@) \o order, !.left = left, !.ran = Append(@, v)]
      /\ UNCHANGED <<made, arrows, jobs, root, phase>>

DelayInit ==
  /\ made = <<>> /\ arrows = {} /\ jobs = <<>> /\ direct = NotYet /\ root = 1 /\ phase = "building"

DelayNext ==
  \/ \E k \in 2..3 : \E parts \in [1..k -> Objects] : Chain(parts) \/ Group(parts)
  \/ \E x, y \in Objects : OnDone(x, y)
  \/ \E x \in Objects : DelayGraph(x) \/ DelayDirect(x)
  \/ RunNext

DelaySpec == DelayInit /\ [][DelayNext]_delay_vars

DelayTypeOK ==
  /\ phase \in {"building", "delayed", "direct"} /\ DOMAIN jobs \subseteq Leaf
  /\ \A l \in DOMAIN jobs : jobs[l] \subseteq DOMAIN jobs
  /\ ToSet(direct.ran) \subseteq Leaf

-----------------------------------------------------------------------------
\* The delayables an object is made of, and what comes after what by the words
\* of the documentation: the parts of a chain one after the other, what was
\* given to on_done after the whole object.
JobsOf == LET f[x \in Objects] == IF x \in Leaf THEN {x} ELSE UNION {f[p] : p \in ToSet(Parts(x))}
          IN  f
Promised ==
  {o \in Objects \X Objects :
     \/ o \in arrows /\ o[1] \in Visited(root)
     \/ \E c \in Visited(root) : KindOf(c) = "chain" /\ \E i \in 1..(Len(Parts(c)) - 1) :
          Parts(c)[i] = o[1] /\ Parts(c)[i + 1] = o[2]}

\* What comes after a by the pairs of R: what is in every set that has whatever
\* follows a or a member of it.
After(R, a) ==
  {b \in Leaf : \A C \in SUBSET Leaf :
                 (\A e \in R : e[1] = a \/ e[1] \in C => e[2] \in C) => b \in C}
Before(R, x, y) == \A a \in JobsOf[x], b \in JobsOf[y] : b \in After(R, a)
Depends(js) == {e \in Leaf \X Leaf : e[2] \in DOMAIN js /\ e[1] \in js[e[2]]}

\* Without a chain in it; and without a chain in it that begins or ends with one.
Bunched(x) ==
  \E B \in SUBSET Objects :
    x \in B /\ \A y \in B : KindOf(y) # "chain" /\ ToSet(Parts(y)) \subseteq B
Straight(x) ==
  \E B \in SUBSET Objects :
    /\ x \in B
    /\ \A y \in B : /\ ToSet(Parts(y)) \subseteq B
                    /\ KindOf(y) = "chain" => Bunched(Head(Parts(y))) /\ Bunched(Last(Parts(y)))

\* Whatever part of it is delayed, the jobs that are stored wait for the jobs
\* the program put before them, directly or through others, however chains and
\* groups nest, if only no chain begins or ends with a chain.
StoredInOrder ==
  phase = "delayed" => \A p \in Promised :
    Straight(p[1]) /\ Straight(p[2]) /\ JobsOf[p[1]] \union JobsOf[p[2]] \subseteq DOMAIN jobs
    => Before(Depends(jobs), p[1], p[2])

\* Refuted: the same for every nesting ("A chain means that jobs must be executed
\* sequentially", docstring of DelayableChain).
ChainsInOrder ==
  \A p \in Promised :
    /\ JobsOf[p[1]] \union JobsOf[p[2]] \subseteq DOMAIN jobs
    /\ JobsOf[p[1]] \intersect JobsOf[p[2]] = {}
    => Before(Depends(jobs), p[1], p[2])

\* Run at once, each job of the graph runs after all it depends on, and once;
\* all run when no job waits for itself.
RunsInOrder ==
  phase = "direct" =>
    LET ran == direct.ran
    IN  /\ IsInjective(ran)
        /\ \A i \in DOMAIN ran : \A e \in direct.graph :
             e[2] = ran[i] => \E j \in 1..(i - 1) : ran[j] = e[1]
        /\ direct.todo = <<>> /\ ToSet(ran) # DOMAIN direct.left
             => \E l \in Leaf : l \in After(direct.graph, l)

\* Stored or run at once, jobs come in the order the program gave them.
JobsInOrder == StoredInOrder /\ RunsInOrder
=============================================================================
