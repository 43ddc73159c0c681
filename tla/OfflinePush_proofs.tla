-------------------------- MODULE OfflinePush_proofs --------------------------
(***************************************************************************)
(* The offline push, for an order of any number of lines and parcels, any  *)
(* number of retry rows and every way the website may answer.              *)
(*                                                                         *)
(* RoutedInv says that every payload the website has or may still get is   *)
(* made of disjoint groups, each under the id of one of its own lines, and *)
(* that ids are learnt at once and once.  CompleteInv adds that no payload *)
(* misses a living line while users revive none, SentAlive that none is     *)
(* sent dead.                                                              *)
(*                                                                         *)
(* In the other direction, the orders the website brings (WebsiteOrders),  *)
(* for any calls, repeated by any number of processes at a time: OrdersInv *)
(* says that the committed tables are good, that each call being served    *)
(* computes on earlier ones, and that what was answered is shown.          *)
(***************************************************************************)
EXTENDS OfflinePush, WebsiteOrders, CountingUp, FiniteSetTheorems, SequenceTheorems, TLAPS

USE OfflinePushAssumption

(***************************************************************************)
(* Choosing: the lowest line, the least advanced status.                   *)
(***************************************************************************)

\* Every line has an index.
LEMMA IndexFacts ==
    ASSUME NEW l \in Line
    PROVE  IndexOf(l) \in DOMAIN LineSeq /\ IndexOf(l) \in Nat /\ LineSeq[IndexOf(l)] = l
<1>1. \E i \in DOMAIN LineSeq : LineSeq[i] = l
  BY DEF Line
<1>2. IndexOf(l) \in DOMAIN LineSeq /\ LineSeq[IndexOf(l)] = l
  BY <1>1 DEF IndexOf
<1>3. DOMAIN LineSeq \subseteq Nat
  OBVIOUS
<1> QED  BY <1>2, <1>3

\* The lowest line of some lines is one of them.
LEMMA LowestFacts ==
    ASSUME NEW S \in SUBSET Line, S # {}
    PROVE  Lowest(S) \in S
<1> DEFINE I == {IndexOf(l) : l \in S}
<1>1. I \in SUBSET Nat /\ I # {}
  BY IndexFacts
<1>2. PICK i \in I : \A j \in I : i <= j
  BY <1>1, LeastOf
<1>3. \E l \in S : \A m \in S : IndexOf(l) <= IndexOf(m)
  BY <1>2
<1> QED  BY <1>3 DEF Lowest

\* A live status is one of the pipeline's.
LEMMA LiveFacts ==
    ASSUME NEW w \in Statuses, w \notin Dead
    PROVE  \E i \in DOMAIN Progression : w = Progression[i]
BY DEF Statuses

\* No status of the pipeline is a dead one.
LEMMA PipelineLives ==
    ASSUME NEW i \in DOMAIN Progression
    PROVE  Progression[i] \in Statuses /\ Progression[i] \notin Dead /\ i \in Nat
<1>1. i \in 1..10
  BY DEF Progression
<1>2. Progression[i] \in {"diamond_booked", "confirmed", "in_qc_process", "payment_pending",
    "payment_completed", "dispatched", "return_of_order", "re_dispatched",
    "delivered", "order_completed"}
  BY <1>1 DEF Progression
<1> QED  BY <1>1, <1>2 DEF Statuses, Dead

(***************************************************************************)
(* Groups                                                                  *)
(***************************************************************************)
KinOf(l, b) == {m \in Line : KeyOf(m, b) = KeyOf(l, b)}
MembersOf(st, l, b) == KinOf(l, b) \intersect LiveIn(st)
GroupOf(st, l, b) ==
    [head |-> HeadOf(MembersOf(st, l, b), KinOf(l, b)),
     members |-> MembersOf(st, l, b), kin |-> KinOf(l, b)]

\* The groups are those of the live lines.
LEMMA GroupsFacts ==
    ASSUME NEW st, NEW b
    PROVE  Groups(st, b) = {GroupOf(st, l, b) : l \in LiveIn(st)}
BY DEF Groups, GroupOf, MembersOf, KinOf

\* Lines of one key are one line or lines of one parcel.
LEMMA KeyFacts ==
    ASSUME NEW l \in Line, NEW m \in Line, NEW b, KeyOf(l, b) = KeyOf(m, b)
    PROVE  l = m \/ SameParcel(l, m)
BY DEF KeyOf, SameParcel

\* A group has the line it is the group of.
LEMMA OwnGroup ==
    ASSUME NEW st, NEW b, NEW l \in LiveIn(st)
    PROVE  /\ l \in MembersOf(st, l, b) /\ l \in KinOf(l, b) /\ l \in Line
           /\ MembersOf(st, l, b) \subseteq Line /\ KinOf(l, b) \subseteq Line
BY DEF MembersOf, KinOf, LiveIn

(***************************************************************************)
(* What is sent                                                            *)
(***************************************************************************)

\* The payload of an order none of whose lines has an id.
EntryOf(l) ==
    LET g == GroupOf(status, l, TRUE)
    IN  [ref |-> g.head, stands |-> g.members, word |-> CreateWord(g)]

\* The payload has the entry of each living line.
LEMMA PayloadEntries == Payload = {EntryOf(l) : l \in LiveIn(status)}
BY GroupsFacts DEF Payload, EntryOf

\* An entry stands for the living lines of its key, one of which heads it.
LEMMA EntryFacts ==
    ASSUME TypeOK, \A l \in Line : number[l] = NoNumber, NEW l \in LiveIn(status)
    PROVE  /\ EntryOf(l) \in Entry
           /\ EntryOf(l).stands = MembersOf(status, l, TRUE)
           /\ EntryOf(l).ref \in EntryOf(l).stands
           /\ l \in EntryOf(l).stands
           /\ EntryOf(l).word \notin Dead
<1> DEFINE M == MembersOf(status, l, TRUE)
           K == KinOf(l, TRUE)
           g == GroupOf(status, l, TRUE)
<1>1. l \in M /\ M \subseteq Line /\ K \subseteq Line
  BY OwnGroup
<1>2. Holders(K) = {}
  BY <1>1 DEF Holders
<1>3. HeadOf(M, K) = Lowest(M)
  BY <1>2 DEF HeadOf
<1>4. g.head = Lowest(M) /\ g.members = M
  BY <1>3 DEF GroupOf
<1>5. Lowest(M) \in M
  BY <1>1, LowestFacts
<1>6. CreateWord(g) \in {"diamond_booked", "confirmed"}
  BY DEF CreateWord, CreateStatuses
<1>7. {"diamond_booked", "confirmed"} \subseteq Statuses \ Dead
  <2>1. 1 \in DOMAIN Progression /\ 2 \in DOMAIN Progression
    BY DEF Progression
  <2>2. Progression[1] = "diamond_booked" /\ Progression[2] = "confirmed"
    BY DEF Progression
  <2> QED  BY <2>1, <2>2, PipelineLives
<1> QED  BY <1>1, <1>4, <1>5, <1>6, <1>7 DEF EntryOf, Entry

\* A payload is made of disjoint groups that cover what lives.
LEMMA PayloadFacts ==
    ASSUME TypeOK, \A l \in Line : number[l] = NoNumber
    PROVE  /\ Payload \subseteq Entry /\ Refs(Payload) \subseteq Line
           /\ WellMade(Payload)
           /\ Covers(Payload)
           /\ \A e \in Payload : e.word \notin Dead
<1>1. Payload \subseteq Entry /\ Covers(Payload) /\ \A e \in Payload : e.word \notin Dead
  BY PayloadEntries, EntryFacts DEF Covers
<1>2. Refs(Payload) \subseteq Line
  BY <1>1 DEF Refs, Entry
<1>3. ASSUME NEW l \in LiveIn(status), NEW m \in Line, m \in EntryOf(l).stands
      PROVE  KeyOf(m, TRUE) = KeyOf(l, TRUE)
  BY <1>3, EntryFacts DEF MembersOf, KinOf
<1>4. ASSUME NEW l \in LiveIn(status), NEW m \in LiveIn(status), KeyOf(m, TRUE) = KeyOf(l, TRUE)
      PROVE  EntryOf(l) = EntryOf(m)
  <2>1. KinOf(l, TRUE) = KinOf(m, TRUE)
    BY <1>4 DEF KinOf
  <2>2. GroupOf(status, l, TRUE) = GroupOf(status, m, TRUE)
    BY <2>1 DEF GroupOf, MembersOf
  <2> QED  BY <2>2 DEF EntryOf
<1>5. \A l \in LiveIn(status) : EntryOf(l).ref \in EntryOf(l).stands /\ EntryOf(l).stands \subseteq Line
  <2> SUFFICES ASSUME NEW l \in LiveIn(status)
               PROVE  EntryOf(l).ref \in EntryOf(l).stands /\ EntryOf(l).stands \subseteq Line
    OBVIOUS
  <2>1. EntryOf(l).ref \in EntryOf(l).stands /\ EntryOf(l).stands = MembersOf(status, l, TRUE)
    BY EntryFacts
  <2>2. MembersOf(status, l, TRUE) \subseteq Line
    BY OwnGroup
  <2> QED  BY <2>1, <2>2
<1>6. ASSUME NEW l \in LiveIn(status), NEW m \in EntryOf(l).stands
      PROVE  m = EntryOf(l).ref \/ SameParcel(m, EntryOf(l).ref)
  <2> DEFINE r == EntryOf(l).ref
  <2>1. r \in Line /\ m \in Line
    BY <1>5
  <2>2. KeyOf(m, TRUE) = KeyOf(l, TRUE) /\ KeyOf(r, TRUE) = KeyOf(l, TRUE)
    BY <2>1, <1>3, <1>5
  <2> HIDE DEF r
  <2>3. KeyOf(m, TRUE) = KeyOf(r, TRUE)
    BY <2>2
  <2>4. m = r \/ SameParcel(m, r)
    BY <2>1, <2>3, KeyFacts
  <2> QED  BY <2>4 DEF r
<1>7. ASSUME NEW l \in LiveIn(status), NEW m \in LiveIn(status), EntryOf(l) # EntryOf(m)
      PROVE  EntryOf(l).stands \cap EntryOf(m).stands = {}
  <2> SUFFICES ASSUME NEW x, x \in EntryOf(l).stands, x \in EntryOf(m).stands PROVE FALSE
    OBVIOUS
  <2>1. x \in Line
    BY <1>5
  <2>2. KeyOf(x, TRUE) = KeyOf(l, TRUE) /\ KeyOf(x, TRUE) = KeyOf(m, TRUE)
    BY <2>1, <1>3
  <2> QED  BY <2>2, <1>4, <1>7
<1>8. ASSUME NEW l \in LiveIn(status), NEW m \in LiveIn(status), EntryOf(l) # EntryOf(m),
             SameParcel(EntryOf(l).ref, EntryOf(m).ref)
      PROVE  EntryOf(l).stands = {EntryOf(l).ref}
  <2> DEFINE r == EntryOf(l).ref
             q == EntryOf(m).ref
  <2>1. r \in Line /\ q \in Line
    BY <1>5
  <2>2. KeyOf(r, TRUE) = KeyOf(l, TRUE) /\ KeyOf(q, TRUE) = KeyOf(m, TRUE)
    BY <2>1, <1>3, <1>5
  <2>3. SameParcel(r, q)
    BY <1>8
  <2> HIDE DEF r, q
  <2>4. KeyOf(r, TRUE) # KeyOf(q, TRUE)
    BY <2>2, <1>4, <1>8
  <2>5. grouping # "parcels"
    BY <2>3, <2>4 DEF KeyOf, SameParcel
  <2>6. \A x \in Line : KeyOf(x, TRUE) = KeyOf(r, TRUE) => x = r
    BY <2>5 DEF KeyOf
  <2>7. \A x \in EntryOf(l).stands : x = r
    BY <2>6, <2>2, <1>3, <1>5
  <2> QED  BY <2>7, <1>5 DEF r
<1>9. WellMade(Payload)
  BY <1>5, <1>6, <1>7, <1>8, PayloadEntries DEF WellMade
<1> QED  BY <1>1, <1>2, <1>9

\* An order that needs a push has something to send.
LEMMA SomethingToSend ==
    ASSUME NeedsPush
    PROVE  ~pushed /\ Payload # {}
<1>1. PICK g \in Groups(status, FALSE) : TRUE
  BY DEF NeedsPush
<1>2. PICK l \in LiveIn(status) : TRUE
  BY <1>1, GroupsFacts
<1> QED  BY <1>2, PayloadEntries DEF NeedsPush

(***************************************************************************)
(* What the website has                                                    *)
(***************************************************************************)

\* T is S with other words: what a batch of statuses, or a change by the
\* website, makes of its entries.
Retold(S, T) ==
    /\ T \subseteq Entry
    /\ \A x \in T : \E e \in S : x.ref = e.ref /\ x.stands = e.stands
    /\ \A e \in S : \E x \in T : x.ref = e.ref /\ x.stands = e.stands
    /\ \A x, y \in T : x.ref = y.ref => x = y

\* Entries of which only the word changed are as well made as before.
LEMMA RetoldFacts ==
    ASSUME NEW S, NEW T, WellMade(S), Retold(S, T)
    PROVE  WellMade(T) /\ Refs(T) = Refs(S) /\ (T = {} <=> S = {})
<1>1. Refs(T) = Refs(S) /\ (T = {} <=> S = {})
  BY DEF Retold, Refs
<1>2. ASSUME NEW x \in T, NEW y \in T, x # y
      PROVE  /\ x.stands \cap y.stands = {}
             /\ SameParcel(x.ref, y.ref) => x.stands = {x.ref}
  <2>1. PICK e \in S : x.ref = e.ref /\ x.stands = e.stands
    BY DEF Retold
  <2>2. PICK f \in S : y.ref = f.ref /\ y.stands = f.stands
    BY DEF Retold
  <2>3. e # f
    BY <1>2, <2>1, <2>2 DEF Retold
  <2> QED  BY <2>1, <2>2, <2>3 DEF WellMade
<1>3. \A x \in T : x.ref \in x.stands /\ \A m \in x.stands : m = x.ref \/ SameParcel(m, x.ref)
  BY DEF Retold, WellMade
<1> QED  BY <1>1, <1>2, <1>3 DEF WellMade

\* Entries of a well-made payload are told apart by their ids.
LEMMA RefsDiffer ==
    ASSUME NEW S, WellMade(S), NEW e \in S, NEW f \in S, e.ref = f.ref
    PROVE  e = f
BY DEF WellMade

\* The website takes the order once, as it was sent.
LEMMA ReceiveFacts ==
    ASSUME TypeOK, NEW sent \in SUBSET Entry, NEW fine, Receive(sent, fine)
    PROVE  /\ entries' \in {entries, sent}
           /\ entries # {} => entries' = entries
           /\ reserved' \subseteq Line
           /\ Accepts(sent, fine) /\ sent # {} => entries' # {}
           /\ entries' \subseteq Entry
<1>1. Refs(sent) \subseteq Line
  BY DEF Refs, Entry
<1> QED  BY <1>1 DEF Receive, Accepts, TypeOK

\* Some living line of a group is the least advanced.
LEMMA LeastAdvanced ==
    ASSUME NEW st \in [Line -> Statuses], NEW g \in Groups(st, FALSE)
    PROVE  \E i \in DOMAIN Progression :
              /\ \E m \in g.members : st[m] = Progression[i]
              /\ \A m \in g.members : \A j \in 1..(i - 1) : st[m] # Progression[j]
<1> DEFINE I == {i \in DOMAIN Progression : \E m \in g.members : st[m] = Progression[i]}
<1>1. PICK k \in LiveIn(st) : g = GroupOf(st, k, FALSE)
  BY GroupsFacts
<1>2. g.members = MembersOf(st, k, FALSE)
  BY <1>1 DEF GroupOf
<1>3. k \in g.members /\ st[k] \in Statuses /\ st[k] \notin Dead
  <2>1. k \in MembersOf(st, k, FALSE)
    BY OwnGroup
  <2> QED  BY <1>2, <2>1 DEF LiveIn
<1>4. DOMAIN Progression = 1..10
  BY DEF Progression
<1>5. I # {} /\ I \in SUBSET Nat
  <2>1. \E i \in DOMAIN Progression : st[k] = Progression[i]
    BY <1>3, LiveFacts
  <2> QED  BY <1>3, <1>4, <2>1
<1>6. PICK i \in I : \A j \in I : i <= j
  <2> HIDE DEF I
  <2> QED  BY <1>5, LeastOf
<1>7. \A m \in g.members : \A j \in 1..(i - 1) : st[m] # Progression[j]
  <2> SUFFICES ASSUME NEW m \in g.members, NEW j \in 1..(i - 1), st[m] = Progression[j]
               PROVE  FALSE
    OBVIOUS
  <2>1. j \in 1..10 /\ j < i
    BY <1>4
  <2>2. j \in I
    BY <1>4, <2>1
  <2>3. i <= j
    BY <2>2, <1>6
  <2> QED  BY <2>1, <2>3, <1>4
<1> QED  BY <1>7

\* The status reported for an entry is one of its line, or that of a living
\* line of the parcel it speaks for.
LEMMA ReportedFacts ==
    ASSUME NEW st \in [Line -> Statuses], NEW l \in Line
    PROVE  /\ Reported(st, l) \in Statuses
           /\ \/ Reported(st, l) \notin Dead
              \/ /\ Reported(st, l) = st[l]
                 /\ \A g \in Groups(st, FALSE) :
                      ~ (/\ l \in g.kin /\ Cardinality(g.kin) > 1
                         /\ Cardinality(Holders(g.kin)) <= 1)
<1> DEFINE spoken == {g \in Groups(st, FALSE) :
                   /\ l \in g.kin /\ Cardinality(g.kin) > 1
                   /\ Cardinality(Holders(g.kin)) <= 1}
           g == CHOOSE x \in spoken : TRUE
           first(h) == CHOOSE i \in DOMAIN Progression :
                          /\ \E m \in h.members : st[m] = Progression[i]
                          /\ \A m \in h.members : \A j \in 1..(i - 1) :
                               st[m] # Progression[j]
<1>1. CASE spoken = {}
  BY <1>1 DEF Reported
<1>2. CASE spoken # {}
  <2>1. \A h \in Groups(st, FALSE) : first(h) \in DOMAIN Progression
    <3> SUFFICES ASSUME NEW h \in Groups(st, FALSE) PROVE first(h) \in DOMAIN Progression
      OBVIOUS
    <3> QED  BY LeastAdvanced
  <2>2. Reported(st, l) = Progression[first(g)]
    BY <1>2 DEF Reported
  <2>3. g \in Groups(st, FALSE)
    BY <1>2
  <2> HIDE DEF first, g
  <2>4. first(g) \in DOMAIN Progression
    BY <2>1, <2>3
  <2> QED  BY <2>2, <2>4, PipelineLives
<1> QED  BY <1>1, <1>2

\* A batch of statuses changes the words only.
LEMMA TellFacts ==
    ASSUME TypeOK, WellMade(entries), NEW st \in [Line -> Statuses]
    PROVE  Retold(entries, Tell(st))
<1> DEFINE F(e) == IF number[e.ref] = e.ref THEN [e EXCEPT !.word = Reported(st, e.ref)] ELSE e
<1>1. ASSUME NEW e \in entries
      PROVE  F(e) \in Entry /\ F(e).ref = e.ref /\ F(e).stands = e.stands
  <2>1. e \in Entry /\ e.ref \in Line
    BY DEF TypeOK, Entry
  <2>2. Reported(st, e.ref) \in Statuses
    BY <2>1, ReportedFacts
  <2> QED  BY <2>1, <2>2 DEF Entry
<1>2. Tell(st) = {F(e) : e \in entries}
  BY DEF Tell
<1> HIDE DEF F
<1>3. ASSUME NEW x \in Tell(st), NEW y \in Tell(st), x.ref = y.ref PROVE x = y
  <2>1. PICK e \in entries : x = F(e)
    BY <1>2
  <2>2. PICK f \in entries : y = F(f)
    BY <1>2
  <2>3. e.ref = f.ref
    BY <1>1, <1>3, <2>1, <2>2
  <2> QED  BY <2>1, <2>2, <2>3, RefsDiffer
<1> QED  BY <1>1, <1>2, <1>3 DEF Retold

\* So does a change by the website.
LEMMA SiteMoveFacts ==
    ASSUME TypeOK, WellMade(entries), NEW e \in entries, NEW to \in Statuses
    PROVE  Retold(entries, (entries \ {e}) \union {[e EXCEPT !.word = to]})
<1> DEFINE x == [e EXCEPT !.word = to]
<1>1. e \in Entry /\ x \in Entry /\ x.ref = e.ref /\ x.stands = e.stands
  BY DEF TypeOK, Entry
<1> HIDE DEF x
<1>2. \A f \in entries \ {e} : f.ref # e.ref
  BY RefsDiffer
<1>3. Retold(entries, (entries \ {e}) \union {x})
  BY <1>1, <1>2, RefsDiffer DEF Retold, TypeOK
<1> QED  BY <1>3 DEF x

(***************************************************************************)
(* RoutedInv                                                               *)
(***************************************************************************)
LEMMA InitRouted == Init => RoutedInv
<1> SUFFICES ASSUME Init PROVE RoutedInv
  OBVIOUS
<1>1. "diamond_booked" \in Statuses
  <2>1. 1 \in DOMAIN Progression /\ Progression[1] = "diamond_booked"
    BY DEF Progression
  <2> QED  BY <2>1, PipelineLives
<1>2. TypeOK
  BY <1>1 DEF Init, TypeOK, Codes
<1>3. NumbersOK
  BY DEF Init, NumbersOK
<1> QED  BY <1>2, <1>3 DEF Init, RoutedInv, WellMade

\* A push that was accepted tells every id of the order.
LEMMA AcceptedRouted ==
    ASSUME RoutedInv, NeedsPush, Accepted
    PROVE  /\ number' \in [Line -> Line \union {NoNumber}]
           /\ entries' \subseteq Entry /\ reserved' \subseteq Line
           /\ WellMade(entries') /\ NumbersOK'
<1>1. ~pushed /\ Payload # {} /\ \A l \in Line : number[l] = NoNumber
  BY SomethingToSend DEF RoutedInv, NumbersOK
<1>2. Payload \subseteq Entry /\ WellMade(Payload) /\ Refs(Payload) \subseteq Line
  BY <1>1, PayloadFacts DEF RoutedInv
<1>3. /\ entries' \in {entries, Payload} /\ entries' # {}
      /\ reserved' \subseteq Line /\ entries' \subseteq Entry
  BY <1>1, <1>2, ReceiveFacts DEF Accepted, RoutedInv
<1>4. WellMade(entries')
  BY <1>2, <1>3 DEF RoutedInv
<1>5. number' = [l \in Line |-> IF l \in Refs(entries') THEN l ELSE NoNumber]
  BY <1>1 DEF Accepted, Store, RoutedInv, TypeOK
<1>6. Refs(entries') \subseteq Line
  BY <1>3 DEF Refs, Entry
<1>7. pushed'
  BY DEF Accepted
<1>8. NumbersOK'
  BY <1>3, <1>5, <1>6, <1>7 DEF NumbersOK, Refs
<1> QED  BY <1>3, <1>4, <1>5, <1>8

\* A call whose answer teaches nothing: the website may have taken it.
LEMMA UnreadRouted ==
    ASSUME RoutedInv, NEW sent \in SUBSET Entry, WellMade(sent), NEW fine,
           Receive(sent, fine) \/ UNCHANGED <<entries, reserved>>,
           UNCHANGED <<number, pushed>>
    PROVE  /\ entries' \subseteq Entry /\ reserved' \subseteq Line
           /\ WellMade(entries') /\ NumbersOK'
<1>1. /\ entries' \in {entries, sent} /\ (entries # {} => entries' = entries)
      /\ reserved' \subseteq Line /\ entries' \subseteq Entry
  BY ReceiveFacts DEF RoutedInv, TypeOK
<1>2. WellMade(entries')
  BY <1>1 DEF RoutedInv
<1>3. CASE pushed
  BY <1>1, <1>3 DEF RoutedInv, NumbersOK
<1>4. CASE ~pushed
  <2>1. number' = number /\ ~pushed'
    BY <1>4
  <2>2. \A l \in Line : number'[l] = NoNumber /\ number'[l] # l
    BY <1>4, <2>1 DEF RoutedInv, NumbersOK
  <2> QED  BY <1>1, <1>2, <2>1, <2>2 DEF NumbersOK
<1> QED  BY <1>1, <1>2, <1>3, <1>4

\* A push that failed leaves a row with what was sent.
LEMMA FailedRouted ==
    ASSUME RoutedInv, NeedsPush, Failed
    PROVE  /\ entries' \subseteq Entry /\ reserved' \subseteq Line
           /\ WellMade(entries') /\ NumbersOK'
           /\ UNCHANGED <<number, pushed>> /\ error' \in Codes
           /\ rows' \subseteq Row /\ \A r \in rows' : WellMade(r.sent)
<1>1. Payload \subseteq Entry /\ WellMade(Payload)
  BY SomethingToSend, PayloadFacts DEF RoutedInv, NumbersOK
<1>2. /\ Receive(Payload, good) \/ UNCHANGED <<entries, reserved>>
      /\ UNCHANGED <<number, pushed>>
  BY DEF Failed
<1>3. \E code \in {"", "400", "500"} : error' = code /\ NewRow(Payload, good, code)
  BY DEF Failed
<1>4. good \in BOOLEAN
  BY DEF RoutedInv, TypeOK
<1>5. \A code \in Codes : [sent |-> Payload, good |-> good, code |-> code] \in Row
  BY <1>1, <1>4 DEF Row
<1>6. rows' \subseteq Row /\ error' \in Codes /\ \A r \in rows' : WellMade(r.sent)
  <2>1. PICK code \in {"", "400", "500"} : error' = code /\ NewRow(Payload, good, code)
    BY <1>3
  <2> DEFINE new == [sent |-> Payload, good |-> good, code |-> code]
  <2>2. code \in Codes /\ error' \in Codes
    BY <2>1 DEF Codes
  <2>3. new \in Row /\ new.sent = Payload
    BY <2>2, <1>5
  <2>4. rows' = rows \union {new}
    BY <2>1 DEF NewRow
  <2> HIDE DEF new
  <2>5. rows \subseteq Row /\ \A r \in rows : WellMade(r.sent)
    BY DEF RoutedInv, TypeOK
  <2> QED  BY <1>1, <2>2, <2>3, <2>4, <2>5
<1> QED  BY <1>1, <1>2, <1>6, UnreadRouted

\* A step that changes words on the website at most.
LEMMA RetoldRouted ==
    ASSUME RoutedInv, entries' = entries \/ Retold(entries, entries'), UNCHANGED push_vars
    PROVE  entries' \subseteq Entry /\ WellMade(entries') /\ NumbersOK'
<1>1. /\ WellMade(entries') /\ Refs(entries') = Refs(entries)
      /\ (entries' = {} <=> entries = {}) /\ entries' \subseteq Entry
  BY RetoldFacts DEF RoutedInv, TypeOK, Retold
<1> QED  BY <1>1 DEF push_vars, RoutedInv, NumbersOK

\* The steps of the push.
LEMMA ConfirmRouted == ASSUME RoutedInv, Confirm PROVE RoutedInv'
<1>1. /\ order' \in {"draft", "sale", "cancel"}
      /\ UNCHANGED <<recent, status, good, grouping, unheard>>
  BY DEF Confirm
<1>2. CASE NeedsPush /\ Accepted /\ UNCHANGED rows
  <2>1. error' = "none" /\ pushed' \in BOOLEAN
    BY <1>2 DEF Accepted
  <2> QED  BY <1>1, <1>2, <2>1, AcceptedRouted DEF RoutedInv, TypeOK
<1>3. CASE NeedsPush /\ Failed
  BY <1>1, <1>3, FailedRouted DEF RoutedInv, TypeOK
<1>4. CASE UNCHANGED <<push_vars, entries, reserved>>
  BY <1>1, <1>4 DEF RoutedInv, TypeOK, push_vars, NumbersOK
<1> QED  BY <1>2, <1>3, <1>4 DEF Confirm

\* The sweep keeps RoutedInv, whether it succeeds or not.
LEMMA SweepRouted == ASSUME RoutedInv, SweepAccepted \/ SweepFailed PROVE RoutedInv'
<1>1. NeedsPush /\ UNCHANGED <<order_vars, unheard>>
  BY DEF SweepAccepted, SweepFailed
<1>2. CASE SweepAccepted
  <2>1. Accepted /\ rows' = {} /\ error' = "none" /\ pushed' \in BOOLEAN
    BY <1>2 DEF SweepAccepted, Accepted
  <2> QED  BY <1>1, <2>1, AcceptedRouted DEF RoutedInv, TypeOK, order_vars
<1>3. CASE SweepFailed
  <2>1. Failed
    BY <1>3 DEF SweepFailed
  <2> QED  BY <1>1, <2>1, FailedRouted DEF RoutedInv, TypeOK, order_vars
<1> QED  BY <1>2, <1>3

\* So does a confirmation that is rolled back after the website has taken the push.
LEMMA RolledBackRouted == ASSUME RoutedInv, ConfirmRolledBack PROVE RoutedInv'
<1>1. ~pushed /\ \A l \in Line : number[l] = NoNumber
  BY SomethingToSend DEF ConfirmRolledBack, RoutedInv, NumbersOK
<1>2. Payload \subseteq Entry /\ WellMade(Payload)
  BY <1>1, PayloadFacts DEF RoutedInv
<1>3. Receive(Payload, good) /\ UNCHANGED <<number, pushed>>
  BY DEF ConfirmRolledBack, push_vars
<1>4. entries' \subseteq Entry /\ reserved' \subseteq Line /\ WellMade(entries') /\ NumbersOK'
  BY <1>2, <1>3, UnreadRouted
<1> QED  BY <1>4 DEF ConfirmRolledBack, RoutedInv, TypeOK, order_vars, push_vars

\* The steps of the retry cron.
LEMMA RowRouted ==
    ASSUME RoutedInv, NEW r \in rows, GiveUpRow(r) \/ ReplayAccepted(r) \/ ReplayFailed(r)
    PROVE  RoutedInv'
<1>1. r \in Row /\ r.sent \in SUBSET Entry /\ WellMade(r.sent)
  BY DEF RoutedInv, TypeOK, Row
<1>2. Receive(r.sent, r.good) \/ UNCHANGED <<entries, reserved>>
  BY DEF GiveUpRow, ReplayAccepted, ReplayFailed, site_vars
<1>3. UNCHANGED <<order_vars, number, pushed, error, unheard>>
  BY DEF GiveUpRow, ReplayAccepted, ReplayFailed, site_vars
<1>4. entries' \subseteq Entry /\ reserved' \subseteq Line /\ WellMade(entries') /\ NumbersOK'
  BY <1>1, <1>2, <1>3, UnreadRouted
<1>5. \/ rows' = rows \ {r}
      \/ \E code \in {"EXCEPTION", "500"} :
            rows' = (rows \ {r}) \union {[r EXCEPT !.code = code]}
  BY DEF GiveUpRow, ReplayAccepted, ReplayFailed
<1>6. \A code \in {"EXCEPTION", "500"} :
        /\ [r EXCEPT !.code = code] \in Row
        /\ [r EXCEPT !.code = code].sent = r.sent
  BY <1>1 DEF Row, Codes
<1>7. rows' \subseteq Row /\ \A q \in rows' : WellMade(q.sent)
  BY <1>1, <1>5, <1>6 DEF RoutedInv, TypeOK
<1> QED  BY <1>3, <1>4, <1>7 DEF RoutedInv, TypeOK, order_vars

\* The steps that write statuses.
LEMMA StatusRouted ==
    ASSUME RoutedInv, NEW st \in [Line -> Statuses], status' = st,
           order' \in {"draft", "sale", "cancel"},
           entries' \in {entries, Tell(st)} \/ Retold(entries, entries'),
           UNCHANGED <<recent, good, grouping, push_vars, reserved>>, unheard' \in BOOLEAN
    PROVE  RoutedInv'
<1>1. entries' = entries \/ Retold(entries, entries')
  BY TellFacts DEF RoutedInv
<1>2. entries' \subseteq Entry /\ WellMade(entries') /\ NumbersOK'
  BY <1>1, RetoldRouted
<1> QED  BY <1>2 DEF RoutedInv, TypeOK, push_vars

\* So does every step.
LEMMA StepRouted == ASSUME RoutedInv, [Next]_vars PROVE RoutedInv'
<1>1. ASSUME NEW l \in Line, NEW to \in Statuses, MoveLine(l, to) PROVE RoutedInv'
  <2>1. [status EXCEPT ![l] = to] \in [Line -> Statuses]
    BY DEF RoutedInv, TypeOK
  <2> QED  BY <1>1, <2>1, StatusRouted DEF MoveLine, RoutedInv, TypeOK
<1>2. CASE Cancel
  <2>1. "cancelled" \in Statuses
    BY DEF Statuses, Dead
  <2>2. [l \in Line |-> IF status[l] \in Dead THEN status[l] ELSE "cancelled"]
           \in [Line -> Statuses]
    BY <2>1 DEF RoutedInv, TypeOK
  <2> QED  BY <1>2, <2>2, StatusRouted DEF Cancel, RoutedInv, TypeOK
<1>3. ASSUME NEW e \in entries, NEW to \in SiteMoves, SiteMove(e, to) PROVE RoutedInv'
  <2>1. to \in Statuses
    OBVIOUS
  <2>2. Retold(entries, entries')
    BY <1>3, <2>1, SiteMoveFacts DEF SiteMove, RoutedInv
  <2>3. status' \in [Line -> Statuses] /\ unheard' \in BOOLEAN
    <3>1. status \in [Line -> Statuses] /\ unheard \in BOOLEAN
      BY DEF RoutedInv, TypeOK
    <3>2. CASE number[e.ref] = e.ref
      BY <1>3, <2>1, <3>1, <3>2 DEF SiteMove
    <3>3. CASE number[e.ref] # e.ref
      BY <1>3, <3>1, <3>3 DEF SiteMove
    <3> QED  BY <3>2, <3>3
  <2>4. UNCHANGED <<order, recent, good, grouping, push_vars, reserved>>
    BY <1>3 DEF SiteMove
  <2> QED  BY <2>2, <2>3, <2>4, StatusRouted DEF RoutedInv, TypeOK
<1>4. CASE MendData \/ Expire \/ \E how \in Groupings : Regroup(how)
  <2>1. UNCHANGED <<order, status, number, pushed, error, rows, entries, reserved, unheard>>
    BY <1>4 DEF MendData, Expire, Regroup, push_vars, site_vars
  <2>2. recent' \in BOOLEAN /\ good' \in BOOLEAN /\ grouping' \in {"stones", "slices", "parcels"}
    BY <1>4 DEF MendData, Expire, Regroup, RoutedInv, TypeOK
  <2> QED  BY <2>1, <2>2 DEF RoutedInv, TypeOK, NumbersOK
<1>5. CASE UNCHANGED vars
  BY <1>5 DEF vars, order_vars, push_vars, site_vars, RoutedInv, TypeOK, NumbersOK
<1> QED  BY <1>1, <1>2, <1>3, <1>4, <1>5, ConfirmRouted, SweepRouted, RolledBackRouted, RowRouted
         DEF Next

\* What the website has or may still get is well made, in every reachable state.
THEOREM Routing == Spec => []RoutedInv
BY InitRouted, StepRouted, PTL DEF Spec

\* Every field keeps a value of its kind.
THEOREM TypeCorrect == Spec => []TypeOK
<1>1. RoutedInv => TypeOK
  BY DEF RoutedInv
<1> QED  BY <1>1, Routing, PTL

\* An id leads to the entry it names, and that entry stands for the line that
\* holds the id or for its parcel: whatever was lost, replayed, rolled back or
\* regrouped, and also when dead lines come back.
THEOREM IdsLead == Spec => []IdsAreRouted
<1>1. ASSUME RoutedInv PROVE IdsAreRouted
  <2> SUFFICES ASSUME NEW l \in Line, number[l] # NoNumber
               PROVE  \E e \in entries :
                         /\ e.ref = number[l]
                         /\ \A m \in e.stands : m = l \/ (SizeLine[m] = SizeLine[l]
                                                          /\ SizeLine[l] # NoSize)
    BY DEF IdsAreRouted
  <2>1. number[l] = l /\ l \in Refs(entries)
    BY <1>1 DEF RoutedInv, NumbersOK
  <2>2. PICK e \in entries : e.ref = l
    BY <2>1 DEF Refs
  <2> QED  BY <1>1, <2>1, <2>2 DEF RoutedInv, WellMade, SameParcel
<1> QED  BY <1>1, Routing, PTL

(***************************************************************************)
(* CompleteInv, while dead lines stay dead                                 *)
(***************************************************************************)

\* A step that sends at most, and a payload that misses nothing.
LEMMA SendComplete ==
    ASSUME CompleteInv, UNCHANGED status, RoutedInv', NEW sent,
           entries = {} /\ sent # {} => Covers(sent),
           entries' \in {entries, sent}, entries # {} => entries' = entries,
           \A r \in rows' : r.sent = sent \/ \E q \in rows : r.sent = q.sent
    PROVE  CompleteInv'
<1>1. \A S : Covers(S) => \A l \in LiveIn(status') : \E e \in S : l \in e.stands
  BY DEF Covers
<1>2. entries' # {} => \A l \in LiveIn(status') : \E e \in entries' : l \in e.stands
  BY <1>1 DEF CompleteInv
<1>3. entries' = {} => \A r \in rows' : r.sent # {} =>
        \A l \in LiveIn(status') : \E e \in r.sent : l \in e.stands
  BY <1>1 DEF CompleteInv
<1> QED  BY <1>2, <1>3 DEF CompleteInv, Covers

\* A push of the order as it is.
LEMMA PushComplete ==
    ASSUME CompleteInv, NeedsPush, UNCHANGED status, RoutedInv',
           Receive(Payload, good) \/ UNCHANGED entries,
           \A r \in rows' : r.sent = Payload \/ \E q \in rows : r.sent = q.sent
    PROVE  CompleteInv'
<1>1. Payload \subseteq Entry /\ Covers(Payload)
  BY SomethingToSend, PayloadFacts DEF CompleteInv, RoutedInv, NumbersOK
<1>2. entries' \in {entries, Payload} /\ (entries # {} => entries' = entries)
  BY <1>1, ReceiveFacts DEF CompleteInv, RoutedInv
<1> QED  BY <1>1, <1>2, SendComplete

\* A new retry row holds the payload that failed.
LEMMA NewRowSent ==
    ASSUME NEW sent, NEW fine, NEW code, NewRow(sent, fine, code)
    PROVE  \A r \in rows' : r.sent = sent \/ \E q \in rows : r.sent = q.sent
BY DEF NewRow

\* A failed push leaves no other payload than its own behind.
LEMMA FailedSent ==
    ASSUME Failed
    PROVE  \A r \in rows' : r.sent = Payload \/ \E q \in rows : r.sent = q.sent
<1>1. \E code \in {"", "400", "500"} : NewRow(Payload, good, code)
  BY DEF Failed
<1> QED  BY <1>1, NewRowSent

\* A step that writes statuses: what lives lived, or is in an entry.
LEMMA StatusComplete ==
    ASSUME CompleteInv, RoutedInv', UNCHANGED rows,
           entries' = entries \/ Retold(entries, entries'),
           \A l \in LiveIn(status') :
              \/ l \in LiveIn(status)
              \/ \E e \in entries : l \in e.stands
    PROVE  CompleteInv'
<1>1. /\ \A e \in entries : \E x \in entries' : x.stands = e.stands
      /\ entries' = {} <=> entries = {}
  BY DEF Retold
<1>2. entries' # {} => \A l \in LiveIn(status') : \E e \in entries' : l \in e.stands
  BY <1>1 DEF CompleteInv, Covers
<1>3. entries' = {} => \A r \in rows' : r.sent # {} =>
        \A l \in LiveIn(status') : \E e \in r.sent : l \in e.stands
  BY <1>1 DEF CompleteInv, Covers
<1> QED  BY <1>2, <1>3 DEF CompleteInv, Covers

\* What a call of the website for a known id writes: the line of the id, or
\* living lines of its parcel.
LEMMA TargetFacts ==
    ASSUME NEW l \in Line, NEW m \in Targets(l), m # l
    PROVE  /\ m \in LiveIn(status)
           /\ \E g \in Groups(status, FALSE) :
                 /\ l \in g.kin /\ Cardinality(g.kin) > 1
                 /\ Cardinality(Holders(g.kin)) <= 1
                 /\ m \in g.members
<1> DEFINE mine == {g \in Groups(status, FALSE) :
                 /\ l \in g.kin /\ Cardinality(g.kin) > 1
                 /\ Cardinality(Holders(g.kin)) <= 1}
<1>1. PICK g \in mine : m \in g.members
  BY DEF Targets
<1>2. PICK k \in LiveIn(status) : g = GroupOf(status, k, FALSE)
  BY <1>1, GroupsFacts
<1>3. m \in LiveIn(status)
  BY <1>1, <1>2 DEF GroupOf, MembersOf
<1> QED  BY <1>1, <1>3

\* While the dead stay dead, a user's move makes no line live.
LEMMA MoveLives ==
    ASSUME DeadForGood, RoutedInv, NEW l \in Line, NEW to \in Statuses, MoveLine(l, to)
    PROVE  LiveIn(status') \subseteq LiveIn(status)
<1>1. <<status[l], to>> \in Moves /\ status' = [status EXCEPT ![l] = to]
  BY DEF MoveLine
<1>2. status[l] \in Dead => to \in Dead
  BY <1>1 DEF DeadForGood
<1> QED  BY <1>1, <1>2 DEF LiveIn, RoutedInv, TypeOK

\* A move of the website makes a line live only if an entry stands for it.
LEMMA SiteMoveLives ==
    ASSUME RoutedInv, NEW e \in entries, NEW to \in SiteMoves, SiteMove(e, to)
    PROVE  \A l \in LiveIn(status') :
              l \in LiveIn(status) \/ \E f \in entries : l \in f.stands
<1>1. e.ref \in Line /\ e.ref \in e.stands
  BY DEF RoutedInv, TypeOK, Entry, WellMade
<1>2. \A l \in Line : status'[l] = status[l] \/ l \in Targets(e.ref)
  BY DEF SiteMove, RoutedInv, TypeOK
<1>3. \A l \in Targets(e.ref) : l = e.ref \/ l \in LiveIn(status)
  BY <1>1, TargetFacts
<1> QED  BY <1>1, <1>2, <1>3 DEF LiveIn

\* Every step keeps CompleteInv.
LEMMA StepComplete ==
    ASSUME DeadForGood, CompleteInv, [Next]_vars
    PROVE  CompleteInv'
<1>0. RoutedInv /\ RoutedInv'
  BY StepRouted DEF CompleteInv
<1>1. CASE Confirm
  <2>1. UNCHANGED status
    BY <1>1 DEF Confirm
  <2>2. CASE NeedsPush /\ Accepted /\ UNCHANGED rows
    BY <1>0, <2>1, <2>2, PushComplete DEF Accepted
  <2>3. CASE NeedsPush /\ Failed
    <3>1. Receive(Payload, good) \/ UNCHANGED entries
      BY <2>3 DEF Failed
    <3> QED  BY <1>0, <2>1, <2>3, <3>1, FailedSent, PushComplete
  <2>4. CASE UNCHANGED <<push_vars, entries, reserved>>
    BY <1>0, <2>1, <2>4, StatusComplete DEF push_vars
  <2> QED  BY <1>1, <2>2, <2>3, <2>4 DEF Confirm
<1>2. CASE SweepAccepted
  <2>1. NeedsPush /\ Receive(Payload, good) /\ rows' = {} /\ UNCHANGED status
    BY <1>2 DEF SweepAccepted, Accepted, order_vars
  <2> QED  BY <1>0, <2>1, PushComplete
<1>3. CASE SweepFailed
  <2>1. NeedsPush /\ Failed /\ UNCHANGED status
    BY <1>3 DEF SweepFailed, order_vars
  <2>2. Receive(Payload, good) \/ UNCHANGED entries
    BY <2>1 DEF Failed
  <2> QED  BY <1>0, <2>1, <2>2, FailedSent, PushComplete
<1>4. CASE ConfirmRolledBack
  <2>1. NeedsPush /\ Receive(Payload, good) /\ UNCHANGED <<status, rows>>
    BY <1>4 DEF ConfirmRolledBack, order_vars, push_vars
  <2> QED  BY <1>0, <2>1, PushComplete
<1>5. ASSUME NEW r \in rows, GiveUpRow(r) \/ ReplayAccepted(r) \/ ReplayFailed(r)
      PROVE  CompleteInv'
  <2>1. r \in Row /\ r.sent \in SUBSET Entry /\ (entries = {} /\ r.sent # {} => Covers(r.sent))
    BY DEF CompleteInv, RoutedInv, TypeOK, Row
  <2>2. Receive(r.sent, r.good) \/ UNCHANGED entries
    BY <1>5 DEF GiveUpRow, ReplayAccepted, ReplayFailed, site_vars
  <2>3. UNCHANGED status
    BY <1>5 DEF GiveUpRow, ReplayAccepted, ReplayFailed, order_vars
  <2>4. entries' \in {entries, r.sent} /\ (entries # {} => entries' = entries)
    BY <1>0, <2>1, <2>2, ReceiveFacts DEF RoutedInv
  <2>5. \A code : [r EXCEPT !.code = code].sent = r.sent
    BY <2>1 DEF Row
  <2>6. \/ rows' = rows \ {r}
        \/ \E code \in {"EXCEPTION", "500"} :
              rows' = (rows \ {r}) \union {[r EXCEPT !.code = code]}
    BY <1>5 DEF GiveUpRow, ReplayAccepted, ReplayFailed
  <2>7. \A q \in rows' : \E old \in rows : q.sent = old.sent
    BY <2>5, <2>6
  <2> QED  BY <1>0, <2>1, <2>3, <2>4, <2>7, SendComplete
<1>6. ASSUME NEW l \in Line, NEW to \in Statuses, MoveLine(l, to) PROVE CompleteInv'
  <2>1. [status EXCEPT ![l] = to] \in [Line -> Statuses]
    BY <1>0 DEF RoutedInv, TypeOK
  <2>2. entries' = entries \/ Retold(entries, entries')
    BY <1>0, <1>6, <2>1, TellFacts DEF MoveLine, RoutedInv
  <2> QED  BY <1>0, <1>6, <2>2, MoveLives, StatusComplete DEF MoveLine, push_vars
<1>7. CASE Cancel
  <2> DEFINE st == [l \in Line |-> IF status[l] \in Dead THEN status[l] ELSE "cancelled"]
  <2>1. "cancelled" \in Dead /\ "cancelled" \in Statuses
    BY DEF Statuses, Dead
  <2>2. st \in [Line -> Statuses] /\ \A l \in Line : st[l] \in Dead
    BY <1>0, <2>1 DEF RoutedInv, TypeOK
  <2>3. status' = st /\ entries' \in {entries, Tell(st)} /\ UNCHANGED rows
    BY <1>7 DEF Cancel, push_vars
  <2> HIDE DEF st
  <2>4. entries' = entries \/ Retold(entries, entries')
    BY <1>0, <2>2, <2>3, TellFacts DEF RoutedInv
  <2>5. LiveIn(status') = {}
    BY <2>2, <2>3 DEF LiveIn
  <2> QED  BY <1>0, <2>3, <2>4, <2>5, StatusComplete
<1>8. ASSUME NEW e \in entries, NEW to \in SiteMoves, SiteMove(e, to) PROVE CompleteInv'
  <2>1. Retold(entries, entries') /\ UNCHANGED rows
    BY <1>0, <1>8, SiteMoveFacts DEF SiteMove, RoutedInv, push_vars
  <2> QED  BY <1>0, <1>8, <2>1, SiteMoveLives, StatusComplete
<1>9. CASE \/ MendData \/ Expire \/ \E how \in Groupings : Regroup(how)
           \/ UNCHANGED vars
  <2>1. UNCHANGED <<status, rows, entries>>
    BY <1>9 DEF MendData, Expire, Regroup, push_vars, site_vars, vars, order_vars
  <2> QED  BY <1>0, <2>1, StatusComplete
<1> QED  BY <1>1, <1>2, <1>3, <1>4, <1>5, <1>6, <1>7, <1>8, <1>9 DEF Next

\* No payload misses a living line, in every reachable state.
THEOREM Completeness == ASSUME DeadForGood PROVE Spec => []CompleteInv
<1>1. Init => CompleteInv
  BY InitRouted DEF Init, CompleteInv
<1> QED  BY <1>1, StepComplete, PTL DEF Spec

\* While users bring no dead line back to life, a pushed order is on the website
\* in full, each living stone in one entry whose id is known here.
THEOREM PushedWhole == ASSUME DeadForGood PROVE Spec => []PushedIsRouted
<1>1. ASSUME CompleteInv PROVE PushedIsComplete
  <2> SUFFICES ASSUME pushed, NEW l \in LiveIn(status)
               PROVE  /\ Cardinality({e \in entries : l \in e.stands}) = 1
                      /\ \E e \in entries : l \in e.stands /\ number[e.ref] = e.ref
    BY DEF PushedIsComplete
  <2>1. entries # {} /\ \A m \in Refs(entries) : number[m] = m
    BY <1>1 DEF CompleteInv, RoutedInv, NumbersOK
  <2>2. PICK e \in entries : l \in e.stands
    BY <1>1, <2>1 DEF CompleteInv, Covers
  <2>3. {f \in entries : l \in f.stands} = {e}
    BY <1>1, <2>2 DEF CompleteInv, RoutedInv, WellMade
  <2>4. Cardinality({f \in entries : l \in f.stands}) = 1
    BY <2>3, FS_Singleton
  <2>5. number[e.ref] = e.ref
    BY <2>1, <2>2 DEF Refs
  <2> QED  BY <2>2, <2>4, <2>5
<1> QED  BY <1>1, Completeness, IdsLead, PTL DEF PushedIsRouted

(***************************************************************************)
(* The dead and the living                                                 *)
(***************************************************************************)

\* An order has finitely many lines.
LEMMA LineFinite == IsFiniteSet(Line)
<1>1. LineSeq \in Surjection(1..Len(LineSeq), Line)
  BY DEF Surjection, Line
<1>2. IsFiniteSet(1..Len(LineSeq))
  BY FS_Interval
<1> QED  BY <1>1, <1>2, FS_Surjection

\* Two members make a set larger than one.
LEMMA TwoMembers ==
    ASSUME NEW S, IsFiniteSet(S), NEW a \in S, NEW b \in S, a # b
    PROVE  Cardinality(S) > 1
<1>1. IsFiniteSet(S \ {a}) /\ Cardinality(S \ {a}) = Cardinality(S) - 1
  BY FS_RemoveElement
<1>2. Cardinality(S) \in Nat
  BY FS_CardinalityType
<1>3. Cardinality(S \ {a}) # 0
  <2> DEFINE T == S \ {a}
  <2>1. T # {} /\ IsFiniteSet(T)
    BY <1>1
  <2> HIDE DEF T
  <2>2. Cardinality(T) # 0
    BY <2>1, FS_EmptySet
  <2> QED  BY <2>2 DEF T
<1>4. Cardinality(S \ {a}) \in Nat
  BY <1>1, FS_CardinalityType
<1> QED  BY <1>1, <1>2, <1>3, <1>4

\* A set within a single one is no larger than one.
LEMMA AtMostOne ==
    ASSUME NEW a, NEW S, \A x \in S : x = a
    PROVE  Cardinality(S) <= 1
<1>1. CASE S = {}
  <2>1. Cardinality(S) = 0
    BY <1>1, FS_EmptySet
  <2> QED  BY <2>1
<1>2. CASE S # {}
  <2>1. S = {a}
    BY <1>2
  <2>2. Cardinality(S) = 1
    BY <2>1, FS_Singleton
  <2> QED  BY <2>2
<1> QED  BY <1>1, <1>2

\* A living stone beside the head of its entry: the entry speaks for it.
LEMMA Speaks ==
    ASSUME RoutedInv, NEW st, NEW e \in entries, e.stands \subseteq Kin(e.ref),
           NEW m \in e.stands, m # e.ref, m \in LiveIn(st)
    PROVE  \E g \in Groups(st, FALSE) :
              /\ e.ref \in g.kin /\ Cardinality(g.kin) > 1
              /\ Cardinality(Holders(g.kin)) <= 1
              /\ m \in g.members
<1> DEFINE K == KinOf(m, FALSE)
<1>1. e.ref \in Line /\ m \in Line /\ e.ref \in e.stands /\ SameParcel(m, e.ref)
  BY DEF RoutedInv, TypeOK, Entry, WellMade
<1>2. KeyOf(e.ref, FALSE) = KeyOf(m, FALSE)
  BY <1>1 DEF Kin
<1>3. e.ref \in K /\ m \in K /\ K \subseteq Line
  BY <1>1, <1>2 DEF KinOf
<1>4. \A x \in Holders(K) : x = e.ref
  <2> SUFFICES ASSUME NEW x \in Line, KeyOf(x, FALSE) = KeyOf(m, FALSE), number[x] # NoNumber
               PROVE  x = e.ref
    BY DEF Holders, KinOf
  <2>1. x \in Refs(entries)
    BY DEF RoutedInv, NumbersOK
  <2>2. PICK f \in entries : f.ref = x
    BY <2>1 DEF Refs
  <2>3. x = m \/ SameParcel(x, m)
    BY <1>1, KeyFacts
  <2>4. x \in f.stands
    BY <2>2 DEF RoutedInv, WellMade
  <2>5. CASE f = e
    BY <2>2, <2>5
  <2>6. CASE f # e /\ x = m
    BY <2>4, <2>6 DEF RoutedInv, WellMade
  <2>7. CASE f # e /\ SameParcel(x, m)
    <3>1. SameParcel(e.ref, f.ref)
      BY <1>1, <2>2, <2>7 DEF SameParcel
    <3> QED  BY <3>1, <2>7 DEF RoutedInv, WellMade
  <2> QED  BY <2>3, <2>5, <2>6, <2>7
<1>5. IsFiniteSet(K)
  BY <1>3, LineFinite, FS_Subset
<1>6. Cardinality(K) > 1
  BY <1>3, <1>5, TwoMembers
<1>7. Cardinality(Holders(K)) <= 1
  BY <1>4, AtMostOne
<1>8. GroupOf(st, m, FALSE) \in Groups(st, FALSE)
  BY GroupsFacts
<1>9. GroupOf(st, m, FALSE).kin = K /\ m \in GroupOf(st, m, FALSE).members
  BY OwnGroup DEF GroupOf
<1> HIDE DEF K
<1> QED  BY <1>3, <1>6, <1>7, <1>8, <1>9

\* Every step keeps SentAlive.
LEMMA StepSent == ASSUME SentAlive, [Next]_vars PROVE SentAlive'
<1>0. RoutedInv /\ RoutedInv' /\ rows \subseteq Row
  BY StepRouted DEF SentAlive, RoutedInv, TypeOK
<1>1. NeedsPush => \A e \in Payload : e.word \notin Dead
  BY <1>0, SomethingToSend, PayloadFacts DEF RoutedInv, NumbersOK
<1> DEFINE Known == \A r \in rows' : \/ NeedsPush /\ r.sent = Payload
                                     \/ \E q \in rows : r.sent = q.sent
<1>2. Known => SentAlive'
  BY <1>0, <1>1 DEF SentAlive
<1>3. CASE Confirm
  BY <1>2, <1>3, FailedSent DEF Confirm, push_vars
<1>4. CASE SweepAccepted \/ SweepFailed \/ ConfirmRolledBack
  BY <1>2, <1>4, FailedSent DEF SweepAccepted, SweepFailed, ConfirmRolledBack, push_vars
<1>5. ASSUME NEW r \in rows, GiveUpRow(r) \/ ReplayAccepted(r) \/ ReplayFailed(r)
      PROVE  SentAlive'
  <2>1. \A code : [r EXCEPT !.code = code].sent = r.sent
    BY <1>0 DEF Row
  <2>2. \/ rows' = rows \ {r}
        \/ \E code \in {"EXCEPTION", "500"} :
              rows' = (rows \ {r}) \union {[r EXCEPT !.code = code]}
    BY <1>5 DEF GiveUpRow, ReplayAccepted, ReplayFailed
  <2> QED  BY <1>2, <2>1, <2>2
<1>6. CASE \/ \E l \in Line : \E to \in Statuses : MoveLine(l, to)
           \/ \E e \in entries : \E to \in SiteMoves : SiteMove(e, to)
           \/ Cancel \/ MendData \/ Expire \/ \E how \in Groupings : Regroup(how)
           \/ UNCHANGED vars
  <2>1. UNCHANGED rows
    BY <1>6 DEF MoveLine, SiteMove, Cancel, MendData, Expire, Regroup, vars, push_vars
  <2> QED  BY <1>2, <2>1
<1> QED  BY <1>3, <1>4, <1>5, <1>6 DEF Next

\* What DeadEntriesDied says of one step, and of one entry of it.
Excused(e) ==
    \/ \E d \in entries : d.ref = e.ref /\ DeadWithLife(d, entries, status)
    \/ number[e.ref] # e.ref
    \/ ~(e.stands \subseteq Kin(e.ref))
    \/ \E l \in e.stands : status[l] \in Dead /\ status'[l] \notin Dead
                           /\ <<status[l], status'[l]>> \in Moves
Died == \A e \in entries' : DeadWithLife(e, entries', status') => Excused(e)

\* A step that sends at most: what it sends is alive.
LEMMA SendDied ==
    ASSUME UNCHANGED status, NEW sent, \A e \in sent : e.word \notin Dead,
           entries' \in {entries, sent}
    PROVE  Died
<1> SUFFICES ASSUME NEW e \in entries', DeadWithLife(e, entries', status') PROVE Excused(e)
  BY DEF Died
<1>1. e \in entries
  BY DEF DeadWithLife
<1>2. DeadWithLife(e, entries, status)
  BY <1>1 DEF DeadWithLife
<1> QED  BY <1>1, <1>2 DEF Excused

\* An entry that stays, of which a user revives at most a stone.
LEMMA StayDied ==
    ASSUME TypeOK, NEW st \in [Line -> Statuses], status' = st,
           \A l \in Line : status[l] \in Dead /\ st[l] \notin Dead => <<status[l], st[l]>> \in Moves,
           NEW e \in entries, DeadWithLife(e, entries, st)
    PROVE  Excused(e)
<1>1. PICK m \in e.stands : m \in LiveIn(st)
  BY DEF DeadWithLife
<1>2. m \in Line /\ st[m] \notin Dead
  BY <1>1 DEF LiveIn
<1>3. CASE status[m] \in Dead
  BY <1>1, <1>2, <1>3 DEF Excused
<1>4. CASE status[m] \notin Dead
  <2>1. DeadWithLife(e, entries, status)
    BY <1>1, <1>2, <1>4 DEF DeadWithLife, LiveIn
  <2> QED  BY <2>1 DEF Excused
<1> QED  BY <1>3, <1>4

\* A batch of statuses: an entry it reports dead has no living stone.
LEMMA TellDied ==
    ASSUME RoutedInv, NEW st \in [Line -> Statuses], status' = st,
           \A l \in Line : status[l] \in Dead /\ st[l] \notin Dead => <<status[l], st[l]>> \in Moves,
           entries' \in {entries, Tell(st)}
    PROVE  Died
<1> SUFFICES ASSUME NEW x \in entries', DeadWithLife(x, entries', status') PROVE Excused(x)
  BY DEF Died
<1>1. CASE x \in entries
  <2>1. DeadWithLife(x, entries, st)
    BY <1>1 DEF DeadWithLife
  <2>2. TypeOK
    BY DEF RoutedInv
  <2> QED  BY <1>1, <2>1, <2>2, StayDied
<1> DEFINE F(e) == IF number[e.ref] = e.ref THEN [e EXCEPT !.word = Reported(st, e.ref)] ELSE e
<1>2. CASE x \in Tell(st)
  <2>1. PICK e \in entries : x = F(e)
    BY <1>2 DEF Tell
  <2>2. /\ e.ref \in Line /\ e.stands \subseteq Line /\ x.ref = e.ref /\ x.stands = e.stands
        /\ number[e.ref] = e.ref => x.word = Reported(st, e.ref)
    BY <2>1 DEF RoutedInv, TypeOK, Entry
  <2> HIDE DEF F
  <2>3. CASE number[e.ref] # e.ref \/ ~(e.stands \subseteq Kin(e.ref))
    BY <2>2, <2>3 DEF Excused
  <2>4. CASE number[e.ref] = e.ref /\ e.stands \subseteq Kin(e.ref)
    <3>1. Reported(st, e.ref) \in Dead
      BY <2>2, <2>4 DEF DeadWithLife
    <3>2. /\ Reported(st, e.ref) = st[e.ref]
          /\ \A g \in Groups(st, FALSE) :
                ~ (/\ e.ref \in g.kin /\ Cardinality(g.kin) > 1
                   /\ Cardinality(Holders(g.kin)) <= 1)
      BY <2>2, <3>1, ReportedFacts
    <3>3. PICK m \in e.stands : m \in LiveIn(st)
      BY <2>2 DEF DeadWithLife
    <3>4. m # e.ref
      BY <3>1, <3>2, <3>3 DEF LiveIn
    <3> QED  BY <2>4, <3>2, <3>3, <3>4, Speaks
  <2> QED  BY <2>3, <2>4
<1> QED  BY <1>1, <1>2

\* What a call for a known id writes: all that lives of the parcel the id speaks
\* for, or the line of the id, if it speaks for no other.
LEMMA TargetsAre ==
    ASSUME NEW l \in Line
    PROVE  \/ /\ Targets(l) = {l}
              /\ \A g \in Groups(status, FALSE) :
                   ~ (/\ l \in g.kin /\ Cardinality(g.kin) > 1
                      /\ Cardinality(Holders(g.kin)) <= 1)
           \/ Targets(l) = Kin(l) \cap LiveIn(status)
<1> DEFINE mine == {g \in Groups(status, FALSE) :
                 /\ l \in g.kin /\ Cardinality(g.kin) > 1
                 /\ Cardinality(Holders(g.kin)) <= 1}
<1>1. CASE mine = {}
  BY <1>1 DEF Targets
<1>2. CASE mine # {}
  <2>1. Targets(l) = UNION {g.members : g \in mine}
    BY <1>2 DEF Targets
  <2>2. ASSUME NEW g \in mine PROVE g.members = Kin(l) \cap LiveIn(status)
    <3>1. PICK k \in LiveIn(status) : g = GroupOf(status, k, FALSE)
      BY <2>2, GroupsFacts
    <3>2. g.kin = KinOf(k, FALSE) /\ g.members = KinOf(k, FALSE) \cap LiveIn(status)
      BY <3>1 DEF GroupOf, MembersOf
    <3>3. KinOf(k, FALSE) = Kin(l)
      BY <2>2, <3>2 DEF KinOf, Kin
    <3> QED  BY <3>2, <3>3
  <2> HIDE DEF mine
  <2> QED  BY <1>2, <2>1, <2>2
<1> QED  BY <1>1, <1>2

\* The website moves an entry: what dies there dies here, once its id is known.
LEMMA SiteMoveDied ==
    ASSUME RoutedInv, NEW e \in entries, NEW to \in SiteMoves, SiteMove(e, to)
    PROVE  Died
<1> DEFINE x == [e EXCEPT !.word = to]
<1>1. /\ e.ref \in Line /\ e.stands \subseteq Line /\ e.ref \in e.stands
      /\ x.ref = e.ref /\ x.stands = e.stands /\ x.word = to
  BY DEF RoutedInv, TypeOK, Entry, WellMade
<1>2. entries' = (entries \ {e}) \union {x}
  BY DEF SiteMove
<1> HIDE DEF x
<1>3. number[e.ref] = e.ref =>
        status' = [l \in Line |-> IF l \in Targets(e.ref) THEN to ELSE status[l]]
  BY DEF SiteMove
<1>4. number[e.ref] # e.ref => status' = status
  BY DEF SiteMove
<1>5. ASSUME NEW f \in entries \ {e}, DeadWithLife(f, entries', status') PROVE Excused(f)
  <2>1. PICK m \in f.stands : m \in LiveIn(status')
    BY <1>5 DEF DeadWithLife
  <2>2. m # e.ref /\ m \in Line
    BY <1>1, <2>1 DEF RoutedInv, WellMade, LiveIn
  <2>3. m \in LiveIn(status)
    <3>1. CASE m \in Targets(e.ref)
      BY <1>1, <2>2, <3>1, TargetFacts
    <3>2. CASE m \notin Targets(e.ref)
      BY <1>3, <1>4, <2>1, <2>2, <3>2 DEF LiveIn
    <3> QED  BY <3>1, <3>2
  <2>4. DeadWithLife(f, entries, status)
    BY <1>5, <2>1, <2>3 DEF DeadWithLife
  <2> QED  BY <2>4 DEF Excused
<1>6. ASSUME DeadWithLife(x, entries', status') PROVE Excused(x)
  <2> SUFFICES ASSUME number[e.ref] = e.ref, e.stands \subseteq Kin(e.ref) PROVE FALSE
    BY <1>1 DEF Excused
  <2>1. PICK m \in e.stands : m \in LiveIn(status')
    BY <1>1, <1>6 DEF DeadWithLife
  <2>2. to \in Dead /\ m \in Line
    BY <1>1, <1>6, <2>1 DEF DeadWithLife
  <2>3. m \notin Targets(e.ref) /\ m \in LiveIn(status)
    BY <1>3, <2>1, <2>2 DEF LiveIn
  <2>4. m # e.ref /\ Targets(e.ref) = {e.ref}
    BY <1>1, <2>1, <2>3, TargetsAre DEF Kin
  <2>5. \E g \in Groups(status, FALSE) :
           /\ e.ref \in g.kin /\ Cardinality(g.kin) > 1
           /\ Cardinality(Holders(g.kin)) <= 1
           /\ m \in g.members
    BY <2>1, <2>3, <2>4, Speaks
  <2>6. Targets(e.ref) = Kin(e.ref) \cap LiveIn(status)
    BY <1>1, <2>5, TargetsAre
  <2> QED  BY <2>1, <2>3, <2>6
<1> QED  BY <1>2, <1>5, <1>6 DEF Died

\* A call revives a dead line only under its own id, which speaks for no other.
LEMMA NoRevival ==
    ASSUME RoutedInv, NEW e \in entries, NEW to \in SiteMoves, SiteMove(e, to),
           NEW l \in Line, status[l] \in Dead, status'[l] # status[l]
    PROVE  number[l] = l /\ (\/ Kin(l) \cap LiveIn(status) = {}
                             \/ Cardinality(Holders(Kin(l))) > 1)
<1>1. e.ref \in Line /\ number[e.ref] = e.ref /\ l \in Targets(e.ref)
  <2>1. e.ref \in Line
    BY DEF RoutedInv, TypeOK, Entry
  <2>2. status' # status
    OBVIOUS
  <2>3. number[e.ref] = e.ref
    BY <2>2 DEF SiteMove
  <2>4. status' = [k \in Line |-> IF k \in Targets(e.ref) THEN to ELSE status[k]]
    BY <2>3 DEF SiteMove
  <2> QED  BY <2>1, <2>3, <2>4
<1>2. l = e.ref
  BY <1>1, TargetFacts DEF LiveIn
<1>3. \A g \in Groups(status, FALSE) :
        ~ (/\ l \in g.kin /\ Cardinality(g.kin) > 1
           /\ Cardinality(Holders(g.kin)) <= 1)
  <2>1. l \notin Kin(l) \cap LiveIn(status)
    BY DEF LiveIn
  <2> QED  BY <1>1, <1>2, <2>1, TargetsAre
<1>4. ASSUME NEW m \in Kin(l), m \in LiveIn(status) PROVE Cardinality(Holders(Kin(l))) > 1
  <2> DEFINE K == Kin(l)
  <2>1. KinOf(m, FALSE) = K /\ m \in K /\ l \in K /\ K \subseteq Line /\ m # l
    BY <1>4 DEF Kin, KinOf, LiveIn
  <2>2. GroupOf(status, m, FALSE) \in Groups(status, FALSE) /\ GroupOf(status, m, FALSE).kin = K
    BY <1>4, <2>1, GroupsFacts DEF GroupOf
  <2>3. IsFiniteSet(K)
    BY <2>1, LineFinite, FS_Subset
  <2> HIDE DEF K
  <2>4. Cardinality(K) > 1
    BY <2>1, <2>3, TwoMembers
  <2>5. ~ (Cardinality(Holders(K)) <= 1)
    BY <1>3, <2>1, <2>2, <2>4
  <2>6. Holders(K) \subseteq K
    BY DEF Holders
  <2>7. Cardinality(Holders(K)) \in Nat
    BY <2>3, <2>6, FS_Subset, FS_CardinalityType
  <2> QED  BY <2>5, <2>7 DEF K
<1> QED  BY <1>1, <1>2, <1>4

\* No step makes an entry dead over living stones, but those that are excused.
LEMMA StepDied == ASSUME SentAlive, [Next]_vars PROVE Died
<1>0. RoutedInv /\ TypeOK
  BY DEF SentAlive, RoutedInv
<1>1. ASSUME NeedsPush, UNCHANGED status, Receive(Payload, good) \/ UNCHANGED entries
      PROVE  Died
  <2>1. Payload \subseteq Entry /\ \A e \in Payload : e.word \notin Dead
    BY <1>0, <1>1, SomethingToSend, PayloadFacts DEF RoutedInv, NumbersOK
  <2>2. entries' \in {entries, Payload}
    BY <1>0, <1>1, <2>1, ReceiveFacts
  <2> QED  BY <1>1, <2>1, <2>2, SendDied
<1>2. CASE UNCHANGED <<status, entries>>
  BY <1>2 DEF Died, Excused, DeadWithLife
<1>3. CASE Confirm
  BY <1>1, <1>2, <1>3 DEF Confirm, Accepted, Failed
<1>4. CASE SweepAccepted \/ SweepFailed \/ ConfirmRolledBack
  BY <1>1, <1>4 DEF SweepAccepted, SweepFailed, ConfirmRolledBack, Accepted, Failed, order_vars
<1>5. ASSUME NEW r \in rows, GiveUpRow(r) \/ ReplayAccepted(r) \/ ReplayFailed(r)
      PROVE  Died
  <2>1. r.sent \in SUBSET Entry /\ \A e \in r.sent : e.word \notin Dead
    BY <1>0 DEF SentAlive, TypeOK, Row
  <2>2. (Receive(r.sent, r.good) \/ UNCHANGED entries) /\ UNCHANGED status
    BY <1>5 DEF GiveUpRow, ReplayAccepted, ReplayFailed, site_vars, order_vars
  <2>3. entries' \in {entries, r.sent}
    BY <1>0, <2>1, <2>2, ReceiveFacts
  <2> QED  BY <2>1, <2>2, <2>3, SendDied
<1>6. ASSUME NEW l \in Line, NEW to \in Statuses, MoveLine(l, to) PROVE Died
  <2> DEFINE st == [status EXCEPT ![l] = to]
  <2>1. st \in [Line -> Statuses]
    BY <1>0 DEF TypeOK
  <2>2. status' = st /\ entries' \in {entries, Tell(st)}
    BY <1>6 DEF MoveLine
  <2>3. \A k \in Line : status[k] \in Dead /\ st[k] \notin Dead => <<status[k], st[k]>> \in Moves
    BY <1>0, <1>6 DEF MoveLine, TypeOK
  <2> HIDE DEF st
  <2> QED  BY <1>0, <2>1, <2>2, <2>3, TellDied
<1>7. CASE Cancel
  <2> DEFINE st == [l \in Line |-> IF status[l] \in Dead THEN status[l] ELSE "cancelled"]
  <2>1. "cancelled" \in Dead /\ "cancelled" \in Statuses
    BY DEF Statuses, Dead
  <2>2. st \in [Line -> Statuses] /\ \A k \in Line : st[k] \in Dead
    BY <1>0, <2>1 DEF TypeOK
  <2>3. status' = st /\ entries' \in {entries, Tell(st)}
    BY <1>7 DEF Cancel
  <2> HIDE DEF st
  <2> QED  BY <1>0, <2>2, <2>3, TellDied
<1>8. ASSUME NEW e \in entries, NEW to \in SiteMoves, SiteMove(e, to) PROVE Died
  BY <1>0, <1>8, SiteMoveDied
<1>9. CASE \/ MendData \/ Expire \/ \E how \in Groupings : Regroup(how)
           \/ UNCHANGED vars
  BY <1>2, <1>9 DEF MendData, Expire, Regroup, site_vars, vars, order_vars
<1> QED  BY <1>3, <1>4, <1>5, <1>6, <1>7, <1>8, <1>9 DEF Next

\* What DeadStayDead says of one step.
Stayed ==
    \A l \in Line : (status[l] \in Dead /\ status'[l] # status[l]) =>
       \/ <<status[l], status'[l]>> \in Moves
       \/ number[l] = l /\ (\/ Kin(l) \intersect LiveIn(status) = {}
                            \/ Cardinality(Holders(Kin(l))) > 1)

\* A dead line changes only by a user's move or by a call for it alone.
LEMMA StepStayed == ASSUME RoutedInv, [Next]_vars PROVE Stayed
<1> SUFFICES ASSUME NEW l \in Line, status[l] \in Dead, status'[l] # status[l]
             PROVE  \/ <<status[l], status'[l]>> \in Moves
                    \/ number[l] = l /\ (\/ Kin(l) \intersect LiveIn(status) = {}
                                         \/ Cardinality(Holders(Kin(l))) > 1)
  BY DEF Stayed
<1>1. CASE \E k \in Line : \E to \in Statuses : MoveLine(k, to)
  BY <1>1 DEF MoveLine, RoutedInv, TypeOK
<1>2. CASE \E e \in entries : \E to \in SiteMoves : SiteMove(e, to)
  BY <1>2, NoRevival
<1>3. CASE Cancel
  BY <1>3 DEF Cancel, RoutedInv, TypeOK
<1>4. CASE \/ Confirm \/ ConfirmRolledBack \/ SweepAccepted \/ SweepFailed
           \/ \E r \in rows : GiveUpRow(r) \/ ReplayAccepted(r) \/ ReplayFailed(r)
  BY <1>4 DEF Confirm, ConfirmRolledBack, SweepAccepted, SweepFailed, GiveUpRow, ReplayAccepted,
     ReplayFailed, order_vars
<1>5. CASE MendData \/ Expire \/ (\E how \in Groupings : Regroup(how)) \/ UNCHANGED vars
  BY <1>5 DEF MendData, Expire, Regroup, vars, order_vars
<1> QED  BY <1>1, <1>2, <1>3, <1>4, <1>5 DEF Next

\* Whatever users move and however parcels are sent: an entry comes to be dead over a
\* living stone only by what people do, and no dead stone returns with the
\* others of its parcel.
THEOREM DeadApart == Spec => DeadAndAliveApart
<1> DEFINE Apart == \A e \in entries' : DeadWithLife(e, entries', status') =>
       \/ \E d \in entries : d.ref = e.ref /\ DeadWithLife(d, entries, status)
       \/ number[e.ref] # e.ref
       \/ ~(e.stands \subseteq Kin(e.ref))
       \/ \E l \in e.stands : status[l] \in Dead /\ status'[l] \notin Dead
                           /\ <<status[l], status'[l]>> \in Moves
           Stay == \A l \in Line : (status[l] \in Dead /\ status'[l] # status[l]) =>
       \/ <<status[l], status'[l]>> \in Moves
       \/ number[l] = l /\ (\/ Kin(l) \intersect LiveIn(status) = {}
                          \/ Cardinality(Holders(Kin(l))) > 1)
<1>1. Init => SentAlive
  BY InitRouted DEF Init, SentAlive
<1>2. ASSUME SentAlive, [Next]_vars PROVE SentAlive' /\ Apart /\ Stay
  <2>1. SentAlive' /\ Died /\ Stayed
    BY <1>2, StepSent, StepDied, StepStayed DEF SentAlive
  <2>2. Apart
    BY <2>1 DEF Died, Excused
  <2> QED  BY <2>1, <2>2 DEF Stayed
<1>3. SentAlive /\ [Next]_vars => SentAlive' /\ [Apart]_vars /\ [Stay]_vars
  BY <1>2
<1> QED  BY <1>1, <1>3, PTL DEF Spec, DeadAndAliveApart, DeadEntriesDied, DeadStayDead

(***************************************************************************)
(* Orders from the website                                                  *)
(***************************************************************************)
\* What is added step by step to a set, and the result of all steps in the order of ch.
Runs(S, base, ch, step, f) ==
  f = [u \in SUBSET S |-> IF u = {} THEN base ELSE step[ch[u]][f[u \ {ch[u]}]]]
RunUpTo(S, base, ch, step, f, n) ==
  f = [u \in Small(S, n) |-> IF u = {} THEN base ELSE step[ch[u]][f[u \ {ch[u]}]]]

\* Of each set ch takes a member; each step stays within W and does what it is for, and what is
\* done stays done; f follows the steps as long as they stay within W.
Choosing(S, ch) == \A u \in SUBSET S : u # {} => ch[u] \in u
Steps(S, W, step, Done) ==
  /\ \A x \in S : \A y \in W : step[x][y] \in W
  /\ \A x, z \in S : \A y \in W : x = z \/ <<x, y>> \in Done => <<x, step[z][y]>> \in Done
Follows(S, W, base, ch, step, f) ==
  \A u \in SUBSET S :
    IF u = {} THEN f[u] = base ELSE f[u \ {ch[u]}] \in W => f[u] = step[ch[u]][f[u \ {ch[u]}]]

\* What ch takes leaves one less.
LEMMA TakesOne ==
    ASSUME NEW S, IsFiniteSet(S), NEW ch, \A u \in SUBSET S : u # {} => ch[u] \in u,
           NEW u \in SUBSET S, u # {}
    PROVE  /\ u \ {ch[u]} \in SUBSET S /\ Cardinality(u) \in Nat \ {0}
           /\ Cardinality(u \ {ch[u]}) = Cardinality(u) - 1
<1>1. ch[u] \in u /\ IsFiniteSet(u)
  BY FS_Subset
<1>2. Cardinality(u \ {ch[u]}) = Cardinality(u) - 1
  BY <1>1, FS_RemoveElement
<1>3. Cardinality(u) \in Nat /\ Cardinality(u) # 0
  BY <1>1, FS_CardinalityType, FS_EmptySet
<1> QED  BY <1>2, <1>3

\* All steps can be taken.
LEMMA AllRun ==
    ASSUME NEW S, IsFiniteSet(S), NEW base, NEW ch, Choosing(S, ch), NEW step
    PROVE  \E f : Runs(S, base, ch, step, f)
<1> DEFINE N == Cardinality(S)
           K == {n \in 0..N : \E f : RunUpTo(S, base, ch, step, f, n)}
<1>0. \A u \in SUBSET S : u # {} => ch[u] \in u
  BY DEF Choosing
<1>1. N \in Nat
  BY FS_CardinalityType
<1>2. 0 \in K
  <2> DEFINE f == [u \in Small(S, 0) |-> base]
  <2>1. ASSUME NEW u \in Small(S, 0) PROVE u = {}
    <3>1. IsFiniteSet(u) /\ Cardinality(u) <= 0
      BY FS_Subset DEF Small
    <3> QED  BY <3>1, FS_CardinalityType, FS_EmptySet
  <2>2. RunUpTo(S, base, ch, step, f, 0)
    BY <2>1 DEF RunUpTo
  <2> QED  BY <1>1, <2>2
<1>3. ASSUME NEW n \in 0..N, n # N, n \in K PROVE n + 1 \in K
  <2>1. PICK f : RunUpTo(S, base, ch, step, f, n)
    BY <1>3
  <2> DEFINE Of(g, u) == IF u = {} THEN base ELSE step[ch[u]][g[u \ {ch[u]}]]
             h == [u \in Small(S, n + 1) |-> IF Cardinality(u) <= n THEN f[u] ELSE Of(f, u)]
  <2>2. ASSUME NEW u \in Small(S, n + 1) PROVE h[u] = Of(h, u)
    <3>1. u \in SUBSET S /\ Cardinality(u) <= n + 1
      BY DEF Small
    <3>2. Of(h, u) = Of(f, u)
      <4>1. CASE u = {}
        BY <4>1
      <4>2. CASE u # {}
        <5> DEFINE v == u \ {ch[u]}
        <5>1. v \in SUBSET S /\ Cardinality(v) <= n /\ Cardinality(v) <= n + 1
          BY <1>0, <1>1, <1>3, <3>1, <4>2, TakesOne
        <5>2. h[v] = f[v]
          BY <5>1 DEF Small
        <5> HIDE DEF h
        <5> QED  BY <4>2, <5>2
      <4> QED  BY <4>1, <4>2
    <3>3. CASE Cardinality(u) <= n
      <4>1. u \in Small(S, n)
        BY <3>1, <3>3 DEF Small
      <4>2. f[u] = Of(f, u)
        BY <2>1, <4>1 DEF RunUpTo
      <4>3. h[u] = f[u]
        BY <3>3
      <4> HIDE DEF h, Of
      <4> QED  BY <3>2, <4>2, <4>3
    <3>4. CASE ~(Cardinality(u) <= n)
      <4>1. h[u] = Of(f, u)
        BY <3>4
      <4> HIDE DEF h, Of
      <4> QED  BY <3>2, <4>1
    <3> QED  BY <3>3, <3>4
  <2>3. h = [u \in Small(S, n + 1) |-> h[u]]
    OBVIOUS
  <2> HIDE DEF h
  <2>4. RunUpTo(S, base, ch, step, h, n + 1)
    BY <2>2, <2>3 DEF RunUpTo
  <2>5. n + 1 \in 0..N
    BY <1>1, <1>3
  <2> QED  BY <2>4, <2>5
<1> HIDE DEF K
<1>4. 0..N \subseteq K
  BY <1>1, <1>2, <1>3, UpTo
<1>5. Small(S, N) = SUBSET S
  <2>1. ASSUME NEW u \in SUBSET S PROVE Cardinality(u) <= N
    BY FS_Subset
  <2> QED  BY <2>1 DEF Small
<1>6. N \in K
  BY <1>1, <1>4
<1>7. \E f : RunUpTo(S, base, ch, step, f, N)
  BY <1>6 DEF K
<1> HIDE DEF N
<1> QED  BY <1>5, <1>7 DEF Runs, RunUpTo

\* What each step keeps, all keep; what a step does and the others keep, is done in the end.
LEMMA RunsKeep ==
    ASSUME NEW S, IsFiniteSet(S), NEW W, NEW base \in W, NEW ch, Choosing(S, ch),
           NEW step, NEW Done, Steps(S, W, step, Done),
           NEW f, Follows(S, W, base, ch, step, f)
    PROVE  /\ \A u \in SUBSET S : f[u] \in W
           /\ \A x \in S : <<x, f[S]>> \in Done
<1> DEFINE N == Cardinality(S)
           K == {n \in 0..N : \A u \in SUBSET S : Cardinality(u) <= n => f[u] \in W /\ \A x \in u : <<x, f[u]>> \in Done}
<1>1. N \in Nat
  BY FS_CardinalityType
<1>a. \A u \in SUBSET S : IF u = {} THEN f[u] = base ELSE f[u \ {ch[u]}] \in W => f[u] = step[ch[u]][f[u \ {ch[u]}]]
  BY DEF Follows
<1>b. \A u \in SUBSET S : u # {} => ch[u] \in u
  BY DEF Choosing
<1>c. /\ \A x \in S : \A y \in W : step[x][y] \in W
      /\ \A x, z \in S : \A y \in W : x = z \/ <<x, y>> \in Done => <<x, step[z][y]>> \in Done
  BY DEF Steps
<1>2. 0 \in K
  <2>1. ASSUME NEW u \in SUBSET S, Cardinality(u) <= 0 PROVE u = {}
    BY <2>1, FS_Subset, FS_CardinalityType, FS_EmptySet
  <2>2. \A u \in SUBSET S : Cardinality(u) <= 0 => f[u] \in W /\ \A x \in u : <<x, f[u]>> \in Done
    BY <1>a, <2>1
  <2> QED  BY <1>1, <2>2
<1>3. ASSUME NEW n \in 0..N, n # N, n \in K PROVE n + 1 \in K
  <2>1. ASSUME NEW u \in SUBSET S, Cardinality(u) <= n + 1 PROVE f[u] \in W /\ \A x \in u : <<x, f[u]>> \in Done
    <3>1. CASE u = {}
      BY <1>a, <3>1
    <3>2. CASE u # {}
      <4> DEFINE z == ch[u]
                 v == u \ {z}
      <4>1. v \in SUBSET S /\ Cardinality(v) <= n
        BY <1>1, <1>3, <1>b, <2>1, <3>2, TakesOne
      <4>2. f[v] \in W /\ \A x \in v : <<x, f[v]>> \in Done
        BY <1>3, <4>1
      <4>3. z \in S /\ u = v \union {z}
        BY <1>b, <3>2
      <4>4. f[u] = step[z][f[v]]
        BY <1>a, <3>2, <4>2
      <4> HIDE DEF z, v
      <4> QED  BY <1>c, <4>1, <4>2, <4>3, <4>4
    <3> QED  BY <3>1, <3>2
  <2>2. n + 1 \in 0..N
    BY <1>1, <1>3
  <2> QED  BY <2>1, <2>2
<1> HIDE DEF K
<1>4. 0..N \subseteq K
  BY <1>1, <1>2, <1>3, UpTo
<1>5. N \in K /\ S \in SUBSET S
  BY <1>1, <1>4
<1>6. \A u \in SUBSET S : Cardinality(u) <= N
  BY FS_Subset
<1> QED  BY <1>5, <1>6 DEF K

-----------------------------------------------------------------------------
\* Ids a process draws: those of others do not matter.
Id == Clerk \X Nat
Ours(I, w) == {i \in I : i[1] = w}
Dense(I) ==
  /\ I \subseteq Id /\ IsFiniteSet(I)
  /\ \A i \in I : i[2] <= Cardinality(Ours(I, i[1]))

\* A part of the ids is finite, and no larger.
LEMMA OursFinite ==
    ASSUME NEW I, IsFiniteSet(I), NEW w
    PROVE  /\ IsFiniteSet(Ours(I, w)) /\ Cardinality(Ours(I, w)) \in Nat
           /\ \A J \in SUBSET I : Cardinality(Ours(J, w)) \in Nat /\ Cardinality(Ours(J, w)) <= Cardinality(Ours(I, w))
<1>1. IsFiniteSet(Ours(I, w))
  BY FS_Subset DEF Ours
<1>2. ASSUME NEW J \in SUBSET I PROVE Cardinality(Ours(J, w)) \in Nat /\ Cardinality(Ours(J, w)) <= Cardinality(Ours(I, w))
  <2>1. Ours(J, w) \subseteq Ours(I, w)
    BY DEF Ours
  <2> QED  BY <1>1, <2>1, FS_Subset, FS_CardinalityType
<1> QED  BY <1>1, <1>2, FS_CardinalityType

\* An id that is drawn is new.
LEMMA NewIdFacts ==
    ASSUME NEW I, Dense(I), NEW w \in Clerk
    PROVE  /\ NewId(w, I) \in Id \ I /\ NewId(w, I)[1] = w /\ Dense(I \union {NewId(w, I)})
<1> DEFINE n == Cardinality(Ours(I, w))
           i == <<w, n + 1>>
           J == I \union {i}
<1>1. I \subseteq Id /\ IsFiniteSet(I) /\ n \in Nat /\ \A k \in I : k[2] <= Cardinality(Ours(I, k[1]))
  BY OursFinite DEF Dense
<1>2. NewId(w, I) = i
  BY DEF NewId, Ours
<1>3. i \in Id /\ i[1] = w /\ i[2] = n + 1
  BY <1>1 DEF Id
<1>4. i \notin I
  <2>1. SUFFICES ASSUME i \in I PROVE FALSE
    OBVIOUS
  <2>2. n + 1 <= n
    BY <1>1, <1>3, <2>1
  <2> QED  BY <1>1, <2>2
<1>5. IsFiniteSet(J)
  BY <1>1, FS_AddElement
<1>6. Cardinality(Ours(J, w)) = n + 1
  <2>1. Ours(J, w) = Ours(I, w) \union {i} /\ i \notin Ours(I, w)
    BY <1>3, <1>4 DEF Ours
  <2>2. IsFiniteSet(Ours(I, w))
    BY <1>1, OursFinite
  <2> QED  BY <2>1, <2>2, FS_AddElement
<1> HIDE DEF n, i
<1>7. ASSUME NEW k \in J PROVE k[2] <= Cardinality(Ours(J, k[1]))
  <2>1. CASE k = i
    BY <1>1, <1>3, <1>6, <2>1
  <2>2. CASE k \in I
    <3>1. I \in SUBSET J
      OBVIOUS
    <3>2. /\ Cardinality(Ours(I, k[1])) \in Nat
          /\ Cardinality(Ours(J, k[1])) \in Nat /\ Cardinality(Ours(I, k[1])) <= Cardinality(Ours(J, k[1]))
      BY <1>5, <3>1, OursFinite
    <3>3. k[2] \in Nat /\ k[2] <= Cardinality(Ours(I, k[1]))
      BY <1>1, <2>2 DEF Id
    <3> QED  BY ONLY <3>2, <3>3
  <2> QED  BY <2>1, <2>2
<1>8. J \subseteq Id
  BY <1>1, <1>3
<1> QED  BY <1>2, <1>3, <1>4, <1>5, <1>7, <1>8 DEF Dense

\* What one process drew and what others drew meanwhile are together ids of this kind.
LEMMA DenseUnion ==
    ASSUME NEW I, NEW J, NEW S, Dense(I), Dense(J), S \subseteq I, S \subseteq J, NEW w,
           \A i \in I \ S : i[1] = w, Ours(J, w) \subseteq S
    PROVE  Dense(I \union J)
<1> DEFINE U == I \union J
<1>1. I \subseteq Id /\ J \subseteq Id /\ IsFiniteSet(I) /\ IsFiniteSet(J)
  BY DEF Dense
<1>2. IsFiniteSet(U) /\ U \subseteq Id
  BY <1>1, FS_Union
<1>3. ASSUME NEW i \in U PROVE i[2] <= Cardinality(Ours(U, i[1]))
  <2>1. ASSUME NEW T \in SUBSET U, Dense(T), i \in T PROVE i[2] <= Cardinality(Ours(U, i[1]))
    <3>1. /\ Cardinality(Ours(T, i[1])) \in Nat
          /\ Cardinality(Ours(U, i[1])) \in Nat /\ Cardinality(Ours(T, i[1])) <= Cardinality(Ours(U, i[1]))
      BY <1>2, OursFinite
    <3>2. i[2] \in Nat /\ i[2] <= Cardinality(Ours(T, i[1]))
      BY <1>2, <2>1 DEF Dense, Id
    <3> QED  BY ONLY <3>1, <3>2
  <2>2. i \in I \/ i \in J
    OBVIOUS
  <2> QED  BY <2>1, <2>2
<1> QED  BY <1>2, <1>3 DEF Dense

-----------------------------------------------------------------------------
\* What the tables hold.
OrderRow == [invoice : STRING, state : {"draft", "sale"}, size : Nat]
ProductRow == [cert : STRING \union {None}, sku : STRING \union {None}, stock : STRING \union {None},
               site : {<<s>> : s \in STRING} \union (STRING \X Nat), stone : STRING]
LineRow == [order : Id, number : STRING \union {None}, product : Id, stone : STRING,
            parent : Id \union {None}, child : Nat]
TableOf(R) == UNION {[I -> R] : I \in SUBSET Id}
Tables == [orders : TableOf(OrderRow), products : TableOf(ProductRow), lines : TableOf(LineRow)]

\* A product is what some entry says it is.
Described(rec) ==
  \E c \in Call : \E e \in Named(c) :
    \/ e.kind = "stone" /\ rec = ProductOf(e)
    \/ e.kind = "parcel" /\ rec = ParcelProduct(<<e.stone>>, e.stone)
    \/ e.kind = "parcel" /\ \E child \in Nat : rec = ParcelProduct(<<e.stone, child>>, e.stone)

\* A line is made for an entry of its order's invoice, and a child's line belongs to its parcel's.
Ordered(inv, rec) ==
  \E c \in Call : \E e \in Named(c) :
    /\ Cart[c].invoice = inv /\ e.number = rec.number /\ e.stone = rec.stone
    /\ rec.child # 0 => e.kind = "parcel"
LineGood(d, rec) ==
  /\ rec.order \in Orders(d) /\ rec.product \in Products(d)
  /\ d.products[rec.product].stone = rec.stone
  /\ Ordered(d.orders[rec.order].invoice, rec)
  /\ rec.child = 0 <=> rec.parent = None
  /\ rec.parent # None =>
       /\ rec.parent \in Lines(d)
       /\ LET h == d.lines[rec.parent]
          IN  h.order = rec.order /\ h.number = rec.number /\ h.stone = rec.stone /\ h.parent = None

\* The lines of an order, and what makes two the same.
LinesOf(d, o) == {l \in Lines(d) : d.lines[l].order = o}
Same(a, b) == a.order = b.order /\ a.number = b.number /\ a.child = b.child /\ a.stone = b.stone
OneEach(d) == \A l, m \in Lines(d) : Same(d.lines[l], d.lines[m]) => l = m
Sized(d) == \A o \in Orders(d) : d.orders[o].size = Cardinality(LinesOf(d, o))

Good(d) ==
  /\ d \in Tables /\ Dense(Orders(d)) /\ Dense(Products(d)) /\ Dense(Lines(d))
  /\ \A p \in Products(d) : Described(d.products[p])
  /\ \A l \in Lines(d) : LineGood(d, d.lines[l])
  /\ OneEach(d) /\ Sized(d)

\* Later tables: orders keep their invoice, products their stone and lines all.
Later(d, n) ==
  /\ \A o \in Orders(d) : o \in Orders(n) /\ n.orders[o].invoice = d.orders[o].invoice
  /\ \A p \in Products(d) : p \in Products(n) /\ n.products[p].stone = d.products[p].stone
  /\ \A l \in Lines(d) : l \in Lines(n) /\ n.lines[l] = d.lines[l]

\* All new ids are of process w.
Drawn(d, n, w) ==
  /\ \A o \in Orders(n) \ Orders(d) : o[1] = w
  /\ \A p \in Products(n) \ Products(d) : p[1] = w
  /\ \A l \in Lines(n) \ Lines(d) : l[1] = w
Grown(d, n, w) == Later(d, n) /\ Drawn(d, n, w)

\* Later and later.
LEMMA LaterTrans ==
    ASSUME NEW d, NEW n, NEW m, Later(d, n), Later(n, m)
    PROVE  Later(d, m)
BY DEF Later

\* So with tables that only w changed.
LEMMA GrownTrans ==
    ASSUME NEW d, NEW n, NEW m, NEW w, Grown(d, n, w), Grown(n, m, w)
    PROVE  Grown(d, m, w)
<1>1. Later(d, m)
  BY LaterTrans DEF Grown
<1>2. Drawn(d, m, w)
  BY DEF Grown, Drawn, Later
<1> QED  BY <1>1, <1>2 DEF Grown

\* No step changes nothing.
LEMMA GrownSelf ==
    ASSUME NEW d, NEW w
    PROVE  Grown(d, d, w)
BY DEF Grown, Drawn, Later

\* A good line stays one.
LEMMA LineStays ==
    ASSUME NEW d, NEW n, Later(d, n), NEW rec, LineGood(d, rec)
    PROVE  LineGood(n, rec)
BY DEF Later, LineGood

\* The rows of the tables.
LEMMA RowFacts ==
    ASSUME NEW d \in Tables
    PROVE  /\ d.orders \in [Orders(d) -> OrderRow] /\ d.products \in [Products(d) -> ProductRow]
           /\ d.lines \in [Lines(d) -> LineRow]
           /\ d = [orders |-> d.orders, products |-> d.products, lines |-> d.lines]
           /\ Orders(d) \in SUBSET Id /\ Products(d) \in SUBSET Id /\ Lines(d) \in SUBSET Id
<1>1. /\ d.orders \in TableOf(OrderRow) /\ d.products \in TableOf(ProductRow) /\ d.lines \in TableOf(LineRow)
      /\ d = [orders |-> d.orders, products |-> d.products, lines |-> d.lines]
  BY DEF Tables
<1>2. \A R : \A t \in TableOf(R) : t \in [DOMAIN t -> R] /\ DOMAIN t \in SUBSET Id
  BY DEF TableOf
<1> QED  BY <1>1, <1>2 DEF Orders, Products, Lines

\* A row is inserted or rewritten.
LEMMA InsertFacts ==
    ASSUME NEW R, NEW t \in TableOf(R), NEW i \in Id, NEW r \in R, NEW n, n = Insert(t, i, r)
    PROVE  /\ n \in TableOf(R) /\ DOMAIN n = DOMAIN t \union {i}
           /\ n[i] = r /\ \A k \in DOMAIN t : k # i => n[k] = t[k]
<1> DEFINE I == DOMAIN t \union {i}
<1>1. t \in [DOMAIN t -> R] /\ DOMAIN t \in SUBSET Id
  BY DEF TableOf
<1>2. n = [k \in I |-> IF k = i THEN r ELSE t[k]]
  BY DEF Insert
<1>3. n \in [I -> R] /\ I \in SUBSET Id
  BY <1>1, <1>2
<1>4. n \in TableOf(R)
  BY <1>3 DEF TableOf
<1> QED  BY <1>2, <1>4

\* What an entry may be.
CartEntry == [kind : EntryKind, number : STRING \union {None}, cert : STRING \union {None}, sku : STRING \union {None},
          stock : STRING \union {None}, stone : STRING, children : SUBSET Nat, faulty : BOOLEAN]
\* The entries of a call are such entries.
LEMMA CartFacts ==
    ASSUME NEW c \in Call
    PROVE  /\ Cart[c].invoice \in STRING /\ Cart[c].entries \in Seq(CartEntry)
           /\ Named(c) = {Cart[c].entries[i] : i \in DOMAIN Cart[c].entries}
           /\ \A e \in Named(c) : e \in CartEntry /\ IsFiniteSet(e.children)
<1>1. Cart \in [Call -> [invoice : STRING, entries : Seq(CartEntry)]]
  BY WebsiteOrdersAssumption DEF CartEntry
<1>2. Cart[c] \in [invoice : STRING, entries : Seq(CartEntry)]
  BY <1>1
<1> DEFINE es == Cart[c].entries
<1>3. Cart[c].invoice \in STRING /\ es \in Seq(CartEntry)
  BY <1>2
<1>4. Named(c) = {es[i] : i \in DOMAIN es}
  BY DEF Named, Range
<1>5. \A i \in DOMAIN es : IsFiniteSet(es[i].children)
  BY WebsiteOrdersAssumption
<1> HIDE DEF es
<1>6. \A i \in DOMAIN es : es[i] \in CartEntry
  BY <1>3, ElementOfSeq
<1>7. \A e \in Named(c) : e \in CartEntry /\ IsFiniteSet(e.children)
  BY <1>4, <1>5, <1>6
<1> QED  BY <1>3, <1>4, <1>7 DEF es

\* The products of entries are such rows.
LEMMA DescribedRow ==
    ASSUME NEW rec, Described(rec)
    PROVE  rec \in ProductRow
<1>0. PICK c \in Call : \E e \in Named(c) :
        \/ e.kind = "stone" /\ rec = ProductOf(e)
        \/ e.kind = "parcel" /\ rec = ParcelProduct(<<e.stone>>, e.stone)
        \/ e.kind = "parcel" /\ \E child \in Nat : rec = ParcelProduct(<<e.stone, child>>, e.stone)
  BY DEF Described
<1>1. PICK e \in Named(c) :
        \/ e.kind = "stone" /\ rec = ProductOf(e)
        \/ e.kind = "parcel" /\ rec = ParcelProduct(<<e.stone>>, e.stone)
        \/ e.kind = "parcel" /\ \E child \in Nat : rec = ParcelProduct(<<e.stone, child>>, e.stone)
  BY <1>0
<1>2. /\ e.stone \in STRING /\ e.cert \in STRING \union {None}
      /\ e.sku \in STRING \union {None} /\ e.stock \in STRING \union {None}
  BY CartFacts DEF CartEntry
<1>3. <<e.stone>> \in {<<s>> : s \in STRING} /\ \A child \in Nat : <<e.stone, child>> \in STRING \X Nat
  BY <1>2
<1> QED  BY <1>1, <1>2, <1>3 DEF ProductOf, ParcelProduct, ProductRow

\* A product is saved, new or over one of the same stone.
LEMMA SaveFacts ==
    ASSUME NEW d, Good(d), NEW w \in Clerk, NEW found \in SUBSET Products(d), NEW rec, Described(rec),
           \A x \in found : d.products[x].stone = rec.stone,
           NEW r, r = SaveProduct(d, found, rec, w)
    PROVE  /\ Good(r.db) /\ Grown(d, r.db, w)
           /\ r.db.orders = d.orders /\ r.db.lines = d.lines
           /\ r.id \in Products(r.db) /\ r.db.products[r.id] = rec
<1> DEFINE p == r.id
           n == r.db
<1>0. d \in Tables /\ Dense(Products(d)) /\ Products(d) \in SUBSET Id
  BY RowFacts DEF Good
<1>1. r = [id |-> IF found = {} THEN NewId(w, Products(d)) ELSE CHOOSE x \in found : TRUE,
           db |-> [d EXCEPT !.products =
                     Insert(@, IF found = {} THEN NewId(w, Products(d)) ELSE CHOOSE x \in found : TRUE, rec)]]
  BY DEF SaveProduct
<1>2. /\ p = IF found = {} THEN NewId(w, Products(d)) ELSE CHOOSE x \in found : TRUE
      /\ n = [d EXCEPT !.products = Insert(@, p, rec)]
  BY ONLY <1>1
<1>3. /\ p \in Id /\ Dense(Products(d) \union {p})
      /\ p \in Products(d) => d.products[p].stone = rec.stone
      /\ p \notin Products(d) => p[1] = w
  <2>1. CASE found = {}
    BY <1>0, <1>2, <2>1, NewIdFacts
  <2>2. CASE found # {}
    <3>1. p \in found
      BY <1>2, <2>2
    <3>2. Products(d) \union {p} = Products(d)
      BY <3>1
    <3> QED  BY <1>0, <3>1, <3>2
  <2> QED  BY <2>1, <2>2
<1> HIDE DEF p, n
<1> DEFINE t == Insert(d.products, p, rec)
<1>4. /\ t \in TableOf(ProductRow) /\ DOMAIN t = Products(d) \union {p} /\ t[p] = rec
      /\ \A x \in Products(d) : x # p => t[x] = d.products[x]
  <2>1. d.products \in TableOf(ProductRow) /\ rec \in ProductRow
    BY <1>0, DescribedRow DEF Tables
  <2>2. /\ t \in TableOf(ProductRow) /\ DOMAIN t = DOMAIN d.products \union {p} /\ t[p] = rec
        /\ \A x \in DOMAIN d.products : x # p => t[x] = d.products[x]
    <3> DEFINE s == d.products
               R == ProductRow
    <3>1. s \in TableOf(R) /\ p \in Id /\ rec \in R
      BY <1>3, <2>1
    <3>2. t = Insert(s, p, rec)
      OBVIOUS
    <3> HIDE DEF s, R, t
    <3>3. /\ t \in TableOf(R) /\ DOMAIN t = DOMAIN s \union {p} /\ t[p] = rec
          /\ \A k \in DOMAIN s : k # p => t[k] = s[k]
      BY ONLY <3>1, <3>2, InsertFacts
    <3> QED  BY ONLY <3>3 DEF s, R
  <2> QED  BY <2>2 DEF Products
<1> HIDE DEF t
<1>5. n = [orders |-> d.orders, products |-> t, lines |-> d.lines]
  BY <1>0, <1>2, RowFacts DEF t
<1>6. /\ n.orders = d.orders /\ n.products = t /\ n.lines = d.lines /\ n \in Tables
      /\ Orders(n) = Orders(d) /\ Lines(n) = Lines(d) /\ Products(n) = Products(d) \union {p}
  BY <1>0, <1>4, <1>5 DEF Tables, Orders, Lines, Products
<1>7. \A x \in Products(n) : Described(n.products[x])
  BY <1>4, <1>6 DEF Good
<1>8. \A x \in Products(d) : n.products[x].stone = d.products[x].stone
  BY <1>3, <1>4, <1>6
<1>9. Grown(d, n, w)
  BY <1>3, <1>6, <1>8 DEF Grown, Later, Drawn
<1>10. \A l \in Lines(n) : LineGood(n, n.lines[l])
  BY <1>6, <1>9, LineStays DEF Grown, Good
<1>11. OneEach(n) /\ Sized(n)
  BY <1>6 DEF Good, OneEach, Sized, LinesOf
<1>12. Good(n)
  BY <1>3, <1>6, <1>7, <1>10, <1>11 DEF Good
<1> QED  BY <1>4, <1>6, <1>9, <1>12 DEF n, p

\* A line is added, unlike those of its order.
LEMMA AddFacts ==
    ASSUME NEW d, Good(d), NEW w \in Clerk, NEW rec \in LineRow, LineGood(d, rec),
           \A m \in Lines(d) : ~Same(d.lines[m], rec),
           NEW n, n = AddLine(d, rec, w)
    PROVE  Good(n) /\ Grown(d, n, w) /\ \E l \in Lines(n) : n.lines[l] = rec
<1> DEFINE i == NewId(w, Lines(d))
           o == rec.order
           t == Insert(d.lines, i, rec)
           os == [d.orders EXCEPT ![o].size = @ + 1]
<1>0. /\ d \in Tables /\ Dense(Lines(d)) /\ Orders(d) \in SUBSET Id /\ Lines(d) \in SUBSET Id
      /\ d.orders \in [Orders(d) -> OrderRow] /\ o \in Orders(d)
  BY RowFacts DEF Good, LineGood
<1>1. i \in Id \ Lines(d) /\ i[1] = w /\ Dense(Lines(d) \union {i})
  BY <1>0, NewIdFacts
<1>2. n = [orders |-> os, products |-> d.products, lines |-> t]
  <2>1. d = [orders |-> d.orders, products |-> d.products, lines |-> d.lines]
    BY <1>0, RowFacts
  <2>2. AddLine(d, rec, w) = [d EXCEPT !.lines = t, !.orders = os]
    BY <1>0, <2>1 DEF AddLine
  <2> HIDE DEF t, os
  <2> QED  BY ONLY <2>1, <2>2, n = AddLine(d, rec, w)
<1> HIDE DEF i
<1>3. /\ t \in TableOf(LineRow) /\ DOMAIN t = Lines(d) \union {i} /\ t[i] = rec
      /\ \A x \in Lines(d) : t[x] = d.lines[x]
  <2>1. d.lines \in TableOf(LineRow)
    BY <1>0 DEF Tables
  <2>2. /\ t \in TableOf(LineRow) /\ DOMAIN t = DOMAIN d.lines \union {i} /\ t[i] = rec
        /\ \A x \in DOMAIN d.lines : x # i => t[x] = d.lines[x]
    <3> DEFINE s == d.lines
               R == LineRow
    <3>1. s \in TableOf(R) /\ i \in Id /\ rec \in R
      BY <1>1, <2>1
    <3>2. t = Insert(s, i, rec)
      OBVIOUS
    <3> HIDE DEF s, R, t
    <3>3. /\ t \in TableOf(R) /\ DOMAIN t = DOMAIN s \union {i} /\ t[i] = rec
          /\ \A k \in DOMAIN s : k # i => t[k] = s[k]
      BY ONLY <3>1, <3>2, InsertFacts
    <3> QED  BY ONLY <3>3 DEF s, R
  <2> QED  BY <1>1, <2>2 DEF Lines
<1> HIDE DEF t
<1>4. /\ os \in [Orders(d) -> OrderRow] /\ \A x \in Orders(d) : os[x].invoice = d.orders[x].invoice
      /\ os[o].size = d.orders[o].size + 1 /\ \A x \in Orders(d) : x # o => os[x] = d.orders[x]
  <2>1. d.orders[o] \in OrderRow
    BY <1>0
  <2>2. [d.orders[o] EXCEPT !.size = @ + 1] \in OrderRow /\ [d.orders[o] EXCEPT !.size = @ + 1].invoice = d.orders[o].invoice
        /\ [d.orders[o] EXCEPT !.size = @ + 1].size = d.orders[o].size + 1
    BY <2>1 DEF OrderRow
  <2>3. os = [d.orders EXCEPT ![o] = [d.orders[o] EXCEPT !.size = @ + 1]]
    BY <1>0, <2>1
  <2> DEFINE row == [d.orders[o] EXCEPT !.size = @ + 1]
  <2> HIDE DEF row, os
  <2> QED  BY <1>0, <2>2, <2>3 DEF row
<1> HIDE DEF os
<1>5. /\ n.orders = os /\ n.products = d.products /\ n.lines = t
      /\ Orders(n) = Orders(d) /\ Products(n) = Products(d) /\ Lines(n) = Lines(d) \union {i}
  BY <1>2, <1>3, <1>4 DEF Orders, Products, Lines
<1>6. n \in Tables
  <2>1. os \in TableOf(OrderRow)
    BY <1>0, <1>4 DEF TableOf
  <2> QED  BY <1>0, <1>2, <1>3, <2>1 DEF Tables
<1>7. Grown(d, n, w)
  BY <1>1, <1>3, <1>4, <1>5 DEF Grown, Later, Drawn
<1>8. \A l \in Lines(n) : LineGood(n, n.lines[l])
  <2>1. \A l \in Lines(d) : n.lines[l] = d.lines[l] /\ LineGood(d, d.lines[l])
    BY <1>3, <1>5 DEF Good
  <2>2. \A r : LineGood(d, r) => LineGood(n, r)
    BY <1>7, LineStays DEF Grown
  <2> QED  BY <1>3, <1>5, <2>1, <2>2
<1>9. OneEach(n)
  <2>1. \A l, m \in Lines(d) : Same(d.lines[l], d.lines[m]) => l = m
    BY DEF Good, OneEach
  <2>2. \A m \in Lines(d) : ~Same(d.lines[m], rec) /\ ~Same(rec, d.lines[m])
    BY DEF Same
  <2> QED  BY <1>3, <1>5, <2>1, <2>2 DEF OneEach
<1>10. Sized(n)
  <2>0. IsFiniteSet(Lines(d))
    BY <1>0 DEF Dense
  <2>1. ASSUME NEW x \in Orders(d) PROVE n.orders[x].size = Cardinality(LinesOf(n, x))
    <3>1. d.orders[x].size = Cardinality(LinesOf(d, x))
      BY DEF Good, Sized
    <3>2. CASE x = o
      <4>1. LinesOf(n, x) = LinesOf(d, x) \union {i} /\ i \notin LinesOf(d, x)
        BY <1>1, <1>3, <1>5, <3>2 DEF LinesOf
      <4>2. IsFiniteSet(LinesOf(d, x))
        BY <2>0, FS_Subset DEF LinesOf
      <4>3. Cardinality(LinesOf(n, x)) = Cardinality(LinesOf(d, x)) + 1
        BY <4>1, <4>2, FS_AddElement
      <4> QED  BY <1>4, <1>5, <3>1, <3>2, <4>3
    <3>3. CASE x # o
      <4>1. LinesOf(n, x) = LinesOf(d, x)
        BY <1>1, <1>3, <1>5, <3>3 DEF LinesOf
      <4> QED  BY <1>4, <1>5, <3>1, <3>3, <4>1
    <3> QED  BY <3>2, <3>3
  <2> QED  BY <1>5, <2>1 DEF Sized
<1>11. Good(n)
  <2>1. Dense(Orders(d)) /\ Dense(Products(d)) /\ \A p \in Products(d) : Described(d.products[p])
    BY DEF Good
  <2> QED  BY <1>1, <1>5, <1>6, <1>8, <1>9, <1>10, <2>1 DEF Good
<1>12. \E l \in Lines(n) : n.lines[l] = rec
  BY <1>3, <1>5
<1> QED  BY <1>7, <1>11, <1>12

-----------------------------------------------------------------------------
\* An entry has a certificate or number of another one or of a product.
SharesName(e, x) ==
  \/ e.cert # None /\ e.cert = x.cert
  \/ e.sku # None /\ e.sku = x.sku
  \/ e.stock # None /\ e.stock = x.stock

\* What two entries have in common.
LEMMA Meant ==
    ASSUME Unambiguous, NEW c \in Call, NEW b \in Call, NEW e \in Named(c), NEW f \in Named(b)
    PROVE  /\ e.kind = "stone" /\ f.kind = "stone"
              /\ SharesName(e, f) => e.stone = f.stone
           /\ e.stone = f.stone =>
                e.kind = f.kind /\ (e.number = None => e.cert = f.cert /\ (e.sku # None => e.sku = f.sku))
           /\ Cart[c].invoice = Cart[b].invoice =>
                /\ e.number = f.number /\ e.number # None => e.stone = f.stone
                /\ e.stone = f.stone => e.number = f.number
BY DEF Unambiguous, SharesName

\* A line is made for entry f of call b, of the same order as call c.
MadeFor(f, rec, b, c) ==
  /\ Cart[b].invoice = Cart[c].invoice /\ f.number = rec.number /\ f.stone = rec.stone
  /\ rec.child # 0 => f.kind = "parcel"

\* A numbered entry of an order is the one a line was made for, or not.
LEMMA LineOfEntry ==
    ASSUME Unambiguous, NEW d, Good(d), NEW l \in Lines(d), NEW c \in Call, NEW e \in Named(c),
           d.orders[d.lines[l].order].invoice = Cart[c].invoice
    PROVE  /\ d.lines[l].number = e.number /\ e.number # None => d.lines[l].stone = e.stone
           /\ d.lines[l].stone = e.stone => d.lines[l].number = e.number /\ (e.kind # "parcel" => d.lines[l].child = 0)
<1>1. Ordered(Cart[c].invoice, d.lines[l])
  BY DEF Good, LineGood
<1> DEFINE rec == d.lines[l]
<1> HIDE DEF rec
<1>2. Ordered(Cart[c].invoice, rec)
  BY <1>1 DEF rec
<1>3. PICK b \in Call : \E f \in Named(b) : MadeFor(f, rec, b, c)
  BY <1>2 DEF Ordered, MadeFor
<1>4. PICK f \in Named(b) : MadeFor(f, rec, b, c)
  BY <1>3
<1>5. /\ e.stone = f.stone => e.kind = f.kind
      /\ e.number = f.number /\ e.number # None => e.stone = f.stone
      /\ e.stone = f.stone => e.number = f.number
  BY <1>4, Meant DEF MadeFor
<1>6. /\ rec.number = e.number /\ e.number # None => rec.stone = e.stone
      /\ rec.stone = e.stone => rec.number = e.number
  BY <1>4, <1>5 DEF MadeFor
<1>7. rec.stone = e.stone /\ e.kind # "parcel" => rec.child = 0
  BY <1>4, <1>5 DEF MadeFor
<1> QED  BY <1>6, <1>7 DEF rec

\* The product of a stone, and the stone of a product with its certificate or number.
LEMMA StoneOfProduct ==
    ASSUME Unambiguous, NEW rec, Described(rec), NEW c \in Call, NEW e \in Named(c), e.kind = "stone"
    PROVE  /\ SharesName(e, rec) => rec.stone = e.stone
           /\ rec.stone = e.stone /\ e.number = None => rec.cert = e.cert /\ (e.sku # None => rec.sku = e.sku)
<1>0. PICK b \in Call : \E f \in Named(b) :
        \/ f.kind = "stone" /\ rec = ProductOf(f)
        \/ f.kind = "parcel" /\ rec = ParcelProduct(<<f.stone>>, f.stone)
        \/ f.kind = "parcel" /\ \E child \in Nat : rec = ParcelProduct(<<f.stone, child>>, f.stone)
  BY DEF Described
<1>1. PICK f \in Named(b) :
        \/ f.kind = "stone" /\ rec = ProductOf(f)
        \/ f.kind = "parcel" /\ rec = ParcelProduct(<<f.stone>>, f.stone)
        \/ f.kind = "parcel" /\ \E child \in Nat : rec = ParcelProduct(<<f.stone, child>>, f.stone)
  BY <1>0
<1>2. CASE f.kind = "stone" /\ rec = ProductOf(f)
  <2>1. rec.cert = f.cert /\ rec.sku = f.sku /\ rec.stock = f.stock /\ rec.stone = f.stone
    BY <1>2 DEF ProductOf
  <2>2. /\ SharesName(e, f) => e.stone = f.stone
        /\ e.stone = f.stone => (e.number = None => e.cert = f.cert /\ (e.sku # None => e.sku = f.sku))
    BY <1>2, Meant
  <2> QED  BY <2>1, <2>2 DEF SharesName
<1>3. CASE f.kind = "parcel" /\ \E site : rec = ParcelProduct(site, f.stone)
  <2>1. rec.cert = None /\ rec.sku = None /\ rec.stock = None /\ rec.stone = f.stone
    BY <1>3 DEF ParcelProduct
  <2>2. e.stone # f.stone
    BY <1>3, Meant
  <2> QED  BY <2>1, <2>2 DEF SharesName
<1> QED  BY <1>1, <1>2, <1>3

\* The products found for a stone are of that stone.
LEMMA StoneFound ==
    ASSUME Unambiguous, NEW d, Good(d), NEW c \in Call, NEW e \in Named(c), e.kind = "stone"
    PROVE  /\ FindStone(d.products, e) \in SUBSET Products(d)
           /\ \A x \in FindStone(d.products, e) : d.products[x].stone = e.stone
<1> DEFINE By(field) == {p \in Products(d) : e[field] # None /\ d.products[p][field] = e[field]}
<1>1. FindStone(d.products, e) \in {By("cert"), By("sku"), By("stock")}
  BY DEF FindStone, Products
<1>2. \A p \in Products(d) : Described(d.products[p])
  BY DEF Good
<1>3. ASSUME NEW p \in By("cert") \union By("sku") \union By("stock") PROVE d.products[p].stone = e.stone
  <2> DEFINE rec == d.products[p]
  <2>1. /\ Described(rec)
        /\ SharesName(e, rec)
    BY <1>2, <1>3 DEF SharesName
  <2> HIDE DEF rec
  <2>2. rec.stone = e.stone
    BY <2>1, StoneOfProduct
  <2> QED  BY <2>2 DEF rec
<1> QED  BY <1>1, <1>3

\* The ids of a parcel and its children on the website.
Sites(s) == {<<s>>} \union {<<s, child>> : child \in Nat}

\* The parcels found for an id on the website are of that stone.
LEMMA ParcelFound ==
    ASSUME NEW d, Good(d), NEW s \in STRING, NEW site \in Sites(s)
    PROVE  /\ FindParcel(d.products, site) \in SUBSET Products(d)
           /\ \A x \in FindParcel(d.products, site) : d.products[x].stone = s
<1>1. \A p \in Products(d) : Described(d.products[p])
  BY DEF Good
<1>2. ASSUME NEW p \in FindParcel(d.products, site) PROVE p \in Products(d) /\ d.products[p].stone = s
  <2>1. p \in Products(d) /\ d.products[p].site = site
    BY DEF FindParcel, Products
  <2> DEFINE rec == d.products[p]
  <2>2. Described(rec) /\ rec.site = site
    BY <1>1, <2>1
  <2> HIDE DEF rec
  <2>3. \E t \in STRING : rec.stone = t /\ (rec.site = <<t>> \/ \E n \in Nat : rec.site = <<t, n>>)
    <3>1. ASSUME NEW b \in Call, NEW f \in Named(b),
                 \/ f.kind = "stone" /\ rec = ProductOf(f)
                 \/ f.kind = "parcel" /\ rec = ParcelProduct(<<f.stone>>, f.stone)
                 \/ f.kind = "parcel" /\ \E n \in Nat : rec = ParcelProduct(<<f.stone, n>>, f.stone)
          PROVE  /\ f.stone \in STRING /\ rec.stone = f.stone
                 /\ rec.site = <<f.stone>> \/ \E n \in Nat : rec.site = <<f.stone, n>>
      <4>1. f.stone \in STRING
        BY CartFacts DEF CartEntry
      <4> QED  BY <3>1, <4>1 DEF ProductOf, ParcelProduct
    <3> QED  BY <2>2, <3>1 DEF Described
  <2>4. PICK t \in STRING : rec.stone = t /\ (site = <<t>> \/ \E n \in Nat : site = <<t, n>>)
    BY <2>2, <2>3
  <2>5. site[1] = s /\ site[1] = t
    BY <2>4 DEF Sites
  <2> QED  BY <2>1, <2>4, <2>5 DEF rec
<1> QED  BY <1>2

\* A line of an order for an entry, and all an entry promises.
ShownAt(d, o, e, k) ==
  \E l \in Lines(d) : /\ d.lines[l].order = o /\ d.lines[l].number = e.number
                      /\ d.lines[l].stone = e.stone /\ d.lines[l].child = k
Shown(d, o, e) ==
  (e.kind = "parcel" \/ e.cert # None \/ e.sku # None) => \A k \in {0} \union e.children : ShownAt(d, o, e, k)

\* What is shown stays.
LEMMA ShownStays ==
    ASSUME NEW d, NEW n, Later(d, n), NEW o, NEW e
    PROVE  /\ \A k : ShownAt(d, o, e, k) => ShownAt(n, o, e, k)
           /\ Shown(d, o, e) => Shown(n, o, e)
<1>1. \A k : ShownAt(d, o, e, k) => ShownAt(n, o, e, k)
  BY DEF Later, ShownAt
<1> QED  BY <1>1 DEF Shown

\* The line of an entry, as it is made.
LineFor(o, e, p, parent, child) ==
  [order |-> o, number |-> e.number, product |-> p, stone |-> e.stone, parent |-> parent, child |-> child]

\* A stone is booked.
LEMMA StoneBooked ==
    ASSUME Unambiguous, NEW d, Good(d), NEW w \in Clerk, NEW c \in Call, NEW e \in Named(c), e.kind = "stone",
           NEW o \in Orders(d), d.orders[o].invoice = Cart[c].invoice,
           NEW n, n = BookStone(d, o, e, w)
    PROVE  Good(n) /\ Grown(d, n, w) /\ Shown(n, o, e)
<1> DEFINE r == SaveProduct(d, FindStone(d.products, e), ProductOf(e), w)
           s == r.db
           old == ExistingLine(s, o, e)
           rec == LineFor(o, e, r.id, None, 0)
<1>0. ProductOf(e).stone = e.stone /\ Described(ProductOf(e)) /\ e \in CartEntry /\ e.children = {}
  <2>1. Described(ProductOf(e))
    BY DEF Described
  <2>2. e.children = {}
    BY DEF Unambiguous
  <2> QED  BY <2>1, <2>2, CartFacts DEF ProductOf
<1>1. /\ Good(s) /\ Grown(d, s, w) /\ s.orders = d.orders /\ s.lines = d.lines
      /\ r.id \in Products(s) /\ s.products[r.id] = ProductOf(e)
  <2> DEFINE found == FindStone(d.products, e)
             sp == ProductOf(e)
  <2>1. found \in SUBSET Products(d) /\ \A x \in found : d.products[x].stone = sp.stone
    BY <1>0, StoneFound
  <2>2. Described(sp) /\ r = SaveProduct(d, found, sp, w)
    BY <1>0
  <2> HIDE DEF found, sp, r
  <2>3. /\ Good(r.db) /\ Grown(d, r.db, w) /\ r.db.orders = d.orders /\ r.db.lines = d.lines
        /\ r.id \in Products(r.db) /\ r.db.products[r.id] = sp
    BY <2>1, <2>2, SaveFacts
  <2> QED  BY <2>3 DEF sp
<1>2. n = IF old # {} THEN s ELSE AddLine(s, rec, w)
  BY DEF BookStone, LineFor
<1> HIDE DEF r, s
<1>3. o \in Orders(s) /\ s.orders[o].invoice = Cart[c].invoice
  BY <1>1 DEF Orders
<1>4. ASSUME NEW l \in Lines(s), s.lines[l].order = o
      PROVE  /\ s.lines[l].number = e.number /\ e.number # None => s.lines[l].stone = e.stone
             /\ s.lines[l].stone = e.stone => s.lines[l].number = e.number /\ s.lines[l].child = 0
  BY <1>1, <1>3, <1>4, LineOfEntry
<1>5. \A l \in Lines(s) : s.lines[l].product \in Products(s) /\ s.products[s.lines[l].product].stone = s.lines[l].stone
  BY <1>1 DEF Good, LineGood
<1>6. \A x \in Products(s) :
        /\ SharesName(e, s.products[x]) => s.products[x].stone = e.stone
        /\ s.products[x].stone = e.stone /\ e.number = None =>
             s.products[x].cert = e.cert /\ (e.sku # None => s.products[x].sku = e.sku)
  <2>1. \A x \in Products(s) : Described(s.products[x])
    BY <1>1 DEF Good
  <2> QED  BY <2>1, StoneOfProduct
<1> DEFINE Numbered(l) == e.number # None /\ s.lines[l].number = e.number
           SameStone(l) == /\ s.products[s.lines[l].product].cert = e.cert
                           /\ e.sku # None => s.products[s.lines[l].product].sku = e.sku
<1>7. /\ \A l \in old : l \in Lines(s) /\ s.lines[l].order = o /\ (Numbered(l) \/ SameStone(l))
      /\ old = {} => \A l \in Lines(s) : s.lines[l].order = o => ~Numbered(l) /\ ~SameStone(l)
  BY DEF ExistingLine
<1> HIDE DEF old
<1>8. CASE old # {}
  <2>1. PICK l \in Lines(s) : s.lines[l].order = o /\ (Numbered(l) \/ SameStone(l))
    BY <1>7, <1>8
  <2>2. ASSUME e.cert # None \/ e.sku # None PROVE ShownAt(s, o, e, 0)
    <3>1. s.lines[l].stone = e.stone
      BY <1>4, <1>5, <1>6, <2>1, <2>2 DEF SharesName
    <3> QED  BY <1>4, <2>1, <3>1 DEF ShownAt
  <2>3. Shown(s, o, e)
    BY <1>0, <2>2 DEF Shown
  <2> QED  BY <1>1, <1>2, <1>8, <2>3
<1>9. CASE old = {}
  <2>1. rec \in LineRow
    BY <1>0, <1>1, <1>3, RowFacts DEF LineRow, LineFor, Good, CartEntry
  <2>2. LineGood(s, rec)
    <3>1. Ordered(Cart[c].invoice, rec)
      BY DEF Ordered, LineFor
    <3>2. s.products[rec.product].stone = e.stone /\ rec.product \in Products(s)
      BY <1>0, <1>1 DEF LineFor
    <3> QED  BY <1>3, <3>1, <3>2 DEF LineGood, LineFor
  <2>3. ASSUME NEW m \in Lines(s), Same(s.lines[m], rec) PROVE FALSE
    <3>1. s.lines[m].order = o /\ s.lines[m].number = e.number /\ s.lines[m].stone = e.stone
      BY <2>3 DEF Same, LineFor
    <3>2. ~Numbered(m) /\ ~SameStone(m)
      BY <1>7, <1>9, <3>1
    <3> QED  BY <1>5, <1>6, <3>1, <3>2
  <2>4. n = AddLine(s, rec, w)
    BY <1>2, <1>9
  <2>5. rec.order = o /\ rec.number = e.number /\ rec.stone = e.stone /\ rec.child = 0
    BY DEF LineFor
  <2> HIDE DEF rec
  <2>6. Good(n) /\ Grown(s, n, w) /\ \E l \in Lines(n) : n.lines[l] = rec
    BY <1>1, <2>1, <2>2, <2>3, <2>4, AddFacts
  <2>7. ShownAt(n, o, e, 0)
    BY <2>5, <2>6 DEF ShownAt
  <2>8. Shown(n, o, e)
    BY <1>0, <2>7 DEF Shown
  <2> QED  BY <1>1, <2>6, <2>8, GrownTrans
<1> QED  BY <1>8, <1>9

-----------------------------------------------------------------------------
\* The parcel's own line on an order, under which the children's lines are.
ParcelLine(d, o, e, h) ==
  /\ h \in Lines(d) /\ d.lines[h].order = o /\ d.lines[h].number = e.number
  /\ d.lines[h].stone = e.stone /\ d.lines[h].parent = None

\* It stays.
LEMMA ParcelLineStays ==
    ASSUME NEW d, NEW n, Later(d, n), NEW o, NEW e, NEW h, ParcelLine(d, o, e, h)
    PROVE  ParcelLine(n, o, e, h)
BY DEF Later, ParcelLine

\* A product saved for a parcel or one of its children.
LEMMA ParcelSaved ==
    ASSUME NEW d, Good(d), NEW w \in Clerk, NEW c \in Call, NEW e \in Named(c), e.kind = "parcel",
           NEW site \in Sites(e.stone),
           NEW r, r = SaveProduct(d, FindParcel(d.products, site), ParcelProduct(site, e.stone), w)
    PROVE  /\ Good(r.db) /\ Grown(d, r.db, w)
           /\ r.db.orders = d.orders /\ r.db.lines = d.lines
           /\ r.id \in Products(r.db) /\ r.db.products[r.id].stone = e.stone
<1> DEFINE found == FindParcel(d.products, site)
           rec == ParcelProduct(site, e.stone)
<1>1. e.stone \in STRING
  BY CartFacts DEF CartEntry
<1>2. rec.stone = e.stone
  BY DEF ParcelProduct
<1>3. Described(rec)
  BY DEF Described, Sites
<1>4. found \in SUBSET Products(d) /\ \A x \in found : d.products[x].stone = rec.stone
  <2> DEFINE t == e.stone
  <2>1. t \in STRING /\ site \in Sites(t)
    BY <1>1
  <2> HIDE DEF t
  <2>2. /\ FindParcel(d.products, site) \in SUBSET Products(d)
        /\ \A x \in FindParcel(d.products, site) : d.products[x].stone = t
    BY <2>1, ParcelFound
  <2> QED  BY <1>2, <2>2 DEF t
<1>5. r = SaveProduct(d, found, rec, w)
  OBVIOUS
<1> HIDE DEF found, rec
<1>6. /\ Good(r.db) /\ Grown(d, r.db, w)
      /\ r.db.orders = d.orders /\ r.db.lines = d.lines
      /\ r.id \in Products(r.db) /\ r.db.products[r.id] = rec
  BY <1>3, <1>4, <1>5, SaveFacts
<1> QED  BY <1>2, <1>6

\* A child of a parcel is booked.
LEMMA ChildBooked ==
    ASSUME NEW d, Good(d), NEW w \in Clerk, NEW c \in Call, NEW e \in Named(c), e.kind = "parcel",
           NEW o \in Orders(d), d.orders[o].invoice = Cart[c].invoice,
           NEW h, ParcelLine(d, o, e, h), NEW child \in Nat \ {0},
           NEW n, n = BookChild(d, o, h, e, child, w)
    PROVE  Good(n) /\ Grown(d, n, w) /\ ShownAt(n, o, e, child)
<1>0. /\ h \in Id /\ h # None /\ h \in Lines(d) /\ d.lines[h].order = o /\ d.lines[h].number = e.number
      /\ d.lines[h].stone = e.stone /\ d.lines[h].parent = None
      /\ \A l \in Lines(d) : LineGood(d, d.lines[l])
  BY RowFacts, WebsiteOrdersAssumption DEF ParcelLine, Good, Id
<1>1. CASE \E l \in Lines(d) : d.lines[l].parent = h /\ d.lines[l].child = child
  <2>1. PICK l \in Lines(d) : d.lines[l].parent = h /\ d.lines[l].child = child
    BY <1>1
  <2>2. d.lines[l].order = o /\ d.lines[l].number = e.number /\ d.lines[l].stone = e.stone
    BY <1>0, <2>1 DEF LineGood
  <2>3. ShownAt(d, o, e, child)
    BY <2>1, <2>2 DEF ShownAt
  <2>4. n = d
    BY <1>1 DEF BookChild
  <2> QED  BY <2>3, <2>4, GrownSelf
<1>2. CASE ~ \E l \in Lines(d) : d.lines[l].parent = h /\ d.lines[l].child = child
  <2> DEFINE site == <<e.stone, child>>
             r == SaveProduct(d, FindParcel(d.products, site), ParcelProduct(site, e.stone), w)
             s == r.db
             rec == LineFor(o, e, r.id, h, child)
  <2>1. n = AddLine(s, rec, w)
    BY <1>2 DEF BookChild, LineFor
  <2> HIDE DEF r
  <2>2. /\ Good(s) /\ Grown(d, s, w) /\ s.orders = d.orders /\ s.lines = d.lines
        /\ r.id \in Products(s) /\ s.products[r.id].stone = e.stone
    <3>1. site \in Sites(e.stone)
      BY DEF Sites
    <3> HIDE DEF site
    <3> QED  BY <3>1, ParcelSaved DEF r
  <2> HIDE DEF s
  <2>3. /\ o \in Orders(s) /\ s.orders[o].invoice = Cart[c].invoice /\ Lines(s) = Lines(d)
        /\ o \in Id /\ r.id \in Id
    BY <2>2, RowFacts DEF Orders, Lines, Good
  <2>4. /\ rec.order = o /\ rec.number = e.number /\ rec.stone = e.stone /\ rec.child = child /\ rec.parent = h
        /\ rec.product = r.id
    BY DEF LineFor
  <2>5. rec \in LineRow
    <3>1. e \in CartEntry
      BY CartFacts
    <3> QED  BY <1>0, <2>3, <3>1 DEF LineRow, LineFor, CartEntry
  <2> HIDE DEF rec
  <2>6. LineGood(s, rec)
    <3>1. Ordered(Cart[c].invoice, rec)
      BY <2>4 DEF Ordered
    <3> QED  BY <1>0, <2>2, <2>3, <2>4, <3>1 DEF LineGood
  <2>7. ASSUME NEW m \in Lines(s), Same(s.lines[m], rec) PROVE FALSE
    <3> DEFINE b == d.lines[m]
    <3>1. /\ m \in Lines(d) /\ b.order = o /\ b.number = e.number /\ b.child = child /\ b.stone = e.stone
      BY <2>2, <2>3, <2>4, <2>7 DEF Same
    <3>2. /\ b.parent # None /\ b.parent \in Lines(d) /\ d.lines[b.parent].order = o /\ d.lines[b.parent].number = e.number
          /\ d.lines[b.parent].stone = e.stone /\ d.lines[b.parent].parent = None
      BY <1>0, <3>1 DEF LineGood
    <3> HIDE DEF b
    <3>3. d.lines[b.parent].child = 0 /\ d.lines[h].child = 0
      BY <1>0, <3>2 DEF LineGood
    <3>4. b.parent = h
      BY <1>0, <3>2, <3>3 DEF Good, OneEach, Same
    <3> QED  BY <1>2, <3>1, <3>4 DEF b
  <2>8. Good(n) /\ Grown(s, n, w) /\ \E l \in Lines(n) : n.lines[l] = rec
    BY <2>1, <2>2, <2>5, <2>6, <2>7, AddFacts
  <2>9. ShownAt(n, o, e, child)
    BY <2>4, <2>8 DEF ShownAt
  <2> QED  BY <2>2, <2>8, <2>9, GrownTrans
<1> QED  BY <1>1, <1>2

-----------------------------------------------------------------------------
\* All children of a parcel are booked.
LEMMA ChildrenBooked ==
    ASSUME Unambiguous, NEW d, Good(d), NEW w \in Clerk, NEW c \in Call, NEW e \in Named(c), e.kind = "parcel",
           NEW o \in Orders(d), d.orders[o].invoice = Cart[c].invoice,
           NEW h, ParcelLine(d, o, e, h),
           NEW n, n = BookChildren(d, o, h, e, w)
    PROVE  Good(n) /\ Grown(d, n, w) /\ \A k \in e.children : ShownAt(n, o, e, k)
<1> DEFINE S == e.children
           W == {x \in Tables : Good(x) /\ Grown(d, x, w)}
           ch == [u \in SUBSET S |-> CHOOSE x \in u : TRUE]
           step == [k \in S |-> [y \in W |-> BookChild(y, o, h, e, k, w)]]
           Done == {k \in S \X W : ShownAt(k[2], o, e, k[1])}
           Of(g, u) == IF u = {} THEN d ELSE BookChild(g[u \ {CHOOSE x \in u : TRUE}], o, h, e, CHOOSE x \in u : TRUE, w)
           f == CHOOSE g : g = [u \in SUBSET S |-> Of(g, u)]
<1>0. S \in SUBSET (Nat \ {0}) /\ IsFiniteSet(S)
  <2>1. S \in SUBSET Nat /\ IsFiniteSet(S)
    BY CartFacts DEF CartEntry
  <2>2. 0 \notin S
    BY DEF Unambiguous
  <2> QED  BY <2>1, <2>2
<1>1. \A x : x \in W <=> Good(x) /\ Grown(d, x, w)
  BY DEF Good
<1>2. n = f[S]
  BY DEF BookChildren, FoldSet, MapThenFoldSet
<1>3. ASSUME NEW k \in S, NEW y \in W
      PROVE  LET z == BookChild(y, o, h, e, k, w)
             IN  z \in W /\ Later(y, z) /\ ShownAt(z, o, e, k)
  <2> DEFINE z == BookChild(y, o, h, e, k, w)
  <2>1. Good(y) /\ Grown(d, y, w) /\ k \in Nat \ {0}
    BY <1>0, <1>1, <1>3
  <2>2. o \in Orders(y) /\ y.orders[o].invoice = Cart[c].invoice
    BY <2>1 DEF Grown, Later
  <2>3. ParcelLine(y, o, e, h)
    BY <2>1, ParcelLineStays DEF Grown
  <2>4. z = BookChild(y, o, h, e, k, w)
    OBVIOUS
  <2> HIDE DEF z, W, S
  <2>5. Good(z) /\ Grown(y, z, w) /\ ShownAt(z, o, e, k)
    BY <2>1, <2>2, <2>3, <2>4, ChildBooked
  <2>6. Grown(d, z, w) /\ Later(y, z)
    BY <2>1, <2>5, GrownTrans DEF Grown
  <2> QED  BY <1>1, <2>5, <2>6 DEF z
<1>4. \A k : \A y : <<k, y>> \in Done <=> k \in S /\ y \in W /\ ShownAt(y, o, e, k)
  OBVIOUS
<1>5. d \in W
  BY <1>1, GrownSelf
<1>6. \A k \in S : \A y \in W : step[k][y] = BookChild(y, o, h, e, k, w)
  OBVIOUS
<1>7. Choosing(S, ch) /\ \A u \in SUBSET S : ch[u] = CHOOSE x \in u : TRUE
  BY DEF Choosing
<1> HIDE DEF S, W, step, ch, Done
<1>8. Steps(S, W, step, Done)
  <2>1. ASSUME NEW k \in S, NEW y \in W PROVE step[k][y] \in W
    BY <1>3, <1>6
  <2>2. ASSUME NEW k \in S, NEW j \in S, NEW y \in W, k = j \/ <<k, y>> \in Done PROVE <<k, step[j][y]>> \in Done
    <3>1. step[j][y] \in W /\ Later(y, step[j][y]) /\ ShownAt(step[j][y], o, e, j)
      BY <1>3, <1>6
    <3>2. ShownAt(step[j][y], o, e, k)
      BY <1>4, <2>2, <3>1, ShownStays
    <3> QED  BY <1>4, <3>1, <3>2
  <2> QED  BY <2>1, <2>2 DEF Steps
<1>9. ASSUME NEW g, \A u \in SUBSET S : g[u] = IF u = {} THEN d ELSE step[ch[u]][g[u \ {ch[u]}]]
      PROVE  Follows(S, W, d, ch, step, g)
  BY <1>9 DEF Follows
<1>10. \E g : g = [u \in SUBSET S |-> Of(g, u)]
  <2>1. PICK g : Runs(S, d, ch, step, g)
    BY <1>0, <1>7, AllRun
  <2>2. g = [u \in SUBSET S |-> IF u = {} THEN d ELSE step[ch[u]][g[u \ {ch[u]}]]]
    BY <2>1 DEF Runs
  <2>3. \A u \in SUBSET S : g[u] \in W
    BY <1>0, <1>5, <1>7, <1>8, <1>9, <2>2, RunsKeep
  <2>4. ASSUME NEW u \in SUBSET S PROVE (IF u = {} THEN d ELSE step[ch[u]][g[u \ {ch[u]}]]) = Of(g, u)
    <3>1. CASE u = {}
      BY <3>1
    <3>2. CASE u # {}
      <4>1. ch[u] = (CHOOSE x \in u : TRUE) /\ ch[u] \in u
        BY <1>7, <3>2 DEF Choosing
      <4>2. g[u \ {ch[u]}] \in W
        BY <2>3
      <4>3. step[ch[u]][g[u \ {ch[u]}]] = BookChild(g[u \ {ch[u]}], o, h, e, ch[u], w)
        BY <1>6, <4>1, <4>2
      <4> QED  BY <3>2, <4>1, <4>3
    <3> QED  BY <3>1, <3>2
  <2> HIDE DEF Of
  <2>5. g = [u \in SUBSET S |-> Of(g, u)]
    BY <2>2, <2>4
  <2> QED  BY <2>5
<1>11. f = [u \in SUBSET S |-> Of(f, u)]
  BY <1>10
<1> HIDE DEF f
<1>12. Follows(S, W, d, ch, step, f)
  <2>1. ASSUME NEW u \in SUBSET S, u # {}, f[u \ {ch[u]}] \in W PROVE f[u] = step[ch[u]][f[u \ {ch[u]}]]
    <3>1. ch[u] = (CHOOSE x \in u : TRUE) /\ ch[u] \in u
      BY <1>7, <2>1 DEF Choosing
    <3>2. f[u] = BookChild(f[u \ {ch[u]}], o, h, e, ch[u], w)
      BY <1>11, <2>1, <3>1
    <3> QED  BY <1>6, <2>1, <3>1, <3>2
  <2>2. f[{}] = d
    BY <1>11
  <2> QED  BY <2>1, <2>2 DEF Follows
<1>13. f[S] \in W /\ \A k \in S : <<k, f[S]>> \in Done
  BY <1>0, <1>5, <1>7, <1>8, <1>12, RunsKeep
<1> QED  BY <1>1, <1>2, <1>4, <1>13 DEF S

\* A parcel is booked, with its children if its data can be read.
LEMMA ParcelBooked ==
    ASSUME Unambiguous, NEW d, Good(d), NEW w \in Clerk, NEW c \in Call, NEW e \in Named(c), e.kind = "parcel",
           NEW o \in Orders(d), d.orders[o].invoice = Cart[c].invoice,
           NEW n, n = BookParcel(d, o, e, w)
    PROVE  Good(n) /\ Grown(d, n, w) /\ (~e.faulty => Shown(n, o, e))
<1> DEFINE site == <<e.stone>>
           r == SaveProduct(d, FindParcel(d.products, site), ParcelProduct(site, e.stone), w)
           s == r.db
           heads(x) == {l \in Lines(x) : /\ x.lines[l].order = o
                                         /\ x.lines[l].number = e.number
                                         /\ x.lines[l].parent = None}
           rec == LineFor(o, e, r.id, None, 0)
           m == IF heads(s) # {} THEN s ELSE AddLine(s, rec, w)
           h == CHOOSE l \in heads(m) : TRUE
<1>1. n = IF e.faulty THEN m ELSE BookChildren(m, o, h, e, w)
  BY DEF BookParcel, LineFor
<1>2. /\ Good(s) /\ Grown(d, s, w) /\ s.orders = d.orders /\ s.lines = d.lines
      /\ r.id \in Products(s) /\ s.products[r.id].stone = e.stone
  <2>1. site \in Sites(e.stone)
    BY DEF Sites
  <2> HIDE DEF site
  <2> QED  BY <2>1, ParcelSaved
<1> HIDE DEF r, s
<1>3. o \in Orders(s) /\ s.orders[o].invoice = Cart[c].invoice /\ o \in Id /\ r.id \in Id
  BY <1>2, RowFacts DEF Orders, Good
<1>4. e \in CartEntry /\ e.number # None
  <2>1. e.number # None
    BY DEF Unambiguous
  <2> QED  BY <2>1, CartFacts
<1>5. /\ Good(m) /\ Grown(s, m, w) /\ heads(m) # {}
  <2>1. CASE heads(s) # {}
    <3>1. m = s
      BY <2>1
    <3> HIDE DEF m
    <3> QED  BY <1>2, <2>1, <3>1, GrownSelf
  <2>2. CASE heads(s) = {}
    <3>1. rec \in LineRow
      BY <1>3, <1>4 DEF LineRow, LineFor, CartEntry
    <3>2. /\ rec.order = o /\ rec.number = e.number /\ rec.stone = e.stone /\ rec.child = 0 /\ rec.parent = None
          /\ rec.product = r.id
      BY DEF LineFor
    <3>3. m = AddLine(s, rec, w)
      BY <2>2
    <3> HIDE DEF rec, m
    <3>4. LineGood(s, rec)
      <4>1. Ordered(Cart[c].invoice, rec)
        BY <3>2 DEF Ordered
      <4> QED  BY <1>2, <1>3, <3>2, <4>1 DEF LineGood
    <3>5. ASSUME NEW l \in Lines(s), Same(s.lines[l], rec) PROVE FALSE
      <4>1. s.lines[l].order = o /\ s.lines[l].number = e.number /\ s.lines[l].child = 0
        BY <3>2, <3>5 DEF Same
      <4>2. s.lines[l].parent = None
        BY <1>2, <4>1 DEF Good, LineGood
      <4> QED  BY <2>2, <4>1, <4>2
    <3>6. Good(m) /\ Grown(s, m, w) /\ \E l \in Lines(m) : m.lines[l] = rec
      BY <1>2, <3>1, <3>3, <3>4, <3>5, AddFacts
    <3>7. heads(m) # {}
      BY <3>2, <3>6
    <3> QED  BY <3>6, <3>7
  <2> QED  BY <2>1, <2>2
<1> HIDE DEF m
<1>6. h \in Lines(m) /\ m.lines[h].order = o /\ m.lines[h].number = e.number /\ m.lines[h].parent = None
  BY <1>5
<1> HIDE DEF h
<1>7. o \in Orders(m) /\ m.orders[o].invoice = Cart[c].invoice
  BY <1>3, <1>5 DEF Grown, Later
<1>8. ParcelLine(m, o, e, h)
  <2>1. m.lines[h].stone = e.stone
    BY <1>4, <1>5, <1>6, <1>7, LineOfEntry
  <2> QED  BY <1>6, <2>1 DEF ParcelLine
<1>9. Grown(d, m, w)
  BY <1>2, <1>5, GrownTrans
<1>10. CASE e.faulty
  BY <1>1, <1>5, <1>9, <1>10
<1>11. CASE ~e.faulty
  <2>1. n = BookChildren(m, o, h, e, w)
    BY <1>1, <1>11
  <2>2. Good(n) /\ Grown(m, n, w) /\ \A k \in e.children : ShownAt(n, o, e, k)
    BY <1>5, <1>7, <1>8, <2>1, ChildrenBooked
  <2>3. ParcelLine(n, o, e, h)
    BY <1>8, <2>2, ParcelLineStays DEF Grown
  <2>4. ShownAt(n, o, e, 0)
    BY <2>2, <2>3 DEF ParcelLine, ShownAt, Good, LineGood
  <2>5. Shown(n, o, e)
    BY <2>2, <2>4 DEF Shown
  <2> QED  BY <1>9, <2>2, <2>5, GrownTrans
<1> QED  BY <1>10, <1>11

\* An entry is booked.
LEMMA EntryBooked ==
    ASSUME Unambiguous, NEW d, Good(d), NEW w \in Clerk, NEW c \in Call, NEW e \in Named(c),
           NEW o \in Orders(d), d.orders[o].invoice = Cart[c].invoice,
           NEW n, n = BookEntry(d, o, e, w)
    PROVE  Good(n) /\ Grown(d, n, w) /\ (~e.faulty => Shown(n, o, e))
<1>1. CASE e.kind = "parcel"
  <2>1. n = BookParcel(d, o, e, w)
    BY <1>1 DEF BookEntry
  <2> QED  BY <1>1, <2>1, ParcelBooked
<1>2. CASE e.kind # "parcel" /\ e.faulty
  <2>1. n = d
    BY <1>2 DEF BookEntry
  <2> QED  BY <1>2, <2>1, GrownSelf
<1>3. CASE e.kind # "parcel" /\ ~e.faulty
  <2>1. n = BookStone(d, o, e, w)
    BY <1>3 DEF BookEntry
  <2>2. e.kind = "stone"
    BY <1>3, CartFacts DEF CartEntry, EntryKind
  <2> QED  BY <2>1, <2>2, StoneBooked
<1> QED  BY <1>1, <1>2, <1>3

\* A sequence of entries of a call is booked.
LEMMA EntriesBooked ==
    ASSUME Unambiguous, NEW d, Good(d), NEW w \in Clerk, NEW c \in Call,
           NEW N \in Nat, NEW es, DOMAIN es = 1..N, \A i \in 1..N : es[i] \in Named(c),
           NEW o \in Orders(d), d.orders[o].invoice = Cart[c].invoice,
           NEW n, n = BookEntries(d, o, es, w)
    PROVE  Good(n) /\ Grown(d, n, w) /\ \A i \in 1..N : ~es[i].faulty => Shown(n, o, es[i])
<1> DEFINE S == 1..N
           W == {x \in Tables : Good(x) /\ Grown(d, x, w)}
           Greatest(u) == CHOOSE x \in u : \A y \in u : x >= y
           ch == [u \in SUBSET S |-> Greatest(u)]
           step == [k \in S |-> [y \in W |-> BookEntry(y, o, es[k], w)]]
           Done == {k \in S \X W : es[k[1]].faulty \/ Shown(k[2], o, es[k[1]])}
           Of(g, u) == IF u = {} THEN d ELSE BookEntry(g[u \ {Greatest(u)}], o, es[Greatest(u)], w)
           f == CHOOSE g : g = [u \in SUBSET S |-> Of(g, u)]
<1>0. IsFiniteSet(S)
  BY FS_Interval
<1>1. \A x : x \in W <=> Good(x) /\ Grown(d, x, w)
  BY DEF Good
<1>2. n = f[S]
  BY DEF BookEntries, FoldLeft, MapThenFoldSet, Max
<1>3. ASSUME NEW k \in S, NEW y \in W
      PROVE  LET z == BookEntry(y, o, es[k], w)
             IN  z \in W /\ Later(y, z) /\ (es[k].faulty \/ Shown(z, o, es[k]))
  <2> DEFINE e == es[k]
             z == BookEntry(y, o, e, w)
  <2>1. Good(y) /\ Grown(d, y, w) /\ e \in Named(c)
    BY <1>1, <1>3
  <2>2. o \in Orders(y) /\ y.orders[o].invoice = Cart[c].invoice
    BY <2>1 DEF Grown, Later
  <2>4. z = BookEntry(y, o, e, w)
    OBVIOUS
  <2> HIDE DEF z, W, S, e
  <2>5. Good(z) /\ Grown(y, z, w) /\ (~e.faulty => Shown(z, o, e))
    BY <2>1, <2>2, <2>4, EntryBooked
  <2>6. Grown(d, z, w) /\ Later(y, z)
    BY <2>1, <2>5, GrownTrans DEF Grown
  <2> QED  BY <1>1, <2>5, <2>6 DEF z, e
<1>4. \A k : \A y : <<k, y>> \in Done <=> k \in S /\ y \in W /\ (es[k].faulty \/ Shown(y, o, es[k]))
  OBVIOUS
<1>5. d \in W
  BY <1>1, GrownSelf
<1>6. \A k \in S : \A y \in W : step[k][y] = BookEntry(y, o, es[k], w)
  OBVIOUS
<1>7. Choosing(S, ch) /\ \A u \in SUBSET S : ch[u] = Greatest(u)
  <2>1. ASSUME NEW u \in SUBSET S, u # {} PROVE \E x \in u : \A y \in u : x >= y
    <3>1. u \in SUBSET Int
      OBVIOUS
    <3> HIDE DEF S
    <3>2. IsFiniteSet(u)
      BY <1>0, FS_Subset
    <3> QED  BY <2>1, <3>1, <3>2, Extremes DEF HasEnds
  <2>2. \A u \in SUBSET S : u # {} => Greatest(u) \in u
    BY <2>1
  <2> HIDE DEF Greatest
  <2> QED  BY <2>2 DEF Choosing
<1> HIDE DEF S, W, step, ch, Done, Greatest
<1>8. Steps(S, W, step, Done)
  <2>1. ASSUME NEW k \in S, NEW y \in W PROVE step[k][y] \in W
    BY <1>3, <1>6
  <2>2. ASSUME NEW k \in S, NEW j \in S, NEW y \in W, k = j \/ <<k, y>> \in Done PROVE <<k, step[j][y]>> \in Done
    <3>1. step[j][y] \in W /\ Later(y, step[j][y]) /\ (es[j].faulty \/ Shown(step[j][y], o, es[j]))
      BY <1>3, <1>6
    <3>2. es[k].faulty \/ Shown(step[j][y], o, es[k])
      BY <1>4, <2>2, <3>1, ShownStays
    <3> QED  BY <1>4, <3>1, <3>2
  <2> QED  BY <2>1, <2>2 DEF Steps
<1>9. ASSUME NEW g, \A u \in SUBSET S : g[u] = IF u = {} THEN d ELSE step[ch[u]][g[u \ {ch[u]}]]
      PROVE  Follows(S, W, d, ch, step, g)
  BY <1>9 DEF Follows
<1>10. \E g : g = [u \in SUBSET S |-> Of(g, u)]
  <2>1. PICK g : Runs(S, d, ch, step, g)
    BY <1>0, <1>7, AllRun
  <2>2. g = [u \in SUBSET S |-> IF u = {} THEN d ELSE step[ch[u]][g[u \ {ch[u]}]]]
    BY <2>1 DEF Runs
  <2>3. \A u \in SUBSET S : g[u] \in W
    BY <1>0, <1>5, <1>7, <1>8, <1>9, <2>2, RunsKeep
  <2>4. ASSUME NEW u \in SUBSET S PROVE (IF u = {} THEN d ELSE step[ch[u]][g[u \ {ch[u]}]]) = Of(g, u)
    <3>1. CASE u = {}
      BY <3>1
    <3>2. CASE u # {}
      <4>1. ch[u] = Greatest(u) /\ ch[u] \in u
        BY <1>7, <3>2 DEF Choosing
      <4>2. g[u \ {ch[u]}] \in W
        BY <2>3
      <4>3. step[ch[u]][g[u \ {ch[u]}]] = BookEntry(g[u \ {ch[u]}], o, es[ch[u]], w)
        BY <1>6, <4>1, <4>2
      <4> QED  BY <3>2, <4>1, <4>3
    <3> QED  BY <3>1, <3>2
  <2> HIDE DEF Of
  <2>5. g = [u \in SUBSET S |-> Of(g, u)]
    BY <2>2, <2>4
  <2> QED  BY <2>5
<1>11. f = [u \in SUBSET S |-> Of(f, u)]
  BY <1>10
<1> HIDE DEF f
<1>12. Follows(S, W, d, ch, step, f)
  <2>1. ASSUME NEW u \in SUBSET S, u # {}, f[u \ {ch[u]}] \in W PROVE f[u] = step[ch[u]][f[u \ {ch[u]}]]
    <3>1. ch[u] = Greatest(u) /\ ch[u] \in u
      BY <1>7, <2>1 DEF Choosing
    <3>2. f[u] = BookEntry(f[u \ {ch[u]}], o, es[ch[u]], w)
      BY <1>11, <2>1, <3>1
    <3> QED  BY <1>6, <2>1, <3>1, <3>2
  <2>2. f[{}] = d
    BY <1>11
  <2> QED  BY <2>1, <2>2 DEF Follows
<1>13. f[S] \in W /\ \A k \in S : <<k, f[S]>> \in Done
  BY <1>0, <1>5, <1>7, <1>8, <1>12, RunsKeep
<1> QED  BY <1>1, <1>2, <1>4, <1>13 DEF S

-----------------------------------------------------------------------------
WithOrder(d, c, o) == [d EXCEPT !.orders = Insert(@, o, [invoice |-> Cart[c].invoice, state |-> "draft", size |-> 0])]

\* An order is added, without lines.
LEMMA OrderAdded ==
    ASSUME NEW d, Good(d), NEW w \in Clerk, NEW c \in Call,
           NEW o, o = NewId(w, Orders(d)),
           NEW n, n = WithOrder(d, c, o)
    PROVE  Good(n) /\ Grown(d, n, w) /\ o \in Orders(n) /\ n.orders[o].invoice = Cart[c].invoice
<1> DEFINE rec == [invoice |-> Cart[c].invoice, state |-> "draft", size |-> 0]
           t == Insert(d.orders, o, rec)
<1>0. /\ d \in Tables /\ Dense(Orders(d)) /\ Orders(d) \in SUBSET Id
      /\ d.orders \in TableOf(OrderRow) /\ \A l \in Lines(d) : LineGood(d, d.lines[l])
  BY RowFacts DEF Good, Tables
<1>1. o \in Id \ Orders(d) /\ o[1] = w /\ Dense(Orders(d) \union {o})
  BY <1>0, NewIdFacts
<1>2. rec \in OrderRow /\ rec.invoice = Cart[c].invoice /\ rec.size = 0
  <2>1. Cart[c].invoice \in STRING
    BY CartFacts
  <2> QED  BY <2>1 DEF OrderRow
<1>3. n = [orders |-> t, products |-> d.products, lines |-> d.lines]
  <2>1. d = [orders |-> d.orders, products |-> d.products, lines |-> d.lines]
    BY <1>0, RowFacts
  <2>2. n = [d EXCEPT !.orders = t]
    BY DEF WithOrder
  <2> HIDE DEF t
  <2> QED  BY ONLY <2>1, <2>2
<1> HIDE DEF rec
<1>4. /\ t \in TableOf(OrderRow) /\ DOMAIN t = Orders(d) \union {o} /\ t[o] = rec
      /\ \A x \in Orders(d) : t[x] = d.orders[x]
  <2> DEFINE s == d.orders
             R == OrderRow
  <2>1. s \in TableOf(R) /\ o \in Id /\ rec \in R
    BY <1>0, <1>1, <1>2
  <2>2. t = Insert(s, o, rec)
    OBVIOUS
  <2> HIDE DEF s, R, t
  <2>3. /\ t \in TableOf(R) /\ DOMAIN t = DOMAIN s \union {o} /\ t[o] = rec
        /\ \A k \in DOMAIN s : k # o => t[k] = s[k]
    BY ONLY <2>1, <2>2, InsertFacts
  <2>4. DOMAIN s = Orders(d)
    BY DEF s, Orders
  <2> QED  BY <1>1, <2>3, <2>4 DEF s, R
<1> HIDE DEF t
<1>5. /\ n.orders = t /\ n.products = d.products /\ n.lines = d.lines
      /\ Orders(n) = Orders(d) \union {o} /\ Products(n) = Products(d) /\ Lines(n) = Lines(d)
  BY <1>3, <1>4 DEF Orders, Products, Lines
<1>6. n \in Tables
  BY <1>0, <1>3, <1>4 DEF Tables
<1>7. Grown(d, n, w)
  BY <1>1, <1>4, <1>5 DEF Grown, Later, Drawn
<1>8. \A l \in Lines(n) : LineGood(n, n.lines[l])
  BY <1>0, <1>5, <1>7, LineStays DEF Grown
<1>9. OneEach(n)
  BY <1>5 DEF Good, OneEach
<1>10. Sized(n)
  <2>1. ASSUME NEW x \in Orders(n) PROVE n.orders[x].size = Cardinality(LinesOf(n, x))
    <3>1. LinesOf(n, x) = LinesOf(d, x)
      BY <1>5 DEF LinesOf
    <3>2. CASE x = o
      <4>1. LinesOf(d, x) = {}
        BY <1>0, <1>1, <3>2 DEF LinesOf, LineGood
      <4> QED  BY <1>2, <1>4, <1>5, <3>1, <3>2, <4>1, FS_EmptySet
    <3>3. CASE x \in Orders(d)
      <4>1. d.orders[x].size = Cardinality(LinesOf(d, x))
        BY <3>3 DEF Good, Sized
      <4> QED  BY <1>4, <1>5, <3>1, <3>3, <4>1
    <3> QED  BY <1>5, <3>2, <3>3
  <2> QED  BY <2>1 DEF Sized
<1>11. Good(n)
  <2>1. Dense(Products(d)) /\ Dense(Lines(d)) /\ \A p \in Products(d) : Described(d.products[p])
    BY DEF Good
  <2> QED  BY <1>1, <1>5, <1>6, <1>8, <1>9, <1>10, <2>1 DEF Good
<1> QED  BY <1>2, <1>4, <1>5, <1>7, <1>11

\* All a call promises is on an order of its invoice.
AllShown(d, c) ==
  \E o \in Orders(d) : d.orders[o].invoice = Cart[c].invoice /\ \A e \in Named(c) : Shown(d, o, e)

\* It stays.
LEMMA AllShownStays ==
    ASSUME NEW d, NEW n, Later(d, n), NEW c, AllShown(d, c)
    PROVE  AllShown(n, c)
<1>1. PICK o \in Orders(d) : d.orders[o].invoice = Cart[c].invoice /\ \A e \in Named(c) : Shown(d, o, e)
  BY DEF AllShown
<1>2. o \in Orders(n) /\ n.orders[o].invoice = Cart[c].invoice
  BY <1>1 DEF Later
<1>3. \A e \in Named(c) : Shown(n, o, e)
  BY <1>1, ShownStays
<1> QED  BY <1>2, <1>3 DEF AllShown

\* The entries a call attempts; they are all unless one cannot be read.
LEMMA AttemptedFacts ==
    ASSUME NEW c \in Call
    PROVE  \E N \in Nat : /\ DOMAIN Attempted(c) = 1..N
                          /\ \A i \in 1..N : Attempted(c)[i] \in Named(c)
                          /\ (\A i \in 1..N : ~Attempted(c)[i].faulty) =>
                               \A e \in Named(c) : \E i \in 1..N : Attempted(c)[i] = e
<1> DEFINE es == Cart[c].entries
           bad == {i \in DOMAIN es : es[i].faulty}
           N == IF bad = {} THEN Len(es) ELSE Min(bad)
           a == Attempted(c)
<1>1. es \in Seq(CartEntry) /\ Named(c) = {es[i] : i \in DOMAIN es}
  BY CartFacts
<1>2. a = IF bad = {} THEN es ELSE SubSeq(es, 1, Min(bad))
  BY DEF Attempted
<1>3. DOMAIN es = 1..Len(es) /\ Len(es) \in Nat
  BY <1>1
<1> HIDE DEF es, a
<1>4. CASE bad = {}
  BY <1>1, <1>2, <1>3, <1>4 DEF a
<1>5. CASE bad # {}
  <2>1. bad \in SUBSET Int /\ IsFiniteSet(bad)
    <3>1. IsFiniteSet(1..Len(es))
      BY <1>3, FS_Interval
    <3> QED  BY <1>3, <3>1, FS_Subset
  <2>2. Min(bad) \in bad
    BY <1>5, <2>1, MaxMin
  <2>3. N \in 1..Len(es) /\ es[N].faulty /\ a = SubSeq(es, 1, N)
    BY <1>2, <1>3, <1>5, <2>2
  <2> HIDE DEF N, bad
  <2>4. DOMAIN a = 1..N /\ \A i \in 1..N : a[i] = es[i]
    BY <1>1, <1>3, <2>3
  <2>5. \A i \in 1..N : a[i] \in Named(c)
    BY <1>1, <1>3, <2>3, <2>4
  <2>6. N \in 1..N /\ a[N].faulty /\ N \in Nat
    BY <1>3, <2>3, <2>4
  <2> QED  BY <2>4, <2>5, <2>6 DEF a
<1> QED  BY <1>4, <1>5

\* What a call makes of good tables.
LEMMA CallBooked ==
    ASSUME Unambiguous, NEW d, Good(d), NEW w \in Clerk, NEW c \in Call,
           NEW r, r = Booked(d, c, w)
    PROVE  Good(r.db) /\ Grown(d, r.db, w) /\ (r.ok => AllShown(r.db, c))
<1> DEFINE found == OpenOrder(d, c)
           o == IF found # {} THEN CHOOSE x \in found : TRUE ELSE NewId(w, Orders(d))
           start == IF found # {} THEN d
                    ELSE [d EXCEPT !.orders = Insert(@, o,
                            [invoice |-> Cart[c].invoice, state |-> "draft", size |-> 0])]
           todo == Attempted(c)
           n == r.db
<1>1. n = BookEntries(start, o, todo, w) /\ r.ok = \A i \in DOMAIN todo : ~todo[i].faulty
  BY DEF Booked
<1>2. Good(start) /\ Grown(d, start, w) /\ o \in Orders(start) /\ start.orders[o].invoice = Cart[c].invoice
  <2>1. CASE found # {}
    <3>1. o \in Orders(d) /\ d.orders[o].invoice = Cart[c].invoice
      BY <2>1 DEF OpenOrder
    <3>2. start = d
      BY <2>1
    <3> HIDE DEF o, start
    <3> QED  BY <3>1, <3>2, GrownSelf
  <2>2. CASE found = {}
    <3>1. o = NewId(w, Orders(d))
      BY <2>2
    <3>2. start = WithOrder(d, c, o)
      BY <2>2 DEF WithOrder
    <3> HIDE DEF o, start
    <3> QED  BY <3>1, <3>2, OrderAdded
  <2> QED  BY <2>1, <2>2
<1> HIDE DEF o, start
<1>3. PICK N \in Nat : /\ DOMAIN todo = 1..N
                       /\ \A i \in 1..N : todo[i] \in Named(c)
                       /\ (\A i \in 1..N : ~todo[i].faulty) => \A e \in Named(c) : \E i \in 1..N : todo[i] = e
  BY AttemptedFacts
<1> HIDE DEF todo, n
<1>4. Good(n) /\ Grown(start, n, w) /\ \A i \in 1..N : ~todo[i].faulty => Shown(n, o, todo[i])
  BY <1>1, <1>2, <1>3, EntriesBooked
<1>5. o \in Orders(n) /\ n.orders[o].invoice = Cart[c].invoice
  BY <1>2, <1>4 DEF Grown, Later
<1>6. ASSUME r.ok PROVE AllShown(n, c)
  <2>1. \A i \in 1..N : ~todo[i].faulty
    BY <1>1, <1>3, <1>6
  <2>2. ASSUME NEW e \in Named(c) PROVE Shown(n, o, e)
    BY <1>3, <1>4, <2>1, <2>2
  <2> QED  BY <1>5, <2>2 DEF AllShown
<1> QED  BY <1>2, <1>4, <1>6, GrownTrans DEF n

-----------------------------------------------------------------------------
\* The rows that are new in mine are of w and those new in now are of others; and what makes
\* m of them.
Apart(snap, mine, now, w) ==
  /\ DOMAIN snap \subseteq DOMAIN mine /\ DOMAIN snap \subseteq DOMAIN now
  /\ Dense(DOMAIN mine) /\ Dense(DOMAIN now)
  /\ \A i \in DOMAIN mine \ DOMAIN snap : i[1] = w
  /\ \A i \in DOMAIN now : i[1] = w => i \in DOMAIN snap
  /\ Clash(snap, mine, now) = {}
Joined(snap, mine, now, m) ==
  /\ DOMAIN m = DOMAIN mine \union DOMAIN now /\ Dense(DOMAIN m)
  /\ \A i \in DOMAIN mine \ DOMAIN snap : m[i] = mine[i] /\ i \notin DOMAIN now
  /\ \A i \in DOMAIN now \ DOMAIN snap : m[i] = now[i] /\ i \notin DOMAIN mine
  /\ \A i \in DOMAIN snap : (m[i] = mine[i] /\ now[i] = snap[i]) \/ (m[i] = now[i] /\ mine[i] = snap[i])

\* A table is merged with what was committed meanwhile.
LEMMA MergedRows ==
    ASSUME NEW R, NEW snap, NEW mine \in TableOf(R), NEW now \in TableOf(R), NEW w,
           Apart(snap, mine, now, w), NEW m, m = Merged(snap, mine, now)
    PROVE  m \in TableOf(R) /\ Joined(snap, mine, now, m)
<1> DEFINE I == DOMAIN mine
           J == DOMAIN now
           S == DOMAIN snap
<1>a. /\ S \subseteq I /\ S \subseteq J /\ Dense(I) /\ Dense(J)
      /\ \A i \in I \ S : i[1] = w
      /\ \A i \in J : i[1] = w => i \in S
      /\ Clash(snap, mine, now) = {}
  BY DEF Apart
<1>1. mine \in [I -> R] /\ now \in [J -> R] /\ I \in SUBSET Id /\ J \in SUBSET Id
  BY DEF TableOf
<1>2. m = [i \in I \union J |-> IF i \in I /\ (i \notin S \/ mine[i] # snap[i]) THEN mine[i] ELSE now[i]]
  BY DEF Merged
<1>3. \A i \in I \ S : i \notin J
  BY <1>a
<1>4. \A i \in I \union J : m[i] \in R
  BY <1>1, <1>2, <1>a
<1>5. m \in [I \union J -> R]
  BY <1>2, <1>4
<1>6. m \in TableOf(R)
  BY <1>1, <1>5 DEF TableOf
<1>7. Dense(I \union J)
  <2>1. Ours(J, w) \subseteq S
    BY <1>a DEF Ours
  <2> QED  BY <1>a, <2>1, DenseUnion
<1>8. \A i \in S : mine[i] = snap[i] \/ now[i] = snap[i]
  BY <1>a DEF Clash, Rewritten
<1>9. \A i \in I \ S : m[i] = mine[i] /\ i \notin J
  BY <1>2, <1>3
<1>10. \A i \in J \ S : m[i] = now[i] /\ i \notin I
  BY <1>2, <1>3
<1>11. \A i \in S : (m[i] = mine[i] /\ now[i] = snap[i]) \/ (m[i] = now[i] /\ mine[i] = snap[i])
  BY <1>2, <1>8, <1>a
<1> QED  BY <1>2, <1>6, <1>7, <1>9, <1>10, <1>11 DEF Joined

\* What w drew is in the tables already.
Known(d, n, w) ==
  /\ \A o \in Orders(n) : o[1] = w => o \in Orders(d)
  /\ \A p \in Products(n) : p[1] = w => p \in Products(d)
  /\ \A l \in Lines(n) : l[1] = w => l \in Lines(d)

\* Nothing was changed by both.
Agree(s, r, d) ==
  /\ Clash(s.orders, r.orders, d.orders) = {} /\ Clash(s.products, r.products, d.products) = {}
  /\ Clash(s.lines, r.lines, d.lines) = {}
Union(s, r, d) ==
  [orders |-> Merged(s.orders, r.orders, d.orders), products |-> Merged(s.products, r.products, d.products),
   lines |-> Merged(s.lines, r.lines, d.lines)]

\* Tables of a call are merged: the lines of an order come from one side.
LEMMA MergedGood ==
    ASSUME NEW s, NEW r, NEW d, NEW w, Good(s), Good(r), Good(d),
           Grown(s, r, w), Later(s, d), Known(s, d, w), Agree(s, r, d),
           NEW m, m = Union(s, r, d)
    PROVE  Good(m) /\ Grown(d, m, w) /\ Later(r, m)
<1>0. /\ s \in Tables /\ r \in Tables /\ d \in Tables /\ Later(s, r) /\ Drawn(s, r, w)
      /\ Dense(Orders(r)) /\ Dense(Orders(d)) /\ Dense(Products(r)) /\ Dense(Products(d))
      /\ Dense(Lines(r)) /\ Dense(Lines(d))
  BY DEF Good, Grown
<1>1. /\ m.orders = Merged(s.orders, r.orders, d.orders) /\ m.products = Merged(s.products, r.products, d.products)
      /\ m.lines = Merged(s.lines, r.lines, d.lines)
      /\ m = [orders |-> m.orders, products |-> m.products, lines |-> m.lines]
  BY DEF Union
<1>2. /\ m.orders \in TableOf(OrderRow) /\ Orders(m) = Orders(r) \union Orders(d) /\ Dense(Orders(m))
      /\ \A i \in Orders(r) \ Orders(s) : m.orders[i] = r.orders[i] /\ i \notin Orders(d)
      /\ \A i \in Orders(d) \ Orders(s) : m.orders[i] = d.orders[i] /\ i \notin Orders(r)
      /\ \A i \in Orders(s) :
           (m.orders[i] = r.orders[i] /\ d.orders[i] = s.orders[i])
           \/ (m.orders[i] = d.orders[i] /\ r.orders[i] = s.orders[i])
  <2>1. r.orders \in TableOf(OrderRow) /\ d.orders \in TableOf(OrderRow)
    BY <1>0 DEF Tables
  <2>2. Apart(s.orders, r.orders, d.orders, w)
    BY <1>0 DEF Apart, Later, Drawn, Known, Agree, Orders
  <2> DEFINE R == OrderRow
             a == s.orders
             b == r.orders
             e == d.orders
             q == m.orders
  <2>3. b \in TableOf(R) /\ e \in TableOf(R) /\ q = Merged(a, b, e) /\ Apart(a, b, e, w)
    BY <1>1, <2>1, <2>2
  <2> HIDE DEF R, a, b, e, q
  <2>4. q \in TableOf(R) /\ Joined(a, b, e, q)
    BY ONLY <2>3, MergedRows
  <2>5. /\ DOMAIN q = DOMAIN b \union DOMAIN e /\ Dense(DOMAIN q)
        /\ \A i \in DOMAIN b \ DOMAIN a : q[i] = b[i] /\ i \notin DOMAIN e
        /\ \A i \in DOMAIN e \ DOMAIN a : q[i] = e[i] /\ i \notin DOMAIN b
        /\ \A i \in DOMAIN a : (q[i] = b[i] /\ e[i] = a[i]) \/ (q[i] = e[i] /\ b[i] = a[i])
    BY ONLY <2>4 DEF Joined
  <2>6. DOMAIN a = Orders(s) /\ DOMAIN b = Orders(r) /\ DOMAIN e = Orders(d) /\ DOMAIN q = Orders(m)
    BY DEF a, b, e, q, Orders
  <2>7. /\ Orders(m) = Orders(r) \union Orders(d) /\ Dense(Orders(m))
        /\ \A i \in Orders(r) \ Orders(s) : q[i] = b[i] /\ i \notin Orders(d)
        /\ \A i \in Orders(d) \ Orders(s) : q[i] = e[i] /\ i \notin Orders(r)
        /\ \A i \in Orders(s) : (q[i] = b[i] /\ e[i] = a[i]) \/ (q[i] = e[i] /\ b[i] = a[i])
    BY ONLY <2>5, <2>6
  <2> QED  BY ONLY <2>4, <2>7 DEF R, a, b, e, q
<1>3. /\ m.products \in TableOf(ProductRow) /\ Products(m) = Products(r) \union Products(d) /\ Dense(Products(m))
      /\ \A i \in Products(r) \ Products(s) : m.products[i] = r.products[i] /\ i \notin Products(d)
      /\ \A i \in Products(d) \ Products(s) : m.products[i] = d.products[i] /\ i \notin Products(r)
      /\ \A i \in Products(s) :
           (m.products[i] = r.products[i] /\ d.products[i] = s.products[i])
           \/ (m.products[i] = d.products[i] /\ r.products[i] = s.products[i])
  <2>1. r.products \in TableOf(ProductRow) /\ d.products \in TableOf(ProductRow)
    BY <1>0 DEF Tables
  <2>2. Apart(s.products, r.products, d.products, w)
    BY <1>0 DEF Apart, Later, Drawn, Known, Agree, Products
  <2> DEFINE R == ProductRow
             a == s.products
             b == r.products
             e == d.products
             q == m.products
  <2>3. b \in TableOf(R) /\ e \in TableOf(R) /\ q = Merged(a, b, e) /\ Apart(a, b, e, w)
    BY <1>1, <2>1, <2>2
  <2> HIDE DEF R, a, b, e, q
  <2>4. q \in TableOf(R) /\ Joined(a, b, e, q)
    BY ONLY <2>3, MergedRows
  <2>5. /\ DOMAIN q = DOMAIN b \union DOMAIN e /\ Dense(DOMAIN q)
        /\ \A i \in DOMAIN b \ DOMAIN a : q[i] = b[i] /\ i \notin DOMAIN e
        /\ \A i \in DOMAIN e \ DOMAIN a : q[i] = e[i] /\ i \notin DOMAIN b
        /\ \A i \in DOMAIN a : (q[i] = b[i] /\ e[i] = a[i]) \/ (q[i] = e[i] /\ b[i] = a[i])
    BY ONLY <2>4 DEF Joined
  <2>6. DOMAIN a = Products(s) /\ DOMAIN b = Products(r) /\ DOMAIN e = Products(d) /\ DOMAIN q = Products(m)
    BY DEF a, b, e, q, Products
  <2>7. /\ Products(m) = Products(r) \union Products(d) /\ Dense(Products(m))
        /\ \A i \in Products(r) \ Products(s) : q[i] = b[i] /\ i \notin Products(d)
        /\ \A i \in Products(d) \ Products(s) : q[i] = e[i] /\ i \notin Products(r)
        /\ \A i \in Products(s) : (q[i] = b[i] /\ e[i] = a[i]) \/ (q[i] = e[i] /\ b[i] = a[i])
    BY ONLY <2>5, <2>6
  <2> QED  BY ONLY <2>4, <2>7 DEF R, a, b, e, q
<1>4. /\ m.lines \in TableOf(LineRow) /\ Lines(m) = Lines(r) \union Lines(d) /\ Dense(Lines(m))
      /\ \A i \in Lines(r) \ Lines(s) : m.lines[i] = r.lines[i] /\ i \notin Lines(d)
      /\ \A i \in Lines(d) \ Lines(s) : m.lines[i] = d.lines[i] /\ i \notin Lines(r)
      /\ \A i \in Lines(s) :
           (m.lines[i] = r.lines[i] /\ d.lines[i] = s.lines[i])
           \/ (m.lines[i] = d.lines[i] /\ r.lines[i] = s.lines[i])
  <2>1. r.lines \in TableOf(LineRow) /\ d.lines \in TableOf(LineRow)
    BY <1>0 DEF Tables
  <2>2. Apart(s.lines, r.lines, d.lines, w)
    BY <1>0 DEF Apart, Later, Drawn, Known, Agree, Lines
  <2> DEFINE R == LineRow
             a == s.lines
             b == r.lines
             e == d.lines
             q == m.lines
  <2>3. b \in TableOf(R) /\ e \in TableOf(R) /\ q = Merged(a, b, e) /\ Apart(a, b, e, w)
    BY <1>1, <2>1, <2>2
  <2> HIDE DEF R, a, b, e, q
  <2>4. q \in TableOf(R) /\ Joined(a, b, e, q)
    BY ONLY <2>3, MergedRows
  <2>5. /\ DOMAIN q = DOMAIN b \union DOMAIN e /\ Dense(DOMAIN q)
        /\ \A i \in DOMAIN b \ DOMAIN a : q[i] = b[i] /\ i \notin DOMAIN e
        /\ \A i \in DOMAIN e \ DOMAIN a : q[i] = e[i] /\ i \notin DOMAIN b
        /\ \A i \in DOMAIN a : (q[i] = b[i] /\ e[i] = a[i]) \/ (q[i] = e[i] /\ b[i] = a[i])
    BY ONLY <2>4 DEF Joined
  <2>6. DOMAIN a = Lines(s) /\ DOMAIN b = Lines(r) /\ DOMAIN e = Lines(d) /\ DOMAIN q = Lines(m)
    BY DEF a, b, e, q, Lines
  <2>7. /\ Lines(m) = Lines(r) \union Lines(d) /\ Dense(Lines(m))
        /\ \A i \in Lines(r) \ Lines(s) : q[i] = b[i] /\ i \notin Lines(d)
        /\ \A i \in Lines(d) \ Lines(s) : q[i] = e[i] /\ i \notin Lines(r)
        /\ \A i \in Lines(s) : (q[i] = b[i] /\ e[i] = a[i]) \/ (q[i] = e[i] /\ b[i] = a[i])
    BY ONLY <2>5, <2>6
  <2> QED  BY ONLY <2>4, <2>7 DEF R, a, b, e, q
<1>5. m \in Tables
  BY <1>1, <1>2, <1>3, <1>4 DEF Tables
<1>6. /\ \A o \in Orders(s) : r.orders[o].invoice = s.orders[o].invoice /\ d.orders[o].invoice = s.orders[o].invoice
      /\ \A p \in Products(s) : r.products[p].stone = s.products[p].stone /\ d.products[p].stone = s.products[p].stone
      /\ \A l \in Lines(s) : r.lines[l] = s.lines[l] /\ d.lines[l] = s.lines[l]
      /\ Orders(s) \subseteq Orders(r) /\ Orders(s) \subseteq Orders(d)
      /\ Products(s) \subseteq Products(r) /\ Products(s) \subseteq Products(d)
      /\ Lines(s) \subseteq Lines(r) /\ Lines(s) \subseteq Lines(d)
  BY <1>0 DEF Later
<1>7. Later(r, m)
  BY ONLY <1>2, <1>3, <1>4, <1>6 DEF Later
<1>8. Later(d, m)
  BY ONLY <1>2, <1>3, <1>4, <1>6 DEF Later
<1>9. Grown(d, m, w)
  <2>1. Drawn(d, m, w)
    BY ONLY <1>0, <1>2, <1>3, <1>4, <1>6 DEF Drawn
  <2> QED  BY <1>8, <2>1 DEF Grown
<1>10. \A p \in Products(m) : Described(m.products[p])
  <2>1. /\ \A p \in Products(r) : Described(r.products[p])
        /\ \A p \in Products(d) : Described(d.products[p])
    BY DEF Good
  <2>2. ASSUME NEW p \in Products(m)
        PROVE  \/ p \in Products(r) /\ m.products[p] = r.products[p]
               \/ p \in Products(d) /\ m.products[p] = d.products[p]
    BY ONLY <1>3, <1>6, <2>2
  <2> QED  BY <2>1, <2>2
<1>11. \A l \in Lines(m) : \/ l \in Lines(r) /\ m.lines[l] = r.lines[l]
                           \/ l \in Lines(d) /\ m.lines[l] = d.lines[l]
  BY ONLY <1>4, <1>6
<1>12. /\ \A l \in Lines(r) : LineGood(r, r.lines[l]) /\ m.lines[l] = r.lines[l] /\ l \in Lines(m)
       /\ \A l \in Lines(d) : LineGood(d, d.lines[l]) /\ m.lines[l] = d.lines[l] /\ l \in Lines(m)
       /\ \A l \in Lines(s) : LineGood(s, s.lines[l])
  BY <1>7, <1>8 DEF Good, Later
<1>13. \A l \in Lines(m) : LineGood(m, m.lines[l])
  BY <1>7, <1>8, <1>11, <1>12, LineStays
<1>14. ASSUME NEW o \in Orders(m)
       PROVE  \/ o \in Orders(r) /\ LinesOf(m, o) = LinesOf(r, o) /\ m.orders[o] = r.orders[o]
              \/ o \in Orders(d) /\ LinesOf(m, o) = LinesOf(d, o) /\ m.orders[o] = d.orders[o]
  <2>1. LinesOf(m, o) = LinesOf(r, o) \union LinesOf(d, o)
    BY <1>11, <1>12 DEF LinesOf
  <2>2. o \notin Orders(d) => LinesOf(d, o) = {}
    BY <1>12 DEF LinesOf, LineGood
  <2>3. o \notin Orders(r) => LinesOf(r, o) = {}
    BY <1>12 DEF LinesOf, LineGood
  <2>4. ASSUME o \in Orders(s), NEW n, Good(n), Later(s, n), n.orders[o] = s.orders[o]
        PROVE  LinesOf(n, o) = LinesOf(s, o)
    <3>1. LinesOf(s, o) \subseteq LinesOf(n, o)
      BY <2>4 DEF Later, LinesOf
    <3>2. IsFiniteSet(LinesOf(n, o))
      <4>1. IsFiniteSet(Lines(n))
        BY <2>4 DEF Good, Dense
      <4> QED  BY <4>1, FS_Subset DEF LinesOf
    <3>3. o \in Orders(n)
      BY <2>4 DEF Later
    <3>4. Cardinality(LinesOf(n, o)) = Cardinality(LinesOf(s, o))
      BY <2>4, <3>3 DEF Good, Sized
    <3> QED  BY <3>1, <3>2, <3>4, FS_Subset
  <2>5. /\ o \in Orders(s) => LinesOf(s, o) \subseteq LinesOf(r, o) /\ LinesOf(s, o) \subseteq LinesOf(d, o)
    BY <1>6 DEF LinesOf
  <2>6. CASE o \in Orders(s)
    <3>1. \/ m.orders[o] = r.orders[o] /\ d.orders[o] = s.orders[o]
          \/ m.orders[o] = d.orders[o] /\ r.orders[o] = s.orders[o]
      BY <1>2, <2>6
    <3>2. CASE m.orders[o] = r.orders[o] /\ d.orders[o] = s.orders[o]
      <4>1. LinesOf(d, o) = LinesOf(s, o)
        BY <2>4, <2>6, <3>2
      <4> QED  BY <1>6, <2>1, <2>5, <2>6, <3>2, <4>1
    <3>3. CASE m.orders[o] = d.orders[o] /\ r.orders[o] = s.orders[o]
      <4>1. LinesOf(r, o) = LinesOf(s, o)
        BY <1>0, <2>4, <2>6, <3>3
      <4> QED  BY <1>6, <2>1, <2>5, <2>6, <3>3, <4>1
    <3> QED  BY <3>1, <3>2, <3>3
  <2>7. CASE o \in Orders(r) \ Orders(s)
    BY <1>2, <2>1, <2>2, <2>7
  <2>8. CASE o \in Orders(d) \ Orders(s)
    BY <1>2, <2>1, <2>3, <2>8
  <2> QED  BY <1>2, <2>6, <2>7, <2>8
<1>15. OneEach(m)
  <2>1. ASSUME NEW l \in Lines(m), NEW k \in Lines(m), Same(m.lines[l], m.lines[k]) PROVE l = k
    <3> DEFINE o == m.lines[l].order
    <3>1. l \in LinesOf(m, o) /\ k \in LinesOf(m, o) /\ o \in Orders(m)
      BY <1>13, <2>1 DEF LinesOf, Same, LineGood
    <3>2. (l \in Lines(r) /\ k \in Lines(r)) \/ (l \in Lines(d) /\ k \in Lines(d))
      <4> HIDE DEF o
      <4>1. LinesOf(m, o) = LinesOf(r, o) \/ LinesOf(m, o) = LinesOf(d, o)
        BY <1>14, <3>1
      <4> QED  BY <3>1, <4>1 DEF LinesOf
    <3>3. OneEach(r) /\ OneEach(d)
      BY DEF Good
    <3> QED  BY <1>12, <2>1, <3>2, <3>3 DEF OneEach
  <2> QED  BY <2>1 DEF OneEach
<1>16. Sized(m)
  <2>1. Sized(r) /\ Sized(d)
    BY DEF Good
  <2> QED  BY <1>14, <2>1 DEF Sized
<1>17. Good(m)
  BY <1>2, <1>3, <1>4, <1>5, <1>10, <1>13, <1>15, <1>16 DEF Good
<1> QED  BY <1>7, <1>9, <1>17

-----------------------------------------------------------------------------
\* A process is idle, or serves a call on tables that were committed before.
Serving(w) ==
  \/ txn[w] = Idle
  \/ /\ txn[w].call \in Call /\ Good(txn[w].snap)
     /\ Later(txn[w].snap, db) /\ Known(txn[w].snap, db, w)
OrdersInv ==
  /\ Good(db)
  /\ answered \subseteq Call /\ \A c \in answered : AllShown(db, c)
  /\ DOMAIN txn = Clerk /\ \A w \in Clerk : Serving(w)

\* Good tables and what is shown on them are what the property says.
LEMMA OrdersShow ==
    ASSUME OrdersInv
    PROVE  BookedAsCalled
<1>1. Good(db) /\ \A l \in Lines(db) : LineGood(db, db.lines[l])
  BY DEF OrdersInv, Good
<1>2. OneLinePerEntry
  BY <1>1 DEF Good, OneEach, Same, OneLinePerEntry
<1>3. LineShowsItsStone
  BY <1>1 DEF LineGood, LineShowsItsStone
<1>4. SuccessIsBooked
  <2>1. SUFFICES ASSUME NEW c \in answered, NEW i \in DOMAIN Cart[c].entries,
                        LET e == Cart[c].entries[i] IN e.kind = "parcel" \/ e.cert # None \/ e.sku # None,
                        NEW n \in {0} \union Cart[c].entries[i].children
                 PROVE  LET e == Cart[c].entries[i]
                        IN  \E l \in Lines(db) : /\ db.orders[db.lines[l].order].invoice = Cart[c].invoice
                                                 /\ db.lines[l].number = e.number /\ db.lines[l].stone = e.stone
                                                 /\ db.lines[l].child = n
    BY DEF SuccessIsBooked
  <2> DEFINE e == Cart[c].entries[i]
  <2>2. c \in Call /\ AllShown(db, c)
    BY DEF OrdersInv
  <2>3. e \in Named(c)
    BY <2>2, CartFacts
  <2> HIDE DEF e
  <2>4. PICK o \in Orders(db) : db.orders[o].invoice = Cart[c].invoice /\ Shown(db, o, e)
    BY <2>2, <2>3 DEF AllShown
  <2>5. ShownAt(db, o, e, n)
    BY <2>1, <2>4 DEF Shown, e
  <2> QED  BY <2>4, <2>5 DEF ShownAt, e
<1> QED  BY <1>2, <1>3, <1>4 DEF BookedAsCalled

\* Others go on serving when the tables only gain what they did not draw.
LEMMA OthersServe ==
    ASSUME NEW w \in Clerk, Serving(w), txn'[w] = txn[w], Later(db, db'),
           \A s : Known(s, db, w) => Known(s, db', w)
    PROVE  Serving(w)'
<1>1. CASE txn[w] = Idle
  BY <1>1 DEF Serving
<1>2. CASE txn[w] # Idle
  <2> DEFINE t == txn[w]
  <2>1. t.call \in Call /\ Good(t.snap) /\ Later(t.snap, db) /\ Known(t.snap, db, w)
    BY <1>2 DEF Serving
  <2> HIDE DEF t
  <2>2. Later(t.snap, db') /\ Known(t.snap, db', w)
    BY <2>1, LaterTrans
  <2> QED  BY <2>1, <2>2 DEF Serving, t
<1> QED  BY <1>1, <1>2

\* A call is taken up, or taken up again.
LEMMA ArriveKeeps ==
    ASSUME OrdersInv, NEW w \in Clerk, NEW t, t = Idle \/ (t.call \in Call /\ t.snap = db),
           txn' = [txn EXCEPT ![w] = t], UNCHANGED <<db, answered>>
    PROVE  OrdersInv'
<1>1. /\ Good(db) /\ answered \subseteq Call /\ (\A c \in answered : AllShown(db, c)) /\ DOMAIN txn = Clerk
      /\ db' = db /\ answered' = answered
  BY DEF OrdersInv
<1>2. ASSUME NEW v \in Clerk PROVE Serving(v)'
  <2>1. CASE v = w
    <3>1. txn'[v] = t
      BY <1>1, <2>1
    <3>2. Later(db, db) /\ Known(db, db, w)
      BY DEF Later, Known
    <3> QED  BY <1>1, <2>1, <3>1, <3>2 DEF Serving
  <2>2. CASE v # w
    <3>1. txn'[v] = txn[v]
      BY <1>1, <2>2
    <3>2. Serving(v)
      BY DEF OrdersInv
    <3> QED  BY <1>1, <3>1, <3>2 DEF Serving
  <2> QED  BY <2>1, <2>2
<1>3. DOMAIN txn' = Clerk
  BY <1>1
<1> QED  BY <1>1, <1>2, <1>3 DEF OrdersInv

\* A call is committed.
LEMMA CommitKeeps ==
    ASSUME Unambiguous, OrdersInv, NEW w \in Clerk, Commit(w)
    PROVE  OrdersInv'
<1> DEFINE s == txn[w].snap
           c == txn[w].call
           b == Booked(s, c, w)
           r == b.db
<1>0. /\ Good(db) /\ answered \subseteq Call /\ (\A k \in answered : AllShown(db, k)) /\ DOMAIN txn = Clerk
      /\ \A v \in Clerk : Serving(v)
  BY DEF OrdersInv
<1>1. /\ txn[w] # Idle /\ ~Refused(w) /\ db' = AfterCall(w)
      /\ answered' = (IF b.ok THEN answered \union {c} ELSE answered)
      /\ txn' = [txn EXCEPT ![w] = Idle]
  BY DEF Commit
<1>2. c \in Call /\ Good(s) /\ Later(s, db) /\ Known(s, db, w)
  BY <1>0, <1>1 DEF Serving
<1>3. db = [orders |-> db.orders, products |-> db.products, lines |-> db.lines]
  BY <1>0, RowFacts DEF Good
<1>4. DOMAIN db = {"orders", "products", "lines"}
  BY <1>3
<1>5. db' = Union(s, r, db)
  <2>1. db' = [t \in {"orders", "products", "lines"} |-> Merged(s[t], r[t], db[t])]
    BY <1>1, <1>4 DEF AfterCall, Result
  <2> QED  BY <2>1 DEF Union
<1>6. Agree(s, r, db)
  <2>1. \A t \in {"orders", "products", "lines"} : Clash(s[t], r[t], db[t]) = {}
    BY <1>1, <1>4 DEF Refused, Result
  <2> QED  BY <2>1 DEF Agree
<1> HIDE DEF s, c, b
<1>7. Good(r) /\ Grown(s, r, w) /\ (b.ok => AllShown(r, c))
  BY <1>2, CallBooked DEF b
<1>8. Good(db') /\ Grown(db, db', w) /\ Later(r, db')
  BY <1>0, <1>2, <1>5, <1>6, <1>7, MergedGood
<1>9. ASSUME NEW k \in answered' PROVE k \in Call /\ AllShown(db', k)
  <2>1. CASE k \in answered
    BY <1>0, <1>8, <2>1, AllShownStays DEF Grown
  <2>2. CASE k = c /\ b.ok
    BY <1>2, <1>7, <1>8, <2>2, AllShownStays
  <2> QED  BY <1>1, <1>9, <2>1, <2>2
<1>10. ASSUME NEW v \in Clerk PROVE Serving(v)'
  <2>1. CASE v = w
    <3>1. txn'[v] = Idle
      BY <1>0, <1>1, <2>1
    <3> QED  BY <3>1 DEF Serving, Idle
  <2>2. CASE v # w
    <3>1. txn'[v] = txn[v] /\ Serving(v) /\ Later(db, db')
      BY <1>0, <1>1, <1>8, <2>2 DEF Grown
    <3>2. \A x : Known(x, db, v) => Known(x, db', v)
      BY <1>8, <2>2 DEF Grown, Drawn, Known
    <3> QED  BY <3>1, <3>2, OthersServe
  <2> QED  BY <2>1, <2>2
<1>11. DOMAIN txn' = Clerk
  BY <1>0, <1>1
<1> QED  BY <1>8, <1>9, <1>10, <1>11 DEF OrdersInv

\* An order is confirmed: its invoice, size and lines are the same.
LEMMA ConfirmKeeps ==
    ASSUME OrdersInv, NEW o, ConfirmOrder(o)
    PROVE  OrdersInv'
<1> DEFINE os == [db.orders EXCEPT ![o].state = "sale"]
           n == db'
<1>0. /\ Good(db) /\ answered \subseteq Call /\ (\A c \in answered : AllShown(db, c)) /\ DOMAIN txn = Clerk
      /\ \A w \in Clerk : Serving(w)
  BY DEF OrdersInv
<1>1. o \in Orders(db) /\ db' = [db EXCEPT !.orders[o].state = "sale"] /\ txn' = txn /\ answered' = answered
  BY DEF ConfirmOrder
<1>2. /\ db \in Tables /\ db = [orders |-> db.orders, products |-> db.products, lines |-> db.lines]
      /\ db.orders \in [Orders(db) -> OrderRow] /\ Orders(db) \in SUBSET Id
  BY <1>0, RowFacts DEF Good
<1>3. n = [orders |-> os, products |-> db.products, lines |-> db.lines]
  <2>1. n = [db EXCEPT !.orders = os]
    BY <1>1
  <2> HIDE DEF os, n
  <2> QED  BY ONLY <1>2, <2>1
<1>4. /\ os \in [Orders(db) -> OrderRow]
      /\ \A x \in Orders(db) : os[x].invoice = db.orders[x].invoice /\ os[x].size = db.orders[x].size
  <2> DEFINE row == [db.orders[o] EXCEPT !.state = "sale"]
  <2>1. db.orders[o] \in OrderRow
    BY <1>1, <1>2
  <2>2. row \in OrderRow /\ row.invoice = db.orders[o].invoice /\ row.size = db.orders[o].size
    BY <2>1 DEF OrderRow
  <2>3. os = [db.orders EXCEPT ![o] = row]
    OBVIOUS
  <2> HIDE DEF row, os
  <2> QED  BY <1>1, <1>2, <2>2, <2>3
<1> HIDE DEF os, n
<1>5. /\ n.orders = os /\ n.products = db.products /\ n.lines = db.lines
      /\ Orders(n) = Orders(db) /\ Products(n) = Products(db) /\ Lines(n) = Lines(db)
  BY <1>3, <1>4 DEF Orders, Products, Lines
<1>6. n \in Tables
  <2>1. os \in TableOf(OrderRow)
    BY <1>2, <1>4 DEF TableOf
  <2> QED  BY <1>2, <1>3, <2>1 DEF Tables
<1>7. Later(db, n)
  BY <1>4, <1>5 DEF Later
<1>8. \A l \in Lines(n) : LineGood(n, n.lines[l])
  BY <1>0, <1>5, <1>7, LineStays DEF Good
<1>9. OneEach(n) /\ Sized(n)
  BY <1>0, <1>4, <1>5 DEF Good, OneEach, Sized, LinesOf
<1>10. Good(n)
  <2>1. /\ Dense(Orders(db)) /\ Dense(Products(db)) /\ Dense(Lines(db))
        /\ \A p \in Products(db) : Described(db.products[p])
    BY <1>0 DEF Good
  <2> QED  BY <1>5, <1>6, <1>8, <1>9, <2>1 DEF Good
<1>11. \A c \in answered : AllShown(n, c)
  BY <1>0, <1>7, AllShownStays
<1>12. ASSUME NEW w \in Clerk PROVE Serving(w)'
  <2>1. txn'[w] = txn[w] /\ Serving(w)
    BY <1>0, <1>1
  <2>2. \A s : Known(s, db, w) => Known(s, n, w)
    BY <1>5 DEF Known
  <2> QED  BY <1>7, <2>1, <2>2, OthersServe DEF n
<1> QED  BY <1>0, <1>1, <1>10, <1>11, <1>12 DEF OrdersInv, n

\* At the start there are no orders.
LEMMA OrdersStart ==
    ASSUME WebsiteInit
    PROVE  OrdersInv
<1> DEFINE E == << >>
<1>0. DOMAIN E = {} /\ E \in [{} -> OrderRow] /\ E \in [{} -> ProductRow] /\ E \in [{} -> LineRow]
  OBVIOUS
<1>1. db = [orders |-> E, products |-> E, lines |-> E]
  BY DEF WebsiteInit
<1> HIDE DEF E
<1>2. Orders(db) = {} /\ Products(db) = {} /\ Lines(db) = {}
  BY <1>0, <1>1 DEF Orders, Products, Lines
<1>3. db \in Tables
  <2>1. E \in TableOf(OrderRow) /\ E \in TableOf(ProductRow) /\ E \in TableOf(LineRow)
    BY <1>0 DEF TableOf
  <2> QED  BY <1>1, <2>1 DEF Tables
<1>4. Dense({})
  BY FS_EmptySet DEF Dense
<1>5. Good(db)
  BY <1>2, <1>3, <1>4 DEF Good, OneEach, Sized
<1>6. answered = {} /\ DOMAIN txn = Clerk /\ \A w \in Clerk : txn[w] = Idle
  BY DEF WebsiteInit
<1> QED  BY <1>5, <1>6 DEF OrdersInv, Serving

\* Every step keeps the invariant.
LEMMA OrdersStep ==
    ASSUME Unambiguous, OrdersInv, [WebsiteNext]_website_vars
    PROVE  OrdersInv'
<1>1. ASSUME NEW w \in Clerk, NEW c \in Call, Arrive(w, c) PROVE OrdersInv'
  <2> DEFINE t == [call |-> c, snap |-> db]
  <2>1. txn' = [txn EXCEPT ![w] = t] /\ UNCHANGED <<db, answered>> /\ t.call \in Call /\ t.snap = db
    BY <1>1 DEF Arrive
  <2> HIDE DEF t
  <2> QED  BY <2>1, ArriveKeeps
<1>2. ASSUME NEW w \in Clerk, Commit(w) PROVE OrdersInv'
  BY <1>2, CommitKeeps
<1>3. ASSUME NEW w \in Clerk, Conflict(w) PROVE OrdersInv'
  <2>1. PICK t \in {Idle, [call |-> txn[w].call, snap |-> db]} : txn' = [txn EXCEPT ![w] = t]
    BY <1>3 DEF Conflict
  <2>2. txn[w] # Idle /\ UNCHANGED <<db, answered>>
    BY <1>3 DEF Conflict
  <2>3. txn[w].call \in Call
    BY <2>2 DEF OrdersInv, Serving
  <2>4. t = Idle \/ (t.call \in Call /\ t.snap = db)
    BY <2>1, <2>3
  <2> QED  BY <2>1, <2>2, <2>4, ArriveKeeps
<1>4. ASSUME NEW o \in Orders(db), ConfirmOrder(o) PROVE OrdersInv'
  BY <1>4, ConfirmKeeps
<1>5. CASE UNCHANGED website_vars
  <2>1. db' = db /\ txn' = txn /\ answered' = answered
    BY <1>5 DEF website_vars
  <2> QED  BY <2>1 DEF OrdersInv, Serving
<1> QED  BY <1>1, <1>2, <1>3, <1>4, <1>5 DEF WebsiteNext

\* However often the calls of the website come, however many processes serve them at a time and
\* wherever one fails, an order has one line per entry and child, each line shows the stone it
\* was made for, and a call answered with success is on an order in full.
THEOREM CallsAreBooked == Unambiguous => (WebsiteSpec => []BookedAsCalled)
<1> SUFFICES ASSUME Unambiguous PROVE WebsiteSpec => []BookedAsCalled
  OBVIOUS
<1>1. WebsiteInit => OrdersInv
  BY OrdersStart
<1>2. OrdersInv /\ [WebsiteNext]_website_vars => OrdersInv'
  BY OrdersStep
<1>3. OrdersInv => BookedAsCalled
  BY OrdersShow
<1> QED  BY <1>1, <1>2, <1>3, PTL DEF WebsiteSpec
=============================================================================
