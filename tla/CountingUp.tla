------------------------------ MODULE CountingUp ------------------------------
(***************************************************************************)
(* Facts about numbers that several proofs need: those about handlers that  *)
(* go through an order line after line, those that count, and the sum, the  *)
(* largest and the smallest element of a finite set of numbers.             *)
(***************************************************************************)
EXTENDS Integers, FiniteSets, FiniteSetsExt, Functions, FiniteSetTheorems, WellFoundedInduction, TLAPS

\* A set of numbers has a least element.
LEMMA LeastOf ==
    ASSUME NEW I \in SUBSET Nat, I # {}
    PROVE  \E i \in I : \A j \in I : i <= j
<1> DEFINE T == {0..i : i \in I}
<1>1. T \subseteq FiniteSubsetsOf(Nat) /\ T # {}
  <2>1. ASSUME NEW i \in Nat PROVE 0..i \in FiniteSubsetsOf(Nat)
    <3>1. IsFiniteSet(0..i)
      BY FS_Interval
    <3>2. 0..i \subseteq Nat
      OBVIOUS
    <3> QED  BY <3>1, <3>2 DEF FiniteSubsetsOf
  <2> QED  BY <2>1
<1>2. PICK x \in T : \A y \in T : ~ (<<y, x>> \in StrictSubsetOrdering(Nat))
  <2> HIDE DEF T
  <2> QED  BY <1>1, WFMin, FS_StrictSubsetOrderingWellFounded
<1>3. PICK i \in I : x = 0..i
  BY <1>2
<1>4. ASSUME NEW j \in I PROVE i <= j
  <2>1. ~ (<<0..j, 0..i>> \in StrictSubsetOrdering(Nat))
    BY <1>2, <1>3
  <2>2. ~ (0..j \subseteq 0..i /\ 0..j # 0..i)
    BY <2>1 DEF StrictSubsetOrdering
  <2>3. i \in 0..i /\ (j < i => i \notin 0..j /\ 0..j \subseteq 0..i)
    OBVIOUS
  <2> QED  BY <2>2, <2>3
<1> QED  BY <1>4

\* What holds of 0 and of every successor up to N holds up to N.
LEMMA UpTo ==
    ASSUME NEW N \in Nat, NEW S, 0 \in S,
           \A k \in 0..N : k # N /\ k \in S => k + 1 \in S
    PROVE  0..N \subseteq S
<1> DEFINE I == (0..N) \ S
<1>1. SUFFICES ASSUME I # {} PROVE FALSE
  OBVIOUS
<1>2. I \in SUBSET Nat
  OBVIOUS
<1>3. PICK i \in I : \A j \in I : i <= j
  BY <1>1, <1>2, LeastOf
<1>4. i \in 0..N /\ i \notin S /\ i # 0
  BY <1>3
<1>5. i - 1 \in 0..N /\ i - 1 # N /\ i - 1 \notin I
  BY <1>3, <1>4
<1>6. i - 1 \in S
  BY <1>5
<1>7. (i - 1) + 1 \in S
  BY <1>5, <1>6
<1> QED  BY <1>4, <1>7

\* What has its numbers from one to n has at most n elements.
LEMMA AtMost ==
    ASSUME NEW n \in Nat, NEW S, S \subseteq 1..n
    PROVE  Cardinality(S) \in 0..n
<1>1. IsFiniteSet(1..n) /\ Cardinality(1..n) = IF 1 > n THEN 0 ELSE n - 1 + 1
  BY FS_Interval
<1>2. IsFiniteSet(S) /\ Cardinality(S) <= Cardinality(1..n)
  BY <1>1, FS_Subset
<1>3. Cardinality(S) \in Nat
  BY <1>2, FS_CardinalityType
<1> QED  BY <1>1, <1>2, <1>3

(***************************************************************************)
(* Sums                                                                    *)
(***************************************************************************)
\* The sum over s of what f says of its elements, if g has the sums of less.
SumStep(f, g, s) ==
  IF s = {} THEN 0 ELSE LET x == CHOOSE x \in s : TRUE IN f[x] + g[s \ {x}]
Sums(f, g, T) == g = [s \in T |-> SumStep(f, g, s)]
Small(S, n) == {s \in SUBSET S : Cardinality(s) <= n}

\* What is taken from a set is one element of it, and leaves one less.
LEMMA OneLess ==
    ASSUME NEW S, IsFiniteSet(S), NEW s \in SUBSET S, s # {}
    PROVE  LET x == CHOOSE x \in s : TRUE
           IN  /\ x \in s /\ s \ {x} \in SUBSET S /\ IsFiniteSet(s)
               /\ Cardinality(s) \in Nat \ {0} /\ Cardinality(s \ {x}) = Cardinality(s) - 1
<1> DEFINE x == CHOOSE x \in s : TRUE
<1>1. x \in s
  OBVIOUS
<1>2. IsFiniteSet(s)
  BY FS_Subset
<1> HIDE DEF x
<1>3. Cardinality(s \ {x}) = Cardinality(s) - 1
  BY <1>1, <1>2, FS_RemoveElement
<1>4. Cardinality(s) \in Nat /\ Cardinality(s) # 0
  BY <1>2, FS_CardinalityType, FS_EmptySet
<1> QED  BY <1>1, <1>2, <1>3, <1>4 DEF x

\* The sums over all subsets of a finite set exist, and SumFunction is one of them.
LEMMA SumRuns ==
    ASSUME NEW f, IsFiniteSet(DOMAIN f)
    PROVE  \E g : Sums(f, g, SUBSET DOMAIN f) /\ SumFunction(f) = g[DOMAIN f]
<1> DEFINE S == DOMAIN f
           N == Cardinality(S)
           K == {n \in 0..N : \E g : Sums(f, g, Small(S, n))}
<1>1. N \in Nat
  BY FS_CardinalityType
<1>2. 0 \in K
  <2> DEFINE g == [s \in Small(S, 0) |-> 0]
  <2>1. ASSUME NEW s \in Small(S, 0) PROVE SumStep(f, g, s) = 0
    <3>1. s = {}
      <4>1. IsFiniteSet(s) /\ Cardinality(s) <= 0
        BY FS_Subset DEF Small
      <4> QED  BY <4>1, FS_CardinalityType, FS_EmptySet
    <3> QED  BY <3>1 DEF SumStep
  <2>2. Sums(f, g, Small(S, 0))
    BY <2>1 DEF Sums
  <2> QED  BY <1>1, <2>2
<1>3. ASSUME NEW n \in 0..N, n # N, n \in K PROVE n + 1 \in K
  <2>1. PICK g : Sums(f, g, Small(S, n))
    BY <1>3
  <2> DEFINE h == [s \in Small(S, n + 1) |-> IF Cardinality(s) <= n THEN g[s] ELSE SumStep(f, g, s)]
  <2>2. ASSUME NEW s \in Small(S, n + 1) PROVE h[s] = SumStep(f, h, s)
    <3>1. s \in SUBSET S /\ Cardinality(s) <= n + 1
      BY DEF Small
    <3>2. SumStep(f, h, s) = SumStep(f, g, s)
      <4>1. CASE s = {}
        BY <4>1 DEF SumStep
      <4>2. CASE s # {}
        <5> DEFINE x == CHOOSE x \in s : TRUE
        <5>1. s \ {x} \in SUBSET S /\ Cardinality(s \ {x}) <= n /\ Cardinality(s \ {x}) <= n + 1
          BY <1>1, <1>3, <3>1, <4>2, OneLess
        <5>2. h[s \ {x}] = g[s \ {x}]
          BY <5>1 DEF Small
        <5> HIDE DEF h
        <5> QED  BY <4>2, <5>2 DEF SumStep
      <4> QED  BY <4>1, <4>2
    <3>3. CASE Cardinality(s) <= n
      <4>1. s \in Small(S, n)
        BY <3>1, <3>3 DEF Small
      <4>2. g[s] = SumStep(f, g, s)
        BY <2>1, <4>1 DEF Sums
      <4> QED  BY <3>2, <3>3, <4>2
    <3>4. CASE ~(Cardinality(s) <= n)
      <4>1. h[s] = SumStep(f, g, s)
        BY <3>4
      <4> HIDE DEF h
      <4> QED  BY <3>2, <4>1
    <3> QED  BY <3>3, <3>4
  <2>3. h = [s \in Small(S, n + 1) |-> h[s]]
    OBVIOUS
  <2> HIDE DEF h
  <2>4. Sums(f, h, Small(S, n + 1))
    BY <2>2, <2>3 DEF Sums
  <2>5. n + 1 \in 0..N
    BY <1>1, <1>3
  <2> QED  BY <2>4, <2>5
<1> HIDE DEF K
<1>4. 0..N \subseteq K
  BY <1>1, <1>2, <1>3, UpTo
<1>5. Small(S, N) = SUBSET S
  <2>1. ASSUME NEW s \in SUBSET S PROVE Cardinality(s) <= N
    BY FS_Subset
  <2> QED  BY <2>1 DEF Small
<1>6. \E g : Sums(f, g, SUBSET S)
  <2>1. N \in K
    BY <1>1, <1>4
  <2>2. \E g : Sums(f, g, Small(S, N))
    BY <2>1 DEF K
  <2> QED  BY <1>5, <2>2
<1> DEFINE g == CHOOSE g : g = [s \in SUBSET S |-> SumStep(f, g, s)]
<1>7. g = [s \in SUBSET S |-> SumStep(f, g, s)]
  BY <1>6 DEF Sums
<1>8. SumFunction(f) = g[S]
  BY DEF SumFunction, SumFunctionOnSet, FoldFunctionOnSet, MapThenFoldSet, SumStep
<1> HIDE DEF g
<1> QED  BY <1>7, <1>8 DEF Sums

\* Where the sums of f are: numbers, natural ones if f has such; above 0 if all of f is;
\* and k times as much if f has k times as much everywhere.
LEMMA SumFacts ==
    ASSUME NEW S, IsFiniteSet(S), NEW f \in [S -> Nat], NEW e \in [S -> Nat], NEW k \in Nat,
           \A x \in S : e[x] = k * f[x]
    PROVE  /\ SumFunction(f) \in Nat /\ SumFunction(e) = k * SumFunction(f)
           /\ S # {} /\ (\A x \in S : f[x] # 0) => SumFunction(f) # 0
<1>0. DOMAIN f = S /\ DOMAIN e = S
  OBVIOUS
<1>1. PICK g : Sums(f, g, SUBSET S) /\ SumFunction(f) = g[S]
  BY <1>0, SumRuns
<1>2. PICK h : Sums(e, h, SUBSET S) /\ SumFunction(e) = h[S]
  BY <1>0, SumRuns
<1> DEFINE N == Cardinality(S)
           Good(s) == /\ g[s] \in Nat /\ h[s] = k * g[s]
                      /\ s # {} /\ (\A x \in S : f[x] # 0) => g[s] # 0
           K == {n \in 0..N : \A s \in Small(S, n) : Good(s)}
<1>3. N \in Nat
  BY FS_CardinalityType
<1>4. \A s \in SUBSET S : g[s] = SumStep(f, g, s) /\ h[s] = SumStep(e, h, s)
  BY <1>1, <1>2 DEF Sums
<1>5. 0 \in K
  <2>1. ASSUME NEW s \in Small(S, 0) PROVE Good(s)
    <3>1. s = {} /\ s \in SUBSET S
      <4>1. IsFiniteSet(s) /\ Cardinality(s) <= 0 /\ s \in SUBSET S
        BY FS_Subset DEF Small
      <4> QED  BY <4>1, FS_CardinalityType, FS_EmptySet
    <3>2. g[s] = 0 /\ h[s] = 0
      BY <1>4, <3>1 DEF SumStep
    <3> QED  BY <3>1, <3>2
  <2> HIDE DEF Good
  <2> QED  BY <1>3, <2>1
<1>6. ASSUME NEW n \in 0..N, n # N, n \in K PROVE n + 1 \in K
  <2>1. ASSUME NEW s \in Small(S, n + 1) PROVE Good(s)
    <3>1. s \in SUBSET S /\ Cardinality(s) <= n + 1
      BY DEF Small
    <3>2. CASE s = {}
      <4>1. g[s] = 0 /\ h[s] = 0
        BY <1>4, <3>1, <3>2 DEF SumStep
      <4> QED  BY <3>2, <4>1
    <3>3. CASE s # {}
      <4> DEFINE x == CHOOSE x \in s : TRUE
                 r == s \ {x}
      <4>1. x \in S /\ r \in SUBSET S /\ Cardinality(r) <= n
        BY <1>3, <1>6, <3>1, <3>3, OneLess
      <4>2. r \in Small(S, n)
        BY <4>1 DEF Small
      <4>3. g[r] \in Nat /\ h[r] = k * g[r]
        BY <1>6, <4>2
      <4>4. g[s] = f[x] + g[r] /\ h[s] = e[x] + h[r]
        BY <1>4, <3>1, <3>3 DEF SumStep
      <4>5. f[x] \in Nat /\ e[x] = k * f[x]
        BY <4>1
      <4> HIDE DEF x, r
      <4>6. g[s] \in Nat /\ h[s] = k * g[s]
        BY <4>3, <4>4, <4>5
      <4>7. (\A y \in S : f[y] # 0) => g[s] # 0
        BY <4>1, <4>3, <4>4, <4>5
      <4> QED  BY <4>6, <4>7
    <3> QED  BY <3>2, <3>3
  <2> HIDE DEF Good
  <2>2. n + 1 \in 0..N
    BY <1>3, <1>6
  <2> QED  BY <2>1, <2>2
<1> HIDE DEF Good, K
<1>7. 0..N \subseteq K
  BY <1>3, <1>5, <1>6, UpTo
<1>8. N \in K
  BY <1>3, <1>7
<1>9. Good(S)
  <2>1. S \in Small(S, N)
    BY <1>3 DEF Small
  <2> QED  BY <1>8, <2>1 DEF K
<1> QED  BY <1>1, <1>2, <1>9 DEF Good

\* At every point of S, a f is at most b e + c d.
Bounded(S, a, f, b, e, c, d) == \A x \in S : a * f[x] <= b * e[x] + c * d[x]

\* What is at most so many times one function and so many times another one is so in
\* sum: a f is at most b e + c d.
LEMMA SumsBounded ==
    ASSUME NEW S, IsFiniteSet(S), NEW f \in [S -> Nat], NEW e \in [S -> Nat], NEW d \in [S -> Nat],
           NEW a \in Nat, NEW b \in Nat, NEW c \in Nat,
           Bounded(S, a, f, b, e, c, d)
    PROVE  a * SumFunction(f) <= b * SumFunction(e) + c * SumFunction(d)
<1>0. DOMAIN f = S /\ DOMAIN e = S /\ DOMAIN d = S
  OBVIOUS
<1>1. PICK g : Sums(f, g, SUBSET S) /\ SumFunction(f) = g[S]
  BY <1>0, SumRuns
<1>2. PICK h : Sums(e, h, SUBSET S) /\ SumFunction(e) = h[S]
  BY <1>0, SumRuns
<1>3. PICK i : Sums(d, i, SUBSET S) /\ SumFunction(d) = i[S]
  BY <1>0, SumRuns
<1> DEFINE N == Cardinality(S)
           Good(s) == /\ g[s] \in Nat /\ h[s] \in Nat /\ i[s] \in Nat
                      /\ a * g[s] <= b * h[s] + c * i[s]
           K == {n \in 0..N : \A s \in Small(S, n) : Good(s)}
<1>4. N \in Nat
  BY FS_CardinalityType
<1>5. \A s \in SUBSET S : /\ g[s] = SumStep(f, g, s) /\ h[s] = SumStep(e, h, s)
                         /\ i[s] = SumStep(d, i, s)
  BY <1>1, <1>2, <1>3 DEF Sums
<1>6. \A s \in SUBSET S : s = {} => Good(s)
  <2>1. ASSUME NEW s \in SUBSET S, s = {} PROVE g[s] = 0 /\ h[s] = 0 /\ i[s] = 0
    BY <1>5, <2>1 DEF SumStep
  <2>2. a * 0 <= b * 0 + c * 0
    OBVIOUS
  <2> QED  BY <2>1, <2>2
<1>7. 0 \in K
  <2>1. ASSUME NEW s \in Small(S, 0) PROVE Good(s)
    <3>1. s = {} /\ s \in SUBSET S
      <4>1. IsFiniteSet(s) /\ Cardinality(s) <= 0 /\ s \in SUBSET S
        BY FS_Subset DEF Small
      <4> QED  BY <4>1, FS_CardinalityType, FS_EmptySet
    <3> QED  BY <1>6, <3>1
  <2> HIDE DEF Good
  <2> QED  BY <1>4, <2>1
<1>8. ASSUME NEW n \in 0..N, n # N, n \in K PROVE n + 1 \in K
  <2>1. ASSUME NEW s \in Small(S, n + 1), s # {} PROVE Good(s)
    <3>1. s \in SUBSET S /\ Cardinality(s) <= n + 1
      BY DEF Small
    <3> DEFINE x == CHOOSE x \in s : TRUE
               r == s \ {x}
    <3>2. x \in S /\ r \in SUBSET S /\ Cardinality(r) <= n
      BY <1>4, <1>8, <2>1, <3>1, OneLess
    <3>3. r \in Small(S, n)
      BY <3>2 DEF Small
    <3>4. Good(r)
      BY <1>8, <3>3
    <3>5. g[s] = f[x] + g[r] /\ h[s] = e[x] + h[r] /\ i[s] = d[x] + i[r]
      BY <1>5, <2>1, <3>1 DEF SumStep
    <3>6. f[x] \in Nat /\ e[x] \in Nat /\ d[x] \in Nat /\ a * f[x] <= b * e[x] + c * d[x]
      BY <3>2 DEF Bounded
    <3> HIDE DEF x, r
    <3>7. ASSUME NEW f1 \in Nat, NEW e1 \in Nat, NEW d1 \in Nat,
                 NEW f2 \in Nat, NEW e2 \in Nat, NEW d2 \in Nat,
                 a * f1 <= b * e1 + c * d1, a * f2 <= b * e2 + c * d2
          PROVE  a * (f1 + f2) <= b * (e1 + e2) + c * (d1 + d2)
      <4>1. /\ a * (f1 + f2) = a * f1 + a * f2 /\ b * (e1 + e2) = b * e1 + b * e2
            /\ c * (d1 + d2) = c * d1 + c * d2
        OBVIOUS
      <4> DEFINE p1 == a * f1
                 p2 == a * f2
                 q1 == b * e1
                 q2 == b * e2
                 r1 == c * d1
                 r2 == c * d2
      <4>2. /\ p1 \in Nat /\ p2 \in Nat /\ q1 \in Nat /\ q2 \in Nat /\ r1 \in Nat /\ r2 \in Nat
            /\ p1 <= q1 + r1 /\ p2 <= q2 + r2
        BY <3>7
      <4>3. p1 + p2 <= (q1 + q2) + (r1 + r2)
        <5> HIDE DEF p1, p2, q1, q2, r1, r2
        <5> QED  BY <4>2
      <4> QED  BY <4>1, <4>3
    <3>8. g[s] \in Nat /\ h[s] \in Nat /\ i[s] \in Nat
      BY <3>4, <3>5, <3>6
    <3>9. a * g[s] <= b * h[s] + c * i[s]
      BY <3>4, <3>5, <3>6, <3>7
    <3> QED  BY <3>8, <3>9
  <2>2. \A s \in Small(S, n + 1) : Good(s)
    BY <1>6, <2>1 DEF Small
  <2> HIDE DEF Good
  <2>3. n + 1 \in 0..N
    <3>1. n \in 0..N /\ n # N /\ N \in Nat
      BY <1>4, <1>8
    <3> HIDE DEF N
    <3> QED  BY ONLY <3>1
  <2> QED  BY <2>2, <2>3
<1> HIDE DEF Good, K
<1>9. 0..N \subseteq K
  BY <1>4, <1>7, <1>8, UpTo
<1>10. N \in K
  BY <1>4, <1>9
<1>11. Good(S)
  <2>1. S \in Small(S, N)
    BY <1>4 DEF Small
  <2> QED  BY <1>10, <2>1 DEF K
<1> QED  BY <1>1, <1>2, <1>3, <1>11 DEF Good

\* A set of numbers has a largest and a smallest element, unless it is empty.
HasEnds(s) == s # {} => /\ \E m \in s : \A x \in s : m >= x
                     /\ \E m \in s : \A x \in s : m <= x

\* A finite set of integers has a largest and a smallest element.
LEMMA Extremes ==
    ASSUME NEW S \in SUBSET Int, IsFiniteSet(S)
    PROVE  HasEnds(S)
<1> DEFINE N == Cardinality(S)
           K == {n \in 0..N : \A s \in Small(S, n) : HasEnds(s)}
<1>1. N \in Nat
  BY FS_CardinalityType
<1>2. 0 \in K
  <2>1. ASSUME NEW s \in Small(S, 0) PROVE HasEnds(s)
    <3>1. IsFiniteSet(s) /\ Cardinality(s) <= 0
      BY FS_Subset DEF Small
    <3>2. s = {}
      BY <3>1, FS_CardinalityType, FS_EmptySet
    <3> QED  BY <3>2 DEF HasEnds
  <2>2. 0 \in 0..N
    BY <1>1
  <2> QED  BY <2>1, <2>2
<1>3. ASSUME NEW n \in 0..N, n # N, n \in K PROVE n + 1 \in K
  <2>0. \A s \in Small(S, n) : HasEnds(s)
    BY <1>3
  <2>1. ASSUME NEW s \in Small(S, n + 1), s # {} PROVE HasEnds(s)
    <3> DEFINE x == CHOOSE x \in s : TRUE
               u == s \ {x}
    <3>1. s \in SUBSET S /\ Cardinality(s) <= n + 1
      BY DEF Small
    <3>2. x \in s /\ u \in SUBSET S /\ Cardinality(u) <= n
      <4>1. x \in s /\ u \in SUBSET S /\ Cardinality(s) \in Nat /\ Cardinality(u) = Cardinality(s) - 1
        BY <2>1, <3>1, OneLess
      <4> QED  BY <1>1, <3>1, <4>1
    <3>3. u \in Small(S, n)
      BY <3>2 DEF Small
    <3>0. HasEnds(u)
      BY <2>0, <3>3
    <3>4. x \in Int /\ s = u \union {x} /\ u \subseteq Int
      BY <3>1, <3>2
    <3> HIDE DEF x, u
    <3>5. CASE u = {}
      BY <3>4, <3>5 DEF HasEnds
    <3>6. CASE u # {}
      <4>1. PICK hi \in u : \A y \in u : hi >= y
        BY <3>0, <3>6 DEF HasEnds
      <4>2. PICK lo \in u : \A y \in u : lo <= y
        BY <3>0, <3>6 DEF HasEnds
      <4>3. \E m \in s : \A y \in s : m >= y
        <5>1. CASE x >= hi
          <6>1. \A y \in s : x >= y
            BY <3>4, <4>1, <5>1
          <6> QED  BY <3>4, <6>1
        <5>2. CASE ~(x >= hi)
          <6>1. \A y \in s : hi >= y
            BY <3>4, <4>1, <5>2
          <6> QED  BY <3>4, <6>1
        <5> QED  BY <5>1, <5>2
      <4>4. \E m \in s : \A y \in s : m <= y
        <5>1. CASE x <= lo
          <6>1. \A y \in s : x <= y
            BY <3>4, <4>2, <5>1
          <6> QED  BY <3>4, <6>1
        <5>2. CASE ~(x <= lo)
          <6>1. \A y \in s : lo <= y
            BY <3>4, <4>2, <5>2
          <6> QED  BY <3>4, <6>1
        <5> QED  BY <5>1, <5>2
      <4> QED  BY <4>3, <4>4 DEF HasEnds
    <3> QED  BY <3>5, <3>6
  <2>2. n + 1 \in 0..N
    BY <1>1, <1>3
  <2>3. \A s \in Small(S, n + 1) : HasEnds(s)
    BY <2>1 DEF HasEnds
  <2> QED  BY <2>2, <2>3
<1> HIDE DEF K
<1>4. N \in K
  <2>1. 0..N \subseteq K
    BY <1>1, <1>2, <1>3, UpTo
  <2> QED  BY <1>1, <2>1
<1>5. S \in Small(S, N)
  BY <1>1 DEF Small
<1> QED  BY <1>4, <1>5 DEF K

\* They are Max and Min.
LEMMA MaxMin ==
    ASSUME NEW S \in SUBSET Int, IsFiniteSet(S), S # {}
    PROVE  /\ Max(S) \in S /\ \A x \in S : Max(S) >= x
           /\ Min(S) \in S /\ \A x \in S : Min(S) <= x
BY Extremes DEF Max, Min, HasEnds

\* What a function makes of a finite set is finite.
LEMMA ImageFinite ==
    ASSUME NEW S, IsFiniteSet(S), NEW f
    PROVE  IsFiniteSet({f[x] : x \in S})
<1> DEFINE T == {f[x] : x \in S}
           g == [x \in S |-> f[x]]
<1>1. g \in Surjection(S, T)
  BY DEF Surjection
<1> HIDE DEF g, T
<1>2. IsFiniteSet(T)
  BY <1>1, FS_Surjection
<1> QED  BY <1>2 DEF T

\* A function that is 0 everywhere but at x has the sum f[x]; sums of integers are integers.
LEMMA OnlyOne ==
    ASSUME NEW S, IsFiniteSet(S), NEW f \in [S -> Int]
    PROVE  /\ SumFunction(f) \in Int
           /\ \A x \in S : (\A y \in S : y # x => f[y] = 0) => SumFunction(f) = f[x]
<1>0. DOMAIN f = S
  OBVIOUS
<1>1. PICK g : Sums(f, g, SUBSET S) /\ SumFunction(f) = g[S]
  BY <1>0, SumRuns
<1> DEFINE N == Cardinality(S)
           Lone(x) == x \in S /\ \A y \in S : y # x => f[y] = 0
           Good(s) == g[s] \in Int /\ \A x : Lone(x) => g[s] = IF x \in s THEN f[x] ELSE 0
           K == {n \in 0..N : \A s \in Small(S, n) : Good(s)}
<1>2. N \in Nat
  BY FS_CardinalityType
<1>3. \A s \in SUBSET S : g[s] = SumStep(f, g, s)
  BY <1>1 DEF Sums
<1>4. ASSUME NEW s \in Small(S, 0) PROVE Good(s)
  <2>1. IsFiniteSet(s) /\ Cardinality(s) <= 0 /\ s \in SUBSET S
    BY FS_Subset DEF Small
  <2>2. s = {}
    BY <2>1, FS_CardinalityType, FS_EmptySet
  <2>3. g[s] = 0
    BY <1>3, <2>1, <2>2 DEF SumStep
  <2> QED  BY <2>2, <2>3
<1>5. ASSUME NEW n \in 0..N, n # N, \A s \in Small(S, n) : Good(s), NEW s \in Small(S, n + 1)
      PROVE  Good(s)
  <2>1. s \in SUBSET S /\ Cardinality(s) <= n + 1
    BY DEF Small
  <2>2. CASE s = {}
    <3>1. g[s] = 0
      BY <1>3, <2>1, <2>2 DEF SumStep
    <3> QED  BY <2>2, <3>1
  <2>3. CASE s # {}
    <3> DEFINE x == CHOOSE x \in s : TRUE
               r == s \ {x}
    <3>1. x \in s /\ r \in SUBSET S /\ Cardinality(s) \in Nat /\ Cardinality(r) = Cardinality(s) - 1
      BY <2>1, <2>3, OneLess
    <3>2. r \in Small(S, n)
      <4>1. Cardinality(r) <= n
        BY <1>2, <2>1, <3>1
      <4> QED  BY <3>1, <4>1 DEF Small
    <3>3. Good(r)
      BY <1>5, <3>2
    <3>4. g[s] = f[x] + g[r]
      BY <1>3, <2>1, <2>3 DEF SumStep
    <3>5. f[x] \in Int /\ s = r \union {x} /\ x \notin r /\ x \in S
      BY <2>1, <3>1
    <3> HIDE DEF x, r
    <3>6. g[s] \in Int
      BY <3>3, <3>4, <3>5
    <3>7. ASSUME NEW y, Lone(y) PROVE g[s] = IF y \in s THEN f[y] ELSE 0
      <4>1. g[r] = IF y \in r THEN f[y] ELSE 0
        BY <3>3, <3>7
      <4>2. CASE y = x
        BY <3>4, <3>5, <4>1, <4>2
      <4>3. CASE y # x
        <5>1. f[x] = 0 /\ f[y] \in Int
          BY <3>5, <3>7, <4>3
        <5>2. y \in s <=> y \in r
          BY <3>5, <4>3
        <5> QED  BY <3>4, <4>1, <5>1, <5>2
      <4> QED  BY <4>2, <4>3
    <3> QED  BY <3>6, <3>7
  <2> QED  BY <2>2, <2>3
<1> HIDE DEF Good
<1>6. 0 \in K
  <2>1. 0 \in 0..N
    BY <1>2
  <2> QED  BY <1>4, <2>1
<1>7. ASSUME NEW n \in 0..N, n # N, n \in K PROVE n + 1 \in K
  <2>1. n + 1 \in 0..N
    BY <1>2, <1>7
  <2>2. \A s \in Small(S, n) : Good(s)
    BY <1>7
  <2>3. \A s \in Small(S, n + 1) : Good(s)
    BY <1>5, <1>7, <2>2
  <2> QED  BY <2>1, <2>3
<1> HIDE DEF K
<1>8. N \in K
  <2>1. 0..N \subseteq K
    BY <1>2, <1>6, <1>7, UpTo
  <2> QED  BY <1>2, <2>1
<1>9. Good(S)
  <2>1. S \in Small(S, N)
    BY <1>2 DEF Small
  <2> QED  BY <1>8, <2>1 DEF K
<1> QED  BY <1>1, <1>9 DEF Good

\* f has what the steps lead to, each from where the one before has led.
Stepped(N, base, step, f) == f = [n \in 0..N |-> IF n = 0 THEN base ELSE step[n][f[n - 1]]]

\* Steps lead somewhere.
LEMMA Stepping ==
    ASSUME NEW N \in Nat, NEW S, NEW base \in S, NEW step \in [1..N -> [S -> S]]
    PROVE  \E f : f \in [0..N -> S] /\ Stepped(N, base, step, f)
<1> DEFINE Runs(f, k) == /\ f \in [0..k -> S] /\ f[0] = base
                         /\ \A n \in 1..k : f[n] = step[n][f[n - 1]]
           K == {k \in 0..N : \E f : Runs(f, k)}
<1>1. 0 \in K
  <2> DEFINE f == [n \in 0..0 |-> base]
  <2>1. Runs(f, 0)
    OBVIOUS
  <2>2. 0 \in 0..N
    OBVIOUS
  <2> HIDE DEF f, Runs
  <2> QED  BY <2>1, <2>2
<1>2. ASSUME NEW k \in 0..N, k # N, k \in K PROVE k + 1 \in K
  <2>1. PICK f : Runs(f, k)
    BY <1>2
  <2> DEFINE h == [n \in 0..(k + 1) |-> IF n = k + 1 THEN step[n][f[k]] ELSE f[n]]
  <2>2. k + 1 \in 1..N /\ k \in 0..k
    BY <1>2
  <2>3. step[k + 1][f[k]] \in S
    BY <2>1, <2>2
  <2>4. h \in [0..(k + 1) -> S]
    <3>1. ASSUME NEW n \in 0..(k + 1) PROVE (IF n = k + 1 THEN step[n][f[k]] ELSE f[n]) \in S
      <4>1. CASE n = k + 1
        BY <2>3, <4>1
      <4>2. CASE n # k + 1
        <5>1. n \in 0..k
          BY <4>2
        <5> QED  BY <2>1, <4>2, <5>1
      <4> QED  BY <4>1, <4>2
    <3> QED  BY <3>1
  <2>5. h[0] = base
    BY <2>1, <2>2
  <2>6. ASSUME NEW n \in 1..(k + 1) PROVE h[n] = step[n][h[n - 1]]
    <3>1. n - 1 \in 0..k
      OBVIOUS
    <3>2. h[n - 1] = f[n - 1]
      BY <3>1
    <3>3. CASE n = k + 1
      BY <3>2, <3>3
    <3>4. CASE n # k + 1
      <4>1. n \in 1..k /\ h[n] = f[n]
        BY <3>4
      <4>2. f[n] = step[n][f[n - 1]]
        BY <2>1, <4>1
      <4> QED  BY <3>2, <4>1, <4>2
    <3> QED  BY <3>3, <3>4
  <2> HIDE DEF h
  <2>7. Runs(h, k + 1)
    BY <2>4, <2>5, <2>6
  <2> HIDE DEF Runs
  <2> QED  BY <2>2, <2>7
<1> HIDE DEF K
<1>3. 0..N \subseteq K
  BY <1>1, <1>2, UpTo
<1>4. N \in K
  BY <1>3
<1>5. PICK f : Runs(f, N)
  BY <1>4 DEF K
<1>6. \A n \in 0..N : f[n] = IF n = 0 THEN base ELSE step[n][f[n - 1]]
  <2>1. ASSUME NEW n \in 0..N, n # 0 PROVE f[n] = step[n][f[n - 1]]
    BY <1>5, <2>1
  <2> QED  BY <1>5, <2>1
<1>7. Stepped(N, base, step, f) /\ f \in [0..N -> S]
  BY <1>5, <1>6 DEF Stepped
<1> QED  BY <1>7
=============================================================================
