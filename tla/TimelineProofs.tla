--------------------------- MODULE TimelineProofs ---------------------------
(***************************************************************************)
(* Theorems about Plan and Timeline, for any cluster, any jobs, any policy *)
(* and any times.                                                          *)
(***************************************************************************)
EXTENDS Timeline, FiniteSetTheorems, WellFoundedInduction, TLAPS

-----------------------------------------------------------------------------
(* Loops: induction by least counterexample, and the values of a fold *)

\* A set of naturals that is not empty has a least element.
LEMMA LeastNat ==
    ASSUME NEW T \in SUBSET Nat, T # {}
    PROVE  \E m \in T : \A k \in T : m <= k
<1> DEFINE less == {ss \in Nat \X Nat : ss[1] < ss[2]}
<1>1. IsWellFoundedOn(less, Nat)
  BY NatLessThanWellFounded, Zenon DEF OpToRel
<1>2. \A x, y \in Nat : x < y => <<x, y>> \in less
  OBVIOUS
<1>3. \E x \in T : \A y \in T : ~(<<y, x>> \in less)
  <2> HIDE DEF less
  <2> QED BY <1>1, WFMin
<1> HIDE DEF less
<1>4. PICK x \in T : \A y \in T : ~(<<y, x>> \in less)
  BY <1>3
<1>5. \A y \in T : ~(y < x)
  BY <1>2, <1>4
<1>6. QED BY <1>5

\* Induction, with the set of the numbers that have the property in the place of
\* the property.
LEMMA NatSetInduction ==
    ASSUME NEW P, 0 \in P, \A n \in Nat : n \in P => n + 1 \in P
    PROVE  \A n \in Nat : n \in P
<1>1. SUFFICES ASSUME Nat \ P # {} PROVE FALSE
  OBVIOUS
<1>2. PICK m \in Nat \ P : \A k \in Nat \ P : m <= k
  BY <1>1, LeastNat
<1>3. m - 1 \in Nat /\ m - 1 \in P
  BY <1>2
<1>4. QED BY <1>2, <1>3

\* The maximum of a set of positions.
LEMMA MaxFacts ==
    ASSUME NEW n \in Nat, NEW s \in SUBSET (1..n), s # {}
    PROVE  Max(s) \in s /\ \A k \in s : k <= Max(s)
<1> DEFINE T == {t \in Nat : \E k \in s : t = n - k}
<1>1. T \in SUBSET Nat /\ T # {}
  <2>1. PICK k \in s : TRUE
    OBVIOUS
  <2>2. n - k \in T
    OBVIOUS
  <2>3. QED BY <2>2
<1>2. PICK m \in T : \A k \in T : m <= k
  <2> HIDE DEF T
  <2> QED BY <1>1, LeastNat
<1>3. PICK x \in s : m = n - x
  BY <1>2
<1>4. \A k \in s : x >= k
  <2> TAKE k \in s
  <2>1. n - k \in T
    OBVIOUS
  <2>2. m <= n - k
    BY <1>2, <2>1
  <2> QED BY <1>3, <2>2
<1>5. QED BY <1>4 DEF Max

\* F holds the values of the loop with step g from b, over the positions in any
\* subset of 1..n.
IsLoop(F, n, b, g) ==
    \A s \in SUBSET (1..n) : F[s] = IF s = {} THEN b ELSE g[<<F[s \ {Max(s)}], Max(s)>>]

\* What FoldLeft needs to be defined: there are such values.
LEMMA FoldExists ==
    ASSUME NEW A, NEW b \in A, NEW n \in Nat, NEW g \in [A \X (1..n) -> A]
    PROVE  \E F \in [SUBSET (1..n) -> A] : IsLoop(F, n, b, g)
<1> USE DEF IsLoop
<1> DEFINE Run(F, m) == IsLoop(F, m, b, g)
           Runs(m) == m <= n => \E F \in [SUBSET (1..m) -> A] : Run(F, m)
           P == {m \in Nat : Runs(m)}
<1>1. Runs(0)
  <2> DEFINE F == [s \in SUBSET (1..0) |-> b]
  <2>1. 1..0 = {}
    OBVIOUS
  <2>2. F \in [SUBSET (1..0) -> A] /\ Run(F, 0)
    BY <2>1
  <2> HIDE DEF F, Run
  <2>3. QED BY <2>2
<1>2. ASSUME NEW m \in Nat, Runs(m) PROVE Runs(m + 1)
  <2>1. SUFFICES ASSUME m + 1 <= n PROVE \E G \in [SUBSET (1..m + 1) -> A] : Run(G, m + 1)
    OBVIOUS
  <2>2. PICK F \in [SUBSET (1..m) -> A] : Run(F, m)
    <3>1. m <= n
      BY <2>1
    <3>2. QED BY <1>2, <3>1, Zenon
  <2> DEFINE G == [s \in SUBSET (1..m + 1) |-> IF m + 1 \in s THEN g[<<F[s \ {m + 1}], m + 1>>] ELSE F[s]]
  <2>3. \A s \in SUBSET (1..m + 1) : s \ {m + 1} \in SUBSET (1..m)
    OBVIOUS
  <2>4. G \in [SUBSET (1..m + 1) -> A]
    <3>1. ASSUME NEW s \in SUBSET (1..m + 1) PROVE G[s] \in A
      <4>1. CASE m + 1 \in s
        BY <2>1, <2>3, <4>1
      <4>2. CASE m + 1 \notin s
        <5>1. s \in SUBSET (1..m)
          BY <4>2
        <5>2. QED BY <4>2, <5>1
      <4>3. QED BY <4>1, <4>2
    <3>2. QED BY <3>1
  <2>5. ASSUME NEW s \in SUBSET (1..m) PROVE G[s] = F[s]
    BY <2>5
  <2>6. ASSUME NEW s \in SUBSET (1..m + 1)
        PROVE  G[s] = IF s = {} THEN b ELSE g[<<G[s \ {Max(s)}], Max(s)>>]
    <3>1. CASE m + 1 \in s
      <4>0. m + 1 \in Nat /\ s # {}
        BY <3>1
      <4>1. Max(s) \in s /\ m + 1 <= Max(s)
        <5> HIDE DEF G
        <5> QED BY <4>0, <3>1, MaxFacts
      <4>2. Max(s) = m + 1
        <5> HIDE DEF G
        <5>1. Max(s) \in 1..m + 1
          BY <4>1
        <5>2. QED BY <4>1, <5>1
      <4>3. QED BY <2>3, <2>5, <3>1, <4>2
    <3>2. CASE m + 1 \notin s
      <4>1. s \in SUBSET (1..m)
        BY <3>2
      <4> HIDE DEF G
      <4>2. s # {} => Max(s) \in s
        BY <4>1, MaxFacts
      <4>3. s \ {Max(s)} \in SUBSET (1..m)
        BY <4>1
      <4>4. QED BY <2>2, <2>5, <4>1, <4>3
    <3>3. QED BY <3>1, <3>2
  <2> HIDE DEF G
  <2>7. Run(G, m + 1)
    BY <2>6
  <2> HIDE DEF Run
  <2>8. QED BY <2>4, <2>7
<1>3. n \in P
  <2> HIDE DEF Runs
  <2>1. 0 \in P /\ \A k \in Nat : k \in P => k + 1 \in P
    BY <1>1, <1>2
  <2> HIDE DEF P
  <2>2. QED BY <2>1, NatSetInduction
<1>4. Runs(n)
  <2> HIDE DEF Runs
  <2> QED BY <1>3
<1>5. n <= n
  OBVIOUS
<1>6. QED BY <1>4, <1>5, Zenon

\* Induction up to a bound.
LEMMA BoundedInduction ==
    ASSUME NEW n \in Nat, NEW P, 0 \in P, \A k \in 0..n - 1 : k \in P => k + 1 \in P
    PROVE  \A k \in 0..n : k \in P
<1> DEFINE Q == {m \in Nat : m <= n => m \in P}
<1>1. 0 \in Q
  OBVIOUS
<1>2. ASSUME NEW m \in Nat, m \in Q PROVE m + 1 \in Q
  BY <1>2
<1>3. \A m \in Nat : m \in Q
  <2> HIDE DEF Q
  <2> QED BY <1>1, <1>2, NatSetInduction
<1>4. QED BY <1>3

\* The first k positions, as the fold takes them.
LEMMA PrefixMax ==
    ASSUME NEW n \in Nat, NEW k \in 1..n
    PROVE  /\ Max(1..k) = k /\ (1..k) \ {Max(1..k)} = 1..k - 1
           /\ 1..k \in SUBSET (1..n) /\ 1..k # {}
<1>1. 1..k \in SUBSET (1..n) /\ k \in 1..k
  OBVIOUS
<1>2. 1..k # {}
  BY <1>1
<1>3. Max(1..k) \in 1..k /\ k <= Max(1..k)
  BY <1>1, <1>2, MaxFacts
<1>4. Max(1..k) = k
  BY <1>3
<1>5. QED BY <1>1, <1>2, <1>4

-----------------------------------------------------------------------------
(* The order of the jobs *)

\* How many elements of S come before x.
Rank(S, R, x) == Cardinality({y \in S : <<y, x>> \in R})

\* R orders the elements of S, one after the other.
StrictOrder(S, R) ==
    /\ \A x \in S : <<x, x>> \notin R
    /\ \A x, y \in S : x # y => <<x, y>> \in R \/ <<y, x>> \in R
    /\ \A x, y, z \in S : <<x, y>> \in R /\ <<y, z>> \in R => <<x, z>> \in R

\* What comes before has the smaller rank.
LEMMA RankGrows ==
    ASSUME NEW S, IsFiniteSet(S), NEW R, StrictOrder(S, R), NEW x \in S, NEW y \in S
    PROVE  /\ Rank(S, R, x) \in Nat
           /\ <<x, y>> \in R => Rank(S, R, x) < Rank(S, R, y)
           /\ Rank(S, R, x) = Rank(S, R, y) => x = y
<1>1. ASSUME NEW v \in S PROVE IsFiniteSet({z \in S : <<z, v>> \in R}) /\ Rank(S, R, v) \in Nat
  <2>1. {z \in S : <<z, v>> \in R} \in SUBSET S
    OBVIOUS
  <2>2. IsFiniteSet({z \in S : <<z, v>> \in R})
    BY <2>1, FS_Subset
  <2>3. QED BY <2>2, FS_CardinalityType DEF Rank
<1>2. ASSUME NEW v \in S, NEW w \in S, <<v, w>> \in R PROVE Rank(S, R, v) < Rank(S, R, w)
  <2> DEFINE V == {z \in S : <<z, v>> \in R}
             W == {z \in S : <<z, w>> \in R}
  <2>1. V \in SUBSET W /\ v \in W /\ v \notin V
    BY <1>2 DEF StrictOrder
  <2>2. IsFiniteSet(W) /\ Rank(S, R, v) = Cardinality(V) /\ Rank(S, R, w) = Cardinality(W)
    BY <1>1 DEF Rank
  <2>3. Cardinality(V) \in Nat /\ Cardinality(W) \in Nat
    BY <1>1, <2>2
  <2> HIDE DEF V, W
  <2>4. Cardinality(V) <= Cardinality(W) /\ Cardinality(V) # Cardinality(W)
    BY <2>1, <2>2, FS_Subset
  <2>5. QED BY <2>2, <2>3, <2>4
<1>3. ASSUME Rank(S, R, x) = Rank(S, R, y), x # y PROVE FALSE
  <2>1. <<x, y>> \in R \/ <<y, x>> \in R
    BY <1>3 DEF StrictOrder
  <2>2. Rank(S, R, x) < Rank(S, R, y) \/ Rank(S, R, y) < Rank(S, R, x)
    BY <1>2, <2>1
  <2>3. Rank(S, R, x) \in Nat /\ Rank(S, R, y) \in Nat
    BY <1>1
  <2>4. QED BY <1>3, <2>2, <2>3
<1>4. QED BY <1>1, <1>2, <1>3

\* The first k elements are k.
LEMMA FirstRanks ==
    ASSUME NEW S, IsFiniteSet(S), NEW R, StrictOrder(S, R)
    PROVE  \A k \in 0..Cardinality(S) : Cardinality({x \in S : Rank(S, R, x) < k}) = k
<1> DEFINE n == Cardinality(S)
           L(k) == {x \in S : Rank(S, R, x) < k}
           P == {k \in 0..n : Cardinality(L(k)) = k}
<1>1. n \in Nat
  BY FS_CardinalityType
<1>2. \A x \in S : Rank(S, R, x) \in Nat
  BY RankGrows
<1>3. 0 \in P
  <2>1. L(0) = {}
    BY <1>2
  <2> HIDE DEF L
  <2>2. QED BY <1>1, <2>1, FS_EmptySet
<1>4. ASSUME NEW k \in 0..n - 1, k \in P PROVE k + 1 \in P
  <2>1. k \in Nat /\ k < n /\ Cardinality(L(k)) = k
    BY <1>1, <1>4
  <2>2. L(k) \in SUBSET S /\ IsFiniteSet(L(k))
    <3>1. L(k) \in SUBSET S
      OBVIOUS
    <3> HIDE DEF L
    <3>2. QED BY <3>1, FS_Subset
  <2>3. S \ L(k) # {}
    <3> HIDE DEF L
    <3>1. L(k) # S
      BY <2>1
    <3>2. QED BY <2>2, <3>1
  <2> DEFINE T == {r \in Nat : \E x \in S \ L(k) : r = Rank(S, R, x)}
  <2>4. T \in SUBSET Nat /\ T # {}
    BY <1>2, <2>3
  <2>5. PICK r \in T : \A q \in T : r <= q
    <3> HIDE DEF T
    <3> QED BY <2>4, LeastNat
  <2>6. PICK e \in S \ L(k) : r = Rank(S, R, e)
    BY <2>5
  <2>7. \A x \in S \ L(k) : Rank(S, R, e) <= Rank(S, R, x)
    <3> TAKE x \in S \ L(k)
    <3>1. Rank(S, R, x) \in T
      BY <1>2
    <3> HIDE DEF T
    <3>2. QED BY <2>5, <2>6, <3>1
  <2>8. {y \in S : <<y, e>> \in R} = L(k)
    <3>1. ASSUME NEW y \in S, <<y, e>> \in R PROVE y \in L(k)
      <4>1. Rank(S, R, y) < Rank(S, R, e) /\ Rank(S, R, y) \in Nat /\ Rank(S, R, e) \in Nat
        BY <3>1, <2>6, RankGrows
      <4>2. y \notin S \ L(k)
        <5> HIDE DEF L
        <5> QED BY <2>7, <4>1
      <4>3. QED BY <4>2
    <3>2. ASSUME NEW y \in L(k) PROVE y \in S /\ <<y, e>> \in R
      <4>1. y \in S /\ e \in S /\ Rank(S, R, y) < k /\ ~(Rank(S, R, e) < k)
        BY <2>6
      <4>2. y # e /\ ~(Rank(S, R, e) < Rank(S, R, y))
        BY <1>2, <2>1, <4>1
      <4>3. <<e, y>> \notin R
        BY <4>1, <4>2, RankGrows
      <4>4. QED BY <4>1, <4>2, <4>3 DEF StrictOrder
    <3>3. QED BY <3>1, <3>2
  <2>9. Rank(S, R, e) = k
    <3> HIDE DEF L
    <3> QED BY <2>1, <2>8 DEF Rank
  <2>10. L(k + 1) = L(k) \cup {e}
    <3>1. ASSUME NEW x \in S PROVE Rank(S, R, x) < k + 1 <=> Rank(S, R, x) < k \/ x = e
      <4>1. Rank(S, R, x) = k <=> x = e
        BY <2>6, <2>9, RankGrows
      <4>2. QED BY <1>2, <2>1, <2>9, <4>1
    <3>2. QED BY <2>6, <3>1
  <2>11. Cardinality(L(k + 1)) = k + 1
    <3>1. e \notin L(k)
      BY <2>6
    <3> HIDE DEF L
    <3>2. QED BY <2>1, <2>2, <2>10, <3>1, FS_AddElement
  <2> HIDE DEF L
  <2>12. QED BY <1>1, <2>11
<1> HIDE DEF P
<1>5. \A k \in 0..n : k \in P
  <2>1. \A k \in 0..n - 1 : k \in P => k + 1 \in P
    BY <1>4
  <2> HIDE DEF n
  <2>2. QED BY <1>1, <1>3, <2>1, BoundedInduction
<1>6. QED BY <1>5 DEF P

\* Every rank below the number of elements is taken.
LEMMA RankTaken ==
    ASSUME NEW S, IsFiniteSet(S), NEW R, StrictOrder(S, R), NEW k \in 0..Cardinality(S) - 1
    PROVE  \E x \in S : Rank(S, R, x) = k
<1> DEFINE L(m) == {x \in S : Rank(S, R, x) < m}
<1>1. Cardinality(S) \in Nat
  BY FS_CardinalityType
<1>2. k \in 0..Cardinality(S) /\ k + 1 \in 0..Cardinality(S)
  BY <1>1
<1>3. Cardinality(L(k)) = k /\ Cardinality(L(k + 1)) = k + 1
  BY <1>2, FirstRanks
<1>4. L(k) # L(k + 1)
  <2> HIDE DEF L
  <2> QED BY <1>2, <1>3
<1>5. \A x \in S : Rank(S, R, x) \in Nat
  BY RankGrows
<1>6. PICK x \in S : Rank(S, R, x) < k + 1 /\ ~(Rank(S, R, x) < k)
  BY <1>2, <1>4, <1>5
<1>7. QED BY <1>2, <1>5, <1>6

\* An element has fewer before it than there are elements.
LEMMA RankBelow ==
    ASSUME NEW S, IsFiniteSet(S), NEW R, StrictOrder(S, R), NEW x \in S
    PROVE  Rank(S, R, x) \in 0..Cardinality(S) - 1
<1> DEFINE V == {y \in S : <<y, x>> \in R}
<1>1. V \in SUBSET S /\ x \notin V
  BY DEF StrictOrder
<1>2. Rank(S, R, x) \in Nat /\ Rank(S, R, x) = Cardinality(V) /\ Cardinality(S) \in Nat
  <2>1. Rank(S, R, x) \in Nat
    BY RankGrows
  <2>2. Rank(S, R, x) = Cardinality(V)
    BY DEF Rank
  <2>3. QED BY <2>1, <2>2, FS_CardinalityType
<1> HIDE DEF V
<1>3. Cardinality(V) <= Cardinality(S) /\ Cardinality(V) # Cardinality(S)
  BY <1>1, FS_Subset
<1>4. QED BY <1>2, <1>3

-----------------------------------------------------------------------------
(* Sums over finite sets *)

\* F gives the sum of w over every subset of S.
Adds(F, S, w) ==
    /\ F \in [SUBSET S -> Nat] /\ F[{}] = 0
    /\ \A s \in SUBSET S : \A x \in s : F[s] = w[x] + F[s \ {x}]

\* c takes an element from every subset.
Takes(c, S) == \A s \in SUBSET S : s # {} => c[s] \in s

\* F holds the values of the recursion of MapThenSumSet, with c[s] taken from s.
SumLoop(F, S, w, c) ==
    \A s \in SUBSET S : F[s] = IF s = {} THEN 0 ELSE w[c[s]] + F[s \ {c[s]}]

\* b is one to one and keeps what is summed.
Keeps(b, S, w, v) == /\ \A x, y \in S : b[x] = b[y] => x = y
                     /\ \A x \in S : w[x] = v[b[x]]

\* What b maps S to.
Image(b, S) == {b[x] : x \in S}

\* What MapThenSumSet needs to be defined: there are such values.
LEMMA SumExists ==
    ASSUME NEW S, IsFiniteSet(S), NEW w \in [S -> Nat], NEW c, Takes(c, S)
    PROVE  \E F \in [SUBSET S -> Nat] : SumLoop(F, S, w, c)
<1> USE DEF Takes, SumLoop
<1> DEFINE Eq(F, s) == F[s] = IF s = {} THEN 0 ELSE w[c[s]] + F[s \ {c[s]}]
           UpTo(F, k) == \A s \in SUBSET S : Cardinality(s) <= k => Eq(F, s)
           P == {k \in Nat : \E F \in [SUBSET S -> Nat] : UpTo(F, k)}
<1>1. \A s \in SUBSET S : /\ IsFiniteSet(s) /\ Cardinality(s) \in Nat
                          /\ Cardinality(s) <= Cardinality(S)
                          /\ Cardinality(s) = 0 <=> s = {}
  <2> TAKE s \in SUBSET S
  <2>1. IsFiniteSet(s) /\ Cardinality(s) <= Cardinality(S)
    BY FS_Subset
  <2>2. QED BY <2>1, FS_CardinalityType, FS_EmptySet
<1>2. \A s \in SUBSET S : s # {} => /\ c[s] \in S /\ s \ {c[s]} \in SUBSET S
                                    /\ Cardinality(s \ {c[s]}) = Cardinality(s) - 1
  <2> TAKE s \in SUBSET S
  <2>1. SUFFICES ASSUME s # {} PROVE /\ c[s] \in S /\ s \ {c[s]} \in SUBSET S
                                     /\ Cardinality(s \ {c[s]}) = Cardinality(s) - 1
    OBVIOUS
  <2>2. c[s] \in s
    BY <2>1
  <2>3. Cardinality(s \ {c[s]}) = Cardinality(s) - 1
    BY <1>1, <2>2, FS_RemoveElement
  <2>4. QED BY <2>2, <2>3
<1>3. 0 \in P
  <2> DEFINE F == [s \in SUBSET S |-> 0]
  <2>1. F \in [SUBSET S -> Nat] /\ UpTo(F, 0)
    BY <1>1
  <2> HIDE DEF UpTo, F
  <2>2. QED BY <2>1
<1>4. ASSUME NEW k \in Nat, k \in P PROVE k + 1 \in P
  <2>1. PICK F \in [SUBSET S -> Nat] : UpTo(F, k)
    <3> HIDE DEF UpTo
    <3> QED BY <1>4
  <2> DEFINE G == [s \in SUBSET S |-> IF Cardinality(s) <= k \/ s = {} THEN F[s] ELSE w[c[s]] + F[s \ {c[s]}]]
  <2>2. G \in [SUBSET S -> Nat]
    <3>1. ASSUME NEW s \in SUBSET S PROVE G[s] \in Nat
      BY <1>2
    <3>2. QED BY <3>1
  <2>3. ASSUME NEW s \in SUBSET S, Cardinality(s) <= k PROVE G[s] = F[s]
    BY <2>3
  <2>4. ASSUME NEW s \in SUBSET S, Cardinality(s) <= k + 1 PROVE Eq(G, s)
    <3>1. CASE s = {}
      <4>1. Cardinality(s) <= k /\ F[s] = 0
        BY <1>1, <2>1, <3>1
      <4>2. QED BY <2>3, <3>1, <4>1
    <3>2. CASE s # {}
      <4>1. /\ c[s] \in S /\ s \ {c[s]} \in SUBSET S /\ Cardinality(s \ {c[s]}) = Cardinality(s) - 1
            /\ Cardinality(s) \in Nat
        BY <1>1, <1>2, <3>2
      <4>2. G[s \ {c[s]}] = F[s \ {c[s]}]
        <5>1. Cardinality(s \ {c[s]}) <= k
          BY <2>4, <4>1
        <5>2. QED BY <2>3, <4>1, <5>1
      <4>3. CASE Cardinality(s) <= k
        <5>1. F[s] = w[c[s]] + F[s \ {c[s]}]
          BY <2>1, <3>2, <4>3
        <5>2. QED BY <2>3, <3>2, <4>2, <4>3, <5>1
      <4>4. CASE ~(Cardinality(s) <= k)
        <5>1. G[s] = w[c[s]] + F[s \ {c[s]}]
          BY <3>2, <4>4
        <5> HIDE DEF G
        <5>2. QED BY <3>2, <4>2, <5>1
      <4>5. QED BY <4>3, <4>4
    <3>3. QED BY <3>1, <3>2
  <2> HIDE DEF G, Eq
  <2>5. UpTo(G, k + 1)
    BY <2>4
  <2> HIDE DEF UpTo
  <2>6. QED BY <2>2, <2>5
<1>5. Cardinality(S) \in P
  <2>1. \A k \in Nat : k \in P => k + 1 \in P
    BY <1>4
  <2>2. Cardinality(S) \in Nat
    BY FS_CardinalityType
  <2> HIDE DEF P
  <2>3. QED BY <1>3, <2>1, <2>2, NatSetInduction
<1>6. PICK F \in [SUBSET S -> Nat] : UpTo(F, Cardinality(S))
  <2> HIDE DEF UpTo
  <2> QED BY <1>5
<1>7. \A s \in SUBSET S : Eq(F, s)
  <2> HIDE DEF Eq
  <2> QED BY <1>1, <1>6
<1>8. QED BY <1>7

\* Which element is taken first makes no difference.
LEMMA SumAdds ==
    ASSUME NEW S, IsFiniteSet(S), NEW w \in [S -> Nat], NEW c, Takes(c, S),
           NEW F \in [SUBSET S -> Nat], SumLoop(F, S, w, c)
    PROVE  Adds(F, S, w)
<1> USE DEF Takes, SumLoop
<1> DEFINE Each(s) == \A x \in s : F[s] = w[x] + F[s \ {x}]
           P == {k \in Nat : \A s \in SUBSET S : Cardinality(s) = k => Each(s)}
<1>1. \A s \in SUBSET S : IsFiniteSet(s) /\ Cardinality(s) \in Nat /\ (Cardinality(s) = 0 <=> s = {})
  <2> TAKE s \in SUBSET S
  <2>1. IsFiniteSet(s)
    BY FS_Subset
  <2>2. QED BY <2>1, FS_CardinalityType, FS_EmptySet
<1>2. 0 \in P
  BY <1>1
<1>3. ASSUME NEW k \in Nat, k \in P PROVE k + 1 \in P
  <2>1. ASSUME NEW s \in SUBSET S, Cardinality(s) = k + 1, NEW x \in s PROVE F[s] = w[x] + F[s \ {x}]
    <3>1. s # {} /\ c[s] \in s
      BY <2>1
    <3>2. PICK e \in s : e = c[s]
      BY <3>1
    <3>3. F[s] = w[e] + F[s \ {e}]
      BY <3>1, <3>2
    <3>4. CASE x = e
      BY <3>3, <3>4
    <3>5. CASE x # e
      <4>1. /\ s \ {e} \in SUBSET S /\ s \ {x} \in SUBSET S /\ (s \ {e}) \ {x} = (s \ {x}) \ {e}
            /\ (s \ {e}) \ {x} \in SUBSET S
        OBVIOUS
      <4>2. Cardinality(s \ {e}) = k /\ Cardinality(s \ {x}) = k
        <5>1. Cardinality(s \ {e}) = Cardinality(s) - 1 /\ Cardinality(s \ {x}) = Cardinality(s) - 1
          BY <1>1, FS_RemoveElement
        <5>2. QED BY <2>1, <5>1
      <4>3. Each(s \ {e}) /\ Each(s \ {x})
        <5> HIDE DEF Each
        <5> QED BY <1>3, <4>1, <4>2
      <4>4. F[s \ {e}] = w[x] + F[(s \ {e}) \ {x}] /\ F[s \ {x}] = w[e] + F[(s \ {x}) \ {e}]
        BY <4>3, <3>5
      <4>5. w[x] \in Nat /\ w[e] \in Nat
        OBVIOUS
      <4>6. PICK q \in Nat : q = F[(s \ {e}) \ {x}]
        BY <4>1
      <4>7. F[s \ {e}] = w[x] + q /\ F[s \ {x}] = w[e] + q
        BY <4>1, <4>4, <4>6
      <4>8. w[e] + (w[x] + q) = w[x] + (w[e] + q)
        BY <4>5
      <4>9. QED BY <3>3, <4>7, <4>8
    <3>6. QED BY <3>4, <3>5
  <2>2. QED BY <2>1
<1>4. \A k \in Nat : k \in P
  <2>1. \A k \in Nat : k \in P => k + 1 \in P
    BY <1>3
  <2> HIDE DEF P
  <2>2. QED BY <1>2, <2>1, NatSetInduction
<1>5. \A s \in SUBSET S : Each(s)
  <2> HIDE DEF Each
  <2> QED BY <1>1, <1>4
<1>6. F[{}] = 0
  OBVIOUS
<1>7. QED BY <1>5, <1>6 DEF Adds

\* The sum over a set is the sum over its image, when the map is one to one and
\* keeps what is summed.
LEMMA SumMaps ==
    ASSUME NEW S, IsFiniteSet(S), NEW w \in [S -> Nat], NEW F, Adds(F, S, w),
           NEW T, NEW v \in [T -> Nat], NEW G, Adds(G, T, v),
           NEW b \in [S -> T], Keeps(b, S, w, v)
    PROVE  F[S] = G[Image(b, S)]
<1> USE DEF Keeps, Image
<1> DEFINE I(s) == {b[x] : x \in s}
           P == {k \in Nat : \A s \in SUBSET S : Cardinality(s) = k => F[s] = G[I(s)]}
<1>1. \A s \in SUBSET S : IsFiniteSet(s) /\ Cardinality(s) \in Nat /\ (Cardinality(s) = 0 <=> s = {})
  <2> TAKE s \in SUBSET S
  <2>1. IsFiniteSet(s)
    BY FS_Subset
  <2>2. QED BY <2>1, FS_CardinalityType, FS_EmptySet
<1>2. 0 \in P
  <2>1. I({}) = {}
    OBVIOUS
  <2>2. F[{}] = 0 /\ G[{}] = 0
    BY DEF Adds
  <2> HIDE DEF I
  <2>3. QED BY <1>1, <2>1, <2>2
<1>3. ASSUME NEW k \in Nat, k \in P PROVE k + 1 \in P
  <2>1. ASSUME NEW s \in SUBSET S, Cardinality(s) = k + 1 PROVE F[s] = G[I(s)]
    <3>1. s # {}
      BY <1>1, <2>1
    <3>2. PICK x \in s : TRUE
      BY <3>1
    <3>3. s \ {x} \in SUBSET S /\ Cardinality(s \ {x}) = k
      <4>1. Cardinality(s \ {x}) = Cardinality(s) - 1
        BY <1>1, FS_RemoveElement
      <4>2. QED BY <2>1, <4>1
    <3>4. I(s) \in SUBSET T /\ b[x] \in I(s) /\ I(s) \ {b[x]} = I(s \ {x})
      OBVIOUS
    <3> HIDE DEF I
    <3>5. F[s \ {x}] = G[I(s \ {x})]
      BY <1>3, <3>3
    <3>6. F[s] = w[x] + F[s \ {x}] /\ G[I(s)] = v[b[x]] + G[I(s) \ {b[x]}]
      BY <3>4 DEF Adds
    <3>7. QED BY <3>4, <3>5, <3>6
  <2> HIDE DEF I
  <2>2. QED BY <2>1
<1>4. \A k \in Nat : k \in P
  <2>1. \A k \in Nat : k \in P => k + 1 \in P
    BY <1>3
  <2> HIDE DEF P
  <2>2. QED BY <1>2, <2>1, NatSetInduction
<1>5. F[S] = G[I(S)]
  <2> HIDE DEF I
  <2>1. S \in SUBSET S
    OBVIOUS
  <2>2. QED BY <1>1, <1>4, <2>1
<1>6. QED BY <1>5

\* CpusOf is the sum of the CPUs.
LEMMA CpusOfSum ==
    ASSUME NEW S, IsFiniteSet(S), \A x \in S : x.cpus \in Nat
    PROVE  \E F : Adds(F, S, [x \in S |-> x.cpus]) /\ CpusOf(S) = F[S]
<1> DEFINE w == [x \in S |-> x.cpus]
           c == [s \in SUBSET S |-> CHOOSE x \in s : TRUE]
           Fold(g) == [s \in SUBSET S |-> IF s = {} THEN 0
                                         ELSE (CHOOSE x \in s : TRUE).cpus + g[s \ {CHOOSE x \in s : TRUE}]]
           iter == CHOOSE g : g = Fold(g)
<1>1. CpusOf(S) = iter[S]
  BY Zenon DEF CpusOf, MapThenSumSet, MapThenFoldSet
<1>2. \A s \in SUBSET S : s # {} => /\ (CHOOSE x \in s : TRUE) \in s
                                    /\ c[s] = CHOOSE x \in s : TRUE
                                    /\ w[c[s]] = (CHOOSE x \in s : TRUE).cpus
  <2>1. \A s \in SUBSET S : s # {} => (CHOOSE x \in s : TRUE) \in s
    BY Zenon
  <2>2. \A s \in SUBSET S : c[s] = CHOOSE x \in s : TRUE
    OBVIOUS
  <2> HIDE DEF c
  <2>3. QED BY <2>1, <2>2
<1>3. w \in [S -> Nat] /\ \A s \in SUBSET S : s # {} => c[s] \in s
  <2>1. w \in [S -> Nat]
    OBVIOUS
  <2> HIDE DEF w, c
  <2>2. QED BY <1>2, <2>1
<1> HIDE DEF w, c
<1>4. PICK F \in [SUBSET S -> Nat] : SumLoop(F, S, w, c)
  <2>1. w \in [S -> Nat] /\ Takes(c, S)
    BY <1>3 DEF Takes
  <2>2. QED BY <2>1, SumExists
<1>5. F = Fold(F)
  <2>1. ASSUME NEW s \in SUBSET S
        PROVE  F[s] = IF s = {} THEN 0 ELSE (CHOOSE x \in s : TRUE).cpus + F[s \ {CHOOSE x \in s : TRUE}]
    BY <1>2, <1>4 DEF SumLoop
  <2>2. QED BY <2>1
<1>6. iter = Fold(iter)
  <2> HIDE DEF Fold
  <2> QED BY <1>5, Zenon
<1> HIDE DEF iter
<1>7. \A s \in SUBSET S : iter[s] = IF s = {} THEN 0 ELSE w[c[s]] + iter[s \ {c[s]}]
  <2>1. \A s \in SUBSET S : iter[s] = IF s = {} THEN 0
             ELSE (CHOOSE x \in s : TRUE).cpus + iter[s \ {CHOOSE x \in s : TRUE}]
    BY <1>6
  <2>2. QED BY <1>2, <2>1
<1>8. iter \in [SUBSET S -> Nat]
  <2> DEFINE P == {k \in Nat : \A s \in SUBSET S : Cardinality(s) = k => iter[s] \in Nat}
  <2>1. \A s \in SUBSET S : IsFiniteSet(s) /\ Cardinality(s) \in Nat /\ (Cardinality(s) = 0 <=> s = {})
    <3> TAKE s \in SUBSET S
    <3>1. IsFiniteSet(s)
      BY FS_Subset
    <3>2. QED BY <3>1, FS_CardinalityType, FS_EmptySet
  <2>2. 0 \in P
    BY <1>7, <2>1
  <2>3. ASSUME NEW k \in Nat, k \in P PROVE k + 1 \in P
    <3>1. ASSUME NEW s \in SUBSET S, Cardinality(s) = k + 1 PROVE iter[s] \in Nat
      <4>1. s # {} /\ c[s] \in s /\ s \ {c[s]} \in SUBSET S
        BY <1>3, <2>1, <3>1
      <4>2. Cardinality(s \ {c[s]}) = Cardinality(s) - 1
        BY <2>1, <4>1, FS_RemoveElement
      <4>3. iter[s \ {c[s]}] \in Nat
        BY <2>3, <3>1, <4>1, <4>2
      <4>4. w[c[s]] \in Nat
        BY <1>3, <4>1
      <4>5. iter[s] = w[c[s]] + iter[s \ {c[s]}]
        BY <1>7, <4>1
      <4>6. QED BY <4>3, <4>4, <4>5
    <3>2. QED BY <3>1
  <2>4. \A k \in Nat : k \in P
    <3>1. \A k \in Nat : k \in P => k + 1 \in P
      BY <2>3
    <3> HIDE DEF P
    <3>2. QED BY <2>2, <3>1, NatSetInduction
  <2>5. \A s \in SUBSET S : iter[s] \in Nat
    BY <2>1, <2>4
  <2>6. iter = [s \in SUBSET S |-> iter[s]]
    BY <1>6
  <2>7. QED BY <2>5, <2>6
<1>9. Adds(iter, S, w)
  <2>1. w \in [S -> Nat] /\ Takes(c, S) /\ SumLoop(iter, S, w, c)
    BY <1>3, <1>7 DEF Takes, SumLoop
  <2>2. QED BY <1>8, <2>1, SumAdds
<1>10. QED BY <1>1, <1>9 DEF w

\* A job more, and the same jobs under other names.
LEMMA CpusOfFacts ==
    ASSUME NEW S, IsFiniteSet(S), \A x \in S : x.cpus \in Nat
    PROVE  /\ CpusOf(S) \in Nat
           /\ S = {} => CpusOf(S) = 0
           /\ \A x \in S : CpusOf(S) = x.cpus + CpusOf(S \ {x})
           /\ \A T : \A b \in [S -> T] :
                /\ \A x, y \in S : b[x] = b[y] => x = y
                /\ \A x \in S : b[x].cpus = x.cpus
                /\ \A y \in T : \E x \in S : b[x] = y
                => CpusOf(T) = CpusOf(S)
<1> DEFINE w(T) == [x \in T |-> x.cpus]
<1>1. PICK F : Adds(F, S, w(S)) /\ CpusOf(S) = F[S]
  BY CpusOfSum
<1>2. CpusOf(S) \in Nat /\ (S = {} => CpusOf(S) = 0)
  <2> HIDE DEF w
  <2> QED BY <1>1 DEF Adds
<1>3. w(S) \in [S -> Nat]
  OBVIOUS
<1>4. ASSUME NEW x \in S PROVE CpusOf(S) = x.cpus + CpusOf(S \ {x})
  <2> DEFINE T == S \ {x}
             b == [y \in T |-> y]
  <2>1. IsFiniteSet(T) /\ T \in SUBSET S /\ \A y \in T : y.cpus \in Nat
    BY FS_RemoveElement
  <2>2. PICK G : Adds(G, T, w(T)) /\ CpusOf(T) = G[T]
    <3> HIDE DEF T
    <3> QED BY <2>1, CpusOfSum
  <2>3. /\ w(T) \in [T -> Nat] /\ b \in [T -> S] /\ Image(b, T) = T
        /\ \A y, z \in T : b[y] = b[z] => y = z
        /\ \A y \in T : w(T)[y] = w(S)[b[y]]
    BY <2>1 DEF Image
  <2>4. F[S] = w(S)[x] + F[S \ {x}] /\ w(S)[x] = x.cpus
    <3>1. w(S)[x] = x.cpus /\ S \in SUBSET S
      OBVIOUS
    <3> HIDE DEF w
    <3>2. QED BY <1>1, <3>1 DEF Adds
  <2> HIDE DEF T, b, w
  <2>5. G[T] = F[Image(b, T)]
    <3>1. w(T) \in [T -> Nat] /\ b \in [T -> S] /\ Keeps(b, T, w(T), w(S))
      BY <2>3 DEF Keeps
    <3>2. IsFiniteSet(T) /\ Adds(F, S, w(S)) /\ Adds(G, T, w(T)) /\ w(S) \in [S -> Nat]
      BY <1>1, <1>3, <2>1, <2>2
    <3>3. QED BY <3>1, <3>2, SumMaps
  <2>6. G[T] = F[T]
    BY <2>3, <2>5
  <2>7. QED BY <1>1, <2>2, <2>4, <2>6 DEF T
<1>5. ASSUME NEW T, NEW b \in [S -> T], \A x, y \in S : b[x] = b[y] => x = y,
             \A x \in S : b[x].cpus = x.cpus, \A y \in T : \E x \in S : b[x] = y
      PROVE  CpusOf(T) = CpusOf(S)
  <2>1. IsFiniteSet(T)
    <3>1. b \in Surjection(S, T)
      BY <1>5, Zenon DEF Surjection
    <3>2. QED BY <3>1, FS_Surjection
  <2>2. \A y \in T : y.cpus \in Nat
    BY <1>5
  <2>3. PICK G : Adds(G, T, w(T)) /\ CpusOf(T) = G[T]
    BY <2>1, <2>2, CpusOfSum
  <2>4. w(T) \in [T -> Nat] /\ Image(b, S) = T /\ \A x \in S : w(S)[x] = w(T)[b[x]]
    BY <2>2, <1>5 DEF Image
  <2> HIDE DEF w
  <2>5. F[S] = G[Image(b, S)]
    <3>1. w(T) \in [T -> Nat]
      BY <2>4
    <3>2. IsFiniteSet(S) /\ Adds(F, S, w(S)) /\ Adds(G, T, w(T)) /\ w(S) \in [S -> Nat]
      BY <1>1, <1>3, <2>3
    <3>3. b \in [S -> T] /\ Keeps(b, S, w(S), w(T))
      BY <1>5, <2>4 DEF Keeps
    <3>4. QED BY <3>1, <3>2, <3>3, SumMaps
  <2>6. QED BY <1>1, <2>3, <2>4, <2>5
<1>6. QED BY <1>2, <1>4, <1>5

\* MemOf is the sum of the memory.
LEMMA MemOfSum ==
    ASSUME NEW S, IsFiniteSet(S), \A x \in S : x.mem \in Nat
    PROVE  \E F : Adds(F, S, [x \in S |-> x.mem]) /\ MemOf(S) = F[S]
<1> DEFINE w == [x \in S |-> x.mem]
           c == [s \in SUBSET S |-> CHOOSE x \in s : TRUE]
           Fold(g) == [s \in SUBSET S |-> IF s = {} THEN 0
                                         ELSE (CHOOSE x \in s : TRUE).mem + g[s \ {CHOOSE x \in s : TRUE}]]
           iter == CHOOSE g : g = Fold(g)
<1>1. MemOf(S) = iter[S]
  BY Zenon DEF MemOf, MapThenSumSet, MapThenFoldSet
<1>2. \A s \in SUBSET S : s # {} => /\ (CHOOSE x \in s : TRUE) \in s
                                    /\ c[s] = CHOOSE x \in s : TRUE
                                    /\ w[c[s]] = (CHOOSE x \in s : TRUE).mem
  <2>1. \A s \in SUBSET S : s # {} => (CHOOSE x \in s : TRUE) \in s
    BY Zenon
  <2>2. \A s \in SUBSET S : c[s] = CHOOSE x \in s : TRUE
    OBVIOUS
  <2> HIDE DEF c
  <2>3. QED BY <2>1, <2>2
<1>3. w \in [S -> Nat] /\ \A s \in SUBSET S : s # {} => c[s] \in s
  <2>1. w \in [S -> Nat]
    OBVIOUS
  <2> HIDE DEF w, c
  <2>2. QED BY <1>2, <2>1
<1> HIDE DEF w, c
<1>4. PICK F \in [SUBSET S -> Nat] : SumLoop(F, S, w, c)
  <2>1. w \in [S -> Nat] /\ Takes(c, S)
    BY <1>3 DEF Takes
  <2>2. QED BY <2>1, SumExists
<1>5. F = Fold(F)
  <2>1. ASSUME NEW s \in SUBSET S
        PROVE  F[s] = IF s = {} THEN 0 ELSE (CHOOSE x \in s : TRUE).mem + F[s \ {CHOOSE x \in s : TRUE}]
    BY <1>2, <1>4 DEF SumLoop
  <2>2. QED BY <2>1
<1>6. iter = Fold(iter)
  <2> HIDE DEF Fold
  <2> QED BY <1>5, Zenon
<1> HIDE DEF iter
<1>7. \A s \in SUBSET S : iter[s] = IF s = {} THEN 0 ELSE w[c[s]] + iter[s \ {c[s]}]
  <2>1. \A s \in SUBSET S : iter[s] = IF s = {} THEN 0
             ELSE (CHOOSE x \in s : TRUE).mem + iter[s \ {CHOOSE x \in s : TRUE}]
    BY <1>6
  <2>2. QED BY <1>2, <2>1
<1>8. iter \in [SUBSET S -> Nat]
  <2> DEFINE P == {k \in Nat : \A s \in SUBSET S : Cardinality(s) = k => iter[s] \in Nat}
  <2>1. \A s \in SUBSET S : IsFiniteSet(s) /\ Cardinality(s) \in Nat /\ (Cardinality(s) = 0 <=> s = {})
    <3> TAKE s \in SUBSET S
    <3>1. IsFiniteSet(s)
      BY FS_Subset
    <3>2. QED BY <3>1, FS_CardinalityType, FS_EmptySet
  <2>2. 0 \in P
    BY <1>7, <2>1
  <2>3. ASSUME NEW k \in Nat, k \in P PROVE k + 1 \in P
    <3>1. ASSUME NEW s \in SUBSET S, Cardinality(s) = k + 1 PROVE iter[s] \in Nat
      <4>1. s # {} /\ c[s] \in s /\ s \ {c[s]} \in SUBSET S
        BY <1>3, <2>1, <3>1
      <4>2. Cardinality(s \ {c[s]}) = Cardinality(s) - 1
        BY <2>1, <4>1, FS_RemoveElement
      <4>3. iter[s \ {c[s]}] \in Nat
        BY <2>3, <3>1, <4>1, <4>2
      <4>4. w[c[s]] \in Nat
        BY <1>3, <4>1
      <4>5. iter[s] = w[c[s]] + iter[s \ {c[s]}]
        BY <1>7, <4>1
      <4>6. QED BY <4>3, <4>4, <4>5
    <3>2. QED BY <3>1
  <2>4. \A k \in Nat : k \in P
    <3>1. \A k \in Nat : k \in P => k + 1 \in P
      BY <2>3
    <3> HIDE DEF P
    <3>2. QED BY <2>2, <3>1, NatSetInduction
  <2>5. \A s \in SUBSET S : iter[s] \in Nat
    BY <2>1, <2>4
  <2>6. iter = [s \in SUBSET S |-> iter[s]]
    BY <1>6
  <2>7. QED BY <2>5, <2>6
<1>9. Adds(iter, S, w)
  <2>1. w \in [S -> Nat] /\ Takes(c, S) /\ SumLoop(iter, S, w, c)
    BY <1>3, <1>7 DEF Takes, SumLoop
  <2>2. QED BY <1>8, <2>1, SumAdds
<1>10. QED BY <1>1, <1>9 DEF w

\* A job more, and the same jobs under other names.
LEMMA MemOfFacts ==
    ASSUME NEW S, IsFiniteSet(S), \A x \in S : x.mem \in Nat
    PROVE  /\ MemOf(S) \in Nat
           /\ S = {} => MemOf(S) = 0
           /\ \A x \in S : MemOf(S) = x.mem + MemOf(S \ {x})
           /\ \A T : \A b \in [S -> T] :
                /\ \A x, y \in S : b[x] = b[y] => x = y
                /\ \A x \in S : b[x].mem = x.mem
                /\ \A y \in T : \E x \in S : b[x] = y
                => MemOf(T) = MemOf(S)
<1> DEFINE w(T) == [x \in T |-> x.mem]
<1>1. PICK F : Adds(F, S, w(S)) /\ MemOf(S) = F[S]
  BY MemOfSum
<1>2. MemOf(S) \in Nat /\ (S = {} => MemOf(S) = 0)
  <2> HIDE DEF w
  <2> QED BY <1>1 DEF Adds
<1>3. w(S) \in [S -> Nat]
  OBVIOUS
<1>4. ASSUME NEW x \in S PROVE MemOf(S) = x.mem + MemOf(S \ {x})
  <2> DEFINE T == S \ {x}
             b == [y \in T |-> y]
  <2>1. IsFiniteSet(T) /\ T \in SUBSET S /\ \A y \in T : y.mem \in Nat
    BY FS_RemoveElement
  <2>2. PICK G : Adds(G, T, w(T)) /\ MemOf(T) = G[T]
    <3> HIDE DEF T
    <3> QED BY <2>1, MemOfSum
  <2>3. /\ w(T) \in [T -> Nat] /\ b \in [T -> S] /\ Image(b, T) = T
        /\ \A y, z \in T : b[y] = b[z] => y = z
        /\ \A y \in T : w(T)[y] = w(S)[b[y]]
    BY <2>1 DEF Image
  <2>4. F[S] = w(S)[x] + F[S \ {x}] /\ w(S)[x] = x.mem
    <3>1. w(S)[x] = x.mem /\ S \in SUBSET S
      OBVIOUS
    <3> HIDE DEF w
    <3>2. QED BY <1>1, <3>1 DEF Adds
  <2> HIDE DEF T, b, w
  <2>5. G[T] = F[Image(b, T)]
    <3>1. w(T) \in [T -> Nat] /\ b \in [T -> S] /\ Keeps(b, T, w(T), w(S))
      BY <2>3 DEF Keeps
    <3>2. IsFiniteSet(T) /\ Adds(F, S, w(S)) /\ Adds(G, T, w(T)) /\ w(S) \in [S -> Nat]
      BY <1>1, <1>3, <2>1, <2>2
    <3>3. QED BY <3>1, <3>2, SumMaps
  <2>6. G[T] = F[T]
    BY <2>3, <2>5
  <2>7. QED BY <1>1, <2>2, <2>4, <2>6 DEF T
<1>5. ASSUME NEW T, NEW b \in [S -> T], \A x, y \in S : b[x] = b[y] => x = y,
             \A x \in S : b[x].mem = x.mem, \A y \in T : \E x \in S : b[x] = y
      PROVE  MemOf(T) = MemOf(S)
  <2>1. IsFiniteSet(T)
    <3>1. b \in Surjection(S, T)
      BY <1>5, Zenon DEF Surjection
    <3>2. QED BY <3>1, FS_Surjection
  <2>2. \A y \in T : y.mem \in Nat
    BY <1>5
  <2>3. PICK G : Adds(G, T, w(T)) /\ MemOf(T) = G[T]
    BY <2>1, <2>2, MemOfSum
  <2>4. w(T) \in [T -> Nat] /\ Image(b, S) = T /\ \A x \in S : w(S)[x] = w(T)[b[x]]
    BY <2>2, <1>5 DEF Image
  <2> HIDE DEF w
  <2>5. F[S] = G[Image(b, S)]
    <3>1. w(T) \in [T -> Nat]
      BY <2>4
    <3>2. IsFiniteSet(S) /\ Adds(F, S, w(S)) /\ Adds(G, T, w(T)) /\ w(S) \in [S -> Nat]
      BY <1>1, <1>3, <2>3
    <3>3. b \in [S -> T] /\ Keeps(b, S, w(S), w(T))
      BY <1>5, <2>4 DEF Keeps
    <3>4. QED BY <3>1, <3>2, <3>3, SumMaps
  <2>6. QED BY <1>1, <2>3, <2>4, <2>5
<1>6. QED BY <1>2, <1>4, <1>5

-----------------------------------------------------------------------------
(* What Plan is given *)

\* The rows that Plan reads, and what it may expect of them.
Devices  == [key : Nat, name : SUBSET STRING]
NodeRecs == [id : Nat, up : BOOLEAN, partition : STRING, cpus : Nat, mem : Nat,
             devices : SUBSET Devices]
JobRecs  == [id : Nat, priority : Int, partition : STRING, cpus : Nat, mem : Nat, gpus : Nat,
             gpuType : STRING, walltime : Nat, submit : Nat, assigned : Nat,
             start : Nat \cup {NotStarted}, node : Nat, devs : SUBSET Nat]

IdsDiffer(S) == \A x, y \in S : x.id = y.id => x = y

DevicesDiffer(devices) == IsFiniteSet(devices) /\ \A d, e \in devices : d.key = e.key => d = e

NodesOK(nodes) == /\ IsFiniteSet(nodes) /\ nodes \in SUBSET NodeRecs /\ IdsDiffer(nodes)
                  /\ \A n \in nodes : DevicesDiffer(n.devices)

JobsOK(jobs, t) == /\ IsFiniteSet(jobs) /\ jobs \in SUBSET JobRecs /\ IdsDiffer(jobs)
                   /\ \A j \in jobs : j.submit <= t

PolicyOK(pol) == pol \in [backfill : BOOLEAN, ageWeight : Nat]

\* Age is never negative: the priority that Plan sorts by.
LEMMA PriorityFacts ==
    ASSUME NEW t \in Nat, NEW w \in Nat, NEW j \in JobRecs, j.submit <= t
    PROVE  /\ effPriority(j, t, w) = j.priority + w * (t - j.submit)
           /\ effPriority(j, t, w) \in Int
<1>1. j.submit \in Nat /\ j.priority \in Int
  BY DEF JobRecs
<1>2. Max({0, t - j.submit}) = t - j.submit
  <2>1. PICK a \in Nat : a = t - j.submit
    BY <1>1
  <2>2. a \in {0, a} /\ \A y \in {0, a} : a >= y
    OBVIOUS
  <2>3. \A x \in {0, a} : (\A y \in {0, a} : x >= y) => x = a
    OBVIOUS
  <2>4. Max({0, a}) = a
    BY <2>2, <2>3 DEF Max
  <2>5. QED BY <2>1, <2>4
<1>3. effPriority(j, t, w) = j.priority + w * (t - j.submit)
  BY <1>2 DEF effPriority
<1>4. w * (t - j.submit) \in Int
  <2>1. t - j.submit \in Int
    BY <1>1
  <2>2. QED BY <2>1
<1>5. QED BY <1>1, <1>3, <1>4

\* Priority with age, then arrival, then the number is a strict order.
LEMMA BeforeIsOrder ==
    ASSUME NEW t \in Nat, NEW w \in Nat, NEW jobs, JobsOK(jobs, t)
    PROVE  StrictOrder(jobs, {p \in jobs \X jobs : Before(p[1], p[2], t, w)})
<1> DEFINE E(j) == effPriority(j, t, w)
<1>1. \A j \in jobs : E(j) \in Int /\ j.submit \in Nat /\ j.id \in Nat
  <2> TAKE j \in jobs
  <2>1. j \in JobRecs /\ j.submit <= t
    BY DEF JobsOK
  <2>2. E(j) \in Int
    BY <2>1, PriorityFacts
  <2>3. QED BY <2>1, <2>2 DEF JobRecs
<1>2. \A x, y \in jobs : x.id = y.id => x = y
  BY DEF JobsOK, IdsDiffer
<1>3. \A x, y \in jobs : <<x, y>> \in {p \in jobs \X jobs : Before(p[1], p[2], t, w)} <=>
         E(x) > E(y) \/ (E(x) = E(y) /\ (x.submit < y.submit \/ (x.submit = y.submit /\ x.id < y.id)))
  BY DEF Before
<1> HIDE DEF E
<1>4. QED BY <1>1, <1>2, <1>3 DEF StrictOrder

\* The sorted jobs: every job once, and a job comes before another in the list
\* exactly when it comes before it.
LEMMA OrderFacts ==
    ASSUME NEW t \in Nat, NEW w \in Nat, NEW jobs, JobsOK(jobs, t)
    PROVE  /\ Cardinality(jobs) \in Nat
           /\ InOrder(jobs, t, w) \in [1..Cardinality(jobs) -> jobs]
           /\ \A j \in jobs : \E i \in 1..Cardinality(jobs) : InOrder(jobs, t, w)[i] = j
           /\ \A i, k \in 1..Cardinality(jobs) :
                i < k <=> Before(InOrder(jobs, t, w)[i], InOrder(jobs, t, w)[k], t, w)
<1> DEFINE n == Cardinality(jobs)
           o == InOrder(jobs, t, w)
           R == {p \in jobs \X jobs : Before(p[1], p[2], t, w)}
<1>1. IsFiniteSet(jobs) /\ n \in Nat
  BY FS_CardinalityType DEF JobsOK
<1>2. StrictOrder(jobs, R)
  BY BeforeIsOrder
<1>3. \A j \in jobs : Cardinality({k \in jobs : Before(k, j, t, w)}) = Rank(jobs, R, j)
  <2> TAKE j \in jobs
  <2>1. {k \in jobs : Before(k, j, t, w)} = {y \in jobs : <<y, j>> \in R}
    OBVIOUS
  <2>2. QED BY <2>1 DEF Rank
<1>4. \A x, y \in jobs : Before(x, y, t, w) <=> <<x, y>> \in R
  OBVIOUS
<1> HIDE DEF R
<1>5. \A i \in 1..n : o[i] \in jobs /\ Rank(jobs, R, o[i]) = i - 1
  <2> TAKE i \in 1..n
  <2>1. o[i] = CHOOSE j \in jobs : Cardinality({k \in jobs : Before(k, j, t, w)}) = i - 1
    BY DEF InOrder
  <2>2. i - 1 \in 0..Cardinality(jobs) - 1
    BY <1>1
  <2>3. \E j \in jobs : Rank(jobs, R, j) = i - 1
    BY <1>1, <1>2, <2>2, RankTaken
  <2>4. \E j \in jobs : Cardinality({k \in jobs : Before(k, j, t, w)}) = i - 1
    BY <1>3, <2>3
  <2> HIDE DEF o
  <2>5. o[i] \in jobs /\ Cardinality({k \in jobs : Before(k, o[i], t, w)}) = i - 1
    BY <2>1, <2>4, Zenon
  <2>6. QED BY <2>5, <1>3
<1>6. o = [i \in 1..n |-> o[i]]
  <2> DEFINE G(i) == CHOOSE j \in jobs : Cardinality({k \in jobs : Before(k, j, t, w)}) = i - 1
  <2>1. o = [i \in 1..n |-> G(i)]
    BY DEF InOrder
  <2> HIDE DEF G, o
  <2>2. QED BY <2>1
<1> HIDE DEF o
<1>7. o \in [1..n -> jobs]
  BY <1>5, <1>6
<1>8. \A j \in jobs : \E i \in 1..n : o[i] = j
  <2> TAKE j \in jobs
  <2>1. Rank(jobs, R, j) \in 0..n - 1
    BY <1>1, <1>2, RankBelow
  <2>2. PICK i \in 1..n : Rank(jobs, R, j) = i - 1
    <3>1. Rank(jobs, R, j) + 1 \in 1..n
      BY <1>1, <2>1
    <3>2. Rank(jobs, R, j) = (Rank(jobs, R, j) + 1) - 1
      BY <2>1
    <3>3. QED BY <3>1, <3>2
  <2>3. o[i] \in jobs /\ Rank(jobs, R, o[i]) = Rank(jobs, R, j)
    BY <2>2, <1>5
  <2>4. o[i] = j
    BY <1>1, <1>2, <2>3, RankGrows
  <2>5. QED BY <2>4
<1>9. \A i, k \in 1..n : i < k <=> Before(o[i], o[k], t, w)
  <2> TAKE i, k \in 1..n
  <2>1. /\ o[i] \in jobs /\ o[k] \in jobs
        /\ Rank(jobs, R, o[i]) = i - 1 /\ Rank(jobs, R, o[k]) = k - 1
    BY <1>5
  <2>2. <<o[i], o[k]>> \in R => Rank(jobs, R, o[i]) < Rank(jobs, R, o[k])
    BY <1>1, <1>2, <2>1, RankGrows
  <2>3. <<o[k], o[i]>> \in R => Rank(jobs, R, o[k]) < Rank(jobs, R, o[i])
    BY <1>1, <1>2, <2>1, RankGrows
  <2>4. o[i] # o[k] => <<o[i], o[k]>> \in R \/ <<o[k], o[i]>> \in R
    BY <1>2, <2>1 DEF StrictOrder
  <2>5. i < k => <<o[i], o[k]>> \in R
    BY <1>1, <2>1, <2>3, <2>4
  <2>6. <<o[i], o[k]>> \in R => i < k
    BY <1>1, <2>1, <2>2
  <2>7. QED BY <1>4, <2>1, <2>5, <2>6
<1>10. QED BY <1>1, <1>7, <1>8, <1>9 DEF o

-----------------------------------------------------------------------------
(* The devices and the node of a job *)

\* The keys of the devices that a job with this gpu_type accepts.
KeysFor(devices, gpuType) == {d.key : d \in Matching(devices, gpuType)}

\* A node has as many keys as devices.
LEMMA KeysCount ==
    ASSUME NEW devices \in SUBSET Devices, DevicesDiffer(devices), NEW gpuType
    PROVE  /\ IsFiniteSet(KeysFor(devices, gpuType)) /\ KeysFor(devices, gpuType) \in SUBSET Nat
           /\ Cardinality(KeysFor(devices, gpuType)) = Cardinality(Matching(devices, gpuType))
<1> DEFINE M == Matching(devices, gpuType)
           f == [d \in M |-> d.key]
<1>1. M \in SUBSET devices /\ IsFiniteSet(M)
  <2>1. M \in SUBSET devices /\ IsFiniteSet(devices)
    BY DEF Matching, DevicesDiffer
  <2>2. QED BY <2>1, FS_Subset
<1>2. \A d, e \in M : d.key = e.key => d = e
  BY <1>1 DEF DevicesDiffer
<1>3. KeysFor(devices, gpuType) = {d.key : d \in M}
  BY DEF KeysFor
<1> HIDE DEF M
<1>4. f \in Bijection(M, {d.key : d \in M})
  <2>1. f \in [M -> {d.key : d \in M}]
    OBVIOUS
  <2>2. \A d, e \in M : f[d] = f[e] => d = e
    BY <1>2
  <2>3. \A k \in {d.key : d \in M} : \E d \in M : f[d] = k
    OBVIOUS
  <2> HIDE DEF f
  <2>4. f \in Injection(M, {d.key : d \in M})
    BY <2>1, <2>2, Zenon DEF Injection, IsInjective
  <2>5. f \in Surjection(M, {d.key : d \in M})
    BY <2>1, <2>3, Zenon DEF Surjection
  <2>6. QED BY <2>4, <2>5 DEF Bijection
<1>5. \E g : g \in Bijection(M, {d.key : d \in M})
  BY <1>4
<1>6. IsFiniteSet({d.key : d \in M}) /\ Cardinality({d.key : d \in M}) = Cardinality(M)
  <2>1. ExistsBijection(M, {d.key : d \in M})
    BY <1>5 DEF ExistsBijection
  <2>2. QED BY <1>1, <2>1, FS_Bijection
<1>7. {d.key : d \in M} \in SUBSET Nat
  BY <1>1 DEF Devices
<1>8. QED BY <1>3, <1>6, <1>7 DEF M

\* pickDevices gives as many devices as asked for, all of the wanted type.
LEMMA PickFacts ==
    ASSUME NEW devices \in SUBSET Devices, DevicesDiffer(devices), NEW gpuType,
           NEW m \in Nat, Cardinality(Matching(devices, gpuType)) >= m
    PROVE  /\ pickDevices(devices, m, gpuType) \in SUBSET KeysFor(devices, gpuType)
           /\ pickDevices(devices, m, gpuType) \in SUBSET Nat
           /\ Cardinality(pickDevices(devices, m, gpuType)) = m
<1> DEFINE K == KeysFor(devices, gpuType)
           R == {p \in K \X K : p[1] < p[2]}
<1>1. IsFiniteSet(K) /\ K \in SUBSET Nat /\ Cardinality(K) >= m /\ Cardinality(K) \in Nat
  <2>1. IsFiniteSet(K) /\ K \in SUBSET Nat /\ Cardinality(K) >= m
    BY KeysCount
  <2> HIDE DEF K
  <2>2. QED BY <2>1, FS_CardinalityType
<1>2. pickDevices(devices, m, gpuType) = {k \in K : Cardinality({l \in K : l < k}) < m}
  BY DEF pickDevices, KeysFor
<1> HIDE DEF K
<1>3. StrictOrder(K, R)
  <2>1. \A x, y \in K : <<x, y>> \in R <=> x < y
    OBVIOUS
  <2> HIDE DEF R
  <2>2. QED BY <1>1, <2>1 DEF StrictOrder
<1>4. \A k \in K : Cardinality({l \in K : l < k}) = Rank(K, R, k)
  <2> TAKE k \in K
  <2>1. {l \in K : l < k} = {y \in K : <<y, k>> \in R}
    OBVIOUS
  <2>2. QED BY <2>1 DEF Rank
<1> HIDE DEF R
<1>5. pickDevices(devices, m, gpuType) = {k \in K : Rank(K, R, k) < m}
  BY <1>2, <1>4
<1>6. m \in 0..Cardinality(K)
  BY <1>1
<1>7. Cardinality({k \in K : Rank(K, R, k) < m}) = m
  BY <1>1, <1>3, <1>6, FirstRanks
<1>8. QED BY <1>1, <1>5, <1>7 DEF K

\* selectFit gives a node that fits.
LEMMA SelectFacts ==
    ASSUME NEW job, NEW frees, NEW nodes, NodesOK(nodes), DOMAIN frees \in SUBSET nodes,
           Fitting(job, frees) # {}
    PROVE  selectFit(job, frees) \in Fitting(job, frees)
<1> DEFINE F == Fitting(job, frees)
           T == {i \in Nat : \E n \in F : i = n.id}
<1>1. \A n \in F : n.id \in Nat
  BY DEF Fitting, NodesOK, NodeRecs
<1>2. T \in SUBSET Nat /\ T # {}
  BY <1>1
<1>3. PICK i \in T : \A k \in T : i <= k
  <2> HIDE DEF T
  <2> QED BY <1>2, LeastNat
<1>4. PICK n \in F : i = n.id
  BY <1>3
<1>5. \A other \in F : n.id <= other.id
  <2> TAKE other \in F
  <2>1. other.id \in T
    BY <1>1
  <2> HIDE DEF T, F
  <2>2. QED BY <1>3, <1>4, <2>1
<1>6. selectFit(job, frees) = CHOOSE m \in F : \A other \in F : m.id <= other.id
  BY DEF selectFit
<1> HIDE DEF F
<1>7. selectFit(job, frees) \in F
  BY <1>4, <1>5, <1>6, Zenon
<1>8. QED BY <1>7 DEF F

-----------------------------------------------------------------------------
(* One turn of the loop of Plan *)

\* The nodes a pass looks at, and the decisions it can make.
UpOf(nodes) == {m \in nodes : m.up}

Decisions == [job : Nat, node : Nat, devs : SUBSET Nat]

\* What the loop holds; R are the times it can reserve.
Accs(nodes, R) == [decisions : SUBSET Decisions, frees : [UpOf(nodes) -> NodeRecs],
                   haveRes : BOOLEAN, resTime : R]

\* Subtraction that stops at zero.
LEMMA SubFacts ==
    ASSUME NEW a \in Nat, NEW b \in Nat
    PROVE  /\ subU(a, b) \in Nat /\ subU(a, b) <= a /\ subU(a, b) + b >= a
           /\ b <= a => subU(a, b) + b = a
BY DEF subU

\* A node less what a job takes.
LEMMA ConsumeFacts ==
    ASSUME NEW fn \in NodeRecs, NEW job, job.cpus \in Nat, job.mem \in Nat, NEW keys
    PROVE  /\ consume(fn, job, keys) \in NodeRecs
           /\ consume(fn, job, keys).id = fn.id /\ consume(fn, job, keys).up = fn.up
           /\ consume(fn, job, keys).partition = fn.partition
           /\ consume(fn, job, keys).cpus = subU(fn.cpus, job.cpus)
           /\ consume(fn, job, keys).mem = subU(fn.mem, job.mem)
           /\ consume(fn, job, keys).devices = {d \in fn.devices : d.key \notin keys}
<1> DEFINE c == subU(fn.cpus, job.cpus)
           m == subU(fn.mem, job.mem)
           D == {d \in fn.devices : d.key \notin keys}
<1>1. fn.cpus \in Nat /\ fn.mem \in Nat /\ fn.devices \in SUBSET Devices
  BY DEF NodeRecs
<1>2. c \in Nat /\ m \in Nat /\ D \in SUBSET Devices
  BY <1>1, SubFacts
<1>3. consume(fn, job, keys) = [fn EXCEPT !.cpus = c, !.mem = m, !.devices = D]
  BY DEF consume, removeFreeDevices, NodeRecs
<1> HIDE DEF c, m, D
<1>4. QED BY <1>2, <1>3 DEF NodeRecs, c, m, D

\* A node less what its active jobs hold.
LEMMA FreeFacts ==
    ASSUME NEW t, NEW nodes, NodesOK(nodes), NEW active, JobsOK(active, t), NEW n \in nodes
    PROVE  LET here == OnNodeOf(active, n)
               fn   == freeNode(n, active)
           IN  /\ fn \in NodeRecs
               /\ fn.id = n.id /\ fn.up = n.up /\ fn.partition = n.partition
               /\ CpusOf(here) \in Nat /\ MemOf(here) \in Nat
               /\ fn.cpus = subU(n.cpus, CpusOf(here))
               /\ fn.mem = subU(n.mem, MemOf(here))
               /\ fn.devices = {d \in n.devices : d.key \notin DevsOf(here)}
<1> DEFINE here == OnNodeOf(active, n)
           fn == freeNode(n, active)
<1>1. n \in NodeRecs
  BY DEF NodesOK
<1>2. CpusOf(here) \in Nat /\ MemOf(here) \in Nat
  <2>1. here \in SUBSET active /\ IsFiniteSet(active)
    BY DEF OnNodeOf, JobsOK
  <2>2. \A x \in here : x.cpus \in Nat /\ x.mem \in Nat
    BY <2>1 DEF JobsOK, JobRecs
  <2> HIDE DEF here
  <2>3. IsFiniteSet(here)
    BY <2>1, FS_Subset
  <2>4. QED BY <2>2, <2>3, CpusOfFacts, MemOfFacts
<1> DEFINE c == subU(n.cpus, CpusOf(here))
           m == subU(n.mem, MemOf(here))
           D == {d \in n.devices : d.key \notin DevsOf(here)}
<1>3. c \in Nat /\ m \in Nat /\ D \in SUBSET Devices
  <2>1. n.cpus \in Nat /\ n.mem \in Nat /\ n.devices \in SUBSET Devices
    BY <1>1 DEF NodeRecs
  <2> HIDE DEF here
  <2>2. QED BY <1>2, <2>1, SubFacts
<1>4. fn = [n EXCEPT !.cpus = c, !.mem = m, !.devices = D]
  BY <1>1 DEF freeNode, removeFreeDevices, NodeRecs
<1> HIDE DEF c, m, D, fn
<1>5. /\ fn \in NodeRecs /\ fn.id = n.id /\ fn.up = n.up /\ fn.partition = n.partition
      /\ fn.cpus = c /\ fn.mem = m /\ fn.devices = D
  BY <1>1, <1>3, <1>4 DEF NodeRecs
<1>6. QED BY <1>2, <1>5 DEF fn, c, m, D

\* Where the loop starts.
PlanBase(t, nodes, active) ==
    [decisions |-> {}, frees |-> buildFree(nodes, active), haveRes |-> FALSE, resTime |-> t]

\* There nothing is decided or reserved, and the views are those of buildFree.
LEMMA BaseFacts ==
    ASSUME NEW t, NEW nodes, NodesOK(nodes), NEW active, JobsOK(active, t), NEW R, t \in R
    PROVE  /\ PlanBase(t, nodes, active) \in Accs(nodes, R)
           /\ PlanBase(t, nodes, active).decisions = {}
           /\ PlanBase(t, nodes, active).haveRes = FALSE
           /\ \A n \in UpOf(nodes) : PlanBase(t, nodes, active).frees[n] = freeNode(n, active)
<1> DEFINE F == buildFree(nodes, active)
<1>1. F = [n \in UpOf(nodes) |-> freeNode(n, active)]
  BY DEF buildFree, UpOf
<1>2. \A n \in UpOf(nodes) : freeNode(n, active) \in NodeRecs
  <2> TAKE n \in UpOf(nodes)
  <2>1. n \in nodes
    BY DEF UpOf
  <2>2. QED BY <2>1, FreeFacts
<1> HIDE DEF F
<1>3. F \in [UpOf(nodes) -> NodeRecs] /\ \A n \in UpOf(nodes) : F[n] = freeNode(n, active)
  BY <1>1, <1>2
<1>4. PlanBase(t, nodes, active) = [decisions |-> {}, frees |-> F, haveRes |-> FALSE, resTime |-> t]
  BY DEF PlanBase, F
<1>5. QED BY <1>3, <1>4 DEF Accs

\* The three things a turn can do to what the loop holds.
Places(acc, acc2, job, n, keys, t, pol) ==
    /\ HasRoom(acc.frees[n], job)
    /\ keys = pickDevices(acc.frees[n].devices, job.gpus, job.gpuType)
    /\ ~(pol.backfill /\ acc.haveRes /\ ~backfillAllowed(t, job, acc.resTime))
    /\ acc2.decisions = acc.decisions \cup {[job |-> job.id, node |-> n.id, devs |-> keys]}
    /\ acc2.frees[n] = consume(acc.frees[n], job, keys)
    /\ \A m \in DOMAIN acc.frees : m # n => acc2.frees[m] = acc.frees[m]
    /\ acc2.haveRes = acc.haveRes /\ acc2.resTime = acc.resTime

\* A turn that leaves the job out for the sake of the reservation.
Skips(acc, acc2, job, t, pol) ==
    /\ acc2 = acc
    /\ pol.backfill /\ acc.haveRes /\ ~backfillAllowed(t, job, acc.resTime)

\* A turn in which no node takes the job; the first such job gets the reservation.
Blocks(acc, acc2, job, t, nodes, active, pol) ==
    /\ \A n \in DOMAIN acc.frees : ~HasRoom(acc.frees[n], job)
    /\ acc2.decisions = acc.decisions /\ acc2.frees = acc.frees
    /\ acc2.haveRes <=> acc.haveRes \/ (pol.backfill /\ Eligible(job, nodes) # {})
    /\ acc2.resTime = IF acc2.haveRes /\ ~acc.haveRes THEN reservationTime(t, job, nodes, active)
                       ELSE acc.resTime

\* PlanJob does one of them.
LEMMA TurnFacts ==
    ASSUME NEW t, NEW nodes, NodesOK(nodes), NEW active, NEW pol, PolicyOK(pol), NEW R,
           NEW acc \in Accs(nodes, R), NEW job \in JobRecs, reservationTime(t, job, nodes, active) \in R
    PROVE  LET acc2 == PlanJob(acc, job, t, nodes, active, pol)
           IN  /\ acc2 \in Accs(nodes, R)
               /\ \/ \E n \in UpOf(nodes), keys \in SUBSET Nat : Places(acc, acc2, job, n, keys, t, pol)
                  \/ Skips(acc, acc2, job, t, pol)
                  \/ Blocks(acc, acc2, job, t, nodes, active, pol)
<1> DEFINE acc2 == PlanJob(acc, job, t, nodes, active, pol)
           Goal == /\ acc2 \in Accs(nodes, R)
                   /\ \/ \E n \in UpOf(nodes), keys \in SUBSET Nat : Places(acc, acc2, job, n, keys, t, pol)
                      \/ Skips(acc, acc2, job, t, pol)
                      \/ Blocks(acc, acc2, job, t, nodes, active, pol)
<1>0. SUFFICES Goal
  OBVIOUS
<1>1. acc.frees \in [UpOf(nodes) -> NodeRecs] /\ DOMAIN acc.frees = UpOf(nodes) /\ acc.haveRes \in BOOLEAN
  BY DEF Accs
<1>2. job.cpus \in Nat /\ job.mem \in Nat /\ job.gpus \in Nat /\ job.id \in Nat
  BY DEF JobRecs
<1>3. CASE Fitting(job, acc.frees) # {} /\ pol.backfill /\ acc.haveRes /\ ~backfillAllowed(t, job, acc.resTime)
  <2>1. acc2 = acc
    BY <1>3 DEF PlanJob
  <2> HIDE DEF acc2
  <2>2. Skips(acc, acc2, job, t, pol)
    BY <1>3, <2>1, Zenon DEF Skips
  <2>3. QED BY <2>1, <2>2
<1>4. CASE Fitting(job, acc.frees) # {} /\ ~(pol.backfill /\ acc.haveRes /\ ~backfillAllowed(t, job, acc.resTime))
  <2> DEFINE n == selectFit(job, acc.frees)
             keys == pickDevices(acc.frees[n].devices, job.gpus, job.gpuType)
             d == [job |-> job.id, node |-> n.id, devs |-> keys]
  <2>1. n \in UpOf(nodes) /\ n \in nodes /\ HasRoom(acc.frees[n], job)
    <3>1. UpOf(nodes) \in SUBSET nodes
      BY DEF UpOf
    <3>2. n \in Fitting(job, acc.frees)
      BY <1>1, <1>4, <3>1, SelectFacts
    <3> HIDE DEF n
    <3>3. QED BY <1>1, <3>1, <3>2 DEF Fitting
  <2>2. acc2 = [acc EXCEPT !.decisions = @ \cup {d}, !.frees[n] = consume(@, job, keys)]
    BY <1>4 DEF PlanJob
  <2> HIDE DEF n
  <2>3. keys \in SUBSET Nat
    <3>1. acc.frees[n] \in NodeRecs
      BY <1>1, <2>1
    <3>2. acc.frees[n].devices \in SUBSET Devices
      BY <3>1 DEF NodeRecs
    <3>3. QED BY <3>2 DEF pickDevices, Matching, Devices
  <2>4. d \in Decisions
    <3>1. n.id \in Nat
      BY <2>1 DEF NodesOK, NodeRecs
    <3> HIDE DEF keys
    <3>2. QED BY <1>2, <2>3, <3>1 DEF Decisions
  <2>5. keys = pickDevices(acc.frees[n].devices, job.gpus, job.gpuType)
        /\ d = [job |-> job.id, node |-> n.id, devs |-> keys]
    OBVIOUS
  <2> HIDE DEF keys, d, acc2
  <2>6. consume(acc.frees[n], job, keys) \in NodeRecs
    <3>1. acc.frees[n] \in NodeRecs
      BY <1>1, <2>1
    <3>2. QED BY <1>2, <3>1, ConsumeFacts
  <2>7. /\ acc2.decisions = acc.decisions \cup {d}
        /\ acc2.frees = [acc.frees EXCEPT ![n] = consume(acc.frees[n], job, keys)]
        /\ acc2.haveRes = acc.haveRes /\ acc2.resTime = acc.resTime
        /\ acc2 \in Accs(nodes, R)
    BY <1>1, <2>1, <2>2, <2>4, <2>6 DEF Accs
  <2>8. /\ acc2.frees[n] = consume(acc.frees[n], job, keys)
        /\ \A m \in DOMAIN acc.frees : m # n => acc2.frees[m] = acc.frees[m]
    BY <1>1, <2>1, <2>7
  <2>9. Places(acc, acc2, job, n, keys, t, pol)
    BY <1>4, <2>1, <2>5, <2>7, <2>8 DEF Places
  <2>10. QED BY <2>1, <2>3, <2>7, <2>9
<1>5. CASE Fitting(job, acc.frees) = {}
  <2>1. \A n \in DOMAIN acc.frees : ~HasRoom(acc.frees[n], job)
    BY <1>5 DEF Fitting
  <2>2. CASE pol.backfill /\ ~acc.haveRes /\ Eligible(job, nodes) # {}
    <3>1. acc2 = [acc EXCEPT !.haveRes = TRUE, !.resTime = reservationTime(t, job, nodes, active)]
      BY <1>5, <2>2, Zenon DEF PlanJob
    <3> HIDE DEF acc2
    <3>2. /\ acc2.decisions = acc.decisions /\ acc2.frees = acc.frees /\ acc2.haveRes
          /\ acc2 \in Accs(nodes, R) /\ acc2.resTime = reservationTime(t, job, nodes, active)
      BY <3>1 DEF Accs
    <3>3. Blocks(acc, acc2, job, t, nodes, active, pol)
      BY <2>1, <2>2, <3>2, Zenon DEF Blocks
    <3>4. QED BY <3>2, <3>3
  <2>3. CASE ~(pol.backfill /\ ~acc.haveRes /\ Eligible(job, nodes) # {})
    <3>1. acc2 = acc
      BY <1>5, <2>3, Zenon DEF PlanJob
    <3> HIDE DEF acc2
    <3>2. Blocks(acc, acc2, job, t, nodes, active, pol)
      BY <1>1, <2>1, <2>3, <3>1, Zenon DEF Blocks
    <3>3. QED BY <3>1, <3>2
  <2>4. QED BY <2>2, <2>3
<1>6. QED BY <1>3, <1>4, <1>5

-----------------------------------------------------------------------------
(* The loop of Plan *)

\* h holds the values of the loop after every job.
PlanRun(h, t, nodes, active, pending, pol) ==
    /\ h[0] = PlanBase(t, nodes, active)
    /\ \A k \in 1..Cardinality(pending) :
          h[k] = PlanJob(h[k - 1], InOrder(pending, t, pol.ageWeight)[k], t, nodes, active, pol)

\* The times that can be reserved.
ResTimes(t, nodes, active, pending) ==
    {t} \cup {reservationTime(t, j, nodes, active) : j \in pending}

\* There are such values, and the plan is the last of them.
LEMMA PlanLoop ==
    ASSUME NEW t \in Nat, NEW nodes, NodesOK(nodes), NEW active, JobsOK(active, t),
           NEW pending, JobsOK(pending, t), NEW pol, PolicyOK(pol)
    PROVE  \E h : /\ PlanRun(h, t, nodes, active, pending, pol)
                  /\ PlanDecisions(t, nodes, active, pending, pol) = h[Cardinality(pending)].decisions
                  /\ \A k \in 0..Cardinality(pending) :
                        h[k] \in Accs(nodes, ResTimes(t, nodes, active, pending))
<1> DEFINE n == Cardinality(pending)
           o == InOrder(pending, t, pol.ageWeight)
           A == Accs(nodes, ResTimes(t, nodes, active, pending))
           b == PlanBase(t, nodes, active)
           g == [x \in A \X (1..n) |-> PlanJob(x[1], o[x[2]], t, nodes, active, pol)]
           Fold(f) == [s \in SUBSET (1..n) |->
                         IF s = {} THEN b ELSE PlanJob(f[s \ {Max(s)}], o[Max(s)], t, nodes, active, pol)]
           iter == CHOOSE f : f = Fold(f)
           h == [k \in 0..n |-> iter[1..k]]
<1>0. pol.ageWeight \in Nat
  BY DEF PolicyOK
<1>1. n \in Nat /\ o \in [1..n -> pending]
  BY <1>0, OrderFacts
<1>2. PlanDecisions(t, nodes, active, pending, pol) = iter[1..n].decisions
  <2>1. DOMAIN o = 1..n
    <3> HIDE DEF o
    <3> QED BY <1>1
  <2>2. PlanDecisions(t, nodes, active, pending, pol) =
           FoldLeft(LAMBDA acc, job : PlanJob(acc, job, t, nodes, active, pol), b, o).decisions
    BY DEF PlanDecisions, PlanBase
  <2> HIDE DEF b, o, n
  <2>3. FoldLeft(LAMBDA acc, job : PlanJob(acc, job, t, nodes, active, pol), b, o) = iter[1..n]
    BY <2>1, Zenon DEF FoldLeft, MapThenFoldSet
  <2>4. QED BY <2>2, <2>3
<1> HIDE DEF n, o
<1>3. b \in A /\ \A x \in A \X (1..n) : PlanJob(x[1], o[x[2]], t, nodes, active, pol) \in A
  <2> DEFINE R == ResTimes(t, nodes, active, pending)
  <2>1. t \in R
    BY DEF ResTimes
  <2>2. b \in A
    <3> HIDE DEF R
    <3> QED BY <2>1, BaseFacts DEF R
  <2>3. ASSUME NEW acc \in A, NEW i \in 1..n PROVE PlanJob(acc, o[i], t, nodes, active, pol) \in A
    <3>1. o[i] \in pending
      BY <1>1
    <3>2. o[i] \in JobRecs /\ reservationTime(t, o[i], nodes, active) \in R
      BY <3>1 DEF JobsOK, ResTimes
    <3> HIDE DEF R
    <3>3. acc \in Accs(nodes, R)
      BY DEF R
    <3>4. PlanJob(acc, o[i], t, nodes, active, pol) \in Accs(nodes, R)
      BY <3>2, <3>3, TurnFacts
    <3>5. QED BY <3>4 DEF R
  <2> HIDE DEF A, b
  <2>4. QED BY <2>2, <2>3
<1> HIDE DEF A, b
<1>4. PICK F \in [SUBSET (1..n) -> A] : IsLoop(F, n, b, g)
  <2>1. g \in [A \X (1..n) -> A]
    BY <1>3
  <2> HIDE DEF g
  <2>2. QED BY <1>1, <1>3, <2>1, FoldExists
<1>5. F = Fold(F)
  <2>1. ASSUME NEW s \in SUBSET (1..n), s # {}
        PROVE  F[s] = PlanJob(F[s \ {Max(s)}], o[Max(s)], t, nodes, active, pol)
    <3>1. Max(s) \in 1..n
      BY <1>1, <2>1, MaxFacts
    <3>2. F[s \ {Max(s)}] \in A
      BY <1>4
    <3>3. QED BY <1>4, <2>1, <3>1, <3>2 DEF IsLoop
  <2>2. F[{}] = b
    BY <1>4 DEF IsLoop
  <2> HIDE DEF g
  <2>3. QED BY <2>1, <2>2
<1>6. iter = Fold(iter)
  <2> HIDE DEF Fold
  <2> QED BY <1>5, Zenon
<1> HIDE DEF iter
<1>7. \A s \in SUBSET (1..n) :
        iter[s] = IF s = {} THEN b ELSE PlanJob(iter[s \ {Max(s)}], o[Max(s)], t, nodes, active, pol)
  BY <1>6
<1>8. h[0] = b /\ h[n] = iter[1..n]
  <2>1. 1..0 = {} /\ {} \in SUBSET (1..n)
    OBVIOUS
  <2>2. h[0] = iter[1..0] /\ h[n] = iter[1..n]
    BY <1>1
  <2>3. iter[{}] = b
    BY <2>1, <1>7
  <2> HIDE DEF h
  <2>4. QED BY <2>1, <2>2, <2>3
<1>9. ASSUME NEW k \in 1..n PROVE h[k] = PlanJob(h[k - 1], o[k], t, nodes, active, pol)
  <2>1. h[k] = iter[1..k] /\ h[k - 1] = iter[1..k - 1]
    BY <1>1
  <2> HIDE DEF h
  <2>2. Max(1..k) = k /\ (1..k) \ {Max(1..k)} = 1..k - 1 /\ 1..k \in SUBSET (1..n) /\ 1..k # {}
    BY <1>1, PrefixMax
  <2>3. iter[1..k] = PlanJob(iter[(1..k) \ {Max(1..k)}], o[Max(1..k)], t, nodes, active, pol)
    BY <2>2, <1>7
  <2>4. QED BY <2>1, <2>2, <2>3
<1> HIDE DEF h
<1>10. \A k \in 0..n : h[k] \in A
  <2> DEFINE P == {k \in 0..n : h[k] \in A}
  <2>1. 0 \in P
    BY <1>1, <1>3, <1>8
  <2>2. ASSUME NEW k \in 0..n - 1, k \in P PROVE k + 1 \in P
    <3>1. PICK j \in 1..n : j = k + 1
      BY <1>1
    <3>2. j - 1 = k /\ h[k] \in A
      BY <2>2, <3>1
    <3>3. h[j] = PlanJob(h[k], o[j], t, nodes, active, pol)
      BY <1>9, <3>2
    <3>4. <<h[k], j>> \in A \X (1..n)
      BY <3>2
    <3>5. h[j] \in A
      BY <1>3, <3>3, <3>4
    <3>6. QED BY <1>1, <3>1, <3>5
  <2>3. \A k \in 0..n : k \in P
    <3>1. \A k \in 0..n - 1 : k \in P => k + 1 \in P
      BY <2>2
    <3> HIDE DEF P
    <3>2. QED BY <1>1, <2>1, <3>1, BoundedInduction
  <2>4. QED BY <2>3
<1>11. PlanRun(h, t, nodes, active, pending, pol)
  BY <1>8, <1>9 DEF PlanRun, n, o, b
<1>12. PlanDecisions(t, nodes, active, pending, pol) = h[n].decisions
  BY <1>2, <1>8
<1>13. QED BY <1>10, <1>11, <1>12 DEF n, A

\* One turn.
Turn(acc, acc2, job, t, nodes, active, pol) ==
    \/ \E n \in UpOf(nodes), keys \in SUBSET Nat : Places(acc, acc2, job, n, keys, t, pol)
    \/ Skips(acc, acc2, job, t, pol)
    \/ Blocks(acc, acc2, job, t, nodes, active, pol)

\* A whole plan: the jobs o in their order and what the loop holds after each.
Trace(h, o, N, t, nodes, active, pending, pol) ==
    /\ N \in Nat /\ o \in [1..N -> pending]
    /\ \A j \in pending : \E i \in 1..N : o[i] = j
    /\ \A i, k \in 1..N : i < k <=> Before(o[i], o[k], t, pol.ageWeight)
    /\ \A i, k \in 1..N : o[i].id = o[k].id => i = k
    /\ \A k \in 0..N : h[k] \in Accs(nodes, ResTimes(t, nodes, active, pending))
    /\ h[0] = PlanBase(t, nodes, active)
    /\ \A k \in 1..N : Turn(h[k - 1], h[k], o[k], t, nodes, active, pol)

\* Every plan comes from such a run of the loop.
LEMMA TraceExists ==
    ASSUME NEW t \in Nat, NEW nodes, NodesOK(nodes), NEW active, JobsOK(active, t),
           NEW pending, JobsOK(pending, t), NEW pol, PolicyOK(pol)
    PROVE  \E h, o, N : /\ Trace(h, o, N, t, nodes, active, pending, pol)
                        /\ PlanDecisions(t, nodes, active, pending, pol) = h[N].decisions
<1> DEFINE N == Cardinality(pending)
           o == InOrder(pending, t, pol.ageWeight)
           R == ResTimes(t, nodes, active, pending)
<1>0. pol.ageWeight \in Nat
  BY DEF PolicyOK
<1>1. /\ N \in Nat /\ o \in [1..N -> pending]
      /\ \A j \in pending : \E i \in 1..N : o[i] = j
      /\ \A i, k \in 1..N : i < k <=> Before(o[i], o[k], t, pol.ageWeight)
  <2>1. PICK w \in Nat : w = pol.ageWeight
    BY <1>0
  <2>2. /\ Cardinality(pending) \in Nat
        /\ InOrder(pending, t, w) \in [1..Cardinality(pending) -> pending]
        /\ \A j \in pending : \E i \in 1..Cardinality(pending) : InOrder(pending, t, w)[i] = j
        /\ \A i, k \in 1..Cardinality(pending) :
             i < k <=> Before(InOrder(pending, t, w)[i], InOrder(pending, t, w)[k], t, w)
    BY OrderFacts
  <2>3. QED BY <2>1, <2>2
<1>2. PICK h : /\ PlanRun(h, t, nodes, active, pending, pol)
               /\ PlanDecisions(t, nodes, active, pending, pol) = h[N].decisions
               /\ \A k \in 0..N : h[k] \in Accs(nodes, R)
  BY PlanLoop
<1>3. /\ h[0] = PlanBase(t, nodes, active)
      /\ \A k \in 1..N : h[k] = PlanJob(h[k - 1], o[k], t, nodes, active, pol)
  BY <1>2 DEF PlanRun
<1>4. \A j \in pending : j \in JobRecs /\ reservationTime(t, j, nodes, active) \in R
  BY DEF JobsOK, ResTimes
<1> HIDE DEF N, o, R
<1>5. ASSUME NEW k \in 1..N PROVE Turn(h[k - 1], h[k], o[k], t, nodes, active, pol)
  <2>1. PICK i \in 0..N : i = k - 1
    BY <1>1
  <2>2. h[i] \in Accs(nodes, R) /\ o[k] \in JobRecs /\ reservationTime(t, o[k], nodes, active) \in R
    BY <1>1, <1>2, <1>4
  <2>3. h[k] = PlanJob(h[i], o[k], t, nodes, active, pol)
    BY <1>3, <2>1
  <2>4. Turn(h[i], PlanJob(h[i], o[k], t, nodes, active, pol), o[k], t, nodes, active, pol)
    BY <2>2, TurnFacts DEF Turn
  <2>5. QED BY <2>1, <2>3, <2>4
<1>6. ASSUME NEW i \in 1..N, NEW k \in 1..N, o[i].id = o[k].id PROVE i = k
  <2>1. o[i] = o[k]
    <3>1. o[i] \in pending /\ o[k] \in pending
      BY <1>1
    <3>2. QED BY <1>6, <3>1 DEF JobsOK, IdsDiffer
  <2>2. Before(o[i], o[i], t, pol.ageWeight) <=> i < i
    BY <1>1
  <2>3. i < k <=> Before(o[i], o[i], t, pol.ageWeight)
    BY <1>1, <2>1
  <2>4. k < i <=> Before(o[i], o[i], t, pol.ageWeight)
    BY <1>1, <2>1
  <2>5. QED BY <1>1, <2>2, <2>3, <2>4
<1>7. Trace(h, o, N, t, nodes, active, pending, pol)
  BY <1>1, <1>2, <1>3, <1>5, <1>6 DEF Trace, R
<1>8. QED BY <1>2, <1>7

\* Where a plan starts.
Starts(acc, nodes, active) ==
    /\ acc.decisions = {} /\ acc.haveRes = FALSE
    /\ \A n \in UpOf(nodes) : acc.frees[n] = freeNode(n, active)

\* Every trace starts there.
LEMMA TraceStart ==
    ASSUME NEW t, NEW nodes, NodesOK(nodes), NEW active, JobsOK(active, t),
           NEW pending, NEW pol, NEW h, NEW o, NEW N, Trace(h, o, N, t, nodes, active, pending, pol)
    PROVE  Starts(h[0], nodes, active)
<1> DEFINE R == ResTimes(t, nodes, active, pending)
<1>1. t \in R
  BY DEF ResTimes
<1>2. h[0] = PlanBase(t, nodes, active)
  BY DEF Trace
<1> HIDE DEF R
<1>3. NodesOK(nodes) /\ JobsOK(active, t) /\ t \in R
  BY <1>1
<1>4. /\ PlanBase(t, nodes, active).decisions = {}
      /\ PlanBase(t, nodes, active).haveRes = FALSE
      /\ \A n \in UpOf(nodes) : PlanBase(t, nodes, active).frees[n] = freeNode(n, active)
  BY <1>3, BaseFacts, Zenon
<1>5. QED BY <1>2, <1>4 DEF Starts

-----------------------------------------------------------------------------
(* The plan is sound *)

\* What the decision d gives the job b on the node n.
Gets(d, b, n, active) ==
    /\ b.id = d.job /\ n.id = d.node /\ PartitionOK(b, n)
    /\ Cardinality(d.devs) = b.gpus /\ d.devs \in SUBSET KeysFor(n.devices, b.gpuType)
    /\ d.devs \cap DevsOf(OnNodeOf(active, n)) = {}

\* The view of a node lists its own devices, and none that an active job holds.
ViewOK(fn, n, active) ==
    /\ fn.partition = n.partition /\ fn.devices \in SUBSET n.devices
    /\ \A dev \in fn.devices : dev.key \notin DevsOf(OnNodeOf(active, n))

\* Two decisions are for two jobs and share no device.
Disjoint(d, e) == d # e => /\ d.job # e.job
                           /\ d.node = e.node => d.devs \cap e.devs = {}

\* After the jobs done: the views are right, every decision is, no device that
\* was given is still in a view, and no two decisions meet.
SoundAcc(acc, done, nodes, active) ==
    /\ \A n \in UpOf(nodes) : ViewOK(acc.frees[n], n, active)
    /\ \A d \in acc.decisions : \E b \in done, n \in UpOf(nodes) :
          /\ Gets(d, b, n, active)
          /\ \A dev \in acc.frees[n].devices : dev.key \notin d.devs
    /\ \A d, e \in acc.decisions : Disjoint(d, e)

\* A turn keeps that.
LEMMA SoundTurn ==
    ASSUME NEW t, NEW nodes, NodesOK(nodes), NEW active, NEW pol, NEW R, NEW acc \in Accs(nodes, R), NEW acc2,
           NEW job \in JobRecs, Turn(acc, acc2, job, t, nodes, active, pol),
           NEW done, \A b \in done : b.id # job.id, SoundAcc(acc, done, nodes, active)
    PROVE  SoundAcc(acc2, done \cup {job}, nodes, active)
<1>1. /\ \A n \in UpOf(nodes) : ViewOK(acc.frees[n], n, active)
      /\ \A d \in acc.decisions : \E b \in done, n \in UpOf(nodes) :
          /\ Gets(d, b, n, active)
          /\ \A dev \in acc.frees[n].devices : dev.key \notin d.devs
      /\ \A d, e \in acc.decisions : Disjoint(d, e)
  BY DEF SoundAcc
<1>2. CASE acc2.decisions = acc.decisions /\ acc2.frees = acc.frees
  BY <1>1, <1>2 DEF SoundAcc
<1>3. ASSUME NEW n \in UpOf(nodes), NEW keys \in SUBSET Nat, Places(acc, acc2, job, n, keys, t, pol)
      PROVE  SoundAcc(acc2, done \cup {job}, nodes, active)
  <2> DEFINE fn == acc.frees[n]
             d0 == [job |-> job.id, node |-> n.id, devs |-> keys]
  <2>1. n \in nodes /\ n \in NodeRecs /\ DevicesDiffer(n.devices)
    BY DEF UpOf, NodesOK
  <2>2. fn \in NodeRecs /\ fn.devices \in SUBSET Devices /\ DOMAIN acc.frees = UpOf(nodes)
    BY DEF Accs, NodeRecs
  <2>3. ViewOK(fn, n, active)
    BY <1>1
  <2> HIDE DEF fn, d0
  <2>4. DevicesDiffer(fn.devices)
    <3>1. fn.devices \in SUBSET n.devices
      BY <2>3 DEF ViewOK
    <3>2. IsFiniteSet(fn.devices)
      BY <2>1, <3>1, FS_Subset DEF DevicesDiffer
    <3>3. QED BY <2>1, <3>1, <3>2 DEF DevicesDiffer
  <2>5. /\ HasRoom(fn, job) /\ keys = pickDevices(fn.devices, job.gpus, job.gpuType)
        /\ acc2.decisions = acc.decisions \cup {d0}
        /\ acc2.frees[n] = consume(fn, job, keys)
        /\ \A m \in UpOf(nodes) : m # n => acc2.frees[m] = acc.frees[m]
    BY <1>3, <2>2 DEF Places, fn, d0
  <2>6. /\ keys \in SUBSET KeysFor(fn.devices, job.gpuType)
        /\ Cardinality(keys) = job.gpus
    <3>1. job.gpus \in Nat
      BY DEF JobRecs
    <3>2. Cardinality(Matching(fn.devices, job.gpuType)) >= job.gpus
      BY <2>5 DEF HasRoom
    <3>3. QED BY <2>2, <2>4, <2>5, <3>1, <3>2, PickFacts
  <2>7. \A k \in keys : \E dev \in fn.devices : dev.key = k /\ matchName(dev.name, job.gpuType)
    BY <2>6 DEF KeysFor, Matching
  <2>8. d0.job = job.id /\ d0.node = n.id /\ d0.devs = keys
    BY DEF d0
  <2>9. Gets(d0, job, n, active)
    <3>1. PartitionOK(job, n)
      BY <2>3, <2>5 DEF HasRoom, PartitionOK, ViewOK
    <3>2. keys \in SUBSET KeysFor(n.devices, job.gpuType)
      BY <2>3, <2>7 DEF KeysFor, Matching, ViewOK
    <3>3. keys \cap DevsOf(OnNodeOf(active, n)) = {}
      BY <2>3, <2>7 DEF ViewOK
    <3>4. QED BY <2>6, <2>8, <3>1, <3>2, <3>3 DEF Gets
  <2>10. /\ acc2.frees[n].partition = fn.partition
         /\ acc2.frees[n].devices = {dev \in fn.devices : dev.key \notin keys}
    <3>1. job.cpus \in Nat /\ job.mem \in Nat
      BY DEF JobRecs
    <3>2. QED BY <2>2, <2>5, <3>1, ConsumeFacts
  <2>11. \A m \in UpOf(nodes) : ViewOK(acc2.frees[m], m, active)
    <3> TAKE m \in UpOf(nodes)
    <3>1. CASE m = n
      BY <2>3, <2>10, <3>1 DEF ViewOK
    <3>2. CASE m # n
      BY <1>1, <2>5, <3>2
    <3>3. QED BY <3>1, <3>2
  <2>12. \A m \in UpOf(nodes) : acc2.frees[m].devices \in SUBSET acc.frees[m].devices
    <3> TAKE m \in UpOf(nodes)
    <3>1. CASE m = n
      BY <2>10, <3>1 DEF fn
    <3>2. CASE m # n
      BY <2>5, <3>2
    <3>3. QED BY <3>1, <3>2
  <2>13. ASSUME NEW d \in acc2.decisions
         PROVE  \E b \in done \cup {job}, m \in UpOf(nodes) :
                    /\ Gets(d, b, m, active)
                    /\ \A dev \in acc2.frees[m].devices : dev.key \notin d.devs
    <3>1. CASE d = d0
      BY <2>8, <2>9, <2>10, <3>1
    <3>2. CASE d \in acc.decisions
      <4>1. PICK b \in done, m \in UpOf(nodes) :
              Gets(d, b, m, active) /\ \A dev \in acc.frees[m].devices : dev.key \notin d.devs
        BY <1>1, <3>2
      <4>2. \A dev \in acc2.frees[m].devices : dev.key \notin d.devs
        BY <2>12, <4>1
      <4>3. QED BY <4>1, <4>2
    <3>3. QED BY <2>5, <3>1, <3>2
  <2>14. ASSUME NEW d \in acc.decisions PROVE Disjoint(d, d0) /\ Disjoint(d0, d)
    <3>1. PICK b \in done, m \in UpOf(nodes) :
            Gets(d, b, m, active) /\ \A dev \in acc.frees[m].devices : dev.key \notin d.devs
      BY <1>1
    <3>2. d.job # d0.job
      BY <2>8, <3>1 DEF Gets
    <3>3. ASSUME d.node = d0.node PROVE d.devs \cap d0.devs = {}
      <4>1. m.id = n.id /\ m \in nodes
        BY <2>8, <3>1, <3>3 DEF Gets, UpOf
      <4>2. m = n
        BY <2>1, <4>1 DEF NodesOK, IdsDiffer
      <4>3. \A dev \in fn.devices : dev.key \notin d.devs
        BY <3>1, <4>2 DEF fn
      <4>4. QED BY <2>7, <2>8, <4>3
    <3>4. QED BY <3>2, <3>3 DEF Disjoint
  <2>15. \A d, e \in acc2.decisions : Disjoint(d, e)
    <3>1. Disjoint(d0, d0)
      BY DEF Disjoint
    <3>2. QED BY <1>1, <2>5, <2>14, <3>1
  <2>16. QED BY <2>11, <2>13, <2>15 DEF SoundAcc
<1>4. QED BY <1>2, <1>3 DEF Turn, Skips, Blocks

\* The first k jobs.
FirstJobs(o, k) == {o[i] : i \in 1..k}

\* It holds after every turn.
LEMMA SoundTrace ==
    ASSUME NEW t \in Nat, NEW nodes, NodesOK(nodes), NEW active, JobsOK(active, t),
           NEW pending, JobsOK(pending, t), NEW pol, NEW h, NEW o, NEW N,
           Trace(h, o, N, t, nodes, active, pending, pol)
    PROVE  \A k \in 0..N : SoundAcc(h[k], FirstJobs(o, k), nodes, active)
<1> DEFINE R == ResTimes(t, nodes, active, pending)
           P == {k \in 0..N : SoundAcc(h[k], FirstJobs(o, k), nodes, active)}
<1>1. /\ N \in Nat /\ o \in [1..N -> pending]
      /\ \A i, k \in 1..N : o[i].id = o[k].id => i = k
      /\ \A k \in 0..N : h[k] \in Accs(nodes, R)
      /\ h[0] = PlanBase(t, nodes, active)
      /\ \A k \in 1..N : Turn(h[k - 1], h[k], o[k], t, nodes, active, pol)
  BY DEF Trace
<1>2. 0 \in P
  <2>2. h[0].decisions = {} /\ \A n \in UpOf(nodes) : h[0].frees[n] = freeNode(n, active)
    <3>1. Starts(h[0], nodes, active)
      BY TraceStart
    <3>2. QED BY <3>1 DEF Starts
  <2>3. \A n \in UpOf(nodes) : ViewOK(h[0].frees[n], n, active)
    <3> TAKE n \in UpOf(nodes)
    <3>1. n \in nodes
      BY DEF UpOf
    <3>2. /\ freeNode(n, active).partition = n.partition
          /\ freeNode(n, active).devices = {d \in n.devices : d.key \notin DevsOf(OnNodeOf(active, n))}
      BY <3>1, FreeFacts
    <3>3. QED BY <2>2, <3>2 DEF ViewOK
  <2>4. SoundAcc(h[0], FirstJobs(o, 0), nodes, active)
    BY <2>2, <2>3 DEF SoundAcc
  <2>5. QED BY <1>1, <2>4
<1>3. ASSUME NEW k \in 0..N - 1, k \in P PROVE k + 1 \in P
  <2>1. PICK j \in 1..N : j = k + 1
    BY <1>1
  <2>2. j - 1 = k /\ k \in 0..N /\ FirstJobs(o, j) = FirstJobs(o, k) \cup {o[j]}
    BY <1>1, <2>1 DEF FirstJobs
  <2>3. Turn(h[k], h[j], o[j], t, nodes, active, pol) /\ h[k] \in Accs(nodes, R)
    BY <1>1, <2>2
  <2>4. o[j] \in JobRecs
    BY <1>1 DEF JobsOK
  <2>5. \A b \in FirstJobs(o, k) : b.id # o[j].id
    BY <1>1, <2>1 DEF FirstJobs
  <2>6. SoundAcc(h[k], FirstJobs(o, k), nodes, active)
    BY <1>3
  <2> HIDE DEF R
  <2>7. SoundAcc(h[j], FirstJobs(o, k) \cup {o[j]}, nodes, active)
    BY <2>3, <2>4, <2>5, <2>6, SoundTurn
  <2>8. SoundAcc(h[j], FirstJobs(o, j), nodes, active)
    BY <2>2, <2>7
  <2>9. QED BY <1>1, <2>1, <2>8
<1>4. \A k \in 0..N : k \in P
  <2>1. \A k \in 0..N - 1 : k \in P => k + 1 \in P
    BY <1>3
  <2> HIDE DEF P
  <2>2. QED BY <1>1, <1>2, <2>1, BoundedInduction
<1>5. QED BY <1>4

-----------------------------------------------------------------------------
(* The states of Timeline *)

\* The states of a job.
States == {"absent", "PENDING", "ASSIGNED", "RUNNING", "ended"}

\* Types, and no job is submitted in the future.
TimelineType ==
    /\ now \in Nat /\ policy \in Policies /\ spec \in [JobIds -> JobSpecs]
    /\ st \in [JobIds -> States]
    /\ times \in [JobIds -> [submit : Nat, assigned : Nat, start : Nat \cup {NotStarted}]]
    /\ place \in [JobIds -> [node : Nat, devs : SUBSET Nat]]
    /\ \A j \in JobIds : times[j].submit <= now

\* What a row holds.
LEMMA RowFacts ==
    ASSUME TimelineType, NEW j \in JobIds
    PROVE  /\ Row(j) \in JobRecs /\ Row(j).id = j /\ Row(j).submit = times[j].submit
           /\ Row(j).submit <= now
           /\ Row(j).node = place[j].node /\ Row(j).devs = place[j].devs
           /\ Row(j).cpus = spec[j].cpus /\ Row(j).mem = spec[j].mem
<1>1. spec[j] \in [priority : Int, partition : STRING, cpus : Nat, mem : Nat,
                   gpus : Nat, gpuType : STRING, walltime : Nat]
  <2>1. spec[j] \in JobSpecs
    BY DEF TimelineType
  <2>2. QED BY <2>1, TimelineAssumption
<1>2. /\ times[j] \in [submit : Nat, assigned : Nat, start : Nat \cup {NotStarted}]
      /\ place[j] \in [node : Nat, devs : SUBSET Nat] /\ times[j].submit <= now
  BY DEF TimelineType
<1>3. j \in Nat
  BY TimelineAssumption DEF JobIds
<1>4. QED BY <1>1, <1>2, <1>3 DEF Row, JobRecs

\* The rows of any states are jobs as Plan expects them.
LEMMA RowsOK ==
    ASSUME TimelineType, NEW states
    PROVE  JobsOK(Rows(states), now)
<1> DEFINE J == {k \in JobIds : st[k] \in states}
           f == [j \in J |-> Row(j)]
<1>1. IsFiniteSet(J)
  <2>1. IsFiniteSet(JobIds)
    BY TimelineAssumption, FS_Interval DEF JobIds
  <2>2. J \in SUBSET JobIds
    OBVIOUS
  <2>3. QED BY <2>1, <2>2, FS_Subset
<1>2. \A j \in J : j \in JobIds
  OBVIOUS
<1>3. Rows(states) = {Row(j) : j \in J}
  BY DEF Rows
<1> HIDE DEF J
<1>4. f \in Surjection(J, {Row(j) : j \in J})
  <2>1. f \in [J -> {Row(j) : j \in J}] /\ \A r \in {Row(j) : j \in J} : \E j \in J : f[j] = r
    OBVIOUS
  <2> HIDE DEF f
  <2>2. QED BY <2>1, Zenon DEF Surjection
<1>5. IsFiniteSet(Rows(states))
  BY <1>1, <1>3, <1>4, FS_Surjection
<1>6. \A j \in JobIds : Row(j) \in JobRecs /\ Row(j).id = j /\ Row(j).submit <= now
  BY RowFacts
<1>7. QED BY <1>2, <1>3, <1>5, <1>6 DEF JobsOK, IdsDiffer

\* The nodes are as Plan expects them.
LEMMA ListOK == NodesOK(ListNodes) /\ UpOf(ListNodes) = UpNodes
<1> DEFINE f == [n \in Cluster |-> [n EXCEPT !.up = n.id \in upIds]]
<1>1. ASSUME NEW n \in Cluster
      PROVE  /\ f[n] \in NodeRecs /\ f[n].id = n.id /\ f[n].devices = n.devices
             /\ f[n].cpus = n.cpus /\ f[n].mem = n.mem
  <2>1. n \in NodeRecs
    BY TimelineAssumption DEF NodeRecs, Devices
  <2>2. (n.id \in upIds) \in BOOLEAN
    OBVIOUS
  <2>3. PICK x \in BOOLEAN : f[n] = [n EXCEPT !.up = x]
    <3>1. f[n] = [n EXCEPT !.up = n.id \in upIds]
      BY Zenon
    <3> HIDE DEF f
    <3>2. QED BY <2>2, <3>1, Zenon
  <2> HIDE DEF f
  <2>4. QED BY <2>1, <2>3 DEF NodeRecs
<1>2. ListNodes = {f[n] : n \in Cluster}
  BY DEF ListNodes
<1>3. f \in Surjection(Cluster, {f[n] : n \in Cluster})
  <2>1. f \in [Cluster -> {f[n] : n \in Cluster}] /\ \A r \in {f[n] : n \in Cluster} : \E n \in Cluster : f[n] = r
    OBVIOUS
  <2> HIDE DEF f
  <2>2. QED BY <2>1, Zenon DEF Surjection
<1> HIDE DEF f
<1>4. IsFiniteSet(ListNodes)
  <2>1. IsFiniteSet(Cluster)
    BY TimelineAssumption
  <2>2. QED BY <2>1, <1>2, <1>3, FS_Surjection
<1>5. ListNodes \in SUBSET NodeRecs
  BY <1>1, <1>2
<1>6. IdsDiffer(ListNodes)
  <2>1. \A m, n \in Cluster : m.id = n.id => m = n
    BY TimelineAssumption
  <2>2. QED BY <1>1, <1>2, <2>1 DEF IdsDiffer
<1>7. \A n \in ListNodes : DevicesDiffer(n.devices)
  <2>1. \A n \in Cluster : DevicesDiffer(n.devices)
    BY TimelineAssumption DEF DevicesDiffer
  <2>2. QED BY <1>1, <1>2, <2>1
<1>8. QED BY <1>4, <1>5, <1>6, <1>7 DEF NodesOK, UpOf, UpNodes

\* So a pass has a trace.
LEMMA PlannedTrace ==
    ASSUME TimelineType
    PROVE  /\ JobsOK(ActiveRows, now) /\ JobsOK(PendingRows, now) /\ PolicyOK(policy) /\ now \in Nat
           /\ \E h, o, N : /\ Trace(h, o, N, now, ListNodes, ActiveRows, PendingRows, policy)
                           /\ Planned = h[N].decisions
<1>1. JobsOK(ActiveRows, now) /\ JobsOK(PendingRows, now)
  BY RowsOK DEF ActiveRows, PendingRows
<1>2. PolicyOK(policy) /\ now \in Nat
  BY TimelineAssumption DEF TimelineType, PolicyOK
<1>3. NodesOK(ListNodes)
  BY ListOK
<1>4. \E h, o, N : /\ Trace(h, o, N, now, ListNodes, ActiveRows, PendingRows, policy)
                   /\ PlanDecisions(now, ListNodes, ActiveRows, PendingRows, policy) = h[N].decisions
  BY <1>1, <1>2, <1>3, TraceExists
<1>5. QED BY <1>1, <1>2, <1>4 DEF Planned

\* The decisions of a pass.
LEMMA PlannedFacts ==
    ASSUME TimelineType
    PROVE  /\ Planned \in SUBSET Decisions
           /\ \A d \in Planned : \E b \in PendingRows, n \in UpNodes : Gets(d, b, n, ActiveRows)
           /\ \A d, e \in Planned : Disjoint(d, e)
<1>1. NodesOK(ListNodes) /\ UpOf(ListNodes) = UpNodes
  BY ListOK
<1>2. JobsOK(ActiveRows, now) /\ JobsOK(PendingRows, now) /\ now \in Nat
  BY PlannedTrace
<1>3. PICK h, o, N : Trace(h, o, N, now, ListNodes, ActiveRows, PendingRows, policy) /\ Planned = h[N].decisions
  BY PlannedTrace
<1>4. N \in Nat /\ o \in [1..N -> PendingRows] /\ N \in 0..N
  BY <1>3 DEF Trace
<1>5. \A k \in 0..N : SoundAcc(h[k], FirstJobs(o, k), ListNodes, ActiveRows)
  BY <1>1, <1>2, <1>3, SoundTrace
<1>6. SoundAcc(h[N], FirstJobs(o, N), ListNodes, ActiveRows)
  BY <1>4, <1>5
<1>7. h[N].decisions \in SUBSET Decisions
  <2>1. h[N] \in Accs(ListNodes, ResTimes(now, ListNodes, ActiveRows, PendingRows))
    BY <1>3, <1>4 DEF Trace
  <2>2. QED BY <2>1 DEF Accs
<1>8. FirstJobs(o, N) \in SUBSET PendingRows
  BY <1>4 DEF FirstJobs
<1>9. QED BY <1>1, <1>3, <1>6, <1>7, <1>8 DEF SoundAcc

\* The types are kept.
LEMMA TypeStep ==
    ASSUME TimelineType, [TimelineNext]_tvars
    PROVE  TimelineType'
<1> USE DEF TimelineType
<1>1. ASSUME NEW j \in JobIds, Submit(j) PROVE TimelineType'
  <2>1. st' \in [JobIds -> States]
    BY <1>1 DEF Submit, States
  <2>2. /\ times' \in [JobIds -> [submit : Nat, assigned : Nat, start : Nat \cup {NotStarted}]]
        /\ \A i \in JobIds : times'[i].submit <= now
    BY <1>1 DEF Submit
  <2>3. QED BY <1>1, <2>1, <2>2 DEF Submit
<1>2. ASSUME NEW j \in JobIds, Start(j) PROVE TimelineType'
  <2>1. st' \in [JobIds -> States]
    BY <1>2 DEF Start, States
  <2>2. /\ times' \in [JobIds -> [submit : Nat, assigned : Nat, start : Nat \cup {NotStarted}]]
        /\ \A i \in JobIds : times'[i].submit <= now
    BY <1>2 DEF Start
  <2>3. QED BY <1>2, <2>1, <2>2 DEF Start
<1>3. ASSUME NEW j \in JobIds, End(j) PROVE TimelineType'
  <2>1. st' \in [JobIds -> States]
    BY <1>3 DEF End, States
  <2>2. /\ times' \in [JobIds -> [submit : Nat, assigned : Nat, start : Nat \cup {NotStarted}]]
        /\ \A i \in JobIds : times'[i].submit <= now
    BY <1>3 DEF End, NoTimes
  <2>3. place' \in [JobIds -> [node : Nat, devs : SUBSET Nat]]
    BY <1>3 DEF End, Nowhere
  <2>4. QED BY <1>3, <2>1, <2>2, <2>3 DEF End
<1>4. ASSUME Pass PROVE TimelineType'
  <2>1. st' \in [JobIds -> States]
    BY <1>4 DEF Pass, States
  <2>2. /\ times' \in [JobIds -> [submit : Nat, assigned : Nat, start : Nat \cup {NotStarted}]]
        /\ \A i \in JobIds : times'[i].submit <= now
    BY <1>4 DEF Pass
  <2>3. place' \in [JobIds -> [node : Nat, devs : SUBSET Nat]]
    <3>1. ASSUME NEW j \in JobIds, \E d \in Planned : d.job = j
          PROVE  (CHOOSE e \in Planned : e.job = j) \in Decisions
      <4>1. (CHOOSE e \in Planned : e.job = j) \in Planned
        BY <3>1, Zenon
      <4>2. QED BY <4>1, PlannedFacts
    <3>2. place' = [j \in JobIds |-> IF \E d \in Planned : d.job = j
                                      THEN [node |-> (CHOOSE e \in Planned : e.job = j).node,
                                            devs |-> (CHOOSE e \in Planned : e.job = j).devs]
                                      ELSE place[j]]
      BY <1>4 DEF Pass
    <3>3. QED BY <3>1, <3>2 DEF Decisions
  <2>4. QED BY <1>4, <2>1, <2>2, <2>3 DEF Pass
<1>5. ASSUME Tick PROVE TimelineType'
  BY <1>5 DEF Tick
<1>6. ASSUME NEW n \in Cluster, NodeFlips(n) PROVE TimelineType'
  BY <1>6 DEF NodeFlips
<1>7. CASE UNCHANGED tvars
  BY <1>7 DEF tvars
<1>8. QED BY <1>1, <1>2, <1>3, <1>4, <1>5, <1>6, <1>7 DEF TimelineNext

\* The types hold at first.
LEMMA TypeInit == TimelineInit => TimelineType
BY DEF TimelineInit, TimelineType, NoTimes, Nowhere, States

\* The types hold in every state.
THEOREM TimelineTypes == TimelineSpec => []TimelineType
<1>1. TimelineInit => TimelineType
  BY TypeInit
<1>2. TimelineType /\ [TimelineNext]_tvars => TimelineType'
  BY TypeStep
<1>3. QED BY <1>1, <1>2, PTL DEF TimelineSpec

\* Every plan is sound, whatever the cluster, the jobs and the policy: it
\* gives a pending job at most one node, UP and in its partition, with as many
\* devices of the wanted type as asked for, which no active job holds and no
\* other decision gives away (Plan, selectFit, pickDevices, consume).
THEOREM PlansAreSound == TimelineSpec => []PlanIsSound
<1>1. TimelineType => PlanIsSound
  <2> SUFFICES ASSUME TimelineType PROVE PlanIsSound
    OBVIOUS
  <2>1. ASSUME NEW d \in Planned
        PROVE  \E b \in PendingRows, n \in UpNodes :
                  /\ b.id = d.job /\ n.id = d.node
                  /\ b.partition \in {"", n.partition}
                  /\ Cardinality(d.devs) = b.gpus
                  /\ \A k \in d.devs : \E dev \in n.devices :
                        dev.key = k /\ (b.gpuType = "" \/ b.gpuType \in dev.name)
                  /\ \A o \in ActiveRows : o.node = n.id => o.devs \cap d.devs = {}
    <3>1. PICK b \in PendingRows, n \in UpNodes : Gets(d, b, n, ActiveRows)
      BY PlannedFacts
    <3>2. /\ b.id = d.job /\ n.id = d.node /\ b.partition \in {"", n.partition}
          /\ Cardinality(d.devs) = b.gpus
      BY <3>1 DEF Gets, PartitionOK
    <3>3. \A k \in d.devs : \E dev \in n.devices :
             dev.key = k /\ (b.gpuType = "" \/ b.gpuType \in dev.name)
      BY <3>1 DEF Gets, KeysFor, Matching, matchName
    <3>4. \A o \in ActiveRows : o.node = n.id => o.devs \cap d.devs = {}
      BY <3>1 DEF Gets, DevsOf, OnNodeOf
    <3>5. QED BY <3>2, <3>3, <3>4
  <2>2. \A d, e \in Planned : d # e => /\ d.job # e.job
                                       /\ d.node = e.node => d.devs \cap e.devs = {}
    BY PlannedFacts DEF Disjoint
  <2>3. QED BY <2>1, <2>2, Zenon DEF PlanIsSound
<1>2. QED BY <1>1, TimelineTypes, PTL

-----------------------------------------------------------------------------
(* Who is placed and who is not *)

\* From one turn to a later one resources are only taken, and a reservation stays.
Shrinks(acc, acc2, nodes) ==
    /\ \A n \in UpOf(nodes) : /\ acc2.frees[n].partition = acc.frees[n].partition
                              /\ acc2.frees[n].cpus <= acc.frees[n].cpus
                              /\ acc2.frees[n].mem <= acc.frees[n].mem
                              /\ acc2.frees[n].devices \in SUBSET acc.frees[n].devices
    /\ acc.decisions \in SUBSET acc2.decisions
    /\ acc.haveRes => acc2.haveRes /\ acc2.resTime = acc.resTime

\* One turn of the loop only takes from the views and adds decisions.
LEMMA ShrinkTurn ==
    ASSUME NEW t, NEW nodes, NEW active, NEW pol, NEW R, NEW acc \in Accs(nodes, R), NEW acc2 \in Accs(nodes, R),
           NEW job \in JobRecs, Turn(acc, acc2, job, t, nodes, active, pol)
    PROVE  Shrinks(acc, acc2, nodes)
<1>1. \A n \in UpOf(nodes) : acc.frees[n] \in NodeRecs
  BY DEF Accs
<1>2. DOMAIN acc.frees = UpOf(nodes) /\ acc.haveRes \in BOOLEAN /\ acc2.haveRes \in BOOLEAN
  BY DEF Accs
<1>3. CASE Skips(acc, acc2, job, t, pol)
  <2>1. acc2 = acc
    BY <1>3 DEF Skips
  <2>2. QED BY <1>1, <2>1 DEF Shrinks, NodeRecs
<1>4. CASE Blocks(acc, acc2, job, t, nodes, active, pol)
  <2>1. acc2.decisions = acc.decisions /\ acc2.frees = acc.frees
    BY <1>4 DEF Blocks
  <2>2. acc.haveRes => acc2.haveRes /\ acc2.resTime = acc.resTime
    BY <1>4, <1>2 DEF Blocks
  <2>3. QED BY <1>1, <2>1, <2>2 DEF Shrinks, NodeRecs
<1>5. ASSUME NEW n \in UpOf(nodes), NEW keys \in SUBSET Nat, Places(acc, acc2, job, n, keys, t, pol)
      PROVE  Shrinks(acc, acc2, nodes)
  <2>1. /\ acc.decisions \in SUBSET acc2.decisions
        /\ acc2.haveRes = acc.haveRes /\ acc2.resTime = acc.resTime
    BY <1>5 DEF Places
  <2>2. \A m \in UpOf(nodes) : m # n => acc2.frees[m] = acc.frees[m]
    BY <1>2, <1>5 DEF Places
  <2>3. acc2.frees[n] = consume(acc.frees[n], job, keys) /\ acc.frees[n] \in NodeRecs
    BY <1>1, <1>5 DEF Places
  <2>4. /\ acc.frees[n].cpus \in Nat /\ acc.frees[n].mem \in Nat
        /\ job.cpus \in Nat /\ job.mem \in Nat
    BY <2>3 DEF NodeRecs, JobRecs
  <2>5. /\ acc2.frees[n].partition = acc.frees[n].partition
        /\ acc2.frees[n].cpus = subU(acc.frees[n].cpus, job.cpus)
        /\ acc2.frees[n].mem = subU(acc.frees[n].mem, job.mem)
        /\ acc2.frees[n].devices \in SUBSET acc.frees[n].devices
    BY <2>3, <2>4, ConsumeFacts
  <2>6. acc2.frees[n].cpus <= acc.frees[n].cpus /\ acc2.frees[n].mem <= acc.frees[n].mem
    <3>1. subU(acc.frees[n].cpus, job.cpus) <= acc.frees[n].cpus
      BY <2>4, SubFacts
    <3>2. subU(acc.frees[n].mem, job.mem) <= acc.frees[n].mem
      BY <2>4, SubFacts
    <3>3. QED BY <2>5, <3>1, <3>2
  <2>7. \A m \in UpOf(nodes) : /\ acc2.frees[m].partition = acc.frees[m].partition
                              /\ acc2.frees[m].cpus <= acc.frees[m].cpus
                              /\ acc2.frees[m].mem <= acc.frees[m].mem
                              /\ acc2.frees[m].devices \in SUBSET acc.frees[m].devices
    <3> TAKE m \in UpOf(nodes)
    <3>1. CASE m = n
      BY <2>5, <2>6, <3>1
    <3>2. CASE m # n
      <4>1. acc.frees[m].cpus \in Nat /\ acc.frees[m].mem \in Nat
        BY <1>1 DEF NodeRecs
      <4>2. QED BY <2>2, <3>2, <4>1
    <3>3. QED BY <3>1, <3>2
  <2>8. QED BY <2>1, <2>7 DEF Shrinks
<1>6. QED BY <1>3, <1>4, <1>5 DEF Turn

\* So do many turns.
LEMMA ShrinkTrace ==
    ASSUME NEW t, NEW nodes, NEW active, NEW pending, JobsOK(pending, t), NEW pol, NEW h, NEW o, NEW N,
           Trace(h, o, N, t, nodes, active, pending, pol), NEW i \in 0..N
    PROVE  \A k \in 0..N : i <= k => Shrinks(h[i], h[k], nodes)
<1> DEFINE R == ResTimes(t, nodes, active, pending)
           P == {k \in 0..N : i <= k => Shrinks(h[i], h[k], nodes)}
<1>1. /\ N \in Nat /\ o \in [1..N -> pending]
      /\ \A k \in 0..N : h[k] \in Accs(nodes, R)
      /\ \A k \in 1..N : Turn(h[k - 1], h[k], o[k], t, nodes, active, pol)
  BY DEF Trace
<1> HIDE DEF R
<1>2. Shrinks(h[i], h[i], nodes)
  <2>1. h[i] \in Accs(nodes, R)
    BY <1>1
  <2>2. \A n \in UpOf(nodes) : h[i].frees[n].cpus \in Nat /\ h[i].frees[n].mem \in Nat
    BY <2>1 DEF Accs, NodeRecs
  <2>3. QED BY <2>2 DEF Shrinks
<1>3. 0 \in P
  <2>1. i <= 0 => i = 0
    BY <1>1
  <2>2. QED BY <1>1, <1>2, <2>1
<1>4. ASSUME NEW k \in 0..N - 1, k \in P PROVE k + 1 \in P
  <2>1. PICK j \in 1..N : j = k + 1
    BY <1>1
  <2>2. j - 1 = k /\ k \in 0..N /\ j \in 0..N
    BY <1>1, <2>1
  <2>3. /\ Turn(h[k], h[j], o[j], t, nodes, active, pol) /\ h[k] \in Accs(nodes, R) /\ h[j] \in Accs(nodes, R)
        /\ h[i] \in Accs(nodes, R)
    BY <1>1, <2>2
  <2>4. o[j] \in JobRecs
    BY <1>1 DEF JobsOK
  <2>5. Shrinks(h[k], h[j], nodes)
    BY <2>3, <2>4, ShrinkTurn
  <2>6. i <= j => i <= k \/ i = j
    BY <1>1, <2>1
  <2>7. ASSUME i <= k PROVE Shrinks(h[i], h[j], nodes)
    <3>1. Shrinks(h[i], h[k], nodes)
      BY <1>4, <2>7
    <3>2. \A n \in UpOf(nodes) : /\ h[i].frees[n].cpus \in Nat /\ h[i].frees[n].mem \in Nat
                                 /\ h[j].frees[n].cpus \in Nat /\ h[j].frees[n].mem \in Nat
                                 /\ h[k].frees[n].cpus \in Nat /\ h[k].frees[n].mem \in Nat
      BY <2>3 DEF Accs, NodeRecs
    <3>3. ASSUME NEW n \in UpOf(nodes)
          PROVE  /\ h[j].frees[n].partition = h[i].frees[n].partition
                 /\ h[j].frees[n].cpus <= h[i].frees[n].cpus
                 /\ h[j].frees[n].mem <= h[i].frees[n].mem
                 /\ h[j].frees[n].devices \in SUBSET h[i].frees[n].devices
      <4>1. /\ h[j].frees[n].cpus <= h[k].frees[n].cpus /\ h[j].frees[n].mem <= h[k].frees[n].mem
            /\ h[k].frees[n].cpus <= h[i].frees[n].cpus /\ h[k].frees[n].mem <= h[i].frees[n].mem
        BY <2>5, <3>1 DEF Shrinks
      <4>2. h[j].frees[n].cpus <= h[i].frees[n].cpus /\ h[j].frees[n].mem <= h[i].frees[n].mem
        BY <3>2, <4>1
      <4>3. /\ h[j].frees[n].partition = h[i].frees[n].partition
            /\ h[j].frees[n].devices \in SUBSET h[i].frees[n].devices
        BY <2>5, <3>1 DEF Shrinks
      <4>4. QED BY <4>2, <4>3
    <3>4. /\ h[i].decisions \in SUBSET h[j].decisions
          /\ h[i].haveRes => h[j].haveRes /\ h[j].resTime = h[i].resTime
      BY <2>5, <3>1 DEF Shrinks
    <3>5. QED BY <3>3, <3>4 DEF Shrinks
  <2>8. i <= j => Shrinks(h[i], h[j], nodes)
    BY <1>2, <2>6, <2>7
  <2>9. QED BY <2>1, <2>2, <2>8
<1>5. \A k \in 0..N : k \in P
  <2>1. \A k \in 0..N - 1 : k \in P => k + 1 \in P
    BY <1>4
  <2> HIDE DEF P
  <2>2. QED BY <1>1, <1>3, <2>1, BoundedInduction
<1>6. QED BY <1>5

\* Every decision was taken in the turn of its job.
LEMMA DecidedInTurn ==
    ASSUME NEW t, NEW nodes, NodesOK(nodes), NEW active, JobsOK(active, t), NEW pending, NEW pol, NEW h, NEW o, NEW N,
           Trace(h, o, N, t, nodes, active, pending, pol)
    PROVE  \A k \in 0..N : \A d \in h[k].decisions :
              \E i \in 1..N : /\ i <= k /\ d.job = o[i].id
                              /\ \E n \in UpOf(nodes), keys \in SUBSET Nat :
                                    Places(h[i - 1], h[i], o[i], n, keys, t, pol)
<1> DEFINE From(d, k) == \E i \in 1..N : /\ i <= k /\ d.job = o[i].id
                                         /\ \E n \in UpOf(nodes), keys \in SUBSET Nat :
                                               Places(h[i - 1], h[i], o[i], n, keys, t, pol)
           P == {k \in 0..N : \A d \in h[k].decisions : From(d, k)}
<1>1. /\ N \in Nat /\ h[0] = PlanBase(t, nodes, active)
      /\ \A k \in 1..N : Turn(h[k - 1], h[k], o[k], t, nodes, active, pol)
  BY DEF Trace
<1>2. 0 \in P
  <2>1. h[0].decisions = {}
    BY <1>1 DEF PlanBase
  <2>2. QED BY <1>1, <2>1
<1>3. ASSUME NEW k \in 0..N - 1, k \in P PROVE k + 1 \in P
  <2>1. PICK j \in 1..N : j = k + 1
    BY <1>1
  <2>2. j - 1 = k /\ k \in 0..N /\ j \in 0..N
    BY <1>1, <2>1
  <2>3. Turn(h[k], h[j], o[j], t, nodes, active, pol)
    BY <1>1, <2>2
  <2>4. \A d \in h[k].decisions : From(d, j)
    <3> TAKE d \in h[k].decisions
    <3>1. From(d, k)
      BY <1>3
    <3>2. QED BY <2>1, <3>1
  <2>5. CASE h[j].decisions = h[k].decisions
    <3> HIDE DEF From
    <3> QED BY <2>1, <2>2, <2>4, <2>5
  <2>6. ASSUME NEW n \in UpOf(nodes), NEW keys \in SUBSET Nat, Places(h[k], h[j], o[j], n, keys, t, pol)
        PROVE  k + 1 \in P
    <3>1. \A d \in h[j].decisions : d \in h[k].decisions \/ d.job = o[j].id
      BY <2>6 DEF Places
    <3>2. Places(h[j - 1], h[j], o[j], n, keys, t, pol) /\ j <= j
      BY <2>2, <2>6
    <3>3. \A d \in h[j].decisions : d.job = o[j].id => From(d, j)
      BY <3>2
    <3> HIDE DEF From
    <3>4. QED BY <2>1, <2>2, <2>4, <3>1, <3>3
  <2>7. QED BY <2>3, <2>5, <2>6 DEF Turn, Skips, Blocks
<1>4. \A k \in 0..N : k \in P
  <2>1. \A k \in 0..N - 1 : k \in P => k + 1 \in P
    BY <1>3
  <2> HIDE DEF P
  <2>2. QED BY <1>1, <1>2, <2>1, BoundedInduction
<1>5. QED BY <1>4

\* A reservation is that of a job that could not be placed but can run on the
\* cluster.
LEMMA ReservedInTurn ==
    ASSUME NEW t, NEW nodes, NEW active, NEW pending, NEW pol, NEW h, NEW o, NEW N,
           Trace(h, o, N, t, nodes, active, pending, pol)
    PROVE  \A k \in 0..N : h[k].haveRes =>
              \E i \in 1..N : /\ i <= k /\ Blocks(h[i - 1], h[i], o[i], t, nodes, active, pol)
                              /\ pol.backfill /\ Eligible(o[i], nodes) # {}
<1> DEFINE From(k) == \E i \in 1..N : /\ i <= k /\ Blocks(h[i - 1], h[i], o[i], t, nodes, active, pol)
                                      /\ pol.backfill /\ Eligible(o[i], nodes) # {}
           P == {k \in 0..N : h[k].haveRes => From(k)}
<1>1. /\ N \in Nat /\ h[0] = PlanBase(t, nodes, active)
      /\ \A k \in 1..N : Turn(h[k - 1], h[k], o[k], t, nodes, active, pol)
  BY DEF Trace
<1>2. 0 \in P
  <2>1. ~h[0].haveRes
    BY <1>1 DEF PlanBase
  <2>2. QED BY <1>1, <2>1
<1>3. ASSUME NEW k \in 0..N - 1, k \in P PROVE k + 1 \in P
  <2>1. PICK j \in 1..N : j = k + 1
    BY <1>1
  <2>2. j - 1 = k /\ k \in 0..N /\ j \in 0..N
    BY <1>1, <2>1
  <2>3. Turn(h[k], h[j], o[j], t, nodes, active, pol)
    BY <1>1, <2>2
  <2>4. From(k) => From(j)
    BY <2>1
  <2>5. h[k].haveRes => From(k)
    <3> HIDE DEF From
    <3> QED BY <1>3
  <2>6. ASSUME h[j].haveRes, ~h[k].haveRes PROVE From(j)
    <3>1. ~Skips(h[k], h[j], o[j], t, pol)
      BY <2>6, Zenon DEF Skips
    <3>2. \A n, keys : ~Places(h[k], h[j], o[j], n, keys, t, pol)
      BY <2>6, Zenon DEF Places
    <3>3. Blocks(h[k], h[j], o[j], t, nodes, active, pol)
      BY <2>3, <3>1, <3>2, Zenon DEF Turn
    <3>4. pol.backfill /\ Eligible(o[j], nodes) # {}
      BY <2>6, <3>3, Zenon DEF Blocks
    <3>5. j <= j /\ Blocks(h[j - 1], h[j], o[j], t, nodes, active, pol)
      BY <2>2, <3>3
    <3>6. QED BY <3>4, <3>5
  <2> HIDE DEF From
  <2>7. h[j].haveRes => From(j)
    BY <2>4, <2>5, <2>6, Zenon
  <2>8. QED BY <2>1, <2>2, <2>7
<1>4. \A k \in 0..N : k \in P
  <2>1. \A k \in 0..N - 1 : k \in P => k + 1 \in P
    BY <1>3
  <2> HIDE DEF P
  <2>2. QED BY <1>1, <1>2, <2>1, BoundedInduction
<1>5. QED BY <1>4

\* A view with more of everything has room for what fits in one with less.
LEMMA RoomGrows ==
    ASSUME NEW fn \in NodeRecs, NEW fm \in NodeRecs, NEW a \in JobRecs, HasRoom(fn, a),
           fm.partition = fn.partition, fm.cpus >= fn.cpus, fm.mem >= fn.mem,
           fn.devices \in SUBSET fm.devices, IsFiniteSet(fm.devices),
           NEW b \in JobRecs, b.partition = a.partition, b.cpus = a.cpus, b.mem = a.mem,
           b.gpus = a.gpus, b.gpuType = a.gpuType
    PROVE  HasRoom(fm, b)
<1> DEFINE M(f) == Matching(f.devices, a.gpuType)
<1>1. M(fn) \in SUBSET M(fm) /\ M(fm) \in SUBSET fm.devices /\ M(fn) \in SUBSET fm.devices
  BY DEF Matching
<1>2. Cardinality(M(fn)) >= a.gpus
  BY DEF HasRoom
<1>3. M(fm) = Matching(fm.devices, b.gpuType)
  OBVIOUS
<1> HIDE DEF M
<1>4. IsFiniteSet(M(fm)) /\ IsFiniteSet(M(fn))
  BY <1>1, FS_Subset
<1>5. Cardinality(M(fn)) <= Cardinality(M(fm))
  BY <1>1, <1>4, FS_Subset
<1>6. Cardinality(M(fm)) \in Nat /\ Cardinality(M(fn)) \in Nat
  BY <1>4, FS_CardinalityType
<1>7. Cardinality(Matching(fm.devices, b.gpuType)) >= b.gpus
  <2>1. b.gpus \in Nat
    BY DEF JobRecs
  <2>2. QED BY <1>2, <1>3, <1>5, <1>6, <2>1
<1>8. b.cpus \in Nat /\ b.mem \in Nat /\ fn.cpus \in Nat /\ fm.cpus \in Nat /\ fn.mem \in Nat /\ fm.mem \in Nat
  BY DEF JobRecs, NodeRecs
<1>9. PartitionOK(b, fm) /\ fm.cpus >= b.cpus /\ fm.mem >= b.mem
  <2>1. PartitionOK(a, fn) /\ fn.cpus >= a.cpus /\ fn.mem >= a.mem
    BY DEF HasRoom
  <2>2. PartitionOK(b, fm)
    BY <2>1, Zenon DEF PartitionOK
  <2>3. fm.cpus >= b.cpus /\ fm.mem >= b.mem
    BY <1>8, <2>1
  <2>4. QED BY <2>2, <2>3
<1>10. QED BY <1>7, <1>9 DEF HasRoom

\* The order of the jobs is the one they are judged by.
LEMMA AheadIsBefore ==
    ASSUME TimelineType, NEW a \in PendingRows, NEW b \in PendingRows
    PROVE  Ahead(a, b) <=> Before(a, b, now, policy.ageWeight)
<1>1. PICK w \in Nat : w = policy.ageWeight
  BY PlannedTrace DEF PolicyOK
<1>2. a \in JobRecs /\ b \in JobRecs /\ a.submit <= now /\ b.submit <= now /\ now \in Nat
  BY PlannedTrace DEF JobsOK
<1>3. /\ effPriority(a, now, w) = a.priority + w * (now - a.submit)
      /\ effPriority(b, now, w) = b.priority + w * (now - b.submit)
  BY <1>2, PriorityFacts
<1>4. QED BY <1>1, <1>3 DEF Ahead, Before

\* A job that a plan leaves out was skipped for the reservation or had no room.
LEMMA LeftOutInTurn ==
    ASSUME TimelineType, NEW h, NEW o, NEW N,
           Trace(h, o, N, now, ListNodes, ActiveRows, PendingRows, policy), Planned = h[N].decisions,
           NEW k \in 1..N, \A d \in Planned : d.job # o[k].id
    PROVE  \/ Skips(h[k - 1], h[k], o[k], now, policy)
           \/ Blocks(h[k - 1], h[k], o[k], now, ListNodes, ActiveRows, policy)
<1>1. N \in Nat /\ Turn(h[k - 1], h[k], o[k], now, ListNodes, ActiveRows, policy)
  BY DEF Trace
<1>2. JobsOK(PendingRows, now)
  BY PlannedTrace
<1>3. k \in 0..N /\ N \in 0..N /\ k <= N
  BY <1>1
<1>4. Shrinks(h[k], h[N], ListNodes)
  BY <1>2, <1>3, ShrinkTrace
<1>5. ASSUME NEW n, NEW keys, Places(h[k - 1], h[k], o[k], n, keys, now, policy) PROVE FALSE
  <2>1. [job |-> o[k].id, node |-> n.id, devs |-> keys] \in h[k].decisions
    BY <1>5 DEF Places
  <2>2. [job |-> o[k].id, node |-> n.id, devs |-> keys] \in Planned
    BY <1>4, <2>1 DEF Shrinks
  <2>3. QED BY <2>2
<1>6. QED BY <1>1, <1>5 DEF Turn

\* A job that a plan places had room in its turn, and the reservation allowed it.
LEMMA PlannedInTurn ==
    ASSUME TimelineType, NEW h, NEW o, NEW N,
           Trace(h, o, N, now, ListNodes, ActiveRows, PendingRows, policy), Planned = h[N].decisions,
           NEW d \in Planned
    PROVE  \E i \in 1..N : /\ o[i] = Row(d.job) /\ o[i] \in PendingRows /\ d.job = o[i].id
                           /\ \E n \in UpNodes, keys \in SUBSET Nat :
                                 Places(h[i - 1], h[i], o[i], n, keys, now, policy)
<1>1. N \in Nat /\ N \in 0..N /\ o \in [1..N -> PendingRows]
  BY DEF Trace
<1>2. JobsOK(ActiveRows, now)
  BY PlannedTrace
<1>3. NodesOK(ListNodes) /\ UpOf(ListNodes) = UpNodes
  BY ListOK
<1>4. \A k \in 0..N : \A e \in h[k].decisions :
              \E i \in 1..N : /\ i <= k /\ e.job = o[i].id
                              /\ \E n \in UpOf(ListNodes), keys \in SUBSET Nat :
                                    Places(h[i - 1], h[i], o[i], n, keys, now, policy)
  BY <1>2, <1>3, DecidedInTurn
<1>5. PICK i \in 1..N : /\ d.job = o[i].id
                        /\ \E n \in UpNodes, keys \in SUBSET Nat :
                              Places(h[i - 1], h[i], o[i], n, keys, now, policy)
  BY <1>1, <1>3, <1>4
<1>6. o[i] \in PendingRows
  BY <1>1
<1>7. PICK j \in JobIds : o[i] = Row(j)
  BY <1>6 DEF PendingRows, Rows
<1>8. Row(j).id = j
  BY RowFacts
<1>9. QED BY <1>5, <1>6, <1>7, <1>8

\* In any plan, of two jobs that ask for the same the one ahead is placed first
\* (effPriority, the sort in Plan).
THEOREM LikeJobsKeepTheirOrder == TimelineSpec => []LikeJobsInOrder
<1>1. TimelineType => LikeJobsInOrder
  <2> SUFFICES ASSUME TimelineType, NEW d \in Planned, NEW b \in LeftOut(Planned),
                      [Row(d.job) EXCEPT !.id = 0, !.priority = 0, !.submit = 0] =
                      [b EXCEPT !.id = 0, !.priority = 0, !.submit = 0],
                      ~Ahead(Row(d.job), b)
               PROVE  FALSE
    BY DEF LikeJobsInOrder
  <2>1. PICK h, o, N : Trace(h, o, N, now, ListNodes, ActiveRows, PendingRows, policy) /\ Planned = h[N].decisions
    BY PlannedTrace
  <2>2. /\ N \in Nat /\ o \in [1..N -> PendingRows]
        /\ \A j \in PendingRows : \E i \in 1..N : o[i] = j
        /\ \A i, k \in 1..N : i < k <=> Before(o[i], o[k], now, policy.ageWeight)
        /\ \A k \in 0..N : h[k] \in Accs(ListNodes, ResTimes(now, ListNodes, ActiveRows, PendingRows))
    BY <2>1 DEF Trace
  <2>3. NodesOK(ListNodes) /\ UpOf(ListNodes) = UpNodes
    BY ListOK
  <2>4. JobsOK(ActiveRows, now) /\ JobsOK(PendingRows, now) /\ now \in Nat
    BY PlannedTrace
  <2>5. PICK i \in 1..N : /\ o[i] = Row(d.job) /\ o[i] \in PendingRows /\ d.job = o[i].id
                          /\ \E n \in UpNodes, keys \in SUBSET Nat :
                                Places(h[i - 1], h[i], o[i], n, keys, now, policy)
    BY <2>1, PlannedInTurn
  <2>6. b \in PendingRows /\ \A e \in Planned : e.job # b.id
    BY DEF LeftOut
  <2>7. PICK k \in 1..N : o[k] = b
    BY <2>2, <2>6
  <2>8. PICK n \in UpNodes, keys \in SUBSET Nat : Places(h[i - 1], h[i], o[i], n, keys, now, policy)
    BY <2>5
  <2>9. k < i
    <3>1. ~(i < k)
      BY <2>2, <2>5, <2>6, <2>7, AheadIsBefore
    <3>2. i # k
      BY <2>5, <2>6, <2>7
    <3>3. QED BY <2>2, <3>1, <3>2
  <2>10. PICK p \in 0..N, q \in 0..N : p = k - 1 /\ q = i - 1 /\ p <= q
    <3>1. k - 1 \in 0..N /\ i - 1 \in 0..N /\ k - 1 <= i - 1
      BY <2>2, <2>9
    <3>2. QED BY <3>1
  <2>11. Shrinks(h[p], h[q], ListNodes)
    BY <2>1, <2>4, <2>10, ShrinkTrace
  <2>12. Skips(h[p], h[k], b, now, policy) \/ Blocks(h[p], h[k], b, now, ListNodes, ActiveRows, policy)
    BY <2>1, <2>6, <2>7, <2>10, LeftOutInTurn
  <2>13. /\ o[i] \in JobRecs /\ b \in JobRecs
         /\ o[i].partition = b.partition /\ o[i].cpus = b.cpus /\ o[i].mem = b.mem
         /\ o[i].gpus = b.gpus /\ o[i].gpuType = b.gpuType /\ o[i].walltime = b.walltime
    <3>1. o[i] \in JobRecs /\ b \in JobRecs
      BY <2>4, <2>5, <2>6 DEF JobsOK
    <3>2. [o[i] EXCEPT !.id = 0, !.priority = 0, !.submit = 0] =
          [b EXCEPT !.id = 0, !.priority = 0, !.submit = 0]
      BY <2>5
    <3>3. QED BY <3>1, <3>2 DEF JobRecs
  <2>14. /\ HasRoom(h[q].frees[n], o[i])
         /\ ~(policy.backfill /\ h[q].haveRes /\ ~backfillAllowed(now, o[i], h[q].resTime))
    BY <2>8, <2>10 DEF Places
  <2>15. CASE Skips(h[p], h[k], b, now, policy)
    <3>1. policy.backfill /\ h[p].haveRes /\ ~backfillAllowed(now, b, h[p].resTime)
      BY <2>15 DEF Skips
    <3>2. h[q].haveRes /\ h[q].resTime = h[p].resTime
      BY <2>11, <3>1 DEF Shrinks
    <3>3. backfillAllowed(now, o[i], h[q].resTime) <=> backfillAllowed(now, b, h[p].resTime)
      BY <2>13, <3>2 DEF backfillAllowed
    <3>4. QED BY <2>14, <3>1, <3>2, <3>3
  <2>16. CASE Blocks(h[p], h[k], b, now, ListNodes, ActiveRows, policy)
    <3>1. h[p].frees \in [UpNodes -> NodeRecs] /\ h[q].frees \in [UpNodes -> NodeRecs]
      BY <2>2, <2>3, <2>10 DEF Accs
    <3>2. ~HasRoom(h[p].frees[n], b)
      BY <2>16, <3>1 DEF Blocks
    <3>3. /\ h[q].frees[n].partition = h[p].frees[n].partition
          /\ h[q].frees[n].cpus <= h[p].frees[n].cpus
          /\ h[q].frees[n].mem <= h[p].frees[n].mem
          /\ h[q].frees[n].devices \in SUBSET h[p].frees[n].devices
      BY <2>3, <2>11 DEF Shrinks
    <3>4. IsFiniteSet(h[p].frees[n].devices)
      <4>1. SoundAcc(h[p], FirstJobs(o, p), ListNodes, ActiveRows)
        BY <2>1, <2>3, <2>4, <2>10, SoundTrace
      <4>2. h[p].frees[n].devices \in SUBSET n.devices
        BY <2>3, <4>1 DEF SoundAcc, ViewOK
      <4>3. IsFiniteSet(n.devices)
        BY <2>3 DEF NodesOK, DevicesDiffer, UpNodes
      <4>4. QED BY <4>2, <4>3, FS_Subset
    <3>5. h[p].frees[n] \in NodeRecs /\ h[q].frees[n] \in NodeRecs
      BY <3>1
    <3>6. h[p].frees[n].cpus >= h[q].frees[n].cpus /\ h[p].frees[n].mem >= h[q].frees[n].mem
      BY <3>3, <3>5 DEF NodeRecs
    <3>7. HasRoom(h[p].frees[n], b)
      <4>1. PICK fm \in NodeRecs, fn \in NodeRecs, a \in JobRecs :
               fm = h[p].frees[n] /\ fn = h[q].frees[n] /\ a = o[i]
        BY <2>13, <3>5
      <4>2. /\ HasRoom(fn, a) /\ fm.partition = fn.partition /\ fm.cpus >= fn.cpus /\ fm.mem >= fn.mem
            /\ fn.devices \in SUBSET fm.devices /\ IsFiniteSet(fm.devices)
        BY <2>14, <3>3, <3>4, <3>6, <4>1
      <4>3. /\ b \in JobRecs /\ b.partition = a.partition /\ b.cpus = a.cpus /\ b.mem = a.mem
            /\ b.gpus = a.gpus /\ b.gpuType = a.gpuType
        BY <2>13, <4>1
      <4>4. HasRoom(fm, b)
        BY <4>2, <4>3, RoomGrows
      <4>5. QED BY <4>1, <4>4
    <3>8. QED BY <3>2, <3>7
  <2>17. QED BY <2>12, <2>15, <2>16
<1>2. QED BY <1>1, TimelineTypes, PTL

-----------------------------------------------------------------------------
(* The views of the nodes account for every job *)

\* The row of a job as the decision d leaves it, and the rows that the decisions D leave.
PutRow(r, d, t) == [r EXCEPT !.node = d.node, !.devs = d.devs, !.assigned = t]

\* The rows of the pending jobs that D places.
Put(D, pending, t) == {PutRow(p[1], p[2], t) : p \in {q \in pending \X D : q[1].id = q[2].job}}

\* What a decision changes in the row of its job.
LEMMA PutFacts ==
    ASSUME NEW r \in JobRecs, NEW d \in Decisions, NEW t \in Nat
    PROVE  /\ PutRow(r, d, t) \in JobRecs
           /\ PutRow(r, d, t).id = r.id /\ PutRow(r, d, t).submit = r.submit
           /\ PutRow(r, d, t).cpus = r.cpus /\ PutRow(r, d, t).mem = r.mem
           /\ PutRow(r, d, t).node = d.node /\ PutRow(r, d, t).devs = d.devs
BY DEF PutRow, JobRecs, Decisions

\* The jobs on node n when the decisions D are carried out.
Load(D, active, pending, t, n) == OnNodeOf(active \cup Put(D, pending, t), n)

\* The load of a node is finite, and its sums are numbers.
LEMMA LoadFinite ==
    ASSUME NEW t \in Nat, NEW active, JobsOK(active, t), NEW pending, JobsOK(pending, t),
           NEW D \in SUBSET Decisions, IsFiniteSet(Put(D, pending, t)), NEW n
    PROVE  /\ IsFiniteSet(Load(D, active, pending, t, n))
           /\ \A x \in Load(D, active, pending, t, n) : x \in JobRecs /\ x.cpus \in Nat /\ x.mem \in Nat
           /\ CpusOf(Load(D, active, pending, t, n)) \in Nat
           /\ MemOf(Load(D, active, pending, t, n)) \in Nat
<1> DEFINE P == Put(D, pending, t)
           S == Load(D, active, pending, t, n)
<1>1. IsFiniteSet(active \cup P)
  <2>1. IsFiniteSet(active)
    BY DEF JobsOK
  <2>2. QED BY <2>1, FS_Union
<1>2. S \in SUBSET (active \cup P)
  BY DEF Load, OnNodeOf
<1>3. active \in SUBSET JobRecs
  BY DEF JobsOK
<1>4. ASSUME NEW x \in P PROVE x \in JobRecs
  <2>1. PICK r \in pending, d \in D : x = PutRow(r, d, t)
    BY DEF Put
  <2>2. r \in JobRecs /\ d \in Decisions
    BY DEF JobsOK
  <2>3. QED BY <2>1, <2>2, PutFacts
<1> HIDE DEF P, S
<1>5. \A x \in S : x \in JobRecs /\ x.cpus \in Nat /\ x.mem \in Nat
  BY <1>2, <1>3, <1>4 DEF JobRecs
<1>6. IsFiniteSet(S)
  BY <1>1, <1>2, FS_Subset
<1>7. CpusOf(S) \in Nat /\ MemOf(S) \in Nat
  BY <1>5, <1>6, CpusOfFacts, MemOfFacts
<1>8. QED BY <1>5, <1>6, <1>7 DEF S

\* What is free and what is used are what they were at first, and the devices in
\* the view are those that no job on the node holds.
NodeAccount(fn, n, S, S0) ==
    /\ fn.cpus + CpusOf(S) = subU(n.cpus, CpusOf(S0)) + CpusOf(S0)
    /\ fn.mem + MemOf(S) = subU(n.mem, MemOf(S0)) + MemOf(S0)
    /\ fn.devices = {dev \in n.devices : dev.key \notin DevsOf(S)}

\* So on every node that is up.
Accounts(acc, nodes, active, pending, t) ==
    /\ IsFiniteSet(Put(acc.decisions, pending, t))
    /\ \A n \in UpOf(nodes) : NodeAccount(acc.frees[n], n, Load(acc.decisions, active, pending, t, n),
                                          OnNodeOf(active, n))

\* A turn keeps that.
LEMMA AccountTurn ==
    ASSUME NEW t \in Nat, NEW nodes, NodesOK(nodes), NEW active, JobsOK(active, t),
           NEW pending, JobsOK(pending, t), \A a \in active, b \in pending : a.id # b.id,
           NEW pol, NEW R, NEW acc \in Accs(nodes, R), NEW acc2 \in Accs(nodes, R),
           NEW job \in pending, Turn(acc, acc2, job, t, nodes, active, pol),
           \A d \in acc.decisions : d.job # job.id,
           Accounts(acc, nodes, active, pending, t)
    PROVE  Accounts(acc2, nodes, active, pending, t)
<1>1. CASE acc2.decisions = acc.decisions /\ acc2.frees = acc.frees
  BY <1>1 DEF Accounts
<1>2. ASSUME NEW n \in UpOf(nodes), NEW keys \in SUBSET Nat, Places(acc, acc2, job, n, keys, t, pol)
      PROVE  Accounts(acc2, nodes, active, pending, t)
  <2> DEFINE D == acc.decisions
             d0 == [job |-> job.id, node |-> n.id, devs |-> keys]
             x0 == PutRow(job, d0, t)
             P == Put(D, pending, t)
             S(m) == Load(D, active, pending, t, m)
             S2(m) == Load(acc2.decisions, active, pending, t, m)
  <2>1. /\ HasRoom(acc.frees[n], job)
        /\ acc2.decisions = D \cup {d0}
        /\ acc2.frees[n] = consume(acc.frees[n], job, keys)
        /\ \A m \in UpOf(nodes) : m # n => acc2.frees[m] = acc.frees[m]
    <3>1. DOMAIN acc.frees = UpOf(nodes)
      BY DEF Accs
    <3>2. QED BY <1>2, <3>1 DEF Places
  <2>2. n \in nodes /\ n \in NodeRecs /\ n.id \in Nat
    BY DEF UpOf, NodesOK, NodeRecs
  <2>3. job \in JobRecs /\ job.id \in Nat /\ job.cpus \in Nat /\ job.mem \in Nat
    BY DEF JobsOK, JobRecs
  <2>4. d0 \in Decisions /\ d0.job = job.id /\ d0.node = n.id /\ d0.devs = keys
    BY <2>2, <2>3 DEF Decisions
  <2>5. D \in SUBSET Decisions /\ acc2.decisions \in SUBSET Decisions
    BY DEF Accs
  <2> HIDE DEF d0
  <2>6. /\ x0 \in JobRecs /\ x0.id = job.id /\ x0.cpus = job.cpus /\ x0.mem = job.mem
        /\ x0.node = n.id /\ x0.devs = keys
    BY <2>3, <2>4, PutFacts
  <2>7. \A r \in pending : r.id = job.id => r = job
    BY DEF JobsOK, IdsDiffer
  <2>8. Put(acc2.decisions, pending, t) = P \cup {x0}
    <3>1. ASSUME NEW x \in Put(acc2.decisions, pending, t) PROVE x \in P \cup {x0}
      <4>1. PICK r \in pending, d \in acc2.decisions : r.id = d.job /\ x = PutRow(r, d, t)
        BY DEF Put
      <4>2. CASE d = d0
        BY <2>4, <2>7, <4>1, <4>2
      <4>3. CASE d \in D
        <5>1. <<r, d>> \in {q \in pending \X D : q[1].id = q[2].job}
          BY <4>1, <4>3
        <5>2. QED BY <4>1, <5>1 DEF Put
      <4>4. QED BY <2>1, <4>2, <4>3
    <3>2. ASSUME NEW x \in P PROVE x \in Put(acc2.decisions, pending, t)
      BY <2>1 DEF Put
    <3>3. x0 \in Put(acc2.decisions, pending, t)
      <4>1. <<job, d0>> \in {q \in pending \X acc2.decisions : q[1].id = q[2].job}
        BY <2>1, <2>4
      <4>2. QED BY <4>1 DEF Put
    <3> HIDE DEF P, x0
    <3>4. QED BY <3>1, <3>2, <3>3
  <2>9. x0 \notin active \cup P
    <3>1. x0 \notin active
      BY <2>6
    <3>2. ASSUME NEW x \in P PROVE x.id # job.id
      <4>1. PICK r \in pending, d \in D : r.id = d.job /\ x = PutRow(r, d, t)
        BY DEF Put
      <4>2. r \in JobRecs /\ d \in Decisions
        BY <2>5 DEF JobsOK
      <4>3. x.id = r.id
        BY <4>1, <4>2, PutFacts
      <4>4. d.job # job.id
        OBVIOUS
      <4>5. QED BY <4>1, <4>3, <4>4
    <3> HIDE DEF P, x0
    <3>3. QED BY <2>6, <3>1, <3>2
  <2>10. IsFiniteSet(P) /\ IsFiniteSet(Put(acc2.decisions, pending, t))
    <3>1. IsFiniteSet(P)
      BY DEF Accounts
    <3> HIDE DEF P
    <3>2. QED BY <2>8, <3>1, FS_AddElement
  <2> HIDE DEF x0
  <2>11. \A m \in UpOf(nodes) : m # n => S2(m) = S(m)
    <3> TAKE m \in UpOf(nodes)
    <3>1. SUFFICES ASSUME m # n PROVE S2(m) = S(m)
      OBVIOUS
    <3>2. m \in nodes
      BY DEF UpOf
    <3>3. m.id # n.id
      BY <2>2, <3>1, <3>2 DEF NodesOK, IdsDiffer
    <3> HIDE DEF P
    <3>4. QED BY <2>6, <2>8, <3>3 DEF Load, OnNodeOf, P
  <2>12. S2(n) = S(n) \cup {x0} /\ x0 \notin S(n) /\ S2(n) \ {x0} = S(n) /\ x0 \in S2(n)
    <3>1. S2(n) = S(n) \cup {x0} /\ x0 \notin S(n)
      <4> HIDE DEF P
      <4> QED BY <2>6, <2>8, <2>9 DEF Load, OnNodeOf, P
    <3> HIDE DEF S, S2
    <3>2. QED BY <3>1
  <2>13. /\ IsFiniteSet(S2(n)) /\ (\A x \in S2(n) : x.cpus \in Nat /\ x.mem \in Nat)
         /\ CpusOf(S(n)) \in Nat /\ MemOf(S(n)) \in Nat
    <3>1. IsFiniteSet(S2(n)) /\ (\A x \in S2(n) : x.cpus \in Nat /\ x.mem \in Nat)
      BY <2>5, <2>10, LoadFinite
    <3>2. CpusOf(S(n)) \in Nat /\ MemOf(S(n)) \in Nat
      BY <2>5, <2>10, LoadFinite
    <3>3. QED BY <3>1, <3>2
  <2>14. NodeAccount(acc.frees[n], n, S(n), OnNodeOf(active, n))
    BY DEF Accounts
  <2> HIDE DEF S, S2
  <2>15. CpusOf(S2(n)) = job.cpus + CpusOf(S(n)) /\ MemOf(S2(n)) = job.mem + MemOf(S(n))
    <3>1. CpusOf(S2(n)) = x0.cpus + CpusOf(S2(n) \ {x0})
      BY <2>12, <2>13, CpusOfFacts
    <3>2. MemOf(S2(n)) = x0.mem + MemOf(S2(n) \ {x0})
      BY <2>12, <2>13, MemOfFacts
    <3>3. QED BY <2>6, <2>12, <3>1, <3>2
  <2>16. DevsOf(S2(n)) = DevsOf(S(n)) \cup keys
    BY <2>6, <2>12 DEF DevsOf
  <2>17. PICK fn \in NodeRecs : fn = acc.frees[n]
    BY DEF Accs
  <2>18. /\ acc2.frees[n].cpus = subU(fn.cpus, job.cpus)
         /\ acc2.frees[n].mem = subU(fn.mem, job.mem)
         /\ acc2.frees[n].devices = {dev \in fn.devices : dev.key \notin keys}
    BY <2>1, <2>3, <2>17, ConsumeFacts
  <2>19. fn.cpus \in Nat /\ fn.mem \in Nat /\ fn.cpus >= job.cpus /\ fn.mem >= job.mem
    BY <2>1, <2>17 DEF HasRoom, NodeRecs
  <2>20. acc2.frees[n].cpus = fn.cpus - job.cpus /\ acc2.frees[n].mem = fn.mem - job.mem
    BY <2>3, <2>18, <2>19 DEF subU
  <2>21. acc2.frees[n].cpus + CpusOf(S2(n)) = fn.cpus + CpusOf(S(n))
    BY <2>3, <2>13, <2>15, <2>19, <2>20
  <2>22. acc2.frees[n].mem + MemOf(S2(n)) = fn.mem + MemOf(S(n))
    BY <2>3, <2>13, <2>15, <2>19, <2>20
  <2>23. acc2.frees[n].devices = {dev \in n.devices : dev.key \notin DevsOf(S2(n))}
    <3>1. fn.devices = {dev \in n.devices : dev.key \notin DevsOf(S(n))}
      BY <2>14, <2>17 DEF NodeAccount
    <3>2. QED BY <2>16, <2>18, <3>1
  <2>24. NodeAccount(acc2.frees[n], n, S2(n), OnNodeOf(active, n))
    BY <2>14, <2>17, <2>21, <2>22, <2>23 DEF NodeAccount
  <2>25. \A m \in UpOf(nodes) : NodeAccount(acc2.frees[m], m, S2(m), OnNodeOf(active, m))
    <3> TAKE m \in UpOf(nodes)
    <3>1. NodeAccount(acc.frees[m], m, S(m), OnNodeOf(active, m))
      BY DEF Accounts, S
    <3>2. QED BY <2>1, <2>11, <2>24, <3>1
  <2>26. QED BY <2>10, <2>25 DEF Accounts, S2
<1>3. QED BY <1>1, <1>2 DEF Turn, Skips, Blocks

\* It holds after every turn.
LEMMA AccountTrace ==
    ASSUME NEW t \in Nat, NEW nodes, NodesOK(nodes), NEW active, JobsOK(active, t),
           NEW pending, JobsOK(pending, t), \A a \in active, b \in pending : a.id # b.id,
           NEW pol, NEW h, NEW o, NEW N, Trace(h, o, N, t, nodes, active, pending, pol)
    PROVE  \A k \in 0..N : Accounts(h[k], nodes, active, pending, t)
<1> DEFINE R == ResTimes(t, nodes, active, pending)
           P == {k \in 0..N : Accounts(h[k], nodes, active, pending, t)}
<1>1. /\ N \in Nat /\ o \in [1..N -> pending]
      /\ \A i, k \in 1..N : o[i].id = o[k].id => i = k
      /\ \A k \in 0..N : h[k] \in Accs(nodes, R)
      /\ h[0] = PlanBase(t, nodes, active)
      /\ \A k \in 1..N : Turn(h[k - 1], h[k], o[k], t, nodes, active, pol)
  BY DEF Trace
<1>2. 0 \in P
  <2>2. h[0].decisions = {} /\ \A n \in UpOf(nodes) : h[0].frees[n] = freeNode(n, active)
    <3>1. Starts(h[0], nodes, active)
      BY TraceStart
    <3>2. QED BY <3>1 DEF Starts
  <2>3. Put({}, pending, t) = {}
    BY DEF Put
  <2>4. \A n \in UpOf(nodes) : NodeAccount(h[0].frees[n], n, Load({}, active, pending, t, n), OnNodeOf(active, n))
    <3> TAKE n \in UpOf(nodes)
    <3>1. n \in nodes
      BY DEF UpOf
    <3>2. Load({}, active, pending, t, n) = OnNodeOf(active, n)
      BY <2>3 DEF Load, OnNodeOf
    <3>3. /\ freeNode(n, active).cpus = subU(n.cpus, CpusOf(OnNodeOf(active, n)))
          /\ freeNode(n, active).mem = subU(n.mem, MemOf(OnNodeOf(active, n)))
          /\ freeNode(n, active).devices = {d \in n.devices : d.key \notin DevsOf(OnNodeOf(active, n))}
      BY <3>1, FreeFacts
    <3>4. QED BY <2>2, <3>2, <3>3 DEF NodeAccount
  <2>5. Accounts(h[0], nodes, active, pending, t)
    BY <2>2, <2>3, <2>4, FS_EmptySet DEF Accounts
  <2>6. QED BY <1>1, <2>5
<1>3. ASSUME NEW k \in 0..N - 1, k \in P PROVE k + 1 \in P
  <2>1. PICK j \in 1..N : j = k + 1
    BY <1>1
  <2>2. j - 1 = k /\ k \in 0..N /\ j \in 0..N
    BY <1>1, <2>1
  <2>3. Turn(h[k], h[j], o[j], t, nodes, active, pol) /\ h[k] \in Accs(nodes, R) /\ h[j] \in Accs(nodes, R)
    BY <1>1, <2>2
  <2>4. o[j] \in pending
    BY <1>1
  <2>5. \A d \in h[k].decisions : d.job # o[j].id
    <3> TAKE d \in h[k].decisions
    <3>1. SoundAcc(h[k], FirstJobs(o, k), nodes, active)
      BY <2>2, SoundTrace
    <3>2. PICK b \in FirstJobs(o, k) : b.id = d.job
      BY <3>1 DEF SoundAcc, Gets
    <3>3. PICK i \in 1..k : b = o[i]
      BY <3>2 DEF FirstJobs
    <3>4. i \in 1..N /\ i # j
      BY <1>1, <2>1
    <3>5. QED BY <1>1, <3>2, <3>3, <3>4
  <2>6. Accounts(h[k], nodes, active, pending, t)
    BY <1>3
  <2> HIDE DEF R
  <2>7. Accounts(h[j], nodes, active, pending, t)
    BY <2>3, <2>4, <2>5, <2>6, AccountTurn
  <2>8. QED BY <2>1, <2>2, <2>7
<1>4. \A k \in 0..N : k \in P
  <2>1. \A k \in 0..N - 1 : k \in P => k + 1 \in P
    BY <1>3
  <2> HIDE DEF P
  <2>2. QED BY <1>1, <1>2, <2>1, BoundedInduction
<1>5. QED BY <1>4

\* No job is both active and pending, and what a pass writes are the rows that
\* its decisions leave.
LEMMA PlacedArePut ==
    ASSUME TimelineType
    PROVE  /\ \A a \in ActiveRows, b \in PendingRows : a.id # b.id
           /\ PlacedRows(Planned) = Put(Planned, PendingRows, now)
<1>1. \A j \in JobIds : Row(j).id = j
  BY RowFacts
<1>2. \A a \in ActiveRows, b \in PendingRows : a.id # b.id
  BY <1>1 DEF ActiveRows, PendingRows, Rows
<1>3. \A d \in Planned : Row(d.job) \in PendingRows /\ Row(d.job).id = d.job
  <2> TAKE d \in Planned
  <2>1. PICK b \in PendingRows : b.id = d.job
    BY PlannedFacts DEF Gets
  <2>2. PICK j \in JobIds : b = Row(j)
    BY DEF PendingRows, Rows
  <2>3. QED BY <1>1, <2>1, <2>2
<1>4. \A b \in PendingRows : b = Row(b.id)
  BY <1>1 DEF PendingRows, Rows
<1>5. PlacedRows(Planned) = {PutRow(Row(d.job), d, now) : d \in Planned}
  BY DEF PlacedRows, PutRow
<1>6. ASSUME NEW d \in Planned PROVE PutRow(Row(d.job), d, now) \in Put(Planned, PendingRows, now)
  <2>1. <<Row(d.job), d>> \in {q \in PendingRows \X Planned : q[1].id = q[2].job}
    BY <1>3
  <2>2. QED BY <2>1 DEF Put
<1>7. ASSUME NEW x \in Put(Planned, PendingRows, now) PROVE \E d \in Planned : x = PutRow(Row(d.job), d, now)
  <2>1. PICK b \in PendingRows, d \in Planned : b.id = d.job /\ x = PutRow(b, d, now)
    BY DEF Put
  <2>2. QED BY <1>4, <2>1
<1>8. QED BY <1>2, <1>5, <1>6, <1>7

\* After a pass no node that is UP is given more than it has.
LEMMA PassFits ==
    ASSUME TimelineType, NEW n \in UpNodes, NEW S, S = OnNodeOf(ActiveRows \cup PlacedRows(Planned), n),
           CpusOf(OnNodeOf(ActiveRows, n)) <= n.cpus, MemOf(OnNodeOf(ActiveRows, n)) <= n.mem
    PROVE  CpusOf(S) <= n.cpus /\ MemOf(S) <= n.mem
<1> DEFINE S0 == OnNodeOf(ActiveRows, n)
<1>1. NodesOK(ListNodes) /\ UpOf(ListNodes) = UpNodes
  BY ListOK
<1>2. JobsOK(ActiveRows, now) /\ JobsOK(PendingRows, now) /\ now \in Nat
  BY PlannedTrace
<1>3. PICK h, o, N : Trace(h, o, N, now, ListNodes, ActiveRows, PendingRows, policy) /\ Planned = h[N].decisions
  BY PlannedTrace
<1>4. N \in 0..N /\ h[N] \in Accs(ListNodes, ResTimes(now, ListNodes, ActiveRows, PendingRows))
  BY <1>3 DEF Trace
<1>5. \A a \in ActiveRows, b \in PendingRows : a.id # b.id
  BY PlacedArePut
<1>6. \A k \in 0..N : Accounts(h[k], ListNodes, ActiveRows, PendingRows, now)
  BY <1>1, <1>2, <1>3, <1>5, AccountTrace
<1>7. Accounts(h[N], ListNodes, ActiveRows, PendingRows, now)
  BY <1>4, <1>6
<1>8. S = Load(Planned, ActiveRows, PendingRows, now, n)
  BY PlacedArePut DEF Load
<1>9. NodeAccount(h[N].frees[n], n, S, S0) /\ IsFiniteSet(Put(Planned, PendingRows, now))
  BY <1>1, <1>3, <1>7, <1>8 DEF Accounts
<1>10. CpusOf(S) \in Nat /\ MemOf(S) \in Nat
  BY <1>2, <1>8, <1>9, PlannedFacts, LoadFinite
<1>11. n \in ListNodes
  BY DEF UpNodes
<1>12. CpusOf(S0) \in Nat /\ MemOf(S0) \in Nat
  BY <1>1, <1>2, <1>11, FreeFacts
<1>13. n.cpus \in Nat /\ n.mem \in Nat
  BY <1>1, <1>11 DEF NodesOK, NodeRecs
<1>14. h[N].frees[n].cpus \in Nat /\ h[N].frees[n].mem \in Nat
  BY <1>1, <1>4 DEF Accs, NodeRecs
<1> HIDE DEF S0
<1>15. subU(n.cpus, CpusOf(S0)) + CpusOf(S0) = n.cpus /\ subU(n.mem, MemOf(S0)) + MemOf(S0) = n.mem
  BY <1>12, <1>13, SubFacts DEF S0
<1>16. h[N].frees[n].cpus + CpusOf(S) = n.cpus /\ h[N].frees[n].mem + MemOf(S) = n.mem
  BY <1>9, <1>15 DEF NodeAccount
<1>17. QED BY <1>10, <1>13, <1>14, <1>16

\* The active rows after a pass.
LEMMA PassRows ==
    ASSUME TimelineType, Pass
    PROVE  ActiveRows' = ActiveRows \cup PlacedRows(Planned)
<1> DEFINE D == Planned
           On == {"ASSIGNED", "RUNNING"}
<1>1. \A j \in JobIds : Row(j).id = j
  BY RowFacts
<1>2. /\ spec' = spec /\ now' = now
      /\ st' = [j \in JobIds |-> IF \E d \in D : d.job = j THEN "ASSIGNED" ELSE st[j]]
      /\ times' = [j \in JobIds |-> IF \E d \in D : d.job = j
                                     THEN [times[j] EXCEPT !.assigned = now] ELSE times[j]]
      /\ place' = [j \in JobIds |-> IF \E d \in D : d.job = j
                                     THEN [node |-> (CHOOSE e \in D : e.job = j).node,
                                           devs |-> (CHOOSE e \in D : e.job = j).devs]
                                     ELSE place[j]]
  BY DEF Pass
<1>3. \A d \in D : d.job \in JobIds /\ st[d.job] = "PENDING"
  <2> TAKE d \in D
  <2>1. PICK b \in PendingRows : b.id = d.job
    BY PlannedFacts DEF Gets
  <2>2. PICK j \in JobIds : b = Row(j) /\ st[j] = "PENDING"
    BY DEF PendingRows, Rows
  <2>3. QED BY <1>1, <2>1, <2>2
<1>4. \A d, e \in D : d.job = e.job => d = e
  BY PlannedFacts DEF Disjoint
<1>5. D \in SUBSET Decisions
  BY PlannedFacts
<1>6. \A j \in JobIds : times[j] \in [submit : Nat, assigned : Nat, start : Nat \cup {NotStarted}]
  BY DEF TimelineType
<1>7. \A d \in D : (CHOOSE e \in D : e.job = d.job) = d
  <2> TAKE d \in D
  <2>1. (CHOOSE e \in D : e.job = d.job) \in D /\ (CHOOSE e \in D : e.job = d.job).job = d.job
    <3> HIDE DEF D
    <3> QED BY Zenon
  <2>2. QED BY <1>4, <2>1
<1> HIDE DEF D
<1>8. ASSUME NEW d \in D PROVE Row(d.job)' = [Row(d.job) EXCEPT !.node = d.node, !.devs = d.devs, !.assigned = now]
  <2>1. d.job \in JobIds
    BY <1>3
  <2>2. place'[d.job] = [node |-> d.node, devs |-> d.devs]
    BY <1>2, <1>7, <2>1
  <2>3. times'[d.job] = [times[d.job] EXCEPT !.assigned = now]
    BY <1>2, <2>1
  <2>4. times[d.job] \in [submit : Nat, assigned : Nat, start : Nat \cup {NotStarted}]
    BY <1>6, <2>1
  <2>5. /\ times'[d.job].submit = times[d.job].submit /\ times'[d.job].start = times[d.job].start
        /\ times'[d.job].assigned = now
    BY <2>3, <2>4
  <2>6. place'[d.job].node = d.node /\ place'[d.job].devs = d.devs /\ spec' = spec
    BY <1>2, <2>2
  <2> DEFINE r == Row(d.job)
             new == [id |-> d.job, priority |-> spec[d.job].priority, partition |-> spec[d.job].partition,
                     cpus |-> spec[d.job].cpus, mem |-> spec[d.job].mem, gpus |-> spec[d.job].gpus,
                     gpuType |-> spec[d.job].gpuType, walltime |-> spec[d.job].walltime,
                     submit |-> times[d.job].submit, assigned |-> now, start |-> times[d.job].start,
                     node |-> d.node, devs |-> d.devs]
  <2>7. Row(d.job)' = new
    BY <2>5, <2>6, Zenon DEF Row
  <2>8. r \in JobRecs
    BY <2>1, RowFacts
  <2>9. /\ r.id = d.job /\ r.priority = spec[d.job].priority /\ r.partition = spec[d.job].partition
        /\ r.cpus = spec[d.job].cpus /\ r.mem = spec[d.job].mem /\ r.gpus = spec[d.job].gpus
        /\ r.gpuType = spec[d.job].gpuType /\ r.walltime = spec[d.job].walltime
        /\ r.submit = times[d.job].submit /\ r.start = times[d.job].start
    BY DEF Row
  <2> HIDE DEF r
  <2>10. [r EXCEPT !.node = d.node, !.devs = d.devs, !.assigned = now] =
           [id |-> r.id, priority |-> r.priority, partition |-> r.partition,
            cpus |-> r.cpus, mem |-> r.mem, gpus |-> r.gpus, gpuType |-> r.gpuType, walltime |-> r.walltime,
            submit |-> r.submit, assigned |-> now, start |-> r.start, node |-> d.node, devs |-> d.devs]
    <3> DEFINE x == [r EXCEPT !.node = d.node, !.devs = d.devs, !.assigned = now]
    <3>1. d \in Decisions /\ now \in Nat
      BY <1>5 DEF TimelineType
    <3>2. /\ x \in JobRecs /\ x.node = d.node /\ x.devs = d.devs /\ x.assigned = now
          /\ x.id = r.id /\ x.priority = r.priority /\ x.partition = r.partition
          /\ x.cpus = r.cpus /\ x.mem = r.mem /\ x.gpus = r.gpus /\ x.gpuType = r.gpuType
          /\ x.walltime = r.walltime /\ x.submit = r.submit /\ x.start = r.start
      BY <2>8, <3>1 DEF JobRecs, Decisions
    <3> HIDE DEF x
    <3>3. x = [id |-> x.id, priority |-> x.priority, partition |-> x.partition,
               cpus |-> x.cpus, mem |-> x.mem, gpus |-> x.gpus, gpuType |-> x.gpuType,
               walltime |-> x.walltime, submit |-> x.submit, assigned |-> x.assigned,
               start |-> x.start, node |-> x.node, devs |-> x.devs]
      BY <3>2 DEF JobRecs
    <3>4. QED BY <3>2, <3>3, Zenon DEF x
  <2>11. [r EXCEPT !.node = d.node, !.devs = d.devs, !.assigned = now] = new
    BY <2>9, <2>10, Zenon
  <2>12. QED BY <2>7, <2>11 DEF r
<1>9. ASSUME NEW j \in JobIds, \A d \in D : d.job # j PROVE Row(j)' = Row(j) /\ st'[j] = st[j]
  BY <1>2, <1>9 DEF Row
<1>10. ActiveRows' = {Row(j)' : j \in {k \in JobIds : st'[k] \in On}}
  BY DEF ActiveRows, Rows
<1>11. ActiveRows = {Row(j) : j \in {k \in JobIds : st[k] \in On}}
  BY DEF ActiveRows, Rows
<1>12. PlacedRows(Planned) = {Row(d.job)' : d \in D}
  BY <1>8 DEF PlacedRows, D
<1>13. ASSUME NEW j \in JobIds, st'[j] \in On PROVE Row(j)' \in ActiveRows \/ \E d \in D : Row(j)' = Row(d.job)'
  <2>1. CASE \E d \in D : d.job = j
    BY <2>1
  <2>2. CASE \A d \in D : d.job # j
    BY <1>9, <1>11, <1>13, <2>2
  <2>3. QED BY <2>1, <2>2
<1>14. ASSUME NEW j \in JobIds, st[j] \in On PROVE Row(j) = Row(j)' /\ st'[j] \in On
  <2>1. \A d \in D : d.job # j
    BY <1>3, <1>14
  <2>2. QED BY <1>9, <1>14, <2>1
<1>15. ASSUME NEW d \in D PROVE d.job \in JobIds /\ st'[d.job] \in On
  BY <1>2, <1>3
<1>16. QED BY <1>10, <1>11, <1>12, <1>13, <1>14, <1>15

\* The jobs on a node are finitely many.
LEMMA HereFinite ==
    ASSUME TimelineType, NEW n
    PROVE  /\ IsFiniteSet(OnNodeOf(ActiveRows, n))
           /\ \A x \in OnNodeOf(ActiveRows, n) : x.cpus \in Nat /\ x.mem \in Nat
<1>1. JobsOK(ActiveRows, now)
  BY PlannedTrace
<1>2. OnNodeOf(ActiveRows, n) \in SUBSET ActiveRows
  BY DEF OnNodeOf
<1>3. IsFiniteSet(OnNodeOf(ActiveRows, n))
  BY <1>1, <1>2, FS_Subset DEF JobsOK
<1>4. QED BY <1>1, <1>2, <1>3 DEF JobsOK, JobRecs

\* Every step keeps the nodes within what they have.
LEMMA FitStep ==
    ASSUME TimelineType, NoOvercommit, [TimelineNext]_tvars
    PROVE  NoOvercommit'
<1> DEFINE On == {"ASSIGNED", "RUNNING"}
           Here(n) == OnNodeOf(ActiveRows, n)
<1>1. \A n \in Cluster : CpusOf(Here(n)) <= n.cpus /\ MemOf(Here(n)) <= n.mem
  BY DEF NoOvercommit, OnNodeOf
<1>2. SUFFICES ASSUME NEW n \in Cluster
               PROVE  CpusOf(Here(n)') <= n.cpus /\ MemOf(Here(n)') <= n.mem
  BY DEF NoOvercommit, OnNodeOf
<1>3. Here(n)' = OnNodeOf(ActiveRows', n)
  BY DEF OnNodeOf
<1>4. /\ IsFiniteSet(Here(n)) /\ \A x \in Here(n) : x.cpus \in Nat /\ x.mem \in Nat
  BY HereFinite
<1>5. \A j \in JobIds : Row(j).id = j /\ Row(j).cpus = spec[j].cpus /\ Row(j).mem = spec[j].mem
                        /\ Row(j).node = place[j].node
  BY RowFacts
<1>6. /\ ActiveRows' = {Row(j)' : j \in {k \in JobIds : st'[k] \in On}}
      /\ ActiveRows = {Row(j) : j \in {k \in JobIds : st[k] \in On}}
  BY DEF ActiveRows, Rows
<1>7. CASE ActiveRows' = ActiveRows
  BY <1>1, <1>3, <1>7
<1>8. ASSUME NEW j \in JobIds, Submit(j) PROVE ActiveRows' = ActiveRows
  <2>1. /\ st[j] = "absent" /\ spec' = spec /\ place' = place
        /\ st' = [st EXCEPT ![j] = "PENDING"] /\ times' = [times EXCEPT ![j].submit = now]
    BY <1>8 DEF Submit
  <2>2. \A k \in JobIds : k # j => st'[k] = st[k] /\ times'[k] = times[k]
    BY <2>1 DEF TimelineType
  <2>3. st'[j] = "PENDING"
    BY <2>1 DEF TimelineType
  <2>4. \A k \in JobIds : (st'[k] \in On <=> st[k] \in On) /\ (st[k] \in On => Row(k)' = Row(k))
    BY <2>1, <2>2, <2>3 DEF Row
  <2>5. QED BY <1>6, <2>4
<1>9. ASSUME NEW j \in JobIds, Start(j) PROVE CpusOf(Here(n)') <= n.cpus /\ MemOf(Here(n)') <= n.mem
  <2>1. /\ st[j] = "ASSIGNED" /\ spec' = spec /\ place' = place
        /\ st' = [st EXCEPT ![j] = "RUNNING"]
    BY <1>9 DEF Start
  <2>2. \A k \in JobIds : st'[k] \in On <=> st[k] \in On
    BY <2>1 DEF TimelineType
  <2>3. \A k \in JobIds : /\ Row(k)'.id = k /\ Row(k)'.cpus = Row(k).cpus /\ Row(k)'.mem = Row(k).mem
                          /\ Row(k)'.node = Row(k).node
    BY <2>1 DEF Row
  <2> DEFINE b == [x \in Here(n) |-> Row(x.id)']
  <2>4. \A x \in Here(n) : x.id \in JobIds /\ x = Row(x.id) /\ st[x.id] \in On /\ x.node = n.id
    BY <1>5, <1>6 DEF OnNodeOf
  <2>5. \A y \in Here(n)' : \E k \in JobIds : y = Row(k)' /\ st[k] \in On /\ Row(k).node = n.id
    BY <1>3, <1>6, <2>2, <2>3 DEF OnNodeOf
  <2>6. \A k \in JobIds : st[k] \in On /\ Row(k).node = n.id => Row(k) \in Here(n) /\ Row(k)' \in Here(n)'
    BY <1>3, <1>6, <2>2, <2>3 DEF OnNodeOf
  <2> HIDE DEF Here
  <2>7. PICK T : T = Here(n)'
    OBVIOUS
  <2>8. b \in [Here(n) -> T]
    BY <2>4, <2>6, <2>7
  <2>9. \A x \in Here(n) : b[x].cpus = x.cpus /\ b[x].mem = x.mem /\ b[x].id = x.id
    BY <2>3, <2>4
  <2>10. \A x, y \in Here(n) : b[x] = b[y] => x = y
    BY <2>4, <2>9
  <2>11. \A y \in T : \E x \in Here(n) : b[x] = y
    <3> TAKE y \in T
    <3>1. PICK k \in JobIds : y = Row(k)' /\ st[k] \in On /\ Row(k).node = n.id
      BY <2>5, <2>7
    <3>2. Row(k) \in Here(n) /\ Row(k).id = k
      BY <1>5, <2>6, <3>1
    <3>3. b[Row(k)] = y
      BY <3>1, <3>2
    <3>4. QED BY <3>2, <3>3
  <2> HIDE DEF b
  <2>12. CpusOf(T) = CpusOf(Here(n))
    BY <1>4, <2>8, <2>9, <2>10, <2>11, CpusOfFacts
  <2>13. MemOf(T) = MemOf(Here(n))
    BY <1>4, <2>8, <2>9, <2>10, <2>11, MemOfFacts
  <2>14. QED BY <1>1, <2>7, <2>12, <2>13
<1>10. ASSUME NEW j \in JobIds, End(j) PROVE CpusOf(Here(n)') <= n.cpus /\ MemOf(Here(n)') <= n.mem
  <2>1. /\ st[j] = "RUNNING" /\ spec' = spec
        /\ st' = [st EXCEPT ![j] = "ended"]
        /\ times' = [times EXCEPT ![j] = NoTimes] /\ place' = [place EXCEPT ![j] = Nowhere]
    BY <1>10 DEF End
  <2>2. \A k \in JobIds : k # j => st'[k] = st[k] /\ times'[k] = times[k] /\ place'[k] = place[k]
    BY <2>1 DEF TimelineType
  <2>3. st'[j] = "ended"
    BY <2>1 DEF TimelineType
  <2>4. \A k \in JobIds : /\ st'[k] \in On <=> st[k] \in On /\ k # j
                          /\ k # j => Row(k)' = Row(k)
    BY <2>1, <2>2, <2>3 DEF Row
  <2>5. ActiveRows' = ActiveRows \ {Row(j)}
    BY <1>5, <1>6, <2>4
  <2>6. Here(n)' = Here(n) \ {Row(j)}
    BY <1>3, <2>5 DEF OnNodeOf
  <2> HIDE DEF Here
  <2>7. CASE Row(j) \notin Here(n)
    <3>1. Here(n) \ {Row(j)} = Here(n)
      BY <2>7
    <3>2. QED BY <1>1, <2>6, <3>1
  <2>8. CASE Row(j) \in Here(n)
    <3>1. PICK x \in Here(n) : x = Row(j)
      BY <2>8
    <3>2. /\ CpusOf(Here(n)) = x.cpus + CpusOf(Here(n) \ {x})
          /\ MemOf(Here(n)) = x.mem + MemOf(Here(n) \ {x})
      BY <1>4, CpusOfFacts, MemOfFacts
    <3>3. IsFiniteSet(Here(n) \ {x}) /\ \A y \in Here(n) \ {x} : y.cpus \in Nat /\ y.mem \in Nat
      BY <1>4, FS_RemoveElement
    <3>4. CpusOf(Here(n) \ {x}) \in Nat /\ MemOf(Here(n) \ {x}) \in Nat
      BY <3>3, CpusOfFacts, MemOfFacts
    <3>5. x.cpus \in Nat /\ x.mem \in Nat /\ n.cpus \in Nat /\ n.mem \in Nat
      BY <1>4, TimelineAssumption
    <3>6. CpusOf(Here(n) \ {x}) <= n.cpus /\ MemOf(Here(n) \ {x}) <= n.mem
      BY <1>1, <3>2, <3>4, <3>5
    <3>7. QED BY <2>6, <3>1, <3>6
  <2>9. QED BY <2>7, <2>8
<1>11. ASSUME Pass PROVE CpusOf(Here(n)') <= n.cpus /\ MemOf(Here(n)') <= n.mem
  <2> DEFINE m == [n EXCEPT !.up = n.id \in upIds]
  <2>1. m \in ListNodes
    BY DEF ListNodes
  <2>2. m.id = n.id /\ m.cpus = n.cpus /\ m.mem = n.mem
    <3>1. n \in NodeRecs
      BY TimelineAssumption DEF NodeRecs, Devices
    <3>2. QED BY <3>1 DEF NodeRecs
  <2> HIDE DEF m
  <2>3. Here(n)' = OnNodeOf(ActiveRows \cup PlacedRows(Planned), m)
    BY <1>3, <1>11, <2>2, PassRows DEF OnNodeOf
  <2>4. OnNodeOf(ActiveRows, m) = Here(n)
    BY <2>2 DEF OnNodeOf
  <2>5. PICK S : S = OnNodeOf(ActiveRows \cup PlacedRows(Planned), m)
    OBVIOUS
  <2>6. CpusOf(OnNodeOf(ActiveRows, m)) <= m.cpus /\ MemOf(OnNodeOf(ActiveRows, m)) <= m.mem
    BY <1>1, <2>2, <2>4
  <2>7. CASE m \in UpNodes
    <3>1. CpusOf(S) <= m.cpus /\ MemOf(S) <= m.mem
      BY <2>5, <2>6, <2>7, PassFits
    <3>2. QED BY <2>2, <2>3, <2>5, <3>1
  <2>8. CASE m \notin UpNodes
    <3>1. \A x \in PlacedRows(Planned) : x.node # m.id
      <4> TAKE x \in PlacedRows(Planned)
      <4>1. x \in Put(Planned, PendingRows, now)
        BY PlacedArePut
      <4>2. PICK r \in PendingRows, d \in Planned : x = PutRow(r, d, now)
        BY <4>1 DEF Put
      <4>3. r \in JobRecs /\ d \in Decisions /\ now \in Nat
        BY PlannedFacts, PlannedTrace DEF JobsOK
      <4>4. x.node = d.node
        BY <4>2, <4>3, PutFacts
      <4>5. PICK u \in UpNodes : u.id = d.node
        BY PlannedFacts DEF Gets
      <4>6. u \in ListNodes /\ u # m
        BY <2>8 DEF UpNodes
      <4>7. u.id # m.id
        BY <2>1, <4>6, ListOK DEF NodesOK, IdsDiffer
      <4>8. QED BY <4>4, <4>5, <4>7
    <3>2. Here(n)' = Here(n)
      BY <2>3, <2>4, <3>1 DEF OnNodeOf
    <3>3. QED BY <1>1, <3>2
  <2>9. QED BY <2>7, <2>8
<1>12. ASSUME UNCHANGED <<spec, st, times, place>> PROVE ActiveRows' = ActiveRows
  BY <1>12 DEF ActiveRows, Rows, Row
<1>13. QED BY <1>7, <1>8, <1>9, <1>10, <1>11, <1>12 DEF TimelineNext, Tick, NodeFlips, tvars

\* No node is ever given more CPUs or memory than it has, however arrivals,
\* ends, passes and changes of the nodes follow each other (buildFree, consume).
THEOREM NodesAreNotOvercommitted == TimelineSpec => []NoOvercommit
<1>1. TimelineInit => NoOvercommit
  <2> SUFFICES ASSUME TimelineInit, NEW n \in Cluster
               PROVE  CpusOf({o \in ActiveRows : o.node = n.id}) <= n.cpus
                      /\ MemOf({o \in ActiveRows : o.node = n.id}) <= n.mem
    BY DEF NoOvercommit
  <2>1. {o \in ActiveRows : o.node = n.id} = {}
    BY DEF TimelineInit, ActiveRows, Rows
  <2>2. CpusOf({}) = 0 /\ MemOf({}) = 0
    BY FS_EmptySet, CpusOfFacts, MemOfFacts
  <2>3. n.cpus \in Nat /\ n.mem \in Nat
    BY TimelineAssumption
  <2>4. QED BY <2>1, <2>2, <2>3
<1>2. TimelineType /\ NoOvercommit /\ [TimelineNext]_tvars => NoOvercommit'
  BY FitStep
<1>3. QED BY <1>1, <1>2, TimelineTypes, PTL DEF TimelineSpec

-----------------------------------------------------------------------------
(* Why a job is left out *)

\* Room beside all the jobs of a node, the ones just placed included, is room in
\* the last view of the node.
LEMMA RoomIsSeen ==
    ASSUME TimelineType, NEW h, NEW o, NEW N,
           Trace(h, o, N, now, ListNodes, ActiveRows, PendingRows, policy), Planned = h[N].decisions,
           NEW b \in PendingRows, NEW n \in UpNodes,
           RoomBeside(b, n, ActiveRows \cup PlacedRows(Planned))
    PROVE  HasRoom(h[N].frees[n], b)
<1>1. NodesOK(ListNodes) /\ UpOf(ListNodes) = UpNodes
  BY ListOK
<1>2. JobsOK(ActiveRows, now) /\ JobsOK(PendingRows, now) /\ now \in Nat
  BY PlannedTrace
<1>3. N \in 0..N /\ h[N] \in Accs(ListNodes, ResTimes(now, ListNodes, ActiveRows, PendingRows))
  BY DEF Trace
<1>4. \A a \in ActiveRows, c \in PendingRows : a.id # c.id
  BY PlacedArePut
<1>5. \A k \in 0..N : Accounts(h[k], ListNodes, ActiveRows, PendingRows, now)
  BY <1>1, <1>2, <1>4, AccountTrace
<1>6. Accounts(h[N], ListNodes, ActiveRows, PendingRows, now)
  BY <1>3, <1>5
<1>7. \A k \in 0..N : SoundAcc(h[k], FirstJobs(o, k), ListNodes, ActiveRows)
  BY <1>1, <1>2, SoundTrace
<1>8. ViewOK(h[N].frees[n], n, ActiveRows)
  BY <1>1, <1>3, <1>7 DEF SoundAcc
<1>9. PICK S, S0 : /\ S = OnNodeOf(ActiveRows \cup PlacedRows(Planned), n)
                   /\ S0 = OnNodeOf(ActiveRows, n)
  OBVIOUS
<1>10. S = Load(Planned, ActiveRows, PendingRows, now, n)
  BY <1>9, PlacedArePut DEF Load
<1>11. NodeAccount(h[N].frees[n], n, S, S0) /\ IsFiniteSet(Put(Planned, PendingRows, now))
  BY <1>1, <1>6, <1>9, <1>10 DEF Accounts
<1>12. CpusOf(S) \in Nat /\ MemOf(S) \in Nat
  BY <1>2, <1>10, <1>11, PlannedFacts, LoadFinite
<1>13. n \in ListNodes
  BY DEF UpNodes
<1>14. CpusOf(S0) \in Nat /\ MemOf(S0) \in Nat
  BY <1>1, <1>2, <1>9, <1>13, FreeFacts
<1>15. n.cpus \in Nat /\ n.mem \in Nat
  BY <1>1, <1>13 DEF NodesOK, NodeRecs
<1>16. PICK fn \in NodeRecs : fn = h[N].frees[n]
  BY <1>1, <1>3 DEF Accs
<1>17. b \in JobRecs
  BY <1>2 DEF JobsOK
<1>18. S = {x \in ActiveRows \cup PlacedRows(Planned) : x.node = n.id}
  BY <1>9 DEF OnNodeOf
<1>19. /\ b.partition \in {"", n.partition}
       /\ b.cpus + CpusOf(S) <= n.cpus
       /\ b.mem + MemOf(S) <= n.mem
       /\ b.gpus <= Cardinality({d \in n.devices :
                       d.key \notin DevsOf(S) /\ (b.gpuType = "" \/ b.gpuType \in d.name)})
  BY <1>18, Zenon DEF RoomBeside
<1>20. PartitionOK(b, fn)
  BY <1>8, <1>16, <1>19 DEF PartitionOK, ViewOK
<1>21. fn.cpus >= b.cpus
  <2>1. subU(n.cpus, CpusOf(S0)) + CpusOf(S0) >= n.cpus
    BY <1>14, <1>15, SubFacts
  <2>2. fn.cpus + CpusOf(S) >= n.cpus
    BY <1>11, <1>16, <2>1 DEF NodeAccount
  <2>3. fn.cpus \in Nat /\ b.cpus \in Nat
    BY <1>17 DEF NodeRecs, JobRecs
  <2>4. b.cpus + CpusOf(S) <= n.cpus
    BY <1>19
  <2>5. QED BY <1>12, <1>15, <2>2, <2>3, <2>4
<1>22. fn.mem >= b.mem
  <2>1. subU(n.mem, MemOf(S0)) + MemOf(S0) >= n.mem
    BY <1>14, <1>15, SubFacts
  <2>2. fn.mem + MemOf(S) >= n.mem
    BY <1>11, <1>16, <2>1 DEF NodeAccount
  <2>3. fn.mem \in Nat /\ b.mem \in Nat
    BY <1>17 DEF NodeRecs, JobRecs
  <2>4. b.mem + MemOf(S) <= n.mem
    BY <1>19
  <2>5. QED BY <1>12, <1>15, <2>2, <2>3, <2>4
<1>23. Cardinality(Matching(fn.devices, b.gpuType)) >= b.gpus
  <2> DEFINE M == {d \in n.devices : d.key \notin DevsOf(S) /\ (b.gpuType = "" \/ b.gpuType \in d.name)}
  <2>1. fn.devices = {dev \in n.devices : dev.key \notin DevsOf(S)}
    BY <1>11, <1>16 DEF NodeAccount
  <2>2. Matching(fn.devices, b.gpuType) = M
    BY <2>1 DEF Matching, matchName
  <2>3. IsFiniteSet(M)
    <3>1. M \in SUBSET n.devices
      OBVIOUS
    <3>2. IsFiniteSet(n.devices)
      BY <1>1, <1>13 DEF NodesOK, DevicesDiffer
    <3> HIDE DEF M
    <3>3. QED BY <3>1, <3>2, FS_Subset
  <2>4. b.gpus <= Cardinality(M)
    BY <1>19
  <2> HIDE DEF M
  <2>5. Cardinality(M) \in Nat
    BY <2>3, FS_CardinalityType
  <2>6. b.gpus \in Nat
    BY <1>17 DEF JobRecs
  <2>7. QED BY <2>2, <2>4, <2>5, <2>6
<1>24. HasRoom(fn, b)
  BY <1>20, <1>21, <1>22, <1>23 DEF HasRoom
<1>25. QED BY <1>16, <1>24

\* A job for which the cluster has an eligible node could run on it alone.
LEMMA EligibleRuns ==
    ASSUME TimelineType, NEW b \in PendingRows, Eligible(b, ListNodes) # {}
    PROVE  EverRuns(b)
<1>1. PICK n \in ListNodes : n.up /\ HasRoom(n, b)
  BY DEF Eligible
<1>2. n \in UpNodes
  BY <1>1 DEF UpNodes
<1>3. CpusOf({}) = 0 /\ MemOf({}) = 0
  BY FS_EmptySet, CpusOfFacts, MemOfFacts
<1>4. DevsOf({}) = {}
  BY DEF DevsOf
<1>5. b.cpus \in Nat /\ b.mem \in Nat /\ b.gpus \in Nat
  BY PlannedTrace DEF JobsOK, JobRecs
<1>6. n.cpus \in Nat /\ n.mem \in Nat /\ IsFiniteSet(n.devices)
  BY ListOK DEF NodesOK, NodeRecs, DevicesDiffer
<1>7. {d \in n.devices : d.key \notin {} /\ (b.gpuType = "" \/ b.gpuType \in d.name)} = Matching(n.devices, b.gpuType)
  BY DEF Matching, matchName
<1>8. Cardinality(Matching(n.devices, b.gpuType)) \in Nat
  <2>1. Matching(n.devices, b.gpuType) \in SUBSET n.devices
    BY DEF Matching
  <2>2. IsFiniteSet(Matching(n.devices, b.gpuType))
    BY <1>6, <2>1, FS_Subset
  <2>3. QED BY <2>2, FS_CardinalityType
<1>9. /\ b.partition \in {"", n.partition} /\ b.cpus + 0 <= n.cpus /\ b.mem + 0 <= n.mem
      /\ b.gpus <= Cardinality(Matching(n.devices, b.gpuType))
  <2>1. PartitionOK(b, n) /\ n.cpus >= b.cpus /\ n.mem >= b.mem
        /\ Cardinality(Matching(n.devices, b.gpuType)) >= b.gpus
    BY <1>1 DEF HasRoom
  <2>2. b.partition \in {"", n.partition}
    BY <2>1 DEF PartitionOK
  <2>3. b.cpus + 0 <= n.cpus /\ b.mem + 0 <= n.mem /\ b.gpus <= Cardinality(Matching(n.devices, b.gpuType))
    BY <1>5, <1>6, <1>8, <2>1
  <2>4. QED BY <2>2, <2>3
<1>10. {x \in {} : x.node = n.id} = {}
  OBVIOUS
<1>11. RoomBeside(b, n, {})
  BY <1>3, <1>4, <1>7, <1>9, <1>10, Zenon DEF RoomBeside
<1>12. QED BY <1>2, <1>11 DEF EverRuns

\* A plan leaves a job out only if it has no room beside the others, or, with
\* backfill, behind the first job that could not be placed and is waiting for
\* its reservation: the scheduler wastes nothing else (Plan).
THEOREM NothingIsLeftOutWithoutCause == TimelineSpec => []LeftOutForCause
<1>1. TimelineType => LeftOutForCause
  <2> SUFFICES ASSUME TimelineType, NEW b \in LeftOut(Planned), NEW n \in UpNodes,
                      RoomBeside(b, n, ActiveRows \cup PlacedRows(Planned))
               PROVE  policy.backfill /\ \E c \in HeldBack(Planned) : c # b /\ Ahead(c, b)
    BY DEF LeftOutForCause
  <2>1. PICK h, o, N : Trace(h, o, N, now, ListNodes, ActiveRows, PendingRows, policy) /\ Planned = h[N].decisions
    BY PlannedTrace
  <2>2. /\ N \in Nat /\ N \in 0..N /\ o \in [1..N -> PendingRows]
        /\ \A j \in PendingRows : \E i \in 1..N : o[i] = j
        /\ \A i, k \in 1..N : i < k <=> Before(o[i], o[k], now, policy.ageWeight)
        /\ \A i, k \in 1..N : o[i].id = o[k].id => i = k
        /\ \A k \in 0..N : h[k] \in Accs(ListNodes, ResTimes(now, ListNodes, ActiveRows, PendingRows))
    BY <2>1 DEF Trace
  <2>3. NodesOK(ListNodes) /\ UpOf(ListNodes) = UpNodes
    BY ListOK
  <2>4. JobsOK(ActiveRows, now) /\ JobsOK(PendingRows, now) /\ now \in Nat
    BY PlannedTrace
  <2>5. b \in PendingRows /\ \A e \in Planned : e.job # b.id
    BY DEF LeftOut
  <2>6. PICK k \in 1..N : o[k] = b
    BY <2>2, <2>5
  <2>7. PICK p \in 0..N : p = k - 1 /\ p <= N
    <3>1. k - 1 \in 0..N /\ k - 1 <= N
      BY <2>2
    <3>2. QED BY <3>1
  <2>8. Skips(h[p], h[k], b, now, policy) \/ Blocks(h[p], h[k], b, now, ListNodes, ActiveRows, policy)
    BY <2>1, <2>5, <2>6, <2>7, LeftOutInTurn
  <2>9. ~Blocks(h[p], h[k], b, now, ListNodes, ActiveRows, policy)
    <3>1. PICK fm \in NodeRecs, fn \in NodeRecs : fm = h[p].frees[n] /\ fn = h[N].frees[n]
      BY <2>2, <2>3, <2>7 DEF Accs
    <3>2. HasRoom(fn, b)
      BY <2>1, <2>5, <3>1, RoomIsSeen
    <3>3. Shrinks(h[p], h[N], ListNodes)
      BY <2>1, <2>2, <2>4, <2>7, ShrinkTrace
    <3>4. /\ fn.partition = fm.partition /\ fn.cpus <= fm.cpus /\ fn.mem <= fm.mem
          /\ fn.devices \in SUBSET fm.devices
      BY <2>3, <3>1, <3>3 DEF Shrinks
    <3>5. fm.cpus >= fn.cpus /\ fm.mem >= fn.mem
      BY <3>4 DEF NodeRecs
    <3>6. IsFiniteSet(fm.devices)
      <4>1. SoundAcc(h[p], FirstJobs(o, p), ListNodes, ActiveRows)
        BY <2>1, <2>3, <2>4, <2>7, SoundTrace
      <4>2. fm.devices \in SUBSET n.devices
        BY <2>3, <3>1, <4>1 DEF SoundAcc, ViewOK
      <4>3. IsFiniteSet(n.devices)
        BY <2>3 DEF NodesOK, DevicesDiffer, UpNodes
      <4>4. QED BY <4>2, <4>3, FS_Subset
    <3>7. b \in JobRecs
      BY <2>4, <2>5 DEF JobsOK
    <3>8. HasRoom(fm, b)
      BY <3>2, <3>4, <3>5, <3>6, <3>7, RoomGrows
    <3>9. n \in DOMAIN h[p].frees
      BY <2>2, <2>3, <2>7 DEF Accs
    <3>10. QED BY <3>1, <3>8, <3>9 DEF Blocks
  <2>10. policy.backfill /\ h[p].haveRes
    BY <2>8, <2>9 DEF Skips
  <2>11. PICK i \in 1..N : /\ i <= p /\ Blocks(h[i - 1], h[i], o[i], now, ListNodes, ActiveRows, policy)
                           /\ Eligible(o[i], ListNodes) # {}
    BY <2>1, <2>7, <2>10, ReservedInTurn
  <2>12. o[i] \in LeftOut(Planned) /\ EverRuns(o[i])
    <3>1. o[i] \in PendingRows
      BY <2>2
    <3>2. ASSUME NEW e \in Planned, e.job = o[i].id PROVE FALSE
      <4>1. PICK j \in 1..N : /\ e.job = o[j].id
                              /\ \E m \in UpNodes, keys \in SUBSET Nat :
                                    Places(h[j - 1], h[j], o[j], m, keys, now, policy)
        BY <2>1, PlannedInTurn
      <4>2. j = i
        BY <2>2, <3>2, <4>1
      <4>3. PICK m \in UpNodes, keys \in SUBSET Nat : Places(h[i - 1], h[i], o[i], m, keys, now, policy)
        BY <4>1, <4>2
      <4>4. PICK q \in 0..N : q = i - 1
        BY <2>2
      <4>5. m \in DOMAIN h[q].frees
        BY <2>2, <2>3 DEF Accs
      <4>6. QED BY <2>11, <4>3, <4>4, <4>5 DEF Blocks, Places
    <3>3. QED BY <2>11, <3>1, <3>2, EligibleRuns DEF LeftOut
  <2> DEFINE T == {m \in 1..N : o[m] \in LeftOut(Planned) /\ EverRuns(o[m])}
  <2>13. T \in SUBSET Nat /\ i \in T
    BY <2>2, <2>12
  <2>14. PICK m \in T : \A q \in T : m <= q
    <3> HIDE DEF T
    <3> QED BY <2>13, LeastNat
  <2>15. m \in 1..N /\ o[m] \in LeftOut(Planned) /\ EverRuns(o[m]) /\ o[m] \in PendingRows
    BY <2>2, <2>14
  <2>16. \A c \in LeftOut(Planned) : c # o[m] /\ EverRuns(c) => Ahead(o[m], c)
    <3> TAKE c \in LeftOut(Planned)
    <3>1. SUFFICES ASSUME c # o[m], EverRuns(c) PROVE Ahead(o[m], c)
      OBVIOUS
    <3>2. c \in PendingRows
      BY DEF LeftOut
    <3>3. PICK q \in 1..N : o[q] = c
      BY <2>2, <3>2
    <3>4. m <= q /\ m # q
      BY <2>14, <3>1, <3>3
    <3>5. m < q
      BY <2>2, <2>15, <3>4
    <3>6. Before(o[m], c, now, policy.ageWeight)
      BY <2>2, <2>15, <3>3, <3>5
    <3>7. QED BY <2>15, <3>2, <3>6, AheadIsBefore
  <2>17. o[m] \in HeldBack(Planned)
    BY <2>15, <2>16 DEF HeldBack
  <2>18. m < k
    <3>1. m <= i
      BY <2>13, <2>14
    <3>2. QED BY <2>2, <2>7, <2>11, <2>15, <3>1
  <2>19. o[m] # b
    <3>1. o[m] = o[k] => m = k
      BY <2>2, <2>15
    <3>2. QED BY <2>2, <2>6, <2>15, <2>18, <3>1
  <2>20. Ahead(o[m], b)
    <3>1. Before(o[m], b, now, policy.ageWeight)
      BY <2>2, <2>6, <2>15, <2>18
    <3>2. QED BY <2>5, <2>15, <3>1, AheadIsBefore
  <2>21. QED BY <2>10, <2>17, <2>19, <2>20
<1>2. QED BY <1>1, TimelineTypes, PTL

-----------------------------------------------------------------------------
(* What is left of a node when some of its jobs have ended *)

\* The devices of the wanted type that jobs hold, as nodeReservationTime adds them up.
MatchOf(jobs, n, gpuType) == MapThenSumSet(LAMBDA j : countJobMatching(j, n, gpuType), jobs)

\* MatchOf is that sum.
LEMMA MatchOfSum ==
    ASSUME NEW n, NEW g, NEW S, IsFiniteSet(S), \A x \in S : countJobMatching(x, n, g) \in Nat
    PROVE  \E F : Adds(F, S, [x \in S |-> countJobMatching(x, n, g)]) /\ MatchOf(S, n, g) = F[S]
<1> DEFINE w == [x \in S |-> countJobMatching(x, n, g)]
           c == [s \in SUBSET S |-> CHOOSE x \in s : TRUE]
           Fold(f) == [s \in SUBSET S |-> IF s = {} THEN 0
                                         ELSE countJobMatching(CHOOSE x \in s : TRUE, n, g) + f[s \ {CHOOSE x \in s : TRUE}]]
           iter == CHOOSE f : f = Fold(f)
<1>1. MatchOf(S, n, g) = iter[S]
  BY Zenon DEF MatchOf, MapThenSumSet, MapThenFoldSet
<1>2. \A s \in SUBSET S : s # {} => /\ (CHOOSE x \in s : TRUE) \in s
                                    /\ c[s] = CHOOSE x \in s : TRUE
                                    /\ w[c[s]] = countJobMatching(CHOOSE x \in s : TRUE, n, g)
  <2>1. \A s \in SUBSET S : s # {} => (CHOOSE x \in s : TRUE) \in s
    BY Zenon
  <2>2. \A s \in SUBSET S : c[s] = CHOOSE x \in s : TRUE
    OBVIOUS
  <2> HIDE DEF c
  <2>3. QED BY <2>1, <2>2
<1>3. w \in [S -> Nat] /\ \A s \in SUBSET S : s # {} => c[s] \in s
  <2>1. w \in [S -> Nat]
    OBVIOUS
  <2> HIDE DEF w, c
  <2>2. QED BY <1>2, <2>1
<1> HIDE DEF w, c
<1>4. PICK F \in [SUBSET S -> Nat] : SumLoop(F, S, w, c)
  <2>1. w \in [S -> Nat] /\ Takes(c, S)
    BY <1>3 DEF Takes
  <2>2. QED BY <2>1, SumExists
<1>5. F = Fold(F)
  <2>1. ASSUME NEW s \in SUBSET S
        PROVE  F[s] = IF s = {} THEN 0 ELSE countJobMatching(CHOOSE x \in s : TRUE, n, g) + F[s \ {CHOOSE x \in s : TRUE}]
    BY <1>2, <1>4 DEF SumLoop
  <2>2. QED BY <2>1
<1>6. iter = Fold(iter)
  <2> HIDE DEF Fold
  <2> QED BY <1>5, Zenon
<1> HIDE DEF iter
<1>7. \A s \in SUBSET S : iter[s] = IF s = {} THEN 0 ELSE w[c[s]] + iter[s \ {c[s]}]
  <2>1. \A s \in SUBSET S : iter[s] = IF s = {} THEN 0
             ELSE countJobMatching(CHOOSE x \in s : TRUE, n, g) + iter[s \ {CHOOSE x \in s : TRUE}]
    BY <1>6
  <2>2. QED BY <1>2, <2>1
<1>8. iter \in [SUBSET S -> Nat]
  <2> DEFINE P == {k \in Nat : \A s \in SUBSET S : Cardinality(s) = k => iter[s] \in Nat}
  <2>1. \A s \in SUBSET S : IsFiniteSet(s) /\ Cardinality(s) \in Nat /\ (Cardinality(s) = 0 <=> s = {})
    <3> TAKE s \in SUBSET S
    <3>1. IsFiniteSet(s)
      BY FS_Subset
    <3>2. QED BY <3>1, FS_CardinalityType, FS_EmptySet
  <2>2. 0 \in P
    BY <1>7, <2>1
  <2>3. ASSUME NEW k \in Nat, k \in P PROVE k + 1 \in P
    <3>1. ASSUME NEW s \in SUBSET S, Cardinality(s) = k + 1 PROVE iter[s] \in Nat
      <4>1. s # {} /\ c[s] \in s /\ s \ {c[s]} \in SUBSET S
        BY <1>3, <2>1, <3>1
      <4>2. Cardinality(s \ {c[s]}) = Cardinality(s) - 1
        BY <2>1, <4>1, FS_RemoveElement
      <4>3. iter[s \ {c[s]}] \in Nat
        BY <2>3, <3>1, <4>1, <4>2
      <4>4. w[c[s]] \in Nat
        BY <1>3, <4>1
      <4>5. iter[s] = w[c[s]] + iter[s \ {c[s]}]
        BY <1>7, <4>1
      <4>6. QED BY <4>3, <4>4, <4>5
    <3>2. QED BY <3>1
  <2>4. \A k \in Nat : k \in P
    <3>1. \A k \in Nat : k \in P => k + 1 \in P
      BY <2>3
    <3> HIDE DEF P
    <3>2. QED BY <2>2, <3>1, NatSetInduction
  <2>5. \A s \in SUBSET S : iter[s] \in Nat
    BY <2>1, <2>4
  <2>6. iter = [s \in SUBSET S |-> iter[s]]
    BY <1>6
  <2>7. QED BY <2>5, <2>6
<1>9. Adds(iter, S, w)
  <2>1. w \in [S -> Nat] /\ Takes(c, S) /\ SumLoop(iter, S, w, c)
    BY <1>3, <1>7 DEF Takes, SumLoop
  <2>2. QED BY <1>8, <2>1, SumAdds
<1>10. QED BY <1>1, <1>9 DEF w

\* A job more.
LEMMA MatchOfFacts ==
    ASSUME NEW n, NEW g, NEW S, IsFiniteSet(S), \A x \in S : countJobMatching(x, n, g) \in Nat
    PROVE  /\ MatchOf(S, n, g) \in Nat
           /\ S = {} => MatchOf(S, n, g) = 0
           /\ \A x \in S : MatchOf(S, n, g) = countJobMatching(x, n, g) + MatchOf(S \ {x}, n, g)
<1> DEFINE w(T) == [x \in T |-> countJobMatching(x, n, g)]
<1>1. PICK F : Adds(F, S, w(S)) /\ MatchOf(S, n, g) = F[S]
  BY MatchOfSum
<1>2. MatchOf(S, n, g) \in Nat /\ (S = {} => MatchOf(S, n, g) = 0)
  <2> HIDE DEF w
  <2> QED BY <1>1 DEF Adds
<1>3. w(S) \in [S -> Nat]
  OBVIOUS
<1>4. ASSUME NEW x \in S PROVE MatchOf(S, n, g) = countJobMatching(x, n, g) + MatchOf(S \ {x}, n, g)
  <2> DEFINE T == S \ {x}
             b == [y \in T |-> y]
  <2>1. IsFiniteSet(T) /\ T \in SUBSET S /\ \A y \in T : countJobMatching(y, n, g) \in Nat
    BY FS_RemoveElement
  <2>2. PICK G : Adds(G, T, w(T)) /\ MatchOf(T, n, g) = G[T]
    <3> HIDE DEF T
    <3> QED BY <2>1, MatchOfSum
  <2>3. /\ w(T) \in [T -> Nat] /\ b \in [T -> S] /\ Image(b, T) = T
        /\ \A y, z \in T : b[y] = b[z] => y = z
        /\ \A y \in T : w(T)[y] = w(S)[b[y]]
    BY <2>1 DEF Image
  <2>4. F[S] = w(S)[x] + F[S \ {x}] /\ w(S)[x] = countJobMatching(x, n, g)
    <3>1. w(S)[x] = countJobMatching(x, n, g) /\ S \in SUBSET S
      OBVIOUS
    <3> HIDE DEF w
    <3>2. QED BY <1>1, <3>1 DEF Adds
  <2> HIDE DEF T, b, w
  <2>5. G[T] = F[Image(b, T)]
    <3>1. w(T) \in [T -> Nat] /\ b \in [T -> S] /\ Keeps(b, T, w(T), w(S))
      BY <2>3 DEF Keeps
    <3>2. IsFiniteSet(T) /\ Adds(F, S, w(S)) /\ Adds(G, T, w(T)) /\ w(S) \in [S -> Nat]
      BY <1>1, <1>3, <2>1, <2>2
    <3>3. QED BY <3>1, <3>2, SumMaps
  <2>6. G[T] = F[T]
    BY <2>3, <2>5
  <2>7. QED BY <1>1, <2>2, <2>4, <2>6 DEF T
<1>5. QED BY <1>2, <1>4


\* Some jobs and the others need together what all need.
LEMMA CpusSplit ==
    ASSUME NEW S, IsFiniteSet(S), \A x \in S : x.cpus \in Nat
    PROVE  \A A \in SUBSET S : /\ CpusOf(A) \in Nat /\ CpusOf(S \ A) \in Nat
                               /\ CpusOf(S) = CpusOf(A) + CpusOf(S \ A)
<1> DEFINE Splits(A) == CpusOf(S) = CpusOf(A) + CpusOf(S \ A)
           P == {k \in Nat : \A A \in SUBSET S : Cardinality(A) = k => Splits(A)}
<1>1. \A A \in SUBSET S : /\ IsFiniteSet(A) /\ Cardinality(A) \in Nat /\ (Cardinality(A) = 0 <=> A = {})
                          /\ \A x \in A : x.cpus \in Nat
  <2> TAKE A \in SUBSET S
  <2>1. IsFiniteSet(A)
    BY FS_Subset
  <2>2. QED BY <2>1, FS_CardinalityType, FS_EmptySet
<1>2. \A A \in SUBSET S : /\ CpusOf(A) \in Nat /\ (A = {} => CpusOf(A) = 0)
                          /\ \A x \in A : CpusOf(A) = x.cpus + CpusOf(A \ {x})
  BY <1>1, CpusOfFacts
<1>3. 0 \in P
  <2> SUFFICES ASSUME NEW A \in SUBSET S, Cardinality(A) = 0 PROVE Splits(A)
    OBVIOUS
  <2>1. A = {} /\ S \ A = S /\ S \in SUBSET S
    BY <1>1
  <2>2. CpusOf(A) = 0 /\ CpusOf(S) \in Nat
    BY <1>2, <2>1
  <2>3. QED BY <2>1, <2>2
<1>4. ASSUME NEW k \in Nat, k \in P PROVE k + 1 \in P
  <2> SUFFICES ASSUME NEW A \in SUBSET S, Cardinality(A) = k + 1 PROVE Splits(A)
    OBVIOUS
  <2>1. PICK x \in A : TRUE
    BY <1>1
  <2>2. PICK B \in SUBSET S : B = A \ {x}
    OBVIOUS
  <2>3. Cardinality(B) = Cardinality(A) - 1
    BY <1>1, <2>2, FS_RemoveElement
  <2>4. Splits(B)
    <3>1. Cardinality(B) = k
      BY <2>3
    <3>2. QED BY <1>4, <3>1
  <2>5. CpusOf(A) = x.cpus + CpusOf(B)
    BY <1>2, <2>2
  <2>6. CpusOf(S \ B) = x.cpus + CpusOf(S \ A)
    <3>1. PICK C \in SUBSET S : C = S \ B
      OBVIOUS
    <3>2. x \in C /\ C \ {x} = S \ A
      BY <2>2, <3>1
    <3>3. CpusOf(C) = x.cpus + CpusOf(C \ {x})
      BY <1>2, <3>2
    <3>4. QED BY <3>1, <3>2, <3>3
  <2>7. x.cpus \in Nat /\ CpusOf(B) \in Nat /\ CpusOf(S \ A) \in Nat
    <3>1. S \ A \in SUBSET S
      OBVIOUS
    <3>2. QED BY <1>2, <3>1
  <2>8. CpusOf(S) = CpusOf(B) + CpusOf(S \ B)
    BY <2>4
  <2>9. QED BY <2>5, <2>6, <2>7, <2>8
<1>5. \A k \in Nat : k \in P
  <2>1. \A k \in Nat : k \in P => k + 1 \in P
    BY <1>4
  <2> HIDE DEF P
  <2>2. QED BY <1>3, <2>1, NatSetInduction
<1>6. \A A \in SUBSET S : Splits(A)
  <2> HIDE DEF Splits
  <2> QED BY <1>1, <1>5
<1>7. \A A \in SUBSET S : S \ A \in SUBSET S
  OBVIOUS
<1>8. QED BY <1>2, <1>6, <1>7

\* The same for the memory.
LEMMA MemSplit ==
    ASSUME NEW S, IsFiniteSet(S), \A x \in S : x.mem \in Nat
    PROVE  \A A \in SUBSET S : /\ MemOf(A) \in Nat /\ MemOf(S \ A) \in Nat
                               /\ MemOf(S) = MemOf(A) + MemOf(S \ A)
<1> DEFINE Splits(A) == MemOf(S) = MemOf(A) + MemOf(S \ A)
           P == {k \in Nat : \A A \in SUBSET S : Cardinality(A) = k => Splits(A)}
<1>1. \A A \in SUBSET S : /\ IsFiniteSet(A) /\ Cardinality(A) \in Nat /\ (Cardinality(A) = 0 <=> A = {})
                          /\ \A x \in A : x.mem \in Nat
  <2> TAKE A \in SUBSET S
  <2>1. IsFiniteSet(A)
    BY FS_Subset
  <2>2. QED BY <2>1, FS_CardinalityType, FS_EmptySet
<1>2. \A A \in SUBSET S : /\ MemOf(A) \in Nat /\ (A = {} => MemOf(A) = 0)
                          /\ \A x \in A : MemOf(A) = x.mem + MemOf(A \ {x})
  BY <1>1, MemOfFacts
<1>3. 0 \in P
  <2> SUFFICES ASSUME NEW A \in SUBSET S, Cardinality(A) = 0 PROVE Splits(A)
    OBVIOUS
  <2>1. A = {} /\ S \ A = S /\ S \in SUBSET S
    BY <1>1
  <2>2. MemOf(A) = 0 /\ MemOf(S) \in Nat
    BY <1>2, <2>1
  <2>3. QED BY <2>1, <2>2
<1>4. ASSUME NEW k \in Nat, k \in P PROVE k + 1 \in P
  <2> SUFFICES ASSUME NEW A \in SUBSET S, Cardinality(A) = k + 1 PROVE Splits(A)
    OBVIOUS
  <2>1. PICK x \in A : TRUE
    BY <1>1
  <2>2. PICK B \in SUBSET S : B = A \ {x}
    OBVIOUS
  <2>3. Cardinality(B) = Cardinality(A) - 1
    BY <1>1, <2>2, FS_RemoveElement
  <2>4. Splits(B)
    <3>1. Cardinality(B) = k
      BY <2>3
    <3>2. QED BY <1>4, <3>1
  <2>5. MemOf(A) = x.mem + MemOf(B)
    BY <1>2, <2>2
  <2>6. MemOf(S \ B) = x.mem + MemOf(S \ A)
    <3>1. PICK C \in SUBSET S : C = S \ B
      OBVIOUS
    <3>2. x \in C /\ C \ {x} = S \ A
      BY <2>2, <3>1
    <3>3. MemOf(C) = x.mem + MemOf(C \ {x})
      BY <1>2, <3>2
    <3>4. QED BY <3>1, <3>2, <3>3
  <2>7. x.mem \in Nat /\ MemOf(B) \in Nat /\ MemOf(S \ A) \in Nat
    <3>1. S \ A \in SUBSET S
      OBVIOUS
    <3>2. QED BY <1>2, <3>1
  <2>8. MemOf(S) = MemOf(B) + MemOf(S \ B)
    BY <2>4
  <2>9. QED BY <2>5, <2>6, <2>7, <2>8
<1>5. \A k \in Nat : k \in P
  <2>1. \A k \in Nat : k \in P => k + 1 \in P
    BY <1>4
  <2> HIDE DEF P
  <2>2. QED BY <1>3, <2>1, NatSetInduction
<1>6. \A A \in SUBSET S : Splits(A)
  <2> HIDE DEF Splits
  <2> QED BY <1>1, <1>5
<1>7. \A A \in SUBSET S : S \ A \in SUBSET S
  OBVIOUS
<1>8. QED BY <1>2, <1>6, <1>7

\* A finite set of numbers that is not empty has a greatest.
LEMMA GreatestNat ==
    ASSUME NEW S \in SUBSET Nat, IsFiniteSet(S), S # {}
    PROVE  \E m \in S : \A k \in S : k <= m
<1> DEFINE Top(A) == \E m \in A : \A k \in A : k <= m
           P == {c \in Nat : \A A \in SUBSET S : Cardinality(A) = c /\ A # {} => Top(A)}
<1>1. \A A \in SUBSET S : IsFiniteSet(A) /\ Cardinality(A) \in Nat /\ (Cardinality(A) = 0 <=> A = {})
  <2> TAKE A \in SUBSET S
  <2>1. IsFiniteSet(A)
    BY FS_Subset
  <2>2. QED BY <2>1, FS_CardinalityType, FS_EmptySet
<1>2. 0 \in P
  BY <1>1
<1>3. ASSUME NEW c \in Nat, c \in P PROVE c + 1 \in P
  <2> SUFFICES ASSUME NEW A \in SUBSET S, Cardinality(A) = c + 1, A # {} PROVE Top(A)
    OBVIOUS
  <2>1. PICK x \in A : TRUE
    OBVIOUS
  <2>2. PICK B \in SUBSET S : B = A \ {x}
    OBVIOUS
  <2>3. Cardinality(B) = Cardinality(A) - 1
    BY <1>1, <2>2, FS_RemoveElement
  <2>4. CASE B = {}
    <3>1. A = {x} /\ x \in Nat
      BY <2>2, <2>4
    <3>2. QED BY <3>1
  <2>5. CASE B # {}
    <3>1. Top(B)
      <4>1. Cardinality(B) = c
        BY <2>3
      <4>2. QED BY <1>3, <2>5, <4>1
    <3>2. PICK m \in B : \A k \in B : k <= m
      BY <3>1
    <3>3. CASE x <= m
      <4>1. m \in A /\ \A k \in A : k <= m
        BY <2>2, <3>2, <3>3
      <4>2. QED BY <4>1
    <3>4. CASE ~(x <= m)
      <4>1. \A k \in A : k \in Nat
        OBVIOUS
      <4>2. m \in Nat /\ x \in Nat
        OBVIOUS
      <4>3. ASSUME NEW k \in A PROVE k <= x
        BY <2>2, <3>2, <3>4, <4>1, <4>2
      <4>4. QED BY <4>3
    <3>5. QED BY <3>3, <3>4
  <2>6. QED BY <2>4, <2>5
<1>4. Cardinality(S) \in P
  <2>1. \A c \in Nat : c \in P => c + 1 \in P
    BY <1>3
  <2>2. Cardinality(S) \in Nat
    BY FS_CardinalityType
  <2> HIDE DEF P
  <2>3. QED BY <1>2, <2>1, <2>2, NatSetInduction
<1>5. Top(S)
  <2>1. S \in SUBSET S
    OBVIOUS
  <2>2. QED BY <1>4, <2>1
<1>6. QED BY <1>5

\* The minimum of a set of numbers.
LEMMA MinFacts ==
    ASSUME NEW S \in SUBSET Nat, S # {}
    PROVE  Min(S) \in S /\ \A k \in S : Min(S) <= k
<1>1. \E m \in S : \A k \in S : m <= k
  BY LeastNat
<1>2. QED BY <1>1, Zenon DEF Min

\* The devices of a node as the jobs on it hold them: all of the node, and no
\* device of two jobs.
Held(jobs, n) ==
    /\ \A x \in jobs : x.devs \in SUBSET KeysFor(n.devices, "")
    /\ \A x, y \in jobs : x # y => x.devs \cap y.devs = {}

\* A key counts as of the wanted type when the node's device of that key is.
LEMMA MatchKeys ==
    ASSUME NEW n \in NodeRecs, DevicesDiffer(n.devices), NEW x, x.devs \in SUBSET KeysFor(n.devices, ""), NEW g
    PROVE  /\ IsFiniteSet(x.devs)
           /\ countJobMatching(x, n, g) = Cardinality(x.devs \cap KeysFor(n.devices, g))
           /\ countJobMatching(x, n, g) \in Nat
<1>1. n.devices \in SUBSET Devices
  BY DEF NodeRecs
<1>2. IsFiniteSet(KeysFor(n.devices, ""))
  BY <1>1, KeysCount
<1>3. IsFiniteSet(x.devs)
  BY <1>2, FS_Subset
<1>4. {k \in x.devs : \/ g = ""
                      \/ \E d \in n.devices : d.key = k /\ matchName(d.name, g)} = x.devs \cap KeysFor(n.devices, g)
  BY DEF KeysFor, Matching, matchName
<1>5. IsFiniteSet(x.devs \cap KeysFor(n.devices, g))
  BY <1>3, FS_Subset
<1>6. countJobMatching(x, n, g) = Cardinality(x.devs \cap KeysFor(n.devices, g))
  BY <1>4 DEF countJobMatching
<1>7. QED BY <1>3, <1>5, <1>6, FS_CardinalityType

\* So what nodeReservationTime adds up is how many such keys are held.
LEMMA MatchCount ==
    ASSUME NEW n \in NodeRecs, DevicesDiffer(n.devices), NEW g, NEW S, IsFiniteSet(S), Held(S, n)
    PROVE  \A T \in SUBSET S : /\ IsFiniteSet(DevsOf(T) \cap KeysFor(n.devices, g))
                               /\ MatchOf(T, n, g) = Cardinality(DevsOf(T) \cap KeysFor(n.devices, g))
<1> DEFINE K == KeysFor(n.devices, g)
           Counts(T) == MatchOf(T, n, g) = Cardinality(DevsOf(T) \cap K)
           P == {k \in Nat : \A T \in SUBSET S : Cardinality(T) = k => Counts(T)}
<1>1. \A T \in SUBSET S : IsFiniteSet(T) /\ Cardinality(T) \in Nat /\ (Cardinality(T) = 0 <=> T = {})
  <2> TAKE T \in SUBSET S
  <2>1. IsFiniteSet(T)
    BY FS_Subset
  <2>2. QED BY <2>1, FS_CardinalityType, FS_EmptySet
<1>2. IsFiniteSet(K)
  <2>1. n.devices \in SUBSET Devices
    BY DEF NodeRecs
  <2>2. QED BY <2>1, KeysCount
<1> HIDE DEF K
<1>3. \A x \in S : /\ countJobMatching(x, n, g) = Cardinality(x.devs \cap K)
                   /\ countJobMatching(x, n, g) \in Nat
  <2> TAKE x \in S
  <2>1. x.devs \in SUBSET KeysFor(n.devices, "")
    BY DEF Held
  <2>2. QED BY <2>1, MatchKeys DEF K
<1>4. \A T \in SUBSET S : /\ T = {} => MatchOf(T, n, g) = 0
                          /\ \A x \in T : MatchOf(T, n, g) = countJobMatching(x, n, g) + MatchOf(T \ {x}, n, g)
  <2> TAKE T \in SUBSET S
  <2>1. IsFiniteSet(T) /\ \A x \in T : countJobMatching(x, n, g) \in Nat
    BY <1>1, <1>3
  <2>2. QED BY <2>1, MatchOfFacts
<1>5. \A T \in SUBSET S : IsFiniteSet(DevsOf(T) \cap K)
  BY <1>2, FS_Subset
<1>6. 0 \in P
  <2> SUFFICES ASSUME NEW T \in SUBSET S, Cardinality(T) = 0 PROVE Counts(T)
    OBVIOUS
  <2>1. T = {} /\ DevsOf(T) \cap K = {}
    BY <1>1 DEF DevsOf
  <2>2. MatchOf(T, n, g) = 0 /\ Cardinality({}) = 0
    BY <1>4, <2>1, FS_EmptySet
  <2>3. QED BY <2>1, <2>2
<1>7. ASSUME NEW k \in Nat, k \in P PROVE k + 1 \in P
  <2> SUFFICES ASSUME NEW T \in SUBSET S, Cardinality(T) = k + 1 PROVE Counts(T)
    OBVIOUS
  <2>1. PICK x \in T : TRUE
    BY <1>1
  <2>2. PICK U \in SUBSET S : U = T \ {x}
    OBVIOUS
  <2>3. Cardinality(U) = Cardinality(T) - 1
    BY <1>1, <2>2, FS_RemoveElement
  <2>4. Counts(U)
    <3>1. Cardinality(U) = k
      BY <2>3
    <3>2. QED BY <1>7, <3>1
  <2>5. PICK A, B : A = x.devs \cap K /\ B = DevsOf(U) \cap K
    OBVIOUS
  <2>6. DevsOf(T) \cap K = A \cup B
    BY <2>2, <2>5 DEF DevsOf
  <2>7. A \cap B = {}
    <3>1. \A y \in U : x.devs \cap y.devs = {}
      BY <2>2 DEF Held
    <3>2. QED BY <2>5, <3>1 DEF DevsOf
  <2>8. IsFiniteSet(A) /\ IsFiniteSet(B)
    BY <1>2, <2>5, FS_Subset
  <2>9. Cardinality(A \cap B) = 0
    BY <2>7, FS_EmptySet
  <2>10. /\ Cardinality(A \cup B) = Cardinality(A) + Cardinality(B) - Cardinality(A \cap B)
         /\ Cardinality(A) \in Nat /\ Cardinality(B) \in Nat
    BY <2>8, FS_Union, FS_CardinalityType
  <2>11. MatchOf(T, n, g) = Cardinality(A) + Cardinality(B)
    BY <1>3, <1>4, <2>2, <2>4, <2>5
  <2>12. Cardinality(A \cup B) = Cardinality(A) + Cardinality(B)
    BY <2>9, <2>10
  <2>13. QED BY <2>6, <2>11, <2>12
<1>8. \A k \in Nat : k \in P
  <2>1. \A k \in Nat : k \in P => k + 1 \in P
    BY <1>7
  <2> HIDE DEF P
  <2>2. QED BY <1>6, <2>1, NatSetInduction
<1>9. \A T \in SUBSET S : Counts(T)
  <2> HIDE DEF Counts
  <2> QED BY <1>1, <1>8
<1>10. QED BY <1>5, <1>9 DEF K

\* The devices that none of the jobs S holds.
NotHeld(n, S) == {d \in n.devices : d.key \notin DevsOf(S)}

\* How many devices of the wanted type are left.
LEMMA LeftCount ==
    ASSUME NEW n \in NodeRecs, DevicesDiffer(n.devices), NEW g, NEW S, IsFiniteSet(S), Held(S, n),
           NEW T \in SUBSET S
    PROVE  /\ Cardinality(Matching(NotHeld(n, T), g)) \in Nat
           /\ Cardinality(Matching(n.devices, g)) - MatchOf(T, n, g) = Cardinality(Matching(NotHeld(n, T), g))
<1>1. n.devices \in SUBSET Devices
  BY DEF NodeRecs
<1>2. PICK F : F = NotHeld(n, T)
  OBVIOUS
<1>3. F \in SUBSET Devices /\ F \in SUBSET n.devices
  BY <1>1, <1>2 DEF NotHeld
<1>4. DevicesDiffer(F)
  BY <1>3, FS_Subset DEF DevicesDiffer
<1>5. PICK K, L : K = KeysFor(n.devices, g) /\ L = KeysFor(F, g)
  OBVIOUS
<1>6. /\ IsFiniteSet(K) /\ Cardinality(K) = Cardinality(Matching(n.devices, g))
      /\ IsFiniteSet(L) /\ Cardinality(L) = Cardinality(Matching(F, g))
  BY <1>1, <1>3, <1>4, <1>5, KeysCount
<1>7. L = K \ DevsOf(T)
  BY <1>1, <1>2, <1>5 DEF KeysFor, Matching, NotHeld, DevicesDiffer
<1>8. DevsOf(T) \cap K = K \cap DevsOf(T)
  OBVIOUS
<1>9. MatchOf(T, n, g) = Cardinality(K \cap DevsOf(T))
  BY <1>5, <1>8, MatchCount
<1>10. Cardinality(K \ DevsOf(T)) = Cardinality(K) - Cardinality(K \cap DevsOf(T))
  BY <1>6, FS_Difference
<1>11. Cardinality(L) \in Nat
  BY <1>6, FS_CardinalityType
<1>12. QED BY <1>2, <1>6, <1>7, <1>9, <1>10, <1>11

\* Room beside jobs, in the terms of Plan.
LEMMA RoomIs ==
    ASSUME NEW b, NEW n, NEW occ, NEW S, S = OnNodeOf(occ, n)
    PROVE  RoomBeside(b, n, occ) <=>
              /\ PartitionOK(b, n)
              /\ b.cpus + CpusOf(S) <= n.cpus
              /\ b.mem + MemOf(S) <= n.mem
              /\ b.gpus <= Cardinality(Matching(NotHeld(n, S), b.gpuType))
<1>1. S = {x \in occ : x.node = n.id}
  BY DEF OnNodeOf
<1>2. {d \in n.devices : d.key \notin DevsOf(S) /\ (b.gpuType = "" \/ b.gpuType \in d.name)}
        = Matching(NotHeld(n, S), b.gpuType)
  BY DEF Matching, matchName, NotHeld
<1>3. QED BY <1>1, <1>2, Zenon DEF RoomBeside, PartitionOK

\* Every job of T is one of S, with the same node, devices and needs.
Within(T, S) ==
    \A y \in T : \E x \in S : /\ x.id = y.id /\ x.node = y.node /\ x.devs = y.devs
                              /\ x.cpus = y.cpus /\ x.mem = y.mem

\* Fewer jobs leave no less room.
LEMMA RoomLess ==
    ASSUME NEW b \in JobRecs, NEW n \in NodeRecs, IsFiniteSet(n.devices),
           NEW occ \in SUBSET JobRecs, IsFiniteSet(occ),
           NEW less \in SUBSET JobRecs, IsFiniteSet(less), IdsDiffer(less), Within(less, occ),
           RoomBeside(b, n, occ)
    PROVE  RoomBeside(b, n, less)
<1>1. PICK S, T : S = OnNodeOf(occ, n) /\ T = OnNodeOf(less, n)
  OBVIOUS
<1>2. /\ S \in SUBSET JobRecs /\ T \in SUBSET JobRecs /\ S \in SUBSET occ /\ T \in SUBSET less
  BY <1>1 DEF OnNodeOf
<1>3. IsFiniteSet(S) /\ IsFiniteSet(T)
  BY <1>2, FS_Subset
<1>4. /\ \A x \in S : x.cpus \in Nat /\ x.mem \in Nat
      /\ \A x \in T : x.cpus \in Nat /\ x.mem \in Nat
  BY <1>2 DEF JobRecs
<1> DEFINE Same(x, y) == /\ x.id = y.id /\ x.devs = y.devs /\ x.cpus = y.cpus /\ x.mem = y.mem
           f == [y \in T |-> CHOOSE x \in S : Same(x, y)]
<1>5. \A y \in T : \E x \in S : Same(x, y)
  BY <1>1 DEF Within, OnNodeOf
<1>6. \A y \in T : f[y] \in S /\ Same(f[y], y)
  <2> TAKE y \in T
  <2>1. f[y] = CHOOSE x \in S : Same(x, y)
    OBVIOUS
  <2> HIDE DEF f, Same
  <2>2. QED BY <1>5, <2>1, Zenon
<1>7. PICK U : U = {f[y] : y \in T}
  OBVIOUS
<1>8. /\ f \in [T -> U] /\ U \in SUBSET S
      /\ \A y \in U : \E x \in T : f[x] = y
  <2>1. f = [y \in T |-> f[y]]
    OBVIOUS
  <2> HIDE DEF f, Same
  <2>2. QED BY <1>6, <1>7, <2>1
<1>9. /\ \A x \in T : f[x].cpus = x.cpus /\ f[x].mem = x.mem
      /\ \A x, y \in T : f[x] = f[y] => x = y
  <2> HIDE DEF f
  <2>1. \A x, y \in T : x.id = y.id => x = y
    BY <1>2 DEF IdsDiffer
  <2>2. QED BY <1>6, <2>1
<1>10. DevsOf(T) \in SUBSET DevsOf(S)
  <2> HIDE DEF f
  <2> QED BY <1>6 DEF DevsOf
<1> HIDE DEF f
<1>11. CpusOf(U) = CpusOf(T) /\ MemOf(U) = MemOf(T)
  BY <1>3, <1>4, <1>8, <1>9, CpusOfFacts, MemOfFacts
<1>12. /\ CpusOf(U) \in Nat /\ CpusOf(S \ U) \in Nat /\ CpusOf(S) = CpusOf(U) + CpusOf(S \ U)
       /\ MemOf(U) \in Nat /\ MemOf(S \ U) \in Nat /\ MemOf(S) = MemOf(U) + MemOf(S \ U)
  BY <1>3, <1>4, <1>8, CpusSplit, MemSplit
<1>13. /\ PartitionOK(b, n) /\ b.cpus + CpusOf(S) <= n.cpus /\ b.mem + MemOf(S) <= n.mem
       /\ b.gpus <= Cardinality(Matching(NotHeld(n, S), b.gpuType))
  BY <1>1, RoomIs
<1>14. b.cpus \in Nat /\ b.mem \in Nat /\ b.gpus \in Nat /\ n.cpus \in Nat /\ n.mem \in Nat
  BY DEF JobRecs, NodeRecs
<1>15. b.cpus + CpusOf(T) <= n.cpus
  BY <1>11, <1>12, <1>13, <1>14
<1>16. b.mem + MemOf(T) <= n.mem
  BY <1>11, <1>12, <1>13, <1>14
<1>17. PICK M, L : M = Matching(NotHeld(n, S), b.gpuType) /\ L = Matching(NotHeld(n, T), b.gpuType)
  OBVIOUS
<1>18. M \in SUBSET L /\ L \in SUBSET n.devices
  BY <1>10, <1>17 DEF Matching, NotHeld
<1>19. IsFiniteSet(L) /\ IsFiniteSet(M) /\ Cardinality(M) <= Cardinality(L)
  BY <1>18, FS_Subset
<1>20. Cardinality(M) \in Nat /\ Cardinality(L) \in Nat
  BY <1>19, FS_CardinalityType
<1>21. b.gpus <= Cardinality(L)
  BY <1>13, <1>14, <1>17, <1>19, <1>20
<1>22. QED BY <1>1, <1>13, <1>15, <1>16, <1>17, <1>21, RoomIs

\* In particular some of the jobs.
LEMMA RoomSubset ==
    ASSUME NEW b \in JobRecs, NEW n \in NodeRecs, IsFiniteSet(n.devices),
           NEW occ \in SUBSET JobRecs, IsFiniteSet(occ), IdsDiffer(occ), NEW less \in SUBSET occ,
           RoomBeside(b, n, occ)
    PROVE  RoomBeside(b, n, less)
<1>1. less \in SUBSET JobRecs /\ IsFiniteSet(less) /\ IdsDiffer(less)
  BY FS_Subset DEF IdsDiffer
<1>2. Within(less, occ)
  BY DEF Within
<1>3. QED BY <1>1, <1>2, RoomLess

\* A node that can hold the job when it is empty, and one that can hold it
\* beside others.
LEMMA RoomAlone ==
    ASSUME NEW b \in JobRecs, NEW n \in NodeRecs, IsFiniteSet(n.devices)
    PROVE  RoomBeside(b, n, {}) <=> HasRoom(n, b)
<1>1. OnNodeOf({}, n) = {}
  BY DEF OnNodeOf
<1>2. CpusOf({}) = 0 /\ MemOf({}) = 0
  BY FS_EmptySet, CpusOfFacts, MemOfFacts
<1>3. NotHeld(n, {}) = n.devices
  BY DEF NotHeld, DevsOf
<1>4. b.cpus \in Nat /\ b.mem \in Nat /\ b.gpus \in Nat /\ n.cpus \in Nat /\ n.mem \in Nat
  BY DEF JobRecs, NodeRecs
<1>5. Cardinality(Matching(n.devices, b.gpuType)) \in Nat
  <2>1. Matching(n.devices, b.gpuType) \in SUBSET n.devices
    BY DEF Matching
  <2>2. IsFiniteSet(Matching(n.devices, b.gpuType))
    BY <2>1, FS_Subset
  <2>3. QED BY <2>2, FS_CardinalityType
<1>6. RoomBeside(b, n, {}) <=>
         /\ PartitionOK(b, n) /\ b.cpus + 0 <= n.cpus /\ b.mem + 0 <= n.mem
         /\ b.gpus <= Cardinality(Matching(n.devices, b.gpuType))
  BY <1>1, <1>2, <1>3, RoomIs
<1>7. QED BY <1>4, <1>5, <1>6 DEF HasRoom

-----------------------------------------------------------------------------
(* The reservation *)

\* estEnd is a time, and not in the past.
LEMMA EstEndFacts ==
    ASSUME NEW t \in Nat, NEW x \in JobRecs
    PROVE  /\ estEnd(t, x) \in Nat /\ t <= estEnd(t, x)
           /\ x.walltime = 0 => estEnd(t, x) = t + Forever
           /\ x.walltime > 0 /\ x.start = NotStarted => estEnd(t, x) = t + x.walltime
           /\ x.walltime > 0 /\ x.start # NotStarted =>
                 \/ estEnd(t, x) = t
                 \/ x.start \in Nat /\ estEnd(t, x) = x.start + x.walltime
<1>1. x.walltime \in Nat /\ x.start \in Nat \cup {NotStarted} /\ Forever \in Nat
  BY PlanAssumption DEF JobRecs
<1>2. PICK s \in Nat : s = IF x.start = NotStarted THEN t ELSE x.start
  BY <1>1
<1>3. PICK e \in Nat : e = s + x.walltime
  BY <1>1
<1>4. PICK m : m = Max({t, e})
  OBVIOUS
<1>5. m \in {t, e} /\ m >= t /\ m >= e
  <2>1. \E y \in {t, e} : \A z \in {t, e} : y >= z
    <3>1. CASE t >= e
      BY <3>1
    <3>2. CASE ~(t >= e)
      <4>1. e >= t /\ e >= e
        BY <3>2
      <4>2. QED BY <4>1
    <3>3. QED BY <3>1, <3>2
  <2>2. m \in {t, e} /\ \A z \in {t, e} : m >= z
    BY <1>4, <2>1, Zenon DEF Max
  <2>3. QED BY <2>2
<1>6. estEnd(t, x) = IF x.walltime <= 0 THEN t + Forever ELSE m
  BY <1>2, <1>3, <1>4, Zenon DEF estEnd
<1>7. CASE x.walltime = 0
  BY <1>1, <1>6, <1>7
<1>8. CASE x.walltime > 0
  <2>1. estEnd(t, x) = m
    BY <1>1, <1>6, <1>8
  <2>2. CASE x.start = NotStarted
    <3>1. e = t + x.walltime
      BY <1>2, <1>3, <2>2
    <3>2. m = e
      BY <1>1, <1>5, <1>8, <3>1
    <3>3. QED BY <1>1, <1>5, <1>8, <2>1, <2>2, <3>1, <3>2
  <2>3. CASE x.start # NotStarted
    <3>1. x.start \in Nat /\ e = x.start + x.walltime
      BY <1>1, <1>2, <1>3, <2>3
    <3>2. m \in Nat /\ t <= m
      BY <1>5
    <3>3. QED BY <1>5, <1>8, <2>1, <2>3, <3>1, <3>2
  <2>4. QED BY <2>2, <2>3
<1>9. QED BY <1>1, <1>7, <1>8

\* nodeReservationTime finds the first time: it is not after any time by which
\* enough of the jobs are expected to have ended.
LEMMA NodeReserved ==
    ASSUME NEW t \in Nat, NEW n \in NodeRecs, DevicesDiffer(n.devices), NEW b \in JobRecs,
           NEW active, JobsOK(active, t), Held(OnNodeOf(active, n), n),
           CpusOf(OnNodeOf(active, n)) <= n.cpus, MemOf(OnNodeOf(active, n)) <= n.mem,
           NEW u \in Nat, t <= u, RoomBeside(b, n, {x \in active : estEnd(t, x) > u})
    PROVE  /\ nodeReservationTime(t, b, n, active) \in Nat
           /\ t <= nodeReservationTime(t, b, n, active) /\ nodeReservationTime(t, b, n, active) <= u
<1> DEFINE here == OnNodeOf(active, n)
           gone(e) == {j \in here : estEnd(t, j) <= e}
           fits(S) == /\ subU(n.cpus, CpusOf(here)) + CpusOf(S) >= b.cpus
                      /\ subU(n.mem, MemOf(here)) + MemOf(S) >= b.mem
                      /\ Cardinality(Matching(n.devices, b.gpuType)) - MatchOf(here \ S, n, b.gpuType) >= b.gpus
           Ends == {estEnd(t, j) : j \in {k \in here : fits(gone(estEnd(t, k)))}}
<1>1. nodeReservationTime(t, b, n, active) = IF fits({}) THEN t ELSE Min(Ends)
  BY Zenon DEF nodeReservationTime, MatchOf
<1>2. /\ here \in SUBSET active /\ here \in SUBSET JobRecs
  BY DEF OnNodeOf, JobsOK
<1>3. IsFiniteSet(here)
  BY <1>2, FS_Subset DEF JobsOK
<1>4. \A x \in here : estEnd(t, x) \in Nat /\ t <= estEnd(t, x)
  BY <1>2, EstEndFacts
<1>5. \A x \in here : x.cpus \in Nat /\ x.mem \in Nat
  BY <1>2 DEF JobRecs
<1>6. /\ b.cpus \in Nat /\ b.mem \in Nat /\ b.gpus \in Nat /\ n.cpus \in Nat /\ n.mem \in Nat
  BY DEF JobRecs, NodeRecs
<1>7. CpusOf(here) \in Nat /\ MemOf(here) \in Nat
  BY <1>3, <1>5, CpusOfFacts, MemOfFacts
<1>8. Held(here, n) /\ CpusOf(here) <= n.cpus /\ MemOf(here) <= n.mem
  OBVIOUS
<1> HIDE DEF here
<1>9. /\ subU(n.cpus, CpusOf(here)) \in Nat /\ subU(n.cpus, CpusOf(here)) + CpusOf(here) = n.cpus
      /\ subU(n.mem, MemOf(here)) \in Nat /\ subU(n.mem, MemOf(here)) + MemOf(here) = n.mem
  BY <1>6, <1>7, <1>8, SubFacts
<1>10. fits(gone(u))
  <2>1. PICK S \in SUBSET here, L \in SUBSET here :
             S = gone(u) /\ L = here \ S
    OBVIOUS
  <2>2. L = OnNodeOf({x \in active : estEnd(t, x) > u}, n)
    <3>1. L = {x \in here : estEnd(t, x) > u}
      BY <1>4, <2>1
    <3>2. QED BY <3>1 DEF OnNodeOf, here
  <2>3. /\ b.cpus + CpusOf(L) <= n.cpus /\ b.mem + MemOf(L) <= n.mem
        /\ b.gpus <= Cardinality(Matching(NotHeld(n, L), b.gpuType))
    BY <2>2, RoomIs
  <2>4. /\ CpusOf(S) \in Nat /\ CpusOf(L) \in Nat /\ CpusOf(here) = CpusOf(S) + CpusOf(L)
        /\ MemOf(S) \in Nat /\ MemOf(L) \in Nat /\ MemOf(here) = MemOf(S) + MemOf(L)
    BY <1>3, <1>5, <2>1, CpusSplit, MemSplit
  <2>5. subU(n.cpus, CpusOf(here)) + CpusOf(S) >= b.cpus
    <3>1. PICK f \in Nat : f = subU(n.cpus, CpusOf(here))
      BY <1>9
    <3>2. f + (CpusOf(S) + CpusOf(L)) = n.cpus /\ b.cpus + CpusOf(L) <= n.cpus
      BY <1>9, <2>3, <2>4, <3>1
    <3>3. CpusOf(S) \in Nat /\ CpusOf(L) \in Nat
      BY <2>4
    <3>4. f + CpusOf(S) >= b.cpus
      BY <1>6, <3>2, <3>3
    <3>5. QED BY <3>1, <3>4
  <2>6. subU(n.mem, MemOf(here)) + MemOf(S) >= b.mem
    <3>1. PICK f \in Nat : f = subU(n.mem, MemOf(here))
      BY <1>9
    <3>2. f + (MemOf(S) + MemOf(L)) = n.mem /\ b.mem + MemOf(L) <= n.mem
      BY <1>9, <2>3, <2>4, <3>1
    <3>3. MemOf(S) \in Nat /\ MemOf(L) \in Nat
      BY <2>4
    <3>4. f + MemOf(S) >= b.mem
      BY <1>6, <3>2, <3>3
    <3>5. QED BY <3>1, <3>4
  <2>7. Cardinality(Matching(n.devices, b.gpuType)) - MatchOf(L, n, b.gpuType) >= b.gpus
    <3>1. /\ Cardinality(Matching(NotHeld(n, L), b.gpuType)) \in Nat
          /\ Cardinality(Matching(n.devices, b.gpuType)) - MatchOf(L, n, b.gpuType)
               = Cardinality(Matching(NotHeld(n, L), b.gpuType))
      BY <1>3, <1>8, LeftCount
    <3>2. QED BY <1>6, <2>3, <3>1
  <2> HIDE DEF gone
  <2>8. QED BY <2>1, <2>5, <2>6, <2>7
<1> HIDE DEF fits
<1>11. CASE fits({})
  BY <1>1, <1>11
<1>12. CASE ~fits({})
  <2>1. gone(u) # {}
    BY <1>10, <1>12
  <2> DEFINE G == {estEnd(t, j) : j \in gone(u)}
  <2>2. G \in SUBSET Nat /\ G # {}
    BY <1>4, <2>1
  <2>3. \A e \in G : t <= e /\ e <= u /\ e \in Nat
    BY <1>4
  <2>4. G \in SUBSET (0..u)
    BY <2>3
  <2>5. IsFiniteSet(G)
    <3>1. IsFiniteSet(0..u)
      BY FS_Interval
    <3> HIDE DEF G
    <3>2. QED BY <2>4, <3>1, FS_Subset
  <2>6. PICK m \in G : \A e \in G : e <= m
    <3> HIDE DEF G
    <3> QED BY <2>2, <2>5, GreatestNat
  <2>7. PICK k \in here : k \in gone(u) /\ m = estEnd(t, k)
    BY <2>6
  <2>8. gone(m) = gone(u)
    <3>1. m \in Nat /\ m <= u
      BY <2>3, <2>6
    <3>2. \A x \in here : estEnd(t, x) <= m => estEnd(t, x) <= u
      BY <1>4, <3>1
    <3>3. \A x \in gone(u) : estEnd(t, x) <= m
      BY <2>6
    <3>4. QED BY <3>2, <3>3
  <2>9. fits(gone(estEnd(t, k)))
    BY <1>10, <2>7, <2>8
  <2>10. m \in Ends
    BY <2>7, <2>9
  <2>11. Ends \in SUBSET Nat /\ \A e \in Ends : t <= e
    BY <1>4
  <2>12. m <= u /\ m \in Nat
    BY <2>3, <2>6
  <2> HIDE DEF Ends, G
  <2>13. Min(Ends) \in Ends /\ \A e \in Ends : Min(Ends) <= e
    BY <2>10, <2>11, MinFacts
  <2>14. Min(Ends) \in Nat /\ t <= Min(Ends) /\ Min(Ends) <= m
    BY <2>10, <2>11, <2>13
  <2>15. Min(Ends) <= u
    BY <2>12, <2>14
  <2>16. QED BY <1>1, <1>12, <2>14, <2>15
<1>13. QED BY <1>11, <1>12

\* No device of a node is held twice, and no node holds more than it has.
FitAll(nodes, active) ==
    \A n \in nodes : /\ Held(OnNodeOf(active, n), n)
                     /\ CpusOf(OnNodeOf(active, n)) <= n.cpus /\ MemOf(OnNodeOf(active, n)) <= n.mem

\* All the values of a function on a finite set of jobs are below some number.
LEMMA UpperBound ==
    ASSUME NEW S, IsFiniteSet(S), NEW f \in [S -> Nat], NEW t \in Nat
    PROVE  \E u \in Nat : t <= u /\ \A x \in S : f[x] <= u
<1> DEFINE V == {f[x] : x \in S}
           W == V \cup {t}
<1>1. f \in Surjection(S, V)
  <2>1. f \in [S -> V] /\ \A v \in V : \E x \in S : f[x] = v
    OBVIOUS
  <2> HIDE DEF V
  <2>2. QED BY <2>1, Zenon DEF Surjection
<1>2. V \in SUBSET Nat
  OBVIOUS
<1> HIDE DEF V
<1>3. IsFiniteSet(V)
  BY <1>1, FS_Surjection
<1>4. IsFiniteSet(W) /\ W \in SUBSET Nat /\ W # {}
  BY <1>2, <1>3, FS_AddElement
<1> HIDE DEF W
<1>5. PICK u \in W : \A k \in W : k <= u
  BY <1>4, GreatestNat
<1>6. QED BY <1>4, <1>5 DEF V, W

\* reservationTime is not after any time by which enough of the jobs of some
\* node are expected to have ended.
LEMMA Reserved ==
    ASSUME NEW t \in Nat, NEW nodes, NodesOK(nodes), NEW active, JobsOK(active, t), FitAll(nodes, active),
           NEW b \in JobRecs, NEW n \in UpOf(nodes), NEW u \in Nat, t <= u,
           RoomBeside(b, n, {x \in active : estEnd(t, x) > u})
    PROVE  /\ reservationTime(t, b, nodes, active) \in Nat
           /\ t <= reservationTime(t, b, nodes, active) /\ reservationTime(t, b, nodes, active) <= u
<1> DEFINE Times == {nodeReservationTime(t, b, m, active) : m \in Eligible(b, nodes)}
<1>1. /\ nodes \in SUBSET NodeRecs /\ \A m \in nodes : DevicesDiffer(m.devices) /\ IsFiniteSet(m.devices)
  BY DEF NodesOK, DevicesDiffer
<1>2. /\ active \in SUBSET JobRecs /\ IsFiniteSet(active) /\ IdsDiffer(active)
  BY DEF JobsOK
<1>3. n \in nodes /\ n.up
  BY DEF UpOf
<1>4. n \in Eligible(b, nodes)
  <2>1. PICK S : S = {x \in active : estEnd(t, x) > u}
    OBVIOUS
  <2>2. S \in SUBSET JobRecs /\ IsFiniteSet(S) /\ IdsDiffer(S)
    BY <1>2, <2>1, FS_Subset DEF IdsDiffer
  <2>3. RoomBeside(b, n, S)
    BY <2>1
  <2>4. RoomBeside(b, n, {})
    BY <1>1, <1>3, <2>2, <2>3, RoomSubset
  <2>5. HasRoom(n, b)
    BY <1>1, <1>3, <2>4, RoomAlone
  <2>6. QED BY <1>3, <2>5 DEF Eligible
<1>5. PICK w \in Nat : t <= w /\ \A x \in active : estEnd(t, x) <= w
  <2> DEFINE f == [x \in active |-> estEnd(t, x)]
  <2>1. f \in [active -> Nat] /\ \A x \in active : f[x] = estEnd(t, x)
    BY <1>2, EstEndFacts
  <2> HIDE DEF f
  <2>2. PICK v \in Nat : t <= v /\ \A x \in active : f[x] <= v
    BY <1>2, <2>1, UpperBound
  <2>3. QED BY <2>1, <2>2
<1>6. ASSUME NEW m \in Eligible(b, nodes)
      PROVE  nodeReservationTime(t, b, m, active) \in Nat /\ t <= nodeReservationTime(t, b, m, active)
  <2>1. m \in nodes /\ HasRoom(m, b)
    BY DEF Eligible
  <2>2. RoomBeside(b, m, {})
    BY <1>1, <2>1, RoomAlone
  <2>3. {x \in active : estEnd(t, x) > w} = {}
    <3>1. \A x \in active : estEnd(t, x) \in Nat
      BY <1>2, EstEndFacts
    <3>2. QED BY <1>5, <3>1
  <2>4. RoomBeside(b, m, {x \in active : estEnd(t, x) > w})
    BY <2>2, <2>3
  <2>5. /\ Held(OnNodeOf(active, m), m)
        /\ CpusOf(OnNodeOf(active, m)) <= m.cpus /\ MemOf(OnNodeOf(active, m)) <= m.mem
    BY <2>1 DEF FitAll
  <2>6. QED BY <1>1, <1>5, <2>1, <2>4, <2>5, NodeReserved
<1>7. nodeReservationTime(t, b, n, active) <= u
  <2>1. /\ Held(OnNodeOf(active, n), n)
        /\ CpusOf(OnNodeOf(active, n)) <= n.cpus /\ MemOf(OnNodeOf(active, n)) <= n.mem
    BY <1>3 DEF FitAll
  <2>2. QED BY <1>1, <1>3, <2>1, NodeReserved
<1>8. Times \in SUBSET Nat /\ (\A e \in Times : t <= e) /\ nodeReservationTime(t, b, n, active) \in Times
  BY <1>4, <1>6
<1>9. reservationTime(t, b, nodes, active) = Min(Times)
  BY DEF reservationTime
<1> HIDE DEF Times
<1>10. Min(Times) \in Times /\ \A e \in Times : Min(Times) <= e
  BY <1>8, MinFacts
<1>11. PICK q \in Times : q = nodeReservationTime(t, b, n, active)
  BY <1>8
<1>12. Min(Times) <= q /\ q <= u /\ q \in Nat /\ Min(Times) \in Nat /\ t <= Min(Times)
  BY <1>7, <1>8, <1>10, <1>11
<1>13. QED BY <1>9, <1>12

-----------------------------------------------------------------------------
(* When active jobs end, and what they hold *)

\* The states in which a job holds resources.
On == {"ASSIGNED", "RUNNING"}

\* A job has a start when it runs and not before; no job waits longer for its
\* start than the latency, or runs longer than its walltime.
TimesInv ==
    \A j \in JobIds :
        /\ st[j] \in {"absent", "PENDING", "ASSIGNED"} => times[j].start = NotStarted
        /\ st[j] = "ASSIGNED" => now <= times[j].assigned + MaxLatency
        /\ st[j] = "RUNNING" => /\ times[j].start \in Nat
                                /\ spec[j].walltime > 0 => now <= times[j].start + spec[j].walltime

\* Active jobs hold devices of their node, and no device is held by two.
HoldInv ==
    /\ \A j \in JobIds : st[j] \in On =>
          \E n \in Cluster : n.id = place[j].node /\ place[j].devs \in SUBSET KeysFor(n.devices, "")
    /\ \A i, j \in JobIds : i # j /\ st[i] \in On /\ st[j] \in On /\ place[i].node = place[j].node
                               => place[i].devs \cap place[j].devs = {}

\* A node of the list is one of the cluster.
LEMMA ListedNode ==
    ASSUME NEW m \in ListNodes
    PROVE  \E n \in Cluster : /\ m.id = n.id /\ m.cpus = n.cpus /\ m.mem = n.mem /\ m.devices = n.devices
<1>1. PICK n \in Cluster : m = [n EXCEPT !.up = n.id \in upIds]
  BY DEF ListNodes
<1>2. n \in NodeRecs
  BY TimelineAssumption DEF NodeRecs, Devices
<1>3. m.id = n.id /\ m.cpus = n.cpus /\ m.mem = n.mem /\ m.devices = n.devices
  BY <1>1, <1>2 DEF NodeRecs
<1>4. QED BY <1>3

\* The active jobs are as the reservation takes them to be.
LEMMA ActiveFit ==
    ASSUME TimelineType, HoldInv, NoOvercommit
    PROVE  FitAll(ListNodes, ActiveRows)
<1> SUFFICES ASSUME NEW m \in ListNodes
             PROVE  /\ Held(OnNodeOf(ActiveRows, m), m)
                    /\ CpusOf(OnNodeOf(ActiveRows, m)) <= m.cpus /\ MemOf(OnNodeOf(ActiveRows, m)) <= m.mem
  BY DEF FitAll
<1>1. PICK n \in Cluster : m.id = n.id /\ m.cpus = n.cpus /\ m.mem = n.mem /\ m.devices = n.devices
  BY ListedNode
<1>2. PICK S : S = OnNodeOf(ActiveRows, m)
  OBVIOUS
<1>3. S = {x \in ActiveRows : x.node = n.id}
  BY <1>1, <1>2 DEF OnNodeOf
<1>4. CpusOf(S) <= n.cpus /\ MemOf(S) <= n.mem
  BY <1>3 DEF NoOvercommit
<1>5. \A x \in S : \E j \in JobIds : x = Row(j) /\ st[j] \in On /\ place[j].node = n.id /\ x.devs = place[j].devs
  <2> TAKE x \in S
  <2>1. PICK j \in JobIds : x = Row(j) /\ st[j] \in On
    BY <1>3 DEF ActiveRows, Rows, On
  <2>2. QED BY <1>3, <2>1, RowFacts
<1>6. ASSUME NEW x \in S PROVE x.devs \in SUBSET KeysFor(m.devices, "")
  <2>1. PICK j \in JobIds : x = Row(j) /\ st[j] \in On /\ place[j].node = n.id /\ x.devs = place[j].devs
    BY <1>5
  <2>2. PICK k \in Cluster : k.id = place[j].node /\ place[j].devs \in SUBSET KeysFor(k.devices, "")
    BY <2>1 DEF HoldInv
  <2>3. k = n
    BY <2>1, <2>2, TimelineAssumption
  <2>4. QED BY <1>1, <2>1, <2>2, <2>3
<1>7. ASSUME NEW x \in S, NEW y \in S, x # y PROVE x.devs \cap y.devs = {}
  <2>1. PICK i \in JobIds : x = Row(i) /\ st[i] \in On /\ place[i].node = n.id /\ x.devs = place[i].devs
    BY <1>5
  <2>2. PICK j \in JobIds : y = Row(j) /\ st[j] \in On /\ place[j].node = n.id /\ y.devs = place[j].devs
    BY <1>5
  <2>3. i # j
    BY <1>7, <2>1, <2>2
  <2>4. QED BY <2>1, <2>2, <2>3 DEF HoldInv
<1>8. QED BY <1>1, <1>2, <1>4, <1>6, <1>7 DEF Held

\* An active job ends at a time to come, and not before it is expected to.
LEMMA ActiveEnds ==
    ASSUME TimelineType, TimesInv, NEW x \in ActiveRows
    PROVE  EndOf(x) \in Nat /\ now <= EndOf(x) /\ estEnd(now, x) <= EndOf(x)
<1>1. PICK j \in JobIds : x = Row(j) /\ st[j] \in On
  BY DEF ActiveRows, Rows, On
<1>2. x \in JobRecs /\ now \in Nat /\ Forever \in Nat /\ MaxLatency \in Nat
  BY <1>1, RowFacts, PlanAssumption, TimelineAssumption DEF TimelineType
<1>3. x.walltime = spec[j].walltime /\ x.assigned = times[j].assigned /\ x.start = times[j].start
  BY <1>1 DEF Row
<1>4. x.walltime \in Nat /\ x.assigned \in Nat
  BY <1>2 DEF JobRecs
<1>5. CASE x.walltime = 0
  <2>1. EndOf(x) = now + Forever /\ estEnd(now, x) = now + Forever
    BY <1>2, <1>5, EstEndFacts DEF EndOf
  <2>2. QED BY <1>2, <2>1
<1>6. CASE x.walltime # 0 /\ st[j] = "ASSIGNED"
  <2>1. x.start = NotStarted /\ now <= x.assigned + MaxLatency
    BY <1>3, <1>6 DEF TimesInv
  <2>2. EndOf(x) = (x.assigned + MaxLatency) + x.walltime
    BY <1>6, <2>1 DEF EndOf
  <2>3. estEnd(now, x) = now + x.walltime
    BY <1>2, <1>4, <1>6, <2>1, EstEndFacts
  <2>4. QED BY <1>2, <1>4, <2>1, <2>2, <2>3
<1>7. CASE x.walltime # 0 /\ st[j] = "RUNNING"
  <2>1. x.start \in Nat /\ now <= x.start + x.walltime
    BY <1>3, <1>4, <1>7 DEF TimesInv
  <2>2. x.start # NotStarted
    BY <2>1, PlanAssumption
  <2>3. EndOf(x) = x.start + x.walltime
    BY <1>7, <2>2 DEF EndOf
  <2>4. estEnd(now, x) = now \/ estEnd(now, x) = x.start + x.walltime
    BY <1>2, <1>4, <1>7, <2>2, EstEndFacts
  <2>5. QED BY <1>2, <1>4, <2>1, <2>3, <2>4
<1>8. QED BY <1>1, <1>5, <1>6, <1>7 DEF On

\* Nothing is active at first.
LEMMA WorldInit == TimelineInit => TimesInv /\ HoldInv
BY DEF TimelineInit, TimesInv, HoldInv, NoTimes, On

\* Every step keeps the times.
LEMMA TimesStep ==
    ASSUME TimelineType, TimesInv, [TimelineNext]_tvars
    PROVE  TimesInv'
<1> USE DEF TimesInv
<1>0. /\ now \in Nat /\ MaxLatency \in Nat /\ NotStarted \notin Nat
      /\ \A j \in JobIds : times[j].assigned \in Nat /\ spec[j].walltime \in Nat
  BY PlanAssumption, TimelineAssumption DEF TimelineType
<1>t. /\ st \in [JobIds -> States]
      /\ times \in [JobIds -> [submit : Nat, assigned : Nat, start : Nat \cup {NotStarted}]]
  BY DEF TimelineType
<1>1. ASSUME NEW j \in JobIds, Submit(j) PROVE TimesInv'
  <2>1. /\ st[j] = "absent" /\ st' = [st EXCEPT ![j] = "PENDING"] /\ times' = [times EXCEPT ![j].submit = now]
        /\ now' = now /\ spec' = spec
    BY <1>1 DEF Submit
  <2>2. \A k \in JobIds : times'[k].assigned = times[k].assigned /\ times'[k].start = times[k].start
    BY <1>t, <2>1
  <2>3. \A k \in JobIds : st'[k] = IF k = j THEN "PENDING" ELSE st[k]
    BY <1>t, <2>1
  <2>4. QED BY <2>1, <2>2, <2>3
<1>2. ASSUME NEW j \in JobIds, Start(j) PROVE TimesInv'
  <2>1. /\ st[j] = "ASSIGNED" /\ st' = [st EXCEPT ![j] = "RUNNING"] /\ times' = [times EXCEPT ![j].start = now]
        /\ now' = now /\ spec' = spec
    BY <1>2 DEF Start
  <2>2. \A k \in JobIds : times'[k].start = IF k = j THEN now ELSE times[k].start
    BY <1>t, <2>1
  <2>3. \A k \in JobIds : k # j => times'[k] = times[k]
    BY <1>t, <2>1
  <2>4. \A k \in JobIds : st'[k] = IF k = j THEN "RUNNING" ELSE st[k]
    BY <1>t, <2>1
  <2>5. now <= now + spec[j].walltime
    BY <1>0
  <2>6. QED BY <1>0, <2>1, <2>2, <2>3, <2>4, <2>5
<1>3. ASSUME NEW j \in JobIds, End(j) PROVE TimesInv'
  <2>1. /\ st' = [st EXCEPT ![j] = "ended"] /\ times' = [times EXCEPT ![j] = NoTimes]
        /\ now' = now /\ spec' = spec
    BY <1>3 DEF End
  <2>2. \A k \in JobIds : k # j => times'[k] = times[k]
    BY <1>t, <2>1
  <2>3. \A k \in JobIds : st'[k] = IF k = j THEN "ended" ELSE st[k]
    BY <1>t, <2>1
  <2>4. QED BY <2>1, <2>2, <2>3
<1>4. ASSUME Pass PROVE TimesInv'
  <2>1. PICK D : D = Planned
    OBVIOUS
  <2>2. /\ st' = [j \in JobIds |-> IF \E d \in D : d.job = j THEN "ASSIGNED" ELSE st[j]]
        /\ times' = [j \in JobIds |-> IF \E d \in D : d.job = j
                                       THEN [times[j] EXCEPT !.assigned = now] ELSE times[j]]
        /\ now' = now /\ spec' = spec
    BY <1>4, <2>1 DEF Pass
  <2>3. \A d \in D : st[d.job] = "PENDING"
    <3> TAKE d \in D
    <3>1. PICK b \in PendingRows : b.id = d.job
      BY <2>1, PlannedFacts DEF Gets
    <3>2. PICK j \in JobIds : b = Row(j) /\ st[j] = "PENDING"
      BY DEF PendingRows, Rows
    <3>3. QED BY <3>1, <3>2, RowFacts
  <2>4. ASSUME NEW j \in JobIds, NEW d \in D, d.job = j
        PROVE  st'[j] = "ASSIGNED" /\ times'[j].start = NotStarted /\ times'[j].assigned = now
    <3>1. st'[j] = "ASSIGNED" /\ times'[j] = [times[j] EXCEPT !.assigned = now]
      BY <2>2, <2>4
    <3>2. times[j].start = NotStarted
      BY <2>3, <2>4
    <3>3. times[j] \in [submit : Nat, assigned : Nat, start : Nat \cup {NotStarted}]
      BY <1>t
    <3>4. QED BY <3>1, <3>2, <3>3
  <2>5. ASSUME NEW j \in JobIds, \A d \in D : d.job # j PROVE st'[j] = st[j] /\ times'[j] = times[j]
    BY <2>2, <2>5
  <2>6. now <= now + MaxLatency
    BY <1>0
  <2>7. QED BY <2>2, <2>4, <2>5, <2>6
<1>5. ASSUME Tick PROVE TimesInv'
  <2>1. /\ now' = now + 1 /\ st' = st /\ times' = times /\ spec' = spec
        /\ \A j \in JobIds : st[j] = "ASSIGNED" => now < times[j].assigned + MaxLatency
        /\ \A j \in JobIds : st[j] = "RUNNING" /\ spec[j].walltime > 0
                                => now < times[j].start + spec[j].walltime
    BY <1>5 DEF Tick
  <2>2. \A j \in JobIds : st[j] = "ASSIGNED" => now + 1 <= times[j].assigned + MaxLatency
    BY <1>0, <2>1
  <2>3. \A j \in JobIds : st[j] = "RUNNING" /\ spec[j].walltime > 0
                             => now + 1 <= times[j].start + spec[j].walltime
    BY <1>0, <2>1
  <2>4. QED BY <2>1, <2>2, <2>3
<1>6. ASSUME UNCHANGED <<now, spec, st, times>> PROVE TimesInv'
  BY <1>6
<1>7. QED BY <1>1, <1>2, <1>3, <1>4, <1>5, <1>6 DEF TimelineNext, NodeFlips, tvars

\* Every step keeps the devices apart.
LEMMA HoldStep ==
    ASSUME TimelineType, HoldInv, [TimelineNext]_tvars
    PROVE  HoldInv'
<1> USE DEF HoldInv, On
<1>t. st \in [JobIds -> States] /\ place \in [JobIds -> [node : Nat, devs : SUBSET Nat]]
  BY DEF TimelineType
<1>1. ASSUME NEW j \in JobIds, Submit(j) PROVE HoldInv'
  <2>1. st[j] = "absent" /\ st' = [st EXCEPT ![j] = "PENDING"] /\ place' = place
    BY <1>1 DEF Submit
  <2>2. \A k \in JobIds : st'[k] \in On => st[k] \in On
    BY <1>t, <2>1
  <2> HIDE DEF On
  <2>3. QED BY <2>1, <2>2
<1>2. ASSUME NEW j \in JobIds, Start(j) PROVE HoldInv'
  <2>1. st[j] = "ASSIGNED" /\ st' = [st EXCEPT ![j] = "RUNNING"] /\ place' = place
    BY <1>2 DEF Start
  <2>2. \A k \in JobIds : st'[k] \in On => st[k] \in On
    BY <1>t, <2>1
  <2> HIDE DEF On
  <2>3. QED BY <2>1, <2>2
<1>3. ASSUME NEW j \in JobIds, End(j) PROVE HoldInv'
  <2>1. st' = [st EXCEPT ![j] = "ended"] /\ place' = [place EXCEPT ![j] = Nowhere]
    BY <1>3 DEF End
  <2>2. \A k \in JobIds : st'[k] \in On => st[k] \in On /\ place'[k] = place[k]
    BY <1>t, <2>1
  <2> HIDE DEF On
  <2>3. QED BY <2>2
<1>4. ASSUME Pass PROVE HoldInv'
  <2>1. PICK D : D = Planned
    OBVIOUS
  <2>2. /\ st' = [j \in JobIds |-> IF \E d \in D : d.job = j THEN "ASSIGNED" ELSE st[j]]
        /\ place' = [j \in JobIds |-> IF \E d \in D : d.job = j
                                       THEN [node |-> (CHOOSE e \in D : e.job = j).node,
                                             devs |-> (CHOOSE e \in D : e.job = j).devs]
                                       ELSE place[j]]
    BY <1>4, <2>1 DEF Pass
  <2>3. \A d, e \in D : Disjoint(d, e)
    BY <2>1, PlannedFacts
  <2>4. \A d \in D : (CHOOSE e \in D : e.job = d.job) = d
    <3> TAKE d \in D
    <3>1. (CHOOSE e \in D : e.job = d.job) \in D /\ (CHOOSE e \in D : e.job = d.job).job = d.job
      BY Zenon
    <3>2. QED BY <2>3, <3>1 DEF Disjoint
  <2>5. ASSUME NEW j \in JobIds, NEW d \in D, d.job = j PROVE place'[j].node = d.node /\ place'[j].devs = d.devs
    <3> HIDE DEF HoldInv, On
    <3>1. place'[j] = [node |-> (CHOOSE e \in D : e.job = j).node,
                       devs |-> (CHOOSE e \in D : e.job = j).devs]
      BY <2>2, <2>5
    <3>2. (CHOOSE e \in D : e.job = j) = d
      BY <2>4, <2>5
    <3>3. place'[j] = [node |-> d.node, devs |-> d.devs]
      BY <3>1, <3>2, Zenon
    <3>4. PICK p : p = place'[j]
      OBVIOUS
    <3>5. p.node = d.node /\ p.devs = d.devs
      BY <3>3, <3>4
    <3>6. QED BY <3>4, <3>5, Zenon
  <2>6. ASSUME NEW j \in JobIds, \A d \in D : d.job # j PROVE st'[j] = st[j] /\ place'[j] = place[j]
    BY <2>2, <2>6
  <2>7. \A d \in D : \E n \in Cluster :
            /\ n.id = d.node /\ d.devs \in SUBSET KeysFor(n.devices, "")
            /\ \A i \in JobIds : st[i] \in On /\ place[i].node = d.node => place[i].devs \cap d.devs = {}
    <3> TAKE d \in D
    <3>1. PICK b \in PendingRows, m \in UpNodes : Gets(d, b, m, ActiveRows)
      BY <2>1, PlannedFacts
    <3>2. m \in ListNodes
      BY DEF UpNodes
    <3>3. PICK n \in Cluster : m.id = n.id /\ m.devices = n.devices
      BY <3>2, ListedNode
    <3>4. n.id = d.node /\ d.devs \in SUBSET KeysFor(n.devices, "")
      BY <3>1, <3>3 DEF Gets, KeysFor, Matching, matchName
    <3>5. ASSUME NEW i \in JobIds, st[i] \in On, place[i].node = d.node PROVE place[i].devs \cap d.devs = {}
      <4>1. Row(i) \in ActiveRows
        BY <3>5 DEF ActiveRows, Rows
      <4>2. Row(i).node = m.id /\ Row(i).devs = place[i].devs
        BY <3>1, <3>5, RowFacts DEF Gets
      <4>3. Row(i) \in OnNodeOf(ActiveRows, m)
        BY <4>1, <4>2 DEF OnNodeOf
      <4>4. Row(i).devs \in SUBSET DevsOf(OnNodeOf(ActiveRows, m))
        BY <4>3 DEF DevsOf
      <4>5. QED BY <3>1, <4>2, <4>4 DEF Gets
    <3>6. QED BY <3>4, <3>5
  <2> HIDE DEF On
  <2>8. ASSUME NEW j \in JobIds, st'[j] \in On
        PROVE  \E n \in Cluster : n.id = place'[j].node /\ place'[j].devs \in SUBSET KeysFor(n.devices, "")
    <3>1. CASE \E d \in D : d.job = j
      <4>1. PICK d \in D : d.job = j
        BY <3>1
      <4>2. place'[j].node = d.node /\ place'[j].devs = d.devs
        BY <2>5, <4>1
      <4>3. QED BY <2>7, <4>2
    <3>2. CASE \A d \in D : d.job # j
      BY <2>6, <2>8, <3>2
    <3>3. QED BY <3>1, <3>2
  <2>9. ASSUME NEW i \in JobIds, NEW j \in JobIds, i # j, st'[i] \in On, st'[j] \in On,
               place'[i].node = place'[j].node
        PROVE  place'[i].devs \cap place'[j].devs = {}
    <3>1. ASSUME NEW k \in JobIds, \A d \in D : d.job # k, st'[k] \in On, NEW d \in D, place'[k].node = d.node
          PROVE  place'[k].devs \cap d.devs = {}
      <4>1. st[k] \in On /\ place'[k] = place[k]
        BY <2>6, <3>1
      <4>2. QED BY <2>7, <3>1, <4>1
    <3>2. CASE (\E d \in D : d.job = i) /\ (\E d \in D : d.job = j)
      <4>1. PICK d \in D, e \in D : d.job = i /\ e.job = j
        BY <3>2
      <4>2. d # e /\ Disjoint(d, e)
        BY <2>3, <2>9, <4>1
      <4>3. /\ place'[i].node = d.node /\ place'[i].devs = d.devs
            /\ place'[j].node = e.node /\ place'[j].devs = e.devs
        BY <2>5, <4>1
      <4>4. QED BY <2>9, <4>2, <4>3 DEF Disjoint
    <3>3. CASE (\E d \in D : d.job = i) /\ (\A d \in D : d.job # j)
      <4>1. PICK d \in D : d.job = i
        BY <3>3
      <4>2. place'[i].node = d.node /\ place'[i].devs = d.devs
        BY <2>5, <4>1
      <4>3. place'[j].devs \cap d.devs = {}
        BY <2>9, <3>1, <3>3, <4>2
      <4>4. QED BY <4>2, <4>3
    <3>4. CASE (\A d \in D : d.job # i) /\ (\E d \in D : d.job = j)
      <4>1. PICK d \in D : d.job = j
        BY <3>4
      <4>2. place'[j].node = d.node /\ place'[j].devs = d.devs
        BY <2>5, <4>1
      <4>3. place'[i].devs \cap d.devs = {}
        BY <2>9, <3>1, <3>4, <4>2
      <4>4. QED BY <4>2, <4>3
    <3>5. CASE (\A d \in D : d.job # i) /\ (\A d \in D : d.job # j)
      BY <2>6, <2>9, <3>5
    <3>6. QED BY <3>2, <3>3, <3>4, <3>5
  <2>10. QED BY <2>8, <2>9
<1>5. ASSUME UNCHANGED <<st, place>> PROVE HoldInv'
  BY <1>5
<1>6. QED BY <1>1, <1>2, <1>3, <1>4, <1>5 DEF TimelineNext, NodeFlips, Tick, tvars

\* What is known of the active jobs in every state.
WorldInv == TimelineType /\ NoOvercommit /\ TimesInv /\ HoldInv

\* It holds in every state.
THEOREM ActiveJobsAreApart == TimelineSpec => []WorldInv
<1>1. TimelineInit => TimesInv /\ HoldInv
  BY WorldInit
<1>2. TimelineType /\ TimesInv /\ HoldInv /\ [TimelineNext]_tvars => TimesInv' /\ HoldInv'
  BY TimesStep, HoldStep
<1>3. QED BY <1>1, <1>2, TimelineTypes, NodesAreNotOvercommitted, PTL DEF TimelineSpec, WorldInv

-----------------------------------------------------------------------------
(* Backfill *)

\* At time u there is room for b beside those of occ that have not ended.
RoomAt(b, occ, u) == \E n \in UpNodes : RoomBeside(b, n, {x \in occ : EndOf(x) > u})

\* Jobs whose ends are known.
Occ(occ) == /\ occ \in SUBSET JobRecs /\ IsFiniteSet(occ) /\ IdsDiffer(occ)
            /\ \A x \in occ : EndOf(x) \in Nat /\ now <= EndOf(x)

\* EarliestStart is the first time at which there is room.
LEMMA EarliestFacts ==
    ASSUME now \in Nat, NEW b \in JobRecs, NEW occ, Occ(occ), EverRuns(b)
    PROVE  /\ EarliestStart(b, occ) \in Nat /\ now <= EarliestStart(b, occ)
           /\ RoomAt(b, occ, EarliestStart(b, occ))
           /\ \A u \in Nat : now <= u /\ RoomAt(b, occ, u) => EarliestStart(b, occ) <= u
<1> DEFINE Cands == {now} \cup {EndOf(x) : x \in occ}
           T == {t \in Cands : RoomAt(b, occ, t)}
<1>1. \A x \in occ : EndOf(x) \in Nat /\ now <= EndOf(x)
  BY DEF Occ
<1>2. Cands \in SUBSET Nat /\ \A t \in Cands : now <= t
  BY <1>1
<1>3. EarliestStart(b, occ) = Min(T)
  BY DEF EarliestStart, RoomAt
<1>4. ASSUME NEW u \in Nat, now <= u, RoomAt(b, occ, u) PROVE \E c \in T : c <= u
  <2> DEFINE V == {c \in Cands : c <= u}
  <2>1. now \in V /\ V \in SUBSET Nat /\ V \in SUBSET (0..u)
    BY <1>2, <1>4
  <2>2. IsFiniteSet(0..u)
    BY FS_Interval
  <2>3. IsFiniteSet(V)
    <3> HIDE DEF V
    <3> QED BY <2>1, <2>2, FS_Subset
  <2>4. PICK m \in V : \A k \in V : k <= m
    <3> HIDE DEF V
    <3> QED BY <2>1, <2>3, GreatestNat
  <2>5. {x \in occ : EndOf(x) > m} = {x \in occ : EndOf(x) > u}
    <3>1. m \in Nat /\ m <= u
      BY <2>1, <2>4
    <3>2. ASSUME NEW x \in occ, EndOf(x) > m PROVE EndOf(x) > u
      <4>1. EndOf(x) \in Cands /\ EndOf(x) \in Nat
        BY <1>1
      <4>2. ~(EndOf(x) <= u)
        <5>1. EndOf(x) <= u => EndOf(x) \in V
          BY <4>1
        <5>2. EndOf(x) <= u => EndOf(x) <= m
          BY <2>4, <5>1
        <5>3. QED BY <3>1, <3>2, <4>1, <5>2
      <4>3. QED BY <4>1, <4>2
    <3>3. ASSUME NEW x \in occ, EndOf(x) > u PROVE EndOf(x) > m
      BY <1>1, <3>1, <3>3
    <3>4. QED BY <3>2, <3>3
  <2>6. RoomAt(b, occ, m)
    BY <1>4, <2>5 DEF RoomAt
  <2>7. m \in T /\ m <= u
    BY <2>4, <2>6
  <2>8. QED BY <2>7
<1>5. T # {}
  <2> DEFINE f == [x \in occ |-> EndOf(x)]
  <2>1. f \in [occ -> Nat] /\ \A x \in occ : f[x] = EndOf(x)
    BY <1>1
  <2>2. IsFiniteSet(occ)
    BY DEF Occ
  <2> HIDE DEF f
  <2>3. PICK u \in Nat : now <= u /\ \A x \in occ : f[x] <= u
    BY <2>1, <2>2, UpperBound
  <2>4. {x \in occ : EndOf(x) > u} = {}
    BY <1>1, <2>1, <2>3
  <2>5. RoomAt(b, occ, u)
    BY <2>4 DEF EverRuns, RoomAt
  <2> HIDE DEF T
  <2>6. QED BY <1>4, <2>3, <2>5
<1>6. T \in SUBSET Nat /\ \A t \in T : now <= t /\ RoomAt(b, occ, t)
  BY <1>2
<1> HIDE DEF T
<1>7. Min(T) \in T /\ \A k \in T : Min(T) <= k
  BY <1>5, <1>6, MinFacts
<1>8. ASSUME NEW u \in Nat, now <= u, RoomAt(b, occ, u) PROVE Min(T) <= u
  <2>1. PICK c \in T : c <= u
    BY <1>4, <1>8
  <2>2. Min(T) <= c /\ c \in Nat /\ Min(T) \in Nat
    BY <1>6, <1>7
  <2>3. QED BY <2>1, <2>2
<1>9. QED BY <1>3, <1>6, <1>7, <1>8

\* What a pass writes for a job that it places.
LEMMA PlacedFacts ==
    ASSUME WorldInv, NEW x \in PlacedRows(Planned)
    PROVE  /\ x \in JobRecs /\ x.start = NotStarted /\ x.assigned = now
           /\ \E d \in Planned : /\ x.id = d.job /\ x.walltime = Row(d.job).walltime
                                 /\ x \in PlacedRows({d})
           /\ x.walltime = 0 => EndOf(x) = now + Forever
           /\ x.walltime > 0 => EndOf(x) = (now + MaxLatency) + x.walltime
           /\ EndOf(x) \in Nat /\ now <= EndOf(x)
<1>1. PICK d \in Planned : x = [Row(d.job) EXCEPT !.node = d.node, !.devs = d.devs, !.assigned = now]
  BY DEF PlacedRows
<1>2. PICK b \in PendingRows : b.id = d.job
  BY PlannedFacts DEF Gets, WorldInv
<1>3. PICK j \in JobIds : b = Row(j) /\ st[j] = "PENDING"
  BY DEF PendingRows, Rows
<1>4. j = d.job
  BY <1>2, <1>3, RowFacts DEF WorldInv
<1>5. PICK r \in JobRecs : r = Row(d.job) /\ r.id = d.job /\ r.start = NotStarted
  <2>1. Row(j) \in JobRecs /\ Row(j).id = j
    BY RowFacts DEF WorldInv
  <2>2. Row(j).start = times[j].start
    BY DEF Row
  <2>3. times[j].start = NotStarted
    BY <1>3 DEF WorldInv, TimesInv
  <2>4. QED BY <1>4, <2>1, <2>2, <2>3
<1>6. d \in Decisions /\ now \in Nat /\ Forever \in Nat /\ MaxLatency \in Nat
  BY PlannedFacts, PlanAssumption, TimelineAssumption DEF WorldInv, TimelineType
<1>7. x = [r EXCEPT !.node = d.node, !.devs = d.devs, !.assigned = now]
  BY <1>1, <1>5
<1>8. /\ x \in JobRecs /\ x.start = r.start /\ x.assigned = now /\ x.id = r.id /\ x.walltime = r.walltime
  BY <1>6, <1>7 DEF JobRecs, Decisions
<1>9. x \in PlacedRows({d})
  BY <1>1 DEF PlacedRows
<1>10. x.walltime \in Nat
  BY <1>8 DEF JobRecs
<1>11. x.walltime = 0 => EndOf(x) = now + Forever
  BY DEF EndOf
<1>12. x.walltime > 0 => EndOf(x) = (now + MaxLatency) + x.walltime
  BY <1>5, <1>8, <1>10 DEF EndOf
<1>13. EndOf(x) \in Nat /\ now <= EndOf(x)
  BY <1>6, <1>10, <1>11, <1>12
<1>14. QED BY <1>5, <1>8, <1>9, <1>11, <1>12, <1>13

\* The active jobs with all, or some, of those that the pass places.
LEMMA OccFacts ==
    ASSUME WorldInv, NEW D \in SUBSET Planned
    PROVE  /\ Occ(ActiveRows \cup PlacedRows(D)) /\ Occ(ActiveRows)
           /\ PlacedRows(D) \in SUBSET PlacedRows(Planned)
<1>1. PlacedRows(D) \in SUBSET PlacedRows(Planned)
  BY DEF PlacedRows
<1>2. JobsOK(ActiveRows, now) /\ JobsOK(PendingRows, now) /\ now \in Nat
  BY PlannedTrace DEF WorldInv
<1>3. IsFiniteSet(PlacedRows(D))
  <2>1. PICK h, o, N : Trace(h, o, N, now, ListNodes, ActiveRows, PendingRows, policy) /\ Planned = h[N].decisions
    BY PlannedTrace DEF WorldInv
  <2>2. NodesOK(ListNodes) /\ N \in 0..N
    BY <2>1, ListOK DEF Trace
  <2>3. \A a \in ActiveRows, c \in PendingRows : a.id # c.id
    BY PlacedArePut DEF WorldInv
  <2>4. \A k \in 0..N : Accounts(h[k], ListNodes, ActiveRows, PendingRows, now)
    BY <1>2, <2>1, <2>2, <2>3, AccountTrace
  <2>5. IsFiniteSet(PlacedRows(Planned))
    BY <2>1, <2>2, <2>4, PlacedArePut DEF Accounts, WorldInv
  <2>6. QED BY <1>1, <2>5, FS_Subset
<1>4. \A x \in PlacedRows(D) : x \in JobRecs /\ EndOf(x) \in Nat /\ now <= EndOf(x)
  BY <1>1, PlacedFacts
<1>5. \A x \in ActiveRows : x \in JobRecs /\ EndOf(x) \in Nat /\ now <= EndOf(x)
  BY <1>2, ActiveEnds DEF JobsOK, WorldInv
<1>6. IsFiniteSet(ActiveRows) /\ IdsDiffer(ActiveRows)
  BY <1>2 DEF JobsOK
<1>7. IsFiniteSet(ActiveRows \cup PlacedRows(D))
  BY <1>3, <1>6, FS_Union
<1>8. ASSUME NEW x \in PlacedRows(D), NEW y \in PlacedRows(D), x.id = y.id PROVE x = y
  <2>1. PICK d \in Planned : x.id = d.job /\ x \in PlacedRows({d})
    BY <1>1, PlacedFacts
  <2>2. PICK e \in Planned : y.id = e.job /\ y \in PlacedRows({e})
    BY <1>1, PlacedFacts
  <2>3. d = e
    BY <1>8, <2>1, <2>2, PlannedFacts DEF Disjoint, WorldInv
  <2>4. QED BY <2>1, <2>2, <2>3 DEF PlacedRows
<1>9. ASSUME NEW x \in ActiveRows, NEW y \in PlacedRows(D) PROVE x.id # y.id
  <2>1. PICK d \in Planned : y.id = d.job
    BY <1>1, PlacedFacts
  <2>2. PICK b \in PendingRows : b.id = d.job
    BY PlannedFacts DEF Gets, WorldInv
  <2>3. QED BY <2>1, <2>2, PlacedArePut DEF WorldInv
<1>10. IdsDiffer(ActiveRows \cup PlacedRows(D))
  BY <1>6, <1>8, <1>9 DEF IdsDiffer
<1>11. QED BY <1>1, <1>4, <1>5, <1>6, <1>7, <1>10 DEF Occ

\* Fewer jobs, and at least as late: room stays room.
LEMMA RoomAtLess ==
    ASSUME NEW b \in JobRecs, NEW occ, Occ(occ), NEW less, NEW u, NEW v, RoomAt(b, occ, u),
           \A x \in less : EndOf(x) > v => x \in occ /\ EndOf(x) > u
    PROVE  RoomAt(b, less, v)
<1>1. PICK n \in UpNodes : RoomBeside(b, n, {x \in occ : EndOf(x) > u})
  BY DEF RoomAt
<1>2. n \in NodeRecs /\ IsFiniteSet(n.devices)
  BY ListOK DEF UpNodes, NodesOK, DevicesDiffer
<1>3. PICK S, T : S = {x \in occ : EndOf(x) > u} /\ T = {x \in less : EndOf(x) > v}
  OBVIOUS
<1>4. S \in SUBSET JobRecs /\ IsFiniteSet(S) /\ IdsDiffer(S) /\ T \in SUBSET S
  BY <1>3, FS_Subset DEF Occ, IdsDiffer
<1>5. RoomBeside(b, n, T)
  BY <1>1, <1>2, <1>3, <1>4, RoomSubset
<1>6. QED BY <1>3, <1>5 DEF RoomAt

\* The job that a plan has to protect is the one with the reservation, and the
\* jobs placed after it end before that reservation.
LEMMA HeldBackTurn ==
    ASSUME WorldInv, policy.backfill, NEW b \in HeldBack(Planned), NEW d \in Planned
    PROVE  \/ Ahead(Row(d.job), b)
           \/ backfillAllowed(now, Row(d.job), reservationTime(now, b, ListNodes, ActiveRows))
<1>0. TimelineType
  BY DEF WorldInv
<1>1. PICK h, o, N : Trace(h, o, N, now, ListNodes, ActiveRows, PendingRows, policy) /\ Planned = h[N].decisions
  BY <1>0, PlannedTrace
<1>2. /\ N \in Nat /\ N \in 0..N /\ o \in [1..N -> PendingRows]
      /\ \A j \in PendingRows : \E i \in 1..N : o[i] = j
      /\ \A i, k \in 1..N : i < k <=> Before(o[i], o[k], now, policy.ageWeight)
      /\ \A i, k \in 1..N : o[i].id = o[k].id => i = k
      /\ \A k \in 0..N : h[k] \in Accs(ListNodes, ResTimes(now, ListNodes, ActiveRows, PendingRows))
  BY <1>1 DEF Trace
<1>3. NodesOK(ListNodes) /\ UpOf(ListNodes) = UpNodes
  BY ListOK
<1>4. JobsOK(ActiveRows, now) /\ JobsOK(PendingRows, now) /\ now \in Nat
  BY <1>0, PlannedTrace
<1>5. /\ b \in PendingRows /\ (\A e \in Planned : e.job # b.id) /\ EverRuns(b)
      /\ \A c \in LeftOut(Planned) : c # b /\ EverRuns(c) => Ahead(b, c)
  BY DEF HeldBack, LeftOut
<1>6. PICK k \in 1..N : o[k] = b
  BY <1>2, <1>5
<1>7. PICK p \in 0..N : p = k - 1 /\ p <= N
  <2>1. k - 1 \in 0..N /\ k - 1 <= N
    BY <1>2
  <2>2. QED BY <2>1
<1>8. ~h[p].haveRes
  <2>1. SUFFICES ASSUME h[p].haveRes PROVE FALSE
    OBVIOUS
  <2>2. PICK i \in 1..N : /\ i <= p /\ Blocks(h[i - 1], h[i], o[i], now, ListNodes, ActiveRows, policy)
                          /\ Eligible(o[i], ListNodes) # {}
    BY <1>1, <1>7, <2>1, ReservedInTurn
  <2>3. o[i] \in PendingRows
    BY <1>2
  <2>4. ASSUME NEW e \in Planned, e.job = o[i].id PROVE FALSE
    <3>1. PICK j \in 1..N : /\ e.job = o[j].id
                            /\ \E m \in UpNodes, keys \in SUBSET Nat :
                                  Places(h[j - 1], h[j], o[j], m, keys, now, policy)
      BY <1>0, <1>1, PlannedInTurn
    <3>2. j = i
      BY <1>2, <2>4, <3>1
    <3>3. PICK m \in UpNodes, keys \in SUBSET Nat : Places(h[i - 1], h[i], o[i], m, keys, now, policy)
      BY <3>1, <3>2
    <3>4. PICK q \in 0..N : q = i - 1
      BY <1>2
    <3>5. m \in DOMAIN h[q].frees
      BY <1>2, <1>3 DEF Accs
    <3>6. QED BY <2>2, <3>3, <3>4, <3>5 DEF Blocks, Places
  <2>5. o[i] \in LeftOut(Planned) /\ EverRuns(o[i])
    BY <1>0, <2>2, <2>3, <2>4, EligibleRuns DEF LeftOut
  <2>6. i < k
    BY <1>2, <1>7, <2>2
  <2>7. o[i] # b
    <3>1. o[i] = o[k] => i = k
      BY <1>2
    <3>2. QED BY <1>2, <1>6, <2>6, <3>1
  <2>8. Ahead(b, o[i])
    BY <1>5, <2>5, <2>7
  <2>9. Before(b, o[i], now, policy.ageWeight)
    BY <1>0, <1>5, <2>3, <2>8, AheadIsBefore
  <2>10. k < i
    BY <1>2, <1>6, <2>9
  <2>11. QED BY <1>2, <2>6, <2>10
<1>9. Blocks(h[p], h[k], b, now, ListNodes, ActiveRows, policy)
  <2>1. Skips(h[p], h[k], b, now, policy) \/ Blocks(h[p], h[k], b, now, ListNodes, ActiveRows, policy)
    BY <1>0, <1>1, <1>5, <1>6, <1>7, LeftOutInTurn
  <2>2. QED BY <1>8, <2>1 DEF Skips
<1>10. Eligible(b, ListNodes) # {}
  <2>1. PICK n \in UpNodes : RoomBeside(b, n, {})
    BY <1>5 DEF EverRuns
  <2>2. n \in ListNodes /\ n.up /\ n \in NodeRecs /\ IsFiniteSet(n.devices)
    BY <1>3 DEF UpNodes, NodesOK, DevicesDiffer
  <2>3. b \in JobRecs
    BY <1>4, <1>5 DEF JobsOK
  <2>4. HasRoom(n, b)
    BY <2>1, <2>2, <2>3, RoomAlone
  <2>5. QED BY <2>2, <2>4 DEF Eligible
<1>11. h[k].haveRes /\ h[k].resTime = reservationTime(now, b, ListNodes, ActiveRows)
  BY <1>8, <1>9, <1>10 DEF Blocks
<1>12. PICK i \in 1..N : /\ o[i] = Row(d.job) /\ o[i] \in PendingRows /\ d.job = o[i].id
                         /\ \E n \in UpNodes, keys \in SUBSET Nat :
                               Places(h[i - 1], h[i], o[i], n, keys, now, policy)
  BY <1>0, <1>1, PlannedInTurn
<1>13. i # k
  BY <1>5, <1>6, <1>12
<1>14. CASE i < k
  <2>1. Before(o[i], b, now, policy.ageWeight)
    BY <1>2, <1>6, <1>14
  <2>2. QED BY <1>0, <1>5, <1>12, <2>1, AheadIsBefore
<1>15. CASE k < i
  <2>1. PICK q \in 0..N : q = i - 1 /\ k <= q /\ k \in 0..N
    <3>1. i - 1 \in 0..N /\ k <= i - 1 /\ k \in 0..N
      BY <1>2, <1>15
    <3>2. QED BY <3>1
  <2>2. Shrinks(h[k], h[q], ListNodes)
    BY <1>1, <1>4, <2>1, ShrinkTrace
  <2>3. h[q].haveRes /\ h[q].resTime = reservationTime(now, b, ListNodes, ActiveRows)
    BY <1>11, <2>2 DEF Shrinks
  <2>4. PICK n \in UpNodes, keys \in SUBSET Nat : Places(h[q], h[i], o[i], n, keys, now, policy)
    BY <1>12, <2>1
  <2>5. backfillAllowed(now, o[i], h[q].resTime)
    BY <2>3, <2>4 DEF Places
  <2>6. QED BY <1>12, <2>3, <2>5
<1>16. QED BY <1>2, <1>13, <1>14, <1>15

\* There is no later reservation than any time at which there will be room
\* beside the active jobs.
LEMMA ReservedBy ==
    ASSUME WorldInv, NEW b \in PendingRows, NEW u \in Nat, now <= u, RoomAt(b, ActiveRows, u)
    PROVE  /\ reservationTime(now, b, ListNodes, ActiveRows) \in Nat
           /\ reservationTime(now, b, ListNodes, ActiveRows) <= u
<1>1. JobsOK(ActiveRows, now) /\ JobsOK(PendingRows, now) /\ now \in Nat
  BY PlannedTrace DEF WorldInv
<1>2. b \in JobRecs
  BY <1>1 DEF JobsOK
<1>3. NodesOK(ListNodes) /\ UpOf(ListNodes) = UpNodes
  BY ListOK
<1>4. FitAll(ListNodes, ActiveRows)
  BY ActiveFit DEF WorldInv
<1>5. PICK n \in UpNodes : RoomBeside(b, n, {x \in ActiveRows : EndOf(x) > u})
  BY DEF RoomAt
<1>6. PICK S, T : S = {x \in ActiveRows : EndOf(x) > u} /\ T = {x \in ActiveRows : estEnd(now, x) > u}
  OBVIOUS
<1>7. T \in SUBSET S
  <2>1. \A x \in ActiveRows : EndOf(x) \in Nat /\ estEnd(now, x) \in Nat /\ estEnd(now, x) <= EndOf(x)
    BY <1>1, ActiveEnds, EstEndFacts DEF WorldInv, JobsOK
  <2>2. QED BY <1>6, <2>1
<1>8. S \in SUBSET JobRecs /\ IsFiniteSet(S) /\ IdsDiffer(S)
  BY <1>1, <1>6, FS_Subset DEF JobsOK, IdsDiffer
<1>9. n \in NodeRecs /\ IsFiniteSet(n.devices)
  BY <1>3 DEF UpNodes, NodesOK, DevicesDiffer
<1>10. RoomBeside(b, n, T)
  BY <1>2, <1>5, <1>6, <1>7, <1>8, <1>9, RoomSubset
<1>11. QED BY <1>1, <1>2, <1>3, <1>4, <1>6, <1>10, Reserved

\* Jobs put in front of the job with the reservation delay it by no more than
\* the time an agent may take to start them.
LEMMA BackfillBound ==
    ASSUME WorldInv, policy.backfill, NEW b \in HeldBack(Planned), NEW early, NEW late,
           early = EarliestStart(b, ActiveRows \cup PlacedRows(AheadOf(Planned, b))),
           late = EarliestStart(b, ActiveRows \cup PlacedRows(Planned))
    PROVE  /\ early \in Nat /\ late \in Nat /\ now <= early
           /\ early <= late /\ late <= early + MaxLatency
           /\ RoomAt(b, ActiveRows \cup PlacedRows(Planned), late)
           /\ RoomAt(b, ActiveRows \cup PlacedRows(Planned), early + MaxLatency)
<1>1. b \in PendingRows /\ EverRuns(b)
  BY DEF HeldBack, LeftOut
<1>2. JobsOK(PendingRows, now) /\ now \in Nat
  BY PlannedTrace DEF WorldInv
<1>3. b \in JobRecs /\ MaxLatency \in Nat
  BY <1>1, <1>2, TimelineAssumption DEF JobsOK
<1>4. PICK A, B : /\ A = ActiveRows \cup PlacedRows(AheadOf(Planned, b))
                  /\ B = ActiveRows \cup PlacedRows(Planned)
  OBVIOUS
<1>5. AheadOf(Planned, b) \in SUBSET Planned /\ Planned \in SUBSET Planned
  BY DEF AheadOf
<1>6. Occ(A) /\ Occ(B) /\ A \in SUBSET B
  BY <1>4, <1>5, OccFacts
<1>7. /\ early \in Nat /\ now <= early /\ RoomAt(b, A, early)
      /\ \A u \in Nat : now <= u /\ RoomAt(b, A, u) => early <= u
  BY <1>1, <1>2, <1>3, <1>4, <1>6, EarliestFacts
<1>8. /\ late \in Nat /\ now <= late /\ RoomAt(b, B, late)
      /\ \A u \in Nat : now <= u /\ RoomAt(b, B, u) => late <= u
  BY <1>1, <1>2, <1>3, <1>4, <1>6, EarliestFacts
<1>9. early <= late
  <2>1. \A x \in A : EndOf(x) > late => x \in B /\ EndOf(x) > late
    BY <1>6
  <2>2. RoomAt(b, A, late)
    BY <1>3, <1>6, <1>8, <2>1, RoomAtLess
  <2>3. QED BY <1>7, <1>8, <2>2
<1>10. PICK res \in Nat : res = reservationTime(now, b, ListNodes, ActiveRows) /\ res <= early
  <2>1. \A x \in ActiveRows : EndOf(x) > early => x \in A /\ EndOf(x) > early
    BY <1>4
  <2>2. RoomAt(b, ActiveRows, early)
    BY <1>3, <1>6, <1>7, <2>1, RoomAtLess
  <2>3. QED BY <1>1, <1>7, <2>2, ReservedBy
<1>11. PICK v \in Nat : v = early + MaxLatency /\ now <= v
  BY <1>2, <1>3, <1>7
<1>12. ASSUME NEW x \in B, EndOf(x) > v PROVE x \in A /\ EndOf(x) > early
  <2>1. EndOf(x) \in Nat
    BY <1>6 DEF Occ
  <2>2. EndOf(x) > early
    BY <1>3, <1>7, <1>11, <1>12, <2>1
  <2>3. CASE x \in ActiveRows
    BY <1>4, <2>2, <2>3
  <2>4. CASE x \in PlacedRows(Planned)
    <3>1. /\ x \in JobRecs
          /\ x.walltime > 0 => EndOf(x) = (now + MaxLatency) + x.walltime
      BY <2>4, PlacedFacts
    <3>2. PICK d \in Planned : x.walltime = Row(d.job).walltime /\ x \in PlacedRows({d})
      BY <2>4, PlacedFacts
    <3>3. CASE Ahead(Row(d.job), b)
      <4>1. d \in AheadOf(Planned, b)
        BY <3>3 DEF AheadOf
      <4>2. x \in PlacedRows(AheadOf(Planned, b))
        BY <3>2, <4>1 DEF PlacedRows
      <4>3. QED BY <1>4, <2>2, <4>2
    <3>4. CASE backfillAllowed(now, Row(d.job), res)
      <4>1. x.walltime > 0 /\ now + x.walltime <= res /\ x.walltime \in Nat
        BY <3>1, <3>2, <3>4 DEF backfillAllowed, JobRecs
      <4>2. EndOf(x) = (now + MaxLatency) + x.walltime
        BY <3>1, <4>1
      <4>3. EndOf(x) <= v
        BY <1>2, <1>3, <1>7, <1>10, <1>11, <4>1, <4>2
      <4>4. QED BY <1>12, <2>1, <4>3
    <3>5. QED BY <1>10, <3>3, <3>4, HeldBackTurn
  <2>5. QED BY <1>4, <2>3, <2>4
<1>13. RoomAt(b, B, v)
  BY <1>3, <1>6, <1>7, <1>12, RoomAtLess
<1>14. late <= v
  BY <1>8, <1>11, <1>13
<1>15. QED BY <1>4, <1>7, <1>8, <1>9, <1>11, <1>13, <1>14

\* In every plan, for any cluster, jobs, policy, times and latency, the jobs put
\* in front of the one with the reservation delay it by no more than the time an
\* agent may take to start them, and never make it earlier (Plan,
\* reservationTime, backfillAllowed).
THEOREM BackfillDelaysLittle == TimelineSpec => []BackfillIsBounded
<1>1. WorldInv => BackfillIsBounded
  BY BackfillBound DEF BackfillIsBounded
<1>2. QED BY <1>1, ActiveJobsAreApart, PTL

-----------------------------------------------------------------------------
(* Over many passes *)

\* j is the first of the pending jobs that could run at all.
IsFirst(j) ==
    /\ EverRuns(Row(j))
    /\ \A k \in JobIds : k # j /\ st[k] = "PENDING" /\ EverRuns(Row(k)) => Ahead(Row(j), Row(k))

Promises == [at : Nat, slack : Nat]

\* When the promise made to j is due.
Due(j) == promise[j].at + promise[j].slack

\* What keeps the promise made to j: it is first, and there will be room for it
\* when the promise is due, or that is beyond all times.
Kept(j) ==
    /\ policy.backfill /\ promise[j] \in Promises /\ now <= Due(j) /\ IsFirst(j)
    /\ Due(j) >= Forever \/ RoomAt(Row(j), ActiveRows, Due(j))

\* Every promise that still counts is kept, and only jobs that wait have one.
KeptInv ==
    /\ promise = [j \in JobIds |-> promise[j]]
    /\ \A j \in JobIds : st[j] # "PENDING" => promise[j] = None
    /\ \A j \in JobIds : st[j] = "PENDING" /\ promise[j] # None => Kept(j)

\* A promise is due at a time.
LEMMA DueIsTime == \A j : promise[j] \in Promises => Due(j) \in Nat
  BY DEF Due, Promises

\* Of two jobs exactly one is ahead.
LEMMA AheadTotal ==
    ASSUME TimelineType, NEW a, NEW b, a.id \in Nat, b.id \in Nat, a.priority \in Int, b.priority \in Int,
           a.submit \in Nat, b.submit \in Nat, a.id # b.id
    PROVE  (Ahead(a, b) \/ Ahead(b, a)) /\ ~(Ahead(a, b) /\ Ahead(b, a))
<1>1. policy.ageWeight \in Nat /\ now \in Nat
  BY TimelineAssumption DEF TimelineType
<1>2. PICK pa \in Int, pb \in Int : /\ pa = a.priority + policy.ageWeight * (now - a.submit)
                                    /\ pb = b.priority + policy.ageWeight * (now - b.submit)
  <2>1. now - a.submit \in Int /\ now - b.submit \in Int
    BY <1>1
  <2>2. policy.ageWeight * (now - a.submit) \in Int /\ policy.ageWeight * (now - b.submit) \in Int
    BY <1>1, <2>1
  <2>3. QED BY <2>2
<1>3. /\ Ahead(a, b) <=> pa > pb \/ (pa = pb /\ (a.submit < b.submit \/ (a.submit = b.submit /\ a.id < b.id)))
      /\ Ahead(b, a) <=> pb > pa \/ (pb = pa /\ (b.submit < a.submit \/ (b.submit = a.submit /\ b.id < a.id)))
  BY <1>2, Zenon DEF Ahead
<1>4. QED BY <1>3

\* The rows of the next state are as Plan expects them, too.
LEMMA NextRows == TimelineType' => JobsOK(ActiveRows', now')
<1>1. TimelineType => JobsOK(ActiveRows, now)
  BY PlannedTrace
<1>2. TimelineType' => JobsOK(ActiveRows, now)'
  BY <1>1, PTL
<1>3. QED BY <1>2

\* While clock, nodes and policy stay, the judgements are about the new rows.
LEMMA Frame ==
    ASSUME now' = now, upIds' = upIds, policy' = policy
    PROVE  /\ \A j : EverRuns(Row(j))' <=> EverRuns(Row(j)')
           /\ \A j, k : Ahead(Row(j), Row(k))' <=> Ahead(Row(j)', Row(k)')
           /\ \A j : RoomAt(Row(j), ActiveRows, Due(j))' <=> RoomAt(Row(j)', ActiveRows', Due(j)')
<1>1. UpNodes' = UpNodes
  BY DEF UpNodes, ListNodes
<1>2. \A j : EverRuns(Row(j))' <=> EverRuns(Row(j)')
  BY <1>1 DEF EverRuns
<1>3. \A j, k : Ahead(Row(j), Row(k))' <=> Ahead(Row(j)', Row(k)')
  BY DEF Ahead
<1>4. \A j : RoomAt(Row(j), ActiveRows, Due(j))' <=> RoomAt(Row(j)', ActiveRows', Due(j)')
  BY <1>1 DEF RoomAt, EndOf
<1>5. QED BY <1>2, <1>3, <1>4

\* A step that leaves the job where it is and puts nobody in front of it keeps
\* the promise, if there is room for the job when the promise is due then.
LEMMA KeptLater ==
    ASSUME now \in Nat, now' = now, upIds' = upIds, policy' = policy, NEW j \in JobIds, Kept(j),
           promise'[j] \in Promises, Due(j) <= Due(j)', Row(j)' = Row(j),
           \A k \in JobIds : k # j /\ st'[k] = "PENDING" =>
               (st[k] = "PENDING" /\ Row(k)' = Row(k)) \/ Ahead(Row(j), Row(k)'),
           Due(j) < Forever /\ RoomAt(Row(j), ActiveRows, Due(j))
               => RoomAt(Row(j), ActiveRows', Due(j)')
    PROVE  Kept(j)'
<1>1. EverRuns(Row(j))'
  BY Frame DEF Kept, IsFirst
<1>2. ASSUME NEW k \in JobIds, k # j, st'[k] = "PENDING", EverRuns(Row(k))' PROVE Ahead(Row(j), Row(k))'
  <2>1. EverRuns(Row(k)')
    BY <1>2, Frame
  <2>2. Ahead(Row(j)', Row(k)')
    <3>1. CASE st[k] = "PENDING" /\ Row(k)' = Row(k)
      BY <1>2, <2>1, <3>1 DEF Kept, IsFirst
    <3>2. CASE Ahead(Row(j), Row(k)')
      BY <3>2
    <3>3. QED BY <1>2, <3>1, <3>2
  <2>3. QED BY <2>2, Frame
<1>3. IsFirst(j)'
  BY <1>1, <1>2 DEF IsFirst
<1>4. Due(j) \in Nat /\ Due(j)' \in Nat /\ Forever \in Nat
  <2>1. Due(j) \in Nat /\ Forever \in Nat
    BY DueIsTime, PlanAssumption DEF Kept
  <2>2. Due(j)' \in Nat
    BY DEF Due, Promises
  <2>3. QED BY <2>1, <2>2
<1>5. (Due(j) >= Forever \/ RoomAt(Row(j), ActiveRows, Due(j)))'
  <2>1. Due(j)' >= Forever \/ RoomAt(Row(j), ActiveRows', Due(j)')
    BY <1>4 DEF Kept
  <2>2. Due(j)' >= Forever \/ RoomAt(Row(j)', ActiveRows', Due(j)')
    BY <2>1
  <2>3. QED BY <2>2, Frame
<1>6. (now <= Due(j))'
  BY <1>4 DEF Kept
<1>7. (policy.backfill /\ promise[j] \in Promises)'
  BY DEF Kept
<1>8. QED BY <1>3, <1>5, <1>6, <1>7 DEF Kept

\* The same for a step that leaves the promise as it is.
LEMMA KeptQuietly ==
    ASSUME now \in Nat, now' = now, upIds' = upIds, policy' = policy, NEW j \in JobIds, Kept(j),
           promise'[j] = promise[j], Row(j)' = Row(j),
           \A k \in JobIds : k # j /\ st'[k] = "PENDING" =>
               (st[k] = "PENDING" /\ Row(k)' = Row(k)) \/ Ahead(Row(j), Row(k)'),
           Due(j) < Forever /\ RoomAt(Row(j), ActiveRows, Due(j))
               => RoomAt(Row(j), ActiveRows', Due(j))
    PROVE  Kept(j)'
<1>1. Due(j)' = Due(j)
  BY DEF Due
<1>2. promise'[j] \in Promises /\ Due(j) \in Nat
  BY DueIsTime DEF Kept
<1>3. Due(j) <= Due(j)'
  BY <1>1, <1>2
<1>4. Due(j) < Forever /\ RoomAt(Row(j), ActiveRows, Due(j)) => RoomAt(Row(j), ActiveRows', Due(j)')
  BY <1>1
<1>5. QED BY <1>2, <1>3, <1>4, KeptLater

\* A job that a pass places could run on the node alone.
LEMMA PlacedRuns ==
    ASSUME TimelineType, NEW d \in Planned
    PROVE  d.job \in JobIds /\ st[d.job] = "PENDING" /\ EverRuns(Row(d.job))
<1>1. PICK h, o, N : Trace(h, o, N, now, ListNodes, ActiveRows, PendingRows, policy) /\ Planned = h[N].decisions
  BY PlannedTrace
<1>2. JobsOK(ActiveRows, now) /\ JobsOK(PendingRows, now) /\ now \in Nat
  BY PlannedTrace
<1>3. NodesOK(ListNodes) /\ UpOf(ListNodes) = UpNodes
  BY ListOK
<1>4. PICK i \in 1..N : /\ o[i] = Row(d.job) /\ o[i] \in PendingRows /\ d.job = o[i].id
                        /\ \E n \in UpNodes, keys \in SUBSET Nat :
                              Places(h[i - 1], h[i], o[i], n, keys, now, policy)
  BY <1>1, PlannedInTurn
<1>5. PICK b \in JobRecs : b = Row(d.job) /\ b \in PendingRows /\ b.id = d.job
  BY <1>2, <1>4 DEF JobsOK
<1>6. d.job \in JobIds /\ st[d.job] = "PENDING"
  <2>1. PICK j \in JobIds : b = Row(j) /\ st[j] = "PENDING"
    BY <1>5 DEF PendingRows, Rows
  <2>2. QED BY <1>5, <2>1, RowFacts
<1>7. PICK p \in 0..N : p = i - 1 /\ 0 \in 0..N /\ 0 <= p
  <2>1. N \in Nat
    BY <1>1 DEF Trace
  <2>2. i - 1 \in 0..N /\ 0 \in 0..N /\ 0 <= i - 1
    BY <2>1
  <2>3. QED BY <2>2
<1>8. PICK n \in UpNodes, keys \in SUBSET Nat : Places(h[p], h[i], b, n, keys, now, policy)
  BY <1>4, <1>5, <1>7
<1>9. n \in ListNodes /\ n.up /\ n \in NodeRecs /\ IsFiniteSet(n.devices)
  BY <1>3 DEF UpNodes, NodesOK, DevicesDiffer
<1>10. PICK fn \in NodeRecs, f0 \in NodeRecs : fn = h[p].frees[n] /\ f0 = h[0].frees[n]
  BY <1>1, <1>3, <1>7 DEF Trace, Accs
<1>11. /\ fn.partition = f0.partition /\ fn.cpus <= f0.cpus /\ fn.mem <= f0.mem
       /\ fn.devices \in SUBSET f0.devices
  <2>1. Shrinks(h[0], h[p], ListNodes)
    BY <1>1, <1>2, <1>7, ShrinkTrace
  <2>2. QED BY <1>3, <1>10, <2>1 DEF Shrinks
<1>12. f0 = freeNode(n, ActiveRows)
  <2>1. Starts(h[0], ListNodes, ActiveRows)
    BY <1>1, <1>2, <1>3, TraceStart
  <2>2. n \in UpOf(ListNodes)
    BY <1>3
  <2>3. QED BY <1>10, <2>1, <2>2 DEF Starts
<1>13. PICK S : S = OnNodeOf(ActiveRows, n)
  OBVIOUS
<1>14. /\ f0.partition = n.partition /\ CpusOf(S) \in Nat /\ MemOf(S) \in Nat
       /\ f0.cpus = subU(n.cpus, CpusOf(S)) /\ f0.mem = subU(n.mem, MemOf(S))
       /\ f0.devices \in SUBSET n.devices
  <2>1. /\ f0.partition = n.partition /\ CpusOf(S) \in Nat /\ MemOf(S) \in Nat
        /\ f0.cpus = subU(n.cpus, CpusOf(S)) /\ f0.mem = subU(n.mem, MemOf(S))
        /\ f0.devices = {dev \in n.devices : dev.key \notin DevsOf(S)}
    <3>1. /\ freeNode(n, ActiveRows).partition = n.partition
          /\ CpusOf(OnNodeOf(ActiveRows, n)) \in Nat /\ MemOf(OnNodeOf(ActiveRows, n)) \in Nat
          /\ freeNode(n, ActiveRows).cpus = subU(n.cpus, CpusOf(OnNodeOf(ActiveRows, n)))
          /\ freeNode(n, ActiveRows).mem = subU(n.mem, MemOf(OnNodeOf(ActiveRows, n)))
          /\ freeNode(n, ActiveRows).devices
               = {dev \in n.devices : dev.key \notin DevsOf(OnNodeOf(ActiveRows, n))}
      BY <1>2, <1>3, <1>9, FreeFacts
    <3>2. QED BY <1>12, <1>13, <3>1
  <2>2. QED BY <2>1
<1>15. n.cpus \in Nat /\ n.mem \in Nat /\ fn.cpus \in Nat /\ fn.mem \in Nat
  BY <1>9 DEF NodeRecs
<1>16. f0.cpus <= n.cpus /\ f0.mem <= n.mem /\ f0.cpus \in Nat /\ f0.mem \in Nat
  <2>1. subU(n.cpus, CpusOf(S)) \in Nat /\ subU(n.cpus, CpusOf(S)) <= n.cpus
    BY <1>14, <1>15, SubFacts
  <2>2. subU(n.mem, MemOf(S)) \in Nat /\ subU(n.mem, MemOf(S)) <= n.mem
    BY <1>14, <1>15, SubFacts
  <2>3. QED BY <1>14, <2>1, <2>2
<1>17. n.cpus >= fn.cpus /\ n.mem >= fn.mem
  BY <1>11, <1>15, <1>16
<1>18. HasRoom(fn, b)
  BY <1>8, <1>10 DEF Places
<1>19. fn.devices \in SUBSET n.devices /\ n.partition = fn.partition
  BY <1>11, <1>14
<1>20. HasRoom(n, b)
  BY <1>9, <1>17, <1>18, <1>19, RoomGrows
<1>21. RoomBeside(b, n, {})
  BY <1>9, <1>20, RoomAlone
<1>22. QED BY <1>5, <1>6, <1>21 DEF EverRuns

\* What a step on one job leaves alone.
LEMMA OthersStay ==
    ASSUME spec' = spec, NEW k, times'[k] = times[k], place'[k] = place[k]
    PROVE  Row(k)' = Row(k)
BY DEF Row

\* A job that arrives overtakes no job with a promise that still counts.
LEMMA KeptSubmit ==
    ASSUME WorldInv, KeptInv, NEW i \in JobIds, Submit(i)
    PROVE  KeptInv'
<1>0. TimelineType
  BY DEF WorldInv
<1>t. /\ st \in [JobIds -> States] /\ now \in Nat
      /\ times \in [JobIds -> [submit : Nat, assigned : Nat, start : Nat \cup {NotStarted}]]
  BY <1>0 DEF TimelineType
<1>1. /\ st[i] = "absent" /\ st' = [st EXCEPT ![i] = "PENDING"] /\ times' = [times EXCEPT ![i].submit = now]
      /\ now' = now /\ policy' = policy /\ upIds' = upIds /\ spec' = spec /\ place' = place
  BY DEF Submit
<1>2. promise' = [k \in JobIds |->
                     IF st[k] = "PENDING" /\ Ahead([Row(i) EXCEPT !.submit = now], Row(k))
                     THEN None ELSE promise[k]]
  BY DEF Submit
<1>3. \A k \in JobIds : k # i => st'[k] = st[k] /\ Row(k)' = Row(k)
  <2>1. \A k \in JobIds : k # i => st'[k] = st[k] /\ times'[k] = times[k] /\ place'[k] = place[k]
    BY <1>t, <1>1
  <2>2. QED BY <1>1, <2>1, OthersStay
<1>4. ActiveRows' = ActiveRows
  <2>1. {k \in JobIds : st'[k] \in {"ASSIGNED", "RUNNING"}} = {k \in JobIds : st[k] \in {"ASSIGNED", "RUNNING"}}
    BY <1>t, <1>1
  <2>2. \A k \in {l \in JobIds : st[l] \in {"ASSIGNED", "RUNNING"}} : Row(k)' = Row(k)
    BY <1>1, <1>3
  <2>3. QED BY <2>1, <2>2 DEF ActiveRows, Rows
<1>5. PICK r : r = [Row(i) EXCEPT !.submit = now]
  OBVIOUS
<1>6. Row(i)' = r
  <2>1. times'[i] = [times[i] EXCEPT !.submit = now]
    BY <1>t, <1>1
  <2>2. /\ times'[i].submit = now /\ times'[i].assigned = times[i].assigned /\ times'[i].start = times[i].start
    BY <1>t, <2>1
  <2>3. QED BY <1>1, <1>5, <2>2 DEF Row
<1>7. r.id = i /\ r.priority \in Int /\ r.submit \in Nat
  <2>1. PICK q \in JobRecs : q = Row(i) /\ q.id = i
    BY <1>0, RowFacts
  <2>2. QED BY <1>t, <1>5, <2>1 DEF JobRecs
<1>8. (promise = [j \in JobIds |-> promise[j]])'
  BY <1>2
<1>9. ASSUME NEW j \in JobIds, st'[j] # "PENDING" PROVE promise'[j] = None
  <2>1. st[j] # "PENDING"
    BY <1>t, <1>1, <1>9
  <2>2. QED BY <1>2, <2>1 DEF KeptInv
<1>10. ASSUME NEW j \in JobIds, st'[j] = "PENDING", promise'[j] # None PROVE Kept(j)'
  <2>1. j # i
    <3>1. promise[i] = None
      BY <1>1 DEF KeptInv
    <3>2. promise'[i] = None
      BY <1>1, <1>2, <3>1
    <3>3. QED BY <1>10, <3>2
  <2>2. st[j] = "PENDING" /\ Row(j)' = Row(j)
    BY <1>3, <1>10, <2>1
  <2>3. promise'[j] = promise[j] /\ ~Ahead(r, Row(j))
    BY <1>2, <1>5, <1>10, <2>2
  <2>4. Kept(j)
    BY <1>10, <2>2, <2>3 DEF KeptInv
  <2>5. Ahead(Row(j), r)
    <3>1. PICK q \in JobRecs : q = Row(j) /\ q.id = j
      BY <1>0, RowFacts
    <3>2. q.id \in Nat /\ q.priority \in Int /\ q.submit \in Nat /\ q.id # r.id
      BY <1>7, <2>1, <3>1 DEF JobRecs
    <3>3. r.id \in Nat
      BY <1>7 DEF JobIds
    <3>4. Ahead(r, q) \/ Ahead(q, r)
      BY <1>0, <1>7, <3>2, <3>3, AheadTotal
    <3>5. QED BY <2>3, <3>1, <3>4
  <2>6. \A k \in JobIds : k # j /\ st'[k] = "PENDING" =>
           (st[k] = "PENDING" /\ Row(k)' = Row(k)) \/ Ahead(Row(j), Row(k)')
    BY <1>3, <1>6, <2>5
  <2>7. QED BY <1>t, <1>1, <1>4, <2>2, <2>3, <2>4, <2>6, KeptQuietly
<1>11. QED BY <1>8, <1>9, <1>10 DEF KeptInv

\* A job that starts will end no later than it would have if it had started at
\* the last moment.
LEMMA KeptStart ==
    ASSUME WorldInv, KeptInv, NEW i \in JobIds, Start(i)
    PROVE  KeptInv'
<1>0. TimelineType /\ TimelineType'
  BY TypeStep DEF WorldInv, TimelineNext
<1>t. /\ st \in [JobIds -> States] /\ now \in Nat
      /\ times \in [JobIds -> [submit : Nat, assigned : Nat, start : Nat \cup {NotStarted}]]
  BY <1>0 DEF TimelineType
<1>1. /\ st[i] = "ASSIGNED" /\ st' = [st EXCEPT ![i] = "RUNNING"] /\ times' = [times EXCEPT ![i].start = now]
      /\ now' = now /\ policy' = policy /\ upIds' = upIds /\ spec' = spec /\ place' = place /\ promise' = promise
  BY DEF Start
<1>2. /\ \A k \in JobIds : k # i => st'[k] = st[k] /\ Row(k)' = Row(k)
      /\ st'[i] = "RUNNING"
  <2>1. /\ \A k \in JobIds : k # i => st'[k] = st[k] /\ times'[k] = times[k] /\ place'[k] = place[k]
        /\ st'[i] = "RUNNING"
    BY <1>t, <1>1
  <2>2. QED BY <1>1, <2>1, OthersStay
<1>3. PICK r, s : r = Row(i) /\ s = Row(i)'
  OBVIOUS
<1>4. /\ r \in ActiveRows /\ r \in JobRecs /\ r.start = NotStarted /\ now <= r.assigned + MaxLatency
  <2>1. Row(i).start = times[i].start /\ Row(i).assigned = times[i].assigned
    BY DEF Row
  <2>2. times[i].start = NotStarted /\ now <= times[i].assigned + MaxLatency
    BY <1>1 DEF WorldInv, TimesInv
  <2>3. Row(i) \in ActiveRows /\ Row(i) \in JobRecs
    BY <1>0, <1>1, RowFacts DEF ActiveRows, Rows
  <2>4. QED BY <1>3, <2>1, <2>2, <2>3
<1>5. /\ s.id = r.id /\ s.node = r.node /\ s.devs = r.devs /\ s.cpus = r.cpus /\ s.mem = r.mem
      /\ s.walltime = r.walltime /\ s.start = now
  <2>1. times'[i].start = now
    BY <1>t, <1>1
  <2>2. QED BY <1>1, <1>3, <2>1 DEF Row
<1>6. EndOf(s) <= EndOf(r) /\ EndOf(s) \in Nat /\ EndOf(r) \in Nat
  <2>1. r.walltime \in Nat /\ r.assigned \in Nat /\ MaxLatency \in Nat /\ Forever \in Nat /\ NotStarted \notin Nat
    BY <1>4, PlanAssumption, TimelineAssumption DEF JobRecs
  <2>2. CASE r.walltime = 0
    <3>1. EndOf(s) = now + Forever /\ EndOf(r) = now + Forever
      BY <1>5, <2>2 DEF EndOf
    <3>2. QED BY <1>t, <2>1, <3>1
  <2>3. CASE r.walltime # 0
    <3>1. EndOf(r) = (r.assigned + MaxLatency) + r.walltime
      BY <1>4, <2>3 DEF EndOf
    <3>2. EndOf(s) = now + r.walltime
      BY <1>t, <1>5, <2>1, <2>3 DEF EndOf
    <3>3. QED BY <1>t, <1>4, <2>1, <3>1, <3>2
  <2>4. QED BY <2>2, <2>3
<1>7. \A y \in ActiveRows' : y = s \/ y \in ActiveRows
  <2> TAKE y \in ActiveRows'
  <2>1. PICK k \in JobIds : y = Row(k)' /\ st'[k] \in {"ASSIGNED", "RUNNING"}
    BY DEF ActiveRows, Rows
  <2>2. CASE k = i
    BY <1>3, <2>1, <2>2
  <2>3. CASE k # i
    BY <1>2, <2>1, <2>3 DEF ActiveRows, Rows
  <2>4. QED BY <2>2, <2>3
<1>8. JobsOK(ActiveRows, now) /\ JobsOK(ActiveRows', now)
  BY <1>0, <1>1, NextRows, PlannedTrace
<1>9. ASSUME NEW b \in JobRecs, NEW u \in Nat, RoomAt(b, ActiveRows, u) PROVE RoomAt(b, ActiveRows', u)
  <2>1. PICK n \in UpNodes : RoomBeside(b, n, {x \in ActiveRows : EndOf(x) > u})
    BY <1>9 DEF RoomAt
  <2>2. n \in NodeRecs /\ IsFiniteSet(n.devices)
    BY ListOK DEF UpNodes, NodesOK, DevicesDiffer
  <2>3. PICK S, T : S = {x \in ActiveRows : EndOf(x) > u} /\ T = {y \in ActiveRows' : EndOf(y) > u}
    OBVIOUS
  <2>4. S \in SUBSET JobRecs /\ IsFiniteSet(S)
    BY <1>8, <2>3, FS_Subset DEF JobsOK
  <2>5. T \in SUBSET JobRecs /\ IsFiniteSet(T) /\ IdsDiffer(T)
    BY <1>8, <2>3, FS_Subset DEF JobsOK, IdsDiffer
  <2>6. Within(T, S)
    <3>1. ASSUME NEW y \in T
          PROVE \E x \in S : /\ x.id = y.id /\ x.node = y.node /\ x.devs = y.devs
                             /\ x.cpus = y.cpus /\ x.mem = y.mem
      <4>1. CASE y = s
        <5>1. EndOf(r) > u
          BY <1>6, <2>3, <4>1
        <5>2. r \in S
          BY <1>4, <2>3, <5>1
        <5>3. QED BY <1>5, <4>1, <5>2
      <4>2. CASE y \in ActiveRows
        BY <2>3, <4>2
      <4>3. QED BY <1>7, <2>3, <4>1, <4>2
    <3>2. QED BY <3>1 DEF Within
  <2>7. RoomBeside(b, n, S)
    BY <2>1, <2>3
  <2>8. RoomBeside(b, n, T)
    BY <2>2, <2>4, <2>5, <2>6, <2>7, RoomLess
  <2>9. QED BY <2>3, <2>8 DEF RoomAt
<1>10. (promise = [j \in JobIds |-> promise[j]])'
  BY <1>1 DEF KeptInv
<1>11. ASSUME NEW j \in JobIds, st'[j] # "PENDING" PROVE promise'[j] = None
  <2>1. st[j] # "PENDING"
    BY <1>1, <1>2, <1>11
  <2>2. QED BY <1>1, <2>1 DEF KeptInv
<1>12. ASSUME NEW j \in JobIds, st'[j] = "PENDING", promise'[j] # None PROVE Kept(j)'
  <2>1. j # i
    BY <1>2, <1>12
  <2>2. st[j] = "PENDING" /\ Row(j)' = Row(j) /\ promise'[j] = promise[j]
    BY <1>1, <1>2, <1>12, <2>1
  <2>3. Kept(j)
    BY <1>12, <2>2 DEF KeptInv
  <2>4. \A k \in JobIds : k # j /\ st'[k] = "PENDING" =>
           (st[k] = "PENDING" /\ Row(k)' = Row(k)) \/ Ahead(Row(j), Row(k)')
    BY <1>2
  <2>5. Row(j) \in JobRecs /\ Due(j) \in Nat
    BY <1>0, <2>3, RowFacts, DueIsTime DEF Kept
  <2>6. RoomAt(Row(j), ActiveRows, Due(j)) => RoomAt(Row(j), ActiveRows', Due(j))
    BY <1>9, <2>5
  <2>7. QED BY <1>t, <1>1, <2>2, <2>3, <2>4, <2>6, KeptQuietly
<1>13. QED BY <1>10, <1>11, <1>12 DEF KeptInv

\* A job that ends leaves room.
LEMMA KeptEnd ==
    ASSUME WorldInv, KeptInv, NEW i \in JobIds, End(i)
    PROVE  KeptInv'
<1>0. TimelineType
  BY DEF WorldInv
<1>t. /\ st \in [JobIds -> States]
      /\ times \in [JobIds -> [submit : Nat, assigned : Nat, start : Nat \cup {NotStarted}]]
      /\ place \in [JobIds -> [node : Nat, devs : SUBSET Nat]]
      /\ now \in Nat
  BY <1>0 DEF TimelineType
<1>1. /\ st' = [st EXCEPT ![i] = "ended"] /\ times' = [times EXCEPT ![i] = NoTimes]
      /\ place' = [place EXCEPT ![i] = Nowhere] /\ promise' = promise /\ st[i] = "RUNNING"
      /\ now' = now /\ policy' = policy /\ upIds' = upIds /\ spec' = spec
  BY DEF End
<1>2. /\ \A k \in JobIds : k # i => st'[k] = st[k] /\ Row(k)' = Row(k) /\ promise'[k] = promise[k]
      /\ st'[i] = "ended"
  <2>1. /\ \A k \in JobIds : k # i => st'[k] = st[k] /\ times'[k] = times[k] /\ place'[k] = place[k]
        /\ st'[i] = "ended"
    BY <1>t, <1>1
  <2>2. QED BY <1>1, <2>1, OthersStay
<1>3. ActiveRows' \in SUBSET ActiveRows
  <2>1. ASSUME NEW y \in ActiveRows' PROVE y \in ActiveRows
    <3>1. PICK k \in JobIds : y = Row(k)' /\ st'[k] \in {"ASSIGNED", "RUNNING"}
      BY DEF ActiveRows, Rows
    <3>2. k # i
      BY <1>2, <3>1
    <3>3. QED BY <1>2, <3>1, <3>2 DEF ActiveRows, Rows
  <2>2. QED BY <2>1
<1>4. Occ(ActiveRows)
  BY OccFacts
<1>5. (promise = [j \in JobIds |-> promise[j]])'
  BY <1>1 DEF KeptInv
<1>6. ASSUME NEW j \in JobIds, st'[j] # "PENDING" PROVE promise'[j] = None
  <2>1. st[j] # "PENDING" /\ promise'[j] = promise[j]
    BY <1>1, <1>2, <1>6
  <2>2. QED BY <2>1 DEF KeptInv
<1>7. ASSUME NEW j \in JobIds, st'[j] = "PENDING", promise'[j] # None PROVE Kept(j)'
  <2>1. j # i
    BY <1>2, <1>7
  <2>2. st[j] = "PENDING" /\ Row(j)' = Row(j) /\ promise'[j] = promise[j]
    BY <1>2, <1>7, <2>1
  <2>3. Kept(j)
    BY <1>7, <2>2 DEF KeptInv
  <2>4. \A k \in JobIds : k # j /\ st'[k] = "PENDING" =>
           (st[k] = "PENDING" /\ Row(k)' = Row(k)) \/ Ahead(Row(j), Row(k)')
    BY <1>2
  <2>5. Row(j) \in JobRecs
    BY <1>0, RowFacts
  <2>6. \A x \in ActiveRows' : EndOf(x) > Due(j) => x \in ActiveRows /\ EndOf(x) > Due(j)
    BY <1>3
  <2>7. RoomAt(Row(j), ActiveRows, Due(j)) => RoomAt(Row(j), ActiveRows', Due(j))
    BY <1>4, <2>5, <2>6, RoomAtLess
  <2>8. QED BY <1>t, <1>1, <2>2, <2>3, <2>4, <2>7, KeptQuietly
<1>8. QED BY <1>5, <1>6, <1>7 DEF KeptInv

\* A pass keeps the promises it finds, for what it puts in front of the first
\* job ends before its reservation if it is started at once, and can keep those
\* it makes.
LEMMA KeptPass ==
    ASSUME WorldInv, KeptInv, Pass
    PROVE  KeptInv'
<1>0. TimelineType /\ now \in Nat /\ MaxLatency \in Nat
  BY PlannedTrace, TimelineAssumption DEF WorldInv
<1>1. PICK D : D = Planned
  OBVIOUS
<1>2. /\ st' = [j \in JobIds |-> IF \E d \in D : d.job = j THEN "ASSIGNED" ELSE st[j]]
      /\ times' = [j \in JobIds |-> IF \E d \in D : d.job = j
                                     THEN [times[j] EXCEPT !.assigned = now] ELSE times[j]]
      /\ \A j \in JobIds : (\A d \in D : d.job # j) => place'[j] = place[j]
      /\ now' = now /\ policy' = policy /\ upIds' = upIds /\ spec' = spec
  BY <1>1 DEF Pass
<1>3. promise' = [j \in JobIds |->
                    IF \E d \in D : d.job = j THEN None
                    ELSE IF promise[j] # None
                         THEN [promise[j] EXCEPT !.slack = promise[j].slack + Cost(D, Row(j))]
                    ELSE IF policy.backfill /\ Row(j) \in HeldBack(D)
                         THEN [at    |-> EarliestStart(Row(j), ActiveRows \cup
                                                           PlacedRows(AheadOf(D, Row(j)))),
                               slack |-> Cost(D, Row(j))]
                    ELSE None]
  BY <1>1 DEF Pass
<1>4. \A k \in JobIds : (\A d \in D : d.job # k) => st'[k] = st[k] /\ Row(k)' = Row(k)
  <2>1. \A k \in JobIds : (\A d \in D : d.job # k) =>
            st'[k] = st[k] /\ times'[k] = times[k] /\ place'[k] = place[k]
    BY <1>2
  <2>2. QED BY <1>2, <2>1, OthersStay
<1>5. \A k \in JobIds : st'[k] # "ASSIGNED" => \A d \in D : d.job # k
  BY <1>2
<1>6. ActiveRows' = ActiveRows \cup PlacedRows(D)
  BY <1>0, <1>1, PassRows
<1>7. /\ Occ(ActiveRows) /\ Occ(ActiveRows \cup PlacedRows(D))
  <2>1. Planned \in SUBSET Planned
    OBVIOUS
  <2>2. QED BY <1>1, <2>1, OccFacts
<1>8. \A j \in JobIds : Row(j) \in JobRecs /\ Row(j).id = j
  BY <1>0, RowFacts
<1>9. \A b \in HeldBack(D) : b \in PendingRows /\ b \in LeftOut(D) /\ EverRuns(b)
  BY DEF HeldBack, LeftOut
<1>10. \A b \in HeldBack(D) : b.id \in JobIds /\ b = Row(b.id) /\ st[b.id] = "PENDING"
  BY <1>8, <1>9 DEF PendingRows, Rows
<1>11. \A j \in JobIds : st'[j] = "PENDING" => st[j] = "PENDING" /\ Row(j)' = Row(j) /\ Row(j) \in LeftOut(D)
  BY <1>4, <1>5, <1>8 DEF LeftOut, PendingRows, Rows
<1>12. (promise = [j \in JobIds |-> promise[j]])'
  BY <1>3
<1>13. ASSUME NEW j \in JobIds, st'[j] # "PENDING" PROVE promise'[j] = None
  <2>1. CASE \E d \in D : d.job = j
    BY <1>3, <2>1
  <2>2. CASE \A d \in D : d.job # j
    <3>1. st[j] # "PENDING"
      BY <1>4, <1>13, <2>2
    <3>2. promise[j] = None /\ Row(j) \notin HeldBack(D)
      BY <1>8, <1>10, <3>1 DEF KeptInv
    <3>3. QED BY <1>3, <2>2, <3>2
  <2>3. QED BY <2>1, <2>2
<1>c. \A b : Cost(D, b) \in {0, MaxLatency} /\ Cost(D, b) \in Nat
  BY <1>0 DEF Cost
<1>14. ASSUME NEW j \in JobIds, st'[j] = "PENDING", promise[j] # None PROVE Kept(j)'
  <2>1. st[j] = "PENDING" /\ Row(j)' = Row(j) /\ Row(j) \in LeftOut(D)
    BY <1>11, <1>14
  <2>2. promise'[j] = [promise[j] EXCEPT !.slack = promise[j].slack + Cost(D, Row(j))]
    <3>1. \A d \in D : d.job # j
      BY <1>5, <1>14
    <3>2. QED BY <1>3, <1>14, <3>1
  <2>3. /\ Kept(j) /\ policy.backfill /\ IsFirst(j) /\ promise[j] \in Promises
        /\ Due(j) \in Nat /\ now <= Due(j)
    BY <1>14, <2>1, DueIsTime DEF KeptInv, Kept
  <2>4. PICK b \in JobRecs : b = Row(j) /\ b.id = j
    BY <1>8
  <2>5. b \in HeldBack(D)
    <3>1. ASSUME NEW c \in LeftOut(D), c # b, EverRuns(c) PROVE Ahead(b, c)
      <4>1. PICK k \in JobIds : c = Row(k) /\ st[k] = "PENDING"
        BY DEF LeftOut, PendingRows, Rows
      <4>2. k # j
        BY <2>4, <3>1, <4>1
      <4>3. QED BY <2>3, <2>4, <3>1, <4>1, <4>2 DEF IsFirst
    <3>2. QED BY <2>1, <2>3, <2>4, <3>1 DEF HeldBack, IsFirst
  <2>6. ASSUME NEW d \in D PROVE ~Ahead(Row(d.job), b)
    <3>1. d.job \in JobIds /\ st[d.job] = "PENDING" /\ EverRuns(Row(d.job))
      BY <1>0, <1>1, PlacedRuns
    <3>2. d.job # j
      BY <2>1, <2>4 DEF LeftOut
    <3>3. Ahead(b, Row(d.job))
      BY <2>3, <2>4, <3>1, <3>2 DEF IsFirst
    <3>4. PICK a \in JobRecs : a = Row(d.job) /\ a.id = d.job
      BY <1>8, <3>1
    <3>5. /\ a.id \in Nat /\ a.priority \in Int /\ a.submit \in Nat /\ a.id # b.id
          /\ b.id \in Nat /\ b.priority \in Int /\ b.submit \in Nat
      BY <2>4, <3>2, <3>4 DEF JobRecs
    <3>6. ~(Ahead(a, b) /\ Ahead(b, a))
      BY <1>0, <3>5, AheadTotal
    <3>7. QED BY <3>3, <3>4, <3>6
  <2>7. PICK cost \in Nat : cost = Cost(D, Row(j))
    BY <1>c
  <2>8. promise'[j] \in Promises /\ Due(j)' = Due(j) + cost
    <3>1. promise'[j] = [promise[j] EXCEPT !.slack = promise[j].slack + cost]
      BY <2>2, <2>7
    <3>2. PICK q \in Promises : q = promise[j]
      BY <2>3
    <3>3. promise'[j] = [q EXCEPT !.slack = q.slack + cost]
      BY <3>1, <3>2
    <3>4. q.at \in Nat /\ q.slack \in Nat
      BY DEF Promises
    <3>5. promise'[j] \in Promises /\ promise'[j].at = q.at /\ promise'[j].slack = q.slack + cost
      BY <3>3, <3>4 DEF Promises
    <3>6. Due(j) = q.at + q.slack /\ Due(j)' = q.at + (q.slack + cost)
      BY <3>2, <3>5 DEF Due
    <3>7. QED BY <3>4, <3>5, <3>6
  <2>9. D # {} => cost = MaxLatency
    <3>1. D # {} => ~(D \subseteq AheadOf(D, b))
      BY <2>6 DEF AheadOf
    <3>2. QED BY <2>4, <2>7, <3>1 DEF Cost
  <2>10. ASSUME RoomAt(b, ActiveRows, Due(j)) PROVE RoomAt(b, ActiveRows', Due(j)')
    <3>1. PICK u \in Nat, v \in Nat : u = Due(j) /\ v = Due(j)' /\ v = u + cost /\ now <= u
      BY <2>3, <2>8
    <3>2. PICK res \in Nat : res = reservationTime(now, b, ListNodes, ActiveRows) /\ res <= u
      BY <1>9, <2>5, <2>10, <3>1, ReservedBy
    <3>3. ASSUME NEW x \in ActiveRows', EndOf(x) > v PROVE x \in ActiveRows /\ EndOf(x) > u
      <4>0. EndOf(x) \in Nat
        BY <1>6, <1>7 DEF Occ
      <4>1. CASE x \in ActiveRows
        BY <3>1, <3>3, <4>0, <4>1
      <4>2. CASE x \in PlacedRows(D)
        <5>1. /\ x \in JobRecs
              /\ x.walltime > 0 => EndOf(x) = (now + MaxLatency) + x.walltime
          BY <1>1, <4>2, PlacedFacts
        <5>2. PICK d \in D : x.walltime = Row(d.job).walltime
          BY <1>1, <4>2, PlacedFacts
        <5>3. backfillAllowed(now, Row(d.job), res)
          BY <1>1, <2>3, <2>5, <2>6, <3>2, HeldBackTurn
        <5>4. x.walltime > 0 /\ now + x.walltime <= res /\ x.walltime \in Nat
          BY <5>1, <5>2, <5>3 DEF backfillAllowed, JobRecs
        <5>5. EndOf(x) = (now + MaxLatency) + x.walltime /\ cost = MaxLatency
          BY <2>9, <5>1, <5>2, <5>4
        <5>6. EndOf(x) <= v
          BY <1>0, <3>1, <3>2, <5>4, <5>5
        <5>7. QED BY <3>3, <4>0, <5>6
      <4>3. QED BY <1>6, <3>3, <4>1, <4>2
    <3>4. RoomAt(b, ActiveRows', v)
      BY <1>7, <2>10, <3>1, <3>3, RoomAtLess
    <3>5. QED BY <3>1, <3>4
  <2>11. \A k \in JobIds : k # j /\ st'[k] = "PENDING" =>
           (st[k] = "PENDING" /\ Row(k)' = Row(k)) \/ Ahead(Row(j), Row(k)')
    BY <1>11
  <2>12. Due(j) <= Due(j)'
    BY <2>3, <2>8
  <2>13. RoomAt(Row(j), ActiveRows, Due(j)) => RoomAt(Row(j), ActiveRows', Due(j)')
    BY <2>4, <2>10
  <2>14. QED BY <1>0, <1>2, <2>1, <2>3, <2>8, <2>11, <2>12, <2>13, KeptLater
<1>15. ASSUME NEW j \in JobIds, st'[j] = "PENDING", promise[j] = None, promise'[j] # None PROVE Kept(j)'
  <2>1. policy.backfill /\ Row(j) \in HeldBack(D)
    BY <1>3, <1>15
  <2>2. PICK b \in HeldBack(D) : b = Row(j) /\ b.id = j
    BY <1>8, <2>1
  <2>3. PICK cost \in Nat : cost = Cost(D, b) /\ cost \in {0, MaxLatency}
    BY <1>c
  <2>4. promise'[j] = [at |-> EarliestStart(b, ActiveRows \cup PlacedRows(AheadOf(D, b))), slack |-> cost]
    <3>1. \A d \in D : d.job # j
      BY <1>5, <1>15
    <3>2. QED BY <1>3, <1>15, <2>1, <2>2, <2>3, <3>1
  <2>5. PICK early, late : /\ early = EarliestStart(b, ActiveRows \cup PlacedRows(AheadOf(Planned, b)))
                           /\ late = EarliestStart(b, ActiveRows \cup PlacedRows(Planned))
    OBVIOUS
  <2>6. /\ early \in Nat /\ late \in Nat /\ now <= early /\ early <= late /\ late <= early + MaxLatency
        /\ RoomAt(b, ActiveRows \cup PlacedRows(Planned), late)
        /\ RoomAt(b, ActiveRows \cup PlacedRows(Planned), early + MaxLatency)
    BY <1>1, <2>1, <2>5, BackfillBound
  <2>7. /\ promise'[j] \in Promises /\ Due(j)' = early + cost /\ Due(j)' \in Nat /\ now <= Due(j)'
    <3>1. promise'[j] = [at |-> early, slack |-> cost]
      BY <1>1, <2>4, <2>5
    <3>2. promise'[j] \in Promises /\ promise'[j].at = early /\ promise'[j].slack = cost
      BY <2>6, <3>1 DEF Promises
    <3>3. Due(j)' = early + cost
      BY <3>2 DEF Due
    <3>4. QED BY <1>0, <2>6, <3>2, <3>3
  <2>8. RoomAt(b, ActiveRows', Due(j)')
    <3>1. CASE D \subseteq AheadOf(D, b)
      <4>1. AheadOf(D, b) = D /\ cost = 0
        BY <2>3, <3>1 DEF AheadOf, Cost
      <4>2. early = late /\ Due(j)' = late
        BY <1>1, <2>5, <2>6, <2>7, <4>1
      <4>3. QED BY <1>1, <1>6, <2>6, <4>2
    <3>2. CASE ~(D \subseteq AheadOf(D, b))
      <4>1. cost = MaxLatency
        BY <2>3, <3>2 DEF Cost
      <4>2. QED BY <1>1, <1>6, <2>6, <2>7, <4>1
    <3>3. QED BY <3>1, <3>2
  <2>9. st[j] = "PENDING" /\ Row(j)' = Row(j) /\ Row(j) \in LeftOut(D)
    BY <1>11, <1>15
  <2>10. RoomAt(Row(j), ActiveRows, Due(j))'
    <3>1. RoomAt(Row(j)', ActiveRows', Due(j)')
      BY <2>2, <2>8, <2>9
    <3>2. QED BY <1>2, <3>1, Frame
  <2>11. EverRuns(Row(j))'
    <3>1. EverRuns(Row(j)')
      BY <1>9, <2>2, <2>9
    <3>2. QED BY <1>2, <3>1, Frame
  <2>12. ASSUME NEW k \in JobIds, k # j, st'[k] = "PENDING", EverRuns(Row(k))' PROVE Ahead(Row(j), Row(k))'
    <3>1. Row(k)' = Row(k) /\ Row(k) \in LeftOut(D)
      BY <1>11, <2>12
    <3>2. EverRuns(Row(k)')
      BY <1>2, <2>12, Frame
    <3>3. Row(k) # b
      BY <1>8, <2>2, <2>12
    <3>4. Ahead(b, Row(k))
      BY <3>1, <3>2, <3>3 DEF HeldBack
    <3>5. Ahead(Row(j)', Row(k)')
      BY <2>2, <2>9, <3>1, <3>4
    <3>6. QED BY <1>2, <3>5, Frame
  <2>13. IsFirst(j)'
    BY <2>11, <2>12 DEF IsFirst
  <2>14. (policy.backfill /\ promise[j] \in Promises /\ now <= Due(j))'
    BY <1>2, <2>1, <2>7
  <2>15. QED BY <2>10, <2>13, <2>14 DEF Kept
<1>16. QED BY <1>12, <1>13, <1>14, <1>15 DEF KeptInv

\* Another tick adds the same to what two jobs have gained by waiting.
LEMMA Waiting ==
    ASSUME NEW w \in Nat, NEW t \in Nat, NEW p \in Int, NEW s \in Nat
    PROVE  \A x, y : x = p + w * (t - s) /\ y = p + w * ((t + 1) - s) => x \in Int /\ y = x + w
<1>1. PICK m \in Int : m = t - s /\ (t + 1) - s = m + 1
  OBVIOUS
<1>2. w * (m + 1) = w * m + w
  OBVIOUS
<1>3. PICK v \in Int : v = w * m
  OBVIOUS
<1>4. p + (v + w) = (p + v) + w
  OBVIOUS
<1>5. p + w * (t - s) = p + v /\ p + w * ((t + 1) - s) = (p + v) + w
  BY <1>1, <1>2, <1>3, <1>4
<1>6. QED BY <1>5

\* The order of two jobs at a time t.
AheadAt(a, b, w, t) ==
    LET pa == a.priority + w * (t - a.submit)
        pb == b.priority + w * (t - b.submit)
    IN  pa > pb \/ (pa = pb /\ (a.submit < b.submit \/ (a.submit = b.submit /\ a.id < b.id)))

\* It does not change with the time.
LEMMA OrderStays ==
    ASSUME NEW w \in Nat, NEW t \in Nat, NEW a \in JobRecs, NEW b \in JobRecs, AheadAt(a, b, w, t)
    PROVE  AheadAt(a, b, w, t + 1)
<1>1. a.priority \in Int /\ b.priority \in Int /\ a.submit \in Nat /\ b.submit \in Nat
  BY DEF JobRecs
<1>2. PICK pa, pb, qa, qb :
         /\ pa = a.priority + w * (t - a.submit) /\ pb = b.priority + w * (t - b.submit)
         /\ qa = a.priority + w * ((t + 1) - a.submit) /\ qb = b.priority + w * ((t + 1) - b.submit)
  OBVIOUS
<1>3. (pa \in Int /\ qa = pa + w) /\ (pb \in Int /\ qb = pb + w)
  <2>1. PICK p \in Int, q \in Int, s \in Nat, r \in Nat :
           p = a.priority /\ q = b.priority /\ s = a.submit /\ r = b.submit
    BY <1>1
  <2>2. /\ pa = p + w * (t - s) /\ pb = q + w * (t - r)
        /\ qa = p + w * ((t + 1) - s) /\ qb = q + w * ((t + 1) - r)
    BY <1>2, <2>1, Zenon
  <2>3. pa \in Int /\ qa = pa + w
    BY <2>2, Waiting
  <2>4. pb \in Int /\ qb = pb + w
    BY <2>2, Waiting
  <2>5. QED BY <2>3, <2>4
<1>4. (pa > pb => qa > qb) /\ (pa = pb => qa = qb)
  BY <1>3
<1>5. pa > pb \/ (pa = pb /\ (a.submit < b.submit \/ (a.submit = b.submit /\ a.id < b.id)))
  BY <1>2, Zenon DEF AheadAt
<1>6. qa > qb \/ (qa = qb /\ (a.submit < b.submit \/ (a.submit = b.submit /\ a.id < b.id)))
  BY <1>4, <1>5
<1>7. QED BY <1>2, <1>6, Zenon DEF AheadAt

\* The clock moves past no promise: when it is due there is room, and a plan
\* that leaves the first job out in spite of room does not exist.
LEMMA KeptTick ==
    ASSUME MaxTime < Forever, WorldInv, LeftOutForCause, KeptInv, Tick
    PROVE  KeptInv'
<1>0. TimelineType /\ now \in Nat /\ Forever \in Nat /\ MaxTime \in Nat /\ MaxLatency \in Nat
  BY PlannedTrace, PlanAssumption, TimelineAssumption DEF WorldInv
<1>1. /\ now < MaxTime /\ Planned = {} /\ now' = now + 1
      /\ policy' = policy /\ spec' = spec /\ st' = st /\ times' = times /\ place' = place
      /\ upIds' = upIds /\ promise' = promise
  BY DEF Tick
<1>2. \A j : Row(j)' = Row(j)
  BY <1>1 DEF Row
<1>3. ActiveRows' = ActiveRows
  BY <1>1, <1>2 DEF ActiveRows, Rows
<1>4. UpNodes' = UpNodes
  BY <1>1 DEF UpNodes, ListNodes
<1>5. \A j \in JobIds : Row(j) \in JobRecs /\ Row(j).id = j
  BY <1>0, RowFacts
<1>6. ASSUME NEW x \in ActiveRows
      PROVE  /\ EndOf(x) \in Nat /\ now < EndOf(x)
             /\ x \in JobRecs /\ x.walltime \in Nat
             /\ x.walltime = 0 => EndOf(x) = now + Forever
  <2>1. PICK j \in JobIds : x = Row(j) /\ st[j] \in {"ASSIGNED", "RUNNING"}
    BY DEF ActiveRows, Rows
  <2>2. x \in JobRecs /\ x.walltime \in Nat /\ x.assigned \in Nat
    BY <1>5, <2>1 DEF JobRecs
  <2>3. x.walltime = spec[j].walltime /\ x.assigned = times[j].assigned /\ x.start = times[j].start
    BY <2>1 DEF Row
  <2>4. x.walltime = 0 => EndOf(x) = now + Forever
    BY DEF EndOf
  <2>5. CASE x.walltime = 0
    BY <1>0, <1>1, <2>2, <2>4, <2>5
  <2>6. CASE x.walltime # 0 /\ st[j] = "ASSIGNED"
    <3>1. now < x.assigned + MaxLatency
      BY <2>3, <2>6 DEF Tick
    <3>2. x.start = NotStarted
      BY <2>3, <2>6 DEF WorldInv, TimesInv
    <3>3. EndOf(x) = (x.assigned + MaxLatency) + x.walltime
      BY <2>6, <3>2 DEF EndOf
    <3>4. QED BY <1>0, <2>2, <2>4, <2>6, <3>1, <3>3
  <2>7. CASE x.walltime # 0 /\ st[j] = "RUNNING"
    <3>1. x.walltime > 0
      BY <2>2, <2>7
    <3>2. now < x.start + x.walltime /\ x.start \in Nat
      BY <2>3, <2>7, <3>1 DEF Tick, WorldInv, TimesInv
    <3>3. x.start # NotStarted
      BY <3>2, PlanAssumption
    <3>4. EndOf(x) = x.start + x.walltime
      BY <2>7, <3>3 DEF EndOf
    <3>5. QED BY <2>2, <2>7, <3>2, <3>4
  <2>8. QED BY <2>1, <2>5, <2>6, <2>7
<1>7. ASSUME NEW j \in JobIds, st[j] = "PENDING", promise[j] # None PROVE Kept(j)'
  <2>1. /\ policy.backfill /\ promise[j] \in Promises /\ now <= Due(j) /\ IsFirst(j)
        /\ Due(j) >= Forever \/ RoomAt(Row(j), ActiveRows, Due(j))
    BY <1>7 DEF KeptInv, Kept
  <2>2. PICK b \in JobRecs, u \in Nat : b = Row(j) /\ u = Due(j) /\ u = Due(j)' /\ b.id = j
    <3>1. Due(j)' = Due(j)
      BY <1>1 DEF Due
    <3>2. QED BY <1>5, <2>1, <3>1, DueIsTime
  <2>3. b \in PendingRows /\ b \in LeftOut({})
    BY <1>7, <2>2 DEF LeftOut, PendingRows, Rows
  <2>4. now + 1 <= u
    <3>1. CASE u >= Forever
      BY <1>0, <1>1, <3>1
    <3>2. CASE u < Forever
      <4>1. SUFFICES ASSUME u = now PROVE FALSE
        BY <1>0, <2>1, <2>2
      <4>2. RoomAt(b, ActiveRows, now)
        BY <1>0, <2>1, <2>2, <3>2, <4>1
      <4>3. {x \in ActiveRows : EndOf(x) > now} = ActiveRows
        BY <1>0, <1>6
      <4>4. PICK n \in UpNodes : RoomBeside(b, n, ActiveRows)
        BY <4>2, <4>3 DEF RoomAt
      <4>5. ActiveRows \cup PlacedRows(Planned) = ActiveRows
        BY <1>1 DEF PlacedRows
      <4>6. \E m \in UpNodes : RoomBeside(b, m, ActiveRows \cup PlacedRows(Planned))
        BY <4>4, <4>5
      <4>7. b \in LeftOut(Planned)
        BY <1>1, <2>3
      <4>8. PICK c \in HeldBack(Planned) : c # b /\ Ahead(c, b)
        BY <4>6, <4>7, Zenon DEF LeftOutForCause
      <4>9. c \in PendingRows /\ EverRuns(c)
        BY DEF HeldBack, LeftOut
      <4>10. PICK k \in JobIds : c = Row(k) /\ st[k] = "PENDING"
        BY <4>9 DEF PendingRows, Rows
      <4>11. k # j
        BY <2>2, <4>8, <4>10
      <4>12. Ahead(b, c)
        BY <2>1, <2>2, <4>9, <4>10, <4>11 DEF IsFirst
      <4>13. c \in JobRecs /\ c.id = k
        BY <1>5, <4>10
      <4>14. /\ b.id \in Nat /\ b.priority \in Int /\ b.submit \in Nat /\ b.id # c.id
             /\ c.id \in Nat /\ c.priority \in Int /\ c.submit \in Nat
        BY <2>2, <4>11, <4>13 DEF JobRecs
      <4>15. QED BY <1>0, <4>8, <4>12, <4>14, AheadTotal
    <3>3. QED BY <1>0, <3>1, <3>2
  <2>5. EverRuns(Row(j))'
    BY <1>2, <1>4, <2>1 DEF IsFirst, EverRuns
  <2>6. ASSUME NEW k \in JobIds, k # j, st'[k] = "PENDING", EverRuns(Row(k))' PROVE Ahead(Row(j), Row(k))'
    <3>1. st[k] = "PENDING" /\ EverRuns(Row(k))
      BY <1>1, <1>2, <1>4, <2>6 DEF EverRuns
    <3>2. PICK c \in JobRecs : c = Row(k)
      BY <1>5
    <3>3. Ahead(b, c)
      BY <2>1, <2>2, <2>6, <3>1, <3>2 DEF IsFirst
    <3>4. AheadAt(b, c, policy.ageWeight, now)
      BY <3>3 DEF Ahead, AheadAt
    <3>5. policy.ageWeight \in Nat
      BY <1>0, TimelineAssumption DEF TimelineType
    <3>6. AheadAt(b, c, policy.ageWeight, now + 1)
      BY <1>0, <3>4, <3>5, OrderStays
    <3>7. Row(j)' = b /\ Row(k)' = c /\ policy'.ageWeight = policy.ageWeight
      BY <1>1, <1>2, <2>2, <3>2
    <3>8. AheadAt(Row(j)', Row(k)', policy'.ageWeight, now')
      BY <1>1, <3>6, <3>7
    <3>9. QED BY <3>8 DEF Ahead, AheadAt
  <2>7. IsFirst(j)'
    BY <2>5, <2>6 DEF IsFirst
  <2>8. CASE u >= Forever
    <3>1. (policy.backfill /\ promise[j] \in Promises /\ now <= Due(j) /\ Due(j) >= Forever)'
      BY <1>1, <2>1, <2>2, <2>4, <2>8
    <3>2. QED BY <2>7, <3>1 DEF Kept
  <2>9. CASE u < Forever
    <3>1. PICK n \in UpNodes : RoomBeside(b, n, {x \in ActiveRows : EndOf(x) > u})
      BY <1>0, <2>1, <2>2, <2>9 DEF RoomAt
    <3>2. {x \in ActiveRows : EndOf(x) > u} = {x \in ActiveRows : EndOf(x)' > u}
      <4>1. ASSUME NEW x \in ActiveRows PROVE EndOf(x) > u <=> EndOf(x)' > u
        <5>1. CASE x.walltime = 0
          <6>1. EndOf(x) = now + Forever /\ EndOf(x)' = (now + 1) + Forever
            BY <1>1, <5>1 DEF EndOf
          <6>2. QED BY <1>0, <2>9, <6>1
        <5>2. CASE x.walltime # 0
          BY <5>2 DEF EndOf
        <5>3. QED BY <5>1, <5>2
      <4>2. QED BY <4>1
    <3>3. RoomBeside(b, n, {x \in ActiveRows : EndOf(x)' > u})
      BY <3>1, <3>2
    <3>4. RoomAt(Row(j), ActiveRows, Due(j))'
      BY <1>1, <1>2, <1>3, <1>4, <2>2, <3>3 DEF RoomAt
    <3>5. (policy.backfill /\ promise[j] \in Promises /\ now <= Due(j))'
      BY <1>1, <2>1, <2>2, <2>4
    <3>6. QED BY <2>7, <3>4, <3>5 DEF Kept
  <2>10. QED BY <1>0, <2>8, <2>9
<1>8. (promise = [j \in JobIds |-> promise[j]])'
  BY <1>1 DEF KeptInv
<1>9. \A j \in JobIds : st'[j] # "PENDING" => promise'[j] = None
  BY <1>1 DEF KeptInv
<1>10. \A j \in JobIds : st'[j] = "PENDING" /\ promise'[j] # None => Kept(j)'
  BY <1>1, <1>7
<1>11. QED BY <1>8, <1>9, <1>10 DEF KeptInv

\* Every step keeps the promises.
LEMMA KeptStep ==
    ASSUME MaxTime < Forever, WorldInv, LeftOutForCause, KeptInv, [TimelineNext]_tvars
    PROVE  KeptInv'
<1>1. ASSUME NEW n \in Cluster, NodeFlips(n) PROVE KeptInv'
  <2>1. promise' = [j \in JobIds |-> None]
    BY <1>1 DEF NodeFlips
  <2>2. QED BY <2>1 DEF KeptInv
<1>2. ASSUME UNCHANGED tvars PROVE KeptInv'
  <2>1. /\ now' = now /\ policy' = policy /\ spec' = spec /\ st' = st /\ times' = times /\ place' = place
        /\ upIds' = upIds /\ promise' = promise
    BY <1>2 DEF tvars
  <2>2. (\A j : Row(j)' = Row(j)) /\ ActiveRows' = ActiveRows
    BY <2>1 DEF Row, ActiveRows, Rows
  <2>3. ASSUME NEW j \in JobIds, st[j] = "PENDING", promise[j] # None PROVE Kept(j)'
    <3>1. Kept(j)
      BY <2>3 DEF KeptInv
    <3>2. \A k \in JobIds : k # j /\ st'[k] = "PENDING" =>
             (st[k] = "PENDING" /\ Row(k)' = Row(k)) \/ Ahead(Row(j), Row(k)')
      BY <2>1, <2>2
    <3>3. now \in Nat
      BY DEF WorldInv, TimelineType
    <3>4. QED BY <2>1, <2>2, <3>1, <3>2, <3>3, KeptQuietly
  <2>4. (promise = [j \in JobIds |-> promise[j]])'
    BY <2>1 DEF KeptInv
  <2>5. QED BY <2>1, <2>3, <2>4 DEF KeptInv
<1>3. QED BY <1>1, <1>2, KeptSubmit, KeptStart, KeptEnd, KeptPass, KeptTick DEF TimelineNext

\* Over any number of passes, arrivals, starts and ends, and for any latency of
\* the agents: the first job that was held back starts no later than the first
\* pass that held it back could foresee, plus the latency for every pass that put
\* jobs in front of it, unless jobs ahead of it arrive or nodes change (Plan,
\* reservationTime, backfillAllowed).  With agents that start jobs at once nothing
\* is added.  The clock stays below Forever, the time a job without a walltime is
\* taken to run.
THEOREM ReservationsSlideLittle ==
    ASSUME MaxTime < Forever
    PROVE  TimelineSpec => []ReservationSlides
<1>1. TimelineInit => KeptInv
  BY DEF TimelineInit, KeptInv
<1>2. WorldInv /\ LeftOutForCause /\ KeptInv /\ [TimelineNext]_tvars => KeptInv'
  BY KeptStep
<1>3. KeptInv => ReservationSlides
  BY DEF KeptInv, Kept, Due, ReservationSlides
<1>4. QED BY <1>1, <1>2, <1>3, ActiveJobsAreApart, NothingIsLeftOutWithoutCause, PTL DEF TimelineSpec
=============================================================================
