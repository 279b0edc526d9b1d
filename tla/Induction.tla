------------------------------ MODULE Induction ------------------------------
(***************************************************************************)
(* Induction and recursion on the natural numbers, stated of sets and      *)
(* functions: what the proofs of the other modules need to reason about    *)
(* recursive functions, parts of sequences and permutations.               *)
(***************************************************************************)
EXTENDS Subsequence, FiniteSets, FiniteSetTheorems, WellFoundedInduction, TLAPS

\* A set of numbers has a least one.
LEMMA LeastNatural ==
    ASSUME NEW T \in SUBSET Nat, T # {}
    PROVE  \E n \in T : \A m \in T : n <= m
<1> DEFINE Less == {pair \in Nat \X Nat : pair[1] < pair[2]}
<1>1. OpToRel(<, Nat) = Less
  BY Zenon DEF OpToRel
<1>2. IsWellFoundedOn(Less, Nat)
  BY <1>1, NatLessThanWellFounded, Zenon
<1>3. PICK n \in T : \A m \in T : ~(<<m, n>> \in Less)
  BY <1>2, WFMin, Zenon
<1>4. ASSUME NEW m \in T PROVE n <= m
  <2>1. <<m, n>> \in Nat \X Nat /\ <<m, n>>[1] = m /\ <<m, n>>[2] = n
    OBVIOUS
  <2>2. m < n => <<m, n>> \in Less
    BY <2>1
  <2> QED
    BY <1>3, <2>2
<1> QED
  BY <1>4

\* A set that holds the first number and with every number the next holds them all.
LEMMA UpTo ==
    ASSUME NEW n \in Nat, NEW T, 0 \in T, \A k \in 0..n : k \in T /\ k < n => k + 1 \in T
    PROVE  0..n \subseteq T
<1> DEFINE B == (0..n) \ T
<1> SUFFICES ASSUME B # {} PROVE FALSE
  OBVIOUS
<1>1. PICK m \in B : \A k \in B : m <= k
  <2>1. B \in SUBSET Nat
    OBVIOUS
  <2> HIDE DEF B
  <2> QED
    BY <2>1, LeastNatural
<1>2. m \in 0..n /\ m # 0
  BY <1>1
<1>3. m - 1 \in 0..n /\ m - 1 < n /\ m - 1 \notin B
  BY <1>1, <1>2
<1> QED
  BY <1>1, <1>2, <1>3

-----------------------------------------------------------------------------
(* Recursion along 0..n.                                                   *)

\* f starts at base and goes on by step as far as m.
Follows(f, base, step, m) == f[0] = base /\ \A k \in 1..m : f[k] = step[<<f[k - 1], k>>]

\* Two functions that follow the same recursion agree.
LEMMA RecursionUnique ==
    ASSUME NEW n \in Nat, NEW f, NEW g, NEW base, NEW step,
           Follows(f, base, step, n), Follows(g, base, step, n)
    PROVE  \A k \in 0..n : f[k] = g[k]
<1> DEFINE T == {k \in 0..n : f[k] = g[k]}
<1>1. 0 \in T
  BY DEF Follows
<1>2. ASSUME NEW k \in 0..n, k \in T, k < n PROVE k + 1 \in T
  <2>1. k + 1 \in 1..n /\ (k + 1) - 1 = k
    BY <1>2
  <2>2. f[k + 1] = step[<<f[k], k + 1>>] /\ g[k + 1] = step[<<g[k], k + 1>>]
    BY <2>1 DEF Follows
  <2> QED
    BY <1>2, <2>1, <2>2
<1>3. 0..n \subseteq T
  <2> HIDE DEF T
  <2> QED
    BY <1>1, <1>2, UpTo
<1> QED
  BY <1>3

\* There is one that follows it, with values where the steps stay.
LEMMA RecursionExists ==
    ASSUME NEW n \in Nat, NEW S, NEW base \in S, NEW step \in [S \X (1..n) -> S]
    PROVE  \E f \in [0..n -> S] : Follows(f, base, step, n)
<1> DEFINE T == {m \in 0..n : \E f \in [0..n -> S] : Follows(f, base, step, m)}
<1>1. 0 \in T
  <2>1. [k \in 0..n |-> base] \in [0..n -> S]
    OBVIOUS
  <2>2. Follows([k \in 0..n |-> base], base, step, 0)
    BY DEF Follows
  <2> QED
    BY <2>1, <2>2
<1>2. ASSUME NEW m \in 0..n, m \in T, m < n PROVE m + 1 \in T
  <2>1. PICK f \in [0..n -> S] : Follows(f, base, step, m)
    BY <1>2
  <2> DEFINE g == [k \in 0..n |-> IF k = m + 1 THEN step[<<f[m], m + 1>>] ELSE f[k]]
  <2>2. <<f[m], m + 1>> \in S \X (1..n)
    BY <1>2
  <2>3. step[<<f[m], m + 1>>] \in S
    BY <2>2
  <2>4. g \in [0..n -> S]
    BY <2>3
  <2>5. g[m + 1] = step[<<f[m], m + 1>>] /\ \A k \in 0..m : g[k] = f[k]
    BY <1>2
  <2> HIDE DEF g
  <2>6. g[0] = base
    BY <1>2, <2>1, <2>5 DEF Follows
  <2>7. ASSUME NEW k \in 1..m + 1 PROVE g[k] = step[<<g[k - 1], k>>]
    <3>1. CASE k = m + 1
      <4>1. k - 1 = m /\ m \in 0..m
        BY <1>2, <3>1
      <4>2. g[m] = f[m]
        BY <2>5, <4>1
      <4> QED
        BY <2>5, <3>1, <4>1, <4>2
    <3>2. CASE k # m + 1
      <4>1. k \in 1..m /\ k \in 0..m /\ k - 1 \in 0..m
        BY <1>2, <3>2
      <4>2. f[k] = step[<<f[k - 1], k>>] /\ g[k] = f[k] /\ g[k - 1] = f[k - 1]
        BY <2>1, <2>5, <4>1 DEF Follows
      <4> QED
        BY <4>2
    <3> QED
      BY <3>1, <3>2
  <2>8. Follows(g, base, step, m + 1)
    BY <2>6, <2>7 DEF Follows
  <2>9. m + 1 \in 0..n
    BY <1>2
  <2> QED
    BY <2>4, <2>8, <2>9
<1>3. 0..n \subseteq T
  <2> HIDE DEF T
  <2> QED
    BY <1>1, <1>2, UpTo
<1>4. n \in T
  BY <1>3
<1> QED
  BY <1>4

-----------------------------------------------------------------------------
(* Permutations.                                                           *)

\* A map of 1..n into itself that takes no value twice takes them all.
LEMMA OneToOneIsOnto ==
    ASSUME NEW n \in Nat, NEW p \in [1..n -> 1..n],
           \A j, k \in 1..n : j # k => p[j] # p[k]
    PROVE  \A m \in 1..n : \E j \in 1..n : p[j] = m
<1> DEFINE R == {p[j] : j \in 1..n}
<1>1. IsFiniteSet(1..n) /\ Cardinality(1..n) = n
  BY FS_Interval
<1>2. R \subseteq 1..n /\ IsFiniteSet(R) /\ Cardinality(R) <= n
  BY <1>1, FS_Subset
<1>3. p \in [1..n -> R]
  OBVIOUS
<1> SUFFICES ASSUME NEW m \in 1..n, m \notin R PROVE FALSE
  OBVIOUS
<1>4. R \subseteq (1..n) \ {m}
  BY <1>2
<1> HIDE DEF R
<1>5. /\ IsFiniteSet((1..n) \ {m}) /\ Cardinality((1..n) \ {m}) = n - 1
      /\ Cardinality(R) <= n - 1
  <2>1. IsFiniteSet((1..n) \ {m}) /\ Cardinality((1..n) \ {m}) = n - 1
    BY <1>1, FS_RemoveElement
  <2>2. Cardinality(R) <= Cardinality((1..n) \ {m})
    BY <1>4, <2>1, FS_Subset, Zenon
  <2> QED
    BY <2>1, <2>2
<1>6. Cardinality(R) < Cardinality(1..n)
  BY <1>1, <1>2, <1>5, FS_CardinalityType
<1>7. \E j, k \in 1..n : j # k /\ p[j] = p[k]
  BY <1>1, <1>2, <1>3, <1>6, FS_PigeonHole
<1> QED
  BY <1>7

-----------------------------------------------------------------------------
(* Parts of a sequence.                                                    *)

\* r holds the elements of s at the positions of K, p says where each of them stood.
Picks(r, p, s, K) ==
    /\ p \in [1..Len(r) -> K]
    /\ \A j, k \in 1..Len(r) : j < k => p[j] < p[k]
    /\ \A j \in 1..Len(r) : r[j] = s[p[j]]
    /\ \A m \in K : \E j \in 1..Len(r) : p[j] = m

\* upTo[k] has the elements of s at the positions of K up to k.
Gathers(upTo, s, K) ==
    /\ upTo[0] = << >>
    /\ \A k \in 1..Len(s) : upTo[k] = IF k \in K THEN Append(upTo[k - 1], s[k]) ELSE upTo[k - 1]

\* The definition of AtPositions, as a recursion.
LEMMA AtPositionsFollows ==
    ASSUME NEW S, NEW s \in Seq(S), NEW K
    PROVE  \E upTo \in [0..Len(s) -> Seq(S)] :
               /\ Gathers(upTo, s, K)
               /\ AtPositions(s, K) = upTo[Len(s)]
<1> DEFINE n == Len(s)
           step == [x \in Seq(S) \X (1..n) |->
                        IF x[2] \in K THEN Append(x[1], s[x[2]]) ELSE x[1]]
           Value(f, k) == IF k = 0 THEN << >>
                          ELSE IF k \in K THEN Append(f[k - 1], s[k]) ELSE f[k - 1]
           Def(f) == f = [k \in 0..n |-> Value(f, k)]
<1>1. n \in Nat /\ << >> \in Seq(S)
  OBVIOUS
<1>2. step \in [Seq(S) \X (1..n) -> Seq(S)]
  <2>1. ASSUME NEW x \in Seq(S) \X (1..n)
        PROVE  (IF x[2] \in K THEN Append(x[1], s[x[2]]) ELSE x[1]) \in Seq(S)
    <3>1. x[1] \in Seq(S) /\ x[2] \in 1..n /\ s[x[2]] \in S
      OBVIOUS
    <3>2. Append(x[1], s[x[2]]) \in Seq(S)
      BY <3>1
    <3> QED
      BY <3>1, <3>2
  <2> QED
    BY <2>1
<1> HIDE DEF n
<1>3. PICK f \in [0..n -> Seq(S)] : Follows(f, << >>, step, n)
  <2> HIDE DEF step
  <2> QED
    BY <1>1, <1>2, RecursionExists
<1>4. ASSUME NEW k \in 1..n
      PROVE  f[k] = IF k \in K THEN Append(f[k - 1], s[k]) ELSE f[k - 1]
  <2>1. f[k - 1] \in Seq(S) /\ <<f[k - 1], k>> \in Seq(S) \X (1..n)
    BY <1>1, <1>3
  <2>2. f[k] = step[<<f[k - 1], k>>]
    BY <1>3 DEF Follows
  <2> QED
    BY <2>1, <2>2
<1>5. f[0] = << >>
  BY <1>3 DEF Follows
<1>6. Def(f)
  <2>1. \A k \in 0..n : f[k] = Value(f, k)
    <3>1. ASSUME NEW k \in 0..n PROVE f[k] = Value(f, k)
      <4>1. CASE k = 0
        BY <1>5, <4>1
      <4>2. CASE k # 0
        <5>1. k \in 1..n
          BY <1>1, <4>2
        <5> QED
          BY <1>4, <4>2, <5>1
      <4> QED
        BY <4>1, <4>2
    <3> QED
      BY <3>1
  <2> HIDE DEF Value
  <2> QED
    BY <1>3, <2>1
<1> DEFINE g == CHOOSE h : Def(h)
<1>7. Def(g)
  <2> HIDE DEF Def
  <2> QED
    BY <1>6
<1>8. AtPositions(s, K) = g[n]
  BY DEF AtPositions, n
<1> HIDE DEF g
<1>9. g[0] = << >> /\ \A k \in 1..n : g[k] = IF k \in K THEN Append(g[k - 1], s[k]) ELSE g[k - 1]
  <2>1. \A k \in 0..n : g[k] = Value(g, k)
    <3> HIDE DEF Value
    <3> QED
      BY <1>7
  <2>2. 0 \in 0..n /\ \A k \in 1..n : k \in 0..n /\ k # 0
    BY <1>1
  <2> QED
    BY <2>1, <2>2
<1>10. \A k \in 0..n : g[k] = f[k]
  <2> DEFINE T == {k \in 0..n : g[k] = f[k]}
  <2>1. 0 \in T
    BY <1>1, <1>5, <1>9
  <2>2. ASSUME NEW k \in 0..n, k \in T, k < n PROVE k + 1 \in T
    <3>1. k + 1 \in 1..n /\ k + 1 \in 0..n /\ (k + 1) - 1 = k
      BY <1>1, <2>2
    <3>2. g[k + 1] = IF k + 1 \in K THEN Append(g[k], s[k + 1]) ELSE g[k]
      BY <1>9, <3>1
    <3>3. f[k + 1] = IF k + 1 \in K THEN Append(f[k], s[k + 1]) ELSE f[k]
      BY <1>4, <3>1
    <3> QED
      BY <2>2, <3>1, <3>2, <3>3
  <2>3. 0..n \subseteq T
    <3> HIDE DEF T
    <3> QED
      BY <1>1, <2>1, <2>2, UpTo
  <2> QED
    BY <2>3
<1>11. AtPositions(s, K) = f[n]
  BY <1>1, <1>8, <1>10
<1> QED
  BY <1>3, <1>4, <1>5, <1>11 DEF n, Gathers

\* One element more: the next position is picked or it is not.
LEMMA PicksNext ==
    ASSUME NEW S, NEW s \in Seq(S), NEW K \in SUBSET (1..Len(s)), NEW k \in 1..Len(s),
           NEW r \in Seq(S), NEW p, Picks(r, p, s, K \cap 1..k - 1)
    PROVE  /\ k \in K => \E q : Picks(Append(r, s[k]), q, s, K \cap 1..k)
           /\ k \notin K => Picks(r, p, s, K \cap 1..k)
<1>1. CASE k \notin K
  <2>1. K \cap 1..k = K \cap 1..k - 1
    BY <1>1
  <2> QED
    BY <1>1, <2>1
<1>2. CASE k \in K
  <2> DEFINE n == Len(r)
             q == [j \in 1..n + 1 |-> IF j = n + 1 THEN k ELSE p[j]]
             r2 == Append(r, s[k])
  <2>1. n \in Nat /\ s[k] \in S
    OBVIOUS
  <2>2. Len(r2) = n + 1 /\ r2[n + 1] = s[k] /\ \A j \in 1..n : r2[j] = r[j]
    BY <2>1
  <2>3. p \in [1..n -> K \cap 1..k - 1]
    BY DEF Picks
  <2>4. q[n + 1] = k /\ \A j \in 1..n : q[j] = p[j]
    BY <2>1
  <2>5. q \in [1..n + 1 -> K \cap 1..k]
    BY <1>2, <2>1, <2>3
  <2>6. \A j \in 1..n : p[j] < k
    BY <2>3
  <2> HIDE DEF q, r2
  <2>7. ASSUME NEW j \in 1..n + 1, NEW m \in 1..n + 1, j < m PROVE q[j] < q[m]
    <3>1. j \in 1..n
      BY <2>1, <2>7
    <3>2. CASE m = n + 1
      BY <2>4, <2>6, <3>1, <3>2
    <3>3. CASE m \in 1..n
      BY <2>4, <2>7, <3>1, <3>3 DEF Picks
    <3> QED
      BY <2>1, <3>2, <3>3
  <2>8. ASSUME NEW j \in 1..n + 1 PROVE r2[j] = s[q[j]]
    <3>1. CASE j = n + 1
      BY <2>2, <2>4, <3>1
    <3>2. CASE j \in 1..n
      BY <2>2, <2>4, <3>2 DEF Picks
    <3> QED
      BY <2>1, <3>1, <3>2
  <2>9. ASSUME NEW m \in K \cap 1..k PROVE \E j \in 1..n + 1 : q[j] = m
    <3>1. CASE m = k
      BY <2>1, <2>4, <3>1
    <3>2. CASE m # k
      <4>1. m \in K \cap 1..k - 1
        BY <3>2
      <4>2. PICK j \in 1..n : p[j] = m
        BY <4>1 DEF Picks
      <4> QED
        BY <2>1, <2>4, <4>2
    <3> QED
      BY <3>1, <3>2
  <2>10. Picks(r2, q, s, K \cap 1..k)
    BY <2>2, <2>5, <2>7, <2>8, <2>9 DEF Picks
  <2> QED
    BY <1>2, <2>10 DEF r2
<1> QED
  BY <1>1, <1>2

\* AtPositions picks the elements at the positions it is given.
LEMMA AtPositionsPicks ==
    ASSUME NEW S, NEW s \in Seq(S), NEW K \in SUBSET (1..Len(s))
    PROVE  AtPositions(s, K) \in Seq(S) /\ \E p : Picks(AtPositions(s, K), p, s, K)
<1> DEFINE n == Len(s)
<1>1. n \in Nat
  OBVIOUS
<1>2. PICK upTo \in [0..n -> Seq(S)] :
          Gathers(upTo, s, K) /\ AtPositions(s, K) = upTo[n]
  BY AtPositionsFollows
<1> DEFINE T == {k \in 0..n : \E p : Picks(upTo[k], p, s, K \cap 1..k)}
<1>3. 0 \in T
  <2>1. Picks(<< >>, << >>, s, K \cap 1..0)
    BY DEF Picks
  <2> QED
    BY <1>1, <1>2, <2>1 DEF Gathers
<1>4. ASSUME NEW k \in 0..n, k \in T, k < n PROVE k + 1 \in T
  <2>1. k + 1 \in 1..n /\ k + 1 \in 0..n /\ (k + 1) - 1 = k
    BY <1>1, <1>4
  <2>2. PICK p : Picks(upTo[k], p, s, K \cap 1..k)
    BY <1>4
  <2>3. upTo[k] \in Seq(S) /\ upTo[k + 1] = IF k + 1 \in K THEN Append(upTo[k], s[k + 1]) ELSE upTo[k]
    BY <1>2, <2>1 DEF Gathers
  <2>4. /\ k + 1 \in K => \E q : Picks(Append(upTo[k], s[k + 1]), q, s, K \cap 1..k + 1)
        /\ k + 1 \notin K => Picks(upTo[k], p, s, K \cap 1..k + 1)
    <3> DEFINE m == k + 1
    <3>1. m \in 1..Len(s) /\ Picks(upTo[k], p, s, K \cap 1..m - 1)
      BY <2>1, <2>2
    <3> HIDE DEF m
    <3>2. /\ m \in K => \E q : Picks(Append(upTo[k], s[m]), q, s, K \cap 1..m)
          /\ m \notin K => Picks(upTo[k], p, s, K \cap 1..m)
      BY <2>3, <3>1, PicksNext
    <3> QED
      BY <3>2 DEF m
  <2> QED
    BY <2>1, <2>3, <2>4
<1>5. 0..n \subseteq T
  <2> HIDE DEF T
  <2> QED
    BY <1>1, <1>3, <1>4, UpTo
<1>6. n \in T /\ n \in 0..n
  BY <1>1, <1>5
<1>7. K \cap 1..n = K
  OBVIOUS
<1> QED
  BY <1>2, <1>6, <1>7

-----------------------------------------------------------------------------
(* Stable sorting: by score, and within a score by position.               *)

Before(score, a, b) == score[a] < score[b] \/ (score[a] = score[b] /\ a < b)

\* r holds the elements of s at the positions of K in that order, q says where each stood.
Ranks(r, q, s, score, K) ==
    /\ q \in [1..Len(r) -> K]
    /\ \A j, k \in 1..Len(r) : j < k => Before(score, q[j], q[k])
    /\ \A j \in 1..Len(r) : r[j] = s[q[j]]
    /\ \A m \in K : \E j \in 1..Len(r) : q[j] = m

\* Elements of one score keep the order they have.
LEMMA PicksRank ==
    ASSUME NEW n \in Nat, NEW score \in [1..n -> Nat], NEW K \in SUBSET (1..n), NEW c \in Nat,
           \A k \in K : score[k] = c,
           NEW r, NEW q, NEW s, Picks(r, q, s, K)
    PROVE  Ranks(r, q, s, score, K)
<1>1. ASSUME NEW j \in 1..Len(r), NEW k \in 1..Len(r), j < k PROVE Before(score, q[j], q[k])
  <2>1. q[j] \in K /\ q[k] \in K /\ q[j] < q[k]
    BY <1>1 DEF Picks
  <2>2. score[q[j]] = c /\ score[q[k]] = c
    BY <2>1
  <2> QED
    BY <2>1, <2>2 DEF Before
<1> QED
  BY <1>1 DEF Picks, Ranks

\* A part of lower scores goes before one of higher scores.
LEMMA RanksConcat ==
    ASSUME NEW n \in Nat, NEW score \in [1..n -> Nat],
           NEW A \in SUBSET (1..n), NEW B \in SUBSET (1..n),
           \A a \in A, b \in B : score[a] < score[b],
           NEW S, NEW r1 \in Seq(S), NEW r2 \in Seq(S), NEW q1, NEW q2, NEW s,
           Ranks(r1, q1, s, score, A), Ranks(r2, q2, s, score, B)
    PROVE  \E q : Ranks(r1 \o r2, q, s, score, A \cup B)
<1> DEFINE l1 == Len(r1)
           l2 == Len(r2)
           r == r1 \o r2
           q == [j \in 1..l1 + l2 |-> IF j <= l1 THEN q1[j] ELSE q2[j - l1]]
<1>1. l1 \in Nat /\ l2 \in Nat /\ q1 \in [1..l1 -> A] /\ q2 \in [1..l2 -> B]
  BY DEF Ranks
<1>2. /\ Len(r) = l1 + l2
      /\ \A j \in 1..l1 : r[j] = r1[j]
      /\ \A j \in l1 + 1..l1 + l2 : r[j] = r2[j - l1]
  OBVIOUS
<1>3. /\ \A j \in 1..l1 : q[j] = q1[j] /\ q[j] \in A
      /\ \A j \in l1 + 1..l1 + l2 : q[j] = q2[j - l1] /\ q[j] \in B
  <2> HIDE DEF l1, l2
  <2>1. ASSUME NEW j \in 1..l1 PROVE q[j] = q1[j] /\ q[j] \in A
    <3>1. j \in 1..l1 + l2 /\ j <= l1
      BY <1>1
    <3> QED
      BY <1>1, <3>1
  <2>2. ASSUME NEW j \in l1 + 1..l1 + l2 PROVE q[j] = q2[j - l1] /\ q[j] \in B
    <3>1. j \in 1..l1 + l2 /\ ~(j <= l1) /\ j - l1 \in 1..l2
      BY <1>1
    <3> QED
      BY <1>1, <3>1
  <2> QED
    BY <2>1, <2>2
<1>4. \A j \in 1..l1 + l2 : j \in 1..l1 \/ (j \in l1 + 1..l1 + l2 /\ j - l1 \in 1..l2)
  BY <1>1
<1>5. q \in [1..l1 + l2 -> A \cup B]
  BY <1>3, <1>4
<1>6. \A j, k \in 1..l1 : j < k => Before(score, q1[j], q1[k])
  BY DEF Ranks
<1>7. \A j, k \in 1..l2 : j < k => Before(score, q2[j], q2[k])
  BY DEF Ranks
<1>8. (\A j \in 1..l1 : r1[j] = s[q1[j]]) /\ (\A j \in 1..l2 : r2[j] = s[q2[j]])
  BY DEF Ranks
<1>9. (\A m \in A : \E j \in 1..l1 : q1[j] = m) /\ (\A m \in B : \E j \in 1..l2 : q2[j] = m)
  BY DEF Ranks
<1> HIDE DEF r, q, l1, l2
<1>10. ASSUME NEW j \in 1..l1 + l2, NEW k \in 1..l1 + l2, j < k
       PROVE  Before(score, q[j], q[k])
  <2>1. CASE k \in 1..l1
    <3>1. j \in 1..l1
      BY <1>1, <1>10, <2>1
    <3> QED
      BY <1>3, <1>6, <1>10, <2>1, <3>1
  <2>2. CASE j \in 1..l1 /\ k \in l1 + 1..l1 + l2
    <3>1. score[q[j]] < score[q[k]]
      BY <1>3, <2>2
    <3> QED
      BY <3>1 DEF Before
  <2>3. CASE j \in l1 + 1..l1 + l2 /\ k \in l1 + 1..l1 + l2
    <3>1. j - l1 \in 1..l2 /\ k - l1 \in 1..l2 /\ j - l1 < k - l1
      BY <1>1, <1>10, <2>3
    <3>2. Before(score, q2[j - l1], q2[k - l1])
      BY <1>7, <3>1
    <3>3. q[j] = q2[j - l1] /\ q[k] = q2[k - l1]
      BY <1>3, <2>3
    <3> QED
      BY <3>2, <3>3
  <2> QED
    BY <1>1, <1>4, <1>10, <2>1, <2>2, <2>3
<1>11. ASSUME NEW j \in 1..l1 + l2 PROVE r[j] = s[q[j]]
  BY <1>2, <1>3, <1>4, <1>8
<1>12. ASSUME NEW m \in A \cup B PROVE \E j \in 1..l1 + l2 : q[j] = m
  <2>1. CASE m \in A
    <3>1. PICK j \in 1..l1 : q1[j] = m
      BY <1>9, <2>1
    <3>2. j \in 1..l1 + l2
      BY <1>1
    <3> QED
      BY <1>3, <3>1, <3>2
  <2>2. CASE m \in B
    <3>1. PICK j \in 1..l2 : q2[j] = m
      BY <1>9, <2>2
    <3>2. j + l1 \in 1..l1 + l2 /\ j + l1 \in l1 + 1..l1 + l2 /\ (j + l1) - l1 = j
      BY <1>1
    <3> QED
      BY <1>3, <3>1, <3>2
  <2> QED
    BY <2>1, <2>2
<1>13. Ranks(r, q, s, score, A \cup B)
  BY <1>2, <1>5, <1>10, <1>11, <1>12 DEF Ranks
<1> QED
  BY <1>13 DEF r

\* The parts of three scores one after the other rank the whole.
LEMMA ThreeParts ==
    ASSUME NEW S, NEW s \in Seq(S), NEW score \in [1..Len(s) -> {0, 1, 2}]
    PROVE  LET part(c) == AtPositions(s, {k \in 1..Len(s) : score[k] = c})
               r == part(0) \o part(1) \o part(2)
           IN  r \in Seq(S) /\ \E q : Ranks(r, q, s, score, 1..Len(s))
<1> DEFINE n == Len(s)
           K(c) == {k \in 1..n : score[k] = c}
           part(c) == AtPositions(s, K(c))
<1>1. n \in Nat /\ score \in [1..n -> Nat]
  OBVIOUS
<1>2. \A c \in 0..2 : K(c) \in SUBSET (1..n) /\ \A k \in K(c) : score[k] = c
  OBVIOUS
<1>3. /\ \A a \in K(0), b \in K(1) : score[a] < score[b]
      /\ \A a \in K(0) \cup K(1), b \in K(2) : score[a] < score[b]
      /\ K(0) \cup K(1) \in SUBSET (1..n)
      /\ K(0) \cup K(1) \cup K(2) = 1..n
  OBVIOUS
<1> HIDE DEF K, n
<1>4. ASSUME NEW c \in 0..2
      PROVE  part(c) \in Seq(S) /\ \E p : Ranks(part(c), p, s, score, K(c))
  <2>1. K(c) \in SUBSET (1..Len(s))
    BY <1>2 DEF n
  <2>2. part(c) \in Seq(S) /\ \E p : Picks(part(c), p, s, K(c))
    BY <2>1, AtPositionsPicks
  <2>3. PICK p : Picks(part(c), p, s, K(c))
    BY <2>2
  <2> HIDE DEF part
  <2>4. c \in Nat /\ K(c) \in SUBSET (1..n) /\ \A k \in K(c) : score[k] = c
    BY <1>2
  <2>5. Ranks(part(c), p, s, score, K(c))
    BY <1>1, <2>3, <2>4, PicksRank
  <2> QED
    BY <2>2, <2>5
<1> HIDE DEF part
<1>5. /\ part(0) \in Seq(S) /\ part(1) \in Seq(S) /\ part(2) \in Seq(S)
      /\ K(0) \in SUBSET (1..n) /\ K(1) \in SUBSET (1..n) /\ K(2) \in SUBSET (1..n)
  BY <1>2, <1>4
<1>6. PICK p0 : Ranks(part(0), p0, s, score, K(0))
  BY <1>4
<1>7. PICK p1 : Ranks(part(1), p1, s, score, K(1))
  BY <1>4
<1>8. PICK p2 : Ranks(part(2), p2, s, score, K(2))
  BY <1>4
<1>9. PICK p01 : Ranks(part(0) \o part(1), p01, s, score, K(0) \cup K(1))
  BY <1>1, <1>3, <1>5, <1>6, <1>7, RanksConcat
<1>10. part(0) \o part(1) \in Seq(S)
  BY <1>5
<1>11. \E q : Ranks((part(0) \o part(1)) \o part(2), q, s, score, (K(0) \cup K(1)) \cup K(2))
  BY <1>1, <1>3, <1>5, <1>8, <1>9, <1>10, RanksConcat
<1>12. (part(0) \o part(1)) \o part(2) \in Seq(S)
  BY <1>5, <1>10
<1> QED
  BY <1>3, <1>11, <1>12 DEF part, K, n

\* There is only one way to rank.
LEMMA RankingUnique ==
    ASSUME NEW n \in Nat, NEW score \in [1..n -> Nat], NEW S, NEW s \in [1..n -> S],
           NEW r1 \in Seq(S), NEW r2 \in Seq(S), NEW q1, NEW q2,
           Ranks(r1, q1, s, score, 1..n), Ranks(r2, q2, s, score, 1..n)
    PROVE  r1 = r2
<1>1. ASSUME NEW r \in Seq(S), NEW q, Ranks(r, q, s, score, 1..n) PROVE Len(r) = n
  <2> DEFINE l == Len(r)
  <2>1. l \in Nat /\ q \in [1..l -> 1..n]
    BY <1>1 DEF Ranks
  <2>2. ASSUME NEW j \in 1..l, NEW k \in 1..l, q[j] = q[k] PROVE j = k
    <3>1. \A a, b \in 1..l : a < b => Before(score, q[a], q[b])
      BY <1>1 DEF Ranks
    <3>2. ~Before(score, q[j], q[k]) /\ ~Before(score, q[k], q[j])
      <4>1. q[j] \in 1..n /\ score[q[j]] \in Nat
        BY <2>1
      <4> QED
        BY <2>2, <4>1 DEF Before
    <3> QED
      BY <2>1, <3>1, <3>2
  <2>3. \A m \in 1..n : \E j \in 1..l : q[j] = m
    BY <1>1 DEF Ranks
  <2> HIDE DEF l
  <2>4. q \in Bijection(1..l, 1..n)
    BY <2>1, <2>2, <2>3 DEF Bijection, Injection, Surjection, IsInjective
  <2>5. ExistsBijection(1..l, 1..n)
    BY <2>4 DEF ExistsBijection
  <2>6. Cardinality(1..n) = Cardinality(1..l) /\ Cardinality(1..n) = n /\ Cardinality(1..l) = l
    <3>1. IsFiniteSet(1..l) /\ Cardinality(1..l) = l
      BY <2>1, FS_Interval
    <3>2. Cardinality(1..n) = n
      BY FS_Interval
    <3> QED
      BY <2>5, <3>1, <3>2, FS_Bijection
  <2> QED
    BY <2>6 DEF l
<1>2. Len(r1) = n /\ Len(r2) = n
  BY <1>1
<1> DEFINE D == {j \in 1..n : q1[j] # q2[j]}
<1>3. /\ q1 \in [1..n -> 1..n] /\ q2 \in [1..n -> 1..n]
      /\ \A j, k \in 1..n : j < k => Before(score, q1[j], q1[k]) /\ Before(score, q2[j], q2[k])
      /\ \A m \in 1..n : (\E j \in 1..n : q1[j] = m) /\ (\E j \in 1..n : q2[j] = m)
      /\ \A j \in 1..n : r1[j] = s[q1[j]] /\ r2[j] = s[q2[j]]
  BY <1>2 DEF Ranks
<1>4. \A a, b \in 1..n : ~(Before(score, a, b) /\ Before(score, b, a))
  BY DEF Before
<1>5. D = {}
  <2> SUFFICES ASSUME D # {} PROVE FALSE
    OBVIOUS
  <2>1. PICK j \in D : \A m \in D : j <= m
    <3>1. D \in SUBSET Nat
      OBVIOUS
    <3> HIDE DEF D
    <3> QED
      BY <3>1, LeastNatural
  <2>2. j \in 1..n /\ q1[j] # q2[j] /\ \A m \in 1..n : m < j => q1[m] = q2[m]
    BY <2>1
  <2>3. Before(score, q2[j], q1[j])
    <3>1. PICK m \in 1..n : q2[m] = q1[j]
      BY <1>3, <2>2
    <3>2. m # j
      BY <2>2, <3>1
    <3>3. ~(m < j)
      <4> SUFFICES ASSUME m < j PROVE FALSE
        OBVIOUS
      <4>1. q1[m] = q1[j] /\ Before(score, q1[m], q1[j])
        BY <1>3, <2>2, <3>1
      <4> QED
        BY <1>3, <1>4, <2>2, <4>1
    <3> QED
      BY <1>3, <2>2, <3>1, <3>2, <3>3
  <2>4. Before(score, q1[j], q2[j])
    <3>1. PICK m \in 1..n : q1[m] = q2[j]
      BY <1>3, <2>2
    <3>2. m # j
      BY <2>2, <3>1
    <3>3. ~(m < j)
      <4> SUFFICES ASSUME m < j PROVE FALSE
        OBVIOUS
      <4>1. q2[m] = q2[j] /\ Before(score, q2[m], q2[j])
        BY <1>3, <2>2, <3>1
      <4> QED
        BY <1>3, <1>4, <2>2, <4>1
    <3> QED
      BY <1>3, <2>2, <3>1, <3>2, <3>3
  <2> QED
    BY <1>3, <1>4, <2>2, <2>3, <2>4
<1>6. \A j \in 1..n : r1[j] = r2[j]
  BY <1>3, <1>5
<1> QED
  BY <1>2, <1>6

=============================================================================
