--------------------------- MODULE FieldSortProofs ---------------------------
(***************************************************************************)
(* Proofs about FieldSort, for every set of fields, any number of them and *)
(* any two predicates that say which field is a transaction type and which *)
(* an account: the walk leaves the fields in order, and it only ever       *)
(* permutes them, keeping the order of fields of the same priority.        *)
(***************************************************************************)
EXTENDS FieldSort, Induction

\* The inductive invariant: three parts that need one another only through TypeOK.
IInv == TypeOK /\ Ordered /\ StablePermutation

\* Priorities are numbers, so that "not out of order" is "at most".
LEMMA ScoreType == \A f : get_priority_score(f) \in {0, 1, 2}
BY DEF get_priority_score

LEMMA OutOfOrderIsLess ==
    \A f, g : OutOfOrder(g, f) <=> get_priority_score(g) < get_priority_score(f)
BY ScoreType DEF OutOfOrder, is_preceding

\* A sequence is the function on its positions.
LEMMA SeqIsFunction ==
    ASSUME TypeOK
    PROVE  Len(fields) \in Nat /\ fields \in [1..Len(fields) -> Field]
BY DEF TypeOK

LEMMA FunctionIsSeq ==
    ASSUME NEW S, NEW n \in Nat, NEW s \in [1..n -> S]
    PROVE  s \in Seq(S) /\ Len(s) = n
OBVIOUS

\* The input is untouched, in no particular order.
LEMMA InitOK == Init => IInv
<1> SUFFICES ASSUME Init PROVE IInv
  OBVIOUS
<1>1. PICK n \in 0..MaxFieldCount : fields \in [1..n -> Field]
  BY DEF Init
<1>2. n \in Nat
  BY CountAssumption
<1>3. fields \in Seq(Field) /\ Len(fields) = n
  BY <1>1, <1>2, FunctionIsSeq
<1>4. i = 0 /\ input = fields /\ from = [j \in 1..n |-> j]
  BY <1>3 DEF Init
<1>5. TypeOK
  BY <1>1, <1>2, <1>3, <1>4, CountAssumption DEF TypeOK
<1>6. Ordered
  BY <1>2, <1>3, <1>4 DEF Ordered
<1>7. StablePermutation
  BY <1>2, <1>3, <1>4 DEF StablePermutation
<1> QED
  BY <1>5, <1>6, <1>7 DEF IInv

\* A round that only advances extends what is in order by one field.
LEMMA AdvanceStep ==
    ASSUME IInv, Advance
    PROVE  IInv'
<1>1. /\ Len(fields) \in Nat /\ fields \in [1..Len(fields) -> Field]
      /\ i \in Nat /\ i < Len(fields) - 1 /\ i' = i + 1
      /\ UNCHANGED <<fields, input, from>>
      /\ Len(fields) <= MaxFieldCount
  BY SeqIsFunction, CountAssumption DEF IInv, TypeOK, Advance, MoreToDo
<1>2. TypeOK'
  BY <1>1, CountAssumption DEF IInv, TypeOK
<1>3. Ordered'
  <2> SUFFICES ASSUME NEW j \in 1..Len(fields), NEW k \in 1..Len(fields), j < k, k <= i + 2
               PROVE  Score(j) <= Score(k)
    BY <1>1 DEF Ordered, Score
  <2>1. Score(i + 1) <= Score(i + 2)
    BY OutOfOrderIsLess, ScoreType DEF Advance, Score
  <2>2. \A m \in 1..Len(fields) : Score(m) \in {0, 1, 2}
    BY ScoreType DEF Score
  <2>3. i + 1 \in 1..Len(fields) /\ i + 2 \in 1..Len(fields)
    BY <1>1
  <2>4. CASE k <= i + 1
    BY <2>4 DEF IInv, Ordered
  <2>5. CASE k = i + 2 /\ j = i + 1
    BY <2>1, <2>5
  <2>6. CASE k = i + 2 /\ j < i + 1
    <3>1. Score(j) <= Score(i + 1)
      BY <2>3, <2>6 DEF IInv, Ordered
    <3> QED
      BY <2>1, <2>2, <2>3, <2>6, <3>1
  <2> QED
    BY <1>1, <2>4, <2>5, <2>6
<1>4. StablePermutation'
  BY <1>1 DEF IInv, StablePermutation, Score
<1> QED
  BY <1>2, <1>3, <1>4 DEF IInv

\* A swap keeps what is in order before the two fields, and steps back to them.
LEMMA SwapStep ==
    ASSUME IInv, SwapNext
    PROVE  IInv'
<1> DEFINE n == Len(fields)
           p == i + 1
           q == i + 2
<1>1. /\ n \in Nat /\ fields \in [1..n -> Field] /\ from \in [1..n -> 1..n]
      /\ i \in Nat /\ i < n - 1 /\ n <= MaxFieldCount
      /\ p \in 1..n /\ q \in 1..n /\ p # q /\ q = p + 1
  BY SeqIsFunction, CountAssumption DEF IInv, TypeOK, SwapNext, MoreToDo
<1>2. /\ fields' = Exchange(fields, p, q) /\ from' = Exchange(from, p, q)
      /\ input' = input /\ i' = IF i > 0 THEN i - 1 ELSE 0
      /\ get_priority_score(fields[q]) < get_priority_score(fields[p])
  BY OutOfOrderIsLess DEF SwapNext, swap_fields, StepBack
<1> HIDE DEF n, p, q
<1>3. /\ fields' \in [1..n -> Field] /\ fields'[p] = fields[q] /\ fields'[q] = fields[p]
      /\ \A j \in 1..n : j # p /\ j # q => fields'[j] = fields[j]
  <2>1. /\ Exchange(fields, p, q) \in [1..n -> Field]
        /\ Exchange(fields, p, q)[p] = fields[q] /\ Exchange(fields, p, q)[q] = fields[p]
        /\ \A j \in 1..n : j # p /\ j # q => Exchange(fields, p, q)[j] = fields[j]
    BY <1>1 DEF Exchange
  <2> QED
    BY <1>2, <2>1
<1>4. /\ from' \in [1..n -> 1..n] /\ from'[p] = from[q] /\ from'[q] = from[p]
      /\ \A j \in 1..n : j # p /\ j # q => from'[j] = from[j]
  <2>1. /\ Exchange(from, p, q) \in [1..n -> 1..n]
        /\ Exchange(from, p, q)[p] = from[q] /\ Exchange(from, p, q)[q] = from[p]
        /\ \A j \in 1..n : j # p /\ j # q => Exchange(from, p, q)[j] = from[j]
    BY <1>1 DEF Exchange
  <2> QED
    BY <1>2, <2>1
<1>5. fields' \in Seq(Field) /\ Len(fields') = n
  BY <1>1, <1>3, FunctionIsSeq
<1>6. n = Len(fields) /\ p = i + 1 /\ q = i + 2
  BY DEF n, p, q
<1>7. TypeOK'
  <2>1. i' \in 0..MaxFieldCount /\ (i' < n \/ i' = 0)
    BY <1>1, <1>2, CountAssumption
  <2>2. input' \in Seq(Field) /\ Len(input') = n
    BY <1>2, <1>6 DEF IInv, TypeOK
  <2> QED
    BY <1>1, <1>4, <1>5, <2>1, <2>2 DEF TypeOK
<1>8. Ordered'
  <2> SUFFICES ASSUME NEW j \in 1..n, NEW k \in 1..n, j < k, k <= i' + 1
               PROVE  get_priority_score(fields'[j]) <= get_priority_score(fields'[k])
    BY <1>5 DEF Ordered, Score
  <2>1. i > 0 /\ k <= i
    BY <1>1, <1>2
  <2>2. j # p /\ j # q /\ k # p /\ k # q
    BY <1>1, <1>6, <2>1
  <2>3. get_priority_score(fields[j]) <= get_priority_score(fields[k])
    BY <1>1, <1>6, <2>1 DEF IInv, Ordered, Score
  <2> QED
    BY <1>3, <2>2, <2>3
<1>9. StablePermutation'
  <2>1. \A j \in 1..n : fields[j] = input[from[j]]
    BY <1>6 DEF IInv, StablePermutation
  <2>2. \A j \in 1..n : fields'[j] = input'[from'[j]]
    <3> SUFFICES ASSUME NEW j \in 1..n PROVE fields'[j] = input'[from'[j]]
      OBVIOUS
    <3>1. CASE j = p
      BY <1>1, <1>2, <1>3, <1>4, <2>1, <3>1
    <3>2. CASE j = q
      BY <1>1, <1>2, <1>3, <1>4, <2>1, <3>2
    <3>3. CASE j # p /\ j # q
      BY <1>2, <1>3, <1>4, <2>1, <3>3
    <3> QED
      BY <3>1, <3>2, <3>3
  <2>3. ASSUME NEW j \in 1..n, NEW k \in 1..n, j < k
        PROVE  \/ from'[j] < from'[k]
               \/ /\ from'[j] # from'[k]
                  /\ get_priority_score(fields'[j]) < get_priority_score(fields'[k])
    <3> DEFINE Good(a, b) == \/ from[a] < from[b]
                             \/ /\ from[a] # from[b]
                                /\ get_priority_score(fields[a]) < get_priority_score(fields[b])
    <3>1. \A a, b \in 1..n : a < b => Good(a, b)
      BY <1>6 DEF IInv, StablePermutation, Score
    <3>2. CASE j = p /\ k = q
      <4>1. Good(p, q)
        BY <1>1, <3>1
      <4>2. from[p] # from[q]
        BY <1>1, <4>1
      <4> QED
        BY <1>2, <1>3, <1>4, <3>2, <4>2
    <3>3. CASE j = p /\ k # q
      <4>1. Good(q, k)
        BY <1>1, <2>3, <3>1, <3>3
      <4> QED
        BY <1>1, <1>3, <1>4, <2>3, <3>3, <4>1
    <3>4. CASE j = q
      <4>1. Good(p, k) /\ k # p
        BY <1>1, <2>3, <3>1, <3>4
      <4> QED
        BY <1>1, <1>3, <1>4, <2>3, <3>4, <4>1
    <3>5. CASE j # p /\ j # q /\ k = p
      <4>1. Good(j, q)
        BY <1>1, <2>3, <3>1, <3>5
      <4> QED
        BY <1>1, <1>3, <1>4, <3>5, <4>1
    <3>6. CASE j # p /\ j # q /\ k = q
      <4>1. Good(j, p)
        BY <1>1, <2>3, <3>1, <3>6
      <4> QED
        BY <1>1, <1>3, <1>4, <3>6, <4>1
    <3>7. CASE j # p /\ j # q /\ k # p /\ k # q
      <4>1. Good(j, k)
        BY <2>3, <3>1
      <4> QED
        BY <1>3, <1>4, <3>7, <4>1
    <3> QED
      BY <3>2, <3>3, <3>4, <3>5, <3>6, <3>7
  <2> QED
    BY <1>5, <2>2, <2>3 DEF StablePermutation, Score
<1> QED
  BY <1>7, <1>8, <1>9 DEF IInv

\* The three parts together are an inductive invariant of the loop.
LEMMA Inductive == Spec => []IInv
<1>1. IInv /\ [Next]_vars => IInv'
  <2> SUFFICES ASSUME IInv, [Next]_vars PROVE IInv'
    OBVIOUS
  <2>1. CASE UNCHANGED vars
    BY <2>1 DEF vars, IInv, TypeOK, Ordered, StablePermutation, Score
  <2> QED
    BY <2>1, AdvanceStep, SwapStep DEF Next
<1> QED
  BY <1>1, InitOK, PTL DEF Spec

-----------------------------------------------------------------------------
(* The theorems.                                                           *)

\* The index stays inside the fields and the number of fields never changes, for any
\* MAX_FIELD_COUNT.
THEOREM SortTypeCorrect == Spec => []TypeOK
<1>1. IInv => TypeOK
  BY DEF IInv
<1> QED
  BY <1>1, Inductive, PTL

\* What sort_fields has walked over is in order; when the loop ends that is everything.
THEOREM WalkedIsOrdered == Spec => []Ordered
<1>1. IInv => Ordered
  BY DEF IInv
<1> QED
  BY <1>1, Inductive, PTL

\* sort_fields permutes the fields and keeps the order of those of the same priority.
THEOREM SortIsStable == Spec => []StablePermutation
<1>1. IInv => StablePermutation
  BY DEF IInv
<1> QED
  BY <1>1, Inductive, PTL

\* When the loop ends, no field stands after one that it should precede.
THEOREM SortedAtTheEnd ==
    Spec => [](~MoreToDo => \A j, k \in 1..Len(fields) : j < k => Score(j) <= Score(k))
<1>1. IInv => (~MoreToDo => \A j, k \in 1..Len(fields) : j < k => Score(j) <= Score(k))
  <2> SUFFICES ASSUME IInv, ~MoreToDo, NEW j \in 1..Len(fields), NEW k \in 1..Len(fields), j < k
               PROVE  Score(j) <= Score(k)
    OBVIOUS
  <2>1. Len(fields) \in Nat /\ i \in Int /\ i >= Len(fields) - 1
    BY SeqIsFunction, CountAssumption DEF IInv, TypeOK, MoreToDo
  <2>2. k <= i + 1
    BY <2>1
  <2> QED
    BY <2>2 DEF IInv, Ordered
<1> QED
  BY <1>1, Inductive, PTL

-----------------------------------------------------------------------------
(* The refinement: the walk is the stable sort done at once.               *)

Scores == [k \in 1..Len(input) |-> get_priority_score(input[k])]

\* The three parts of StableSorted rank the input.
LEMMA StableSortedRanks ==
    ASSUME input \in Seq(Field)
    PROVE  /\ StableSorted(input) \in Seq(Field)
           /\ \E q : Ranks(StableSorted(input), q, input, Scores, 1..Len(input))
<1> DEFINE n == Len(input)
           part(c) == AtPositions(input, {k \in 1..n : Scores[k] = c})
           r == part(0) \o part(1) \o part(2)
<1>1. n \in Nat /\ DOMAIN input = 1..n
  OBVIOUS
<1>2. Scores \in [1..n -> {0, 1, 2}]
  BY ScoreType DEF Scores
<1>3. r \in Seq(Field) /\ \E q : Ranks(r, q, input, Scores, 1..n)
  <2> HIDE DEF Scores
  <2> QED
    BY <1>2, ThreeParts
<1>4. ASSUME NEW c \in 0..2 PROVE OfScore(input, c) = part(c)
  <2>1. {k \in DOMAIN input : get_priority_score(input[k]) = c} = {k \in 1..n : Scores[k] = c}
    BY <1>1 DEF Scores
  <2> QED
    BY <2>1 DEF OfScore
<1>5. StableSorted(input) = r
  <2> HIDE DEF part
  <2> QED
    BY <1>4 DEF StableSorted
<1> QED
  BY <1>3, <1>5

\* When the loop ends, the history ranks the input too: there is only one ranking.
LEMMA SortedInput ==
    ASSUME IInv, ~MoreToDo
    PROVE  fields = StableSorted(input)
<1> DEFINE n == Len(input)
<1>1. /\ n \in Nat /\ Len(fields) = n /\ fields \in Seq(Field) /\ input \in Seq(Field)
      /\ from \in [1..n -> 1..n] /\ i \in Int /\ i >= n - 1
  BY SeqIsFunction, CountAssumption DEF IInv, TypeOK, MoreToDo
<1>2. Scores \in [1..n -> Nat] /\ \A k \in 1..n : Scores[k] = get_priority_score(input[k])
  BY ScoreType DEF Scores
<1>3. \A j \in 1..n : fields[j] = input[from[j]]
  BY <1>1 DEF IInv, StablePermutation
<1> HIDE DEF n
<1>4. \A j \in 1..n : Score(j) = Scores[from[j]] /\ Scores[from[j]] \in Nat
  BY <1>1, <1>2, <1>3 DEF Score
<1>5. ASSUME NEW j \in 1..n, NEW k \in 1..n, j < k
      PROVE  Before(Scores, from[j], from[k]) /\ from[j] # from[k]
  <2>1. Score(j) <= Score(k)
    <3>1. k <= i + 1
      BY <1>1
    <3> QED
      BY <1>1, <1>5, <3>1 DEF IInv, Ordered
  <2>2. from[j] < from[k] \/ (from[j] # from[k] /\ Score(j) < Score(k))
    BY <1>1, <1>5 DEF IInv, StablePermutation
  <2>3. Score(j) = Scores[from[j]] /\ Score(k) = Scores[from[k]]
    BY <1>4
  <2>4. Scores[from[j]] \in Nat /\ Scores[from[k]] \in Nat
    BY <1>4
  <2>5. from[j] \in 1..n /\ from[k] \in 1..n
    BY <1>1
  <2> QED
    BY <2>1, <2>2, <2>3, <2>4, <2>5 DEF Before
<1>6. \A j, k \in 1..n : j # k => from[j] # from[k]
  BY <1>1, <1>5
<1>7. \A m \in 1..n : \E j \in 1..n : from[j] = m
  BY <1>1, <1>6, OneToOneIsOnto
<1>8. Ranks(fields, from, input, Scores, 1..n)
  BY <1>1, <1>3, <1>5, <1>7 DEF Ranks
<1>9. PICK q : Ranks(StableSorted(input), q, input, Scores, 1..n)
  BY <1>1, StableSortedRanks DEF n
<1>10. StableSorted(input) \in Seq(Field) /\ input \in [1..n -> Field]
  BY <1>1, StableSortedRanks DEF n
<1> QED
  BY <1>1, <1>2, <1>8, <1>9, <1>10, RankingUnique

Sorted == ~MoreToDo => fields = StableSorted(input)

\* At the start the abstract result is the input, already sorted if there is nothing to do.
LEMMA InitSorts == Init => Abstract!Init
<1> SUFFICES ASSUME Init PROVE Abstract!Init
  OBVIOUS
<1>1. IInv /\ input = fields
  BY InitOK DEF Init
<1>2. Returned = input /\ (~MoreToDo => fields = StableSorted(input))
  BY <1>1, SortedInput DEF Returned
<1>3. \E n \in 0..MaxFieldCount : Returned \in [1..n -> Field]
  BY <1>1, <1>2 DEF Init
<1>4. Abstract!StableSorted(Returned) = StableSorted(Returned)
  BY DEF Abstract!StableSorted, StableSorted, Abstract!OfScore, OfScore,
         Abstract!get_priority_score, get_priority_score, Abstract!AtPositions, AtPositions
<1> QED
  BY <1>1, <1>2, <1>3, <1>4 DEF Abstract!Init

\* A round changes nothing its caller sees, except the last one, which sorts.
LEMMA NextSorts == Sorted' /\ [Next]_vars => [Abstract!SortFields]_<<Returned, ~MoreToDo>>
<1> SUFFICES ASSUME Sorted', [Next]_vars
             PROVE  Abstract!SortFields \/ UNCHANGED <<Returned, ~MoreToDo>>
  OBVIOUS
<1>1. CASE UNCHANGED vars
  BY <1>1 DEF vars, Returned, MoreToDo
<1>2. CASE Next
  <2>1. MoreToDo /\ input' = input
    BY <1>2 DEF Next, SwapNext, Advance
  <2>2. CASE MoreToDo'
    BY <2>1, <2>2 DEF Returned
  <2>3. CASE ~MoreToDo'
    <3>2. fields' = StableSorted(input')
      BY <2>3 DEF Sorted
    <3>3. Returned' = StableSorted(Returned)
      BY <2>1, <2>3, <3>2 DEF Returned
    <3>4. Abstract!StableSorted(Returned) = StableSorted(Returned)
      BY DEF Abstract!StableSorted, StableSorted, Abstract!OfScore, OfScore,
             Abstract!get_priority_score, get_priority_score, Abstract!AtPositions, AtPositions
    <3> QED
      BY <2>1, <2>3, <3>3, <3>4 DEF Abstract!SortFields
  <2> QED
    BY <2>2, <2>3
<1> QED
  BY <1>1, <1>2

\* parse_tx_internal sees its result put in order at once: what sort_fields returns is the
\* stable sort of what it was given, for any fields and any number of them.  (That it
\* returns is SortsAtOnce's fairness, and SortTakesFewRounds.)
THEOREM SortRefines == Spec => Abstract!Safety
<1>1. IInv => Sorted
  BY SortedInput DEF Sorted
<1> QED
  BY <1>1, Inductive, InitSorts, NextSorts, PTL DEF Spec, Abstract!Safety

-----------------------------------------------------------------------------
(* The number of rounds.                                                   *)

LEMMA InversionsFinite ==
    ASSUME TypeOK
    PROVE  IsFiniteSet(Inversions) /\ Cardinality(Inversions) \in Nat
<1> DEFINE n == Len(fields)
<1>1. n \in Nat
  BY SeqIsFunction
<1>2. IsFiniteSet(1..n)
  BY <1>1, FS_Interval
<1>3. IsFiniteSet((1..n) \X (1..n))
  BY <1>2, FS_Product
<1>4. Inversions \in SUBSET ((1..n) \X (1..n))
  BY DEF Inversions
<1>5. IsFiniteSet(Inversions)
  BY <1>3, <1>4, FS_Subset
<1> QED
  BY <1>5, FS_CardinalityType

\* A swap undoes the inversion of its two fields and makes no other: what it leaves, with the
\* two positions exchanged, was there before.
LEMMA SwapUndoes ==
    ASSUME IInv, SwapNext
    PROVE  /\ Cardinality(Inversions') \in Nat
           /\ Cardinality(Inversions') <= Cardinality(Inversions) - 1
<1> DEFINE n == Len(fields)
           p == i + 1
           q == i + 2
           other(a) == IF a = p THEN q ELSE IF a = q THEN p ELSE a
           score(a) == get_priority_score(fields[a])
<1>1. /\ n \in Nat /\ fields \in [1..n -> Field] /\ fields \in Seq(Field)
      /\ p \in 1..n /\ q \in 1..n /\ q = p + 1
  BY SeqIsFunction, CountAssumption DEF IInv, TypeOK, SwapNext, MoreToDo
<1>2. fields' = Exchange(fields, p, q) /\ score(q) < score(p)
  BY OutOfOrderIsLess DEF SwapNext, swap_fields
<1> HIDE DEF n, p, q
<1>3. /\ fields' \in [1..n -> Field] /\ \A a \in 1..n : fields'[a] = fields[other(a)]
  BY <1>1, <1>2 DEF Exchange
<1>4. Len(fields') = n
  BY <1>1, <1>3, FunctionIsSeq
<1>5. Inversions = {x \in (1..n) \X (1..n) : x[1] < x[2] /\ score(x[2]) < score(x[1])}
  BY DEF Inversions, Score, n
<1>6. Inversions' = {x \in (1..n) \X (1..n) :
                        x[1] < x[2] /\ score(other(x[2])) < score(other(x[1]))}
  <2>1. Inversions' = {x \in (1..n) \X (1..n) :
                          /\ x[1] < x[2]
                          /\ get_priority_score(fields'[x[2]]) < get_priority_score(fields'[x[1]])}
    BY <1>4 DEF Inversions, Score
  <2> QED
    BY <1>3, <2>1
<1>7. \A a \in 1..n : score(a) \in {0, 1, 2}
  BY ScoreType
<1>8. /\ \A a \in 1..n : other(a) \in 1..n /\ other(other(a)) = a
      /\ \A a, b \in 1..n : a < b => other(a) < other(b) \/ (a = p /\ b = q)
      /\ other(p) = q /\ other(q) = p
  BY <1>1
<1> DEFINE J == Inversions'
           R == Inversions \ {<<p, q>>}
           f == [x \in J |-> <<other(x[1]), other(x[2])>>]
<1> HIDE DEF score, other
<1>9. ASSUME NEW x \in J PROVE <<other(x[1]), other(x[2])>> \in R
  <2>1. /\ x[1] \in 1..n /\ x[2] \in 1..n /\ x[1] < x[2]
        /\ score(other(x[2])) < score(other(x[1]))
    BY <1>6, <1>9
  <2>2. ~(x[1] = p /\ x[2] = q)
    BY <1>1, <1>2, <1>7, <1>8, <2>1
  <2>3. other(x[1]) < other(x[2]) /\ other(x[1]) \in 1..n /\ other(x[2]) \in 1..n
    BY <1>8, <2>1, <2>2
  <2>4. <<other(x[1]), other(x[2])>> \in Inversions
    BY <1>5, <2>1, <2>3
  <2>5. ~(other(x[1]) = p /\ other(x[2]) = q)
    <3> SUFFICES ASSUME other(x[1]) = p, other(x[2]) = q PROVE FALSE
      OBVIOUS
    <3>1. x[1] = q /\ x[2] = p
      BY <1>8, <2>1
    <3> QED
      BY <1>1, <2>1, <3>1
  <2> QED
    BY <2>4, <2>5
<1>10. f \in [J -> R]
  BY <1>9
<1>11. ASSUME NEW x \in J, NEW y \in J, f[x] = f[y] PROVE x = y
  <2>1. x \in (1..n) \X (1..n) /\ y \in (1..n) \X (1..n)
    BY <1>6
  <2>2. f[x] = <<other(x[1]), other(x[2])>> /\ f[y] = <<other(y[1]), other(y[2])>>
    OBVIOUS
  <2>3. other(x[1]) = other(y[1]) /\ other(x[2]) = other(y[2])
    BY <1>11, <2>2
  <2>4. x[1] = y[1] /\ x[2] = y[2]
    BY <1>8, <2>1, <2>3
  <2> QED
    BY <2>1, <2>4
<1>12. f \in Injection(J, R)
  <2> HIDE DEF f
  <2> QED
    BY <1>10, <1>11 DEF Injection, IsInjective
<1>13. IsFiniteSet(Inversions) /\ Cardinality(Inversions) \in Nat
  BY InversionsFinite DEF IInv
<1>14. <<p, q>> \in Inversions
  BY <1>1, <1>2, <1>5
<1>15. IsFiniteSet(R) /\ Cardinality(R) = Cardinality(Inversions) - 1
  BY <1>13, <1>14, FS_RemoveElement
<1>16. Cardinality(J) \in Nat /\ Cardinality(J) <= Cardinality(R)
  <2> HIDE DEF f, R, J
  <2>1. IsFiniteSet(J) /\ Cardinality(J) <= Cardinality(R)
    BY <1>12, <1>15, FS_Injection
  <2> QED
    BY <2>1, FS_CardinalityType
<1> QED
  BY <1>15, <1>16

\* Every round lowers the measure: an advance by one, a swap by two less the step back.
LEMMA NextLowers == IInv /\ IInv' /\ [Next]_vars => [Measure' < Measure]_vars
<1> SUFFICES ASSUME IInv, IInv', Next PROVE Measure' < Measure
  OBVIOUS
<1>1. /\ Len(fields) \in Nat /\ i \in Nat /\ i' \in Nat
      /\ Cardinality(Inversions) \in Nat
  BY InversionsFinite, SeqIsFunction, CountAssumption DEF IInv, TypeOK
<1>2. CASE Advance
  <2>1. Inversions' = Inversions /\ Len(fields') = Len(fields) /\ i' = i + 1
    BY <1>2 DEF Advance, Inversions, Score
  <2>2. Cardinality(Inversions') = Cardinality(Inversions)
    BY <2>1
  <2> QED
    BY <1>1, <2>1, <2>2 DEF Measure
<1>3. CASE SwapNext
  <2>1. /\ Cardinality(Inversions') \in Nat
        /\ Cardinality(Inversions') <= Cardinality(Inversions) - 1
    BY <1>3, SwapUndoes
  <2>2. Len(fields') = Len(fields)
    BY <1>3 DEF IInv, TypeOK, SwapNext
  <2>3. i' >= i - 1
    BY <1>1, <1>3 DEF SwapNext, StepBack
  <2> QED
    BY <1>1, <2>1, <2>2, <2>3 DEF Measure
<1> QED
  BY <1>2, <1>3 DEF Next

\* The loop of sort_fields is bounded although its index moves both ways: no round is ever
\* undone, for any number of fields.
THEOREM SortIsBounded == Spec => SortTakesFewRounds
BY Inductive, NextLowers, PTL DEF Spec, SortTakesFewRounds

=============================================================================
