---------------------------- MODULE XrpPrintProofs ----------------------------
(***************************************************************************)
(* The proof that a printed number reads back as itself, for words of any  *)
(* size and any number of digits and decimals.                             *)
(***************************************************************************)
EXTENDS XrpPrint, Induction, SequenceTheorems

-----------------------------------------------------------------------------
(* Division.                                                               *)

LEMMA DivIs ==
    ASSUME NEW v \in Nat, NEW b \in Nat \ {0}
    PROVE  /\ v \div b \in Nat /\ v % b \in 0..b - 1
           /\ v = b * (v \div b) + (v % b)
OBVIOUS

LEMMA DivUnique ==
    ASSUME NEW v \in Nat, NEW b \in Nat \ {0}, NEW q \in Nat, NEW r \in 0..b - 1, v = b * q + r
    PROVE  v \div b = q
OBVIOUS

\* A digit at a time.
LEMMA NestedDiv ==
    ASSUME NEW v \in Nat, NEW b \in Nat \ {0}
    PROVE  (v \div b) \div 10 = v \div (10 * b)
<1> DEFINE q == v \div b
<1>1. PICK r \in 0..b - 1 : v = b * q + r
  BY DivIs
<1>2. q \in Nat
  BY DivIs
<1> HIDE DEF q
<1> DEFINE p == q \div 10
<1>3. p \in Nat /\ \E s \in 0..9 : q = 10 * p + s
  BY <1>2
<1>4. PICK s \in 0..9 : q = 10 * p + s
  BY <1>3
<1> HIDE DEF p
<1>5. b * q = (10 * b) * p + b * s
  BY <1>2, <1>3, <1>4
<1>6. b * s <= b * 9 /\ b * s \in Nat
  OBVIOUS
<1>7. b * s + r \in 0..(10 * b) - 1
  BY <1>6
<1>8. v = (10 * b) * p + (b * s + r)
  <2>1. (10 * b) * p \in Nat
    BY <1>3
  <2> QED
    BY <1>1, <1>5, <1>6, <2>1
<1>9. 10 * b \in Nat \ {0}
  OBVIOUS
<1>10. v \div (10 * b) = p
  BY <1>3, <1>7, <1>8, <1>9, DivUnique
<1> QED
  BY <1>10 DEF q, p

LEMMA SmallMod == ASSUME NEW v \in Nat, NEW b \in Nat \ {0}, v < b PROVE v % b = v
OBVIOUS

-----------------------------------------------------------------------------
(* The powers of ten.                                                      *)

Powers(f, n) == f[0] = 1 /\ \A k \in 1..n : f[k] = 10 * f[k - 1]

LEMMA PowersUpTo == \A n \in Nat : \E f \in [0..n -> Nat] : Powers(f, n)
<1> SUFFICES ASSUME NEW n \in Nat PROVE \E f \in [0..n -> Nat] : Powers(f, n)
  OBVIOUS
<1> DEFINE step == [x \in Nat \X (1..n) |-> 10 * x[1]]
<1>1. step \in [Nat \X (1..n) -> Nat] /\ 1 \in Nat
  OBVIOUS
<1>2. PICK f \in [0..n -> Nat] : Follows(f, 1, step, n)
  <2> HIDE DEF step
  <2> QED
    BY <1>1, RecursionExists
<1>3. \A k \in 1..n : f[k] = 10 * f[k - 1]
  <2> SUFFICES ASSUME NEW k \in 1..n PROVE f[k] = 10 * f[k - 1]
    OBVIOUS
  <2>1. f[k - 1] \in Nat /\ <<f[k - 1], k>> \in Nat \X (1..n)
    OBVIOUS
  <2>2. f[k] = step[<<f[k - 1], k>>]
    BY <1>2 DEF Follows
  <2> QED
    BY <2>1, <2>2
<1> QED
  BY <1>2, <1>3 DEF Follows, Powers

LEMMA PowersAgree ==
    ASSUME NEW n \in Nat, NEW f, NEW g, Powers(f, n), Powers(g, n)
    PROVE  \A k \in 0..n : f[k] = g[k]
<1> DEFINE T == {k \in 0..n : f[k] = g[k]}
<1>1. 0 \in T
  BY DEF Powers
<1>2. ASSUME NEW k \in 0..n, k \in T, k < n PROVE k + 1 \in T
  <2>1. k + 1 \in 1..n /\ (k + 1) - 1 = k
    BY <1>2
  <2> QED
    BY <1>2, <2>1 DEF Powers
<1>3. 0..n \subseteq T
  <2> HIDE DEF T
  <2> QED
    BY <1>1, <1>2, UpTo
<1> QED
  BY <1>3

LEMMA TenIs ==
    /\ Ten \in [Nat -> Nat \ {0}] /\ Ten[0] = 1
    /\ \A n \in Nat : Ten[n + 1] = 10 * Ten[n]
<1> DEFINE Upto(n) == CHOOSE f : f \in [0..n -> Nat] /\ Powers(f, n)
           h == [n \in Nat |-> Upto(n)[n]]
           Value(f, n) == IF n = 0 THEN 1 ELSE 10 * f[n - 1]
           Def(f) == f = [n \in Nat |-> Value(f, n)]
<1>1. \A n \in Nat : Upto(n) \in [0..n -> Nat] /\ Powers(Upto(n), n)
  BY PowersUpTo, Zenon
<1> HIDE DEF Upto
<1>2. h[0] = 1
  BY <1>1 DEF Powers
<1>3. ASSUME NEW n \in Nat PROVE h[n] \in Nat /\ h[n + 1] = 10 * h[n]
  <2>1. PICK f, g : f = Upto(n) /\ g = Upto(n + 1)
    OBVIOUS
  <2>2. f \in [0..n -> Nat] /\ Powers(f, n) /\ Powers(g, n + 1)
    <3>1. n + 1 \in Nat
      OBVIOUS
    <3>2. f \in [0..n -> Nat] /\ Powers(f, n)
      BY <1>1, <2>1, Zenon
    <3>3. Powers(g, n + 1)
      BY <1>1, <2>1, <3>1, Zenon
    <3> QED
      BY <3>2, <3>3
  <2>3. Powers(g, n)
    BY <2>2 DEF Powers
  <2>4. f[n] = g[n]
    BY <2>2, <2>3, PowersAgree
  <2>5. g[n + 1] = 10 * g[n]
    <3>1. n + 1 \in 1..n + 1 /\ (n + 1) - 1 = n
      OBVIOUS
    <3> QED
      BY <2>2, <3>1 DEF Powers
  <2>6. h[n] = f[n] /\ h[n + 1] = g[n + 1] /\ f[n] \in Nat
    BY <2>1, <2>2
  <2> QED
    BY <2>4, <2>5, <2>6
<1>4. Def(h)
  <2>1. h = [n \in Nat |-> h[n]]
    OBVIOUS
  <2> HIDE DEF h
  <2>2. \A n \in Nat : h[n] = Value(h, n)
    <3> SUFFICES ASSUME NEW n \in Nat PROVE h[n] = Value(h, n)
      OBVIOUS
    <3>1. CASE n = 0
      BY <1>2, <3>1
    <3>2. CASE n # 0
      <4>1. n - 1 \in Nat /\ (n - 1) + 1 = n
        BY <3>2
      <4> QED
        BY <1>3, <3>2, <4>1
    <3> QED
      BY <3>1, <3>2
  <2> HIDE DEF Value
  <2> QED
    BY <2>1, <2>2
<1>5. Ten = CHOOSE f : Def(f)
  BY DEF Ten
<1>6. Def(Ten)
  <2> HIDE DEF Def
  <2> QED
    BY <1>4, <1>5
<1> HIDE DEF h
<1>7. Ten[0] = 1 /\ \A n \in Nat : Ten[n + 1] = 10 * Ten[n]
  <2>1. \A n \in Nat : Ten[n] = Value(Ten, n)
    <3> HIDE DEF Value
    <3>1. Ten = [n \in Nat |-> Value(Ten, n)]
      BY <1>6
    <3> QED
      BY <3>1
  <2>2. \A n \in Nat : n + 1 \in Nat /\ n + 1 # 0 /\ (n + 1) - 1 = n
    OBVIOUS
  <2> QED
    BY <2>1, <2>2
<1>8. ASSUME NEW n \in Nat PROVE Ten[n] \in Nat \ {0}
  <2> DEFINE T == {k \in 0..n : Ten[k] \in Nat \ {0}}
  <2>1. 0 \in T
    BY <1>7
  <2>2. ASSUME NEW k \in 0..n, k \in T, k < n PROVE k + 1 \in T
    <3>1. k \in Nat /\ k + 1 \in 0..n
      BY <2>2
    <3> QED
      BY <1>7, <2>2, <3>1
  <2>3. 0..n \subseteq T
    <3> HIDE DEF T
    <3> QED
      BY <2>1, <2>2, UpTo
  <2> QED
    BY <2>3
<1>9. Ten \in [Nat -> Nat \ {0}]
  <2>1. Ten = [n \in Nat |-> Ten[n]]
    <3> HIDE DEF Value
    <3>1. Ten = [n \in Nat |-> Value(Ten, n)]
      BY <1>6
    <3>2. \A n \in Nat : Ten[n] = Value(Ten, n)
      BY <3>1
    <3> QED
      BY <3>1, <3>2
  <2> QED
    BY <1>8, <2>1
<1> QED
  BY <1>7, <1>9

LEMMA TenGrows ==
    ASSUME NEW m \in Nat, NEW n \in 0..m
    PROVE  Ten[n] <= Ten[m]
<1> DEFINE T == {k \in 0..m - n : Ten[n] <= Ten[n + k]}
<1>1. 0 \in T /\ m - n \in Nat
  <2>1. n \in Nat /\ n + 0 = n /\ m - n \in Nat
    OBVIOUS
  <2>2. Ten[n] \in Nat
    BY <2>1, TenIs
  <2> QED
    BY <2>1, <2>2
<1>2. ASSUME NEW k \in 0..m - n, k \in T, k < m - n PROVE k + 1 \in T
  <2>1. n + k \in Nat /\ n \in Nat /\ k + 1 \in 0..m - n /\ n + (k + 1) = (n + k) + 1
    BY <1>1, <1>2
  <2>2. Ten[n + (k + 1)] = 10 * Ten[n + k] /\ Ten[n + k] \in Nat /\ Ten[n] \in Nat
    BY <2>1, TenIs
  <2> QED
    BY <1>2, <2>1, <2>2
<1>3. 0..m - n \subseteq T
  <2> HIDE DEF T
  <2> QED
    BY <1>1, <1>2, UpTo
<1>4. m - n \in 0..m - n /\ n + (m - n) = m
  BY <1>1
<1> QED
  BY <1>3, <1>4

LEMMA TenAdds ==
    ASSUME NEW m \in Nat, NEW n \in Nat
    PROVE  Ten[m + n] = Ten[m] * Ten[n]
<1> DEFINE T == {k \in 0..n : Ten[m + k] = Ten[m] * Ten[k]}
<1>1. 0 \in T
  <2>1. m + 0 = m /\ Ten[m] \in Nat /\ Ten[0] = 1
    BY TenIs
  <2> QED
    BY <2>1
<1>2. ASSUME NEW k \in 0..n, k \in T, k < n PROVE k + 1 \in T
  <2>1. m + k \in Nat /\ k \in Nat /\ k + 1 \in 0..n /\ m + (k + 1) = (m + k) + 1
    BY <1>2
  <2>2. PICK a \in Nat, b \in Nat : a = Ten[m] /\ b = Ten[k]
    BY <2>1, TenIs
  <2>3. Ten[m + k] = a * b
    BY <1>2, <2>2
  <2>4. Ten[m + (k + 1)] = 10 * (a * b) /\ Ten[k + 1] = 10 * b
    BY <2>1, <2>2, <2>3, TenIs
  <2>5. 10 * (a * b) = a * (10 * b)
    OBVIOUS
  <2> QED
    BY <2>1, <2>2, <2>4, <2>5
<1>3. 0..n \subseteq T
  <2> HIDE DEF T
  <2> QED
    BY <1>1, <1>2, UpTo
<1> QED
  BY <1>3

-----------------------------------------------------------------------------
(* The base.                                                               *)

\* It is never reduced by the width of the word.
LEMMA BaseIs ==
    /\ Base \in [0..MaxDigits -> Nat \ {0}] /\ Base[0] = 1
    /\ \A n \in 1..MaxDigits : Base[n] = 10 * Base[n - 1]
    /\ \A n \in 0..MaxDigits : Base[n] = Ten[n]
<1> DEFINE N == MaxDigits
           step == [x \in Nat \X (1..N) |-> (10 * x[1]) % WordSize]
           Value(f, k) == IF k = 0 THEN 1 ELSE (10 * f[k - 1]) % WordSize
           Def(f) == f = [k \in 0..N |-> Value(f, k)]
<1>1. N \in Nat /\ WordSize \in Nat \ {0} /\ 1 \in Nat
  BY PrintAssumption
<1>2. step \in [Nat \X (1..N) -> Nat]
  BY <1>1
<1> HIDE DEF N
<1>3. PICK f \in [0..N -> Nat] : Follows(f, 1, step, N)
  <2> HIDE DEF step
  <2> QED
    BY <1>1, <1>2, RecursionExists
<1>4. \A k \in 0..N : f[k] = Value(f, k)
  <2> SUFFICES ASSUME NEW k \in 0..N PROVE f[k] = Value(f, k)
    OBVIOUS
  <2>1. CASE k = 0
    BY <1>3, <2>1 DEF Follows
  <2>2. CASE k # 0
    <3>1. k \in 1..N /\ k - 1 \in 0..N
      BY <1>1, <2>2
    <3>2. f[k - 1] \in Nat /\ <<f[k - 1], k>> \in Nat \X (1..N)
      BY <1>3, <3>1
    <3>3. f[k] = step[<<f[k - 1], k>>]
      BY <1>3, <3>1 DEF Follows
    <3> QED
      BY <2>2, <3>2, <3>3
  <2> QED
    BY <2>1, <2>2
<1>5. Def(f)
  <2> HIDE DEF Value
  <2> QED
    BY <1>3, <1>4
<1>6. Base = CHOOSE h : Def(h)
  BY DEF Base, N
<1>7. Def(Base)
  <2> HIDE DEF Def
  <2> QED
    BY <1>5, <1>6
<1>8. /\ Base[0] = 1 /\ \A k \in 1..N : Base[k] = (10 * Base[k - 1]) % WordSize
      /\ Base = [k \in 0..N |-> Base[k]]
  <2>1. Base = [k \in 0..N |-> Value(Base, k)]
    BY <1>7
  <2>2. \A k \in 0..N : Base[k] = Value(Base, k)
    <3> HIDE DEF Value
    <3> QED
      BY <2>1
  <2>3. Base = [k \in 0..N |-> Base[k]]
    <3> HIDE DEF Value
    <3> QED
      BY <2>1, <2>2
  <2>4. 0 \in 0..N /\ \A k \in 1..N : k \in 0..N /\ k # 0
    BY <1>1
  <2> QED
    BY <2>2, <2>3, <2>4
<1> DEFINE T == {k \in 0..N : Base[k] = Ten[k] /\ (k # 0 => Base[k] = 10 * Base[k - 1])}
<1>9. 0 \in T
  BY <1>1, <1>8, TenIs
<1>10. ASSUME NEW k \in 0..N, k \in T, k < N PROVE k + 1 \in T
  <2>1. k + 1 \in 1..N /\ k + 1 \in 0..N /\ (k + 1) - 1 = k
    BY <1>1, <1>10
  <2>2. Base[k + 1] = (10 * Base[k]) % WordSize
    BY <1>8, <2>1
  <2>3. 10 * Base[k] < WordSize /\ Base[k] \in Nat /\ Ten[k + 1] = 10 * Base[k]
    <3>0. k \in Nat /\ N \in Nat
      BY <1>1
    <3>1. k \in Nat /\ Ten[k + 1] = 10 * Ten[k] /\ Ten[k] \in Nat /\ Ten[N] \in Nat
      BY <3>0, TenIs
    <3>2. Ten[k + 1] <= Ten[N]
      BY <1>1, <2>1, TenGrows
    <3>3. Ten[N] < WordSize
      BY PrintAssumption DEF N
    <3>4. Ten[k + 1] \in Nat
      BY <3>1
    <3> QED
      BY <1>1, <1>10, <3>1, <3>2, <3>3, <3>4
  <2>4. Base[k + 1] = 10 * Base[k]
    <3>1. 10 * Base[k] \in Nat
      BY <2>3
    <3> QED
      BY <1>1, <2>2, <2>3, <3>1, SmallMod
  <2> QED
    BY <2>1, <2>3, <2>4
<1>11. 0..N \subseteq T
  <2> HIDE DEF T
  <2> QED
    BY <1>1, <1>9, <1>10, UpTo
<1>12. /\ \A k \in 0..N : Base[k] = Ten[k] /\ Base[k] \in Nat \ {0}
       /\ \A k \in 1..N : Base[k] = 10 * Base[k - 1]
  <2>1. \A k \in 1..N : k \in 0..N /\ k # 0
    BY <1>1
  <2>2. \A k \in 0..N : k \in Nat
    BY <1>1
  <2> QED
    BY <1>11, <2>1, <2>2, TenIs
<1>13. Base \in [0..N -> Nat \ {0}]
  BY <1>8, <1>12
<1> QED
  BY <1>8, <1>12, <1>13 DEF N

\* The rounds of the loop are the digits of the value.
LEMMA NumDigitsIs ==
    ASSUME NEW v \in Nat
    PROVE  LET n == NumDigits(v)
           IN  /\ n \in 0..MaxDigits + 1
               /\ n <= MaxDigits => v < Base[n]
               /\ n # 0 => Base[n - 1] <= v
               /\ \A k \in 0..MaxDigits : v < Base[k] => n <= k
<1> DEFINE S == {k \in 0..MaxDigits : Base[k] > v} \cup {MaxDigits + 1}
           n == NumDigits(v)
<1>1. MaxDigits \in Nat /\ Base \in [0..MaxDigits -> Nat \ {0}]
  BY PrintAssumption, BaseIs
<1>2. n = Min(S)
  BY DEF NumDigits
<1>3. S \in SUBSET Nat /\ S # {}
  BY <1>1
<1>4. n \in S /\ \A k \in S : n <= k
  <2> HIDE DEF S
  <2>1. \E k \in S : \A j \in S : k <= j
    BY <1>3, LeastNatural
  <2> QED
    BY <1>2, <2>1 DEF Min
<1> HIDE DEF n
<1>5. n \in 0..MaxDigits + 1 /\ (n <= MaxDigits => v < Base[n])
  BY <1>1, <1>4
<1>6. n # 0 => Base[n - 1] <= v
  <2> SUFFICES ASSUME n # 0 PROVE Base[n - 1] <= v
    OBVIOUS
  <2>1. n - 1 \in 0..MaxDigits /\ n - 1 < n
    BY <1>1, <1>5
  <2>2. n - 1 \notin S
    BY <1>4, <1>5, <2>1
  <2> QED
    BY <1>1, <2>1, <2>2
<1>7. \A k \in 0..MaxDigits : v < Base[k] => n <= k
  BY <1>1, <1>4
<1> QED
  BY <1>5, <1>6, <1>7 DEF n

-----------------------------------------------------------------------------
(* Digits.                                                                 *)

LEMMA NumeralsAre ==
    /\ \A d \in 0..9 : Numeral[1 + d] \in Numerals /\ Weight(Numeral[1 + d]) = d
    /\ \A c \in Numerals : Weight(c) \in 0..9 /\ c # "."
    /\ Numeral[1] = "0" /\ \A d \in 1..9 : Numeral[1 + d] # "0"
    /\ "0" \in Numerals /\ Weight("0") = 0
<1>1. /\ Numeral[1] = "0" /\ Numeral[2] = "1" /\ Numeral[3] = "2" /\ Numeral[4] = "3"
      /\ Numeral[5] = "4" /\ Numeral[6] = "5" /\ Numeral[7] = "6" /\ Numeral[8] = "7"
      /\ Numeral[9] = "8" /\ Numeral[10] = "9"
  BY DEF Numeral
<1>2. \A d \in 0..9 : d = 0 \/ d = 1 \/ d = 2 \/ d = 3 \/ d = 4 \/ d = 5 \/ d = 6 \/ d = 7 \/ d = 8 \/ d = 9
  OBVIOUS
<1>3. \A d, e \in 0..9 : Numeral[1 + d] = Numeral[1 + e] => d = e
  BY <1>1, <1>2
<1>4. \A d \in 0..9 : Numeral[1 + d] \in Numerals /\ Numeral[1 + d] # "."
  <2>1. \A d \in 0..9 : 1 + d \in 1..10
    OBVIOUS
  <2>2. \A d \in 0..9 : Numeral[1 + d] # "."
    BY <1>1, <1>2
  <2> QED
    BY <2>1, <2>2 DEF Numerals
<1>5. ASSUME NEW d \in 0..9 PROVE Weight(Numeral[1 + d]) = d
  <2>1. \A e : e \in 0..9 /\ Numeral[e + 1] = Numeral[1 + d] <=> e = d
    <3>1. \A e \in 0..9 : e + 1 = 1 + e
      OBVIOUS
    <3> QED
      BY <1>3, <3>1
  <2> QED
    BY <2>1 DEF Weight
<1>6. \A c \in Numerals : \E d \in 0..9 : c = Numeral[1 + d]
  <2> SUFFICES ASSUME NEW c \in Numerals PROVE \E d \in 0..9 : c = Numeral[1 + d]
    OBVIOUS
  <2>1. PICK i \in 1..10 : c = Numeral[i]
    BY DEF Numerals
  <2>2. i - 1 \in 0..9 /\ i = 1 + (i - 1)
    OBVIOUS
  <2> QED
    BY <2>1, <2>2
<1>7. \A c \in Numerals : Weight(c) \in 0..9 /\ c # "."
  BY <1>4, <1>5, <1>6
<1>8. \A d \in 1..9 : Numeral[1 + d] # "0"
  BY <1>1, <1>2
<1>9. "0" \in Numerals /\ Weight("0") = 0
  <2>1. Numeral[1 + 0] = "0" /\ 0 \in 0..9
    BY <1>1
  <2> QED
    BY <1>4, <1>5, <2>1
<1> QED
  BY <1>1, <1>4, <1>5, <1>7, <1>8, <1>9


-----------------------------------------------------------------------------
(* Numbers.                                                                *)

\* NumberOf is what digit after digit adds up to.
LEMMA NumberIs ==
    ASSUME NEW s \in Seq(Numerals), NEW f,
           f[0] = 0, \A k \in 1..Len(s) : f[k] \in Nat /\ f[k] = 10 * f[k - 1] + Weight(s[k])
    PROVE  NumberOf(s) = f[Len(s)]
<1> DEFINE n == Len(s)
           Value(h, k) == IF k = 0 THEN 0 ELSE 10 * h[k - 1] + Weight(s[k])
           Def(h) == h = [k \in 0..n |-> Value(h, k)]
           g == [k \in 0..n |-> f[k]]
           upTo == CHOOSE h : Def(h)
<1>1. n \in Nat
  OBVIOUS
<1>2. \A k \in 1..n : k \in 0..n /\ k - 1 \in 0..n /\ k # 0
  BY <1>1
<1>3. \A k \in 0..n : g[k] = Value(g, k)
  <2> SUFFICES ASSUME NEW k \in 0..n PROVE g[k] = Value(g, k)
    OBVIOUS
  <2>1. CASE k = 0
    BY <2>1
  <2>2. CASE k # 0
    <3>1. k \in 1..n
      BY <1>1, <2>2
    <3>2. g[k - 1] = f[k - 1] /\ g[k] = f[k]
      BY <1>2, <3>1
    <3> QED
      BY <2>2, <3>1, <3>2
  <2> QED
    BY <2>1, <2>2
<1>4. Def(g)
  <2> HIDE DEF Value
  <2>1. g = [k \in 0..n |-> g[k]]
    OBVIOUS
  <2> HIDE DEF g
  <2>2. [k \in 0..n |-> g[k]] = [k \in 0..n |-> Value(g, k)]
    BY <1>3
  <2> QED
    BY <2>1, <2>2
<1>5. Def(upTo)
  <2> HIDE DEF Def, g
  <2> QED
    BY <1>4
<1>6. \A k \in 0..n : upTo[k] = Value(upTo, k)
  <2> HIDE DEF Value, upTo
  <2>1. upTo = [k \in 0..n |-> Value(upTo, k)]
    BY <1>5
  <2> QED
    BY <2>1
<1>7. NumberOf(s) = upTo[n]
  BY DEF NumberOf
<1> HIDE DEF upTo
<1> DEFINE T == {k \in 0..n : upTo[k] = f[k]}
<1>8. 0 \in T
  BY <1>1, <1>6
<1>9. ASSUME NEW k \in 0..n, k \in T, k < n PROVE k + 1 \in T
  <2>1. k + 1 \in 1..n /\ k + 1 \in 0..n /\ (k + 1) - 1 = k /\ k + 1 # 0
    BY <1>1, <1>9
  <2>2. upTo[k + 1] = 10 * upTo[k] + Weight(s[k + 1])
    BY <1>6, <2>1
  <2>3. f[k + 1] = 10 * f[k] + Weight(s[k + 1])
    BY <2>1
  <2> QED
    BY <1>9, <2>1, <2>2, <2>3
<1>10. 0..n \subseteq T
  <2> HIDE DEF T
  <2> QED
    BY <1>1, <1>8, <1>9, UpTo
<1> QED
  BY <1>1, <1>7, <1>10

LEMMA NumberFollows ==
    ASSUME NEW s \in Seq(Numerals)
    PROVE  \E f \in [0..Len(s) -> Nat] :
               /\ f[0] = 0 /\ \A k \in 1..Len(s) : f[k] = 10 * f[k - 1] + Weight(s[k])
               /\ NumberOf(s) = f[Len(s)]
<1> DEFINE n == Len(s)
           step == [x \in Nat \X (1..n) |-> 10 * x[1] + Weight(s[x[2]])]
<1>1. n \in Nat /\ \A k \in 1..n : Weight(s[k]) \in Nat
  BY NumeralsAre
<1>2. step \in [Nat \X (1..n) -> Nat] /\ 0 \in Nat
  BY <1>1
<1>3. PICK f \in [0..n -> Nat] : Follows(f, 0, step, n)
  <2> HIDE DEF step, n
  <2> QED
    BY <1>1, <1>2, RecursionExists
<1>4. \A k \in 1..n : f[k] \in Nat /\ f[k] = 10 * f[k - 1] + Weight(s[k])
  <2> SUFFICES ASSUME NEW k \in 1..n PROVE f[k] \in Nat /\ f[k] = 10 * f[k - 1] + Weight(s[k])
    OBVIOUS
  <2>1. k \in 0..n /\ k - 1 \in 0..n
    BY <1>1
  <2>2. f[k] \in Nat /\ f[k - 1] \in Nat /\ <<f[k - 1], k>> \in Nat \X (1..n)
    BY <1>3, <2>1
  <2>3. f[k] = step[<<f[k - 1], k>>]
    BY <1>3 DEF Follows
  <2> QED
    BY <2>2, <2>3
<1>5. f[0] = 0
  BY <1>3 DEF Follows
<1>6. NumberOf(s) = f[n]
  BY <1>4, <1>5, NumberIs
<1> QED
  BY <1>4, <1>5, <1>6

\* Digits that are put before others count as many times more as those have places.
LEMMA NumberConcat ==
    ASSUME NEW s \in Seq(Numerals), NEW t \in Seq(Numerals)
    PROVE  /\ s \o t \in Seq(Numerals)
           /\ NumberOf(s) \in Nat /\ NumberOf(t) \in Nat
           /\ NumberOf(s \o t) = NumberOf(s) * Ten[Len(t)] + NumberOf(t)
<1> DEFINE m == Len(s)
           n == Len(t)
           r == s \o t
<1>1. m \in Nat /\ n \in Nat
  OBVIOUS
<1>2. /\ r \in Seq(Numerals) /\ Len(r) = m + n
      /\ \A i \in 1..m + n : r[i] = IF i <= m THEN s[i] ELSE t[i - m]
  BY ConcatProperties, Zenon
<1>3. PICK f \in [0..m -> Nat] :
          /\ f[0] = 0 /\ \A k \in 1..m : f[k] = 10 * f[k - 1] + Weight(s[k])
          /\ NumberOf(s) = f[m]
  BY NumberFollows
<1>4. PICK g \in [0..n -> Nat] :
          /\ g[0] = 0 /\ \A k \in 1..n : g[k] = 10 * g[k - 1] + Weight(t[k])
          /\ NumberOf(t) = g[n]
  BY NumberFollows
<1> HIDE DEF m, n, r
<1>5. PICK a \in Nat : a = NumberOf(s)
  <2>1. m \in 0..m
    BY <1>1
  <2> QED
    BY <1>3, <2>1
<1> DEFINE h == [k \in 0..m + n |-> IF k <= m THEN f[k] ELSE a * Ten[k - m] + g[k - m]]
<1>6. ASSUME NEW j \in 0..n
      PROVE  /\ m + j \in 0..m + n /\ a * Ten[j] \in Nat /\ g[j] \in Nat
             /\ h[m + j] = a * Ten[j] + g[j]
  <2>1. m + j \in 0..m + n /\ j \in Nat
    BY <1>1
  <2>2. Ten[j] \in Nat /\ g[j] \in Nat /\ Ten[0] = 1
    BY <1>4, <2>1, TenIs
  <2>3. a * Ten[j] \in Nat
    BY <2>2
  <2>4. CASE j = 0
    BY <1>1, <1>3, <1>4, <1>5, <2>1, <2>2, <2>4
  <2>5. CASE j # 0
    <3>1. ~(m + j <= m) /\ (m + j) - m = j
      BY <1>1, <2>1, <2>5
    <3> QED
      BY <2>1, <2>2, <2>3, <3>1
  <2> QED
    BY <2>4, <2>5
<1>7. h[0] = 0 /\ 0 \in 0..m + n
  BY <1>1, <1>3
<1>8. ASSUME NEW k \in 1..m + n
      PROVE  h[k] \in Nat /\ h[k] = 10 * h[k - 1] + Weight(r[k])
  <2>1. CASE k <= m
    <3>1. k \in 1..m /\ k - 1 \in 0..m /\ k \in 0..m + n /\ k - 1 \in 0..m + n /\ k \in 0..m /\ k - 1 <= m
      BY <1>1, <2>1
    <3>2. h[k] = f[k] /\ h[k - 1] = f[k - 1] /\ f[k] \in Nat /\ r[k] = s[k]
      BY <1>2, <1>3, <2>1, <3>1
    <3> QED
      BY <1>3, <3>1, <3>2
  <2>2. CASE k > m
    <3>1. PICK j \in 1..n : k = m + j
      <4>1. k - m \in 1..n /\ k = m + (k - m)
        BY <1>1, <2>2
      <4> QED
        BY <4>1
    <3>2. j \in 0..n /\ j - 1 \in 0..n /\ k - 1 = m + (j - 1) /\ k - m = j /\ j - 1 \in Nat /\ (j - 1) + 1 = j
      BY <1>1, <3>1
    <3>3. h[k] = a * Ten[j] + g[j] /\ h[k - 1] = a * Ten[j - 1] + g[j - 1]
      BY <1>6, <3>1, <3>2
    <3>4. a * Ten[j] \in Nat /\ a * Ten[j - 1] \in Nat /\ g[j] \in Nat /\ g[j - 1] \in Nat
      BY <1>6, <3>2
    <3>5. Ten[j] = 10 * Ten[j - 1] /\ Ten[j - 1] \in Nat
      BY <3>2, TenIs
    <3>6. a * Ten[j] = 10 * (a * Ten[j - 1])
      <4>1. PICK b \in Nat : b = Ten[j - 1]
        BY <3>5
      <4>2. a * (10 * b) = 10 * (a * b)
        OBVIOUS
      <4> QED
        BY <3>5, <4>1, <4>2
    <3>7. g[j] = 10 * g[j - 1] + Weight(t[j]) /\ r[k] = t[j]
      <4>1. ~(k <= m)
        BY <1>1, <2>2
      <4> QED
        BY <1>2, <1>4, <3>2, <4>1
    <3>8. Weight(t[j]) \in Nat
      <4>1. t[j] \in Numerals
        BY <3>1 DEF n
      <4>2. Weight(t[j]) \in 0..9
        BY <4>1, NumeralsAre, Zenon
      <4> QED
        BY <4>2
    <3> HIDE DEF h
    <3>9. PICK x \in Nat, y \in Nat, w \in Nat : x = a * Ten[j - 1] /\ y = g[j - 1] /\ w = Weight(t[j])
      BY <3>4, <3>8
    <3>10. h[k] = 10 * x + (10 * y + w) /\ h[k - 1] = x + y
      BY <3>3, <3>6, <3>7, <3>9
    <3>11. 10 * x + (10 * y + w) \in Nat /\ 10 * x + (10 * y + w) = 10 * (x + y) + w
      OBVIOUS
    <3>12. Weight(r[k]) = w
      BY <3>7, <3>9
    <3> QED
      BY <3>10, <3>11, <3>12, Zenon
  <2> QED
    BY <1>1, <2>1, <2>2
<1>9. n \in 0..n /\ NumberOf(t) \in Nat
  <2>1. n \in 0..n
    BY <1>1
  <2> QED
    BY <1>4, <2>1
<1>10. h[m + n] = a * Ten[n] + NumberOf(t)
  BY <1>4, <1>6, <1>9
<1> HIDE DEF h
<1>11. NumberOf(r) = h[Len(r)]
  BY <1>2, <1>7, <1>8, NumberIs
<1> QED
  BY <1>2, <1>5, <1>9, <1>10, <1>11 DEF n, r

LEMMA ZerosAre ==
    ASSUME NEW z \in Nat
    PROVE  Zeros(z) \in Seq(Numerals) /\ Len(Zeros(z)) = z /\ \A k \in 1..z : Zeros(z)[k] = "0"
BY NumeralsAre DEF Zeros

LEMMA DigitsAre ==
    ASSUME NEW v \in Nat, NEW n \in 0..MaxDigits
    PROVE  /\ DigitsOf(v, n) \in Seq(Numerals) /\ Len(DigitsOf(v, n)) = n
           /\ \A k \in 1..n :
                  /\ n - k \in 0..MaxDigits /\ v \div Base[n - k] \in Nat
                  /\ (v \div Base[n - k]) % 10 \in 0..9
                  /\ Weight(DigitsOf(v, n)[k]) = (v \div Base[n - k]) % 10
                  /\ DigitsOf(v, n)[k] = "0" <=> (v \div Base[n - k]) % 10 = 0
<1>1. MaxDigits \in Nat /\ Base \in [0..MaxDigits -> Nat \ {0}] /\ n \in Nat
  <2>1. MaxDigits \in Nat
    BY PrintAssumption
  <2> QED
    BY <2>1, BaseIs
<1>2. ASSUME NEW k \in 1..n
      PROVE  /\ n - k \in 0..MaxDigits /\ v \div Base[n - k] \in Nat
             /\ (v \div Base[n - k]) % 10 \in 0..9
  <2>1. n - k \in 0..MaxDigits
    BY <1>1
  <2>2. Base[n - k] \in Nat \ {0}
    BY <1>1, <2>1
  <2>3. v \div Base[n - k] \in Nat
    BY <2>2, DivIs
  <2> QED
    BY <2>1, <2>3
<1>3. \A k \in 1..n : DigitsOf(v, n)[k] = Numeral[1 + ((v \div Base[n - k]) % 10)]
  BY DEF DigitsOf
<1>4. \A k \in 1..n : DigitsOf(v, n)[k] \in Numerals
  BY <1>2, <1>3, NumeralsAre
<1>5. DigitsOf(v, n) \in Seq(Numerals) /\ Len(DigitsOf(v, n)) = n
  <2>1. DigitsOf(v, n) = [k \in 1..n |-> DigitsOf(v, n)[k]]
    BY DEF DigitsOf
  <2>2. DigitsOf(v, n) \in [1..n -> Numerals]
    BY <1>4, <2>1
  <2> QED
    BY <1>1, <2>2
<1>6. ASSUME NEW k \in 1..n
      PROVE  /\ Weight(DigitsOf(v, n)[k]) = (v \div Base[n - k]) % 10
             /\ DigitsOf(v, n)[k] = "0" <=> (v \div Base[n - k]) % 10 = 0
  <2>1. PICK d \in 0..9 : d = (v \div Base[n - k]) % 10
    BY <1>2
  <2>2. DigitsOf(v, n)[k] = Numeral[1 + d]
    BY <1>3, <2>1
  <2>3. Numeral[1 + d] = "0" <=> d = 0
    BY NumeralsAre
  <2> QED
    BY <2>1, <2>2, <2>3, NumeralsAre
<1> QED
  BY <1>2, <1>5, <1>6

\* The digits of a value are its number, whatever zeros stand before them.
LEMMA DigitsReadBack ==
    ASSUME NEW v \in Nat, NEW n \in 0..MaxDigits, v < Base[n], NEW z \in Nat
    PROVE  /\ Zeros(z) \o DigitsOf(v, n) \in Seq(Numerals)
           /\ NumberOf(Zeros(z) \o DigitsOf(v, n)) = v
<1> DEFINE d == DigitsOf(v, n)
           s == Zeros(z) \o d
           f == [k \in 0..z + n |-> IF k <= z THEN 0 ELSE v \div Base[n - (k - z)]]
<1>1. MaxDigits \in Nat /\ Base \in [0..MaxDigits -> Nat \ {0}] /\ n \in Nat /\ Base[0] = 1
  <2>1. MaxDigits \in Nat
    BY PrintAssumption
  <2> QED
    BY <2>1, BaseIs
<1>2. d \in Seq(Numerals) /\ Len(d) = n
  BY DigitsAre
<1>3. Zeros(z) \in Seq(Numerals) /\ Len(Zeros(z)) = z
  BY ZerosAre
<1>4. s \in Seq(Numerals) /\ Len(s) = z + n
  BY <1>2, <1>3
<1>5. /\ \A k \in 1..z : s[k] = "0"
      /\ \A k \in 1..n : s[z + k] = d[k]
  <2> DEFINE r == Zeros(z)
  <2>1. r \in Seq(Numerals) /\ Len(r) = z /\ \A k \in 1..z : r[k] = "0"
    BY ZerosAre
  <2> HIDE DEF r, d
  <2>2. \A k \in 1..z : (r \o d)[k] = r[k]
    BY <1>2, <2>1
  <2>3. \A k \in 1..n : (r \o d)[z + k] = d[k]
    BY <1>1, <1>2, <2>1
  <2> QED
    BY <2>1, <2>2, <2>3 DEF r
<1>6. f[0] = 0
  BY <1>1
<1>7. ASSUME NEW k \in 1..z + n PROVE f[k] \in Nat /\ f[k] = 10 * f[k - 1] + Weight(s[k])
  <2>1. k \in 0..z + n /\ k - 1 \in 0..z + n
    BY <1>1
  <2>2. CASE k <= z
    <3>1. f[k] = 0 /\ f[k - 1] = 0 /\ k \in 1..z
      BY <1>1, <2>1, <2>2
    <3>2. Weight(s[k]) = 0
      BY <1>5, <3>1, NumeralsAre
    <3> QED
      BY <3>1, <3>2
  <2>3. CASE ~(k <= z)
    <3>1. PICK j \in 1..n : k = z + j
      <4>1. k - z \in 1..n /\ k = z + (k - z)
        BY <1>1, <2>3
      <4> QED
        BY <4>1
    <3>2. n - j \in 0..MaxDigits /\ n - (j - 1) \in 1..MaxDigits /\ (n - (j - 1)) - 1 = n - j
      BY <1>1
    <3>3. PICK b \in Nat \ {0} : b = Base[n - j]
      BY <1>1, <3>2
    <3>4. Base[n - (j - 1)] = 10 * b
      BY <3>2, <3>3, BaseIs
    <3>5. v \div b \in Nat
      BY DivIs
    <3>6. f[k] = v \div b
      BY <1>1, <2>1, <2>3, <3>1, <3>3
    <3>7. f[k - 1] = (v \div b) \div 10
      <4>1. (v \div b) \div 10 = v \div (10 * b)
        BY NestedDiv
      <4>2. CASE j = 1
        <5>1. f[k - 1] = 0
          BY <1>1, <2>1, <3>1, <4>2
        <5>2. v < 10 * b
          BY <3>4, <4>2
        <5>3. v \div (10 * b) = 0
          <6>1. 10 * b \in Nat \ {0}
            OBVIOUS
          <6>2. v = (10 * b) * 0 + v /\ v \in 0..(10 * b) - 1
            BY <5>2, <6>1
          <6> QED
            BY <6>1, <6>2, DivUnique
        <5> QED
          BY <4>1, <5>1, <5>3
      <4>3. CASE j # 1
        <5>1. ~(k - 1 <= z) /\ (k - 1) - z = j - 1
          BY <1>1, <3>1, <4>3
        <5>2. f[k - 1] = v \div Base[n - (j - 1)]
          BY <2>1, <5>1
        <5> QED
          BY <3>4, <4>1, <5>2
      <4> QED
        BY <4>2, <4>3
    <3>8. Weight(s[k]) = (v \div b) % 10
      <4>1. s[k] = d[j]
        BY <1>5, <3>1
      <4>2. Weight(d[j]) = (v \div Base[n - j]) % 10
        BY DigitsAre
      <4> QED
        BY <3>3, <4>1, <4>2
    <3>9. v \div b = 10 * ((v \div b) \div 10) + ((v \div b) % 10)
      BY <3>5, DivIs
    <3> QED
      BY <3>5, <3>6, <3>7, <3>8, <3>9
  <2> QED
    BY <2>2, <2>3
<1>8. f[z + n] = v
  <2>1. z + n \in 0..z + n
    BY <1>1
  <2>2. CASE n = 0
    BY <1>1, <2>1, <2>2
  <2>3. CASE n # 0
    <3>1. ~(z + n <= z) /\ n - ((z + n) - z) = 0
      BY <1>1, <2>3
    <3>2. f[z + n] = v \div Base[0]
      BY <2>1, <3>1
    <3> QED
      BY <1>1, <3>2
  <2> QED
    BY <2>2, <2>3
<1> HIDE DEF f
<1>9. NumberOf(s) = f[Len(s)]
  <2> HIDE DEF s
  <2> QED
    BY <1>4, <1>6, <1>7, NumberIs
<1> QED
  BY <1>4, <1>8, <1>9


-----------------------------------------------------------------------------
(* Texts.                                                                  *)

Chars == Numerals \cup {"."}

\* What follows a prefix is what was put after it.
LEMMA PrefixCut ==
    ASSUME NEW S, NEW head \in Seq(S), NEW tail \in Seq(S)
    PROVE  LET text == head \o tail
           IN  /\ text \in Seq(S) /\ Len(text) = Len(head) + Len(tail)
               /\ IsPrefix(head, text)
               /\ SubSeq(text, 1, Len(head)) = head
               /\ SubSeq(text, Len(head) + 1, Len(text)) = tail
<1> DEFINE text == head \o tail
           m == Len(head)
           n == Len(text)
           s == SubSeq(head, 1, m)
           h == SubSeq(text, 1, m)
           t == SubSeq(text, m + 1, n)
<1>1. /\ text \in Seq(S) /\ n = m + Len(tail) /\ m \in Nat /\ Len(tail) \in Nat
      /\ \A i \in 1..m + Len(tail) : text[i] = IF i <= m THEN head[i] ELSE tail[i - m]
  <2>1. /\ text \in Seq(S) /\ n = m + Len(tail)
        /\ \A i \in 1..m + Len(tail) : text[i] = IF i <= m THEN head[i] ELSE tail[i - m]
    BY ConcatProperties, Zenon
  <2>2. m \in Nat /\ Len(tail) \in Nat
    OBVIOUS
  <2> QED
    BY <2>1, <2>2
<1> HIDE DEF text, m, n
<1>2. s = head
  BY SubSeqFull DEF m
<1>3. h = head
  <2>1. 1 \in Int /\ m \in Int /\ m - 1 + 1 = m
    BY <1>1
  <2>2. \A i \in 1..m : i \in 1..n /\ 1 + i - 1 = i
    BY <1>1
  <2>3. \A i \in 1..m : text[i] \in S
    BY <1>1, <2>2 DEF n
  <2>4. /\ h \in Seq(S) /\ Len(h) = IF 1 <= m THEN m - 1 + 1 ELSE 0
        /\ \A i \in 1..m - 1 + 1 : h[i] = text[1 + i - 1]
    BY <2>1, <2>3, SubSeqProperties
  <2> HIDE DEF h
  <2>5. Len(h) = m
    BY <1>1, <2>1, <2>4
  <2>6. \A i \in 1..m : h[i] = head[i]
    <3> SUFFICES ASSUME NEW i \in 1..m PROVE h[i] = head[i]
      OBVIOUS
    <3>1. h[i] = text[i]
      BY <2>1, <2>2, <2>4
    <3>2. i \in 1..m + Len(tail) /\ i <= m
      BY <1>1
    <3> QED
      BY <1>1, <3>1, <3>2
  <2> QED
    BY <2>4, <2>5, <2>6, SeqEqual DEF m
<1>4. t = tail
  <2>1. m + 1 \in Int /\ n \in Int /\ n - (m + 1) + 1 = Len(tail)
    BY <1>1
  <2>2. \A i \in m + 1..n : text[i] \in S
    <3>1. \A i \in m + 1..n : i \in 1..n
      BY <1>1
    <3> QED
      BY <1>1, <3>1 DEF n
  <2>3. /\ t \in Seq(S) /\ Len(t) = IF m + 1 <= n THEN n - (m + 1) + 1 ELSE 0
        /\ \A i \in 1..n - (m + 1) + 1 : t[i] = text[m + 1 + i - 1]
    BY <2>1, <2>2, SubSeqProperties
  <2> HIDE DEF t
  <2>4. Len(t) = Len(tail)
    BY <1>1, <2>1, <2>3
  <2>5. \A i \in 1..Len(tail) : t[i] = tail[i]
    <3> SUFFICES ASSUME NEW i \in 1..Len(tail) PROVE t[i] = tail[i]
      OBVIOUS
    <3>1. m + 1 + i - 1 = m + i /\ m + i \in 1..m + Len(tail) /\ ~(m + i <= m) /\ (m + i) - m = i
      BY <1>1
    <3>2. t[i] = text[m + i]
      BY <2>1, <2>3, <3>1
    <3> QED
      BY <1>1, <3>1, <3>2
  <2> QED
    BY <2>3, <2>4, <2>5, SeqEqual
<1>5. IsPrefix(head, text)
  <2>1. Len(head) <= Len(text)
    BY <1>1 DEF m, n
  <2> QED
    BY <1>2, <1>3, <2>1 DEF IsPrefix, m
<1> QED
  BY <1>1, <1>3, <1>4, <1>5 DEF text, m, n

LEMMA GreatestUpTo ==
    ASSUME NEW n \in Nat, NEW T \in SUBSET (0..n), T # {}
    PROVE  Max(T) \in T /\ \A k \in T : k <= Max(T)
<1> DEFINE U == {n - k : k \in T}
<1>1. U \in SUBSET Nat /\ U # {}
  <2>1. \A k \in T : n - k \in Nat
    OBVIOUS
  <2> QED
    BY <2>1
<1>2. PICK m \in U : \A j \in U : m <= j
  <2> HIDE DEF U
  <2> QED
    BY <1>1, LeastNatural
<1>3. PICK x \in T : m = n - x
  BY <1>2
<1>4. \A k \in T : x >= k
  <2> SUFFICES ASSUME NEW k \in T PROVE x >= k
    OBVIOUS
  <2>1. m <= n - k
    BY <1>2
  <2> QED
    BY <1>3, <2>1
<1>5. Max(T) \in T /\ \A k \in T : Max(T) >= k
  BY <1>4, Zenon DEF Max
<1> QED
  BY <1>5

\* A text of digits, a point and digits.
LEMMA PointText ==
    ASSUME NEW a \in Seq(Numerals), NEW b \in Seq(Numerals), a # << >>, b # << >>,
           NEW scale \in Nat, Len(b) <= scale
    PROVE  LET text == a \o <<".">> \o b
           IN  /\ text \in Seq(Chars) /\ Len(text) = Len(a) + 1 + Len(b)
               /\ IsDecimal(text)
               /\ Read(text, scale) = NumberOf(a \o b \o Zeros(scale - Len(b)))
               /\ Head(text) = a[1] /\ Last(text) = b[Len(b)] /\ text[Len(a) + 1] = "."
<1> DEFINE la == Len(a)
           lb == Len(b)
           point == <<".">>
           text == a \o point \o b
           points == {k \in DOMAIN text : text[k] = "."}
<1>1. la \in Nat \ {0} /\ lb \in Nat \ {0}
  BY EmptySeq
<1>2. a \in Seq(Chars) /\ b \in Seq(Chars) /\ point \in Seq(Chars) /\ Len(point) = 1 /\ point[1] = "."
  <2>1. "." \in Chars
    BY DEF Chars
  <2> QED
    BY <2>1 DEF Chars
<1>3. /\ text \in Seq(Chars) /\ Len(text) = la + 1 + lb
      /\ \A k \in 1..la : text[k] = a[k]
      /\ text[la + 1] = "."
      /\ \A k \in 1..lb : text[la + 1 + k] = b[k]
  <2> DEFINE head == a \o point
  <2> HIDE DEF point
  <2>1. /\ head \in Seq(Chars) /\ Len(head) = la + 1
        /\ \A i \in 1..la + 1 : head[i] = IF i <= la THEN a[i] ELSE point[i - la]
    <3>1. /\ a \o point \in Seq(Chars) /\ Len(a \o point) = Len(a) + Len(point)
          /\ \A i \in 1..Len(a) + Len(point) :
                 (a \o point)[i] = IF i <= Len(a) THEN a[i] ELSE point[i - Len(a)]
      BY <1>2, ConcatProperties, Zenon
    <3> QED
      BY <1>2, <3>1
  <2>2. text = head \o b
    OBVIOUS
  <2> HIDE DEF head
  <2>3. /\ text \in Seq(Chars) /\ Len(text) = (la + 1) + lb
        /\ \A i \in 1..(la + 1) + lb : text[i] = IF i <= la + 1 THEN head[i] ELSE b[i - (la + 1)]
    <3>1. /\ head \o b \in Seq(Chars) /\ Len(head \o b) = Len(head) + Len(b)
          /\ \A i \in 1..Len(head) + Len(b) :
                 (head \o b)[i] = IF i <= Len(head) THEN head[i] ELSE b[i - Len(head)]
      <4>1. head \in Seq(Chars) /\ b \in Seq(Chars)
        BY <1>2, <2>1
      <4> QED
        BY <4>1, ConcatProperties, Zenon
    <3> QED
      BY <2>1, <2>2, <3>1
  <2> HIDE DEF text
  <2>4. \A k \in 1..la : text[k] = a[k]
    BY <1>1, <2>1, <2>3
  <2>5. text[la + 1] = "."
    <3>1. la + 1 \in 1..la + 1 /\ la + 1 \in 1..(la + 1) + lb /\ ~(la + 1 <= la) /\ (la + 1) - la = 1
      BY <1>1
    <3> QED
      BY <1>2, <2>1, <2>3, <3>1
  <2>6. ASSUME NEW k \in 1..lb PROVE text[la + 1 + k] = b[k]
    <3>1. la + 1 + k \in 1..(la + 1) + lb /\ ~(la + 1 + k <= la + 1) /\ (la + 1 + k) - (la + 1) = k
      BY <1>1
    <3> QED
      BY <2>3, <3>1
  <2> QED
    BY <2>3, <2>4, <2>5, <2>6
<1> HIDE DEF text
<1>4. points = {la + 1} /\ DOMAIN text = 1..la + 1 + lb
  <2>1. DOMAIN text = 1..la + 1 + lb
    BY <1>1, <1>3
  <2>2. ASSUME NEW k \in 1..la + 1 + lb, text[k] = "." PROVE k = la + 1
    <3>1. CASE k <= la
      <4>1. k \in 1..la
        BY <1>1, <3>1
      <4>2. a[k] \in Numerals
        BY <4>1
      <4> QED
        BY <1>3, <2>2, <4>1, <4>2, NumeralsAre
    <3>2. CASE k > la + 1
      <4>1. PICK j \in 1..lb : k = la + 1 + j
        <5>1. k - (la + 1) \in 1..lb /\ k = la + 1 + (k - (la + 1))
          BY <1>1, <3>2
        <5> QED
          BY <5>1
      <4>2. b[j] \in Numerals
        OBVIOUS
      <4> QED
        BY <1>3, <2>2, <4>1, <4>2, NumeralsAre
    <3> QED
      BY <1>1, <3>1, <3>2
  <2>3. la + 1 \in 1..la + 1 + lb
    BY <1>1
  <2> QED
    BY <1>3, <2>1, <2>2, <2>3
<1>5. Head(text) = a[1] /\ Last(text) = b[lb]
  <2>1. Head(text) = text[1]
    BY <1>1, <1>3
  <2>2. 1 \in 1..la /\ lb \in 1..lb
    BY <1>1
  <2>3. Last(text) = text[la + 1 + lb]
    BY <1>3 DEF Last
  <2> QED
    BY <1>3, <2>1, <2>2, <2>3
<1>6. IsDecimal(text)
  <2>1. text # << >>
    BY <1>1, <1>3
  <2>2. a[1] \in Numerals /\ b[lb] \in Numerals
    BY <1>1
  <2>3. \A k \in DOMAIN text : text[k] \in Numerals \cup {"."}
    BY <1>3 DEF Chars
  <2>4. Cardinality(points) = 1
    BY <1>4, FS_Singleton
  <2> QED
    BY <1>5, <2>1, <2>2, <2>3, <2>4 DEF IsDecimal
<1>7. Read(text, scale) = NumberOf(a \o b \o Zeros(scale - lb))
  <2>1. Min(points \cup {Len(text) + 1}) = la + 1
    <3>1. \A x : (x \in {la + 1} \cup {la + 1 + lb + 1} /\ \A y \in {la + 1} \cup {la + 1 + lb + 1} : x <= y)
                 <=> x = la + 1
      BY <1>1
    <3> QED
      BY <1>3, <1>4, <3>1 DEF Min
  <2>2. SubSeq(text, 1, (la + 1) - 1) = a
    <3>1. \A i \in 1..la : text[i] \in Numerals
      BY <1>3
    <3> DEFINE sub == SubSeq(text, 1, la)
    <3>2. sub \in Seq(Numerals) /\ Len(sub) = la /\ \A i \in 1..la - 1 + 1 : sub[i] = text[1 + i - 1]
      <4>1. 1 \in Int /\ la \in Int /\ la - 1 + 1 = la /\ 1 <= la
        BY <1>1
      <4> QED
        BY <3>1, <4>1, SubSeqProperties
    <3> HIDE DEF sub
    <3>3. \A i \in 1..la : sub[i] = a[i]
      BY <1>1, <1>3, <3>2
    <3>4. sub = a
      BY <3>2, <3>3, SeqEqual
    <3>5. (la + 1) - 1 = la
      BY <1>1
    <3> QED
      BY <3>4, <3>5 DEF sub
  <2>3. SubSeq(text, (la + 1) + 1, Len(text)) = b
    <3> DEFINE m == (la + 1) + 1
               n == Len(text)
               sub == SubSeq(text, m, n)
    <3>1. \A i \in m..n : text[i] \in Numerals
      <4> SUFFICES ASSUME NEW i \in m..n PROVE text[i] \in Numerals
        OBVIOUS
      <4>1. i - (la + 1) \in 1..lb /\ i = la + 1 + (i - (la + 1))
        BY <1>1, <1>3
      <4>2. text[i] = b[i - (la + 1)]
        BY <1>3, <4>1
      <4> QED
        BY <4>1, <4>2
    <3>2. m \in Int /\ n \in Int /\ n - m + 1 = lb /\ m <= n
      BY <1>1, <1>3
    <3>3. sub \in Seq(Numerals) /\ Len(sub) = lb /\ \A i \in 1..lb : sub[i] = text[m + i - 1]
      <4> HIDE DEF m, n
      <4> QED
        BY <3>1, <3>2, SubSeqProperties
    <3> HIDE DEF sub
    <3>4. \A i \in 1..lb : sub[i] = b[i]
      <4> SUFFICES ASSUME NEW i \in 1..lb PROVE sub[i] = b[i]
        OBVIOUS
      <4>1. m + i - 1 = la + 1 + i
        BY <1>1
      <4> QED
        BY <1>3, <3>3, <4>1
    <3>5. sub = b
      BY <3>3, <3>4, SeqEqual
    <3> QED
      BY <3>5 DEF sub
  <2> HIDE DEF la, lb
  <2> QED
    BY <2>1, <2>2, <2>3 DEF Read, lb
<1> QED
  BY <1>3, <1>5, <1>6, <1>7 DEF text

\* A text of digits only.
LEMMA PlainText ==
    ASSUME NEW a \in Seq(Numerals), a # << >>, NEW scale \in Nat
    PROVE  /\ IsDecimal(a)
           /\ Read(a, scale) = NumberOf(a \o Zeros(scale))
           /\ Head(a) = a[1] /\ "." \notin Range(a)
<1> DEFINE n == Len(a)
           points == {k \in DOMAIN a : a[k] = "."}
<1>1. n \in Nat \ {0} /\ DOMAIN a = 1..n
  BY EmptySeq
<1>2. \A k \in 1..n : a[k] \in Numerals /\ a[k] # "."
  BY NumeralsAre
<1>3. points = {}
  BY <1>1, <1>2
<1>4. Head(a) = a[1] /\ "." \notin Range(a)
  BY <1>1, <1>2 DEF Range
<1>5. IsDecimal(a)
  <2>1. Last(a) = a[n]
    BY DEF Last
  <2>2. a[1] \in Numerals /\ a[n] \in Numerals
    BY <1>1
  <2>3. Cardinality(points) = 0
    BY <1>3, FS_EmptySet
  <2> QED
    BY <1>1, <1>2, <1>4, <2>1, <2>2, <2>3 DEF IsDecimal
<1>6. Read(a, scale) = NumberOf(a \o Zeros(scale))
  <2>1. Min(points \cup {n + 1}) = n + 1
    <3>1. \A x : (x \in {n + 1} /\ \A y \in {n + 1} : x <= y) <=> x = n + 1
      BY <1>1
    <3> QED
      BY <1>3, <3>1 DEF Min
  <2>2. SubSeq(a, 1, (n + 1) - 1) = a
    <3>1. (n + 1) - 1 = n
      BY <1>1
    <3> QED
      BY <3>1, SubSeqFull
  <2>3. SubSeq(a, (n + 1) + 1, n) = << >>
    BY <1>1, SubSeqEmpty
  <2>4. Len(<< >>) = 0 /\ scale - 0 = scale /\ a \o << >> = a
    BY ConcatEmptySeq
  <2> QED
    BY <2>1, <2>2, <2>3, <2>4 DEF Read
<1> QED
  BY <1>4, <1>5, <1>6


-----------------------------------------------------------------------------
(* Amounts of XRP.                                                         *)

LEMMA LeadingDigit ==
    ASSUME NEW v \in Nat, NumDigits(v) \in 1..MaxDigits
    PROVE  Digits(v)[1] # "0"
<1> DEFINE n == NumDigits(v)
<1>1. /\ MaxDigits \in Nat /\ n \in 1..MaxDigits /\ v < Base[n] /\ Base[n - 1] <= v
      /\ n - 1 \in 0..MaxDigits
  <2>1. MaxDigits \in Nat /\ n \in 1..MaxDigits
    BY PrintAssumption
  <2>2. v < Base[n] /\ Base[n - 1] <= v
    BY <2>1, NumDigitsIs
  <2> QED
    BY <2>1, <2>2
<1>2. Digits(v) = DigitsOf(v, n)
  BY DEF Digits
<1> HIDE DEF n
<1>3. PICK b \in Nat \ {0} : b = Base[n - 1]
  BY <1>1, BaseIs
<1>4. v < 10 * b
  BY <1>1, <1>3, BaseIs
<1>5. v \div b \in 1..9
  <2>1. v \div b \in Nat /\ v % b \in 0..b - 1 /\ v = b * (v \div b) + (v % b)
    BY DivIs
  <2>2. PICK q \in Nat, r \in 0..b - 1 : q = v \div b /\ v = b * q + r
    BY <2>1
  <2>3. q # 0
    BY <1>1, <1>3, <2>2
  <2>4. q < 10
    <3> SUFFICES ASSUME q >= 10 PROVE FALSE
      BY <2>2
    <3>1. b * q >= b * 10
      OBVIOUS
    <3>2. b * q \in Nat
      OBVIOUS
    <3> QED
      BY <1>4, <2>2, <3>1, <3>2
  <2> QED
    BY <2>2, <2>3, <2>4
<1>6. (v \div b) % 10 # 0
  BY <1>5
<1>7. 1 \in 1..n /\ n \in 0..MaxDigits
  BY <1>1
<1>8. DigitsOf(v, n)[1] = "0" <=> (v \div Base[n - 1]) % 10 = 0
  BY <1>7, DigitsAre
<1> QED
  BY <1>2, <1>3, <1>6, <1>8

\* What WithoutZeros keeps of the digits after the point.
Kept(tail) == Max({k \in DOMAIN tail : tail[k] # "0"} \cup {0})

LEMMA KeptIs ==
    ASSUME NEW tail \in Seq(Numerals)
    PROVE  LET kept == Kept(tail)
           IN  /\ kept \in 0..Len(tail)
               /\ kept # 0 => tail[kept] # "0"
               /\ \A k \in 1..Len(tail) : tail[k] # "0" => k <= kept
               /\ SubSeq(tail, 1, kept) \in Seq(Numerals) /\ Len(SubSeq(tail, 1, kept)) = kept
               /\ \A k \in 1..kept : SubSeq(tail, 1, kept)[k] = tail[k]
               /\ SubSeq(tail, 1, kept) \o Zeros(Len(tail) - kept) = tail
<1> DEFINE n == Len(tail)
           T == {k \in DOMAIN tail : tail[k] # "0"} \cup {0}
           kept == Kept(tail)
<1>1. n \in Nat /\ DOMAIN tail = 1..n
  OBVIOUS
<1>2. T \in SUBSET (0..n) /\ T # {}
  BY <1>1
<1>3. kept = Max(T)
  BY DEF Kept
<1>4. kept \in T /\ \A k \in T : k <= kept
  <2> HIDE DEF T
  <2> QED
    BY <1>1, <1>2, <1>3, GreatestUpTo
<1> HIDE DEF kept
<1>5. kept \in 0..n /\ (kept # 0 => tail[kept] # "0")
  BY <1>2, <1>4
<1>6. \A k \in 1..n : tail[k] # "0" => k <= kept
  BY <1>1, <1>4
<1> HIDE DEF T
<1> DEFINE sub == SubSeq(tail, 1, kept)
           zeros == Zeros(n - kept)
<1>7. sub \in Seq(Numerals) /\ Len(sub) = kept /\ \A k \in 1..kept : sub[k] = tail[k]
  <2>1. \A i \in 1..kept : tail[i] \in Numerals
    BY <1>1, <1>5
  <2>2. 1 \in Int /\ kept \in Int /\ kept - 1 + 1 = kept /\ kept >= 0
    BY <1>1, <1>5
  <2>3. /\ sub \in Seq(Numerals) /\ Len(sub) = IF 1 <= kept THEN kept - 1 + 1 ELSE 0
        /\ \A i \in 1..kept - 1 + 1 : sub[i] = tail[1 + i - 1]
    BY <2>1, <2>2, SubSeqProperties
  <2>4. \A i \in 1..kept : 1 + i - 1 = i
    OBVIOUS
  <2> HIDE DEF sub
  <2> QED
    BY <2>2, <2>3, <2>4
<1>8. n - kept \in Nat
  BY <1>1, <1>5
<1>9. zeros \in Seq(Numerals) /\ Len(zeros) = n - kept /\ \A k \in 1..n - kept : zeros[k] = "0"
  BY <1>8, ZerosAre
<1>10. sub \o zeros = tail
  <2> HIDE DEF sub, zeros
  <2>1. /\ sub \o zeros \in Seq(Numerals) /\ Len(sub \o zeros) = Len(sub) + Len(zeros)
        /\ \A i \in 1..Len(sub) + Len(zeros) :
               (sub \o zeros)[i] = IF i <= Len(sub) THEN sub[i] ELSE zeros[i - Len(sub)]
    <3>1. sub \in Seq(Numerals) /\ zeros \in Seq(Numerals)
      BY <1>7, <1>9
    <3> QED
      BY <3>1, ConcatProperties, Zenon
  <2>2. Len(sub \o zeros) = n
    BY <1>1, <1>5, <1>7, <1>9, <2>1
  <2>3. ASSUME NEW i \in 1..n PROVE (sub \o zeros)[i] = tail[i]
    <3>1. i \in 1..Len(sub) + Len(zeros)
      BY <1>1, <1>5, <1>7, <1>9
    <3>2. CASE i <= kept
      <4>1. i \in 1..kept
        BY <1>5, <3>2
      <4> QED
        BY <1>7, <2>1, <3>1, <3>2, <4>1
    <3>3. CASE ~(i <= kept)
      <4>1. i - kept \in 1..n - kept
        BY <1>1, <1>5, <3>3
      <4>2. (sub \o zeros)[i] = zeros[i - kept]
        BY <1>7, <2>1, <3>1, <3>3
      <4> QED
        BY <1>6, <1>9, <3>3, <4>1, <4>2
    <3> QED
      BY <3>2, <3>3
  <2> QED
    BY <2>1, <2>2, <2>3, SeqEqual
<1> QED
  BY <1>5, <1>6, <1>7, <1>10 DEF kept

LEMMA ZerosAdd ==
    ASSUME NEW z \in Nat
    PROVE  <<"0">> \o Zeros(z) = Zeros(1 + z) /\ Zeros(0) = << >>
<1>1. Zeros(0) = << >>
  BY ZerosAre, EmptySeq
<1> DEFINE one == <<"0">>
           zeros == Zeros(z)
           more == Zeros(1 + z)
<1>2. one \in Seq(Numerals) /\ Len(one) = 1 /\ one[1] = "0"
  BY NumeralsAre
<1>3. zeros \in Seq(Numerals) /\ Len(zeros) = z /\ \A k \in 1..z : zeros[k] = "0"
  BY ZerosAre
<1>4. more \in Seq(Numerals) /\ Len(more) = 1 + z /\ \A k \in 1..1 + z : more[k] = "0"
  <2>1. 1 + z \in Nat
    OBVIOUS
  <2> QED
    BY <2>1, ZerosAre
<1> HIDE DEF one, zeros, more
<1>5. one \o zeros \in Seq(Numerals) /\ Len(one \o zeros) = 1 + z
  <2>1. one \in Seq(Numerals) /\ zeros \in Seq(Numerals) /\ Len(one) + Len(zeros) = 1 + z
    BY <1>2, <1>3
  <2> QED
    BY <2>1, ConcatProperties
<1>6. \A i \in 1..1 + z : (one \o zeros)[i] = "0"
  <2>1. /\ \A i \in 1..Len(one) + Len(zeros) :
               (one \o zeros)[i] = IF i <= Len(one) THEN one[i] ELSE zeros[i - Len(one)]
    <3>1. one \in Seq(Numerals) /\ zeros \in Seq(Numerals)
      BY <1>2, <1>3
    <3> QED
      BY <3>1, ConcatProperties, Zenon
  <2> SUFFICES ASSUME NEW i \in 1..1 + z PROVE (one \o zeros)[i] = "0"
    OBVIOUS
  <2>2. CASE i = 1
    BY <1>2, <1>3, <2>1, <2>2
  <2>3. CASE i # 1
    <3>1. i - 1 \in 1..z /\ ~(i <= 1)
      BY <2>3
    <3>2. (one \o zeros)[i] = zeros[i - 1]
      BY <1>2, <1>3, <2>1, <3>1
    <3> QED
      BY <1>3, <3>1, <3>2
  <2> QED
    BY <2>2, <2>3
<1>7. one \o zeros = more
  <2>1. Len(one \o zeros) = Len(more) /\ \A i \in 1..Len(one \o zeros) : (one \o zeros)[i] = more[i]
    BY <1>4, <1>5, <1>6
  <2> QED
    BY <1>4, <1>5, <2>1, SeqEqual
<1> QED
  BY <1>1, <1>7 DEF one, zeros, more


\* Zeros before digits do not count, and zeros after them count as powers of ten.
LEMMA ZerosNumber ==
    ASSUME NEW z \in Nat, NEW s \in Seq(Numerals)
    PROVE  /\ Zeros(z) \o s \in Seq(Numerals) /\ NumberOf(Zeros(z) \o s) = NumberOf(s)
           /\ s \o Zeros(z) \in Seq(Numerals) /\ NumberOf(s \o Zeros(z)) = NumberOf(s) * Ten[z]
<1> DEFINE zeros == Zeros(z)
           f == [k \in 0..z |-> 0]
<1>1. zeros \in Seq(Numerals) /\ Len(zeros) = z /\ \A k \in 1..z : zeros[k] = "0"
  BY ZerosAre
<1> HIDE DEF zeros
<1>2. NumberOf(zeros) = 0
  <2>1. f[0] = 0 /\ f[z] = 0 /\ \A k \in 1..z : f[k] = 0 /\ f[k - 1] = 0
    OBVIOUS
  <2> HIDE DEF f
  <2>2. \A k \in 1..Len(zeros) : f[k] \in Nat /\ f[k] = 10 * f[k - 1] + Weight(zeros[k])
    BY <1>1, <2>1, NumeralsAre
  <2>3. NumberOf(zeros) = f[Len(zeros)]
    BY <1>1, <2>1, <2>2, NumberIs
  <2> QED
    BY <1>1, <2>1, <2>3
<1>3. /\ zeros \o s \in Seq(Numerals) /\ s \o zeros \in Seq(Numerals)
      /\ NumberOf(zeros \o s) = NumberOf(zeros) * Ten[Len(s)] + NumberOf(s)
      /\ NumberOf(s \o zeros) = NumberOf(s) * Ten[z] + NumberOf(zeros)
      /\ NumberOf(s) \in Nat
  BY <1>1, NumberConcat
<1>4. Ten[Len(s)] \in Nat /\ Ten[z] \in Nat
  <2>1. Len(s) \in Nat
    OBVIOUS
  <2> QED
    BY <2>1, TenIs
<1>5. NumberOf(s) * Ten[z] \in Nat
  BY <1>3, <1>4
<1> QED
  BY <1>2, <1>3, <1>4, <1>5 DEF zeros

\* The digits of a number add up to it and begin with none that is 0.
LEMMA DigitsNumber ==
    ASSUME NEW v \in Nat, NumDigits(v) <= MaxDigits
    PROVE  /\ NumDigits(v) \in 0..MaxDigits
           /\ Digits(v) \in Seq(Numerals) /\ Len(Digits(v)) = NumDigits(v)
           /\ NumberOf(Digits(v)) = v
           /\ v # 0 => NumDigits(v) # 0 /\ Digits(v) # << >> /\ Digits(v)[1] # "0"
<1> DEFINE n == NumDigits(v)
           d == DigitsOf(v, n)
<1>1. MaxDigits \in Nat /\ n \in 0..MaxDigits + 1
  BY PrintAssumption, NumDigitsIs
<1>2. n \in 0..MaxDigits /\ v < Base[n]
  <2>1. n \in 0..MaxDigits
    BY <1>1
  <2> QED
    BY <2>1, NumDigitsIs
<1>3. Digits(v) = d
  BY DEF Digits
<1>4. n # 0 => d[1] # "0"
  <2>1. n # 0 => n \in 1..MaxDigits
    BY <1>1, <1>2
  <2> QED
    BY <1>3, <2>1, LeadingDigit
<1> HIDE DEF n
<1>5. d \in Seq(Numerals) /\ Len(d) = n
  BY <1>2, DigitsAre
<1>6. NumberOf(d) = v
  <2>1. NumberOf(Zeros(0) \o d) = v
    BY <1>2, DigitsReadBack
  <2> HIDE DEF d
  <2>2. 0 \in Nat
    OBVIOUS
  <2>3. NumberOf(Zeros(0) \o d) = NumberOf(d)
    BY <1>5, <2>2, ZerosNumber
  <2> QED
    BY <2>1, <2>3
<1>7. v # 0 => n # 0
  <2>1. Base[0] = 1
    BY BaseIs
  <2> QED
    BY <1>2, <2>1
<1> HIDE DEF d
<1>8. n # 0 => d # << >>
  BY <1>1, <1>2, <1>5, EmptySeq
<1> QED
  BY <1>2, <1>3, <1>4, <1>5, <1>6, <1>7, <1>8 DEF n

\* Fewer digits than decimals: zeros come between the point and the digits.
LEMMA SmallSays ==
    ASSUME NEW v \in Nat, NumDigits(v) <= Decimals
    PROVE  /\ adjust_decimals(Digits(v)) \in Seq(Chars)
           /\ SaysScaled(adjust_decimals(Digits(v)), v, Decimals)
<1> DEFINE n == NumDigits(v)
           src == Digits(v)
           kept == Kept(src)
           sub == SubSeq(src, 1, kept)
           rest == Zeros(n - kept)
           pad == Zeros(Decimals - n)
           zero == <<"0">>
           point == <<".">>
           b == pad \o sub
           text == zero \o point \o b
<1>1. /\ MaxDigits \in Nat /\ Decimals \in 1..MaxDigits /\ n \in 0..MaxDigits /\ n \in Nat
      /\ v < Base[n] /\ n <= Decimals
  <2>1. MaxDigits \in Nat /\ Decimals \in 1..MaxDigits
    BY PrintAssumption
  <2>2. n \in 0..MaxDigits + 1
    BY NumDigitsIs
  <2>3. n \in 0..MaxDigits /\ n \in Nat
    BY <2>1, <2>2
  <2>4. v < Base[n]
    BY <2>3, NumDigitsIs
  <2> QED
    BY <2>1, <2>3, <2>4
<1>2. src = DigitsOf(v, n)
  BY DEF Digits
<1> HIDE DEF n
<1>3. src \in Seq(Numerals) /\ Len(src) = n /\ DOMAIN src = 1..n
  <2>1. DigitsOf(v, n) \in Seq(Numerals) /\ Len(DigitsOf(v, n)) = n
    BY <1>1, DigitsAre
  <2> QED
    BY <1>2, <2>1
<1>4. n # 0 => src[1] # "0"
  BY <1>1, LeadingDigit DEF n
<1>5. v # 0 => n # 0
  BY <1>1, BaseIs
<1>6. /\ kept \in 0..n
      /\ kept # 0 => src[kept] # "0"
      /\ n # 0 => kept # 0
      /\ sub \in Seq(Numerals) /\ Len(sub) = kept
      /\ \A k \in 1..kept : sub[k] = src[k]
      /\ sub \o rest = src
  <2> HIDE DEF src
  <2>1. /\ kept \in 0..Len(src)
        /\ kept # 0 => src[kept] # "0"
        /\ \A k \in 1..Len(src) : src[k] # "0" => k <= kept
        /\ sub \in Seq(Numerals) /\ Len(sub) = kept
        /\ \A k \in 1..kept : sub[k] = src[k]
        /\ sub \o Zeros(Len(src) - kept) = src
    BY <1>3, KeptIs
  <2> HIDE DEF kept, sub
  <2>2. n # 0 => kept # 0
    BY <1>1, <1>3, <1>4, <2>1
  <2> QED
    BY <1>3, <2>1, <2>2
<1>7. /\ pad \in Seq(Numerals) /\ Len(pad) = Decimals - n
      /\ rest \in Seq(Numerals) /\ Len(rest) = n - kept
      /\ zero \in Seq(Numerals) /\ zero # << >> /\ Len(zero) = 1 /\ zero[1] = "0"
      /\ Decimals - n \in Nat /\ n - kept \in Nat
  <2>1. Decimals - n \in Nat /\ n - kept \in Nat
    BY <1>1, <1>6
  <2>2. zero \in Seq(Numerals) /\ zero # << >> /\ Len(zero) = 1 /\ zero[1] = "0"
    BY NumeralsAre
  <2> HIDE DEF kept
  <2> QED
    BY <2>1, <2>2, ZerosAre
<1> HIDE DEF kept, sub, pad, rest
<1>8. /\ b \in Seq(Numerals) /\ Len(b) = Decimals - n + kept /\ b # << >>
      /\ kept # 0 => b[Len(b)] = src[kept]
      /\ Decimals - Len(b) = n - kept
  <2>1. /\ b \in Seq(Numerals) /\ Len(b) = Len(pad) + Len(sub)
        /\ \A i \in 1..Len(pad) + Len(sub) : b[i] = IF i <= Len(pad) THEN pad[i] ELSE sub[i - Len(pad)]
    <3>1. pad \in Seq(Numerals) /\ sub \in Seq(Numerals)
      BY <1>6, <1>7
    <3> QED
      BY <3>1, ConcatProperties, Zenon
  <2> HIDE DEF b
  <2>2. Len(b) = Decimals - n + kept /\ Decimals - Len(b) = n - kept
    BY <1>1, <1>6, <1>7, <2>1
  <2>3. Len(b) # 0
    BY <1>1, <1>6, <2>2
  <2>4. b # << >>
    BY <2>3, EmptySeq
  <2>5. kept # 0 => b[Len(b)] = src[kept]
    <3> SUFFICES ASSUME kept # 0 PROVE b[Len(b)] = src[kept]
      OBVIOUS
    <3>1. Len(b) \in 1..Len(pad) + Len(sub) /\ ~(Len(b) <= Len(pad)) /\ Len(b) - Len(pad) = kept
      BY <1>1, <1>6, <1>7, <2>1, <2>2
    <3>2. kept \in 1..kept
      BY <1>6
    <3> QED
      BY <1>6, <2>1, <3>1, <3>2
  <2> QED
    BY <2>1, <2>2, <2>4, <2>5
<1>9. adjust_decimals(src) = text
  <2>1. src # <<"0">>
    <3> SUFFICES ASSUME src = <<"0">> PROVE FALSE
      OBVIOUS
    <3>1. Len(src) = 1 /\ src[1] = "0"
      BY Zenon, <1>7
    <3> QED
      BY <1>3, <1>4, <3>1
  <2>2. ~(kept = 0 /\ src # << >>)
    <3> SUFFICES ASSUME kept = 0 PROVE src = << >>
      OBVIOUS
    <3>1. n = 0
      BY <1>6
    <3> QED
      BY <1>3, <3>1, EmptySeq
  <2> DEFINE head == <<"0", ".">> \o pad
  <2>3. adjust_decimals(src) = WithoutZeros(head, src)
    BY <1>1, <1>3, <2>1 DEF adjust_decimals, Padding, pad
  <2>4. WithoutZeros(head, src) = head \o sub
    <3> HIDE DEF head, src
    <3> QED
      BY <2>2 DEF WithoutZeros, kept, sub, Kept
  <2>5. <<"0", ".">> = zero \o point
    OBVIOUS
  <2>6. (zero \o point) \in Seq(Chars) /\ pad \in Seq(Chars) /\ sub \in Seq(Chars)
    <3>1. "0" \in Chars /\ "." \in Chars
      BY NumeralsAre DEF Chars
    <3>2. pad \in Seq(Chars) /\ sub \in Seq(Chars)
      BY <1>6, <1>7 DEF Chars
    <3> QED
      BY <3>1, <3>2
  <2>7. ((zero \o point) \o pad) \o sub = (zero \o point) \o (pad \o sub)
    <3> DEFINE zp == zero \o point
    <3> HIDE DEF zp
    <3>1. (zp \o pad) \o sub = zp \o (pad \o sub)
      BY <2>6, ConcatAssociative DEF zp
    <3> QED
      BY <3>1 DEF zp
  <2> QED
    BY <2>3, <2>4, <2>5, <2>7
<1>10. /\ IsDecimal(text) /\ text \in Seq(Chars)
       /\ Read(text, Decimals) = NumberOf(zero \o b \o rest)
       /\ Head(text) = "0" /\ Last(text) = b[Len(b)] /\ text[2] = "."
  <2> HIDE DEF zero, b
  <2>1. Decimals \in Nat /\ Len(b) <= Decimals /\ Len(zero) + 1 = 2
    BY <1>1, <1>6, <1>7, <1>8
  <2>2. zero \in Seq(Numerals) /\ b \in Seq(Numerals) /\ zero # << >> /\ b # << >>
    BY <1>7, <1>8
  <2>3. /\ IsDecimal(text) /\ text \in Seq(Chars)
        /\ Read(text, Decimals) = NumberOf(zero \o b \o Zeros(Decimals - Len(b)))
        /\ Head(text) = zero[1] /\ Last(text) = b[Len(b)] /\ text[Len(zero) + 1] = "."
    BY <2>1, <2>2, PointText
  <2>4. Zeros(Decimals - Len(b)) = rest
    BY <1>8 DEF rest
  <2> HIDE DEF text
  <2> QED
    BY <1>7, <2>1, <2>3, <2>4
<1>11. NumberOf(zero \o b \o rest) = v
  <2> HIDE DEF zero
  <2>1. zero \in Seq(Numerals) /\ pad \in Seq(Numerals) /\ sub \in Seq(Numerals) /\ rest \in Seq(Numerals)
    BY <1>6, <1>7
  <2>2. zero \o (pad \o sub) = (zero \o pad) \o sub
    BY <2>1, ConcatAssociative
  <2>3. zero \o pad \in Seq(Numerals)
    BY <2>1
  <2>4. ((zero \o pad) \o sub) \o rest = (zero \o pad) \o (sub \o rest)
    BY <2>1, <2>3, ConcatAssociative
  <2>5. zero \o pad = Zeros(1 + (Decimals - n))
    BY <1>7, ZerosAdd DEF zero, pad
  <2>6. zero \o b \o rest = Zeros(1 + (Decimals - n)) \o DigitsOf(v, n)
    BY <1>2, <1>6, <2>2, <2>4, <2>5
  <2>7. 1 + (Decimals - n) \in Nat
    BY <1>7
  <2> QED
    BY <1>1, <2>6, <2>7, DigitsReadBack
<1> HIDE DEF text, b
<1>12. v # 0 => Last(text) # "0"
  BY <1>5, <1>6, <1>8, <1>10
<1> QED
  BY <1>9, <1>10, <1>11, <1>12 DEF SaysScaled


\* The digits before the point, and after it those that WithoutZeros keeps.
CutText(a, tail) ==
    IF Kept(tail) = 0 THEN a ELSE a \o <<".">> \o SubSeq(tail, 1, Kept(tail))

\* Cut short it says what all its digits say.
LEMMA CutSays ==
    ASSUME NEW a \in Seq(Numerals), a # << >>, NEW tail \in Seq(Numerals), tail # << >>
    PROVE  LET text == CutText(a, tail)
           IN  /\ WithoutZeros(a \o <<".">>, tail) = text
               /\ text \in Seq(Chars) /\ text # << >>
               /\ IsDecimal(text) /\ Read(text, Len(tail)) = NumberOf(a \o tail)
               /\ Head(text) = a[1]
               /\ "." \in Range(text) => Last(text) # "0"
               /\ Kept(tail) # 0 => text[Len(a) + 1] = "."
<1> DEFINE n == Len(tail)
           kept == Kept(tail)
           b == SubSeq(tail, 1, kept)
           rest == Zeros(n - kept)
           point == <<".">>
           head == a \o point
           text == CutText(a, tail)
<1>1. n \in Nat \ {0}
  BY EmptySeq
<1>2. /\ kept \in 0..n
      /\ kept # 0 => tail[kept] # "0"
      /\ b \in Seq(Numerals) /\ Len(b) = kept
      /\ \A k \in 1..kept : b[k] = tail[k]
      /\ b \o rest = tail
  BY KeptIs
<1>3. n - kept \in Nat /\ rest \in Seq(Numerals)
  <2> HIDE DEF kept, n
  <2>1. n - kept \in Nat
    BY <1>1, <1>2
  <2> QED
    BY <2>1, ZerosAre
<1>4. a \in Seq(Chars) /\ head \in Seq(Chars) /\ Last(head) = "." /\ Front(head) = a
  <2> DEFINE m == Len(a)
  <2>1. m \in Nat
    OBVIOUS
  <2>2. a \in Seq(Chars) /\ head = Append(a, ".")
    <3>1. a \in Seq(Chars)
      BY DEF Chars
    <3> QED
      BY <3>1
  <2>3. "." \in Chars
    BY DEF Chars
  <2>4. head \in Seq(Chars) /\ Len(head) = m + 1 /\ head[m + 1] = "."
    BY <2>1, <2>2, <2>3
  <2>5. Last(head) = "."
    BY <2>4 DEF Last
  <2>6. Front(head) = a
    <3>1. (m + 1) - 1 = m /\ point \in Seq(Chars)
      BY <2>1, <2>3
    <3>2. SubSeq(head, 1, m) = a
      BY <2>2, <3>1, PrefixCut
    <3> QED
      BY <2>4, <3>1, <3>2 DEF Front
  <2> QED
    BY <2>2, <2>4, <2>5, <2>6
<1>5. CASE kept = 0
  <2>1. text = a /\ WithoutZeros(head, tail) = a
    <3> HIDE DEF head
    <3> QED
      BY <1>4, <1>5 DEF WithoutZeros, CutText, Kept
  <2>2. rest = tail /\ rest = Zeros(n)
    <3>1. n - kept = n /\ b = << >>
      BY <1>1, <1>2, <1>5, EmptySeq
    <3> HIDE DEF b, kept
    <3>2. rest = tail
      BY <1>2, <1>3, <3>1, ConcatEmptySeq
    <3> QED
      BY <3>1, <3>2
  <2>3. /\ IsDecimal(a) /\ Read(a, n) = NumberOf(a \o Zeros(n))
        /\ Head(a) = a[1] /\ "." \notin Range(a)
    BY <1>1, PlainText
  <2> QED
    BY <1>4, <1>5, <2>1, <2>2, <2>3
<1>6. CASE kept # 0
  <2>1. text = a \o point \o b /\ WithoutZeros(head, tail) = text
    BY <1>6 DEF WithoutZeros, CutText, Kept
  <2>2. b # << >> /\ Len(b) <= n /\ b[Len(b)] # "0"
    <3> HIDE DEF kept, b, n
    <3>1. kept \in 1..kept
      BY <1>1, <1>2, <1>6
    <3> QED
      BY <1>1, <1>2, <1>6, <3>1, EmptySeq
  <2>3. /\ IsDecimal(text) /\ text \in Seq(Chars) /\ Len(text) = Len(a) + 1 + Len(b)
        /\ Read(text, n) = NumberOf(a \o b \o Zeros(n - Len(b)))
        /\ Head(text) = a[1] /\ Last(text) = b[Len(b)] /\ text[Len(a) + 1] = "."
    <3> HIDE DEF b, n
    <3> QED
      BY <1>1, <1>2, <2>1, <2>2, PointText
  <2>4. NumberOf(a \o b \o Zeros(n - Len(b))) = NumberOf(a \o tail)
    <3> HIDE DEF kept, b, n
    <3>1. b \in Seq(Numerals) /\ rest \in Seq(Numerals) /\ Zeros(n - Len(b)) = rest
      BY <1>2, <1>3
    <3> HIDE DEF rest
    <3>2. (a \o b) \o rest = a \o (b \o rest)
      BY <3>1, ConcatAssociative
    <3> QED
      BY <1>2, <3>1, <3>2
  <2>5. text # << >>
    <3>1. Len(a) + 1 + Len(b) # 0
      <4> HIDE DEF b
      <4>1. Len(a) \in Nat /\ Len(b) \in Nat
        BY <1>2
      <4> QED
        BY <4>1
    <3> HIDE DEF text, b
    <3> QED
      BY <2>3, <3>1
  <2>6. Read(text, n) = NumberOf(a \o tail) /\ Last(text) # "0"
    <3> HIDE DEF text, b, n
    <3> QED
      BY <2>2, <2>3, <2>4
  <2> HIDE DEF text, b, kept
  <2> QED
    BY <2>1, <2>3, <2>5, <2>6 DEF text, n, kept
<1> QED
  BY <1>5, <1>6 DEF text, n, kept

\* More digits than decimals: the point goes between them.
LEMMA LargeSays ==
    ASSUME NEW v \in Nat, NumDigits(v) <= MaxDigits, NumDigits(v) > Decimals
    PROVE  /\ adjust_decimals(Digits(v)) \in Seq(Chars)
           /\ SaysScaled(adjust_decimals(Digits(v)), v, Decimals)
<1> DEFINE n == NumDigits(v)
           src == Digits(v)
           a == SubSeq(src, 1, n - Decimals)
           tail == SubSeq(src, n - Decimals + 1, n)
           head == a \o <<".">>
           text == adjust_decimals(src)
<1>1. /\ MaxDigits \in Nat /\ Decimals \in 1..MaxDigits /\ n \in 1..MaxDigits /\ n \in 0..MaxDigits
      /\ n \in Nat /\ v < Base[n] /\ n > Decimals
  <2>1. MaxDigits \in Nat /\ Decimals \in 1..MaxDigits
    BY PrintAssumption
  <2>2. n \in 0..MaxDigits + 1
    BY NumDigitsIs
  <2>3. n \in 0..MaxDigits /\ n \in Nat /\ n \in 1..MaxDigits
    BY <2>1, <2>2
  <2>4. v < Base[n]
    BY <2>3, NumDigitsIs
  <2> QED
    BY <2>1, <2>3, <2>4
<1>2. src = DigitsOf(v, n)
  BY DEF Digits
<1>3. src[1] # "0"
  BY <1>1, LeadingDigit
<1>4. NumberOf(src) = v
  <2>1. Zeros(0) \o DigitsOf(v, n) = DigitsOf(v, n)
    <3>1. Zeros(0) = << >>
      BY ZerosAdd
    <3>2. DigitsOf(v, n) \in Seq(Numerals)
      BY <1>1, DigitsAre
    <3> QED
      BY <3>1, <3>2, ConcatEmptySeq
  <2>2. n \in 0..MaxDigits /\ v < Base[n] /\ 0 \in Nat
    BY <1>1
  <2> HIDE DEF n, src
  <2>3. NumberOf(Zeros(0) \o DigitsOf(v, n)) = v
    BY <2>2, DigitsReadBack
  <2> QED
    BY <1>2, <2>1, <2>3
<1>5. src \in Seq(Numerals) /\ Len(src) = n
  <2>1. DigitsOf(v, n) \in Seq(Numerals) /\ Len(DigitsOf(v, n)) = n
    BY <1>1, DigitsAre
  <2> QED
    BY <1>2, <2>1
<1> HIDE DEF n, src
<1>6. a \in Seq(Numerals) /\ Len(a) = n - Decimals /\ a # << >> /\ a[1] = src[1]
  <2> DEFINE m == n - Decimals
  <2>1. m \in 1..n /\ m \in Int /\ 1 \in Int /\ 1 <= m /\ m - 1 + 1 = m
    BY <1>1
  <2>2. \A i \in 1..m : src[i] \in Numerals
    BY <1>5, <2>1
  <2> HIDE DEF m
  <2>3. /\ SubSeq(src, 1, m) \in Seq(Numerals) /\ Len(SubSeq(src, 1, m)) = m
        /\ \A i \in 1..m : SubSeq(src, 1, m)[i] = src[1 + i - 1]
    BY <2>1, <2>2, SubSeqProperties
  <2>4. 1 \in 1..m /\ 1 + 1 - 1 = 1 /\ m # 0
    BY <2>1
  <2>5. SubSeq(src, 1, m)[1] = src[1]
    BY <2>3, <2>4
  <2> QED
    BY <2>3, <2>4, <2>5, EmptySeq DEF m
<1>7. tail \in Seq(Numerals) /\ Len(tail) = Decimals /\ tail # << >>
  <2> DEFINE m == n - Decimals + 1
  <2>1. m \in 1..n /\ m \in Int /\ n \in Int /\ m <= n /\ n - m + 1 = Decimals
    BY <1>1
  <2>2. \A i \in m..n : src[i] \in Numerals
    BY <1>5, <2>1
  <2> HIDE DEF m
  <2>3. SubSeq(src, m, n) \in Seq(Numerals) /\ Len(SubSeq(src, m, n)) = Decimals
    BY <2>1, <2>2, SubSeqProperties
  <2>4. Decimals # 0
    BY <1>1
  <2> QED
    BY <2>3, <2>4, EmptySeq DEF m
<1>8. a \o tail = src
  <2>1. 1 \in 1..Len(src) + 1 /\ n - Decimals \in 1 - 1..Len(src) /\ n \in n - Decimals..Len(src)
    BY <1>1, <1>5
  <2>2. a \o tail = SubSeq(src, 1, n)
    BY <1>5, <2>1, ConcatAdjacentSubSeq
  <2> QED
    BY <1>5, <2>2, SubSeqFull
<1>9. text = WithoutZeros(head, tail)
  <2>1. src # <<"0">>
    <3> SUFFICES ASSUME src = <<"0">> PROVE FALSE
      OBVIOUS
    <3> QED
      BY <1>3
  <2>2. ~(Len(src) <= Decimals)
    BY <1>1, <1>5
  <2> QED
    BY <1>5, <2>1, <2>2 DEF adjust_decimals
<1> HIDE DEF a, tail, text
<1>10. /\ text = CutText(a, tail) /\ text \in Seq(Chars)
       /\ IsDecimal(text) /\ Read(text, Decimals) = NumberOf(src)
       /\ Head(text) = src[1] /\ ("." \in Range(text) => Last(text) # "0")
  BY <1>6, <1>7, <1>8, <1>9, CutSays
<1>11. text \in Seq(Chars) /\ SaysScaled(text, v, Decimals)
  BY <1>3, <1>4, <1>10 DEF SaysScaled
<1> QED
  BY <1>11 DEF text, src

\* Every amount of XRP that is printed, however many digits and decimals there are, reads back
\* as itself: the point stands right, and no zero is cut off that counts.
THEOREM AmountSaysItself ==
    ASSUME NEW v \in Nat, NumDigits(v) <= MaxDigits
    PROVE  SaysXRP(xrp_print_amount(v), v)
<1> DEFINE head == Ticker \o <<" ">>
           tail == adjust_decimals(Digits(v))
           text == head \o tail
           S == Chars \cup {"X", "R", "P", " "}
<1>1. tail \in Seq(Chars) /\ SaysScaled(tail, v, Decimals)
  <2>1. Decimals \in Nat /\ MaxDigits \in Nat
    BY PrintAssumption
  <2>2. NumDigits(v) \in 0..MaxDigits + 1
    BY NumDigitsIs
  <2> QED
    BY <2>1, <2>2, SmallSays, LargeSays
<1>2. xrp_print_amount(v) = text
  <2>1. ~(NumDigits(v) > MaxDigits)
    <3>1. MaxDigits \in Nat /\ NumDigits(v) \in 0..MaxDigits + 1
      BY PrintAssumption, NumDigitsIs
    <3> QED
      BY <3>1
  <2> QED
    BY <2>1 DEF xrp_print_amount
<1> HIDE DEF tail
<1>3. head \in Seq(S) /\ Len(head) = 4 /\ tail \in Seq(S)
  <2>1. "X" \in S /\ "R" \in S /\ "P" \in S /\ Chars \subseteq S
    BY Zenon
  <2>2. " " \in S
    BY Zenon
  <2> HIDE DEF S
  <2>6. tail \in Seq(S)
    BY <1>1, <2>1, SeqMonotonic
  <2>3. PICK c \in S : c = " "
    BY <2>2, Zenon
  <2>4. head = Ticker \o <<c>>
    BY <2>3, Zenon
  <2>5. head \in Seq(S) /\ Len(head) = 4
    <3>1. Ticker \in Seq(S) /\ Len(Ticker) = 3
      BY <2>1 DEF Ticker
    <3>2. <<c>> \in Seq(S) /\ Len(<<c>>) = 1
      OBVIOUS
    <3> HIDE DEF head
    <3> QED
      BY <2>4, <3>1, <3>2, ConcatProperties
  <2> HIDE DEF head
  <2> QED
    BY <2>5, <2>6
<1> HIDE DEF head, S
<1>4. IsPrefix(head, text) /\ SubSeq(text, 5, Len(text)) = tail
  <2>1. IsPrefix(head, text) /\ SubSeq(text, Len(head) + 1, Len(text)) = tail
    <3>1. PICK h \in Seq(S), r \in Seq(S) : h = head /\ r = tail
      BY <1>3
    <3>2. IsPrefix(h, h \o r) /\ SubSeq(h \o r, Len(h) + 1, Len(h \o r)) = r
      BY PrefixCut
    <3> QED
      BY <3>1, <3>2 DEF text
  <2>2. Len(head) + 1 = 5
    BY <1>3
  <2> QED
    BY <2>1, <2>2
<1> QED
  BY <1>1, <1>2, <1>4 DEF SaysXRP, head

=============================================================================
