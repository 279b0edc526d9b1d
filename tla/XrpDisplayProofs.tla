--------------------------- MODULE XrpDisplayProofs ---------------------------
(***************************************************************************)
(* The proofs that what a page of a review says reads back as what is      *)
(* signed, and fits its row: pages of any length, with slots enough for    *)
(* them, and fields of any value.  What the formatters write comes first,  *)
(* from the text of an address in another base to the length of every      *)
(* text, and what the pages show of it after that.                         *)
(***************************************************************************)
EXTENDS XrpDisplay, XrpPrintProofs

-----------------------------------------------------------------------------
(* Powers and values.                                                      *)

LEMMA BasesAre == InBase \in Nat /\ OutBase \in Nat \ {0} /\ InBase > OutBase /\ OutBase > 1
<1>1. InBase \in Nat /\ OutBase \in Nat /\ InBase > OutBase /\ OutBase > 1
  BY BaseAssumption, Zenon
<1> QED
  BY <1>1

LEMMA PowerFollows ==
    ASSUME NEW b \in Nat, NEW n \in Nat
    PROVE  \E f \in [0..n -> Nat] : /\ f[0] = 1 /\ \A k \in 1..n : f[k] = b * f[k - 1]
                                    /\ Power(b, n) = f[n]
<1> DEFINE step == [x \in Nat \X (1..n) |-> b * x[1]]
           Value(h, k) == IF k = 0 THEN 1 ELSE b * h[k - 1]
           Def(h) == h = [k \in 0..n |-> Value(h, k)]
           power == CHOOSE h : Def(h)
<1>1. step \in [Nat \X (1..n) -> Nat] /\ 1 \in Nat
  OBVIOUS
<1>2. PICK f \in [0..n -> Nat] : Follows(f, 1, step, n)
  <2> HIDE DEF step
  <2> QED
    BY <1>1, RecursionExists
<1>3. f[0] = 1
  BY <1>2 DEF Follows
<1>4. \A k \in 1..n : f[k] = b * f[k - 1]
  <2> SUFFICES ASSUME NEW k \in 1..n PROVE f[k] = b * f[k - 1]
    OBVIOUS
  <2>1. f[k - 1] \in Nat /\ <<f[k - 1], k>> \in Nat \X (1..n)
    OBVIOUS
  <2>2. f[k] = step[<<f[k - 1], k>>]
    BY <1>2 DEF Follows
  <2> QED
    BY <2>1, <2>2
<1>5. Def(f)
  <2>1. \A k \in 0..n : f[k] = Value(f, k)
    <3> SUFFICES ASSUME NEW k \in 0..n PROVE f[k] = Value(f, k)
      OBVIOUS
    <3>1. k = 0 \/ k \in 1..n
      OBVIOUS
    <3> QED
      BY <1>3, <1>4, <3>1
  <2> HIDE DEF Value
  <2> QED
    BY <2>1
<1>6. Def(power)
  <2> HIDE DEF Def
  <2> QED
    BY <1>5
<1>7. Power(b, n) = power[n]
  BY DEF Power
<1>8. \A k \in 0..n : power[k] = Value(power, k)
  <2> HIDE DEF Value, power
  <2>1. power = [k \in 0..n |-> Value(power, k)]
    BY <1>6
  <2> QED
    BY <2>1
<1> HIDE DEF power
<1> DEFINE T == {k \in 0..n : power[k] = f[k]}
<1>9. 0 \in T
  BY <1>3, <1>8
<1>10. ASSUME NEW k \in 0..n, k \in T, k < n PROVE k + 1 \in T
  <2>1. k + 1 \in 1..n /\ k + 1 \in 0..n /\ (k + 1) - 1 = k /\ k + 1 # 0
    BY <1>10
  <2>2. power[k + 1] = b * power[k] /\ f[k + 1] = b * f[k]
    BY <1>4, <1>8, <2>1
  <2> QED
    BY <1>10, <2>1, <2>2
<1>11. 0..n \subseteq T
  <2> HIDE DEF T
  <2> QED
    BY <1>9, <1>10, UpTo
<1>12. power[n] = f[n]
  BY <1>11
<1> QED
  BY <1>3, <1>4, <1>7, <1>12

LEMMA PowerIs ==
    ASSUME NEW b \in Nat
    PROVE  /\ Power(b, 0) = 1
           /\ \A n \in Nat : Power(b, n) \in Nat /\ Power(b, n + 1) = b * Power(b, n)
<1>1. Power(b, 0) = 1
  BY PowerFollows
<1>2. ASSUME NEW n \in Nat PROVE Power(b, n) \in Nat /\ Power(b, n + 1) = b * Power(b, n)
  <2>1. PICK f \in [0..n -> Nat] : f[0] = 1 /\ (\A k \in 1..n : f[k] = b * f[k - 1]) /\ Power(b, n) = f[n]
    BY PowerFollows
  <2>2. n + 1 \in Nat
    OBVIOUS
  <2>3. PICK g \in [0..n + 1 -> Nat] :
            g[0] = 1 /\ (\A k \in 1..n + 1 : g[k] = b * g[k - 1]) /\ Power(b, n + 1) = g[n + 1]
    BY <2>2, PowerFollows
  <2> DEFINE T == {k \in 0..n : g[k] = f[k]}
  <2>4. 0 \in T
    BY <2>1, <2>3
  <2>5. ASSUME NEW k \in 0..n, k \in T, k < n PROVE k + 1 \in T
    <3>1. k + 1 \in 1..n /\ k + 1 \in 1..n + 1 /\ k + 1 \in 0..n /\ (k + 1) - 1 = k
      BY <2>5
    <3>2. g[k + 1] = b * g[k] /\ f[k + 1] = b * f[k]
      BY <2>1, <2>3, <3>1
    <3> QED
      BY <2>5, <3>1, <3>2
  <2>6. 0..n \subseteq T
    <3> HIDE DEF T
    <3> QED
      BY <2>4, <2>5, UpTo
  <2>7. n \in 0..n /\ n + 1 \in 1..n + 1 /\ (n + 1) - 1 = n
    OBVIOUS
  <2>8. g[n] = f[n] /\ f[n] \in Nat /\ g[n + 1] = b * g[n]
    BY <2>1, <2>3, <2>6, <2>7
  <2> QED
    BY <2>1, <2>3, <2>8
<1> QED
  BY <1>1, <1>2

LEMMA PowerGrows ==
    ASSUME NEW b \in Nat \ {0}, NEW m \in Nat, NEW n \in 0..m
    PROVE  Power(b, n) <= Power(b, m) /\ Power(b, n) \in Nat \ {0}
<1> DEFINE P == [k \in Nat |-> Power(b, k)]
<1>1. P[0] = 1 /\ \A k \in Nat : P[k] \in Nat /\ P[k + 1] = b * P[k]
  <2>1. \A k \in Nat : k + 1 \in Nat /\ 0 \in Nat
    OBVIOUS
  <2> QED
    BY <2>1, PowerIs
<1>2. P[n] = Power(b, n) /\ P[m] = Power(b, m)
  OBVIOUS
<1> HIDE DEF P
<1> DEFINE T == {k \in 0..m : P[k] \in Nat \ {0} /\ \A j \in 0..k : P[j] <= P[k]}
<1>3. 0 \in T
  BY <1>1
<1>4. ASSUME NEW k \in 0..m, k \in T, k < m PROVE k + 1 \in T
  <2>1. k \in Nat /\ k + 1 \in 0..m
    BY <1>4
  <2>2. PICK x \in Nat \ {0}, y \in Nat : x = P[k] /\ y = P[k + 1] /\ y = b * x
    BY <1>1, <1>4, <2>1
  <2>3. y \in Nat \ {0} /\ x <= y
    BY <2>2
  <2>4. ASSUME NEW j \in 0..k + 1 PROVE P[j] <= P[k + 1]
    <3>1. CASE j = k + 1
      <4>1. P[j] = y /\ P[k + 1] = y
        BY <2>2, <3>1, Zenon
      <4>2. y <= y
        BY <2>3
      <4> QED
        BY <4>1, <4>2, Zenon
    <3>2. CASE j # k + 1
      <4>1. j \in 0..k /\ j \in Nat
        BY <2>1, <3>2
      <4>2. P[j] <= x /\ P[j] \in Nat
        BY <1>1, <1>4, <2>2, <4>1
      <4>3. PICK z \in Nat : z = P[j]
        BY <4>2
      <4>4. z <= y
        BY <2>3, <4>2, <4>3
      <4> QED
        BY <2>2, <4>3, <4>4
    <3> QED
      BY <3>1, <3>2
  <2> QED
    BY <2>1, <2>2, <2>3, <2>4
<1>5. 0..m \subseteq T
  <2> HIDE DEF T
  <2> QED
    BY <1>3, <1>4, UpTo
<1>6. m \in T /\ n \in T
  BY <1>5
<1> QED
  BY <1>2, <1>6

\* ValueOf is what digit after digit adds up to.
LEMMA ValueIs ==
    ASSUME NEW b \in Nat, NEW s \in Seq(Nat), NEW f,
           f[0] = 0, \A k \in 1..Len(s) : f[k] \in Nat /\ f[k] = b * f[k - 1] + s[k]
    PROVE  ValueOf(b, s) = f[Len(s)]
<1> DEFINE n == Len(s)
           Value(h, k) == IF k = 0 THEN 0 ELSE b * h[k - 1] + s[k]
           Def(h) == h = [k \in 0..n |-> Value(h, k)]
           g == [k \in 0..n |-> f[k]]
           upTo == CHOOSE h : Def(h)
<1>1. n \in Nat
  OBVIOUS
<1>2. \A k \in 1..n : k \in 0..n /\ k - 1 \in 0..n /\ k # 0
  BY <1>1
<1>3. \A k \in 0..n : g[k] = Value(g, k)
  <2> SUFFICES ASSUME NEW k \in 0..n PROVE g[k] = Value(g, k)
    OBVIOUS
  <2>1. CASE k = 0
    BY <2>1
  <2>2. CASE k # 0
    <3>1. k \in 1..n
      BY <1>1, <2>2
    <3>2. g[k - 1] = f[k - 1] /\ g[k] = f[k]
      BY <1>2, <3>1
    <3> QED
      BY <2>2, <3>1, <3>2
  <2> QED
    BY <2>1, <2>2
<1>4. Def(g)
  <2> HIDE DEF Value
  <2>1. g = [k \in 0..n |-> g[k]]
    OBVIOUS
  <2> HIDE DEF g
  <2>2. [k \in 0..n |-> g[k]] = [k \in 0..n |-> Value(g, k)]
    BY <1>3
  <2> QED
    BY <2>1, <2>2
<1>5. Def(upTo)
  <2> HIDE DEF Def, g
  <2> QED
    BY <1>4
<1>6. \A k \in 0..n : upTo[k] = Value(upTo, k)
  <2> HIDE DEF Value, upTo
  <2>1. upTo = [k \in 0..n |-> Value(upTo, k)]
    BY <1>5
  <2> QED
    BY <2>1
<1>7. ValueOf(b, s) = upTo[n]
  BY DEF ValueOf
<1> HIDE DEF upTo
<1> DEFINE T == {k \in 0..n : upTo[k] = f[k]}
<1>8. 0 \in T
  BY <1>1, <1>6
<1>9. ASSUME NEW k \in 0..n, k \in T, k < n PROVE k + 1 \in T
  <2>1. k + 1 \in 1..n /\ k + 1 \in 0..n /\ (k + 1) - 1 = k /\ k + 1 # 0
    BY <1>1, <1>9
  <2>2. upTo[k + 1] = b * upTo[k] + s[k + 1]
    BY <1>6, <2>1
  <2>3. f[k + 1] = b * f[k] + s[k + 1]
    BY <2>1
  <2> QED
    BY <1>9, <2>1, <2>2, <2>3
<1>10. 0..n \subseteq T
  <2> HIDE DEF T
  <2> QED
    BY <1>1, <1>8, <1>9, UpTo
<1> QED
  BY <1>1, <1>7, <1>10

LEMMA ValueFollows ==
    ASSUME NEW b \in Nat, NEW s \in Seq(Nat)
    PROVE  \E f \in [0..Len(s) -> Nat] :
               /\ f[0] = 0 /\ \A k \in 1..Len(s) : f[k] = b * f[k - 1] + s[k]
               /\ ValueOf(b, s) = f[Len(s)]
<1> DEFINE n == Len(s)
           step == [x \in Nat \X (1..n) |-> b * x[1] + s[x[2]]]
<1>1. n \in Nat /\ \A k \in 1..n : s[k] \in Nat
  OBVIOUS
<1>2. step \in [Nat \X (1..n) -> Nat] /\ 0 \in Nat
  <2> SUFFICES ASSUME NEW x \in Nat \X (1..n) PROVE b * x[1] + s[x[2]] \in Nat
    OBVIOUS
  <2>1. PICK y \in Nat, z \in Nat : y = x[1] /\ z = s[x[2]]
    BY <1>1
  <2>2. b * y + z \in Nat
    OBVIOUS
  <2> QED
    BY <2>1, <2>2
<1>3. PICK f \in [0..n -> Nat] : Follows(f, 0, step, n)
  <2> HIDE DEF step, n
  <2> QED
    BY <1>1, <1>2, RecursionExists
<1>4. \A k \in 1..n : f[k] \in Nat /\ f[k] = b * f[k - 1] + s[k]
  <2> SUFFICES ASSUME NEW k \in 1..n PROVE f[k] \in Nat /\ f[k] = b * f[k - 1] + s[k]
    OBVIOUS
  <2>1. k \in 0..n /\ k - 1 \in 0..n
    BY <1>1
  <2>2. f[k] \in Nat /\ f[k - 1] \in Nat /\ <<f[k - 1], k>> \in Nat \X (1..n)
    BY <1>3, <2>1
  <2>3. f[k] = step[<<f[k - 1], k>>]
    BY <1>3 DEF Follows
  <2> QED
    BY <2>2, <2>3
<1>5. f[0] = 0
  BY <1>3 DEF Follows
<1>6. ValueOf(b, s) = f[n]
  BY <1>4, <1>5, ValueIs
<1> QED
  BY <1>4, <1>5, <1>6

\* Zeros before the digits count for nothing.
LEMMA ValueAfterZeros ==
    ASSUME NEW b \in Nat, NEW z \in Nat, NEW s \in Seq(Nat)
    PROVE  LET t == [i \in 1..z |-> 0] \o s
           IN  t \in Seq(Nat) /\ ValueOf(b, t) = ValueOf(b, s)
<1> DEFINE zeros == [i \in 1..z |-> 0]
           n == Len(s)
           t == zeros \o s
<1>1. zeros \in Seq(Nat) /\ Len(zeros) = z /\ (\A i \in 1..z : zeros[i] = 0) /\ n \in Nat
  OBVIOUS
<1>2. PICK f \in [0..n -> Nat] :
          /\ f[0] = 0 /\ \A k \in 1..n : f[k] = b * f[k - 1] + s[k]
          /\ ValueOf(b, s) = f[n]
  BY ValueFollows
<1> HIDE DEF zeros, n
<1>3. /\ t \in Seq(Nat) /\ Len(t) = z + n
      /\ \A i \in 1..z + n : t[i] = IF i <= z THEN zeros[i] ELSE s[i - z]
  <2>1. /\ t \in Seq(Nat) /\ Len(t) = Len(zeros) + Len(s)
        /\ \A i \in 1..Len(zeros) + Len(s) : t[i] = IF i <= Len(zeros) THEN zeros[i] ELSE s[i - Len(zeros)]
    <3>1. zeros \in Seq(Nat) /\ s \in Seq(Nat)
      BY <1>1
    <3> QED
      BY <3>1, ConcatProperties, Zenon
  <2> QED
    BY <1>1, <2>1 DEF n
<1> DEFINE h == [k \in 0..z + n |-> IF k <= z THEN 0 ELSE f[k - z]]
<1>4. h[0] = 0
  BY <1>1
<1>5. ASSUME NEW k \in 1..z + n PROVE h[k] \in Nat /\ h[k] = b * h[k - 1] + t[k]
  <2>0. k \in 0..z + n /\ k - 1 \in 0..z + n /\ k \in Int
    BY <1>1
  <2>1. CASE k <= z
    <3>1. h[k] = 0 /\ h[k - 1] = 0 /\ t[k] = 0
      <4>1. k - 1 <= z /\ k \in 1..z
        BY <2>0, <2>1
      <4> QED
        BY <1>1, <1>3, <2>0, <2>1, <4>1
    <3> QED
      BY <3>1
  <2>2. CASE ~(k <= z)
    <3>1. PICK j \in 1..n : k = z + j
      <4>1. k - z \in 1..n /\ k = z + (k - z)
        BY <1>1, <2>2
      <4> QED
        BY <4>1
    <3>2. k - z = j /\ k - 1 = z + (j - 1) /\ j - 1 \in 0..n /\ j \in 0..n
      BY <1>1, <3>1
    <3>3. h[k] = f[j] /\ t[k] = s[j]
      BY <1>3, <2>0, <2>2, <3>2
    <3>4. h[k - 1] = f[j - 1]
      <4>1. CASE j = 1
        <5>1. k - 1 <= z /\ j - 1 = 0
          BY <3>1, <4>1
        <5> QED
          BY <1>2, <2>0, <5>1
      <4>2. CASE j # 1
        <5>1. ~(k - 1 <= z) /\ (k - 1) - z = j - 1
          BY <3>1, <4>2
        <5> QED
          BY <2>0, <5>1
      <4> QED
        BY <4>1, <4>2
    <3> QED
      BY <1>2, <3>2, <3>3, <3>4
  <2> QED
    BY <2>1, <2>2
<1>6. ValueOf(b, t) = h[z + n]
  <2> HIDE DEF h, t
  <2>1. \A k \in 1..Len(t) : h[k] \in Nat /\ h[k] = b * h[k - 1] + t[k]
    BY <1>3, <1>5
  <2>2. ValueOf(b, t) = h[Len(t)]
    BY <1>3, <1>4, <2>1, ValueIs
  <2> QED
    BY <1>3, <2>2
<1>7. h[z + n] = f[n]
  <2>1. z + n \in 0..z + n
    BY <1>1
  <2>2. CASE n = 0
    BY <1>1, <1>2, <2>1, <2>2
  <2>3. CASE n # 0
    <3>1. ~(z + n <= z) /\ (z + n) - z = n
      BY <1>1, <2>3
    <3> QED
      BY <2>1, <3>1
  <2> QED
    BY <2>2, <2>3
<1> QED
  BY <1>2, <1>3, <1>6, <1>7 DEF zeros

-----------------------------------------------------------------------------
(* One byte.                                                               *)

\* What comes into the digits, from the right.
LEMMA CarryIs ==
    ASSUME NEW s \in Seq(Nat), NEW byte \in Nat
    PROVE  LET c == Carry(s, byte)
               n == Len(s)
           IN  /\ c \in [0..n -> Nat] /\ c[n] = byte
               /\ \A j \in 1..n : c[j - 1] = (c[j] + InBase * s[j]) \div OutBase
<1> DEFINE n == Len(s)
           E(x, j) == (x + InBase * s[j]) \div OutBase
           step == [x \in Nat \X (1..n) |-> E(x[1], n - x[2] + 1)]
           Value(h, j) == IF j = n THEN byte ELSE (h[j + 1] + InBase * s[j + 1]) \div OutBase
           Def(h) == h = [j \in 0..n |-> Value(h, j)]
           c == CHOOSE h : Def(h)
<1>1. n \in Nat /\ InBase \in Nat /\ OutBase \in Nat \ {0}
  BY BasesAre
<1>2. ASSUME NEW x \in Nat, NEW j \in 1..n PROVE E(x, j) \in Nat
  <2>1. PICK y \in Nat : y = s[j]
    OBVIOUS
  <2>2. PICK v \in Nat : v = x + InBase * y
    BY <1>1
  <2>3. v \div OutBase \in Nat
    BY <1>1, DivIs
  <2> QED
    BY <2>1, <2>2, <2>3
<1>3. step \in [Nat \X (1..n) -> Nat]
  <2> SUFFICES ASSUME NEW x \in Nat \X (1..n) PROVE E(x[1], n - x[2] + 1) \in Nat
    OBVIOUS
  <2>1. x[1] \in Nat /\ n - x[2] + 1 \in 1..n
    BY <1>1
  <2> HIDE DEF E, n
  <2> QED
    BY <1>2, <2>1
<1>4. PICK h \in [0..n -> Nat] : Follows(h, byte, step, n)
  <2> HIDE DEF step, n
  <2> QED
    BY <1>1, <1>3, RecursionExists
<1> DEFINE g == [j \in 0..n |-> h[n - j]]
<1>5. \A j \in 0..n : g[j] = Value(g, j)
  <2> SUFFICES ASSUME NEW j \in 0..n PROVE g[j] = Value(g, j)
    OBVIOUS
  <2>1. CASE j = n
    <3>1. n - j = 0
      BY <1>1, <2>1
    <3> HIDE DEF n
    <3> QED
      BY <1>4, <2>1, <3>1 DEF Follows
  <2>2. CASE j # n
    <3>1. n - j \in 1..n /\ j + 1 \in 0..n /\ n - (j + 1) = (n - j) - 1 /\ n - (n - j) + 1 = j + 1
      BY <1>1, <2>2
    <3>2. h[n - j] = step[<<h[(n - j) - 1], n - j>>]
      BY <1>4, <3>1 DEF Follows
    <3>3. h[(n - j) - 1] \in Nat
      <4>1. (n - j) - 1 \in 0..n
        BY <1>1, <2>2
      <4> HIDE DEF n
      <4> QED
        BY <1>4, <4>1
    <3>4. PICK k \in 1..n, x \in Nat : k = n - j /\ x = h[(n - j) - 1]
      BY <3>1, <3>3, Zenon
    <3>5. h[k] = E(x, j + 1) /\ g[j] = h[k] /\ g[j + 1] = x
      <4>1. <<x, k>> \in Nat \X (1..n)
        OBVIOUS
      <4>2. n - k + 1 = j + 1
        BY <3>1, <3>4
      <4>3. step[<<x, k>>] = E(x, j + 1)
        <5> HIDE DEF E, n
        <5> QED
          BY <4>1, <4>2
      <4> HIDE DEF E, step, n
      <4> QED
        BY <3>1, <3>2, <3>4, <4>3
    <3> HIDE DEF g
    <3> QED
      BY <2>2, <3>5
  <2> QED
    BY <2>1, <2>2
<1>6. Def(g)
  <2> HIDE DEF Value, n
  <2>1. g = [j \in 0..n |-> g[j]]
    OBVIOUS
  <2> HIDE DEF g
  <2>2. [j \in 0..n |-> g[j]] = [j \in 0..n |-> Value(g, j)]
    BY <1>5
  <2> QED
    BY <2>1, <2>2
<1>7. Def(c)
  <2> HIDE DEF Def, g
  <2> QED
    BY <1>6
<1>8. Carry(s, byte) = c
  BY DEF Carry
<1> HIDE DEF c, g, n
<1>9. c = [j \in 0..n |-> c[j]] /\ \A j \in 0..n : c[j] = Value(c, j)
  <2> HIDE DEF Value
  <2>1. c = [j \in 0..n |-> Value(c, j)]
    BY <1>7
  <2>2. \A j \in 0..n : c[j] = Value(c, j)
    BY <2>1
  <2>3. [j \in 0..n |-> Value(c, j)] = [j \in 0..n |-> c[j]]
    BY <2>2
  <2> QED
    BY <2>1, <2>2, <2>3
<1>10. c[n] = byte
  <2>1. n \in 0..n
    BY <1>1
  <2> QED
    BY <1>9, <2>1
<1>11. ASSUME NEW j \in 1..n PROVE c[j - 1] = E(c[j], j)
  <2>1. j - 1 \in 0..n /\ j - 1 # n /\ (j - 1) + 1 = j
    BY <1>1
  <2> QED
    BY <1>9, <2>1
<1> DEFINE T == {k \in 0..n : c[n - k] \in Nat}
<1>12. 0 \in T
  <2>1. n - 0 = n
    BY <1>1
  <2> QED
    BY <1>1, <1>10, <2>1
<1>13. ASSUME NEW k \in 0..n, k \in T, k < n PROVE k + 1 \in T
  <2>1. PICK j \in 1..n : j = n - k /\ n - (k + 1) = j - 1
    BY <1>1, <1>13
  <2>2. c[j] \in Nat
    BY <1>13, <2>1
  <2>3. c[j - 1] \in Nat
    <3> HIDE DEF E
    <3> QED
      BY <1>2, <1>11, <2>2
  <2>4. k + 1 \in 0..n
    BY <1>1, <1>13
  <2> QED
    BY <2>1, <2>3, <2>4
<1>14. 0..n \subseteq T
  <2> HIDE DEF T
  <2> QED
    BY <1>1, <1>12, <1>13, UpTo
<1>15. \A j \in 0..n : c[j] \in Nat
  <2> SUFFICES ASSUME NEW j \in 0..n PROVE c[j] \in Nat
    OBVIOUS
  <2>1. n - j \in 0..n /\ n - (n - j) = j
    BY <1>1
  <2> QED
    BY <1>14, <2>1
<1>16. c \in [0..n -> Nat]
  BY <1>9, <1>15
<1> QED
  BY <1>8, <1>10, <1>11, <1>16 DEF n

\* A byte more: the digits and what is carried out of them are the number times InBase with the
\* byte, and no more than that is carried anywhere.
LEMMA Multiplied ==
    ASSUME NEW s \in Seq(0..OutBase - 1), NEW byte \in 0..InBase - 1
    PROVE  LET c == Carry(s, byte)
               n == Len(s)
               t == [j \in 1..n |-> (c[j] + InBase * s[j]) % OutBase]
               next == InBase * ValueOf(OutBase, s) + byte
           IN  /\ t \in Seq(0..OutBase - 1) /\ Len(t) = n
               /\ ValueOf(OutBase, s) \in Nat /\ ValueOf(OutBase, t) \in Nat
               /\ ValueOf(OutBase, t) + c[0] * Power(OutBase, n) = next
               /\ \A i \in 0..n : c[i] * Power(OutBase, n - i) <= next
<1> DEFINE c == Carry(s, byte)
           n == Len(s)
           t == [j \in 1..n |-> (c[j] + InBase * s[j]) % OutBase]
           next == InBase * ValueOf(OutBase, s) + byte
           P == [k \in Nat |-> Power(OutBase, k)]
<1>1. /\ n \in Nat /\ InBase \in Nat /\ OutBase \in Nat \ {0} /\ byte \in Nat
      /\ s \in Seq(Nat) /\ \A j \in 1..n : s[j] \in Nat
  <2>1. InBase \in Nat /\ OutBase \in Nat \ {0}
    BY BasesAre
  <2>2. s \in Seq(Nat)
    <3>1. 0..OutBase - 1 \subseteq Nat
      OBVIOUS
    <3> QED
      BY <3>1, SeqMonotonic
  <2> QED
    BY <2>1, <2>2
<1>2. /\ c \in [0..n -> Nat] /\ c[n] = byte
      /\ \A j \in 1..n : c[j - 1] = (c[j] + InBase * s[j]) \div OutBase
  BY <1>1, CarryIs
<1>3. P[0] = 1 /\ \A k \in Nat : P[k] \in Nat /\ P[k + 1] = OutBase * P[k]
  <2>1. \A k \in Nat : k + 1 \in Nat /\ 0 \in Nat
    OBVIOUS
  <2> QED
    BY <1>1, <2>1, PowerIs
<1>4. \A k \in Nat : P[k] = Power(OutBase, k)
  OBVIOUS
<1> HIDE DEF c, n, P
<1>5. ASSUME NEW j \in 1..n
      PROVE  /\ t[j] \in 0..OutBase - 1 /\ c[j] \in Nat /\ c[j - 1] \in Nat
             /\ OutBase * c[j - 1] + t[j] = c[j] + InBase * s[j]
  <2>1. c[j] \in Nat /\ c[j - 1] \in Nat
    <3>1. j \in 0..n /\ j - 1 \in 0..n
      BY <1>1
    <3> QED
      BY <1>2, <3>1
  <2>2. PICK x \in Nat, y \in Nat : x = s[j] /\ y = c[j]
    BY <1>1, <2>1
  <2>3. PICK v \in Nat : v = y + InBase * x
    BY <1>1
  <2>4. t[j] = v % OutBase /\ c[j - 1] = v \div OutBase
    BY <1>2, <2>2, <2>3
  <2>5. v % OutBase \in 0..OutBase - 1 /\ v = OutBase * (v \div OutBase) + (v % OutBase)
    BY <1>1, DivIs
  <2> QED
    BY <2>1, <2>2, <2>3, <2>4, <2>5
<1>6. t \in Seq(0..OutBase - 1) /\ Len(t) = n /\ t \in Seq(Nat)
  <2>0. \A j \in 1..n : t[j] \in 0..OutBase - 1
    BY <1>5
  <2>1. t = [j \in 1..n |-> t[j]]
    OBVIOUS
  <2> HIDE DEF t
  <2>2. t \in Seq(0..OutBase - 1) /\ Len(t) = n
    <3> DEFINE B == 0..OutBase - 1
    <3>1. t \in [1..n -> B]
      BY <2>0, <2>1
    <3> HIDE DEF B
    <3>2. t \in Seq(B) /\ Len(t) = n
      BY <1>1, <3>1
    <3> QED
      BY <3>2 DEF B
  <2>3. 0..OutBase - 1 \subseteq Nat
    BY <1>1
  <2> QED
    BY <2>2, <2>3, SeqMonotonic
<1> HIDE DEF t
<1>7. PICK f \in [0..n -> Nat] :
          /\ f[0] = 0 /\ \A k \in 1..n : f[k] = OutBase * f[k - 1] + s[k]
          /\ ValueOf(OutBase, s) = f[n]
  BY <1>1, ValueFollows DEF n
<1>8. PICK g \in [0..n -> Nat] :
          /\ g[0] = 0 /\ \A k \in 1..n : g[k] = OutBase * g[k - 1] + t[k]
          /\ ValueOf(OutBase, t) = g[n]
  <2>1. OutBase \in Nat
    BY <1>1
  <2> QED
    BY <1>6, <2>1, ValueFollows
<1>9. 0 \in 0..n /\ n \in 0..n
  BY <1>1
<1>10. ValueOf(OutBase, s) \in Nat /\ ValueOf(OutBase, t) \in Nat /\ next \in Nat /\ c[0] \in Nat
  <2>1. ValueOf(OutBase, s) \in Nat /\ ValueOf(OutBase, t) \in Nat /\ c[0] \in Nat
    BY <1>2, <1>7, <1>8, <1>9
  <2>2. PICK x \in Nat : x = ValueOf(OutBase, s)
    BY <2>1
  <2>3. InBase * x + byte \in Nat
    BY <1>1
  <2> QED
    BY <2>1, <2>2, <2>3
<1> DEFINE T == {k \in 0..n : g[k] + c[0] * P[k] = InBase * f[k] + c[k]}
<1>11. 0 \in T
  <2>1. PICK x \in Nat : x = c[0]
    BY <1>10
  <2>2. 0 + x * 1 = InBase * 0 + x
    BY <1>1
  <2> QED
    BY <1>3, <1>7, <1>8, <1>9, <2>1, <2>2
<1>12. ASSUME NEW k \in 0..n, k \in T, k < n PROVE k + 1 \in T
  <2>1. k \in Nat /\ k + 1 \in 1..n /\ k + 1 \in 0..n /\ (k + 1) - 1 = k
    BY <1>1, <1>12
  <2>2. /\ g[k + 1] = OutBase * g[k] + t[k + 1] /\ f[k + 1] = OutBase * f[k] + s[k + 1]
        /\ P[k + 1] = OutBase * P[k] /\ OutBase * c[k] + t[k + 1] = c[k + 1] + InBase * s[k + 1]
    BY <1>3, <1>5, <1>7, <1>8, <2>1
  <2>3. /\ g[k] \in Nat /\ f[k] \in Nat /\ P[k] \in Nat /\ c[k] \in Nat /\ c[k + 1] \in Nat
        /\ t[k + 1] \in Nat /\ s[k + 1] \in Nat /\ OutBase \in Nat
    <3>1. t[k + 1] \in 0..OutBase - 1
      BY <1>5, <2>1
    <3>2. t[k + 1] \in Nat
      BY <3>1
    <3> QED
      BY <1>1, <1>2, <1>3, <1>7, <1>8, <2>1, <3>2
  <2>4. g[k] + c[0] * P[k] = InBase * f[k] + c[k]
    BY <1>12
  <2>5. (OutBase * g[k] + t[k + 1]) + c[0] * (OutBase * P[k]) = InBase * (OutBase * f[k] + s[k + 1]) + c[k + 1]
    <3>1. PICK a \in Nat, b \in Nat, z \in Nat : a = InBase /\ b = OutBase /\ z = c[0]
      BY <1>1, <1>10
    <3>2. PICK u \in Nat, q \in Nat, v \in Nat, w \in Nat, w2 \in Nat, x \in Nat, y \in Nat :
              /\ u = g[k] /\ q = P[k] /\ v = f[k] /\ w = c[k] /\ w2 = c[k + 1]
              /\ x = t[k + 1] /\ y = s[k + 1]
      BY <2>3
    <3>3. u + z * q = a * v + w /\ b * w + x = w2 + a * y
      BY <2>2, <2>4, <3>1, <3>2, Zenon
    <3>4. PICK zq \in Nat, av \in Nat, ay \in Nat, bu \in Nat, bw \in Nat :
              zq = z * q /\ av = a * v /\ ay = a * y /\ bu = b * u /\ bw = b * w
      OBVIOUS
    <3>5. PICK bzq \in Nat, bav \in Nat : bzq = b * zq /\ bav = b * av
      OBVIOUS
    <3>6. bu + bzq = bav + bw
      <4>1. u + zq = av + w
        BY <3>3, <3>4
      <4>2. b * (u + zq) = b * (av + w)
        BY <4>1, Zenon
      <4>3. b * (u + zq) = b * u + b * zq /\ b * (av + w) = b * av + b * w
        OBVIOUS
      <4> QED
        BY <3>4, <3>5, <4>2, <4>3
    <3>7. bw + x = w2 + ay
      BY <3>3, <3>4
    <3>8. (bu + x) + bzq = (bav + ay) + w2
      BY <3>6, <3>7
    <3>9. z * (b * q) = b * (z * q) /\ a * (b * v + y) = b * (a * v) + a * y
      OBVIOUS
    <3>10. (b * u + x) + z * (b * q) = a * (b * v + y) + w2
      BY <3>4, <3>5, <3>8, <3>9
    <3> QED
      BY <3>1, <3>2, <3>10, Zenon
  <2> QED
    BY <2>1, <2>2, <2>5
<1>13. 0..n \subseteq T
  <2> HIDE DEF T
  <2> QED
    BY <1>1, <1>11, <1>12, UpTo
<1>14. ValueOf(OutBase, t) + c[0] * Power(OutBase, n) = next
  <2>1. g[n] + c[0] * P[n] = InBase * f[n] + c[n]
    BY <1>9, <1>13
  <2> QED
    BY <1>1, <1>2, <1>4, <1>7, <1>8, <2>1
<1> DEFINE U == {k \in 0..n : (c[n - k] + InBase * f[n - k]) * P[k] <= next}
<1>15. 0 \in U
  <2>1. n - 0 = n
    BY <1>1
  <2>2. (byte + InBase * f[n]) * P[0] = next
    <3>1. PICK x \in Nat : x = InBase * f[n]
      BY <1>1, <1>7, <1>9
    <3>2. (byte + x) * 1 = x + byte
      BY <1>1
    <3> QED
      BY <1>3, <1>7, <3>1, <3>2
  <2> QED
    BY <1>2, <1>9, <1>10, <2>1, <2>2
<1>16. ASSUME NEW k \in 0..n, k \in U, k < n PROVE k + 1 \in U
  <2>1. PICK i \in 1..n : i = n - k /\ i - 1 = n - (k + 1) /\ i - 1 \in 0..n /\ i \in 0..n
    <3>1. n - k \in 1..n /\ (n - k) - 1 = n - (k + 1) /\ (n - k) - 1 \in 0..n /\ n - k \in 0..n
      BY <1>1, <1>16
    <3> QED
      BY <3>1
  <2>2. k \in Nat /\ k + 1 \in 0..n
    BY <1>1, <1>16
  <2>3. /\ f[i] = OutBase * f[i - 1] + s[i] /\ P[k + 1] = OutBase * P[k]
        /\ f[i - 1] \in Nat /\ s[i] \in Nat /\ P[k] \in Nat /\ OutBase \in Nat
    BY <1>1, <1>3, <1>7, <2>1, <2>2
  <2>4. c[i] \in Nat /\ c[i - 1] \in Nat /\ OutBase * c[i - 1] <= c[i] + InBase * s[i]
    <3>1. c[i] \in Nat /\ c[i - 1] \in Nat /\ OutBase * c[i - 1] + t[i] = c[i] + InBase * s[i] /\ t[i] \in Nat
      BY <1>1, <1>5
    <3>2. PICK y \in Nat : y = c[i - 1]
      BY <3>1
    <3>3. OutBase * y \in Nat
      BY <1>1
    <3> QED
      BY <3>1, <3>2, <3>3
  <2>5. (c[i] + InBase * (OutBase * f[i - 1] + s[i])) * P[k] <= next
    BY <1>16, <2>1, <2>3
  <2>6. (c[i - 1] + InBase * f[i - 1]) * (OutBase * P[k]) <= next
    <3>1. PICK a \in Nat, b \in Nat, m \in Nat : a = InBase /\ b = OutBase /\ m = next
      BY <1>1, <1>10
    <3>2. PICK q \in Nat, v \in Nat, w \in Nat, w2 \in Nat, y \in Nat :
              q = P[k] /\ v = f[i - 1] /\ w = c[i] /\ w2 = c[i - 1] /\ y = s[i]
      BY <2>3, <2>4
    <3>3. (w + a * (b * v + y)) * q <= m
      BY <2>5, <3>1, <3>2, Zenon
    <3>4. b * w2 <= w + a * y
      BY <2>4, <3>1, <3>2, Zenon
    <3>5. PICK av \in Nat, ay \in Nat, bw \in Nat : av = a * v /\ ay = a * y /\ bw = b * w2
      OBVIOUS
    <3>6. PICK bav \in Nat : bav = b * av
      OBVIOUS
    <3>7. PICK x \in Nat, d \in Nat : x = bw + bav /\ x + d = w + (bav + ay)
      <4>1. bw <= w + ay
        BY <3>4, <3>5
      <4>2. bw + bav \in Nat /\ (w + ay) - bw \in Nat
        BY <4>1
      <4>3. (bw + bav) + ((w + ay) - bw) = w + (bav + ay)
        OBVIOUS
      <4> QED
        BY <4>2, <4>3
    <3>8. (x + d) * q = x * q + d * q /\ x * q \in Nat /\ d * q \in Nat
      OBVIOUS
    <3>9. a * (b * v + y) = b * (a * v) + a * y
      OBVIOUS
    <3>10. (x + d) * q <= m
      BY <3>3, <3>5, <3>6, <3>7, <3>9
    <3>11. x * q <= m
      <4>1. PICK xq \in Nat, dq \in Nat : xq = x * q /\ dq = d * q
        BY <3>8
      <4>2. xq + dq <= m
        BY <3>8, <3>10, <4>1, Zenon
      <4>3. xq <= m
        BY <4>2
      <4> QED
        BY <4>1, <4>3, Zenon
    <3>12. (w2 + a * v) * (b * q) = x * q
      <4>1. (w2 + av) * (b * q) = (b * w2 + b * av) * q
        OBVIOUS
      <4> QED
        BY <3>5, <3>6, <3>7, <4>1
    <3>13. (w2 + a * v) * (b * q) <= m
      BY <3>11, <3>12, Zenon
    <3> QED
      BY <3>1, <3>2, <3>13, Zenon
  <2> QED
    BY <2>1, <2>2, <2>3, <2>6
<1>17. 0..n \subseteq U
  <2> HIDE DEF U
  <2> QED
    BY <1>1, <1>15, <1>16, UpTo
<1>18. ASSUME NEW i \in 0..n PROVE c[i] * Power(OutBase, n - i) <= next
  <2>1. n - i \in 0..n /\ n - (n - i) = i /\ n - i \in Nat
    BY <1>1
  <2>2. (c[i] + InBase * f[i]) * P[n - i] <= next
    BY <1>17, <2>1
  <2>3. PICK x \in Nat, y \in Nat, p \in Nat : x = c[i] /\ y = InBase * f[i] /\ p = P[n - i]
    <3>1. c[i] \in Nat /\ f[i] \in Nat /\ P[n - i] \in Nat
      BY <1>2, <1>3, <1>7, <2>1
    <3>2. PICK w \in Nat : w = f[i]
      BY <3>1
    <3>3. InBase * w \in Nat
      BY <1>1
    <3> QED
      BY <3>1, <3>2, <3>3
  <2>4. x * p <= (x + y) * p /\ x * p \in Nat /\ (x + y) * p \in Nat
    OBVIOUS
  <2>5. x * p <= next
    BY <1>10, <2>2, <2>3, <2>4
  <2> QED
    BY <1>4, <2>1, <2>3, <2>5
<1> QED
  BY <1>6, <1>10, <1>14, <1>18 DEF t, c, n

\* What the loop over the bytes keeps: at most w digits have been written, from stop_at on, and
\* those left of them are zeros.
Sound(state, n, w) ==
    /\ state.buffer \in Seq(0..OutBase - 1) /\ Len(state.buffer) = n
    /\ state.stop_at \in 1..n /\ n + 1 - state.stop_at <= w
    /\ \A j \in 1..state.stop_at - 1 : state.buffer[j] = 0

\* The loop leaves off at digits that stay zero, and nothing is carried out of the buffer.
LEMMA AddByteIs ==
    ASSUME NEW st, NEW n \in Nat, NEW w \in Nat, NEW w2 \in 0..n, NEW byte \in 0..InBase - 1,
           Sound(st, n, w), w < w2,
           InBase * ValueOf(OutBase, st.buffer) + byte < Power(OutBase, w2)
    PROVE  LET next == AddByte(st, byte)
           IN  /\ Sound(next, n, w2)
               /\ ValueOf(OutBase, st.buffer) \in Nat
               /\ ValueOf(OutBase, next.buffer) = InBase * ValueOf(OutBase, st.buffer) + byte
<1> DEFINE s == st.buffer
           c == Carry(s, byte)
           t == [j \in 1..n |-> (c[j] + InBase * s[j]) % OutBase]
           stops == {j \in DOMAIN s : LeftOf(j, st.stop_at) /\ c[j - 1] = 0} \cup {0}
           stop == Max(stops)
           b == [j \in DOMAIN s |-> IF j < stop THEN s[j] ELSE (c[j] + InBase * s[j]) % OutBase]
           next == InBase * ValueOf(OutBase, s) + byte
<1>1. /\ s \in Seq(0..OutBase - 1) /\ Len(s) = n /\ DOMAIN s = 1..n
      /\ st.stop_at \in 1..n /\ n + 1 - st.stop_at <= w
      /\ \A j \in 1..st.stop_at - 1 : s[j] = 0
  BY DEF Sound
<1>2. AddByte(st, byte) = [stop_at |-> stop, buffer |-> b]
  BY Zenon DEF AddByte
<1>3. /\ InBase \in Nat /\ OutBase \in Nat \ {0} /\ byte \in Nat
      /\ s \in Seq(Nat) /\ \A j \in 1..n : s[j] \in Nat
  <2>1. InBase \in Nat /\ OutBase \in Nat \ {0}
    BY BasesAre
  <2>2. s \in Seq(Nat)
    <3>1. 0..OutBase - 1 \subseteq Nat
      OBVIOUS
    <3> HIDE DEF s
    <3> QED
      BY <1>1, <3>1, SeqMonotonic
  <2> HIDE DEF s
  <2> QED
    BY <1>1, <2>1, <2>2
<1> HIDE DEF s
<1>4. /\ c \in [0..n -> Nat] /\ c[n] = byte
      /\ \A j \in 1..n : c[j - 1] = (c[j] + InBase * s[j]) \div OutBase
  <2> HIDE DEF c
  <2> QED
    BY <1>1, <1>3, CarryIs DEF c
<1>5. /\ t \in Seq(0..OutBase - 1) /\ Len(t) = n
      /\ ValueOf(OutBase, s) \in Nat /\ ValueOf(OutBase, t) \in Nat
      /\ ValueOf(OutBase, t) + c[0] * Power(OutBase, n) = next
      /\ \A i \in 0..n : c[i] * Power(OutBase, n - i) <= next
  BY <1>1, Multiplied
<1> HIDE DEF c
<1>6. next \in Nat /\ next < Power(OutBase, w2)
  <2>1. PICK v \in Nat : v = ValueOf(OutBase, s)
    BY <1>5
  <2>2. PICK a \in Nat : a = InBase
    BY <1>3
  <2>3. a * v \in Nat
    OBVIOUS
  <2>4. a * v + byte \in Nat
    BY <1>3, <2>3
  <2> QED
    BY <2>1, <2>2, <2>4 DEF s
<1> HIDE DEF next
<1>7. ASSUME NEW i \in 0..n, n - i >= w2 PROVE c[i] = 0
  <2>1. n - i \in Nat /\ w2 \in 0..n - i
    BY <1>7
  <2>2. Power(OutBase, w2) <= Power(OutBase, n - i) /\ Power(OutBase, w2) \in Nat \ {0}
    BY <1>3, <2>1, PowerGrows
  <2>3. PICK p \in Nat, q \in Nat : p = Power(OutBase, n - i) /\ q = Power(OutBase, w2)
    <3>1. Power(OutBase, n - i) \in Nat
      BY <1>3, <2>1, PowerIs
    <3> QED
      BY <2>2, <3>1
  <2>4. c[i] \in Nat /\ c[i] * p <= next /\ next < p
    <3>1. q <= p /\ next < q
      BY <1>6, <2>2, <2>3, Zenon
    <3>2. next < p
      BY <1>6, <3>1
    <3> QED
      BY <1>4, <1>5, <2>3, <3>2
  <2>5. PICK x \in Nat : x = c[i]
    BY <2>4
  <2>6. x # 0 => x * p >= p
    OBVIOUS
  <2>7. x * p \in Nat
    OBVIOUS
  <2>8. x = 0
    <3>1. PICK y \in Nat : y = x * p
      BY <2>7
    <3>2. y <= next /\ next < p /\ (x # 0 => y >= p)
      BY <2>4, <2>5, <2>6, <3>1, Zenon
    <3> QED
      BY <1>6, <3>1, <3>2
  <2> QED
    BY <2>5, <2>8
<1>8. stops \in SUBSET (0..n) /\ stops # {}
  BY <1>1
<1>9. stop \in stops /\ \A j \in stops : j <= stop
  <2> HIDE DEF stops
  <2> QED
    BY <1>8, GreatestUpTo
<1>10. st.stop_at \in 2..n /\ \A j \in 1..n : LeftOf(j, st.stop_at) <=> j < st.stop_at
  <2>1. st.stop_at \in 2..n
    BY <1>1
  <2> QED
    BY <2>1 DEF LeftOf
<1>11. stop \in 1..st.stop_at - 1 /\ c[stop - 1] = 0 /\ n + 1 - stop <= w2
  <2> DEFINE j == n + 1 - w2
  <2>1. j \in 1..n /\ j < st.stop_at /\ j - 1 \in 0..n /\ n - (j - 1) >= w2
    BY <1>1
  <2>2. c[j - 1] = 0
    BY <1>7, <2>1
  <2>3. j \in stops
    BY <1>1, <1>10, <2>1, <2>2
  <2>4. j <= stop /\ stop \in stops
    BY <1>9, <2>3
  <2>5. stop \in 0..n /\ stop # 0
    <3>1. stop \in 0..n
      BY <1>8, <2>4
    <3> HIDE DEF stop
    <3> QED
      BY <2>1, <2>4, <3>1
  <2>6. LeftOf(stop, st.stop_at) /\ c[stop - 1] = 0 /\ stop \in 1..n
    <3> HIDE DEF stop
    <3> QED
      BY <1>1, <2>4, <2>5
  <2> HIDE DEF stop
  <2> QED
    BY <1>10, <2>1, <2>4, <2>6
<1> HIDE DEF stop
\* Nothing is carried into the digits left of stop.
<1> DEFINE T == {k \in 0..stop - 1 : c[(stop - 1) - k] = 0}
<1>12. stop - 1 \in Nat /\ 0 \in T
  BY <1>11
<1>13. ASSUME NEW k \in 0..stop - 1, k \in T, k < stop - 1 PROVE k + 1 \in T
  <2>1. PICK j \in 1..n : j = (stop - 1) - k /\ j - 1 = (stop - 1) - (k + 1) /\ j < st.stop_at
    <3>1. PICK h \in 1..n : h = st.stop_at
      BY <1>1
    <3>2. stop \in 1..h - 1
      BY <1>11, <3>1
    <3>3. (stop - 1) - k \in 1..n /\ ((stop - 1) - k) - 1 = (stop - 1) - (k + 1)
          /\ (stop - 1) - k < h
      BY <1>13, <3>2
    <3> QED
      BY <3>1, <3>3
  <2>2. s[j] = 0 /\ c[j] = 0
    <3>1. j \in 1..st.stop_at - 1
      BY <1>1, <2>1
    <3> QED
      BY <1>1, <1>13, <2>1, <3>1
  <2>3. c[j - 1] = 0
    <3>1. c[j - 1] = (0 + InBase * 0) \div OutBase
      BY <1>4, <2>2
    <3>2. (0 + InBase * 0) = 0 /\ 0 \div OutBase = 0
      BY <1>3
    <3> QED
      BY <3>1, <3>2
  <2>4. k + 1 \in 0..stop - 1
    BY <1>12, <1>13
  <2> QED
    BY <2>1, <2>3, <2>4
<1>14. \A j \in 0..stop - 1 : c[j] = 0
  <2>1. 0..stop - 1 \subseteq T
    <3> HIDE DEF T
    <3> QED
      BY <1>12, <1>13, UpTo
  <2> SUFFICES ASSUME NEW j \in 0..stop - 1 PROVE c[j] = 0
    OBVIOUS
  <2>2. (stop - 1) - j \in 0..stop - 1 /\ (stop - 1) - ((stop - 1) - j) = j
    BY <1>12
  <2> QED
    BY <2>1, <2>2
<1>15. \A j \in 1..n : b[j] = t[j]
  <2> SUFFICES ASSUME NEW j \in 1..n PROVE b[j] = t[j]
    OBVIOUS
  <2>1. CASE j < stop
    <3>1. j \in 0..stop - 1 /\ j \in 1..st.stop_at - 1
      BY <1>1, <1>11, <2>1
    <3>2. s[j] = 0 /\ c[j] = 0
      BY <1>1, <1>14, <3>1
    <3>3. b[j] = 0
      BY <1>1, <2>1, <3>2
    <3>4. t[j] = (0 + InBase * 0) % OutBase
      BY <3>2
    <3>5. 0 + InBase * 0 = 0 /\ 0 % OutBase = 0
      BY <1>3
    <3> QED
      BY <3>3, <3>4, <3>5
  <2>2. CASE ~(j < stop)
    BY <1>1, <2>2
  <2> QED
    BY <2>1, <2>2
<1>16. b = t
  <2>1. b = [j \in 1..n |-> b[j]] /\ t = [j \in 1..n |-> t[j]]
    BY <1>1
  <2> HIDE DEF b, t
  <2> QED
    BY <1>15, <2>1
<1>17. ValueOf(OutBase, b) = next
  <2>1. c[0] = 0
    BY <1>12, <1>14
  <2>2. Power(OutBase, n) \in Nat
    BY <1>3, PowerIs
  <2>3. ValueOf(OutBase, t) + 0 * Power(OutBase, n) = next
    BY <1>5, <2>1
  <2>4. PICK p \in Nat, v \in Nat : p = Power(OutBase, n) /\ v = ValueOf(OutBase, t)
    BY <1>5, <2>2
  <2>5. v + 0 * p = v
    OBVIOUS
  <2> QED
    BY <1>16, <2>3, <2>4, <2>5, Zenon
<1>18. ASSUME NEW j \in 1..stop - 1 PROVE b[j] = 0
  <2>1. PICK h \in 1..n : h = st.stop_at
    BY <1>1
  <2>2. stop \in 1..h - 1
    BY <1>11, <2>1
  <2>3. j \in 1..n /\ j < stop /\ j \in 1..h - 1
    BY <2>2
  <2> QED
    BY <1>1, <2>1, <2>3
<1>19. Sound([stop_at |-> stop, buffer |-> b], n, w2)
  <2>1. stop \in 1..n /\ n + 1 - stop <= w2
    BY <1>1, <1>11
  <2>2. b \in Seq(0..OutBase - 1) /\ Len(b) = n
    <3> HIDE DEF b, t
    <3> QED
      BY <1>5, <1>16
  <2> HIDE DEF b
  <2> QED
    BY <1>18, <2>1, <2>2 DEF Sound
<1> HIDE DEF b
<1> QED
  BY <1>2, <1>5, <1>17, <1>19 DEF next, s

LEMMA AddByteTyped ==
    ASSUME NEW n \in Nat, NEW st \in [buffer : [1..n -> 0..OutBase - 1], stop_at : 0..n],
           NEW byte \in 0..InBase - 1
    PROVE  AddByte(st, byte) \in [buffer : [1..n -> 0..OutBase - 1], stop_at : 0..n]
<1> DEFINE s == st.buffer
           c == Carry(s, byte)
           stops == {j \in DOMAIN s : LeftOf(j, st.stop_at) /\ c[j - 1] = 0} \cup {0}
           stop == Max(stops)
           b == [j \in DOMAIN s |-> IF j < stop THEN s[j] ELSE (c[j] + InBase * s[j]) % OutBase]
<1>1. AddByte(st, byte) = [stop_at |-> stop, buffer |-> b]
  BY Zenon DEF AddByte
<1>2. InBase \in Nat /\ OutBase \in Nat \ {0} /\ byte \in Nat
  BY BasesAre
<1>3. s \in [1..n -> 0..OutBase - 1] /\ DOMAIN s = 1..n
  OBVIOUS
<1> HIDE DEF s
<1>4. s \in Seq(Nat) /\ Len(s) = n /\ \A j \in 1..n : s[j] \in Nat
  <2>1. \A j \in 1..n : s[j] \in Nat
    BY <1>2, <1>3
  <2>2. s \in [1..n -> Nat]
    BY <1>3, <2>1
  <2> QED
    BY <2>1, <2>2
<1>5. c \in [0..n -> Nat]
  <2> HIDE DEF c
  <2> QED
    BY <1>2, <1>4, CarryIs DEF c
<1> HIDE DEF c
<1>6. stop \in 0..n
  <2>1. stops \in SUBSET (0..n) /\ stops # {}
    BY <1>3
  <2> HIDE DEF stops
  <2> QED
    BY <2>1, GreatestUpTo
<1> HIDE DEF stop
<1>7. \A j \in 1..n : b[j] \in 0..OutBase - 1
  <2> SUFFICES ASSUME NEW j \in 1..n PROVE b[j] \in 0..OutBase - 1
    OBVIOUS
  <2>1. PICK x \in Nat, y \in Nat, a \in Nat : x = c[j] /\ y = s[j] /\ a = InBase
    <3>1. j \in 0..n
      OBVIOUS
    <3> QED
      BY <1>2, <1>4, <1>5, <3>1
  <2>2. PICK ay \in Nat : ay = a * y
    OBVIOUS
  <2>3. PICK v \in Nat : v = x + ay
    OBVIOUS
  <2>4. v % OutBase \in 0..OutBase - 1
    BY <1>2, DivIs
  <2>5. (c[j] + InBase * s[j]) % OutBase = v % OutBase
    BY <2>1, <2>2, <2>3, Zenon
  <2>6. s[j] \in 0..OutBase - 1
    BY <1>3
  <2> QED
    BY <1>3, <2>4, <2>5, <2>6
<1>8. b \in [1..n -> 0..OutBase - 1]
  <2>1. b = [j \in 1..n |-> b[j]]
    BY <1>3
  <2> HIDE DEF b
  <2> QED
    BY <1>7, <2>1
<1> HIDE DEF b
<1> QED
  BY <1>1, <1>6, <1>8

\* A number of n bytes is less than the power that has its digits.
LEMMA SizesFit ==
    /\ AddressSize \in Nat /\ \A n \in Nat : OutputSize(n) \in Nat \ {0}
    /\ OutputSize(0) = 1 /\ \A n \in Nat : OutputSize(n) < OutputSize(n + 1)
    /\ \A n \in 0..AddressSize : Power(InBase, n) <= Power(OutBase, OutputSize(n))
<1>1. Growth \in Nat /\ Growth >= 100 /\ AddressSize \in Nat
  BY BaseAssumption, Zenon
<1>2. \A n \in 0..AddressSize : Power(InBase, n) <= Power(OutBase, OutputSize(n))
  BY BaseAssumption, Zenon
<1>3. ASSUME NEW n \in Nat PROVE n * Growth \in Nat /\ (n + 1) * Growth = n * Growth + Growth
  BY <1>1
<1>4. \A n \in Nat : OutputSize(n) \in Nat \ {0}
  <2> SUFFICES ASSUME NEW n \in Nat PROVE OutputSize(n) \in Nat \ {0}
    OBVIOUS
  <2>1. PICK m \in Nat : m = n * Growth
    BY <1>3
  <2>2. (m \div 100) + 1 \in Nat \ {0}
    OBVIOUS
  <2> QED
    BY <2>1, <2>2 DEF OutputSize
<1>5. OutputSize(0) = 1
  <2>1. 0 * Growth = 0 /\ (0 \div 100) + 1 = 1
    BY <1>1
  <2> QED
    BY <2>1 DEF OutputSize
<1>6. \A n \in Nat : OutputSize(n) < OutputSize(n + 1)
  <2> SUFFICES ASSUME NEW n \in Nat PROVE OutputSize(n) < OutputSize(n + 1)
    OBVIOUS
  <2>1. PICK m \in Nat, g \in Nat : m = n * Growth /\ g = Growth
    BY <1>1, <1>3
  <2>2. g >= 100 /\ (n + 1) * Growth = m + g
    BY <1>1, <1>3, <2>1
  <2>3. (m \div 100) + 1 < ((m + g) \div 100) + 1
    <3>1. g >= 100
      BY <2>2
    <3> QED
      BY <3>1
  <2> QED
    BY <2>1, <2>2, <2>3 DEF OutputSize
<1> QED
  BY <1>1, <1>2, <1>4, <1>5, <1>6

LEMMA BytesAre ==
    ASSUME NEW bytes \in Seq(0..InBase - 1)
    PROVE  /\ Len(bytes) \in Nat /\ bytes \in Seq(Nat)
           /\ \A k \in 1..Len(bytes) : bytes[k] \in 0..InBase - 1 /\ bytes[k] \in Nat
<1> DEFINE B == 0..InBase - 1
<1>1. B \subseteq Nat
  BY BasesAre
<1>2. bytes \in Seq(B)
  OBVIOUS
<1> HIDE DEF B
<1>3. Len(bytes) \in Nat /\ \A k \in 1..Len(bytes) : bytes[k] \in B
  BY <1>2
<1>4. bytes \in Seq(Nat)
  BY <1>1, <1>2, SeqMonotonic
<1> QED
  BY <1>1, <1>3, <1>4 DEF B

\* f has the numbers that the first digits are.
Reads(f, base, s) == f[0] = 0 /\ \A k \in 1..Len(s) : f[k] = base * f[k - 1] + s[k]

LEMMA ValueBelow ==
    ASSUME NEW bytes \in Seq(0..InBase - 1), NEW f,
           f \in [0..Len(bytes) -> Nat], Reads(f, InBase, bytes)
    PROVE  \A k \in 0..Len(bytes) : f[k] < Power(InBase, k) /\ Power(InBase, k) \in Nat
<1> DEFINE l == Len(bytes)
           P == [k \in Nat |-> Power(InBase, k)]
           T == {k \in 0..l : f[k] < P[k]}
<1>1. /\ l \in Nat /\ InBase \in Nat /\ f \in [0..l -> Nat]
      /\ \A k \in 1..l : bytes[k] \in 0..InBase - 1 /\ bytes[k] \in Nat
  BY BasesAre, BytesAre
<1>2. P[0] = 1 /\ \A k \in Nat : P[k] \in Nat /\ P[k + 1] = InBase * P[k]
  <2>1. \A k \in Nat : k + 1 \in Nat /\ 0 \in Nat
    OBVIOUS
  <2> QED
    BY <1>1, <2>1, PowerIs
<1>3. P[0] = 1 /\ \A k \in Nat : P[k] = Power(InBase, k) /\ P[k] \in Nat
  BY <1>2
<1> HIDE DEF P, l
<1>4. 0 \in T
  <2>1. f[0] = 0 /\ 0 \in 0..l
    BY <1>1 DEF Reads
  <2>2. 0 < 1
    OBVIOUS
  <2> QED
    BY <1>3, <2>1, <2>2, Zenon
<1>5. ASSUME NEW k \in 0..l, k \in T, k < l PROVE k + 1 \in T
  <2>1. k + 1 \in 1..l /\ k \in Nat /\ (k + 1) - 1 = k /\ k + 1 \in 0..l
    BY <1>1, <1>5
  <2>2. f[k + 1] = InBase * f[k] + bytes[k + 1] /\ P[k + 1] = InBase * P[k]
    BY <1>2, <2>1 DEF l, Reads
  <2>3. bytes[k + 1] \in 0..InBase - 1 /\ bytes[k + 1] \in Nat
    BY <1>1, <2>1
  <2>9. f[k] \in Nat /\ P[k] \in Nat /\ f[k] < P[k]
    BY <1>1, <1>3, <1>5, <2>1
  <2>4. PICK a \in Nat, x \in Nat, p \in Nat, y \in Nat :
            a = InBase /\ x = f[k] /\ p = P[k] /\ y = bytes[k + 1]
    BY <1>1, <2>3, <2>9, Zenon
  <2>5. x < p /\ y < a
    <3>1. x < p /\ y \in 0..a - 1
      BY <2>3, <2>4, <2>9, Zenon
    <3> QED
      BY <3>1
  <2>6. PICK d \in Nat : p = (x + 1) + d
    <3>1. p - (x + 1) \in Nat /\ p = (x + 1) + (p - (x + 1))
      BY <2>5
    <3> QED
      BY <3>1
  <2>7. a * x + y < a * p
    <3>1. a * p = a * x + a + a * d
      BY <2>6
    <3>2. PICK ax \in Nat, ad \in Nat : ax = a * x /\ ad = a * d
      OBVIOUS
    <3>3. ax + y < ax + a + ad
      BY <2>5
    <3> QED
      BY <3>1, <3>2, <3>3, Zenon
  <2>8. f[k + 1] < P[k + 1]
    BY <2>2, <2>4, <2>7, Zenon
  <2> QED
    BY <2>1, <2>8
<1>6. 0..l \subseteq T
  <2> HIDE DEF T
  <2> QED
    BY <1>1, <1>4, <1>5, UpTo
<1>7. \A k \in 0..l : f[k] < P[k] /\ P[k] \in Nat /\ P[k] = Power(InBase, k)
  BY <1>3, <1>6
<1> QED
  BY <1>7 DEF l

\* The definition of Divided, as a recursion.
LEMMA DividedFollows ==
    ASSUME NEW bytes \in Seq(0..InBase - 1), NEW n \in Nat
    PROVE  \E st \in [0..Len(bytes) -> [buffer : [1..n -> 0..OutBase - 1], stop_at : 0..n]] :
               /\ st[0] = [buffer |-> [j \in 1..n |-> 0], stop_at |-> n]
               /\ \A k \in 1..Len(bytes) : st[k] = AddByte(st[k - 1], bytes[k])
               /\ Divided(bytes, n) = st[Len(bytes)].buffer
<1> DEFINE l == Len(bytes)
           S == [buffer : [1..n -> 0..OutBase - 1], stop_at : 0..n]
           blank == [buffer |-> [j \in 1..n |-> 0], stop_at |-> n]
           step == [x \in S \X (1..l) |-> AddByte(x[1], bytes[x[2]])]
           Value(h, k) == IF k = 0 THEN blank ELSE AddByte(h[k - 1], bytes[k])
           Def(h) == h = [k \in 0..l |-> Value(h, k)]
           st == CHOOSE h : Def(h)
<1>1. l \in Nat /\ \A k \in 1..l : bytes[k] \in 0..InBase - 1
  BY BytesAre
<1> HIDE DEF l
<1>2. step \in [S \X (1..l) -> S]
  <2> SUFFICES ASSUME NEW x \in S \X (1..l) PROVE AddByte(x[1], bytes[x[2]]) \in S
    BY Zenon
  <2>1. PICK y \in S, k \in 1..l : y = x[1] /\ k = x[2]
    <3>1. x[1] \in S /\ x[2] \in 1..l
      <4> HIDE DEF S
      <4> QED
        OBVIOUS
    <3> QED
      BY <3>1, Zenon
  <2>2. PICK byte \in 0..InBase - 1 : byte = bytes[k]
    BY <1>1
  <2>3. AddByte(y, byte) \in S
    BY AddByteTyped
  <2> HIDE DEF S
  <2> QED
    BY <2>1, <2>2, <2>3
<1>3. blank \in S
  <2>1. 0 \in 0..OutBase - 1 /\ n \in 0..n
    BY BasesAre
  <2> QED
    BY <2>1
<1> HIDE DEF S, blank
<1>4. PICK f \in [0..l -> S] : Follows(f, blank, step, l)
  <2> HIDE DEF step
  <2> QED
    BY <1>1, <1>2, <1>3, RecursionExists
<1>5. \A k \in 0..l : f[k] = Value(f, k)
  <2> SUFFICES ASSUME NEW k \in 0..l PROVE f[k] = Value(f, k)
    OBVIOUS
  <2>1. CASE k = 0
    BY <1>4, <2>1, Zenon DEF Follows
  <2>2. CASE k # 0
    <3>1. k \in 1..l /\ k - 1 \in 0..l
      BY <1>1, <2>2
    <3>2. f[k - 1] \in S /\ f[k] = step[<<f[k - 1], k>>]
      BY <1>4, <3>1 DEF Follows
    <3>3. PICK y \in S : y = f[k - 1]
      BY <3>2
    <3>4. <<y, k>> \in S \X (1..l)
      BY <3>1
    <3>5. step[<<y, k>>] = AddByte(y, bytes[k])
      BY <3>4
    <3> QED
      BY <2>2, <3>2, <3>3, <3>5
  <2> QED
    BY <2>1, <2>2
<1>6. Def(f)
  <2> HIDE DEF Value
  <2>1. f = [k \in 0..l |-> f[k]]
    OBVIOUS
  <2>2. [k \in 0..l |-> f[k]] = [k \in 0..l |-> Value(f, k)]
    BY <1>5
  <2> QED
    BY <2>1, <2>2
<1>7. Def(st)
  <2> HIDE DEF Def
  <2> QED
    BY <1>6
<1>8. Divided(bytes, n) = st[l].buffer
  BY DEF Divided, blank, l
<1> HIDE DEF st
<1>9. \A k \in 0..l : st[k] = Value(st, k)
  <2> HIDE DEF Value
  <2>1. st = [k \in 0..l |-> Value(st, k)]
    BY <1>7
  <2> QED
    BY <2>1
<1>10. \A k \in 1..l : k \in 0..l /\ k - 1 \in 0..l /\ k # 0
  BY <1>1
<1>11. st[0] = blank /\ \A k \in 1..l : st[k] = AddByte(st[k - 1], bytes[k])
  <2>1. 0 \in 0..l
    BY <1>1
  <2> QED
    BY <1>9, <1>10, <2>1
<1> DEFINE T == {k \in 0..l : st[k] = f[k]}
<1>12. 0 \in T
  <2>1. 0 \in 0..l
    BY <1>1
  <2> QED
    BY <1>4, <1>11, <2>1 DEF Follows
<1>13. ASSUME NEW k \in 0..l, k \in T, k < l PROVE k + 1 \in T
  <2>1. k + 1 \in 1..l /\ (k + 1) - 1 = k /\ k + 1 \in 0..l /\ k + 1 # 0
    BY <1>1, <1>13
  <2>2. st[k + 1] = AddByte(st[k], bytes[k + 1])
    BY <1>11, <2>1
  <2>3. f[k + 1] = AddByte(f[k], bytes[k + 1])
    <3>1. f[k + 1] = Value(f, k + 1)
      BY <1>5, <2>1
    <3> QED
      BY <2>1, <3>1
  <2> QED
    BY <1>13, <2>1, <2>2, <2>3
<1>14. 0..l \subseteq T
  <2> HIDE DEF T
  <2> QED
    BY <1>1, <1>12, <1>13, UpTo
<1>15. st \in [0..l -> S]
  <2>1. st = [k \in 0..l |-> st[k]]
    <3> HIDE DEF Value
    <3>1. st = [k \in 0..l |-> Value(st, k)]
      BY <1>7
    <3>2. [k \in 0..l |-> Value(st, k)] = [k \in 0..l |-> st[k]]
      BY <1>9
    <3> QED
      BY <3>1, <3>2, Zenon
  <2>2. \A k \in 0..l : st[k] \in S
    BY <1>4, <1>14
  <2> QED
    BY <2>1, <2>2
<1> QED
  BY <1>8, <1>11, <1>15 DEF S, blank, l

LEMMA SizesGrow ==
    ASSUME NEW n \in Nat, NEW m \in 0..n
    PROVE  OutputSize(m) + (n - m) <= OutputSize(n)
<1> DEFINE T == {k \in 0..n - m : OutputSize(m) + k <= OutputSize(m + k)}
<1>1. n - m \in Nat /\ m \in Nat /\ m + (n - m) = n
  OBVIOUS
<1>2. 0 \in T
  <2>1. OutputSize(m) \in Nat
    BY <1>1, SizesFit
  <2>2. m + 0 = m /\ 0 \in 0..n - m
    BY <1>1
  <2> QED
    BY <2>1, <2>2
<1>3. ASSUME NEW k \in 0..n - m, k \in T, k < n - m PROVE k + 1 \in T
  <2>1. m + k \in Nat /\ m + (k + 1) = (m + k) + 1 /\ k + 1 \in 0..n - m
    BY <1>1, <1>3
  <2>2. OutputSize(m + k) < OutputSize((m + k) + 1)
    BY <2>1, SizesFit
  <2>3. /\ OutputSize(m + k) \in Nat /\ OutputSize((m + k) + 1) \in Nat
        /\ OutputSize(m) \in Nat
    <3>1. (m + k) + 1 \in Nat
      BY <2>1
    <3> QED
      BY <1>1, <2>1, <3>1, SizesFit
  <2>4. OutputSize(m) + k <= OutputSize(m + k)
    BY <1>3
  <2>5. OutputSize(m) + (k + 1) <= OutputSize(m + (k + 1))
    BY <1>1, <2>1, <2>2, <2>3, <2>4
  <2> QED
    BY <2>1, <2>5
<1>4. 0..n - m \subseteq T
  <2> HIDE DEF T
  <2> QED
    BY <1>1, <1>2, <1>3, UpTo
<1> QED
  BY <1>1, <1>4

\* The digits are the number that the bytes are.
LEMMA DividedIs ==
    ASSUME NEW bytes \in Seq(0..InBase - 1), Len(bytes) <= AddressSize
    PROVE  LET n == OutputSize(Len(bytes))
               digits == Divided(bytes, n)
           IN  /\ digits \in Seq(0..OutBase - 1) /\ Len(digits) = n
               /\ ValueOf(OutBase, digits) = ValueOf(InBase, bytes)
<1> DEFINE l == Len(bytes)
           n == OutputSize(l)
<1>1. /\ l \in Nat /\ bytes \in Seq(Nat) /\ l \in 0..AddressSize
      /\ \A k \in 1..l : bytes[k] \in 0..InBase - 1 /\ bytes[k] \in Nat
  BY BytesAre, SizesFit
<1>2. n \in Nat \ {0} /\ InBase \in Nat /\ OutBase \in Nat \ {0}
  BY <1>1, BasesAre, SizesFit
<1> HIDE DEF n
<1>3. PICK st \in [0..l -> [buffer : [1..n -> 0..OutBase - 1], stop_at : 0..n]] :
          /\ st[0] = [buffer |-> [j \in 1..n |-> 0], stop_at |-> n]
          /\ \A k \in 1..l : st[k] = AddByte(st[k - 1], bytes[k])
          /\ Divided(bytes, n) = st[l].buffer
  <2>1. n \in Nat
    BY <1>2
  <2> QED
    BY <2>1, DividedFollows
<1>4. PICK f \in [0..l -> Nat] : Reads(f, InBase, bytes) /\ ValueOf(InBase, bytes) = f[l]
  BY <1>1, <1>2, ValueFollows DEF Reads
<1>5. \A k \in 0..l : f[k] < Power(InBase, k) /\ Power(InBase, k) \in Nat
  BY <1>4, ValueBelow
<1> DEFINE T == {k \in 0..l : /\ Sound(st[k], n, OutputSize(k))
                              /\ ValueOf(OutBase, st[k].buffer) = f[k]}
<1>6. 0 \in T
  <2> DEFINE zeros == [j \in 1..n |-> 0]
  <2>1. zeros \in Seq(Nat) /\ Len(zeros) = n /\ zeros \in Seq(0..OutBase - 1)
    <3>1. 0 \in 0..OutBase - 1
      BY <1>2, BasesAre
    <3>2. n \in Nat
      BY <1>2
    <3> DEFINE B == 0..OutBase - 1
    <3>3. zeros \in [1..n -> B] /\ zeros \in [1..n -> Nat]
      BY <3>1
    <3> HIDE DEF B, zeros
    <3>4. zeros \in Seq(B) /\ Len(zeros) = n /\ zeros \in Seq(Nat)
      BY <3>2, <3>3
    <3> QED
      BY <3>4 DEF B
  <2>2. ValueOf(OutBase, zeros) = 0
    <3> DEFINE g == [k \in 0..n |-> 0]
    <3>1. g[0] = 0 /\ \A k \in 1..n : g[k] \in Nat /\ g[k] = OutBase * g[k - 1] + zeros[k]
      <4>1. OutBase * 0 + 0 = 0
        BY <1>2
      <4>2. \A k \in 1..n : k \in 0..n /\ k - 1 \in 0..n
        BY <1>2
      <4>3. 0 \in 0..n
        BY <1>2
      <4> QED
        BY <4>1, <4>2, <4>3
    <3>2. g[n] = 0
      BY <1>2
    <3>3. OutBase \in Nat
      BY <1>2
    <3> HIDE DEF g, zeros
    <3>4. ValueOf(OutBase, zeros) = g[Len(zeros)]
      BY <2>1, <3>1, <3>3, ValueIs
    <3> QED
      BY <2>1, <3>2, <3>4
  <2>3. Sound(st[0], n, OutputSize(0))
    <3>1. OutputSize(0) = 1 /\ n \in 1..n /\ n + 1 - n <= 1
      BY <1>2, SizesFit
    <3>2. \A j \in 1..n - 1 : zeros[j] = 0
      BY <1>2
    <3> HIDE DEF zeros
    <3>3. st[0].buffer = zeros /\ st[0].stop_at = n
      BY <1>3 DEF zeros
    <3> QED
      BY <2>1, <3>1, <3>2, <3>3 DEF Sound
  <2>4. f[0] = 0 /\ 0 \in 0..l /\ st[0].buffer = zeros
    BY <1>1, <1>3, <1>4 DEF Reads
  <2> QED
    BY <2>2, <2>3, <2>4
<1>7. ASSUME NEW k \in 0..l, k \in T, k < l PROVE k + 1 \in T
  <2>1. k + 1 \in 1..l /\ k \in Nat /\ k + 1 \in Nat /\ (k + 1) - 1 = k /\ k + 1 \in 0..l
    BY <1>1, <1>7
  <2>2. PICK byte \in 0..InBase - 1 : byte = bytes[k + 1]
    BY <1>1, <2>1
  <2>3. st[k + 1] = AddByte(st[k], byte) /\ f[k + 1] = InBase * f[k] + byte
    BY <1>3, <1>4, <2>1, <2>2 DEF Reads
  <2>4. PICK w \in Nat, w2 \in 0..n : w = OutputSize(k) /\ w2 = OutputSize(k + 1) /\ w < w2
    <3>1. OutputSize(k) \in Nat /\ OutputSize(k + 1) \in Nat /\ OutputSize(k) < OutputSize(k + 1)
      BY <2>1, SizesFit
    <3>2. OutputSize(k + 1) + (l - (k + 1)) <= n
      BY <1>1, <2>1, SizesGrow DEF n
    <3>3. OutputSize(k + 1) \in 0..n
      BY <1>1, <1>2, <2>1, <3>1, <3>2
    <3> QED
      BY <3>1, <3>3
  <2>5. Sound(st[k], n, w) /\ ValueOf(OutBase, st[k].buffer) = f[k]
    BY <1>7, <2>4
  <2>6. InBase * ValueOf(OutBase, st[k].buffer) + byte < Power(OutBase, w2)
    <3>1. k + 1 \in 0..AddressSize
      BY <1>1, <2>1, SizesFit
    <3>2. Power(InBase, k + 1) <= Power(OutBase, w2)
      BY <2>4, <3>1, SizesFit
    <3>3. f[k + 1] < Power(InBase, k + 1) /\ Power(InBase, k + 1) \in Nat /\ f[k + 1] \in Nat
      BY <1>5, <2>1
    <3>4. Power(OutBase, w2) \in Nat
      <4>1. w2 \in Nat /\ OutBase \in Nat
        BY <1>2
      <4> QED
        BY <4>1, PowerIs
    <3>5. f[k + 1] < Power(OutBase, w2)
      BY <3>2, <3>3, <3>4
    <3> QED
      BY <2>3, <2>5, <3>5, Zenon
  <2>7. /\ Sound(AddByte(st[k], byte), n, w2)
        /\ ValueOf(OutBase, AddByte(st[k], byte).buffer) = InBase * ValueOf(OutBase, st[k].buffer) + byte
    <3>1. n \in Nat
      BY <1>2
    <3> QED
      BY <2>4, <2>5, <2>6, <3>1, AddByteIs
  <2>8. Sound(st[k + 1], n, OutputSize(k + 1)) /\ ValueOf(OutBase, st[k + 1].buffer) = f[k + 1]
    BY <2>3, <2>4, <2>5, <2>7, Zenon
  <2> QED
    BY <2>1, <2>8
<1>8. 0..l \subseteq T
  <2> HIDE DEF T
  <2> QED
    BY <1>1, <1>6, <1>7, UpTo
<1>9. Sound(st[l], n, OutputSize(l)) /\ ValueOf(OutBase, st[l].buffer) = f[l]
  <2>1. l \in 0..l
    BY <1>1
  <2> QED
    BY <1>8, <2>1
<1> QED
  BY <1>3, <1>4, <1>9 DEF Sound, n

-----------------------------------------------------------------------------
(* The text.                                                               *)

LEMMA LeadingZerosIs ==
    ASSUME NEW s \in Seq(Nat)
    PROVE  LET z == LeadingZeros(s)
           IN  /\ z \in 0..Len(s) /\ \A i \in 1..z : s[i] = 0
               /\ z < Len(s) => s[z + 1] # 0
<1> DEFINE n == Len(s)
           Z == {k \in 0..n : \A i \in 1..k : s[i] = 0}
           z == Max(Z)
<1>1. n \in Nat
  OBVIOUS
<1>2. LeadingZeros(s) = z
  BY DEF LeadingZeros
<1> HIDE DEF n
<1>3. Z \in SUBSET (0..n) /\ Z # {}
  <2>1. 0 \in Z
    BY <1>1
  <2> QED
    BY <2>1
<1>4. z \in Z /\ \A k \in Z : k <= z
  <2> HIDE DEF Z
  <2> QED
    BY <1>1, <1>3, GreatestUpTo
<1>5. z \in 0..n /\ \A i \in 1..z : s[i] = 0
  <2> HIDE DEF z
  <2> QED
    BY <1>4
<1> HIDE DEF z
<1>6. ASSUME z < n, s[z + 1] = 0 PROVE FALSE
  <2>1. z + 1 \in 0..n /\ ~(z + 1 <= z)
    BY <1>1, <1>5, <1>6
  <2>2. \A i \in 1..z + 1 : i \in 1..z \/ i = z + 1
    BY <1>5
  <2>3. z + 1 \in Z
    BY <1>5, <1>6, <2>1, <2>2
  <2> QED
    BY <1>4, <2>1, <2>3
<1> QED
  BY <1>2, <1>5, <1>6 DEF n

LEMMA ZerosThen ==
    ASSUME NEW z \in Nat, NEW t \in Seq(Nat), Len(t) # 0 => t[1] # 0
    PROVE  LET s == [i \in 1..z |-> 0] \o t
           IN  s \in Seq(Nat) /\ Len(s) = z + Len(t) /\ LeadingZeros(s) = z
<1> DEFINE zeros == [i \in 1..z |-> 0]
           s == zeros \o t
           m == LeadingZeros(s)
<1>1. zeros \in Seq(Nat) /\ Len(zeros) = z /\ \A i \in 1..z : zeros[i] = 0
  OBVIOUS
<1> HIDE DEF zeros
<1>2. s \in Seq(Nat) /\ Len(s) = z + Len(t) /\ Len(t) \in Nat
  BY <1>1
<1>3. \A i \in 1..z : s[i] = 0
  BY <1>1
<1>4. Len(t) # 0 => s[z + 1] = t[1]
  BY <1>1
<1> HIDE DEF s
<1>5. m \in 0..Len(s) /\ (\A i \in 1..m : s[i] = 0) /\ (m < Len(s) => s[m + 1] # 0)
  BY <1>2, LeadingZerosIs
<1> HIDE DEF m
<1>6. m >= z
  <2>1. CASE m < z
    <3>1. m + 1 \in 1..z /\ m < Len(s)
      BY <1>2, <1>5, <2>1
    <3> QED
      BY <1>3, <1>5, <3>1
  <2> QED
    BY <1>2, <1>5, <2>1
<1>7. m <= z
  <2>1. CASE m > z
    <3>1. z + 1 \in 1..m /\ Len(t) # 0
      BY <1>2, <1>5, <2>1
    <3> QED
      BY <1>4, <1>5, <3>1
  <2> QED
    BY <1>2, <1>5, <2>1
<1>8. m = z
  BY <1>2, <1>5, <1>6, <1>7
<1> QED
  BY <1>2, <1>8 DEF m, s, zeros

LEMMA PartIs ==
    ASSUME NEW S, NEW s \in Seq(S), NEW m \in 0..Len(s), NEW n \in m..Len(s)
    PROVE  LET part == SubSeq(s, m + 1, n)
           IN  /\ part \in Seq(S) /\ Len(part) = n - m
               /\ \A i \in 1..n - m : part[i] = s[m + i] /\ m + i \in 1..Len(s)
<1> DEFINE part == SubSeq(s, m + 1, n)
<1>1. m \in Int /\ n \in Int /\ m + 1 \in Int /\ Len(s) \in Nat /\ n - (m + 1) + 1 = n - m
  OBVIOUS
<1>2. \A i \in m + 1..n : i \in 1..Len(s)
  OBVIOUS
<1>3. \A i \in m + 1..n : s[i] \in S
  BY <1>2
<1>4. /\ part \in Seq(S) /\ Len(part) = IF m + 1 <= n THEN n - (m + 1) + 1 ELSE 0
      /\ \A i \in 1..n - (m + 1) + 1 : part[i] = s[(m + 1) + i - 1]
  BY <1>1, <1>3, SubSeqProperties
<1> HIDE DEF part
<1>5. Len(part) = n - m
  BY <1>1, <1>4
<1>6. \A i \in 1..n - m : (m + 1) + i - 1 = m + i /\ m + i \in 1..Len(s)
  OBVIOUS
<1>7. \A i \in 1..n - m : part[i] = s[m + i]
  BY <1>1, <1>4, <1>6
<1> QED
  BY <1>4, <1>5, <1>6, <1>7 DEF part

\* A sequence is its leading zeros and the rest.
LEMMA SplitAtZeros ==
    ASSUME NEW B \in SUBSET Nat, NEW s \in Seq(B)
    PROVE  LET z == LeadingZeros(s)
               rest == SubSeq(s, z + 1, Len(s))
           IN  /\ z \in 0..Len(s) /\ rest \in Seq(B) /\ Len(rest) = Len(s) - z
               /\ s = [i \in 1..z |-> 0] \o rest
               /\ Len(rest) # 0 => rest[1] # 0
<1>1. s \in Seq(Nat) /\ Len(s) \in Nat
  <2>1. B \subseteq Nat
    OBVIOUS
  <2>2. s \in Seq(Nat)
    BY <2>1, SeqMonotonic
  <2> QED
    BY <2>2
<1>2. PICK n \in Nat : n = Len(s)
  BY <1>1
<1>3. PICK z \in 0..n : z = LeadingZeros(s) /\ (\A i \in 1..z : s[i] = 0) /\ (z < n => s[z + 1] # 0)
  BY <1>1, <1>2, LeadingZerosIs
<1> DEFINE zeros == SubSeq(s, 1, z)
           rest == SubSeq(s, z + 1, n)
<1>4. /\ rest \in Seq(B) /\ Len(rest) = n - z /\ \A i \in 1..n - z : rest[i] = s[z + i]
  <2>1. z \in 0..Len(s) /\ n \in z..Len(s)
    BY <1>2
  <2> QED
    BY <2>1, PartIs
<1>5. /\ zeros \in Seq(B) /\ Len(zeros) = z /\ \A i \in 1..z : zeros[i] = s[i]
  <2>1. 0 \in 0..Len(s) /\ z \in 0..Len(s) /\ 0 + 1 = 1 /\ z - 0 = z /\ \A i \in 1..z : 0 + i = i
    BY <1>2
  <2>2. /\ SubSeq(s, 0 + 1, z) \in Seq(B) /\ Len(SubSeq(s, 0 + 1, z)) = z - 0
        /\ \A i \in 1..z - 0 : SubSeq(s, 0 + 1, z)[i] = s[0 + i]
    BY <2>1, PartIs
  <2> QED
    BY <2>1, <2>2
<1>6. zeros \o rest = s
  <2>1. 1 \in 1..Len(s) + 1 /\ z \in 1 - 1..Len(s) /\ n \in z..Len(s)
    BY <1>2
  <2>2. zeros \o rest = SubSeq(s, 1, n)
    BY <2>1, ConcatAdjacentSubSeq
  <2> QED
    BY <1>2, <2>2, SubSeqFull
<1> HIDE DEF zeros, rest
<1>7. zeros = [i \in 1..z |-> 0]
  <2>1. DOMAIN zeros = 1..z /\ zeros = [i \in 1..z |-> zeros[i]]
    BY <1>5
  <2>2. \A i \in 1..z : zeros[i] = 0
    BY <1>3, <1>5
  <2> QED
    BY <2>1, <2>2
<1>8. Len(rest) # 0 => rest[1] # 0
  <2> SUFFICES ASSUME Len(rest) # 0 PROVE rest[1] # 0
    OBVIOUS
  <2>1. z < n /\ 1 \in 1..n - z
    BY <1>4
  <2> QED
    BY <1>3, <1>4, <2>1
<1> QED
  BY <1>2, <1>3, <1>4, <1>6, <1>7, <1>8 DEF rest

LEMMA DigitOfLetter ==
    ASSUME NEW d \in 0..OutBase - 1
    PROVE  Alphabet[1 + d] \in Range(Alphabet) /\ DigitOf(Alphabet[1 + d]) = d
<1>1. Alphabet \in [1..OutBase -> Range(Alphabet)]
  BY BaseAssumption, Zenon
<1>2. \A i, j \in 1..OutBase : Alphabet[i] = Alphabet[j] => i = j
  BY BaseAssumption, Zenon
<1>3. OutBase \in Nat /\ 1 + d \in 1..OutBase
  <2>1. OutBase \in Nat
    BY BasesAre
  <2> QED
    BY <2>1
<1>4. Alphabet[1 + d] \in Range(Alphabet)
  BY <1>1, <1>3
<1> DEFINE e == CHOOSE e \in 0..OutBase - 1 : Alphabet[e + 1] = Alphabet[1 + d]
<1>5. d + 1 = 1 + d
  OBVIOUS
<1>6. e \in 0..OutBase - 1 /\ Alphabet[e + 1] = Alphabet[1 + d]
  BY <1>5, Zenon
<1> HIDE DEF e
<1>7. e + 1 \in 1..OutBase
  BY <1>3, <1>6
<1>8. e + 1 = 1 + d
  BY <1>2, <1>3, <1>6, <1>7
<1>9. e = d
  BY <1>6, <1>8
<1> QED
  BY <1>4, <1>9 DEF DigitOf, e

\* The text of some bytes is their number in base 58, with a first letter for each of their
\* leading zeros, and no longer than the digits that are given to as many bytes.
THEOREM TextEncodes ==
    ASSUME NEW bytes \in Seq(0..InBase - 1), Len(bytes) \in 1..AddressSize + 1, bytes[1] = 0
    PROVE  LET text == xrp_encode_base58_address(bytes)
           IN  /\ text \in Seq(Range(Alphabet)) /\ Encodes(text, bytes)
               /\ Len(text) \in 1..OutputSize(AddressSize) + 1
<1> DEFINE zero_count == LeadingZeros(bytes)
           rest == SubSeq(bytes, zero_count + 1, Len(bytes))
           digits == Divided(rest, OutputSize(Len(rest)))
           significant == SubSeq(digits, LeadingZeros(digits) + 1, Len(digits))
           head == [i \in 1..zero_count |-> Alphabet[1]]
           tail == [i \in DOMAIN significant |-> Alphabet[1 + significant[i]]]
           text == head \o tail
           B == 0..InBase - 1
           D == 0..OutBase - 1
           A == Range(Alphabet)
<1>1. /\ InBase \in Nat /\ OutBase \in Nat /\ OutBase > 1
      /\ B \in SUBSET Nat /\ D \in SUBSET Nat /\ 0 \in D
  BY BasesAre
<1>2. xrp_encode_base58_address(bytes) = text
  BY Zenon DEF xrp_encode_base58_address
<1>3. PICK l \in Nat : l = Len(bytes) /\ l \in 1..AddressSize + 1
  BY SizesFit
<1>4. PICK z \in 1..l : z = zero_count
  <2>1. bytes \in Seq(B)
    OBVIOUS
  <2> HIDE DEF B
  <2>2. bytes \in Seq(Nat)
    <3>1. B \subseteq Nat
      BY <1>1
    <3> QED
      BY <2>1, <3>1, SeqMonotonic
  <2>3. PICK n : n = LeadingZeros(bytes)
    OBVIOUS
  <2>4. n \in 0..l /\ (n < l => bytes[n + 1] # 0)
    BY <1>3, <2>2, <2>3, LeadingZerosIs, Zenon
  <2>5. n # 0
    <3>1. SUFFICES ASSUME n = 0 PROVE FALSE
      OBVIOUS
    <3>2. 0 < l /\ 0 + 1 = 1
      BY <1>3
    <3> QED
      BY <2>4, <3>1, <3>2
  <2>6. n \in 1..l
    BY <2>4, <2>5
  <2> QED
    BY <2>3, <2>6
<1>5. /\ rest \in Seq(B) /\ Len(rest) = l - z
      /\ bytes = [i \in 1..z |-> 0] \o rest
      /\ Len(rest) # 0 => rest[1] # 0
  <2>1. bytes \in Seq(B)
    OBVIOUS
  <2> HIDE DEF B
  <2> QED
    BY <1>1, <1>3, <1>4, <2>1, SplitAtZeros, Zenon
<1> HIDE DEF rest
<1>6. /\ digits \in Seq(D) /\ Len(digits) = OutputSize(l - z)
      /\ ValueOf(OutBase, digits) = ValueOf(InBase, rest)
  <2>1. l - z <= AddressSize
    BY <1>3, <1>4, SizesFit
  <2>2. rest \in Seq(0..InBase - 1) /\ Len(rest) <= AddressSize
    BY <1>5, <2>1
  <2> QED
    BY <1>5, <2>2, DividedIs, Zenon
<1> HIDE DEF digits
<1>7. PICK y \in Nat : y = LeadingZeros(digits) /\ y <= Len(digits)
  <2> HIDE DEF D
  <2>1. digits \in Seq(D) /\ D \in SUBSET Nat
    BY <1>1, <1>6, Zenon
  <2>2. LeadingZeros(digits) \in 0..Len(digits)
    BY <2>1, SplitAtZeros, Zenon
  <2>3. Len(digits) \in Nat
    BY <2>1
  <2> QED
    BY <2>2, <2>3
<1>8. /\ significant \in Seq(D) /\ Len(significant) = Len(digits) - y
      /\ digits = [i \in 1..y |-> 0] \o significant
      /\ Len(significant) # 0 => significant[1] # 0
  <2> HIDE DEF D
  <2> QED
    BY <1>1, <1>6, <1>7, SplitAtZeros, Zenon
<1> HIDE DEF significant
<1>9. PICK m \in Nat : m = Len(significant) /\ DOMAIN significant = 1..m /\ m <= OutputSize(l - z)
  <2>1. Len(significant) \in Nat /\ DOMAIN significant = 1..Len(significant)
    <3> HIDE DEF D
    <3> QED
      BY <1>8
  <2>2. l - z \in Nat
    OBVIOUS
  <2>3. OutputSize(l - z) \in Nat
    BY <2>2, SizesFit
  <2>4. Len(significant) <= OutputSize(l - z)
    BY <1>6, <1>7, <1>8, <2>1, <2>3
  <2> QED
    BY <2>1, <2>4, Zenon
<1>10. \A d \in D : Alphabet[1 + d] \in A /\ DigitOf(Alphabet[1 + d]) = d
  BY DigitOfLetter
<1>11. \A i \in 1..m : significant[i] \in D
  <2> HIDE DEF D
  <2> QED
    BY <1>8, <1>9
<1>12. tail = [i \in 1..m |-> Alphabet[1 + significant[i]]] /\ head = [i \in 1..z |-> Alphabet[1]]
  BY <1>4, <1>9
<1>13. /\ head \in Seq(A) /\ Len(head) = z /\ \A i \in 1..z : head[i] = Alphabet[1]
       /\ tail \in Seq(A) /\ Len(tail) = m /\ \A i \in 1..m : tail[i] = Alphabet[1 + significant[i]]
  <2>1. Alphabet[1] \in A
    <3>1. 1 + 0 = 1
      OBVIOUS
    <3> HIDE DEF D, A
    <3> QED
      BY <1>1, <1>10, <3>1
  <2>2. \A i \in 1..m : Alphabet[1 + significant[i]] \in A
    BY <1>10, <1>11
  <2> HIDE DEF A, D, head, tail
  <2>3. head \in [1..z -> A] /\ tail \in [1..m -> A]
    BY <1>12, <2>1, <2>2
  <2>4. head \in Seq(A) /\ Len(head) = z /\ tail \in Seq(A) /\ Len(tail) = m
    BY <2>3
  <2> QED
    BY <1>12, <2>4
<1> HIDE DEF head, tail, A
<1>14. /\ text \in Seq(A) /\ Len(text) = z + m
       /\ \A i \in 1..z + m : text[i] = IF i <= z THEN head[i] ELSE tail[i - z]
  <2>1. /\ text \in Seq(A) /\ Len(text) = Len(head) + Len(tail)
        /\ \A i \in 1..Len(head) + Len(tail) :
               text[i] = IF i <= Len(head) THEN head[i] ELSE tail[i - Len(head)]
    BY <1>13, ConcatProperties, Zenon
  <2> QED
    BY <1>13, <2>1, Zenon
<1> DEFINE zeros == [i \in 1..z |-> 0]
           read == zeros \o significant
<1>15. /\ zeros \in Seq(Nat) /\ Len(zeros) = z /\ (\A i \in 1..z : zeros[i] = 0)
       /\ significant \in Seq(Nat)
  <2>1. zeros \in Seq(Nat) /\ Len(zeros) = z /\ \A i \in 1..z : zeros[i] = 0
    OBVIOUS
  <2>2. significant \in Seq(Nat)
    <3>1. D \subseteq Nat
      BY <1>1
    <3> HIDE DEF D
    <3> QED
      BY <1>8, <3>1, SeqMonotonic
  <2> QED
    BY <2>1, <2>2
<1>16. /\ read \in Seq(Nat) /\ Len(read) = z + m
       /\ \A i \in 1..z + m : read[i] = IF i <= z THEN zeros[i] ELSE significant[i - z]
  <2> HIDE DEF zeros
  <2>1. /\ read \in Seq(Nat) /\ Len(read) = Len(zeros) + Len(significant)
        /\ \A i \in 1..Len(zeros) + Len(significant) :
               read[i] = IF i <= Len(zeros) THEN zeros[i] ELSE significant[i - Len(zeros)]
    BY <1>15, ConcatProperties, Zenon
  <2> QED
    BY <1>9, <1>15, <2>1, Zenon
<1>17. DigitsIn(text) = read
  <2>1. \A i \in 1..z + m : DigitOf(text[i]) = read[i]
    <3> SUFFICES ASSUME NEW i \in 1..z + m PROVE DigitOf(text[i]) = read[i]
      OBVIOUS
    <3>1. CASE i <= z
      <4>1. i \in 1..z
        BY <3>1
      <4>2. text[i] = Alphabet[1] /\ read[i] = 0
        BY <1>13, <1>14, <1>15, <1>16, <3>1, <4>1
      <4>3. 1 + 0 = 1
        OBVIOUS
      <4>4. DigitOf(Alphabet[1]) = 0
        BY <1>1, <1>10, <4>3
      <4> QED
        BY <4>2, <4>4, Zenon
    <3>2. CASE ~(i <= z)
      <4>1. i - z \in 1..m
        BY <3>2
      <4>2. PICK j \in 1..m : j = i - z
        BY <4>1, Zenon
      <4>3. text[i] = Alphabet[1 + significant[j]] /\ read[i] = significant[j]
        BY <1>13, <1>14, <1>16, <3>2, <4>2, Zenon
      <4>4. significant[j] \in D
        BY <1>11, Zenon
      <4> HIDE DEF D
      <4> QED
        BY <1>10, <4>3, <4>4, Zenon
    <3> QED
      BY <3>1, <3>2
  <2>2. DOMAIN text = 1..z + m /\ DOMAIN read = 1..z + m
    <3> HIDE DEF text, read
    <3>1. DOMAIN text = 1..Len(text) /\ DOMAIN read = 1..Len(read)
      BY <1>14, <1>16
    <3> QED
      BY <1>14, <1>16, <3>1
  <2> HIDE DEF text
  <2>3. DigitsIn(text) = [i \in 1..z + m |-> DigitOf(text[i])]
    BY <2>2, Zenon DEF DigitsIn
  <2>4. read = [i \in 1..z + m |-> read[i]]
    <3> HIDE DEF read
    <3>1. read = [i \in 1..Len(read) |-> read[i]]
      BY <1>16
    <3> QED
      BY <1>16, <3>1, Zenon
  <2> HIDE DEF read
  <2>5. [i \in 1..z + m |-> DigitOf(text[i])] = [i \in 1..z + m |-> read[i]]
    BY <2>1, Zenon
  <2> QED
    BY <2>3, <2>4, <2>5, Zenon
<1>18. ValueOf(OutBase, read) = ValueOf(InBase, bytes)
  <2>1. ValueOf(OutBase, read) = ValueOf(OutBase, significant)
    BY <1>1, <1>15, ValueAfterZeros
  <2>2. ValueOf(OutBase, digits) = ValueOf(OutBase, significant)
    BY <1>1, <1>8, <1>15, ValueAfterZeros
  <2>3. ValueOf(InBase, bytes) = ValueOf(InBase, rest)
    <3>1. rest \in Seq(Nat)
      <4>1. B \subseteq Nat
        BY <1>1
      <4> HIDE DEF B
      <4> QED
        BY <1>5, <4>1, SeqMonotonic
    <3> QED
      BY <1>1, <1>5, <3>1, ValueAfterZeros
  <2> QED
    BY <1>6, <2>1, <2>2, <2>3, Zenon
<1>19. LeadingZeros(read) = LeadingZeros(bytes)
  <2>1. LeadingZeros(read) = z
    <3>1. z \in Nat
      OBVIOUS
    <3> QED
      BY <1>8, <1>15, <3>1, ZerosThen
  <2> QED
    BY <1>4, <2>1
<1>20. Range(text) \subseteq A
  <2> HIDE DEF text
  <2> QED
    BY <1>14, RangeOfSeq, Zenon
<1>21. Len(text) \in 1..OutputSize(AddressSize) + 1
  <2>1. l \in 1..AddressSize + 1 /\ AddressSize \in Nat /\ l - z \in 0..AddressSize
    BY <1>3, SizesFit
  <2>2. OutputSize(l - z) + (AddressSize - (l - z)) <= OutputSize(AddressSize)
    BY <2>1, SizesGrow
  <2>3. OutputSize(l - z) \in Nat /\ OutputSize(AddressSize) \in Nat
    <3>1. l - z \in Nat
      BY <2>1
    <3> QED
      BY <2>1, <3>1, SizesFit
  <2>4. z + m \in 1..OutputSize(AddressSize) + 1
    BY <1>9, <2>1, <2>2, <2>3
  <2> QED
    BY <1>14, <2>4
<1> HIDE DEF text, read
<1> QED
  BY <1>2, <1>14, <1>17, <1>18, <1>19, <1>20, <1>21, Zenon DEF Encodes, A

-----------------------------------------------------------------------------
(* Formatters.                                                             *)

LEMMA FormatterOf ==
    ASSUME NEW f, NEW s
    PROVE  /\ f.data_type = "AMOUNT" =>
                  /\ DOMAIN f = {"data_type", "drops"} => Formatted(f, s) = format_xrp(f.drops)
                  /\ DOMAIN f = {"data_type", "currency", "value"} =>
                         Formatted(f, s) = format_issued(f.value, f.currency)
           /\ f.data_type \in {"CURRENCY", "ISSUE"} => Formatted(f, s) = currency_formatter(f.currency)
           /\ f.data_type = "ACCOUNT" => Formatted(f, s) = account_formatter(f.account, s)
           /\ f.data_type = "VL" => Formatted(f, s) = blob_formatter(f.bytes, f.textual)
           /\ f.data_type = "HASH" => Formatted(f, s) = read_hex(f.bytes)
           /\ f.data_type = "VECTOR256" => Formatted(f, s) = Unsigned(f.length \div Vector256Size)
           /\ f.data_type = "TRANSFER_RATE" => Formatted(f, s) = format_transfer_rate(f.number)
           /\ f.data_type = "QUALITY" => Formatted(f, s) = format_quality(f.number)
           /\ f.data_type = "NUMBER" => Formatted(f, s) = Unsigned(f.number)
BY DEF Formatted

\* A row's buffer has room for three dots.
LEMMA RoomIs == MaxText \in Nat /\ MaxText > 3 /\ CurrencySize \in Nat /\ CurrencySize > 2
BY AmountAssumption DEF MaxText

-----------------------------------------------------------------------------
(* Blobs.                                                                  *)

LEMMA MinOfTwo ==
    ASSUME NEW a \in Nat, NEW b \in Nat
    PROVE  Min({a, b}) = IF a <= b THEN a ELSE b
BY DEF Min

\* The beginning of a beginning.
LEMMA BeginningOf ==
    ASSUME NEW S, NEW s \in Seq(S), NEW n \in 0..Len(s), NEW m \in 0..n
    PROVE  /\ SubSeq(s, 1, n) \in Seq(S) /\ Len(SubSeq(s, 1, n)) = n
           /\ \A i \in 1..n : SubSeq(s, 1, n)[i] = s[i]
           /\ SubSeq(SubSeq(s, 1, n), 1, m) = SubSeq(s, 1, m)
<1> DEFINE B(k) == SubSeq(s, 1, k)
<1>1. ASSUME NEW k \in 0..Len(s)
      PROVE  B(k) \in Seq(S) /\ Len(B(k)) = k /\ \A i \in 1..k : B(k)[i] = s[i]
  <2>1. k \in Int /\ 1 \in Int /\ (IF 1 <= k THEN k - 1 + 1 ELSE 0) = k /\ k - 1 + 1 = k
    OBVIOUS
  <2>2. \A i \in 1..k : s[i] \in S /\ 1 + i - 1 = i
    OBVIOUS
  <2>3. /\ B(k) \in Seq(S) /\ Len(B(k)) = IF 1 <= k THEN k - 1 + 1 ELSE 0
        /\ \A i \in 1..k - 1 + 1 : B(k)[i] = s[1 + i - 1]
    BY <2>1, <2>2, SubSeqProperties
  <2> HIDE DEF B
  <2> QED
    BY <2>1, <2>2, <2>3
<1>2. m \in 0..Len(s) /\ m \in Int /\ 1 \in Int /\ (IF 1 <= m THEN m - 1 + 1 ELSE 0) = m /\ m - 1 + 1 = m
  OBVIOUS
<1> DEFINE r == SubSeq(B(n), 1, m)
<1> HIDE DEF B
<1>3. \A i \in 1..m : B(n)[i] = s[i] /\ B(n)[i] \in S /\ 1 + i - 1 = i
  BY <1>1
<1>4. /\ r \in Seq(S) /\ Len(r) = IF 1 <= m THEN m - 1 + 1 ELSE 0
      /\ \A i \in 1..m - 1 + 1 : r[i] = B(n)[1 + i - 1]
  BY <1>2, <1>3, SubSeqProperties
<1> HIDE DEF r
<1>5. r = B(m)
  <2>1. Len(r) = Len(B(m)) /\ B(m) \in Seq(S)
    BY <1>1, <1>2, <1>4
  <2>2. \A i \in 1..Len(r) : r[i] = B(m)[i]
    BY <1>1, <1>2, <1>3, <1>4
  <2> QED
    BY <1>4, <2>1, <2>2, SeqEqual
<1> QED
  BY <1>1, <1>5 DEF r, B

\* What was written is the text, or it is cut where the dots begin.
LEMMA MarkedCut ==
    ASSUME NEW S, NEW whole \in Seq(S), NEW m \in MaxText - 1..MaxText,
           Len(whole) <= MaxText => Len(whole) <= m
    PROVE  MarkCut(whole, SubSeq(whole, 1, Min({m, Len(whole)})))
               = IF Len(whole) <= MaxText THEN whole ELSE SubSeq(whole, 1, MaxText - 3) \o Dots
<1> DEFINE n == Len(whole)
           written == SubSeq(whole, 1, Min({m, n}))
<1>1. MaxText \in Nat /\ MaxText > 3 /\ m \in Nat /\ n \in Nat
  BY RoomIs
<1>2. CASE n <= MaxText
  <2>1. n <= m
    BY <1>2
  <2>2. Min({m, n}) = n
    BY <1>1, <2>1, MinOfTwo
  <2>3. written = whole
    BY <2>2, SubSeqFull
  <2> QED
    BY <1>2, <2>3 DEF MarkCut
<1>3. CASE n > MaxText
  <2>1. Min({m, n}) = m /\ m \in 0..n /\ MaxText - 3 \in 0..m /\ m # n /\ MaxText - 3 \in Nat /\ ~(m <= MaxText - 3)
    BY <1>1, <1>3, MinOfTwo
  <2>2. /\ Len(written) = m
        /\ SubSeq(written, 1, MaxText - 3) = SubSeq(whole, 1, MaxText - 3)
    <3> DEFINE k == MaxText - 3
    <3>1. written = SubSeq(whole, 1, m) /\ m \in 0..Len(whole) /\ k \in 0..m
      BY <2>1
    <3> HIDE DEF written, k
    <3>2. Len(SubSeq(whole, 1, m)) = m /\ SubSeq(SubSeq(whole, 1, m), 1, k) = SubSeq(whole, 1, k)
      BY <3>1, BeginningOf
    <3> QED
      BY <3>1, <3>2 DEF k
  <2>3. written # whole
    BY <2>1, <2>2
  <2>4. Min({Len(written), MaxText - 3}) = MaxText - 3
    BY <1>1, <2>1, <2>2, MinOfTwo
  <2>5. ~(n <= MaxText)
    BY <1>1, <1>3
  <2> HIDE DEF written
  <2> QED
    BY <2>2, <2>3, <2>4, <2>5 DEF MarkCut, written
<1> QED
  BY <1>1, <1>2, <1>3

LEMMA HexIs ==
    ASSUME NEW bytes, IsBytes(bytes)
    PROVE  /\ read_hex(bytes) \in Seq(Range(read_hex(bytes)))
           /\ Len(read_hex(bytes)) = 2 * Len(bytes)
<1> DEFINE n == 2 * Len(bytes)
           text == read_hex(bytes)
           F(k) == Hex(bytes[(k + 1) \div 2])[2 - (k % 2)]
<1>1. n \in Nat
  BY DEF IsBytes
<1>2. text = [k \in 1..n |-> F(k)]
  BY DEF read_hex
<1> HIDE DEF F, n
<1>3. DOMAIN text = 1..n /\ text \in [1..n -> Range(text)]
  <2>1. DOMAIN text = 1..n
    BY <1>2
  <2>2. text = [k \in 1..n |-> text[k]]
    BY <1>2
  <2> HIDE DEF text
  <2>3. \A k \in 1..n : text[k] \in Range(text)
    BY <2>1 DEF Range
  <2> QED
    BY <2>1, <2>2, <2>3
<1> HIDE DEF text
<1>4. text \in Seq(Range(text)) /\ Len(text) = n
  <2> DEFINE R == Range(text)
  <2> HIDE DEF R
  <2>1. text \in [1..n -> R]
    BY <1>3 DEF R
  <2>2. text \in Seq(R) /\ Len(text) = n
    BY <1>1, <2>1
  <2> QED
    BY <2>2 DEF R
<1> QED
  BY <1>4 DEF text, n

\* A blob whole, or its beginning and three dots.
WholeOrMarked(whole, text) ==
    text = IF Len(whole) <= MaxText THEN whole ELSE SubSeq(whole, 1, MaxText - 3) \o Dots

LEMMA BlobSays ==
    ASSUME NEW bytes, IsBytes(bytes), NEW textual \in BOOLEAN
    PROVE  LET whole == IF textual /\ Range(bytes) \subseteq Printable THEN bytes ELSE read_hex(bytes)
           IN  WholeOrMarked(whole, blob_formatter(bytes, textual))
<1>1. bytes \in Seq(Range(bytes)) /\ Len(bytes) \in Nat /\ DOMAIN bytes = 1..Len(bytes)
  BY DEF IsBytes
<1>2. MaxText \in Nat /\ MaxText > 3
  BY RoomIs
<1>3. is_purely_ascii(bytes, FALSE) <=> Range(bytes) \subseteq Printable
  <2>1. is_purely_ascii(bytes, FALSE) <=> \A i \in DOMAIN bytes : bytes[i] \in Printable
    BY <1>1 DEF is_purely_ascii
  <2> QED
    BY <2>1 DEF Range
<1>4. CASE textual /\ Range(bytes) \subseteq Printable
  <2>1. blob_formatter(bytes, textual) = MarkCut(bytes, SubSeq(bytes, 1, Min({MaxText, Len(bytes)})))
    BY <1>3, <1>4 DEF blob_formatter
  <2>2. MaxText \in MaxText - 1..MaxText
    BY <1>2
  <2> QED
    BY <1>1, <1>4, <2>1, <2>2, MarkedCut DEF WholeOrMarked
<1>5. CASE ~(textual /\ Range(bytes) \subseteq Printable)
  <2> DEFINE m == 2 * (MaxText \div 2)
             whole == read_hex(bytes)
  <2>1. blob_formatter(bytes, textual) = MarkCut(whole, SubSeq(whole, 1, Min({m, Len(whole)})))
    BY <1>3, <1>5 DEF blob_formatter
  <2>2. whole \in Seq(Range(whole)) /\ Len(whole) = 2 * Len(bytes)
    BY HexIs
  <2>3. m \in MaxText - 1..MaxText
    BY <1>2
  <2>4. Len(whole) <= MaxText => Len(whole) <= m
    <3> HIDE DEF whole
    <3> QED
      BY <1>1, <1>2, <2>2
  <2> HIDE DEF m, whole
  <2>5. MarkCut(whole, SubSeq(whole, 1, Min({m, Len(whole)})))
            = IF Len(whole) <= MaxText THEN whole ELSE SubSeq(whole, 1, MaxText - 3) \o Dots
    BY <2>2, <2>3, <2>4, MarkedCut
  <2> QED
    BY <1>5, <2>1, <2>5 DEF WholeOrMarked, whole
<1> QED
  BY <1>4, <1>5

-----------------------------------------------------------------------------
(* Numbers.                                                                *)

\* A number has no more digits than places that hold it.
LEMMA FewDigits ==
    ASSUME NEW v \in Nat, NEW n \in 0..MaxDigits, v < Ten[n]
    PROVE  NumDigits(v) \in 0..n /\ NumDigits(v) <= MaxDigits
<1>1. Base[n] = Ten[n]
  BY BaseIs
<1>2. NumDigits(v) <= n /\ NumDigits(v) \in 0..MaxDigits + 1
  BY <1>1, NumDigitsIs
<1>3. MaxDigits \in Nat
  BY PrintAssumption
<1> QED
  BY <1>2, <1>3

LEMMA ZeroText ==
    /\ <<"0">> \in Seq(Numerals) /\ <<"0">> # << >> /\ NumberOf(<<"0">>) = 0
    /\ << >> \in Seq(Numerals) /\ NumberOf(<< >>) = 0
<1>1. PICK f \in [0..Len(<< >>) -> Nat] : f[0] = 0 /\ NumberOf(<< >>) = f[Len(<< >>)]
  <2>1. << >> \in Seq(Numerals)
    OBVIOUS
  <2> QED
    BY <2>1, NumberFollows
<1>2. NumberOf(<< >>) = 0 /\ << >> \in Seq(Numerals)
  BY <1>1
<1>3. <<"0">> \in Seq(Numerals) /\ <<"0">> # << >>
  BY NumeralsAre
<1>4. Zeros(1) = <<"0">>
  <2>1. <<"0">> \o Zeros(0) = Zeros(1 + 0) /\ Zeros(0) = << >>
    BY ZerosAdd
  <2>2. 1 + 0 = 1
    OBVIOUS
  <2>3. <<"0">> \o << >> = <<"0">>
    BY <1>3, ConcatEmptySeq
  <2> QED
    BY <2>1, <2>2, <2>3
<1>5. NumberOf(Zeros(1) \o << >>) = 0
  <2>1. 1 \in Nat
    OBVIOUS
  <2> QED
    BY <1>2, <2>1, ZerosNumber
<1>6. <<"0">> \o << >> = <<"0">>
  BY <1>3, ConcatEmptySeq
<1> QED
  BY <1>2, <1>3, <1>4, <1>5, <1>6

LEMMA UnsignedIs ==
    ASSUME NEW v \in Nat, v < Ten[MaxDigits]
    PROVE  /\ Unsigned(v) \in Seq(Numerals) /\ Unsigned(v) # << >> /\ NumberOf(Unsigned(v)) = v
           /\ v # 0 => Unsigned(v)[1] # "0"
<1>1. CASE v = 0
  BY <1>1, ZeroText DEF Unsigned
<1>2. CASE v # 0
  <2>1. MaxDigits \in 0..MaxDigits
    BY PrintAssumption
  <2>2. NumDigits(v) <= MaxDigits
    BY <2>1, FewDigits
  <2> QED
    BY <1>2, <2>2, DigitsNumber DEF Unsigned
<1> QED
  BY <1>1, <1>2

LEMMA UnsignedSays ==
    ASSUME NEW v \in Nat, v < Ten[MaxDigits]
    PROVE  SaysScaled(Unsigned(v), v, 0) /\ Unsigned(v) # << >>
<1> DEFINE a == Unsigned(v)
<1>1. a \in Seq(Numerals) /\ a # << >> /\ NumberOf(a) = v /\ (v # 0 => a[1] # "0")
  BY UnsignedIs
<1> HIDE DEF a
<1>2. 0 \in Nat
  OBVIOUS
<1>3. /\ IsDecimal(a) /\ Read(a, 0) = NumberOf(a \o Zeros(0))
      /\ Head(a) = a[1] /\ "." \notin Range(a)
  BY <1>1, <1>2, PlainText
<1>4. a \o Zeros(0) = a
  BY <1>1, <1>2, ZerosAdd, ConcatEmptySeq
<1> QED
  BY <1>1, <1>3, <1>4 DEF SaysScaled, a

LEMMA PaddedIs ==
    ASSUME NEW n \in 0..MaxDigits, NEW v \in Nat, v < Ten[n]
    PROVE  /\ Padded(v, n) \in Seq(Numerals) /\ Len(Padded(v, n)) = n
           /\ NumberOf(Padded(v, n)) = v
<1> DEFINE digits == IF v = 0 THEN << >> ELSE Digits(v)
<1>1. digits \in Seq(Numerals) /\ Len(digits) \in 0..n /\ NumberOf(digits) = v
  <2>1. NumDigits(v) \in 0..n /\ NumDigits(v) <= MaxDigits
    BY FewDigits
  <2>2. Digits(v) \in Seq(Numerals) /\ Len(Digits(v)) = NumDigits(v) /\ NumberOf(Digits(v)) = v
    BY <2>1, DigitsNumber
  <2>3. Len(<< >>) = 0 /\ 0 \in 0..n
    BY PrintAssumption
  <2> QED
    BY <2>1, <2>2, <2>3, ZeroText
<1>2. Padded(v, n) = Zeros(n - Len(digits)) \o digits
  BY DEF Padded
<1> HIDE DEF digits
<1>3. n \in Nat /\ n - Len(digits) \in Nat
  BY <1>1, PrintAssumption
<1> DEFINE zeros == Zeros(n - Len(digits))
<1>4. zeros \in Seq(Numerals) /\ Len(zeros) = n - Len(digits)
  BY <1>3, ZerosAre
<1>5. zeros \o digits \in Seq(Numerals) /\ NumberOf(zeros \o digits) = v
  BY <1>1, <1>3, ZerosNumber
<1> HIDE DEF zeros
<1>6. Len(zeros \o digits) = Len(zeros) + Len(digits)
  BY <1>1, <1>4, ConcatProperties, Zenon
<1>7. Len(zeros) + Len(digits) = n
  BY <1>1, <1>3, <1>4
<1> QED
  BY <1>2, <1>5, <1>6, <1>7 DEF zeros

\* The beginning of a text that goes on after its first part.
LEMMA BeginningOfConcat ==
    ASSUME NEW S, NEW s \in Seq(S), NEW t \in Seq(S), NEW k \in 0..Len(t)
    PROVE  SubSeq(s \o t, 1, Len(s) + k) = s \o SubSeq(t, 1, k)
<1> DEFINE n == Len(t)
           b == SubSeq(t, 1, k)
           rest == SubSeq(t, k + 1, n)
<1>1. n \in Nat /\ k \in 0..n
  OBVIOUS
<1>2. b \o rest = t
  <2>1. 1 \in 1..Len(t) + 1 /\ k \in 1 - 1..Len(t) /\ n \in k..Len(t)
    BY <1>1
  <2>2. b \o rest = SubSeq(t, 1, n)
    BY <2>1, ConcatAdjacentSubSeq
  <2> QED
    BY <2>2, SubSeqFull
<1>3. b \in Seq(S) /\ Len(b) = k
  <2>1. k \in 0..Len(t) /\ 0 \in 0..k
    OBVIOUS
  <2> QED
    BY <2>1, BeginningOf
<1>4. rest \in Seq(S)
  <2>1. k + 1 \in Int /\ n \in Int
    BY <1>1
  <2>2. \A i \in k + 1..n : t[i] \in S
    <3>1. \A i \in k + 1..n : i \in 1..n
      BY <1>1
    <3> QED
      BY <3>1
  <2> HIDE DEF n
  <2> QED
    BY <2>1, <2>2, SubSeqProperties
<1> HIDE DEF b, rest
<1>5. s \o b \in Seq(S) /\ Len(s \o b) = Len(s) + Len(b)
  BY <1>3, ConcatProperties, Zenon
<1>6. (s \o b) \o rest = s \o t
  <2>1. s \in Seq(S) /\ b \in Seq(S) /\ rest \in Seq(S)
    BY <1>3, <1>4
  <2>2. (s \o b) \o rest = s \o (b \o rest)
    BY <2>1, ConcatAssociative
  <2> QED
    BY <1>2, <2>2
<1>7. SubSeq((s \o b) \o rest, 1, Len(s \o b)) = s \o b
  <2>1. PICK h \in Seq(S), r \in Seq(S) : h = s \o b /\ r = rest
    BY <1>4, <1>5
  <2>2. SubSeq(h \o r, 1, Len(h)) = h
    BY PrefixCut
  <2> QED
    BY <2>1, <2>2, Zenon
<1> QED
  BY <1>3, <1>5, <1>6, <1>7 DEF b

\* remove_redundant_decimals cuts off what WithoutZeros does.
LEMMA RedundantIs ==
    ASSUME NEW a \in Seq(Numerals), a # << >>, NEW tail \in Seq(Numerals), tail # << >>
    PROVE  remove_redundant_decimals(a \o <<".">> \o tail) = CutText(a, tail)
<1> DEFINE m == Len(a)
           n == Len(tail)
           point == <<".">>
           head == a \o point
           text == head \o tail
           kept == Kept(tail)
           T == {k \in DOMAIN text : text[k] # "0"}
           end == Max(T)
<1>1. m \in Nat \ {0} /\ n \in Nat \ {0}
  BY EmptySeq
<1>2. a \in Seq(Chars) /\ point \in Seq(Chars) /\ tail \in Seq(Chars) /\ Len(point) = 1 /\ "." \in Chars
  BY DEF Chars
<1>3. head \in Seq(Chars) /\ Len(head) = m + 1 /\ head[m + 1] = "." /\ SubSeq(head, 1, m) = a
  <2>1. head \in Seq(Chars) /\ SubSeq(head, 1, m) = a /\ Len(head) = m + Len(point)
    <3>1. PICK r \in Seq(Chars) : r = point
      BY <1>2
    <3>2. a \in Seq(Chars)
      BY <1>2
    <3> HIDE DEF point
    <3>3. a \o r \in Seq(Chars) /\ Len(a \o r) = Len(a) + Len(r) /\ SubSeq(a \o r, 1, Len(a)) = a
      BY <3>2, PrefixCut
    <3> QED
      BY <3>1, <3>3, Zenon
  <2>2. /\ \A i \in 1..m + Len(point) : head[i] = IF i <= m THEN a[i] ELSE point[i - m]
    BY <1>2, ConcatProperties, Zenon
  <2>3. m + 1 \in 1..m + 1 /\ ~(m + 1 <= m) /\ (m + 1) - m = 1
    BY <1>1
  <2> QED
    BY <1>2, <2>1, <2>2, <2>3
<1> HIDE DEF head
<1>4. /\ text \in Seq(Chars) /\ Len(text) = m + 1 + n
      /\ \A i \in 1..m + 1 + n : text[i] = IF i <= m + 1 THEN head[i] ELSE tail[i - (m + 1)]
  <2>1. /\ text \in Seq(Chars) /\ Len(text) = Len(head) + Len(tail)
        /\ \A i \in 1..Len(head) + Len(tail) : text[i] = IF i <= Len(head) THEN head[i] ELSE tail[i - Len(head)]
    BY <1>2, <1>3, ConcatProperties, Zenon
  <2> QED
    BY <1>3, <2>1
<1>5. /\ kept \in 0..n
      /\ kept # 0 => tail[kept] # "0"
      /\ \A k \in 1..n : tail[k] # "0" => k <= kept
  BY KeptIs
<1> HIDE DEF m, n, text, kept
<1>6. text[m + 1] = "." /\ m + 1 \in 1..m + 1 + n
  BY <1>1, <1>3, <1>4
<1>6a. ASSUME NEW k \in 1..n PROVE text[m + 1 + k] = tail[k]
  <2>1. PICK i : i = m + 1 + k
    OBVIOUS
  <2>2. i \in 1..m + 1 + n /\ ~(i <= m + 1) /\ i - (m + 1) = k
    BY <1>1, <2>1
  <2>3. text[i] = tail[k]
    BY <1>4, <2>2
  <2> QED
    BY <2>1, <2>3
<1>7. end = m + 1 + kept
  <2>1. DOMAIN text = 1..m + 1 + n /\ m + 1 + n \in Nat
    BY <1>1, <1>4
  <2>2. m + 1 + kept \in T
    <3>1. CASE kept = 0
      <4>1. m + 1 + kept = m + 1
        BY <1>1, <3>1
      <4> QED
        BY <1>6, <2>1, <4>1
    <3>2. CASE kept # 0
      <4>1. kept \in 1..n /\ m + 1 + kept \in 1..m + 1 + n
        BY <1>1, <1>5, <3>2
      <4>2. text[m + 1 + kept] = tail[kept]
        BY <1>6a, <4>1
      <4> QED
        BY <1>5, <2>1, <3>2, <4>1, <4>2
    <3> QED
      BY <3>1, <3>2
  <2>3. ASSUME NEW k \in T PROVE k <= m + 1 + kept
    <3>1. k \in 1..m + 1 + n /\ text[k] # "0"
      BY <2>1
    <3>2. CASE k <= m + 1
      BY <1>1, <1>5, <3>1, <3>2
    <3>3. CASE ~(k <= m + 1)
      <4>1. k - (m + 1) \in 1..n /\ text[k] = tail[k - (m + 1)]
        BY <1>1, <1>4, <3>1, <3>3
      <4>2. k - (m + 1) <= kept
        BY <1>5, <3>1, <4>1
      <4> QED
        BY <1>1, <1>5, <3>1, <4>2
    <3> QED
      BY <3>2, <3>3
  <2>4. T \in SUBSET (0..m + 1 + n) /\ T # {}
    BY <2>1, <2>2
  <2> HIDE DEF T
  <2>5. end \in T /\ \A k \in T : k <= end
    BY <2>1, <2>4, GreatestUpTo
  <2>6. end <= m + 1 + kept /\ m + 1 + kept <= end /\ end \in 0..m + 1 + n
    BY <2>2, <2>3, <2>4, <2>5
  <2> QED
    BY <1>1, <1>5, <2>6
<1>8. remove_redundant_decimals(text) = SubSeq(text, 1, IF text[end] = "." THEN end - 1 ELSE end)
  BY DEF remove_redundant_decimals
<1> HIDE DEF end
<1>9. ASSUME NEW k \in 0..n PROVE SubSeq(text, 1, m + 1 + k) = head \o SubSeq(tail, 1, k)
  <2>1. k \in 0..Len(tail) /\ Len(head) + k = m + 1 + k
    BY <1>3 DEF n
  <2>2. SubSeq(head \o tail, 1, Len(head) + k) = head \o SubSeq(tail, 1, k)
    BY <1>2, <1>3, <2>1, BeginningOfConcat
  <2> QED
    BY <2>1, <2>2 DEF text
<1>10. CASE kept = 0
  <2>1. end = m + 1 /\ text[end] = "." /\ end - 1 = m
    BY <1>1, <1>6, <1>7, <1>10
  <2>2. SubSeq(text, 1, m) = a
    <3>1. SubSeq(text, 1, Len(head)) = head
      <4>1. PICK h \in Seq(Chars), u \in Seq(Chars) : h = head /\ u = tail
        BY <1>2, <1>3
      <4>2. SubSeq(h \o u, 1, Len(h)) = h
        BY PrefixCut
      <4> QED
        BY <4>1, <4>2 DEF text
    <3>2. m + 1 \in 0..Len(text) /\ m \in 0..m + 1
      BY <1>1, <1>4
    <3>3. SubSeq(SubSeq(text, 1, m + 1), 1, m) = SubSeq(text, 1, m)
      BY <1>4, <3>2, BeginningOf
    <3> QED
      BY <1>3, <3>1, <3>3
  <2> QED
    BY <1>8, <1>10, <2>1, <2>2 DEF CutText, text, kept, head
<1>11. CASE kept # 0
  <2>1. text[end] = tail[kept] /\ end = m + 1 + kept
    <3>1. kept \in 1..n
      BY <1>1, <1>5, <1>11
    <3> QED
      BY <1>7, <1>6a, <3>1
  <2>2. tail[kept] # "."
    <3>1. kept \in 1..Len(tail)
      BY <1>1, <1>5, <1>11 DEF n
    <3>2. tail[kept] \in Numerals
      BY <3>1
    <3> QED
      BY <3>2, NumeralsAre
  <2>3. remove_redundant_decimals(text) = head \o SubSeq(tail, 1, kept)
    BY <1>5, <1>8, <1>9, <2>1, <2>2
  <2> QED
    BY <1>11, <2>3 DEF CutText, text, kept, head
<1> QED
  BY <1>10, <1>11

LEMMA RateIs ==
    /\ RateDecimals \in 1..MaxDigits /\ RateDecimals \in Nat \ {0} /\ RateDecimals \in 0..MaxDigits
    /\ Denominator = Ten[RateDecimals] /\ Denominator \in Nat \ {0}
<1>1. RateDecimals \in 1..MaxDigits /\ MaxDigits \in Nat
  BY RateAssumption, PrintAssumption
<1>2. RateDecimals \in Nat \ {0} /\ RateDecimals \in 0..MaxDigits
  BY <1>1
<1>3. Ten[RateDecimals] \in Nat \ {0}
  BY <1>2, TenIs
<1> QED
  BY <1>1, <1>2, <1>3 DEF Denominator

LEMMA DivMonotone ==
    ASSUME NEW d \in Nat \ {0}, NEW a \in Nat, NEW b \in Nat, a <= b
    PROVE  a \div d <= b \div d
<1> DEFINE p == a \div d
           q == b \div d
<1>1. /\ p \in Nat /\ q \in Nat
      /\ \E r \in 0..d - 1 : a = d * p + r
      /\ \E s \in 0..d - 1 : b = d * q + s
  BY DivIs
<1> HIDE DEF p, q
<1>2. p <= q
  <2> SUFFICES ASSUME p >= q + 1 PROVE FALSE
    BY <1>1
  <2>1. d * p >= d * (q + 1) /\ d * (q + 1) = d * q + d
    BY <1>1
  <2>2. PICK x \in Nat, y \in Nat : x = d * p /\ y = d * q
    BY <1>1
  <2>3. x >= y + d
    BY <2>1, <2>2
  <2> QED
    BY <1>1, <2>2, <2>3
<1> QED
  BY <1>2 DEF p, q

-----------------------------------------------------------------------------
(* Currencies.                                                             *)

IsCurrency(c) == IsBytes(c) /\ Len(c) = CurrencySize

LEMMA CStringIs ==
    ASSUME NEW c, IsCurrency(c)
    PROVE  \E e \in 0..CurrencySize :
               /\ CString(c) = SubSeq(c, 1, e)
               /\ CString(c) \in Seq(Range(c)) /\ Len(CString(c)) = e
               /\ \A i \in 1..e : CString(c)[i] = c[i] /\ c[i] # "NUL"
               /\ e # CurrencySize => c[e + 1] = "NUL"
<1> DEFINE n == CurrencySize
           T == {i \in DOMAIN c : c[i] = "NUL"} \cup {n + 1}
           first == Min(T)
           e == first - 1
<1>1. c \in Seq(Range(c)) /\ Len(c) = n /\ DOMAIN c = 1..n /\ n \in Nat
  BY RoomIs DEF IsCurrency, IsBytes
<1>2. T \in SUBSET Nat /\ T # {}
  BY <1>1
<1>3. first \in T /\ \A i \in T : first <= i
  <2> HIDE DEF T
  <2>1. \E i \in T : \A j \in T : i <= j
    BY <1>2, LeastNatural
  <2> QED
    BY <2>1 DEF Min
<1>4. CString(c) = SubSeq(c, 1, e)
  BY <1>1 DEF CString
<1> HIDE DEF first
<1>4a. first \in 1..n + 1
  BY <1>1, <1>3
<1>5. e \in 0..n /\ (e # n => c[e + 1] = "NUL")
  <2>1. first # n + 1 => c[first] = "NUL"
    BY <1>1, <1>3
  <2>2. e + 1 = first
    BY <1>1, <1>4a
  <2> QED
    BY <1>1, <1>4a, <2>1, <2>2
<1>6. ASSUME NEW i \in 1..e PROVE c[i] # "NUL"
  <2>1. i \in DOMAIN c /\ ~(first <= i)
    BY <1>1, <1>4a, <1>5
  <2> QED
    BY <1>3, <2>1
<1>7. /\ SubSeq(c, 1, e) \in Seq(Range(c)) /\ Len(SubSeq(c, 1, e)) = e
      /\ \A i \in 1..e : SubSeq(c, 1, e)[i] = c[i]
  <2>1. e \in 0..Len(c) /\ 0 \in 0..e
    BY <1>1, <1>5
  <2> HIDE DEF e
  <2> QED
    BY <1>1, <2>1, BeginningOf
<1> QED
  BY <1>4, <1>5, <1>6, <1>7

LEMMA TickerIs ==
    ASSUME NEW c, IsCurrency(c)
    PROVE  /\ TickerOf(c) \in Seq(Range(c)) /\ Len(TickerOf(c)) = 3
           /\ \A i \in 1..3 : TickerOf(c)[i] = c[TickerStart - 1 + i]
           /\ TickerStart \in Nat \ {0} /\ TickerStart + 2 <= CurrencySize
<1>1. c \in Seq(Range(c)) /\ Len(c) = CurrencySize
  BY DEF IsCurrency, IsBytes
<1>2. TickerStart \in Nat \ {0} /\ TickerStart + 2 <= CurrencySize /\ CurrencySize \in Nat
  BY AmountAssumption
<1> DEFINE m == TickerStart
           n == TickerStart + 2
           t == SubSeq(c, m, n)
<1>3. m \in Int /\ n \in Int /\ m <= n /\ n - m + 1 = 3
  BY <1>2
<1>4. \A i \in m..n : c[i] \in Range(c)
  <2>1. \A i \in m..n : i \in 1..Len(c)
    BY <1>1, <1>2
  <2> QED
    BY <1>1, <2>1
<1>5. TickerOf(c) = t
  BY DEF TickerOf
<1> HIDE DEF m, n
<1>6. /\ t \in Seq(Range(c)) /\ Len(t) = 3
      /\ \A i \in 1..n - m + 1 : t[i] = c[m + i - 1]
  BY <1>3, <1>4, SubSeqProperties
<1>7. \A i \in 1..3 : t[i] = c[m - 1 + i]
  <2>1. \A i \in 1..3 : m + i - 1 = m - 1 + i
    BY <1>3
  <2> QED
    BY <1>3, <1>6, <2>1
<1> QED
  BY <1>2, <1>5, <1>6, <1>7 DEF m

-----------------------------------------------------------------------------
(* Amounts.                                                                *)

\* A mantissa without the zeros at its end.
LEMMA TrailingIs ==
    ASSUME NEW m \in Nat \ {0}, m < Ten[MaxDigits]
    PROVE  LET z == TrailingZeros(m)
               p == m \div Base[z]
           IN  /\ z \in 0..MaxDigits /\ p \in Nat \ {0} /\ p < Ten[MaxDigits]
               /\ m = p * Ten[z] /\ p % 10 # 0
<1> DEFINE N == MaxDigits
           T == {n \in 0..N : m % Base[n] = 0}
           z == TrailingZeros(m)
           p == m \div Base[z]
<1>1. N \in Nat /\ Base \in [0..N -> Nat \ {0}] /\ Base[0] = 1
  BY PrintAssumption, BaseIs
<1>2. 0 \in T
  BY <1>1
<1>3. z \in T /\ \A n \in T : n <= z
  <2>1. T \in SUBSET (0..N) /\ T # {}
    BY <1>2
  <2>2. z = Max(T)
    BY DEF TrailingZeros
  <2> HIDE DEF T, z
  <2> QED
    BY <1>1, <2>1, <2>2, GreatestUpTo
<1> HIDE DEF z
<1>4. z \in 0..N /\ m % Base[z] = 0
  BY <1>3
<1>5. PICK b \in Nat \ {0} : b = Base[z]
  BY <1>1, <1>4
<1>6. p \in Nat /\ m = b * p
  <2>1. p \in Nat /\ m = b * p + (m % b)
    BY <1>5, DivIs
  <2> QED
    BY <1>4, <1>5, <2>1
<1> HIDE DEF p
<1>7. p # 0 /\ p <= m
  BY <1>6
<1>8. p % 10 # 0
  <2> SUFFICES ASSUME p % 10 = 0 PROVE FALSE
    OBVIOUS
  <2>1. PICK k \in Nat : p = 10 * k
    BY <1>6
  <2>2. m = (10 * b) * k
    BY <1>6, <2>1
  <2>3. CASE z = N
    <3>1. b = Ten[N]
      BY <1>4, <1>5, <2>3, BaseIs
    <3>2. m >= b
      BY <1>6, <1>7
    <3> QED
      BY <3>1, <3>2
  <2>4. CASE z # N
    <3>1. z + 1 \in 1..N /\ z + 1 \in 0..N /\ (z + 1) - 1 = z
      BY <1>1, <1>4, <2>4
    <3>2. Base[z + 1] = 10 * b
      BY <1>5, <3>1, BaseIs
    <3>3. ((10 * b) * k) % (10 * b) = 0
      <4>1. PICK d \in Nat \ {0} : d = 10 * b
        OBVIOUS
      <4>2. (d * k) % d = 0
        OBVIOUS
      <4> QED
        BY <4>1, <4>2
    <3>4. z + 1 \in T
      BY <2>2, <3>1, <3>2, <3>3
    <3> QED
      BY <1>1, <1>3, <1>4, <3>4
  <2> QED
    BY <2>3, <2>4
<1>9. m = p * Ten[z]
  <2>1. Ten[z] = b
    BY <1>4, <1>5, BaseIs
  <2> QED
    BY <1>6, <2>1
<1>10. p < Ten[MaxDigits]
  <2>1. Ten[N] \in Nat
    BY <1>1, TenIs
  <2> QED
    BY <1>6, <1>7, <2>1
<1> QED
  BY <1>4, <1>6, <1>7, <1>8, <1>9, <1>10 DEF p, z

LEMMA LastDigit ==
    ASSUME NEW v \in Nat, NumDigits(v) \in 1..MaxDigits, v % 10 # 0
    PROVE  Digits(v)[NumDigits(v)] # "0"
<1> DEFINE n == NumDigits(v)
<1>1. n \in 1..MaxDigits /\ MaxDigits \in Nat /\ Base[0] = 1
  BY PrintAssumption, BaseIs
<1>2. Digits(v) = DigitsOf(v, n)
  BY DEF Digits
<1> HIDE DEF n
<1>3. n \in 0..MaxDigits /\ n \in 1..n /\ n - n = 0
  BY <1>1
<1>4. DigitsOf(v, n)[n] = "0" <=> (v \div Base[n - n]) % 10 = 0
  BY <1>3, DigitsAre
<1>5. v \div 1 = v
  OBVIOUS
<1> QED
  BY <1>1, <1>2, <1>3, <1>4, <1>5 DEF n

\* The digits of p with the point in its place say p times 10^e.
LEMMA PositionedSays ==
    ASSUME NEW p \in Nat \ {0}, p < Ten[MaxDigits], p % 10 # 0,
           NEW e \in Int, NEW scale \in Nat, scale + e \in Nat
    PROVE  LET text == Positioned(Digits(p), e)
           IN  /\ text \in Seq(Chars) /\ text # << >>
               /\ SaysScaled(text, p * Ten[scale + e], scale)
<1> DEFINE d == Digits(p)
           n == NumDigits(p)
           text == Positioned(d, e)
           pos == n + e
<1>1. /\ n \in 1..MaxDigits /\ n \in Nat \ {0} /\ d \in Seq(Numerals) /\ Len(d) = n /\ d # << >>
      /\ NumberOf(d) = p /\ d[1] # "0" /\ d[n] # "0"
  <2>1. MaxDigits \in Nat /\ MaxDigits \in 0..MaxDigits
    BY PrintAssumption
  <2>2. n \in 0..MaxDigits /\ n <= MaxDigits
    BY <2>1, FewDigits
  <2>3. /\ d \in Seq(Numerals) /\ Len(d) = n /\ n # 0 /\ d # << >>
        /\ NumberOf(d) = p /\ d[1] # "0"
    BY <2>2, DigitsNumber
  <2>4. n \in 1..MaxDigits /\ n \in Nat \ {0}
    BY <2>1, <2>2, <2>3
  <2>5. d[n] # "0"
    BY <2>4, LastDigit
  <2> QED
    BY <2>3, <2>4, <2>5
<1>2. text = IF e >= 0 THEN d \o Zeros(e)
             ELSE IF pos > 0
             THEN SubSeq(d, 1, pos) \o <<".">> \o SubSeq(d, pos + 1, n)
             ELSE <<"0", ".">> \o Zeros(-pos) \o d
  BY <1>1 DEF Positioned
<1> HIDE DEF d, n, text
<1>3. NumberOf(d \o Zeros(scale + e)) = p * Ten[scale + e] /\ d \o Zeros(scale + e) \in Seq(Numerals)
  BY <1>1, ZerosNumber
<1>4. CASE e >= 0
  <2> DEFINE a == d \o Zeros(e)
  <2>1. e \in Nat /\ text = a
    BY <1>2, <1>4
  <2>2. a \in Seq(Numerals) /\ NumberOf(a) = p * Ten[e]
    BY <1>1, <2>1, ZerosNumber
  <2>3. a # << >> /\ a[1] = d[1]
    <3>1. Zeros(e) \in Seq(Numerals)
      BY <2>1, ZerosAre
    <3>2. Len(a) = Len(d) + Len(Zeros(e)) /\ a[1] = d[1]
      <4> DEFINE u == Zeros(e)
      <4> HIDE DEF u
      <4>1. u \in Seq(Numerals) /\ Len(u) \in Nat
        BY <3>1 DEF u
      <4>2. /\ Len(d \o u) = Len(d) + Len(u)
            /\ \A i \in 1..Len(d) + Len(u) : (d \o u)[i] = IF i <= Len(d) THEN d[i] ELSE u[i - Len(d)]
        BY <1>1, <4>1, ConcatProperties, Zenon
      <4>3. 1 \in 1..Len(d) + Len(u) /\ 1 <= Len(d)
        BY <1>1, <4>1
      <4> QED
        BY <4>2, <4>3 DEF u
    <3>3. Len(d) + Len(Zeros(e)) # 0
      BY <1>1, <3>1
    <3> HIDE DEF a
    <3> QED
      BY <3>2, <3>3
  <2> HIDE DEF a
  <2>4. /\ IsDecimal(a) /\ Read(a, scale) = NumberOf(a \o Zeros(scale))
        /\ Head(a) = a[1] /\ "." \notin Range(a)
    BY <2>2, <2>3, PlainText
  <2>5. NumberOf(a \o Zeros(scale)) = p * Ten[scale + e]
    <3>1. NumberOf(a \o Zeros(scale)) = NumberOf(a) * Ten[scale]
      BY <2>2, ZerosNumber
    <3>2. Ten[scale + e] = Ten[scale] * Ten[e]
      BY <2>1, TenAdds
    <3>3. PICK x \in Nat, y \in Nat : x = Ten[e] /\ y = Ten[scale]
      BY <2>1, TenIs
    <3>4. (p * x) * y = p * (y * x)
      OBVIOUS
    <3> QED
      BY <2>2, <3>1, <3>2, <3>3, <3>4
  <2>6. a \in Seq(Chars)
    BY <2>2 DEF Chars
  <2> QED
    BY <1>1, <2>1, <2>3, <2>4, <2>5, <2>6 DEF SaysScaled, text, d
<1>5. CASE e < 0 /\ pos > 0
  <2> DEFINE a == SubSeq(d, 1, pos)
             b == SubSeq(d, pos + 1, n)
  <2>1. pos \in 1..n /\ pos < n /\ pos \in Nat
    BY <1>1, <1>5
  <2>2. text = a \o <<".">> \o b
    <3>1. ~(e >= 0) /\ pos > 0
      BY <1>5
    <3> HIDE DEF pos
    <3> QED
      BY <1>2, <3>1, Zenon
  <2>3. a \in Seq(Numerals) /\ Len(a) = pos /\ \A i \in 1..pos : a[i] = d[i]
    <3>1. pos \in 0..Len(d) /\ 0 \in 0..pos
      BY <1>1, <2>1
    <3> HIDE DEF pos
    <3> QED
      BY <1>1, <3>1, BeginningOf
  <2>4. b \in Seq(Numerals) /\ Len(b) = -e /\ b[-e] = d[n]
    <3> DEFINE m == pos + 1
    <3>1. m \in Int /\ n \in Int /\ m <= n /\ n - m + 1 = -e /\ m \in 1..n /\ -e \in 1..-e /\ m + (-e) - 1 = n
      BY <1>1, <1>5, <2>1
    <3>2. \A i \in m..n : d[i] \in Numerals
      BY <1>1, <3>1
    <3> HIDE DEF m
    <3>3. /\ SubSeq(d, m, n) \in Seq(Numerals) /\ Len(SubSeq(d, m, n)) = n - m + 1
          /\ \A i \in 1..n - m + 1 : SubSeq(d, m, n)[i] = d[m + i - 1]
      BY <3>1, <3>2, SubSeqProperties
    <3> QED
      BY <3>1, <3>3 DEF m
  <2>5. a \o b = d
    <3>1. 1 \in 1..Len(d) + 1 /\ pos \in 1 - 1..Len(d) /\ n \in pos..Len(d)
      BY <1>1, <2>1
    <3> HIDE DEF pos
    <3>2. a \o b = SubSeq(d, 1, n)
      BY <1>1, <3>1, ConcatAdjacentSubSeq
    <3> QED
      BY <1>1, <3>2, SubSeqFull
  <2> HIDE DEF a, b
  <2>6. a # << >> /\ b # << >> /\ Len(b) <= scale
    <3>1. pos # 0 /\ -e # 0 /\ -e <= scale
      BY <1>5, <2>1
    <3>2. Len(a) # 0 /\ Len(b) # 0 /\ Len(b) <= scale
      BY <2>3, <2>4, <3>1
    <3> QED
      BY <3>2
  <2>7. /\ text \in Seq(Chars) /\ Len(text) = Len(a) + 1 + Len(b)
        /\ IsDecimal(text)
        /\ Read(text, scale) = NumberOf(a \o b \o Zeros(scale - Len(b)))
        /\ Head(text) = a[1] /\ Last(text) = b[Len(b)]
    BY <2>2, <2>3, <2>4, <2>6, PointText
  <2>8. NumberOf(a \o b \o Zeros(scale - Len(b))) = p * Ten[scale + e]
    <3>1. scale - Len(b) = scale + e
      BY <2>4
    <3> QED
      BY <1>3, <2>5, <3>1
  <2>9. a[1] # "0" /\ b[Len(b)] # "0"
    BY <1>1, <2>1, <2>3, <2>4
  <2>10. text # << >>
    <3>1. Len(text) # 0
      BY <2>1, <2>3, <2>4, <2>7, <1>5
    <3> QED
      BY <3>1
  <2> QED
    BY <2>7, <2>8, <2>9, <2>10 DEF SaysScaled, text, d
<1>6. CASE e < 0 /\ ~(pos > 0)
  <2> DEFINE zero == <<"0">>
             zeros == Zeros(-pos)
             b == zeros \o d
  <2>1. -pos \in Nat
    BY <1>1, <1>6
  <2>2. zeros \in Seq(Numerals) /\ Len(zeros) = -pos
    BY <2>1, ZerosAre
  <2>3. zero \in Seq(Numerals) /\ zero # << >> /\ NumberOf(zero) = 0 /\ zero[1] = "0" /\ Len(zero) = 1
    BY ZeroText
  <2>4. b \in Seq(Numerals) /\ NumberOf(b) = p
    BY <1>1, <2>1, ZerosNumber
  <2>5. Len(b) = -e /\ b[-e] = d[n]
    <3> HIDE DEF zeros
    <3>1. /\ Len(b) = Len(zeros) + Len(d)
          /\ \A i \in 1..Len(zeros) + Len(d) : b[i] = IF i <= Len(zeros) THEN zeros[i] ELSE d[i - Len(zeros)]
      BY <1>1, <2>2, ConcatProperties, Zenon
    <3>2. Len(zeros) + Len(d) = -e
      BY <1>1, <2>2
    <3> HIDE DEF b
    <3>3. PICK i : i = -e
      OBVIOUS
    <3>4. i \in 1..-e /\ ~(i <= -pos) /\ i - (-pos) = n
      BY <1>1, <1>6, <3>3
    <3>5. b[i] = d[n]
      BY <2>2, <3>1, <3>2, <3>4
    <3> QED
      BY <3>1, <3>2, <3>3, <3>5
  <2>6. text = zero \o <<".">> \o b
    <3>1. text = <<"0", ".">> \o zeros \o d
      BY <1>2, <1>6
    <3>2. <<"0", ".">> = zero \o <<".">>
      OBVIOUS
    <3>3. <<"0", ".">> \in Seq(Chars) /\ zeros \in Seq(Chars) /\ d \in Seq(Chars)
      BY <1>1, <2>2, NumeralsAre DEF Chars
    <3>4. (<<"0", ".">> \o zeros) \o d = <<"0", ".">> \o (zeros \o d)
      BY <3>3, ConcatAssociative
    <3> QED
      BY <3>1, <3>2, <3>4
  <2> HIDE DEF b, zero, zeros
  <2>7. b # << >> /\ Len(b) <= scale
    <3>1. Len(b) # 0 /\ Len(b) <= scale
      BY <1>6, <2>5
    <3> QED
      BY <3>1
  <2>8. /\ text \in Seq(Chars) /\ Len(text) = Len(zero) + 1 + Len(b)
        /\ IsDecimal(text)
        /\ Read(text, scale) = NumberOf(zero \o b \o Zeros(scale - Len(b)))
        /\ Head(text) = zero[1] /\ Last(text) = b[Len(b)] /\ text[Len(zero) + 1] = "."
    BY <2>3, <2>4, <2>6, <2>7, PointText
  <2>9. NumberOf(zero \o b \o Zeros(scale - Len(b))) = p * Ten[scale + e]
    <3>1. scale - Len(b) = scale + e
      BY <2>5
    <3>2. zero \o b \in Seq(Numerals) /\ NumberOf(zero \o b) = p
      <4>1. zero \o b \in Seq(Numerals) /\ NumberOf(zero \o b) = NumberOf(zero) * Ten[Len(b)] + NumberOf(b)
        BY <2>3, <2>4, NumberConcat
      <4>2. Ten[Len(b)] \in Nat
        BY <2>4, TenIs
      <4> QED
        BY <2>3, <2>4, <4>1, <4>2
    <3>3. NumberOf((zero \o b) \o Zeros(scale + e)) = NumberOf(zero \o b) * Ten[scale + e]
      BY <3>2, ZerosNumber
    <3> QED
      BY <3>1, <3>2, <3>3
  <2>10. text[2] = "." /\ Last(text) # "0" /\ text # << >>
    <3>1. Len(zero) + 1 = 2 /\ b[Len(b)] # "0"
      BY <1>1, <2>3, <2>5
    <3>2. Len(text) # 0
      BY <1>6, <2>3, <2>5, <2>8
    <3> QED
      BY <2>8, <3>1, <3>2
  <2> QED
    BY <2>8, <2>9, <2>10 DEF SaysScaled, text, d
<1>7. pos \in Int
  BY <1>1
<1> QED
  BY <1>4, <1>5, <1>6, <1>7

LEMMA SignCut ==
    ASSUME NEW t \in Seq(Chars)
    PROVE  /\ <<"-">> \o t \in Seq(Chars \cup {"-"}) /\ <<"-">> \o t # << >>
           /\ Head(<<"-">> \o t) = "-" /\ Tail(<<"-">> \o t) = t
<1> DEFINE S == Chars \cup {"-"}
           n == Len(t)
           sign == <<"-">>
           s == sign \o t
<1>1. sign \in Seq(S) /\ Len(sign) = 1 /\ sign[1] = "-" /\ t \in Seq(S) /\ n \in Nat
  <2>1. "-" \in S /\ Chars \subseteq S
    OBVIOUS
  <2> HIDE DEF S
  <2>2. t \in Seq(S)
    BY <2>1, SeqMonotonic
  <2> QED
    BY <2>1, <2>2
<1> HIDE DEF S, sign
<1>2. /\ s \in Seq(S) /\ Len(s) = Len(sign) + Len(t)
      /\ \A i \in 1..Len(sign) + Len(t) : s[i] = IF i <= Len(sign) THEN sign[i] ELSE t[i - Len(sign)]
  <2>1. sign \in Seq(S) /\ t \in Seq(S)
    BY <1>1
  <2> QED
    BY <2>1, ConcatProperties, Zenon
<1> HIDE DEF s
<1>3. Len(s) = n + 1 /\ s[1] = "-"
  BY <1>1, <1>2
<1>4. s # << >> /\ Head(s) = "-"
  <2>1. Len(s) # 0
    BY <1>1, <1>3
  <2>2. s # << >>
    BY <2>1
  <2> QED
    BY <1>2, <1>3, <2>2
<1>5. Tail(s) = t
  <2>1. Tail(s) \in Seq(S) /\ Len(Tail(s)) = n /\ \A i \in 1..n : Tail(s)[i] = s[i + 1]
    <3>1. Tail(s) \in Seq(S) /\ Len(Tail(s)) = Len(s) - 1
      BY <1>2, <1>4
    <3>2. \A i \in 1..Len(s) - 1 : Tail(s)[i] = s[i + 1]
      BY <1>2, <1>4
    <3>3. Len(s) - 1 = n
      BY <1>1, <1>3
    <3> QED
      BY <3>1, <3>2, <3>3
  <2>2. \A i \in 1..n : Tail(s)[i] = t[i]
    <3> SUFFICES ASSUME NEW i \in 1..n PROVE Tail(s)[i] = t[i]
      OBVIOUS
    <3>1. i + 1 \in 1..1 + n /\ ~(i + 1 <= 1) /\ (i + 1) - 1 = i
      BY <1>1
    <3>2. s[i + 1] = t[(i + 1) - 1]
      BY <1>1, <1>2, <3>1
    <3> QED
      BY <2>1, <3>1, <3>2
  <2> QED
    BY <1>1, <2>1, <2>2, SeqEqual
<1> QED
  BY <1>2, <1>4, <1>5 DEF s, sign, S

\* The digits of a canonical number.
LEMMA DecimalSays ==
    ASSUME NEW m \in MantissaMin..MantissaMax, NEW e \in ExpMin..ExpMax
    PROVE  LET n == normalize(m, e)
               t == Positioned(Digits(n.mantissa), n.exponent)
           IN  /\ t \in Seq(Chars) /\ t # << >>
               /\ SaysScaled(t, m * Ten[e - ExpMin], -ExpMin)
<1> DEFINE z == TrailingZeros(m)
           p == m \div Base[z]
           scale == -ExpMin
<1>1. m \in Nat \ {0} /\ m < Ten[MaxDigits] /\ e \in Int /\ scale \in Nat /\ e - ExpMin \in Nat /\ ExpMin \in Int
  <2>1. MantissaMin \in Nat \ {0} /\ MantissaMax \in 0..Ten[MaxDigits] - 1 /\ ExpMin \in Int /\ ExpMin < 0 /\ ExpMax \in Nat
    BY AmountAssumption
  <2>2. Ten[MaxDigits] \in Nat
    BY PrintAssumption, TenIs
  <2> QED
    BY <2>1, <2>2
<1>2. /\ z \in 0..MaxDigits /\ p \in Nat \ {0} /\ p < Ten[MaxDigits]
      /\ m = p * Ten[z] /\ p % 10 # 0
  BY <1>1, TrailingIs
<1>3. normalize(m, e).mantissa = p /\ normalize(m, e).exponent = e + z
  BY DEF normalize
<1> HIDE DEF z, p
<1>4. z \in Nat
  BY <1>2, PrintAssumption
<1>5. e + z \in Int /\ scale + (e + z) \in Nat /\ scale + (e + z) = z + (e - ExpMin)
  BY <1>1, <1>4
<1>6. p * Ten[scale + (e + z)] = m * Ten[e - ExpMin]
  <2>1. Ten[scale + (e + z)] = Ten[z] * Ten[e - ExpMin]
    BY <1>1, <1>4, <1>5, TenAdds
  <2>2. PICK x \in Nat, y \in Nat : x = Ten[z] /\ y = Ten[e - ExpMin]
    BY <1>1, <1>4, TenIs
  <2>3. p * (x * y) = (p * x) * y
    BY <1>2
  <2> QED
    BY <1>2, <2>1, <2>2, <2>3
<1> HIDE DEF scale
<1>7. PICK i \in Int : i = e + z
  BY <1>5
<1>8. /\ Positioned(Digits(p), i) \in Seq(Chars) /\ Positioned(Digits(p), i) # << >>
      /\ SaysScaled(Positioned(Digits(p), i), p * Ten[scale + i], scale)
  BY <1>1, <1>2, <1>5, <1>7, PositionedSays
<1> QED
  BY <1>3, <1>6, <1>7, <1>8 DEF scale

LEMMA ZeroIssued == <<"0">> \in Seq(Chars \cup {"-"}) /\ <<"0">> # << >>
<1>1. "0" \in Chars \cup {"-"}
  BY NumeralsAre DEF Chars
<1> QED
  BY <1>1

IssuedValue == [sign : 0..1, exponent_bits : Nat, mantissa : Nat]

\* An amount of XRP without its bit is called invalid, and any other is printed.
LEMMA DropsShown ==
    ASSUME NEW drops \in 0..(2 * AmountBit) - 1
    PROVE  /\ format_xrp(drops) # << >>
           /\ IF drops < AmountBit THEN format_xrp(drops) = InvalidAmount
              ELSE SaysXRP(format_xrp(drops), drops - AmountBit)
<1>1. AmountBit \in Nat \ {0} /\ AmountBit <= Ten[MaxDigits] /\ Ten[MaxDigits] \in Nat /\ MaxDigits \in Nat
  <2>1. MaxDigits \in Nat
    BY PrintAssumption
  <2>2. Ten[MaxDigits] \in Nat
    BY <2>1, TenIs
  <2> QED
    BY <2>1, <2>2, AmountAssumption
<1>2. InvalidAmount # << >>
  BY DEF InvalidAmount
<1>3. CASE drops < AmountBit
  <2>1. drops \div AmountBit = 0
    BY <1>1, <1>3
  <2>2. format_xrp(drops) = InvalidAmount
    BY <2>1 DEF format_xrp
  <2> QED
    BY <1>2, <1>3, <2>2
<1>4. CASE ~(drops < AmountBit)
  <2>1. drops - AmountBit \in Nat /\ drops - AmountBit < Ten[MaxDigits]
    BY <1>1, <1>4
  <2>2. drops \div AmountBit = 1
    <3>1. drops = AmountBit * 1 + (drops - AmountBit) /\ drops - AmountBit \in 0..AmountBit - 1
      BY <1>1, <1>4
    <3>2. PICK r \in 0..AmountBit - 1 : r = drops - AmountBit
      BY <3>1
    <3> QED
      BY <1>1, <3>1, <3>2, DivUnique
  <2>3. format_xrp(drops) = OrInvalid(xrp_print_amount(drops - AmountBit))
    <3>1. (drops \div AmountBit) % 2 # 0
      BY <2>2
    <3> QED
      BY <3>1, Zenon DEF format_xrp
  <2>4. NumDigits(drops - AmountBit) <= MaxDigits
    <3>1. MaxDigits \in 0..MaxDigits
      BY <1>1
    <3> QED
      BY <2>1, <3>1, FewDigits
  <2>5. SaysXRP(xrp_print_amount(drops - AmountBit), drops - AmountBit)
    BY <2>1, <2>4, AmountSaysItself
  <2>6. xrp_print_amount(drops - AmountBit) # << >>
    <3> DEFINE text == xrp_print_amount(drops - AmountBit)
    <3> HIDE DEF text
    <3> SUFFICES ASSUME text = << >> PROVE FALSE
      BY DEF text
    <3>1. SaysXRP(text, drops - AmountBit)
      BY <2>5 DEF text
    <3>2. IsDecimal(SubSeq(text, 5, Len(text)))
      BY <3>1, Zenon DEF SaysXRP, SaysScaled
    <3>3. SubSeq(text, 5, Len(text)) # << >>
      BY <3>2, Zenon DEF IsDecimal
    <3>4. SubSeq(<< >>, 5, Len(<< >>)) = << >>
      OBVIOUS
    <3> QED
      BY <3>3, <3>4
  <2>7. format_xrp(drops) = xrp_print_amount(drops - AmountBit)
    BY <2>3, <2>6, Zenon DEF OrInvalid, Refused
  <2> QED
    BY <1>4, <2>5, <2>6, <2>7
<1> QED
  BY <1>3, <1>4

-----------------------------------------------------------------------------
(* Spaces.                                                                 *)

Without(text, c) == AtPositions(text, {i \in DOMAIN text : text[i] # c})

\* upTo[k] has the first k elements of s but those that are c.
Leaves(upTo, s, c) ==
    /\ upTo[0] = << >>
    /\ \A k \in 1..Len(s) :
           upTo[k] = IF s[k] # c THEN Append(upTo[k - 1], s[k]) ELSE upTo[k - 1]

LEMMA WithoutFollows ==
    ASSUME NEW S, NEW s \in Seq(S), NEW c
    PROVE  \E upTo \in [0..Len(s) -> Seq(S)] :
               Leaves(upTo, s, c) /\ Without(s, c) = upTo[Len(s)]
<1> DEFINE K == {i \in DOMAIN s : s[i] # c}
<1>1. PICK upTo \in [0..Len(s) -> Seq(S)] : Gathers(upTo, s, K) /\ AtPositions(s, K) = upTo[Len(s)]
  <2> HIDE DEF K
  <2> QED
    BY AtPositionsFollows
<1>2. \A k \in 1..Len(s) : k \in K <=> s[k] # c
  OBVIOUS
<1> HIDE DEF K
<1>3. \A k \in 1..Len(s) : upTo[k] = IF s[k] # c THEN Append(upTo[k - 1], s[k]) ELSE upTo[k - 1]
  BY <1>1, <1>2, Zenon DEF Gathers
<1> QED
  BY <1>1, <1>3, Zenon DEF Gathers, Leaves, Without, K

LEMMA WithoutAll ==
    ASSUME NEW S, NEW s \in Seq(S), NEW c, \A k \in 1..Len(s) : s[k] = c
    PROVE  Without(s, c) = << >>
<1>1. PICK upTo \in [0..Len(s) -> Seq(S)] :
          Leaves(upTo, s, c) /\ Without(s, c) = upTo[Len(s)]
  BY WithoutFollows
<1>2. Len(s) \in Nat
  OBVIOUS
<1> DEFINE T == {k \in 0..Len(s) : upTo[k] = << >>}
<1>3. 0 \in T
  BY <1>1, <1>2 DEF Leaves
<1>4. ASSUME NEW k \in 0..Len(s), k \in T, k < Len(s) PROVE k + 1 \in T
  <2>1. k + 1 \in 1..Len(s) /\ (k + 1) - 1 = k /\ k + 1 \in 0..Len(s)
    BY <1>2, <1>4
  <2>2. upTo[k + 1] = upTo[k]
    BY <1>1, <2>1 DEF Leaves
  <2> QED
    BY <1>4, <2>1, <2>2
<1>5. 0..Len(s) \subseteq T
  <2> HIDE DEF T
  <2> QED
    BY <1>2, <1>3, <1>4, UpTo
<1>6. Len(s) \in 0..Len(s)
  BY <1>2
<1> QED
  BY <1>1, <1>5, <1>6

LEMMA WithoutNone ==
    ASSUME NEW S, NEW s \in Seq(S), NEW c, \A k \in 1..Len(s) : s[k] # c
    PROVE  Without(s, c) = s
<1>1. PICK upTo \in [0..Len(s) -> Seq(S)] :
          Leaves(upTo, s, c) /\ Without(s, c) = upTo[Len(s)]
  BY WithoutFollows
<1>2. Len(s) \in Nat /\ \A k \in 1..Len(s) : s[k] \in S
  OBVIOUS
<1> DEFINE T == {k \in 0..Len(s) : Len(upTo[k]) = k /\ \A i \in 1..k : upTo[k][i] = s[i]}
<1>3. 0 \in T
  <2>1. Len(<< >>) = 0 /\ 0 \in 0..Len(s) /\ 1..0 = {}
    BY <1>2
  <2> QED
    BY <1>1, <2>1 DEF Leaves
<1>4. ASSUME NEW k \in 0..Len(s), k \in T, k < Len(s) PROVE k + 1 \in T
  <2>1. k + 1 \in 1..Len(s) /\ (k + 1) - 1 = k /\ k + 1 \in 0..Len(s) /\ k \in Nat
    BY <1>2, <1>4
  <2>2. PICK t \in Seq(S), e \in S : t = upTo[k] /\ e = s[k + 1]
    BY <1>2, <2>1
  <2>3. upTo[k + 1] = Append(t, e)
    BY <1>1, <2>1, <2>2 DEF Leaves
  <2>4. Len(t) = k /\ \A i \in 1..k : t[i] = s[i]
    BY <1>4, <2>2
  <2>5. /\ Len(Append(t, e)) = Len(t) + 1 /\ (\A i \in 1..Len(t) : Append(t, e)[i] = t[i])
        /\ Append(t, e)[Len(t) + 1] = e
    BY AppendProperties
  <2>6. \A i \in 1..k + 1 : Append(t, e)[i] = s[i]
    <3> SUFFICES ASSUME NEW i \in 1..k + 1 PROVE Append(t, e)[i] = s[i]
      OBVIOUS
    <3>1. i \in 1..k \/ i = k + 1
      BY <2>1
    <3> QED
      BY <2>2, <2>4, <2>5, <3>1
  <2>7. Len(upTo[k + 1]) = k + 1 /\ \A i \in 1..k + 1 : upTo[k + 1][i] = s[i]
    BY <2>3, <2>4, <2>5, <2>6
  <2> QED
    BY <2>1, <2>7
<1>5. 0..Len(s) \subseteq T
  <2> HIDE DEF T
  <2> QED
    BY <1>2, <1>3, <1>4, UpTo
<1>6. Len(s) \in 0..Len(s)
  BY <1>2
<1>7. PICK r \in Seq(S) : r = upTo[Len(s)]
  BY <1>6
<1>8. Len(r) = Len(s) /\ \A i \in 1..Len(r) : r[i] = s[i]
  BY <1>5, <1>6, <1>7
<1>9. r = s
  BY <1>8, SeqEqual
<1> QED
  BY <1>1, <1>7, <1>9

Splits(s, t, c) == Without(s \o t, c) = Without(s, c) \o Without(t, c)

LEMMA WithoutConcat ==
    ASSUME NEW S, NEW s \in Seq(S), NEW t \in Seq(S), NEW c
    PROVE  Splits(s, t, c)
<1> DEFINE m == Len(s)
           n == Len(t)
           r == s \o t
<1>1. /\ m \in Nat /\ n \in Nat /\ r \in Seq(S) /\ Len(r) = m + n
      /\ \A i \in 1..m + n : r[i] = IF i <= m THEN s[i] ELSE t[i - m]
      /\ \A i \in 1..m : s[i] \in S
      /\ \A i \in 1..n : t[i] \in S
  <2>1. /\ r \in Seq(S) /\ Len(r) = m + n
        /\ \A i \in 1..m + n : r[i] = IF i <= m THEN s[i] ELSE t[i - m]
    BY ConcatProperties, Zenon
  <2>2. /\ m \in Nat /\ n \in Nat /\ \A i \in 1..m : s[i] \in S
        /\ \A i \in 1..n : t[i] \in S
    OBVIOUS
  <2> QED
    BY <2>1, <2>2, Zenon
<1> HIDE DEF r
<1>13. \A x, y \in Seq(S), e \in S : Append(x \o y, e) = x \o Append(y, e)
  <2> SUFFICES ASSUME NEW x \in Seq(S), NEW y \in Seq(S), NEW e \in S
               PROVE  Append(x \o y, e) = x \o Append(y, e)
    OBVIOUS
  <2>1. <<e>> \in Seq(S) /\ x \in Seq(S) /\ y \in Seq(S)
    OBVIOUS
  <2>2. PICK f \in Seq(S), d \in Seq(S) : f = <<e>> /\ d = x \o y
    BY <2>1, ConcatProperties, Zenon
  <2>3. Append(d, e) = d \o f /\ Append(y, e) = y \o f
    BY <2>2, AppendIsConcat
  <2>4. (x \o y) \o f = x \o (y \o f)
    BY <2>1, ConcatAssociative
  <2> QED
    BY <2>2, <2>3, <2>4, Zenon
<1>2. PICK u \in [0..m -> Seq(S)] :
          Leaves(u, s, c) /\ Without(s, c) = u[m]
  BY WithoutFollows
<1>3. PICK v \in [0..n -> Seq(S)] :
          Leaves(v, t, c) /\ Without(t, c) = v[n]
  BY WithoutFollows
<1>4. PICK w \in [0..m + n -> Seq(S)] :
          Leaves(w, r, c) /\ Without(r, c) = w[m + n]
  <2>1. \E w \in [0..Len(r) -> Seq(S)] :
            Leaves(w, r, c) /\ Without(r, c) = w[Len(r)]
    BY <1>1, WithoutFollows
  <2> QED
    BY <1>1, <2>1, Zenon
<1> HIDE DEF m, n
<1> DEFINE T == {k \in 0..m : w[k] = u[k]}
<1>5. 0 \in T
  BY <1>1, <1>2, <1>4 DEF Leaves
<1>6. ASSUME NEW k \in 0..m, k \in T, k < m PROVE k + 1 \in T
  <2>1. k + 1 \in 1..m /\ k + 1 \in 1..m + n /\ (k + 1) - 1 = k /\ k + 1 \in 0..m /\ k + 1 <= m
    BY <1>1, <1>6
  <2>2. r[k + 1] = s[k + 1]
    BY <1>1, <2>1
  <2>3. w[k + 1] = u[k + 1]
    BY <1>1, <1>2, <1>4, <1>6, <2>1, <2>2 DEF Leaves, m
  <2> QED
    BY <2>1, <2>3
<1>7. 0..m \subseteq T
  <2> HIDE DEF T
  <2> QED
    BY <1>1, <1>5, <1>6, UpTo
<1> DEFINE U == {k \in 0..n : w[m + k] = u[m] \o v[k]}
<1>8. u[m] \in Seq(S) /\ w[m] = u[m] /\ v[n] \in Seq(S)
  <2>1. m \in 0..m /\ n \in 0..n
    BY <1>1
  <2> QED
    BY <1>7, <2>1
<1>9. 0 \in U
  <2>1. u[m] \o << >> = u[m]
    BY <1>8, ConcatEmptySeq
  <2>2. m + 0 = m /\ 0 \in 0..n
    BY <1>1
  <2> QED
    BY <1>3, <1>8, <2>1, <2>2 DEF Leaves
<1>10. ASSUME NEW k \in 0..n, k \in U, k < n PROVE k + 1 \in U
  <2>1. /\ k + 1 \in 1..n /\ m + (k + 1) \in 1..m + n /\ (m + (k + 1)) - 1 = m + k
        /\ (k + 1) - 1 = k /\ k + 1 \in 0..n /\ ~(m + (k + 1) <= m) /\ (m + (k + 1)) - m = k + 1
    BY <1>1, <1>10
  <2>2. r[m + (k + 1)] = t[k + 1]
    BY <1>1, <2>1
  <2>3. PICK e \in S, a \in Seq(S), b \in Seq(S) : e = t[k + 1] /\ a = u[m] /\ b = v[k]
    BY <1>1, <1>3, <1>8, <2>1
  <2>4. /\ w[m + (k + 1)] = IF e # c THEN Append(w[m + k], e) ELSE w[m + k]
        /\ v[k + 1] = IF e # c THEN Append(b, e) ELSE b
    BY <1>1, <1>3, <1>4, <2>1, <2>2, <2>3 DEF Leaves, n
  <2>5. w[m + k] = a \o b
    BY <1>10, <2>3
  <2>6. Append(a \o b, e) = a \o Append(b, e)
    BY <2>3, <1>13
  <2>7. w[m + (k + 1)] = u[m] \o v[k + 1]
    BY <2>3, <2>4, <2>5, <2>6, Zenon
  <2> QED
    BY <2>1, <2>7
<1>11. 0..n \subseteq U
  <2> HIDE DEF U
  <2> QED
    BY <1>1, <1>9, <1>10, UpTo
<1>12. w[m + n] = u[m] \o v[n]
  <2>1. n \in 0..n
    BY <1>1
  <2> QED
    BY <1>11, <2>1
<1> QED
  BY <1>2, <1>3, <1>4, <1>8, <1>12 DEF r, m, n, Splits

LEMMA PaddedLine ==
    ASSUME NEW S, NEW s \in Seq(S), NEW c, c \notin S, NEW width \in Nat, Len(s) <= width
    PROVE  LET padding == (width - Len(s)) \div 2
               line == ([k \in 1..padding |-> c] \o s) \o [k \in 1..width - padding - Len(s) |-> c]
           IN  /\ line \in Seq(S \cup {c}) /\ Len(line) = width
               /\ Without(line, c) = s
<1> DEFINE padding == (width - Len(s)) \div 2
           rest == width - padding - Len(s)
           A == [k \in 1..padding |-> c]
           B == [k \in 1..rest |-> c]
           C == S \cup {c}
<1>1. /\ padding \in Nat /\ rest \in Nat /\ padding + Len(s) + rest = width
      /\ Len(s) \in Nat
  <2>1. PICK l \in Nat : l = Len(s) /\ l <= width
    OBVIOUS
  <2>2. /\ (width - l) \div 2 \in Nat /\ width - (width - l) \div 2 - l \in Nat
        /\ (width - l) \div 2 + l + (width - (width - l) \div 2 - l) = width
    BY <2>1
  <2> QED
    BY <2>1, <2>2
<1> HIDE DEF padding, rest
<1>2. /\ A \in Seq(C) /\ Len(A) = padding /\ (\A k \in 1..Len(A) : A[k] = c)
      /\ B \in Seq(C) /\ Len(B) = rest /\ (\A k \in 1..Len(B) : B[k] = c)
  <2>1. c \in C
    OBVIOUS
  <2> HIDE DEF C
  <2>2. A \in [1..padding -> C] /\ B \in [1..rest -> C]
    BY <2>1
  <2>3. (\A k \in 1..padding : A[k] = c) /\ (\A k \in 1..rest : B[k] = c)
    OBVIOUS
  <2> HIDE DEF A, B
  <2>4. A \in Seq(C) /\ Len(A) = padding /\ B \in Seq(C) /\ Len(B) = rest
    BY <1>1, <2>2
  <2> QED
    BY <2>3, <2>4
<1>3. s \in Seq(C)
  BY SeqMonotonic
<1>4. \A k \in 1..Len(s) : s[k] # c
  BY ElementOfSeq
<1> HIDE DEF A, B, C
<1>5. /\ A \o s \in Seq(C) /\ Len(A \o s) = Len(A) + Len(s)
      /\ (A \o s) \o B \in Seq(C) /\ Len((A \o s) \o B) = Len(A \o s) + Len(B)
  <2>1. A \o s \in Seq(C) /\ Len(A \o s) = Len(A) + Len(s)
    BY <1>2, <1>3, ConcatProperties, Zenon
  <2> QED
    BY <1>2, <2>1, ConcatProperties, Zenon
<1>6. Without((A \o s) \o B, c) = s
  <2>1. Without(A, c) = << >> /\ Without(B, c) = << >>
    BY <1>2, WithoutAll
  <2>2. Without(s, c) = s
    BY <1>3, <1>4, WithoutNone
  <2>3. Without(A \o s, c) = << >> \o s
    <3>1. PICK a \in Seq(C), b \in Seq(C) : a = A /\ b = s
      BY <1>2, <1>3
    <3>2. Splits(a, b, c)
      BY WithoutConcat, Zenon
    <3> QED
      BY <2>1, <2>2, <3>1, <3>2, Zenon DEF Splits
  <2>4. Without((A \o s) \o B, c) = (<< >> \o s) \o << >>
    <3>1. PICK a \in Seq(C), b \in Seq(C) : a = A \o s /\ b = B
      BY <1>2, <1>5
    <3>2. Splits(a, b, c)
      BY WithoutConcat, Zenon
    <3> QED
      BY <2>1, <2>3, <3>1, <3>2, Zenon DEF Splits
  <2> QED
    BY <1>3, <2>4, ConcatEmptySeq
<1>7. Len((A \o s) \o B) = width
  BY <1>1, <1>2, <1>5
<1> QED
  BY <1>5, <1>6, <1>7 DEF A, B, C, padding, rest

IsSpace(c) == c = " "

LEMMA CenteredIs ==
    ASSUME NEW S, NEW s \in Seq(S), Len(s) <= PageWidth, NEW c, IsSpace(c), c \notin S
    PROVE  /\ Centered(s) \in Seq(S \cup {c}) /\ Len(Centered(s)) = PageWidth
           /\ Without(Centered(s), c) = s
<1>1. c = " "
  BY Zenon DEF IsSpace
<1>2. PageWidth \in Nat
  BY PageAssumption, Zenon
<1> DEFINE padding == (PageWidth - Len(s)) \div 2
           A == [k \in 1..padding |-> c]
           B == [k \in 1..PageWidth - padding - Len(s) |-> c]
<1>4. /\ (A \o s) \o B \in Seq(S \cup {c}) /\ Len((A \o s) \o B) = PageWidth
      /\ Without((A \o s) \o B, c) = s
  BY <1>2, PaddedLine, Zenon
<1>5. Centered(s) = (A \o s) \o B
  <2>1. Spaces(padding) = A /\ Spaces(PageWidth - padding - Len(s)) = B
    BY <1>1, Zenon DEF Spaces
  <2> HIDE DEF A, B
  <2> QED
    BY <2>1, Zenon DEF Centered
<1> QED
  BY <1>1, <1>4, <1>5, Zenon

-----------------------------------------------------------------------------
(* Accounts.                                                               *)

\* Three parts that fit a page each, and together are the text.
InThree(s, a, b, d, width) ==
    /\ a = SubSeq(s, 1, SegmentEnds(s)[1])
    /\ b = SubSeq(s, SegmentEnds(s)[1] + 1, SegmentEnds(s)[2])
    /\ d = SubSeq(s, SegmentEnds(s)[2] + 1, Len(s))
    /\ Len(a) <= width /\ Len(b) <= width /\ Len(d) <= width
    /\ (a \o b) \o d = s

LEMMA SegmentsAre ==
    ASSUME NEW S, NEW s \in Seq(S), NEW width \in Nat, Len(s) <= (3 * width) - 2
    PROVE  \E a, b, d \in Seq(S) : InThree(s, a, b, d, width)
<1>1. PICK l \in Nat : l = Len(s)
  OBVIOUS
<1>2. PICK m \in 0..l, n \in 0..l :
          SegmentEnds(s)[1] = m /\ SegmentEnds(s)[2] = n /\ m <= n
          /\ m <= width /\ n - m <= width /\ l - n <= width
  <2>1. PICK q \in Nat : q = l \div 3 /\ 3 * q <= l /\ l <= 3 * q + 2
    BY <1>1
  <2>2. /\ l - 2 * q \in 0..l /\ l - q \in 0..l /\ l - 2 * q <= l - q
        /\ l - 2 * q <= width /\ (l - q) - (l - 2 * q) <= width /\ l - (l - q) <= width
    BY <1>1, <2>1
  <2>3. SegmentEnds(s)[1] = l - 2 * q /\ SegmentEnds(s)[2] = l - q
    BY <1>1, <2>1 DEF SegmentEnds
  <2> QED
    BY <2>2, <2>3
<1> DEFINE a == SubSeq(s, 0 + 1, m)
           b == SubSeq(s, m + 1, n)
           d == SubSeq(s, n + 1, l)
<1>3. a \in Seq(S) /\ Len(a) = m
  <2>1. 0 \in 0..Len(s) /\ m \in 0..Len(s) /\ m - 0 = m
    BY <1>1
  <2> QED
    BY <2>1, PartIs
<1>4. b \in Seq(S) /\ Len(b) = n - m
  <2>1. m \in 0..Len(s) /\ n \in m..Len(s)
    BY <1>1, <1>2
  <2> QED
    BY <2>1, PartIs
<1>5. d \in Seq(S) /\ Len(d) = l - n
  <2>1. n \in 0..Len(s) /\ l \in n..Len(s)
    BY <1>1
  <2> QED
    BY <2>1, PartIs
<1>6. (a \o b) \o d = s
  <2>1. a \o b = SubSeq(s, 1, n)
    <3>1. 1 \in 1..Len(s) + 1 /\ m \in 1 - 1..Len(s) /\ n \in m..Len(s) /\ 0 + 1 = 1
      BY <1>1, <1>2
    <3> QED
      BY <3>1, ConcatAdjacentSubSeq
  <2>2. SubSeq(s, 1, n) \o d = SubSeq(s, 1, l)
    <3>1. 1 \in 1..Len(s) + 1 /\ n \in 1 - 1..Len(s) /\ l \in n..Len(s)
      BY <1>1
    <3> QED
      BY <3>1, ConcatAdjacentSubSeq
  <2>3. SubSeq(s, 1, l) = s
    BY <1>1, SubSeqFull
  <2> QED
    BY <2>1, <2>2, <2>3, Zenon
<1>7. 0 + 1 = 1
  OBVIOUS
<1> QED
  BY <1>1, <1>2, <1>3, <1>4, <1>5, <1>6, <1>7, Zenon DEF InThree

SplitsInThree(x, p, q, r, c) ==
    /\ Len(x) = Len(p) + Len(q) + Len(r)
    /\ Without(x, c) = (Without(p, c) \o Without(q, c)) \o Without(r, c)

LEMMA WithoutThree ==
    ASSUME NEW C, NEW p \in Seq(C), NEW q \in Seq(C), NEW r \in Seq(C), NEW c,
           NEW x, x = (p \o q) \o r
    PROVE  SplitsInThree(x, p, q, r, c)
<1>1. PICK u \in Seq(C) : u = p \o q /\ Len(u) = Len(p) + Len(q)
  BY ConcatProperties, Zenon
<1>2. Len(u \o r) = Len(u) + Len(r)
  BY ConcatProperties, Zenon
<1>3. Splits(p, q, c) /\ Splits(u, r, c)
  BY WithoutConcat, Zenon
<1> QED
  BY <1>1, <1>2, <1>3, Zenon DEF Splits, SplitsInThree

\* The spaces around the three segments of an address are all that is added to it.
LEMMA SegmentedIs ==
    ASSUME NEW S, NEW s \in Seq(S), Len(s) <= (3 * PageWidth) - 2, NEW c, IsSpace(c), c \notin S
    PROVE  Len(Segmented(s)) = 3 * PageWidth /\ Without(Segmented(s), c) = s
<1>1. PICK w \in Nat : w = PageWidth
  BY PageAssumption, Zenon
<1>2. PICK a, b, d \in Seq(S) : InThree(s, a, b, d, w)
  <2>1. Len(s) <= (3 * w) - 2
    BY <1>1
  <2> QED
    BY <2>1, SegmentsAre
<1>3. PICK C : C = S \cup {c}
  OBVIOUS
<1>4. ASSUME NEW x \in Seq(S), Len(x) <= w
      PROVE  Centered(x) \in Seq(C) /\ Len(Centered(x)) = w /\ Without(Centered(x), c) = x
  BY <1>1, <1>3, <1>4, CenteredIs, Zenon
<1>5. PICK p, q, r \in Seq(C) : p = Centered(a) /\ q = Centered(b) /\ r = Centered(d)
  BY <1>2, <1>4 DEF InThree
<1>6. /\ Len(p) = w /\ Without(p, c) = a
      /\ Len(q) = w /\ Without(q, c) = b
      /\ Len(r) = w /\ Without(r, c) = d
  BY <1>2, <1>4, <1>5 DEF InThree
<1>7. PICK x : x = (p \o q) \o r
  OBVIOUS
<1>8. x = Segmented(s)
  BY <1>2, <1>5, <1>7, Zenon DEF Segmented, InThree
<1>9. SplitsInThree(x, p, q, r, c)
  BY <1>7, WithoutThree, Zenon
<1>10. w + w + w = 3 * w
  BY <1>1
<1> QED
  BY <1>1, <1>2, <1>6, <1>8, <1>9, <1>10, Zenon DEF InThree, SplitsInThree

\* What is hashed and what is encoded: a zero byte is first, and not too many follow.
LEMMA EncodedBytes ==
    ASSUME NEW account \in Seq(0..InBase - 1), NEW checksum \in Seq(0..InBase - 1),
           Len(account) + Len(checksum) <= AddressSize
    PROVE  LET bytes == (<<0>> \o account) \o checksum
           IN  /\ bytes \in Seq(0..InBase - 1) /\ Len(bytes) \in 1..AddressSize + 1 /\ bytes[1] = 0
<1> DEFINE B == 0..InBase - 1
<1>1. AddressSize \in Nat /\ 0 \in B
  BY SizesFit, BasesAre
<1>2. account \in Seq(B) /\ checksum \in Seq(B)
  OBVIOUS
<1> HIDE DEF B
<1>3. PICK first \in Seq(B) : first = <<0>> /\ Len(first) = 1 /\ first[1] = 0
  <2>1. <<0>> \in Seq(B)
    BY <1>1
  <2>2. Len(<<0>>) = 1 /\ <<0>>[1] = 0
    OBVIOUS
  <2> QED
    BY <2>1, <2>2, Zenon
<1>4. PICK hashed \in Seq(B) :
          /\ hashed = first \o account /\ Len(hashed) = Len(first) + Len(account)
          /\ \A i \in 1..Len(first) + Len(account) :
                 hashed[i] = IF i <= Len(first) THEN first[i] ELSE account[i - Len(first)]
  <2>1. /\ first \o account \in Seq(B) /\ Len(first \o account) = Len(first) + Len(account)
        /\ \A i \in 1..Len(first) + Len(account) :
               (first \o account)[i] = IF i <= Len(first) THEN first[i] ELSE account[i - Len(first)]
    BY <1>2, ConcatProperties, Zenon
  <2> QED
    BY <2>1, Zenon
<1>5. PICK bytes \in Seq(B) :
          /\ bytes = hashed \o checksum /\ Len(bytes) = Len(hashed) + Len(checksum)
          /\ \A i \in 1..Len(hashed) + Len(checksum) :
                 bytes[i] = IF i <= Len(hashed) THEN hashed[i] ELSE checksum[i - Len(hashed)]
  <2>1. /\ hashed \o checksum \in Seq(B) /\ Len(hashed \o checksum) = Len(hashed) + Len(checksum)
        /\ \A i \in 1..Len(hashed) + Len(checksum) :
               (hashed \o checksum)[i] =
                   IF i <= Len(hashed) THEN hashed[i] ELSE checksum[i - Len(hashed)]
    BY <1>2, ConcatProperties, Zenon
  <2> QED
    BY <2>1, Zenon
<1>6. PICK m, n \in Nat : m = Len(account) /\ n = Len(checksum)
  BY <1>2
<1>7. /\ Len(hashed) = 1 + m /\ Len(bytes) = (1 + m) + n
      /\ 1 \in 1..1 + m /\ 1 \in 1..(1 + m) + n
      /\ Len(bytes) \in 1..AddressSize + 1
  BY <1>1, <1>3, <1>4, <1>5, <1>6
<1>8. hashed[1] = 0
  BY <1>3, <1>4, <1>6, <1>7
<1>9. bytes[1] = 0
  <2>1. 1 <= 1 + m
    BY <1>6
  <2> QED
    BY <1>5, <1>6, <1>7, <1>8, <2>1, Zenon
<1> QED
  BY <1>3, <1>4, <1>5, <1>7, <1>9, Zenon DEF B

LEMMA NoSpaceInAlphabet == \A c : IsSpace(c) => c \notin Range(Alphabet)
BY BaseAssumption, Zenon DEF IsSpace

LEMMA LettersStay ==
    ASSUME NEW S, NEW s \in Seq(S), NEW c, c \notin S
    PROVE  Without(s, c) = s
<1>1. \A k \in 1..Len(s) : s[k] # c
  BY ElementOfSeq
<1> QED
  BY <1>1, WithoutNone

LEMMA PagesHold ==
    /\ PageWidth \in Nat /\ OutputSize(AddressSize) + 1 \in Nat
    /\ \A l \in 1..OutputSize(AddressSize) + 1 : l <= (3 * PageWidth) - 2 /\ l <= 3 * PageWidth
<1>1. PICK n \in Nat : n = OutputSize(AddressSize)
  BY SizesFit
<1>2. PageWidth \in Nat /\ n + 1 <= (3 * PageWidth) - 2
  BY <1>1, PageAssumption, Zenon
<1> QED
  BY <1>1, <1>2

\* Whichever way an account is shown, its letters are the base58 text of its bytes.
LEMMA AccountSays ==
    ASSUME NEW account \in Seq(0..InBase - 1), account # << >>, NEW s \in BOOLEAN,
           NEW checksum \in Seq(0..InBase - 1), checksum = Checksum(<< 0 >> \o account),
           Len(account) + Len(checksum) <= AddressSize, NEW c, IsSpace(c)
    PROVE  LET shown == account_formatter(account, s)
           IN  /\ shown # << >>
               /\ Encodes(Without(shown, c), (<<0>> \o account) \o checksum)
               /\ s => Len(shown) = 3 * PageWidth
<1> DEFINE A == Range(Alphabet)
<1>1. PICK bytes \in Seq(0..InBase - 1) :
          /\ bytes = (<<0>> \o account) \o checksum
          /\ Len(bytes) \in 1..AddressSize + 1 /\ bytes[1] = 0
  BY EncodedBytes, Zenon
<1>2. PICK text : text = xrp_encode_base58_address(bytes)
  OBVIOUS
<1>3. text \in Seq(A) /\ Encodes(text, bytes) /\ Len(text) \in 1..OutputSize(AddressSize) + 1
  BY <1>1, <1>2, TextEncodes, Zenon
<1>4. xrp_public_key_to_encoded_base58(account) = text
  BY <1>1, <1>2, Zenon DEF xrp_public_key_to_encoded_base58
<1>5. PICK shown : shown = account_formatter(account, s)
  OBVIOUS
<1>6. Len(text) <= (3 * PageWidth) - 2 /\ Len(text) <= 3 * PageWidth
  BY <1>3, PagesHold
<1>7. shown = IF s THEN Segmented(text) ELSE text
  BY <1>4, <1>5, <1>6, Zenon DEF account_formatter
<1>8. c \notin A
  BY NoSpaceInAlphabet, Zenon
<1> HIDE DEF A
<1>9. Len(Segmented(text)) = 3 * PageWidth /\ Without(Segmented(text), c) = text
  BY <1>3, <1>6, <1>8, SegmentedIs
<1>10. Without(text, c) = text
  BY <1>3, <1>8, LettersStay
<1>11. Len(text) # 0 /\ Len(<< >>) = 0
  BY <1>3, PagesHold
<1>12. 3 * PageWidth # 0
  BY <1>3, <1>6, PagesHold
<1>13. shown # << >>
  BY <1>7, <1>9, <1>11, <1>12
<1>14. Encodes(Without(shown, c), bytes)
  BY <1>3, <1>7, <1>9, <1>10, Zenon
<1>15. s => Len(shown) = 3 * PageWidth
  BY <1>7, <1>9, Zenon
<1> QED
  BY <1>1, <1>5, <1>13, <1>14, <1>15, Zenon

-----------------------------------------------------------------------------
(* Lengths.                                                                *)

LEMMA WithoutZerosFits ==
    ASSUME NEW head \in Seq(Chars), head # << >>, NEW tail \in Seq(Numerals)
    PROVE  Len(WithoutZeros(head, tail)) <= Len(head) + Len(tail)
<1> DEFINE kept == Kept(tail)
           sub == SubSeq(tail, 1, kept)
<1>1. PICK m, n \in Nat : m = Len(head) /\ n = Len(tail) /\ m # 0
  <2>1. Len(head) \in Nat /\ Len(tail) \in Nat /\ Len(head) # 0
    OBVIOUS
  <2> QED
    BY <2>1
<1>2. kept \in 0..n /\ sub \in Seq(Numerals) /\ Len(sub) = kept
  <2>1. kept \in 0..Len(tail) /\ sub \in Seq(Numerals) /\ Len(sub) = kept
    BY KeptIs
  <2> QED
    BY <1>1, <2>1
<1>3. WithoutZeros(head, tail) = IF kept = 0 /\ tail # << >> /\ Last(head) = "." THEN Front(head)
                                 ELSE head \o sub
  BY DEF WithoutZeros, Kept
<1> HIDE DEF kept, sub
<1>4. Len(Front(head)) = m - 1
  <2>1. m - 1 \in 0..Len(head) /\ 0 \in 0..m - 1
    BY <1>1
  <2>2. Len(SubSeq(head, 1, m - 1)) = m - 1
    BY <2>1, BeginningOf
  <2> QED
    BY <1>1, <2>2 DEF Front
<1>5. Len(head \o sub) = m + kept
  <2>1. sub \in Seq(Chars)
    <3>1. Numerals \subseteq Chars
      BY DEF Chars
    <3> QED
      BY <1>2, <3>1, SeqMonotonic
  <2>2. Len(head \o sub) = Len(head) + Len(sub)
    BY <2>1, ConcatProperties, Zenon
  <2> QED
    BY <1>1, <1>2, <2>2
<1>6. Len(WithoutZeros(head, tail)) \in {m - 1, m + kept}
  BY <1>3, <1>4, <1>5, Zenon
<1> QED
  BY <1>1, <1>2, <1>6

\* An amount of XRP without its code.
LEMMA AdjustedFits ==
    ASSUME NEW v \in Nat, NumDigits(v) <= MaxDigits
    PROVE  adjust_decimals(Digits(v)) \in Seq(Chars) /\ Len(adjust_decimals(Digits(v))) <= MaxDigits + 2
<1>1. PICK n \in Nat, src \in Seq(Numerals) :
          n = NumDigits(v) /\ n <= MaxDigits /\ src = Digits(v) /\ Len(src) = n
  <2>1. NumDigits(v) \in 0..MaxDigits /\ Digits(v) \in Seq(Numerals) /\ Len(Digits(v)) = NumDigits(v)
    BY DigitsNumber
  <2>2. MaxDigits \in Nat
    BY PrintAssumption
  <2>3. NumDigits(v) \in Nat
    BY <2>1, <2>2
  <2> QED
    BY <2>1, <2>3
<1>2. MaxDigits \in Nat /\ Decimals \in 1..MaxDigits
  BY PrintAssumption
<1>3. adjust_decimals(src) \in Seq(Chars)
  <2>1. n <= Decimals \/ n > Decimals
    BY <1>2
  <2> QED
    BY <1>1, <2>1, SmallSays, LargeSays
<1>4. CASE src = <<"0">>
  <2>1. adjust_decimals(src) = <<"0">>
    BY <1>4, Zenon DEF adjust_decimals
  <2>2. Len(<<"0">>) = 1
    OBVIOUS
  <2>3. 1 <= MaxDigits + 2
    BY <1>2
  <2> QED
    BY <1>1, <1>3, <2>1, <2>2, <2>3
<1>5. CASE src # <<"0">> /\ n <= Decimals
  <2> DEFINE lead == <<"0", ".">>
             pad == Zeros(Decimals - n)
             head == lead \o pad
  <2>1. lead \in Seq(Chars) /\ Len(lead) = 2
    <3>1. "0" \in Chars /\ "." \in Chars
      BY NumeralsAre DEF Chars
    <3> QED
      BY <3>1
  <2>2. pad \in Seq(Chars) /\ Len(pad) = Decimals - n
    <3>1. Decimals - n \in Nat
      BY <1>2, <1>5
    <3>2. pad \in Seq(Numerals) /\ Len(pad) = Decimals - n
      BY <3>1, ZerosAre
    <3>3. Numerals \subseteq Chars
      BY DEF Chars
    <3> HIDE DEF pad
    <3> QED
      BY <3>2, <3>3, SeqMonotonic
  <2>3. adjust_decimals(src) = WithoutZeros(head, src)
    BY <1>1, <1>5 DEF adjust_decimals, Padding
  <2> HIDE DEF lead, pad
  <2>4. head \in Seq(Chars) /\ Len(head) = Len(lead) + Len(pad)
    BY <2>1, <2>2, ConcatProperties, Zenon
  <2> HIDE DEF head
  <2>5. Len(head) = 2 + (Decimals - n) /\ Len(head) # 0
    BY <1>1, <1>2, <1>5, <2>1, <2>2, <2>4
  <2>6. head # << >>
    BY <2>4, <2>5
  <2>7. Len(WithoutZeros(head, src)) <= Len(head) + Len(src)
    BY <2>4, <2>6, WithoutZerosFits
  <2>8. PICK l \in Nat : l = Len(adjust_decimals(src))
    BY <1>3
  <2>9. l <= MaxDigits + 2
    <3>1. PICK h \in Nat : h = Len(head)
      BY <2>4
    <3>2. h = 2 + (Decimals - n)
      BY <2>5, <3>1
    <3>3. l <= h + n
      BY <1>1, <2>3, <2>7, <2>8, <3>1, Zenon
    <3> QED
      BY <1>1, <1>2, <3>2, <3>3
  <2> QED
    BY <1>1, <1>3, <2>8, <2>9
<1>6. CASE src # <<"0">> /\ ~(n <= Decimals)
  <2> DEFINE a == SubSeq(src, 0 + 1, n - Decimals)
             tail == SubSeq(src, (n - Decimals) + 1, n)
             point == <<".">>
             head == a \o point
  <2>1. a \in Seq(Numerals) /\ Len(a) = n - Decimals
    <3>1. n - Decimals \in 0..Len(src) /\ 0 \in 0..Len(src) /\ (n - Decimals) - 0 = n - Decimals
      BY <1>1, <1>2, <1>6
    <3> QED
      BY <3>1, PartIs
  <2>2. tail \in Seq(Numerals) /\ Len(tail) = Decimals
    <3>1. n - Decimals \in 0..Len(src) /\ n \in n - Decimals..Len(src) /\ n - (n - Decimals) = Decimals
      BY <1>1, <1>2, <1>6
    <3> QED
      BY <3>1, PartIs
  <2>3. adjust_decimals(src) = WithoutZeros(head, tail)
    <3>1. ~(Len(src) <= Decimals) /\ 0 + 1 = 1
      BY <1>1, <1>6
    <3> QED
      BY <1>1, <1>6, <3>1, Zenon DEF adjust_decimals
  <2>4. a \in Seq(Chars) /\ point \in Seq(Chars) /\ Len(point) = 1
    <3>1. Numerals \subseteq Chars /\ "." \in Chars
      BY DEF Chars
    <3> HIDE DEF a
    <3>2. a \in Seq(Chars)
      BY <2>1, <3>1, SeqMonotonic
    <3> QED
      BY <3>1, <3>2
  <2> HIDE DEF a, tail, point
  <2>5. head \in Seq(Chars) /\ Len(head) = Len(a) + Len(point)
    BY <2>4, ConcatProperties, Zenon
  <2> HIDE DEF head
  <2>6. Len(head) = (n - Decimals) + 1 /\ Len(head) # 0
    BY <1>1, <1>2, <1>6, <2>1, <2>4, <2>5
  <2>7. head # << >>
    BY <2>5, <2>6
  <2>8. Len(WithoutZeros(head, tail)) <= Len(head) + Len(tail)
    BY <2>2, <2>5, <2>7, WithoutZerosFits
  <2>9. PICK l \in Nat : l = Len(adjust_decimals(src))
    BY <1>3
  <2>10. l <= MaxDigits + 2
    <3>1. PICK h \in Nat : h = Len(head)
      BY <2>5
    <3>2. h = (n - Decimals) + 1
      BY <2>6, <3>1
    <3>3. l <= h + Decimals
      BY <2>2, <2>3, <2>8, <2>9, <3>1, Zenon
    <3> QED
      BY <1>1, <1>2, <3>2, <3>3
  <2> QED
    BY <1>1, <1>3, <2>9, <2>10
<1> QED
  BY <1>4, <1>5, <1>6

-----------------------------------------------------------------------------
(* Texts that fit.                                                         *)

\* A text that is not empty, and is not longer than the buffer of a row.
Fits(text) == text # << >> /\ Len(text) <= MaxText

LEMMA OneFits == \A c : Fits(<<c>>)
<1>1. \A c : <<c>> # << >> /\ Len(<<c>>) = 1
  OBVIOUS
<1>2. 1 <= MaxText
  BY RoomIs
<1> QED
  BY <1>1, <1>2 DEF Fits

\* A text that goes on after its first part.
LEMMA Joined ==
    ASSUME NEW S, NEW s \in Seq(S), NEW t \in Seq(S), NEW m \in Nat, NEW n \in Nat,
           Len(s) <= m, Len(t) <= n
    PROVE  s \o t \in Seq(S) /\ Len(s \o t) <= m + n
<1>1. s \o t \in Seq(S) /\ Len(s \o t) = Len(s) + Len(t)
  BY PrefixCut
<1>2. Len(s) \in Nat /\ Len(t) \in Nat
  OBVIOUS
<1> QED
  BY <1>1, <1>2

\* What the ledger allows of XRP, with its code.
LEMMA DropsFit ==
    ASSUME NEW drops \in 0..(2 * AmountBit) - 1
    PROVE  Fits(format_xrp(drops))
<1>1. /\ format_xrp(drops) # << >>
      /\ IF drops < AmountBit THEN format_xrp(drops) = InvalidAmount
         ELSE SaysXRP(format_xrp(drops), drops - AmountBit)
  BY DropsShown
<1>2. AmountBit \in Nat \ {0} /\ AmountBit <= Ten[MaxDigits] /\ Ten[MaxDigits] \in Nat /\ MaxDigits \in Nat
  <2>1. MaxDigits \in Nat
    BY PrintAssumption
  <2>2. Ten[MaxDigits] \in Nat
    BY <2>1, TenIs
  <2> QED
    BY <2>1, <2>2, AmountAssumption
<1>3. CASE drops < AmountBit
  BY <1>1, <1>3, OneFits, Zenon DEF InvalidAmount
<1>4. CASE ~(drops < AmountBit)
  <2>1. PICK v \in Nat : v = drops - AmountBit /\ v < Ten[MaxDigits]
    BY <1>2, <1>4
  <2>2. NumDigits(v) <= MaxDigits
    <3>1. MaxDigits \in 0..MaxDigits
      BY <1>2
    <3> QED
      BY <2>1, <3>1, FewDigits
  <2>3. format_xrp(drops) = OrInvalid(xrp_print_amount(v))
    <3>1. drops \div AmountBit = 1
      <4>1. drops = AmountBit * 1 + v /\ v \in 0..AmountBit - 1
        BY <1>2, <1>4, <2>1
      <4> QED
        BY <1>2, <4>1, DivUnique
    <3>2. (drops \div AmountBit) % 2 # 0
      BY <3>1
    <3> QED
      BY <2>1, <3>2, Zenon DEF format_xrp
  <2>4. MaxDigits + 6 <= MaxText /\ MaxText \in Nat
    BY RoomAssumption, RoomIs
  <2>5. PICK s : s = adjust_decimals(Digits(v))
    OBVIOUS
  <2>6. s \in Seq(Chars) /\ Len(s) <= MaxDigits + 2
    BY <2>1, <2>2, <2>5, AdjustedFits
  <2>7. ~(NumDigits(v) > MaxDigits)
    <3>1. NumDigits(v) \in 0..MaxDigits
      BY <2>1, <2>2, DigitsNumber
    <3> QED
      BY <1>2, <3>1
  <2>8. PICK a, b, c, d : Ticker = <<a, b, c>> /\ <<" ">> = <<d>>
    BY DEF Ticker
  <2>9. xrp_print_amount(v) = (<<a, b, c>> \o <<d>>) \o s
    BY <2>5, <2>7, <2>8, Zenon DEF xrp_print_amount
  <2> DEFINE S == Chars \cup {a, b, c, d}
  <2>10. s \in Seq(S)
    <3>1. Chars \subseteq S
      OBVIOUS
    <3> HIDE DEF S
    <3> QED
      BY <2>6, <3>1, SeqMonotonic
  <2>11. /\ <<a, b, c>> \in Seq(S) /\ Len(<<a, b, c>>) <= 3
         /\ <<d>> \in Seq(S) /\ Len(<<d>>) <= 1
    OBVIOUS
  <2> HIDE DEF S
  <2>12. MaxDigits + 2 \in Nat /\ 3 + 1 \in Nat /\ 3 \in Nat /\ 1 \in Nat
    BY <1>2
  <2>13. PICK h \in Seq(S) : h = <<a, b, c>> \o <<d>> /\ Len(h) <= 3 + 1
    <3>1. /\ <<a, b, c>> \o <<d>> \in Seq(S)
          /\ Len(<<a, b, c>> \o <<d>>) <= 3 + 1
      BY <2>11, <2>12, Joined
    <3> QED
      BY <3>1, Zenon
  <2>14. Len(h \o s) <= (3 + 1) + (MaxDigits + 2) /\ h \o s \in Seq(S)
    BY <2>6, <2>10, <2>12, <2>13, Joined
  <2>15. Len(xrp_print_amount(v)) <= (3 + 1) + (MaxDigits + 2) /\ Len(xrp_print_amount(v)) \in Nat
    BY <2>9, <2>13, <2>14
  <2>16. Len(xrp_print_amount(v)) <= MaxText
    BY <1>2, <2>4, <2>15
  <2>17. format_xrp(drops) \in {InvalidAmount, xrp_print_amount(v)}
    BY <2>3, Zenon DEF OrInvalid
  <2> QED
    BY <1>1, <2>16, <2>17, OneFits, Zenon DEF Fits, InvalidAmount
<1> QED
  BY <1>3, <1>4

\* A number and an entry count.
LEMMA UnsignedFits ==
    ASSUME NEW v \in Nat, v < Ten[MaxDigits]
    PROVE  Unsigned(v) \in Seq(Numerals) /\ Len(Unsigned(v)) <= MaxDigits /\ Fits(Unsigned(v))
<1>1. Unsigned(v) \in Seq(Numerals) /\ Unsigned(v) # << >>
  BY UnsignedIs
<1>2. MaxDigits \in Nat \ {0} /\ MaxText \in Nat /\ MaxDigits + 6 <= MaxText
  BY PrintAssumption, RoomAssumption, RoomIs
<1>3. Len(Unsigned(v)) <= MaxDigits
  <2>1. CASE v = 0
    <3>1. Len(<<"0">>) = 1
      OBVIOUS
    <3> QED
      BY <1>2, <2>1, <3>1 DEF Unsigned
  <2>2. CASE v # 0
    <3>1. MaxDigits \in 0..MaxDigits
      BY <1>2
    <3>2. NumDigits(v) <= MaxDigits
      BY <3>1, FewDigits
    <3> QED
      BY <2>2, <3>2, DigitsNumber DEF Unsigned
  <2> QED
    BY <2>1, <2>2
<1>4. PICK l \in Nat : l = Len(Unsigned(v))
  BY <1>1
<1> QED
  BY <1>1, <1>2, <1>3, <1>4 DEF Fits

\* What the digits of a number need with the point in its place.
LEMMA PositionedFits ==
    ASSUME NEW p \in Nat \ {0}, p < Ten[MaxDigits], p % 10 # 0,
           NEW e \in Int, NEW scale \in Nat, scale + e \in Nat
    PROVE  LET n == NumDigits(p)
               text == Positioned(Digits(p), e)
           IN  /\ n \in 1..MaxDigits /\ text \in Seq(Chars)
               /\ Len(text) <= IF e >= 0 THEN n + e ELSE IF n + e > 0 THEN n + 1 ELSE 2 - e
<1> DEFINE d == Digits(p)
           n == NumDigits(p)
           text == Positioned(d, e)
           pos == n + e
<1>1. n \in 1..MaxDigits /\ d \in Seq(Numerals) /\ Len(d) = n /\ n \in Nat
  <2>1. MaxDigits \in Nat /\ MaxDigits \in 0..MaxDigits
    BY PrintAssumption
  <2>2. n \in 0..MaxDigits /\ n <= MaxDigits
    BY <2>1, FewDigits
  <2>3. d \in Seq(Numerals) /\ Len(d) = n /\ n # 0
    BY <2>2, DigitsNumber
  <2> QED
    BY <2>1, <2>2, <2>3
<1>2. text = IF e >= 0 THEN d \o Zeros(e)
             ELSE IF pos > 0
             THEN (SubSeq(d, 1, pos) \o <<".">>) \o SubSeq(d, pos + 1, n)
             ELSE (<<"0", ".">> \o Zeros(-pos)) \o d
  BY <1>1 DEF Positioned
<1>3. text \in Seq(Chars)
  BY PositionedSays
<1>4. Numerals \subseteq Chars /\ "." \in Chars /\ "0" \in Chars
  BY NumeralsAre DEF Chars
<1>5. d \in Seq(Chars)
  BY <1>1, <1>4, SeqMonotonic
<1> HIDE DEF d, n, text
<1>6. CASE e >= 0
  <2>1. e \in Nat /\ Zeros(e) \in Seq(Chars) /\ Len(Zeros(e)) = e
    <3>1. e \in Nat
      BY <1>6
    <3>2. Zeros(e) \in Seq(Numerals) /\ Len(Zeros(e)) = e
      BY <3>1, ZerosAre
    <3> QED
      BY <1>4, <3>1, <3>2, SeqMonotonic
  <2>2. text = d \o Zeros(e)
    BY <1>2, <1>6
  <2>3. PICK z \in Seq(Chars) : z = Zeros(e) /\ Len(z) <= e
    BY <2>1
  <2>4. Len(d \o z) <= n + e
    BY <1>1, <1>5, <2>1, <2>3, Joined
  <2>5. Len(text) <= n + e
    BY <2>2, <2>3, <2>4, Zenon
  <2> QED
    BY <1>1, <1>3, <1>6, <2>5 DEF text, d, n
<1>7. CASE ~(e >= 0) /\ pos > 0
  <2> DEFINE a == SubSeq(d, 0 + 1, pos)
             b == SubSeq(d, pos + 1, n)
             point == <<".">>
  <2>1. a \in Seq(Chars) /\ Len(a) = pos /\ pos \in Nat
    <3>1. pos \in 0..Len(d) /\ 0 \in 0..pos /\ pos - 0 = pos /\ 0 \in 0..Len(d) /\ pos \in Nat
      BY <1>1, <1>7
    <3> HIDE DEF pos
    <3> QED
      BY <1>5, <3>1, PartIs
  <2>2. b \in Seq(Chars) /\ Len(b) = n - pos /\ n - pos \in Nat
    <3>1. pos \in 0..Len(d) /\ n \in pos..Len(d) /\ n - pos \in Nat
      BY <1>1, <1>7
    <3> HIDE DEF pos
    <3> QED
      BY <1>5, <3>1, PartIs
  <2>3. point \in Seq(Chars) /\ Len(point) = 1
    BY <1>4
  <2>4. text = (a \o point) \o b
    <3>1. 0 + 1 = 1
      OBVIOUS
    <3> HIDE DEF pos
    <3> QED
      BY <1>2, <1>7, <3>1, Zenon
  <2> HIDE DEF a, b, point, pos
  <2>5. Len(a) <= pos /\ Len(b) <= n - pos /\ Len(point) <= 1 /\ pos + 1 \in Nat /\ 1 \in Nat
    BY <2>1, <2>2, <2>3
  <2>6. a \o point \in Seq(Chars) /\ Len(a \o point) <= pos + 1
    BY <2>1, <2>3, <2>5, Joined
  <2>7. PICK i \in Nat, h \in Seq(Chars) : i = pos + 1 /\ h = a \o point /\ Len(h) <= i
    BY <2>5, <2>6
  <2>8. Len(h \o b) <= i + (n - pos)
    BY <2>2, <2>5, <2>7, Joined
  <2>9. Len(text) <= i + (n - pos)
    BY <2>4, <2>7, <2>8, Zenon
  <2>10. i + (n - pos) = n + 1 /\ n + e > 0
    BY <1>1, <1>7, <2>1, <2>7 DEF pos
  <2>11. Len(text) <= n + 1
    BY <2>9, <2>10
  <2> QED
    BY <1>1, <1>3, <1>7, <2>10, <2>11 DEF text, d, n
<1>8. CASE ~(e >= 0) /\ ~(pos > 0)
  <2> DEFINE lead == <<"0", ".">>
             z == Zeros(-pos)
  <2>1. -pos \in Nat
    BY <1>1, <1>8
  <2>2. z \in Seq(Chars) /\ Len(z) = -pos
    <3>1. z \in Seq(Numerals) /\ Len(z) = -pos
      BY <2>1, ZerosAre
    <3> HIDE DEF z
    <3> QED
      BY <1>4, <3>1, SeqMonotonic
  <2>3. lead \in Seq(Chars) /\ Len(lead) = 2
    BY <1>4
  <2>4. text = (lead \o z) \o d
    BY <1>2, <1>8, Zenon
  <2> HIDE DEF lead, z
  <2>5. PICK k \in Nat : k = -pos
    BY <2>1
  <2>6. 2 \in Nat /\ 2 + k \in Nat /\ Len(lead) <= 2 /\ Len(z) <= k
    BY <2>2, <2>3, <2>5
  <2>7. PICK h \in Seq(Chars) : h = lead \o z /\ Len(h) <= 2 + k
    <3>1. lead \o z \in Seq(Chars) /\ Len(lead \o z) <= 2 + k
      BY <2>2, <2>3, <2>6, Joined
    <3> QED
      BY <3>1, Zenon
  <2>8. Len(h \o d) <= (2 + k) + n
    BY <1>1, <1>5, <2>6, <2>7, Joined
  <2>9. Len(text) <= (2 + k) + n
    BY <2>4, <2>7, <2>8, Zenon
  <2>10. (2 + k) + n = 2 - e /\ ~(n + e > 0)
    BY <1>1, <1>8, <2>5
  <2>11. Len(text) <= 2 - e
    BY <2>9, <2>10
  <2> QED
    BY <1>1, <1>3, <1>8, <2>10, <2>11 DEF text, d, n
<1>9. pos \in Int
  BY <1>1
<1> QED
  BY <1>6, <1>7, <1>8, <1>9

\* The room that the code asks for is enough for a canonical number and its sign.
LEMMA CanonicalFits ==
    ASSUME NEW m \in MantissaMin..MantissaMax, NEW e \in ExpMin..ExpMax
    PROVE  LET n == normalize(m, e)
               t == Positioned(Digits(n.mantissa), n.exponent)
           IN  t \in Seq(Chars) /\ Len(t) + 2 <= NumberRoom
<1> DEFINE z == TrailingZeros(m)
           p == m \div Base[z]
           scale == -ExpMin
           K == NumDigits(MantissaMax)
           n == NumDigits(p)
<1>1. /\ m \in Nat \ {0} /\ m < Ten[MaxDigits] /\ e \in Int /\ e <= ExpMax /\ ExpMin <= e
      /\ ExpMin \in Int /\ ExpMin < 0 /\ ExpMax \in Nat \ {0}
      /\ MantissaMax \in Nat /\ MantissaMax < Ten[MaxDigits] /\ m <= MantissaMax
      /\ MaxDigits \in Nat
  <2>1. MantissaMin \in Nat \ {0} /\ MantissaMax \in 0..Ten[MaxDigits] - 1 /\ ExpMin \in Int /\ ExpMin < 0 /\ ExpMax \in Nat \ {0}
    BY AmountAssumption
  <2>2. Ten[MaxDigits] \in Nat /\ MaxDigits \in Nat
    BY PrintAssumption, TenIs
  <2> QED
    BY <2>1, <2>2
<1>2. /\ z \in 0..MaxDigits /\ p \in Nat \ {0} /\ p < Ten[MaxDigits]
      /\ m = p * Ten[z] /\ p % 10 # 0
  BY <1>1, TrailingIs
<1>3. normalize(m, e).mantissa = p /\ normalize(m, e).exponent = e + z
  BY DEF normalize
<1> HIDE DEF z, p
<1>4. z \in Nat
  BY <1>1, <1>2
<1>5. n \in 1..MaxDigits /\ Ten[n - 1] <= p
  <2>1. MaxDigits \in 0..MaxDigits
    BY <1>1
  <2>2. n \in 0..MaxDigits /\ n # 0
    BY <1>2, <2>1, FewDigits, DigitsNumber
  <2>3. Base[n - 1] <= p
    BY <1>2, <2>2, NumDigitsIs
  <2>4. n - 1 \in 0..MaxDigits /\ n \in 1..MaxDigits
    BY <1>1, <2>2
  <2> QED
    BY <2>3, <2>4, BaseIs
<1>6. K \in 0..MaxDigits /\ m < Ten[K]
  <2>1. MaxDigits \in 0..MaxDigits
    BY <1>1
  <2>2. K \in 0..MaxDigits /\ K <= MaxDigits
    BY <1>1, <2>1, FewDigits
  <2>3. MantissaMax < Base[K]
    BY <1>1, <2>2, NumDigitsIs
  <2>4. MantissaMax < Ten[K]
    BY <2>2, <2>3, BaseIs
  <2>5. Ten[K] \in Nat
    BY <1>1, <2>2, TenIs
  <2> QED
    BY <1>1, <2>2, <2>4, <2>5
<1> HIDE DEF n, K
<1>7. n + z <= K /\ n \in Nat /\ K \in Nat
  <2>1. n \in Nat /\ K \in Nat /\ n - 1 \in Nat
    BY <1>1, <1>5, <1>6
  <2>2. PICK i \in Nat : i = (n - 1) + z
    BY <1>4, <2>1
  <2>3. Ten[i] = Ten[n - 1] * Ten[z]
    BY <1>4, <2>1, <2>2, TenAdds
  <2>4. PICK x \in Nat, y \in Nat : x = Ten[n - 1] /\ y = Ten[z]
    BY <1>4, <2>1, TenIs
  <2>5. x <= p
    BY <1>5, <2>4
  <2>6. x * y <= p * y
    <3>1. PICK q \in Nat : p = x + q
      <4>1. p - x \in Nat /\ p = x + (p - x)
        BY <1>2, <2>5
      <4> QED
        BY <4>1
    <3>2. (x + q) * y = x * y + q * y /\ q * y \in Nat /\ x * y \in Nat
      OBVIOUS
    <3> QED
      BY <3>1, <3>2
  <2>7. Ten[i] <= m
    BY <1>2, <2>3, <2>4, <2>6
  <2>8. ASSUME K <= i PROVE FALSE
    <3>1. K \in 0..i
      BY <2>1, <2>8
    <3>2. Ten[K] <= Ten[i] /\ Ten[K] \in Nat /\ Ten[i] \in Nat
      BY <2>1, <3>1, TenGrows, TenIs
    <3> QED
      BY <1>1, <1>6, <2>7, <3>2
  <2> QED
    BY <1>4, <2>1, <2>2, <2>8
<1>8. /\ NumberRoom \in Nat /\ NumberRoom >= 4 - ExpMin /\ NumberRoom >= K + ExpMax + 2
  BY AmountAssumption DEF K
<1>9. PICK i \in Int : i = e + z
  BY <1>1, <1>4
<1>10. scale \in Nat /\ scale + i \in Nat
  BY <1>1, <1>4, <1>9
<1> HIDE DEF scale
<1>11. PICK t : t = Positioned(Digits(p), i)
  OBVIOUS
<1>12. /\ t \in Seq(Chars)
       /\ Len(t) <= IF i >= 0 THEN n + i ELSE IF n + i > 0 THEN n + 1 ELSE 2 - i
  BY <1>2, <1>10, <1>11, PositionedFits DEF n
<1>13. PICK l \in Nat : l = Len(t)
  BY <1>12
<1>14. l <= n + i \/ l <= n + 1 \/ l <= 2 - i
  BY <1>12, <1>13
<1>15. l + 2 <= NumberRoom
  BY <1>1, <1>4, <1>7, <1>8, <1>9, <1>13, <1>14
<1> QED
  BY <1>3, <1>9, <1>11, <1>12, <1>13, <1>15

LEMMA IssuedNumberFits ==
    ASSUME NEW value \in IssuedValue, NEW max_len \in Nat, max_len >= NumberRoom
    PROVE  Len(format_issued_currency(max_len, value)) + 1 <= NumberRoom
<1> DEFINE number == format_issued_currency(max_len, value)
           e == value.exponent_bits - ExponentBias
           m == value.mantissa
           n == normalize(m, e)
           t == Positioned(Digits(n.mantissa), n.exponent)
           sign == IF value.sign = 0 THEN <<"-">> ELSE << >>
<1>1. NumberRoom \in Nat /\ NumberRoom >= 4 - ExpMin /\ ExpMin \in Int /\ ExpMin < 0
  BY AmountAssumption
<1>2. Len(<<"0">>) = 1 /\ Len(Refused) = 0
  BY DEF Refused
<1>3. number \in {<<"0">>, Refused} \/ (InRange(e, m) /\ number = sign \o t)
  <2> HIDE DEF e, m, t
  <2>1. \/ number = <<"0">>
        \/ number = parse_decimal_number(max_len, value.sign, e, m)
    BY Zenon DEF format_issued_currency, e, m
  <2>2. ~(max_len < NumberRoom)
    BY <1>1
  <2>3. parse_decimal_number(max_len, value.sign, e, m)
            = CASE max_len < NumberRoom -> Refused
                [] max_len >= NumberRoom /\ <<value.sign, e, m>> = <<0, 0, 0>> -> <<"0">>
                [] max_len >= NumberRoom /\ InRange(e, m) -> sign \o t
                [] OTHER -> Refused
    BY Zenon DEF parse_decimal_number, t
  <2> HIDE DEF sign, number
  <2>4. parse_decimal_number(max_len, value.sign, e, m) \in {<<"0">>, Refused} 
            \/ (InRange(e, m) /\ parse_decimal_number(max_len, value.sign, e, m) = sign \o t)
    BY <2>2, <2>3
  <2> QED
    BY <2>1, <2>4, Zenon
<1>4. CASE number \in {<<"0">>, Refused}
  <2>1. Len(number) \in {0, 1}
    BY <1>2, <1>4, Zenon
  <2>2. PICK k \in {0, 1} : k = Len(number)
    BY <2>1
  <2>3. k + 1 <= NumberRoom
    BY <1>1, <2>2
  <2> QED
    BY <2>2, <2>3
<1>5. CASE InRange(e, m) /\ number = sign \o t
  <2>1. t \in Seq(Chars) /\ Len(t) + 2 <= NumberRoom
    <3> HIDE DEF e, m
    <3>1. e \in ExpMin..ExpMax /\ m \in MantissaMin..MantissaMax
      BY <1>5 DEF InRange
    <3> QED
      BY <3>1, CanonicalFits
  <2> DEFINE S == Chars \cup {"-"}
  <2> HIDE DEF t
  <2>2. t \in Seq(S)
    <3>1. Chars \subseteq S
      OBVIOUS
    <3> HIDE DEF S
    <3> QED
      BY <2>1, <3>1, SeqMonotonic
  <2>3. sign \in Seq(S) /\ Len(sign) <= 1
    <3>1. "-" \in S
      OBVIOUS
    <3>2. sign \in {<<"-">>, << >>}
      OBVIOUS
    <3> HIDE DEF S, sign
    <3>3. PICK c \in S : c = "-"
      BY <3>1
    <3>4. <<c>> \in Seq(S) /\ Len(<<c>>) <= 1 /\ << >> \in Seq(S) /\ Len(<< >>) <= 1
      OBVIOUS
    <3> QED
      BY <3>2, <3>3, <3>4, Zenon
  <2>4. PICK l \in Nat : l = Len(t) /\ l + 2 <= NumberRoom
    BY <2>1
  <2> HIDE DEF S, sign, number
  <2>5. 1 \in Nat /\ Len(t) <= l
    BY <2>4
  <2>6. sign \o t \in Seq(S) /\ Len(sign \o t) <= 1 + l
    BY <2>2, <2>3, <2>5, Joined
  <2>7. PICK k \in Nat : k = Len(sign \o t) /\ k <= 1 + l
    BY <2>6
  <2>8. k + 1 <= NumberRoom
    BY <1>1, <2>4, <2>7
  <2> QED
    BY <1>5, <2>7, <2>8 DEF number
<1> QED
  BY <1>3, <1>4, <1>5

\* An address in one text, or in three segments of the width of a page.
LEMMA AccountFits ==
    ASSUME NEW account \in Seq(0..InBase - 1), account # << >>, NEW s \in BOOLEAN,
           NEW checksum \in Seq(0..InBase - 1), checksum = Checksum(<< 0 >> \o account),
           Len(account) + Len(checksum) <= AddressSize
    PROVE  Fits(account_formatter(account, s))
<1> DEFINE A == Range(Alphabet)
<1>1. PICK bytes \in Seq(0..InBase - 1) :
          /\ bytes = (<<0>> \o account) \o checksum
          /\ Len(bytes) \in 1..AddressSize + 1 /\ bytes[1] = 0
  BY EncodedBytes, Zenon
<1>2. PICK text : text = xrp_encode_base58_address(bytes)
  OBVIOUS
<1>3. text \in Seq(A) /\ Len(text) \in 1..OutputSize(AddressSize) + 1
  BY <1>1, <1>2, TextEncodes, Zenon
<1>4. xrp_public_key_to_encoded_base58(account) = text
  BY <1>1, <1>2, Zenon DEF xrp_public_key_to_encoded_base58
<1>5. PICK shown : shown = account_formatter(account, s)
  OBVIOUS
<1>6. shown \in {Segmented(text), text}
  BY <1>4, <1>5, Zenon DEF account_formatter
<1>7. PICK c : IsSpace(c)
  BY Zenon DEF IsSpace
<1>8. c \notin A
  BY <1>7, NoSpaceInAlphabet, Zenon
<1> HIDE DEF A
<1>9. Len(text) <= (3 * PageWidth) - 2
  BY <1>3, PagesHold
<1>10. Len(Segmented(text)) = 3 * PageWidth
  BY <1>3, <1>7, <1>8, <1>9, SegmentedIs
<1>11. Len(text) <= MaxText /\ 3 * PageWidth <= MaxText
  <2>1. PICK k \in Nat : k = OutputSize(AddressSize) + 1
    BY PagesHold
  <2>2. k <= MaxText /\ 3 * PageWidth <= MaxText /\ MaxText \in Nat
    BY <2>1, RoomAssumption, RoomIs, Zenon
  <2>3. Len(text) \in 1..k
    BY <1>3, <2>1, Zenon
  <2> QED
    BY <2>2, <2>3
<1>12. Len(shown) <= MaxText
  BY <1>6, <1>10, <1>11, Zenon
<1>13. shown # << >>
  <2>1. PICK b : b = c
    OBVIOUS
  <2> QED
    BY <1>5, <1>7, AccountSays, Zenon
<1> QED
  BY <1>5, <1>12, <1>13, Zenon DEF Fits

LEMMA BlobFits ==
    ASSUME NEW S, NEW whole \in Seq(S), whole # << >>, NEW text, WholeOrMarked(whole, text)
    PROVE  Fits(text)
<1>1. MaxText \in Nat /\ MaxText > 3 /\ Len(whole) \in Nat
  BY RoomIs
<1>2. CASE Len(whole) <= MaxText
  BY <1>2 DEF WholeOrMarked, Fits
<1>3. CASE ~(Len(whole) <= MaxText)
  <2>1. MaxText - 3 \in 0..Len(whole) /\ 0 \in 0..MaxText - 3 /\ MaxText - 3 \in Nat
    BY <1>1, <1>3
  <2>2. SubSeq(whole, 1, MaxText - 3) \in Seq(S) /\ Len(SubSeq(whole, 1, MaxText - 3)) = MaxText - 3
    BY <2>1, BeginningOf
  <2> DEFINE Q == S \cup {"."}
  <2>3. Dots \in Seq(Q) /\ Len(Dots) = 3 /\ S \subseteq Q
    BY DEF Dots
  <2> HIDE DEF Q
  <2>4. PICK s \in Seq(Q), d \in Seq(Q) :
            s = SubSeq(whole, 1, MaxText - 3) /\ d = Dots /\ Len(s) = MaxText - 3 /\ Len(d) = 3
    BY <2>2, <2>3, SeqMonotonic
  <2>5. Len(s \o d) = Len(s) + Len(d) /\ s \o d \in Seq(Q)
    BY PrefixCut
  <2>6. Len(s \o d) = MaxText
    BY <1>1, <2>4, <2>5
  <2>7. text = s \o d
    BY <1>3, <2>4, Zenon DEF WholeOrMarked
  <2>8. s \o d # << >>
    BY <1>1, <2>6
  <2> QED
    BY <1>1, <2>6, <2>7, <2>8 DEF Fits
<1> QED
  BY <1>2, <1>3

-----------------------------------------------------------------------------
(* The slots of a page.                                                    *)

\* The slot of a pair that was drawn holds the text of its own field: no pair that was drawn
\* after it on the page has the same slot.
SlotsHold ==
    /\ transaction = << >> \/ transaction \in Transactions
    /\ segmented \in BOOLEAN
    /\ DOMAIN txFieldValueStrings = 0..MaxFieldsPerPage - 1
    /\ page[1] \in Nat /\ page[2] \in Nat
    /\ page[2] <= Len(transaction) /\ page[2] - page[1] <= PairsOnPage
    /\ drawn \subseteq page[1]..page[2] - 1
    /\ \A index \in drawn : Shown(index) = format_field(Field(index), segmented)

LEMMA SlotsApart ==
    ASSUME NEW m \in Nat \ {0}, NEW i \in Nat, NEW j \in Nat, i < j, j - i < m
    PROVE  i % m # j % m
<1> DEFINE p == i \div m
           q == j \div m
           r == i % m
<1> SUFFICES ASSUME j % m = r PROVE FALSE
  OBVIOUS
<1>1. p \in Nat /\ q \in Nat /\ r \in 0..m - 1 /\ i = m * p + r /\ j = m * q + r
  BY DivIs
<1> HIDE DEF p, q, r
<1>2. m * p \in Nat /\ m * q \in Nat
  BY <1>1
<1>3. m * q > m * p /\ m * q - m * p < m
  BY <1>1, <1>2
<1>4. q > p
  <2> SUFFICES ASSUME q <= p PROVE FALSE
    BY <1>1
  <2>1. m * q <= m * p
    BY <1>1
  <2> QED
    BY <1>2, <1>3, <2>1
<1>5. m * q >= m * p + m
  <2>1. q >= p + 1 /\ m * (p + 1) = m * p + m
    BY <1>1, <1>4
  <2>2. m * q >= m * (p + 1)
    BY <1>1, <2>1
  <2> QED
    BY <2>1, <2>2
<1> QED
  BY <1>2, <1>3, <1>5

LEMMA InitHolds == Init => SlotsHold
<1> SUFFICES ASSUME Init PROVE SlotsHold
  OBVIOUS
<1>1. PairsOnPage \in Nat
  BY DisplayAssumption
<1>2. page[1] = 0 /\ page[2] = 0 /\ Len(transaction) = 0
  BY DEF Init
<1> QED
  BY <1>1, <1>2 DEF Init, SlotsHold

LEMMA Typed ==
    ASSUME NEW t, t = << >> \/ t \in Transactions
    PROVE  Len(t) \in Nat /\ DOMAIN t = 1..Len(t) /\ \A i \in 1..Len(t) : IsField(t[i])
<1>1. CASE t = << >>
  BY <1>1
<1>2. CASE t \in Transactions
  BY <1>2, FieldAssumption
<1> QED
  BY <1>1, <1>2

LEMMA ReviewHolds ==
    ASSUME SlotsHold, NEW t \in Transactions, display_review_menu(t)
    PROVE  SlotsHold'
<1>1. transaction = << >> /\ transaction' = t /\ page' = page /\ drawn' = drawn /\ segmented' = segmented
  BY DEF display_review_menu
<1>2. Len(t) \in Nat /\ Len(transaction) = 0
  BY <1>1, Typed
<1>3. page[2] = 0 /\ page[2] <= Len(t) /\ drawn = {}
  BY <1>1, <1>2 DEF SlotsHold
<1>4. DOMAIN txFieldValueStrings' = 0..MaxFieldsPerPage - 1
  BY DEF display_review_menu
<1> QED
  BY <1>1, <1>3, <1>4 DEF SlotsHold

LEMMA TurnHolds ==
    ASSUME SlotsHold, NEW first \in 0..Len(transaction) - 1, NEW count \in 1..PairsOnPage,
           TurnPage(first, count)
    PROVE  SlotsHold'
<1>1. PairsOnPage \in Nat
  BY DisplayAssumption
<1>2. Len(transaction) \in Nat
  BY Typed DEF SlotsHold
<1>3. /\ transaction' = transaction /\ segmented' = segmented
      /\ txFieldValueStrings' = txFieldValueStrings /\ drawn' = {}
      /\ page'[1] = first /\ page'[2] = first + count /\ first + count <= Len(transaction)
  BY DEF TurnPage
<1>4. first \in Nat /\ first + count \in Nat /\ first + count - first <= PairsOnPage
  BY <1>1, <1>2
<1> QED
  BY <1>3, <1>4 DEF SlotsHold

LEMMA PairHolds ==
    ASSUME SlotsHold, NEW index \in page[1]..page[2] - 1, getPair(index)
    PROVE  SlotsHold'
<1> DEFINE M == MaxFieldsPerPage
           text == format_field(transaction[index + 1], segmented)
<1>1. /\ transaction' = transaction /\ segmented' = segmented /\ page' = page
      /\ drawn' = drawn \cup {index}
      /\ txFieldValueStrings' = [txFieldValueStrings EXCEPT ![Slot(index)] = text]
  BY DEF getPair
<1>2. M \in Nat \ {0} /\ PairsOnPage \in 1..M
  BY DisplayAssumption
<1>3. page[1] \in Nat /\ page[2] \in Nat /\ page[2] - page[1] <= PairsOnPage
  BY DEF SlotsHold
<1>4. index \in Nat /\ Slot(index) \in 0..M - 1
  BY <1>2, <1>3 DEF Slot
<1>5. ASSUME NEW i \in drawn' PROVE Shown(i)' = format_field(Field(i), segmented)
  <2>1. Shown(i)' = txFieldValueStrings'[Slot(i)]
    BY DEF Shown
  <2>2. CASE i = index
    BY <1>1, <1>4, <2>1, <2>2 DEF Field, SlotsHold
  <2>3. CASE i # index
    <3>1. i \in drawn /\ i \in page[1]..page[2] - 1
      BY <1>1, <2>3 DEF SlotsHold
    <3>2. i \in Nat /\ (i < index \/ index < i) /\ i - index < M /\ index - i < M
      BY <1>2, <1>3, <2>3, <3>1
    <3>3. Slot(i) # Slot(index)
      BY <1>2, <1>4, <3>2, SlotsApart DEF Slot
    <3>4. Slot(i) \in 0..M - 1
      BY <1>2, <3>2 DEF Slot
    <3>5. txFieldValueStrings'[Slot(i)] = txFieldValueStrings[Slot(i)]
      BY <1>1, <3>3, <3>4 DEF SlotsHold
    <3> QED
      BY <2>1, <3>1, <3>5 DEF SlotsHold, Shown
  <2> QED
    BY <2>2, <2>3
<1>6. \A i \in drawn' : (Shown(i) = format_field(Field(i), segmented))'
  BY <1>1, <1>5 DEF Field
<1>7. DOMAIN txFieldValueStrings' = 0..M - 1
  BY <1>1 DEF SlotsHold
<1>8. drawn' \subseteq page'[1]..page'[2] - 1
  BY <1>1 DEF SlotsHold
<1> QED
  BY <1>1, <1>6, <1>7, <1>8 DEF SlotsHold

LEMMA NextHolds == SlotsHold /\ [Next]_vars => SlotsHold'
<1> SUFFICES ASSUME SlotsHold, [Next]_vars PROVE SlotsHold'
  OBVIOUS
<1>1. CASE \E t \in Transactions : display_review_menu(t)
  BY <1>1, ReviewHolds
<1>2. CASE \E first \in 0..Len(transaction) - 1, count \in 1..PairsOnPage : TurnPage(first, count)
  BY <1>2, TurnHolds
<1>3. CASE \E index \in page[1]..page[2] - 1 : getPair(index)
  BY <1>3, PairHolds
<1>4. CASE UNCHANGED vars
  BY <1>4 DEF vars, SlotsHold, Shown, Field
<1> QED
  BY <1>1, <1>2, <1>3, <1>4 DEF Next

LEMMA SlotsInductive == Spec => []SlotsHold
<1>1. Init => SlotsHold
  BY InitHolds
<1>2. SlotsHold /\ [Next]_vars => SlotsHold'
  BY NextHolds
<1> QED
  BY <1>1, <1>2, PTL DEF Spec

\* What is shown of a pair is the text of a field as the parser leaves it.
LEMMA ShownIs ==
    ASSUME SlotsHold, NEW index \in drawn
    PROVE  IsField(Field(index)) /\ Shown(index) = format_field(Field(index), segmented)
<1>1. index \in page[1]..page[2] - 1 /\ page[1] \in Nat /\ page[2] \in Nat /\ page[2] <= Len(transaction)
  BY DEF SlotsHold
<1>2. /\ Len(transaction) \in Nat
      /\ \A i \in 1..Len(transaction) : IsField(transaction[i])
  BY Typed DEF SlotsHold
<1>3. index + 1 \in 1..Len(transaction)
  BY <1>1, <1>2
<1> QED
  BY <1>2, <1>3 DEF SlotsHold, Field

-----------------------------------------------------------------------------
(* What a page says of blobs.                                              *)

LEMMA Whole == SlotsHold => TextIsWholeOrMarked
<1> SUFFICES ASSUME SlotsHold, NEW index \in Drawn({"VL", "HASH"})
    PROVE LET f == Field(index)
              text == Shown(index)
              whole == IF f.data_type = "VL" /\ f.textual /\ Range(f.bytes) \subseteq Printable
                       THEN f.bytes ELSE read_hex(f.bytes)
          IN  CASE whole = << >> -> text = <<" ">>
                [] whole # << >> /\ Len(whole) <= MaxText -> text = whole
                [] Len(whole) > MaxText -> text = SubSeq(whole, 1, MaxText - 3) \o Dots
  BY DEF TextIsWholeOrMarked
<1> DEFINE f == Field(index)
           whole == IF f.data_type = "VL" /\ f.textual /\ Range(f.bytes) \subseteq Printable
                    THEN f.bytes ELSE read_hex(f.bytes)
           text == Shown(index)
<1>1. index \in drawn /\ f.data_type \in {"VL", "HASH"}
  BY DEF Drawn
<1>2. IsField(f) /\ text = format_field(f, segmented)
  BY <1>1, ShownIs
<1>3. IsBytes(f.bytes) /\ (f.data_type = "VL" => f.textual \in BOOLEAN)
      /\ (f.data_type = "HASH" => 2 * Len(f.bytes) <= MaxText)
  BY <1>1, <1>2 DEF IsField
<1>4. MaxText \in Nat /\ MaxText > 3
  BY RoomIs
<1>5. Len(whole) \in Nat /\ \E S : whole \in Seq(S)
  <2>1. Len(f.bytes) \in Nat /\ f.bytes \in Seq(Range(f.bytes))
    BY <1>3 DEF IsBytes
  <2>2. Len(read_hex(f.bytes)) = 2 * Len(f.bytes) /\ read_hex(f.bytes) \in Seq(Range(read_hex(f.bytes)))
    BY <1>3, HexIs
  <2> QED
    BY <2>1, <2>2
<1>6. WholeOrMarked(whole, Formatted(f, segmented))
  <2>1. CASE f.data_type = "VL"
    BY <1>3, <2>1, BlobSays, FormatterOf
  <2>2. CASE f.data_type = "HASH"
    <3>1. whole = read_hex(f.bytes) /\ Formatted(f, segmented) = whole
      BY <2>2, FormatterOf
    <3>2. Len(whole) <= MaxText
      BY <1>3, <2>2, <3>1, HexIs
    <3> QED
      BY <3>1, <3>2 DEF WholeOrMarked
  <2> QED
    BY <1>1, <2>1, <2>2
<1>7. whole = << >> => Formatted(f, segmented) = << >>
  BY <1>4, <1>6 DEF WholeOrMarked
<1>8. whole # << >> => Formatted(f, segmented) # << >>
  <2> SUFFICES ASSUME whole # << >>, Formatted(f, segmented) = << >> PROVE FALSE
    OBVIOUS
  <2>1. PICK S : whole \in Seq(S)
    BY <1>5
  <2> HIDE DEF whole
  <2>2. ~(Len(whole) <= MaxText) /\ SubSeq(whole, 1, MaxText - 3) \o Dots = << >>
    BY <1>6 DEF WholeOrMarked
  <2>3. MaxText - 3 \in 0..Len(whole) /\ 0 \in 0..MaxText - 3
    BY <1>4, <1>5, <2>2
  <2>4. SubSeq(whole, 1, MaxText - 3) \in Seq(S)
    BY <2>1, <2>3, BeginningOf
  <2>5. PICK s \in Seq(S \cup {"."}) : s = SubSeq(whole, 1, MaxText - 3)
    <3>1. S \subseteq S \cup {"."}
      OBVIOUS
    <3>2. SubSeq(whole, 1, MaxText - 3) \in Seq(S \cup {"."})
      BY <2>4, <3>1, SeqMonotonic
    <3> QED
      BY <3>2
  <2>6. Dots \in Seq(S \cup {"."}) /\ Len(Dots) = 3
    BY DEF Dots
  <2>7. Len(s \o Dots) = Len(s) + Len(Dots)
    BY <2>6, ConcatProperties, Zenon
  <2>8. s \o Dots = << >> /\ Len(s) \in Nat
    BY <2>2, <2>5
  <2> QED
    BY <2>6, <2>7, <2>8
<1> HIDE DEF f, whole, text
<1>9. CASE whole = << >>
  <2>1. text = <<" ">> /\ Len(whole) = 0
    <3>1. text = <<" ">>
      BY <1>2, <1>7, <1>9, Zenon DEF format_field
    <3>2. Len(whole) = 0
      BY <1>9
    <3> QED
      BY <3>1, <3>2, Zenon
  <2>2. ~(Len(whole) > MaxText)
    BY <1>4, <1>9
  <2> QED
    BY <1>9, <2>1, <2>2, Zenon DEF f, whole, text
<1>10. CASE whole # << >>
  <2>1. text = Formatted(f, segmented)
    BY <1>2, <1>8, <1>10, Zenon DEF format_field
  <2>2. CASE Len(whole) <= MaxText
    <3>1. text = whole /\ ~(Len(whole) > MaxText)
      BY <1>4, <1>5, <1>6, <2>1, <2>2 DEF WholeOrMarked
    <3> QED
      BY <1>10, <2>2, <3>1, Zenon DEF f, whole, text
  <2>3. CASE ~(Len(whole) <= MaxText)
    <3>1. text = SubSeq(whole, 1, MaxText - 3) \o Dots /\ Len(whole) > MaxText
      BY <1>4, <1>5, <1>6, <2>1, <2>3 DEF WholeOrMarked
    <3> QED
      BY <1>10, <2>3, <3>1, Zenon DEF f, whole, text
  <2> QED
    BY <2>2, <2>3
<1> QED
  BY <1>9, <1>10

-----------------------------------------------------------------------------
(* What a page says of numbers.                                            *)

\* A text before a space and a percent sign.
LEMMA PercentText ==
    ASSUME NEW S, NEW a \in Seq(S), a # << >>, NEW v, SaysScaled(a, v, RateDecimals)
    PROVE  SaysPercent(a \o <<" ", "%">>, v) /\ a \o <<" ", "%">> # << >>
<1> DEFINE sign == <<" ", "%">>
           R == S \cup {" ", "%"}
           text == a \o sign
<1>2. S \subseteq R /\ " " \in R /\ "%" \in R
  BY Zenon
<1> HIDE DEF R
<1>3. a \in Seq(R)
  BY <1>2, SeqMonotonic
<1>4. PICK c, d \in R : c = " " /\ d = "%"
  BY <1>2, Zenon
<1>5. sign = <<c, d>>
  BY <1>4, Zenon
<1> HIDE DEF sign
<1>6. sign \in Seq(R) /\ Len(sign) = 2
  <2>1. <<c, d>> \in Seq(R) /\ Len(<<c, d>>) = 2
    OBVIOUS
  <2> QED
    BY <1>5, <2>1, Zenon
<1>7. /\ Len(text) = Len(a) + 2
      /\ SubSeq(text, 1, Len(a)) = a
      /\ SubSeq(text, Len(a) + 1, Len(text)) = sign
  <2>1. PICK h \in Seq(R), u \in Seq(R) : h = a /\ u = sign
    BY <1>3, <1>6
  <2>2. /\ Len(h \o u) = Len(h) + Len(u)
        /\ SubSeq(h \o u, 1, Len(h)) = h
        /\ SubSeq(h \o u, Len(h) + 1, Len(h \o u)) = u
    BY PrefixCut
  <2> QED
    BY <1>6, <2>1, <2>2
<1>8. Len(a) \in Nat \ {0}
  BY EmptySeq
<1>9. Len(text) > 2 /\ Len(text) - 2 = Len(a) /\ Len(text) - 1 = Len(a) + 1
  BY <1>7, <1>8
<1>10. text # << >>
  <2>1. Len(<< >>) = 0
    OBVIOUS
  <2> HIDE DEF text
  <2> QED
    BY <1>9, <2>1
<1> HIDE DEF text
<1>11. SaysPercent(text, v)
  BY <1>7, <1>9, Zenon DEF SaysPercent, sign
<1> QED
  BY <1>10, <1>11, Zenon DEF text, sign

LEMMA RateSays ==
    ASSUME NEW v \in Nat, v \div Denominator < Ten[MaxDigits]
    PROVE  SaysPercent(format_percentage_internal(v), v) /\ format_percentage_internal(v) # << >>
<1> DEFINE q == v \div Denominator
           w == v % Denominator
           a == Unsigned(q)
           tail == Padded(w, RateDecimals)
           text == CutText(a, tail)
<1>1. /\ RateDecimals \in Nat \ {0} /\ RateDecimals \in 0..MaxDigits
      /\ Denominator = Ten[RateDecimals] /\ Denominator \in Nat \ {0}
  BY RateIs
<1>2. q \in Nat /\ w \in 0..Denominator - 1 /\ v = Denominator * q + w
  BY <1>1, DivIs
<1>3. w \in Nat /\ w < Ten[RateDecimals]
  BY <1>1, <1>2
<1> HIDE DEF q, w
<1>4. /\ a \in Seq(Numerals) /\ a # << >> /\ NumberOf(a) = q
      /\ q # 0 => a[1] # "0"
  BY <1>2, UnsignedIs DEF q
<1>5. tail \in Seq(Numerals) /\ Len(tail) = RateDecimals /\ NumberOf(tail) = w /\ tail # << >>
  <2>1. tail \in Seq(Numerals) /\ Len(tail) = RateDecimals /\ NumberOf(tail) = w
    BY <1>1, <1>3, PaddedIs
  <2> HIDE DEF tail
  <2>2. tail # << >>
    BY <1>1, <2>1, EmptySeq
  <2> QED
    BY <2>1, <2>2
<1>6. q = 0 => a = <<"0">>
  BY DEF Unsigned
<1>7. format_percentage_internal(v) = remove_redundant_decimals(a \o <<".">> \o tail) \o <<" ", "%">>
  BY DEF format_percentage_internal, q, w
<1> HIDE DEF a, tail
<1>8. remove_redundant_decimals(a \o <<".">> \o tail) = text
  BY <1>4, <1>5, RedundantIs
<1>9. /\ text \in Seq(Chars) /\ text # << >>
      /\ IsDecimal(text) /\ Read(text, RateDecimals) = NumberOf(a \o tail)
      /\ Head(text) = a[1]
      /\ "." \in Range(text) => Last(text) # "0"
      /\ Kept(tail) # 0 => text[Len(a) + 1] = "."
  BY <1>4, <1>5, CutSays
<1>10. NumberOf(a \o tail) = v
  <2>1. NumberOf(a \o tail) = q * Denominator + w
    BY <1>1, <1>4, <1>5, NumberConcat
  <2>2. q * Denominator = Denominator * q
    BY <1>1, <1>2
  <2> QED
    BY <1>2, <2>1, <2>2
<1>11. ASSUME v # 0, Head(text) = "0" PROVE text[2] = "."
  <2>1. q = 0 /\ Len(a) + 1 = 2
    <3>1. q = 0
      BY <1>4, <1>9, <1>11
    <3>2. Len(<<"0">>) + 1 = 2
      OBVIOUS
    <3> QED
      BY <1>6, <3>1, <3>2
  <2>2. w # 0
    BY <1>1, <1>2, <1>11, <2>1
  <2>3. Kept(tail) # 0
    <3> SUFFICES ASSUME Kept(tail) = 0 PROVE FALSE
      OBVIOUS
    <3> DEFINE kept == Kept(tail)
    <3>1. /\ kept \in 0..Len(tail) /\ SubSeq(tail, 1, kept) \in Seq(Numerals)
          /\ Len(SubSeq(tail, 1, kept)) = kept
          /\ SubSeq(tail, 1, kept) \o Zeros(Len(tail) - kept) = tail
      BY <1>5, KeptIs
    <3> DEFINE b == SubSeq(tail, 1, kept)
    <3>2. b = << >> /\ Len(tail) - kept = RateDecimals
      BY <1>1, <1>5, <3>1, EmptySeq
    <3>3. Zeros(RateDecimals) \in Seq(Numerals) /\ NumberOf(Zeros(RateDecimals) \o << >>) = 0
      <4>1. RateDecimals \in Nat
        BY <1>1
      <4> QED
        BY <4>1, ZerosAre, ZerosNumber, ZeroText
    <3> HIDE DEF b
    <3>4. tail = << >> \o Zeros(RateDecimals)
      BY <3>1, <3>2 DEF b
    <3>5. << >> \o Zeros(RateDecimals) = Zeros(RateDecimals) \o << >>
      BY <3>3, ConcatEmptySeq
    <3> QED
      BY <1>5, <2>2, <3>3, <3>4, <3>5
  <2> QED
    BY <1>9, <2>1, <2>3
<1> HIDE DEF text
<1>12. SaysScaled(text, v, RateDecimals)
  BY <1>9, <1>10, <1>11 DEF SaysScaled
<1> QED
  BY <1>7, <1>8, <1>9, <1>12, PercentText

LEMMA FullSays == SaysPercent(<<"1", "0", "0", " ", "%">>, Parity)
<1> DEFINE a == <<"1", "0", "0">>
           r == RateDecimals
<1>1. r \in Nat /\ Denominator = Ten[r] /\ Denominator \in Nat
  BY RateIs
<1>2. /\ <<"1">> \in Seq(Numerals) /\ <<"0">> \in Seq(Numerals) /\ Len(<<"0">>) = 1
      /\ Weight("1") = 1
  <2>1. Numeral[1 + 1] = "1" /\ 1 \in 0..9
    BY DEF Numeral
  <2> QED
    BY <2>1, NumeralsAre
<1>3. NumberOf(<<"1">>) = 1
  <2> DEFINE f == [k \in 0..1 |-> k]
  <2>1. f[0] = 0 /\ f[1] = 1 /\ Len(<<"1">>) = 1 /\ <<"1">>[1] = "1"
    OBVIOUS
  <2> HIDE DEF f
  <2>2. \A k \in 1..Len(<<"1">>) : f[k] \in Nat /\ f[k] = 10 * f[k - 1] + Weight(<<"1">>[k])
    <3> SUFFICES ASSUME NEW k \in 1..Len(<<"1">>)
          PROVE f[k] \in Nat /\ f[k] = 10 * f[k - 1] + Weight(<<"1">>[k])
      OBVIOUS
    <3>1. k = 1 /\ k - 1 = 0
      BY <2>1
    <3> QED
      BY <1>2, <2>1, <3>1
  <2>3. NumberOf(<<"1">>) = f[Len(<<"1">>)]
    BY <1>2, <2>1, <2>2, NumberIs
  <2> QED
    BY <2>1, <2>3
<1>4. Ten[1] = 10
  <2>1. Ten[0 + 1] = 10 * Ten[0] /\ Ten[0] = 1 /\ 0 + 1 = 1
    BY TenIs
  <2> QED
    BY <2>1
<1>5. NumberOf(<<"1">> \o <<"0">>) = 10 /\ <<"1">> \o <<"0">> \in Seq(Numerals)
  <2>1. PICK s \in Seq(Numerals), u \in Seq(Numerals) : s = <<"1">> /\ u = <<"0">>
    BY <1>2
  <2>2. NumberOf(s \o u) = NumberOf(s) * Ten[Len(u)] + NumberOf(u) /\ s \o u \in Seq(Numerals)
    BY NumberConcat
  <2>3. NumberOf(s) = 1 /\ NumberOf(u) = 0 /\ Ten[Len(u)] = 10
    BY <1>2, <1>3, <1>4, <2>1, ZeroText
  <2> QED
    BY <2>1, <2>2, <2>3
<1>6. NumberOf((<<"1">> \o <<"0">>) \o <<"0">>) = 100 /\ (<<"1">> \o <<"0">>) \o <<"0">> \in Seq(Numerals)
  <2> DEFINE b == <<"1">> \o <<"0">>
  <2>1. b \in Seq(Numerals) /\ NumberOf(b) = 10
    BY <1>5
  <2> HIDE DEF b
  <2>2. NumberOf(b \o <<"0">>) = NumberOf(b) * Ten[Len(<<"0">>)] + NumberOf(<<"0">>) /\ b \o <<"0">> \in Seq(Numerals)
    BY <1>2, <2>1, NumberConcat
  <2>3. NumberOf(b \o <<"0">>) = 100 /\ b \o <<"0">> \in Seq(Numerals)
    BY <1>2, <1>4, <2>1, <2>2, ZeroText
  <2> QED
    BY <2>3 DEF b
<1>7. a = (<<"1">> \o <<"0">>) \o <<"0">>
  OBVIOUS
<1>8. a \in Seq(Numerals) /\ a # << >> /\ NumberOf(a) = 100 /\ a[1] # "0"
  BY <1>6, <1>7
<1>9. <<"1", "0", "0", " ", "%">> = a \o <<" ", "%">>
  <2>1. PICK c, d : c = " " /\ d = "%"
    OBVIOUS
  <2>2. <<"1", "0", "0", c, d>> = a \o <<c, d>>
    OBVIOUS
  <2> QED
    BY <2>1, <2>2, Zenon
<1> HIDE DEF a
<1>10. /\ IsDecimal(a) /\ Read(a, r) = NumberOf(a \o Zeros(r))
       /\ Head(a) = a[1] /\ "." \notin Range(a)
  BY <1>1, <1>8, PlainText
<1>11. NumberOf(a \o Zeros(r)) = 100 * Denominator
  BY <1>1, <1>8, ZerosNumber
<1>12. SaysScaled(a, Parity, r)
  BY <1>8, <1>10, <1>11 DEF SaysScaled, Parity
<1>13. a \in Seq(Numerals) /\ a # << >>
  BY <1>8
<1>14. SaysPercent(a \o <<" ", "%">>, Parity)
  BY <1>12, <1>13, PercentText, Zenon
<1> QED
  BY <1>9, <1>14, Zenon

LEMMA NothingSays == SaysPercent(<<"0", " ", "%">>, 0)
<1> DEFINE a == <<"0">>
           r == RateDecimals
<1>1. r \in Nat
  BY RateIs
<1>2. a \in Seq(Numerals) /\ a # << >> /\ NumberOf(a) = 0
  BY ZeroText
<1>3. <<"0", " ", "%">> = a \o <<" ", "%">>
  <2>1. PICK c, d : c = " " /\ d = "%"
    OBVIOUS
  <2>2. <<"0", c, d>> = a \o <<c, d>>
    OBVIOUS
  <2> QED
    BY <2>1, <2>2, Zenon
<1> HIDE DEF a
<1>4. IsDecimal(a) /\ Read(a, r) = NumberOf(a \o Zeros(r))
  BY <1>1, <1>2, PlainText
<1>5. NumberOf(a \o Zeros(r)) = 0
  <2>1. Ten[r] \in Nat
    BY <1>1, TenIs
  <2> QED
    BY <1>1, <1>2, <2>1, ZerosNumber
<1>6. SaysScaled(a, 0, r)
  BY <1>4, <1>5 DEF SaysScaled
<1> QED
  BY <1>2, <1>3, <1>6, PercentText, Zenon

\* A text that is not empty is shown as it is.
LEMMA ShownText ==
    ASSUME SlotsHold, NEW index \in drawn, Formatted(Field(index), segmented) # << >>
    PROVE  IsField(Field(index)) /\ Shown(index) = Formatted(Field(index), segmented)
BY ShownIs, Zenon DEF format_field

LEMMA TransferSays ==
    ASSUME NEW v \in Nat, v \div Denominator < Ten[MaxDigits]
    PROVE  /\ format_transfer_rate(v) # << >>
           /\ IF v \in 1..Parity - 1 THEN format_transfer_rate(v) = InvalidValue
              ELSE SaysPercent(format_transfer_rate(v), IF v = 0 THEN 0 ELSE v - Parity)
<1>1. Denominator \in Nat \ {0} /\ Parity \in Nat \ {0} /\ MaxDigits \in Nat
  BY RateIs, PrintAssumption DEF Parity
<1>2. CASE v = 0
  <2>1. format_transfer_rate(v) = <<"0", " ", "%">>
    BY <1>2, Zenon DEF format_transfer_rate
  <2>2. SaysPercent(format_transfer_rate(v), 0)
    BY <2>1, NothingSays, Zenon
  <2>3. v \notin 1..Parity - 1
    BY <1>1, <1>2
  <2>4. format_transfer_rate(v) # << >>
    <3>1. PICK c, d : <<"0", " ", "%">> = <<"0", c, d>>
      OBVIOUS
    <3>2. <<"0", c, d>> # << >>
      OBVIOUS
    <3> QED
      BY <2>1, <3>1, <3>2, Zenon
  <2> QED
    BY <1>2, <2>2, <2>3, <2>4, Zenon
<1>3. CASE v \in 1..Parity - 1
  <2>1. v # 0 /\ v < Parity
    BY <1>1, <1>3
  <2>2. format_transfer_rate(v) = InvalidValue
    BY <2>1, Zenon DEF format_transfer_rate
  <2>3. InvalidValue # << >>
    BY DEF InvalidValue
  <2> QED
    BY <1>3, <2>2, <2>3, Zenon
<1>4. CASE v >= Parity
  <2>1. v # 0 /\ ~(v < Parity) /\ v \notin 1..Parity - 1 /\ v - Parity \in Nat /\ v - Parity <= v
    BY <1>1, <1>4
  <2>2. (v - Parity) \div Denominator < Ten[MaxDigits]
    <3>1. PICK u \in Nat : u = v - Parity
      BY <2>1
    <3>2. u <= v
      BY <2>1, <3>1
    <3>3. u \div Denominator <= v \div Denominator
      BY <1>1, <3>2, DivMonotone
    <3>4. u \div Denominator \in Nat /\ v \div Denominator \in Nat
      BY <1>1, DivIs
    <3>5. Ten[MaxDigits] \in Nat
      BY <1>1, TenIs
    <3> QED
      BY <3>1, <3>3, <3>4, <3>5
  <2>3. format_transfer_rate(v) = format_percentage_internal(v - Parity)
    BY <2>1, Zenon DEF format_transfer_rate
  <2>4. /\ SaysPercent(format_percentage_internal(v - Parity), v - Parity)
        /\ format_percentage_internal(v - Parity) # << >>
    BY <2>1, <2>2, RateSays
  <2> QED
    BY <2>1, <2>3, <2>4, Zenon
<1> QED
  BY <1>1, <1>2, <1>3, <1>4

LEMMA QualitySays ==
    ASSUME NEW v \in Nat, v \div Denominator < Ten[MaxDigits]
    PROVE  /\ format_quality(v) # << >>
           /\ SaysPercent(format_quality(v), IF v = 0 THEN Parity ELSE v)
<1>1. CASE v = 0
  <2>1. format_quality(v) = <<"1", "0", "0", " ", "%">>
    BY <1>1, Zenon DEF format_quality
  <2>2. format_quality(v) # << >>
    <3>1. PICK c, d : <<"1", "0", "0", " ", "%">> = <<"1", "0", "0", c, d>>
      OBVIOUS
    <3>2. <<"1", "0", "0", c, d>> # << >>
      OBVIOUS
    <3> QED
      BY <2>1, <3>1, <3>2, Zenon
  <2> QED
    BY <1>1, <2>1, <2>2, FullSays, Zenon
<1>2. CASE v # 0
  <2>1. format_quality(v) = format_percentage_internal(v)
    BY <1>2, Zenon DEF format_quality
  <2> QED
    BY <1>2, <2>1, RateSays, Zenon
<1> QED
  BY <1>1, <1>2

LEMMA Numbers ==
    SlotsHold => NumberReadsBack
<1> SUFFICES ASSUME SlotsHold, NEW index \in Drawn({"NUMBER", "VECTOR256", "TRANSFER_RATE", "QUALITY"})
    PROVE  LET f == Field(index)
               text == Shown(index)
           IN  CASE f.data_type = "NUMBER" -> SaysScaled(text, f.number, 0)
                 [] f.data_type = "VECTOR256" -> SaysScaled(text, f.length \div Vector256Size, 0)
                 [] f.data_type = "TRANSFER_RATE" ->
                        IF f.number \in 1..Parity - 1 THEN text = InvalidValue
                        ELSE SaysPercent(text, IF f.number = 0 THEN 0 ELSE f.number - Parity)
                 [] f.data_type = "QUALITY" ->
                        SaysPercent(text, IF f.number = 0 THEN Parity ELSE f.number)
  BY DEF NumberReadsBack
<1> DEFINE f == Field(index)
           text == Shown(index)
           shown == Formatted(f, segmented)
<1>1. index \in drawn /\ f.data_type \in {"NUMBER", "VECTOR256", "TRANSFER_RATE", "QUALITY"}
  BY DEF Drawn
<1>2. IsField(f) /\ (shown # << >> => text = shown)
  BY <1>1, ShownIs, ShownText
<1> HIDE DEF f, text, shown
<1>3. CASE f.data_type = "NUMBER"
  <2>1. f.number \in Nat /\ f.number < Ten[MaxDigits] /\ shown = Unsigned(f.number)
    <3>1. f.number \in 0..Ten[MaxDigits] - 1
      BY <1>2, <1>3 DEF IsField
    <3>2. Ten[MaxDigits] \in Nat
      BY PrintAssumption, TenIs
    <3> QED
      BY <1>3, <3>1, <3>2, FormatterOf DEF shown
  <2>2. text = shown /\ SaysScaled(shown, f.number, 0)
    BY <1>2, <2>1, UnsignedSays
  <2> QED
    BY <1>3, <2>2 DEF f, text
<1>4. CASE f.data_type = "VECTOR256"
  <2>1. /\ f.length \div Vector256Size \in Nat /\ f.length \div Vector256Size < Ten[MaxDigits]
        /\ shown = Unsigned(f.length \div Vector256Size)
    <3>1. f.length \in Nat /\ f.length \div Vector256Size < Ten[MaxDigits]
      BY <1>2, <1>4 DEF IsField
    <3>2. f.length \div Vector256Size \in Nat
      BY <3>1, RateAssumption, DivIs
    <3> QED
      BY <1>4, <3>1, <3>2, FormatterOf DEF shown
  <2>2. text = shown /\ SaysScaled(shown, f.length \div Vector256Size, 0)
    BY <1>2, <2>1, UnsignedSays
  <2>3. f.data_type # "NUMBER"
    BY <1>4
  <2> QED
    BY <1>4, <2>2, <2>3 DEF f, text
<1>5. CASE f.data_type = "TRANSFER_RATE"
  <2>1. f.number \in Nat /\ f.number \div Denominator < Ten[MaxDigits] /\ shown = format_transfer_rate(f.number)
    BY <1>2, <1>5, FormatterOf DEF IsField, shown
  <2>2. /\ text = shown
        /\ IF f.number \in 1..Parity - 1 THEN shown = InvalidValue
           ELSE SaysPercent(shown, IF f.number = 0 THEN 0 ELSE f.number - Parity)
    BY <1>2, <2>1, TransferSays
  <2>3. f.data_type # "NUMBER" /\ f.data_type # "VECTOR256"
    BY <1>5
  <2> QED
    BY <1>5, <2>2, <2>3 DEF f, text
<1>6. CASE f.data_type = "QUALITY"
  <2>1. f.number \in Nat /\ f.number \div Denominator < Ten[MaxDigits] /\ shown = format_quality(f.number)
    BY <1>2, <1>6, FormatterOf DEF IsField, shown
  <2>2. text = shown /\ SaysPercent(shown, IF f.number = 0 THEN Parity ELSE f.number)
    BY <1>2, <2>1, QualitySays
  <2>3. f.data_type # "NUMBER" /\ f.data_type # "VECTOR256" /\ f.data_type # "TRANSFER_RATE"
    BY <1>6
  <2> QED
    BY <1>6, <2>2, <2>3 DEF f, text
<1> QED
  BY <1>1, <1>3, <1>4, <1>5, <1>6

-----------------------------------------------------------------------------
(* What a page says of currencies.                                         *)

\* What is shown of a currency that is not the ledger's.
CurrencySays(c, text) ==
    \/ text = read_hex(c)
    \/ /\ Range(text) \subseteq Printable
       /\ ~Mentions(text, Ticker)
       /\ Surrounded(text, c)

LEMMA StandardSays ==
    ASSUME NEW c, IsCurrency(c), is_standard_currency_code(c)
    PROVE  CurrencySays(c, TickerOf(c)) /\ TickerOf(c) # << >>
<1> DEFINE t == TickerOf(c)
           s == TickerStart
<1>1. /\ t \in Seq(Range(c)) /\ Len(t) = 3 /\ s \in Nat \ {0} /\ s + 2 <= CurrencySize
      /\ \A i \in 1..3 : t[i] = c[s - 1 + i]
  BY TickerIs
<1>2. /\ \A i \in 1..CurrencySize \ TickerAt : c[i] = "NUL"
      /\ \A i \in TickerAt : c[i] \in TickerChar
      /\ t # Ticker
  BY DEF is_standard_currency_code, StandardStructure
<1>3. TickerAt = s..s + 2 /\ CurrencySize \in Nat
  BY AmountAssumption DEF TickerAt
<1> HIDE DEF t, s
<1>4. Range(t) \subseteq Printable
  <2>1. \A i \in 1..3 : s - 1 + i \in TickerAt
    BY <1>1, <1>3
  <2>2. \A i \in 1..3 : t[i] \in Printable
    BY <1>1, <1>2, <2>1, AmountAssumption
  <2>3. DOMAIN t = 1..3
    BY <1>1
  <2> QED
    BY <2>2, <2>3 DEF Range
<1>5. ~Mentions(t, Ticker)
  <2> SUFFICES ASSUME NEW i \in 0..Len(t) - Len(Ticker), SubSeq(t, i + 1, i + Len(Ticker)) = Ticker
               PROVE FALSE
    BY DEF Mentions
  <2>1. Len(Ticker) = 3
    BY DEF Ticker
  <2>2. i = 0 /\ i + 1 = 1 /\ i + Len(Ticker) = Len(t)
    BY <1>1, <2>1
  <2>3. SubSeq(t, 1, Len(t)) = t
    BY <1>1, SubSeqFull
  <2> QED
    BY <1>2, <2>2, <2>3
<1>6. Surrounded(t, c)
  <2>1. s - 1 \in 0..CurrencySize /\ s - 1 + Len(t) <= CurrencySize
    BY <1>1, <1>3
  <2>2. ASSUME NEW i \in 1..CurrencySize
        PROVE  c[i] = IF i \in s - 1 + 1..s - 1 + Len(t) THEN t[i - (s - 1)] ELSE "NUL"
    <3>1. i \in s - 1 + 1..s - 1 + Len(t) <=> i \in TickerAt
      BY <1>1, <1>3
    <3>2. i \in TickerAt => i - (s - 1) \in 1..3 /\ s - 1 + (i - (s - 1)) = i
      BY <1>1, <1>3
    <3> QED
      BY <1>1, <1>2, <3>1, <3>2
  <2> QED
    BY <2>1, <2>2 DEF Surrounded
<1>7. t # << >>
  <2>1. Len(t) = 3
    BY <1>1
  <2> QED
    BY <2>1
<1> QED
  BY <1>4, <1>5, <1>6, <1>7 DEF CurrencySays, t

LEMMA TextSays ==
    ASSUME NEW c, IsCurrency(c), ShownAsText(c)
    PROVE  CurrencySays(c, CString(c)) /\ CString(c) # << >>
<1> DEFINE t == CString(c)
           n == CurrencySize
<1>1. c \in Seq(Range(c)) /\ Len(c) = n /\ DOMAIN c = 1..n /\ n \in Nat /\ n > 2 /\ c # << >>
  <2>1. n \in Nat /\ n > 2
    BY RoomIs
  <2>2. c \in Seq(Range(c)) /\ Len(c) = n
    BY DEF IsCurrency, IsBytes
  <2> QED
    BY <2>1, <2>2, EmptySeq
<1>2. is_purely_ascii(c, TRUE) /\ ~Mentions(t, Ticker)
  BY DEF ShownAsText
<1>3. PICK e \in 0..n :
          /\ t \in Seq(Range(c)) /\ Len(t) = e
          /\ \A i \in 1..e : t[i] = c[i] /\ c[i] # "NUL"
          /\ e # n => c[e + 1] = "NUL"
  BY CStringIs
<1>4. Head(c) = c[1] /\ 1 \in 1..n
  BY <1>1
<1>5. c[1] # "NUL"
  <2> SUFFICES ASSUME c[1] = "NUL" PROVE FALSE
    OBVIOUS
  <2>1. \A i \in DOMAIN c : c[i] \in Printable
    BY <1>2, <1>4 DEF is_purely_ascii
  <2> QED
    BY <1>1, <1>4, <2>1, AmountAssumption
<1>6. /\ \A i \in DOMAIN t : t[i] \in Printable
      /\ \A i \in Len(t) + 1..Len(c) : c[i] = "NUL"
  BY <1>1, <1>2, <1>4, <1>5 DEF is_purely_ascii
<1> HIDE DEF t, n
<1>7. t # << >>
  <2> SUFFICES ASSUME t = << >> PROVE FALSE
    OBVIOUS
  <2>1. e = 0 /\ e # n /\ e + 1 = 1
    BY <1>1, <1>3
  <2>2. c[e + 1] = "NUL"
    BY <1>3, <2>1
  <2> QED
    BY <1>5, <2>1, <2>2
<1>8. Range(t) \subseteq Printable
  BY <1>6 DEF Range
<1>9. Surrounded(t, c)
  <2>1. 0 \in 0..CurrencySize /\ 0 + Len(t) <= CurrencySize
    BY <1>1, <1>3 DEF n
  <2>2. ASSUME NEW i \in 1..CurrencySize
        PROVE  c[i] = IF i \in 0 + 1..0 + Len(t) THEN t[i - 0] ELSE "NUL"
    <3>1. i \in 1..n /\ i - 0 = i /\ 0 + 1 = 1 /\ 0 + Len(t) = e
      BY <1>3 DEF n
    <3>2. i \in 1..e \/ i \in e + 1..n
      BY <1>1, <3>1
    <3> QED
      BY <1>1, <1>3, <1>6, <3>1, <3>2
  <2> QED
    BY <2>1, <2>2 DEF Surrounded
<1> QED
  BY <1>2, <1>7, <1>8, <1>9 DEF CurrencySays, t

LEMMA CurrencyIs ==
    ASSUME NEW c, IsCurrency(c)
    PROVE  /\ currency_formatter(c) # << >>
           /\ IF is_all_zeros(c) THEN currency_formatter(c) = Ticker
              ELSE CurrencySays(c, currency_formatter(c))
<1>1. CASE is_all_zeros(c)
  <2>1. currency_formatter(c) = Ticker
    BY <1>1 DEF currency_formatter, has_non_standard_currency
  <2> QED
    BY <1>1, <2>1 DEF Ticker
<1>2. CASE ~is_all_zeros(c) /\ is_standard_currency_code(c)
  <2>1. currency_formatter(c) = TickerOf(c)
    BY <1>2 DEF currency_formatter, has_non_standard_currency
  <2> QED
    BY <1>2, <2>1, StandardSays
<1>3. CASE has_non_standard_currency(c) /\ ShownAsText(c)
  <2>1. currency_formatter(c) = CString(c)
    <3>1. ~is_all_zeros(c)
      BY <1>3 DEF has_non_standard_currency
    <3> QED
      BY <1>3, <3>1, Zenon DEF currency_formatter
  <2> QED
    BY <1>3, <2>1, TextSays DEF has_non_standard_currency
<1>4. CASE has_non_standard_currency(c) /\ ~ShownAsText(c)
  <2>1. currency_formatter(c) = read_hex(c)
    <3>1. ~is_all_zeros(c)
      BY <1>4 DEF has_non_standard_currency
    <3> QED
      BY <1>4, <3>1, Zenon DEF currency_formatter
  <2>2. Len(read_hex(c)) = 2 * CurrencySize
    BY HexIs DEF IsCurrency
  <2>3. read_hex(c) # << >>
    <3>1. 2 * CurrencySize # 0
      BY RoomIs
    <3> QED
      BY <2>2, <3>1
  <2> QED
    BY <1>4, <2>1, <2>3 DEF has_non_standard_currency, CurrencySays
<1> QED
  BY <1>1, <1>2, <1>3, <1>4 DEF has_non_standard_currency

LEMMA CurrenciesShown == SlotsHold => CurrencyReadsBack
<1> SUFFICES ASSUME SlotsHold, NEW index \in Drawn({"CURRENCY", "ISSUE"})
    PROVE  LET currency == Field(index).currency
               text == Shown(index)
           IN  IF is_all_zeros(currency) THEN text = Ticker
               ELSE \/ text = read_hex(currency)
                    \/ /\ Range(text) \subseteq Printable
                       /\ ~Mentions(text, Ticker)
                       /\ Surrounded(text, currency)
  BY DEF CurrencyReadsBack
<1>1. index \in drawn /\ Field(index).data_type \in {"CURRENCY", "ISSUE"}
  BY DEF Drawn
<1>2. IsCurrency(Field(index).currency)
  BY <1>1, ShownIs DEF IsField, IsCurrency
<1>3. Formatted(Field(index), segmented) = currency_formatter(Field(index).currency)
  BY <1>1, FormatterOf
<1>4. Shown(index) = currency_formatter(Field(index).currency)
  BY <1>1, <1>2, <1>3, CurrencyIs, ShownText
<1> QED
  BY <1>2, <1>4, CurrencyIs DEF CurrencySays

-----------------------------------------------------------------------------
(* What a page says of amounts.                                            *)

\* The number of an issued amount, without its code.
LEMMA IssuedSays ==
    ASSUME NEW value \in IssuedValue, NEW max_len \in Nat, max_len >= NumberRoom
    PROVE  LET number == format_issued_currency(max_len, value)
           IN  /\ number \in Seq(Chars \cup {"-"})
               /\ IF Canonical(value) \/ IsZero(value)
                  THEN number # << >> /\ SaysIssued(number, value)
                  ELSE number = Refused \/ (value.mantissa = 0 /\ number = <<"0">>)
<1> DEFINE number == format_issued_currency(max_len, value)
           e == value.exponent_bits - ExponentBias
           m == value.mantissa
           n == normalize(m, e)
           t == Positioned(Digits(n.mantissa), n.exponent)
<1>1. /\ value.sign \in 0..1 /\ value.exponent_bits \in Nat /\ m \in Nat
      /\ value = [sign |-> value.sign, exponent_bits |-> value.exponent_bits, mantissa |-> m]
  BY DEF IssuedValue
<1>2. e \in Int /\ ~(max_len < NumberRoom) /\ MantissaMin \in Nat \ {0}
  BY <1>1, AmountAssumption DEF ExponentBias
<1>3. IsZero(value) <=> value.sign = 0 /\ value.exponent_bits = 0 /\ m = 0
  BY <1>1 DEF IsZero
<1>4. Canonical(value) <=> InRange(e, m)
  BY DEF Canonical, InRange
<1>5. CASE IsZero(value)
  <2>1. number = <<"0">>
    BY <1>3, <1>5, Zenon DEF format_issued_currency
  <2> QED
    BY <1>5, <2>1, ZeroIssued, Zenon DEF SaysIssued
<1>6. CASE ~IsZero(value)
  <2>1. number = parse_decimal_number(max_len, value.sign, e, m)
    BY <1>3, <1>6, Zenon DEF format_issued_currency
  <2>2. CASE value.sign = 0 /\ e = 0 /\ m = 0
    <3>1. number = <<"0">>
      <4>1. <<value.sign, e, m>> = <<0, 0, 0>> /\ max_len >= NumberRoom
        BY <2>2
      <4>2. ~InRange(e, m)
        BY <1>2, <2>2 DEF InRange
      <4> HIDE DEF e, m
      <4> QED
        BY <1>2, <2>1, <4>1, <4>2, Zenon DEF parse_decimal_number
    <3>2. ~Canonical(value)
      BY <1>2, <1>4, <2>2 DEF InRange
    <3> QED
      BY <1>6, <2>2, <3>1, <3>2, ZeroIssued, Zenon
  <2>3. CASE ~(value.sign = 0 /\ e = 0 /\ m = 0) /\ ~Canonical(value)
    <3>1. <<value.sign, e, m>> # <<0, 0, 0>>
      BY <2>3
    <3>2. ~InRange(e, m)
      BY <1>4, <2>3
    <3> HIDE DEF e, m
    <3>3. number = Refused
      BY <1>2, <2>1, <3>1, <3>2 DEF parse_decimal_number
    <3>4. Refused \in Seq(Chars \cup {"-"})
      BY DEF Refused
    <3> QED
      BY <1>6, <2>3, <3>3, <3>4, Zenon
  <2>4. CASE Canonical(value)
    <3>1. e \in ExpMin..ExpMax /\ m \in MantissaMin..MantissaMax /\ InRange(e, m)
      BY <1>4, <2>4 DEF InRange
    <3>2. <<value.sign, e, m>> # <<0, 0, 0>>
      BY <1>2, <3>1, AmountAssumption
    <3>3. t \in Seq(Chars) /\ t # << >> /\ SaysScaled(t, m * Ten[e - ExpMin], -ExpMin)
      <4> HIDE DEF e, m
      <4> QED
        BY <3>1, DecimalSays
    <3>4. number = (IF value.sign = 0 THEN <<"-">> ELSE << >>) \o t
      <4> HIDE DEF e, m
      <4> QED
        BY <1>2, <2>1, <3>1, <3>2, Zenon DEF parse_decimal_number
    <3>5. Scaled(value) = m * Ten[e - ExpMin]
      BY DEF Scaled
    <3> HIDE DEF number, t, e, m
    <3>6. CASE value.sign = 1
      <4>1. number = t
        <5>1. number = << >> \o t
          BY <3>4, <3>6
        <5> QED
          BY <3>3, <5>1, ConcatEmptySeq
      <4>2. t \in Seq(Chars \cup {"-"})
        <5>1. Chars \subseteq Chars \cup {"-"}
          OBVIOUS
        <5> QED
          BY <3>3, <5>1, SeqMonotonic
      <4>3. SaysIssued(number, value)
        BY <1>6, <3>3, <3>5, <3>6, <4>1, Zenon DEF SaysIssued
      <4> QED
        BY <2>4, <3>3, <4>1, <4>2, <4>3, Zenon DEF number
    <3>7. CASE value.sign = 0
      <4>1. number = <<"-">> \o t
        BY <3>4, <3>7
      <4>2. /\ number \in Seq(Chars \cup {"-"}) /\ number # << >>
            /\ Head(number) = "-" /\ Tail(number) = t
        BY <3>3, <4>1, SignCut
      <4>3. value.sign # 1
        BY <3>7
      <4>4. SaysIssued(number, value)
        BY <1>6, <3>3, <3>5, <4>2, <4>3, Zenon DEF SaysIssued
      <4> QED
        BY <2>4, <4>2, <4>4, Zenon DEF number
    <3> QED
      BY <1>1, <3>6, <3>7
  <2> QED
    BY <2>2, <2>3, <2>4, Zenon
<1> QED
  BY <1>5, <1>6, Zenon

\* An issued amount: its number stands after its code.
LEMMA IssuedShown ==
    ASSUME NEW value \in IssuedValue, NEW c, IsCurrency(c), is_valid_currency(c), ~is_all_zeros(c)
    PROVE  LET text == format_issued(value, c)
           IN  /\ text # << >>
               /\ IF Canonical(value) \/ IsZero(value) THEN SaysIssued(AfterCode(text, c), value)
                  ELSE text = InvalidAmount \/ (value.mantissa = 0 /\ AfterCode(text, c) = <<"0">>)
<1> DEFINE prefix == CurrencyPrefix(c)
           code == TickerOf(c) \o <<" ">>
           room == MaxFieldLen - Len(prefix)
           number == format_issued_currency(room, value)
           text == format_issued(value, c)
           S == Range(c) \cup {" "} \cup Chars \cup {"-"}
<1>1. prefix = IF is_standard_currency_code(c) THEN code ELSE << >>
  BY Zenon DEF CurrencyPrefix, has_non_standard_currency
<1>2. code \in Seq(S) /\ Len(code) = 4
  <2>1. " " \in S /\ Range(c) \subseteq S
    BY Zenon
  <2> HIDE DEF S
  <2>2. PICK b \in S : b = " "
    BY <2>1, Zenon
  <2>3. TickerOf(c) \in Seq(S) /\ Len(TickerOf(c)) = 3
    BY <2>1, TickerIs, SeqMonotonic
  <2>4. <<b>> \in Seq(S) /\ Len(<<b>>) = 1
    OBVIOUS
  <2>5. PICK h \in Seq(S), r \in Seq(S) : h = TickerOf(c) /\ r = <<b>>
    BY <2>3, <2>4
  <2>6. code = h \o r
    BY <2>2, <2>5, Zenon
  <2>7. h \o r \in Seq(S) /\ Len(h \o r) = Len(h) + Len(r)
    BY PrefixCut
  <2>8. Len(h) = 3 /\ Len(r) = 1
    BY <2>3, <2>4, <2>5
  <2>9. h \o r \in Seq(S) /\ Len(h \o r) = 4
    BY <2>7, <2>8
  <2> HIDE DEF code
  <2> QED
    BY <2>6, <2>9
<1>3. Len(prefix) \in {0, 4} /\ room \in Nat /\ room >= NumberRoom
  <2>1. Len(prefix) = 0 \/ Len(prefix) = 4
    <3> HIDE DEF prefix, code
    <3> QED
      BY <1>1, <1>2
  <2>2. MaxFieldLen \in Nat /\ NumberRoom \in Nat /\ MaxFieldLen - 4 >= NumberRoom
    BY AmountAssumption
  <2>3. PICK k \in {0, 4} : k = Len(prefix)
    BY <2>1
  <2>4. MaxFieldLen - k \in Nat /\ MaxFieldLen - k >= NumberRoom
    BY <2>2
  <2> QED
    BY <2>3, <2>4
<1>4. /\ number \in Seq(Chars \cup {"-"})
      /\ IF Canonical(value) \/ IsZero(value)
         THEN number # << >> /\ SaysIssued(number, value)
         ELSE number = Refused \/ (value.mantissa = 0 /\ number = <<"0">>)
  <2> HIDE DEF room
  <2> QED
    BY <1>3, IssuedSays
<1>5. text = IF number = Refused THEN InvalidAmount ELSE prefix \o number
  BY Zenon DEF format_issued
<1> HIDE DEF number, prefix, code, text, room
<1>6. ASSUME number # Refused PROVE text # << >> /\ AfterCode(text, c) = number
  <2>1. number \in Seq(S)
    <3>1. Chars \cup {"-"} \subseteq S
      BY Zenon
    <3> HIDE DEF S
    <3> QED
      BY <1>4, <3>1, SeqMonotonic
  <2> HIDE DEF S
  <2>2. CASE is_standard_currency_code(c)
    <3>1. text = code \o number
      BY <1>1, <1>5, <1>6, <2>2
    <3>2. PICK h \in Seq(S), r \in Seq(S) : h = code /\ r = number
      BY <1>2, <2>1
    <3>3. /\ IsPrefix(h, h \o r) /\ SubSeq(h \o r, Len(h) + 1, Len(h \o r)) = r
          /\ Len(h \o r) = Len(h) + Len(r)
      BY PrefixCut
    <3>4. Len(code) + 1 = 5
      BY <1>2
    <3>5. IsPrefix(code, text) /\ SubSeq(text, 5, Len(text)) = number
      BY <3>1, <3>2, <3>3, <3>4
    <3>6. AfterCode(text, c) = number
      BY <2>2, <3>5, Zenon DEF AfterCode, code
    <3>7. text # << >>
      <4>1. Len(text) # 0
        BY <1>2, <3>1, <3>2, <3>3
      <4> QED
        BY <4>1
    <3> QED
      BY <3>6, <3>7
  <2>3. CASE ~is_standard_currency_code(c)
    <3>1. text = << >> \o number
      BY <1>1, <1>5, <1>6, <2>3
    <3>2. text = number
      BY <2>1, <3>1, ConcatEmptySeq
    <3>3. AfterCode(text, c) = text
      BY <2>3, Zenon DEF AfterCode
    <3> QED
      BY <1>6, <3>2, <3>3 DEF Refused
  <2> QED
    BY <2>2, <2>3
<1>7. InvalidAmount # << >>
  BY DEF InvalidAmount
<1>8. CASE Canonical(value) \/ IsZero(value)
  <2>1. number # Refused /\ SaysIssued(number, value)
    BY <1>4, <1>8, Zenon DEF Refused
  <2> QED
    BY <1>6, <1>8, <2>1, Zenon DEF text
<1>9. CASE ~(Canonical(value) \/ IsZero(value))
  <2>1. CASE number = Refused
    BY <1>5, <1>7, <1>9, <2>1, Zenon DEF text
  <2>2. CASE number # Refused
    BY <1>4, <1>6, <1>9, <2>2, Zenon DEF text
  <2> QED
    BY <2>1, <2>2
<1> QED
  BY <1>8, <1>9

LEMMA Amounts == SlotsHold => AmountReadsBack
<1> DEFINE Says(f, text) ==
               IF "drops" \in DOMAIN f
               THEN IF f.drops < AmountBit THEN text = InvalidAmount ELSE SaysXRP(text, f.drops - AmountBit)
               ELSE IF Canonical(f.value) \/ IsZero(f.value)
               THEN SaysIssued(AfterCode(text, f.currency), f.value)
               ELSE \/ text = InvalidAmount
                    \/ f.value.mantissa = 0 /\ AfterCode(text, f.currency) = <<"0">>
<1> SUFFICES ASSUME SlotsHold, NEW index \in Drawn({"AMOUNT"})
    PROVE  Says(Field(index), Shown(index))
  BY Zenon DEF AmountReadsBack
<1>1. PICK f : f = Field(index)
  OBVIOUS
<1>2. index \in drawn /\ f.data_type = "AMOUNT"
  BY <1>1 DEF Drawn
<1>3. IsField(f)
  BY <1>1, <1>2, ShownIs
<1>4. CASE DOMAIN f = {"data_type", "drops"} /\ f.drops \in 0..(2 * AmountBit) - 1
  <2>1. Formatted(f, segmented) = format_xrp(f.drops)
    BY <1>2, <1>4, FormatterOf, Zenon
  <2>2. Shown(index) = format_xrp(f.drops)
    <3>1. format_xrp(f.drops) # << >>
      BY <1>4, DropsShown
    <3> QED
      BY <1>1, <1>2, <2>1, <3>1, ShownText
  <2>3. Says(f, format_xrp(f.drops))
    <3>1. "drops" \in DOMAIN f
      BY <1>4
    <3>2. IF f.drops < AmountBit THEN format_xrp(f.drops) = InvalidAmount
          ELSE SaysXRP(format_xrp(f.drops), f.drops - AmountBit)
      BY <1>4, DropsShown
    <3> QED
      BY <3>1, <3>2, Zenon
  <2> QED
    BY <1>1, <2>2, <2>3
<1>5. CASE /\ DOMAIN f = {"data_type", "currency", "value"}
           /\ IsBytes(f.currency) /\ Len(f.currency) = CurrencySize
           /\ is_valid_currency(f.currency) /\ ~is_all_zeros(f.currency)
           /\ f.value \in [sign : 0..1, exponent_bits : Nat, mantissa : Nat]
  <2>1. Formatted(f, segmented) = format_issued(f.value, f.currency)
    BY <1>2, <1>5, FormatterOf, Zenon
  <2>0. PICK c : c = f.currency
    OBVIOUS
  <2>2. PICK value \in IssuedValue : value = f.value
    BY <1>5 DEF IssuedValue
  <2>3. IsCurrency(c) /\ is_valid_currency(c) /\ ~is_all_zeros(c)
    BY <1>5, <2>0 DEF IsCurrency
  <2>4. /\ format_issued(value, c) # << >>
        /\ IF Canonical(value) \/ IsZero(value) THEN SaysIssued(AfterCode(format_issued(value, c), c), value)
           ELSE \/ format_issued(value, c) = InvalidAmount
                \/ value.mantissa = 0 /\ AfterCode(format_issued(value, c), c) = <<"0">>
    BY <2>3, IssuedShown
  <2>5. Shown(index) = format_issued(f.value, f.currency)
    BY <1>1, <1>2, <2>0, <2>1, <2>2, <2>4, ShownText
  <2>6. "drops" \notin DOMAIN f
    BY <1>5
  <2>7. Says(f, format_issued(f.value, f.currency))
    BY <2>0, <2>2, <2>4, <2>6, Zenon
  <2> QED
    BY <1>1, <2>5, <2>7
<1> QED
  BY <1>2, <1>3, <1>4, <1>5 DEF IsField

-----------------------------------------------------------------------------
(* What a page says of accounts.                                           *)

LEMMA UnspacedIs == \A c, text : IsSpace(c) => Unspaced(text) = Without(text, c)
BY Zenon DEF IsSpace, Unspaced, Without

LEMMA AccountField ==
    ASSUME NEW f, IsField(f), f.data_type = "ACCOUNT", f.account # << >>
    PROVE  LET checksum == Checksum(<<0>> \o f.account)
           IN  /\ f.account \in Seq(0..InBase - 1) /\ checksum \in Seq(0..InBase - 1)
               /\ Len(f.account) + Len(checksum) <= AddressSize
BY Zenon DEF IsField

LEMMA Addresses == SlotsHold => AddressReadsBack
<1> DEFINE Says(f, text) ==
               IF f.account = << >> THEN text = <<"[empty]">>
               ELSE /\ Encodes(Unspaced(text), (<<0>> \o f.account) \o Checksum(<<0>> \o f.account))
                    /\ segmented => Len(text) = 3 * PageWidth
<1> SUFFICES ASSUME SlotsHold, NEW index \in Drawn({"ACCOUNT"})
    PROVE  Says(Field(index), Shown(index))
  BY Zenon DEF AddressReadsBack
<1>1. PICK f : f = Field(index)
  OBVIOUS
<1>2. index \in drawn /\ f.data_type = "ACCOUNT"
  BY <1>1 DEF Drawn
<1>3. IsField(f) /\ segmented \in BOOLEAN
  BY <1>1, <1>2, ShownIs DEF SlotsHold
<1>4. Formatted(f, segmented) = account_formatter(f.account, segmented)
  BY <1>2, FormatterOf, Zenon
<1>5. CASE f.account = << >>
  <2>1. account_formatter(f.account, segmented) = <<"[empty]">>
    BY <1>5, Zenon DEF account_formatter
  <2>2. <<"[empty]">> # << >>
    OBVIOUS
  <2>3. Shown(index) = <<"[empty]">>
    BY <1>1, <1>2, <1>4, <2>1, <2>2, ShownText
  <2> QED
    BY <1>1, <1>5, <2>3, Zenon
<1>6. CASE f.account # << >>
  <2>1. PICK account, checksum :
            /\ account = f.account /\ checksum = Checksum(<<0>> \o account)
            /\ account \in Seq(0..InBase - 1) /\ checksum \in Seq(0..InBase - 1)
            /\ Len(account) + Len(checksum) <= AddressSize
    BY <1>2, <1>3, <1>6, AccountField, Zenon
  <2>2. PICK c : IsSpace(c)
    BY Zenon DEF IsSpace
  <2>3. PICK shown : shown = account_formatter(account, segmented)
    OBVIOUS
  <2>4. /\ shown # << >>
        /\ Encodes(Without(shown, c), (<<0>> \o account) \o checksum)
        /\ segmented => Len(shown) = 3 * PageWidth
    BY <1>3, <1>6, <2>1, <2>2, <2>3, AccountSays, Zenon
  <2>5. Shown(index) = shown
    BY <1>1, <1>2, <1>4, <2>1, <2>3, <2>4, ShownText
  <2>6. Unspaced(shown) = Without(shown, c)
    BY <2>2, UnspacedIs, Zenon
  <2> QED
    BY <1>1, <1>6, <2>1, <2>4, <2>5, <2>6, Zenon
<1> QED
  BY <1>5, <1>6, Zenon

-----------------------------------------------------------------------------
(* Texts that fit their rows.                                              *)

\* A percentage: its whole part, the point, its decimals, a space and the sign.
LEMMA PercentFits ==
    ASSUME NEW v \in Nat, v \div Denominator < Ten[MaxDigits]
    PROVE  Fits(format_percentage_internal(v))
<1> DEFINE q == v \div Denominator
           w == v % Denominator
           a == Unsigned(q)
           tail == Padded(w, RateDecimals)
           point == <<".">>
           kept == Kept(tail)
           b == SubSeq(tail, 1, kept)
           text == CutText(a, tail)
<1>1. /\ RateDecimals \in Nat \ {0} /\ RateDecimals \in 0..MaxDigits /\ MaxDigits \in Nat
      /\ Denominator = Ten[RateDecimals] /\ Denominator \in Nat \ {0}
  BY RateIs, PrintAssumption
<1>2. q \in Nat /\ w \in Nat /\ w < Ten[RateDecimals]
  <2>1. q \in Nat /\ w \in 0..Denominator - 1
    BY <1>1, DivIs
  <2> HIDE DEF q, w
  <2> QED
    BY <1>1, <2>1
<1> HIDE DEF w
<1>3. a \in Seq(Numerals) /\ Len(a) <= MaxDigits /\ a # << >>
  <2> HIDE DEF q
  <2>1. q < Ten[MaxDigits]
    BY DEF q
  <2> QED
    BY <1>2, <2>1, UnsignedFits, UnsignedIs
<1> HIDE DEF q
<1>4. tail \in Seq(Numerals) /\ Len(tail) = RateDecimals /\ tail # << >>
  <2>1. tail \in Seq(Numerals) /\ Len(tail) = RateDecimals
    BY <1>1, <1>2, PaddedIs
  <2> HIDE DEF tail
  <2>2. tail # << >>
    BY <1>1, <2>1, EmptySeq
  <2> QED
    BY <2>1, <2>2
<1>5. format_percentage_internal(v) = remove_redundant_decimals(a \o <<".">> \o tail) \o <<" ", "%">>
  BY DEF format_percentage_internal, q, w
<1> HIDE DEF a, tail
<1>6. remove_redundant_decimals(a \o <<".">> \o tail) = text
  BY <1>3, <1>4, RedundantIs
<1>7. kept \in 0..RateDecimals /\ b \in Seq(Numerals) /\ Len(b) = kept
  BY <1>4, KeptIs
<1>8. text = IF kept = 0 THEN a ELSE (a \o point) \o b
  BY DEF CutText
<1>9. a \in Seq(Chars) /\ point \in Seq(Chars) /\ Len(point) = 1 /\ b \in Seq(Chars)
  <2> HIDE DEF b
  <2>1. Numerals \subseteq Chars /\ "." \in Chars
    BY DEF Chars
  <2> QED
    BY <1>3, <1>7, <2>1, SeqMonotonic
<1> HIDE DEF text, b, kept, point
<1>10. text \in Seq(Chars) /\ Len(text) <= MaxDigits + 1 + RateDecimals
  <2>1. 1 \in Nat /\ MaxDigits + 1 \in Nat /\ Len(point) <= 1 /\ Len(b) <= RateDecimals /\ RateDecimals \in Nat
    BY <1>1, <1>7, <1>9
  <2>2. a \o point \in Seq(Chars) /\ Len(a \o point) <= MaxDigits + 1
    BY <1>1, <1>3, <1>9, <2>1, Joined
  <2>3. (a \o point) \o b \in Seq(Chars) /\ Len((a \o point) \o b) <= (MaxDigits + 1) + RateDecimals
    BY <1>9, <2>1, <2>2, Joined
  <2>4. Len(a) <= MaxDigits + 1 + RateDecimals
    BY <1>1, <1>3
  <2> QED
    BY <1>8, <1>9, <2>3, <2>4
<1>11. PICK c, d : <<" ", "%">> = <<c, d>>
  OBVIOUS
<1> DEFINE S == Chars \cup {c, d}
<1>12. text \in Seq(S) /\ <<c, d>> \in Seq(S) /\ Len(<<c, d>>) <= 2
  <2>1. Chars \subseteq S
    OBVIOUS
  <2>2. text \in Seq(S)
    <3> HIDE DEF S
    <3> QED
      BY <1>10, <2>1, SeqMonotonic
  <2> QED
    BY <2>2
<1>13. 2 \in Nat /\ MaxDigits + 1 + RateDecimals \in Nat
  BY <1>1
<1> HIDE DEF S
<1>14. text \o <<c, d>> \in Seq(S) /\ Len(text \o <<c, d>>) <= (MaxDigits + 1 + RateDecimals) + 2
  BY <1>10, <1>12, <1>13, Joined
<1>15. PICK l \in Nat : l = Len(format_percentage_internal(v)) /\ l <= (MaxDigits + 1 + RateDecimals) + 2
  <2>1. PICK t \in Seq(S) : t = text \o <<c, d>> /\ Len(t) <= (MaxDigits + 1 + RateDecimals) + 2
    BY <1>14
  <2>2. format_percentage_internal(v) = t
    BY <1>5, <1>6, <1>11, <2>1, Zenon
  <2> QED
    BY <2>1, <2>2
<1>16. l <= MaxText
  BY <1>1, <1>15, RoomAssumption, RoomIs
<1> QED
  BY <1>15, <1>16, RateSays DEF Fits

LEMMA RatesFit ==
    ASSUME NEW v \in Nat, v \div Denominator < Ten[MaxDigits]
    PROVE  Fits(format_transfer_rate(v)) /\ Fits(format_quality(v))
<1>1. /\ RateDecimals \in Nat \ {0} /\ Denominator \in Nat \ {0} /\ Parity \in Nat \ {0} /\ MaxDigits \in Nat \ {0}
      /\ MaxDigits + RateDecimals + 3 <= MaxText /\ MaxText \in Nat
  BY RateIs, RoomAssumption, RoomIs, PrintAssumption DEF Parity
<1>2. Fits(format_transfer_rate(v))
  <2>1. CASE v = 0
    <3>1. PICK c, d : <<"0", " ", "%">> = <<"0", c, d>>
      OBVIOUS
    <3>2. Len(<<"0", c, d>>) = 3 /\ 3 <= MaxText
      BY <1>1
    <3>3. format_transfer_rate(v) = <<"0", c, d>> /\ format_transfer_rate(v) # << >>
      BY <2>1, <3>1, TransferSays, Zenon DEF format_transfer_rate
    <3> QED
      BY <3>2, <3>3, Zenon DEF Fits
  <2>2. CASE v # 0 /\ v < Parity
    <3>1. format_transfer_rate(v) = InvalidValue
      BY <2>2, Zenon DEF format_transfer_rate
    <3> QED
      BY <3>1, OneFits, Zenon DEF InvalidValue
  <2>3. CASE v # 0 /\ ~(v < Parity)
    <3>1. PICK u \in Nat : u = v - Parity /\ u <= v
      BY <1>1, <2>3
    <3>2. u \div Denominator <= v \div Denominator
      BY <1>1, <3>1, DivMonotone
    <3>3. u \div Denominator \in Nat /\ v \div Denominator \in Nat
      BY <1>1, DivIs
    <3>4. Ten[MaxDigits] \in Nat
      BY <1>1, TenIs
    <3>5. u \div Denominator < Ten[MaxDigits]
      BY <3>2, <3>3, <3>4
    <3>6. format_transfer_rate(v) = format_percentage_internal(u)
      BY <2>3, <3>1, Zenon DEF format_transfer_rate
    <3> QED
      BY <3>5, <3>6, PercentFits
  <2> QED
    BY <2>1, <2>2, <2>3
<1>3. Fits(format_quality(v))
  <2>1. CASE v = 0
    <3>1. PICK c, d : <<"1", "0", "0", " ", "%">> = <<"1", "0", "0", c, d>>
      OBVIOUS
    <3>2. Len(<<"1", "0", "0", c, d>>) = 5 /\ 5 <= MaxText
      BY <1>1
    <3>3. format_quality(v) = <<"1", "0", "0", c, d>> /\ format_quality(v) # << >>
      BY <2>1, <3>1, QualitySays, Zenon DEF format_quality
    <3> QED
      BY <3>2, <3>3, Zenon DEF Fits
  <2>2. CASE v # 0
    <3>1. format_quality(v) = format_percentage_internal(v)
      BY <2>2, Zenon DEF format_quality
    <3> QED
      BY <3>1, PercentFits
  <2> QED
    BY <2>1, <2>2
<1> QED
  BY <1>2, <1>3

\* A code, a text, or two digits for every byte.
LEMMA CurrencyFits ==
    ASSUME NEW c, IsCurrency(c)
    PROVE  Fits(currency_formatter(c))
<1>1. currency_formatter(c) # << >>
  BY CurrencyIs
<1>2. 2 * CurrencySize <= MaxText /\ CurrencySize \in Nat /\ CurrencySize > 2 /\ MaxText \in Nat
  BY RoomAssumption, RoomIs
<1>3. currency_formatter(c) \in {CString(c), read_hex(c), Ticker, TickerOf(c)}
  BY DEF currency_formatter
<1>4. Len(read_hex(c)) = 2 * CurrencySize
  BY HexIs DEF IsCurrency
<1>5. Len(CString(c)) \in 0..CurrencySize
  BY CStringIs
<1>6. Len(TickerOf(c)) = 3 /\ Len(Ticker) = 3
  BY TickerIs DEF Ticker
<1>7. Len(currency_formatter(c)) \in 0..CurrencySize \cup {2 * CurrencySize, 3}
  BY <1>3, <1>4, <1>5, <1>6, Zenon
<1>8. PICK l : l = Len(currency_formatter(c))
  OBVIOUS
<1>9. l <= MaxText
  BY <1>2, <1>7, <1>8
<1> QED
  BY <1>1, <1>8, <1>9 DEF Fits

\* Every amount with its code leaves room for the end of the text.
LEMMA IssuedFits ==
    ASSUME NEW value \in IssuedValue, NEW c, IsCurrency(c), is_valid_currency(c), ~is_all_zeros(c)
    PROVE  Fits(format_issued(value, c))
<1> DEFINE prefix == CurrencyPrefix(c)
           room == MaxFieldLen - Len(prefix)
           number == format_issued_currency(room, value)
<1>1. MaxFieldLen \in Nat /\ NumberRoom \in Nat /\ MaxFieldLen - 4 >= NumberRoom /\ MaxText = MaxFieldLen - 1
  BY AmountAssumption DEF MaxText
<1>2. prefix = IF is_standard_currency_code(c) THEN TickerOf(c) \o <<" ">> ELSE << >>
  BY Zenon DEF CurrencyPrefix, has_non_standard_currency
<1>3. PICK S : prefix \in Seq(S) /\ Len(prefix) \in 0..4 /\ Chars \cup {"-"} \subseteq S
  <2>1. PICK b : b = " "
    OBVIOUS
  <2> DEFINE S == Range(c) \cup {b} \cup Chars \cup {"-"}
  <2>2. b \in S /\ Range(c) \subseteq S /\ Chars \cup {"-"} \subseteq S
    BY Zenon
  <2> HIDE DEF S
  <2>3. TickerOf(c) \in Seq(S) /\ Len(TickerOf(c)) <= 3
    <3>1. TickerOf(c) \in Seq(Range(c)) /\ Len(TickerOf(c)) = 3
      BY TickerIs
    <3> QED
      BY <2>2, <3>1, SeqMonotonic
  <2>4. <<b>> \in Seq(S) /\ Len(<<b>>) <= 1 /\ 3 \in Nat /\ 1 \in Nat
    BY <2>2
  <2>5. PICK h \in Seq(S) : h = TickerOf(c) \o <<b>> /\ Len(h) <= 3 + 1
    <3>1. TickerOf(c) \o <<b>> \in Seq(S) /\ Len(TickerOf(c) \o <<b>>) <= 3 + 1
      BY <2>3, <2>4, Joined
    <3> QED
      BY <3>1, Zenon
  <2>6. prefix \in {h, << >>}
    BY <1>2, <2>1, <2>5, Zenon
  <2>7. Len(h) \in 0..4 /\ << >> \in Seq(S) /\ Len(<< >>) \in 0..4
    BY <2>5
  <2> QED
    BY <2>2, <2>5, <2>6, <2>7, Zenon
<1>4. room \in Nat /\ room >= NumberRoom
  <2>1. PICK k \in 0..4 : k = Len(prefix)
    BY <1>3
  <2>2. MaxFieldLen - k \in Nat /\ MaxFieldLen - k >= NumberRoom
    BY <1>1
  <2> QED
    BY <2>1, <2>2
<1>5. number \in Seq(S)
  <2>1. number \in Seq(Chars \cup {"-"})
    <3> HIDE DEF room
    <3> QED
      BY <1>4, IssuedSays
  <2> HIDE DEF number
  <2> QED
    BY <1>3, <2>1, SeqMonotonic
<1>6. Len(number) + 1 <= NumberRoom
  <2> HIDE DEF room
  <2> QED
    BY <1>4, IssuedNumberFits
<1>7. format_issued(value, c) \in {InvalidAmount, prefix \o number}
  BY Zenon DEF format_issued
<1>8. format_issued(value, c) # << >>
  BY IssuedShown
<1> HIDE DEF prefix, number, room
<1>9. PICK k \in 0..4, l \in Nat : k = Len(prefix) /\ l = Len(number)
  BY <1>3, <1>5
<1>10. k \in Nat /\ Len(prefix) <= k /\ Len(number) <= l
  BY <1>9
<1>11. prefix \o number \in Seq(S) /\ Len(prefix \o number) <= k + l
  BY <1>3, <1>5, <1>9, <1>10, Joined
<1>12. PICK i \in Nat : i = Len(prefix \o number) /\ i <= k + l
  BY <1>11
<1>13. i <= MaxText
  <2>1. l + 1 <= NumberRoom
    BY <1>6, <1>9, Zenon
  <2>2. k \in Nat /\ k <= 4 /\ i <= k + l
    BY <1>12
  <2>3. i <= MaxFieldLen - 1
    BY <1>1, <2>1, <2>2
  <2> QED
    BY <1>1, <2>3
<1> QED
  BY <1>7, <1>8, <1>12, <1>13, OneFits, Zenon DEF Fits, InvalidAmount

\* A field as the parser leaves it has a text that fits, or none.
LEMMA FormattedFits ==
    ASSUME NEW f, IsField(f), NEW s \in BOOLEAN
    PROVE  Formatted(f, s) = << >> \/ Fits(Formatted(f, s))
<1> DEFINE shown == Formatted(f, s)
<1>0. f.data_type \in DataTypes
  BY Zenon DEF IsField
<1>1. CASE f.data_type = "AMOUNT"
  <2>1. \/ DOMAIN f = {"data_type", "drops"} /\ f.drops \in 0..(2 * AmountBit) - 1
        \/ /\ DOMAIN f = {"data_type", "currency", "value"}
           /\ IsBytes(f.currency) /\ Len(f.currency) = CurrencySize
           /\ is_valid_currency(f.currency) /\ ~is_all_zeros(f.currency)
           /\ f.value \in [sign : 0..1, exponent_bits : Nat, mantissa : Nat]
    BY <1>1 DEF IsField
  <2>2. CASE DOMAIN f = {"data_type", "drops"} /\ f.drops \in 0..(2 * AmountBit) - 1
    <3>1. shown = format_xrp(f.drops)
      BY <1>1, <2>2, FormatterOf, Zenon
    <3>2. Fits(format_xrp(f.drops))
      BY <2>2, DropsFit
    <3> QED
      BY <3>1, <3>2, Zenon
  <2>3. CASE /\ DOMAIN f = {"data_type", "currency", "value"}
             /\ IsBytes(f.currency) /\ Len(f.currency) = CurrencySize
             /\ is_valid_currency(f.currency) /\ ~is_all_zeros(f.currency)
             /\ f.value \in [sign : 0..1, exponent_bits : Nat, mantissa : Nat]
    <3>1. shown = format_issued(f.value, f.currency)
      BY <1>1, <2>3, FormatterOf, Zenon
    <3>2. PICK value, c :
              value \in IssuedValue /\ value = f.value /\ c = f.currency /\ IsCurrency(c) /\ is_valid_currency(c) /\ ~is_all_zeros(c)
      BY <2>3 DEF IssuedValue, IsCurrency
    <3>3. Fits(format_issued(value, c))
      BY <3>2, IssuedFits
    <3> QED
      BY <3>1, <3>2, <3>3, Zenon
  <2> QED
    BY <2>1, <2>2, <2>3, Zenon
<1>2. CASE f.data_type \in {"CURRENCY", "ISSUE"}
  <2>1. IsCurrency(f.currency) /\ shown = currency_formatter(f.currency)
    BY <1>2, FormatterOf DEF IsField, IsCurrency
  <2> QED
    BY <2>1, CurrencyFits
<1>3. CASE f.data_type = "ACCOUNT"
  <2>1. shown = account_formatter(f.account, s)
    BY <1>3, FormatterOf, Zenon
  <2>2. CASE f.account = << >>
    <3>1. account_formatter(f.account, s) = <<"[empty]">>
      BY <2>2, Zenon DEF account_formatter
    <3> QED
      BY <2>1, <3>1, OneFits, Zenon
  <2>3. CASE f.account # << >>
    <3>1. PICK account, checksum :
              /\ account = f.account /\ checksum = Checksum(<<0>> \o account)
              /\ account \in Seq(0..InBase - 1) /\ checksum \in Seq(0..InBase - 1)
              /\ Len(account) + Len(checksum) <= AddressSize
      BY <1>3, <2>3, AccountField, Zenon
    <3>2. Fits(account_formatter(account, s))
      BY <2>3, <3>1, AccountFits, Zenon
    <3> QED
      BY <2>1, <3>1, <3>2, Zenon
  <2> QED
    BY <2>2, <2>3
<1>4. CASE f.data_type = "VL"
  <2> DEFINE whole == IF f.textual /\ Range(f.bytes) \subseteq Printable THEN f.bytes ELSE read_hex(f.bytes)
  <2>1. IsBytes(f.bytes) /\ f.textual \in BOOLEAN /\ shown = blob_formatter(f.bytes, f.textual)
    BY <1>4, FormatterOf DEF IsField
  <2>2. WholeOrMarked(whole, shown)
    BY <2>1, BlobSays
  <2>3. \E S : whole \in Seq(S)
    <3>1. f.bytes \in Seq(Range(f.bytes)) /\ read_hex(f.bytes) \in Seq(Range(read_hex(f.bytes)))
      BY <2>1, HexIs DEF IsBytes
    <3> QED
      BY <3>1, Zenon
  <2>4. PICK S : whole \in Seq(S)
    BY <2>3
  <2> HIDE DEF whole, shown
  <2>5. CASE whole = << >>
    <3>1. Len(whole) <= MaxText
      BY <2>5, RoomIs
    <3> QED
      BY <2>2, <2>5, <3>1, Zenon DEF WholeOrMarked, shown
  <2>6. CASE whole # << >>
    <3>1. Fits(shown)
      BY <2>2, <2>4, <2>6, BlobFits
    <3> QED
      BY <3>1 DEF shown
  <2> QED
    BY <2>5, <2>6
<1>5. CASE f.data_type = "HASH"
  <2>1. IsBytes(f.bytes) /\ 2 * Len(f.bytes) <= MaxText /\ shown = read_hex(f.bytes)
    BY <1>5, FormatterOf DEF IsField
  <2>2. Len(read_hex(f.bytes)) = 2 * Len(f.bytes)
    BY <2>1, HexIs
  <2>3. Len(shown) <= MaxText
    BY <2>1, <2>2
  <2> QED
    BY <2>3, Zenon DEF Fits
<1>6. CASE f.data_type = "VECTOR256"
  <2>1. f.length \in Nat /\ f.length \div Vector256Size < Ten[MaxDigits] /\ shown = Unsigned(f.length \div Vector256Size)
    BY <1>6, FormatterOf DEF IsField
  <2>2. f.length \div Vector256Size \in Nat
    BY <2>1, RateAssumption, DivIs
  <2> QED
    BY <2>1, <2>2, UnsignedFits
<1>7. CASE f.data_type = "TRANSFER_RATE"
  <2>1. f.number \in Nat /\ f.number \div Denominator < Ten[MaxDigits] /\ shown = format_transfer_rate(f.number)
    BY <1>7, FormatterOf DEF IsField
  <2> QED
    BY <2>1, RatesFit
<1>8. CASE f.data_type = "QUALITY"
  <2>1. f.number \in Nat /\ f.number \div Denominator < Ten[MaxDigits] /\ shown = format_quality(f.number)
    BY <1>8, FormatterOf DEF IsField
  <2> QED
    BY <2>1, RatesFit
<1>9. CASE f.data_type = "NUMBER"
  <2>1. f.number \in 0..Ten[MaxDigits] - 1 /\ shown = Unsigned(f.number)
    BY <1>9, FormatterOf DEF IsField
  <2>2. Ten[MaxDigits] \in Nat
    BY PrintAssumption, TenIs
  <2>3. f.number \in Nat /\ f.number < Ten[MaxDigits]
    BY <2>1, <2>2
  <2> QED
    BY <2>1, <2>3, UnsignedFits
<1> QED
  BY <1>0, <1>1, <1>2, <1>3, <1>4, <1>5, <1>6, <1>7, <1>8, <1>9, Zenon DEF DataTypes

LEMMA TextsFit == SlotsHold => TypeOK
<1> SUFFICES ASSUME SlotsHold PROVE TypeOK
  OBVIOUS
<1>1. TextFits
  <2> SUFFICES ASSUME NEW index \in drawn PROVE Fits(Shown(index))
    BY Zenon DEF TextFits, Fits, Blank
  <2>1. PICK f : f = Field(index)
    OBVIOUS
  <2>2. IsField(f) /\ Shown(index) = format_field(f, segmented) /\ segmented \in BOOLEAN
    BY <2>1, ShownIs DEF SlotsHold
  <2>3. Formatted(f, segmented) = << >> \/ Fits(Formatted(f, segmented))
    BY <2>2, FormattedFits
  <2> QED
    BY <2>2, <2>3, OneFits, Zenon DEF format_field
<1> QED
  BY <1>1 DEF SlotsHold, TypeOK

-----------------------------------------------------------------------------
(* The theorems.                                                           *)

\* Whatever page is turned to and in whatever order its pairs are drawn, an amount on it reads
\* back as the one that is signed: the drops of XRP, the sign, the exponent and the mantissa
\* of an issued amount, of any size; and no amount that the ledger allows is called invalid.
THEOREM AmountsReadBack == Spec => []AmountReadsBack
<1>1. Spec => []SlotsHold
  BY SlotsInductive
<1>2. SlotsHold => AmountReadsBack
  BY Amounts
<1> QED
  BY <1>1, <1>2, PTL

\* A currency on a page is the ledger's own only if it is, and is shown by its own bytes.
THEOREM CurrenciesReadBack == Spec => []CurrencyReadsBack
<1>1. Spec => []SlotsHold
  BY SlotsInductive
<1>2. SlotsHold => CurrencyReadsBack
  BY CurrenciesShown
<1> QED
  BY <1>1, <1>2, PTL

\* A number, the length of a list, a fee and a rate on a page read back as what the field has,
\* with any number of digits and decimals.
THEOREM NumbersReadBack == Spec => []NumberReadsBack
<1>1. Spec => []SlotsHold
  BY SlotsInductive
<1>2. SlotsHold => NumberReadsBack
  BY Numbers
<1> QED
  BY <1>1, <1>2, PTL

\* A blob or a hash on a page is whole, or ends with dots: it is never cut in silence.
THEOREM TextsAreWholeOrMarked == Spec => []TextIsWholeOrMarked
<1>1. Spec => []SlotsHold
  BY SlotsInductive
<1>2. SlotsHold => TextIsWholeOrMarked
  BY Whole
<1> QED
  BY <1>1, <1>2, PTL

\* An address on a page, in one text or in three segments, is the base58 text of the account
\* and its checksum, whatever bytes they have: nothing is left out by the division that leaves
\* off early, and a text that is read back is the account that is signed.
THEOREM AddressesReadBack == Spec => []AddressReadsBack
<1>1. Spec => []SlotsHold
  BY SlotsInductive
<1>2. SlotsHold => AddressReadsBack
  BY Addresses
<1> QED
  BY <1>1, <1>2, PTL

\* No text of a page needs more than the buffer of its row, whatever exponent and mantissa an
\* amount has and however long a blob is, and none is empty.
THEOREM EveryTextFits == Spec => []TypeOK
<1>1. Spec => []SlotsHold
  BY SlotsInductive
<1>2. SlotsHold => TypeOK
  BY TextsFit
<1> QED
  BY <1>1, <1>2, PTL

===============================================================================
