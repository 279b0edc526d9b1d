----------------------------- MODULE XrpRowProofs -----------------------------
(***************************************************************************)
(* The proofs about the rows of flags and of times.  Flags are read back   *)
(* from their row, for values of any bits, and set-flag numbers that       *)
(* differ are shown by rows that differ (XrpFlags).  A time is shown as    *)
(* the date of the calendar, for every day of every year (XrpTime).        *)
(***************************************************************************)
EXTENDS XrpFlags, XrpTime, Induction

-----------------------------------------------------------------------------
(* The tables.                                                             *)

\* Flags of one type: no two have the same bit or the same label, no label is
\* the text `none`, and they are the flags that are known.
Table(flags, none, known) ==
    /\ Len(flags) \in Nat
    /\ \A k \in 1..Len(flags) :
           /\ flags[k].bit \in 0..30 /\ flags[k].bit \in known
           /\ flags[k].label # none
    /\ \A j, k \in 1..Len(flags) :
           j # k => flags[j].bit # flags[k].bit /\ flags[j].label # flags[k].label
    /\ \A bit \in known : \E k \in 1..Len(flags) : flags[k].bit = bit

\* The flags of ACCOUNT_SET.
LEMMA AccountSetTable ==
    Table(Labelled("ACCOUNT_SET"), "Unsupported value",
          KnownFlags("ACCOUNT_SET"))
<1> DEFINE l1 == "Require Dest Tag"
           l2 == "Optional Dest Tag"
           l3 == "Require Auth"
           l4 == "Optional Auth"
           l5 == "Disallow XRP"
           l6 == "Allow XRP"
           flags == Labelled("ACCOUNT_SET")
           none == "Unsupported value"
<1>1. flags =
          <<Flag(16, l1), Flag(17, l2), Flag(18, l3), Flag(19, l4), Flag(20, l5), Flag(21, l6)>>
  BY Zenon DEF Labelled
<1>2. KnownFlags("ACCOUNT_SET") = {16, 17, 18, 19, 20, 21}
  BY DEF KnownFlags, AmmKnownFlags
<1>3. /\ l1 \notin {none}
      /\ l2 \notin {none, l1}
      /\ l3 \notin {none, l1, l2}
      /\ l4 \notin {none, l1, l2, l3}
      /\ l5 \notin {none, l1, l2, l3, l4}
      /\ l6 \notin {none, l1, l2, l3, l4, l5}
  BY Zenon
<1> HIDE DEF flags, none, l1, l2, l3, l4, l5, l6
<1>4. /\ Len(flags) = 6
      /\ flags[1] = [bit |-> 16, label |-> l1]
      /\ flags[2] = [bit |-> 17, label |-> l2]
      /\ flags[3] = [bit |-> 18, label |-> l3]
      /\ flags[4] = [bit |-> 19, label |-> l4]
      /\ flags[5] = [bit |-> 20, label |-> l5]
      /\ flags[6] = [bit |-> 21, label |-> l6]
  BY <1>1 DEF Flag
<1>5. \A k \in 1..6 : k \in {1, 2, 3, 4, 5, 6}
  OBVIOUS
<1>6. Table(flags, none, {16, 17, 18, 19, 20, 21})
  BY <1>3, <1>4, <1>5 DEF Table
<1> QED
  BY <1>2, <1>6, Zenon DEF flags, none

\* The flags of OFFER_CREATE.
LEMMA OfferCreateTable ==
    Table(Labelled("OFFER_CREATE"), "Unsupported value",
          KnownFlags("OFFER_CREATE"))
<1> DEFINE l1 == "Passive"
           l2 == "Immediate or Cancel"
           l3 == "Fill or Kill"
           l4 == "Sell"
           flags == Labelled("OFFER_CREATE")
           none == "Unsupported value"
<1>1. flags =
          <<Flag(16, l1), Flag(17, l2), Flag(18, l3), Flag(19, l4)>>
  BY Zenon DEF Labelled
<1>2. KnownFlags("OFFER_CREATE") = {16, 17, 18, 19}
  BY DEF KnownFlags, AmmKnownFlags
<1>3. /\ l1 \notin {none}
      /\ l2 \notin {none, l1}
      /\ l3 \notin {none, l1, l2}
      /\ l4 \notin {none, l1, l2, l3}
  BY Zenon
<1> HIDE DEF flags, none, l1, l2, l3, l4
<1>4. /\ Len(flags) = 4
      /\ flags[1] = [bit |-> 16, label |-> l1]
      /\ flags[2] = [bit |-> 17, label |-> l2]
      /\ flags[3] = [bit |-> 18, label |-> l3]
      /\ flags[4] = [bit |-> 19, label |-> l4]
  BY <1>1 DEF Flag
<1>5. \A k \in 1..4 : k \in {1, 2, 3, 4}
  OBVIOUS
<1>6. Table(flags, none, {16, 17, 18, 19})
  BY <1>3, <1>4, <1>5 DEF Table
<1> QED
  BY <1>2, <1>6, Zenon DEF flags, none

\* The flags of PAYMENT.
LEMMA PaymentTable ==
    Table(Labelled("PAYMENT"), "Unsupported value",
          KnownFlags("PAYMENT"))
<1> DEFINE l1 == "No Direct Ripple"
           l2 == "Partial Payment"
           l3 == "Limit Quality"
           flags == Labelled("PAYMENT")
           none == "Unsupported value"
<1>1. flags =
          <<Flag(16, l1), Flag(17, l2), Flag(18, l3)>>
  BY Zenon DEF Labelled
<1>2. KnownFlags("PAYMENT") = {16, 17, 18}
  BY DEF KnownFlags, AmmKnownFlags
<1>3. /\ l1 \notin {none}
      /\ l2 \notin {none, l1}
      /\ l3 \notin {none, l1, l2}
  BY Zenon
<1> HIDE DEF flags, none, l1, l2, l3
<1>4. /\ Len(flags) = 3
      /\ flags[1] = [bit |-> 16, label |-> l1]
      /\ flags[2] = [bit |-> 17, label |-> l2]
      /\ flags[3] = [bit |-> 18, label |-> l3]
  BY <1>1 DEF Flag
<1>5. \A k \in 1..3 : k \in {1, 2, 3}
  OBVIOUS
<1>6. Table(flags, none, {16, 17, 18})
  BY <1>3, <1>4, <1>5 DEF Table
<1> QED
  BY <1>2, <1>6, Zenon DEF flags, none

\* The flags of TRUST_SET.
LEMMA TrustSetTable ==
    Table(Labelled("TRUST_SET"), "Unsupported value",
          KnownFlags("TRUST_SET"))
<1> DEFINE l1 == "Set Auth"
           l2 == "Set No Ripple"
           l3 == "Clear No Ripple"
           l4 == "Set Freeze"
           l5 == "Clear Freeze"
           flags == Labelled("TRUST_SET")
           none == "Unsupported value"
<1>1. flags =
          <<Flag(16, l1), Flag(17, l2), Flag(18, l3), Flag(20, l4), Flag(21, l5)>>
  BY Zenon DEF Labelled
<1>2. KnownFlags("TRUST_SET") = {16, 17, 18, 20, 21}
  BY DEF KnownFlags, AmmKnownFlags
<1>3. /\ l1 \notin {none}
      /\ l2 \notin {none, l1}
      /\ l3 \notin {none, l1, l2}
      /\ l4 \notin {none, l1, l2, l3}
      /\ l5 \notin {none, l1, l2, l3, l4}
  BY Zenon
<1> HIDE DEF flags, none, l1, l2, l3, l4, l5
<1>4. /\ Len(flags) = 5
      /\ flags[1] = [bit |-> 16, label |-> l1]
      /\ flags[2] = [bit |-> 17, label |-> l2]
      /\ flags[3] = [bit |-> 18, label |-> l3]
      /\ flags[4] = [bit |-> 20, label |-> l4]
      /\ flags[5] = [bit |-> 21, label |-> l5]
  BY <1>1 DEF Flag
<1>5. \A k \in 1..5 : k \in {1, 2, 3, 4, 5}
  OBVIOUS
<1>6. Table(flags, none, {16, 17, 18, 20, 21})
  BY <1>3, <1>4, <1>5 DEF Table
<1> QED
  BY <1>2, <1>6, Zenon DEF flags, none

\* The flags of PAYMENT_CHANNEL_CLAIM.
LEMMA PaymentChannelClaimTable ==
    Table(Labelled("PAYMENT_CHANNEL_CLAIM"), "Unsupported value",
          KnownFlags("PAYMENT_CHANNEL_CLAIM"))
<1> DEFINE l1 == "Renew"
           l2 == "Close"
           flags == Labelled("PAYMENT_CHANNEL_CLAIM")
           none == "Unsupported value"
<1>1. flags =
          <<Flag(16, l1), Flag(17, l2)>>
  BY Zenon DEF Labelled
<1>2. KnownFlags("PAYMENT_CHANNEL_CLAIM") = {16, 17}
  BY DEF KnownFlags, AmmKnownFlags
<1>3. /\ l1 \notin {none}
      /\ l2 \notin {none, l1}
  BY Zenon
<1> HIDE DEF flags, none, l1, l2
<1>4. /\ Len(flags) = 2
      /\ flags[1] = [bit |-> 16, label |-> l1]
      /\ flags[2] = [bit |-> 17, label |-> l2]
  BY <1>1 DEF Flag
<1>5. \A k \in 1..2 : k \in {1, 2}
  OBVIOUS
<1>6. Table(flags, none, {16, 17})
  BY <1>3, <1>4, <1>5 DEF Table
<1> QED
  BY <1>2, <1>6, Zenon DEF flags, none

\* The flags of NFTOKEN_MINT.
LEMMA NftokenMintTable ==
    Table(Labelled("NFTOKEN_MINT"), "Unsupported value",
          KnownFlags("NFTOKEN_MINT"))
<1> DEFINE l1 == "Burnable"
           l2 == "Only XRP"
           l3 == "Transferable"
           l4 == "Mutable"
           flags == Labelled("NFTOKEN_MINT")
           none == "Unsupported value"
<1>1. flags =
          <<Flag(0, l1), Flag(1, l2), Flag(3, l3), Flag(4, l4)>>
  BY Zenon DEF Labelled
<1>2. KnownFlags("NFTOKEN_MINT") = {0, 1, 3, 4}
  BY DEF KnownFlags, AmmKnownFlags
<1>3. /\ l1 \notin {none}
      /\ l2 \notin {none, l1}
      /\ l3 \notin {none, l1, l2}
      /\ l4 \notin {none, l1, l2, l3}
  BY Zenon
<1> HIDE DEF flags, none, l1, l2, l3, l4
<1>4. /\ Len(flags) = 4
      /\ flags[1] = [bit |-> 0, label |-> l1]
      /\ flags[2] = [bit |-> 1, label |-> l2]
      /\ flags[3] = [bit |-> 3, label |-> l3]
      /\ flags[4] = [bit |-> 4, label |-> l4]
  BY <1>1 DEF Flag
<1>5. \A k \in 1..4 : k \in {1, 2, 3, 4}
  OBVIOUS
<1>6. Table(flags, none, {0, 1, 3, 4})
  BY <1>3, <1>4, <1>5 DEF Table
<1> QED
  BY <1>2, <1>6, Zenon DEF flags, none

\* The flags of NFTOKEN_CREATE_OFFER.
LEMMA NftokenCreateOfferTable ==
    Table(Labelled("NFTOKEN_CREATE_OFFER"), "Unsupported value",
          KnownFlags("NFTOKEN_CREATE_OFFER"))
<1> DEFINE l1 == "Sell"
           flags == Labelled("NFTOKEN_CREATE_OFFER")
           none == "Unsupported value"
<1>1. flags =
          <<Flag(0, l1)>>
  BY Zenon DEF Labelled
<1>2. KnownFlags("NFTOKEN_CREATE_OFFER") = {0}
  BY DEF KnownFlags, AmmKnownFlags
<1>3. /\ l1 \notin {none}
  BY Zenon
<1> HIDE DEF flags, none, l1
<1>4. /\ Len(flags) = 1
      /\ flags[1] = [bit |-> 0, label |-> l1]
  BY <1>1 DEF Flag
<1>5. \A k \in 1..1 : k \in {1}
  OBVIOUS
<1>6. Table(flags, none, {0})
  BY <1>3, <1>4, <1>5 DEF Table
<1> QED
  BY <1>2, <1>6, Zenon DEF flags, none

\* The flags of AMM_DEPOSIT.
LEMMA AmmDepositTable ==
    Table(Labelled("AMM_DEPOSIT"), "Unsupported value",
          KnownFlags("AMM_DEPOSIT"))
<1> DEFINE l1 == "LP Token"
           l2 == "Single Asset"
           l3 == "Two Asset"
           l4 == "One Asset LP Token"
           l5 == "Limit LP Token"
           l6 == "Two Asset If Empty"
           flags == Labelled("AMM_DEPOSIT")
           none == "Unsupported value"
<1>1. flags =
          <<Flag(16, l1), Flag(19, l2), Flag(20, l3), Flag(21, l4), Flag(22, l5), Flag(23, l6)>>
  BY Zenon DEF Labelled
<1>2. KnownFlags("AMM_DEPOSIT") = {16, 19, 20, 21, 22, 23}
  BY DEF KnownFlags, AmmKnownFlags
<1>3. /\ l1 \notin {none}
      /\ l2 \notin {none, l1}
      /\ l3 \notin {none, l1, l2}
      /\ l4 \notin {none, l1, l2, l3}
      /\ l5 \notin {none, l1, l2, l3, l4}
      /\ l6 \notin {none, l1, l2, l3, l4, l5}
  BY Zenon
<1> HIDE DEF flags, none, l1, l2, l3, l4, l5, l6
<1>4. /\ Len(flags) = 6
      /\ flags[1] = [bit |-> 16, label |-> l1]
      /\ flags[2] = [bit |-> 19, label |-> l2]
      /\ flags[3] = [bit |-> 20, label |-> l3]
      /\ flags[4] = [bit |-> 21, label |-> l4]
      /\ flags[5] = [bit |-> 22, label |-> l5]
      /\ flags[6] = [bit |-> 23, label |-> l6]
  BY <1>1 DEF Flag
<1>5. \A k \in 1..6 : k \in {1, 2, 3, 4, 5, 6}
  OBVIOUS
<1>6. Table(flags, none, {16, 19, 20, 21, 22, 23})
  BY <1>3, <1>4, <1>5 DEF Table
<1> QED
  BY <1>2, <1>6, Zenon DEF flags, none

\* The flags of AMM_WITHDRAW.
LEMMA AmmWithdrawTable ==
    Table(Labelled("AMM_WITHDRAW"), "Unsupported value",
          KnownFlags("AMM_WITHDRAW"))
<1> DEFINE l1 == "LP Token"
           l2 == "Single Asset"
           l3 == "Two Asset"
           l4 == "One Asset LP Token"
           l5 == "Limit LP Token"
           l6 == "Withdraw All"
           l7 == "One Asset Withdraw All"
           flags == Labelled("AMM_WITHDRAW")
           none == "Unsupported value"
<1>1. flags =
          <<Flag(16, l1), Flag(19, l2), Flag(20, l3), Flag(21, l4), Flag(22, l5), Flag(17, l6),
          Flag(18, l7)>>
  BY Zenon DEF Labelled
<1>2. KnownFlags("AMM_WITHDRAW") = {16, 19, 20, 21, 22, 17, 18}
  BY DEF KnownFlags, AmmKnownFlags
<1>3. /\ l1 \notin {none}
      /\ l2 \notin {none, l1}
      /\ l3 \notin {none, l1, l2}
      /\ l4 \notin {none, l1, l2, l3}
      /\ l5 \notin {none, l1, l2, l3, l4}
      /\ l6 \notin {none, l1, l2, l3, l4, l5}
      /\ l7 \notin {none, l1, l2, l3, l4, l5, l6}
  BY Zenon
<1> HIDE DEF flags, none, l1, l2, l3, l4, l5, l6, l7
<1>4. /\ Len(flags) = 7
      /\ flags[1] = [bit |-> 16, label |-> l1]
      /\ flags[2] = [bit |-> 19, label |-> l2]
      /\ flags[3] = [bit |-> 20, label |-> l3]
      /\ flags[4] = [bit |-> 21, label |-> l4]
      /\ flags[5] = [bit |-> 22, label |-> l5]
      /\ flags[6] = [bit |-> 17, label |-> l6]
      /\ flags[7] = [bit |-> 18, label |-> l7]
  BY <1>1 DEF Flag
<1>5. \A k \in 1..7 : k \in {1, 2, 3, 4, 5, 6, 7}
  OBVIOUS
<1>6. Table(flags, none, {16, 19, 20, 21, 22, 17, 18})
  BY <1>3, <1>4, <1>5 DEF Table
<1> QED
  BY <1>2, <1>6, Zenon DEF flags, none

-----------------------------------------------------------------------------
(* The text of a formatter: the labels of the flags that are set.          *)

NoLabel == "Unsupported value"

Labels(type) == [k \in 1..Len(Labelled(type)) |-> Labelled(type)[k].label]

Held(type, value) == {k \in 1..Len(Labelled(type)) : Labelled(type)[k].bit \in value}

\* A type with a formatter has one of the nine tables.
LEMMA TableIs ==
    ASSUME NEW type, HasFormatter(type)
    PROVE  type \in FlagTypes /\ Table(Labelled(type), NoLabel, KnownFlags(type))
<1>1. type \in FlagTypes
  <2>1. type \notin FlagTypes => Labelled(type) = << >>
    BY Zenon DEF Labelled, FlagTypes
  <2> QED
    BY <2>1, Zenon DEF HasFormatter
<1>2. \A t \in FlagTypes : Table(Labelled(t), NoLabel, KnownFlags(t))
  BY AccountSetTable, OfferCreateTable, PaymentTable, TrustSetTable, PaymentChannelClaimTable,
     NftokenMintTable, NftokenCreateOfferTable, AmmDepositTable, AmmWithdrawTable, Zenon
     DEF FlagTypes, NoLabel
<1> QED
  BY <1>1, <1>2

\* Where the next item starts in a row of this length.
Start(o) == IF o = 0 THEN 0 ELSE o + 2

Appends(t, o, label, l) ==
    append_item([text |-> t, offset |-> o], label)
        = [text |-> Append(t, label), offset |-> Start(o) + l]

\* An item that fits is appended.
LEMMA AppendFits ==
    ASSUME NEW t, NEW o \in Nat, NEW label, NEW l \in Nat, l = Len(label),
           Start(o) + l < MaxFieldLen
    PROVE  Appends(t, o, label, l)
<1> DEFINE out == [text |-> t, offset |-> o]
           error == [text |-> <<"[ERROR: FAILED TO APPEND ITEM]">>, offset |-> MaxFieldLen]
           start == IF out.offset = 0 THEN 0 ELSE out.offset + 2
<1>1. append_item(out, label) =
          IF \/ out.offset # 0 /\ MaxFieldLen - out.offset < 3
             \/ Len(label) >= MaxFieldLen - start
          THEN error ELSE [text |-> Append(out.text, label), offset |-> start + Len(label)]
  BY Zenon DEF append_item
<1> HIDE DEF error
<1>2. out.text = t /\ out.offset = o
  OBVIOUS
<1>3. MaxFieldLen \in Nat
  BY FlagsAssumption
<1> HIDE DEF out
<1>4. start = Start(o)
  BY <1>2 DEF Start
<1>5. ~(out.offset # 0 /\ MaxFieldLen - out.offset < 3) /\ ~(Len(label) >= MaxFieldLen - start)
  BY <1>2, <1>3, <1>4 DEF Start
<1> HIDE DEF start
<1>6. append_item(out, label) = [text |-> Append(t, label), offset |-> start + l]
  BY <1>1, <1>2, <1>4, <1>5, Zenon
<1> QED
  BY <1>4, <1>6, Zenon DEF out, Appends

\* The lengths of the labels up to each, with their separators.
RowUpTo(row, n, lens) == row[0] = 0 /\ \A k \in 1..n : row[k] = row[k - 1] + lens[k] + 2

\* How long the row is once it has come to each flag, when those in K are held.
OffsetUpTo(off, n, lens, K) ==
    /\ off[0] = 0
    /\ \A k \in 1..n :
           off[k] = IF k \in K THEN Start(off[k - 1]) + lens[k]
                    ELSE off[k - 1]

LEMMA RowLengthIs ==
    ASSUME NEW flags, NEW n \in Nat, n = Len(flags), NEW lens \in [1..n -> Nat],
           \A k \in 1..n : lens[k] = Len(flags[k].label)
    PROVE  \E row \in [0..n -> Nat] : RowUpTo(row, n, lens) /\ row[n] = RowLength(flags)
<1> DEFINE step == [x \in Nat \X (1..n) |-> x[1] + lens[x[2]] + 2]
           Value(h, k) == IF k = 0 THEN 0 ELSE h[k - 1] + Len(flags[k].label) + 2
           Def(h) == h = [k \in 0..n |-> Value(h, k)]
           g == CHOOSE h : Def(h)
<1>1. step \in [Nat \X (1..n) -> Nat]
  OBVIOUS
<1>2. PICK f \in [0..n -> Nat] : Follows(f, 0, step, n)
  <2> HIDE DEF step
  <2>1. \E f \in [0..n -> Nat] : Follows(f, 0, step, n)
    BY <1>1, RecursionExists
  <2> QED
    BY <2>1, Zenon
<1>3. f[0] = 0
  BY <1>2 DEF Follows
<1>4. ASSUME NEW k \in 1..n PROVE f[k] = f[k - 1] + lens[k] + 2
  <2>1. k - 1 \in 0..n
    OBVIOUS
  <2>2. <<f[k - 1], k>> \in Nat \X (1..n)
    BY <2>1
  <2>3. f[k] = step[<<f[k - 1], k>>]
    BY <1>2 DEF Follows
  <2> QED
    BY <2>2, <2>3
<1>5. \A k \in 0..n : f[k] = Value(f, k)
  <2> SUFFICES ASSUME NEW k \in 0..n PROVE f[k] = Value(f, k)
    OBVIOUS
  <2>1. CASE k = 0
    BY <1>3, <2>1
  <2>2. CASE k # 0
    <3>1. k \in 1..n
      BY <2>2
    <3> QED
      BY <1>4, <2>2, <3>1
  <2> QED
    BY <2>1, <2>2
<1>6. Def(f)
  <2> HIDE DEF Value
  <2> QED
    BY <1>2, <1>5
<1>7. Def(g)
  <2> HIDE DEF Def
  <2> QED
    BY <1>6
<1>8. RowLength(flags) = g[n]
  BY Zenon DEF RowLength
<1>9. \A k \in 0..n : g[k] = Value(g, k)
  <2> HIDE DEF Value, g
  <2> QED
    BY <1>7
<1> HIDE DEF g, step
<1>10. 0..n \subseteq {k \in 0..n : g[k] = f[k]}
  <2> DEFINE T == {k \in 0..n : g[k] = f[k]}
  <2>1. 0 \in T
    BY <1>3, <1>9
  <2>2. ASSUME NEW k \in 0..n, k \in T, k < n PROVE k + 1 \in T
    <3>1. k + 1 \in 1..n /\ k + 1 \in 0..n /\ (k + 1) - 1 = k /\ k + 1 # 0
      BY <2>2
    <3>2. g[k + 1] = g[k] + Len(flags[k + 1].label) + 2
      BY <1>9, <3>1
    <3>3. f[k + 1] = f[k] + Len(flags[k + 1].label) + 2
      BY <1>5, <3>1
    <3> QED
      BY <2>2, <3>1, <3>2, <3>3
  <2> HIDE DEF T
  <2>3. 0..n \subseteq T
    BY <2>1, <2>2, UpTo
  <2> QED
    BY <2>3 DEF T
<1>11. f[n] = RowLength(flags)
  BY <1>8, <1>10
<1> QED
  BY <1>2, <1>3, <1>4, <1>11 DEF RowUpTo

LEMMA OffsetsExist ==
    ASSUME NEW n \in Nat, NEW lens \in [1..n -> Nat], NEW K
    PROVE  \E off \in [0..n -> Nat] : OffsetUpTo(off, n, lens, K)
<1> DEFINE step == [x \in Nat \X (1..n) |->
                        IF x[2] \in K THEN Start(x[1]) + lens[x[2]] ELSE x[1]]
<1>1. step \in [Nat \X (1..n) -> Nat]
  BY DEF Start
<1>2. PICK f \in [0..n -> Nat] : Follows(f, 0, step, n)
  <2> HIDE DEF step
  <2>1. \E f \in [0..n -> Nat] : Follows(f, 0, step, n)
    BY <1>1, RecursionExists
  <2> QED
    BY <2>1, Zenon
<1>3. f[0] = 0
  BY <1>2 DEF Follows
<1>4. ASSUME NEW k \in 1..n
      PROVE  f[k] = IF k \in K THEN Start(f[k - 1]) + lens[k] ELSE f[k - 1]
  <2>1. k - 1 \in 0..n
    OBVIOUS
  <2>2. <<f[k - 1], k>> \in Nat \X (1..n)
    BY <2>1
  <2>3. f[k] = step[<<f[k - 1], k>>]
    BY <1>2 DEF Follows
  <2> QED
    BY <2>2, <2>3
<1> QED
  BY <1>2, <1>3, <1>4 DEF OffsetUpTo

\* The labels fit the row one after the other, whichever are left out.
LEMMA OffsetsFit ==
    ASSUME NEW n \in Nat, NEW lens \in [1..n -> Nat], NEW K, NEW row \in [0..n -> Nat],
           NEW off \in [0..n -> Nat], RowUpTo(row, n, lens), OffsetUpTo(off, n, lens, K),
           row[n] - 2 < MaxFieldLen
    PROVE  \A k \in 1..n : Start(off[k - 1]) + lens[k] < MaxFieldLen
<1> DEFINE T == {k \in 0..n : off[k] = 0 \/ off[k] + 2 <= row[k]}
           U == {k \in 0..n : row[n - k] <= row[n]}
<1>1. 0 \in T
  BY DEF RowUpTo, OffsetUpTo
<1>2. ASSUME NEW k \in 0..n, k \in T, k < n PROVE k + 1 \in T
  <2>1. k + 1 \in 1..n /\ k + 1 \in 0..n /\ (k + 1) - 1 = k
    BY <1>2
  <2>2. row[k + 1] = row[k] + lens[k + 1] + 2
    BY <2>1 DEF RowUpTo
  <2>3. off[k + 1] = IF k + 1 \in K THEN Start(off[k]) + lens[k + 1] ELSE off[k]
    BY <2>1 DEF OffsetUpTo
  <2>4. PICK r \in Nat, o \in Nat, l \in Nat, r1 \in Nat, o1 \in Nat :
            r = row[k] /\ o = off[k] /\ l = lens[k + 1] /\ r1 = row[k + 1] /\ o1 = off[k + 1]
    BY <2>1
  <2>5. o = 0 \/ o + 2 <= r
    BY <1>2, <2>4
  <2>6. r1 = r + l + 2 /\ (o1 = Start(o) + l \/ o1 = o)
    BY <2>2, <2>3, <2>4
  <2>7. o1 = 0 \/ o1 + 2 <= r1
    BY <2>5, <2>6 DEF Start
  <2> QED
    BY <2>1, <2>4, <2>7
<1>3. 0..n \subseteq T
  <2> HIDE DEF T
  <2> QED
    BY <1>1, <1>2, UpTo
<1>4. 0 \in U
  OBVIOUS
<1>5. ASSUME NEW k \in 0..n, k \in U, k < n PROVE k + 1 \in U
  <2>1. n - k \in 1..n /\ n - k \in 0..n /\ n - (k + 1) \in 0..n /\ (n - k) - 1 = n - (k + 1)
        /\ k + 1 \in 0..n
    BY <1>5
  <2>2. row[n - k] = row[n - (k + 1)] + lens[n - k] + 2
    BY <2>1 DEF RowUpTo
  <2>3. row[n - k] \in Nat /\ row[n - (k + 1)] \in Nat /\ lens[n - k] \in Nat /\ row[n] \in Nat
    BY <2>1
  <2> QED
    BY <1>5, <2>1, <2>2, <2>3
<1>6. 0..n \subseteq U
  <2> HIDE DEF U
  <2> QED
    BY <1>4, <1>5, UpTo
<1> SUFFICES ASSUME NEW k \in 1..n
             PROVE  Start(off[k - 1]) + lens[k] < MaxFieldLen
  OBVIOUS
<1>7. k \in 0..n /\ k - 1 \in 0..n /\ n - k \in 0..n /\ n - (n - k) = k
  OBVIOUS
<1>8. row[k] <= row[n]
  BY <1>6, <1>7
<1>9. off[k - 1] = 0 \/ off[k - 1] + 2 <= row[k - 1]
  BY <1>3, <1>7
<1>10. row[k] = row[k - 1] + lens[k] + 2
  BY DEF RowUpTo
<1>11. PICK r \in Nat, o \in Nat, l \in Nat, all \in Nat :
           r = row[k - 1] /\ o = off[k - 1] /\ l = lens[k] /\ all = row[n]
  BY <1>7
<1>12. MaxFieldLen \in Nat
  BY FlagsAssumption
<1>13. (o = 0 \/ o + 2 <= r) /\ r + l + 2 <= all /\ all - 2 < MaxFieldLen
  BY <1>8, <1>9, <1>10, <1>11
<1>14. Start(o) + l < MaxFieldLen
  BY <1>12, <1>13 DEF Start
<1> QED
  BY <1>11, <1>14, Zenon

\* What a formatter writes are the labels of the flags that are set, in the order of its table.
LEMMA WrittenIs ==
    ASSUME NEW type, HasFormatter(type), NEW value
    PROVE  Written(type, value) = AtPositions(Labels(type), Held(type, value))
<1> DEFINE flags == Labelled(type)
           n == Len(flags)
           K == Held(type, value)
           labels == Labels(type)
           S == {labels[k] : k \in 1..n}
           lens == [k \in 1..n |-> Len(flags[k].label)]
           Value(h, k) == IF k = 0 THEN Blank
                          ELSE IF flags[k].bit \in value THEN append_item(h[k - 1], flags[k].label)
                          ELSE h[k - 1]
           Def(h) == h = [k \in 0..n |-> Value(h, k)]
           after == CHOOSE h : Def(h)
<1>1. n \in Nat /\ type \in FlagTypes
  BY TableIs DEF Table
<1>2. (\A k \in 1..n : Len(flags[k].label) \in Nat) /\ RowLength(flags) - 2 < MaxFieldLen
  BY <1>1, LabelAssumption, Zenon
<1>3. Written(type, value) = after[n].text
  BY Zenon DEF Written
<1>4. K \in SUBSET (1..n) /\ \A k \in 1..n : k \in K <=> flags[k].bit \in value
  BY DEF Held
<1>5. labels = [k \in 1..n |-> flags[k].label] /\ \A k \in 1..n : labels[k] = flags[k].label
  BY DEF Labels
<1> HIDE DEF n, flags, labels, K, after
<1>6. labels \in Seq(S) /\ Len(labels) = n
  BY <1>1, <1>5
<1> HIDE DEF S
<1>7. lens \in [1..n -> Nat] /\ \A k \in 1..n : lens[k] = Len(flags[k].label)
  BY <1>2
<1> HIDE DEF lens
<1>8. PICK upTo \in [0..n -> Seq(S)] : Gathers(upTo, labels, K) /\ AtPositions(labels, K) = upTo[n]
  <2>1. \E upTo \in [0..Len(labels) -> Seq(S)] :
            Gathers(upTo, labels, K) /\ AtPositions(labels, K) = upTo[Len(labels)]
    BY <1>6, AtPositionsFollows
  <2> QED
    BY <1>6, <2>1, Zenon
<1>9. PICK row \in [0..n -> Nat] : RowUpTo(row, n, lens) /\ row[n] = RowLength(flags)
  <2>1. n = Len(flags)
    BY Zenon DEF n
  <2>2. \E row \in [0..n -> Nat] : RowUpTo(row, n, lens) /\ row[n] = RowLength(flags)
    BY <1>1, <1>7, <2>1, RowLengthIs, Zenon
  <2> QED
    BY <2>2, Zenon
<1>10. PICK off \in [0..n -> Nat] : OffsetUpTo(off, n, lens, K)
  <2>1. \E off \in [0..n -> Nat] : OffsetUpTo(off, n, lens, K)
    BY <1>1, <1>7, OffsetsExist, Zenon
  <2> QED
    BY <2>1, Zenon
<1>11. \A k \in 1..n : Start(off[k - 1]) + lens[k] < MaxFieldLen
  <2>1. row[n] - 2 < MaxFieldLen
    BY <1>2, <1>9, Zenon
  <2> QED
    BY <1>1, <1>7, <1>9, <1>10, <2>1, OffsetsFit, Zenon
<1> DEFINE g == [k \in 0..n |-> [text |-> upTo[k], offset |-> off[k]]]
<1>12. \A k \in 1..n : g[k] = IF flags[k].bit \in value
                              THEN append_item(g[k - 1], flags[k].label) ELSE g[k - 1]
  <2> SUFFICES ASSUME NEW k \in 1..n
               PROVE  g[k] = IF flags[k].bit \in value THEN append_item(g[k - 1], flags[k].label)
                             ELSE g[k - 1]
    OBVIOUS
  <2>1. k - 1 \in 0..n /\ k \in 0..n
    BY <1>1
  <2>2. /\ g[k] = [text |-> upTo[k], offset |-> off[k]]
        /\ g[k - 1] = [text |-> upTo[k - 1], offset |-> off[k - 1]]
    BY <2>1
  <2>3. upTo[k] = IF k \in K THEN Append(upTo[k - 1], labels[k]) ELSE upTo[k - 1]
    BY <1>6, <1>8 DEF Gathers
  <2>4. off[k] = IF k \in K THEN Start(off[k - 1]) + lens[k]
                 ELSE off[k - 1]
    BY <1>10 DEF OffsetUpTo
  <2> HIDE DEF g
  <2>5. CASE k \in K
    <3>1. PICK o \in Nat, l \in Nat : o = off[k - 1] /\ l = lens[k] /\ l = Len(flags[k].label)
      BY <1>7, <1>10, <2>1
    <3>2. PICK t, label : t = upTo[k - 1] /\ label = flags[k].label
      OBVIOUS
    <3>3. Start(o) + l < MaxFieldLen
      BY <1>11, <3>1, Zenon
    <3>4. Appends(t, o, label, l)
      BY <3>1, <3>2, <3>3, AppendFits
    <3>5. append_item([text |-> upTo[k - 1], offset |-> off[k - 1]], flags[k].label)
              = [text |-> Append(upTo[k - 1], flags[k].label),
                 offset |-> Start(off[k - 1]) + lens[k]]
      BY <3>1, <3>2, <3>4, Zenon DEF Appends
    <3>6. off[k] = Start(off[k - 1]) + lens[k]
      BY <2>4, <2>5
    <3>7. upTo[k] = Append(upTo[k - 1], flags[k].label)
      BY <1>5, <2>3, <2>5
    <3> QED
      BY <1>4, <2>2, <2>5, <3>5, <3>6, <3>7, Zenon
  <2>6. CASE k \notin K
    <3>1. off[k] = off[k - 1] /\ upTo[k] = upTo[k - 1]
      BY <2>3, <2>4, <2>6
    <3> QED
      BY <1>4, <2>2, <2>6, <3>1, Zenon
  <2> QED
    BY <2>5, <2>6
<1>13. g[0] = Blank
  <2>1. 0 \in 0..n /\ upTo[0] = << >> /\ off[0] = 0
    BY <1>1, <1>8, <1>10 DEF Gathers, OffsetUpTo
  <2> QED
    BY <2>1 DEF Blank
<1>14. Def(g)
  <2> HIDE DEF Value
  <2>1. g = [k \in 0..n |-> g[k]]
    OBVIOUS
  <2> HIDE DEF g
  <2>2. \A k \in 0..n : g[k] = Value(g, k)
    <3> SUFFICES ASSUME NEW k \in 0..n PROVE g[k] = Value(g, k)
      OBVIOUS
    <3>1. CASE k = 0
      BY <1>13, <3>1, Zenon DEF Value
    <3>2. CASE k # 0
      <4>1. k \in 1..n
        BY <1>1, <3>2
      <4> QED
        BY <1>12, <3>2, <4>1, Zenon DEF Value
    <3> QED
      BY <3>1, <3>2
  <2>3. [k \in 0..n |-> g[k]] = [k \in 0..n |-> Value(g, k)]
    BY <2>2
  <2> QED
    BY <2>1, <2>3
<1>15. Def(after)
  <2> HIDE DEF Def, g
  <2> USE DEF after
  <2> QED
    BY <1>14
<1>16. \A k \in 0..n : after[k] = Value(after, k)
  <2> HIDE DEF Value
  <2> QED
    BY <1>15
<1> HIDE DEF g
<1>17. 0..n \subseteq {k \in 0..n : after[k] = g[k]}
  <2> DEFINE T == {k \in 0..n : after[k] = g[k]}
  <2>1. 0 \in T
    <3>1. 0 \in 0..n
      BY <1>1
    <3>2. after[0] = Blank
      BY <1>16, <3>1, Zenon
    <3> QED
      BY <1>13, <3>1, <3>2, Zenon
  <2>2. ASSUME NEW k \in 0..n, k \in T, k < n PROVE k + 1 \in T
    <3>1. k + 1 \in 1..n /\ k + 1 \in 0..n /\ (k + 1) - 1 = k /\ k + 1 # 0
      BY <1>1, <2>2
    <3>2. after[k + 1] = IF flags[k + 1].bit \in value
                         THEN append_item(after[(k + 1) - 1], flags[k + 1].label)
                         ELSE after[(k + 1) - 1]
      BY <1>16, <3>1, Zenon
    <3>3. g[k + 1] = IF flags[k + 1].bit \in value
                     THEN append_item(g[(k + 1) - 1], flags[k + 1].label)
                     ELSE g[(k + 1) - 1]
      BY <1>12, <3>1, Zenon
    <3>4. after[k] = g[k]
      BY <2>2, Zenon
    <3>5. after[k + 1] = g[k + 1]
      BY <3>1, <3>2, <3>3, <3>4, Zenon
    <3> QED
      BY <3>1, <3>5, Zenon
  <2> HIDE DEF T
  <2>3. 0..n \subseteq T
    BY <1>1, <2>1, <2>2, UpTo
  <2> QED
    BY <2>3 DEF T
<1>18. after[n] = g[n] /\ g[n] = [text |-> upTo[n], offset |-> off[n]]
  <2>1. n \in 0..n
    BY <1>1
  <2> QED
    BY <1>17, <2>1 DEF g
<1>19. g[n].text = upTo[n]
  BY <1>18
<1>20. Written(type, value) = upTo[n]
  BY <1>3, <1>18, <1>19, Zenon
<1> QED
  BY <1>8, <1>20, Zenon DEF labels, K

\* The text of one flag is its label, or that of no flags.
LEMMA TextOfOne ==
    ASSUME NEW type, HasFormatter(type), NEW bit
    PROVE  /\ \A j \in 1..Len(Labelled(type)) :
                  Labelled(type)[j].bit = bit => BitsText(type, {bit}) = <<Labels(type)[j]>>
           /\ (\A j \in 1..Len(Labelled(type)) : Labelled(type)[j].bit # bit)
                  => BitsText(type, {bit}) = <<NoLabel>>
<1> DEFINE flags == Labelled(type)
           n == Len(flags)
           K == Held(type, {bit})
           labels == Labels(type)
           S == {labels[k] : k \in 1..n}
           r == AtPositions(labels, K)
<1>1. Table(flags, NoLabel, KnownFlags(type)) /\ n \in Nat
  <2>1. Table(flags, NoLabel, KnownFlags(type))
    BY TableIs, Zenon
  <2> QED
    BY <2>1 DEF Table
<1>2. BitsText(type, {bit}) = IF r = << >> THEN <<NoLabel>> ELSE r
  BY WrittenIs, Zenon DEF BitsText, OrUnsupported, NoLabel
<1>3. K \in SUBSET (1..n) /\ \A k \in 1..n : k \in K <=> flags[k].bit = bit
  BY DEF Held
<1>4. labels = [k \in 1..n |-> flags[k].label]
  BY DEF Labels
<1> HIDE DEF n, flags, labels, K
<1>5. labels \in Seq(S) /\ Len(labels) = n
  BY <1>1, <1>4
<1>6. r \in Seq(S) /\ \E p : Picks(r, p, labels, K)
  <2> HIDE DEF S
  <2>1. K \in SUBSET (1..Len(labels))
    BY <1>3, <1>5, Zenon
  <2> QED
    BY <1>5, <2>1, AtPositionsPicks
<1> HIDE DEF r
<1>7. PICK p : Picks(r, p, labels, K)
  BY <1>6, Zenon
<1>8. Len(r) \in Nat
  BY <1>6
<1>9. ASSUME NEW j \in 1..n, flags[j].bit = bit PROVE r = <<labels[j]>> /\ r # << >>
  <2>1. K = {j}
    BY <1>1, <1>3, <1>9 DEF Table, n
  <2>2. \A a \in 1..Len(r) : p[a] = j /\ r[a] = labels[j]
    BY <1>7, <2>1 DEF Picks
  <2>3. 1 \in 1..Len(r)
    <3>1. \E a \in 1..Len(r) : p[a] = j
      BY <1>7, <2>1 DEF Picks
    <3> QED
      BY <1>8, <3>1
  <2>4. ~(2 \in 1..Len(r))
    <3> SUFFICES ASSUME 2 \in 1..Len(r) PROVE FALSE
      OBVIOUS
    <3>1. p[1] < p[2]
      BY <1>7, <2>3 DEF Picks
    <3>2. p[1] = j /\ p[2] = j
      BY <2>2, <2>3
    <3> QED
      BY <3>1, <3>2
  <2>5. Len(r) = 1
    <3>1. PICK l \in Nat : l = Len(r)
      BY <1>8
    <3>2. 1 \in 1..l /\ ~(2 \in 1..l)
      BY <2>3, <2>4, <3>1, Zenon
    <3>3. l = 1
      BY <3>2
    <3> QED
      BY <3>1, <3>3
  <2>6. r[1] = labels[j]
    BY <2>2, <2>3
  <2>7. r = <<labels[j]>>
    BY <1>6, <2>5, <2>6
  <2>8. r # << >>
    BY <2>5
  <2> QED
    BY <2>7, <2>8
<1>10. ASSUME \A j \in 1..n : flags[j].bit # bit PROVE r = << >>
  <2>1. K = {}
    BY <1>3, <1>10
  <2>2. ~(1 \in 1..Len(r))
    BY <1>7, <2>1 DEF Picks
  <2>3. Len(r) = 0
    BY <1>8, <2>2
  <2> QED
    BY <1>6, <2>3
<1>11. ASSUME NEW j \in 1..n, flags[j].bit = bit PROVE BitsText(type, {bit}) = <<labels[j]>>
  <2>1. r = <<labels[j]>> /\ r # << >>
    BY <1>9, <1>11
  <2> QED
    BY <1>2, <2>1, Zenon
<1>12. ASSUME \A j \in 1..n : flags[j].bit # bit PROVE BitsText(type, {bit}) = <<NoLabel>>
  BY <1>2, <1>10, <1>12, Zenon
<1> QED
  BY <1>11, <1>12, Zenon DEF n, flags, labels

-----------------------------------------------------------------------------
(* The theorems.                                                           *)

\* What a row shows is what the formatter of its field makes of it, and a field without flags
\* but the one of all types is not shown.
RowIs ==
    /\ ~is_flag_hidden(field.value)
    /\ dst # << >> /\ HasFormatter(field.transaction_type) /\ ~IsNumber(field) =>
           dst = BitsText(field.transaction_type, field.value)

LEMMA RowIsHolds == Spec => []RowIs
<1>1. Init => RowIs
  <2>1. ASSUME Init PROVE ~is_flag_hidden(field.value) /\ dst = << >>
    BY <2>1, Zenon DEF Init
  <2> QED
    BY <2>1, Zenon DEF RowIs
<1>2. RowIs /\ [Next]_vars => RowIs'
  <2> SUFFICES ASSUME RowIs, [Next]_vars PROVE RowIs'
    OBVIOUS
  <2>1. CASE FormatBits
    BY <2>1, Zenon DEF FormatBits, RowIs
  <2>2. CASE FormatNumber
    <3>1. IsNumber(field)' /\ field' = field
      BY <2>2, Zenon DEF FormatNumber
    <3> QED
      BY <3>1, Zenon DEF RowIs
  <2>3. CASE NoFormatter
    BY <2>3, Zenon DEF NoFormatter, RowIs
  <2>4. CASE UNCHANGED vars
    <3>1. field' = field /\ dst' = dst
      BY <2>4 DEF vars
    <3> QED
      BY <3>1, Zenon DEF RowIs
  <2> QED
    BY <2>1, <2>2, <2>3, <2>4, Zenon DEF Next
<1> QED
  BY <1>1, <1>2, PTL DEF Spec

\* A row of flags is no number.
LEMMA FlagsAreNoNumber ==
    ASSUME RowIs, dst # << >>, field.id = "FLAGS", HasFormatter(field.transaction_type)
    PROVE  dst = BitsText(field.transaction_type, field.value)
<1>1. ~IsNumber(field)
  BY Zenon DEF IsNumber
<1> QED
  BY <1>1, Zenon DEF RowIs

\* format_flags and has_unknown_flags: blind signing is forced only when a flag could be taken away
\* and the row would read the same, for values of any bits.
THEOREM BlindOnlyForAReason == Spec => []BlindForAReason
<1>1. RowIs => BlindForAReason
  <2> DEFINE type == field.transaction_type
             value == field.value
             flags == Labelled(type)
  <2> SUFFICES ASSUME RowIs, dst # << >>, field.id = "FLAGS", has_unknown_flags(type, value)
               PROVE  \E bit \in value \ {FullyCanonicalSig} : BitsText(type, value \ {bit}) = dst
    BY Zenon DEF BlindForAReason
  <2>1. HasFormatter(type)
    BY Zenon DEF has_unknown_flags
  <2>2. PICK bit \in value : bit \notin KnownFlags(type) /\ bit # FullyCanonicalSig
    BY DEF has_unknown_flags
  <2>3. dst = BitsText(type, value)
    BY <2>1, FlagsAreNoNumber, Zenon
  <2>4. Held(type, value \ {bit}) = Held(type, value)
    <3>1. Table(flags, NoLabel, KnownFlags(type))
      BY <2>1, TableIs, Zenon
    <3>2. \A k \in 1..Len(flags) : flags[k].bit # bit
      BY <2>2, <3>1 DEF Table
    <3> QED
      BY <3>2 DEF Held
  <2>5. BitsText(type, value \ {bit}) = BitsText(type, value)
    BY <2>1, <2>4, WrittenIs, Zenon DEF BitsText
  <2>6. bit \in value \ {FullyCanonicalSig}
    BY <2>2
  <2> QED
    BY <2>3, <2>5, <2>6, Zenon
<1> QED
  BY <1>1, RowIsHolds, PTL

\* format_flags: the flags that do not force blind signing are read back from the row, all of them
\* and no other, for values of any bits and rows of any size that holds the labels of a type.
THEOREM ClearFlagsReadBack == Spec => []ClearFlagsAreRead
<1>1. RowIs => ClearFlagsAreRead
  <2> DEFINE type == field.transaction_type
             value == field.value
             known == KnownFlags(type)
             flags == Labelled(type)
             n == Len(flags)
             K == Held(type, value)
             labels == Labels(type)
             S == {labels[k] : k \in 1..n}
             r == AtPositions(labels, K)
  <2> SUFFICES ASSUME RowIs, dst # << >>, field.id = "FLAGS", HasFormatter(type),
                      ~has_unknown_flags(type, value)
               PROVE  Read(type, dst) = value \ {FullyCanonicalSig}
    BY Zenon DEF ClearFlagsAreRead
  <2>1. Table(flags, NoLabel, known) /\ n \in Nat
    <3>1. Table(flags, NoLabel, known)
      BY TableIs, Zenon
    <3> QED
      BY <3>1 DEF Table
  <2>2. dst = BitsText(type, value)
    BY FlagsAreNoNumber, Zenon
  <2>3. BitsText(type, value) = IF r = << >> THEN <<NoLabel>> ELSE r
    BY WrittenIs, Zenon DEF BitsText, OrUnsupported, NoLabel
  <2>4. \A bit \in value : bit = FullyCanonicalSig \/ bit \in known
    BY DEF has_unknown_flags
  <2>5. PICK b \in value : b # FullyCanonicalSig
    BY DEF RowIs, is_flag_hidden
  <2>6. /\ \A bit : BitsText(type, {bit}) = <<NoLabel>>
                    \/ \E j \in 1..n : flags[j].bit = bit /\ BitsText(type, {bit}) = <<labels[j]>>
        /\ \A j \in 1..n : BitsText(type, {flags[j].bit}) = <<labels[j]>>
    BY TextOfOne
  <2>7. K \in SUBSET (1..n) /\ \A k \in 1..n : k \in K <=> flags[k].bit \in value
    BY DEF Held
  <2>8. labels = [k \in 1..n |-> flags[k].label]
    BY DEF Labels
  <2>9. Read(type, dst) = {bit \in 0..30 : \E k \in DOMAIN dst : BitsText(type, {bit}) = <<dst[k]>>}
    BY Zenon DEF Read
  <2> HIDE DEF type, value, known, n, flags, labels, K
  <2>10. labels \in Seq(S) /\ Len(labels) = n
    BY <2>1, <2>8
  <2>11. r \in Seq(S) /\ \E p : Picks(r, p, labels, K)
    <3> HIDE DEF S
    <3>1. K \in SUBSET (1..Len(labels))
      BY <2>7, <2>10, Zenon
    <3> QED
      BY <2>10, <3>1, AtPositionsPicks
  <2> HIDE DEF r, S
  <2>12. PICK p : Picks(r, p, labels, K)
    BY <2>11, Zenon
  <2>13. /\ \A k \in 1..n : flags[k].bit \in 0..30 /\ flags[k].bit \in known /\ labels[k] # NoLabel
         /\ \A j, k \in 1..n : labels[j] = labels[k] => j = k
         /\ \A bit \in known : \E k \in 1..n : flags[k].bit = bit
    BY <2>1, <2>8 DEF Table, n
  <2>14. /\ Len(r) \in Nat /\ DOMAIN r = 1..Len(r)
         /\ \A a \in 1..Len(r) : p[a] \in K /\ r[a] = labels[p[a]]
         /\ \A m \in K : \E a \in 1..Len(r) : p[a] = m
    BY <2>11, <2>12 DEF Picks
  <2>15. dst = r
    <3>1. PICK k \in 1..n : flags[k].bit = b
      BY <2>4, <2>5, <2>13
    <3>2. k \in K
      BY <2>7, <3>1
    <3>3. PICK a \in 1..Len(r) : p[a] = k
      BY <2>14, <3>2
    <3>4. r # << >>
      <4>1. Len(r) # 0
        BY <2>14, <3>3
      <4> QED
        BY <4>1
    <3> QED
      BY <2>2, <2>3, <3>4, Zenon
  <2>16. ASSUME NEW bit \in 0..30, NEW a \in 1..Len(r), BitsText(type, {bit}) = <<r[a]>>
         PROVE  bit \in value
    <3>1. p[a] \in K /\ p[a] \in 1..n /\ r[a] = labels[p[a]]
      BY <2>7, <2>14
    <3>2. <<r[a]>> # <<NoLabel>>
      <4>1. r[a] # NoLabel
        BY <2>13, <3>1
      <4> QED
        BY <4>1
    <3>3. PICK j \in 1..n : flags[j].bit = bit /\ BitsText(type, {bit}) = <<labels[j]>>
      BY <2>6, <2>16, <3>2, Zenon
    <3>4. labels[j] = labels[p[a]]
      <4>1. <<labels[j]>> = <<labels[p[a]]>>
        BY <2>16, <3>1, <3>3, Zenon
      <4> QED
        BY <4>1
    <3>5. j = p[a]
      BY <2>13, <3>1, <3>4
    <3> QED
      BY <2>7, <3>1, <3>3, <3>5
  <2>17. ASSUME NEW bit \in value, bit # FullyCanonicalSig
         PROVE  bit \in 0..30 /\ \E a \in 1..Len(r) : BitsText(type, {bit}) = <<r[a]>>
    <3>1. PICK j \in 1..n : flags[j].bit = bit
      BY <2>4, <2>13, <2>17
    <3>2. j \in K /\ bit \in 0..30
      BY <2>7, <2>13, <3>1
    <3>3. PICK a \in 1..Len(r) : p[a] = j
      BY <2>14, <3>2
    <3>4. r[a] = labels[j]
      BY <2>14, <3>3
    <3>5. BitsText(type, {bit}) = <<labels[j]>>
      BY <2>6, <3>1, Zenon
    <3>6. BitsText(type, {bit}) = <<r[a]>>
      BY <3>4, <3>5, Zenon
    <3> QED
      BY <3>2, <3>6, Zenon
  <2>18. \A bit \in 0..30 : bit # FullyCanonicalSig
    BY DEF FullyCanonicalSig
  <2>19. Read(type, dst) = {bit \in 0..30 : \E a \in 1..Len(r) : BitsText(type, {bit}) = <<r[a]>>}
    BY <2>9, <2>14, <2>15, Zenon
  <2> QED
    BY <2>16, <2>17, <2>18, <2>19, Zenon
<1> QED
  BY <1>1, RowIsHolds, PTL


-----------------------------------------------------------------------------
(* The numbers of SetFlag and ClearFlag.                                   *)

\* No two numbers have the same label.
LEMMA LabelsDiffer ==
    ASSUME NEW j \in Int, NEW k \in Int,
           format_account_set_field_flags(j) = format_account_set_field_flags(k),
           format_account_set_field_flags(j) # NULL
    PROVE  j = k
<1> DEFINE l1 == "Require Dest"
           l2 == "Require Auth"
           l3 == "Disallow XRP"
           l4 == "Disable Master"
           l5 == "Track Txn ID"
           l6 == "No Freeze"
           l7 == "Global Freeze"
           l8 == "Default Ripple"
           l9 == "Deposit Auth"
           l10 == "Auth NFToken Minter"
           l12 == "Disallow NFToken Offer"
           l13 == "Disallow Check"
           l14 == "Disallow PayChan"
           l15 == "Disallow Trustline"
           l16 == "Allow Clawback"
           Label(n) == CASE n = 1 -> l1 [] n = 2 -> l2 [] n = 3 -> l3 [] n = 4 -> l4
                         [] n = 5 -> l5 [] n = 6 -> l6 [] n = 7 -> l7 [] n = 8 -> l8
                         [] n = 9 -> l9 [] n = 10 -> l10 [] n = 12 -> l12 [] n = 13 -> l13
                         [] n = 14 -> l14 [] n = 15 -> l15 [] n = 16 -> l16 [] OTHER -> NULL
<1>1. format_account_set_field_flags(j) = Label(j) /\ format_account_set_field_flags(k) = Label(k)
  BY Zenon DEF format_account_set_field_flags
<1>2. /\ l2 \notin {l1}
      /\ l3 \notin {l1, l2}
      /\ l4 \notin {l1, l2, l3}
      /\ l5 \notin {l1, l2, l3, l4}
      /\ l6 \notin {l1, l2, l3, l4, l5}
      /\ l7 \notin {l1, l2, l3, l4, l5, l6}
      /\ l8 \notin {l1, l2, l3, l4, l5, l6, l7}
      /\ l9 \notin {l1, l2, l3, l4, l5, l6, l7, l8}
  BY Zenon
<1>3. /\ l10 \notin {l1, l2, l3, l4, l5, l6, l7, l8, l9}
      /\ l12 \notin {l1, l2, l3, l4, l5, l6, l7, l8, l9, l10}
      /\ l13 \notin {l1, l2, l3, l4, l5, l6, l7, l8, l9, l10, l12}
      /\ l14 \notin {l1, l2, l3, l4, l5, l6, l7, l8, l9, l10, l12, l13}
      /\ l15 \notin {l1, l2, l3, l4, l5, l6, l7, l8, l9, l10, l12, l13, l14}
      /\ l16 \notin {l1, l2, l3, l4, l5, l6, l7, l8, l9, l10, l12, l13, l14, l15}
  BY Zenon
<1> HIDE DEF l1, l2, l3, l4, l5, l6, l7, l8, l9, l10, l12, l13, l14, l15, l16
<1>4. Label(j) = Label(k) /\ Label(j) # NULL
  BY <1>1, Zenon
<1>5. j \in 1..16 /\ k \in 1..16
  <2>1. ASSUME NEW n \in Int, n \notin 1..16 PROVE Label(n) = NULL
    BY <2>1
  <2> HIDE DEF Label
  <2> QED
    BY <1>4, <2>1
<1> QED
  BY <1>2, <1>3, <1>4, <1>5

\* Different sets of bits are different numbers.
LEMMA NumberTellsBits ==
    ASSUME NEW v \in SUBSET (0..4), NEW w \in SUBSET (0..4), Number(v) = Number(w)
    PROVE  v = w
<1> DEFINE Bit(n, weight) == IF n \in v THEN weight ELSE 0
           Other(n, weight) == IF n \in w THEN weight ELSE 0
<1>1. /\ Number(v) = Bit(0, 1) + Bit(1, 2) + Bit(2, 4) + Bit(3, 8) + Bit(4, 16)
      /\ Number(w) = Other(0, 1) + Other(1, 2) + Other(2, 4) + Other(3, 8) + Other(4, 16)
  BY Zenon DEF Number
<1>2. PICK b0 \in {0, 1}, b1 \in {0, 2}, b2 \in {0, 4}, b3 \in {0, 8}, b4 \in {0, 16} :
          b0 = Bit(0, 1) /\ b1 = Bit(1, 2) /\ b2 = Bit(2, 4) /\ b3 = Bit(3, 8) /\ b4 = Bit(4, 16)
  OBVIOUS
<1>3. PICK c0 \in {0, 1}, c1 \in {0, 2}, c2 \in {0, 4}, c3 \in {0, 8}, c4 \in {0, 16} :
          /\ c0 = Other(0, 1) /\ c1 = Other(1, 2) /\ c2 = Other(2, 4)
          /\ c3 = Other(3, 8) /\ c4 = Other(4, 16)
  OBVIOUS
<1>4. b0 + b1 + b2 + b3 + b4 = c0 + c1 + c2 + c3 + c4
  <2> HIDE DEF Bit, Other
  <2> QED
    BY <1>1, <1>2, <1>3, Zenon
<1>5. b0 = c0 /\ b1 = c1 /\ b2 = c2 /\ b3 = c3 /\ b4 = c4
  BY <1>4
<1>6. /\ 0 \in v <=> 0 \in w
      /\ 1 \in v <=> 1 \in w
      /\ 2 \in v <=> 2 \in w
      /\ 3 \in v <=> 3 \in w
      /\ 4 \in v <=> 4 \in w
  BY <1>2, <1>3, <1>5
<1>7. ASSUME NEW n \in 0..4 PROVE n \in v <=> n \in w
  <2>1. n = 0 \/ n = 1 \/ n = 2 \/ n = 3 \/ n = 4
    OBVIOUS
  <2> QED
    BY <1>6, <2>1, Zenon
<1> QED
  BY <1>7

\* The row of a number is the text of its field.
NumberIs ==
    /\ field \in Fields
    /\ dst # << >> /\ IsNumber(field) => dst = NumberText(field.value)

LEMMA NumberIsHolds == Spec => []NumberIs
<1>1. Init => NumberIs
  <2>1. ASSUME Init PROVE field \in Fields /\ dst = << >>
    BY <2>1, Zenon DEF Init
  <2> QED
    BY <2>1, Zenon DEF NumberIs
<1>2. NumberIs /\ [Next]_vars => NumberIs'
  <2> SUFFICES ASSUME NumberIs, [Next]_vars PROVE NumberIs'
    OBVIOUS
  <2>1. CASE FormatBits
    <3>1. ~IsNumber(field) /\ field' = field
      BY <2>1, Zenon DEF FormatBits
    <3> QED
      BY <3>1, Zenon DEF NumberIs
  <2>2. CASE FormatNumber
    BY <2>2, Zenon DEF FormatNumber, NumberIs
  <2>3. CASE NoFormatter
    <3>1. field' = field /\ ~HasFormatter(field.transaction_type)
      BY <2>3, Zenon DEF NoFormatter
    <3>2. ~IsNumber(field)
      <4>1. HasFormatter("ACCOUNT_SET")
        <5>1. Table(Labelled("ACCOUNT_SET"), "Unsupported value", KnownFlags("ACCOUNT_SET"))
          BY AccountSetTable, Zenon
        <5>2. PICK flags : flags = Labelled("ACCOUNT_SET")
          OBVIOUS
        <5>3. \E k \in 1..Len(flags) : flags[k].bit = 16
          <6>1. 16 \in KnownFlags("ACCOUNT_SET")
            BY DEF KnownFlags
          <6> QED
            BY <5>1, <5>2, <6>1, Zenon DEF Table
        <5>4. flags # << >>
          BY <5>3
        <5> QED
          BY <5>2, <5>4, Zenon DEF HasFormatter
      <4> QED
        BY <3>1, <4>1, Zenon DEF IsNumber
    <3> QED
      BY <3>1, <3>2, Zenon DEF NumberIs
  <2>4. CASE UNCHANGED vars
    <3>1. field' = field /\ dst' = dst
      BY <2>4 DEF vars
    <3> QED
      BY <3>1, Zenon DEF NumberIs
  <2> QED
    BY <2>1, <2>2, <2>3, <2>4, Zenon DEF Next
<1> QED
  BY <1>1, <1>2, PTL DEF Spec

\* format_account_set_flags: no two values of SetFlag or ClearFlag read the same, whether they
\* have a label or are written as numbers.
THEOREM SetFlagsApart == Spec => []SetFlagsReadApart
<1>1. NumberIs => SetFlagsReadApart
  <2> SUFFICES ASSUME NumberIs, dst # << >>, IsNumber(field), NEW other \in Fields, IsNumber(other),
                      NumberText(other.value) = dst
               PROVE  other.value = field.value
    BY Zenon DEF SetFlagsReadApart
  <2> DEFINE unknown == "Unknown flag"
  <2>1. \A v : NumberText(v) = IF LabelOf(v) # NULL THEN <<LabelOf(v)>> ELSE <<unknown, Decimal(v)>>
    BY Zenon DEF NumberText
  <2> HIDE DEF unknown
  <2>2. PICK v, w : v = field.value /\ w = other.value
    OBVIOUS
  <2>3. NumberText(v) = NumberText(w)
    BY <2>2, Zenon DEF NumberIs
  <2>4. \A a, b, c : <<a>> # <<b, c>>
    <3> SUFFICES ASSUME NEW a, NEW b, NEW c PROVE <<a>> # <<b, c>>
      OBVIOUS
    <3>1. Len(<<a>>) = 1 /\ Len(<<b, c>>) = 2
      OBVIOUS
    <3> QED
      BY <3>1
  <2>5. CASE LabelOf(v) # NULL /\ LabelOf(w) # NULL
    <3>1. <<LabelOf(v)>> = <<LabelOf(w)>>
      BY <2>1, <2>3, <2>5, Zenon
    <3>2. LabelOf(v) = LabelOf(w)
      BY <3>1
    <3>3. /\ v \subseteq 0..4 /\ LabelOf(v) = format_account_set_field_flags(Number(v))
          /\ w \subseteq 0..4 /\ LabelOf(w) = format_account_set_field_flags(Number(w))
      BY <2>5, Zenon DEF LabelOf
    <3>4. Number(v) \in Int /\ Number(w) \in Int
      BY DEF Number
    <3>5. PICK j \in Int, k \in Int : j = Number(v) /\ k = Number(w)
      BY <3>4
    <3>6. j = k
      <4>1. /\ format_account_set_field_flags(j) = format_account_set_field_flags(k)
            /\ format_account_set_field_flags(j) # NULL
        BY <2>5, <3>2, <3>3, <3>5, Zenon
      <4> QED
        BY <4>1, LabelsDiffer, Zenon
    <3>7. Number(v) = Number(w)
      BY <3>5, <3>6, Zenon
    <3> QED
      BY <2>2, <3>3, <3>7, NumberTellsBits, Zenon
  <2>6. CASE LabelOf(v) = NULL /\ LabelOf(w) = NULL
    <3>1. <<unknown, Decimal(v)>> = <<unknown, Decimal(w)>>
      BY <2>1, <2>3, <2>6, Zenon
    <3>2. Decimal(v) = Decimal(w)
      BY <3>1
    <3>3. field \in {h \in Fields : IsNumber(h)} /\ other \in {h \in Fields : IsNumber(h)}
      BY Zenon DEF NumberIs
    <3> QED
      BY <2>2, <3>2, <3>3, DecimalAssumption, Zenon
  <2>7. CASE (LabelOf(v) = NULL) # (LabelOf(w) = NULL)
    BY <2>1, <2>3, <2>4, <2>7, Zenon
  <2> QED
    BY <2>5, <2>6, <2>7, Zenon
<1> QED
  BY <1>1, NumberIsHolds, PTL

-----------------------------------------------------------------------------
(* The calendar, by cycles.                                                *)

\* A year that begins in March: the cycles before it, and the year in its cycle of four.
IsYear(qc, c, q, y) == qc \in Int /\ qc >= -1 /\ c \in 0..3 /\ q \in 0..24 /\ y \in 0..3

\* Whether it ends with a leap day.
EndsLeap(c, q, y) == y = 3 /\ (q = 24 => c = 3)

\* The days of such a year.
YearLength(c, q, y) == IF EndsLeap(c, q, y) THEN 366 ELSE 365

\* Days into a cycle of 4, of 100 and of 400 years.
In4(y, r) == 365 * y + r
In100(q, y, r) == 1461 * q + In4(y, r)
In400(c, q, y, r) == 36524 * c + In100(q, y, r)

\* Days before each month of such a year.
BeforeMonth == <<0, 31, 61, 92, 122, 153, 184, 214, 245, 275, 306, 337, 366>>

\* The year that begins with this March.
March(qc, c, q, y) == 2000 + y + 4 * q + 100 * c + 400 * qc

\* The code finds the cycles of a day.
LEMMA CyclesAre ==
    ASSUME NEW qc, NEW c, NEW q, NEW y, IsYear(qc, c, q, y),
           NEW r \in Nat, r < YearLength(c, q, y)
    PROVE  /\ QuadCenturies(DAYS_PER_400Y * qc + In400(c, q, y, r))
                  = [cycles |-> qc, remdays |-> In400(c, q, y, r)]
           /\ Cycles(In400(c, q, y, r), DAYS_PER_100Y, 4)
                  = [cycles |-> c, remdays |-> In100(q, y, r)]
           /\ Cycles(In100(q, y, r), DAYS_PER_4Y, 25) = [cycles |-> q, remdays |-> In4(y, r)]
           /\ Cycles(In4(y, r), 365, 4) = [cycles |-> y, remdays |-> r]
<1>1. qc \in Int /\ c \in Int /\ q \in Int /\ y \in Int /\ r \in Int
  BY DEF IsYear
<1>2. /\ c = 0 \/ c = 1 \/ c = 2 \/ c = 3
      /\ y = 0 \/ y = 1 \/ y = 2 \/ y = 3
      /\ q >= 0 /\ q <= 24 /\ qc >= -1
  BY DEF IsYear
<1>3. r >= 0 /\ r <= 365 /\ (r = 365 => y = 3 /\ (q = 24 => c = 3))
  BY DEF YearLength, EndsLeap
<1> DEFINE in4 == In4(y, r)
           in100 == In100(q, y, r)
           in400 == In400(c, q, y, r)
<1>4. in4 = 365 * y + r /\ in100 = 1461 * q + in4 /\ in400 = 36524 * c + in100
  BY DEF In4, In100, In400
<1> HIDE DEF in4, in100, in400
<1>5. in4 \in Int /\ in4 >= 0 /\ in4 <= 1460 /\ (in4 = 1460 => (q = 24 => c = 3))
  BY <1>1, <1>2, <1>3, <1>4
<1>6. in100 \in Int /\ in100 >= 0 /\ in100 <= 36524 /\ (in100 = 36524 => c = 3)
  BY <1>1, <1>2, <1>4, <1>5
<1>7. in400 \in Int /\ in400 >= 0 /\ in400 <= 146096
  BY <1>1, <1>2, <1>4, <1>6
<1>8. Cycles(in4, 365, 4) = [cycles |-> y, remdays |-> r]
  BY <1>1, <1>2, <1>3, <1>4, <1>5 DEF Cycles
<1>9. Cycles(in100, DAYS_PER_4Y, 25) = [cycles |-> q, remdays |-> in4]
  BY <1>1, <1>2, <1>4, <1>5, <1>6 DEF Cycles, DAYS_PER_4Y
<1>10. Cycles(in400, DAYS_PER_100Y, 4) = [cycles |-> c, remdays |-> in100]
  BY <1>1, <1>2, <1>4, <1>6, <1>7 DEF Cycles, DAYS_PER_100Y
<1>11. QuadCenturies(DAYS_PER_400Y * qc + in400) = [cycles |-> qc, remdays |-> in400]
  BY <1>1, <1>2, <1>7 DEF QuadCenturies, DAYS_PER_400Y
<1> QED
  BY <1>8, <1>9, <1>10, <1>11 DEF in4, in100, in400

-----------------------------------------------------------------------------
(* The month.                                                              *)

\* The day of such a year on which the month after m others begins.
Begin(m) == BeforeMonth[m + 1]

\* Where the months begin, and that they follow each other.
LEMMA BeginIs ==
    /\ Begin(0) = 0 /\ Begin(1) = 31 /\ Begin(2) = 61 /\ Begin(3) = 92 /\ Begin(4) = 122
    /\ Begin(5) = 153 /\ Begin(6) = 184 /\ Begin(7) = 214 /\ Begin(8) = 245 /\ Begin(9) = 275
    /\ Begin(10) = 306 /\ Begin(11) = 337 /\ Begin(12) = 366
  BY DEF Begin, BeforeMonth

LEMMA BeginGrows ==
    \A j, k \in 0..12 : Begin(j) \in Nat /\ (j <= k => Begin(j) <= Begin(k))
  BY BeginIs

\* The loop leaves off at the month of the day.
LEMMA MonthsOverIs ==
    ASSUME NEW m \in 0..11, NEW r \in Nat, Begin(m) <= r, r < Begin(m + 1)
    PROVE  MonthsOver(r) = [months |-> m, remdays |-> r - Begin(m)]
<1> DEFINE Value(h, k) == IF k = 0 THEN 0 ELSE h[k - 1] + days_in_month[k]
           Def(h) == h = [k \in 0..12 |-> Value(h, k)]
           g == CHOOSE h : Def(h)
           p == [k \in 0..12 |-> Begin(k)]
           over == Cardinality({k \in 1..11 : g[k] <= r})
<1>1. MonthsOver(r) = [months |-> over, remdays |-> r - g[over]]
  BY Zenon DEF MonthsOver
<1>2. /\ days_in_month[1] = 31 /\ days_in_month[2] = 30 /\ days_in_month[3] = 31
      /\ days_in_month[4] = 30 /\ days_in_month[5] = 31 /\ days_in_month[6] = 31
      /\ days_in_month[7] = 30 /\ days_in_month[8] = 31 /\ days_in_month[9] = 30
      /\ days_in_month[10] = 31 /\ days_in_month[11] = 31 /\ days_in_month[12] = 29
  BY DEF days_in_month
<1>3. \A k \in 0..12 : p[k] = Value(p, k)
  <2>1. ASSUME NEW k \in 1..12 PROVE Begin(k) = Begin(k - 1) + days_in_month[k]
    BY <1>2, BeginIs
  <2>2. p[0] = 0
    BY BeginIs
  <2>3. \A k \in 1..12 : p[k] = p[k - 1] + days_in_month[k]
    BY <2>1
  <2>4. \A k \in 0..12 : k = 0 \/ (k \in 1..12 /\ k # 0)
    OBVIOUS
  <2> HIDE DEF p
  <2> QED
    BY <2>2, <2>3, <2>4, Zenon
<1>4. Def(p)
  <2> HIDE DEF Value
  <2> QED
    BY <1>3
<1>5. Def(g)
  <2> HIDE DEF Def, p
  <2> QED
    BY <1>4
<1>6. \A k \in 0..12 : g[k] = Value(g, k)
  <2> HIDE DEF Value, g
  <2> QED
    BY <1>5
<1> HIDE DEF g
<1>7. g[0] = 0 /\ \A k \in 1..12 : g[k] = g[k - 1] + days_in_month[k]
  BY <1>6
<1>8. \A k \in 0..12 : g[k] = Begin(k)
  <2> DEFINE T == {k \in 0..12 : g[k] = Begin(k)}
  <2>1. 0 \in T
    BY <1>7, BeginIs
  <2>2. ASSUME NEW k \in 0..12, k \in T, k < 12 PROVE k + 1 \in T
    <3>1. k + 1 \in 1..12 /\ (k + 1) - 1 = k
      BY <2>2
    <3>2. g[k + 1] = Begin(k) + days_in_month[k + 1]
      BY <1>7, <2>2, <3>1
    <3>3. Begin(k + 1) = Begin(k) + days_in_month[k + 1]
      BY <1>2, <3>1, BeginIs
    <3> QED
      BY <3>1, <3>2, <3>3
  <2>3. 0..12 \subseteq T
    <3> HIDE DEF T
    <3> QED
      BY <2>1, <2>2, UpTo
  <2> QED
    BY <2>3
<1>9. over = m
  <2>1. {k \in 1..11 : g[k] <= r} = 1..m
    <3>1. ASSUME NEW k \in 1..11, k <= m PROVE g[k] <= r
      <4>1. Begin(k) <= Begin(m) /\ Begin(k) \in Nat /\ Begin(m) \in Nat
        BY <3>1, BeginGrows
      <4> QED
        BY <1>8, <4>1
    <3>2. ASSUME NEW k \in 1..11, ~(k <= m) PROVE ~(g[k] <= r)
      <4>1. m + 1 \in 0..12 /\ k \in 0..12 /\ m + 1 <= k
        BY <3>2
      <4>2. Begin(m + 1) <= Begin(k) /\ Begin(k) \in Nat /\ Begin(m + 1) \in Nat
        BY <4>1, BeginGrows
      <4> QED
        BY <1>8, <4>2
    <3> QED
      BY <3>1, <3>2
  <2>2. Cardinality(1..m) = m
    <3>1. m \in Int /\ 1 \in Int
      OBVIOUS
    <3>2. Cardinality(1..m) = IF 1 > m THEN 0 ELSE m - 1 + 1
      BY <3>1, FS_Interval, Zenon
    <3> QED
      BY <3>1, <3>2
  <2> QED
    BY <2>1, <2>2, Zenon
<1>10. g[m] = Begin(m)
  BY <1>8
<1> QED
  BY <1>1, <1>9, <1>10, Zenon

-----------------------------------------------------------------------------
(* The date.                                                               *)

\* Before LEAPOCH the quotient and the remainder are corrected.
LEMMA DaysAre ==
    ASSUME NEW d \in Nat, NEW s \in SecondsOfDay
    PROVE  Days(d, s) = d - 60 /\ RemSecs(d, s) = s
<1> QED
  BY DEF SecondsOfDay, Days, RemSecs, Quotient, Remainder, LeapDays

\* The date of the day r days into the year, in the month after m others.
DateOf(qc, c, q, y, m, r) ==
    LET year == March(qc, c, q, y)
    IN  IF m < 10 THEN <<year, m + 3, r - Begin(m) + 1>>
        ELSE <<year + 1, m - 9, r - Begin(m) + 1>>

\* The time of day of a second.
TimeOf(s) == <<s \div 3600, (s \div 60) % 60, s % 60>>

\* Where a day stands: r days into the year, in the month after m others.
Stands(d, qc, c, q, y, m, r) ==
    /\ IsYear(qc, c, q, y) /\ r \in Nat /\ r < YearLength(c, q, y)
    /\ d - 60 = DAYS_PER_400Y * qc + In400(c, q, y, r)
    /\ m \in 0..11 /\ Begin(m) <= r /\ r < Begin(m + 1)

\* A date and a time make a row.
LEMMA Joined ==
    \A a1, a2, a3, b1, b2, b3 : <<a1, a2, a3, b1, b2, b3>> = <<a1, a2, a3>> \o <<b1, b2, b3>>
  OBVIOUS

\* A time of a day is shown with this date.
IsShown(d, s, date) == print_time(ripple_epoch_to_tm(d, s)) = date \o TimeOf(s)

\* The code shows a day as the date of where it stands.
LEMMA TimeIs ==
    ASSUME NEW d \in Nat, NEW s \in SecondsOfDay, NEW qc, NEW c, NEW q, NEW y, NEW m, NEW r,
           Stands(d, qc, c, q, y, m, r)
    PROVE  IsShown(d, s, DateOf(qc, c, q, y, m, r))
<1>1. PICK tm : tm = ripple_epoch_to_tm(d, s)
  OBVIOUS
<1>2. /\ IsYear(qc, c, q, y) /\ r \in Nat /\ r < YearLength(c, q, y)
      /\ m \in 0..11 /\ Begin(m) <= r /\ r < Begin(m + 1)
      /\ d - 60 = DAYS_PER_400Y * qc + In400(c, q, y, r)
  BY Zenon DEF Stands
<1>3. Days(d, s) = DAYS_PER_400Y * qc + In400(c, q, y, r) /\ RemSecs(d, s) = s
  BY <1>2, DaysAre, Zenon
<1>4. /\ QuadCenturies(DAYS_PER_400Y * qc + In400(c, q, y, r))
             = [cycles |-> qc, remdays |-> In400(c, q, y, r)]
      /\ Cycles(In400(c, q, y, r), DAYS_PER_100Y, 4) = [cycles |-> c, remdays |-> In100(q, y, r)]
      /\ Cycles(In100(q, y, r), DAYS_PER_4Y, 25) = [cycles |-> q, remdays |-> In4(y, r)]
      /\ Cycles(In4(y, r), 365, 4) = [cycles |-> y, remdays |-> r]
  BY <1>2, CyclesAre
<1>5. PICK quadcent : quadcent = QuadCenturies(Days(d, s))
  OBVIOUS
<1>6. quadcent = [cycles |-> qc, remdays |-> In400(c, q, y, r)]
  BY <1>3, <1>4, <1>5, Zenon
<1>7. quadcent.cycles = qc /\ quadcent.remdays = In400(c, q, y, r)
  BY <1>6
<1>8. PICK cent : cent = Cycles(quadcent.remdays, DAYS_PER_100Y, 4)
  OBVIOUS
<1>9. cent = [cycles |-> c, remdays |-> In100(q, y, r)]
  BY <1>4, <1>7, <1>8, Zenon
<1>10. cent.cycles = c /\ cent.remdays = In100(q, y, r)
  BY <1>9
<1>11. PICK quad : quad = Cycles(cent.remdays, DAYS_PER_4Y, 25)
  OBVIOUS
<1>12. quad = [cycles |-> q, remdays |-> In4(y, r)]
  BY <1>4, <1>10, <1>11, Zenon
<1>13. quad.cycles = q /\ quad.remdays = In4(y, r)
  BY <1>12
<1>14. PICK year : year = Cycles(quad.remdays, 365, 4)
  OBVIOUS
<1>15. year.cycles = y /\ year.remdays = r
  <2>1. year = [cycles |-> y, remdays |-> r]
    BY <1>4, <1>13, <1>14, Zenon
  <2> QED
    BY <2>1
<1>16. qc \in Int /\ c \in Int /\ q \in Int /\ y \in Int /\ m \in Int
  BY <1>2 DEF IsYear
<1>17. PICK years :
           years = year.cycles + 4 * quad.cycles + 100 * cent.cycles + 400 * quadcent.cycles
  OBVIOUS
<1>18. years \in Int /\ years + 2000 = March(qc, c, q, y)
  BY <1>7, <1>10, <1>13, <1>15, <1>16, <1>17 DEF March
<1>19. PICK month : month = MonthsOver(year.remdays)
  OBVIOUS
<1>20. /\ tm.tm_year = years + 100 + (IF m + 2 >= 12 THEN 1 ELSE 0)
       /\ tm.tm_mon = m + 2 - (IF m + 2 >= 12 THEN 12 ELSE 0)
       /\ tm.tm_mday = r - Begin(m) + 1
       /\ tm.tm_hour = s \div 3600 /\ tm.tm_min = s \div 60 % 60
       /\ tm.tm_sec = s % 60
  <2>1. month = [months |-> m, remdays |-> r - Begin(m)]
    <3>1. MonthsOver(r) = [months |-> m, remdays |-> r - Begin(m)]
      BY <1>2, MonthsOverIs
    <3> QED
      BY <1>15, <1>19, <3>1, Zenon
  <2>2. month.months = m /\ month.remdays = r - Begin(m)
    BY <2>1
  <2>3. PICK remsecs : remsecs = RemSecs(d, s)
    OBVIOUS
  <2>4. tm = [tm_year |-> years + 100 + (IF month.months + 2 >= 12 THEN 1 ELSE 0),
              tm_mon |-> month.months + 2 - (IF month.months + 2 >= 12 THEN 12 ELSE 0),
              tm_mday |-> month.remdays + 1,
              tm_hour |-> remsecs \div 3600, tm_min |-> remsecs \div 60 % 60,
              tm_sec |-> remsecs % 60]
    BY <1>1, <1>5, <1>8, <1>11, <1>14, <1>17, <1>19, <2>3 DEF ripple_epoch_to_tm
  <2>5. remsecs = s
    BY <1>3, <2>3
  <2> QED
    BY <2>2, <2>4, <2>5
<1>21. PICK a1, a2, a3, b1, b2, b3 :
           /\ a1 = tm.tm_year + 1900 /\ a2 = tm.tm_mon + 1 /\ a3 = tm.tm_mday
           /\ b1 = tm.tm_hour /\ b2 = tm.tm_min /\ b3 = tm.tm_sec
  OBVIOUS
<1>22. print_time(tm) = <<a1, a2, a3, b1, b2, b3>>
  BY <1>21 DEF print_time
<1>23. DateOf(qc, c, q, y, m, r) = <<a1, a2, a3>>
  <2>1. a3 = r - Begin(m) + 1
    BY <1>20, <1>21
  <2>2. CASE m < 10
    <3>1. a1 = March(qc, c, q, y) /\ a2 = m + 3
      <4>1. ~(m + 2 >= 12)
        BY <1>16, <2>2
      <4>2. a1 = years + 100 + 0 + 1900 /\ a2 = m + 2 - 0 + 1
        BY <1>20, <1>21, <4>1
      <4> QED
        BY <1>16, <1>18, <4>2
    <3> QED
      BY <2>1, <2>2, <3>1, Zenon DEF DateOf
  <2>3. CASE ~(m < 10)
    <3>1. a1 = March(qc, c, q, y) + 1 /\ a2 = m - 9
      <4>1. m + 2 >= 12
        BY <1>16, <2>3
      <4>2. a1 = years + 100 + 1 + 1900 /\ a2 = m + 2 - 12 + 1
        BY <1>20, <1>21, <4>1
      <4> QED
        BY <1>16, <1>18, <4>2
    <3> QED
      BY <2>1, <2>3, <3>1, Zenon DEF DateOf
  <2> QED
    BY <2>2, <2>3
<1>24. TimeOf(s) = <<b1, b2, b3>>
  BY <1>20, <1>21 DEF TimeOf
<1>25. <<a1, a2, a3, b1, b2, b3>> = <<a1, a2, a3>> \o <<b1, b2, b3>>
  BY Joined
<1>26. print_time(tm) = <<a1, a2, a3>> \o <<b1, b2, b3>>
  BY <1>22, <1>25, Zenon
<1> QED
  BY <1>1, <1>23, <1>24, <1>26, Zenon DEF IsShown

-----------------------------------------------------------------------------
(* The next day.                                                           *)

\* The day of the year after the last of the month.
MonthEnd(c, q, y, m) == IF m = 11 THEN YearLength(c, q, y) ELSE Begin(m + 1)

\* The code's cycles and the rule of the calendar agree on the leap years.
LEMMA LeapYears ==
    ASSUME NEW qc, NEW c, NEW q, NEW y, IsYear(qc, c, q, y)
    PROVE  IsLeap(March(qc, c, q, y) + 1) <=> EndsLeap(c, q, y)
<1>1. /\ qc \in Int /\ c \in Int /\ q \in Int /\ y \in Int
      /\ c >= 0 /\ c <= 3 /\ q >= 0 /\ q <= 24 /\ y >= 0 /\ y <= 3
  BY DEF IsYear
<1>2. PICK year \in Int : year = 2001 + y + 4 * q + 100 * c + 400 * qc
  BY <1>1
<1>3. March(qc, c, q, y) + 1 = year
  BY <1>1, <1>2 DEF March
<1>4. year % 4 = 0 <=> y = 3
  BY <1>1, <1>2
<1>5. ASSUME y = 3 PROVE year % 100 = 0 <=> q = 24
  BY <1>1, <1>2, <1>5
<1>6. ASSUME y = 3, q = 24 PROVE year % 400 = 0 <=> c = 3
  BY <1>1, <1>2, <1>6
<1> QED
  BY <1>3, <1>4, <1>5, <1>6 DEF IsLeap, EndsLeap

\* The months of the code are as long as those of the calendar.
LEMMA MonthLength ==
    ASSUME NEW qc, NEW c, NEW q, NEW y, IsYear(qc, c, q, y), NEW m \in 0..11
    PROVE  /\ m < 10 => DaysIn(March(qc, c, q, y), m + 3) = MonthEnd(c, q, y, m) - Begin(m)
           /\ ~(m < 10) => DaysIn(March(qc, c, q, y) + 1, m - 9)
                               = MonthEnd(c, q, y, m) - Begin(m)
<1>1. CASE m = 11
  <2>1. DaysIn(March(qc, c, q, y) + 1, 2) = IF EndsLeap(c, q, y) THEN 29 ELSE 28
    BY LeapYears DEF DaysIn
  <2>2. MonthEnd(c, q, y, 11) - Begin(11) = IF EndsLeap(c, q, y) THEN 29 ELSE 28
    BY BeginIs DEF MonthEnd, YearLength
  <2> QED
    BY <1>1, <2>1, <2>2
<1>2. CASE m = 10
  <2>1. DaysIn(March(qc, c, q, y) + 1, 1) = 31
    BY DEF DaysIn
  <2> QED
    BY <1>2, <2>1, BeginIs DEF MonthEnd
<1>3. CASE m \in {1, 3, 6, 8}
  <2>1. m < 10 /\ Begin(m + 1) - Begin(m) = 30 /\ m + 3 \in {4, 6, 9, 11}
    BY <1>3, BeginIs
  <2>2. DaysIn(March(qc, c, q, y), m + 3) = 30
    BY <2>1 DEF DaysIn
  <2> QED
    BY <1>3, <2>1, <2>2 DEF MonthEnd
<1>4. CASE m \in {0, 2, 4, 5, 7, 9}
  <2>1. m < 10 /\ Begin(m + 1) - Begin(m) = 31 /\ m + 3 \in {3, 5, 7, 8, 10, 12}
    BY <1>4, BeginIs
  <2>2. DaysIn(March(qc, c, q, y), m + 3) = 31
    BY <2>1 DEF DaysIn
  <2> QED
    BY <1>4, <2>1, <2>2 DEF MonthEnd
<1> QED
  BY <1>1, <1>2, <1>3, <1>4

\* The calendar turns a page.
LEMMA TomorrowIs ==
    ASSUME NEW a \in Int, NEW b \in Int, NEW e \in Int, DaysIn(a, b) \in Int
    PROVE  /\ e < DaysIn(a, b) => Tomorrow(<<a, b, e>>) = <<a, b, e + 1>>
           /\ e = DaysIn(a, b) /\ b < 12 => Tomorrow(<<a, b, e>>) = <<a, b + 1, 1>>
           /\ e = DaysIn(a, b) /\ b = 12 => Tomorrow(<<a, b, e>>) = <<a + 1, 1, 1>>
  BY DEF Tomorrow

\* Where a day and its date stand in the cycles.
Dated(d, date) ==
    \E qc, c, q, y, m, r : Stands(d, qc, c, q, y, m, r) /\ date = DateOf(qc, c, q, y, m, r)

\* A day has the date of where it stands.
LEMMA ItsDate ==
    ASSUME NEW d, NEW qc, NEW c, NEW q, NEW y, NEW m, NEW r, Stands(d, qc, c, q, y, m, r)
    PROVE  Dated(d, DateOf(qc, c, q, y, m, r))
  BY Zenon DEF Dated

\* The calendar begins at the epoch of the ledger, the 306th day of a year and the last year
\* of its cycles.
LEMMA Epoch == Dated(0, <<2000, 1, 1>>)
<1>1. IsYear(-1, 3, 24, 3) /\ YearLength(3, 24, 3) = 366
  BY DEF IsYear, YearLength, EndsLeap
<1>2. 0 - 60 = DAYS_PER_400Y * (-1) + In400(3, 24, 3, 306)
  BY DEF DAYS_PER_400Y, In400, In100, In4
<1>3. Begin(10) = 306 /\ Begin(10 + 1) = 337
  BY BeginIs
<1>4. Stands(0, -1, 3, 24, 3, 10, 306)
  BY <1>1, <1>2, <1>3 DEF Stands
<1>5. March(-1, 3, 24, 3) = 1999
  BY DEF March
<1>6. DateOf(-1, 3, 24, 3, 10, 306) = <<2000, 1, 1>>
  BY <1>3, <1>5 DEF DateOf
<1> QED
  BY <1>4, <1>6, ItsDate

\* A date and its numbers.
LEMMA DateIs ==
    ASSUME NEW qc, NEW c, NEW q, NEW y, NEW m \in 0..11, NEW r \in Nat, IsYear(qc, c, q, y)
    PROVE  /\ March(qc, c, q, y) \in Int /\ r - Begin(m) + 1 \in Int
           /\ MonthEnd(c, q, y, m) \in Int
           /\ m < 10 => DateOf(qc, c, q, y, m, r)
                            = <<March(qc, c, q, y), m + 3, r - Begin(m) + 1>>
           /\ ~(m < 10) => DateOf(qc, c, q, y, m, r)
                               = <<March(qc, c, q, y) + 1, m - 9, r - Begin(m) + 1>>
<1>1. m \in 0..12 /\ m + 1 \in 0..12
  OBVIOUS
<1>2. Begin(m) \in Nat /\ Begin(m + 1) \in Nat
  BY <1>1, BeginGrows
<1>3. March(qc, c, q, y) \in Int
  BY DEF IsYear, March
<1>4. MonthEnd(c, q, y, m) \in Int
  BY <1>2 DEF MonthEnd, YearLength
<1> QED
  BY <1>2, <1>3, <1>4 DEF DateOf

\* A day later in the same month.
LEMMA SameMonth ==
    ASSUME NEW d \in Nat, NEW qc, NEW c, NEW q, NEW y, NEW m, NEW r,
           Stands(d, qc, c, q, y, m, r), r + 1 < MonthEnd(c, q, y, m)
    PROVE  /\ Stands(d + 1, qc, c, q, y, m, r + 1)
           /\ Tomorrow(DateOf(qc, c, q, y, m, r)) = DateOf(qc, c, q, y, m, r + 1)
<1>1. /\ IsYear(qc, c, q, y) /\ r \in Nat /\ r + 1 \in Nat /\ m \in 0..11
      /\ Begin(m) <= r /\ r < Begin(m + 1) /\ Begin(m) \in Nat
  BY BeginGrows DEF Stands
<1>2. r + 1 < YearLength(c, q, y) /\ r + 1 < Begin(m + 1)
  <2>1. CASE m = 11
    BY <1>1, <2>1, BeginIs DEF MonthEnd, YearLength
  <2>2. CASE m # 11
    <3>1. Begin(m + 1) <= 337 /\ Begin(m + 1) \in Nat
      <4>1. m + 1 \in 0..12 /\ 11 \in 0..12 /\ m + 1 <= 11
        BY <1>1, <2>2
      <4> QED
        BY <4>1, BeginGrows, BeginIs
    <3>2. r + 1 < Begin(m + 1)
      BY <2>2 DEF MonthEnd
    <3> QED
      BY <1>1, <3>1, <3>2 DEF YearLength
  <2> QED
    BY <2>1, <2>2
<1>3. Stands(d + 1, qc, c, q, y, m, r + 1)
  <2>1. (d + 1) - 60 = DAYS_PER_400Y * qc + In400(c, q, y, r + 1)
    <3>1. d - 60 = DAYS_PER_400Y * qc + In400(c, q, y, r)
      BY DEF Stands
    <3> QED
      BY <1>1, <3>1 DEF IsYear, In400, In100, In4, DAYS_PER_400Y
  <2> QED
    BY <1>1, <1>2, <2>1 DEF Stands
<1>4. PICK e \in Int, n \in Int, March0 \in Int :
          /\ e = r - Begin(m) + 1 /\ n = MonthEnd(c, q, y, m) - Begin(m)
          /\ March0 = March(qc, c, q, y)
  <2>1. /\ r - Begin(m) + 1 \in Int /\ MonthEnd(c, q, y, m) \in Int
        /\ March(qc, c, q, y) \in Int
    BY <1>1, DateIs
  <2>2. MonthEnd(c, q, y, m) - Begin(m) \in Int
    BY <1>1, <2>1
  <2> QED
    BY <2>1, <2>2
<1>5. e < n /\ (r + 1) - Begin(m) + 1 = e + 1
  <2>1. MonthEnd(c, q, y, m) \in Int
    BY <1>1, DateIs
  <2> QED
    BY <1>1, <1>4, <2>1
<1>6. CASE m < 10
  <2>1. DaysIn(March0, m + 3) = n
    BY <1>1, <1>4, <1>6, MonthLength
  <2>2. Tomorrow(<<March0, m + 3, e>>) = <<March0, m + 3, e + 1>>
    <3>1. m + 3 \in Int /\ e < DaysIn(March0, m + 3) /\ DaysIn(March0, m + 3) \in Int
      BY <1>1, <1>5, <2>1
    <3> QED
      BY <3>1, TomorrowIs
  <2>3. DateOf(qc, c, q, y, m, r) = <<March0, m + 3, e>>
    BY <1>1, <1>4, <1>6, DateIs
  <2>4. DateOf(qc, c, q, y, m, r + 1) = <<March0, m + 3, e + 1>>
    BY <1>1, <1>4, <1>5, <1>6, DateIs
  <2> QED
    BY <1>3, <2>2, <2>3, <2>4, Zenon
<1>7. CASE ~(m < 10)
  <2>1. DaysIn(March0 + 1, m - 9) = n
    BY <1>1, <1>4, <1>7, MonthLength
  <2>2. Tomorrow(<<March0 + 1, m - 9, e>>) = <<March0 + 1, m - 9, e + 1>>
    BY <1>1, <1>5, <2>1, TomorrowIs
  <2>3. DateOf(qc, c, q, y, m, r) = <<March0 + 1, m - 9, e>>
    BY <1>1, <1>4, <1>7, DateIs
  <2>4. DateOf(qc, c, q, y, m, r + 1) = <<March0 + 1, m - 9, e + 1>>
    BY <1>1, <1>4, <1>5, <1>7, DateIs
  <2> QED
    BY <1>3, <2>2, <2>3, <2>4, Zenon
<1> QED
  BY <1>6, <1>7

\* The first of the next month.
LEMMA NextMonth ==
    ASSUME NEW d \in Nat, NEW qc, NEW c, NEW q, NEW y, NEW m, NEW r,
           Stands(d, qc, c, q, y, m, r), m # 11, r + 1 = Begin(m + 1)
    PROVE  /\ Stands(d + 1, qc, c, q, y, m + 1, r + 1)
           /\ Tomorrow(DateOf(qc, c, q, y, m, r)) = DateOf(qc, c, q, y, m + 1, r + 1)
<1>1. /\ IsYear(qc, c, q, y) /\ r \in Nat /\ r + 1 \in Nat /\ m \in 0..10 /\ m \in 0..11
      /\ m + 1 \in 0..11 /\ Begin(m) \in Nat /\ m + 1 \in 0..12
  BY BeginGrows DEF Stands
<1>2. /\ Begin(m + 1) < Begin((m + 1) + 1) /\ Begin(m + 1) <= 337
  BY <1>1, BeginIs
<1>3. Stands(d + 1, qc, c, q, y, m + 1, r + 1)
  <2>1. (d + 1) - 60 = DAYS_PER_400Y * qc + In400(c, q, y, r + 1)
    <3>1. d - 60 = DAYS_PER_400Y * qc + In400(c, q, y, r)
      BY DEF Stands
    <3> QED
      BY <1>1, <3>1 DEF IsYear, In400, In100, In4, DAYS_PER_400Y
  <2>2. r + 1 < YearLength(c, q, y)
    BY <1>1, <1>2 DEF YearLength
  <2> QED
    BY <1>1, <1>2, <2>1, <2>2 DEF Stands
<1>4. PICK e \in Int, March0 \in Int : e = r - Begin(m) + 1 /\ March0 = March(qc, c, q, y)
  BY <1>1, DateIs
<1>5. e = MonthEnd(c, q, y, m) - Begin(m) /\ (r + 1) - Begin(m + 1) + 1 = 1
  <2>1. MonthEnd(c, q, y, m) = r + 1 /\ Begin(m + 1) = r + 1
    BY DEF MonthEnd
  <2> QED
    BY <1>1, <1>4, <2>1
<1>6. CASE m < 9
  <2>1. DaysIn(March0, m + 3) = e
    BY <1>1, <1>4, <1>5, <1>6, MonthLength
  <2>2. Tomorrow(<<March0, m + 3, e>>) = <<March0, (m + 3) + 1, 1>>
    BY <1>1, <1>6, <2>1, TomorrowIs
  <2>3. DateOf(qc, c, q, y, m, r) = <<March0, m + 3, e>>
    BY <1>1, <1>4, <1>6, DateIs
  <2>4. DateOf(qc, c, q, y, m + 1, r + 1) = <<March0, (m + 3) + 1, 1>>
    BY <1>1, <1>4, <1>5, <1>6, DateIs
  <2> QED
    BY <1>3, <2>2, <2>3, <2>4, Zenon
<1>7. CASE m = 9
  <2>1. DaysIn(March0, 12) = e
    BY <1>1, <1>4, <1>5, <1>7, MonthLength
  <2>2. Tomorrow(<<March0, 12, e>>) = <<March0 + 1, 1, 1>>
    BY <1>1, <2>1, TomorrowIs
  <2>3. DateOf(qc, c, q, y, m, r) = <<March0, 12, e>>
    BY <1>1, <1>4, <1>7, DateIs
  <2>4. DateOf(qc, c, q, y, m + 1, r + 1) = <<March0 + 1, 1, 1>>
    BY <1>1, <1>4, <1>5, <1>7, DateIs
  <2> QED
    BY <1>3, <2>2, <2>3, <2>4, Zenon
<1>8. CASE m = 10
  <2>1. DaysIn(March0 + 1, 1) = e
    BY <1>1, <1>4, <1>5, <1>8, MonthLength
  <2>2. Tomorrow(<<March0 + 1, 1, e>>) = <<March0 + 1, 2, 1>>
    BY <1>1, <2>1, TomorrowIs
  <2>3. DateOf(qc, c, q, y, m, r) = <<March0 + 1, 1, e>>
    BY <1>1, <1>4, <1>8, DateIs
  <2>4. DateOf(qc, c, q, y, m + 1, r + 1) = <<March0 + 1, 2, 1>>
    BY <1>1, <1>4, <1>5, <1>8, DateIs
  <2> QED
    BY <1>3, <2>2, <2>3, <2>4, Zenon
<1> QED
  BY <1>1, <1>6, <1>7, <1>8

\* The day of the first of March.
MarchDay(qc, c, q, y) == 60 + 146097 * qc + 36524 * c + 1461 * q + 365 * y

\* The day stands at the beginning of its year.
LEMMA FirstOfMarch ==
    ASSUME NEW d, NEW qc \in Int, NEW c \in 0..3, NEW q \in 0..24, NEW y \in 0..3, qc >= -1,
           d = MarchDay(qc, c, q, y)
    PROVE  Stands(d, qc, c, q, y, 0, 0)
<1>1. d - 60 = DAYS_PER_400Y * qc + In400(c, q, y, 0)
  BY DEF MarchDay, In400, In100, In4, DAYS_PER_400Y
<1>2. IsYear(qc, c, q, y)
  BY DEF IsYear
<1>3. 0 < YearLength(c, q, y)
  BY DEF YearLength
<1>4. Begin(0) <= 0 /\ 0 < Begin(0 + 1)
  BY BeginIs
<1> QED
  BY <1>1, <1>2, <1>3, <1>4 DEF Stands

\* The first of March, in the next year of its cycle of four, in the next cycle of four of its
\* century, in the next century of its cycle, or in the next cycle of 400 years.
LEMMA NextMarch ==
    ASSUME NEW d \in Nat, NEW qc, NEW c, NEW q, NEW y, NEW r,
           Stands(d, qc, c, q, y, 11, r), r + 1 = YearLength(c, q, y)
    PROVE  \E qc1, c1, q1, y1 : /\ Stands(d + 1, qc1, c1, q1, y1, 0, 0)
                                /\ March(qc1, c1, q1, y1) = March(qc, c, q, y) + 1
<1>1. IsYear(qc, c, q, y) /\ r \in Nat /\ d - 60 = DAYS_PER_400Y * qc + In400(c, q, y, r)
  BY DEF Stands
<1>2. /\ qc \in Int /\ c \in Int /\ q \in Int /\ y \in Int /\ qc >= -1
      /\ c >= 0 /\ c <= 3 /\ q >= 0 /\ q <= 24 /\ y >= 0 /\ y <= 3
  BY <1>1 DEF IsYear
<1>3. d = MarchDay(qc, c, q, y) + r
  BY <1>1, <1>2 DEF MarchDay, In400, In100, In4, DAYS_PER_400Y
<1>4. CASE y < 3
  <2>1. r + 1 = 365
    BY <1>2, <1>4 DEF YearLength, EndsLeap
  <2>2. /\ y + 1 \in 0..3 /\ c \in 0..3 /\ q \in 0..24
        /\ d + 1 = MarchDay(qc, c, q, y + 1)
        /\ March(qc, c, q, y + 1) = March(qc, c, q, y) + 1
    BY <1>1, <1>2, <1>3, <1>4, <2>1 DEF March, MarchDay
  <2>3. Stands(d + 1, qc, c, q, y + 1, 0, 0)
    BY <1>2, <2>2, FirstOfMarch
  <2> QED
    BY <2>2, <2>3
<1>5. CASE y = 3 /\ q < 24
  <2>1. r + 1 = 366
    BY <1>2, <1>5 DEF YearLength, EndsLeap
  <2>2. /\ q + 1 \in 0..24 /\ c \in 0..3 /\ 0 \in 0..3
        /\ d + 1 = MarchDay(qc, c, q + 1, 0)
        /\ March(qc, c, q + 1, 0) = March(qc, c, q, y) + 1
    BY <1>1, <1>2, <1>3, <1>5, <2>1 DEF March, MarchDay
  <2>3. Stands(d + 1, qc, c, q + 1, 0, 0, 0)
    BY <1>2, <2>2, FirstOfMarch
  <2> QED
    BY <2>2, <2>3
<1>6. CASE y = 3 /\ q = 24 /\ c < 3
  <2>1. r + 1 = 365
    BY <1>2, <1>6 DEF YearLength, EndsLeap
  <2>2. /\ c + 1 \in 0..3 /\ 0 \in 0..24 /\ 0 \in 0..3
        /\ d + 1 = MarchDay(qc, c + 1, 0, 0)
        /\ March(qc, c + 1, 0, 0) = March(qc, c, q, y) + 1
    BY <1>1, <1>2, <1>3, <1>6, <2>1 DEF March, MarchDay
  <2>3. Stands(d + 1, qc, c + 1, 0, 0, 0, 0)
    BY <1>2, <2>2, FirstOfMarch
  <2> QED
    BY <2>2, <2>3
<1>7. CASE y = 3 /\ q = 24 /\ c = 3
  <2>1. r + 1 = 366
    BY <1>2, <1>7 DEF YearLength, EndsLeap
  <2>2. /\ qc + 1 \in Int /\ qc + 1 >= -1 /\ 0 \in 0..24 /\ 0 \in 0..3
        /\ d + 1 = MarchDay(qc + 1, 0, 0, 0)
        /\ March(qc + 1, 0, 0, 0) = March(qc, c, q, y) + 1
    BY <1>1, <1>2, <1>3, <1>7, <2>1 DEF March, MarchDay
  <2>3. Stands(d + 1, qc + 1, 0, 0, 0, 0, 0)
    BY <2>2, FirstOfMarch
  <2> QED
    BY <2>2, <2>3
<1> QED
  BY <1>2, <1>4, <1>5, <1>6, <1>7

\* The next day in the cycles is the next day of the calendar.
LEMMA TomorrowIsDated ==
    ASSUME NEW d \in Nat, NEW date, Dated(d, date)
    PROVE  Dated(d + 1, Tomorrow(date))
<1>1. PICK qc, c, q, y, m, r : Stands(d, qc, c, q, y, m, r) /\ date = DateOf(qc, c, q, y, m, r)
  BY Zenon DEF Dated
<1>2. /\ IsYear(qc, c, q, y) /\ r \in Nat /\ r < YearLength(c, q, y)
      /\ m \in 0..11 /\ Begin(m) <= r /\ r < Begin(m + 1)
  BY <1>1, Zenon DEF Stands
<1>3. CASE r + 1 < MonthEnd(c, q, y, m)
  <2>1. /\ Stands(d + 1, qc, c, q, y, m, r + 1)
        /\ Tomorrow(DateOf(qc, c, q, y, m, r)) = DateOf(qc, c, q, y, m, r + 1)
    BY <1>1, <1>3, SameMonth
  <2> QED
    BY <1>1, <2>1, ItsDate, Zenon
<1>4. CASE m # 11 /\ ~(r + 1 < MonthEnd(c, q, y, m))
  <2>1. r + 1 = Begin(m + 1)
    <3>1. Begin(m + 1) \in Nat
      BY <1>2, BeginGrows
    <3> QED
      BY <1>2, <1>4, <3>1 DEF MonthEnd
  <2>2. /\ Stands(d + 1, qc, c, q, y, m + 1, r + 1)
        /\ Tomorrow(DateOf(qc, c, q, y, m, r)) = DateOf(qc, c, q, y, m + 1, r + 1)
    BY <1>1, <1>4, <2>1, NextMonth
  <2> QED
    BY <1>1, <2>2, ItsDate, Zenon
<1>5. CASE m = 11 /\ ~(r + 1 < MonthEnd(c, q, y, m))
  <2>1. r + 1 = YearLength(c, q, y)
    BY <1>2, <1>5 DEF MonthEnd, YearLength
  <2>2. Stands(d, qc, c, q, y, 11, r)
    BY <1>1, <1>5
  <2>3. \E qc1, c1, q1, y1 : /\ Stands(d + 1, qc1, c1, q1, y1, 0, 0)
                             /\ March(qc1, c1, q1, y1) = March(qc, c, q, y) + 1
    BY <2>1, <2>2, NextMarch
  <2>4. PICK qc1, c1, q1, y1 : /\ Stands(d + 1, qc1, c1, q1, y1, 0, 0)
                               /\ March(qc1, c1, q1, y1) = March(qc, c, q, y) + 1
    BY <2>3, Zenon
  <2>5. PICK March0 \in Int : March0 = March(qc, c, q, y)
    BY <1>2, DateIs
  <2>6. PICK e \in Int : e = r - Begin(11) + 1
    BY <1>2, BeginIs
  <2>7. DaysIn(March0 + 1, 2) = e
    <3>1. MonthEnd(c, q, y, 11) = r + 1
      BY <2>1 DEF MonthEnd
    <3>2. DaysIn(March0 + 1, 11 - 9) = MonthEnd(c, q, y, 11) - Begin(11)
      BY <1>2, <2>5, MonthLength
    <3>3. e = MonthEnd(c, q, y, 11) - Begin(11)
      BY <1>2, <2>6, <3>1, BeginIs
    <3> QED
      BY <3>2, <3>3
  <2>8. date = <<March0 + 1, 2, e>>
    BY <1>1, <1>2, <1>5, <2>5, <2>6, DateIs
  <2>9. Tomorrow(date) = <<March0 + 1, 3, 1>>
    BY <2>7, <2>8, TomorrowIs
  <2>10. DateOf(qc1, c1, q1, y1, 0, 0) = <<March0 + 1, 3, 1>>
    <3>1. IsYear(qc1, c1, q1, y1)
      BY <2>4 DEF Stands
    <3> QED
      BY <2>4, <2>5, <3>1, DateIs, BeginIs
  <2> QED
    BY <2>4, <2>9, <2>10, ItsDate, Zenon
<1> QED
  BY <1>3, <1>4, <1>5

-----------------------------------------------------------------------------
(* The theorem of the times.                                               *)

\* The inductive invariant: the date is that of where the day stands in the cycles.
Calendar == day \in Nat /\ Dated(day, civil)

\* Every time a field can have is shown as the date of the calendar and the time of the day
\* (ripple_epoch_to_tm and print_time): the quotients of cycles of 400, 100, 4 and 1 years and
\* the loop over the months give the date reached by the calendar's own rule day by day.
THEOREM TimesAreCivil == TimeSpec => []TimeIsCivil
<1>1. TimeInit => Calendar
  BY Epoch DEF TimeInit, Calendar
<1>2. Calendar /\ [TimeNext]_timeVars => Calendar'
  <2> SUFFICES ASSUME Calendar, [TimeNext]_timeVars PROVE Calendar'
    OBVIOUS
  <2>1. CASE NextDay
    <3>1. PICK d, date, d1, date1 : d = day /\ date = civil /\ d1 = day' /\ date1 = civil'
      OBVIOUS
    <3>2. d1 = d + 1 /\ date1 = Tomorrow(date)
      BY <2>1, <3>1 DEF NextDay
    <3>3. d \in Nat /\ Dated(d, date)
      BY <3>1 DEF Calendar
    <3>4. Dated(d1, date1)
      BY <3>2, <3>3, TomorrowIsDated
    <3> QED
      BY <3>1, <3>2, <3>4 DEF Calendar
  <2>2. CASE UNCHANGED timeVars
    BY <2>2 DEF Calendar, timeVars
  <2> QED
    BY <2>1, <2>2 DEF TimeNext
<1>3. Calendar => TimeIsCivil
  <2> SUFFICES ASSUME Calendar, NEW s \in Seconds PROVE IsShown(day, s, civil)
    BY DEF TimeIsCivil, IsShown, TimeOf
  <2>1. PICK qc, c, q, y, m, r :
            Stands(day, qc, c, q, y, m, r) /\ civil = DateOf(qc, c, q, y, m, r)
    BY Zenon DEF Calendar, Dated
  <2>2. s \in SecondsOfDay
    BY TimeAssumption, Zenon
  <2>3. PICK d \in Nat : d = day
    BY DEF Calendar
  <2>4. Stands(d, qc, c, q, y, m, r)
    BY <2>1, <2>3, Zenon
  <2>5. IsShown(d, s, DateOf(qc, c, q, y, m, r))
    BY <2>2, <2>4, TimeIs, Zenon
  <2> QED
    BY <2>1, <2>3, <2>5, Zenon
<1> QED
  BY <1>1, <1>2, <1>3, PTL DEF TimeSpec

=============================================================================
