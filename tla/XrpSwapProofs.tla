---------------------------- MODULE XrpSwapProofs ----------------------------
(***************************************************************************)
(* The proof that what is signed for a swap is the payment that was agreed *)
(* to, and that the agreed payment is signed, for every set of tokens and  *)
(* agreements and streams of any length.  Six rows are compared, whatever  *)
(* the stream is: every row is traced to the token it was read from, and   *)
(* every token with something to say to a row.                             *)
(***************************************************************************)
EXTENDS XrpSwap, XrpReviewProofs, XrpPrintProofs

-----------------------------------------------------------------------------
(* What a token says wherever it stands.                                   *)

Good(t) == t \in Token /\ ~Malformed(t) /\ t.data_type \in Readables

\* Tokens of which nothing is left out have rows of their own.
Voices(t) ==
    /\ t.data_type \notin {"ARRAY", "OBJECT", "PATHSET"}
    /\ ~Is(t, "STEP", "NEXT") /\ ~Is(t, "STEP", "END")

LEMMA SpelledVoices ==
    ASSUME NEW t, Good(t), NEW place
    PROVE  Spelled(t, place) = << >> <=> ~Voices(t) \/ Unshown(t, place)
<1> DEFINE spelled == Spelled(t, place)
<1>0. t \in Token
  BY DEF Good
<1>1. CASE t.data_type \in {"ARRAY", "OBJECT", "PATHSET"}
  BY <1>0, <1>1, SpelledIs DEF Voices
<1>2. CASE t.data_type = "STEP"
  <2>1. t.id \in {"NEXT", "END", "ACCOUNT", "ISSUER", "CURRENCY", "CURRENCY_ISSUER"}
    BY <1>0, <1>2, TokenAssumption DEF StepKinds, Malformed, Good
  <2>2. CASE t.id \in {"NEXT", "END"}
    BY <1>0, <1>2, <2>2, SpelledIs DEF Voices, Is
  <2>3. CASE t.id \notin {"NEXT", "END"}
    <3>1. Voices(t) /\ ~Unshown(t, place)
      BY <1>0, <1>2, <2>3, SpelledIs DEF Voices, Is
    <3>2. spelled \in {<<AccountRow(place)>>, <<IssuerRow(place)>>, <<CurrencyRow(place)>>,
                       <<CurrencyRow(place), IssuerRow(place)>>}
      BY <1>0, <1>2, <2>1, <2>3, SpelledIs DEF Is
    <3> QED
      BY <3>1, <3>2
  <2> QED
    BY <2>2, <2>3
<1>3. CASE t.data_type = "VECTOR256"
  <2>1. Voices(t) /\ ~Unshown(t, place)
    BY <1>0, <1>3, SpelledIs DEF Voices, Is
  <2>2. spelled = <<SelfRow(t, place)>> \o Entries(t, place)
    BY <1>0, <1>3, SpelledIs
  <2>3. Entries(t, place) \in Seq({EntryRow(t, place, n) : n \in Nat})
    <3> DEFINE R == {EntryRow(t, place, n) : n \in Nat}
               m == t.length \div Vector256Size
    <3>1. m \in Nat
      BY <1>0, TokenAssumption DEF Vector256Size
    <3>2. \A n \in 1..m : EntryRow(t, place, n) \in R
      BY <3>1
    <3>3. Entries(t, place) = [n \in 1..m |-> EntryRow(t, place, n)]
      BY DEF Entries
    <3> HIDE DEF m, R
    <3> QED
      BY <3>1, <3>2, <3>3
  <2>4. <<SelfRow(t, place)>> \o Entries(t, place) # << >>
    <3> DEFINE S == {EntryRow(t, place, n) : n \in Nat} \cup {SelfRow(t, place)}
               e == Entries(t, place)
               self == SelfRow(t, place)
    <3>1. e \in Seq(S) /\ self \in S
      BY <2>3
    <3> HIDE DEF S, e, self
    <3>2. Len(<<self>> \o e) = 1 + Len(e) /\ Len(e) \in Nat
      BY <3>1
    <3> QED
      BY <3>2 DEF e, self
  <2> QED
    BY <2>1, <2>2, <2>4
<1>4. CASE t.data_type \in {"AMOUNT", "ISSUE"}
  <2>1. Voices(t) /\ ~Unshown(t, place)
    BY <1>0, <1>4, SpelledIs DEF Voices, Is
  <2>2. spelled \in {<<SelfRow(t, place)>>, <<SelfRow(t, place), IssuerRow(place)>>,
                     <<SelfRow(t, place), CurrencyRow(place), IssuerRow(place)>>}
    BY <1>0, <1>4, SpelledIs
  <2> QED
    BY <2>1, <2>2
<1>5. CASE t.data_type \in Scalars \cup {"ACCOUNT"}
  <2>1. Voices(t)
    BY <1>5 DEF Voices, Is, Scalars
  <2>2. spelled = IF Unshown(t, place) THEN << >> ELSE <<SelfRow(t, place)>>
    BY <1>0, <1>5, SpelledIs
  <2> QED
    BY <2>1, <2>2
<1> QED
  BY <1>1, <1>2, <1>3, <1>4, <1>5 DEF Good, Readables

\* A token that is silent in one place is silent outside of arrays.
LEMMA SilentOutside ==
    ASSUME NEW t, Good(t), NEW place, Spelled(t, place) = << >>
    PROVE  Spelled(t, NoArray) = << >>
BY SpelledVoices DEF Unshown, NoArray

\* The rows that are compared.
Compared ==
    {<<"UINT16", "TRANSACTION_TYPE">>, <<"ACCOUNT", "ACCOUNT">>, <<"UINT32", "DESTINATION_TAG">>,
     <<"AMOUNT", "AMOUNT">>, <<"AMOUNT", "FEE">>, <<"ACCOUNT", "DESTINATION">>}

\* They were read from tokens of their names, except for the account of a path step.
LEMMA ComparedRows ==
    ASSUME NEW t, Good(t), NEW place, NEW row \in Range(Spelled(t, place)),
           <<row.data_type, row.id>> \in Compared,
           t.data_type = "STEP" => place.type # "NONE",
           Is(row, "ACCOUNT", "ACCOUNT") => row.array_info.type = "NONE"
    PROVE  /\ Is(t, row.data_type, row.id) /\ t.value = row.value
           /\ Spelled(t, NoArray) # << >>
<1>1. Spelled(t, place) \in Seq(SpelledRows(t, place))
  BY SpelledTyped DEF Good
<1>2. row \in SpelledRows(t, place)
  BY <1>1 DEF Range
<1>3. row.array_info = place \/ row \in {EntryRow(t, place, n) : n \in Nat}
  BY <1>2 DEF SpelledRows, SelfRow, IssuerRow, CurrencyRow, AccountRow, Row
<1>4. row # IssuerRow(place) /\ row # CurrencyRow(place)
  BY DEF Compared, IssuerRow, CurrencyRow, Row
<1>5. \A n \in Nat : row # EntryRow(t, place, n)
  BY DEF Compared, EntryRow, Row
<1>6. ~(row = AccountRow(place) /\ t.data_type = "STEP")
  <2> SUFFICES ASSUME row = AccountRow(place), t.data_type = "STEP" PROVE FALSE
    OBVIOUS
  <2>1. Is(row, "ACCOUNT", "ACCOUNT") /\ row.array_info = place
    BY DEF Is, AccountRow, Row
  <2> QED
    BY <2>1
<1>7. row = SelfRow(t, place)
  BY <1>2, <1>4, <1>5, <1>6 DEF SpelledRows
<1>8. Is(t, row.data_type, row.id) /\ t.value = row.value
  BY <1>7 DEF SelfRow, Row, Is
<1>9. Spelled(t, place) # << >>
  BY DEF Range
<1>10. <<t.data_type, t.id>> \in Compared
  BY <1>8 DEF Is
<1>11. ~Unshown(t, NoArray)
  BY <1>10 DEF Compared, Unshown, HiddenOutsideArrays, is_flag_hidden, is_flag
<1> QED
  BY <1>8, <1>9, <1>11, SpelledVoices

-----------------------------------------------------------------------------
(* The brackets of any stream, sound or not.                               *)

LEMMA NowFollows ==
    ASSUME TypeOK, NEW t \in Token, Take(t)
    PROVE  Now \in Seq(Kinds) /\ Now' = Inside(Now, t) /\ Now' \in Seq(Kinds)
<1> DEFINE n == Len(input)
<1>1. /\ input \in Seq(Token) /\ n \in Nat /\ input' = Append(input, t)
      /\ input' \in Seq(Token) /\ Len(input') = n + 1
  BY DEF TypeOK, Take
<1>2. /\ Brackets \in [0..n -> Seq(Kinds)]
      /\ (\A k \in 0..n : Brackets'[k] = Brackets[k]) /\ Brackets'[n + 1] = Inside(Brackets[n], t)
  BY <1>1, BracketsOfInput, BracketsFollow, BracketsGrow
<1>3. Brackets' \in [0..n + 1 -> Seq(Kinds)]
  BY <1>1, BracketsOfInput, BracketsFollow
<1>4. Now = Brackets[n] /\ Now' = Brackets'[n + 1]
  BY <1>1 DEF Now
<1> HIDE DEF n
<1>5. n \in 0..n /\ n + 1 \in 0..n + 1
  BY <1>1
<1> QED
  BY <1>2, <1>3, <1>4, <1>5

\* The depth is at most the number of objects that are open, and the current array is open.
Standing ==
    verdict = "parsing" =>
        /\ context.object_depth \in 0..OpenIn(Now)
        /\ context.current_array \notin {"NONE", "PATHSET"} => "ARRAY" \in Range(Now)

LEMMA StandingStep ==
    ASSUME TypeOK, Standing, NEW t \in Token, Effects(t)
    PROVE  Standing'
<1>1. /\ Take(t) /\ verdict = "parsing"
      /\ context'.object_depth = DepthAfter(context, t)
      /\ context'.current_array \in ArrayAfter(context, t)
  BY DEF Effects, Take
<1>2. Now \in Seq(Kinds) /\ Now' = Inside(Now, t) /\ Now' \in Seq(Kinds)
  BY <1>1, NowFollows
<1>3. /\ context.object_depth \in 0..OpenIn(Now) /\ OpenIn(Now) \in Nat
      /\ context.current_array \notin {"NONE", "PATHSET"} => "ARRAY" \in Range(Now)
  BY <1>1, <1>2, OpenInType DEF Standing
<1> SUFFICES /\ context'.object_depth \in 0..OpenIn(Now')
             /\ context'.current_array \notin {"NONE", "PATHSET"} => "ARRAY" \in Range(Now')
  BY DEF Standing, OpenIn, ObjectsIn
<1>4. CASE t.data_type \notin {"ARRAY", "OBJECT"}
  BY <1>1, <1>2, <1>3, <1>4 DEF Inside, DepthAfter, ArrayAfter
<1>5. CASE t.data_type = "ARRAY" /\ t.id # "END"
  <2>1. Now' = Append(Now, "ARRAY") /\ "ARRAY" \in Kinds
    BY <1>2, <1>5 DEF Inside, Kinds
  <2>2. OpenIn(Now') = OpenIn(Now) /\ Range(Now') = Range(Now) \cup {"ARRAY"}
    BY <1>2, <1>3, <2>1, OpenInAppend, AppendRange
  <2> QED
    BY <1>1, <1>3, <1>5, <2>2 DEF DepthAfter
<1>6. CASE t.data_type = "OBJECT" /\ t.id # "END"
  <2>1. Now' = Append(Now, "OBJECT") /\ "OBJECT" \in Kinds
    BY <1>2, <1>6 DEF Inside, Kinds
  <2>2. OpenIn(Now') = OpenIn(Now) + 1 /\ Range(Now') = Range(Now) \cup {"OBJECT"}
    BY <1>2, <2>1, OpenInAppend, AppendRange
  <2>3. context'.object_depth = (context.object_depth + 1) % DepthModulus
    BY <1>1, <1>6 DEF DepthAfter
  <2>4. DepthModulus \in Nat \ {0} /\ context.object_depth \in Nat
    BY <1>3, LimitAssumption
  <2>5. (context.object_depth + 1) % DepthModulus \in 0..context.object_depth + 1
    <3> HIDE DEF Now
    <3>1. \A d \in Nat, m \in Nat \ {0} : d % m \in 0..d
      OBVIOUS
    <3> QED
      BY <2>4, <3>1
  <2>6. context'.current_array \in {context.current_array, "NONE", "PATHSET"}
    BY <1>1, <1>6 DEF ArrayAfter
  <2> QED
    BY <1>3, <2>2, <2>3, <2>4, <2>5, <2>6
<1>7. CASE t.data_type \in {"ARRAY", "OBJECT"} /\ t.id = "END"
           /\ ~(Now # << >> /\ Last(Now) = t.data_type)
  <2>1. Now' = Append(Now, "broken") /\ "broken" \in Kinds
    BY <1>2, <1>7 DEF Inside, Kinds
  <2>2. OpenIn(Now') = OpenIn(Now) /\ Range(Now') = Range(Now) \cup {"broken"}
    BY <1>2, <1>3, <2>1, OpenInAppend, AppendRange
  <2>3. context'.object_depth \in 0..OpenIn(Now)
    BY <1>1, <1>3, <1>7 DEF DepthAfter
  <2>4. context'.current_array \in {context.current_array, "NONE", "PATHSET"}
    BY <1>1, <1>7 DEF ArrayAfter
  <2> QED
    BY <1>3, <2>2, <2>3, <2>4
<1>8. CASE t.data_type \in {"ARRAY", "OBJECT"} /\ t.id = "END"
           /\ Now # << >> /\ Last(Now) = t.data_type
  <2>1. Now' = Front(Now)
    BY <1>2, <1>8 DEF Inside
  <2>2. /\ OpenIn(Now) = OpenIn(Now') + (IF t.data_type = "OBJECT" THEN 1 ELSE 0)
        /\ OpenIn(Now') \in Nat
    BY <1>2, <1>8, <2>1, OpenInFront, OpenInType
  <2>3. Range(Now) = Range(Now') \cup {t.data_type}
    <3>1. Front(Now) \in Seq(Kinds) /\ Last(Now) \in Kinds /\ Now = Append(Front(Now), Last(Now))
      BY <1>2, <1>8, FrontAndLast
    <3>2. Range(Append(Front(Now), Last(Now))) = Range(Front(Now)) \cup {Last(Now)}
      BY <3>1, AppendRange
    <3> QED
      BY <1>8, <2>1, <3>1, <3>2
  <2>4. CASE t.data_type = "ARRAY"
    BY <1>1, <1>3, <1>8, <2>2, <2>4 DEF DepthAfter, ArrayAfter
  <2>5. CASE t.data_type = "OBJECT"
    <3>1. context'.object_depth = IF context.object_depth > 0 THEN context.object_depth - 1 ELSE 0
      BY <1>1, <1>8, <2>5 DEF DepthAfter
    <3>2. context'.current_array \in {context.current_array, "NONE", "PATHSET"}
      BY <1>1, <2>5 DEF ArrayAfter
    <3>3. context'.object_depth \in 0..OpenIn(Now')
      BY <1>3, <2>2, <2>5, <3>1
    <3> QED
      BY <1>3, <2>3, <2>5, <3>2, <3>3
  <2> QED
    BY <1>8, <2>4, <2>5
<1> QED
  BY <1>4, <1>5, <1>6, <1>7, <1>8

\* While nothing but tokens is read, every type is that of the transaction, as far as the
\* stream is sound, and the one that is trusted is one of the stream.
TypesTold ==
    verdict = "parsing" =>
        /\ context.transaction_type # "INVALID" =>
               \E k \in TransactionTypes : context.transaction_type = input[k].value
        /\ Sound => \A k \in TransactionTypes : OfTransaction(k)

LEMMA TypesToldStep ==
    ASSUME TypeOK, Nested, TypesTold, NEW t \in Token, Effects(t)
    PROVE  TypesTold'
<1> SUFFICES ASSUME verdict' = "parsing"
             PROVE  /\ context'.transaction_type # "INVALID" =>
                           \E k \in TransactionTypes' :
                               context'.transaction_type = input'[k].value
                    /\ Sound' => \A k \in TransactionTypes' : OfTransaction(k)'
  BY DEF TypesTold
<1>0. Take(t) /\ verdict = "parsing"
  BY DEF Effects, Take
<1>1. PICK m \in Nat : m = Len(input) + 1
  BY <1>0, TakePositions
<1>2. /\ Position' = Position \cup {m} /\ m \notin Position /\ input'[m] = t
      /\ \A k \in Position : input'[k] = input[k] /\ (OfTransaction(k)' <=> OfTransaction(k))
      /\ \A k \in Nat : k = m => (OfTransaction(k)' <=> Now = << >>)
  BY <1>1, <1>0, TakePositions
<1>3. TransactionTypes' = {k \in Position' : Is(input'[k], "UINT16", "TRANSACTION_TYPE")}
  BY DEF TransactionTypes
<1>4. Sound' => Sound
  BY <1>0, TakeSound
<1>5. \A k \in TransactionTypes : k \in Position
  BY DEF TransactionTypes
<1>6. CASE ~Is(t, "UINT16", "TRANSACTION_TYPE")
  <2>1. TransactionTypes' = TransactionTypes
    BY <1>2, <1>3, <1>6 DEF TransactionTypes
  <2>2. context'.transaction_type = context.transaction_type
    BY <1>6 DEF Effects
  <2> QED
    BY <1>0, <1>2, <1>4, <1>5, <2>1, <2>2 DEF TypesTold
<1>7. CASE Is(t, "UINT16", "TRANSACTION_TYPE")
  <2>1. TopLevel(FieldOf(context, t)) /\ context'.transaction_type = t.value
    BY <1>7 DEF Effects
  <2>2. Sound' => Now = << >>
    BY <1>0, <1>7, <2>1, OwnField DEF Is
  <2>3. TransactionTypes' = TransactionTypes \cup {m}
    BY <1>2, <1>3, <1>7 DEF TransactionTypes
  <2>4. Sound' => OfTransaction(m)'
    BY <1>1, <1>2, <2>2
  <2> QED
    BY <1>0, <1>2, <1>4, <1>5, <2>1, <2>3, <2>4 DEF TypesTold
<1> QED
  BY <1>6, <1>7

\* A reading that ends in the stream met a type of an object or an array, or another one.
EndedEarly ==
    \E k \in TransactionTypes : ~OfTransaction(k) \/ \E j \in TransactionTypes : j # k

LEMMA OwnRange ==
    ASSUME NEW S, NEW s \in Seq(S)
    PROVE  s \in Seq(Range(s))
<1>1. DOMAIN s = 1..Len(s) /\ Len(s) \in Nat /\ \A j \in 1..Len(s) : s[j] \in Range(s)
  BY DEF Range
<1>2. s = [j \in 1..Len(s) |-> s[j]]
  OBVIOUS
<1> QED
  BY <1>1, <1>2

LEMMA EndsWithAType ==
    ASSUME TypeOK, Standing, TypesTold, NEW t \in Token, Reads(t), verdict' = "BLIND_SIGN_REQUIRED"
    PROVE  /\ EndedEarly'
           /\ context'.fields # << >> /\ context'.fields \in Seq(Range(context'.fields))
           /\ Is(context'.fields[Len(context'.fields)], "UINT16", "TRANSACTION_TYPE")
<1>1. Effects(t)
  BY ReadsEffects DEF Going
<1>2. Take(t) /\ Is(t, "UINT16", "TRANSACTION_TYPE") /\ verdict = "parsing"
  BY <1>1 DEF Effects, Take
<1>3. ReadTransactionType(t)
  BY <1>2 DEF Reads, NoRoom, CutShort, Unsupported, Fail, ReadScalar, ReadAccount, ReadAmount,
              ReadIssue, ReadVector256, ReadArray, ReadObject, ReadPathSet, ReadPathStep, Begin,
              Is, is_transaction_type_field, FieldOf, NewField
<1>4. ~(TopLevel(FieldOf(context, t)) /\ context.transaction_type = "INVALID")
  BY <1>2, <1>3 DEF ReadTransactionType
<1>5. PICK m \in Nat : m = Len(input) + 1
  BY <1>2, TakePositions
<1>6. /\ Position' = Position \cup {m} /\ m \notin Position /\ input'[m] = t
      /\ \A j \in Position : input'[j] = input[j]
      /\ \A j \in Nat : j = m => (OfTransaction(j)' <=> Now = << >>)
  BY <1>2, <1>5, TakePositions
<1>7. TransactionTypes' = TransactionTypes \cup {m} /\ m \notin TransactionTypes
  BY <1>2, <1>6 DEF TransactionTypes
<1>8. EndedEarly'
  <2> SUFFICES ASSUME OfTransaction(m)' PROVE \E j \in TransactionTypes : TRUE
    BY <1>6, <1>7 DEF EndedEarly
  <2>1. Now = << >>
    BY <1>5, <1>6
  <2>2. OpenIn(Now) = 0 /\ Range(Now) = {}
    BY <2>1, OpenInNone DEF Range
  <2>3. context.object_depth = 0 /\ context.current_array = "NONE"
    BY <1>2, <2>2 DEF Standing, Take, Is
  <2>4. context.transaction_type # "INVALID"
    BY <1>4, <2>3, TopLevelField
  <2> QED
    BY <1>2, <2>4 DEF TypesTold
<1>9. /\ context'.fields = Append(context.fields, FieldOf(context, t))
      /\ context.fields \in Seq(ParsedFields)
  <2>1. context \in Contexts
    BY <1>2 DEF TypeOK, ContextOK
  <2> QED
    BY <1>3, <2>1 DEF ReadTransactionType, Contexts
<1>10. Is(FieldOf(context, t), "UINT16", "TRANSACTION_TYPE")
  BY <1>2, FieldOfParts DEF Is
<1>11. ASSUME NEW S, NEW s \in Seq(S), NEW e
       PROVE  /\ Append(s, e) # << >> /\ Append(s, e)[Len(Append(s, e))] = e
              /\ Append(s, e) \in Seq(Range(Append(s, e)))
  <2>1. s \in Seq(S \cup {e})
    OBVIOUS
  <2>2. Len(Append(s, e)) = Len(s) + 1 /\ Append(s, e)[Len(s) + 1] = e /\ Len(s) \in Nat
    BY <2>1
  <2>3. Append(s, e) \in Seq(S \cup {e})
    BY <2>1
  <2>4. Append(s, e) \in Seq(Range(Append(s, e)))
    BY <2>3, OwnRange
  <2> QED
    BY <2>2, <2>4
<1>12. /\ context'.fields # << >>
       /\ context'.fields[Len(context'.fields)] = FieldOf(context, t)
       /\ context'.fields \in Seq(Range(context'.fields))
  BY <1>9, <1>11
<1> QED
  BY <1>8, <1>10, <1>12

-----------------------------------------------------------------------------
(* Where the rows come from.                                               *)

\* Tokens of one row, two of which are never read into one.
Single(t) ==
    \/ t.data_type \in Scalars \cup {"ACCOUNT"}
    \/ t.data_type = "AMOUNT" /\ t.value \in NativeAmounts

\* Row j was read from token k, which stands in place.
Source(row, k, place) ==
    /\ row \in Range(Spelled(input[k], place))
    /\ input[k].data_type = "STEP" => place.type # "NONE"
    /\ place.type = "NONE" \/ input[k].data_type = "STEP" \/ "ARRAY" \in Range(Brackets[k - 1])

\* src names the token of every row; every token that says something has a row.
Traced(rows, src) ==
    /\ src \in [1..Len(rows) -> Position]
    /\ \A j \in 1..Len(rows) : \E place : Source(rows[j], src[j], place)
    /\ \A i, j \in 1..Len(rows) : i < j => src[i] < src[j] \/ (src[i] = src[j] /\ ~Single(input[src[i]]))
    /\ \A k \in Telling : \E j \in 1..Len(rows) : src[j] = k
    /\ Plain => \A k \in Position : Spelling[k] # << >> => \E j \in 1..Len(rows) : src[j] = k

RowsTraced == verdict = "parsing" => \E src : Traced(RowsOf(context.fields), src)

\* What the invariant says of a stream is not changed by the next token.
LEMMA SourceKept ==
    ASSUME TypeOK, NEW t \in Token, Take(t), NEW k \in Position, NEW row, NEW place,
           Source(row, k, place)
    PROVE  Source(row, k, place)'
<1>1. input'[k] = input[k] /\ k \in 1..Len(input) /\ Len(input) \in Nat
  BY TakePositions
<1>2. Brackets'[k - 1] = Brackets[k - 1]
  <2>1. input \in Seq(Token) /\ input' = Append(input, t)
    BY DEF TypeOK, Take
  <2>2. k - 1 \in 0..Len(input)
    BY <1>1
  <2> QED
    BY <2>1, <2>2, BracketsOfInput, BracketsGrow
<1> QED
  BY <1>1, <1>2 DEF Source

LEMMA SourceNext ==
    ASSUME TypeOK, Standing, NEW t \in Token, Take(t), NEW m \in Nat, m = Len(input) + 1,
           NEW place, place = ArrayInfo(context), NEW row \in Range(Spelled(t, place))
    PROVE  Source(row, m, place)'
<1>1. input'[m] = t /\ verdict = "parsing" /\ Len(input) \in Nat
  BY TakePositions DEF Take
<1>2. Brackets'[m - 1] = Now
  <2>1. input \in Seq(Token) /\ input' = Append(input, t)
    BY DEF TypeOK, Take
  <2>2. m - 1 = Len(input) /\ Len(input) \in 0..Len(input)
    BY <1>1
  <2> QED
    BY <2>1, <2>2, BracketsOfInput, BracketsGrow DEF Now
<1>3. place.type = context.current_array
  BY DEF ArrayInfo, NoArray
<1>4. t.data_type = "STEP" <=> place.type = "PATHSET"
  BY <1>3 DEF Take
<1>5. place.type \notin {"NONE", "PATHSET"} => "ARRAY" \in Range(Now)
  BY <1>1, <1>3 DEF Standing
<1> QED
  BY <1>1, <1>2, <1>4, <1>5 DEF Source

\* The places of a stream that goes on, and what stands there.
LEMMA TellingMore ==
    ASSUME TypeOK, NEW t \in Token, Take(t), NEW m \in Nat, m = Len(input) + 1
    PROVE  Telling' = Telling \cup {k \in {m} : Spelled(t, NoArray) # << >>}
<1>1. /\ Position' = Position \cup {m} /\ m \notin Position /\ input'[m] = t
      /\ \A k \in Position : input'[k] = input[k]
  BY TakePositions
<1>2. Telling' = {k \in Position' : Spelled(input'[k], NoArray) # << >>}
  BY DEF Telling
<1> QED
  BY <1>1, <1>2 DEF Telling

\* A token of one row has no more of them.
LEMMA SingleIs ==
    ASSUME NEW t, Good(t), Single(t), NEW place
    PROVE  Spelled(t, place) = << >> \/ Spelled(t, place) = <<SelfRow(t, place)>>
<1>1. t \in Token
  BY DEF Good
<1>2. CASE t.data_type \in Scalars \cup {"ACCOUNT"}
  BY <1>1, <1>2, SpelledIs
<1>3. CASE t.data_type = "AMOUNT" /\ t.value \in NativeAmounts
  <2>1. t.value \notin {"issued", "nonstandard"}
    BY <1>3, AmountAssumption
  <2> QED
    BY <1>1, <1>3, <2>1, SpelledIs
<1> QED
  BY <1>2, <1>3 DEF Single

LEMMA SpellingMore ==
    ASSUME TypeOK, Numbered, NEW t \in Token, Take(t), Plain', NEW m \in Nat, m = Len(input) + 1
    PROVE  /\ Plain /\ \A k \in Position : Spelling'[k] = Spelling[k]
           /\ Spelling'[m] = Spelled(t, ArrayInfo(context))
<1>1. /\ Position' = Position \cup {m} /\ m \notin Position /\ input'[m] = t
      /\ \A k \in Position : input'[k] = input[k]
  BY TakePositions
<1>2. Plain
  BY TakeFlat
<1>3. Spelling' = [k \in Position' |-> Spelled(input'[k], Place(k)')]
  BY DEF Spelling
<1>4. ASSUME NEW k \in Position PROVE Spelling'[k] = Spelling[k]
  BY <1>1, <1>3, PlaceKept DEF Spelling
<1>5. Spelling'[m] = Spelled(t, Place(m)')
  BY <1>1, <1>3
<1>6. Spelled(t, Place(m)') = Spelled(t, ArrayInfo(context))
  BY PlaceNext
<1> QED
  BY <1>2, <1>4, <1>5, <1>6

LEMMA RowsTracedStep ==
    ASSUME TypeOK, TypeOK', Numbered, GoodSoFar, Standing, RowsTraced, NEW t \in Token, Writes(t)
    PROVE  RowsTraced'
<1>0. /\ Take(t) /\ verdict = "parsing" /\ Good(t)
      /\ RowsOf(context'.fields) = RowsOf(context.fields) \o Spelled(t, ArrayInfo(context))
  BY DEF Writes, Take, Good
<1>1. PICK m \in Nat : m = Len(input) + 1
  BY <1>0, TakePositions
<1>2. /\ Len(input) \in Nat /\ Position = 1..Len(input)
      /\ Position' = Position \cup {m} /\ m \notin Position /\ input'[m] = t
      /\ \A k \in Position : input'[k] = input[k] /\ k \in Nat /\ k < m
  BY <1>1, <1>0, TakePositions
<1>3. PICK place : place = ArrayInfo(context)
  OBVIOUS
<1>4. PICK rows : rows = RowsOf(context.fields)
  OBVIOUS
<1>5. PICK src : Traced(rows, src)
  BY <1>0, <1>4 DEF RowsTraced
<1> DEFINE new == Spelled(t, place)
           S == {RowOf(f) : f \in ParsedFields} \cup SpelledRows(t, place)
           all == rows \o new
           n == Len(rows)
           l == Len(new)
           more == [j \in 1..n + l |-> IF j <= n THEN src[j] ELSE m]
<1>6. rows \in Seq(S) /\ new \in Seq(S)
  <2>1. context.fields \in Seq(ParsedFields)
    BY <1>0 DEF TypeOK, ContextOK, Contexts
  <2>2. rows \in Seq({RowOf(f) : f \in ParsedFields})
    BY <1>4, <2>1, RowsOfTyped
  <2>3. new \in Seq(SpelledRows(t, place))
    BY <1>0, SpelledTyped DEF Good
  <2> QED
    BY <2>2, <2>3
<1>7. RowsOf(context'.fields) = all
  BY <1>0, <1>3, <1>4
<1> HIDE DEF S
<1>8. /\ n \in Nat /\ l \in Nat /\ Len(all) = n + l
      /\ \A j \in 1..n : all[j] = rows[j]
      /\ \A j \in n + 1..n + l : all[j] = new[j - n]
      /\ new = << >> <=> l = 0
      /\ \A j \in 1..l : new[j] \in Range(new)
  BY <1>6 DEF Range
<1>9. /\ src \in [1..n -> Position]
      /\ \A j \in 1..n : \E p : Source(rows[j], src[j], p)
      /\ \A i, j \in 1..n : i < j =>
             src[i] < src[j] \/ (src[i] = src[j] /\ ~Single(input[src[i]]))
      /\ \A k \in Telling : \E j \in 1..n : src[j] = k
      /\ Plain => \A k \in Position : Spelling[k] # << >> => \E j \in 1..n : src[j] = k
  BY <1>5 DEF Traced
<1> HIDE DEF n, l, all
<1>10. \A j \in 1..n + l : j \in 1..n \/ (j \in n + 1..n + l /\ j - n \in 1..l)
  BY <1>8
<1>11. /\ \A j \in 1..n : j \in 1..n + l /\ more[j] = src[j]
       /\ \A j \in n + 1..n + l : j \in 1..n + l /\ more[j] = m
  BY <1>8
<1> HIDE DEF more
<1>12. more \in [1..n + l -> Position']
  <2>1. \A j \in 1..n + l : more[j] \in Position'
    BY <1>2, <1>9, <1>10, <1>11
  <2> QED
    BY <2>1 DEF more
<1>13. ASSUME NEW j \in 1..n + l PROVE \E p : Source(all[j], more[j], p)'
  <2>1. CASE j \in 1..n
    <3>1. PICK p : Source(rows[j], src[j], p)
      BY <1>9, <2>1
    <3>2. src[j] \in Position
      BY <1>9, <2>1
    <3>3. Source(rows[j], src[j], p)'
      BY <1>0, <3>1, <3>2, SourceKept
    <3> QED
      BY <1>8, <1>11, <2>1, <3>3
  <2>2. CASE j \in n + 1..n + l
    <3>1. PICK row : row = new[j - n]
      OBVIOUS
    <3>2. row \in Range(Spelled(t, place))
      BY <1>8, <1>10, <2>2, <3>1
    <3>3. Source(row, m, place)'
      BY <1>0, <1>1, <1>3, <3>2, SourceNext
    <3>4. all[j] = row /\ more[j] = m
      BY <1>8, <1>11, <2>2, <3>1
    <3> QED
      BY <3>3, <3>4
  <2> QED
    BY <1>10, <2>1, <2>2
<1>14. ASSUME NEW i \in 1..n + l, NEW j \in 1..n + l, i < j
       PROVE  more[i] < more[j] \/ (more[i] = more[j] /\ ~Single(input'[more[i]]))
  <2>1. CASE j \in 1..n
    <3>1. i \in 1..n
      BY <1>8, <1>14, <2>1
    <3>2. more[i] = src[i] /\ more[j] = src[j] /\ src[i] \in Position
      BY <1>9, <1>11, <2>1, <3>1
    <3>3. input'[src[i]] = input[src[i]]
      BY <1>2, <3>2
    <3> QED
      BY <1>9, <1>14, <2>1, <3>1, <3>2, <3>3
  <2>2. CASE i \in 1..n /\ j \in n + 1..n + l
    <3>1. more[i] = src[i] /\ more[j] = m /\ src[i] \in Position
      BY <1>9, <1>11, <2>2
    <3> QED
      BY <1>2, <3>1
  <2>3. CASE i \in n + 1..n + l /\ j \in n + 1..n + l
    <3>1. more[i] = m /\ more[j] = m
      BY <1>11, <2>3
    <3>2. l > 1
      BY <1>8, <1>14, <2>3
    <3>3. ~Single(t)
      <4> SUFFICES ASSUME Single(t) PROVE FALSE
        OBVIOUS
      <4>1. new = << >> \/ new = <<SelfRow(t, place)>>
        BY <1>0, SingleIs
      <4>2. l = 0 \/ l = 1
        BY <4>1 DEF l
      <4> QED
        BY <3>2, <4>2
    <3> QED
      BY <1>2, <3>1, <3>3
  <2> QED
    BY <1>8, <1>10, <1>14, <2>1, <2>2, <2>3
<1>15. ASSUME NEW k \in Telling' PROVE \E j \in 1..n + l : more[j] = k
  <2>1. CASE k \in Telling
    BY <1>9, <1>11, <2>1
  <2>2. CASE k = m /\ Spelled(t, NoArray) # << >>
    <3>1. new # << >>
      BY <1>0, <2>2, SilentOutside
    <3>2. n + 1 \in n + 1..n + l
      BY <1>8, <3>1
    <3> QED
      BY <1>11, <2>2, <3>2
  <2> QED
    BY <1>0, <1>1, <1>15, <2>1, <2>2, TellingMore
<1>16. ASSUME Plain', NEW k \in Position', Spelling'[k] # << >>
       PROVE  \E j \in 1..n + l : more[j] = k
  <2>1. CASE k \in Position
    <3>1. Plain /\ Spelling[k] # << >>
      BY <1>0, <1>1, <1>16, <2>1, SpellingMore
    <3> QED
      BY <1>9, <1>11, <2>1, <3>1
  <2>2. CASE k = m
    <3>1. new # << >>
      BY <1>0, <1>1, <1>3, <1>16, <2>2, SpellingMore
    <3>2. n + 1 \in n + 1..n + l
      BY <1>8, <3>1
    <3> QED
      BY <1>11, <2>2, <3>2
  <2> QED
    BY <1>2, <1>16, <2>1, <2>2
<1>17. Len(all) = n + l
  BY <1>8
<1>18. PICK a, s : a = all /\ s = more
  OBVIOUS
<1>19. Traced(a, s)'
  BY <1>12, <1>13, <1>14, <1>15, <1>16, <1>17, <1>18 DEF Traced
<1> QED
  BY <1>7, <1>18, <1>19 DEF RowsTraced, RowsOf

-----------------------------------------------------------------------------
(* What a stream comes to that is read without an error.                   *)

ScoresOf(rows) == [k \in 1..Len(rows) |-> Order!get_priority_score(rows[k])]

IsOwnAccount(row) == Is(row, "ACCOUNT", "ACCOUNT") /\ row.array_info.type = "NONE"

\* The fields are the traced rows in review order, and nothing is missing.
ReadToTheEnd ==
    /\ \A k \in Position : Good(input[k])
    /\ Sound => \A k \in TransactionTypes : OfTransaction(k)
    /\ \E rows, src, q :
           /\ Traced(rows, src) /\ rows \in Seq(Range(rows))
           /\ Ranks(RowsOf(context.fields), q, rows, ScoresOf(rows), 1..Len(rows))
           /\ \E j \in 1..Len(rows) : IsOwnAccount(rows[j])

KeyAdded ==
    /\ \E k \in TransactionTypes : input[k].value = "SET_REGULAR_KEY"
    /\ \E j \in DOMAIN context.fields : Is(context.fields[j], "ACCOUNT", "REGULAR_KEY")

EndsInType ==
    /\ EndedEarly
    /\ context.fields # << >>
    /\ Is(context.fields[Len(context.fields)], "UINT16", "TRANSACTION_TYPE")

ReadThrough ==
    verdict \in {"SUCCESS", "BLIND_SIGN_REQUIRED"} =>
        /\ context.fields \in Seq(Range(context.fields))
        /\ EndsInType \/ KeyAdded \/ ReadToTheEnd

LEMMA SameSources ==
    ASSUME UNCHANGED input
    PROVE  /\ \A rows, src : Traced(rows, src)' <=> Traced(rows, src)
           /\ Telling' = Telling /\ TransactionTypes' = TransactionTypes
           /\ Position' = Position /\ (Sound' <=> Sound)
           /\ \A k : OfTransaction(k)' <=> OfTransaction(k)
<1>1. /\ Position' = Position /\ Brackets' = Brackets /\ Spelling' = Spelling
      /\ Plain' <=> Plain
  BY SameRows
<1>2. /\ TransactionTypes' = TransactionTypes /\ (Sound' <=> Sound)
      /\ \A k : OfTransaction(k)' <=> OfTransaction(k)
  BY SameStream
<1>3. Telling' = Telling
  BY <1>1 DEF Telling
<1>4. \A row, k, place : Source(row, k, place)' <=> Source(row, k, place)
  BY <1>1 DEF Source
<1>5. ASSUME NEW rows, NEW src PROVE Traced(rows, src)' <=> Traced(rows, src)
  BY <1>1, <1>3, <1>4 DEF Traced
<1> QED
  BY <1>1, <1>2, <1>3, <1>5

LEMMA EndReads ==
    ASSUME TypeOK, GoodSoFar, RowsTraced, TypesTold, EndOfStream,
           verdict' \in {"SUCCESS", "BLIND_SIGN_REQUIRED"}
    PROVE  /\ context'.fields \in Seq(Range(context'.fields))
           /\ KeyAdded' \/ ReadToTheEnd'
<1> DEFINE s == Completed.fields
<1>1. /\ verdict = "parsing" /\ UNCHANGED input
      /\ context' = [Completed EXCEPT !.fields = Order!StableSorted(s)]
      /\ HasMandatoryFields(Completed)
  BY DEF EndOfStream, Fail
<1>2. context \in Contexts
  BY <1>1 DEF TypeOK, ContextOK
<1>3. context.fields \in Seq(ParsedFields)
  BY <1>2 DEF Contexts
<1>4. DOMAIN Completed = {"transaction_type", "has_empty_pub_key", "fields", "current_array",
                          "array_index1", "array_index2", "object_depth"}
  BY <1>2 DEF Completed, Contexts
<1>5. s = IF ClearsKey THEN Append(context.fields, ClearedKey(context)) ELSE context.fields
  BY <1>2 DEF Completed, Contexts
<1> HIDE DEF s
<1>6. context'.fields = Order!StableSorted(s)
  BY <1>1, <1>4
<1>9. context'.fields \in Seq(Range(context'.fields))
  <2>1. s \in Seq(ParsedFields \cup {ClearedKey(context)})
    BY <1>3, <1>5
  <2>2. context'.fields \in Seq(ParsedFields \cup {ClearedKey(context)})
    BY <1>6, <2>1, SortedRanks
  <2> QED
    BY <2>2, OwnRange
<1>7. CASE ClearsKey
  <2>1. context.transaction_type = "SET_REGULAR_KEY"
    BY <1>7 DEF ClearsKey
  <2>2. \E k \in TransactionTypes : input[k].value = "SET_REGULAR_KEY"
    BY <1>1, <2>1 DEF TypesTold
  <2>3. \E k \in TransactionTypes' : input'[k].value = "SET_REGULAR_KEY"
    BY <1>1, <2>2, SameStream
  <2> DEFINE S == ParsedFields \cup {ClearedKey(context)}
  <2>4. s \in Seq(S)
    BY <1>3, <1>5, <1>7
  <2>5. /\ Len(context.fields) + 1 \in DOMAIN s
        /\ s[Len(context.fields) + 1] = ClearedKey(context)
    BY <1>3, <1>5, <1>7, AppendCarries
  <2> HIDE DEF S
  <2>6. \E k \in DOMAIN context'.fields : context'.fields[k] = ClearedKey(context)
    BY <1>6, <2>4, <2>5, SortKeeps
  <2>7. Is(ClearedKey(context), "ACCOUNT", "REGULAR_KEY")
    BY DEF Is, ClearedKey, NewField
  <2> QED
    BY <1>9, <2>3, <2>6, <2>7 DEF KeyAdded
<1>8. CASE ~ClearsKey
  <2>1. s = context.fields /\ Completed = context
    BY <1>5, <1>8 DEF Completed
  <2>2. PICK rows : rows = RowsOf(context.fields)
    OBVIOUS
  <2>3. PICK src : Traced(rows, src)
    BY <1>1, <2>2 DEF RowsTraced
  <2> DEFINE R == {RowOf(f) : f \in ParsedFields}
  <2>4. /\ rows \in Seq(R) /\ Len(rows) = Len(context.fields)
        /\ \A j \in 1..Len(rows) : rows[j] = RowOf(context.fields[j])
    BY <1>3, <2>2, RowsOfTyped
  <2> HIDE DEF R
  <2>5. RowsOf(context'.fields) = Order!StableSorted(rows)
    BY <1>3, <1>6, <2>1, <2>2, SortsRows
  <2>6. rows \in Seq(Range(rows))
    BY <2>4, OwnRange
  <2>7. \E q : Ranks(Order!StableSorted(rows), q, rows, ScoresOf(rows), 1..Len(rows))
    BY <2>4, SortedRanks DEF ScoresOf
  <2>8. PICK q : Ranks(RowsOf(context'.fields), q, rows, ScoresOf(rows), 1..Len(rows))
    BY <2>5, <2>7
  <2>9. \E j \in 1..Len(rows) : IsOwnAccount(rows[j])
    <3>1. PICK j \in DOMAIN context.fields : Is(context.fields[j], "ACCOUNT", "ACCOUNT")
                                              /\ OutsideArrays(context.fields[j])
      BY <1>1, <2>1 DEF HasMandatoryFields, has_field
    <3>2. j \in 1..Len(rows)
      BY <1>3, <2>4, <3>1
    <3>3. rows[j] = RowOf(context.fields[j])
      BY <2>4, <3>2
    <3> QED
      BY <3>1, <3>2, <3>3 DEF IsOwnAccount, Is, OutsideArrays, RowOf, Row
  <2>10. \A k \in Position : Good(input[k])
    <3>1. \A k \in Position : input[k] \in Token
      BY DEF TypeOK, Position
    <3> QED
      BY <1>1, <3>1 DEF GoodSoFar, Good
  <2>11. Traced(rows, src)'
    BY <1>1, <2>3, SameSources
  <2>12. /\ \A k \in Position' : Good(input'[k])
         /\ Sound' => \A k \in TransactionTypes' : OfTransaction(k)'
    BY <1>1, <2>10, SameSources DEF TypesTold
  <2>13. ReadToTheEnd'
    BY <2>6, <2>8, <2>9, <2>11, <2>12 DEF ReadToTheEnd, RowsOf
  <2> QED
    BY <1>9, <2>13
<1> QED
  BY <1>7, <1>8

TracedInv == RowsInv /\ Standing /\ TypesTold /\ RowsTraced /\ ReadThrough

LEMMA InitTraced == Init => TracedInv
<1> SUFFICES ASSUME Init PROVE TracedInv
  OBVIOUS
<1>1. /\ verdict = "parsing" /\ input = << >> /\ context.current_array = "NONE"
      /\ context.fields = << >> /\ context.object_depth = 0
      /\ context.transaction_type = "INVALID"
  BY DEF Init
<1>2. Position = {} /\ input \in Seq(Token) /\ Len(input) = 0 /\ TransactionTypes = {}
  BY <1>1 DEF Position, TransactionTypes
<1>3. Now = << >>
  BY <1>2, BracketsOfInput, BracketsFollow DEF Now
<1>4. Standing
  BY <1>1, <1>3, OpenInNone DEF Standing
<1>5. TypesTold
  BY <1>1, <1>2 DEF TypesTold
<1>6. RowsTraced
  <2>1. RowsOf(context.fields) = << >>
    BY <1>1, RowsOfFew
  <2>2. Telling = {}
    BY <1>2 DEF Telling
  <2> DEFINE src == [j \in 1..0 |-> 0]
  <2>3. Traced(<< >>, src)
    BY <1>2, <2>2 DEF Traced
  <2> QED
    BY <2>1, <2>3 DEF RowsTraced
<1> QED
  BY <1>1, <1>4, <1>5, <1>6, InitRows DEF TracedInv, ReadThrough

LEMMA NextTraced == TracedInv /\ [Next]_vars => TracedInv'
<1> SUFFICES ASSUME TracedInv, [Next]_vars PROVE TracedInv'
  OBVIOUS
<1>1. RowsInv' /\ TypeOK /\ TypeOK' /\ Nested /\ Numbered /\ GoodSoFar
  BY NextRows DEF TracedInv, RowsInv, ReadInv
<1>2. CASE UNCHANGED vars
  <2>1. UNCHANGED <<context, verdict, input>>
    BY <1>2 DEF vars
  <2>2. /\ \A rows, src : Traced(rows, src)' <=> Traced(rows, src)
        /\ TransactionTypes' = TransactionTypes /\ Position' = Position /\ (Sound' <=> Sound)
        /\ \A k : OfTransaction(k)' <=> OfTransaction(k)
    BY <2>1, SameSources
  <2>3. Now' = Now
    BY <2>1, SameRows
  <2>4. Standing' /\ TypesTold' /\ RowsTraced'
    BY <2>1, <2>2, <2>3 DEF TracedInv, Standing, OpenIn, ObjectsIn, TypesTold, RowsTraced, RowsOf
  <2>5. ReadToTheEnd' <=> ReadToTheEnd
    BY <2>1, <2>2 DEF ReadToTheEnd, RowsOf
  <2>6. (KeyAdded' <=> KeyAdded) /\ (EndsInType' <=> EndsInType)
    BY <2>1, <2>2 DEF KeyAdded, EndsInType, EndedEarly
  <2> QED
    BY <1>1, <2>1, <2>4, <2>5, <2>6 DEF TracedInv, ReadThrough
<1>3. ASSUME NEW t \in Token, Reads(t) PROVE TracedInv'
  <2>1. verdict = "parsing" /\ verdict' # "SUCCESS"
    BY <1>3 DEF Reads, NoRoom, CutShort, Unsupported, ReadScalar, ReadTransactionType,
           ReadAccount, ReadAmount, ReadIssue, ReadVector256, ReadArray, ReadObject,
           ReadPathSet, ReadPathStep, Begin, Take, Put, Fail
  <2>2. CASE verdict' = "parsing"
    <3>1. Writes(t) /\ Effects(t)
      BY <1>1, <1>3, <2>2, ReadsWrite, ReadsEffects DEF Going
    <3>2. Standing' /\ TypesTold' /\ RowsTraced'
      BY <1>1, <3>1, StandingStep, TypesToldStep, RowsTracedStep DEF TracedInv
    <3> QED
      BY <1>1, <2>2, <3>2 DEF TracedInv, ReadThrough
  <2>3. CASE verdict' = "BLIND_SIGN_REQUIRED"
    <3>1. EndsInType' /\ context'.fields \in Seq(Range(context'.fields))
      BY <1>1, <1>3, <2>3, EndsWithAType DEF TracedInv, EndsInType
    <3> QED
      BY <1>1, <2>3, <3>1 DEF TracedInv, Standing, TypesTold, RowsTraced, ReadThrough
  <2>4. CASE verdict' \notin {"parsing", "BLIND_SIGN_REQUIRED"}
    BY <1>1, <2>1, <2>4 DEF TracedInv, Standing, TypesTold, RowsTraced, ReadThrough
  <2> QED
    BY <2>2, <2>3, <2>4
<1>4. CASE EndOfStream
  <2>1. verdict' # "parsing"
    BY <1>4 DEF EndOfStream, Fail
  <2>2. ReadThrough'
    BY <1>1, <1>4, EndReads DEF TracedInv, ReadThrough
  <2> QED
    BY <1>1, <2>1, <2>2 DEF TracedInv, Standing, TypesTold, RowsTraced
<1> QED
  BY <1>2, <1>3, <1>4 DEF Next, Reads

LEMMA TracedInductive == Spec => []TracedInv
BY InitTraced, NextTraced, PTL DEF Spec

-----------------------------------------------------------------------------
(* The fields that are accepted.                                           *)

\* The names of the six fields, in review order and in the order they are compared.
NameAt == <<<<"UINT16", "TRANSACTION_TYPE">>, <<"ACCOUNT", "ACCOUNT">>,
            <<"UINT32", "DESTINATION_TAG">>, <<"AMOUNT", "AMOUNT">>, <<"AMOUNT", "FEE">>,
            <<"ACCOUNT", "DESTINATION">>>>

Named6(f) == Len(f) = 6 /\ \A j \in 1..6 : Is(f[j], NameAt[j][1], NameAt[j][2])

LEMMA NamesDiffer ==
    /\ \A j \in 1..6 : <<NameAt[j][1], NameAt[j][2]>> \in Compared
    /\ \A f : \A i, j \in 1..6 : Is(f, NameAt[i][1], NameAt[i][2]) /\ Is(f, NameAt[j][1], NameAt[j][2]) =>
           i = j
<1>1. \A j \in 1..6 : j = 1 \/ j = 2 \/ j = 3 \/ j = 4 \/ j = 5 \/ j = 6
  OBVIOUS
<1>2. /\ NameAt[1][1] = "UINT16" /\ NameAt[1][2] = "TRANSACTION_TYPE"
      /\ NameAt[2][1] = "ACCOUNT" /\ NameAt[2][2] = "ACCOUNT"
      /\ NameAt[3][1] = "UINT32" /\ NameAt[3][2] = "DESTINATION_TAG"
      /\ NameAt[4][1] = "AMOUNT" /\ NameAt[4][2] = "AMOUNT"
      /\ NameAt[5][1] = "AMOUNT" /\ NameAt[5][2] = "FEE"
      /\ NameAt[6][1] = "ACCOUNT" /\ NameAt[6][2] = "DESTINATION"
  BY DEF NameAt
<1>3. \A j \in 1..6 : <<NameAt[j][1], NameAt[j][2]>> \in Compared
  BY <1>1, <1>2 DEF Compared
<1>4. ASSUME NEW i \in 1..6, NEW j \in 1..6, NEW f,
             Is(f, NameAt[i][1], NameAt[i][2]), Is(f, NameAt[j][1], NameAt[j][2])
      PROVE  i = j
  <2>1. NameAt[i][1] = NameAt[j][1] /\ NameAt[i][2] = NameAt[j][2]
    BY <1>4 DEF Is
  <2> QED
    BY <1>1, <1>2, <2>1
<1> QED
  BY <1>3, <1>4

\* Six fields of these names are six tokens of the stream, and the only ones that say
\* something.
LEMMA SixTokens ==
    ASSUME TypeOK, ReadThrough, verdict \in {"SUCCESS", "BLIND_SIGN_REQUIRED"},
           Named6(context.fields)
    PROVE  /\ Sound => \A k \in TransactionTypes : OfTransaction(k)
           /\ \E at \in [1..6 -> Telling] :
                  /\ \A j \in 1..6 : /\ Is(input[at[j]], NameAt[j][1], NameAt[j][2])
                                     /\ input[at[j]].value = context.fields[j].value
                  /\ \A k \in Telling : \E j \in 1..6 : at[j] = k
                  /\ Plain => \A k \in Position : Spelling[k] # << >> => \E j \in 1..6 : at[j] = k
<1> DEFINE f == context.fields
           r == RowsOf(f)
<1>0. /\ \A j \in 1..6 : j = 1 \/ j = 2 \/ j = 3 \/ j = 4 \/ j = 5 \/ j = 6
      /\ \A g : \A i, j \in 1..6 :
             Is(g, NameAt[i][1], NameAt[i][2]) /\ Is(g, NameAt[j][1], NameAt[j][2]) => i = j
  BY NamesDiffer
<1>1. f \in Seq(Range(f)) /\ Len(f) = 6
  BY DEF ReadThrough, Named6
<1>2. /\ Len(r) = 6
      /\ \A j \in 1..6 : r[j] = RowOf(f[j])
  BY <1>1, RowsOfTyped
<1>3. \A j \in 1..6 : r[j].value = f[j].value /\ Is(r[j], NameAt[j][1], NameAt[j][2])
  BY <1>2 DEF Named6, RowOf, Row, Is
<1>4. ReadToTheEnd
  <2>1. ASSUME EndsInType PROVE FALSE
    <3>1. Is(f[6], "UINT16", "TRANSACTION_TYPE")
      BY <1>1, <2>1 DEF EndsInType
    <3>2. Is(f[6], "ACCOUNT", "DESTINATION")
      BY DEF Named6, NameAt
    <3> QED
      BY <3>1, <3>2 DEF Is
  <2>2. ASSUME KeyAdded PROVE FALSE
    <3>1. PICK j \in DOMAIN f : Is(f[j], "ACCOUNT", "REGULAR_KEY")
      BY <2>2 DEF KeyAdded
    <3>2. j \in 1..6 /\ Is(f[j], NameAt[j][1], NameAt[j][2])
      BY <1>1, <3>1 DEF Named6
    <3>3. NameAt[j][2] # "REGULAR_KEY"
      BY <1>0, <3>2 DEF NameAt
    <3> QED
      BY <3>1, <3>2, <3>3 DEF Is
  <2> QED
    BY <2>1, <2>2 DEF ReadThrough
<1>5. /\ \A k \in Position : Good(input[k])
      /\ Sound => \A k \in TransactionTypes : OfTransaction(k)
  BY <1>4 DEF ReadToTheEnd
<1>6. PICK rows, src, q :
          /\ Traced(rows, src) /\ rows \in Seq(Range(rows))
          /\ Ranks(r, q, rows, ScoresOf(rows), 1..Len(rows))
          /\ \E j \in 1..Len(rows) : IsOwnAccount(rows[j])
  BY <1>4 DEF ReadToTheEnd
<1> HIDE DEF f, r
<1> DEFINE n == Len(rows)
<1>7. /\ src \in [1..n -> Position]
      /\ \A j \in 1..n : \E p : Source(rows[j], src[j], p)
      /\ \A k \in Telling : \E j \in 1..n : src[j] = k
      /\ Plain => \A k \in Position : Spelling[k] # << >> => \E j \in 1..n : src[j] = k
  BY <1>6 DEF Traced
<1>8. /\ q \in [1..6 -> 1..n]
      /\ \A j \in 1..6 : r[j] = rows[q[j]]
      /\ \A m \in 1..n : \E j \in 1..6 : q[j] = m
  BY <1>2, <1>6 DEF Ranks
<1> HIDE DEF n
\* The row of an account is one that stands outside of arrays.
<1>9. r[2].array_info.type = "NONE"
  <2>1. PICK m \in 1..n : IsOwnAccount(rows[m])
    BY <1>6 DEF n
  <2>2. PICK j \in 1..6 : q[j] = m
    BY <1>8, <2>1
  <2>3. IsOwnAccount(r[j])
    BY <1>8, <2>1, <2>2
  <2>4. Is(r[j], NameAt[2][1], NameAt[2][2]) /\ 2 \in 1..6
    BY <2>3 DEF IsOwnAccount, NameAt
  <2>5. j = 2
    BY <1>0, <1>3, <2>4
  <2> QED
    BY <2>3, <2>5 DEF IsOwnAccount
<1> DEFINE at == [j \in 1..6 |-> src[q[j]]]
<1>10. ASSUME NEW j \in 1..6
       PROVE  /\ at[j] \in Telling
              /\ Is(input[at[j]], NameAt[j][1], NameAt[j][2])
              /\ input[at[j]].value = context.fields[j].value
  <2> DEFINE k == src[q[j]]
             t == input[k]
             row == r[j]
  <2>1. k \in Position /\ Good(t) /\ at[j] = k
    BY <1>5, <1>7, <1>8
  <2>2. PICK place : Source(row, k, place)
    BY <1>7, <1>8
  <2>3. row \in Range(Spelled(t, place)) /\ (t.data_type = "STEP" => place.type # "NONE")
    BY <2>2 DEF Source
  <2>4. Is(row, NameAt[j][1], NameAt[j][2]) /\ row.value = f[j].value
    BY <1>3
  <2>5. <<row.data_type, row.id>> \in Compared
    BY <2>4, NamesDiffer DEF Is
  <2>6. Is(row, "ACCOUNT", "ACCOUNT") => row.array_info.type = "NONE"
    <3>1. Is(row, "ACCOUNT", "ACCOUNT") => j = 2
      <4>1. NameAt[2][1] = "ACCOUNT" /\ NameAt[2][2] = "ACCOUNT" /\ 2 \in 1..6
        BY DEF NameAt
      <4> QED
        BY <1>0, <2>4, <4>1
    <3> QED
      BY <1>9, <3>1
  <2> HIDE DEF k, t, row, at
  <2>7. Is(t, row.data_type, row.id) /\ t.value = row.value /\ Spelled(t, NoArray) # << >>
    BY <2>1, <2>3, <2>5, <2>6, ComparedRows
  <2>8. k \in Telling
    BY <2>1, <2>7 DEF Telling, t
  <2> QED
    BY <2>1, <2>4, <2>7, <2>8 DEF Is, t, f
<1>11. \A k : (\E i \in 1..n : src[i] = k) => \E j \in 1..6 : at[j] = k
  BY <1>8
<1>12. at \in [1..6 -> Telling]
  BY <1>10
<1> HIDE DEF at
<1> QED
  BY <1>5, <1>7, <1>10, <1>11, <1>12

\* Then each of them is the one that is meant by its name.
LEMMA SixAre ==
    ASSUME NEW at \in [1..6 -> Telling],
           \A j \in 1..6 : Is(input[at[j]], NameAt[j][1], NameAt[j][2]),
           \A k \in Telling : \E j \in 1..6 : at[j] = k
    PROVE  /\ Cardinality(Telling) = 6
           /\ \A j \in 1..6 : /\ Says(NameAt[j][1], NameAt[j][2])
                              /\ The(NameAt[j][1], NameAt[j][2]) = at[j]
<1>1. ASSUME NEW i \in 1..6, NEW j \in 1..6, at[i] = at[j] PROVE i = j
  BY <1>1, NamesDiffer
<1>2. at \in Bijection(1..6, Telling)
  BY <1>1 DEF Bijection, Injection, Surjection, IsInjective
<1>3. Cardinality(Telling) = 6
  <2>1. ExistsBijection(1..6, Telling)
    BY <1>2 DEF ExistsBijection
  <2>2. IsFiniteSet(1..6) /\ Cardinality(1..6) = 6
    <3>1. 1 \in Int /\ 6 \in Int
      OBVIOUS
    <3>2. Cardinality(1..6) = IF 1 > 6 THEN 0 ELSE 6 - 1 + 1
      BY <3>1, FS_Interval
    <3>3. IsFiniteSet(1..6)
      BY <3>1, FS_Interval
    <3> QED
      BY <3>2, <3>3
  <2> QED
    BY <2>1, <2>2, FS_Bijection
<1>4. ASSUME NEW j \in 1..6
      PROVE  Says(NameAt[j][1], NameAt[j][2]) /\ The(NameAt[j][1], NameAt[j][2]) = at[j]
  <2>1. at[j] \in Telling /\ Is(input[at[j]], NameAt[j][1], NameAt[j][2])
    OBVIOUS
  <2>2. ASSUME NEW k \in Telling, Is(input[k], NameAt[j][1], NameAt[j][2]) PROVE k = at[j]
    <3>1. PICK i \in 1..6 : at[i] = k
      OBVIOUS
    <3>2. i = j
      BY <2>2, <3>1, NamesDiffer
    <3> QED
      BY <3>1, <3>2
  <2> QED
    BY <2>1, <2>2 DEF Says, The
<1> QED
  BY <1>3, <1>4

-----------------------------------------------------------------------------
(* The parameters as they were given, and as they are compared.            *)

\* The address is cut off only when no account of the stream has that address anyway.
LEMMA WholeAddress ==
    ASSUME NEW t \in Token, t.data_type = "ACCOUNT", NEW p \in Agreements,
           NEW cut, cut = SubSeq(p.destination_address, 1,
                                 Min({Len(p.destination_address), AddressSize - 1}))
    PROVE  AddressText(t.value) = cut <=> AddressText(t.value) = p.destination_address
<1> DEFINE d == p.destination_address
           S == Range(d)
           n == Len(d)
           m == AddressSize - 1
           short == Min({n, m})
<1>1. d \in Seq(S) /\ m \in Nat /\ Len(AddressText(t.value)) < m
  BY SwapAssumption DEF IsString
<1>2. n \in Nat /\ \A j \in 1..n : d[j] \in S
  BY <1>1
<1> HIDE DEF d, S, n, m
<1>3. short \in {n, m} /\ short <= n /\ short <= m
  <2>1. \E x \in {n, m} : \A y \in {n, m} : x <= y
    BY <1>1, <1>2
  <2> QED
    BY <2>1 DEF Min
<1> HIDE DEF short
<1>4. /\ SubSeq(d, 1, short) \in Seq(S) /\ Len(SubSeq(d, 1, short)) = short
      /\ \A j \in 1..short : SubSeq(d, 1, short)[j] = d[j]
  <2>1. 1 \in Int /\ short \in Nat /\ \A j \in 1..short : d[j] \in S
    BY <1>1, <1>2, <1>3
  <2>2. SubSeq(d, 1, short) \in Seq(S)
    BY <2>1, SubSeqProperties
  <2>3. Len(SubSeq(d, 1, short)) = IF 1 <= short THEN short - 1 + 1 ELSE 0
    BY <2>1, SubSeqProperties
  <2>4. Len(SubSeq(d, 1, short)) = short
    BY <2>1, <2>3
  <2>5. \A j \in 1..short : SubSeq(d, 1, short)[j] = d[j]
    BY <1>1, <1>2, <1>3, <2>1
  <2> QED
    BY <2>2, <2>4, <2>5
<1>5. CASE n <= m
  <2>1. short = n
    BY <1>1, <1>2, <1>3, <1>5
  <2>2. Len(SubSeq(d, 1, short)) = n /\ \A j \in 1..n : SubSeq(d, 1, short)[j] = d[j]
    BY <1>4, <2>1
  <2>3. SubSeq(d, 1, short) = d
    <3> DEFINE c == SubSeq(d, 1, short)
    <3>1. c \in Seq(S) /\ Len(c) = n /\ \A j \in 1..n : c[j] = d[j]
      BY <1>4, <2>2
    <3> HIDE DEF c
    <3>2. c = d
      BY <1>1, <3>1 DEF n
    <3> QED
      BY <3>2 DEF c
  <2> QED
    BY <2>3 DEF d, short, n, m
<1>6. CASE ~(n <= m)
  <2>1. short = m
    BY <1>1, <1>2, <1>3, <1>6
  <2>2. Len(SubSeq(d, 1, short)) = m
    BY <1>4, <2>1
  <2>3. AddressText(t.value) # SubSeq(d, 1, short)
    <3> SUFFICES ASSUME AddressText(t.value) = SubSeq(d, 1, short) PROVE FALSE
      OBVIOUS
    <3>1. m < m
      BY <1>1, <2>2
    <3> QED
      BY <1>1, <3>1
  <2>4. AddressText(t.value) # d
    <3> SUFFICES ASSUME AddressText(t.value) = d PROVE FALSE
      OBVIOUS
    <3>1. n < m
      BY <1>1 DEF n
    <3> QED
      BY <1>1, <1>2, <1>6, <3>1
  <2> QED
    BY <2>3, <2>4 DEF d, short, n, m
<1> QED
  BY <1>5, <1>6

Arranged ==
    /\ params \in Agreements
    /\ decision \in {"signing", "accepted", "refused"} =>
           /\ agreed.address = SubSeq(params.destination_address, 1,
                                      Min({Len(params.destination_address), AddressSize - 1}))
           /\ agreed.destination_tag = params.extra_id
           /\ agreed.amount = params.amount /\ agreed.fee = params.fee
    /\ decision \in {"accepted", "refused"} =>
           /\ verdict \in {"SUCCESS", "BLIND_SIGN_REQUIRED"}
           /\ decision = "accepted" <=> check_swap_conditions_and_sign

LEMMA InitArranged == SwapInit => Arranged
BY DEF SwapInit, Arranged

LEMMA NextArranged == Arranged /\ [SwapNext]_swapVars => Arranged'
<1> SUFFICES ASSUME Arranged, [SwapNext]_swapVars PROVE Arranged'
  OBVIOUS
<1>1. ASSUME NEW c \in Checks, swap_handle_check_address(c) PROVE Arranged'
  BY <1>1 DEF Arranged, swap_handle_check_address
<1>2. CASE swap_handle_get_printable_amount
  BY <1>2 DEF Arranged, swap_handle_get_printable_amount
<1>3. CASE swap_copy_transaction_parameters
  <2>1. params' = params /\ decision' \in {"signing", "not_started"}
    BY <1>3 DEF swap_copy_transaction_parameters
  <2>2. ASSUME NEW cut, NEW d,
               cut = SubSeq(d, 1, Min({Len(d), AddressSize - 1})),
               decision' = "signing", d = params.destination_address
        PROVE  /\ agreed'.address = cut
               /\ agreed'.destination_tag = params.extra_id
               /\ agreed'.amount = params.amount /\ agreed'.fee = params.fee
    <3>1. agreed' = [address |-> cut, destination_tag |-> params.extra_id,
                     amount |-> params.amount, fee |-> params.fee]
      BY <1>3, <2>2 DEF swap_copy_transaction_parameters
    <3> QED
      BY <3>1
  <2>3. /\ params' \in Agreements
        /\ decision' = "signing" =>
               /\ agreed'.address = SubSeq(params'.destination_address, 1,
                                         Min({Len(params'.destination_address), AddressSize - 1}))
               /\ agreed'.destination_tag = params'.extra_id
               /\ agreed'.amount = params'.amount /\ agreed'.fee = params'.fee
    <3>1. params' = params /\ params \in Agreements
      BY <2>1 DEF Arranged
    <3> QED
      BY <2>2, <3>1, Zenon
  <2>4. decision' \notin {"accepted", "refused"}
    BY <2>1
  <2>5. decision' \in {"signing", "accepted", "refused"} => decision' = "signing"
    BY <2>4
  <2> QED
    BY <2>3, <2>4, <2>5 DEF Arranged
<1>4. CASE ParseStep
  BY <1>4 DEF Arranged, ParseStep
<1>5. CASE review_transaction
  <2>1. /\ verdict' = verdict /\ params' = params /\ agreed' = agreed /\ context' = context
        /\ verdict \in {"SUCCESS", "BLIND_SIGN_REQUIRED"} /\ decision = "signing"
        /\ decision' = IF check_swap_conditions_and_sign THEN "accepted" ELSE "refused"
    BY <1>5 DEF review_transaction
  <2>2. check_swap_conditions_and_sign' <=> check_swap_conditions_and_sign
    BY <2>1 DEF check_swap_conditions_and_sign, TagMatches, AmountMatches, AddressMatches
  <2> QED
    BY <2>1, <2>2 DEF Arranged
<1>6. CASE UNCHANGED swapVars
  <2>1. /\ verdict' = verdict /\ params' = params /\ agreed' = agreed /\ context' = context
        /\ decision' = decision
    BY <1>6 DEF swapVars
  <2>2. check_swap_conditions_and_sign' <=> check_swap_conditions_and_sign
    BY <2>1 DEF check_swap_conditions_and_sign, TagMatches, AmountMatches, AddressMatches
  <2> QED
    BY <2>1, <2>2 DEF Arranged
<1> QED
  BY <1>1, <1>2, <1>3, <1>4, <1>5, <1>6 DEF SwapNext

\* The parser knows nothing of a swap: what holds of every reading holds here.
LEMMA SwapReads == SwapSpec => Spec
<1>1. SwapInit => Init
  BY DEF SwapInit
<1>2. [SwapNext]_swapVars => [Next]_vars
  BY DEF SwapNext, swapVars, vars, swap_handle_check_address, swap_handle_get_printable_amount,
         swap_copy_transaction_parameters, ParseStep, review_transaction
<1> QED
  BY <1>1, <1>2, PTL DEF SwapSpec, Spec

LEMMA SwapInductive == SwapSpec => [](TracedInv /\ Arranged)
<1>1. SwapSpec => []TracedInv
  BY SwapReads, TracedInductive, PTL
<1>2. SwapSpec => []Arranged
  BY InitArranged, NextArranged, PTL DEF SwapSpec
<1> QED
  BY <1>1, <1>2, PTL

-----------------------------------------------------------------------------
(* What is accepted.                                                       *)

LEMMA AcceptedIsAgreed ==
    ASSUME TracedInv, Arranged, decision = "accepted"
    PROVE  /\ StreamIsTheAgreement
           /\ Sound => TypeIsItsOwn
           /\ Plain => \A k \in Position \ Telling : Spelling[k] = << >>
<1> DEFINE f == context.fields
<1>1. /\ verdict \in {"SUCCESS", "BLIND_SIGN_REQUIRED"} /\ check_swap_conditions_and_sign
      /\ params \in Agreements
      /\ agreed.address = SubSeq(params.destination_address, 1,
                                 Min({Len(params.destination_address), AddressSize - 1}))
      /\ agreed.destination_tag = params.extra_id
      /\ agreed.amount = params.amount /\ agreed.fee = params.fee
  BY DEF Arranged
<1>2. /\ Len(f) = 6
      /\ Is(f[1], "UINT16", "TRANSACTION_TYPE") /\ f[1].value = "PAYMENT"
      /\ Is(f[2], "ACCOUNT", "ACCOUNT")
      /\ Is(f[3], "UINT32", "DESTINATION_TAG") /\ Decimal[Word(f[3].value)] = params.extra_id
      /\ Is(f[4], "AMOUNT", "AMOUNT") /\ f[4].value \in NativeAmounts
      /\ ~HasBit(params.amount) /\ Word(f[4].value) = Encoded(params.amount)
      /\ Is(f[5], "AMOUNT", "FEE") /\ f[5].value \in NativeAmounts
      /\ ~HasBit(params.fee) /\ Word(f[5].value) = Encoded(params.fee)
      /\ Is(f[6], "ACCOUNT", "DESTINATION") /\ AddressText(f[6].value) = agreed.address
  BY <1>1 DEF check_swap_conditions_and_sign, TagMatches, AmountMatches, AddressMatches, Encodable
<1>3. Named6(context.fields)
  <2>1. \A j \in 1..6 : j = 1 \/ j = 2 \/ j = 3 \/ j = 4 \/ j = 5 \/ j = 6
    OBVIOUS
  <2> QED
    BY <1>2, <2>1 DEF Named6, NameAt
<1>4. TypeOK /\ ReadThrough
  BY DEF TracedInv, RowsInv, ReadInv
<1>5. PICK at \in [1..6 -> Telling] :
          /\ \A j \in 1..6 : /\ Is(input[at[j]], NameAt[j][1], NameAt[j][2])
                             /\ input[at[j]].value = context.fields[j].value
          /\ \A k \in Telling : \E j \in 1..6 : at[j] = k
          /\ Plain => \A k \in Position : Spelling[k] # << >> => \E j \in 1..6 : at[j] = k
  BY <1>1, <1>3, <1>4, SixTokens
<1>6. /\ Cardinality(Telling) = 6
      /\ \A j \in 1..6 : /\ Says(NameAt[j][1], NameAt[j][2])
                         /\ The(NameAt[j][1], NameAt[j][2]) = at[j]
  BY <1>5, SixAre
<1> HIDE DEF f
<1>7. 1 \in 1..6 /\ 2 \in 1..6 /\ 3 \in 1..6 /\ 4 \in 1..6 /\ 5 \in 1..6 /\ 6 \in 1..6
  OBVIOUS
<1>8. /\ NameAt[1][1] = "UINT16" /\ NameAt[1][2] = "TRANSACTION_TYPE"
      /\ NameAt[2][1] = "ACCOUNT" /\ NameAt[2][2] = "ACCOUNT"
      /\ NameAt[3][1] = "UINT32" /\ NameAt[3][2] = "DESTINATION_TAG"
      /\ NameAt[4][1] = "AMOUNT" /\ NameAt[4][2] = "AMOUNT"
      /\ NameAt[5][1] = "AMOUNT" /\ NameAt[5][2] = "FEE"
      /\ NameAt[6][1] = "ACCOUNT" /\ NameAt[6][2] = "DESTINATION"
  BY DEF NameAt
<1>9. /\ Says("UINT16", "TRANSACTION_TYPE") /\ The("UINT16", "TRANSACTION_TYPE") = at[1]
      /\ Says("ACCOUNT", "ACCOUNT")
      /\ Says("UINT32", "DESTINATION_TAG") /\ The("UINT32", "DESTINATION_TAG") = at[3]
      /\ Says("AMOUNT", "AMOUNT") /\ The("AMOUNT", "AMOUNT") = at[4]
      /\ Says("AMOUNT", "FEE") /\ The("AMOUNT", "FEE") = at[5]
      /\ Says("ACCOUNT", "DESTINATION") /\ The("ACCOUNT", "DESTINATION") = at[6]
  BY <1>6, <1>7, <1>8
<1>10. \A j \in 1..6 : input[at[j]].value = f[j].value
  BY <1>5 DEF f
<1>11. input[at[1]].value = "PAYMENT" /\ Decimal[Word(input[at[3]].value)] = params.extra_id
  BY <1>2, <1>7, <1>10
<1>12. IsDrops(at[4], params.amount) /\ IsDrops(at[5], params.fee)
  BY <1>2, <1>7, <1>10 DEF IsDrops, Encoded
<1>13. AddressText(input[at[6]].value) = params.destination_address
  <2>1. at[6] \in Position /\ input[at[6]] \in Token
    BY <1>4, <1>5, <1>7 DEF Telling, TypeOK, Position
  <2>2. input[at[6]].data_type = "ACCOUNT"
    BY <1>5, <1>7, <1>8 DEF Is
  <2>3. AddressText(input[at[6]].value) = agreed.address
    BY <1>2, <1>7, <1>10
  <2>4. \A cut : cut = agreed.address =>
            (AddressText(input[at[6]].value) = cut <=>
                 AddressText(input[at[6]].value) = params.destination_address)
    BY <1>1, <2>1, <2>2, WholeAddress
  <2> QED
    BY <2>3, <2>4
<1>14. StreamIsTheAgreement
  BY <1>6, <1>9, <1>11, <1>12, <1>13 DEF StreamIsTheAgreement
<1>15. Sound => TypeIsItsOwn
  <2>1. Sound => \A k \in TransactionTypes : OfTransaction(k)
    BY <1>1, <1>3, <1>4, SixTokens
  <2>2. at[1] \in TransactionTypes
    BY <1>5, <1>7, <1>8 DEF Telling, TransactionTypes
  <2> QED
    BY <1>9, <2>1, <2>2 DEF TypeIsItsOwn
<1>16. ASSUME Plain, NEW k \in Position \ Telling PROVE Spelling[k] = << >>
  BY <1>5, <1>16
<1> QED
  BY <1>14, <1>15, <1>16

\* Whatever the tokens, the agreement and the stream: what is signed for a swap is what was
\* agreed to, and the stream has nothing else to say.
THEOREM SignsOnlyTheAgreement == SwapSpec => []SwapSignsTheAgreement
<1>1. TracedInv /\ Arranged => SwapSignsTheAgreement
  BY AcceptedIsAgreed DEF SwapSignsTheAgreement
<1> QED
  BY <1>1, SwapInductive, PTL


-----------------------------------------------------------------------------
(* What is refused.                                                        *)

\* Every type of the stream says something.
LEMMA TypesTell == ASSUME TypeOK PROVE TransactionTypes \subseteq Telling
<1> SUFFICES ASSUME NEW k \in TransactionTypes PROVE k \in Telling
  OBVIOUS
<1>1. k \in Position /\ Is(input[k], "UINT16", "TRANSACTION_TYPE") /\ input[k] \in Token
  BY DEF TransactionTypes, TypeOK, Position
<1>2. ~Unshown(input[k], NoArray)
  BY <1>1 DEF Unshown, HiddenOutsideArrays, is_flag_hidden, is_flag, Is
<1>3. input[k].data_type \in Scalars
  BY <1>1 DEF Is, Scalars
<1>4. Spelled(input[k], NoArray) = <<SelfRow(input[k], NoArray)>>
  BY <1>1, <1>2, <1>3, SpelledIs
<1> QED
  BY <1>1, <1>4 DEF Telling

\* The six telling fields of an agreement, and no other.
LEMMA SixNamed ==
    ASSUME TypeOK, StreamIsTheAgreement
    PROVE  \E at \in [1..6 -> Telling] :
               /\ \A j \in 1..6 : /\ Is(input[at[j]], NameAt[j][1], NameAt[j][2])
                                  /\ at[j] = The(NameAt[j][1], NameAt[j][2])
               /\ \A k \in Telling : \E j \in 1..6 : at[j] = k
<1> DEFINE at == [j \in 1..6 |-> The(NameAt[j][1], NameAt[j][2])]
<1>1. ASSUME NEW j \in 1..6
      PROVE  at[j] \in Telling /\ Is(input[at[j]], NameAt[j][1], NameAt[j][2])
  <2>1. j = 1 \/ j = 2 \/ j = 3 \/ j = 4 \/ j = 5 \/ j = 6
    OBVIOUS
  <2>2. Says(NameAt[j][1], NameAt[j][2])
    BY <2>1 DEF StreamIsTheAgreement, NameAt
  <2> QED
    BY <2>2 DEF Says, The
<1>2. at \in [1..6 -> Telling]
  BY <1>1
<1>3. \A j \in 1..6 : at[j] = The(NameAt[j][1], NameAt[j][2])
  OBVIOUS
<1> HIDE DEF at
<1>4. ASSUME NEW i \in 1..6, NEW j \in 1..6, at[i] = at[j] PROVE i = j
  BY <1>1, <1>4, NamesDiffer
<1>5. at \in Injection(1..6, Telling)
  BY <1>2, <1>4 DEF Injection, IsInjective
<1>6. IsFiniteSet(Telling)
  <2>1. Len(input) \in Int /\ 1 \in Int /\ Position = 1..Len(input)
    BY DEF TypeOK, Position
  <2>2. IsFiniteSet(Position)
    BY <2>1, FS_Interval
  <2>3. Telling \in SUBSET Position
    BY DEF Telling
  <2> QED
    BY <2>2, <2>3, FS_Subset
<1>7. Cardinality(1..6) = 6
  <2>1. 1 \in Int /\ 6 \in Int
    OBVIOUS
  <2>2. Cardinality(1..6) = IF 1 > 6 THEN 0 ELSE 6 - 1 + 1
    BY <2>1, FS_Interval
  <2> QED
    BY <2>2
<1>8. Cardinality(1..6) = Cardinality(Telling)
  BY <1>7 DEF StreamIsTheAgreement
<1>9. at \in Surjection(1..6, Telling)
  BY <1>5, <1>6, <1>8, FS_Injection
<1> QED
  BY <1>1, <1>2, <1>3, <1>9 DEF Surjection

\* The stream of an agreement has one type, its own, and it is a payment: it is read to its end.
LEMMA AgreementIsRead ==
    ASSUME TypeOK, ReadThrough, verdict \in {"SUCCESS", "BLIND_SIGN_REQUIRED"},
           StreamIsTheAgreement, TypeIsItsOwn
    PROVE  ReadToTheEnd
<1>1. PICK at \in [1..6 -> Telling] :
          /\ \A j \in 1..6 : /\ Is(input[at[j]], NameAt[j][1], NameAt[j][2])
                             /\ at[j] = The(NameAt[j][1], NameAt[j][2])
          /\ \A k \in Telling : \E j \in 1..6 : at[j] = k
  BY SixNamed
<1>2. /\ 1 \in 1..6 /\ NameAt[1][1] = "UINT16" /\ NameAt[1][2] = "TRANSACTION_TYPE"
  BY DEF NameAt
<1>3. \A k \in TransactionTypes : k = at[1]
  <2> SUFFICES ASSUME NEW k \in TransactionTypes PROVE k = at[1]
    OBVIOUS
  <2>1. PICK j \in 1..6 : at[j] = k
    BY <1>1, TypesTell
  <2>2. Is(input[k], NameAt[j][1], NameAt[j][2]) /\ Is(input[k], NameAt[1][1], NameAt[1][2])
    BY <1>1, <1>2, <2>1 DEF TransactionTypes
  <2>3. j = 1
    BY <1>2, <2>2, NamesDiffer
  <2> QED
    BY <2>1, <2>3
<1>4. at[1] = The("UINT16", "TRANSACTION_TYPE")
  BY <1>1, <1>2
<1>5. ~EndedEarly
  <2>1. OfTransaction(at[1])
    BY <1>4 DEF TypeIsItsOwn
  <2> QED
    BY <1>3, <2>1 DEF EndedEarly
<1>6. input[at[1]].value = "PAYMENT"
  BY <1>4 DEF StreamIsTheAgreement
<1>7. ~KeyAdded
  BY <1>3, <1>6 DEF KeyAdded
<1> QED
  BY <1>5, <1>7 DEF ReadThrough, EndsInType

\* Only a field that is shown for the array it stands in says nothing outside of one.
LEMMA TellsByItself ==
    ASSUME NEW k \in Position, Good(input[k]), NEW place, NEW row, Source(row, k, place),
           ShownInArrays = {}
    PROVE  k \in Telling
<1> DEFINE t == input[k]
<1>1. Spelled(t, place) # << >>
  BY DEF Source, Range
<1>2. Voices(t) /\ ~Unshown(t, place)
  BY <1>1, SpelledVoices
<1>3. <<t.data_type, t.id>> \in HiddenOutsideArrays =>
          t.data_type # "STEP" /\ "ARRAY" \notin Range(Brackets[k - 1])
  BY DEF ShownInArrays, HiddenOutsideArrays
<1>4. <<t.data_type, t.id>> \in HiddenOutsideArrays => place.type = "NONE"
  BY <1>3 DEF Source
<1>5. ~Unshown(t, NoArray)
  BY <1>2, <1>4 DEF Unshown
<1>6. Spelled(t, NoArray) # << >>
  BY <1>2, <1>5, SpelledVoices
<1> QED
  BY <1>6 DEF Telling

LEMMA SixInARow ==
    ASSUME NEW u \in [1..6 -> 1..6],
           u[1] < u[2], u[2] < u[3], u[3] < u[4], u[4] < u[5], u[5] < u[6]
    PROVE  \A j \in 1..6 : u[j] = j
<1>1. /\ u[1] \in 1..6 /\ u[2] \in 1..6 /\ u[3] \in 1..6 /\ u[4] \in 1..6 /\ u[5] \in 1..6
      /\ u[6] \in 1..6
  OBVIOUS
<1>2. u[1] = 1 /\ u[2] = 2 /\ u[3] = 3 /\ u[4] = 4 /\ u[5] = 5 /\ u[6] = 6
  BY <1>1
<1>3. \A j \in 1..6 : j = 1 \/ j = 2 \/ j = 3 \/ j = 4 \/ j = 5 \/ j = 6
  OBVIOUS
<1> QED
  BY <1>2, <1>3


LEMMA AsManyAs ==
    ASSUME NEW m \in Nat, NEW T, NEW w \in [1..m -> T],
           \A i, j \in 1..m : w[i] = w[j] => i = j,
           \A k \in T : \E j \in 1..m : w[j] = k
    PROVE  Cardinality(T) = m
<1>1. w \in Bijection(1..m, T)
  BY DEF Bijection, Injection, Surjection, IsInjective
<1>2. ExistsBijection(1..m, T)
  BY <1>1 DEF ExistsBijection
<1>3. 1 \in Int /\ m \in Int
  OBVIOUS
<1>4. IsFiniteSet(1..m) /\ Cardinality(1..m) = IF 1 > m THEN 0 ELSE m - 1 + 1
  BY <1>3, FS_Interval
<1>5. Cardinality(1..m) = m
  BY <1>4
<1> QED
  BY <1>2, <1>4, <1>5, FS_Bijection

\* Rows are as far apart as they stand in the order of the review.
LEMMA RankedBefore ==
    ASSUME NEW n \in Nat, NEW score \in [1..n -> Nat], NEW r, NEW q, NEW s,
           Ranks(r, q, s, score, 1..n), Len(r) \in Nat,
           NEW a \in 1..Len(r), NEW b \in 1..Len(r)
    PROVE  /\ Before(score, q[a], q[b]) => a < b
           /\ q[a] = q[b] => a = b
<1>1. q[a] \in 1..n /\ q[b] \in 1..n /\ score[q[a]] \in Nat /\ score[q[b]] \in Nat
  BY DEF Ranks
<1>2. a < b => Before(score, q[a], q[b])
  BY DEF Ranks
<1>3. b < a => Before(score, q[b], q[a])
  BY DEF Ranks
<1>4. ~(Before(score, q[a], q[b]) /\ Before(score, q[b], q[a]))
  BY <1>1 DEF Before
<1>5. q[a] = q[b] => ~Before(score, q[a], q[b]) /\ ~Before(score, q[b], q[a])
  BY <1>1 DEF Before
<1>6. a < b \/ b < a \/ a = b
  OBVIOUS
<1> QED
  BY <1>2, <1>3, <1>4, <1>5, <1>6

\* Read to its end, the stream of an agreement in the order of the ledger is the six fields
\* that are compared, in their order.
LEMMA SixFields ==
    ASSUME TypeOK, ReadThrough, verdict \in {"SUCCESS", "BLIND_SIGN_REQUIRED"},
           StreamIsTheAgreement, TypeIsItsOwn, InLedgerOrder, ShownInArrays = {}
    PROVE  /\ Named6(context.fields)
           /\ \A j \in 1..6 :
                  context.fields[j].value = input[The(NameAt[j][1], NameAt[j][2])].value
<1> DEFINE f == context.fields
           r == RowsOf(f)
<1>0. /\ \A j \in 1..6 : j = 1 \/ j = 2 \/ j = 3 \/ j = 4 \/ j = 5 \/ j = 6
      /\ 1 \in 1..6 /\ 2 \in 1..6 /\ 3 \in 1..6 /\ 4 \in 1..6 /\ 5 \in 1..6 /\ 6 \in 1..6
      /\ NameAt[1][1] = "UINT16" /\ NameAt[1][2] = "TRANSACTION_TYPE"
      /\ NameAt[2][1] = "ACCOUNT" /\ NameAt[2][2] = "ACCOUNT"
      /\ NameAt[3][1] = "UINT32" /\ NameAt[3][2] = "DESTINATION_TAG"
      /\ NameAt[4][1] = "AMOUNT" /\ NameAt[4][2] = "AMOUNT"
      /\ NameAt[5][1] = "AMOUNT" /\ NameAt[5][2] = "FEE"
      /\ NameAt[6][1] = "ACCOUNT" /\ NameAt[6][2] = "DESTINATION"
  BY DEF NameAt
<1>1. PICK at \in [1..6 -> Telling] :
          /\ \A j \in 1..6 : /\ Is(input[at[j]], NameAt[j][1], NameAt[j][2])
                             /\ at[j] = The(NameAt[j][1], NameAt[j][2])
          /\ \A k \in Telling : \E j \in 1..6 : at[j] = k
  BY SixNamed
<1>2. ReadToTheEnd
  BY AgreementIsRead
<1>3. \A k \in Position : Good(input[k])
  BY <1>2 DEF ReadToTheEnd
<1>4. PICK rows, src, q :
          /\ Traced(rows, src) /\ rows \in Seq(Range(rows))
          /\ Ranks(r, q, rows, ScoresOf(rows), 1..Len(rows))
          /\ \E j \in 1..Len(rows) : IsOwnAccount(rows[j])
  BY <1>2 DEF ReadToTheEnd
<1> DEFINE n == Len(rows)
           score == ScoresOf(rows)
<1>5. f \in Seq(Range(f))
  BY DEF ReadThrough
<1>6. Len(r) = Len(f) /\ Len(r) \in Nat /\ \A j \in 1..Len(f) : r[j] = RowOf(f[j])
  <2> HIDE DEF f
  <2>1. Len(f) \in Nat
    BY <1>5
  <2>2. Len(r) = Len(f) /\ \A j \in 1..Len(f) : r[j] = RowOf(f[j])
    BY <1>5, RowsOfTyped
  <2> QED
    BY <2>1, <2>2
<1> HIDE DEF f, r
<1>7. /\ src \in [1..n -> Position]
      /\ \A j \in 1..n : \E p : Source(rows[j], src[j], p)
      /\ \A i, j \in 1..n : i < j =>
             src[i] < src[j] \/ (src[i] = src[j] /\ ~Single(input[src[i]]))
      /\ \A k \in Telling : \E j \in 1..n : src[j] = k
  BY <1>4 DEF Traced
<1>8. /\ n \in Nat /\ \A j \in 1..n : score[j] = Order!get_priority_score(rows[j])
      /\ score \in [1..n -> Nat]
  <2>1. n \in Nat
    BY <1>4
  <2>2. \A j \in 1..n : Order!get_priority_score(rows[j]) \in Nat
    BY DEF Order!get_priority_score
  <2> QED
    BY <2>1, <2>2 DEF ScoresOf
<1>9. /\ q \in [1..Len(r) -> 1..n]
      /\ \A j \in 1..Len(r) : r[j] = rows[q[j]]
      /\ \A m \in 1..n : \E j \in 1..Len(r) : q[j] = m
      /\ Ranks(r, q, rows, score, 1..n)
  BY <1>4 DEF Ranks
<1>10. \E j \in 1..n : IsOwnAccount(rows[j])
  BY <1>4
<1> HIDE DEF n, score
<1>30. \A a, b \in 1..Len(r) : /\ Before(score, q[a], q[b]) => a < b
                               /\ q[a] = q[b] => a = b
  <2> SUFFICES ASSUME NEW a \in 1..Len(r), NEW b \in 1..Len(r)
               PROVE  /\ Before(score, q[a], q[b]) => a < b
                      /\ q[a] = q[b] => a = b
    OBVIOUS
  <2>1. n \in Nat /\ score \in [1..n -> Nat]
    BY <1>8
  <2>2. Ranks(r, q, rows, score, 1..n) /\ Len(r) \in Nat
    BY <1>6, <1>9
  <2>3. PICK m, c, z : m = n /\ c = score /\ z = r
    OBVIOUS
  <2>4. m \in Nat /\ c \in [1..m -> Nat] /\ Ranks(z, q, rows, c, 1..m) /\ Len(z) \in Nat
    BY <2>1, <2>2, <2>3
  <2>5. a \in 1..Len(z) /\ b \in 1..Len(z)
    BY <2>3
  <2>6. (Before(c, q[a], q[b]) => a < b) /\ (q[a] = q[b] => a = b)
    BY <2>4, <2>5, RankedBefore
  <2> QED
    BY <2>3, <2>6
\* Every row is that of a token of its own, one of the six.
<1>11. \A j \in 1..n : src[j] \in Telling /\ src[j] \in Nat
  <2>1. ASSUME NEW j \in 1..n PROVE src[j] \in Telling
    <3>1. PICK p : Source(rows[j], src[j], p)
      BY <1>7
    <3>2. src[j] \in Position /\ Good(input[src[j]])
      BY <1>3, <1>7
    <3> QED
      BY <3>1, <3>2, TellsByItself
  <2>2. \A k \in Position : k \in Nat
    BY DEF TypeOK, Position
  <2> QED
    BY <1>7, <2>1, <2>2
<1>12. ASSUME NEW i \in 1..6 PROVE Single(input[at[i]])
  <2>1. Is(input[at[i]], NameAt[i][1], NameAt[i][2]) /\ at[i] = The(NameAt[i][1], NameAt[i][2])
    BY <1>1
  <2>2. CASE i \in {1, 2, 3, 6}
    BY <1>0, <2>1, <2>2 DEF Single, Is, Scalars
  <2>3. CASE i = 4
    BY <1>0, <2>1, <2>3 DEF Single, Is, StreamIsTheAgreement, IsDrops
  <2>4. CASE i = 5
    BY <1>0, <2>1, <2>4 DEF Single, Is, StreamIsTheAgreement, IsDrops
  <2> QED
    BY <1>0, <2>2, <2>3, <2>4
<1>13. \A i, j \in 1..n : i < j => src[i] < src[j]
  <2> SUFFICES ASSUME NEW i \in 1..n, NEW j \in 1..n, i < j PROVE src[i] < src[j]
    OBVIOUS
  <2>1. PICK l \in 1..6 : at[l] = src[i]
    BY <1>1, <1>11
  <2> QED
    BY <1>7, <1>12, <2>1
<1>14. ASSUME NEW j \in 1..n
       PROVE  \E i \in 1..6 : /\ src[j] = at[i]
                              /\ Is(rows[j], NameAt[i][1], NameAt[i][2])
                              /\ rows[j].value = input[at[i]].value
  <2>1. PICK i \in 1..6 : at[i] = src[j]
    BY <1>1, <1>11
  <2>2. PICK p : Source(rows[j], src[j], p)
    BY <1>7
  <2>3. Good(input[at[i]]) /\ Single(input[at[i]]) /\ rows[j] \in Range(Spelled(input[at[i]], p))
    BY <1>3, <1>7, <1>12, <2>1, <2>2 DEF Source
  <2>4. rows[j] = SelfRow(input[at[i]], p)
    BY <2>3, SingleIs DEF Range
  <2>5. Is(input[at[i]], NameAt[i][1], NameAt[i][2])
    BY <1>1
  <2> QED
    BY <2>1, <2>4, <2>5 DEF Is, SelfRow, Row
<1> DEFINE pos == [i \in 1..6 |-> CHOOSE j \in 1..n : src[j] = at[i]]
<1>15. ASSUME NEW i \in 1..6 PROVE pos[i] \in 1..n /\ src[pos[i]] = at[i]
  BY <1>1, <1>7
<1> HIDE DEF pos
<1>16. \A j \in 1..n, i \in 1..6 : src[j] = at[i] => j = pos[i]
  <2> SUFFICES ASSUME NEW j \in 1..n, NEW i \in 1..6, src[j] = at[i] PROVE j = pos[i]
    OBVIOUS
  <2>1. pos[i] \in 1..n /\ src[pos[i]] = src[j] /\ src[j] \in Nat
    BY <1>11, <1>15
  <2>2. j < pos[i] \/ pos[i] < j \/ j = pos[i]
    BY <1>8, <2>1
  <2> QED
    BY <1>13, <2>1, <2>2
<1>17. \A i \in 1..6 : /\ Is(rows[pos[i]], NameAt[i][1], NameAt[i][2])
                       /\ rows[pos[i]].value = input[at[i]].value
  <2> SUFFICES ASSUME NEW i \in 1..6
               PROVE  /\ Is(rows[pos[i]], NameAt[i][1], NameAt[i][2])
                      /\ rows[pos[i]].value = input[at[i]].value
    OBVIOUS
  <2>1. PICK l \in 1..6 : /\ src[pos[i]] = at[l]
                          /\ Is(rows[pos[i]], NameAt[l][1], NameAt[l][2])
                          /\ rows[pos[i]].value = input[at[l]].value
    BY <1>14, <1>15
  <2>2. at[l] = at[i]
    BY <1>15, <2>1
  <2>3. l = i
    BY <1>1, <2>2, NamesDiffer
  <2> QED
    BY <2>1, <2>3
\* There are six of them.
<1>18. Len(r) = 6
  <2> DEFINE w == [j \in 1..Len(r) |-> src[q[j]]]
  <2>1. w \in [1..Len(r) -> Telling] /\ \A j \in 1..Len(r) : w[j] = src[q[j]]
    BY <1>9, <1>11
  <2> HIDE DEF w
  <2>2. ASSUME NEW i \in 1..Len(r), NEW j \in 1..Len(r), w[i] = w[j] PROVE i = j
    <3>1. q[i] \in 1..n /\ q[j] \in 1..n /\ src[q[i]] = src[q[j]]
      BY <1>9, <2>1, <2>2
    <3>2. PICK l \in 1..6 : src[q[i]] = at[l]
      BY <1>14, <3>1
    <3>3. q[i] = q[j]
      BY <1>16, <3>1, <3>2
    <3> QED
      BY <1>30, <3>3
  <2>3. \A k \in Telling : \E j \in 1..Len(r) : w[j] = k
    <3> SUFFICES ASSUME NEW k \in Telling PROVE \E j \in 1..Len(r) : w[j] = k
      OBVIOUS
    <3>1. PICK m \in 1..n : src[m] = k
      BY <1>7
    <3>2. PICK j \in 1..Len(r) : q[j] = m
      BY <1>9
    <3> QED
      BY <2>1, <3>1, <3>2
  <2>4. Cardinality(Telling) = Len(r)
    BY <1>6, <2>1, <2>2, <2>3, AsManyAs
  <2> QED
    BY <2>4 DEF StreamIsTheAgreement
<1> DEFINE u == [i \in 1..6 |-> CHOOSE j \in 1..6 : q[j] = pos[i]]
<1>19. ASSUME NEW i \in 1..6 PROVE u[i] \in 1..6 /\ q[u[i]] = pos[i]
  BY <1>9, <1>15, <1>18
<1>20. u \in [1..6 -> 1..6]
  BY <1>19
<1> HIDE DEF u
\* In review order.
<1>21. ASSUME NEW i \in 1..6, NEW j \in 1..6, Before(score, pos[i], pos[j]) PROVE u[i] < u[j]
  <2>1. u[i] \in 1..Len(r) /\ u[j] \in 1..Len(r) /\ Before(score, q[u[i]], q[u[j]])
    BY <1>18, <1>19, <1>21
  <2> QED
    BY <1>30, <2>1
<1>22. /\ score[pos[1]] = 0 /\ score[pos[2]] = 1
       /\ \A i \in 3..6 : score[pos[i]] = 2
  <2>1. \A i \in 1..6 : score[pos[i]] = Order!get_priority_score(rows[pos[i]])
    BY <1>8, <1>15
  <2>2. score[pos[1]] = 0
    BY <1>0, <1>17, <2>1 DEF Order!get_priority_score, is_transaction_type_field
  <2>3. IsOwnAccount(rows[pos[2]])
    <3>1. PICK m \in 1..n : IsOwnAccount(rows[m])
      BY <1>10
    <3>2. PICK l \in 1..6 : src[m] = at[l] /\ Is(rows[m], NameAt[l][1], NameAt[l][2])
      BY <1>14
    <3>3. Is(rows[m], NameAt[2][1], NameAt[2][2])
      BY <1>0, <3>1 DEF IsOwnAccount
    <3>4. l = 2
      BY <1>0, <3>2, <3>3, NamesDiffer
    <3> QED
      BY <1>16, <3>1, <3>2, <3>4
  <2>4. score[pos[2]] = 1
    BY <1>0, <2>1, <2>3 DEF Order!get_priority_score, is_transaction_type_field,
       is_normal_account_field, IsOwnAccount, OutsideArrays, Is
  <2>5. ASSUME NEW i \in 3..6 PROVE score[pos[i]] = 2
    <3>1. i \in 1..6 /\ (i = 3 \/ i = 4 \/ i = 5 \/ i = 6)
      OBVIOUS
    <3>2. Is(rows[pos[i]], NameAt[i][1], NameAt[i][2])
      BY <1>17, <3>1
    <3>3. ~Is(rows[pos[i]], "UINT16", "TRANSACTION_TYPE") /\ ~Is(rows[pos[i]], "ACCOUNT", "ACCOUNT")
      BY <1>0, <3>1, <3>2 DEF Is
    <3> QED
      BY <2>1, <3>1, <3>3 DEF Order!get_priority_score, is_transaction_type_field,
         is_normal_account_field
  <2> QED
    BY <2>2, <2>4, <2>5
<1>23. /\ at[3] = The("UINT32", "DESTINATION_TAG") /\ at[4] = The("AMOUNT", "AMOUNT")
       /\ at[5] = The("AMOUNT", "FEE") /\ at[6] = The("ACCOUNT", "DESTINATION")
  BY <1>0, <1>1
<1>24. at[3] < at[4] /\ at[4] < at[5] /\ at[5] < at[6]
  BY <1>23 DEF InLedgerOrder
<1>25. ASSUME NEW i \in 1..6, NEW j \in 1..6, at[i] < at[j] PROVE pos[i] < pos[j]
  <2>1. /\ pos[i] \in 1..n /\ pos[j] \in 1..n /\ src[pos[i]] < src[pos[j]]
        /\ src[pos[i]] \in Nat /\ src[pos[j]] \in Nat
    BY <1>11, <1>15, <1>25
  <2>2. pos[i] < pos[j] \/ pos[j] < pos[i] \/ pos[i] = pos[j]
    BY <1>8, <2>1
  <2> QED
    BY <1>13, <2>1, <2>2
<1>26. pos[3] < pos[4] /\ pos[4] < pos[5] /\ pos[5] < pos[6]
  BY <1>0, <1>24, <1>25
<1>27. /\ Before(score, pos[1], pos[2]) /\ Before(score, pos[2], pos[3])
       /\ Before(score, pos[3], pos[4]) /\ Before(score, pos[4], pos[5])
       /\ Before(score, pos[5], pos[6])
  BY <1>22, <1>26 DEF Before
<1>28. \A j \in 1..6 : u[j] = j
  <2>1. u[1] < u[2] /\ u[2] < u[3] /\ u[3] < u[4] /\ u[4] < u[5] /\ u[5] < u[6]
    BY <1>0, <1>21, <1>27
  <2> QED
    BY <1>20, <2>1, SixInARow
<1>29. ASSUME NEW j \in 1..6
       PROVE  /\ Is(f[j], NameAt[j][1], NameAt[j][2])
              /\ f[j].value = input[The(NameAt[j][1], NameAt[j][2])].value
  <2>1. q[j] = pos[j]
    BY <1>19, <1>28
  <2>2. r[j] = RowOf(f[j]) /\ r[j] = rows[pos[j]]
    BY <1>6, <1>9, <1>18, <2>1
  <2>3. Is(r[j], NameAt[j][1], NameAt[j][2]) /\ r[j].value = input[at[j]].value
    BY <1>17, <2>2
  <2>4. at[j] = The(NameAt[j][1], NameAt[j][2])
    BY <1>1
  <2> QED
    BY <2>2, <2>3, <2>4 DEF RowOf, Row, Is
<1> QED
  BY <1>6, <1>18, <1>29 DEF Named6, f

LEMMA AgreedIsAccepted ==
    ASSUME TracedInv, Arranged, decision = "refused", StreamIsTheAgreement, TypeIsItsOwn,
           InLedgerOrder, Encodable(params.amount), Encodable(params.fee), ShownInArrays = {}
    PROVE  FALSE
<1> DEFINE f == context.fields
<1>1. /\ verdict \in {"SUCCESS", "BLIND_SIGN_REQUIRED"} /\ ~check_swap_conditions_and_sign
      /\ params \in Agreements
      /\ agreed.address = SubSeq(params.destination_address, 1,
                                 Min({Len(params.destination_address), AddressSize - 1}))
      /\ agreed.destination_tag = params.extra_id
      /\ agreed.amount = params.amount /\ agreed.fee = params.fee
  BY DEF Arranged
<1>2. TypeOK /\ ReadThrough
  BY DEF TracedInv, RowsInv, ReadInv
<1>3. /\ Len(f) = 6
      /\ \A j \in 1..6 : /\ Is(f[j], NameAt[j][1], NameAt[j][2])
                         /\ f[j].value = input[The(NameAt[j][1], NameAt[j][2])].value
  BY <1>1, <1>2, SixFields DEF Named6
<1> HIDE DEF f
<1>4. /\ Len(f) = 6
      /\ Is(f[1], "UINT16", "TRANSACTION_TYPE")
      /\ f[1].value = input[The("UINT16", "TRANSACTION_TYPE")].value
      /\ Is(f[2], "ACCOUNT", "ACCOUNT")
      /\ Is(f[3], "UINT32", "DESTINATION_TAG")
      /\ f[3].value = input[The("UINT32", "DESTINATION_TAG")].value
      /\ Is(f[4], "AMOUNT", "AMOUNT") /\ f[4].value = input[The("AMOUNT", "AMOUNT")].value
      /\ Is(f[5], "AMOUNT", "FEE") /\ f[5].value = input[The("AMOUNT", "FEE")].value
      /\ Is(f[6], "ACCOUNT", "DESTINATION")
      /\ f[6].value = input[The("ACCOUNT", "DESTINATION")].value
  BY <1>3 DEF NameAt
<1>5. f[1].value = "PAYMENT" /\ Decimal[Word(f[3].value)] = agreed.destination_tag
  BY <1>1, <1>4 DEF StreamIsTheAgreement
<1>6. /\ f[4].value \in NativeAmounts /\ Word(f[4].value) = Encoded(agreed.amount)
      /\ f[5].value \in NativeAmounts /\ Word(f[5].value) = Encoded(agreed.fee)
  BY <1>1, <1>4 DEF StreamIsTheAgreement, IsDrops, Encoded, Encodable
<1>7. AddressText(f[6].value) = agreed.address
  <2> DEFINE k == The("ACCOUNT", "DESTINATION")
  <2>1. AddressText(input[k].value) = params.destination_address
    BY DEF StreamIsTheAgreement
  <2>2. k \in Telling /\ Is(input[k], "ACCOUNT", "DESTINATION")
    BY DEF StreamIsTheAgreement, Says, The
  <2> HIDE DEF k
  <2>3. input[k] \in Token /\ input[k].data_type = "ACCOUNT"
    BY <1>2, <2>2 DEF Telling, TypeOK, Position, Is
  <2>4. \A cut : cut = agreed.address =>
            (AddressText(input[k].value) = cut <=>
                 AddressText(input[k].value) = params.destination_address)
    BY <1>1, <2>3, WholeAddress
  <2>5. AddressText(input[k].value) = agreed.address
    BY <2>1, <2>4
  <2> QED
    BY <1>4, <2>5 DEF k
<1>8. TagMatches(f[3]) /\ AddressMatches(f[6])
  BY <1>4, <1>5, <1>7 DEF TagMatches, AddressMatches
<1>9. AmountMatches(f[4], "AMOUNT", agreed.amount) /\ AmountMatches(f[5], "FEE", agreed.fee)
  BY <1>1, <1>4, <1>6 DEF AmountMatches
<1>10. check_swap_conditions_and_sign
  BY <1>4, <1>5, <1>8, <1>9 DEF check_swap_conditions_and_sign, f
<1> QED
  BY <1>1, <1>10

\* Whatever the tokens, the agreement and the stream: the agreed payment is never refused
\* when its fields come in the order of the ledger.
THEOREM RefusesNoAgreement == SwapSpec => []SwapAcceptsTheAgreement
<1>1. TracedInv /\ Arranged => SwapAcceptsTheAgreement
  BY AgreedIsAccepted DEF SwapAcceptsTheAgreement
<1> QED
  BY <1>1, SwapInductive, PTL


-----------------------------------------------------------------------------
(* What Exchange is told.                                                  *)

\* Strings that are compared to their ends are the same.
LEMMA SameToTheEnd ==
    ASSUME NEW s, NEW t, IsString(s), IsString(t), SameString(s, t)
    PROVE  s = t
<1> DEFINE S == Range(s) \cup Range(t) \cup {"END"}
           m == Len(s)
           n == Len(t)
           u == Append(s, "END")
           v == Append(t, "END")
<1>1. "END" \notin Range(t) /\ s \in Seq(Range(s)) /\ t \in Seq(Range(t))
  BY DEF IsString
<1>2. s \in Seq(S) /\ t \in Seq(S) /\ "END" \in S
  <2>1. Range(s) \subseteq S /\ Range(t) \subseteq S /\ "END" \in S
    OBVIOUS
  <2> HIDE DEF S
  <2> QED
    BY <1>1, <2>1, SeqMonotonic
<1>3. \A k \in 1..n : t[k] # "END"
  <2>1. DOMAIN t = 1..n
    BY <1>1
  <2> QED
    BY <1>1, <2>1 DEF Range
<1> HIDE DEF S
<1>4. m \in Nat /\ n \in Nat
  BY <1>2
<1>5. /\ u \in Seq(S) /\ Len(u) = m + 1 /\ u[m + 1] = "END" /\ \A k \in 1..m : u[k] = s[k]
      /\ v \in Seq(S) /\ Len(v) = n + 1 /\ v[n + 1] = "END" /\ \A k \in 1..n : v[k] = t[k]
  BY <1>2
<1>6. Len(u) <= Len(v) /\ SubSeq(u, 1, Len(u)) = SubSeq(v, 1, Len(u))
  BY DEF SameString, IsPrefix
<1> HIDE DEF m, n, u, v
<1>7. \A k \in 1..m + 1 : u[k] = v[k]
  <2>1. \A i \in 1..m + 1 : u[i] \in S /\ v[i] \in S
    BY <1>4, <1>5, <1>6
  <2>2. 1 \in Int /\ m + 1 \in Int /\ (m + 1) - 1 + 1 = m + 1
    BY <1>4
  <2>3. \A i \in 1..(m + 1) - 1 + 1 : SubSeq(u, 1, m + 1)[i] = u[1 + i - 1]
    BY <2>1, <2>2, SubSeqProperties
  <2>4. \A i \in 1..(m + 1) - 1 + 1 : SubSeq(v, 1, m + 1)[i] = v[1 + i - 1]
    BY <2>1, <2>2, SubSeqProperties
  <2>5. SubSeq(u, 1, m + 1) = SubSeq(v, 1, m + 1)
    BY <1>5, <1>6
  <2>6. \A i \in 1..m + 1 : 1 + i - 1 = i
    OBVIOUS
  <2> QED
    BY <2>2, <2>3, <2>4, <2>5, <2>6
<1>8. m = n
  <2>1. m <= n
    BY <1>4, <1>5, <1>6
  <2>2. ~(m < n)
    <3> SUFFICES ASSUME m < n PROVE FALSE
      OBVIOUS
    <3>1. m + 1 \in 1..m + 1 /\ m + 1 \in 1..n
      BY <1>4
    <3> QED
      BY <1>3, <1>5, <1>7, <3>1
  <2> QED
    BY <1>4, <2>1, <2>2
<1>9. \A k \in 1..m : s[k] = t[k]
  <2>1. \A k \in 1..m : k \in 1..m + 1
    BY <1>4
  <2> QED
    BY <1>5, <1>7, <1>8, <2>1
<1> QED
  BY <1>2, <1>8, <1>9, SeqEqual DEF m, n

\* What was told before the signature is asked for.
Told ==
    /\ checked.result => IsAddressOf(checked.asked.address_to_check, checked.asked.address_parameters)
    /\ decision \notin {"called", "answered"} =>
           printable = IF FitsWord(params.amount) THEN xrp_print_amount(params.amount) ELSE Refused

LEMMA InitTold == SwapInit => Told
BY DEF SwapInit, Told

LEMMA CheckTold ==
    ASSUME NEW c \in Checks, Told, swap_handle_check_address(c)
    PROVE  Told'
<1> DEFINE p == c.address_parameters
           path == parse_bip32_path(p)
           asked == checked'.asked
           result == /\ p # << >> /\ path # << >>
                     /\ SameString(KeyAddress(path), c.address_to_check)
<1>1. checked' = [asked |-> c, result |-> result] /\ decision' = "answered"
  BY DEF swap_handle_check_address
<1>2. ASSUME result PROVE IsAddressOf(c.address_to_check, p)
  <2>1. p[1] \in 1..MaxPath /\ Len(p) - 1 >= p[1] /\ path = SubSeq(p, 2, p[1] + 1)
    BY <1>2 DEF parse_bip32_path
  <2>2. IsString(c.address_to_check) /\ IsString(KeyAddress(path))
    BY <1>2, CheckAssumption
  <2>3. KeyAddress(path) = c.address_to_check
    BY <1>2, <2>2, SameToTheEnd
  <2>4. p[1] < Len(p)
    BY <2>1
  <2> QED
    BY <1>2, <2>1, <2>3, <2>4 DEF IsAddressOf
<1> HIDE DEF result, path
<1>3. checked'.asked = c /\ (checked'.result <=> result)
  BY <1>1
<1>4. checked'.result => IsAddressOf(checked'.asked.address_to_check, checked'.asked.address_parameters)
  BY <1>2, <1>3
<1> QED
  BY <1>1, <1>4 DEF Told

LEMMA NextTold == Told /\ [SwapNext]_swapVars => Told'
<1> SUFFICES ASSUME Told, [SwapNext]_swapVars PROVE Told'
  OBVIOUS
<1>1. ASSUME NEW c \in Checks, swap_handle_check_address(c) PROVE Told'
  BY <1>1, CheckTold
<1>2. CASE swap_handle_get_printable_amount
  BY <1>2 DEF Told, swap_handle_get_printable_amount
<1>3. CASE swap_copy_transaction_parameters
  BY <1>3 DEF Told, swap_copy_transaction_parameters
<1>4. CASE ParseStep
  BY <1>4 DEF Told, ParseStep
<1>5. CASE review_transaction
  BY <1>5 DEF Told, review_transaction
<1>6. CASE UNCHANGED swapVars
  BY <1>6 DEF Told, swapVars
<1> QED
  BY <1>1, <1>2, <1>3, <1>4, <1>5, <1>6 DEF SwapNext

\* The user was shown the amount that is signed.
LEMMA AcceptedIsShown ==
    ASSUME TracedInv, Arranged, Told, decision = "accepted"
    PROVE  SaysXRP(printable, Word(input[The("AMOUNT", "AMOUNT")].value) - AmountBit)
<1> DEFINE n == params.amount
           v == input[The("AMOUNT", "AMOUNT")].value
<1>1. v \in NativeAmounts /\ Word(v) = n + AmountBit
  BY AcceptedIsAgreed DEF StreamIsTheAgreement, IsDrops
<1>2. n \in Nat
  BY SwapAssumption DEF Arranged
<1>3. AmountBit \in Nat \ {0} /\ WordSize = 4 * AmountBit /\ AmountBit <= Base[MaxDigits]
  <2>1. MaxDigits \in 0..MaxDigits
    BY PrintAssumption
  <2> QED
    BY <2>1, BaseIs, SwapAssumption
<1>4. Word(v) \in 0..(2 * AmountBit) - 1
  BY <1>1, SwapAssumption
<1> HIDE DEF n, v
<1>5. n < AmountBit /\ Word(v) - AmountBit = n
  BY <1>1, <1>2, <1>3, <1>4
<1>6. n < Base[MaxDigits]
  <2>1. MaxDigits \in 0..MaxDigits
    BY PrintAssumption
  <2>2. Base[MaxDigits] \in Nat
    BY <2>1, BaseIs
  <2> QED
    BY <1>2, <1>3, <1>5, <2>2
<1>7. NumDigits(n) <= MaxDigits
  <2>1. MaxDigits \in 0..MaxDigits
    BY PrintAssumption
  <2> QED
    BY <1>2, <1>6, <2>1, NumDigitsIs
<1>8. printable = xrp_print_amount(n)
  <2>1. FitsWord(n)
    BY <1>2, <1>3, <1>5 DEF FitsWord
  <2> QED
    BY <2>1 DEF Told, n
<1> QED
  BY <1>2, <1>5, <1>7, <1>8, AmountSaysItself DEF v

\* Whatever the parameters and the stream: Exchange is told nothing wrong.
THEOREM NothingWrongIsTold == SwapSpec => []ExchangeIsToldTheTruth
<1>1. SwapSpec => []Told
  BY InitTold, NextTold, PTL DEF SwapSpec
<1>2. TracedInv /\ Arranged /\ Told => ExchangeIsToldTheTruth
  BY AcceptedIsShown DEF ExchangeIsToldTheTruth, Told
<1> QED
  BY <1>1, <1>2, SwapInductive, PTL

=============================================================================
