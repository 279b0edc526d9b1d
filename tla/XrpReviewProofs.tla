--------------------------- MODULE XrpReviewProofs ---------------------------
(***************************************************************************)
(* What is proved of the parser and of its review for every stream of      *)
(* fields, every set of supported types and tokens and every limit.        *)
(*                                                                         *)
(* First the parser: the fields stay within their array and the indices    *)
(* within the limits, and a transaction shown in clear holds nothing       *)
(* malformed or unnamed.  Then what it makes of nesting: the flat notion   *)
(* of one current array and one depth is enough to tell the fields of the  *)
(* transaction from those inside arrays and objects, as long as the        *)
(* brackets of the stream are sound.                                       *)
(*                                                                         *)
(* Last its rows: those of a review are what the fields of the stream      *)
(* spell out, each under the number of its own array or path, in review    *)
(* order.  The parser numbers with two indices that it overwrites; that    *)
(* these are the numbers counted from the stream is the invariant there.   *)
(***************************************************************************)
EXTENDS XrpReview, Induction, SequenceTheorems

-----------------------------------------------------------------------------
(* Sequences.                                                              *)

LEMMA ConcatTyped ==
    ASSUME NEW S, NEW s \in Seq(S), NEW t \in Seq(S)
    PROVE  /\ s \o t \in Seq(S)
           /\ Len(s \o t) = Len(s) + Len(t)
           /\ \A k \in DOMAIN (s \o t) : \/ k \in DOMAIN s /\ (s \o t)[k] = s[k]
                                         \/ \E j \in DOMAIN t : (s \o t)[k] = t[j]
<1>1. s \o t \in Seq(S) /\ Len(s \o t) = Len(s) + Len(t)
  OBVIOUS
<1>2. ASSUME NEW k \in DOMAIN (s \o t)
      PROVE  \/ k \in DOMAIN s /\ (s \o t)[k] = s[k]
             \/ \E j \in DOMAIN t : (s \o t)[k] = t[j]
  <2>1. CASE k <= Len(s)
    BY <2>1
  <2>2. CASE k > Len(s)
    <3>1. k - Len(s) \in DOMAIN t /\ (s \o t)[k] = t[k - Len(s)]
      BY <2>2
    <3> QED
      BY <3>1
  <2> QED
    BY <2>1, <2>2
<1> QED
  BY <1>1, <1>2

LEMMA AppendTyped ==
    ASSUME NEW S, NEW s \in Seq(S), NEW e \in S
    PROVE  /\ Append(s, e) \in Seq(S)
           /\ Len(Append(s, e)) = Len(s) + 1
           /\ \A k \in DOMAIN Append(s, e) : \/ k \in DOMAIN s /\ Append(s, e)[k] = s[k]
                                             \/ Append(s, e)[k] = e
OBVIOUS

-----------------------------------------------------------------------------
(* Fields.                                                                 *)

\* A field made where the parser stands is typed, and numbered if the path is not full.
LEMMA NewFieldTyped ==
    ASSUME NEW c, ContextOK(c),
           NEW data_type, NEW id, NEW value, NEW length \in Nat,
           data_type \in {"ACCOUNT", "CURRENCY", "HASH256"} \cup {t.data_type : t \in Token},
           id \in {"ACCOUNT", "ISSUER", "CURRENCY", "REGULAR_KEY", "NFTOKEN_OFFER"}
                      \cup {t.id : t \in Token},
           value \in {"issuer", "currency", "empty", "step"} \cup {t.value : t \in Token}
    PROVE  /\ NewField(c, data_type, id, value, length) \in ParsedFields
           /\ c.array_index2 <= MaxStepCount =>
                  PathNumbered(NewField(c, data_type, id, value, length))
           /\ c.current_array # "PATHSET" =>
                  PathNumbered(NewField(c, data_type, id, value, length))
<1>1. /\ c.current_array \in ArrayTypes /\ c.object_depth \in 0..DepthModulus - 1
      /\ c.array_index1 \in 0..Max2(MaxArrayLen, MaxPathCount)
      /\ c.array_index2 \in 0..MaxStepCount + 1
  BY DEF ContextOK, Contexts
<1>2. Max2(MaxArrayLen, MaxPathCount) \in Nat
  BY LimitAssumption DEF Max2
<1>3. ArrayInfo(c) \in ArrayInfos
  BY <1>1, <1>2, LimitAssumption DEF ArrayInfo, NoArray, ArrayInfos, ArrayTypes
<1>4. NewField(c, data_type, id, value, length) \in ParsedFields
  BY <1>1, <1>3 DEF NewField, ParsedFields
<1>5. ArrayInfo(c).type = "PATHSET" =>
          /\ c.current_array = "PATHSET"
          /\ ArrayInfo(c).index1 = c.array_index1 /\ ArrayInfo(c).index2 = c.array_index2
  BY DEF ArrayInfo, NoArray
<1>6. c.current_array = "PATHSET" => c.array_index1 \in 1..MaxPathCount /\ c.array_index2 >= 1
  BY DEF ContextOK, PathIndices
<1>7. NewField(c, data_type, id, value, length).array_info = ArrayInfo(c)
  BY DEF NewField
<1> QED
  BY <1>1, <1>4, <1>5, <1>6, <1>7, LimitAssumption DEF PathNumbered

\* The parts of a token are parts of a parsed field.
LEMMA TokenParts ==
    ASSUME NEW t \in Token
    PROVE  /\ t.data_type \in {u.data_type : u \in Token}
           /\ t.id \in {u.id : u \in Token}
           /\ t.value \in {u.value : u \in Token}
           /\ t.length \in Nat
BY TokenAssumption

LEMMA FieldOfTyped ==
    ASSUME NEW t \in Token, ContextOK(context)
    PROVE  /\ FieldOf(context, t) \in ParsedFields
           /\ context.array_index2 <= MaxStepCount => PathNumbered(FieldOf(context, t))
           /\ context.current_array # "PATHSET" => PathNumbered(FieldOf(context, t))
<1>1. /\ t.data_type \in {u.data_type : u \in Token}
      /\ t.id \in {u.id : u \in Token}
      /\ t.value \in {u.value : u \in Token}
      /\ t.length \in Nat
  BY TokenParts
<1>2. /\ t.data_type \in {"ACCOUNT", "CURRENCY", "HASH256"} \cup {u.data_type : u \in Token}
      /\ t.id \in {"ACCOUNT", "ISSUER", "CURRENCY", "REGULAR_KEY", "NFTOKEN_OFFER"}
                      \cup {u.id : u \in Token}
      /\ t.value \in {"issuer", "currency", "empty", "step"} \cup {u.value : u \in Token}
  BY <1>1
<1> QED
  BY <1>1, <1>2, NewFieldTyped DEF FieldOf

\* The fields the parser adds are typed.
LEMMA AddedFieldTyped ==
    ASSUME ContextOK(context), NEW f,
           f \in {Issuer(context), Currency(context), ClearedKey(context),
                  NewField(context, "ACCOUNT", "ACCOUNT", "step", AccountSize)}
    PROVE  /\ f \in ParsedFields
           /\ context.array_index2 <= MaxStepCount => PathNumbered(f)
           /\ context.current_array # "PATHSET" => PathNumbered(f)
<1>1. CASE f = Issuer(context)
  BY <1>1, NewFieldTyped DEF Issuer, AccountSize
<1>2. CASE f = Currency(context)
  BY <1>2, NewFieldTyped DEF Currency, AccountSize
<1>3. CASE f = ClearedKey(context)
  BY <1>3, NewFieldTyped DEF ClearedKey
<1>4. CASE f = NewField(context, "ACCOUNT", "ACCOUNT", "step", AccountSize)
  BY <1>4, NewFieldTyped DEF AccountSize
<1> QED
  BY <1>1, <1>2, <1>3, <1>4

-----------------------------------------------------------------------------
(* Changes of the context.                                                 *)

\* Fields added within the limit, each of them numbered.
LEMMA FieldsAdded ==
    ASSUME ContextOK(context), NEW new \in Seq(ParsedFields),
           Len(context.fields) + Len(new) <= MaxFieldCount,
           \A k \in DOMAIN new : PathNumbered(new[k])
    PROVE  ContextOK([context EXCEPT !.fields = @ \o new])
<1> DEFINE s == context.fields
<1> DEFINE c == [context EXCEPT !.fields = s \o new]
<1>1. s \in Seq(ParsedFields) /\ \A k \in DOMAIN s : PathNumbered(s[k])
  BY DEF ContextOK, Contexts
<1>2. /\ s \o new \in Seq(ParsedFields)
      /\ Len(s \o new) = Len(s) + Len(new)
      /\ \A k \in DOMAIN (s \o new) : \/ k \in DOMAIN s /\ (s \o new)[k] = s[k]
                                      \/ \E j \in DOMAIN new : (s \o new)[k] = new[j]
  BY <1>1, ConcatTyped
<1>3. \A k \in DOMAIN (s \o new) : PathNumbered((s \o new)[k])
  BY <1>1, <1>2
<1>4. /\ c.fields = s \o new
      /\ c.current_array = context.current_array
      /\ c.array_index1 = context.array_index1 /\ c.array_index2 = context.array_index2
  BY DEF ContextOK, Contexts
<1>5. c \in Contexts
  BY <1>2 DEF ContextOK, Contexts
<1>6. PathIndices(c)
  BY <1>4 DEF ContextOK, PathIndices
<1>7. Len(c.fields) <= MaxFieldCount
  BY <1>2, <1>4
<1>8. \A k \in DOMAIN c.fields : PathNumbered(c.fields[k])
  BY <1>3, <1>4
<1> QED
  BY <1>5, <1>6, <1>7, <1>8 DEF ContextOK

LEMMA PutOK ==
    ASSUME ContextOK(context), verdict = "parsing", NEW new \in Seq(ParsedFields),
           \A k \in DOMAIN new : PathNumbered(new[k]), Put(new)
    PROVE  /\ verdict' \in {"parsing", "NOT_ENOUGH_SPACE"}
           /\ verdict' = "parsing" => ContextOK(context')
<1>1. CASE /\ Len(context.fields) + Len(new) <= MaxFieldCount
           /\ context' = [context EXCEPT !.fields = @ \o new]
           /\ UNCHANGED verdict
  <2>1. ContextOK([context EXCEPT !.fields = @ \o new])
    BY <1>1, FieldsAdded
  <2> QED
    BY <1>1, <2>1
<1>2. CASE Fail("NOT_ENOUGH_SPACE")
  BY <1>2 DEF Fail
<1> QED
  BY <1>1, <1>2 DEF Put

\* A change of the indices that leaves the fields alone.
LEMMA Renumbered ==
    ASSUME ContextOK(context), NEW c \in Contexts, c.fields = context.fields, PathIndices(c)
    PROVE  ContextOK(c)
BY DEF ContextOK

-----------------------------------------------------------------------------
(* The actions.                                                            *)

Errors == {"BLIND_SIGN_REQUIRED", "NOT_SUPPORTED", "INVALID_STATE", "NOT_ENOUGH_SPACE",
           "EXCEPTION_OVERFLOW"}

LEMMA StepTyped ==
    ASSUME NEW t \in Token, TypeOK, Take(t), verdict' \in {"parsing", "SUCCESS"} \cup Errors,
           verdict' = "parsing" => ContextOK(context')
    PROVE  TypeOK'
<1>1. input' \in Seq(Token)
  BY DEF TypeOK, Take
<1>2. TypeOK' <=> /\ verdict' \in {"parsing", "SUCCESS", "BLIND_SIGN_REQUIRED", "NOT_SUPPORTED",
                                   "INVALID_STATE", "NOT_ENOUGH_SPACE", "EXCEPTION_OVERFLOW"}
                  /\ input' \in Seq(Token)
                  /\ verdict' = "parsing" => ContextOK(context')
  BY DEF TypeOK
<1> QED
  BY <1>1, <1>2 DEF Errors

LEMMA FailTyped ==
    ASSUME NEW t \in Token, TypeOK, Take(t), NEW error \in Errors, Fail(error)
    PROVE  TypeOK'
BY StepTyped DEF Fail, Errors

LEMMA PutTyped ==
    ASSUME NEW t \in Token, TypeOK, Take(t), NEW new \in Seq(ParsedFields),
           \A k \in DOMAIN new : PathNumbered(new[k]), Put(new)
    PROVE  TypeOK'
<1>1. verdict = "parsing" /\ ContextOK(context)
  BY DEF Take, TypeOK
<1>2. verdict' \in {"parsing", "NOT_ENOUGH_SPACE"} /\ (verdict' = "parsing" => ContextOK(context'))
  BY <1>1, PutOK
<1> QED
  BY <1>2, StepTyped DEF Errors

\* Outside path sets nothing stops a field from being added.
LEMMA TakenOutside ==
    ASSUME NEW t \in Token, TypeOK, Take(t), t.data_type # "STEP"
    PROVE  ContextOK(context) /\ context.current_array # "PATHSET" /\ verdict = "parsing"
BY DEF TypeOK, Take

LEMMA ReadScalarTyped ==
    ASSUME NEW t \in Token, TypeOK, ReadScalar(t)
    PROVE  TypeOK'
<1> DEFINE f == FieldOf(context, t)
<1> DEFINE s == context.fields
<1> DEFINE key == context.has_empty_pub_key \/ EmptyPubKey(f)
<1> DEFINE kept == [context EXCEPT !.fields = s, !.has_empty_pub_key = key]
<1> DEFINE shown == [context EXCEPT !.fields = Append(s, f), !.has_empty_pub_key = key]
<1>1. Take(t) /\ t.data_type # "STEP" /\ ~Full
  BY DEF ReadScalar, Begin
<1>2. ContextOK(context) /\ context.current_array # "PATHSET" /\ verdict = "parsing"
  BY <1>1, TakenOutside
<1>3. f \in ParsedFields /\ PathNumbered(f)
  BY <1>2, FieldOfTyped
<1>4. s \in Seq(ParsedFields) /\ Len(s) \in Nat /\ Len(s) < MaxFieldCount /\ MaxFieldCount \in Nat
  BY <1>1, <1>2, LimitAssumption DEF ContextOK, Contexts, Full
<1>5. key \in BOOLEAN
  BY <1>2 DEF ContextOK, Contexts, EmptyPubKey, TopLevel, OutsideArrays, Is
<1>6. context' = kept \/ context' = shown
  BY DEF ReadScalar
<1>7. /\ Append(s, f) \in Seq(ParsedFields) /\ Len(Append(s, f)) = Len(s) + 1
      /\ \A k \in DOMAIN Append(s, f) : PathNumbered(Append(s, f)[k])
  BY <1>2, <1>3, <1>4, AppendTyped DEF ContextOK
<1> HIDE DEF f, key
<1>8. CASE context' = kept
  <2>1. kept \in Contexts /\ kept.fields = s /\ kept.current_array = context.current_array
    BY <1>2, <1>5 DEF ContextOK, Contexts
  <2>2. ContextOK(kept)
    BY <1>2, <2>1 DEF ContextOK, PathIndices
  <2> QED
    BY <1>1, <1>2, <1>8, <2>2, StepTyped DEF ReadScalar
<1>9. CASE context' = shown
  <2>1. shown \in Contexts /\ shown.fields = Append(s, f)
        /\ shown.current_array = context.current_array
    BY <1>2, <1>5, <1>7 DEF ContextOK, Contexts
  <2>2. ContextOK(shown)
    BY <1>2, <1>4, <1>7, <2>1 DEF ContextOK, PathIndices
  <2> QED
    BY <1>1, <1>2, <1>9, <2>2, StepTyped DEF ReadScalar
<1> QED
  BY <1>6, <1>8, <1>9

LEMMA ReadTransactionTypeTyped ==
    ASSUME NEW t \in Token, TypeOK, ReadTransactionType(t)
    PROVE  TypeOK'
<1> DEFINE f == FieldOf(context, t)
<1> DEFINE s == context.fields
<1> DEFINE trusted == TopLevel(f) /\ context.transaction_type = "INVALID"
<1> DEFINE type == IF trusted THEN f.value ELSE context.transaction_type
<1> DEFINE c == [context EXCEPT !.fields = Append(s, f), !.transaction_type = type]
<1>1. Take(t) /\ t.data_type # "STEP" /\ ~Full
  BY DEF ReadTransactionType, Begin
<1>2. ContextOK(context) /\ context.current_array # "PATHSET" /\ verdict = "parsing"
  BY <1>1, TakenOutside
<1>3. f \in ParsedFields /\ PathNumbered(f) /\ f.value = t.value
  BY <1>2, FieldOfTyped DEF FieldOf, NewField
<1>4. s \in Seq(ParsedFields) /\ Len(s) \in Nat /\ Len(s) < MaxFieldCount /\ MaxFieldCount \in Nat
  BY <1>1, <1>2, LimitAssumption DEF ContextOK, Contexts, Full
<1>5. type \in {"INVALID"} \cup {u.value : u \in Token}
  BY <1>2, <1>3 DEF ContextOK, Contexts
<1>6. context' = c /\ verdict' \in {"parsing", "BLIND_SIGN_REQUIRED"}
  BY <1>2 DEF ReadTransactionType
<1>7. /\ Append(s, f) \in Seq(ParsedFields) /\ Len(Append(s, f)) = Len(s) + 1
      /\ \A k \in DOMAIN Append(s, f) : PathNumbered(Append(s, f)[k])
  BY <1>2, <1>3, <1>4, AppendTyped DEF ContextOK
<1> HIDE DEF f, type
<1>8. c \in Contexts /\ c.fields = Append(s, f) /\ c.current_array = context.current_array
  BY <1>2, <1>5, <1>7 DEF ContextOK, Contexts
<1>9. ContextOK(c)
  BY <1>2, <1>4, <1>7, <1>8 DEF ContextOK, PathIndices
<1> QED
  BY <1>1, <1>6, <1>9, StepTyped DEF Errors

\* The sequences of fields that the actions put.
LEMMA PutFields ==
    ASSUME NEW t \in Token, ContextOK(context), context.current_array # "PATHSET"
    PROVE  \A new \in {<<FieldOf(context, t)>>, <<FieldOf(context, t), Issuer(context)>>,
                       <<FieldOf(context, t), Currency(context), Issuer(context)>>} :
               /\ new \in Seq(ParsedFields)
               /\ \A k \in DOMAIN new : PathNumbered(new[k])
<1> DEFINE f == FieldOf(context, t)
<1> DEFINE g == Issuer(context)
<1> DEFINE h == Currency(context)
<1>1. f \in ParsedFields /\ PathNumbered(f)
  BY FieldOfTyped
<1>2. g \in ParsedFields /\ PathNumbered(g)
  BY AddedFieldTyped
<1>3. h \in ParsedFields /\ PathNumbered(h)
  BY AddedFieldTyped
<1> HIDE DEF f, g, h
<1>4. <<f>> \in Seq(ParsedFields) /\ \A k \in DOMAIN <<f>> : PathNumbered(<<f>>[k])
  BY <1>1
<1>5. <<f, g>> \in Seq(ParsedFields) /\ \A k \in DOMAIN <<f, g>> : PathNumbered(<<f, g>>[k])
  BY <1>1, <1>2
<1>6. <<f, h, g>> \in Seq(ParsedFields)
      /\ \A k \in DOMAIN <<f, h, g>> : PathNumbered(<<f, h, g>>[k])
  BY <1>1, <1>2, <1>3
<1> QED
  BY <1>4, <1>5, <1>6 DEF f, g, h

LEMMA PutOneTyped ==
    ASSUME NEW t \in Token, TypeOK, Take(t), t.data_type # "STEP",
           NEW new \in {<<FieldOf(context, t)>>, <<FieldOf(context, t), Issuer(context)>>,
                        <<FieldOf(context, t), Currency(context), Issuer(context)>>},
           Put(new)
    PROVE  TypeOK'
<1>1. ContextOK(context) /\ context.current_array # "PATHSET"
  BY TakenOutside
<1>2. new \in Seq(ParsedFields) /\ \A k \in DOMAIN new : PathNumbered(new[k])
  BY <1>1, PutFields
<1> QED
  BY <1>2, PutTyped

LEMMA ReadAccountTyped ==
    ASSUME NEW t \in Token, TypeOK, ReadAccount(t)
    PROVE  TypeOK'
<1>1. Take(t) /\ t.data_type # "STEP"
  BY DEF ReadAccount, Begin
<1>2. CASE Fail("INVALID_STATE")
  BY <1>1, <1>2, FailTyped DEF Errors
<1>3. CASE Put(<<FieldOf(context, t)>>)
  BY <1>1, <1>3, PutOneTyped
<1> QED
  BY <1>2, <1>3 DEF ReadAccount

LEMMA ReadAmountTyped ==
    ASSUME NEW t \in Token, TypeOK, ReadAmount(t)
    PROVE  TypeOK'
<1>1. Take(t) /\ t.data_type # "STEP"
  BY DEF ReadAmount, Begin
<1>2. CASE Fail("INVALID_STATE")
  BY <1>1, <1>2, FailTyped DEF Errors
<1>3. CASE \E new \in {<<FieldOf(context, t)>>, <<FieldOf(context, t), Issuer(context)>>,
                       <<FieldOf(context, t), Currency(context), Issuer(context)>>} : Put(new)
  BY <1>1, <1>3, PutOneTyped
<1> QED
  BY <1>2, <1>3 DEF ReadAmount

LEMMA ReadIssueTyped ==
    ASSUME NEW t \in Token, TypeOK, ReadIssue(t)
    PROVE  TypeOK'
<1>1. Take(t) /\ t.data_type # "STEP"
  BY DEF ReadIssue, Begin
<1>2. \E new \in {<<FieldOf(context, t)>>, <<FieldOf(context, t), Issuer(context)>>} : Put(new)
  BY DEF ReadIssue
<1> QED
  BY <1>1, <1>2, PutOneTyped

LEMMA Relabelled ==
    ASSUME NEW info \in ArrayInfos, NEW type \in ArrayTypes, NEW k \in Nat
    PROVE  [[info EXCEPT !.type = type] EXCEPT !.index1 = k] \in ArrayInfos
BY DEF ArrayInfos

LEMMA ReadVector256Typed ==
    ASSUME NEW t \in Token, TypeOK, ReadVector256(t)
    PROVE  TypeOK'
<1> DEFINE n == t.length \div Vector256Size
<1> DEFINE entries == [k \in 1..n |-> VectorEntry(t, k)]
<1> DEFINE f == FieldOf(context, t)
<1>1. Take(t) /\ t.data_type # "STEP"
  BY DEF ReadVector256, Begin
<1>2. ContextOK(context) /\ context.current_array # "PATHSET" /\ verdict = "parsing"
  BY <1>1, TakenOutside
<1>3. CASE Fail("INVALID_STATE")
  BY <1>1, <1>3, FailTyped DEF Errors
<1>4. CASE Put(<<f>> \o entries)
  <2>1. n \in Nat
    BY TokenParts DEF Vector256Size
  <2>2. f \in ParsedFields /\ PathNumbered(f)
    BY <1>2, FieldOfTyped
  <2>3. ASSUME NEW k \in 1..n
        PROVE  VectorEntry(t, k) \in ParsedFields /\ PathNumbered(VectorEntry(t, k))
    <3> DEFINE g == NewField(context, "HASH256", "NFTOKEN_OFFER", t.value, Vector256Size)
    <3>1. t.value \in {u.value : u \in Token} /\ t.id \in {u.id : u \in Token}
      BY TokenParts
    <3>2. t.value \in {"issuer", "currency", "empty", "step"} \cup {u.value : u \in Token}
      BY <3>1
    <3>3. g \in ParsedFields
      BY <1>2, <3>2, NewFieldTyped DEF Vector256Size
    <3>4. g.data_type = "HASH256"
      BY DEF NewField
    <3>5. VectorEntry(t, k) = [g EXCEPT !.array_info = [[@ EXCEPT !.type = t.id] EXCEPT !.index1 = k]]
      BY <3>3 DEF VectorEntry, ParsedFields, ArrayInfos
    <3> HIDE DEF g
    <3>6. [[g.array_info EXCEPT !.type = t.id] EXCEPT !.index1 = k] \in ArrayInfos
      <4>1. g.array_info \in ArrayInfos
        BY <3>3 DEF ParsedFields
      <4>2. t.id \in ArrayTypes /\ k \in Nat
        BY <2>1, <3>1 DEF ArrayTypes
      <4> QED
        BY <4>1, <4>2, Relabelled
    <3>7. VectorEntry(t, k) \in ParsedFields /\ VectorEntry(t, k).data_type = "HASH256"
      BY <3>3, <3>4, <3>5, <3>6 DEF ParsedFields
    <3> QED
      BY <3>7 DEF PathNumbered
  <2> HIDE DEF f, n
  <2>4. entries \in Seq(ParsedFields) /\ \A k \in DOMAIN entries : PathNumbered(entries[k])
    BY <2>1, <2>3
  <2>5. <<f>> \in Seq(ParsedFields) /\ \A k \in DOMAIN <<f>> : PathNumbered(<<f>>[k])
    BY <2>2
  <2> HIDE DEF entries
  <2>6. <<f>> \o entries \in Seq(ParsedFields)
        /\ \A k \in DOMAIN (<<f>> \o entries) : PathNumbered((<<f>> \o entries)[k])
    BY <2>4, <2>5, ConcatTyped
  <2> QED
    BY <1>1, <1>4, <2>6, PutTyped
<1> QED
  BY <1>3, <1>4 DEF ReadVector256

\* Only the place of the parser changes.
LEMMA MovedTyped ==
    ASSUME NEW t \in Token, TypeOK, Take(t), NEW c \in Contexts, c.fields = context.fields,
           PathIndices(c), context' = c, UNCHANGED verdict
    PROVE  TypeOK'
<1>1. verdict = "parsing" /\ ContextOK(context)
  BY DEF Take, TypeOK
<1>2. ContextOK(c)
  BY <1>1, Renumbered
<1> QED
  BY <1>1, <1>2, StepTyped

LEMMA Bounds ==
    /\ Max2(MaxArrayLen, MaxPathCount) \in Nat
    /\ MaxArrayLen <= Max2(MaxArrayLen, MaxPathCount)
    /\ MaxPathCount <= Max2(MaxArrayLen, MaxPathCount)
    /\ MaxArrayLen \in Nat /\ MaxPathCount \in Nat \ {0} /\ MaxStepCount \in Nat
    /\ DepthModulus \in Nat \ {0} /\ MaxFieldCount \in Nat
BY LimitAssumption DEF Max2

\* A new place of the parser.
Placed(c, type, m, n) ==
    [c EXCEPT !.current_array = type, !.array_index1 = m, !.array_index2 = n]

LEMMA PlaceTyped ==
    ASSUME ContextOK(context), NEW type \in ArrayTypes,
           NEW m \in 0..Max2(MaxArrayLen, MaxPathCount), NEW n \in 0..MaxStepCount + 1
    PROVE  /\ Placed(context, type, m, n) \in Contexts
           /\ Placed(context, type, m, n).fields = context.fields
           /\ Placed(context, type, m, n).current_array = type
           /\ Placed(context, type, m, n).array_index1 = m
           /\ Placed(context, type, m, n).array_index2 = n
<1> DEFINE c == Placed(context, type, m, n)
<1> DEFINE M == 0..Max2(MaxArrayLen, MaxPathCount)
<1> DEFINE N == 0..MaxStepCount + 1
<1> DEFINE D == 0..DepthModulus - 1
<1>1. context \in [transaction_type : {"INVALID"} \cup {t.value : t \in Token},
                   has_empty_pub_key : BOOLEAN, fields : Seq(ParsedFields),
                   current_array : ArrayTypes, array_index1 : M, array_index2 : N,
                   object_depth : D]
  BY DEF ContextOK, Contexts
<1>2. m \in M /\ n \in N
  OBVIOUS
<1> HIDE DEF M, N, D
<1>3. c \in [transaction_type : {"INVALID"} \cup {t.value : t \in Token},
             has_empty_pub_key : BOOLEAN, fields : Seq(ParsedFields),
             current_array : ArrayTypes, array_index1 : M, array_index2 : N,
             object_depth : D]
  BY <1>1, <1>2 DEF Placed
<1>4. /\ c.fields = context.fields
      /\ c.current_array = type /\ c.array_index1 = m /\ c.array_index2 = n
  BY <1>1 DEF Placed
<1> QED
  BY <1>3, <1>4 DEF Contexts, M, N, D

LEMMA ReadArrayTyped ==
    ASSUME NEW t \in Token, TypeOK, ReadArray(t)
    PROVE  TypeOK'
<1> DEFINE closed == [context EXCEPT !.current_array = "NONE"]
<1> DEFINE open == [context EXCEPT !.current_array = t.id, !.array_index1 = 0,
                                   !.array_index2 = 0]
<1>1. Take(t) /\ t.data_type = "ARRAY" /\ UNCHANGED verdict
  BY DEF ReadArray, Begin
<1>2. ContextOK(context)
  BY <1>1, TakenOutside
<1>3. t.id # "PATHSET" /\ t.id \in ArrayTypes
  BY <1>1, TokenAssumption DEF ArrayTypes
<1>4. closed \in Contexts /\ closed.fields = context.fields /\ closed.current_array = "NONE"
  BY <1>2 DEF ContextOK, Contexts, ArrayTypes
<1>5. open \in Contexts /\ open.fields = context.fields /\ open.current_array = t.id
  <2>1. 0 \in 0..Max2(MaxArrayLen, MaxPathCount) /\ 0 \in 0..MaxStepCount + 1
    BY Bounds
  <2>2. open = Placed(context, t.id, 0, 0)
    BY DEF Placed
  <2> HIDE DEF open
  <2> QED
    BY <1>2, <1>3, <2>1, <2>2, PlaceTyped
<1>6. context' = closed \/ context' = open
  BY DEF ReadArray
<1> QED
  BY <1>1, <1>3, <1>4, <1>5, <1>6, MovedTyped DEF PathIndices

LEMMA ReadObjectTyped ==
    ASSUME NEW t \in Token, TypeOK, ReadObject(t)
    PROVE  TypeOK'
<1>1. Take(t) /\ t.data_type # "STEP"
  BY DEF ReadObject, Begin
<1>2. ContextOK(context) /\ context.current_array # "PATHSET"
  BY <1>1, TakenOutside
<1>3. /\ context.array_index1 \in Nat /\ context.object_depth \in 0..DepthModulus - 1
      /\ context \in Contexts
  BY <1>2, Bounds DEF ContextOK, Contexts
<1>4. CASE Fail("NOT_SUPPORTED")
  BY <1>1, <1>4, FailTyped DEF Errors
<1>5. CASE context' = LeaveObject(context) /\ UNCHANGED verdict
  <2>1. (IF context.object_depth > 0 THEN context.object_depth - 1 ELSE 0)
            \in 0..DepthModulus - 1
    BY <1>3, Bounds
  <2>2. /\ LeaveObject(context) \in Contexts
        /\ LeaveObject(context).fields = context.fields
        /\ LeaveObject(context).current_array = context.current_array
    BY <1>3, <2>1 DEF LeaveObject, Contexts
  <2> QED
    BY <1>1, <1>2, <1>5, <2>2, MovedTyped DEF PathIndices
<1>6. CASE /\ EnterObject(context).array_index1 <= MaxArrayLen
           /\ context' = EnterObject(context) /\ UNCHANGED verdict
  <2>1. (context.object_depth + 1) % DepthModulus \in 0..DepthModulus - 1
    BY <1>3, Bounds
  <2>2. EnterObject(context).array_index1 = context.array_index1 + 1
    BY <1>3 DEF EnterObject, Contexts
  <2>3. context.array_index1 + 1 \in 0..Max2(MaxArrayLen, MaxPathCount)
    BY <1>3, <1>6, <2>2, Bounds
  <2>4. /\ EnterObject(context) \in Contexts
        /\ EnterObject(context).fields = context.fields
        /\ EnterObject(context).current_array = context.current_array
    BY <1>3, <2>1, <2>3 DEF EnterObject, Contexts
  <2> QED
    BY <1>1, <1>2, <1>6, <2>4, MovedTyped DEF PathIndices
<1> QED
  BY <1>4, <1>5, <1>6 DEF ReadObject

LEMMA ReadPathSetTyped ==
    ASSUME NEW t \in Token, TypeOK, ReadPathSet(t)
    PROVE  TypeOK'
<1> DEFINE c == [context EXCEPT !.current_array = "PATHSET", !.array_index1 = 1,
                                !.array_index2 = 1]
<1>1. Take(t) /\ t.data_type # "STEP" /\ UNCHANGED verdict /\ context' = c
  BY DEF ReadPathSet, Begin
<1>2. ContextOK(context)
  BY <1>1, TakenOutside
<1>3. /\ c \in Contexts /\ c.fields = context.fields
      /\ c.array_index1 = 1 /\ c.array_index2 = 1
  <2>1. 1 \in 0..Max2(MaxArrayLen, MaxPathCount) /\ 1 \in 0..MaxStepCount + 1
    BY Bounds
  <2>2. "PATHSET" \in ArrayTypes
    BY DEF ArrayTypes
  <2>3. c = Placed(context, "PATHSET", 1, 1)
    BY DEF Placed
  <2> HIDE DEF c
  <2> QED
    BY <1>2, <2>1, <2>2, <2>3, PlaceTyped
<1>4. PathIndices(c)
  BY <1>3, Bounds DEF PathIndices
<1> HIDE DEF c
<1> QED
  BY <1>1, <1>3, <1>4, MovedTyped

LEMMA StepFieldsTyped ==
    ASSUME ContextOK(context), context.array_index2 <= MaxStepCount,
           NEW step \in {"ACCOUNT", "ISSUER", "CURRENCY", "CURRENCY_ISSUER"}
    PROVE  /\ StepFields(context, step) \in Seq(ParsedFields)
           /\ \A k \in DOMAIN StepFields(context, step) :
                  PathNumbered(StepFields(context, step)[k])
<1> DEFINE a == NewField(context, "ACCOUNT", "ACCOUNT", "step", AccountSize)
<1> DEFINE g == Issuer(context)
<1> DEFINE h == Currency(context)
<1>1. a \in ParsedFields /\ PathNumbered(a)
  BY AddedFieldTyped
<1>2. g \in ParsedFields /\ PathNumbered(g)
  BY AddedFieldTyped
<1>3. h \in ParsedFields /\ PathNumbered(h)
  BY AddedFieldTyped
<1>4. StepFields(context, step) \in {<<a>>, <<g>>, <<h>>, <<h, g>>}
  BY DEF StepFields
<1> HIDE DEF a, g, h
<1>5. ASSUME NEW f \in {a, g, h}
      PROVE  <<f>> \in Seq(ParsedFields) /\ \A k \in DOMAIN <<f>> : PathNumbered(<<f>>[k])
  BY <1>1, <1>2, <1>3, <1>5
<1>6. <<h, g>> \in Seq(ParsedFields) /\ \A k \in DOMAIN <<h, g>> : PathNumbered(<<h, g>>[k])
  BY <1>2, <1>3
<1> QED
  BY <1>4, <1>5, <1>6

\* The fields of a step are added before the step is counted.
Counted(c, new) == [c EXCEPT !.fields = @ \o new, !.array_index2 = @ + 1]

LEMMA StepCounted ==
    ASSUME ContextOK(context), context.array_index2 <= MaxStepCount,
           NEW new \in Seq(ParsedFields), Len(context.fields) + Len(new) <= MaxFieldCount,
           \A k \in DOMAIN new : PathNumbered(new[k])
    PROVE  ContextOK(Counted(context, new))
<1> DEFINE b == [context EXCEPT !.fields = @ \o new]
<1> DEFINE c == Counted(context, new)
<1>1. ContextOK(b)
  BY FieldsAdded
<1>2. context.array_index2 \in 0..MaxStepCount + 1
  BY DEF ContextOK, Contexts
<1>3. context.array_index2 + 1 \in 0..MaxStepCount + 1
  BY <1>2, Bounds
<1>4. b.array_index2 = context.array_index2 /\ b.fields = context.fields \o new
  BY DEF ContextOK, Contexts
<1>5. c = [b EXCEPT !.array_index2 = context.array_index2 + 1]
  BY DEF Counted, ContextOK, Contexts
<1> HIDE DEF b, c
<1>6. /\ c \in Contexts /\ c.fields = b.fields /\ c.current_array = b.current_array
      /\ c.array_index1 = b.array_index1 /\ c.array_index2 = context.array_index2 + 1
  BY <1>1, <1>3, <1>5 DEF ContextOK, Contexts
<1>7. PathIndices(c)
  BY <1>1, <1>2, <1>4, <1>6 DEF ContextOK, PathIndices
<1>8. ContextOK(c)
  BY <1>1, <1>6, <1>7 DEF ContextOK
<1> QED
  BY <1>8 DEF c

LEMMA ReadPathStepTyped ==
    ASSUME NEW t \in Token, TypeOK, ReadPathStep(t)
    PROVE  TypeOK'
<1>1. Take(t) /\ t.data_type = "STEP" /\ verdict = "parsing" /\ ContextOK(context)
  BY DEF ReadPathStep, Begin, Take, TypeOK
<1>2. context \in Contexts /\ context.current_array = "PATHSET"
      /\ context.array_index1 \in 1..MaxPathCount /\ context.array_index2 \in 0..MaxStepCount + 1
  BY <1>1 DEF Take, ContextOK, PathIndices, Contexts
<1>3. CASE Fail("INVALID_STATE")
  BY <1>1, <1>3, FailTyped DEF Errors
<1>4. CASE Fail("NOT_ENOUGH_SPACE")
  BY <1>1, <1>4, FailTyped DEF Errors
<1>5. CASE /\ NextPath(context).array_index1 <= MaxPathCount
           /\ context' = NextPath(context) /\ UNCHANGED verdict
  <2>1. NextPath(context) = Placed(context, "PATHSET", context.array_index1 + 1, 1)
    BY <1>2 DEF NextPath, Placed, Contexts
  <2>2. NextPath(context).array_index1 = context.array_index1 + 1
    BY <1>2 DEF NextPath, Contexts
  <2>3. /\ context.array_index1 + 1 \in 0..Max2(MaxArrayLen, MaxPathCount)
        /\ context.array_index1 + 1 \in 1..MaxPathCount /\ 1 \in 0..MaxStepCount + 1
    BY <1>2, <1>5, <2>2, Bounds
  <2>4. "PATHSET" \in ArrayTypes
    BY DEF ArrayTypes
  <2>5. /\ NextPath(context) \in Contexts /\ NextPath(context).fields = context.fields
        /\ NextPath(context).array_index2 = 1
    BY <1>1, <2>1, <2>3, <2>4, PlaceTyped
  <2>6. PathIndices(NextPath(context))
    BY <2>2, <2>3, <2>5 DEF PathIndices
  <2> QED
    BY <1>1, <1>5, <2>5, <2>6, MovedTyped
<1>6. CASE context' = [context EXCEPT !.current_array = "NONE"] /\ UNCHANGED verdict
  <2> DEFINE c == [context EXCEPT !.current_array = "NONE"]
  <2>1. c \in Contexts /\ c.fields = context.fields /\ c.current_array = "NONE"
    BY <1>2 DEF Contexts, ArrayTypes
  <2>2. PathIndices(c)
    BY <2>1 DEF PathIndices
  <2> HIDE DEF c
  <2>3. context' = c
    BY <1>6 DEF c
  <2> QED
    BY <1>1, <1>6, <2>1, <2>2, <2>3, MovedTyped
<1>7. CASE /\ t.id \notin {"NEXT", "END", "bad"} /\ ~PathFull
           /\ Len(context.fields) + Len(StepFields(context, t.id)) <= MaxFieldCount
           /\ context' = Counted(context, StepFields(context, t.id)) /\ UNCHANGED verdict
  <2>1. t.id \in {"ACCOUNT", "ISSUER", "CURRENCY", "CURRENCY_ISSUER"}
    BY <1>1, <1>7, TokenAssumption DEF StepKinds
  <2>2. context.array_index2 <= MaxStepCount
    BY <1>2, <1>7, Bounds DEF PathFull
  <2>3. /\ StepFields(context, t.id) \in Seq(ParsedFields)
        /\ \A k \in DOMAIN StepFields(context, t.id) :
               PathNumbered(StepFields(context, t.id)[k])
    BY <1>1, <2>1, <2>2, StepFieldsTyped
  <2>4. ContextOK(context')
    BY <1>1, <1>7, <2>2, <2>3, StepCounted
  <2> QED
    BY <1>1, <1>7, <2>4, StepTyped
<1>8. \/ Fail("INVALID_STATE") \/ Fail("NOT_ENOUGH_SPACE")
      \/ /\ NextPath(context).array_index1 <= MaxPathCount
         /\ context' = NextPath(context) /\ UNCHANGED verdict
      \/ context' = [context EXCEPT !.current_array = "NONE"] /\ UNCHANGED verdict
      \/ /\ t.id \notin {"NEXT", "END", "bad"} /\ ~PathFull
         /\ Len(context.fields) + Len(StepFields(context, t.id)) <= MaxFieldCount
         /\ context' = Counted(context, StepFields(context, t.id)) /\ UNCHANGED verdict
  BY DEF ReadPathStep, Counted
<1> QED
  BY <1>3, <1>4, <1>5, <1>6, <1>7, <1>8

LEMMA InitTyped == Init => TypeOK
<1> SUFFICES ASSUME Init PROVE TypeOK
  OBVIOUS
<1>1. context \in Contexts /\ context.fields = << >> /\ context.current_array = "NONE"
  BY Bounds DEF Init, Contexts, ArrayTypes
<1>2. ContextOK(context)
  BY <1>1, Bounds DEF ContextOK, PathIndices
<1> QED
  BY <1>2 DEF Init, TypeOK

LEMMA NextTyped == TypeOK /\ [Next]_vars => TypeOK'
<1> SUFFICES ASSUME TypeOK, [Next]_vars PROVE TypeOK'
  OBVIOUS
<1>1. ASSUME NEW t \in Token, NoRoom(t) \/ CutShort(t) \/ Unsupported(t)
      PROVE  TypeOK'
  BY <1>1, FailTyped DEF NoRoom, CutShort, Unsupported, Begin, Errors
<1>2. ASSUME NEW t \in Token, \/ ReadScalar(t) \/ ReadTransactionType(t) \/ ReadAccount(t)
                              \/ ReadAmount(t) \/ ReadIssue(t) \/ ReadVector256(t)
      PROVE  TypeOK'
  BY <1>2, ReadScalarTyped, ReadTransactionTypeTyped, ReadAccountTyped, ReadAmountTyped,
     ReadIssueTyped, ReadVector256Typed
<1>3. ASSUME NEW t \in Token, \/ ReadArray(t) \/ ReadObject(t) \/ ReadPathSet(t)
                              \/ ReadPathStep(t)
      PROVE  TypeOK'
  BY <1>3, ReadArrayTyped, ReadObjectTyped, ReadPathSetTyped, ReadPathStepTyped
<1>4. ASSUME EndOfStream
      PROVE  TypeOK'
  <2>1. UNCHANGED input
        /\ verdict' \in {"NOT_ENOUGH_SPACE", "NOT_SUPPORTED", "BLIND_SIGN_REQUIRED", "SUCCESS"}
    BY <1>4 DEF EndOfStream, Fail
  <2> QED
    BY <2>1 DEF TypeOK
<1>5. ASSUME UNCHANGED vars
      PROVE  TypeOK'
  BY <1>5 DEF vars, TypeOK, ContextOK, PathIndices
<1> QED
  BY <1>1, <1>2, <1>3, <1>4, <1>5 DEF Next

-----------------------------------------------------------------------------
(* The results.                                                            *)

\* Whatever the stream, the fields stay within fields[MAX_FIELD_COUNT] and the indices of
\* arrays and paths within their limits.
THEOREM ParseTypeCorrect == Spec => []TypeOK
<1> QED
  BY InitTyped, NextTyped, PTL DEF Spec

\* No malformed field is behind the parser while it goes on, or when it succeeds.
ReadSoFar == verdict \in {"parsing", "SUCCESS"} => \A k \in DOMAIN input : ~Malformed(input[k])

LEMMA GoodTokens ==
    ASSUME NEW t \in Token, TypeOK, ReadSoFar, Take(t), ~Malformed(t)
    PROVE  ReadSoFar'
<1>1. input \in Seq(Token) /\ input' = Append(input, t) /\ verdict = "parsing"
  BY DEF TypeOK, Take
<1>2. \A k \in DOMAIN Append(input, t) : \/ k \in DOMAIN input /\ Append(input, t)[k] = input[k]
                                         \/ Append(input, t)[k] = t
  BY <1>1
<1>3. \A k \in DOMAIN input : ~Malformed(input[k])
  BY <1>1 DEF ReadSoFar
<1>4. \A k \in DOMAIN input' : ~Malformed(input'[k])
  BY <1>1, <1>2, <1>3
<1> QED
  BY <1>4 DEF ReadSoFar

\* An action that neither fails nor ends the stream took a token that is not malformed.
LEMMA OnlyGoodTokensPass ==
    ASSUME NEW t \in Token, TypeOK, Take(t), verdict' \in {"parsing", "SUCCESS"},
           \/ NoRoom(t) \/ CutShort(t) \/ Unsupported(t) \/ ReadScalar(t)
           \/ ReadTransactionType(t) \/ ReadAccount(t) \/ ReadAmount(t) \/ ReadIssue(t)
           \/ ReadVector256(t) \/ ReadArray(t) \/ ReadObject(t) \/ ReadPathSet(t)
           \/ ReadPathStep(t)
    PROVE  ~Malformed(t)
<1>1. CASE NoRoom(t) \/ CutShort(t) \/ Unsupported(t)
  BY <1>1 DEF NoRoom, CutShort, Unsupported, Fail
<1>2. CASE ReadScalar(t) \/ ReadTransactionType(t)
  BY <1>2 DEF ReadScalar, ReadTransactionType, Begin, Malformed
<1>3. CASE ReadAccount(t)
  BY <1>3 DEF ReadAccount, WrongLength, Begin, Malformed, Fail
<1>4. CASE ReadAmount(t)
  BY <1>4, AmountAssumption DEF ReadAmount, Begin, Malformed, Fail
<1>5. CASE ReadIssue(t) \/ ReadArray(t) \/ ReadObject(t) \/ ReadPathSet(t)
  BY <1>5 DEF ReadIssue, ReadArray, ReadObject, ReadPathSet, Begin, Malformed
<1>6. CASE ReadVector256(t)
  BY <1>6 DEF ReadVector256, Begin, Malformed, Fail
<1>7. CASE ReadPathStep(t)
  BY <1>7 DEF ReadPathStep, Begin, Malformed, Fail
<1> QED
  BY <1>1, <1>2, <1>3, <1>4, <1>5, <1>6, <1>7

LEMMA NextReadSoFar == TypeOK /\ ReadSoFar /\ [Next]_vars => ReadSoFar'
<1> SUFFICES ASSUME TypeOK, ReadSoFar, [Next]_vars PROVE ReadSoFar'
  OBVIOUS
<1>1. ASSUME NEW t \in Token,
             \/ NoRoom(t) \/ CutShort(t) \/ Unsupported(t) \/ ReadScalar(t)
             \/ ReadTransactionType(t) \/ ReadAccount(t) \/ ReadAmount(t) \/ ReadIssue(t)
             \/ ReadVector256(t) \/ ReadArray(t) \/ ReadObject(t) \/ ReadPathSet(t)
             \/ ReadPathStep(t)
      PROVE  ReadSoFar'
  <2>1. Take(t)
    BY <1>1 DEF NoRoom, CutShort, Unsupported, ReadScalar, ReadTransactionType, ReadAccount,
                ReadAmount, ReadIssue, ReadVector256, ReadArray, ReadObject, ReadPathSet,
                ReadPathStep, Begin
  <2>2. CASE verdict' \in {"parsing", "SUCCESS"}
    <3>1. ~Malformed(t)
      BY <1>1, <2>1, <2>2, OnlyGoodTokensPass
    <3> QED
      BY <2>1, <3>1, GoodTokens
  <2>3. CASE verdict' \notin {"parsing", "SUCCESS"}
    BY <2>3 DEF ReadSoFar
  <2> QED
    BY <2>2, <2>3
<1>2. ASSUME EndOfStream
      PROVE  ReadSoFar'
  BY <1>2 DEF EndOfStream, ReadSoFar
<1>3. ASSUME UNCHANGED vars
      PROVE  ReadSoFar'
  BY <1>3 DEF vars, ReadSoFar
<1> QED
  BY <1>1, <1>2, <1>3 DEF Next

\* Success is decided at the end of the stream, on the fields the review will show.
Understood ==
    verdict = "SUCCESS" =>
        /\ context.transaction_type \in Supported
        /\ \A k \in DOMAIN context.fields : is_field_recognized(context.fields[k])

LEMMA NextUnderstood == TypeOK /\ Understood /\ [Next]_vars => Understood'
<1> SUFFICES ASSUME TypeOK, Understood, [Next]_vars PROVE Understood'
  OBVIOUS
<1>1. ASSUME EndOfStream
      PROVE  Understood'
  <2>1. verdict' = "SUCCESS" => ~ForcesBlind(context')
    BY <1>1 DEF EndOfStream, Fail
  <2> QED
    BY <2>1 DEF ForcesBlind, Understood
<1>2. ASSUME NEW t \in Token,
             \/ NoRoom(t) \/ CutShort(t) \/ Unsupported(t) \/ ReadScalar(t)
             \/ ReadTransactionType(t) \/ ReadAccount(t) \/ ReadAmount(t) \/ ReadIssue(t)
             \/ ReadVector256(t) \/ ReadArray(t) \/ ReadObject(t) \/ ReadPathSet(t)
             \/ ReadPathStep(t)
      PROVE  verdict' # "SUCCESS"
  BY <1>2 DEF NoRoom, CutShort, Unsupported, ReadScalar, ReadTransactionType, ReadAccount,
              ReadAmount, ReadIssue, ReadVector256, ReadArray, ReadObject, ReadPathSet,
              ReadPathStep, Begin, Take, Fail, Put
<1>3. ASSUME UNCHANGED vars
      PROVE  Understood'
  BY <1>3 DEF vars, Understood, is_field_recognized
<1> QED
  BY <1>1, <1>2, <1>3 DEF Next, Understood

\* For every stream: a transaction that is shown in clear is of a supported type, has no
\* field without a name and no malformed part.
THEOREM ClearIsUnderstood == Spec => []ClearMeansUnderstood
<1>1. Init => ReadSoFar /\ Understood
  BY DEF Init, ReadSoFar, Understood
<1>2. ReadSoFar /\ Understood => ClearMeansUnderstood
  BY DEF ReadSoFar, Understood, ClearMeansUnderstood
<1>3. Spec => [](ReadSoFar /\ Understood)
  BY <1>1, NextReadSoFar, NextUnderstood, ParseTypeCorrect, PTL DEF Spec
<1> QED
  BY <1>2, <1>3, PTL


-----------------------------------------------------------------------------
(* The brackets of a stream, as a recursion over the stream.               *)

Kinds == {"ARRAY", "OBJECT", "broken"}

DefinesBrackets(f, s) ==
    f = [k \in 0..Len(s) |-> IF k = 0 THEN << >> ELSE Inside(f[k - 1], s[k])]

BracketsOf(s) == CHOOSE f : DefinesBrackets(f, s)

LEMMA BracketsOfInput == Brackets = BracketsOf(input) /\ Brackets' = BracketsOf(input')
BY DEF Brackets, BracketsOf, DefinesBrackets

LEMMA InsideType ==
    ASSUME NEW b \in Seq(Kinds), NEW t \in Token
    PROVE  Inside(b, t) \in Seq(Kinds)
<1>1. CASE t.data_type \notin {"ARRAY", "OBJECT"}
  BY <1>1 DEF Inside
<1>2. CASE t.data_type \in {"ARRAY", "OBJECT"} /\ t.id # "END"
  <2>1. t.data_type \in Kinds
    BY <1>2 DEF Kinds
  <2>2. Append(b, t.data_type) \in Seq(Kinds)
    BY <2>1
  <2> QED
    BY <1>2, <2>2 DEF Inside
<1>3. CASE t.data_type \in {"ARRAY", "OBJECT"} /\ t.id = "END"
  <2>1. "broken" \in Kinds
    BY DEF Kinds
  <2>2. Append(b, "broken") \in Seq(Kinds)
    BY <2>1
  <2>3. b # << >> => Front(b) \in Seq(Kinds)
    BY DEF Front
  <2> QED
    BY <1>3, <2>2, <2>3 DEF Inside
<1> QED
  BY <1>1, <1>2, <1>3

\* There are such brackets, and each of them follows from the one before.
LEMMA BracketsFollow ==
    ASSUME NEW s \in Seq(Token)
    PROVE  /\ BracketsOf(s) \in [0..Len(s) -> Seq(Kinds)]
           /\ BracketsOf(s)[0] = << >>
           /\ \A k \in 1..Len(s) : BracketsOf(s)[k] = Inside(BracketsOf(s)[k - 1], s[k])
<1> DEFINE n == Len(s)
           step == [x \in Seq(Kinds) \X (1..n) |-> Inside(x[1], s[x[2]])]
<1>1. n \in Nat /\ << >> \in Seq(Kinds) /\ \A k \in 1..n : s[k] \in Token
  OBVIOUS
<1> HIDE DEF n
<1>2. step \in [Seq(Kinds) \X (1..n) -> Seq(Kinds)]
  <2>1. ASSUME NEW x \in Seq(Kinds) \X (1..n) PROVE Inside(x[1], s[x[2]]) \in Seq(Kinds)
    <3>1. x[1] \in Seq(Kinds) /\ s[x[2]] \in Token
      BY <1>1
    <3> QED
      BY <3>1, InsideType
  <2> QED
    BY <2>1
<1>3. PICK f \in [0..n -> Seq(Kinds)] : Follows(f, << >>, step, n)
  <2> HIDE DEF step
  <2> QED
    BY <1>1, <1>2, RecursionExists
<1>4. f[0] = << >>
  BY <1>3 DEF Follows
<1>5. ASSUME NEW k \in 1..n PROVE f[k] = Inside(f[k - 1], s[k])
  <2>1. f[k - 1] \in Seq(Kinds) /\ <<f[k - 1], k>> \in Seq(Kinds) \X (1..n)
    BY <1>1, <1>3
  <2>2. f[k] = step[<<f[k - 1], k>>]
    BY <1>3 DEF Follows
  <2> QED
    BY <2>1, <2>2
<1>6. \A k \in 0..n : f[k] = IF k = 0 THEN << >> ELSE Inside(f[k - 1], s[k])
  <2> SUFFICES ASSUME NEW k \in 0..n
               PROVE  f[k] = IF k = 0 THEN << >> ELSE Inside(f[k - 1], s[k])
    OBVIOUS
  <2>1. CASE k = 0
    BY <1>4, <2>1
  <2>2. CASE k # 0
    <3>1. k \in 1..n
      BY <1>1, <2>2
    <3> QED
      BY <1>5, <2>2, <3>1
  <2> QED
    BY <2>1, <2>2
<1>7. DefinesBrackets(f, s)
  BY <1>3, <1>6 DEF DefinesBrackets, n
<1> DEFINE g == BracketsOf(s)
<1>8. DefinesBrackets(g, s)
  BY <1>7 DEF BracketsOf
<1> HIDE DEF g
<1>9. g[0] = << >> /\ \A k \in 1..n : g[k] = Inside(g[k - 1], s[k])
  <2>1. \A k \in 0..n : g[k] = IF k = 0 THEN << >> ELSE Inside(g[k - 1], s[k])
    BY <1>8 DEF DefinesBrackets, n
  <2>2. 0 \in 0..n /\ \A k \in 1..n : k \in 0..n /\ k # 0
    BY <1>1
  <2> QED
    BY <2>1, <2>2
<1> DEFINE T == {k \in 0..n : g[k] = f[k]}
<1>10. 0 \in T
  BY <1>1, <1>4, <1>9
<1>11. ASSUME NEW k \in 0..n, k \in T, k < n PROVE k + 1 \in T
  <2>1. k + 1 \in 1..n /\ k + 1 \in 0..n /\ (k + 1) - 1 = k
    BY <1>1, <1>11
  <2>2. g[k + 1] = Inside(g[k], s[k + 1]) /\ f[k + 1] = Inside(f[k], s[k + 1])
    BY <1>5, <1>9, <2>1
  <2> QED
    BY <1>11, <2>1, <2>2
<1>12. 0..n \subseteq T
  <2> HIDE DEF T
  <2> QED
    BY <1>1, <1>10, <1>11, UpTo
<1>13. \A k \in 0..n : g[k] = f[k]
  BY <1>12
<1>14. g \in [0..n -> Seq(Kinds)]
  <2>1. DOMAIN g = 0..n /\ g = [k \in 0..n |-> g[k]]
    BY <1>8 DEF DefinesBrackets, n
  <2> QED
    BY <1>3, <1>13, <2>1
<1> QED
  BY <1>9, <1>14 DEF g, n

\* A token more leaves the brackets before it as they are.
LEMMA BracketsGrow ==
    ASSUME NEW s \in Seq(Token), NEW t \in Token
    PROVE  LET n == Len(s)
               f == BracketsOf(s)
               g == BracketsOf(Append(s, t))
           IN  (\A k \in 0..n : g[k] = f[k]) /\ g[n + 1] = Inside(f[n], t)
<1> DEFINE n == Len(s)
           u == Append(s, t)
           f == BracketsOf(s)
           g == BracketsOf(u)
<1>1. n \in Nat /\ u \in Seq(Token) /\ Len(u) = n + 1 /\ u[n + 1] = t
      /\ \A k \in 1..n : u[k] = s[k]
  OBVIOUS
<1>2. f[0] = << >> /\ \A k \in 1..n : f[k] = Inside(f[k - 1], s[k])
  BY BracketsFollow
<1> HIDE DEF u
<1>3. g[0] = << >> /\ \A k \in 1..n + 1 : g[k] = Inside(g[k - 1], u[k])
  BY <1>1, BracketsFollow
<1> HIDE DEF f, g, n
<1> DEFINE T == {k \in 0..n : g[k] = f[k]}
<1>4. 0 \in T
  BY <1>1, <1>2, <1>3
<1>5. ASSUME NEW k \in 0..n, k \in T, k < n PROVE k + 1 \in T
  <2>1. k + 1 \in 1..n /\ k + 1 \in 0..n /\ (k + 1) - 1 = k /\ k + 1 \in 1..n + 1
    BY <1>1, <1>5
  <2>2. g[k + 1] = Inside(g[k], s[k + 1]) /\ f[k + 1] = Inside(f[k], s[k + 1])
    BY <1>1, <1>2, <1>3, <2>1
  <2> QED
    BY <1>5, <2>1, <2>2
<1>6. 0..n \subseteq T
  <2> HIDE DEF T
  <2> QED
    BY <1>1, <1>4, <1>5, UpTo
<1>7. \A k \in 0..n : g[k] = f[k]
  BY <1>6
<1>8. g[n + 1] = Inside(f[n], t)
  <2>1. n \in 0..n /\ n + 1 \in 1..n + 1 /\ (n + 1) - 1 = n
    BY <1>1
  <2> QED
    BY <1>1, <1>3, <1>7, <2>1
<1> QED
  BY <1>7, <1>8 DEF f, g, n, u

-----------------------------------------------------------------------------
(* Counting open objects.                                                  *)

ObjectsIn(b) == {j \in DOMAIN b : b[j] = "OBJECT"}

OpenIn(b) == Cardinality(ObjectsIn(b))

LEMMA OpenInType ==
    ASSUME NEW b \in Seq(Kinds)
    PROVE  IsFiniteSet(ObjectsIn(b)) /\ OpenIn(b) \in Nat
<1>1. IsFiniteSet(1..Len(b))
  BY FS_Interval
<1>2. ObjectsIn(b) \in SUBSET (1..Len(b))
  BY DEF ObjectsIn
<1>3. IsFiniteSet(ObjectsIn(b))
  BY <1>1, <1>2, FS_Subset
<1> QED
  BY <1>3, FS_CardinalityType DEF OpenIn

LEMMA OpenInAppend ==
    ASSUME NEW b \in Seq(Kinds), NEW e \in Kinds
    PROVE  OpenIn(Append(b, e)) = OpenIn(b) + IF e = "OBJECT" THEN 1 ELSE 0
<1> DEFINE n == Len(b)
           O == ObjectsIn(b)
<1>1. n \in Nat /\ IsFiniteSet(O) /\ Cardinality(O) \in Nat /\ O \subseteq 1..n
  BY OpenInType DEF ObjectsIn, OpenIn
<1>2. /\ DOMAIN Append(b, e) = 1..n + 1 /\ DOMAIN b = 1..n /\ Append(b, e)[n + 1] = e
      /\ \A j \in 1..n : Append(b, e)[j] = b[j]
  OBVIOUS
<1>3. 1..n + 1 = 1..n \cup {n + 1} /\ n + 1 \notin 1..n
  BY <1>1
<1>4. CASE e = "OBJECT"
  <2>1. ObjectsIn(Append(b, e)) = O \cup {n + 1}
    BY <1>2, <1>3, <1>4 DEF ObjectsIn
  <2>2. n + 1 \notin O
    BY <1>1, <1>3
  <2> HIDE DEF O, n
  <2>3. Cardinality(O \cup {n + 1}) = Cardinality(O) + 1
    BY <1>1, <2>2, FS_AddElement
  <2> QED
    BY <1>4, <2>1, <2>3 DEF OpenIn, O
<1>5. CASE e # "OBJECT"
  <2>1. ObjectsIn(Append(b, e)) = O
    BY <1>2, <1>3, <1>5 DEF ObjectsIn
  <2> QED
    BY <1>1, <1>5, <2>1 DEF OpenIn
<1> QED
  BY <1>4, <1>5

\* A sequence is what stands before its last element, and that.
LEMMA FrontAndLast ==
    ASSUME NEW b \in Seq(Kinds), b # << >>
    PROVE  /\ Front(b) \in Seq(Kinds) /\ Last(b) \in Kinds
           /\ b = Append(Front(b), Last(b))
           /\ Len(Front(b)) = Len(b) - 1
           /\ \A j \in 1..Len(b) - 1 : Front(b)[j] = b[j]
<1>1. Len(b) \in Nat \ {0}
  OBVIOUS
<1>2. Last(b) \in Kinds /\ Front(b) \in Seq(Kinds) /\ Len(Front(b)) = Len(b) - 1
  <2>1. Last(b) \in Kinds
    BY <1>1 DEF Last
  <2>2. Front(b) \in Seq(Kinds) /\ Len(Front(b)) = Len(b) - 1
    <3> DEFINE m == Len(b) - 1
    <3>1. 1 \in Int /\ m \in Nat /\ \A j \in 1..m : b[j] \in Kinds
      BY <1>1
    <3>2. Front(b) = SubSeq(b, 1, m)
      BY DEF Front
    <3> HIDE DEF m
    <3>3. SubSeq(b, 1, m) \in Seq(Kinds)
      BY <3>1, SubSeqProperties
    <3>4. Len(SubSeq(b, 1, m)) = IF 1 <= m THEN m - 1 + 1 ELSE 0
      BY <3>1, SubSeqProperties
    <3>5. Len(Front(b)) = m
      BY <3>1, <3>2, <3>4
    <3>6. Front(b) \in Seq(Kinds)
      BY <3>2, <3>3
    <3> QED
      BY <3>5, <3>6, Zenon DEF m
  <2> QED
    BY <2>1, <2>2
<1>3. \A j \in 1..Len(b) - 1 : Front(b)[j] = b[j]
  BY <1>1 DEF Front
<1>4. b = Append(Front(b), Last(b))
  BY <1>1 DEF Front, Last
<1> QED
  BY <1>2, <1>3, <1>4

LEMMA OpenInFront ==
    ASSUME NEW b \in Seq(Kinds), b # << >>
    PROVE  OpenIn(b) = OpenIn(Front(b)) + IF Last(b) = "OBJECT" THEN 1 ELSE 0
BY FrontAndLast, OpenInAppend

LEMMA OpenInNone == OpenIn(<< >>) = 0
<1>1. ObjectsIn(<< >>) = {}
  BY DEF ObjectsIn
<1> QED
  BY <1>1, FS_EmptySet DEF OpenIn

-----------------------------------------------------------------------------
(* A token that is taken.                                                  *)

\* The brackets before the next token and after it.
Now == Brackets[Len(input)]

\* What a sound stream is made of, and that it was sound before.
LEMMA TakeSound ==
    ASSUME TypeOK, NEW t \in Token, Take(t), Sound'
    PROVE  /\ Sound
           /\ Now \in Seq(Kinds) /\ Now' = Inside(Now, t) /\ Now' \in Seq(Kinds)
           /\ "broken" \notin Range(Now) /\ "broken" \notin Range(Now')
           /\ OpenIn(Now) < DepthModulus /\ OpenIn(Now') < DepthModulus
           /\ Now # << >> /\ Last(Now) = "ARRAY" => Begins(t, "OBJECT") \/ Is(t, "ARRAY", "END")
<1> DEFINE n == Len(input)
<1>1. /\ input \in Seq(Token) /\ n \in Nat /\ input' = Append(input, t)
      /\ input' \in Seq(Token) /\ Len(input') = n + 1
      /\ DOMAIN input = 1..n /\ DOMAIN input' = 1..n + 1
      /\ input'[n + 1] = t /\ \A k \in 1..n : input'[k] = input[k]
  BY DEF TypeOK, Take
<1>2. /\ Brackets \in [0..n -> Seq(Kinds)]
      /\ (\A k \in 0..n : Brackets'[k] = Brackets[k]) /\ Brackets'[n + 1] = Inside(Brackets[n], t)
  BY <1>1, BracketsOfInput, BracketsFollow, BracketsGrow
<1>3. Brackets' \in [0..n + 1 -> Seq(Kinds)]
  BY <1>1, BracketsOfInput, BracketsFollow
<1> HIDE DEF n
<1>4. /\ \A k \in 0..n + 1 : OpenIn(Brackets'[k]) < DepthModulus
      /\ \A k \in 0..n + 1 : "broken" \notin Range(Brackets'[k])
      /\ \A k \in 1..n + 1 :
             Brackets'[k - 1] # << >> /\ Last(Brackets'[k - 1]) = "ARRAY" =>
                 Begins(input'[k], "OBJECT") \/ Is(input'[k], "ARRAY", "END")
  BY <1>1 DEF Sound, OpenObjects, OpenIn, ObjectsIn, Position
<1>5. \A k \in 0..n : k \in 0..n + 1
  BY <1>1
<1>6. \A k \in 1..n : k \in 1..n + 1 /\ k - 1 \in 0..n
  BY <1>1
<1>7. /\ \A k \in 0..n : OpenIn(Brackets[k]) < DepthModulus
      /\ \A k \in 0..n : "broken" \notin Range(Brackets[k])
      /\ \A k \in 1..n :
             Brackets[k - 1] # << >> /\ Last(Brackets[k - 1]) = "ARRAY" =>
                 Begins(input[k], "OBJECT") \/ Is(input[k], "ARRAY", "END")
  <2>1. /\ \A k \in 0..n : OpenIn(Brackets[k]) < DepthModulus
        /\ \A k \in 0..n : "broken" \notin Range(Brackets[k])
    BY <1>2, <1>4, <1>5
  <2>2. ASSUME NEW k \in 1..n, Brackets[k - 1] # << >>, Last(Brackets[k - 1]) = "ARRAY"
        PROVE  Begins(input[k], "OBJECT") \/ Is(input[k], "ARRAY", "END")
    <3>1. Brackets'[k - 1] = Brackets[k - 1] /\ input'[k] = input[k]
      BY <1>1, <1>2, <1>6
    <3> QED
      BY <1>4, <1>6, <2>2, <3>1
  <2> QED
    BY <2>1, <2>2
<1>8. Sound
  BY <1>1, <1>7 DEF Sound, OpenObjects, OpenIn, ObjectsIn, Position, n
<1>9. n \in 0..n /\ n + 1 \in 0..n + 1 /\ n + 1 \in 1..n + 1 /\ (n + 1) - 1 = n
  BY <1>1
<1>10. Now = Brackets[n] /\ Now' = Brackets'[n + 1]
  BY <1>1 DEF Now, n
<1>11. Now # << >> /\ Last(Now) = "ARRAY" => Begins(t, "OBJECT") \/ Is(t, "ARRAY", "END")
  BY <1>1, <1>2, <1>4, <1>9, <1>10
<1> QED
  BY <1>2, <1>3, <1>4, <1>7, <1>8, <1>9, <1>10, <1>11

\* Before a field that is no bracket, the stream is outside of everything or in an object.
LEMMA FieldStands ==
    ASSUME TypeOK, NEW t \in Token, Take(t), Sound', t.data_type \notin {"ARRAY", "OBJECT"}
    PROVE  /\ Now' = Now
           /\ Now = << >> \/ OpenIn(Now) > 0
<1>1. Now' = Now
  BY TakeSound DEF Inside
<1>2. ASSUME Now # << >> PROVE OpenIn(Now) > 0
  <2>1. Now \in Seq(Kinds) /\ Last(Now) # "ARRAY"
    BY <1>2, TakeSound DEF Begins, Is
  <2>2. Last(Now) \in Kinds /\ Last(Now) \in Range(Now)
    BY <1>2, <2>1, FrontAndLast DEF Last, Range
  <2>3. Last(Now) = "OBJECT"
    BY <2>1, <2>2, TakeSound DEF Kinds
  <2>4. OpenIn(Now) = OpenIn(Front(Now)) + 1 /\ OpenIn(Front(Now)) \in Nat
    BY <1>2, <2>1, <2>3, FrontAndLast, OpenInFront, OpenInType
  <2> QED
    BY <2>4
<1> QED
  BY <1>1, <1>2

-----------------------------------------------------------------------------
(* What a round of the loop does with a field, as far as nesting goes.     *)

Carries(c, d) ==
    \A j \in DOMAIN c.fields : j \in DOMAIN d.fields /\ d.fields[j] = c.fields[j]

DepthAfter(c, t) ==
    IF t.data_type # "OBJECT" THEN c.object_depth
    ELSE IF t.id # "END" THEN (c.object_depth + 1) % DepthModulus
    ELSE IF c.object_depth > 0 THEN c.object_depth - 1 ELSE 0

ArrayAfter(c, t) ==
    IF t.data_type # "ARRAY" THEN {c.current_array, "NONE", "PATHSET"}
    ELSE IF t.id = "END" THEN {"NONE"} ELSE {t.id}

Silent(t) == t.value \in {"zero", "canonical"}

\* Only a transaction type changes the type and may end the reading, only a key tells about
\* the key, no field is lost and flags that say something are added.
Effects(t) ==
    /\ Take(t)
    /\ Carries(context, context')
    /\ context'.object_depth = DepthAfter(context, t)
    /\ context'.current_array \in ArrayAfter(context, t)
    /\ context'.has_empty_pub_key <=>
           context.has_empty_pub_key \/ EmptyPubKey(FieldOf(context, t))
    /\ Is(t, "UINT16", "TRANSACTION_TYPE") /\ verdict' = "parsing" =>
           /\ TopLevel(FieldOf(context, t)) /\ context.transaction_type = "INVALID"
           /\ context'.transaction_type = t.value
    /\ ~Is(t, "UINT16", "TRANSACTION_TYPE") =>
           verdict' = "parsing" /\ context'.transaction_type = context.transaction_type
    /\ Is(t, "UINT32", "FLAGS") /\ ~Silent(t) =>
           \E j \in DOMAIN context'.fields : context'.fields[j] = FieldOf(context, t)

Going == verdict \in {"parsing", "BLIND_SIGN_REQUIRED"}

LEMMA ConcatCarries ==
    ASSUME NEW S, NEW s \in Seq(S), NEW R, NEW r \in Seq(R)
    PROVE  \A j \in DOMAIN s : j \in DOMAIN (s \o r) /\ (s \o r)[j] = s[j]
<1>1. s \in Seq(S \cup R) /\ r \in Seq(S \cup R)
  OBVIOUS
<1>2. Len(s) \in Nat /\ Len(r) \in Nat /\ DOMAIN s = 1..Len(s)
  OBVIOUS
<1>3. DOMAIN (s \o r) = 1..Len(s) + Len(r) /\ \A j \in 1..Len(s) : (s \o r)[j] = s[j]
  BY <1>1
<1>4. \A j \in 1..Len(s) : j \in 1..Len(s) + Len(r)
  BY <1>2
<1> QED
  BY <1>2, <1>3, <1>4

LEMMA AppendCarries ==
    ASSUME NEW S, NEW s \in Seq(S), NEW e
    PROVE  /\ \A j \in DOMAIN s : j \in DOMAIN Append(s, e) /\ Append(s, e)[j] = s[j]
           /\ Len(s) + 1 \in DOMAIN Append(s, e) /\ Append(s, e)[Len(s) + 1] = e
<1>1. s \in Seq(S \cup {e})
  OBVIOUS
<1>2. DOMAIN Append(s, e) = 1..Len(s) + 1 /\ DOMAIN s = 1..Len(s) /\ Len(s) \in Nat
  BY <1>1
<1>3. Append(s, e)[Len(s) + 1] = e /\ \A j \in 1..Len(s) : Append(s, e)[j] = s[j]
  BY <1>1
<1> QED
  BY <1>2, <1>3

\* The parts of a field a token stands for are its own.
LEMMA FieldOfParts ==
    ASSUME NEW t
    PROVE  LET f == FieldOf(context, t)
           IN  /\ f.data_type = t.data_type /\ f.id = t.id /\ f.value = t.value
               /\ f.length = t.length /\ f.object_depth = context.object_depth
               /\ f.array_info = ArrayInfo(context)
BY DEF FieldOf, NewField

\* A field is one of the transaction when the parser is in no array and in no object.
LEMMA TopLevelField ==
    ASSUME NEW t
    PROVE  TopLevel(FieldOf(context, t)) <=>
               context.current_array = "NONE" /\ context.object_depth = 0
BY FieldOfParts DEF TopLevel, OutsideArrays, ArrayInfo, NoArray

\* The rounds that only add fields.
LEMMA AddEffects ==
    ASSUME TypeOK, NEW t \in Token, Take(t), NEW S, NEW new \in Seq(S), UNCHANGED verdict,
           context'.fields = context.fields \o new,
           context'.has_empty_pub_key = context.has_empty_pub_key,
           context'.transaction_type = context.transaction_type,
           context'.object_depth = context.object_depth,
           context'.current_array = context.current_array,
           t.data_type \notin {"ARRAY", "OBJECT", "UINT16", "UINT32", "VL"}
    PROVE  Effects(t)
<1>1. verdict = "parsing" /\ context \in Contexts
  BY DEF Take, TypeOK, ContextOK
<1>2. context.fields \in Seq(ParsedFields)
  BY <1>1 DEF Contexts
<1>3. Carries(context, context')
  BY <1>2, ConcatCarries DEF Carries
<1>4. ~EmptyPubKey(FieldOf(context, t))
  BY FieldOfParts DEF EmptyPubKey, Is
<1> QED
  BY <1>1, <1>3, <1>4 DEF Effects, DepthAfter, ArrayAfter, Is

LEMMA PutEffects ==
    ASSUME TypeOK, NEW t \in Token, Take(t), NEW S, NEW new \in Seq(S), Put(new),
           verdict' \in {"parsing", "BLIND_SIGN_REQUIRED"},
           t.data_type \notin {"ARRAY", "OBJECT", "UINT16", "UINT32", "VL"}
    PROVE  Effects(t)
<1>1. verdict = "parsing" /\ context \in Contexts
  BY DEF Take, TypeOK, ContextOK
<1>2. context' = [context EXCEPT !.fields = context.fields \o new] /\ verdict' = verdict
  BY <1>1 DEF Put, Fail
<1>3. /\ context'.fields = context.fields \o new
      /\ context'.object_depth = context.object_depth
      /\ context'.current_array = context.current_array
      /\ context'.has_empty_pub_key = context.has_empty_pub_key
      /\ context'.transaction_type = context.transaction_type
  BY <1>1, <1>2 DEF Contexts
<1> QED
  BY <1>2, <1>3, AddEffects

\* The rounds that only move between arrays and objects.
LEMMA MoveEffects ==
    ASSUME TypeOK, NEW t \in Token, Take(t), UNCHANGED verdict,
           context'.fields = context.fields,
           context'.has_empty_pub_key = context.has_empty_pub_key,
           context'.transaction_type = context.transaction_type,
           context'.object_depth = DepthAfter(context, t),
           context'.current_array \in ArrayAfter(context, t),
           t.data_type \in {"ARRAY", "OBJECT", "PATHSET", "STEP"}
    PROVE  Effects(t)
<1>1. verdict = "parsing"
  BY DEF Take
<1>2. ~EmptyPubKey(FieldOf(context, t))
  BY FieldOfParts DEF EmptyPubKey, Is
<1> QED
  BY <1>1, <1>2 DEF Effects, Carries, Is

LEMMA ReadScalarEffects ==
    ASSUME TypeOK, NEW t \in Token, ReadScalar(t)
    PROVE  Effects(t)
<1> DEFINE f == FieldOf(context, t)
           s == context.fields
           new == IF is_field_hidden(f) THEN s ELSE Append(s, f)
           empty == context.has_empty_pub_key \/ EmptyPubKey(f)
<1>1. /\ Take(t) /\ t.data_type \in {"UINT8", "UINT16", "UINT32", "HASH128", "HASH256", "VL"}
      /\ ~is_transaction_type_field(f) /\ verdict' = verdict
      /\ context' = [context EXCEPT !.fields = new, !.has_empty_pub_key = empty]
  BY DEF ReadScalar, Begin
<1>2. verdict = "parsing" /\ context \in Contexts
  BY <1>1 DEF Take, TypeOK, ContextOK
<1>3. s \in Seq(ParsedFields)
  BY <1>2 DEF Contexts
<1>4. /\ f.data_type = t.data_type /\ f.id = t.id /\ f.value = t.value
  BY FieldOfParts
<1> HIDE DEF f, new, empty
<1>5. /\ context'.fields = new
      /\ context'.object_depth = context.object_depth
      /\ context'.current_array = context.current_array
      /\ context'.transaction_type = context.transaction_type
  BY <1>1, <1>2 DEF Contexts
<1>6. context'.has_empty_pub_key = empty
  BY <1>1, <1>2 DEF Contexts
<1>7. Carries(context, context')
  BY <1>3, <1>5, AppendCarries DEF Carries, new
<1>8. Is(t, "UINT32", "FLAGS") /\ ~Silent(t) =>
          \E j \in DOMAIN context'.fields : context'.fields[j] = f
  <2> SUFFICES ASSUME Is(t, "UINT32", "FLAGS"), ~Silent(t)
               PROVE  \E j \in DOMAIN context'.fields : context'.fields[j] = f
    OBVIOUS
  <2>1. ~is_field_hidden(f)
    BY <1>4 DEF is_field_hidden, is_flag_hidden, HiddenOutsideArrays, Is, Silent
  <2> QED
    BY <1>3, <1>5, <2>1, AppendCarries DEF new
<1>9. ~Is(t, "UINT16", "TRANSACTION_TYPE")
  BY <1>1, <1>4 DEF is_transaction_type_field, Is
<1>10. context'.object_depth = DepthAfter(context, t) /\ context'.current_array \in ArrayAfter(context, t)
  BY <1>1, <1>5 DEF DepthAfter, ArrayAfter
<1>11. context'.has_empty_pub_key <=> context.has_empty_pub_key \/ EmptyPubKey(f)
  BY <1>6, Zenon DEF empty
<1> QED
  BY <1>1, <1>2, <1>5, <1>7, <1>8, <1>9, <1>10, <1>11 DEF Effects, f

LEMMA ReadTransactionTypeEffects ==
    ASSUME TypeOK, NEW t \in Token, ReadTransactionType(t)
    PROVE  Effects(t)
<1> DEFINE f == FieldOf(context, t)
           s == context.fields
           trusted == TopLevel(f) /\ context.transaction_type = "INVALID"
           type == IF trusted THEN f.value ELSE context.transaction_type
<1>1. /\ Take(t) /\ t.data_type = "UINT16" /\ is_transaction_type_field(f)
      /\ verdict' = IF trusted THEN verdict ELSE "BLIND_SIGN_REQUIRED"
      /\ context' = [context EXCEPT !.fields = Append(s, f), !.transaction_type = type]
  BY DEF ReadTransactionType, Begin
<1>2. verdict = "parsing" /\ context \in Contexts
  BY <1>1 DEF Take, TypeOK, ContextOK
<1>3. s \in Seq(ParsedFields)
  BY <1>2 DEF Contexts
<1>4. f.data_type = t.data_type /\ f.id = t.id /\ f.value = t.value
  BY FieldOfParts
<1> HIDE DEF f, type
<1>5. /\ context'.fields = Append(s, f)
      /\ context'.object_depth = context.object_depth
      /\ context'.current_array = context.current_array
      /\ context'.has_empty_pub_key = context.has_empty_pub_key
      /\ context'.transaction_type = type
  BY <1>1, <1>2 DEF Contexts
<1>6. Carries(context, context')
  BY <1>3, <1>5, AppendCarries DEF Carries
<1>7. Is(t, "UINT16", "TRANSACTION_TYPE") /\ ~Is(t, "UINT32", "FLAGS") /\ ~EmptyPubKey(f)
  BY <1>1, <1>4 DEF is_transaction_type_field, EmptyPubKey, Is
<1>8. context'.object_depth = DepthAfter(context, t) /\ context'.current_array \in ArrayAfter(context, t)
  BY <1>1, <1>5 DEF DepthAfter, ArrayAfter
<1>9. verdict' = "parsing" => trusted /\ context'.transaction_type = t.value
  BY <1>1, <1>4, <1>5 DEF type
<1> QED
  BY <1>1, <1>5, <1>6, <1>7, <1>8, <1>9 DEF Effects, f

LEMMA PutsEffects ==
    ASSUME TypeOK, NEW t \in Token, ReadAccount(t) \/ ReadAmount(t) \/ ReadIssue(t),
           Going'
    PROVE  Effects(t)
<1>1. Take(t) /\ t.data_type \in {"ACCOUNT", "AMOUNT", "ISSUE"}
  BY DEF ReadAccount, ReadAmount, ReadIssue, Begin
<1>2. verdict = "parsing" /\ verdict' \in {"parsing", "BLIND_SIGN_REQUIRED"}
  BY <1>1 DEF Take, Going
<1>3. \E new \in {<<FieldOf(context, t)>>, <<FieldOf(context, t), Issuer(context)>>,
                  <<FieldOf(context, t), Currency(context), Issuer(context)>>} : Put(new)
  BY <1>2 DEF ReadAccount, ReadAmount, ReadIssue, Fail
<1>4. ContextOK(context) /\ context.current_array # "PATHSET"
  BY <1>1, TakenOutside
<1>5. PICK new \in {<<FieldOf(context, t)>>, <<FieldOf(context, t), Issuer(context)>>,
                    <<FieldOf(context, t), Currency(context), Issuer(context)>>} : Put(new)
  BY <1>3
<1>6. new \in Seq(ParsedFields)
  BY <1>4, PutFields
<1> QED
  BY <1>1, <1>2, <1>5, <1>6, PutEffects

LEMMA ReadVector256Effects ==
    ASSUME TypeOK, NEW t \in Token, ReadVector256(t), Going'
    PROVE  Effects(t)
<1> DEFINE n == t.length \div Vector256Size
           new == <<FieldOf(context, t)>> \o [k \in 1..n |-> VectorEntry(t, k)]
           S == {FieldOf(context, t)} \cup {VectorEntry(t, k) : k \in 1..n}
<1>1. Take(t) /\ t.data_type = "VECTOR256"
  BY DEF ReadVector256, Begin
<1>2. verdict = "parsing" /\ verdict' \in {"parsing", "BLIND_SIGN_REQUIRED"}
  BY <1>1 DEF Take, Going
<1>3. Put(new)
  BY <1>2 DEF ReadVector256, Fail
<1>4. n \in Nat
  BY TokenAssumption DEF Vector256Size
<1> HIDE DEF n
<1>5. [k \in 1..n |-> VectorEntry(t, k)] \in Seq(S)
  BY <1>4
<1>6. new \in Seq(S)
  BY <1>5
<1> HIDE DEF new, S
<1> QED
  BY <1>1, <1>2, <1>3, <1>6, PutEffects

LEMMA ReadArrayEffects ==
    ASSUME TypeOK, NEW t \in Token, ReadArray(t)
    PROVE  Effects(t)
<1>1. Take(t) /\ t.data_type = "ARRAY" /\ UNCHANGED verdict
  BY DEF ReadArray, Begin
<1>2. context \in Contexts
  BY <1>1 DEF Take, TypeOK, ContextOK
<1>3. /\ context'.fields = context.fields
      /\ context'.has_empty_pub_key = context.has_empty_pub_key
      /\ context'.transaction_type = context.transaction_type
      /\ context'.object_depth = context.object_depth
      /\ context'.current_array = IF t.id = "END" THEN "NONE" ELSE t.id
  BY <1>2 DEF ReadArray, Contexts
<1>4. context'.object_depth = DepthAfter(context, t) /\ context'.current_array \in ArrayAfter(context, t)
  BY <1>1, <1>3 DEF DepthAfter, ArrayAfter
<1> QED
  BY <1>1, <1>3, <1>4, MoveEffects

LEMMA ReadObjectEffects ==
    ASSUME TypeOK, NEW t \in Token, ReadObject(t), Going'
    PROVE  Effects(t)
<1>1. Take(t) /\ t.data_type = "OBJECT"
  BY DEF ReadObject, Begin
<1>2. context \in Contexts /\ verdict = "parsing"
  BY <1>1 DEF Take, TypeOK, ContextOK
<1>3. /\ context' = IF t.id = "END" THEN LeaveObject(context) ELSE EnterObject(context)
      /\ UNCHANGED verdict
  BY <1>2 DEF ReadObject, Fail, Going
<1>4. /\ context'.fields = context.fields
      /\ context'.has_empty_pub_key = context.has_empty_pub_key
      /\ context'.transaction_type = context.transaction_type
      /\ context'.current_array = context.current_array
  BY <1>2, <1>3 DEF LeaveObject, EnterObject, Contexts
<1>5. context'.object_depth = DepthAfter(context, t)
  BY <1>1, <1>2, <1>3 DEF LeaveObject, EnterObject, DepthAfter, Contexts
<1>6. context'.current_array \in ArrayAfter(context, t)
  BY <1>1, <1>4 DEF ArrayAfter
<1> QED
  BY <1>1, <1>3, <1>4, <1>5, <1>6, MoveEffects

LEMMA ReadPathSetEffects ==
    ASSUME TypeOK, NEW t \in Token, ReadPathSet(t)
    PROVE  Effects(t)
<1>1. Take(t) /\ t.data_type = "PATHSET" /\ UNCHANGED verdict
  BY DEF ReadPathSet, Begin
<1>2. context \in Contexts
  BY <1>1 DEF Take, TypeOK, ContextOK
<1>3. /\ context'.fields = context.fields
      /\ context'.has_empty_pub_key = context.has_empty_pub_key
      /\ context'.transaction_type = context.transaction_type
      /\ context'.object_depth = context.object_depth
      /\ context'.current_array = "PATHSET"
  BY <1>2 DEF ReadPathSet, Contexts
<1>4. context'.object_depth = DepthAfter(context, t) /\ context'.current_array \in ArrayAfter(context, t)
  BY <1>1, <1>3 DEF DepthAfter, ArrayAfter
<1> QED
  BY <1>1, <1>3, <1>4, MoveEffects

LEMMA ReadPathStepEffects ==
    ASSUME TypeOK, NEW t \in Token, ReadPathStep(t), Going'
    PROVE  Effects(t)
<1>1. Take(t) /\ t.data_type = "STEP"
  BY DEF ReadPathStep, Begin
<1>2. context \in Contexts /\ ContextOK(context) /\ verdict = "parsing" /\ t.id \in StepKinds
  BY <1>1, TokenAssumption DEF Take, TypeOK, ContextOK
<1> DEFINE new == StepFields(context, t.id)
<1>3. /\ UNCHANGED verdict
      /\ \/ context' = NextPath(context)
         \/ context' = [context EXCEPT !.current_array = "NONE"]
         \/ /\ t.id \in {"ACCOUNT", "ISSUER", "CURRENCY", "CURRENCY_ISSUER"}
            /\ context.array_index2 <= MaxStepCount
            /\ context' = [context EXCEPT !.fields = @ \o new, !.array_index2 = @ + 1]
  <2>1. context.array_index2 \in Nat /\ MaxStepCount \in Nat
    BY <1>2, LimitAssumption DEF Contexts
  <2>2. CASE t.id = "NEXT"
    BY <1>2, <2>2 DEF ReadPathStep, Fail, Going
  <2>3. CASE t.id = "END"
    BY <1>2, <2>3 DEF ReadPathStep, Fail, Going
  <2>4. CASE t.id \notin {"NEXT", "END"}
    <3>1. /\ t.id \notin {"NEXT", "END", "bad"} /\ ~PathFull /\ UNCHANGED verdict
          /\ context' = [context EXCEPT !.fields = @ \o new, !.array_index2 = @ + 1]
      <4> HIDE DEF new
      <4>1. /\ t.id \notin {"NEXT", "END", "bad"} /\ ~PathFull
            /\ LET r == StepFields(context, t.id)
               IN  \/ /\ Len(context.fields) + Len(r) <= MaxFieldCount
                      /\ context' = [context EXCEPT !.fields = @ \o r, !.array_index2 = @ + 1]
                      /\ UNCHANGED verdict
                   \/ /\ Len(context.fields) + Len(r) > MaxFieldCount
                      /\ Fail("NOT_ENOUGH_SPACE")
        BY <1>2, <2>4 DEF ReadPathStep, Fail, Going
      <4> QED
        BY <1>2, <4>1 DEF Fail, Going, new
    <3>2. t.id \in {"ACCOUNT", "ISSUER", "CURRENCY", "CURRENCY_ISSUER"}
      BY <1>2, <3>1 DEF StepKinds
    <3>3. context.array_index2 <= MaxStepCount
      BY <2>1, <3>1 DEF PathFull
    <3> QED
      BY <3>1, <3>2, <3>3
  <2> QED
    BY <2>2, <2>3, <2>4
<1>4. CASE context' = NextPath(context) \/ context' = [context EXCEPT !.current_array = "NONE"]
  <2>1. /\ context'.fields = context.fields
        /\ context'.has_empty_pub_key = context.has_empty_pub_key
        /\ context'.transaction_type = context.transaction_type
        /\ context'.object_depth = context.object_depth
        /\ context'.current_array \in {context.current_array, "NONE"}
    BY <1>2, <1>4 DEF NextPath, Contexts
  <2>2. context'.object_depth = DepthAfter(context, t) /\ context'.current_array \in ArrayAfter(context, t)
    BY <1>1, <2>1 DEF DepthAfter, ArrayAfter
  <2> QED
    BY <1>1, <1>3, <2>1, <2>2, MoveEffects
<1>5. CASE /\ t.id \in {"ACCOUNT", "ISSUER", "CURRENCY", "CURRENCY_ISSUER"}
           /\ context.array_index2 <= MaxStepCount
           /\ context' = [context EXCEPT !.fields = @ \o new, !.array_index2 = @ + 1]
  <2>1. new \in Seq(ParsedFields)
    BY <1>2, <1>5, StepFieldsTyped
  <2> HIDE DEF new
  <2>2. /\ context'.fields = context.fields \o new
        /\ context'.object_depth = context.object_depth
        /\ context'.current_array = context.current_array
        /\ context'.has_empty_pub_key = context.has_empty_pub_key
        /\ context'.transaction_type = context.transaction_type
    BY <1>2, <1>5 DEF Contexts
  <2> QED
    BY <1>1, <1>3, <2>1, <2>2, AddEffects
<1> QED
  BY <1>3, <1>4, <1>5

Reads(t) ==
    \/ NoRoom(t) \/ CutShort(t) \/ Unsupported(t) \/ ReadScalar(t) \/ ReadTransactionType(t)
    \/ ReadAccount(t) \/ ReadAmount(t) \/ ReadIssue(t) \/ ReadVector256(t) \/ ReadArray(t)
    \/ ReadObject(t) \/ ReadPathSet(t) \/ ReadPathStep(t)

LEMMA ReadsEffects ==
    ASSUME TypeOK, NEW t \in Token, Reads(t), Going'
    PROVE  Effects(t)
<1>1. ~(NoRoom(t) \/ CutShort(t) \/ Unsupported(t))
  BY DEF NoRoom, CutShort, Unsupported, Fail, Going
<1> QED
  BY <1>1, ReadScalarEffects, ReadTransactionTypeEffects, PutsEffects, ReadVector256Effects,
     ReadArrayEffects, ReadObjectEffects, ReadPathSetEffects, ReadPathStepEffects DEF Reads

-----------------------------------------------------------------------------
(* The depth, and the current array.                                       *)

\* While the stream is sound, the depth is the number of open objects and the current array
\* is one that is open.  It need not be the innermost, and no array at all may be current
\* although some are open.
Nested ==
    verdict = "parsing" /\ Sound =>
        /\ context.object_depth = OpenIn(Now)
        /\ context.current_array \notin {"NONE", "PATHSET"} => "ARRAY" \in Range(Now)

LEMMA InitNested == Init => Nested
<1> SUFFICES ASSUME Init PROVE Nested
  OBVIOUS
<1>1. input = << >> /\ context.object_depth = 0 /\ context.current_array = "NONE"
  BY DEF Init
<1>2. input \in Seq(Token) /\ Len(input) = 0
  BY <1>1
<1>3. Now = << >>
  BY <1>2, BracketsOfInput, BracketsFollow DEF Now
<1> QED
  BY <1>1, <1>3, OpenInNone DEF Nested

LEMMA AppendRange ==
    ASSUME NEW b \in Seq(Kinds), NEW e \in Kinds
    PROVE  Range(Append(b, e)) = Range(b) \cup {e}
<1> DEFINE n == Len(b)
           c == Append(b, e)
<1>1. /\ n \in Nat /\ DOMAIN c = 1..n + 1 /\ DOMAIN b = 1..n /\ c[n + 1] = e
      /\ \A j \in 1..n : c[j] = b[j]
  OBVIOUS
<1> HIDE DEF n, c
<1>2. \A j \in 1..n + 1 : j \in 1..n \/ j = n + 1
  BY <1>1
<1>3. \A j \in 1..n : j \in 1..n + 1
  BY <1>1
<1>4. n + 1 \in 1..n + 1
  BY <1>1
<1>5. ASSUME NEW x \in Range(c) PROVE x \in Range(b) \cup {e}
  BY <1>1, <1>2, <1>5 DEF Range
<1>6. ASSUME NEW x \in Range(b) \cup {e} PROVE x \in Range(c)
  <2>1. CASE x = e
    BY <1>1, <1>4, <2>1 DEF Range
  <2>2. CASE x \in Range(b)
    BY <1>1, <1>3, <2>2 DEF Range
  <2> QED
    BY <1>6, <2>1, <2>2
<1>7. Range(c) = Range(b) \cup {e}
  BY <1>5, <1>6
<1> QED
  BY <1>7 DEF c

\* A bracket that is opened.
LEMMA NestedOpen ==
    ASSUME TypeOK, Nested, NEW t \in Token, Effects(t), Sound',
           t.data_type \in {"ARRAY", "OBJECT"}, t.id # "END"
    PROVE  /\ context'.object_depth = OpenIn(Now')
           /\ context'.current_array \notin {"NONE", "PATHSET"} => "ARRAY" \in Range(Now')
<1>1. Take(t) /\ verdict = "parsing" /\ Sound
  BY TakeSound DEF Effects, Take
<1>2. /\ context.object_depth = OpenIn(Now) /\ OpenIn(Now) \in Nat
      /\ context.current_array \notin {"NONE", "PATHSET"} => "ARRAY" \in Range(Now)
  BY <1>1, TakeSound, OpenInType DEF Nested
<1>3. Now \in Seq(Kinds) /\ t.data_type \in Kinds /\ Now' = Append(Now, t.data_type)
  BY <1>1, TakeSound DEF Inside, Kinds
<1>4. /\ OpenIn(Now') = OpenIn(Now) + IF t.data_type = "OBJECT" THEN 1 ELSE 0
      /\ Range(Now') = Range(Now) \cup {t.data_type}
      /\ OpenIn(Now') < DepthModulus
  BY <1>1, <1>3, OpenInAppend, AppendRange, TakeSound
<1>5. DepthModulus \in Nat \ {0}
  BY LimitAssumption
<1>6. context'.object_depth = DepthAfter(context, t) /\ context'.current_array \in ArrayAfter(context, t)
  BY DEF Effects
<1>7. CASE t.data_type = "ARRAY"
  BY <1>2, <1>4, <1>6, <1>7 DEF DepthAfter
<1>8. CASE t.data_type = "OBJECT"
  <2>1. context'.object_depth = (OpenIn(Now) + 1) % DepthModulus
    BY <1>2, <1>6, <1>8 DEF DepthAfter
  <2>2. OpenIn(Now') = OpenIn(Now) + 1
    BY <1>4, <1>8
  <2>3. (OpenIn(Now) + 1) % DepthModulus = OpenIn(Now) + 1
    BY <1>2, <1>4, <1>5, <2>2
  <2>4. context'.current_array \in {context.current_array, "NONE", "PATHSET"}
    BY <1>6, <1>8 DEF ArrayAfter
  <2> QED
    BY <1>2, <1>4, <2>1, <2>2, <2>3, <2>4
<1> QED
  BY <1>7, <1>8

\* A bracket that is closed is the last one opened.
LEMMA NestedClose ==
    ASSUME TypeOK, Nested, NEW t \in Token, Effects(t), Sound',
           t.data_type \in {"ARRAY", "OBJECT"}, t.id = "END"
    PROVE  /\ context'.object_depth = OpenIn(Now')
           /\ context'.current_array \notin {"NONE", "PATHSET"} => "ARRAY" \in Range(Now')
<1>1. Take(t) /\ verdict = "parsing" /\ Sound
  BY TakeSound DEF Effects, Take
<1>2. /\ context.object_depth = OpenIn(Now)
      /\ context.current_array \notin {"NONE", "PATHSET"} => "ARRAY" \in Range(Now)
  BY <1>1, TakeSound, OpenInType DEF Nested
<1>3. Now \in Seq(Kinds) /\ Now' = Inside(Now, t) /\ "broken" \notin Range(Now')
  BY <1>1, TakeSound
<1>4. Now # << >> /\ Last(Now) = t.data_type
  <2> SUFFICES ASSUME ~(Now # << >> /\ Last(Now) = t.data_type) PROVE FALSE
    OBVIOUS
  <2>1. Now' = Append(Now, "broken")
    BY <1>3 DEF Inside
  <2>2. "broken" \in Kinds
    BY DEF Kinds
  <2>3. "broken" \in Range(Now')
    BY <1>3, <2>1, <2>2, AppendRange
  <2> QED
    BY <1>3, <2>3
<1>5. Now' = Front(Now)
  BY <1>3, <1>4 DEF Inside
<1>6. /\ OpenIn(Now) = OpenIn(Now') + (IF t.data_type = "OBJECT" THEN 1 ELSE 0)
      /\ OpenIn(Now') \in Nat
  BY <1>3, <1>4, <1>5, OpenInFront, OpenInType, FrontAndLast
<1>7. Range(Now) = Range(Now') \cup {t.data_type}
  <2>1. Front(Now) \in Seq(Kinds) /\ Last(Now) \in Kinds /\ Now = Append(Front(Now), Last(Now))
    BY <1>3, <1>4, FrontAndLast
  <2>2. Range(Append(Front(Now), Last(Now))) = Range(Front(Now)) \cup {Last(Now)}
    BY <2>1, AppendRange
  <2> QED
    BY <1>4, <1>5, <2>1, <2>2
<1>8. context'.object_depth = DepthAfter(context, t) /\ context'.current_array \in ArrayAfter(context, t)
  BY DEF Effects
<1>9. CASE t.data_type = "ARRAY"
  <2>1. context'.current_array = "NONE"
    BY <1>8, <1>9 DEF ArrayAfter
  <2> QED
    BY <1>2, <1>6, <1>8, <1>9, <2>1 DEF DepthAfter
<1>10. CASE t.data_type = "OBJECT"
  <2>1. OpenIn(Now) = OpenIn(Now') + 1 /\ "ARRAY" \in Range(Now) => "ARRAY" \in Range(Now')
    BY <1>6, <1>7, <1>10
  <2>2. context'.current_array \in {context.current_array, "NONE", "PATHSET"}
    BY <1>8, <1>10 DEF ArrayAfter
  <2>3. context'.object_depth = OpenIn(Now')
    BY <1>2, <1>6, <1>8, <1>10 DEF DepthAfter
  <2> QED
    BY <1>2, <1>6, <1>10, <2>1, <2>2, <2>3
<1> QED
  BY <1>9, <1>10

LEMMA NestedStep ==
    ASSUME TypeOK, Nested, NEW t \in Token, Effects(t)
    PROVE  Nested'
<1> SUFFICES ASSUME verdict' = "parsing", Sound'
             PROVE  /\ context'.object_depth = OpenIn(Now')
                    /\ context'.current_array \notin {"NONE", "PATHSET"} => "ARRAY" \in Range(Now')
  BY DEF Nested, OpenIn, ObjectsIn
<1>1. CASE t.data_type \notin {"ARRAY", "OBJECT"}
  <2>1. Take(t) /\ verdict = "parsing" /\ Sound
    BY TakeSound DEF Effects, Take
  <2>2. Now' = Now
    BY <1>1, <2>1, FieldStands
  <2>3. context'.object_depth = context.object_depth
    BY <1>1 DEF Effects, DepthAfter
  <2>4. context'.current_array \in {context.current_array, "NONE", "PATHSET"}
    BY <1>1 DEF Effects, ArrayAfter
  <2> QED
    BY <2>1, <2>2, <2>3, <2>4 DEF Nested
<1> QED
  BY <1>1, NestedOpen, NestedClose

\* While the stream is sound, the parser takes a field for one of the transaction exactly
\* when no bracket is open.
LEMMA OwnField ==
    ASSUME TypeOK, Nested, NEW t \in Token, Take(t), Sound',
           t.data_type \notin {"ARRAY", "OBJECT", "STEP"}
    PROVE  TopLevel(FieldOf(context, t)) <=> Now = << >>
<1>1. verdict = "parsing" /\ Sound /\ context.current_array # "PATHSET"
  BY TakeSound DEF Take
<1>2. /\ context.object_depth = OpenIn(Now)
      /\ context.current_array \notin {"NONE", "PATHSET"} => "ARRAY" \in Range(Now)
  BY <1>1 DEF Nested
<1>3. TopLevel(FieldOf(context, t)) <=> context.current_array = "NONE" /\ OpenIn(Now) = 0
  BY <1>2, TopLevelField
<1>4. CASE Now = << >>
  <2>1. Range(Now) = {}
    BY <1>4 DEF Range
  <2> QED
    BY <1>1, <1>2, <1>3, <1>4, <2>1, OpenInNone
<1>5. CASE Now # << >>
  BY <1>3, <1>5, FieldStands
<1> QED
  BY <1>4, <1>5

\* Where the tokens of the stream stand does not change when another one is read.
LEMMA TakePositions ==
    ASSUME TypeOK, NEW t \in Token, Take(t)
    PROVE  /\ Len(input) \in Nat /\ Position = 1..Len(input) /\ Position' = 1..Len(input) + 1
           /\ input'[Len(input) + 1] = t
           /\ \A k \in Position : input'[k] = input[k] /\ (OfTransaction(k)' <=> OfTransaction(k))
           /\ \A k \in Nat : k = Len(input) + 1 => (OfTransaction(k)' <=> Now = << >>)
<1> DEFINE n == Len(input)
<1>1. /\ input \in Seq(Token) /\ n \in Nat /\ input' = Append(input, t)
      /\ DOMAIN input = 1..n /\ DOMAIN input' = 1..n + 1
      /\ input'[n + 1] = t /\ \A k \in 1..n : input'[k] = input[k]
  BY DEF TypeOK, Take
<1>2. \A k \in 0..n : Brackets'[k] = Brackets[k]
  BY <1>1, BracketsOfInput, BracketsGrow
<1>3. n \in 0..n /\ (n + 1) - 1 = n /\ \A k \in 1..n : k - 1 \in 0..n
  BY <1>1
<1>4. Brackets'[(n + 1) - 1] = Now
  BY <1>2, <1>3 DEF Now
<1>5. \A k \in 1..n : input'[k] = input[k] /\ (OfTransaction(k)' <=> OfTransaction(k))
  BY <1>1, <1>2, <1>3 DEF OfTransaction
<1>6. \A k \in Nat : k = n + 1 => (OfTransaction(k)' <=> Now = << >>)
  <2> HIDE DEF n
  <2> QED
    BY <1>4 DEF OfTransaction
<1> QED
  BY <1>1, <1>5, <1>6 DEF Position

-----------------------------------------------------------------------------
(* The invariants, as long as the stream is read.                          *)

\* Without a trusted type there has been none but TRANSACTION_INVALID.
TypeSoFar ==
    verdict = "parsing" /\ Sound =>
        IF context.transaction_type = "INVALID"
        THEN \A k \in TransactionTypes : input[k].value = "INVALID"
        ELSE \E k \in TransactionTypes :
                 /\ OfTransaction(k)
                 /\ context.transaction_type = input[k].value
                 /\ \A j \in TransactionTypes \ {k} : input[j].value = "INVALID"

HasFlags(c, value) ==
    \E j \in DOMAIN c.fields : /\ Is(c.fields[j], "UINT32", "FLAGS") /\ TopLevel(c.fields[j])
                               /\ c.fields[j].value = value

IsOwnFlags(k) == Is(input[k], "UINT32", "FLAGS") /\ OfTransaction(k)

\* Flags of the transaction that say something are among the fields.
FlagsKept ==
    verdict = "parsing" /\ Sound =>
        \A k \in Position : IsOwnFlags(k) => Silent(input[k]) \/ HasFlags(context, input[k].value)

IsOwnEmptyKey(k) ==
    Is(input[k], "VL", "SIGNING_PUB_KEY") /\ input[k].length = 0 /\ OfTransaction(k)

LEMMA TypeStep ==
    ASSUME TypeOK, Nested, TypeSoFar, NEW t \in Token, Effects(t)
    PROVE  TypeSoFar'
<1> SUFFICES ASSUME verdict' = "parsing", Sound'
             PROVE  IF context'.transaction_type = "INVALID"
                    THEN \A k \in TransactionTypes' : input'[k].value = "INVALID"
                    ELSE \E k \in TransactionTypes' :
                             /\ OfTransaction(k)'
                             /\ context'.transaction_type = input'[k].value
                             /\ \A j \in TransactionTypes' \ {k} : input'[j].value = "INVALID"
  BY DEF TypeSoFar
<1>0. Take(t) /\ verdict = "parsing" /\ Sound
  BY TakeSound DEF Effects, Take
<1>1. PICK m \in Nat : m = Len(input) + 1
  BY <1>0, TakePositions
<1>2. /\ Position' = Position \cup {m} /\ m \notin Position /\ input'[m] = t /\ m \in Nat
      /\ \A k \in Position : input'[k] = input[k] /\ (OfTransaction(k)' <=> OfTransaction(k))
      /\ \A k \in Nat : k = m => (OfTransaction(k)' <=> Now = << >>)
  BY <1>1, <1>0, TakePositions
<1>3. TransactionTypes' = {k \in Position' : Is(input'[k], "UINT16", "TRANSACTION_TYPE")}
  BY DEF TransactionTypes
<1>4. CASE ~Is(t, "UINT16", "TRANSACTION_TYPE")
  <2>1. TransactionTypes' = TransactionTypes
    BY <1>2, <1>3, <1>4 DEF TransactionTypes
  <2>2. context'.transaction_type = context.transaction_type
    BY <1>4 DEF Effects
  <2>3. \A k \in TransactionTypes : k \in Position
    BY DEF TransactionTypes
  <2> QED
    BY <1>0, <1>2, <2>1, <2>2, <2>3 DEF TypeSoFar
<1>5. CASE Is(t, "UINT16", "TRANSACTION_TYPE")
  <2>1. /\ TopLevel(FieldOf(context, t)) /\ context.transaction_type = "INVALID"
        /\ context'.transaction_type = t.value
    BY <1>5 DEF Effects
  <2>2. Now = << >>
    BY <1>0, <1>5, <2>1, OwnField DEF Is
  <2>3. TransactionTypes' = TransactionTypes \cup {m} /\ m \notin TransactionTypes
    BY <1>2, <1>3, <1>5 DEF TransactionTypes
  <2>4. \A k \in TransactionTypes : input'[k].value = "INVALID"
    BY <1>0, <1>2, <2>1 DEF TypeSoFar, TransactionTypes
  <2>5. OfTransaction(m)'
    BY <1>2, <2>2
  <2> QED
    BY <1>2, <2>1, <2>3, <2>4, <2>5
<1> QED
  BY <1>4, <1>5

LEMMA FlagsStep ==
    ASSUME TypeOK, Nested, FlagsKept, NEW t \in Token, Effects(t)
    PROVE  FlagsKept'
<1> SUFFICES ASSUME verdict' = "parsing", Sound', NEW k \in Position', IsOwnFlags(k)',
                    ~Silent(input'[k])
             PROVE  HasFlags(context', input'[k].value)
  BY DEF FlagsKept, Silent, HasFlags, Is, TopLevel, OutsideArrays
<1>0. Take(t) /\ verdict = "parsing" /\ Sound /\ Carries(context, context')
  BY TakeSound DEF Effects, Take
<1>1. PICK m \in Nat : m = Len(input) + 1
  BY <1>0, TakePositions
<1>2. /\ Position' = Position \cup {m} /\ m \notin Position /\ input'[m] = t /\ m \in Nat
      /\ \A j \in Position : input'[j] = input[j] /\ (OfTransaction(j)' <=> OfTransaction(j))
      /\ \A j \in Nat : j = m => (OfTransaction(j)' <=> Now = << >>)
  BY <1>1, <1>0, TakePositions
<1>3. Is(input'[k], "UINT32", "FLAGS") /\ OfTransaction(k)'
  BY DEF IsOwnFlags, Is
<1>4. CASE k \in Position
  <2>1. input'[k] = input[k] /\ IsOwnFlags(k) /\ ~Silent(input[k])
    BY <1>2, <1>3, <1>4 DEF IsOwnFlags
  <2>2. HasFlags(context, input[k].value)
    BY <1>0, <1>4, <2>1 DEF FlagsKept
  <2> QED
    BY <1>0, <2>1, <2>2 DEF HasFlags, Carries
<1>5. CASE k = m
  <2>1. Is(t, "UINT32", "FLAGS") /\ ~Silent(t) /\ Now = << >>
    BY <1>2, <1>3, <1>5
  <2>2. TopLevel(FieldOf(context, t))
    BY <1>0, <2>1, OwnField DEF Is
  <2>3. PICK j \in DOMAIN context'.fields : context'.fields[j] = FieldOf(context, t)
    BY <2>1 DEF Effects
  <2>4. Is(FieldOf(context, t), "UINT32", "FLAGS") /\ FieldOf(context, t).value = t.value
    BY <2>1, FieldOfParts DEF Is
  <2> QED
    BY <1>2, <1>5, <2>2, <2>3, <2>4 DEF HasFlags
<1> QED
  BY <1>2, <1>4, <1>5

\* What MultiSignDetected says, in one line.
LEMMA MultiSignDetectedSays ==
    MultiSignDetected <=>
        (verdict \in {"parsing", "SUCCESS", "BLIND_SIGN_REQUIRED"} /\ Sound =>
            (context.has_empty_pub_key <=> \E k \in Position : IsOwnEmptyKey(k)))
BY DEF MultiSignDetected, IsOwnEmptyKey

LEMMA KeyStep ==
    ASSUME TypeOK, Nested, MultiSignDetected, NEW t \in Token, Effects(t)
    PROVE  MultiSignDetected'
<1> SUFFICES ASSUME Sound'
             PROVE  context'.has_empty_pub_key <=> \E k \in Position' : IsOwnEmptyKey(k)'
  BY DEF MultiSignDetected, IsOwnEmptyKey
<1>0. Take(t) /\ verdict = "parsing" /\ Sound
  BY TakeSound DEF Effects, Take
<1>1. PICK m \in Nat : m = Len(input) + 1
  BY <1>0, TakePositions
<1>2. /\ Position' = Position \cup {m} /\ m \notin Position /\ input'[m] = t /\ m \in Nat
      /\ \A j \in Position : input'[j] = input[j] /\ (OfTransaction(j)' <=> OfTransaction(j))
      /\ \A j \in Nat : j = m => (OfTransaction(j)' <=> Now = << >>)
  BY <1>1, <1>0, TakePositions
<1>3. context.has_empty_pub_key <=> \E k \in Position : IsOwnEmptyKey(k)
  BY <1>0, MultiSignDetectedSays
<1>4. context'.has_empty_pub_key <=>
          context.has_empty_pub_key \/ EmptyPubKey(FieldOf(context, t))
  BY DEF Effects
<1>5. \A k \in Position : IsOwnEmptyKey(k)' <=> IsOwnEmptyKey(k)
  BY <1>2 DEF IsOwnEmptyKey
<1>6. IsOwnEmptyKey(m)' <=> Is(t, "VL", "SIGNING_PUB_KEY") /\ t.length = 0 /\ Now = << >>
  BY <1>2 DEF IsOwnEmptyKey
<1>7. EmptyPubKey(FieldOf(context, t)) <=>
          Is(t, "VL", "SIGNING_PUB_KEY") /\ t.length = 0 /\ Now = << >>
  <2>1. EmptyPubKey(FieldOf(context, t)) <=>
            /\ Is(t, "VL", "SIGNING_PUB_KEY") /\ t.length = 0 /\ TopLevel(FieldOf(context, t))
    BY FieldOfParts DEF EmptyPubKey, Is
  <2>2. Is(t, "VL", "SIGNING_PUB_KEY") => (TopLevel(FieldOf(context, t)) <=> Now = << >>)
    BY <1>0, OwnField DEF Is
  <2> QED
    BY <2>1, <2>2
<1> QED
  BY <1>2, <1>3, <1>4, <1>5, <1>6, <1>7

-----------------------------------------------------------------------------
(* The end of the stream.                                                  *)

\* Sorting ranks the fields.
LEMMA SortedRanks ==
    ASSUME NEW S, NEW s \in Seq(S)
    PROVE  LET n == Len(s)
               score == [k \in 1..n |-> Order!get_priority_score(s[k])]
               r == Order!StableSorted(s)
           IN  /\ r \in Seq(S)
               /\ score \in [1..n -> Nat]
               /\ \E q : Ranks(r, q, s, score, 1..n)
<1> DEFINE n == Len(s)
           score == [k \in 1..n |-> Order!get_priority_score(s[k])]
           part(c) == AtPositions(s, {k \in 1..n : score[k] = c})
           r == part(0) \o part(1) \o part(2)
<1>1. n \in Nat /\ DOMAIN s = 1..n
  OBVIOUS
<1>2. score \in [1..n -> {0, 1, 2}]
  BY DEF Order!get_priority_score
<1>3. r \in Seq(S) /\ \E q : Ranks(r, q, s, score, 1..n)
  <2> HIDE DEF score
  <2> QED
    BY <1>2, ThreeParts
<1>4. ASSUME NEW c \in 0..2 PROVE Order!OfScore(s, c) = part(c)
  <2>1. {k \in DOMAIN s : Order!get_priority_score(s[k]) = c} = {k \in 1..n : score[k] = c}
    BY <1>1
  <2> QED
    BY <2>1 DEF Order!OfScore, Order!AtPositions, AtPositions
<1>5. Order!StableSorted(s) = r
  <2> HIDE DEF part
  <2> QED
    BY <1>4 DEF Order!StableSorted
<1>6. score \in [1..n -> Nat]
  <2> HIDE DEF score
  <2> QED
    BY <1>2
<1> QED
  BY <1>3, <1>5, <1>6

\* Sorting loses no field.
LEMMA SortKeeps ==
    ASSUME NEW S, NEW s \in Seq(S), NEW j \in DOMAIN s
    PROVE  \E k \in DOMAIN Order!StableSorted(s) : Order!StableSorted(s)[k] = s[j]
<1> DEFINE n == Len(s)
           score == [k \in 1..n |-> Order!get_priority_score(s[k])]
           r == Order!StableSorted(s)
<1>1. r \in Seq(S) /\ \E q : Ranks(r, q, s, score, 1..n)
  BY SortedRanks
<1>2. PICK q : Ranks(r, q, s, score, 1..n)
  BY <1>1
<1>3. j \in 1..n
  OBVIOUS
<1> HIDE DEF r, score
<1>4. PICK k \in 1..Len(r) : q[k] = j
  BY <1>2, <1>3 DEF Ranks
<1>5. r[k] = s[j]
  BY <1>2, <1>4 DEF Ranks
<1>6. DOMAIN r = 1..Len(r)
  BY <1>1
<1> QED
  BY <1>4, <1>5, <1>6 DEF r

\* What is left of the context when the stream was read to its end.
LEMMA EndEffects ==
    ASSUME TypeOK, EndOfStream, verdict' \in {"SUCCESS", "BLIND_SIGN_REQUIRED"}
    PROVE  /\ verdict = "parsing" /\ UNCHANGED input
           /\ context'.transaction_type = context.transaction_type
           /\ context'.has_empty_pub_key = context.has_empty_pub_key
           /\ \A j \in DOMAIN context.fields :
                  \E k \in DOMAIN context'.fields : context'.fields[k] = context.fields[j]
           /\ verdict' = "SUCCESS" => ~ForcesBlind(context')
<1> DEFINE s == Completed.fields
<1>1. /\ verdict = "parsing" /\ UNCHANGED input
      /\ context' = [Completed EXCEPT !.fields = Order!StableSorted(s)]
      /\ verdict' = IF ForcesBlind(context') THEN "BLIND_SIGN_REQUIRED" ELSE "SUCCESS"
  BY DEF EndOfStream, Fail
<1>2. context \in Contexts /\ ContextOK(context)
  BY <1>1 DEF TypeOK, ContextOK
<1>3. context.fields \in Seq(ParsedFields)
  BY <1>2 DEF Contexts
<1>4. /\ Completed.transaction_type = context.transaction_type
      /\ Completed.has_empty_pub_key = context.has_empty_pub_key
      /\ DOMAIN Completed = DOMAIN context
      /\ DOMAIN context = {"transaction_type", "has_empty_pub_key", "fields", "current_array",
                           "array_index1", "array_index2", "object_depth"}
  BY <1>2 DEF Completed, Contexts
<1>5. s = context.fields \/ s = Append(context.fields, ClearedKey(context))
  BY <1>2 DEF Completed, Contexts
<1>6. s \in Seq(ParsedFields \cup {ClearedKey(context)})
  BY <1>3, <1>5
<1>7. \A j \in DOMAIN context.fields : j \in DOMAIN s /\ s[j] = context.fields[j]
  BY <1>3, <1>5, AppendCarries
<1> HIDE DEF s
<1>8. /\ context'.transaction_type = context.transaction_type
      /\ context'.has_empty_pub_key = context.has_empty_pub_key
      /\ context'.fields = Order!StableSorted(s)
  BY <1>1, <1>4
<1>9. ASSUME NEW j \in DOMAIN context.fields
      PROVE  \E k \in DOMAIN context'.fields : context'.fields[k] = context.fields[j]
  BY <1>6, <1>7, <1>8, SortKeeps
<1> QED
  BY <1>1, <1>8, <1>9

\* The invariants of the reading and what they come to.
ReadInv ==
    /\ TypeOK /\ Nested /\ TypeSoFar /\ FlagsKept /\ MultiSignDetected
    /\ TypeIsTrusted /\ FlagsAreKnown

LEMMA SameStream ==
    ASSUME UNCHANGED input
    PROVE  /\ Sound' <=> Sound
           /\ \A k : OfTransaction(k)' <=> OfTransaction(k)
           /\ Position' = Position /\ TransactionTypes' = TransactionTypes
BY DEF Brackets, Sound, OpenObjects, Position, OfTransaction, TransactionTypes

LEMMA EndKeeps ==
    ASSUME ReadInv, TypeOK', EndOfStream
    PROVE  ReadInv'
<1>1. verdict = "parsing" /\ UNCHANGED input /\ verdict' # "parsing"
  BY DEF EndOfStream, Fail
<1>2. /\ Sound' <=> Sound
      /\ \A k : OfTransaction(k)' <=> OfTransaction(k)
      /\ Position' = Position /\ TransactionTypes' = TransactionTypes
  BY <1>1, SameStream
<1>3. Nested' /\ TypeSoFar' /\ FlagsKept'
  BY <1>1 DEF Nested, TypeSoFar, FlagsKept
<1>4. CASE verdict' \notin {"SUCCESS", "BLIND_SIGN_REQUIRED"}
  BY <1>1, <1>3, <1>4 DEF ReadInv, MultiSignDetected, TypeIsTrusted, FlagsAreKnown
<1>5. CASE verdict' \in {"SUCCESS", "BLIND_SIGN_REQUIRED"}
  <2>1. /\ context'.transaction_type = context.transaction_type
        /\ context'.has_empty_pub_key = context.has_empty_pub_key
        /\ \A j \in DOMAIN context.fields :
               \E k \in DOMAIN context'.fields : context'.fields[k] = context.fields[j]
        /\ verdict' = "SUCCESS" => ~ForcesBlind(context')
    BY <1>5, EndEffects DEF ReadInv
  <2>2. MultiSignDetected'
    <3>1. Sound => (context.has_empty_pub_key <=> \E k \in Position : IsOwnEmptyKey(k))
      BY <1>1, MultiSignDetectedSays DEF ReadInv
    <3>2. \A k : IsOwnEmptyKey(k)' <=> IsOwnEmptyKey(k)
      BY <1>1, <1>2 DEF IsOwnEmptyKey
    <3>3. Sound' => (context'.has_empty_pub_key <=> \E k \in Position' : IsOwnEmptyKey(k)')
      BY <1>2, <2>1, <3>1, <3>2
    <3> QED
      BY <3>3 DEF MultiSignDetected, IsOwnEmptyKey
  <2>3. TypeIsTrusted'
    <3> SUFFICES ASSUME verdict' = "SUCCESS", Sound
                 PROVE  \E k \in TransactionTypes :
                            /\ OfTransaction(k)
                            /\ context.transaction_type = input[k].value
                            /\ \A j \in TransactionTypes \ {k} : input[j].value = "INVALID"
      BY <1>1, <1>2, <2>1 DEF TypeIsTrusted
    <3>1. context.transaction_type \in Supported
      BY <2>1 DEF ForcesBlind
    <3>2. context.transaction_type # "INVALID"
      BY <3>1, SupportedAssumption
    <3> QED
      BY <1>1, <3>2 DEF ReadInv, TypeSoFar
  <2>4. FlagsAreKnown'
    <3> SUFFICES ASSUME verdict' = "SUCCESS", Sound, NEW k \in Position, IsOwnFlags(k)
                 PROVE  ~UnknownFlags(context.transaction_type, input[k].value)
      BY <1>1, <1>2, <2>1 DEF FlagsAreKnown, IsOwnFlags
    <3>1. context.transaction_type \in Supported /\ ~FlagsForceBlind(context')
      BY <2>1 DEF ForcesBlind
    <3>2. CASE Silent(input[k])
      BY <3>1, <3>2, FlagsAssumption DEF Silent
    <3>3. CASE ~Silent(input[k])
      <4>1. HasFlags(context, input[k].value)
        BY <1>1, <3>3 DEF ReadInv, FlagsKept
      <4>2. PICK j \in DOMAIN context.fields :
                /\ Is(context.fields[j], "UINT32", "FLAGS") /\ TopLevel(context.fields[j])
                /\ context.fields[j].value = input[k].value
        BY <4>1 DEF HasFlags
      <4>3. PICK m \in DOMAIN context'.fields : context'.fields[m] = context.fields[j]
        BY <2>1
      <4>4. m \in TopLevelFlags(context')
        BY <4>2, <4>3 DEF TopLevelFlags
      <4>5. ~UnknownFlags(context'.transaction_type, context'.fields[m].value)
        BY <3>1, <4>4 DEF FlagsForceBlind
      <4> QED
        BY <2>1, <4>2, <4>3, <4>5
    <3> QED
      BY <3>2, <3>3
  <2> QED
    BY <1>3, <2>2, <2>3, <2>4 DEF ReadInv
<1> QED
  BY <1>4, <1>5

\* A round of the loop.
LEMMA ReadsKeep ==
    ASSUME ReadInv, TypeOK', NEW t \in Token, Reads(t)
    PROVE  ReadInv'
<1>1. verdict' # "SUCCESS"
  <2>1. verdict = "parsing"
    BY DEF Reads, NoRoom, CutShort, Unsupported, ReadScalar, ReadTransactionType, ReadAccount,
           ReadAmount, ReadIssue, ReadVector256, ReadArray, ReadObject, ReadPathSet,
           ReadPathStep, Begin, Take
  <2> QED
    BY <2>1 DEF Reads, NoRoom, CutShort, Unsupported, ReadScalar, ReadTransactionType,
           ReadAccount, ReadAmount, ReadIssue, ReadVector256, ReadArray, ReadObject,
           ReadPathSet, ReadPathStep, Put, Fail
<1>2. TypeIsTrusted' /\ FlagsAreKnown'
  BY <1>1 DEF TypeIsTrusted, FlagsAreKnown
<1>3. CASE Going'
  <2>1. Effects(t)
    BY <1>3, ReadsEffects DEF ReadInv
  <2> QED
    BY <1>2, <2>1, NestedStep, TypeStep, FlagsStep, KeyStep DEF ReadInv
<1>4. CASE ~Going'
  BY <1>1, <1>2, <1>4 DEF ReadInv, Going, Nested, TypeSoFar, FlagsKept, MultiSignDetected
<1> QED
  BY <1>3, <1>4

LEMMA InitReads == Init => ReadInv
<1> SUFFICES ASSUME Init PROVE ReadInv
  OBVIOUS
<1>1. verdict = "parsing" /\ input = << >> /\ context.transaction_type = "INVALID"
      /\ context.has_empty_pub_key = FALSE
  BY DEF Init
<1>2. Position = {} /\ TransactionTypes = {}
  BY <1>1 DEF Position, TransactionTypes
<1>3. ~context.has_empty_pub_key
  BY <1>1, Zenon
<1>4. MultiSignDetected
  BY <1>2, <1>3 DEF MultiSignDetected
<1> QED
  BY <1>1, <1>2, <1>4, InitTyped, InitNested
     DEF ReadInv, TypeSoFar, FlagsKept, TypeIsTrusted, FlagsAreKnown

LEMMA NextReads == ReadInv /\ [Next]_vars => ReadInv'
<1> SUFFICES ASSUME ReadInv, [Next]_vars PROVE ReadInv'
  OBVIOUS
<1>1. TypeOK'
  BY NextTyped DEF ReadInv
<1>2. CASE UNCHANGED vars
  <2>1. UNCHANGED <<context, verdict, input>>
    BY <1>2 DEF vars
  <2> QED
    BY <1>1, <2>1, SameStream
       DEF ReadInv, Nested, Now, Brackets, OpenIn, ObjectsIn, TypeSoFar, FlagsKept, IsOwnFlags,
           MultiSignDetected, TypeIsTrusted, FlagsAreKnown
<1>3. ASSUME NEW t \in Token, Reads(t) PROVE ReadInv'
  BY <1>1, <1>3, ReadsKeep
<1>4. CASE EndOfStream
  BY <1>1, <1>4, EndKeeps
<1> QED
  BY <1>2, <1>3, <1>4 DEF Next, Reads

LEMMA ReadInductive == Spec => []ReadInv
BY InitReads, NextReads, PTL DEF Spec

-----------------------------------------------------------------------------
(* The theorems.                                                           *)

\* The depth that the parser keeps is the number of objects that are open, for streams of any
\* length, arrays and objects nested in any sound way.
THEOREM DepthCountsObjects == Spec => []DepthIsExact
<1>1. ReadInv => DepthIsExact
  BY DEF ReadInv, Nested, DepthIsExact, OpenObjects, OpenIn, ObjectsIn, Now
<1> QED
  BY <1>1, ReadInductive, PTL

\* The type that a review in clear is made for is the only one the stream gives the
\* transaction.
THEOREM ReviewOfTheType == Spec => []TypeIsTrusted
<1>1. ReadInv => TypeIsTrusted
  BY DEF ReadInv
<1> QED
  BY <1>1, ReadInductive, PTL

\* No flag of the transaction that the review cannot name gets past it, displayed or not.
THEOREM NoUnknownFlags == Spec => []FlagsAreKnown
<1>1. ReadInv => FlagsAreKnown
  BY DEF ReadInv
<1> QED
  BY <1>1, ReadInductive, PTL

\* The signing prefix is chosen by the key of the transaction and by no other one.
THEOREM MultiSignIsItsOwn == Spec => []MultiSignDetected
<1>1. ReadInv => MultiSignDetected
  BY DEF ReadInv
<1> QED
  BY <1>1, ReadInductive, PTL

-----------------------------------------------------------------------------
(* Sequences of sequences, one after the other.                            *)

\* f[k] is the first k of them.
Joins(f, ss) == f[0] = << >> /\ \A k \in 1..Len(ss) : f[k] = f[k - 1] \o ss[k]

LEMMA FlattenJoins ==
    ASSUME NEW S, NEW ss \in Seq(Seq(S))
    PROVE  \E f \in [0..Len(ss) -> Seq(S)] : Joins(f, ss) /\ FlattenSeq(ss) = f[Len(ss)]
<1> DEFINE n == Len(ss)
           step == [x \in Seq(S) \X (1..n) |-> x[1] \o ss[x[2]]]
           Value(f, k) == IF k = 1 THEN ss[k] ELSE f[k - 1] \o ss[k]
           Def(f) == f = [k \in 1..n |-> Value(f, k)]
<1>1. n \in Nat /\ << >> \in Seq(S) /\ \A k \in 1..n : ss[k] \in Seq(S)
  OBVIOUS
<1>2. step \in [Seq(S) \X (1..n) -> Seq(S)]
  <2>1. ASSUME NEW x \in Seq(S) \X (1..n) PROVE x[1] \o ss[x[2]] \in Seq(S)
    <3>1. x[1] \in Seq(S) /\ ss[x[2]] \in Seq(S)
      BY <1>1
    <3> QED
      BY <3>1
  <2> QED
    BY <2>1
<1>3. n = 0 => ss = << >> /\ FlattenSeq(ss) = << >>
  BY DEF FlattenSeq
<1>4. n # 0 => FlattenSeq(ss) = (CHOOSE h : Def(h))[n]
  BY DEF FlattenSeq
<1> HIDE DEF n
<1>5. PICK f \in [0..n -> Seq(S)] : Follows(f, << >>, step, n)
  <2> HIDE DEF step
  <2> QED
    BY <1>1, <1>2, RecursionExists
<1>6. f[0] = << >>
  BY <1>5 DEF Follows
<1>7. ASSUME NEW k \in 1..n PROVE f[k] = f[k - 1] \o ss[k]
  <2>1. f[k - 1] \in Seq(S) /\ <<f[k - 1], k>> \in Seq(S) \X (1..n)
    BY <1>1, <1>5
  <2>2. f[k] = step[<<f[k - 1], k>>]
    BY <1>5 DEF Follows
  <2> QED
    BY <2>1, <2>2
<1>8. ASSUME n # 0 PROVE FlattenSeq(ss) = f[n]
  <2>1. 1 \in 1..n /\ n \in 1..n
    BY <1>1, <1>8
  <2>2. f[1] = ss[1]
    <3>1. 1 - 1 = 0
      OBVIOUS
    <3>2. f[1] = f[1 - 1] \o ss[1]
      BY <1>7, <2>1, Zenon
    <3>3. f[1] = << >> \o ss[1] /\ ss[1] \in Seq(S)
      BY <1>1, <1>6, <2>1, <3>1, <3>2, Zenon
    <3>4. << >> \o ss[1] = ss[1]
      BY <3>3
    <3> QED
      BY <3>3, <3>4
  <2>3. \A k \in 1..n : f[k] = Value(f, k)
    BY <1>7, <2>2
  <2> DEFINE h == [k \in 1..n |-> f[k]]
  <2>4. Def(h)
    <3>1. \A k \in 1..n : Value(h, k) = Value(f, k)
      <4> SUFFICES ASSUME NEW k \in 1..n PROVE Value(h, k) = Value(f, k)
        OBVIOUS
      <4>1. CASE k = 1
        BY <4>1
      <4>2. CASE k # 1
        <5>1. k - 1 \in 1..n
          BY <1>1, <4>2
        <5> QED
          BY <4>2, <5>1
      <4> QED
        BY <4>1, <4>2
    <3> HIDE DEF Value
    <3> QED
      BY <2>3, <3>1
  <2> DEFINE g == CHOOSE e : Def(e)
  <2>5. Def(g)
    <3> HIDE DEF Def, h
    <3> QED
      BY <2>4
  <2>6. FlattenSeq(ss) = g[n]
    BY <1>4, <1>8
  <2> HIDE DEF g
  <2>7. \A k \in 1..n : g[k] = Value(g, k)
    <3> HIDE DEF Value
    <3> QED
      BY <2>5
  <2> DEFINE T == {k \in 0..n : k # 0 => g[k] = f[k]}
  <2>8. 0 \in T
    BY <1>1
  <2>9. ASSUME NEW k \in 0..n, k \in T, k < n PROVE k + 1 \in T
    <3>1. k + 1 \in 1..n /\ k + 1 \in 0..n /\ (k + 1) - 1 = k
      BY <1>1, <2>9
    <3>2. CASE k = 0
      BY <2>2, <2>7, <3>1, <3>2
    <3>3. CASE k # 0
      <4>1. k + 1 # 1
        BY <1>1, <3>3
      <4>2. g[k + 1] = g[k] \o ss[k + 1]
        BY <2>7, <3>1, <4>1
      <4>3. f[k + 1] = f[k] \o ss[k + 1]
        BY <1>7, <3>1
      <4> QED
        BY <2>9, <3>1, <3>3, <4>2, <4>3
    <3> QED
      BY <3>2, <3>3
  <2>10. 0..n \subseteq T
    <3> HIDE DEF T
    <3> QED
      BY <1>1, <2>8, <2>9, UpTo
  <2>11. n \in T
    BY <1>1, <2>10
  <2> QED
    BY <1>8, <2>6, <2>11
<1>9. FlattenSeq(ss) = f[n]
  BY <1>3, <1>6, <1>8
<1> QED
  BY <1>5, <1>6, <1>7, <1>9 DEF Joins, n

LEMMA FlattenNone == FlattenSeq(<< >>) = << >>
BY DEF FlattenSeq

\* One more of them comes at the end.
LEMMA FlattenAppend ==
    ASSUME NEW S, NEW ss \in Seq(Seq(S)), NEW s \in Seq(S)
    PROVE  /\ FlattenSeq(ss) \in Seq(S)
           /\ FlattenSeq(Append(ss, s)) = FlattenSeq(ss) \o s
<1> DEFINE n == Len(ss)
           tt == Append(ss, s)
<1>0. n \in Nat
  OBVIOUS
<1>1. /\ n \in Nat /\ tt \in Seq(Seq(S)) /\ Len(tt) = n + 1 /\ tt[n + 1] = s
      /\ \A k \in 1..n : tt[k] = ss[k]
  OBVIOUS
<1>2. PICK f \in [0..n -> Seq(S)] : Joins(f, ss) /\ FlattenSeq(ss) = f[n]
  BY FlattenJoins
<1> HIDE DEF tt
<1>3. PICK g \in [0..n + 1 -> Seq(S)] : Joins(g, tt) /\ FlattenSeq(tt) = g[n + 1]
  <2>1. \E g \in [0..Len(tt) -> Seq(S)] : Joins(g, tt) /\ FlattenSeq(tt) = g[Len(tt)]
    BY <1>1, FlattenJoins
  <2> QED
    BY <1>1, <2>1
<1>4. f[0] = << >> /\ \A k \in 1..n : f[k] = f[k - 1] \o ss[k]
  BY <1>2 DEF Joins
<1>5. g[0] = << >> /\ \A k \in 1..n + 1 : g[k] = g[k - 1] \o tt[k]
  BY <1>1, <1>3 DEF Joins
<1> HIDE DEF n
<1> DEFINE T == {k \in 0..n : g[k] = f[k]}
<1>6. 0 \in T
  BY <1>1, <1>4, <1>5
<1>7. ASSUME NEW k \in 0..n, k \in T, k < n PROVE k + 1 \in T
  <2>1. k + 1 \in 1..n /\ k + 1 \in 1..n + 1 /\ k + 1 \in 0..n /\ (k + 1) - 1 = k
    BY <1>1, <1>7
  <2>2. g[k + 1] = g[k] \o ss[k + 1] /\ f[k + 1] = f[k] \o ss[k + 1]
    BY <1>1, <1>4, <1>5, <2>1
  <2> QED
    BY <1>7, <2>1, <2>2
<1>8. 0..n \subseteq T
  <2> HIDE DEF T
  <2> QED
    BY <1>1, <1>6, <1>7, UpTo
<1>9. g[n] = f[n] /\ f[n] \in Seq(S)
  BY <1>1, <1>2, <1>8
<1>10. g[n + 1] = g[n] \o s
  <2>1. n + 1 \in 1..n + 1 /\ (n + 1) - 1 = n
    BY <1>0
  <2> QED
    BY <1>1, <1>5, <2>1
<1> QED
  BY <1>2, <1>3, <1>9, <1>10 DEF n, tt


-----------------------------------------------------------------------------
(* The rows of fields.                                                     *)

RowsOf(fields) == [j \in DOMAIN fields |-> RowOf(fields[j])]

LEMMA RowsOfTyped ==
    ASSUME NEW S, NEW s \in Seq(S)
    PROVE  /\ RowsOf(s) \in Seq({RowOf(f) : f \in S})
           /\ Len(RowsOf(s)) = Len(s)
           /\ \A j \in 1..Len(s) : RowsOf(s)[j] = RowOf(s[j])
<1>1. Len(s) \in Nat /\ DOMAIN s = 1..Len(s) /\ \A j \in 1..Len(s) : s[j] \in S
  OBVIOUS
<1> DEFINE row(j) == RowOf(s[j])
           R == {RowOf(f) : f \in S}
<1>2. \A j \in 1..Len(s) : row(j) \in R
  BY <1>1
<1>3. RowsOf(s) = [j \in 1..Len(s) |-> row(j)]
  BY <1>1 DEF RowsOf
<1> HIDE DEF row, R
<1>4. RowsOf(s) \in Seq(R) /\ Len(RowsOf(s)) = Len(s)
  BY <1>1, <1>2, <1>3
<1>5. \A j \in 1..Len(s) : RowsOf(s)[j] = row(j)
  BY <1>3
<1> QED
  BY <1>4, <1>5 DEF row, R

LEMMA RowsOfConcat ==
    ASSUME NEW S, NEW s \in Seq(S), NEW r \in Seq(S)
    PROVE  RowsOf(s \o r) = RowsOf(s) \o RowsOf(r)
<1> DEFINE R == {RowOf(f) : f \in S}
           m == Len(s)
           n == Len(r)
           x == RowsOf(s \o r)
           y == RowsOf(s) \o RowsOf(r)
<1>0. m \in Nat /\ n \in Nat
  OBVIOUS
<1>1. s \o r \in Seq(S) /\ Len(s \o r) = m + n
  OBVIOUS
<1>2. /\ \A j \in 1..m : (s \o r)[j] = s[j]
      /\ \A j \in m + 1..m + n : (s \o r)[j] = r[j - m]
  OBVIOUS
<1>3. /\ x \in Seq(R) /\ Len(x) = m + n
      /\ \A j \in 1..m + n : x[j] = RowOf((s \o r)[j])
  BY <1>1, RowsOfTyped
<1>4. /\ RowsOf(s) \in Seq(R) /\ Len(RowsOf(s)) = m /\ \A j \in 1..m : RowsOf(s)[j] = RowOf(s[j])
      /\ RowsOf(r) \in Seq(R) /\ Len(RowsOf(r)) = n /\ \A j \in 1..n : RowsOf(r)[j] = RowOf(r[j])
  BY RowsOfTyped
<1> HIDE DEF R
<1>5. \A a, b \in Seq(R) : Len(a) = m /\ Len(b) = n =>
          /\ a \o b \in Seq(R) /\ Len(a \o b) = m + n
          /\ \A j \in 1..m : (a \o b)[j] = a[j]
          /\ \A j \in m + 1..m + n : (a \o b)[j] = b[j - m]
  BY <1>0
<1>6. /\ y \in Seq(R) /\ Len(y) = m + n
      /\ \A j \in 1..m : y[j] = RowsOf(s)[j]
      /\ \A j \in m + 1..m + n : y[j] = RowsOf(r)[j - m]
  BY <1>4, <1>5
<1> HIDE DEF x, y, m, n
<1>7. ASSUME NEW j \in 1..m + n PROVE x[j] = y[j]
  <2>1. CASE j \in 1..m
    BY <1>2, <1>3, <1>4, <1>6, <1>7, <2>1
  <2>2. CASE j \in m + 1..m + n
    <3>1. j - m \in 1..n
      BY <1>0, <2>2
    <3> QED
      BY <1>2, <1>3, <1>4, <1>6, <1>7, <2>2, <3>1
  <2> QED
    BY <1>0, <1>7, <2>1, <2>2
<1>8. x = y
  BY <1>3, <1>6, <1>7
<1> QED
  BY <1>8 DEF x, y

LEMMA RowsOfFew ==
    /\ RowsOf(<< >>) = << >>
    /\ \A f : RowsOf(<<f>>) = <<RowOf(f)>>
    /\ \A f, g : RowsOf(<<f, g>>) = <<RowOf(f), RowOf(g)>>
    /\ \A f, g, h : RowsOf(<<f, g, h>>) = <<RowOf(f), RowOf(g), RowOf(h)>>
BY DEF RowsOf

LEMMA RowsOfAppend ==
    ASSUME NEW S, NEW s \in Seq(S), NEW f \in S
    PROVE  RowsOf(Append(s, f)) = RowsOf(s) \o <<RowOf(f)>>
<1>1. Append(s, f) = s \o <<f>> /\ <<f>> \in Seq(S)
  OBVIOUS
<1> QED
  BY <1>1, RowsOfConcat, RowsOfFew

\* Fields are sorted by what their rows show.
LEMMA SortsRows ==
    ASSUME NEW S, NEW s \in Seq(S)
    PROVE  Order!StableSorted(RowsOf(s)) = RowsOf(Order!StableSorted(s))
<1> DEFINE n == Len(s)
           score == [k \in 1..n |-> Order!get_priority_score(s[k])]
           t == RowsOf(s)
           scoreOfRow == [k \in 1..Len(t) |-> Order!get_priority_score(t[k])]
           r == Order!StableSorted(s)
           R == {RowOf(f) : f \in S}
<1>1. n \in Nat /\ t \in Seq(R) /\ Len(t) = n /\ \A k \in 1..n : t[k] = RowOf(s[k])
  BY RowsOfTyped
<1>2. r \in Seq(S) /\ score \in [1..n -> Nat] /\ \E q : Ranks(r, q, s, score, 1..n)
  BY SortedRanks
<1>3. PICK q1 : Ranks(r, q1, s, score, 1..n)
  BY <1>2
<1>4. /\ Order!StableSorted(t) \in Seq(R)
      /\ \E q : Ranks(Order!StableSorted(t), q, t, scoreOfRow, 1..Len(t))
  <2> HIDE DEF t, R
  <2> QED
    BY <1>1, SortedRanks
<1>5. scoreOfRow = score
  <2>1. ASSUME NEW k \in 1..n
        PROVE  Order!get_priority_score(t[k]) = Order!get_priority_score(s[k])
    <3>1. t[k] = RowOf(s[k])
      BY <1>1
    <3>2. \A f : /\ RowOf(f).data_type = f.data_type /\ RowOf(f).id = f.id
                 /\ RowOf(f).array_info = f.array_info
      BY DEF RowOf, Row
    <3> QED
      BY <3>1, <3>2 DEF Order!get_priority_score, is_transaction_type_field,
                        is_normal_account_field, Is, OutsideArrays
  <2> QED
    BY <1>1, <2>1
<1>6. PICK q2 : Ranks(Order!StableSorted(t), q2, t, score, 1..n)
  BY <1>1, <1>4, <1>5
<1> HIDE DEF r, score, scoreOfRow, R
<1>7. /\ RowsOf(r) \in Seq(R) /\ Len(RowsOf(r)) = Len(r)
      /\ \A j \in 1..Len(r) : RowsOf(r)[j] = RowOf(r[j])
  BY <1>2, RowsOfTyped DEF R
<1> HIDE DEF t
<1>8. Ranks(RowsOf(r), q1, t, score, 1..n)
  <2>1. /\ q1 \in [1..Len(r) -> 1..n]
        /\ \A j, k \in 1..Len(r) : j < k => Before(score, q1[j], q1[k])
        /\ \A j \in 1..Len(r) : r[j] = s[q1[j]]
        /\ \A m \in 1..n : \E j \in 1..Len(r) : q1[j] = m
    BY <1>3 DEF Ranks
  <2>2. ASSUME NEW j \in 1..Len(r) PROVE RowsOf(r)[j] = t[q1[j]]
    <3>1. q1[j] \in 1..n
      BY <2>1
    <3> QED
      BY <1>1, <1>7, <2>1, <3>1
  <2> QED
    BY <1>7, <2>1, <2>2 DEF Ranks
<1>9. t \in [1..n -> R]
  BY <1>1
<1>10. Order!StableSorted(t) = RowsOf(r)
  BY <1>1, <1>2, <1>4, <1>6, <1>7, <1>8, <1>9, RankingUnique
<1> QED
  BY <1>10 DEF t, r

-----------------------------------------------------------------------------
(* What a token spells out.                                                *)

SelfRow(t, place) == Row(t.data_type, t.id, t.value, place)
IssuerRow(place) == Row("ACCOUNT", "ISSUER", "issuer", place)
CurrencyRow(place) == Row("CURRENCY", "CURRENCY", "currency", place)
AccountRow(place) == Row("ACCOUNT", "ACCOUNT", "step", place)

EntryRow(t, place, n) ==
    Row("HASH256", "NFTOKEN_OFFER", t.value,
        [type |-> t.id, index1 |-> n, index2 |-> place.index2])

Entries(t, place) == [n \in 1..t.length \div Vector256Size |-> EntryRow(t, place, n)]

\* The types of a single row that may be left out, and of one that may not.
Scalars == {"UINT8", "UINT16", "UINT32", "HASH128", "HASH256", "VL"}

LEMMA SpelledIs ==
    ASSUME NEW t \in Token, NEW place
    PROVE  LET spelled == Spelled(t, place)
           IN  /\ t.data_type \in {"ARRAY", "OBJECT", "PATHSET"} => spelled = << >>
               /\ Is(t, "STEP", "NEXT") \/ Is(t, "STEP", "END") => spelled = << >>
               /\ Is(t, "STEP", "ACCOUNT") => spelled = <<AccountRow(place)>>
               /\ Is(t, "STEP", "ISSUER") => spelled = <<IssuerRow(place)>>
               /\ Is(t, "STEP", "CURRENCY") => spelled = <<CurrencyRow(place)>>
               /\ Is(t, "STEP", "CURRENCY_ISSUER") =>
                      spelled = <<CurrencyRow(place), IssuerRow(place)>>
               /\ t.data_type = "VECTOR256" =>
                      spelled = <<SelfRow(t, place)>> \o Entries(t, place)
               /\ <<t.data_type, t.value>> \in {<<"AMOUNT", "issued">>, <<"ISSUE", "token">>} =>
                      spelled = <<SelfRow(t, place), IssuerRow(place)>>
               /\ t.data_type = "AMOUNT" /\ t.value = "nonstandard" =>
                      spelled = <<SelfRow(t, place), CurrencyRow(place), IssuerRow(place)>>
               /\ t.data_type = "AMOUNT" /\ t.value \notin {"issued", "nonstandard"} =>
                      spelled = <<SelfRow(t, place)>>
               /\ t.data_type = "ISSUE" /\ t.value # "token" => spelled = <<SelfRow(t, place)>>
               /\ t.data_type \in Scalars \cup {"ACCOUNT"} =>
                      spelled = IF Unshown(t, place) THEN << >> ELSE <<SelfRow(t, place)>>
               /\ Unshown(t, place) => t.data_type \in {"UINT32", "VL"}
<1>1. Unshown(t, place) => t.data_type \in {"UINT32", "VL"}
  BY DEF Unshown, HiddenOutsideArrays, is_flag_hidden, is_flag
<1>2. t.data_type \notin {"UINT32", "VL"} => Spelled(t, place) = Rows(t, place)
  BY <1>1 DEF Spelled
<1>3. /\ t.data_type \in {"ARRAY", "OBJECT", "PATHSET"} => Rows(t, place) = << >>
      /\ Is(t, "STEP", "NEXT") \/ Is(t, "STEP", "END") => Rows(t, place) = << >>
      /\ Is(t, "STEP", "ACCOUNT") => Rows(t, place) = <<AccountRow(place)>>
      /\ Is(t, "STEP", "ISSUER") => Rows(t, place) = <<IssuerRow(place)>>
      /\ Is(t, "STEP", "CURRENCY") => Rows(t, place) = <<CurrencyRow(place)>>
      /\ Is(t, "STEP", "CURRENCY_ISSUER") =>
             Rows(t, place) = <<CurrencyRow(place), IssuerRow(place)>>
  BY DEF Rows, Is, AccountRow, IssuerRow, CurrencyRow
<1>4. t.data_type = "VECTOR256" => Rows(t, place) = <<SelfRow(t, place)>> \o Entries(t, place)
  BY DEF Rows, SelfRow, Entries, EntryRow
<1>5. /\ <<t.data_type, t.value>> \in {<<"AMOUNT", "issued">>, <<"ISSUE", "token">>} =>
             Rows(t, place) = <<SelfRow(t, place), IssuerRow(place)>>
      /\ t.data_type = "AMOUNT" /\ t.value = "nonstandard" =>
             Rows(t, place) = <<SelfRow(t, place), CurrencyRow(place), IssuerRow(place)>>
  BY DEF Rows, SelfRow, IssuerRow, CurrencyRow
<1>6. /\ t.data_type = "AMOUNT" /\ t.value \notin {"issued", "nonstandard"} =>
             Rows(t, place) = <<SelfRow(t, place)>>
      /\ t.data_type = "ISSUE" /\ t.value # "token" => Rows(t, place) = <<SelfRow(t, place)>>
      /\ t.data_type \in Scalars \cup {"ACCOUNT"} => Rows(t, place) = <<SelfRow(t, place)>>
  BY DEF Rows, SelfRow, Scalars
<1>7. t.data_type \in Scalars \cup {"ACCOUNT"} =>
          Spelled(t, place) = IF Unshown(t, place) THEN << >> ELSE <<SelfRow(t, place)>>
  BY <1>6 DEF Spelled
<1>8. /\ Is(t, "STEP", "NEXT") \/ Is(t, "STEP", "END") => t.data_type = "STEP"
      /\ Is(t, "STEP", "ACCOUNT") \/ Is(t, "STEP", "ISSUER") => t.data_type = "STEP"
      /\ Is(t, "STEP", "CURRENCY") \/ Is(t, "STEP", "CURRENCY_ISSUER") => t.data_type = "STEP"
      /\ <<t.data_type, t.value>> \in {<<"AMOUNT", "issued">>, <<"ISSUE", "token">>} =>
             t.data_type \in {"AMOUNT", "ISSUE"}
  BY DEF Is
<1> QED
  BY <1>1, <1>2, <1>3, <1>4, <1>5, <1>6, <1>7, <1>8

\* Every type a token can have and be read.
Readables ==
    Scalars \cup {"ACCOUNT", "ARRAY", "OBJECT", "PATHSET", "STEP", "VECTOR256", "AMOUNT", "ISSUE"}

SpelledRows(t, place) ==
    {SelfRow(t, place), IssuerRow(place), CurrencyRow(place)}
        \cup {r \in {AccountRow(place)} : t.data_type = "STEP"}
        \cup {EntryRow(t, place, n) : n \in Nat}

HoldsKey(rows) == \E j \in DOMAIN rows : Is(rows[j], "ACCOUNT", "REGULAR_KEY")

\* The rows are those of a token, and only the token of a regular key spells out one.
LEMMA SpelledTyped ==
    ASSUME NEW t \in Token, ~Malformed(t), t.data_type \in Readables, NEW place
    PROVE  /\ Spelled(t, place) \in Seq(SpelledRows(t, place))
           /\ HoldsKey(Spelled(t, place)) <=> Is(t, "ACCOUNT", "REGULAR_KEY")
<1> DEFINE R == SpelledRows(t, place)
           self == SelfRow(t, place)
           issuer == IssuerRow(place)
           currency == CurrencyRow(place)
           account == AccountRow(place)
<1>1. self \in R /\ issuer \in R /\ currency \in R /\ (t.data_type = "STEP" => account \in R)
  BY DEF SpelledRows
<1>2. /\ Is(self, "ACCOUNT", "REGULAR_KEY") <=> Is(t, "ACCOUNT", "REGULAR_KEY")
      /\ ~Is(issuer, "ACCOUNT", "REGULAR_KEY") /\ ~Is(currency, "ACCOUNT", "REGULAR_KEY")
      /\ ~Is(account, "ACCOUNT", "REGULAR_KEY")
  BY DEF Is, SelfRow, IssuerRow, CurrencyRow, AccountRow, Row
<1> HIDE DEF R, self, issuer, currency, account
<1>3. /\ << >> \in Seq(R) /\ <<issuer>> \in Seq(R)
      /\ t.data_type = "STEP" => <<account>> \in Seq(R)
      /\ <<currency>> \in Seq(R) /\ <<currency, issuer>> \in Seq(R) /\ <<self, issuer>> \in Seq(R)
      /\ <<self, currency, issuer>> \in Seq(R) /\ <<self>> \in Seq(R)
  BY <1>1
<1>4. /\ ~HoldsKey(<< >>) /\ ~HoldsKey(<<account>>) /\ ~HoldsKey(<<issuer>>)
      /\ ~HoldsKey(<<currency>>) /\ ~HoldsKey(<<currency, issuer>>)
  BY <1>2 DEF HoldsKey
<1>5. /\ HoldsKey(<<self>>) <=> Is(t, "ACCOUNT", "REGULAR_KEY")
      /\ HoldsKey(<<self, issuer>>) <=> Is(t, "ACCOUNT", "REGULAR_KEY")
      /\ HoldsKey(<<self, currency, issuer>>) <=> Is(t, "ACCOUNT", "REGULAR_KEY")
  BY <1>2 DEF HoldsKey
<1>6. CASE t.data_type \in {"ARRAY", "OBJECT", "PATHSET"}
  BY <1>3, <1>4, <1>6, SpelledIs DEF R, Is
<1>7. CASE t.data_type = "STEP"
  <2>1. t.id \in {"NEXT", "END", "ACCOUNT", "ISSUER", "CURRENCY", "CURRENCY_ISSUER"}
    BY <1>7, TokenAssumption DEF StepKinds, Malformed
  <2> QED
    BY <1>3, <1>4, <1>7, <2>1, SpelledIs DEF R, Is, account, issuer, currency
<1>8. CASE t.data_type = "VECTOR256"
  <2> DEFINE e == Entries(t, place)
             n == t.length \div Vector256Size
  <2>1. n \in Nat
    BY TokenAssumption DEF Vector256Size
  <2>2. \A k \in 1..n : EntryRow(t, place, k) \in R
    BY <2>1 DEF R, SpelledRows
  <2>3. e = [k \in 1..n |-> EntryRow(t, place, k)]
    BY DEF Entries
  <2> HIDE DEF n, e
  <2>4. e \in Seq(R) /\ DOMAIN e = 1..n /\ Len(e) = n
    BY <2>1, <2>2, <2>3
  <2>5. \A k \in 1..n : ~Is(e[k], "ACCOUNT", "REGULAR_KEY")
    BY <2>3 DEF Is, EntryRow, Row
  <2>6. Spelled(t, place) = <<self>> \o e
    BY <1>8, SpelledIs DEF self, e
  <2>7. ~Is(self, "ACCOUNT", "REGULAR_KEY") /\ ~Is(t, "ACCOUNT", "REGULAR_KEY")
    BY <1>2, <1>8 DEF Is
  <2>8. /\ <<self>> \o e \in Seq(R) /\ DOMAIN (<<self>> \o e) = 1..n + 1
        /\ (<<self>> \o e)[1] = self
        /\ \A k \in 2..n + 1 : (<<self>> \o e)[k] = e[k - 1]
    BY <1>3, <2>1, <2>4
  <2>9. \A k \in 1..n + 1 : k = 1 \/ (k \in 2..n + 1 /\ k - 1 \in 1..n)
    BY <2>1
  <2>10. ~HoldsKey(<<self>> \o e)
    BY <2>5, <2>7, <2>8, <2>9 DEF HoldsKey
  <2> QED
    BY <2>6, <2>7, <2>8, <2>10 DEF R
<1>9. CASE t.data_type \in {"AMOUNT", "ISSUE"}
  <2>1. Spelled(t, place) \in {<<self>>, <<self, issuer>>, <<self, currency, issuer>>}
    BY <1>9, SpelledIs DEF self, issuer, currency
  <2> QED
    BY <1>3, <1>5, <2>1 DEF R
<1>10. CASE t.data_type \in Scalars \cup {"ACCOUNT"}
  <2>1. Spelled(t, place) = IF Unshown(t, place) THEN << >> ELSE <<self>>
    BY <1>10, SpelledIs DEF self
  <2>2. Unshown(t, place) => ~Is(t, "ACCOUNT", "REGULAR_KEY")
    BY SpelledIs DEF Is
  <2> QED
    BY <1>3, <1>4, <1>5, <2>1, <2>2 DEF R
<1> QED
  BY <1>6, <1>7, <1>8, <1>9, <1>10 DEF Readables

-----------------------------------------------------------------------------
(* What a round of the loop does with the rows and the indices.            *)

Moves(array, m, n) ==
    context'.current_array = array /\ context'.array_index1 = m /\ context'.array_index2 = n

Renumbers(t) ==
    LET array == context.current_array
        m == context.array_index1
        n == context.array_index2
    IN  /\ t.data_type \notin {"ARRAY", "OBJECT", "PATHSET", "STEP"} => Moves(array, m, n)
        /\ Is(t, "ARRAY", "END") => Moves("NONE", m, n)
        /\ Begins(t, "ARRAY") => Moves(t.id, 0, 0)
        /\ Is(t, "OBJECT", "END") => Moves(array, m, n)
        /\ Begins(t, "OBJECT") => Moves(array, m + 1, n)
        /\ t.data_type = "PATHSET" => Moves("PATHSET", 1, 1)
        /\ Is(t, "STEP", "NEXT") => Moves(array, m + 1, 1)
        /\ Is(t, "STEP", "END") => Moves("NONE", m, n)
        /\ t.data_type = "STEP" /\ t.id \notin {"NEXT", "END"} => Moves(array, m, n + 1)

\* The rows of a token that was read are added, with the place the indices give it.
Writes(t) ==
    /\ Take(t) /\ ~Malformed(t) /\ t.data_type \in Readables
    /\ Renumbers(t)
    /\ RowsOf(context'.fields) = RowsOf(context.fields) \o Spelled(t, ArrayInfo(context))

LEMMA Adding ==
    ASSUME TypeOK, NEW t \in Token, Take(t), ~Malformed(t),
           t.data_type \in Readables \ {"ARRAY", "OBJECT", "PATHSET", "STEP"},
           NEW S, NEW new \in Seq(S), RowsOf(new) = Spelled(t, ArrayInfo(context)),
           context'.fields = context.fields \o new,
           Moves(context.current_array, context.array_index1, context.array_index2)
    PROVE  Writes(t)
<1>1. context.fields \in Seq(ParsedFields)
  BY DEF Take, TypeOK, ContextOK, Contexts
<1>2. context.fields \in Seq(ParsedFields \cup S) /\ new \in Seq(ParsedFields \cup S)
  BY <1>1
<1>3. RowsOf(context.fields \o new) = RowsOf(context.fields) \o RowsOf(new)
  BY <1>2, RowsOfConcat
<1>4. Renumbers(t)
  BY DEF Renumbers, Begins, Is
<1> QED
  BY <1>3, <1>4 DEF Writes

\* The rounds that put fields and do not fail.
LEMMA PutWrites ==
    ASSUME TypeOK, NEW t \in Token, Take(t), ~Malformed(t),
           t.data_type \in Readables \ {"ARRAY", "OBJECT", "PATHSET", "STEP"},
           NEW S, NEW new \in Seq(S), RowsOf(new) = Spelled(t, ArrayInfo(context)),
           Put(new), verdict' = "parsing"
    PROVE  Writes(t)
<1>1. verdict = "parsing" /\ context \in Contexts
  BY DEF Take, TypeOK, ContextOK
<1>2. context' = [context EXCEPT !.fields = context.fields \o new]
  BY <1>1 DEF Put, Fail
<1>3. /\ context'.fields = context.fields \o new
      /\ Moves(context.current_array, context.array_index1, context.array_index2)
  BY <1>1, <1>2 DEF Contexts, Moves
<1> QED
  BY <1>3, Adding

LEMMA AddedRows ==
    ASSUME NEW t
    PROVE  LET place == ArrayInfo(context)
           IN  /\ RowOf(FieldOf(context, t)) = SelfRow(t, place)
               /\ RowOf(Issuer(context)) = IssuerRow(place)
               /\ RowOf(Currency(context)) = CurrencyRow(place)
               /\ RowOf(NewField(context, "ACCOUNT", "ACCOUNT", "step", AccountSize)) =
                      AccountRow(place)
               /\ \A n : RowOf(VectorEntry(t, n)) = EntryRow(t, place, n)
<1>1. /\ RowOf(FieldOf(context, t)) = SelfRow(t, ArrayInfo(context))
      /\ RowOf(Issuer(context)) = IssuerRow(ArrayInfo(context))
      /\ RowOf(Currency(context)) = CurrencyRow(ArrayInfo(context))
      /\ RowOf(NewField(context, "ACCOUNT", "ACCOUNT", "step", AccountSize)) =
             AccountRow(ArrayInfo(context))
  BY DEF RowOf, FieldOf, NewField, SelfRow, Issuer, IssuerRow, Currency, CurrencyRow, AccountRow
<1>2. ASSUME NEW n PROVE RowOf(VectorEntry(t, n)) = EntryRow(t, ArrayInfo(context), n)
  <2> DEFINE place == ArrayInfo(context)
             f == NewField(context, "HASH256", "NFTOKEN_OFFER", t.value, Vector256Size)
  <2>1. DOMAIN place = {"type", "index1", "index2"}
    BY DEF ArrayInfo, NoArray
  <2>2. place = [type |-> place.type, index1 |-> place.index1, index2 |-> place.index2]
    BY DEF ArrayInfo, NoArray
  <2>3. /\ f.array_info = place /\ f.data_type = "HASH256" /\ f.id = "NFTOKEN_OFFER"
        /\ f.value = t.value
        /\ DOMAIN f = {"data_type", "id", "value", "length", "array_info", "object_depth"}
    BY DEF NewField
  <2> HIDE DEF place, f
  <2> DEFINE g == [f EXCEPT !.array_info.type = t.id, !.array_info.index1 = n]
  <2>4. g.data_type = "HASH256" /\ g.id = "NFTOKEN_OFFER" /\ g.value = t.value
    BY <2>3
  <2>5. g.array_info = [[place EXCEPT !.type = t.id] EXCEPT !.index1 = n]
    BY <2>3
  <2>6. g.array_info = [type |-> t.id, index1 |-> n, index2 |-> place.index2]
    BY <2>2, <2>5
  <2>7. VectorEntry(t, n) = g
    BY DEF VectorEntry, f
  <2> HIDE DEF g
  <2> QED
    BY <2>4, <2>6, <2>7 DEF RowOf, EntryRow, place
<1> QED
  BY <1>1, <1>2

LEMMA ReadScalarWrites ==
    ASSUME TypeOK, NEW t \in Token, ReadScalar(t), ~Malformed(t)
    PROVE  Writes(t)
<1> DEFINE f == FieldOf(context, t)
           place == ArrayInfo(context)
           s == context.fields
           new == IF is_field_hidden(f) THEN << >> ELSE <<f>>
           empty == context.has_empty_pub_key \/ EmptyPubKey(f)
<1>1. /\ Take(t) /\ t.data_type \in Scalars
      /\ context' = [context EXCEPT !.fields = IF is_field_hidden(f) THEN s ELSE Append(s, f),
                                    !.has_empty_pub_key = empty]
  BY DEF ReadScalar, Begin, Scalars
<1>2. context \in Contexts /\ s \in Seq(ParsedFields)
  BY <1>1 DEF Take, TypeOK, ContextOK, Contexts
<1>3. is_field_hidden(f) <=> Unshown(t, place)
  <2>1. /\ f.data_type = t.data_type /\ f.id = t.id /\ f.value = t.value /\ f.array_info = place
    BY FieldOfParts
  <2>2. t.data_type \notin {"ARRAY", "OBJECT", "PATHSET"}
    BY <1>1 DEF Scalars
  <2>3. is_flag_hidden(f) <=> is_flag_hidden(t)
    BY <2>1 DEF is_flag_hidden, is_flag
  <2> HIDE DEF f, place
  <2> QED
    BY <2>1, <2>2, <2>3 DEF is_field_hidden, Unshown, OutsideArrays
<1>4. RowsOf(new) = Spelled(t, place)
  <2>1. Spelled(t, place) = IF Unshown(t, place) THEN << >> ELSE <<SelfRow(t, place)>>
    BY <1>1, SpelledIs
  <2>2. RowOf(f) = SelfRow(t, place)
    BY AddedRows
  <2> HIDE DEF f, place
  <2> QED
    BY <1>3, <2>1, <2>2, RowsOfFew
<1>5. new \in Seq({f})
  <2> HIDE DEF f
  <2>1. << >> \in Seq({f}) /\ <<f>> \in Seq({f})
    OBVIOUS
  <2>2. new = << >> \/ new = <<f>>
    BY DEF new
  <2> QED
    BY <2>1, <2>2
<1> HIDE DEF empty
<1>6. context'.fields = s \o new
  <2>1. context'.fields = IF is_field_hidden(f) THEN s ELSE Append(s, f)
    BY <1>1, <1>2 DEF Contexts
  <2> HIDE DEF f, s
  <2>2. s \o << >> = s /\ Append(s, f) = s \o <<f>>
    BY <1>2
  <2> QED
    BY <2>1, <2>2
<1>7. Moves(context.current_array, context.array_index1, context.array_index2)
  BY <1>1, <1>2 DEF Contexts, Moves
<1>8. t.data_type \in Readables \ {"ARRAY", "OBJECT", "PATHSET", "STEP"}
  BY <1>1 DEF Readables, Scalars
<1> HIDE DEF new
<1> QED
  BY <1>1, <1>4, <1>5, <1>6, <1>7, <1>8, Adding

LEMMA ReadTransactionTypeWrites ==
    ASSUME TypeOK, NEW t \in Token, ReadTransactionType(t), ~Malformed(t)
    PROVE  Writes(t)
<1> DEFINE f == FieldOf(context, t)
           place == ArrayInfo(context)
           s == context.fields
           trusted == TopLevel(f) /\ context.transaction_type = "INVALID"
           type == IF trusted THEN f.value ELSE context.transaction_type
<1>1. /\ Take(t) /\ t.data_type = "UINT16"
      /\ context' = [context EXCEPT !.fields = Append(s, f), !.transaction_type = type]
  BY DEF ReadTransactionType, Begin
<1>2. context \in Contexts /\ s \in Seq(ParsedFields)
  BY <1>1 DEF Take, TypeOK, ContextOK, Contexts
<1>3. RowsOf(<<f>>) = Spelled(t, place)
  <2>1. Spelled(t, place) = <<SelfRow(t, place)>>
    BY <1>1, SpelledIs DEF Scalars
  <2>2. RowOf(f) = SelfRow(t, place)
    BY AddedRows
  <2> QED
    BY <2>1, <2>2, RowsOfFew
<1>4. <<f>> \in Seq({f}) /\ Append(s, f) = s \o <<f>>
  BY <1>2
<1> HIDE DEF type
<1>5. /\ context'.fields = s \o <<f>>
      /\ Moves(context.current_array, context.array_index1, context.array_index2)
  BY <1>1, <1>2, <1>4 DEF Contexts, Moves
<1>6. t.data_type \in Readables \ {"ARRAY", "OBJECT", "PATHSET", "STEP"}
  BY <1>1 DEF Readables, Scalars
<1> HIDE DEF f
<1> QED
  BY <1>1, <1>3, <1>4, <1>5, <1>6, Adding

LEMMA PutsWrites ==
    ASSUME TypeOK, NEW t \in Token, ReadAccount(t) \/ ReadAmount(t) \/ ReadIssue(t),
           ~Malformed(t), verdict' = "parsing"
    PROVE  Writes(t)
<1> DEFINE f == FieldOf(context, t)
           g == Issuer(context)
           h == Currency(context)
           place == ArrayInfo(context)
<1>1. Take(t) /\ t.data_type \in {"ACCOUNT", "AMOUNT", "ISSUE"}
  BY DEF ReadAccount, ReadAmount, ReadIssue, Begin
<1>2. verdict = "parsing"
  BY <1>1 DEF Take
<1>3. /\ RowsOf(<<f>>) = <<SelfRow(t, place)>>
      /\ RowsOf(<<f, g>>) = <<SelfRow(t, place), IssuerRow(place)>>
      /\ RowsOf(<<f, h, g>>) = <<SelfRow(t, place), CurrencyRow(place), IssuerRow(place)>>
  BY AddedRows, RowsOfFew
<1>4. \E new \in {<<f>>, <<f, g>>, <<f, h, g>>} :
          Put(new) /\ RowsOf(new) = Spelled(t, place)
  <2>1. CASE ReadAccount(t)
    <3>1. Put(<<f>>) /\ t.data_type = "ACCOUNT"
      BY <1>2, <2>1 DEF ReadAccount, Begin, Fail
    <3>2. Spelled(t, place) = <<SelfRow(t, place)>>
      BY <3>1, SpelledIs
    <3> QED
      BY <1>3, <3>1, <3>2
  <2>2. CASE ReadAmount(t)
    <3>1. /\ t.data_type = "AMOUNT"
          /\ \/ t.value \notin {"issued", "nonstandard"} /\ Put(<<f>>)
             \/ t.value = "issued" /\ Put(<<f, g>>)
             \/ t.value = "nonstandard" /\ Put(<<f, h, g>>)
      BY <1>2, <2>2, AmountAssumption DEF ReadAmount, Begin, Fail
    <3>2. /\ t.value \notin {"issued", "nonstandard"} => Spelled(t, place) = <<SelfRow(t, place)>>
          /\ t.value = "issued" => Spelled(t, place) = <<SelfRow(t, place), IssuerRow(place)>>
          /\ t.value = "nonstandard" =>
                 Spelled(t, place) = <<SelfRow(t, place), CurrencyRow(place), IssuerRow(place)>>
      BY <3>1, SpelledIs
    <3> HIDE DEF f, g, h, place
    <3> QED
      BY <1>3, <3>1, <3>2
  <2>3. CASE ReadIssue(t)
    <3>1. /\ t.data_type = "ISSUE"
          /\ \/ t.value = "xrp" /\ Put(<<f>>)
             \/ t.value = "token" /\ Put(<<f, g>>)
      BY <1>2, <2>3 DEF ReadIssue, Begin
    <3>2. /\ t.value = "xrp" => Spelled(t, place) = <<SelfRow(t, place)>>
          /\ t.value = "token" => Spelled(t, place) = <<SelfRow(t, place), IssuerRow(place)>>
      BY <3>1, SpelledIs
    <3> HIDE DEF f, g, h, place
    <3> QED
      BY <1>3, <3>1, <3>2
  <2> QED
    BY <2>1, <2>2, <2>3
<1>5. PICK new \in {<<f>>, <<f, g>>, <<f, h, g>>} : Put(new) /\ RowsOf(new) = Spelled(t, place)
  BY <1>4
<1>6. new \in Seq({f, g, h})
  <2> HIDE DEF f, g, h
  <2>1. <<f>> \in Seq({f, g, h}) /\ <<f, g>> \in Seq({f, g, h}) /\ <<f, h, g>> \in Seq({f, g, h})
    OBVIOUS
  <2> QED
    BY <2>1
<1>7. t.data_type \in Readables \ {"ARRAY", "OBJECT", "PATHSET", "STEP"}
  BY <1>1 DEF Readables, Scalars
<1> HIDE DEF f, g, h
<1> QED
  BY <1>1, <1>5, <1>6, <1>7, PutWrites

LEMMA ReadVector256Writes ==
    ASSUME TypeOK, NEW t \in Token, ReadVector256(t), ~Malformed(t), verdict' = "parsing"
    PROVE  Writes(t)
<1> DEFINE n == t.length \div Vector256Size
           f == FieldOf(context, t)
           entries == [k \in 1..n |-> VectorEntry(t, k)]
           S == {f} \cup {VectorEntry(t, k) : k \in 1..n}
           new == <<f>> \o entries
           place == ArrayInfo(context)
<1>1. Take(t) /\ t.data_type = "VECTOR256" /\ Put(new)
  BY DEF ReadVector256, Begin, Fail
<1>2. n \in Nat
  BY TokenAssumption DEF Vector256Size
<1>3. <<f>> \in Seq(S) /\ entries \in Seq(S) /\ Len(entries) = n
  <2> HIDE DEF n, f
  <2>1. f \in S /\ \A k \in 1..n : VectorEntry(t, k) \in S
    OBVIOUS
  <2> HIDE DEF S
  <2> QED
    BY <1>2, <2>1
<1>4. RowsOf(entries) = Entries(t, place)
  <2>1. DOMAIN entries = 1..n
    OBVIOUS
  <2>2. ASSUME NEW k \in 1..n PROVE RowOf(entries[k]) = EntryRow(t, place, k)
    BY AddedRows
  <2>3. Entries(t, place) = [k \in 1..n |-> EntryRow(t, place, k)]
    BY DEF Entries
  <2> HIDE DEF entries, n
  <2> QED
    BY <2>1, <2>2, <2>3 DEF RowsOf
<1>5. RowsOf(new) = RowsOf(<<f>>) \o RowsOf(entries)
  <2> HIDE DEF S, f, entries
  <2> QED
    BY <1>3, RowsOfConcat
<1>6. RowsOf(<<f>>) = <<SelfRow(t, place)>>
  BY AddedRows, RowsOfFew
<1>7. RowsOf(new) = Spelled(t, place)
  BY <1>1, <1>4, <1>5, <1>6, SpelledIs
<1>8. new \in Seq(S)
  <2> HIDE DEF S, f, entries
  <2> QED
    BY <1>3
<1>9. t.data_type \in Readables \ {"ARRAY", "OBJECT", "PATHSET", "STEP"}
  BY <1>1 DEF Readables
<1> HIDE DEF new, S
<1> QED
  BY <1>1, <1>7, <1>8, <1>9, PutWrites

\* The rounds that add no field.
LEMMA Moving ==
    ASSUME TypeOK, NEW t \in Token, Take(t), ~Malformed(t),
           t.data_type \in {"ARRAY", "OBJECT", "PATHSET"}
               \/ Is(t, "STEP", "NEXT") \/ Is(t, "STEP", "END"),
           context'.fields = context.fields, Renumbers(t)
    PROVE  Writes(t)
<1>1. context.fields \in Seq(ParsedFields)
  BY DEF Take, TypeOK, ContextOK, Contexts
<1>2. Spelled(t, ArrayInfo(context)) = << >>
  BY SpelledIs
<1>3. t.data_type \in Readables
  BY DEF Readables, Is
<1>4. \E R : RowsOf(context.fields) \in Seq(R)
  BY <1>1, RowsOfTyped
<1>5. RowsOf(context.fields) \o << >> = RowsOf(context.fields)
  BY <1>4
<1> QED
  BY <1>2, <1>3, <1>5 DEF Writes

LEMMA MovesWrite ==
    ASSUME TypeOK, NEW t \in Token, ReadArray(t) \/ ReadObject(t) \/ ReadPathSet(t),
           ~Malformed(t), verdict' = "parsing"
    PROVE  Writes(t)
<1>1. Take(t)
  BY DEF ReadArray, ReadObject, ReadPathSet, Begin
<1>2. context \in Contexts /\ verdict = "parsing"
  BY <1>1 DEF Take, TypeOK, ContextOK
<1>3. CASE ReadArray(t)
  <2>1. /\ t.data_type = "ARRAY"
        /\ context' = IF t.id = "END" THEN [context EXCEPT !.current_array = "NONE"]
                      ELSE [context EXCEPT !.current_array = t.id, !.array_index1 = 0,
                                           !.array_index2 = 0]
    BY <1>3 DEF ReadArray, Begin
  <2>2. Renumbers(t) /\ context'.fields = context.fields
    BY <1>2, <2>1 DEF Renumbers, Moves, Is, Begins, Contexts
  <2> QED
    BY <1>1, <2>1, <2>2, Moving
<1>4. CASE ReadObject(t)
  <2>1. /\ t.data_type = "OBJECT"
        /\ context' = IF t.id = "END" THEN LeaveObject(context) ELSE EnterObject(context)
    BY <1>2, <1>4 DEF ReadObject, Begin, Fail
  <2>2. Renumbers(t) /\ context'.fields = context.fields
    BY <1>2, <2>1 DEF Renumbers, Moves, Is, Begins, Contexts, LeaveObject, EnterObject
  <2> QED
    BY <1>1, <2>1, <2>2, Moving
<1>5. CASE ReadPathSet(t)
  <2>1. /\ t.data_type = "PATHSET"
        /\ context' = [context EXCEPT !.current_array = "PATHSET", !.array_index1 = 1,
                                      !.array_index2 = 1]
    BY <1>5 DEF ReadPathSet, Begin
  <2>2. Renumbers(t) /\ context'.fields = context.fields
    BY <1>2, <2>1 DEF Renumbers, Moves, Is, Begins, Contexts
  <2> QED
    BY <1>1, <2>1, <2>2, Moving
<1> QED
  BY <1>3, <1>4, <1>5

LEMMA ReadPathStepWrites ==
    ASSUME TypeOK, NEW t \in Token, ReadPathStep(t), ~Malformed(t), verdict' = "parsing"
    PROVE  Writes(t)
<1> DEFINE new == StepFields(context, t.id)
           place == ArrayInfo(context)
<1>1. Take(t) /\ t.data_type = "STEP"
  BY DEF ReadPathStep, Begin
<1>2. /\ context \in Contexts /\ verdict = "parsing"
      /\ t.id \in {"NEXT", "END", "ACCOUNT", "ISSUER", "CURRENCY", "CURRENCY_ISSUER"}
  BY <1>1, TokenAssumption DEF Take, TypeOK, ContextOK, StepKinds, Malformed
<1>3. CASE t.id = "NEXT"
  <2>1. context' = NextPath(context)
    BY <1>2, <1>3 DEF ReadPathStep, Fail
  <2>2. Renumbers(t) /\ context'.fields = context.fields
    BY <1>1, <1>2, <1>3, <2>1 DEF Renumbers, Moves, Is, Begins, Contexts, NextPath
  <2> QED
    BY <1>1, <1>3, <2>2, Moving DEF Is
<1>4. CASE t.id = "END"
  <2>1. context' = [context EXCEPT !.current_array = "NONE"]
    BY <1>2, <1>4 DEF ReadPathStep, Fail
  <2>2. Renumbers(t) /\ context'.fields = context.fields
    BY <1>1, <1>2, <1>4, <2>1 DEF Renumbers, Moves, Is, Begins, Contexts
  <2> QED
    BY <1>1, <1>4, <2>2, Moving DEF Is
<1>5. CASE t.id \in {"ACCOUNT", "ISSUER", "CURRENCY", "CURRENCY_ISSUER"}
  <2> DEFINE f == NewField(context, "ACCOUNT", "ACCOUNT", "step", AccountSize)
             g == Issuer(context)
             h == Currency(context)
  <2>1. context' = [context EXCEPT !.fields = context.fields \o new, !.array_index2 = @ + 1]
    <3> HIDE DEF new
    <3>1. LET r == StepFields(context, t.id)
          IN  \/ /\ Len(context.fields) + Len(r) <= MaxFieldCount
                 /\ context' = [context EXCEPT !.fields = @ \o r, !.array_index2 = @ + 1]
                 /\ UNCHANGED verdict
              \/ /\ Len(context.fields) + Len(r) > MaxFieldCount
                 /\ Fail("NOT_ENOUGH_SPACE")
      BY <1>2, <1>5 DEF ReadPathStep, Fail
    <3> QED
      BY <1>2, <3>1 DEF Fail, new
  <2>2. RowsOf(new) = Spelled(t, place)
    <3>1. /\ t.id = "ACCOUNT" => new = <<f>> /\ Spelled(t, place) = <<AccountRow(place)>>
          /\ t.id = "ISSUER" => new = <<g>> /\ Spelled(t, place) = <<IssuerRow(place)>>
          /\ t.id = "CURRENCY" => new = <<h>> /\ Spelled(t, place) = <<CurrencyRow(place)>>
          /\ t.id = "CURRENCY_ISSUER" =>
                 new = <<h, g>> /\ Spelled(t, place) = <<CurrencyRow(place), IssuerRow(place)>>
      BY <1>1, SpelledIs DEF StepFields, Is
    <3>2. /\ RowsOf(<<f>>) = <<AccountRow(place)>> /\ RowsOf(<<g>>) = <<IssuerRow(place)>>
          /\ RowsOf(<<h>>) = <<CurrencyRow(place)>>
          /\ RowsOf(<<h, g>>) = <<CurrencyRow(place), IssuerRow(place)>>
      BY AddedRows, RowsOfFew
    <3> HIDE DEF f, g, h, new, place
    <3> QED
      BY <1>5, <3>1, <3>2
  <2>3. new \in Seq({f, g, h})
    <3>1. new \in {<<f>>, <<g>>, <<h>>, <<h, g>>}
      BY <1>5 DEF StepFields
    <3> HIDE DEF f, g, h, new
    <3>2. /\ <<f>> \in Seq({f, g, h}) /\ <<g>> \in Seq({f, g, h}) /\ <<h>> \in Seq({f, g, h})
          /\ <<h, g>> \in Seq({f, g, h})
      OBVIOUS
    <3> QED
      BY <3>1, <3>2
  <2> HIDE DEF new
  <2>4. context'.fields = context.fields \o new
    BY <1>2, <2>1 DEF Contexts
  <2>5. Moves(context.current_array, context.array_index1, context.array_index2 + 1)
    BY <1>2, <2>1 DEF Contexts, Moves
  <2>6. Renumbers(t)
    BY <1>1, <1>5, <2>5 DEF Renumbers, Is, Begins
  <2>7. context.fields \in Seq(ParsedFields)
    BY <1>2 DEF Contexts
  <2> HIDE DEF f, g, h
  <2>8. context.fields \in Seq(ParsedFields \cup {f, g, h}) /\ new \in Seq(ParsedFields \cup {f, g, h})
    BY <2>3, <2>7
  <2>9. RowsOf(context.fields \o new) = RowsOf(context.fields) \o RowsOf(new)
    BY <2>8, RowsOfConcat
  <2> QED
    BY <1>1, <2>2, <2>4, <2>6, <2>9 DEF Writes, Readables
<1> QED
  BY <1>2, <1>3, <1>4, <1>5

LEMMA ReadsWrite ==
    ASSUME TypeOK, NEW t \in Token, Reads(t), verdict' = "parsing"
    PROVE  Writes(t)
<1>1. Take(t) /\ ~(NoRoom(t) \/ CutShort(t) \/ Unsupported(t))
  BY DEF Reads, NoRoom, CutShort, Unsupported, ReadScalar, ReadTransactionType, ReadAccount,
         ReadAmount, ReadIssue, ReadVector256, ReadArray, ReadObject, ReadPathSet,
         ReadPathStep, Begin, Fail
<1>2. ~Malformed(t)
  BY <1>1, OnlyGoodTokensPass DEF Reads
<1> QED
  BY <1>1, <1>2, ReadScalarWrites, ReadTransactionTypeWrites, PutsWrites, ReadVector256Writes,
     MovesWrite, ReadPathStepWrites DEF Reads

-----------------------------------------------------------------------------
(* The places of a stream that goes on.                                    *)

IsLatest(x, S) == x \in S /\ \A j \in S : j <= x

After(x, S) == Cardinality({j \in S : x < j})

LEMMA LatestIsMax ==
    ASSUME NEW S \in SUBSET Nat, NEW x, IsLatest(x, S)
    PROVE  Max(S) = x
<1>1. x \in S /\ \A y \in S : x >= y
  BY DEF IsLatest
<1>2. \A z \in S : (\A y \in S : z >= y) => z = x
  BY <1>1
<1> QED
  BY <1>1, <1>2 DEF Max

\* Numbers are counted on as the stream goes on.
LEMMA AfterMore ==
    ASSUME NEW n \in Nat, NEW S \in SUBSET (1..n), NEW m \in Nat, m = n + 1, NEW x \in 1..n
    PROVE  After(x, S \cup {m}) = After(x, S) + 1
<1> DEFINE T == {j \in S : x < j}
<1>1. {j \in S \cup {m} : x < j} = T \cup {m} /\ m \notin T
  OBVIOUS
<1>2. T \in SUBSET (1..n) /\ IsFiniteSet(1..n)
  <2>1. T \in SUBSET (1..n)
    OBVIOUS
  <2>2. IsFiniteSet(1..n)
    BY FS_Interval
  <2> QED
    BY <2>1, <2>2
<1> HIDE DEF T
<1>3. IsFiniteSet(T)
  BY <1>2, FS_Subset
<1>4. Cardinality(T \cup {m}) = Cardinality(T) + 1
  BY <1>1, <1>3, FS_AddElement
<1> QED
  BY <1>1, <1>4 DEF After, T

LEMMA AfterLast ==
    ASSUME NEW n \in Nat, NEW S \in SUBSET (1..n), NEW m \in Nat, m = n + 1
    PROVE  After(m, S \cup {m}) = 0 /\ After(m, S) = 0
<1>1. \A j \in S \cup {m} : ~(m < j)
  OBVIOUS
<1>2. {j \in S \cup {m} : m < j} = {} /\ {j \in S : m < j} = {}
  BY <1>1
<1> QED
  BY <1>2, FS_EmptySet DEF After

LEMMA AppendIs ==
    ASSUME NEW S, NEW s \in Seq(S), NEW e \in S, NEW c \in Seq(S), Len(c) = Len(s) + 1,
           \A j \in 1..Len(s) : c[j] = s[j], c[Len(s) + 1] = e
    PROVE  Append(s, e) = c
<1>1. /\ Append(s, e) \in Seq(S) /\ Len(Append(s, e)) = Len(s) + 1
      /\ \A j \in 1..Len(s) : Append(s, e)[j] = s[j]
      /\ Append(s, e)[Len(s) + 1] = e
  OBVIOUS
<1>2. Len(s) \in Nat /\ \A j \in 1..Len(s) + 1 : j \in 1..Len(s) \/ j = Len(s) + 1
  OBVIOUS
<1>3. \A j \in 1..Len(s) + 1 : Append(s, e)[j] = c[j]
  BY <1>1, <1>2
<1> QED
  BY <1>1, <1>3

\* How flat brackets go on.
LEMMA ShapeAfter ==
    ASSUME NEW b \in Shapes, NEW t \in Token, Inside(b, t) \in Shapes
    PROVE  /\ t.data_type \notin {"ARRAY", "OBJECT"} => Inside(b, t) = b
           /\ Begins(t, "ARRAY") => b = << >> /\ Inside(b, t) = <<"ARRAY">>
           /\ Begins(t, "OBJECT") =>
                  \/ b = << >> /\ Inside(b, t) = <<"OBJECT">>
                  \/ b = <<"ARRAY">> /\ Inside(b, t) = <<"ARRAY", "OBJECT">>
           /\ Is(t, "ARRAY", "END") => b = <<"ARRAY">> /\ Inside(b, t) = << >>
           /\ Is(t, "OBJECT", "END") =>
                  \/ b = <<"OBJECT">> /\ Inside(b, t) = << >>
                  \/ b = <<"ARRAY", "OBJECT">> /\ Inside(b, t) = <<"ARRAY">>
<1>1. ASSUME NEW e \in Kinds, NEW f \in Kinds, NEW g \in Kinds
      PROVE  /\ Append(<< >>, e) = <<e>> /\ Append(<<f>>, e) = <<f, e>>
             /\ Append(<<f, g>>, e) = <<f, g, e>>
  <2>1. Append(<< >>, e) = <<e>>
    OBVIOUS
  <2>2. Append(<<f>>, e) = <<f, e>>
    <3> DEFINE a == <<f>>
               c == <<f, e>>
    <3>1. a \in Seq(Kinds) /\ Len(a) = 1 /\ a[1] = f
      OBVIOUS
    <3>2. c \in Seq(Kinds) /\ Len(c) = 2 /\ c[1] = f /\ c[2] = e
      OBVIOUS
    <3> HIDE DEF a, c
    <3>3. /\ Len(c) = Len(a) + 1 /\ c[Len(a) + 1] = e
          /\ \A j \in 1..Len(a) : c[j] = a[j]
      BY <3>1, <3>2
    <3>4. Append(a, e) = c
      BY <3>1, <3>2, <3>3, AppendIs
    <3> QED
      BY <3>4 DEF a, c
  <2>3. Append(<<f, g>>, e) = <<f, g, e>>
    <3> DEFINE a == <<f, g>>
               c == <<f, g, e>>
    <3>1. a \in Seq(Kinds) /\ Len(a) = 2 /\ a[1] = f /\ a[2] = g
      OBVIOUS
    <3>2. c \in Seq(Kinds) /\ Len(c) = 3 /\ c[1] = f /\ c[2] = g /\ c[3] = e
      OBVIOUS
    <3> HIDE DEF a, c
    <3>3. /\ Len(c) = Len(a) + 1 /\ c[Len(a) + 1] = e
          /\ \A j \in 1..Len(a) : c[j] = a[j]
      BY <3>1, <3>2
    <3>4. Append(a, e) = c
      BY <3>1, <3>2, <3>3, AppendIs
    <3> QED
      BY <3>4 DEF a, c
  <2> QED
    BY <2>1, <2>2, <2>3
<1>2. /\ Last(<<"ARRAY">>) = "ARRAY" /\ Front(<<"ARRAY">>) = << >>
      /\ Last(<<"OBJECT">>) = "OBJECT" /\ Front(<<"OBJECT">>) = << >>
      /\ Last(<<"ARRAY", "OBJECT">>) = "OBJECT" /\ Front(<<"ARRAY", "OBJECT">>) = <<"ARRAY">>
  <2>1. ASSUME NEW e \in Kinds PROVE Last(<<e>>) = e /\ Front(<<e>>) = << >>
    <3>1. <<e>> \in Seq(Kinds) /\ <<e>> # << >> /\ Len(<<e>>) = 1
      OBVIOUS
    <3>2. Front(<<e>>) \in Seq(Kinds) /\ Len(Front(<<e>>)) = 0
      <4> DEFINE b1 == <<e>>
      <4>1. b1 \in Seq(Kinds) /\ b1 # << >> /\ Len(b1) = 1
        BY <3>1
      <4> HIDE DEF b1
      <4>2. Front(b1) \in Seq(Kinds) /\ Len(Front(b1)) = 0
        BY <4>1, FrontAndLast
      <4> QED
        BY <4>2 DEF b1
    <3> QED
      BY <3>1, <3>2 DEF Last
  <2>2. ASSUME NEW e \in Kinds, NEW f \in Kinds
        PROVE  Last(<<e, f>>) = f /\ Front(<<e, f>>) = <<e>>
    <3>1. <<e, f>> \in Seq(Kinds) /\ <<e, f>> # << >> /\ Len(<<e, f>>) = 2
      OBVIOUS
    <3>2. Front(<<e, f>>) \in Seq(Kinds) /\ Len(Front(<<e, f>>)) = 1 /\ Front(<<e, f>>)[1] = e
      <4> DEFINE b2 == <<e, f>>
      <4>1. b2 \in Seq(Kinds) /\ b2 # << >> /\ Len(b2) = 2 /\ b2[1] = e
        BY <3>1
      <4> HIDE DEF b2
      <4>2. /\ Front(b2) \in Seq(Kinds) /\ Len(Front(b2)) = Len(b2) - 1
            /\ \A j \in 1..Len(b2) - 1 : Front(b2)[j] = b2[j]
        BY <4>1, FrontAndLast
      <4>3. Len(b2) - 1 = 1 /\ 1 \in 1..1
        BY <4>1
      <4>4. Front(b2)[1] = b2[1]
        BY <4>2, <4>3
      <4> QED
        BY <4>1, <4>2, <4>3, <4>4 DEF b2
    <3> QED
      BY <3>1, <3>2 DEF Last
  <2>3. "ARRAY" \in Kinds /\ "OBJECT" \in Kinds
    BY DEF Kinds
  <2> QED
    BY <2>1, <2>2, <2>3
<1>0. "ARRAY" \in Kinds /\ "OBJECT" \in Kinds /\ "broken" \in Kinds
  BY DEF Kinds
<1>00. \A e, f \in {"ARRAY", "OBJECT"} :
          /\ <<e>> \in Shapes
          /\ <<e, f>> \in Shapes => e = "ARRAY" /\ f = "OBJECT"
          /\ <<"ARRAY", "OBJECT", e>> \notin Shapes
  BY DEF Shapes
<1>3. CASE t.data_type \notin {"ARRAY", "OBJECT"}
  BY <1>3 DEF Inside, Begins, Is
<1>4. CASE t.data_type \in {"ARRAY", "OBJECT"} /\ t.id # "END"
  <2>1. Inside(b, t) = Append(b, t.data_type)
    BY <1>4 DEF Inside
  <2>2. CASE b = << >>
    BY <1>0, <1>1, <1>4, <2>1, <2>2 DEF Shapes, Begins, Is
  <2>3. ASSUME NEW f \in {"ARRAY", "OBJECT"}, b = <<f>>
        PROVE  b = <<"ARRAY">> /\ t.data_type = "OBJECT" /\ Inside(b, t) = <<"ARRAY", "OBJECT">>
    <3>1. t.data_type \in Kinds /\ f \in Kinds
      BY <1>0, <1>4
    <3>2. Inside(b, t) = <<f, t.data_type>>
      BY <1>1, <2>1, <2>3, <3>1
    <3>3. f = "ARRAY" /\ t.data_type = "OBJECT"
      BY <1>00, <1>4, <3>2
    <3> QED
      BY <2>3, <3>2, <3>3
  <2>4. CASE b = <<"ARRAY", "OBJECT">>
    <3>1. t.data_type \in Kinds
      BY <1>0, <1>4
    <3>2. Inside(b, t) = <<"ARRAY", "OBJECT", t.data_type>>
      BY <1>0, <1>1, <2>1, <2>4, <3>1
    <3>3. t.data_type \in {"ARRAY", "OBJECT"}
      BY <1>4
    <3>4. <<"ARRAY", "OBJECT", t.data_type>> \notin Shapes
      BY <1>00, <3>3, Zenon
    <3> QED
      BY <3>2, <3>4, Zenon
  <2>5. CASE b = <<"ARRAY">> \/ b = <<"OBJECT">>
    BY <1>4, <2>3, <2>5 DEF Begins, Is
  <2> QED
    BY <2>2, <2>4, <2>5 DEF Shapes
<1>5. CASE t.data_type \in {"ARRAY", "OBJECT"} /\ t.id = "END"
  <2>1. Inside(b, t) = IF b # << >> /\ Last(b) = t.data_type THEN Front(b)
                       ELSE Append(b, "broken")
    BY <1>5 DEF Inside
  <2>2. CASE b = << >>
    <3>1. Inside(b, t) = <<"broken">>
      BY <1>0, <1>1, <2>1, <2>2
    <3> QED
      BY <3>1 DEF Shapes
  <2>3. CASE b = <<"ARRAY">>
    <3>1. t.data_type = "OBJECT" => Inside(b, t) = <<"ARRAY", "broken">>
      BY <1>0, <1>1, <1>2, <2>1, <2>3
    <3>2. t.data_type = "ARRAY"
      BY <1>5, <3>1 DEF Shapes
    <3> QED
      BY <1>2, <1>5, <2>1, <2>3, <3>2 DEF Begins, Is
  <2>4. CASE b = <<"OBJECT">>
    <3>1. t.data_type = "ARRAY" => Inside(b, t) = <<"OBJECT", "broken">>
      BY <1>0, <1>1, <1>2, <2>1, <2>4
    <3>2. t.data_type = "OBJECT"
      BY <1>5, <3>1 DEF Shapes
    <3> QED
      BY <1>2, <1>5, <2>1, <2>4, <3>2 DEF Begins, Is
  <2>5. CASE b = <<"ARRAY", "OBJECT">>
    <3>1. t.data_type = "ARRAY" => Inside(b, t) = <<"ARRAY", "OBJECT", "broken">>
      BY <1>0, <1>1, <1>2, <2>1, <2>5
    <3>2. t.data_type = "OBJECT"
      BY <1>5, <3>1 DEF Shapes
    <3> QED
      BY <1>2, <1>5, <2>1, <2>5, <3>2 DEF Begins, Is
  <2> QED
    BY <2>2, <2>3, <2>4, <2>5 DEF Shapes
<1> QED
  BY <1>3, <1>4, <1>5

\* A flat stream was flat before its last token.
LEMMA TakeFlat ==
    ASSUME TypeOK, NEW t \in Token, Take(t), Plain'
    PROVE  /\ Plain
           /\ Now \in Shapes /\ Now' \in Shapes /\ Now' = Inside(Now, t)
           /\ t.data_type = "PATHSET" => Now \in {<< >>, <<"OBJECT">>}
           /\ \A k \in Position : Brackets'[k - 1] = Brackets[k - 1]
           /\ \A k \in Nat : k = Len(input) + 1 => Brackets'[k - 1] = Now
<1> DEFINE n == Len(input)
<1>0. n \in Nat
  BY DEF TypeOK
<1>1. /\ input \in Seq(Token) /\ input' = Append(input, t) /\ Len(input') = n + 1
      /\ DOMAIN input = 1..n /\ DOMAIN input' = 1..n + 1
      /\ input'[n + 1] = t /\ \A k \in 1..n : input'[k] = input[k]
  BY DEF TypeOK, Take
<1>2. \A k \in 0..n : Brackets'[k] = Brackets[k]
  BY <1>1, BracketsOfInput, BracketsGrow
<1>3. Sound' /\ Sound /\ Now' = Inside(Now, t)
      /\ (Now # << >> /\ Last(Now) = "ARRAY" => Begins(t, "OBJECT") \/ Is(t, "ARRAY", "END"))
  BY TakeSound DEF Plain
<1>4. \A k \in 0..n + 1 : Brackets'[k] \in Shapes
  BY <1>1 DEF Plain
<1>5. Now = Brackets[n] /\ Now' = Brackets'[n + 1]
  BY <1>1 DEF Now
<1> HIDE DEF n
<1>6. /\ n \in 0..n /\ n + 1 \in 0..n + 1 /\ \A k \in 0..n : k \in 0..n + 1
      /\ \A k \in 1..n : k - 1 \in 0..n
      /\ \A k \in Nat : k = n + 1 => k - 1 = n /\ k \in 1..n + 1
  BY <1>0
<1>7. Now \in Shapes /\ Now' \in Shapes
  BY <1>2, <1>4, <1>5, <1>6
<1>8. \A k \in 1..n : Brackets'[k - 1] = Brackets[k - 1]
  BY <1>2, <1>6
<1>9. \A k \in Nat : k = n + 1 => Brackets'[k - 1] = Now
  BY <1>2, <1>5, <1>6
<1>10. \A k \in PathSets' : Brackets'[k - 1] # <<"ARRAY", "OBJECT">>
  BY DEF Plain
<1>11. PathSets' = {k \in 1..n + 1 : input'[k].data_type = "PATHSET"}
  BY <1>1 DEF PathSets, Position
<1>12. Plain
  <2>1. \A k \in 0..n : Brackets[k] \in Shapes
    BY <1>2, <1>4, <1>6
  <2>2. ASSUME NEW k \in PathSets PROVE Brackets[k - 1] # <<"ARRAY", "OBJECT">>
    <3>1. k \in 1..n /\ k \in 1..n + 1 /\ input[k].data_type = "PATHSET"
      BY <1>0, <1>1 DEF PathSets, Position
    <3>2. k \in PathSets'
      BY <1>1, <1>11, <3>1
    <3> QED
      BY <1>8, <1>10, <3>1, <3>2
  <2> QED
    BY <1>3, <2>1, <2>2 DEF Plain, n
<1>13. ASSUME t.data_type = "PATHSET" PROVE Now \in {<< >>, <<"OBJECT">>}
  <2>1. PICK k \in Nat : k = n + 1
    BY <1>0
  <2>2. k \in PathSets'
    BY <1>1, <1>6, <1>11, <1>13, <2>1
  <2>3. Now # <<"ARRAY", "OBJECT">>
    BY <1>9, <1>10, <2>1, <2>2
  <2>4. Now # <<"ARRAY">>
    <3>1. Last(<<"ARRAY">>) = "ARRAY"
      BY DEF Last
    <3> QED
      BY <1>3, <1>13, <3>1 DEF Begins, Is
  <2> QED
    BY <1>7, <2>3, <2>4 DEF Shapes
<1> QED
  BY <1>1, <1>3, <1>7, <1>8, <1>9, <1>12, <1>13 DEF Position, n

\* The kinds of tokens whose positions number the places.
LEMMA TakeKinds ==
    ASSUME TypeOK, NEW t \in Token, Take(t), NEW m \in Nat, m = Len(input) + 1
    PROVE  /\ Arrays' = IF Begins(t, "ARRAY") THEN Arrays \cup {m} ELSE Arrays
           /\ Objects' = IF Begins(t, "OBJECT") THEN Objects \cup {m} ELSE Objects
           /\ PathSets' = IF t.data_type = "PATHSET" THEN PathSets \cup {m} ELSE PathSets
           /\ NextPaths' = IF Is(t, "STEP", "NEXT") THEN NextPaths \cup {m} ELSE NextPaths
<1>1. /\ Position' = Position \cup {m} /\ m \notin Position /\ input'[m] = t
      /\ \A k \in Position : input'[k] = input[k]
  BY TakePositions
<1>2. /\ Arrays' = {k \in Position' : Begins(input'[k], "ARRAY")}
      /\ Objects' = {k \in Position' : Begins(input'[k], "OBJECT")}
      /\ PathSets' = {k \in Position' : input'[k].data_type = "PATHSET"}
      /\ NextPaths' = {k \in Position' : input'[k].data_type = "STEP" /\ input'[k].id = "NEXT"}
  BY DEF Arrays, Objects, PathSets, NextPaths, Begins
<1>3. Arrays' = IF Begins(t, "ARRAY") THEN Arrays \cup {m} ELSE Arrays
  BY <1>1, <1>2 DEF Arrays, Begins
<1>4. Objects' = IF Begins(t, "OBJECT") THEN Objects \cup {m} ELSE Objects
  BY <1>1, <1>2 DEF Objects, Begins
<1>5. PathSets' = IF t.data_type = "PATHSET" THEN PathSets \cup {m} ELSE PathSets
  BY <1>1, <1>2 DEF PathSets
<1>6. NextPaths' = IF Is(t, "STEP", "NEXT") THEN NextPaths \cup {m} ELSE NextPaths
  BY <1>1, <1>2 DEF NextPaths, Is
<1> QED
  BY <1>3, <1>4, <1>5, <1>6

\* All of them are positions.
LEMMA KindsStand ==
    /\ Arrays \in SUBSET Position /\ Objects \in SUBSET Position
    /\ PathSets \in SUBSET Position /\ NextPaths \in SUBSET Position
BY DEF Arrays, Objects, PathSets, NextPaths

InArray == Now \in {<<"ARRAY">>, <<"ARRAY", "OBJECT">>}

\* The current array is the one that was opened last, and its objects have been counted.
ArrayNumbered ==
    \E array \in Arrays :
        /\ IsLatest(array, Arrays)
        /\ context.current_array = input[array].id
        /\ context.array_index1 = After(array, Objects)
        /\ context.array_index2 = 0

\* The paths of the set that was opened last have been counted, and the steps of the path.
PathsNumbered ==
    \E set \in PathSets, path \in PathSets \cup NextPaths :
        /\ IsLatest(set, PathSets) /\ IsLatest(path, PathSets \cup NextPaths)
        /\ context.array_index1 = 1 + After(set, NextPaths)
        /\ context.array_index2 = Len(input) + 1 - path

ArrayBehind ==
    \A k \in Position :
        Brackets[k - 1] = <<"ARRAY", "OBJECT">> => LastBefore(k, Arrays) \in Position

\* The indices of the parser are the numbers a review gives to what comes next.
Numbered ==
    verdict = "parsing" /\ Plain =>
        /\ InArray => ArrayNumbered
        /\ ~InArray => context.current_array \in {"NONE", "PATHSET"}
        /\ context.current_array = "PATHSET" => ~InArray /\ PathsNumbered
        /\ ArrayBehind

\* What a token at the end stands behind.
LEMMA BeforeTheEnd ==
    ASSUME NEW n \in Nat, NEW S \in SUBSET (1..n), NEW m \in Nat, m = n + 1
    PROVE  LastBefore(m, S) = Max(S) /\ LastBefore(m, S \cup {m}) = Max(S)
<1>0. (\A j \in S : j < m) /\ ~(m < m)
  OBVIOUS
<1>1. {j \in S : j < m} = S /\ {j \in S \cup {m} : j < m} = S
  BY <1>0
<1> QED
  BY <1>1 DEF LastBefore

LEMMA CountedAtTheEnd ==
    ASSUME NEW n \in Nat, NEW S \in SUBSET (1..n), NEW m \in Nat, m = n + 1, NEW x
    PROVE  Between(x, m, S) = After(x, S) /\ Between(x, m, S \cup {m}) = After(x, S)
<1>0. (\A j \in S : j < m) /\ ~(m < m)
  OBVIOUS
<1>1. /\ {j \in S : x < j /\ j < m} = {j \in S : x < j}
      /\ {j \in S \cup {m} : x < j /\ j < m} = {j \in S : x < j}
  BY <1>0
<1> QED
  BY <1>1 DEF Between, After

\* Nothing changes for a token further in front.
LEMMA BeforeAnother ==
    ASSUME NEW n \in Nat, NEW S \in SUBSET (1..n), NEW m \in Nat, m = n + 1, NEW k \in 1..n
    PROVE  LastBefore(k, S \cup {m}) = LastBefore(k, S)
<1>1. {j \in S \cup {m} : j < k} = {j \in S : j < k}
  OBVIOUS
<1> QED
  BY <1>1 DEF LastBefore

LEMMA CountedBefore ==
    ASSUME NEW n \in Nat, NEW S \in SUBSET (1..n), NEW m \in Nat, m = n + 1, NEW k \in 1..n,
           NEW x
    PROVE  Between(x, k, S \cup {m}) = Between(x, k, S)
<1>1. {j \in S \cup {m} : x < j /\ j < k} = {j \in S : x < j /\ j < k}
  OBVIOUS
<1> QED
  BY <1>1 DEF Between

\* The numbers of an array stand as long as nothing is counted.
LEMMA ArrayStands ==
    ASSUME ArrayNumbered, Arrays' = Arrays, Objects' = Objects,
           Moves(context.current_array, context.array_index1, context.array_index2),
           \A k \in Position : input'[k] = input[k]
    PROVE  ArrayNumbered'
<1>1. PICK array \in Arrays :
          /\ IsLatest(array, Arrays)
          /\ context.current_array = input[array].id
          /\ context.array_index1 = After(array, Objects)
          /\ context.array_index2 = 0
  BY DEF ArrayNumbered
<1>2. array \in Position
  BY KindsStand
<1>3. /\ array \in Arrays' /\ IsLatest(array, Arrays')
      /\ context'.current_array = input'[array].id
      /\ context'.array_index1 = After(array, Objects')
      /\ context'.array_index2 = 0
  BY <1>1, <1>2 DEF Moves
<1> QED
  BY <1>3 DEF ArrayNumbered, IsLatest, After

LEMMA ArrayBehindStep ==
    ASSUME TypeOK, Numbered, NEW t \in Token, Take(t), Plain'
    PROVE  ArrayBehind'
<1>1. /\ verdict = "parsing" /\ Plain
      /\ \A k \in Position : Brackets'[k - 1] = Brackets[k - 1]
      /\ \A k \in Nat : k = Len(input) + 1 => Brackets'[k - 1] = Now
  BY TakeFlat DEF Take
<1>2. Len(input) \in Nat /\ Position = 1..Len(input) /\ Position' = 1..Len(input) + 1
  BY TakePositions
<1>3. (InArray => ArrayNumbered) /\ ArrayBehind
  BY <1>1 DEF Numbered
<1>4. PICK n \in Nat : n = Len(input)
  BY <1>2
<1>5. PICK m \in Nat : m = n + 1
  BY <1>4
<1>6. Arrays' = Arrays \/ Arrays' = Arrays \cup {m}
  BY <1>4, <1>5, TakeKinds
<1>7. Arrays \in SUBSET (1..n)
  BY <1>2, <1>4, KindsStand
<1> SUFFICES ASSUME NEW k \in Position', Brackets'[k - 1] = <<"ARRAY", "OBJECT">>
             PROVE  LastBefore(k, Arrays') \in Position'
  BY DEF ArrayBehind, LastBefore
<1>8. CASE k \in 1..n
  <2>1. LastBefore(k, Arrays) \in Position
    BY <1>1, <1>2, <1>3, <1>4, <1>8 DEF ArrayBehind
  <2>2. LastBefore(k, Arrays \cup {m}) = LastBefore(k, Arrays)
    BY <1>4, <1>5, <1>7, <1>8, BeforeAnother
  <2>3. LastBefore(k, Arrays') = LastBefore(k, Arrays)
    BY <1>6, <2>2
  <2> QED
    BY <1>2, <2>1, <2>3
<1>9. CASE k = m
  <2>1. Now = <<"ARRAY", "OBJECT">>
    BY <1>1, <1>4, <1>5, <1>9
  <2>2. PICK array \in Arrays : IsLatest(array, Arrays)
    BY <1>3, <2>1 DEF InArray, ArrayNumbered
  <2>3. Arrays \in SUBSET Nat
    BY <1>7
  <2>4. Max(Arrays) = array
    BY <2>2, <2>3, LatestIsMax
  <2>5. LastBefore(m, Arrays) = Max(Arrays) /\ LastBefore(m, Arrays \cup {m}) = Max(Arrays)
    BY <1>4, <1>5, <1>7, BeforeTheEnd
  <2>6. array \in Position'
    BY <1>2, <1>4, <1>7, <2>2
  <2>7. LastBefore(k, Arrays') = array
    BY <1>6, <1>9, <2>4, <2>5
  <2> QED
    BY <2>6, <2>7
<1> QED
  BY <1>2, <1>4, <1>5, <1>8, <1>9

LEMMA NumberedStep ==
    ASSUME TypeOK, Numbered, NEW t \in Token, Writes(t), verdict' = "parsing"
    PROVE  Numbered'
<1> SUFFICES ASSUME Plain'
             PROVE  /\ InArray' => ArrayNumbered'
                    /\ ~InArray' => context'.current_array \in {"NONE", "PATHSET"}
                    /\ context'.current_array = "PATHSET" => ~InArray' /\ PathsNumbered'
  <2>1. Take(t)
    BY DEF Writes
  <2>2. Plain' => ArrayBehind'
    BY <2>1, ArrayBehindStep
  <2> QED
    BY <2>2 DEF Numbered
<1>0. Take(t) /\ Renumbers(t) /\ t.data_type \in Readables
  BY DEF Writes
<1>1. /\ verdict = "parsing" /\ Plain
      /\ Now \in Shapes /\ Now' \in Shapes /\ Now' = Inside(Now, t)
      /\ t.data_type = "PATHSET" => Now \in {<< >>, <<"OBJECT">>}
  BY <1>0, TakeFlat DEF Take
<1>2. /\ InArray => ArrayNumbered
      /\ ~InArray => context.current_array \in {"NONE", "PATHSET"}
      /\ context.current_array = "PATHSET" => ~InArray /\ PathsNumbered
      /\ t.data_type = "STEP" <=> context.current_array = "PATHSET"
  BY <1>0, <1>1 DEF Numbered, Take
<1>3. /\ Len(input) \in Nat /\ Position = 1..Len(input)
      /\ Len(input') = Len(input) + 1
      /\ \A k \in Nat : k = Len(input) + 1 => input'[k] = t
      /\ \A k \in Position : input'[k] = input[k]
  BY <1>0, TakePositions DEF Take, TypeOK
<1>4. PICK n \in Nat : n = Len(input)
  BY <1>3
<1>5. PICK m \in Nat : m = n + 1
  BY <1>4
<1>6. /\ Arrays' = IF Begins(t, "ARRAY") THEN Arrays \cup {m} ELSE Arrays
      /\ Objects' = IF Begins(t, "OBJECT") THEN Objects \cup {m} ELSE Objects
      /\ PathSets' = IF t.data_type = "PATHSET" THEN PathSets \cup {m} ELSE PathSets
      /\ NextPaths' = IF Is(t, "STEP", "NEXT") THEN NextPaths \cup {m} ELSE NextPaths
  BY <1>0, <1>4, <1>5, TakeKinds
<1>7. /\ Arrays \in SUBSET (1..n) /\ Objects \in SUBSET (1..n)
      /\ PathSets \in SUBSET (1..n) /\ NextPaths \in SUBSET (1..n)
  BY <1>3, <1>4, KindsStand
<1>8. /\ t.data_type \notin {"ARRAY", "OBJECT"} => Now' = Now
      /\ Begins(t, "ARRAY") => Now' = <<"ARRAY">>
      /\ Begins(t, "OBJECT") => \/ Now = << >> /\ Now' = <<"OBJECT">>
                                \/ Now = <<"ARRAY">> /\ Now' = <<"ARRAY", "OBJECT">>
      /\ Is(t, "ARRAY", "END") => Now' = << >>
      /\ Is(t, "OBJECT", "END") => \/ Now = <<"OBJECT">> /\ Now' = << >>
                                   \/ Now = <<"ARRAY", "OBJECT">> /\ Now' = <<"ARRAY">>
  BY <1>1, ShapeAfter
<1>9. /\ InArray <=> Now \in {<<"ARRAY">>, <<"ARRAY", "OBJECT">>}
      /\ InArray' <=> Now' \in {<<"ARRAY">>, <<"ARRAY", "OBJECT">>}
  BY DEF InArray
<1>10. CASE t.data_type \notin {"ARRAY", "OBJECT", "PATHSET", "STEP"}
  <2>1. Moves(context.current_array, context.array_index1, context.array_index2)
    BY <1>0, <1>10 DEF Renumbers
  <2>2. Arrays' = Arrays /\ Objects' = Objects
    BY <1>6, <1>10 DEF Begins
  <2>3. InArray => ArrayNumbered'
    BY <1>2, <1>3, <2>1, <2>2, ArrayStands
  <2>4. context'.current_array = context.current_array /\ context.current_array # "PATHSET"
    BY <1>2, <1>10, <2>1 DEF Moves
  <2> QED
    BY <1>2, <1>8, <1>9, <1>10, <2>3, <2>4
<1>11. CASE Begins(t, "ARRAY")
  <2>1. Moves(t.id, 0, 0) /\ t.id # "PATHSET"
    BY <1>0, <1>11, TokenAssumption DEF Renumbers, Begins
  <2>2. Arrays' = Arrays \cup {m} /\ Objects' = Objects
    BY <1>6, <1>11 DEF Begins
  <2>3. ArrayNumbered'
    <3>1. m \in Arrays' /\ IsLatest(m, Arrays')
      BY <1>5, <1>7, <2>2 DEF IsLatest
    <3>2. After(m, Objects') = 0
      BY <1>4, <1>5, <1>7, <2>2, AfterLast
    <3>3. /\ context'.current_array = input'[m].id
          /\ context'.array_index1 = After(m, Objects')
          /\ context'.array_index2 = 0
      BY <1>3, <1>4, <1>5, <2>1, <3>2 DEF Moves
    <3> QED
      BY <3>1, <3>3 DEF ArrayNumbered, IsLatest, After
  <2>4. context'.current_array # "PATHSET"
    BY <2>1 DEF Moves
  <2> QED
    BY <1>8, <1>9, <1>11, <2>3, <2>4
<1>12. CASE Is(t, "ARRAY", "END")
  <2>1. context'.current_array = "NONE"
    BY <1>0, <1>12 DEF Renumbers, Moves
  <2> QED
    BY <1>8, <1>9, <1>12, <2>1
<1>13. CASE Is(t, "OBJECT", "END")
  <2>1. Moves(context.current_array, context.array_index1, context.array_index2)
    BY <1>0, <1>13 DEF Renumbers
  <2>2. Arrays' = Arrays /\ Objects' = Objects
    BY <1>6, <1>13 DEF Begins, Is
  <2>3. InArray => ArrayNumbered'
    BY <1>2, <1>3, <2>1, <2>2, ArrayStands
  <2>4. context'.current_array = context.current_array /\ context.current_array # "PATHSET"
    BY <1>2, <1>13, <2>1 DEF Moves, Is
  <2>5. InArray' <=> InArray
    BY <1>8, <1>9, <1>13
  <2> QED
    BY <1>2, <2>3, <2>4, <2>5
<1>14. CASE Begins(t, "OBJECT")
  <2>1. Moves(context.current_array, context.array_index1 + 1, context.array_index2)
    BY <1>0, <1>14 DEF Renumbers
  <2>2. context'.current_array = context.current_array /\ context.current_array # "PATHSET"
    BY <1>2, <1>14, <2>1 DEF Moves, Begins
  <2>3. CASE Now = << >> /\ Now' = <<"OBJECT">>
    BY <1>2, <1>9, <2>2, <2>3
  <2>4. CASE Now = <<"ARRAY">> /\ Now' = <<"ARRAY", "OBJECT">>
    <3>1. PICK array \in Arrays :
              /\ IsLatest(array, Arrays)
              /\ context.current_array = input[array].id
              /\ context.array_index1 = After(array, Objects)
              /\ context.array_index2 = 0
      BY <1>2, <1>9, <2>4 DEF ArrayNumbered
    <3>2. Arrays' = Arrays /\ Objects' = Objects \cup {m} /\ array \in 1..n
      BY <1>6, <1>7, <1>14, <3>1 DEF Begins
    <3>3. After(array, Objects') = After(array, Objects) + 1
      <4>1. After(array, Objects \cup {m}) = After(array, Objects) + 1
        BY <1>4, <1>5, <1>7, <3>2, AfterMore
      <4> QED
        BY <3>2, <4>1
    <3>4. /\ array \in Arrays' /\ IsLatest(array, Arrays')
          /\ context'.current_array = input'[array].id
          /\ context'.array_index1 = After(array, Objects')
          /\ context'.array_index2 = 0
      BY <1>3, <1>4, <2>1, <3>1, <3>2, <3>3 DEF Moves
    <3>5. ArrayNumbered'
      BY <3>4 DEF ArrayNumbered, IsLatest, After
    <3> QED
      BY <1>9, <2>2, <2>4, <3>5
  <2> QED
    BY <1>8, <1>14, <2>3, <2>4
<1>15. CASE t.data_type = "PATHSET"
  <2>1. Moves("PATHSET", 1, 1)
    BY <1>0, <1>15 DEF Renumbers
  <2>2. PathSets' = PathSets \cup {m} /\ NextPaths' = NextPaths
    BY <1>6, <1>15 DEF Is
  <2>3. m \in PathSets' /\ IsLatest(m, PathSets') /\ IsLatest(m, PathSets' \cup NextPaths')
    BY <1>5, <1>7, <2>2 DEF IsLatest
  <2>4. After(m, NextPaths') = 0
    BY <1>4, <1>5, <1>7, <2>2, AfterLast
  <2>5. context'.array_index1 = 1 + After(m, NextPaths')
    BY <2>1, <2>4 DEF Moves
  <2>6. context'.array_index2 = Len(input') + 1 - m
    BY <1>3, <1>4, <1>5, <2>1 DEF Moves
  <2>7. PathsNumbered'
    BY <2>3, <2>5, <2>6 DEF PathsNumbered, IsLatest, After
  <2>8. ~InArray' /\ context'.current_array = "PATHSET"
    BY <1>1, <1>8, <1>9, <1>15, <2>1 DEF Moves
  <2> QED
    BY <2>7, <2>8
<1>16. CASE t.data_type = "STEP"
  <2>1. ~InArray' /\ context.current_array = "PATHSET"
    BY <1>2, <1>8, <1>9, <1>16
  <2>2. PICK set \in PathSets, path \in PathSets \cup NextPaths :
            /\ IsLatest(set, PathSets) /\ IsLatest(path, PathSets \cup NextPaths)
            /\ context.array_index1 = 1 + After(set, NextPaths)
            /\ context.array_index2 = Len(input) + 1 - path
    BY <1>2, <2>1 DEF PathsNumbered
  <2>3. PathSets' = PathSets /\ set \in 1..n /\ path \in 1..n
    BY <1>6, <1>7, <1>16, <2>2
  <2>4. CASE Is(t, "STEP", "NEXT")
    <3>1. /\ Moves("PATHSET", context.array_index1 + 1, 1) /\ NextPaths' = NextPaths \cup {m}
      BY <1>0, <1>6, <2>1, <2>4 DEF Renumbers
    <3>2. After(set, NextPaths') = After(set, NextPaths) + 1
      <4>1. After(set, NextPaths \cup {m}) = After(set, NextPaths) + 1
        BY <1>4, <1>5, <1>7, <2>3, AfterMore
      <4> QED
        BY <3>1, <4>1
    <3>3. /\ set \in PathSets' /\ IsLatest(set, PathSets')
          /\ m \in PathSets' \cup NextPaths' /\ IsLatest(m, PathSets' \cup NextPaths')
      BY <1>5, <1>7, <2>2, <2>3, <3>1 DEF IsLatest
    <3>4. context'.array_index2 = Len(input') + 1 - m
      BY <1>3, <1>4, <1>5, <3>1 DEF Moves
    <3>5. After(set, NextPaths) \in Nat
      <4>1. IsFiniteSet(1..n)
        BY FS_Interval
      <4>2. {j \in NextPaths : set < j} \in SUBSET (1..n)
        BY <1>7
      <4>3. IsFiniteSet({j \in NextPaths : set < j})
        BY <4>1, <4>2, FS_Subset
      <4> QED
        BY <4>3, FS_CardinalityType DEF After
    <3>6. context'.array_index1 = 1 + After(set, NextPaths')
      BY <2>2, <3>1, <3>2, <3>5 DEF Moves
    <3>7. PathsNumbered'
      BY <3>3, <3>4, <3>6 DEF PathsNumbered, IsLatest, After
    <3> QED
      BY <2>1, <3>1, <3>7 DEF Moves
  <2>5. CASE Is(t, "STEP", "END")
    BY <1>0, <2>1, <2>5 DEF Renumbers, Moves
  <2>6. CASE t.id \notin {"NEXT", "END"}
    <3>1. /\ Moves("PATHSET", context.array_index1, context.array_index2 + 1)
          /\ NextPaths' = NextPaths
      BY <1>0, <1>6, <1>16, <2>1, <2>6 DEF Renumbers, Is
    <3>2. /\ context'.array_index1 = 1 + After(set, NextPaths')
          /\ context'.array_index2 = Len(input') + 1 - path
          /\ set \in PathSets' /\ IsLatest(set, PathSets')
          /\ path \in PathSets' \cup NextPaths' /\ IsLatest(path, PathSets' \cup NextPaths')
      BY <1>3, <2>2, <2>3, <3>1 DEF Moves
    <3>3. PathsNumbered'
      BY <3>2 DEF PathsNumbered, IsLatest, After
    <3> QED
      BY <2>1, <3>1, <3>3 DEF Moves
  <2> QED
    BY <1>16, <2>4, <2>5, <2>6 DEF Is
<1> QED
  BY <1>10, <1>11, <1>12, <1>13, <1>14, <1>15, <1>16 DEF Begins, Is


-----------------------------------------------------------------------------
(* The places as the stream goes on.                                       *)

\* The place of a token does not change any more.
LEMMA PlaceKept ==
    ASSUME TypeOK, Numbered, NEW t \in Token, Take(t), Plain', NEW k \in Position
    PROVE  Place(k)' = Place(k)
<1>1. /\ verdict = "parsing" /\ Plain
      /\ \A j \in Position : Brackets'[j - 1] = Brackets[j - 1]
  BY TakeFlat DEF Take
<1>2. /\ Len(input) \in Nat /\ Position = 1..Len(input)
      /\ \A j \in Position : input'[j] = input[j]
  BY TakePositions
<1>3. PICK n \in Nat : n = Len(input)
  BY <1>2
<1>4. PICK m \in Nat : m = n + 1
  BY <1>3
<1>5. /\ Arrays' = Arrays \/ Arrays' = Arrays \cup {m}
      /\ Objects' = Objects \/ Objects' = Objects \cup {m}
      /\ PathSets' = PathSets \/ PathSets' = PathSets \cup {m}
      /\ NextPaths' = NextPaths \/ NextPaths' = NextPaths \cup {m}
  BY <1>3, <1>4, TakeKinds
<1>6. /\ Arrays \in SUBSET (1..n) /\ Objects \in SUBSET (1..n)
      /\ PathSets \in SUBSET (1..n) /\ NextPaths \in SUBSET (1..n) /\ k \in 1..n
  BY <1>2, <1>3, KindsStand
<1>7. ASSUME NEW S \in SUBSET (1..n), NEW R, R = S \/ R = S \cup {m}
      PROVE  LastBefore(k, R) = LastBefore(k, S) /\ \A x : Between(x, k, R) = Between(x, k, S)
  <2>1. LastBefore(k, S \cup {m}) = LastBefore(k, S)
    BY <1>3, <1>4, <1>6, BeforeAnother
  <2>2. \A x : Between(x, k, S \cup {m}) = Between(x, k, S)
    BY <1>3, <1>4, <1>6, CountedBefore
  <2> QED
    BY <1>7, <2>1, <2>2
<1>8. /\ LastBefore(k, Arrays') = LastBefore(k, Arrays)
      /\ LastBefore(k, PathSets') = LastBefore(k, PathSets)
      /\ \A x : Between(x, k, Objects') = Between(x, k, Objects)
      /\ \A x : Between(x, k, NextPaths') = Between(x, k, NextPaths)
  BY <1>5, <1>6, <1>7
<1>9. LastBefore(k, PathSets' \cup NextPaths') = LastBefore(k, PathSets \cup NextPaths)
  <2>1. PathSets \cup NextPaths \in SUBSET (1..n)
    BY <1>6
  <2>2. \/ PathSets' \cup NextPaths' = PathSets \cup NextPaths
        \/ PathSets' \cup NextPaths' = (PathSets \cup NextPaths) \cup {m}
    BY <1>5
  <2> QED
    BY <1>7, <2>1, <2>2
<1>10. input'[k] = input[k] /\ Brackets'[k - 1] = Brackets[k - 1]
  BY <1>1, <1>2
<1>11. Brackets[k - 1] = <<"ARRAY", "OBJECT">> =>
           input'[LastBefore(k, Arrays')] = input[LastBefore(k, Arrays)]
  <2>1. ArrayBehind
    BY <1>1 DEF Numbered
  <2> QED
    BY <1>2, <1>8, <2>1 DEF ArrayBehind
<1> DEFINE set == LastBefore(k, PathSets)
           path == LastBefore(k, PathSets \cup NextPaths)
           array == LastBefore(k, Arrays)
<1>12. Place(k) =
          IF input[k].data_type = "STEP"
          THEN [type |-> "PATHSET", index1 |-> 1 + Between(set, k, NextPaths),
                index2 |-> k - path]
          ELSE IF Brackets[k - 1] = <<"ARRAY", "OBJECT">> /\ input[array].id # "NONE"
          THEN [type |-> input[array].id, index1 |-> Between(array, k, Objects), index2 |-> 0]
          ELSE NoArray
  BY DEF Place
<1>13. Place(k)' =
          IF input'[k].data_type = "STEP"
          THEN [type |-> "PATHSET",
                index1 |-> 1 + Between(LastBefore(k, PathSets'), k, NextPaths'),
                index2 |-> k - LastBefore(k, PathSets' \cup NextPaths')]
          ELSE IF /\ Brackets'[k - 1] = <<"ARRAY", "OBJECT">>
                  /\ input'[LastBefore(k, Arrays')].id # "NONE"
          THEN [type |-> input'[LastBefore(k, Arrays')].id,
                index1 |-> Between(LastBefore(k, Arrays'), k, Objects'), index2 |-> 0]
          ELSE NoArray
  BY DEF Place, LastBefore, Between
<1>14. CASE input[k].data_type = "STEP"
  <2>1. Place(k)' = [type |-> "PATHSET", index1 |-> 1 + Between(set, k, NextPaths),
                     index2 |-> k - path]
    BY <1>8, <1>9, <1>10, <1>13, <1>14
  <2> QED
    BY <1>12, <1>14, <2>1
<1>15. CASE input[k].data_type # "STEP" /\ Brackets[k - 1] = <<"ARRAY", "OBJECT">>
  <2>1. input'[LastBefore(k, Arrays')] = input[array]
    BY <1>11, <1>15
  <2>2. Between(LastBefore(k, Arrays'), k, Objects') = Between(array, k, Objects)
    BY <1>8
  <2> HIDE DEF array
  <2>3. Place(k)' = IF input[array].id # "NONE"
                    THEN [type |-> input[array].id, index1 |-> Between(array, k, Objects),
                          index2 |-> 0]
                    ELSE NoArray
    BY <1>10, <1>13, <1>15, <2>1, <2>2
  <2> QED
    BY <1>12, <1>15, <2>3
<1>16. CASE input[k].data_type # "STEP" /\ Brackets[k - 1] # <<"ARRAY", "OBJECT">>
  BY <1>10, <1>12, <1>13, <1>16
<1> QED
  BY <1>14, <1>15, <1>16

\* A token is spelled out in the place that the indices give it.
LEMMA PlaceNext ==
    ASSUME TypeOK, Numbered, NEW t \in Token, Take(t), Plain',
           NEW m \in Nat, m = Len(input) + 1
    PROVE  Spelled(t, Place(m)') = Spelled(t, ArrayInfo(context))
<1>1. /\ verdict = "parsing" /\ Plain /\ Now \in Shapes /\ Brackets'[m - 1] = Now
  BY TakeFlat DEF Take
<1>2. /\ InArray => ArrayNumbered
      /\ ~InArray => context.current_array \in {"NONE", "PATHSET"}
      /\ context.current_array = "PATHSET" => ~InArray /\ PathsNumbered
      /\ t.data_type = "STEP" <=> context.current_array = "PATHSET"
  BY <1>1 DEF Numbered, Take
<1>3. /\ Len(input) \in Nat /\ Position = 1..Len(input) /\ input'[m] = t
      /\ \A j \in Position : input'[j] = input[j]
  BY TakePositions
<1>4. PICK n \in Nat : n = Len(input)
  BY <1>3
<1>5. /\ Arrays' = Arrays \/ Arrays' = Arrays \cup {m}
      /\ Objects' = Objects \/ Objects' = Objects \cup {m}
      /\ t.data_type # "PATHSET" => PathSets' = PathSets
      /\ NextPaths' = NextPaths \/ NextPaths' = NextPaths \cup {m}
  BY TakeKinds
<1>6. /\ Arrays \in SUBSET (1..n) /\ Objects \in SUBSET (1..n) /\ m = n + 1
      /\ PathSets \in SUBSET (1..n) /\ NextPaths \in SUBSET (1..n)
  BY <1>3, <1>4, KindsStand
<1>7. ASSUME NEW S \in SUBSET (1..n), NEW R, R = S \/ R = S \cup {m}
      PROVE  LastBefore(m, R) = Max(S) /\ \A x : Between(x, m, R) = After(x, S)
  <2>1. LastBefore(m, S) = Max(S) /\ LastBefore(m, S \cup {m}) = Max(S)
    BY <1>4, <1>6, BeforeTheEnd
  <2>2. \A x : Between(x, m, S) = After(x, S) /\ Between(x, m, S \cup {m}) = After(x, S)
    BY <1>4, <1>6, CountedAtTheEnd
  <2> QED
    BY <1>7, <2>1, <2>2
<1>8. /\ LastBefore(m, Arrays') = Max(Arrays)
      /\ \A x : Between(x, m, Objects') = After(x, Objects)
      /\ \A x : Between(x, m, NextPaths') = After(x, NextPaths)
  BY <1>5, <1>6, <1>7
<1>9. Place(m)' =
          IF input'[m].data_type = "STEP"
          THEN [type |-> "PATHSET",
                index1 |-> 1 + Between(LastBefore(m, PathSets'), m, NextPaths'),
                index2 |-> m - LastBefore(m, PathSets' \cup NextPaths')]
          ELSE IF /\ Brackets'[m - 1] = <<"ARRAY", "OBJECT">>
                  /\ input'[LastBefore(m, Arrays')].id # "NONE"
          THEN [type |-> input'[LastBefore(m, Arrays')].id,
                index1 |-> Between(LastBefore(m, Arrays'), m, Objects'), index2 |-> 0]
          ELSE NoArray
  BY DEF Place, LastBefore, Between
<1>10. CASE t.data_type = "STEP"
  <2>1. context.current_array = "PATHSET"
    BY <1>2, <1>10
  <2>2. PICK set \in PathSets, path \in PathSets \cup NextPaths :
            /\ IsLatest(set, PathSets) /\ IsLatest(path, PathSets \cup NextPaths)
            /\ context.array_index1 = 1 + After(set, NextPaths)
            /\ context.array_index2 = Len(input) + 1 - path
    BY <1>2, <2>1 DEF PathsNumbered
  <2>3. PathSets \cup NextPaths \in SUBSET (1..n)
    BY <1>6
  <2>4. Max(PathSets) = set /\ Max(PathSets \cup NextPaths) = path
    <3>1. PathSets \in SUBSET Nat /\ PathSets \cup NextPaths \in SUBSET Nat
      BY <1>6
    <3> QED
      BY <2>2, <3>1, LatestIsMax
  <2>5. PathSets' = PathSets /\ LastBefore(m, PathSets') = set
    BY <1>5, <1>6, <1>7, <1>10, <2>4
  <2>6. \/ PathSets' \cup NextPaths' = PathSets \cup NextPaths
        \/ PathSets' \cup NextPaths' = (PathSets \cup NextPaths) \cup {m}
    BY <1>5, <2>5
  <2>7. LastBefore(m, PathSets' \cup NextPaths') = path
    BY <1>7, <2>3, <2>4, <2>6
  <2>8. Place(m)' = [type |-> "PATHSET", index1 |-> 1 + After(set, NextPaths), index2 |-> m - path]
    BY <1>3, <1>8, <1>9, <1>10, <2>5, <2>7
  <2>9. ArrayInfo(context) = [type |-> "PATHSET", index1 |-> 1 + After(set, NextPaths),
                              index2 |-> m - path]
    <3>1. context.array_index2 = m - path
      BY <1>3, <1>6, <2>2
    <3> QED
      BY <2>1, <2>2, <3>1 DEF ArrayInfo
  <2> QED
    BY <2>8, <2>9
<1>11. CASE t.data_type # "STEP" /\ Now = <<"ARRAY", "OBJECT">>
  <2>1. PICK array \in Arrays :
            /\ IsLatest(array, Arrays)
            /\ context.current_array = input[array].id
            /\ context.array_index1 = After(array, Objects)
            /\ context.array_index2 = 0
    BY <1>2, <1>11 DEF InArray, ArrayNumbered
  <2>2. Max(Arrays) = array
    <3>1. Arrays \in SUBSET Nat
      BY <1>6
    <3> QED
      BY <2>1, <3>1, LatestIsMax
  <2>3. LastBefore(m, Arrays') = array /\ input'[array] = input[array]
    BY <1>3, <1>4, <1>6, <1>8, <2>1, <2>2
  <2>4. Place(m)' = IF input[array].id # "NONE"
                    THEN [type |-> input[array].id, index1 |-> After(array, Objects),
                          index2 |-> 0]
                    ELSE NoArray
    BY <1>1, <1>3, <1>8, <1>9, <1>11, <2>3
  <2>5. ArrayInfo(context) = IF input[array].id # "NONE"
                    THEN [type |-> input[array].id, index1 |-> After(array, Objects),
                          index2 |-> 0]
                    ELSE NoArray
    BY <2>1 DEF ArrayInfo
  <2> QED
    BY <2>4, <2>5
<1>12. CASE Now = <<"ARRAY">>
  <2>1. Last(Now) = "ARRAY" /\ Now # << >>
    BY <1>12 DEF Last
  <2>2. Begins(t, "OBJECT") \/ Is(t, "ARRAY", "END")
    BY <2>1, TakeSound DEF Plain
  <2>3. t.data_type \in {"ARRAY", "OBJECT", "PATHSET"}
    BY <2>2 DEF Begins, Is
  <2>4. \A place : Spelled(t, place) = << >>
    BY <2>3, SpelledIs
  <2> QED
    BY <2>4, Zenon
<1>13. CASE t.data_type # "STEP" /\ Now \in {<< >>, <<"OBJECT">>}
  <2>1. ~InArray /\ Now # <<"ARRAY", "OBJECT">>
    BY <1>13 DEF InArray
  <2>2. context.current_array = "NONE"
    BY <1>2, <1>13, <2>1
  <2>3. Place(m)' = NoArray
    BY <1>1, <1>3, <1>9, <1>13, <2>1
  <2>4. ArrayInfo(context) = NoArray
    BY <2>2 DEF ArrayInfo
  <2> QED
    BY <2>3, <2>4
<1> QED
  BY <1>1, <1>10, <1>11, <1>12, <1>13 DEF Shapes


-----------------------------------------------------------------------------
(* The rows as the stream goes on.                                         *)

\* What was read can be spelled out.
GoodSoFar ==
    verdict = "parsing" =>
        \A k \in Position : ~Malformed(input[k]) /\ input[k].data_type \in Readables

\* The rows are what the stream spells out so far.
SpelledSoFar ==
    verdict = "parsing" /\ Plain => RowsOf(context.fields) = FlattenSeq(Spelling)

\* The fields tell whether there was a regular key, wherever it stands.
KeySoFar ==
    verdict = "parsing" =>
        (has_field(context, "ACCOUNT", "REGULAR_KEY", FALSE) <=>
             \E k \in Position : Is(input[k], "ACCOUNT", "REGULAR_KEY"))

LEMMA GoodStep ==
    ASSUME TypeOK, GoodSoFar, NEW t \in Token, Writes(t)
    PROVE  GoodSoFar'
<1>1. Take(t) /\ ~Malformed(t) /\ t.data_type \in Readables
  BY DEF Writes
<1>2. /\ verdict = "parsing" /\ Position = 1..Len(input) /\ Position' = 1..Len(input) + 1
      /\ Len(input) \in Nat /\ input'[Len(input) + 1] = t
      /\ \A k \in Position : input'[k] = input[k]
  BY <1>1, TakePositions DEF Take
<1>3. \A k \in Position' : k \in Position \/ k = Len(input) + 1
  BY <1>2
<1>4. \A k \in Position' : ~Malformed(input'[k]) /\ input'[k].data_type \in Readables
  BY <1>1, <1>2, <1>3 DEF GoodSoFar
<1> QED
  BY <1>4 DEF GoodSoFar

LEMMA KeyRows ==
    ASSUME NEW S, NEW a \in Seq(S), NEW b \in Seq(S)
    PROVE  HoldsKey(a \o b) <=> HoldsKey(a) \/ HoldsKey(b)
<1>1. /\ Len(a) \in Nat /\ Len(b) \in Nat /\ DOMAIN a = 1..Len(a) /\ DOMAIN b = 1..Len(b)
      /\ DOMAIN (a \o b) = 1..Len(a) + Len(b)
  OBVIOUS
<1>2. /\ \A j \in 1..Len(a) : (a \o b)[j] = a[j]
      /\ \A j \in 1..Len(b) : (a \o b)[Len(a) + j] = b[j]
  OBVIOUS
<1>3. /\ \A j \in 1..Len(a) : j \in 1..Len(a) + Len(b)
      /\ \A j \in 1..Len(b) : Len(a) + j \in 1..Len(a) + Len(b)
      /\ \A j \in 1..Len(a) + Len(b) :
             j \in 1..Len(a) \/ \E i \in 1..Len(b) : j = Len(a) + i
  <2>1. ASSUME NEW j \in 1..Len(a) + Len(b), j \notin 1..Len(a)
        PROVE  \E i \in 1..Len(b) : j = Len(a) + i
    <3>1. j - Len(a) \in 1..Len(b) /\ j = Len(a) + (j - Len(a))
      BY <1>1, <2>1
    <3> QED
      BY <3>1
  <2> QED
    BY <1>1, <2>1
<1> DEFINE c == a \o b
           p == Len(a)
           q == Len(b)
<1>4. /\ DOMAIN a = 1..p /\ DOMAIN b = 1..q /\ DOMAIN c = 1..p + q
      /\ \A j \in 1..p : c[j] = a[j]
      /\ \A j \in 1..q : c[p + j] = b[j]
      /\ \A j \in 1..p : j \in 1..p + q
      /\ \A j \in 1..q : p + j \in 1..p + q
      /\ \A j \in 1..p + q : j \in 1..p \/ \E i \in 1..q : j = p + i
  BY <1>1, <1>2, <1>3
<1> HIDE DEF c, p, q
<1>5. HoldsKey(a) => HoldsKey(c)
  BY <1>4 DEF HoldsKey
<1>6. HoldsKey(b) => HoldsKey(c)
  BY <1>4 DEF HoldsKey
<1>7. ASSUME NEW j \in DOMAIN c, Is(c[j], "ACCOUNT", "REGULAR_KEY")
      PROVE  HoldsKey(a) \/ HoldsKey(b)
  <2>1. CASE j \in 1..p
    BY <1>4, <1>7, <2>1 DEF HoldsKey
  <2>2. ASSUME NEW i \in 1..q, j = p + i PROVE HoldsKey(b)
    BY <1>4, <1>7, <2>2 DEF HoldsKey
  <2> QED
    BY <1>4, <2>1, <2>2
<1>8. HoldsKey(c) <=> HoldsKey(a) \/ HoldsKey(b)
  BY <1>5, <1>6, <1>7 DEF HoldsKey
<1> QED
  BY <1>8 DEF c

LEMMA KeyOfRows ==
    ASSUME NEW S, context.fields \in Seq(S)
    PROVE  has_field(context, "ACCOUNT", "REGULAR_KEY", FALSE) <=> HoldsKey(RowsOf(context.fields))
<1>1. DOMAIN RowsOf(context.fields) = DOMAIN context.fields
  BY DEF RowsOf
<1>2. ASSUME NEW j \in DOMAIN context.fields
      PROVE  Is(RowsOf(context.fields)[j], "ACCOUNT", "REGULAR_KEY")
                 <=> Is(context.fields[j], "ACCOUNT", "REGULAR_KEY")
  BY DEF RowsOf, RowOf, Row, Is
<1> QED
  BY <1>1, <1>2 DEF has_field, HoldsKey

LEMMA KeySoFarStep ==
    ASSUME TypeOK, TypeOK', KeySoFar, NEW t \in Token, Writes(t), verdict' = "parsing"
    PROVE  KeySoFar'
<1> DEFINE place == ArrayInfo(context)
           S == {RowOf(f) : f \in ParsedFields} \cup SpelledRows(t, place)
<1>1. Take(t) /\ ~Malformed(t) /\ t.data_type \in Readables
      /\ RowsOf(context'.fields) = RowsOf(context.fields) \o Spelled(t, place)
  BY DEF Writes
<1>2. /\ verdict = "parsing" /\ Position = 1..Len(input) /\ Position' = 1..Len(input) + 1
      /\ Len(input) \in Nat /\ input'[Len(input) + 1] = t
      /\ \A k \in Position : input'[k] = input[k]
  BY <1>1, TakePositions DEF Take
<1>3. context.fields \in Seq(ParsedFields) /\ context'.fields \in Seq(ParsedFields)
  BY <1>2 DEF TypeOK, ContextOK, Contexts
<1>4. /\ Spelled(t, place) \in Seq(SpelledRows(t, place))
      /\ HoldsKey(Spelled(t, place)) <=> Is(t, "ACCOUNT", "REGULAR_KEY")
  BY <1>1, SpelledTyped
<1>5. RowsOf(context.fields) \in Seq(S) /\ Spelled(t, place) \in Seq(S)
  <2>1. RowsOf(context.fields) \in Seq({RowOf(f) : f \in ParsedFields})
    BY <1>3, RowsOfTyped
  <2> QED
    BY <1>4, <2>1
<1> HIDE DEF S, place
<1>6. HoldsKey(RowsOf(context'.fields)) <=>
          HoldsKey(RowsOf(context.fields)) \/ Is(t, "ACCOUNT", "REGULAR_KEY")
  BY <1>1, <1>4, <1>5, KeyRows
<1>7. has_field(context, "ACCOUNT", "REGULAR_KEY", FALSE) <=> HoldsKey(RowsOf(context.fields))
  BY <1>3, KeyOfRows
<1>8. has_field(context', "ACCOUNT", "REGULAR_KEY", FALSE) <=> HoldsKey(RowsOf(context'.fields))
  <2>1. DOMAIN RowsOf(context'.fields) = DOMAIN context'.fields
    BY DEF RowsOf
  <2>2. ASSUME NEW j \in DOMAIN context'.fields
        PROVE  Is(RowsOf(context'.fields)[j], "ACCOUNT", "REGULAR_KEY")
                   <=> Is(context'.fields[j], "ACCOUNT", "REGULAR_KEY")
    BY DEF RowsOf, RowOf, Row, Is
  <2> QED
    BY <2>1, <2>2 DEF has_field, HoldsKey
<1>9. (\E k \in Position' : Is(input'[k], "ACCOUNT", "REGULAR_KEY")) <=>
          (\E k \in Position : Is(input[k], "ACCOUNT", "REGULAR_KEY"))
              \/ Is(t, "ACCOUNT", "REGULAR_KEY")
  <2>1. \A k \in Position' : k \in Position \/ k = Len(input) + 1
    BY <1>2
  <2>2. Len(input) + 1 \in Position' /\ \A k \in Position : k \in Position'
    BY <1>2
  <2> QED
    BY <1>2, <2>1, <2>2
<1>10. has_field(context', "ACCOUNT", "REGULAR_KEY", FALSE) <=>
           \E k \in Position' : Is(input'[k], "ACCOUNT", "REGULAR_KEY")
  BY <1>2, <1>6, <1>7, <1>8, <1>9 DEF KeySoFar
<1> QED
  BY <1>10 DEF KeySoFar, has_field

AllRows == UNION {SpelledRows(input[k], Place(k)) : k \in Position}

LEMMA SpellingTyped ==
    ASSUME TypeOK, GoodSoFar, verdict = "parsing"
    PROVE  /\ Spelling \in Seq(Seq(AllRows)) /\ Len(Spelling) = Len(input)
           /\ DOMAIN Spelling = Position
           /\ \A k \in Position : Spelling[k] = Spelled(input[k], Place(k))
<1>1. input \in Seq(Token) /\ Len(input) \in Nat /\ Position = 1..Len(input)
  BY DEF TypeOK, Position
<1>2. ASSUME NEW k \in Position PROVE Spelled(input[k], Place(k)) \in Seq(AllRows)
  <2>1. input[k] \in Token /\ ~Malformed(input[k]) /\ input[k].data_type \in Readables
    BY <1>1 DEF GoodSoFar
  <2>2. Spelled(input[k], Place(k)) \in Seq(SpelledRows(input[k], Place(k)))
    BY <2>1, SpelledTyped
  <2>3. SpelledRows(input[k], Place(k)) \subseteq AllRows
    BY DEF AllRows
  <2> QED
    BY <2>2, <2>3
<1>3. Spelling = [k \in 1..Len(input) |-> Spelled(input[k], Place(k))]
  BY <1>1 DEF Spelling
<1> QED
  BY <1>1, <1>2, <1>3

LEMMA SpelledStep ==
    ASSUME TypeOK, Numbered, GoodSoFar, SpelledSoFar, NEW t \in Token, Writes(t)
    PROVE  SpelledSoFar'
<1> DEFINE new == Spelled(t, ArrayInfo(context))
           S == AllRows \cup SpelledRows(t, ArrayInfo(context))
<1>1. Take(t) /\ ~Malformed(t) /\ t.data_type \in Readables
      /\ RowsOf(context'.fields) = RowsOf(context.fields) \o new
  BY DEF Writes
<1> SUFFICES ASSUME Plain' PROVE RowsOf(context'.fields) = FlattenSeq(Spelling')
  BY DEF SpelledSoFar, RowsOf
<1>2. verdict = "parsing" /\ Plain
  BY <1>1, TakeFlat DEF Take
<1>3. /\ Len(input) \in Nat /\ Position = 1..Len(input) /\ Position' = 1..Len(input) + 1
      /\ \A k \in Nat : k = Len(input) + 1 => input'[k] = t
      /\ \A k \in Position : input'[k] = input[k]
  BY <1>1, TakePositions
<1>4. PICK n \in Nat : n = Len(input)
  BY <1>3
<1>5. PICK m \in Nat : m = n + 1
  BY <1>4
<1>6. /\ Spelling \in Seq(Seq(AllRows)) /\ Len(Spelling) = n
      /\ \A k \in Position : Spelling[k] = Spelled(input[k], Place(k))
  BY <1>2, <1>4, SpellingTyped
<1>7. new \in Seq(S) /\ Spelling \in Seq(Seq(S))
  <2>1. new \in Seq(SpelledRows(t, ArrayInfo(context)))
    BY <1>1, SpelledTyped
  <2>2. Seq(AllRows) \subseteq Seq(S) /\ Seq(SpelledRows(t, ArrayInfo(context))) \subseteq Seq(S)
    OBVIOUS
  <2> HIDE DEF S, new
  <2> QED
    BY <1>6, <2>1, <2>2
<1>8. ASSUME NEW k \in Position
      PROVE  Spelled(input'[k], Place(k)') = Spelling[k]
  BY <1>1, <1>3, <1>6, PlaceKept
<1>9. Spelled(input'[m], Place(m)') = new
  BY <1>1, <1>3, <1>4, <1>5, PlaceNext
<1>10. Spelling' = [k \in 1..n + 1 |-> Spelled(input'[k], Place(k)')]
  BY <1>3, <1>4 DEF Spelling
<1>11. Spelling' = Append(Spelling, new)
  <2> DEFINE e(k) == Spelled(input'[k], Place(k)')
  <2>1. \A k \in 1..n : e(k) = Spelling[k]
    BY <1>3, <1>4, <1>8
  <2>2. e(n + 1) = new
    BY <1>5, <1>9
  <2>3. Spelling' = [k \in 1..n + 1 |-> e(k)]
    BY <1>10
  <2> HIDE DEF e, new, S
  <2>4. n \in Nat /\ \A k \in 1..n + 1 : k \in 1..n \/ k = n + 1
    BY <1>4
  <2>5. \A k \in 1..n + 1 : e(k) \in Seq(S)
    BY <1>4, <1>6, <1>7, <2>1, <2>2, <2>4
  <2>6. /\ Spelling' \in Seq(Seq(S)) /\ Len(Spelling') = n + 1
        /\ Spelling'[n + 1] = new /\ \A k \in 1..n : Spelling'[k] = Spelling[k]
    BY <2>1, <2>2, <2>3, <2>4, <2>5
  <2> QED
    BY <1>4, <1>6, <1>7, <2>6, AppendIs
<1>12. FlattenSeq(Append(Spelling, new)) = FlattenSeq(Spelling) \o new
  <2> HIDE DEF S, new
  <2> QED
    BY <1>7, FlattenAppend
<1>13. RowsOf(context.fields) = FlattenSeq(Spelling)
  BY <1>2 DEF SpelledSoFar
<1> QED
  BY <1>1, <1>11, <1>12, <1>13


-----------------------------------------------------------------------------
(* The end of the stream.                                                  *)

\* Everything that is counted from the stream is the same as long as the stream is.
LEMMA SameRows ==
    ASSUME UNCHANGED input
    PROVE  /\ Position' = Position /\ Brackets' = Brackets /\ Now' = Now
           /\ Arrays' = Arrays /\ Objects' = Objects
           /\ PathSets' = PathSets /\ NextPaths' = NextPaths
           /\ Plain' <=> Plain
           /\ Spelling' = Spelling
<1>1. Position' = Position /\ Brackets' = Brackets /\ Now' = Now
  BY BracketsOfInput DEF Position, Now
<1>2. /\ Arrays' = Arrays /\ Objects' = Objects
      /\ PathSets' = PathSets /\ NextPaths' = NextPaths
  BY DEF Arrays, Objects, PathSets, NextPaths, Position
<1>3. Plain' <=> Plain
  <2>1. Sound' <=> Sound
    BY SameStream
  <2> QED
    BY <1>1, <1>2, <2>1 DEF Plain
<1>4. ASSUME NEW k PROVE Place(k)' = Place(k)
  BY <1>1, <1>2 DEF Place, LastBefore, Between
<1>5. Spelling' = Spelling
  BY <1>1, <1>4 DEF Spelling
<1> QED
  BY <1>1, <1>2, <1>3, <1>5

\* A reading that ends in the stream met a second type, or one of an object or an array.
LEMMA EndsEarly ==
    ASSUME TypeOK, Nested, TypeSoFar, NEW t \in Token, Reads(t), verdict' = "BLIND_SIGN_REQUIRED",
           Sound', NEW k \in Position', TransactionTypes' = {k}, OfTransaction(k)'
    PROVE  FALSE
<1>1. Effects(t)
  BY ReadsEffects DEF Going
<1>2. Take(t) /\ Is(t, "UINT16", "TRANSACTION_TYPE") /\ verdict = "parsing" /\ Sound
  BY <1>1, TakeSound DEF Effects, Take
<1>3. ReadTransactionType(t)
  BY <1>2 DEF Reads, NoRoom, CutShort, Unsupported, Fail, ReadScalar, ReadAccount, ReadAmount,
              ReadIssue, ReadVector256, ReadArray, ReadObject, ReadPathSet, ReadPathStep, Begin,
              Is, is_transaction_type_field, FieldOf, NewField
<1>4. ~(TopLevel(FieldOf(context, t)) /\ context.transaction_type = "INVALID")
  BY <1>2, <1>3 DEF ReadTransactionType
<1>5. PICK m \in Nat : m = Len(input) + 1
  BY <1>2, TakePositions
<1>6. /\ Position' = Position \cup {m} /\ m \notin Position /\ input'[m] = t
      /\ \A j \in Position : input'[j] = input[j]
      /\ \A j \in Nat : j = m => (OfTransaction(j)' <=> Now = << >>)
  BY <1>2, <1>5, TakePositions
<1>7. TransactionTypes' = {j \in Position' : Is(input'[j], "UINT16", "TRANSACTION_TYPE")}
  BY DEF TransactionTypes
<1>8. m \in TransactionTypes' /\ k = m
  BY <1>2, <1>6, <1>7
<1>9. Now = << >>
  BY <1>5, <1>6, <1>8
<1>10. TopLevel(FieldOf(context, t))
  BY <1>2, <1>9, OwnField DEF Is
<1>11. PICK j \in TransactionTypes : OfTransaction(j)
  BY <1>2, <1>4, <1>10 DEF TypeSoFar
<1>12. j \in TransactionTypes' /\ j # m
  BY <1>6, <1>7, <1>11 DEF TransactionTypes
<1> QED
  BY <1>8, <1>12

LEMMA ReviewAtTheEnd ==
    ASSUME TypeOK, SpelledSoFar, KeySoFar, EndOfStream,
           verdict' \in {"SUCCESS", "BLIND_SIGN_REQUIRED"}, Flat'
    PROVE  RowsOf(context'.fields) = Review'
<1> DEFINE s == Completed.fields
<1>1. /\ verdict = "parsing" /\ UNCHANGED input
      /\ context' = [Completed EXCEPT !.fields = Order!StableSorted(s)]
  BY DEF EndOfStream, Fail
<1>2. context \in Contexts
  BY <1>1 DEF TypeOK, ContextOK
<1>3. context.fields \in Seq(ParsedFields)
  BY <1>2 DEF Contexts
<1>4. /\ Completed.transaction_type = context.transaction_type
      /\ Completed.current_array = context.current_array
      /\ DOMAIN Completed = {"transaction_type", "has_empty_pub_key", "fields", "current_array",
                             "array_index1", "array_index2", "object_depth"}
  BY <1>2 DEF Completed, Contexts
<1>5. s = IF ClearsKey THEN Append(context.fields, ClearedKey(context)) ELSE context.fields
  BY <1>2 DEF Completed, Contexts
<1> HIDE DEF s
<1>6. /\ context'.fields = Order!StableSorted(s)
      /\ context'.transaction_type = context.transaction_type
      /\ context'.current_array = context.current_array
  BY <1>1, <1>4
<1>7. /\ Position' = Position /\ Spelling' = Spelling
      /\ Plain' <=> Plain
  BY <1>1, SameRows
<1>8. Plain /\ context.current_array = "NONE"
  <2>1. Plain' /\ context'.current_array = "NONE"
    BY DEF Flat
  <2> QED
    BY <1>6, <1>7, <2>1
<1>9. RowsOf(context.fields) = FlattenSeq(Spelling)
  BY <1>1, <1>8 DEF SpelledSoFar
<1>10. ClearedKeyRows' = IF ClearsKey THEN <<Row("ACCOUNT", "REGULAR_KEY", "empty", NoArray)>> ELSE << >>
  <2>1. has_field(context, "ACCOUNT", "REGULAR_KEY", FALSE) <=>
            \E k \in Position : Is(input[k], "ACCOUNT", "REGULAR_KEY")
    BY <1>1 DEF KeySoFar
  <2>2. (\A k \in Position' : ~Is(input'[k], "ACCOUNT", "REGULAR_KEY")) <=>
            \A k \in Position : ~Is(input[k], "ACCOUNT", "REGULAR_KEY")
    BY <1>1, <1>7
  <2>3. ClearsKey <=> /\ context'.transaction_type = "SET_REGULAR_KEY"
                      /\ \A k \in Position' : ~Is(input'[k], "ACCOUNT", "REGULAR_KEY")
    BY <1>6, <2>1, <2>2 DEF ClearsKey
  <2> QED
    BY <2>3 DEF ClearedKeyRows
<1>11. RowOf(ClearedKey(context)) = Row("ACCOUNT", "REGULAR_KEY", "empty", NoArray)
  BY <1>8 DEF RowOf, Row, ClearedKey, NewField, ArrayInfo
<1> DEFINE S == ParsedFields \cup {ClearedKey(context)}
<1>12. s \in Seq(S) /\ context.fields \in Seq(S) /\ ClearedKey(context) \in S
  BY <1>3, <1>5
<1>13. RowsOf(s) = FlattenSeq(Spelling) \o ClearedKeyRows'
  <2> HIDE DEF S
  <2>1. CASE ClearsKey
    <3>1. RowsOf(s) = RowsOf(context.fields) \o <<RowOf(ClearedKey(context))>>
      BY <1>5, <1>12, <2>1, RowsOfAppend
    <3> QED
      BY <1>9, <1>10, <1>11, <2>1, <3>1
  <2>2. CASE ~ClearsKey
    <3>1. RowsOf(s) = FlattenSeq(Spelling)
      BY <1>5, <1>9, <2>2
    <3>2. RowsOf(s) \in Seq({RowOf(f) : f \in S})
      BY <1>12, RowsOfTyped
    <3>3. \A r \in Seq({RowOf(f) : f \in S}) : r \o << >> = r
      OBVIOUS
    <3>4. ClearedKeyRows' = << >>
      BY <1>10, <2>2
    <3> QED
      BY <3>1, <3>2, <3>3, <3>4
  <2> QED
    BY <2>1, <2>2
<1>14. Order!StableSorted(RowsOf(s)) = RowsOf(Order!StableSorted(s))
  <2> HIDE DEF S
  <2> QED
    BY <1>12, SortsRows
<1>15. Review' = Order!StableSorted(FlattenSeq(Spelling') \o ClearedKeyRows')
  BY DEF Review
<1> QED
  BY <1>6, <1>7, <1>13, <1>14, <1>15

-----------------------------------------------------------------------------
(* The theorem.                                                            *)

RowsInv ==
    /\ ReadInv /\ GoodSoFar /\ Numbered /\ SpelledSoFar /\ KeySoFar /\ ReviewIsTheTransaction

LEMMA InitRows == Init => RowsInv
<1> SUFFICES ASSUME Init PROVE RowsInv
  OBVIOUS
<1>1. /\ verdict = "parsing" /\ input = << >> /\ context.current_array = "NONE"
      /\ context.fields = << >>
  BY DEF Init
<1>2. Position = {} /\ input \in Seq(Token) /\ Len(input) = 0
  BY <1>1 DEF Position
<1>3. Now = << >>
  BY <1>2, BracketsOfInput, BracketsFollow DEF Now
<1>4. Numbered
  BY <1>1, <1>2, <1>3 DEF Numbered, InArray, ArrayBehind
<1>5. SpelledSoFar
  <2>1. Spelling = << >>
    BY <1>2 DEF Spelling
  <2>2. RowsOf(context.fields) = << >>
    BY <1>1, RowsOfFew
  <2> QED
    BY <2>1, <2>2, FlattenNone DEF SpelledSoFar
<1>6. KeySoFar
  BY <1>1, <1>2 DEF KeySoFar, has_field
<1> QED
  BY <1>1, <1>2, <1>4, <1>5, <1>6, InitReads DEF RowsInv, GoodSoFar, ReviewIsTheTransaction

LEMMA NextRows == RowsInv /\ [Next]_vars => RowsInv'
<1> SUFFICES ASSUME RowsInv, [Next]_vars PROVE RowsInv'
  OBVIOUS
<1>1. ReadInv' /\ TypeOK /\ TypeOK' /\ Nested /\ TypeSoFar
  BY NextReads DEF RowsInv, ReadInv
<1>2. CASE UNCHANGED vars
  <2>1. UNCHANGED <<context, verdict, input>>
    BY <1>2 DEF vars
  <2>2. /\ Position' = Position /\ Brackets' = Brackets /\ Now' = Now
        /\ Arrays' = Arrays /\ Objects' = Objects
        /\ PathSets' = PathSets /\ NextPaths' = NextPaths
        /\ Plain' <=> Plain
        /\ Spelling' = Spelling
    BY <2>1, SameRows
  <2>3. GoodSoFar' /\ SpelledSoFar' /\ KeySoFar'
    BY <2>1, <2>2 DEF RowsInv, GoodSoFar, SpelledSoFar, KeySoFar
  <2>4. Numbered'
    <3>1. (InArray' <=> InArray) /\ (ArrayNumbered' <=> ArrayNumbered)
      BY <2>1, <2>2 DEF InArray, ArrayNumbered
    <3>2. (PathsNumbered' <=> PathsNumbered) /\ (ArrayBehind' <=> ArrayBehind)
      BY <2>1, <2>2 DEF PathsNumbered, ArrayBehind
    <3> QED
      BY <2>1, <2>2, <3>1, <3>2 DEF RowsInv, Numbered
  <2>5. ReviewIsTheTransaction'
    <3>1. /\ Sound' <=> Sound
          /\ \A k : OfTransaction(k)' <=> OfTransaction(k)
          /\ TransactionTypes' = TransactionTypes
      BY <2>1, SameStream
    <3>2. Flat' <=> Flat
      BY <2>1, <2>2, <3>1 DEF Flat
    <3>3. Review' = Review
      BY <2>1, <2>2 DEF Review, ClearedKeyRows
    <3> QED
      BY <2>1, <2>2, <3>1, <3>2, <3>3 DEF RowsInv, ReviewIsTheTransaction
  <2> QED
    BY <1>1, <2>3, <2>4, <2>5 DEF RowsInv
<1>3. ASSUME NEW t \in Token, Reads(t) PROVE RowsInv'
  <2>1. verdict = "parsing" /\ verdict' # "SUCCESS"
    BY <1>3 DEF Reads, NoRoom, CutShort, Unsupported, ReadScalar, ReadTransactionType,
           ReadAccount, ReadAmount, ReadIssue, ReadVector256, ReadArray, ReadObject,
           ReadPathSet, ReadPathStep, Begin, Take, Put, Fail
  <2>2. CASE verdict' = "parsing"
    <3>1. Writes(t)
      BY <1>1, <1>3, <2>2, ReadsWrite
    <3>2. GoodSoFar' /\ Numbered' /\ SpelledSoFar' /\ KeySoFar'
      BY <1>1, <2>2, <3>1, GoodStep, NumberedStep, SpelledStep, KeySoFarStep DEF RowsInv
    <3> QED
      BY <1>1, <2>2, <3>2 DEF RowsInv, ReviewIsTheTransaction
  <2>3. CASE verdict' # "parsing"
    <3>1. GoodSoFar' /\ Numbered' /\ SpelledSoFar' /\ KeySoFar'
      BY <2>3 DEF GoodSoFar, Numbered, SpelledSoFar, KeySoFar
    <3>2. ReviewIsTheTransaction'
      <4> SUFFICES ASSUME verdict' = "BLIND_SIGN_REQUIRED", Flat', NEW k \in Position',
                          TransactionTypes' = {k}, OfTransaction(k)'
                   PROVE  FALSE
        BY <2>1 DEF ReviewIsTheTransaction
      <4>1. Sound'
        BY DEF Flat, Plain
      <4> QED
        BY <1>1, <1>3, <4>1, EndsEarly
    <3> QED
      BY <1>1, <3>1, <3>2 DEF RowsInv
  <2> QED
    BY <2>2, <2>3
<1>4. CASE EndOfStream
  <2>1. verdict' # "parsing"
    BY <1>4 DEF EndOfStream, Fail
  <2>2. GoodSoFar' /\ Numbered' /\ SpelledSoFar' /\ KeySoFar'
    BY <2>1 DEF GoodSoFar, Numbered, SpelledSoFar, KeySoFar
  <2>3. ReviewIsTheTransaction'
    <3>1. verdict' \in {"SUCCESS", "BLIND_SIGN_REQUIRED"} /\ Flat' =>
              RowsOf(context'.fields) = Review'
      BY <1>1, <1>4, ReviewAtTheEnd DEF RowsInv
    <3> QED
      BY <3>1 DEF ReviewIsTheTransaction, RowsOf
  <2> QED
    BY <1>1, <2>2, <2>3 DEF RowsInv
<1> QED
  BY <1>2, <1>3, <1>4 DEF Next, Reads

\* The review of a flat transaction with a type of its own is the transaction: every field of
\* the stream that is to be shown has its rows, under the number of its own object, path and
\* step, and there is no other row; for streams of any length.
THEOREM ReviewShowsTheTransaction == Spec => []ReviewIsTheTransaction
<1>1. RowsInv => ReviewIsTheTransaction
  BY DEF RowsInv
<1>2. Spec => []RowsInv
  BY InitRows, NextRows, PTL DEF Spec
<1> QED
  BY <1>1, <1>2, PTL

=============================================================================
