------------------------------ MODULE XrpParse ------------------------------
(***************************************************************************)
(* The transaction parser (xrp/xrp_parse.c) and what decides on its result *)
(* (is_field_hidden and is_field_recognized of xrp/fields.c).              *)
(*                                                                         *)
(* parse_tx reads a stream of fields once, with a flat notion of nesting:  *)
(* one current array with two indices, and an 8-bit object depth.  A step  *)
(* is one round of its loop, that is one field or one byte of a path set   *)
(* with its step; the end of the stream is a step of its own.  A field of  *)
(* the stream is a Token: its header and what the parser tells apart of    *)
(* its content.                                                            *)
(***************************************************************************)
EXTENDS Integers, Sequences, FiniteSets

CONSTANTS
    Token,             \* the fields and path steps of the streams
    Readable(_, _),    \* which token may follow a stream: chooses the streams explored
    MaxInput,          \* bound on the length of a stream
    Named,             \* <<data_type, id>> of the fields resolve_field_name knows
    Supported,         \* transaction types is_supported_transaction_type accepts
    NativeAmounts,     \* values of amounts of XRP
    UnknownFlags(_, _),\* has_unknown_flags: transaction type, value
    MaxFieldCount,     \* MAX_FIELD_COUNT (60), scaled down for TLC
    MaxArrayLen,       \* MAX_ARRAY_LEN (8)
    MaxPathCount,      \* MAX_PATH_COUNT (6)
    MaxStepCount,      \* MAX_STEP_COUNT (8)
    DepthModulus       \* object_depth is a uint8_t (256)

AccountSize == 20
Vector256Size == 32

ASSUME LimitAssumption ==
    /\ MaxInput \in Nat /\ MaxFieldCount \in Nat
    /\ MaxArrayLen \in Nat /\ MaxPathCount \in Nat \ {0} /\ MaxStepCount \in Nat
    /\ DepthModulus \in Nat \ {0}

\* What the first byte of a path step says: the path or the set ends, which of the account,
\* the currency and the issuer follow, or nothing the parser accepts.
StepKinds == {"NEXT", "END", "ACCOUNT", "ISSUER", "CURRENCY", "CURRENCY_ISSUER", "bad"}

\* length is the byte count of a VL, an account and a vector, 0 for all other types.  No
\* array is taken for a path set: ARRAY_PATHSET is ARR_END.
ASSUME TokenAssumption == \A t \in Token :
    /\ DOMAIN t = {"data_type", "id", "value", "length"}
    /\ t.length \in Nat
    /\ t.data_type = "ARRAY" => t.id # "PATHSET"
    /\ t.data_type = "STEP" => t.id \in StepKinds

\* TRANSACTION_INVALID is not a type, and has_unknown_flags finds no unknown bit in a value of
\* 0 or of TF_FULLY_CANONICAL_SIG.
ASSUME SupportedAssumption == "INVALID" \notin Supported
ASSUME FlagsAssumption == \A type \in Supported, value \in {"zero", "canonical"} :
    ~UnknownFlags(type, value)

ASSUME AmountAssumption == NativeAmounts \cap {"fake", "issued", "nonstandard"} = {}

VARIABLES
    context,  \* parseContext_t without the data
    verdict,  \* what parse_tx returns, "parsing" while it runs
    input     \* history: the tokens taken from the stream

vars == <<context, verdict, input>>

-----------------------------------------------------------------------------
(* Fields.                                                                 *)

NoArray == [type |-> "NONE", index1 |-> 0, index2 |-> 0]

\* append_array_info: where in an array or a path set a field stands.
ArrayInfo(c) ==
    IF c.current_array = "NONE" THEN NoArray
    ELSE [type |-> c.current_array, index1 |-> c.array_index1, index2 |-> c.array_index2]

NewField(c, data_type, id, value, length) ==
    [data_type |-> data_type, id |-> id, value |-> value, length |-> length,
     array_info |-> ArrayInfo(c), object_depth |-> c.object_depth]

FieldOf(c, t) == NewField(c, t.data_type, t.id, t.value, t.length)

\* The fields the parser adds: the parts of an amount, an issue, a path step or a vector,
\* and the cleared regular key.
Issuer(c) == NewField(c, "ACCOUNT", "ISSUER", "issuer", AccountSize)
Currency(c) == NewField(c, "CURRENCY", "CURRENCY", "currency", AccountSize)
ClearedKey(c) == NewField(c, "ACCOUNT", "REGULAR_KEY", "empty", 0)

Is(f, data_type, id) == f.data_type = data_type /\ f.id = id

OutsideArrays(f) == f.array_info.type = "NONE"

is_transaction_type_field(f) == Is(f, "UINT16", "TRANSACTION_TYPE")
is_normal_account_field(f) == Is(f, "ACCOUNT", "ACCOUNT") /\ OutsideArrays(f)

Order == INSTANCE FieldOrder WITH IsTransactionTypeField <- is_transaction_type_field,
                                  IsNormalAccountField <- is_normal_account_field

is_flag(f) == f.data_type = "UINT32" /\ f.id \in {"FLAGS", "SET_FLAG", "CLEAR_FLAG"}

\* A value of 0, or only TF_FULLY_CANONICAL_SIG.
is_flag_hidden(f) == is_flag(f) /\ f.value \in {"zero", "canonical"}

HiddenOutsideArrays ==
    {<<"UINT32", "SEQUENCE">>, <<"UINT32", "LAST_LEDGER_SEQUENCE">>, <<"VL", "SIGNING_PUB_KEY">>}

\* Defect: the array is not looked at.
hidden_anywhere(f) == <<f.data_type, f.id>> \in HiddenOutsideArrays \/ is_flag_hidden(f)

is_field_hidden(f) ==
    \/ <<f.data_type, f.id>> \in HiddenOutsideArrays /\ OutsideArrays(f)
    \/ f.data_type \in {"ARRAY", "OBJECT", "PATHSET"}
    \/ is_flag_hidden(f)

is_field_recognized(f) == <<f.data_type, f.id>> \in Named

\* Defect: fields inside an object are taken for fields of the transaction.
outside_arrays_only(f) == OutsideArrays(f)

TopLevel(f) == OutsideArrays(f) /\ f.object_depth = 0

-----------------------------------------------------------------------------
(* The loop of parse_tx_internal.                                          *)

Fail(error) == verdict' = error /\ UNCHANGED context

\* A round begins by appending a field, even when it will be removed again.
Full == Len(context.fields) >= MaxFieldCount

Take(t) ==
    /\ verdict = "parsing"
    /\ t.data_type = "STEP" <=> context.current_array = "PATHSET"
    /\ Len(input) < MaxInput /\ Readable(input, t)
    /\ input' = Append(input, t)

Begin(t, types) == t.data_type \in types /\ ~Full /\ Take(t)

NoRoom(t) == Full /\ Take(t) /\ Fail("NOT_ENOUGH_SPACE")

\* The data ends inside the field.
CutShort(t) == ~Full /\ Take(t) /\ Fail("EXCEPTION_OVERFLOW")

Unsupported(t) == Begin(t, {"other"}) /\ Fail("NOT_SUPPORTED")

\* A field and the fields added for it, each of which takes a place.
Put(new) ==
    \/ /\ Len(context.fields) + Len(new) <= MaxFieldCount
       /\ context' = [context EXCEPT !.fields = @ \o new]
       /\ UNCHANGED verdict
    \/ /\ Len(context.fields) + Len(new) > MaxFieldCount
       /\ Fail("NOT_ENOUGH_SPACE")

\* Defect: an empty key counts wherever it stands.
empty_anywhere(f) == Is(f, "VL", "SIGNING_PUB_KEY") /\ f.length = 0

EmptyPubKey(f) == Is(f, "VL", "SIGNING_PUB_KEY") /\ f.length = 0 /\ TopLevel(f)

\* Integers, hashes and blobs.
ReadScalar(t) ==
    LET f == FieldOf(context, t)
    IN  /\ Begin(t, {"UINT8", "UINT16", "UINT32", "HASH128", "HASH256", "VL"})
        /\ ~is_transaction_type_field(f)
        /\ context' = [context EXCEPT !.fields = IF is_field_hidden(f) THEN @ ELSE Append(@, f),
                                      !.has_empty_pub_key = @ \/ EmptyPubKey(f)]
        /\ UNCHANGED verdict

\* Only the first TransactionType outside arrays and objects is trusted.
ReadTransactionType(t) ==
    LET f == FieldOf(context, t)
        trusted == TopLevel(f) /\ context.transaction_type = "INVALID"
    IN  /\ Begin(t, {"UINT16"}) /\ is_transaction_type_field(f)
        /\ context' = [context EXCEPT !.fields = Append(@, f),
                                      !.transaction_type = IF trusted THEN f.value ELSE @]
        /\ verdict' = IF trusted THEN verdict ELSE "BLIND_SIGN_REQUIRED"

\* Defect: an account may be too short.
too_long_only(t) == t.length > AccountSize

WrongLength(t) == t.length # AccountSize

ReadAccount(t) ==
    /\ Begin(t, {"ACCOUNT"})
    /\ \/ WrongLength(t) /\ Fail("INVALID_STATE")
       \/ ~WrongLength(t) /\ Put(<<FieldOf(context, t)>>)

\* "fake": an issued amount of the native currency, or of a reserved code.
ReadAmount(t) ==
    /\ Begin(t, {"AMOUNT"})
    /\ \/ t.value = "fake" /\ Fail("INVALID_STATE")
       \/ t.value \in NativeAmounts /\ Put(<<FieldOf(context, t)>>)
       \/ t.value = "issued" /\ Put(<<FieldOf(context, t), Issuer(context)>>)
       \/ /\ t.value = "nonstandard"
          /\ Put(<<FieldOf(context, t), Currency(context), Issuer(context)>>)

ReadIssue(t) ==
    /\ Begin(t, {"ISSUE"})
    /\ \/ t.value = "xrp" /\ Put(<<FieldOf(context, t)>>)
       \/ t.value = "token" /\ Put(<<FieldOf(context, t), Issuer(context)>>)

\* An entry is labelled with the field id of its vector and its own index, from 1.
VectorEntry(t, k) ==
    [NewField(context, "HASH256", "NFTOKEN_OFFER", t.value, Vector256Size)
        EXCEPT !.array_info.type = t.id, !.array_info.index1 = k]

ReadVector256(t) ==
    /\ Begin(t, {"VECTOR256"})
    /\ \/ t.length % Vector256Size # 0 /\ Fail("INVALID_STATE")
       \/ /\ t.length % Vector256Size = 0
          /\ Put(<<FieldOf(context, t)>>
                 \o [k \in 1..t.length \div Vector256Size |-> VectorEntry(t, k)])

\* handle_array_field: one current array, no stack of them.
ReadArray(t) ==
    /\ Begin(t, {"ARRAY"})
    /\ context' = IF t.id = "END" THEN [context EXCEPT !.current_array = "NONE"]
                  ELSE [context EXCEPT !.current_array = t.id, !.array_index1 = 0,
                                       !.array_index2 = 0]
    /\ UNCHANGED verdict

\* Defect: the next item of an array keeps the index of the one before.
index_kept(c) == [c EXCEPT !.object_depth = (@ + 1) % DepthModulus]

EnterObject(c) ==
    [c EXCEPT !.array_index1 = @ + 1, !.object_depth = (@ + 1) % DepthModulus]

\* Defect: the end of an object is taken for the end of all of them.
leave_all(c) == [c EXCEPT !.object_depth = 0]

LeaveObject(c) == [c EXCEPT !.object_depth = IF @ > 0 THEN @ - 1 ELSE 0]

ReadObject(t) ==
    /\ Begin(t, {"OBJECT"})
    /\ \/ /\ t.id = "END"
          /\ context' = LeaveObject(context)
          /\ UNCHANGED verdict
       \/ /\ t.id # "END" /\ EnterObject(context).array_index1 <= MaxArrayLen
          /\ context' = EnterObject(context)
          /\ UNCHANGED verdict
       \/ /\ t.id # "END" /\ EnterObject(context).array_index1 > MaxArrayLen
          /\ Fail("NOT_SUPPORTED")

ReadPathSet(t) ==
    /\ Begin(t, {"PATHSET"})
    /\ context' = [context EXCEPT !.current_array = "PATHSET", !.array_index1 = 1,
                                  !.array_index2 = 1]
    /\ UNCHANGED verdict

\* Defect: the steps of all paths are numbered through.
steps_run_on(c) == [c EXCEPT !.array_index1 = @ + 1]

NextPath(c) == [c EXCEPT !.array_index1 = @ + 1, !.array_index2 = 1]

\* The fields of a path step: the currency stands before the issuer that was read first.
StepFields(c, step) ==
    CASE step = "ACCOUNT" -> <<NewField(c, "ACCOUNT", "ACCOUNT", "step", AccountSize)>>
      [] step = "ISSUER" -> <<Issuer(c)>>
      [] step = "CURRENCY" -> <<Currency(c)>>
      [] step = "CURRENCY_ISSUER" -> <<Currency(c), Issuer(c)>>

\* Defect: one step too many.
path_full_late == context.array_index2 > MaxStepCount + 1

PathFull == context.array_index2 > MaxStepCount

\* The step count of a path is checked before the step is read.
ReadPathStep(t) ==
    /\ Begin(t, {"STEP"})
    /\ \/ /\ t.id = "NEXT" /\ NextPath(context).array_index1 > MaxPathCount
          /\ Fail("INVALID_STATE")
       \/ /\ t.id = "NEXT" /\ NextPath(context).array_index1 <= MaxPathCount
          /\ context' = NextPath(context)
          /\ UNCHANGED verdict
       \/ /\ t.id = "END"
          /\ context' = [context EXCEPT !.current_array = "NONE"]
          /\ UNCHANGED verdict
       \/ /\ t.id \notin {"NEXT", "END"}
          /\ PathFull \/ t.id = "bad"
          /\ Fail("INVALID_STATE")
       \/ /\ t.id \notin {"NEXT", "END", "bad"} /\ ~PathFull
          /\ LET new == StepFields(context, t.id)
             IN  \/ /\ Len(context.fields) + Len(new) <= MaxFieldCount
                    /\ context' = [context EXCEPT !.fields = @ \o new, !.array_index2 = @ + 1]
                    /\ UNCHANGED verdict
                 \/ /\ Len(context.fields) + Len(new) > MaxFieldCount
                    /\ Fail("NOT_ENOUGH_SPACE")

-----------------------------------------------------------------------------
(* The end of the stream.                                                  *)

has_field(c, data_type, id, top_level_only) ==
    \E k \in DOMAIN c.fields : /\ Is(c.fields[k], data_type, id)
                               /\ top_level_only => OutsideArrays(c.fields[k])

ClearsKey == /\ context.transaction_type = "SET_REGULAR_KEY"
             /\ ~has_field(context, "ACCOUNT", "REGULAR_KEY", FALSE)

\* post_process_transaction
Completed ==
    IF ClearsKey THEN [context EXCEPT !.fields = Append(@, ClearedKey(context))] ELSE context

\* find_top_level_flags_value: the places of the Flags fields that are still there.
TopLevelFlags(c) ==
    {k \in DOMAIN c.fields : Is(c.fields[k], "UINT32", "FLAGS") /\ TopLevel(c.fields[k])}

\* Defect: the first value is judged, whatever follows.
first_flags_only(c) ==
    \E k \in TopLevelFlags(c) : /\ \A j \in TopLevelFlags(c) : k <= j
                                /\ UnknownFlags(c.transaction_type, c.fields[k].value)

FlagsForceBlind(c) ==
    \/ Cardinality(TopLevelFlags(c)) > 1
    \/ \E k \in TopLevelFlags(c) : UnknownFlags(c.transaction_type, c.fields[k].value)

ForcesBlind(c) ==
    \/ c.transaction_type \notin Supported
    \/ FlagsForceBlind(c)
    \/ \E k \in DOMAIN c.fields : ~is_field_recognized(c.fields[k])

HasMandatoryFields(c) ==
    /\ has_field(c, "UINT16", "TRANSACTION_TYPE", TRUE)
    /\ has_field(c, "ACCOUNT", "ACCOUNT", TRUE)

EndOfStream ==
    /\ verdict = "parsing"
    /\ UNCHANGED input
    /\ \/ ClearsKey /\ Full /\ Fail("NOT_ENOUGH_SPACE")
       \/ ~(ClearsKey /\ Full) /\ ~HasMandatoryFields(Completed) /\ Fail("NOT_SUPPORTED")
       \/ /\ ~(ClearsKey /\ Full) /\ HasMandatoryFields(Completed)
          /\ context' = [Completed EXCEPT !.fields = Order!StableSorted(@)]
          /\ verdict' = IF ForcesBlind(context') THEN "BLIND_SIGN_REQUIRED" ELSE "SUCCESS"

-----------------------------------------------------------------------------

\* parse_context is zeroed before a first packet.
Init ==
    /\ context = [transaction_type |-> "INVALID", has_empty_pub_key |-> FALSE,
                  fields |-> << >>, current_array |-> "NONE", array_index1 |-> 0,
                  array_index2 |-> 0, object_depth |-> 0]
    /\ verdict = "parsing"
    /\ input = << >>

Next ==
    \/ \E t \in Token : NoRoom(t)
    \/ \E t \in Token : CutShort(t)
    \/ \E t \in Token : Unsupported(t)
    \/ \E t \in Token : ReadScalar(t)
    \/ \E t \in Token : ReadTransactionType(t)
    \/ \E t \in Token : ReadAccount(t)
    \/ \E t \in Token : ReadAmount(t)
    \/ \E t \in Token : ReadIssue(t)
    \/ \E t \in Token : ReadVector256(t)
    \/ \E t \in Token : ReadArray(t)
    \/ \E t \in Token : ReadObject(t)
    \/ \E t \in Token : ReadPathSet(t)
    \/ \E t \in Token : ReadPathStep(t)
    \/ EndOfStream

Spec == Init /\ [][Next]_vars

-----------------------------------------------------------------------------
(* What must hold.                                                         *)

Max2(m, n) == IF m > n THEN m ELSE n

ArrayTypes == {"NONE", "PATHSET"} \cup {t.id : t \in Token}

ArrayInfos == [type : ArrayTypes, index1 : Nat, index2 : 0..MaxStepCount + 1]

ParsedFields ==
    [data_type : {"ACCOUNT", "CURRENCY", "HASH256"} \cup {t.data_type : t \in Token},
     id : {"ACCOUNT", "ISSUER", "CURRENCY", "REGULAR_KEY", "NFTOKEN_OFFER"}
              \cup {t.id : t \in Token},
     value : {"issuer", "currency", "empty", "step"} \cup {t.value : t \in Token},
     length : Nat,
     array_info : ArrayInfos,
     object_depth : 0..DepthModulus - 1]

\* A row of a path has a path and a step number within the limits.
PathNumbered(f) ==
    f.data_type \in {"ACCOUNT", "CURRENCY"} /\ f.array_info.type = "PATHSET" =>
        f.array_info.index1 \in 1..MaxPathCount /\ f.array_info.index2 \in 1..MaxStepCount

Contexts ==
    [transaction_type : {"INVALID"} \cup {t.value : t \in Token}, has_empty_pub_key : BOOLEAN,
     fields : Seq(ParsedFields), current_array : ArrayTypes,
     array_index1 : 0..Max2(MaxArrayLen, MaxPathCount), array_index2 : 0..MaxStepCount + 1,
     object_depth : 0..DepthModulus - 1]

\* A path step is numbered from 1, as the user reads it.
PathIndices(c) ==
    c.current_array = "PATHSET" => c.array_index1 \in 1..MaxPathCount /\ c.array_index2 >= 1

ContextOK(c) ==
    /\ c \in Contexts
    /\ Len(c.fields) <= MaxFieldCount
    /\ PathIndices(c)
    /\ \A k \in DOMAIN c.fields : PathNumbered(c.fields[k])

\* Every variable has its type.  While the stream is read the fields never leave their array
\* and the 8-bit indices stay within the limits, so that the title of a row never shows a
\* wrapped number.
TypeOK ==
    /\ verdict \in {"parsing", "SUCCESS", "BLIND_SIGN_REQUIRED", "NOT_SUPPORTED",
                    "INVALID_STATE", "NOT_ENOUGH_SPACE", "EXCEPTION_OVERFLOW"}
    /\ input \in Seq(Token)
    /\ verdict = "parsing" => ContextOK(context)

\* What no transaction that is shown in clear contains.
Malformed(t) ==
    \/ t.data_type = "other"
    \/ t.data_type = "ACCOUNT" /\ t.length # AccountSize
    \/ t.data_type = "AMOUNT" /\ t.value = "fake"
    \/ t.data_type = "VECTOR256" /\ t.length % Vector256Size # 0
    \/ t.data_type = "STEP" /\ t.id = "bad"

\* A transaction that is shown in clear is of a type the application supports and holds
\* nothing it cannot name, and no malformed field was passed over to get there.
ClearMeansUnderstood ==
    verdict = "SUCCESS" =>
        /\ context.transaction_type \in Supported
        /\ \A k \in DOMAIN context.fields : is_field_recognized(context.fields[k])
        /\ \A k \in DOMAIN input : ~Malformed(input[k])

=============================================================================
