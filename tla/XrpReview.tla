------------------------------ MODULE XrpReview ------------------------------
(***************************************************************************)
(* What a review must be, stated of the stream itself and not of the way   *)
(* the parser goes through it: where a field stands is counted from the    *)
(* brackets around it, and the review is what the fields of the stream     *)
(* spell out, in review order.                                             *)
(***************************************************************************)
EXTENDS XrpParse, SequencesExt

Position == DOMAIN input

Begins(t, data_type) == t.data_type = data_type /\ t.id # "END"

PathSets == {k \in Position : input[k].data_type = "PATHSET"}

Inside(brackets, t) ==
    IF t.data_type \notin {"ARRAY", "OBJECT"} THEN brackets
    ELSE IF t.id # "END" THEN Append(brackets, t.data_type)
    ELSE IF brackets # << >> /\ Last(brackets) = t.data_type THEN Front(brackets)
    ELSE Append(brackets, "broken")

\* The brackets open after k tokens.
Brackets[k \in 0..Len(input)] ==
    IF k = 0 THEN << >> ELSE Inside(Brackets[k - 1], input[k])

OpenObjects(k) == Cardinality({j \in DOMAIN Brackets[k] : Brackets[k][j] = "OBJECT"})

\* Every bracket that is closed is the last one opened, and arrays hold objects only: the
\* streams of well-formed transactions, nested as deeply as object_depth can count.
Sound ==
    /\ \A k \in 0..Len(input) : OpenObjects(k) < DepthModulus
    /\ \A k \in 0..Len(input) : "broken" \notin Range(Brackets[k])
    /\ \A k \in Position :
           Brackets[k - 1] # << >> /\ Last(Brackets[k - 1]) = "ARRAY" =>
               Begins(input[k], "OBJECT") \/ Is(input[k], "ARRAY", "END")

Shapes == {<< >>, <<"ARRAY">>, <<"ARRAY", "OBJECT">>, <<"OBJECT">>}

\* Arrays of objects of plain fields and objects of plain fields: the shape of every
\* transaction the application names, as far as the stream goes.
Plain ==
    /\ Sound
    /\ \A k \in 0..Len(input) : Brackets[k] \in Shapes
    /\ \A k \in PathSets : Brackets[k - 1] # <<"ARRAY", "OBJECT">>

\* All of them are closed.
Flat == Plain /\ Brackets[Len(input)] = << >> /\ context.current_array = "NONE"

OfTransaction(k) == Brackets[k - 1] = << >>

LastBefore(k, S) == Max({j \in S : j < k})

Between(j, k, S) == Cardinality({m \in S : j < m /\ m < k})

NextPaths == {k \in Position : input[k].data_type = "STEP" /\ input[k].id = "NEXT"}
Arrays == {k \in Position : Begins(input[k], "ARRAY")}
Objects == {k \in Position : Begins(input[k], "OBJECT")}
TransactionTypes == {k \in Position : Is(input[k], "UINT16", "TRANSACTION_TYPE")}

\* The number of the path in its set and of the step in its path; the number of the object
\* in its array.  What an array with the id 0 (ARRAY_NONE) holds is not numbered.
Place(k) ==
    IF input[k].data_type = "STEP" THEN
        LET set == LastBefore(k, PathSets)
            path == LastBefore(k, PathSets \cup NextPaths)
        IN  [type |-> "PATHSET", index1 |-> 1 + Between(set, k, NextPaths), index2 |-> k - path]
    ELSE IF Brackets[k - 1] = <<"ARRAY", "OBJECT">> /\ input[LastBefore(k, Arrays)].id # "NONE" THEN
        LET array == LastBefore(k, Arrays)
        IN  [type |-> input[array].id, index1 |-> Between(array, k, Objects), index2 |-> 0]
    ELSE NoArray

Row(data_type, id, value, place) ==
    [data_type |-> data_type, id |-> id, value |-> value, array_info |-> place]

RowOf(f) == Row(f.data_type, f.id, f.value, f.array_info)

\* The rows a field stands for in its place.
Rows(t, place) ==
    LET self == Row(t.data_type, t.id, t.value, place)
        issuer == Row("ACCOUNT", "ISSUER", "issuer", place)
        currency == Row("CURRENCY", "CURRENCY", "currency", place)
        entry(n) == Row("HASH256", "NFTOKEN_OFFER", t.value,
                        [type |-> t.id, index1 |-> n, index2 |-> place.index2])
    IN  CASE t.data_type \in {"ARRAY", "OBJECT", "PATHSET"} -> << >>
          [] t.data_type = "STEP" ->
                 (CASE t.id \in {"NEXT", "END"} -> << >>
                    [] t.id = "ACCOUNT" -> <<Row("ACCOUNT", "ACCOUNT", "step", place)>>
                    [] t.id = "ISSUER" -> <<issuer>>
                    [] t.id = "CURRENCY" -> <<currency>>
                    [] t.id = "CURRENCY_ISSUER" -> <<currency, issuer>>)
          [] t.data_type = "VECTOR256" ->
                 <<self>> \o [n \in 1..t.length \div Vector256Size |-> entry(n)]
          [] <<t.data_type, t.value>> \in {<<"AMOUNT", "issued">>, <<"ISSUE", "token">>} ->
                 <<self, issuer>>
          [] t.data_type = "AMOUNT" /\ t.value = "nonstandard" -> <<self, currency, issuer>>
          [] OTHER -> <<self>>

\* The fields a review leaves out: sequence numbers and signing key of the transaction,
\* flags that say nothing.
Unshown(t, place) ==
    \/ <<t.data_type, t.id>> \in HiddenOutsideArrays /\ place.type = "NONE"
    \/ is_flag_hidden(t)

LeftOut(k) == Unshown(input[k], Place(k))

Spelled(t, place) == IF Unshown(t, place) THEN << >> ELSE Rows(t, place)

\* What the tokens of the stream spell out, each of them in its place.
Spelling == [k \in Position |-> Spelled(input[k], Place(k))]

ClearedKeyRows ==
    IF /\ context.transaction_type = "SET_REGULAR_KEY"
       /\ \A k \in Position : ~Is(input[k], "ACCOUNT", "REGULAR_KEY")
    THEN <<Row("ACCOUNT", "REGULAR_KEY", "empty", NoArray)>>
    ELSE << >>

Review == Order!StableSorted(FlattenSeq(Spelling) \o ClearedKeyRows)

-----------------------------------------------------------------------------
(* What must hold.                                                         *)

\* The review of a transaction that was read to its end has a row for every field of the
\* stream that is not left out, with its own data and its own place in its array or path, and
\* no other row; the type and the account come first and the rest keeps its order.
ReviewIsTheTransaction ==
    /\ verdict \in {"SUCCESS", "BLIND_SIGN_REQUIRED"} /\ Flat
    /\ \E k \in Position : TransactionTypes = {k} /\ OfTransaction(k)
    => [j \in DOMAIN context.fields |-> RowOf(context.fields[j])] = Review

\* The depth kept with every field is the number of objects it stands in, whatever arrays
\* were opened and closed in between and although depth is not kept per array: it is what
\* keeps a field of an object from being taken for one of the transaction.
DepthIsExact ==
    verdict = "parsing" /\ Sound => context.object_depth = OpenObjects(Len(input))

\* A transaction that is shown in clear is of the type the review was made for: that type
\* stands outside every array and object, and no other TransactionType of the stream is
\* anything but TRANSACTION_INVALID.
TypeIsTrusted ==
    verdict = "SUCCESS" /\ Sound =>
        \E k \in TransactionTypes :
            /\ OfTransaction(k)
            /\ context.transaction_type = input[k].value
            /\ \A j \in TransactionTypes \ {k} : input[j].value = "INVALID"

\* A transaction that is shown in clear has no flag the review cannot name, wherever Flags
\* stands in the stream and whether or not it is displayed.
FlagsAreKnown ==
    verdict = "SUCCESS" /\ Sound =>
        \A k \in Position : Is(input[k], "UINT32", "FLAGS") /\ OfTransaction(k) =>
            ~UnknownFlags(context.transaction_type, input[k].value)

\* A transaction is taken for a multi-signed one exactly when its own SigningPubKey is
\* empty: one inside an array or an object changes nothing.
MultiSignDetected ==
    verdict \in {"parsing", "SUCCESS", "BLIND_SIGN_REQUIRED"} /\ Sound =>
        (context.has_empty_pub_key <=>
            \E k \in Position : /\ Is(input[k], "VL", "SIGNING_PUB_KEY") /\ input[k].length = 0
                                /\ OfTransaction(k))

-----------------------------------------------------------------------------
(* What comments and tests say and the code does not do.                   *)

\* xrp_parse.c:600-602: a later occurrence of TransactionType forces blind signing.
SecondTypeForcesBlind == verdict = "SUCCESS" => Cardinality(TransactionTypes) <= 1

\* xrp_parse.c:717-719: a second top-level Flags field forces blind signing.
SecondFlagsForceBlind ==
    verdict = "SUCCESS" /\ Sound =>
        Cardinality({k \in Position : Is(input[k], "UINT32", "FLAGS") /\ OfTransaction(k)}) <= 1

=============================================================================
