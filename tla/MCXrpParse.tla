----------------------------- MODULE MCXrpParse -----------------------------
(***************************************************************************)
(* Streams of six families: nesting of the fields that decide, the         *)
(* numbering of arrays, the numbering of paths, the verdicts, the fields   *)
(* that bring others or fail, and the regular key cleared by its absence.  *)
(***************************************************************************)
EXTENDS XrpReview

Tok(data_type, id, value, length) ==
    [data_type |-> data_type, id |-> id, value |-> value, length |-> length]

Type(value) == Tok("UINT16", "TRANSACTION_TYPE", value, 0)
Flags(value) == Tok("UINT32", "FLAGS", value, 0)
Account == Tok("ACCOUNT", "ACCOUNT", "account", 20)
RegularKey == Tok("ACCOUNT", "REGULAR_KEY", "key", 20)
Sequence == Tok("UINT32", "SEQUENCE", "number", 0)
Tag == Tok("UINT32", "SOURCE_TAG", "number", 0)
Nameless == Tok("HASH256", "nameless", "hash", 0)
EmptyKey == Tok("VL", "SIGNING_PUB_KEY", "key", 0)
Array(id) == Tok("ARRAY", id, "none", 0)
Object(id) == Tok("OBJECT", id, "none", 0)
Amount(value) == Tok("AMOUNT", "AMOUNT", value, 0)
Asset == Tok("ISSUE", "ASSET", "token", 0)
Vector(length) == Tok("VECTOR256", "NFTOKEN_OFFERS", "hash", length)
PathSet == Tok("PATHSET", "PATHS", "none", 0)
Step(kind) == Tok("STEP", kind, "none", 0)

Opening == <<Type("PAYMENT"), Account>>

\* Streams that begin with head and go on with at most max of the tokens.
Nesting ==
    [head |-> << >>, max |-> 5,
     tokens |-> {Type("PAYMENT"), Account, Flags("known"), Flags("unknown"), EmptyKey,
                 Array("MEMOS"), Array("NONE"),
                 Array("END"), Object("MEMO"), Object("END")}]
Numbering ==
    [head |-> Opening \o <<Array("MEMOS"), Object("MEMO")>>, max |-> 6,
     tokens |-> {Array("END"), Object("MEMO"), Object("END"), Tag, Sequence}]
Paths ==
    [head |-> Opening \o <<PathSet>>, max |-> 6,
     tokens |-> {Step("NEXT"), Step("END"), Step("ACCOUNT"), Step("CURRENCY_ISSUER"), PathSet}]
Verdicts ==
    [head |-> << >>, max |-> 4,
     tokens |-> {Type("SET_REGULAR_KEY"), Type("PAYMENT"), Type("INVALID"), Type("OTHER"),
                 Account, RegularKey, Flags("zero"), Flags("unknown"), Nameless, EmptyKey}]
Errors ==
    [head |-> Opening, max |-> 3,
     tokens |-> {Tok("ACCOUNT", "ISSUER", "account", 19), Amount("fake"), Amount("nonstandard"),
                 Amount("issued"), Amount("native"), Asset, Tok("ISSUE", "ASSET", "xrp", 0),
                 Vector(33), Vector(64), Tok("other", "other", "none", 0), PathSet, Step("bad"),
                 Step("ISSUER"), Step("CURRENCY")}]

Clearing ==
    [head |-> <<Type("SET_REGULAR_KEY"), Account, Tag, Tag>>, max |-> 3,
     tokens |-> {Tag, RegularKey, Sequence}]

Family == {Nesting, Numbering, Paths, Verdicts, Errors, Clearing}

MCToken == UNION {family.tokens \cup Range(family.head) : family \in Family}

MCReadable(stream, t) ==
    \E family \in Family :
        LET n == Len(family.head)
        IN  IF Len(stream) < n THEN IsPrefix(Append(stream, t), family.head)
            ELSE /\ IsPrefix(family.head, stream) /\ t \in family.tokens
                 /\ Len(stream) < n + family.max
                 /\ \A k \in n + 1..Len(stream) : stream[k] \in family.tokens

MCNamed == {<<"UINT16", "TRANSACTION_TYPE">>, <<"UINT32", "FLAGS">>, <<"UINT32", "SEQUENCE">>,
            <<"UINT32", "SOURCE_TAG">>, <<"VL", "SIGNING_PUB_KEY">>, <<"ACCOUNT", "ACCOUNT">>,
            <<"ACCOUNT", "ISSUER">>, <<"ACCOUNT", "REGULAR_KEY">>, <<"AMOUNT", "AMOUNT">>,
            <<"ISSUE", "ASSET">>, <<"CURRENCY", "CURRENCY">>, <<"VECTOR256", "NFTOKEN_OFFERS">>,
            <<"HASH256", "NFTOKEN_OFFER">>}
MCNativeAmounts == {"native"}
MCSupported == {"PAYMENT", "SET_REGULAR_KEY"}

\* Payment has a formatter for flags, SetRegularKey has none.
MCUnknownFlags(type, value) == type = "PAYMENT" /\ value = "unknown"
=============================================================================
