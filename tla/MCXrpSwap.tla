------------------------------ MODULE MCXrpSwap ------------------------------
(***************************************************************************)
(* Payments in the order of the ledger's serialization with fields left    *)
(* out, doubled, changed or added, and the agreements they miss.           *)
(***************************************************************************)
EXTENDS XrpSwap

Tok(data_type, id, value, length) ==
    [data_type |-> data_type, id |-> id, value |-> value, length |-> length]

Type(value) == Tok("UINT16", "TRANSACTION_TYPE", value, 0)
Account(id, value) == Tok("ACCOUNT", id, value, 20)
Amount(id, value) == Tok("AMOUNT", id, value, 0)
Tag(value) == Tok("UINT32", "DESTINATION_TAG", value, 0)
Flags(value) == Tok("UINT32", "FLAGS", value, 0)

\* The fields in the order of the serialization, with the values they may have.
MCOrder ==
    <<{Type("PAYMENT"), Type("INVALID"), Type("OTHER")}, {Flags("zero"), Flags("known")},
      {Tok("UINT32", "SEQUENCE", "n1", 0)}, {Tag("n12"), Tag("n1")},
      {Amount("AMOUNT", "w84"), Amount("AMOUNT", "w20"), Amount("AMOUNT", "issued")},
      {Amount("FEE", "w84"), Amount("FEE", "w85")},
      {Tok("VL", "SIGNING_PUB_KEY", "key", 0)}, {Account("ACCOUNT", "bob")},
      {Account("DESTINATION", "alice"), Account("DESTINATION", "alicia")},
      {Tok("OBJECT", "MEMO", "none", 0), Tok("ARRAY", "MEMOS", "none", 0)},
      {Type("SET_REGULAR_KEY"), Tok("VL", "MEMO_DATA", "data", 1),
       Tok("UINT32", "LAST_LEDGER_SEQUENCE", "n1", 0)}>>

MCToken == UNION Range(MCOrder)

Rank(t) == CHOOSE n \in DOMAIN MCOrder : t \in MCOrder[n]

\* The fields a stream has in addition to, instead of, or short of the payment of the
\* first agreement.
MCPayment ==
    {Type("PAYMENT"), Tag("n12"), Amount("AMOUNT", "w84"), Amount("FEE", "w84"),
     Account("ACCOUNT", "bob"), Account("DESTINATION", "alice")}

Missing(stream, t) ==
    {p \in MCPayment : Rank(p) < Rank(t) /\ \A k \in DOMAIN stream : Rank(stream[k]) # Rank(p)}

Odd(stream) ==
    {k \in DOMAIN stream : stream[k] \notin MCPayment \/ \E j \in 1..k - 1 : stream[j] = stream[k]}

\* At most two deviations.
MCReadable(stream, t) ==
    /\ stream # << >> =>
           \/ Rank(Last(stream)) < Rank(t)
           \/ Rank(Last(stream)) = Rank(t) /\ Rank(t) \in {1, 4, 9}
    /\ Cardinality(Odd(Append(stream, t))) + Cardinality(Missing(stream, t)) <= 2

MCNamed == {<<"UINT16", "TRANSACTION_TYPE">>, <<"UINT32", "FLAGS">>, <<"UINT32", "SEQUENCE">>,
            <<"UINT32", "DESTINATION_TAG">>, <<"VL", "SIGNING_PUB_KEY">>, <<"VL", "MEMO_DATA">>,
            <<"ACCOUNT", "ACCOUNT">>, <<"ACCOUNT", "DESTINATION">>, <<"AMOUNT", "AMOUNT">>,
            <<"AMOUNT", "FEE">>, <<"ACCOUNT", "ISSUER">>}
MCSupported == {"PAYMENT", "SET_REGULAR_KEY"}
MCUnknownFlags(type, value) == FALSE

\* Words of eight bits, the seventh of which is the bit of an encoded amount.
MCWord(value) ==
    CASE value = "n1" -> 1 [] value = "n12" -> 12
      [] value = "w20" -> 20 [] value = "w84" -> 84 [] value = "w85" -> 85
MCNativeAmounts == {"w20", "w84", "w85"}
MCAddressText(account) ==
    CASE account = "alice" -> <<"r", "a">> [] account = "alicia" -> <<"r", "a", "b">>
      [] OTHER -> <<"r", "x">>

Agreement(address, tag, amount, fee) ==
    [destination_address |-> address, extra_id |-> tag, amount |-> amount, fee |-> fee]

MCAgreements ==
    {Agreement(<<"r", "a">>, <<1, 2>>, 20, 20), Agreement(<<"r", "a", "b">>, <<1, 2>>, 20, 21),
     Agreement(<<"r", "a">>, << >>, 20, 20), Agreement(<<"r", "a">>, <<0, 1>>, 20, 20),
     Agreement(<<"r", "a">>, <<1, 2>>, 84, 20), Agreement(<<"r", "a">>, <<1, 2>>, 20, 148),
     Agreement(<<"r", "a">>, <<1, 2>>, 148, 20),
     Agreement(<<"r", "a">>, <<1, 2>>, 256, 20), Agreement(<<"r", "a">>, <<1, 2, 3>>, 20, 20),
     Agreement(<<"r", "a", "b", "c", "d", "e">>, <<1>>, 20, 20)}

MCKeyAddress(path) == <<"r">> \o path

\* Paths that are missing, of no length, too short, too long or longer than they say.
MCChecks ==
    [address_to_check : {<< >>, <<"r">>, <<"r", "a">>, <<"r", "a", "b">>, <<"r", "b">>, <<"r", "a", "b", "c">>},
     address_parameters : {<< >>, <<0>>, <<0, "a">>, <<1>>, <<1, "a">>, <<1, "a", "b">>, <<2, "a">>,
                           <<2, "a", "b">>, <<3, "a", "b", "c">>}]
=============================================================================
