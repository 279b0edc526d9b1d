------------------------------ MODULE MCXrpApp ------------------------------
(***************************************************************************)
(* A small instance of XrpApp.  Transaction data is made of three kinds of *)
(* bytes: "t" ordinary data, "o" data that cannot be clear-signed, "m" the *)
(* empty SigningPubKey of a multi-signed transaction.  A transaction of    *)
(* no bytes does not parse.                                                *)
(***************************************************************************)
EXTENDS XrpApp

CONSTANTS path1

MCByte == {"t", "o", "m"}
MCByteSmall == {"t", "o"}
MCPath == {path1}

\* The fields on display are those of the data; nothing is displayed of an empty one.
MCFields == TxData

Has(data, byte) == \E i \in DOMAIN data : data[i] = byte

MCParseTx(data) ==
    [exception |-> IF data = << >> THEN "ERROR"
                   ELSE IF Has(data, "o") THEN "BLIND_SIGN_REQUIRED" ELSE "SUCCESS",
     has_empty_pub_key |-> Has(data, "m"),
     fields |-> data]

MCNoFields == << >>

\* Exchange handed over the parameters of the transaction "t", "t".
MCSwapMatches(fields) == fields = <<"t", "t">>
=============================================================================
