---------------------------- MODULE MCXrpDisplay ----------------------------
(***************************************************************************)
(* Reviews of one field, for every value that makes a difference, and of   *)
(* five fields, for the pages.                                             *)
(***************************************************************************)
EXTENDS XrpDisplay

MCExpMin == -4

\* ASCII codes, and one byte that is none.
MCHex(c) ==
    CASE c = "NUL" -> <<"0", "0">> [] c = "X" -> <<"5", "8">> [] c = "R" -> <<"5", "2">>
      [] c = "P" -> <<"5", "0">> [] c = "~" -> <<"7", "e">> [] c = "hi" -> <<"9", "1">>

MCAlphabet ==
    <<"r", "p", "s", "h", "n", "a", "f", "3", "9", "w", "B", "U", "D", "N", "E",
      "G", "H", "J", "K", "L", "M", "4", "P", "Q", "R", "S", "T", "7", "V", "W",
      "X", "Y", "Z", "2", "b", "c", "d", "e", "C", "g", "6", "5", "j", "k", "m",
      "8", "o", "F", "q", "i", "1", "t", "u", "v", "A", "x", "y", "z">>

MCChecksum(bytes) == <<FoldLeft(LAMBDA sum, b : (7 * sum + b + 31) % InBase, 5, bytes)>>

FewCurrencies == [1..CurrencySize -> {"NUL", "X", "~"}]

Currencies == [1..CurrencySize -> {"NUL", "X", "R", "P", "hi"}]

Drops == {[data_type |-> "AMOUNT", drops |-> n] : n \in 0..2 * AmountBit - 1}

\* The parser takes no currency of zeros and no reserved code in an issued amount.
IssuedIn ==
    {c \in {<<"NUL", "R", "X", "P", "NUL">>, <<"NUL", "X", "R", "P", "NUL">>, <<"NUL", "P", "NUL", "P", "NUL">>,
            <<"NUL", "NUL", "NUL", "NUL", "NUL">>, <<"X", "R", "P", "NUL", "NUL">>} :
         is_valid_currency(c) /\ ~is_all_zeros(c)}

Mantissas == {0, 1, 99, 100, 101, 110, 120, 123, 200, 500, 900, 909, 990, 999, 1000, 1023}

Value(s, e, m) == [sign |-> s, exponent_bits |-> e, mantissa |-> m]

Issued ==
    {[data_type |-> "AMOUNT", currency |-> c, value |-> Value(s, e, m)] :
         c \in IssuedIn, s \in 0..1, e \in 0..9 \cup {30}, m \in Mantissas}
    \cup {[data_type |-> "AMOUNT", currency |-> <<"NUL", "P", "R", "X", "NUL">>, value |-> Value(1, e, m)] :
              e \in 0..8, m \in MantissaMin - 1..MantissaMax + 1}

Codes == {[data_type |-> "ISSUE", currency |-> c] : c \in Currencies}
             \cup {[data_type |-> "CURRENCY", currency |-> c] : c \in FewCurrencies}

Rates ==
    {[data_type |-> "TRANSFER_RATE", number |-> n] : n \in {0, 1, 9999} \cup 10000..10120 \cup {11000, 20000}}
    \cup {[data_type |-> "QUALITY", number |-> n] : n \in 0..220 \cup {999, 1000, 9999, 10000, 10500, 99999}}

Numbers ==
    {[data_type |-> "NUMBER", number |-> n] : n \in 0..120 \cup {900, 990, 999}}
    \cup {[data_type |-> "VECTOR256", length |-> n * Vector256Size] : n \in {0, 1, 12}}

Bytes == {0, 1, 57, 58, 59, 116, 200, 255}

Accounts ==
    {[data_type |-> "ACCOUNT", account |-> <<a, b>>] : a \in Bytes, b \in Bytes}
    \cup {[data_type |-> "ACCOUNT", account |-> << >>]}

\* Texts and bytes about as long as the buffer.
Run(n, last) == [k \in 1..n |-> IF k = n THEN last ELSE IF k % 2 = 0 THEN "X" ELSE "~"]

Blobs ==
    {[data_type |-> "VL", bytes |-> Run(n, last), textual |-> t] :
         n \in {0, 1, 2, 11, 12, 21, 22, 23, 24, 30}, last \in {"NUL", "P", "hi"}, t \in BOOLEAN}
    \cup {[data_type |-> "HASH", bytes |-> Run(8, "hi")]}

Single == Drops \cup Issued \cup Codes \cup Rates \cup Numbers \cup Accounts \cup Blobs

Some(fields) == CHOOSE f \in fields : TRUE

Mixed ==
    {<<a, b, c, Some(Accounts), e>> :
         a \in {Some(Drops), Some(Issued)}, b \in {Some(Rates), Some(Blobs)},
         c \in {Some(Codes), Some(Drops)}, e \in {Some(Numbers), Some(Blobs)}}

MCTransactions == {<<f>> : f \in Single} \cup Mixed
=============================================================================
