------------------------------ MODULE XrpAmount ------------------------------
(***************************************************************************)
(* The text of amounts and currencies (xrp/amount.c).  An issued amount is *)
(* a sign, eight bits of exponent and a mantissa; a currency is a sequence *)
(* of bytes, each of which is the character it stands for.                 *)
(*                                                                         *)
(* A formatter writes to a buffer that format_field has zeroed, so that    *)
(* what is not written ends the text.                                      *)
(***************************************************************************)
EXTENDS XrpPrint

CONSTANTS
    AmountBit,     \* 0x4000000000000000: an amount of XRP is positive; scaled down
    MantissaMin,   \* MANTISSA_MIN (10^15), scaled down
    MantissaMax,   \* MANTISSA_MAX (10^16 - 1), scaled down
    ExpMin,        \* EXP_MIN (-96), scaled down
    ExpMax,        \* EXP_MAX (80), scaled down
    NumberRoom,    \* the room parse_decimal_number asks for (100), scaled down
    MaxFieldLen,   \* MAX_FIELD_LEN: the size of a row's buffer (128 or 1024), scaled down
    CurrencySize,  \* XRP_CURRENCY_SIZE (20), scaled down
    TickerStart,   \* where the three characters of a standard code begin, from 1
    TickerChar,    \* is_valid_ticker_char
    Printable,     \* the characters from 32 to 126
    Hex(_)         \* the two digits of a byte (readers.c)

\* The limits leave just the room that is asked for: sign, "0.", the zeros and the mantissa,
\* and the end of the text.
ASSUME AmountAssumption ==
    /\ AmountBit \in 1..Ten[MaxDigits]
    /\ MantissaMin \in Nat \ {0} /\ MantissaMax \in 0..Ten[MaxDigits] - 1
    /\ ExpMin \in Int /\ ExpMin < 0 /\ ExpMax \in Nat \ {0}
    /\ NumberRoom \in Nat /\ MaxFieldLen \in Nat /\ CurrencySize \in Nat
    /\ NumberRoom >= 4 - ExpMin /\ NumberRoom >= NumDigits(MantissaMax) + ExpMax + 2
    /\ MaxFieldLen - 4 >= NumberRoom
    /\ TickerChar \subseteq Printable /\ {"X", "R", "P"} \subseteq TickerChar
    /\ "NUL" \notin Printable
    /\ TickerStart \in 1..CurrencySize - 2

\* ExponentBias: 0 stands for one less than the least exponent.
ExponentBias == 1 - ExpMin

-----------------------------------------------------------------------------
(* Numbers.                                                                *)

\* The zeros at the end of a mantissa.
TrailingZeros(mantissa) == Max({n \in 0..MaxDigits : mantissa % Base[n] = 0})

\* Defect: the exponent is counted up once, not for every zero.
normalize_once(mantissa, exponent) ==
    [mantissa |-> mantissa \div Base[TrailingZeros(mantissa)],
     exponent |-> IF TrailingZeros(mantissa) > 0 THEN exponent + 1 ELSE exponent]

normalize(mantissa, exponent) ==
    [mantissa |-> mantissa \div Base[TrailingZeros(mantissa)],
     exponent |-> exponent + TrailingZeros(mantissa)]

\* The mantissa with the point in its place: after the zeros that follow it, inside it, or
\* before the zeros that precede it.
Positioned(digits, exponent) ==
    LET decimal_pos == Len(digits) + exponent
    IN  IF exponent >= 0 THEN digits \o Zeros(exponent)
        ELSE IF decimal_pos > 0
        THEN SubSeq(digits, 1, decimal_pos) \o <<".">>
                 \o SubSeq(digits, decimal_pos + 1, Len(digits))
        ELSE <<"0", ".">> \o Zeros(-decimal_pos) \o digits

\* Defect: any exponent of eight bits is printed.
any_exponent(exponent, mantissa) == mantissa \in MantissaMin..MantissaMax

InRange(exponent, mantissa) ==
    exponent \in ExpMin..ExpMax /\ mantissa \in MantissaMin..MantissaMax

\* The sign bit is 0 for a negative number.
parse_decimal_number(max_len, sign, exponent, mantissa) ==
    LET n == normalize(mantissa, exponent)
    IN  CASE max_len < NumberRoom -> Refused
          [] max_len >= NumberRoom /\ <<sign, exponent, mantissa>> = <<0, 0, 0>> -> <<"0">>
          [] max_len >= NumberRoom /\ InRange(exponent, mantissa) ->
                 (IF sign = 0 THEN <<"-">> ELSE << >>) \o Positioned(Digits(n.mantissa), n.exponent)
          [] OTHER -> Refused

-----------------------------------------------------------------------------
(* Currencies.                                                             *)

TickerAt == TickerStart..TickerStart + 2

TickerOf(currency) == SubSeq(currency, TickerStart, TickerStart + 2)

is_all_zeros(currency) == \A i \in 1..CurrencySize : currency[i] = "NUL"

StandardStructure(currency) == \A i \in 1..CurrencySize \ TickerAt : currency[i] = "NUL"

\* Defect: a standard code may spell XRP.
reserved_too(currency) ==
    StandardStructure(currency) /\ \A i \in TickerAt : currency[i] \in TickerChar

is_standard_currency_code(currency) ==
    /\ StandardStructure(currency)
    /\ \A i \in TickerAt : currency[i] \in TickerChar
    /\ TickerOf(currency) # Ticker

\* What the parser accepts as the currency of an issued amount or of an issue.
is_valid_currency(currency) ==
    \/ is_all_zeros(currency)
    \/ ~(StandardStructure(currency) /\ TickerOf(currency) = Ticker)

has_non_standard_currency(currency) ==
    ~is_standard_currency_code(currency) /\ ~is_all_zeros(currency)

\* Two digits for every byte.
read_hex(bytes) == [k \in 1..2 * Len(bytes) |-> Hex(bytes[(k + 1) \div 2])[2 - (k % 2)]]

\* Up to the first zero byte.
CString(bytes) ==
    SubSeq(bytes, 1, Min({i \in DOMAIN bytes : bytes[i] = "NUL"} \cup {Len(bytes) + 1}) - 1)

\* With allow_suffix zero bytes may follow the first character, and only they.
is_purely_ascii(bytes, allow_suffix) ==
    LET text == IF allow_suffix /\ bytes # << >> /\ Head(bytes) # "NUL" THEN CString(bytes) ELSE bytes
    IN  /\ \A i \in DOMAIN text : text[i] \in Printable
        /\ \A i \in Len(text) + 1..Len(bytes) : bytes[i] = "NUL"

\* strstr(text, "XRP")
Mentions(text, word) ==
    \E i \in 0..Len(text) - Len(word) : SubSeq(text, i + 1, i + Len(word)) = word

\* format_standard_currency: the code before the number of an issued amount.
CurrencyPrefix(currency) ==
    CASE has_non_standard_currency(currency) -> << >>
      [] is_all_zeros(currency) -> Ticker \o <<" ">>
      [] OTHER -> TickerOf(currency) \o <<" ">>

\* Defect: any text is shown as it is.
ascii_only(currency) == is_purely_ascii(currency, TRUE) /\ Last(currency) = "NUL"

ShownAsText(currency) ==
    /\ is_purely_ascii(currency, TRUE)
    /\ Last(currency) = "NUL"
    /\ ~Mentions(CString(currency), Ticker)

\* format_non_standard_currency
currency_formatter(currency) ==
    CASE has_non_standard_currency(currency) /\ ShownAsText(currency) -> CString(currency)
      [] has_non_standard_currency(currency) /\ ~ShownAsText(currency) -> read_hex(currency)
      [] is_all_zeros(currency) -> Ticker
      [] OTHER -> TickerOf(currency)

-----------------------------------------------------------------------------
(* Amounts.                                                                *)

\* A message, taken for one character.
InvalidAmount == <<"Invalid amount!">>

OrInvalid(text) == IF text = Refused THEN InvalidAmount ELSE text

format_xrp(amount) ==
    IF (amount \div AmountBit) % 2 = 0 THEN InvalidAmount
    ELSE OrInvalid(xrp_print_amount(amount - AmountBit))

\* The number zero has the sign, the exponent and the mantissa 0.
format_issued_currency(max_len, value) ==
    IF value.sign = 0 /\ value.exponent_bits = 0 /\ value.mantissa = 0 THEN <<"0">>
    ELSE parse_decimal_number(max_len, value.sign, value.exponent_bits - ExponentBias, value.mantissa)

format_issued(value, currency) ==
    LET prefix == CurrencyPrefix(currency)
        number == format_issued_currency(MaxFieldLen - Len(prefix), value)
    IN  IF number = Refused THEN InvalidAmount ELSE prefix \o number

=============================================================================
