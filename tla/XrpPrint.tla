------------------------------ MODULE XrpPrint ------------------------------
(***************************************************************************)
(* The printing of numbers and of amounts of XRP (xrp/xrp_helpers.c,       *)
(* print_uint64_t of xrp/amount.c), and what a text says when it is read   *)
(* as a decimal number.  A text is a sequence of characters.               *)
(***************************************************************************)
EXTENDS Integers, Sequences, FiniteSets, SequencesExt

CONSTANTS
    WordSize,   \* 2^64: what a uint64_t holds, scaled down for TLC
    MaxDigits,  \* sizeof(tmp) - 1: the digits of an amount that is printed (19), scaled down
    Decimals    \* of an amount of XRP (6), scaled down

Numeral == <<"0", "1", "2", "3", "4", "5", "6", "7", "8", "9">>

Numerals == {Numeral[i] : i \in 1..10}

Zeros(n) == [k \in 1..n |-> "0"]

\* The powers of ten.
Ten[n \in Nat] == IF n = 0 THEN 1 ELSE 10 * Ten[n - 1]

\* The widths are those of the code: the word has numbers of one digit more than are
\* printed, but not all of them.
ASSUME PrintAssumption ==
    /\ WordSize \in Nat \ {0} /\ MaxDigits \in Nat \ {0}
    /\ Ten[MaxDigits] < WordSize /\ WordSize < Ten[MaxDigits + 1]
    /\ Decimals \in 1..MaxDigits

\* base: multiplied by ten in a 64-bit word.
Base[n \in 0..MaxDigits] == IF n = 0 THEN 1 ELSE (10 * Base[n - 1]) % WordSize

\* num_digits: the rounds of the loop until base exceeds the value, 0 for the value 0.  More
\* than MaxDigits are refused, in the round before base would overflow.
NumDigits(value) == Min({n \in 0..MaxDigits : Base[n] > value} \cup {MaxDigits + 1})

DigitsOf(value, count) ==
    [k \in 1..count |-> Numeral[1 + ((value \div Base[count - k]) % 10)]]

Digits(value) == DigitsOf(value, NumDigits(value))

\* "%u" of the C library
Unsigned(value) == IF value = 0 THEN <<"0">> ELSE Digits(value)

-----------------------------------------------------------------------------
(* xrp_print_amount.                                                       *)

\* The zeros at the end are cut off, and the point if nothing follows it.
WithoutZeros(head, tail) ==
    LET kept == Max({k \in DOMAIN tail : tail[k] # "0"} \cup {0})
    IN  IF kept = 0 /\ tail # << >> /\ Last(head) = "." THEN Front(head)
        ELSE head \o SubSeq(tail, 1, kept)

\* Defect: one zero too few after the point.
short_padding(length) == Zeros(Decimals - length - 1)

Padding(length) == Zeros(Decimals - length)

adjust_decimals(src) ==
    IF src = <<"0">> THEN <<"0">>
    ELSE IF Len(src) <= Decimals
    THEN WithoutZeros(<<"0", ".">> \o Padding(Len(src)), src)
    ELSE WithoutZeros(SubSeq(src, 1, Len(src) - Decimals) \o <<".">>,
                      SubSeq(src, Len(src) - Decimals + 1, Len(src)))

Ticker == <<"X", "R", "P">>

\* Nothing is printed on an error.
Refused == << >>

\* The buffers have room for every amount that is not refused: tmp for its digits, tmp2 for
\* the point and one more character.
xrp_print_amount(amount) ==
    IF NumDigits(amount) > MaxDigits THEN Refused
    ELSE Ticker \o <<" ">> \o adjust_decimals(Digits(amount))

-----------------------------------------------------------------------------
(* Reading.                                                                *)

Weight(c) == CHOOSE d \in 0..9 : Numeral[d + 1] = c

NumberOf(digits) ==
    LET upTo[k \in 0..Len(digits)] ==
            IF k = 0 THEN 0 ELSE 10 * upTo[k - 1] + Weight(digits[k])
    IN  upTo[Len(digits)]

\* Digits, and digits after a point.
IsDecimal(text) ==
    /\ text # << >> /\ Head(text) \in Numerals /\ Last(text) \in Numerals
    /\ \A k \in DOMAIN text : text[k] \in Numerals \cup {"."}
    /\ Cardinality({k \in DOMAIN text : text[k] = "."}) <= 1

\* The number a decimal text says, times 10^scale; scale is not less than the digits after
\* the point.
Read(text, scale) ==
    LET point == Min({k \in DOMAIN text : text[k] = "."} \cup {Len(text) + 1})
        fraction == SubSeq(text, point + 1, Len(text))
    IN  NumberOf(SubSeq(text, 1, point - 1) \o fraction \o Zeros(scale - Len(fraction)))

\* A text that says value / 10^scale, and says it without needless zeros unless it is 0.
SaysScaled(text, value, scale) ==
    /\ IsDecimal(text)
    /\ Read(text, scale) = value
    /\ value # 0 => /\ Head(text) = "0" => text[2] = "."
                    /\ "." \in Range(text) => Last(text) # "0"

SaysXRP(text, drops) ==
    /\ IsPrefix(Ticker \o <<" ">>, text)
    /\ SaysScaled(SubSeq(text, 5, Len(text)), drops, Decimals)

=============================================================================
