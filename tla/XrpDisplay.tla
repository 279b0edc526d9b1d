------------------------------ MODULE XrpDisplay ------------------------------
(***************************************************************************)
(* The pages of a review (ui/transaction/review_menu_nbgl.c).  The display *)
(* library asks for the pairs of a page one after the other and shows the  *)
(* texts that the pairs point to, so that a text must stay where it is as  *)
(* long as its page is shown.                                              *)
(*                                                                         *)
(* What a page says is stated of the bytes of the fields, by reading the   *)
(* text back.                                                              *)
(***************************************************************************)
EXTENDS XrpFormat, Subsequence

CONSTANTS
    Transactions,      \* sequences of fields, as the parser leaves them
    MaxFieldsPerPage,  \* MAX_FIELDS_PER_PAGE (8), scaled down
    PairsOnPage        \* what the display library puts on a page at most

ASSUME DisplayAssumption == MaxFieldsPerPage \in Nat \ {0} /\ PairsOnPage \in 1..MaxFieldsPerPage

\* The formatters that are modelled here.
DataTypes ==
    {"AMOUNT", "CURRENCY", "ISSUE", "ACCOUNT", "VL", "HASH", "VECTOR256", "TRANSFER_RATE", "QUALITY", "NUMBER"}

\* What the parser leaves of a field: an amount is one of XRP, or an issued one with a
\* currency of its own; an account and its checksum are bytes; a number has no more digits
\* than are printed; a hash fits its row.
IsField(f) ==
    /\ f.data_type \in DataTypes
    /\ f.data_type = "AMOUNT" =>
           \/ DOMAIN f = {"data_type", "drops"} /\ f.drops \in 0..(2 * AmountBit) - 1
           \/ /\ DOMAIN f = {"data_type", "currency", "value"}
              /\ IsBytes(f.currency) /\ Len(f.currency) = CurrencySize
              /\ is_valid_currency(f.currency) /\ ~is_all_zeros(f.currency)
              /\ f.value \in [sign : 0..1, exponent_bits : Nat, mantissa : Nat]
    /\ f.data_type \in {"CURRENCY", "ISSUE"} => IsBytes(f.currency) /\ Len(f.currency) = CurrencySize
    /\ f.data_type = "ACCOUNT" /\ f.account # << >> =>
           LET checksum == Checksum(<<0>> \o f.account)
           IN  /\ f.account \in Seq(0..InBase - 1) /\ checksum \in Seq(0..InBase - 1)
               /\ Len(f.account) + Len(checksum) <= AddressSize
    /\ f.data_type \in {"VL", "HASH"} => IsBytes(f.bytes)
    /\ f.data_type = "VL" => f.textual \in BOOLEAN
    /\ f.data_type = "HASH" => 2 * Len(f.bytes) <= MaxText
    /\ f.data_type = "NUMBER" => f.number \in 0..Ten[MaxDigits] - 1
    /\ f.data_type = "VECTOR256" => f.length \in Nat /\ f.length \div Vector256Size < Ten[MaxDigits]
    /\ f.data_type \in {"TRANSFER_RATE", "QUALITY"} =>
           f.number \in Nat /\ f.number \div Denominator < Ten[MaxDigits]

ASSUME FieldAssumption == \A t \in Transactions : t \in Seq(Range(t)) /\ \A i \in DOMAIN t : IsField(t[i])

VARIABLES
    transaction,          \* the fields, << >> before the review
    segmented,            \* DISPLAY_SEGMENTED_ADDR: the smallest device
    txFieldValueStrings,  \* the texts, by slot
    page,                 \* the first index of the page, and the one after its last
    drawn                 \* the indexes asked for since the page was turned to

vars == <<transaction, segmented, txFieldValueStrings, page, drawn>>

Blank == << >>

\* Defect: every pair is written to the same place.
one_slot(index) == 0

Slot(index) == index % MaxFieldsPerPage

Init ==
    /\ transaction = << >>
    /\ segmented \in BOOLEAN
    /\ txFieldValueStrings = [s \in 0..MaxFieldsPerPage - 1 |-> Blank]
    /\ page = <<0, 0>>
    /\ drawn = {}

\* display_review_menu, display_blind_signed_review
display_review_menu(t) ==
    /\ transaction = << >>
    /\ transaction' = t
    /\ txFieldValueStrings' = [s \in 0..MaxFieldsPerPage - 1 |-> Blank]
    /\ UNCHANGED <<segmented, page, drawn>>

\* The library turns to some run of pairs, forward or back.
TurnPage(first, count) ==
    /\ first + count <= Len(transaction)
    /\ page' = <<first, first + count>>
    /\ drawn' = {}
    /\ UNCHANGED <<transaction, segmented, txFieldValueStrings>>

\* Indexes of pairs count from 0.
getPair(index) ==
    /\ index \in page[1]..page[2] - 1
    /\ index \notin drawn
    /\ txFieldValueStrings' =
           [txFieldValueStrings EXCEPT ![Slot(index)] = format_field(transaction[index + 1], segmented)]
    /\ drawn' = drawn \cup {index}
    /\ UNCHANGED <<transaction, segmented, page>>

Next ==
    \/ \E t \in Transactions : display_review_menu(t)
    \/ \E first \in 0..Len(transaction) - 1, count \in 1..PairsOnPage : TurnPage(first, count)
    \/ \E index \in page[1]..page[2] - 1 : getPair(index)

Spec == Init /\ [][Next]_vars

-----------------------------------------------------------------------------
(* What must hold of the texts on the page.                                *)

Field(index) == transaction[index + 1]

Shown(index) == txFieldValueStrings[Slot(index)]

Drawn(data_types) == {index \in drawn : Field(index).data_type \in data_types}

\* A text never needs more than its buffer, which is zeroed and whose last byte ends it,
\* whatever exponent and mantissa an amount has, and it never is empty.
TextFits == \A index \in drawn : Shown(index) # Blank /\ Len(Shown(index)) <= MaxText

TypeOK ==
    /\ segmented \in BOOLEAN
    /\ DOMAIN txFieldValueStrings = 0..MaxFieldsPerPage - 1
    /\ drawn \subseteq page[1]..page[2] - 1
    /\ TextFits

\* The exponent and the mantissa that the ledger allows.
Canonical(value) ==
    /\ value.exponent_bits - ExponentBias \in ExpMin..ExpMax
    /\ value.mantissa \in MantissaMin..MantissaMax

IsZero(value) == value = [sign |-> 0, exponent_bits |-> 0, mantissa |-> 0]

\* The number times 10^-ExpMin, without its sign.
Scaled(value) == value.mantissa * Ten[value.exponent_bits - ExponentBias - ExpMin]

SaysIssued(number, value) ==
    IF IsZero(value) THEN number = <<"0">>
    ELSE IF value.sign = 1 THEN SaysScaled(number, Scaled(value), -ExpMin)
    ELSE Head(number) = "-" /\ SaysScaled(Tail(number), Scaled(value), -ExpMin)

\* The standard code of the currency stands before the number, and nothing does if it has
\* none: then its row is another one.
AfterCode(text, currency) ==
    IF is_standard_currency_code(currency)
    THEN IF IsPrefix(TickerOf(currency) \o <<" ">>, text) THEN SubSeq(text, 5, Len(text)) ELSE Blank
    ELSE text

\* An amount reads back as the number that is signed, digit for digit: the drops of XRP, the
\* sign, the exponent and the mantissa of an issued amount with its code.  What the ledger
\* does not allow is called invalid, and nothing else is; there are mantissas of 0 with an
\* exponent that read as 0.
AmountReadsBack ==
    \A index \in Drawn({"AMOUNT"}) :
        LET f == Field(index)
            text == Shown(index)
        IN  IF "drops" \in DOMAIN f
            THEN IF f.drops < AmountBit THEN text = InvalidAmount ELSE SaysXRP(text, f.drops - AmountBit)
            ELSE IF Canonical(f.value) \/ IsZero(f.value)
            THEN SaysIssued(AfterCode(text, f.currency), f.value)
            ELSE \/ text = InvalidAmount
                 \/ f.value.mantissa = 0 /\ AfterCode(text, f.currency) = <<"0">>

Surrounded(text, currency) ==
    \E before \in 0..CurrencySize :
        /\ before + Len(text) <= CurrencySize
        /\ \A i \in 1..CurrencySize :
               currency[i] = IF i \in before + 1..before + Len(text) THEN text[i - before] ELSE "NUL"

\* Only the currency of the ledger reads as XRP or has XRP in its text.  Any other shows
\* the characters it has between its zero bytes, or every byte as two digits.
CurrencyReadsBack ==
    \A index \in Drawn({"CURRENCY", "ISSUE"}) :
        LET currency == Field(index).currency
            text == Shown(index)
        IN  IF is_all_zeros(currency) THEN text = Ticker
            ELSE \/ text = read_hex(currency)
                 \/ /\ Range(text) \subseteq Printable
                    /\ ~Mentions(text, Ticker)
                    /\ Surrounded(text, currency)

SaysPercent(text, value) ==
    /\ Len(text) > 2 /\ SubSeq(text, Len(text) - 1, Len(text)) = <<" ", "%">>
    /\ SaysScaled(SubSeq(text, 1, Len(text) - 2), value, RateDecimals)

\* A number reads back as itself, a list as the number of its entries, a transfer rate as
\* the fee it stands for, a quality as the rate it stands for; 0 is no fee and full value.
NumberReadsBack ==
    \A index \in Drawn({"NUMBER", "VECTOR256", "TRANSFER_RATE", "QUALITY"}) :
        LET f == Field(index)
            text == Shown(index)
        IN  CASE f.data_type = "NUMBER" -> SaysScaled(text, f.number, 0)
              [] f.data_type = "VECTOR256" -> SaysScaled(text, f.length \div Vector256Size, 0)
              [] f.data_type = "TRANSFER_RATE" ->
                     IF f.number \in 1..Parity - 1 THEN text = InvalidValue
                     ELSE SaysPercent(text, IF f.number = 0 THEN 0 ELSE f.number - Parity)
              [] f.data_type = "QUALITY" ->
                     SaysPercent(text, IF f.number = 0 THEN Parity ELSE f.number)

\* A text without its spaces.
Unspaced(text) == AtPositions(text, {i \in DOMAIN text : text[i] # " "})

\* An address without its spaces is the base58 text of the account with its checksum, and in
\* three segments each of them is on a page of its own.
AddressReadsBack ==
    \A index \in Drawn({"ACCOUNT"}) :
        LET account == Field(index).account
            hashed == <<0>> \o account
            letters == Unspaced(Shown(index))
        IN  IF account = << >> THEN Shown(index) = <<"[empty]">>
            ELSE /\ Encodes(letters, hashed \o Checksum(hashed))
                 /\ segmented => Len(Shown(index)) = 3 * PageWidth

\* A blob or a hash is shown whole, and if it does not fit, as much of it as fits with three
\* dots at its end.
TextIsWholeOrMarked ==
    \A index \in Drawn({"VL", "HASH"}) :
        LET f == Field(index)
            text == Shown(index)
            whole == IF f.data_type = "VL" /\ f.textual /\ Range(f.bytes) \subseteq Printable
                     THEN f.bytes ELSE read_hex(f.bytes)
        IN  CASE whole = << >> -> text = <<" ">>
              [] whole # << >> /\ Len(whole) <= MaxText -> text = whole
              [] Len(whole) > MaxText -> text = SubSeq(whole, 1, MaxText - 3) \o Dots

=============================================================================
