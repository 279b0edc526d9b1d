------------------------------ MODULE XrpFormat ------------------------------
(***************************************************************************)
(* The text of a field on a review page (xrp/fmt.c, xrp/general.c,         *)
(* xrp/percentage.c).  A field is a record with what its formatter reads.  *)
(* Flags and times are modules of their own.                               *)
(***************************************************************************)
EXTENDS XrpAmount, XrpBase58

CONSTANTS
    RateDecimals,  \* DENOMINATOR is 10^7: the decimals of a percentage, scaled down
    PageWidth,     \* PAGE_W (16), scaled down
    Vector256Size, \* 32
    Checksum(_)    \* the first bytes of a double SHA-256

ASSUME RateAssumption == RateDecimals \in 1..MaxDigits /\ Vector256Size \in Nat \ {0}

\* The longest of the three segments of an address fits its page.
ASSUME PageAssumption ==
    PageWidth \in Nat /\ OutputSize(AddressSize) + 1 <= (3 * PageWidth) - 2

IsBytes(bytes) == bytes \in Seq(Range(bytes))

-----------------------------------------------------------------------------
(* Percentages.                                                            *)

Denominator == Ten[RateDecimals]

\* The rate of an exchange without a fee: 100 %.
Parity == 100 * Denominator

\* "%0*u"
Padded(value, width) ==
    LET digits == IF value = 0 THEN << >> ELSE Digits(value)
    IN  Zeros(width - Len(digits)) \o digits

\* Defect: the zeros before the point are redundant, too.
all_zeros_redundant(text) ==
    SubSeq(text, 1, Max({k \in DOMAIN text : text[k] \notin {"0", "."}} \cup {1}))

\* The text has a point, where the search ends.
remove_redundant_decimals(text) ==
    LET end == Max({k \in DOMAIN text : text[k] # "0"})
    IN  SubSeq(text, 1, IF text[end] = "." THEN end - 1 ELSE end)

format_percentage_internal(value) ==
    remove_redundant_decimals(
        Unsigned(value \div Denominator) \o <<".">> \o Padded(value % Denominator, RateDecimals))
    \o <<" ", "%">>

\* A message, taken for one character.
InvalidValue == <<"Invalid value">>

format_transfer_rate(value) ==
    IF value = 0 THEN <<"0", " ", "%">>
    ELSE IF value < Parity THEN InvalidValue
    ELSE format_percentage_internal(value - Parity)

format_quality(value) ==
    IF value = 0 THEN <<"1", "0", "0", " ", "%">> ELSE format_percentage_internal(value)

-----------------------------------------------------------------------------
(* Accounts.                                                               *)

\* Version 0, the account and the checksum of both.
xrp_public_key_to_encoded_base58(account) ==
    LET hashed == <<0>> \o account
    IN  xrp_encode_base58_address(hashed \o Checksum(hashed))

Spaces(n) == [k \in 1..n |-> " "]

\* One page of the smallest device with the segment in the middle.
Centered(segment) ==
    LET padding == (PageWidth - Len(segment)) \div 2
    IN  Spaces(padding) \o segment \o Spaces(PageWidth - padding - Len(segment))

\* Where the first and the second segment end: the first is the longest.
SegmentEnds(text) ==
    LET base == Len(text) \div 3
    IN  <<Len(text) - 2 * base, Len(text) - base>>

Segmented(text) ==
    Centered(SubSeq(text, 1, SegmentEnds(text)[1]))
    \o Centered(SubSeq(text, SegmentEnds(text)[1] + 1, SegmentEnds(text)[2]))
    \o Centered(SubSeq(text, SegmentEnds(text)[2] + 1, Len(text)))

\* No account: the field was added for a regular key that is cleared.
account_formatter(account, segmented) ==
    LET text == xrp_public_key_to_encoded_base58(account)
    IN  IF account = << >> THEN <<"[empty]">>
        ELSE IF segmented /\ Len(text) <= 3 * PageWidth THEN Segmented(text)
        ELSE text

-----------------------------------------------------------------------------
(* Blobs.                                                                  *)

\* What a buffer of a row holds of a text without its end.
MaxText == MaxFieldLen - 1

\* The buffer of a row has room for what is not cut: amounts of XRP with their code, percentages,
\* currencies in digits, addresses in one text and in three segments.
ASSUME RoomAssumption ==
    /\ MaxDigits + 6 <= MaxText /\ MaxDigits + RateDecimals + 3 <= MaxText
    /\ 2 * CurrencySize <= MaxText
    /\ OutputSize(AddressSize) + 1 <= MaxText /\ 3 * PageWidth <= MaxText

Dots == <<".", ".", ".">>

\* Defect: the dots follow the text where there is room for them.
dots_if_room(text, written) == IF Len(written) + 3 <= MaxText THEN written \o Dots ELSE written

\* A text that was cut short gives its last characters to three dots.
MarkCut(text, written) ==
    IF written = text THEN text
    ELSE LET shown == SubSeq(written, 1, Min({Len(written), MaxText - 3}))
         IN  shown \o Dots

\* read_hex writes whole bytes only.
blob_formatter(bytes, textual) ==
    LET all == IF textual /\ is_purely_ascii(bytes, FALSE) THEN bytes ELSE read_hex(bytes)
        written == IF textual /\ is_purely_ascii(bytes, FALSE)
                   THEN SubSeq(bytes, 1, Min({MaxText, Len(bytes)}))
                   ELSE SubSeq(all, 1, Min({2 * (MaxText \div 2), Len(all)}))
    IN  MarkCut(all, written)

-----------------------------------------------------------------------------
(* format_field.                                                           *)

Formatted(f, segmented) ==
    CASE f.data_type = "AMOUNT" /\ "drops" \in DOMAIN f -> format_xrp(f.drops)
      [] f.data_type = "AMOUNT" /\ "currency" \in DOMAIN f -> format_issued(f.value, f.currency)
      [] f.data_type \in {"CURRENCY", "ISSUE"} -> currency_formatter(f.currency)
      [] f.data_type = "ACCOUNT" -> account_formatter(f.account, segmented)
      [] f.data_type = "VL" -> blob_formatter(f.bytes, f.textual)
      [] f.data_type = "HASH" -> read_hex(f.bytes)
      [] f.data_type = "VECTOR256" -> Unsigned(f.length \div Vector256Size)
      [] f.data_type = "TRANSFER_RATE" -> format_transfer_rate(f.number)
      [] f.data_type = "QUALITY" -> format_quality(f.number)
      [] f.data_type = "NUMBER" -> Unsigned(f.number)

\* A text of no characters is shown as a space.
format_field(f, segmented) ==
    IF Formatted(f, segmented) = << >> THEN <<" ">> ELSE Formatted(f, segmented)

=============================================================================
