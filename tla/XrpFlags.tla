------------------------------ MODULE XrpFlags ------------------------------
(***************************************************************************)
(* How a field of flags reads in the review (format_flags of xrp/flags.c)  *)
(* and which flags force blind signing (has_unknown_flags).                *)
(*                                                                         *)
(* Two tables of the same code must agree: the flags each formatter has a  *)
(* label for, and the mask of flags known for the type.  A value is the    *)
(* set of its bits, the text of a row the sequence of its labels.          *)
(***************************************************************************)
EXTENDS Integers, Sequences, FiniteSets

CONSTANTS
    Fields,      \* the fields explored: transaction_type, id, value
    MaxFieldLen, \* MAX_FIELD_LEN: the size of the buffer of a row (128 or 1024)
    Decimal(_)   \* %u of snprintf: the digits of a value

ASSUME FlagsAssumption == MaxFieldLen \in Nat \ {0}

VARIABLES
    field,  \* the field to be displayed, with the type of the transaction
    dst     \* its text, << >> while the buffer is zeroed

vars == <<field, dst>>

FullyCanonicalSig == 31

-----------------------------------------------------------------------------
(* The flags with a label, in the order of the formatters.                 *)

Flag(bit, label) == [bit |-> bit, label |-> label]

Labelled(type) ==
    CASE type = "ACCOUNT_SET" ->
             <<Flag(16, "Require Dest Tag"), Flag(17, "Optional Dest Tag"),
               Flag(18, "Require Auth"), Flag(19, "Optional Auth"), Flag(20, "Disallow XRP"),
               Flag(21, "Allow XRP")>>
      [] type = "OFFER_CREATE" ->
             <<Flag(16, "Passive"), Flag(17, "Immediate or Cancel"), Flag(18, "Fill or Kill"),
               Flag(19, "Sell")>>
      [] type = "PAYMENT" ->
             <<Flag(16, "No Direct Ripple"), Flag(17, "Partial Payment"),
               Flag(18, "Limit Quality")>>
      [] type = "TRUST_SET" ->
             <<Flag(16, "Set Auth"), Flag(17, "Set No Ripple"), Flag(18, "Clear No Ripple"),
               Flag(20, "Set Freeze"), Flag(21, "Clear Freeze")>>
      [] type = "PAYMENT_CHANNEL_CLAIM" -> <<Flag(16, "Renew"), Flag(17, "Close")>>
      [] type = "NFTOKEN_MINT" ->
             <<Flag(0, "Burnable"), Flag(1, "Only XRP"), Flag(3, "Transferable"),
               Flag(4, "Mutable")>>
      [] type = "NFTOKEN_CREATE_OFFER" -> <<Flag(0, "Sell")>>
      [] type = "AMM_DEPOSIT" ->
             <<Flag(16, "LP Token"), Flag(19, "Single Asset"), Flag(20, "Two Asset"),
               Flag(21, "One Asset LP Token"), Flag(22, "Limit LP Token"),
               Flag(23, "Two Asset If Empty")>>
      [] type = "AMM_WITHDRAW" ->
             <<Flag(16, "LP Token"), Flag(19, "Single Asset"), Flag(20, "Two Asset"),
               Flag(21, "One Asset LP Token"), Flag(22, "Limit LP Token"),
               Flag(17, "Withdraw All"), Flag(18, "One Asset Withdraw All")>>
      [] OTHER -> << >>

HasFormatter(type) == Labelled(type) # << >>

\* The types that have one.
FlagTypes ==
    {"ACCOUNT_SET", "OFFER_CREATE", "PAYMENT", "TRUST_SET", "PAYMENT_CHANNEL_CLAIM", "NFTOKEN_MINT",
     "NFTOKEN_CREATE_OFFER", "AMM_DEPOSIT", "AMM_WITHDRAW"}

\* All labels one after the other, each with a separator behind it.
RowLength(flags) ==
    LET upTo[k \in 0..Len(flags)] ==
            IF k = 0 THEN 0 ELSE upTo[k - 1] + Len(flags[k].label) + 2
    IN  upTo[Len(flags)]

\* The buffer holds all labels of a type; the last separator is not written.
ASSUME LabelAssumption ==
    \A type \in FlagTypes :
        /\ \A k \in 1..Len(Labelled(type)) : Len(Labelled(type)[k].label) \in Nat
        /\ RowLength(Labelled(type)) - 2 < MaxFieldLen

NULL == "NULL"

\* Labels of SetFlag and ClearFlag, whose value is a number.
format_account_set_field_flags(number) ==
    CASE number = 1 -> "Require Dest"
      [] number = 2 -> "Require Auth"
      [] number = 3 -> "Disallow XRP"
      [] number = 4 -> "Disable Master"
      [] number = 5 -> "Track Txn ID"
      [] number = 6 -> "No Freeze"
      [] number = 7 -> "Global Freeze"
      [] number = 8 -> "Default Ripple"
      [] number = 9 -> "Deposit Auth"
      [] number = 10 -> "Auth NFToken Minter"
      [] number = 12 -> "Disallow NFToken Offer"
      [] number = 13 -> "Disallow Check"
      [] number = 14 -> "Disallow PayChan"
      [] number = 15 -> "Disallow Trustline"
      [] number = 16 -> "Allow Clawback"
      [] OTHER -> NULL

-----------------------------------------------------------------------------
(* The masks.                                                              *)

\* Defect: one mask for both, as most of their flags are the same.
one_amm_mask(type) == 16..23

AmmKnownFlags(type) ==
    CASE type = "AMM_DEPOSIT" -> {16, 19, 20, 21, 22, 23}
      [] type = "AMM_WITHDRAW" -> {16, 19, 20, 21, 22, 17, 18}

KnownFlags(type) ==
    CASE type = "ACCOUNT_SET" -> 16..21
      [] type = "OFFER_CREATE" -> 16..19
      [] type = "PAYMENT" -> 16..18
      [] type = "TRUST_SET" -> {16, 17, 18, 20, 21}
      [] type = "PAYMENT_CHANNEL_CLAIM" -> {16, 17}
      [] type = "NFTOKEN_MINT" -> {0, 1, 3, 4}
      [] type = "NFTOKEN_CREATE_OFFER" -> {0}
      [] OTHER -> AmmKnownFlags(type)

\* Defect: a flag of all types is unknown too.
canonical_unknown(type, value) == HasFormatter(type) /\ value \ KnownFlags(type) # {}

\* The switch has the types that have a formatter: the flags of other types are not checked.
has_unknown_flags(type, value) ==
    HasFormatter(type) /\ value \ (KnownFlags(type) \cup {FullyCanonicalSig}) # {}

is_flag_hidden(value) == value \subseteq {FullyCanonicalSig}

-----------------------------------------------------------------------------
(* The text.                                                               *)

Blank == [text |-> << >>, offset |-> 0]

\* Items are separated by ", "; one that does not fit replaces the text by an error.
append_item(out, label) ==
    LET start == IF out.offset = 0 THEN 0 ELSE out.offset + 2
    IN  IF \/ out.offset # 0 /\ MaxFieldLen - out.offset < 3
           \/ Len(label) >= MaxFieldLen - start
        THEN [text |-> <<"[ERROR: FAILED TO APPEND ITEM]">>, offset |-> MaxFieldLen]
        ELSE [text |-> Append(out.text, label), offset |-> start + Len(label)]

\* What the formatter of the type has written when it has come to its last flag.
Written(type, value) ==
    LET flags == Labelled(type)
        after[k \in 0..Len(flags)] ==
            IF k = 0 THEN Blank
            ELSE IF flags[k].bit \in value THEN append_item(after[k - 1], flags[k].label)
            ELSE after[k - 1]
    IN  after[Len(flags)].text

OrUnsupported(text) == IF text = << >> THEN <<"Unsupported value">> ELSE text

BitsText(type, value) == OrUnsupported(Written(type, value))

\* A value with the first five bits only, as a number.
Number(value) ==
    LET Bit(n, weight) == IF n \in value THEN weight ELSE 0
    IN  Bit(0, 1) + Bit(1, 2) + Bit(2, 4) + Bit(3, 8) + Bit(4, 16)

\* The labels end at 16.
LabelOf(value) ==
    IF value \subseteq 0..4 THEN format_account_set_field_flags(Number(value)) ELSE NULL

\* Defect: a number without a label is not written down.
unnumbered(value) ==
    IF LabelOf(value) # NULL THEN <<LabelOf(value)>> ELSE <<"Unknown flag">>

NumberText(value) ==
    IF LabelOf(value) # NULL THEN <<LabelOf(value)>> ELSE <<"Unknown flag", Decimal(value)>>

IsNumber(f) == f.transaction_type = "ACCOUNT_SET" /\ f.id \in {"SET_FLAG", "CLEAR_FLAG"}

\* Different numbers have different digits.
ASSUME DecimalAssumption ==
    \A f, g \in {h \in Fields : IsNumber(h)} :
        Decimal(f.value) = Decimal(g.value) => f.value = g.value

FormatBits ==
    /\ dst = << >>
    /\ HasFormatter(field.transaction_type) /\ ~IsNumber(field)
    /\ dst' = BitsText(field.transaction_type, field.value)
    /\ UNCHANGED field

FormatNumber ==
    /\ dst = << >>
    /\ IsNumber(field)
    /\ dst' = NumberText(field.value)
    /\ UNCHANGED field

NoFormatter ==
    /\ dst = << >>
    /\ ~HasFormatter(field.transaction_type)
    /\ dst' = <<"No flags for transaction type", field.transaction_type>>
    /\ UNCHANGED field

Init ==
    /\ field \in {f \in Fields : ~is_flag_hidden(f.value)}
    /\ dst = << >>

Next == FormatBits \/ FormatNumber \/ NoFormatter

Spec == Init /\ [][Next]_vars

-----------------------------------------------------------------------------
(* What must hold.                                                         *)

\* The flags whose own text stands in the row.
Read(type, text) ==
    {bit \in 0..30 : \E k \in DOMAIN text : BitsText(type, {bit}) = <<text[k]>>}

\* Flags that do not force blind signing can be read back from the row, every one of them
\* and no other: no flag is left out of the list, no two share a label, and the list fits
\* the buffer.
ClearFlagsAreRead ==
    LET type == field.transaction_type
    IN  /\ dst # << >> /\ field.id = "FLAGS" /\ HasFormatter(type)
        /\ ~has_unknown_flags(type, field.value)
        => Read(type, dst) = field.value \ {FullyCanonicalSig}

\* Blind signing is forced only when the row would not tell: some flag could be taken away
\* and it would read the same.
BlindForAReason ==
    LET type == field.transaction_type
    IN  dst # << >> /\ field.id = "FLAGS" /\ has_unknown_flags(type, field.value) =>
            \E bit \in field.value \ {FullyCanonicalSig} :
                BitsText(type, field.value \ {bit}) = dst

\* No two values of SetFlag or ClearFlag of an AccountSet read the same.
SetFlagsReadApart ==
    dst # << >> /\ IsNumber(field) =>
        \A other \in Fields : IsNumber(other) /\ NumberText(other.value) = dst =>
            other.value = field.value

=============================================================================
