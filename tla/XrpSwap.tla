------------------------------- MODULE XrpSwap -------------------------------
(***************************************************************************)
(* The application as a library of Exchange.  It is called to check an     *)
(* address (swap/handle_check_address.c) and to print an amount for the    *)
(* user (swap/handle_get_printable_amount.c), and then to sign without the *)
(* user: it takes the parameters of the swap                               *)
(* (swap/handle_swap_sign_transaction.c), parses the transaction as ever,  *)
(* and signs it if the fields that are left spell out those parameters     *)
(* (transaction/transaction.c).                                            *)
(*                                                                         *)
(* The parser leaves fields out and may stop early, so what is compared is *)
(* not the transaction.  What must hold is stated of the stream and of the *)
(* parameters as Exchange gave them.                                       *)
(***************************************************************************)
EXTENDS XrpReview, XrpPrint

CONSTANTS
    Agreements,      \* parameters of swaps: destination_address, extra_id, amount, fee
    Word(_),         \* the number that a value of a field stands for
    AddressText(_),  \* the address of an account, a sequence of characters
    AmountBit,       \* 0x4000000000000000, scaled down: bit 62 of 64
    AddressSize,     \* of swapStrings_t.address (41)
    TagSize,         \* of swapStrings_t.destination_tag (11)
    Checks,          \* addresses to check, with the parameters of the key they should have
    KeyAddress(_),   \* the address of the key that a path derives
    MaxPath          \* MAX_BIP32_PATH (10), scaled down

\* The characters of a string are not its end.
IsString(s) == s \in Seq(Range(s)) /\ "END" \notin Range(s)

\* Bit 62 of a word is a number that can be printed, and bit 63 of a native amount is clear.
ASSUME SwapAssumption ==
    /\ AmountBit \in Nat \ {0} /\ WordSize = 4 * AmountBit /\ AmountBit <= Ten[MaxDigits]
    /\ AddressSize \in Nat \ {0} /\ TagSize \in Nat \ {0}
    /\ \A v \in NativeAmounts : Word(v) \in 0..(2 * AmountBit) - 1
    /\ \A t \in Token : t.data_type = "ACCOUNT" => Len(AddressText(t.value)) < AddressSize - 1
    /\ \A p \in Agreements :
           /\ DOMAIN p = {"destination_address", "extra_id", "amount", "fee"}
           /\ IsString(p.destination_address) /\ p.amount \in Nat /\ p.fee \in Nat

VARIABLES
    params,    \* create_transaction_parameters_t
    agreed,    \* approval_strings.swap
    checked,   \* the address that was asked about, and the result
    printable, \* the amount as Exchange shows it to the user
    decision   \* called, shown, signing; answered, not_started, accepted, refused at the end

swapVars == <<context, verdict, input, params, agreed, checked, printable, decision>>

-----------------------------------------------------------------------------
(* What Exchange asks before it shows the swap to the user.                *)

\* The first byte of the parameters is the length of the path, and elements of four bytes
\* follow it, no fewer than that.
parse_bip32_path(parameters) ==
    LET path_length == parameters[1]
    IN  IF path_length \in 1..MaxPath /\ Len(parameters) - 1 >= path_length
        THEN SubSeq(parameters, 2, path_length + 1)
        ELSE << >>

ASSUME CheckAssumption == \A c \in Checks :
    /\ DOMAIN c = {"address_to_check", "address_parameters"} /\ IsString(c.address_to_check)
    /\ c.address_parameters # << >> => IsString(KeyAddress(parse_bip32_path(c.address_parameters)))

\* Defect: the end of the strings is not compared.
begins_alike(s1, s2) == IsPrefix(s1, s2)

\* The characters of the first string and its end.
SameString(s1, s2) == IsPrefix(Append(s1, "END"), Append(s2, "END"))

swap_handle_check_address(c) ==
    /\ decision = "called"
    /\ checked' = [asked |-> c,
                   result |-> /\ c.address_parameters # << >>
                              /\ parse_bip32_path(c.address_parameters) # << >>
                              /\ SameString(KeyAddress(parse_bip32_path(c.address_parameters)),
                                            c.address_to_check)]
    /\ decision' = "answered"
    /\ UNCHANGED <<context, verdict, input, params, agreed, printable>>

\* swap_str_to_u64 takes numbers of at most 8 bytes.
FitsWord(n) == n < WordSize

\* Nothing is printed on an error.  What the user says to the amount is between Exchange and
\* the user.
swap_handle_get_printable_amount ==
    /\ decision = "called"
    /\ printable' = IF FitsWord(params.amount) THEN xrp_print_amount(params.amount)
                    ELSE Refused
    /\ decision' = "shown"
    /\ UNCHANGED <<context, verdict, input, params, agreed, checked>>

-----------------------------------------------------------------------------
(* The parameters.                                                         *)

\* strncpy leaves room for the terminator of the address and cuts the rest off; a tag
\* without room for its terminator is an error.
swap_copy_transaction_parameters ==
    /\ decision = "shown"
    /\ \/ /\ Len(params.extra_id) < TagSize
          /\ FitsWord(params.amount) /\ FitsWord(params.fee)
          /\ agreed' = [address |-> SubSeq(params.destination_address, 1,
                                        Min({Len(params.destination_address), AddressSize - 1})),
                        destination_tag |-> params.extra_id,
                        amount |-> params.amount, fee |-> params.fee]
          /\ decision' = "signing"
       \/ /\ \/ Len(params.extra_id) >= TagSize
             \/ ~FitsWord(params.amount) \/ ~FitsWord(params.fee)
          /\ decision' = "not_started"
          /\ UNCHANGED agreed
    /\ UNCHANGED <<context, verdict, input, params, checked, printable>>

-----------------------------------------------------------------------------
(* The comparison.                                                         *)

\* "%u"
Decimal[n \in Nat] == IF n < 10 THEN <<n>> ELSE Append(Decimal[n \div 10], n % 10)

HasBit(n) == (n \div AmountBit) % 2 = 1

Encodable(n) == ~HasBit(n)

\* Defect: the amount of Exchange is compared as it came.
unencoded(n) == n

Encoded(n) == IF HasBit(n) THEN n ELSE n + AmountBit

AmountMatches(f, id, n) ==
    /\ Encodable(n)
    /\ Is(f, "AMOUNT", id) /\ f.value \in NativeAmounts /\ Word(f.value) = Encoded(n)

TagMatches(f) ==
    Is(f, "UINT32", "DESTINATION_TAG") /\ Decimal[Word(f.value)] = agreed.destination_tag

\* Defect: the address of the transaction may be the beginning of the other.
address_begins(f) ==
    Is(f, "ACCOUNT", "DESTINATION") /\ IsPrefix(AddressText(f.value), agreed.address)

AddressMatches(f) ==
    Is(f, "ACCOUNT", "DESTINATION") /\ AddressText(f.value) = agreed.address

check_swap_conditions_and_sign ==
    LET f == context.fields
    IN  /\ Len(f) = 6
        /\ Is(f[1], "UINT16", "TRANSACTION_TYPE") /\ f[1].value = "PAYMENT"
        /\ Is(f[2], "ACCOUNT", "ACCOUNT")
        /\ TagMatches(f[3])
        /\ AmountMatches(f[4], "AMOUNT", agreed.amount)
        /\ AmountMatches(f[5], "FEE", agreed.fee)
        /\ AddressMatches(f[6])

\* review_transaction when called from Exchange: whether the transaction would have to be
\* signed blind is not asked.
review_transaction ==
    /\ decision = "signing"
    /\ verdict \in {"SUCCESS", "BLIND_SIGN_REQUIRED"}
    /\ decision' = IF check_swap_conditions_and_sign THEN "accepted" ELSE "refused"
    /\ UNCHANGED <<context, verdict, input, params, agreed, checked, printable>>

ParseStep == decision = "signing" /\ Next /\ UNCHANGED <<params, agreed, checked, printable, decision>>

SwapInit ==
    /\ Init
    /\ params \in Agreements
    /\ agreed = [address |-> << >>, destination_tag |-> << >>, amount |-> 0, fee |-> 0]
    /\ checked = [asked |-> << >>, result |-> FALSE]
    /\ printable = Refused
    /\ decision = "called"

SwapNext ==
    \/ \E c \in Checks : swap_handle_check_address(c)
    \/ swap_handle_get_printable_amount
    \/ swap_copy_transaction_parameters
    \/ ParseStep
    \/ review_transaction

SwapSpec == SwapInit /\ [][SwapNext]_swapVars

-----------------------------------------------------------------------------
(* What must hold.                                                         *)

\* The fields of the stream that say something, wherever they stand.
Telling == {k \in Position : Spelled(input[k], NoArray) # << >>}

\* The one telling field of that name, if there is one.
The(data_type, id) == CHOOSE k \in Telling : Is(input[k], data_type, id)

Says(data_type, id) == \E k \in Telling : Is(input[k], data_type, id)

IsDrops(k, n) == input[k].value \in NativeAmounts /\ Word(input[k].value) = n + AmountBit

\* One field for each parameter of the agreement, as Exchange gave it, one for the type and
\* one for the account: six telling fields and no other.
StreamIsTheAgreement ==
    /\ Says("UINT16", "TRANSACTION_TYPE") /\ Says("ACCOUNT", "ACCOUNT")
    /\ Says("UINT32", "DESTINATION_TAG") /\ Says("AMOUNT", "AMOUNT")
    /\ Says("AMOUNT", "FEE") /\ Says("ACCOUNT", "DESTINATION")
    /\ Cardinality(Telling) = 6
    /\ input[The("UINT16", "TRANSACTION_TYPE")].value = "PAYMENT"
    /\ Decimal[Word(input[The("UINT32", "DESTINATION_TAG")].value)] = params.extra_id
    /\ IsDrops(The("AMOUNT", "AMOUNT"), params.amount)
    /\ IsDrops(The("AMOUNT", "FEE"), params.fee)
    /\ AddressText(input[The("ACCOUNT", "DESTINATION")].value) = params.destination_address

\* The ledger serializes by type code, then by field code.
InLedgerOrder ==
    /\ The("UINT32", "DESTINATION_TAG") < The("AMOUNT", "AMOUNT")
    /\ The("AMOUNT", "AMOUNT") < The("AMOUNT", "FEE")
    /\ The("AMOUNT", "FEE") < The("ACCOUNT", "DESTINATION")

\* The type is that of the transaction and not of something in it.
TypeIsItsOwn == OfTransaction(The("UINT16", "TRANSACTION_TYPE"))

\* Fields a review shows because they stand in an array.
ShownInArrays ==
    {k \in Position : /\ <<input[k].data_type, input[k].id>> \in HiddenOutsideArrays
                      /\ "ARRAY" \in Range(Brackets[k - 1])}

\* What is signed for a swap is the payment that was agreed to: the stream says that, and
\* nothing else except for fields that are never shown, in whatever arrays they stand.  In
\* particular it was read to its end, although a verdict of blind signing is not asked for.
SwapSignsTheAgreement ==
    decision = "accepted" =>
        /\ StreamIsTheAgreement
        /\ Sound => TypeIsItsOwn
        /\ Plain => \A k \in Position \ Telling : Spelling[k] = << >>

\* The agreed payment is never refused when its fields come in the order of the ledger's
\* serialization, whatever fields that are never shown stand among them.
SwapAcceptsTheAgreement ==
    decision = "refused" /\ StreamIsTheAgreement /\ TypeIsItsOwn /\ InLedgerOrder =>
        ~Encodable(params.amount) \/ ~Encodable(params.fee) \/ ShownInArrays # {}

\* The path in the parameters of an address, and the address of its key.
IsAddressOf(address, parameters) ==
    \E path_length \in 1..MaxPath :
        /\ parameters # << >> /\ parameters[1] = path_length
        /\ path_length < Len(parameters)
        /\ address = KeyAddress(SubSeq(parameters, 2, path_length + 1))

\* Exchange is told nothing wrong.  An address that is confirmed is the whole address of the
\* key whose path was given; what the user was shown for an amount reads back as the amount
\* that the signed transaction pays, and was not left empty.
ExchangeIsToldTheTruth ==
    /\ checked.result => IsAddressOf(checked.asked.address_to_check, checked.asked.address_parameters)
    /\ decision = "accepted" =>
           SaysXRP(printable, Word(input[The("AMOUNT", "AMOUNT")].value) - AmountBit)

=============================================================================
