------------------------------- MODULE XrpApp -------------------------------
(***************************************************************************)
(* The command and review life cycle of the XRP application of a Ledger    *)
(* device: the APDU loop (app_main.c, apdu/entry.c), the signing session   *)
(* (apdu/global.c, apdu/messages/sign_transaction.c), the address command  *)
(* (apdu/messages/get_public_key.c), the review and swap dispatch          *)
(* (transaction/transaction.c) and the NBGL screens with their callbacks   *)
(* (ui/).                                                                  *)
(*                                                                         *)
(* The device is single-threaded: a step is one APDU handled from start to *)
(* end, or one callback of the displayed screen.  Both interleave freely,  *)
(* because the host can send a new APDU while a screen waits for the user. *)
(*                                                                         *)
(* A transaction is a short sequence over Byte.  What parse_tx makes of it *)
(* and whether a parsed transaction matches the parameters handed over by  *)
(* the Exchange application are constant operators: nothing here depends   *)
(* on how they are computed.                                               *)
(***************************************************************************)
EXTENDS Integers, Sequences, FiniteSets

CONSTANTS
    Byte,           \* the alphabet of transaction data
    Path,           \* the BIP32 paths parse_bip32_path accepts
    NoPath,         \* a path still zeroed
    BadPath,        \* path bytes parse_bip32_path refuses
    Fields,         \* what a review can display (parseResult_t)
    NoFields,       \* a zeroed parseResult_t: nothing to display
    PrefixLen,      \* prefix_length (4)
    SuffixLen,      \* suffix_length (20)
    MaxRawTx,       \* MAX_RAW_TX (10000), scaled down for TLC
    MaxLc,          \* data bytes of one APDU (255), scaled down for TLC
    ParseTx(_),     \* parse_tx: transaction data -> ParseOutcome
    SwapMatches(_)  \* the field comparisons of check_swap_conditions_and_sign

Curve == {"secp256k1", "ed25519"}
Prefix == {"none", "single", "multi"}
ParseException == {"SUCCESS", "BLIND_SIGN_REQUIRED", "ERROR"}

ParseOutcome == [exception: ParseException, has_empty_pub_key: BOOLEAN,
                 fields: Fields \cup {NoFields}]

ASSUME PathAssumption == NoPath \notin Path /\ BadPath \notin Path /\ NoPath # BadPath

ASSUME LengthAssumption ==
    /\ PrefixLen \in Nat /\ SuffixLen \in Nat /\ MaxRawTx \in Nat /\ MaxLc \in Nat
    /\ PrefixLen <= MaxRawTx

ASSUME ParseAssumption == \A data \in UNION {[1..n -> Byte] : n \in 0..MaxRawTx - PrefixLen} :
    ParseTx(data) \in ParseOutcome

ASSUME SwapAssumption == \A f \in Fields \cup {NoFields} : SwapMatches(f) \in BOOLEAN

VARIABLES
    life,          \* what app_main and the library call are doing
    G_called_from_swap,
    last_ins,      \* entry.c
    tx,            \* sign_state, tmp_ctx, parse_context and approval_strings
    pubkey,        \* pubkey_confirmation_pending and pending_pubkey_ctx
    screen,        \* the NBGL use case on display, with what it was opened for
    allow_blind_sign,  \* N_storage: survives a restart
    switch,        \* G_switches[BLIND_SIGNING_IDX].initState
    owed,          \* the command whose handler returned 0 and is still unanswered
    out,           \* the output of the last step
    acked          \* history: the transaction bytes the host sent and had accepted

vars == <<life, G_called_from_swap, last_ins, tx, pubkey, screen, allow_blind_sign,
          switch, owed, out, acked>>

-----------------------------------------------------------------------------
(* The state the program keeps.                                            *)

Ins == {"GET_PUBLIC_KEY", "SIGN", "GET_APP_CONFIGURATION", "other"}

SignState == {"IDLE", "WAITING_FOR_MORE", "PENDING_REVIEW"}

TxData == UNION {[1..n -> Byte] : n \in 0..MaxRawTx - PrefixLen}

\* reset_transaction_context zeroes these; the swap parameters live in approval_strings.
NoTx == [sign_state |-> "IDLE", data |-> FALSE, path |-> NoPath, curve |-> "none",
         bytes |-> << >>, raw_tx_length |-> 0, prefix |-> "none",
         has_empty_pub_key |-> FALSE, fields |-> NoFields, swap_params |-> FALSE]

NoKey == [path |-> NoPath, curve |-> "none"]
NoPubkey == [pending |-> FALSE, key |-> NoKey]

ReviewKinds == {"review", "blind_review"}
ScreenKinds == ReviewKinds \cup
    {"none", "menu", "address", "blind_warning", "status_signed", "status_rejected",
     "status_address"}

\* Screens that were not opened for a transaction or an address carry no subject.
Screen(kind) == [kind |-> kind, key |-> NoKey, bytes |-> << >>, fields |-> NoFields]

Key == [path: Path \cup {NoPath}, curve: Curve \cup {"none"}]

KeyOf(t) == [path |-> t.path, curve |-> t.curve]

Signature == [key: [path: Path, curve: Curve], prefix: Prefix, bytes: TxData,
              suffixed: BOOLEAN]

StatusWord == {"9000", "6700", "68xx", "6985", "6A80", "6A81", "6B00", "6D00", "6E00",
               "SWO_INCORRECT_DATA", "SWO_WRONG_DATA_LENGTH", "derivation_error"}

\* One output: which command it answers ("none": no command is outstanding), the status
\* word, and at most one signature or public key in it.
Silence == [to |-> "none", sw |-> "none", signature |-> {}, key |-> {}]

Say(command, status) ==
    /\ out' = [Silence EXCEPT !.to = command, !.sw = status]
    /\ owed' = "none"

\* The handler returns 0: the reply comes from a callback, later.
AnswerLater(command) == out' = Silence /\ owed' = command

-----------------------------------------------------------------------------
(* apdu/global.c                                                           *)

\* Defect: the swap parameters are zeroed like the rest.
reset_forgets_swap(t) == NoTx

reset_transaction_context(t) ==
    [NoTx EXCEPT !.swap_params = IF G_called_from_swap THEN t.swap_params ELSE FALSE]

-----------------------------------------------------------------------------
(* ui/main/idle_menu_nbgl.c: the home and settings menu                    *)

display_idle_menu == screen' = Screen("menu") /\ switch' = allow_blind_sign

\* Defect: the cached switch is not moved.
settings_not_cached == UNCHANGED switch /\ allow_blind_sign' = ~switch

\* The toggle writes the opposite of the cached switch to the NVM.
settings_controls_callback == switch' = ~switch /\ allow_blind_sign' = ~switch

-----------------------------------------------------------------------------
(* apdu/messages/sign_transaction.c: the callbacks of a review             *)

\* The sign operation hashes raw_tx_length bytes of raw_tx: prefix, data, suffix.
SignatureOf(t) ==
    [key |-> KeyOf(t), prefix |-> t.prefix,
     bytes |-> SubSeq(t.bytes, 1, t.raw_tx_length - PrefixLen),
     suffixed |-> t.has_empty_pub_key]

\* Defect: only the data pointer is looked at.
has_data(t) == t.data

CanSign(t) == t.sign_state = "PENDING_REVIEW" /\ t.data

\* The two early returns: the menu is displayed again, no signature, no reply.
sign_nothing(t) ==
    /\ ~CanSign(t)
    /\ tx' = IF t.sign_state # "PENDING_REVIEW" THEN reset_transaction_context(t) ELSE t
    /\ switch' = allow_blind_sign
    /\ out' = Silence
    /\ UNCHANGED owed

\* Defect: the session outlives the signature.
signed_session_kept(t, command) ==
    /\ CanSign(t)
    /\ tx' = t
    /\ out' = [Silence EXCEPT !.to = command, !.sw = "9000", !.signature = {SignatureOf(t)}]
    /\ owed' = "none"
    /\ UNCHANGED switch

\* command is the command the reply of this callback answers.
sign_and_reply(t, command) ==
    /\ CanSign(t)
    /\ tx' = reset_transaction_context(t)
    /\ out' = [Silence EXCEPT !.to = command, !.sw = "9000", !.signature = {SignatureOf(t)}]
    /\ owed' = "none"
    /\ UNCHANGED switch

\* A CX_CHECK fails: the context is reset and LEDGER_ASSERT stops the application.
signing_failed(t) ==
    /\ CanSign(t)
    /\ tx' = reset_transaction_context(t)
    /\ out' = Silence
    /\ life' = "aborted"
    /\ UNCHANGED <<owed, switch>>

reject_transaction(t, command) ==
    \/ /\ t.sign_state # "PENDING_REVIEW"
       /\ tx' = reset_transaction_context(t)
       /\ switch' = allow_blind_sign
       /\ out' = Silence
       /\ UNCHANGED owed
    \/ /\ t.sign_state = "PENDING_REVIEW"
       /\ Say(command, "6985")
       /\ UNCHANGED switch
       /\ tx' = IF G_called_from_swap THEN t ELSE reset_transaction_context(t)

-----------------------------------------------------------------------------
(* transaction/transaction.c and ui/other/blind_signing.c: who decides on  *)
(* a transaction that was parsed                                           *)

\* The review screens read the fields from parse_context each time a page is drawn.
ReviewOf(t, kind) ==
    [kind |-> kind, key |-> KeyOf(t), bytes |-> t.bytes, fields |-> t.fields]

check_swap_conditions_and_sign(t) ==
    G_called_from_swap /\ t.swap_params /\ SwapMatches(t.fields)

swap_decides(t) ==
    \/ /\ check_swap_conditions_and_sign(t)
       /\ \/ sign_and_reply(t, "SIGN") /\ life' = "swap_success"
          \/ signing_failed(t)
    \/ /\ ~check_swap_conditions_and_sign(t)
       /\ reject_transaction(t, "SIGN")
       /\ life' = "swap_failure"

\* Defect: nothing is displayed and nobody rejects.
blind_signing_ignored(t) == UNCHANGED <<screen, switch>> /\ tx' = t /\ AnswerLater("SIGN")

\* The warning is put on display, then the transaction is rejected at once.
ui_error_blind_signing(t) ==
    /\ screen' = Screen("blind_warning")
    /\ reject_transaction(t, "SIGN")

\* Defect: one review screen for every transaction.
always_clear(blind_sign) == "review"

ReviewKind(blind_sign) == IF blind_sign THEN "blind_review" ELSE "review"

review_transaction(t, blind_sign) ==
    \/ /\ G_called_from_swap
       /\ swap_decides(t)
       /\ UNCHANGED screen
    \/ /\ ~G_called_from_swap /\ blind_sign /\ ~allow_blind_sign
       /\ ui_error_blind_signing(t)
       /\ UNCHANGED life
    \/ /\ ~G_called_from_swap /\ (blind_sign => allow_blind_sign)
       /\ screen' = ReviewOf(t, ReviewKind(blind_sign))
       /\ tx' = t
       /\ AnswerLater("SIGN")
       /\ UNCHANGED life

-----------------------------------------------------------------------------
(* apdu/messages/sign_transaction.c: the SIGN command                      *)

\* A packet: its P1 bits, the path and curve bits that only a first packet is read for,
\* and its transaction bytes.  head is NoPath when the APDU carries no data at all.
SignPacket == [first: BOOLEAN, more: BOOLEAN, head: Path \cup {NoPath, BadPath},
               curves: SUBSET Curve, bytes: UNION {[1..n -> Byte] : n \in 0..MaxLc}]

Refuse(t, status) ==
    /\ tx' = t
    /\ Say("SIGN", status)
    /\ UNCHANGED <<life, screen, acked>>

\* Defect: the error is reported and the session left as it is.
report_error(t, status) == Refuse(t, status)

send_error(t, status) == Refuse(reset_transaction_context(t), status)

\* Defects: no room is kept for the suffix; the prefix is always the usual one.
no_suffix_check(t) == TRUE
always_single(t) == "single"

SuffixFits(t) == t.has_empty_pub_key => t.raw_tx_length + SuffixLen <= MaxRawTx
PrefixFor(t) == IF t.has_empty_pub_key THEN "multi" ELSE "single"

\* The last packet is in: parse, choose the prefix, hand over to the review.
complete_transaction(t, upload) ==
    LET exception == ParseTx(t.bytes).exception
        t1 == [t EXCEPT !.fields = ParseTx(t.bytes).fields,
                        !.has_empty_pub_key = ParseTx(t.bytes).has_empty_pub_key]
    IN  \/ /\ exception = "ERROR"
           /\ send_error(t1, "68xx")
        \/ /\ exception # "ERROR" /\ ~SuffixFits(t1)
           /\ send_error(t1, "6700")
        \/ /\ exception # "ERROR" /\ SuffixFits(t1)
           /\ acked' = upload
           /\ review_transaction([t1 EXCEPT !.prefix = PrefixFor(t1)],
                                 exception = "BLIND_SIGN_REQUIRED")

\* Defect: a packet is stored whatever its length.
no_length_check(bytes) == TRUE

RawTxHolds(bytes) == PrefixLen + Len(bytes) <= MaxRawTx

\* upload is the history: the bytes of this upload the host has had accepted so far.
handle_packet_content(t, p, upload) ==
    LET data == t.bytes \o p.bytes
        t1 == [t EXCEPT !.bytes = data]
    IN  \/ /\ ~RawTxHolds(data)
           /\ send_error(t1, "6700")
        \/ /\ RawTxHolds(data) /\ p.more
           /\ tx' = [t1 EXCEPT !.sign_state = "WAITING_FOR_MORE"]
           /\ acked' = upload \o p.bytes
           /\ Say("SIGN", "9000")
           /\ UNCHANGED <<life, screen>>
        \/ /\ RawTxHolds(data) /\ ~p.more
           /\ complete_transaction([t1 EXCEPT !.sign_state = "PENDING_REVIEW",
                                              !.raw_tx_length = PrefixLen + Len(data)],
                                   upload \o p.bytes)

\* A first packet whose path or curve is refused leaves parse_context.data set.
handle_first_packet(t, p) ==
    LET t0 == [reset_transaction_context(t) EXCEPT !.data = TRUE]
        t1 == [t0 EXCEPT !.path = p.head]
    IN  \/ /\ ~p.first \/ p.head = NoPath
           /\ Refuse(t, "6A80")
        \/ /\ p.first /\ p.head = BadPath
           /\ Refuse(t0, "6A81")
        \/ /\ p.first /\ p.head \in Path /\ Cardinality(p.curves) # 1
           /\ Refuse(t1, "6B00")
        \/ /\ p.first /\ p.head \in Path
           /\ \E c \in Curve : /\ p.curves = {c}
                               /\ handle_packet_content([t1 EXCEPT !.curve = c], p, << >>)

\* Defect: a first packet is taken for one more packet.
subsequent_or_first(t, p) == handle_packet_content(t, p, IF p.first THEN << >> ELSE acked)

handle_subsequent_packet(t, p) ==
    \/ /\ p.first
       /\ Refuse(t, "6A80")
    \/ /\ ~p.first
       /\ handle_packet_content(t, p, acked)

handle_sign(t, p) ==
    \/ t.sign_state = "IDLE" /\ handle_first_packet(t, p)
    \/ t.sign_state = "WAITING_FOR_MORE" /\ handle_subsequent_packet(t, p)
    \/ t.sign_state = "PENDING_REVIEW" /\ Refuse(t, "6A80")

-----------------------------------------------------------------------------
(* apdu/messages/get_public_key.c                                          *)

\* head is NoPath when the APDU carries no data; chain is the low part of P2.
PubkeyRequest == [head: Path \cup {NoPath, BadPath}, p1: {"confirm", "non_confirm", "invalid"},
                  chain: {"valid", "invalid"}, curves: SUBSET Curve]

set_result_get_public_key(command, key) ==
    /\ out' = [Silence EXCEPT !.to = command, !.sw = "9000", !.key = {key}]
    /\ owed' = "none"

BadParameters(p) ==
    p.p1 = "invalid" \/ p.chain = "invalid" \/ Cardinality(p.curves) # 1

\* A key that is derived: it is returned at once, or put on display for the user;
\* nothing is displayed when the address could not be encoded.
derived_public_key(p, key) ==
    \/ /\ p.p1 = "non_confirm"
       /\ set_result_get_public_key("GET_PUBLIC_KEY", key)
       /\ pubkey' = [pubkey EXCEPT !.key = NoKey]
       /\ UNCHANGED screen
    \/ /\ p.p1 = "confirm"
       /\ pubkey' = [pending |-> TRUE, key |-> key]
       /\ screen' = [Screen("address") EXCEPT !.key = key]
       /\ AnswerLater("GET_PUBLIC_KEY")
    \/ /\ p.p1 = "confirm"
       /\ pubkey' = NoPubkey
       /\ Say("GET_PUBLIC_KEY", "SWO_INCORRECT_DATA")
       /\ UNCHANGED screen

\* Defect: a request is taken while another waits for the user.
never_busy == FALSE

Busy == pubkey.pending

handle_get_public_key(p) ==
    \/ /\ p.head = NoPath
       /\ Say("GET_PUBLIC_KEY", "6A80")
       /\ UNCHANGED <<pubkey, screen>>
    \/ /\ p.head # NoPath /\ Busy
       /\ Say("GET_PUBLIC_KEY", "6985")
       /\ UNCHANGED <<pubkey, screen>>
    \/ /\ p.head # NoPath /\ ~Busy /\ BadParameters(p)
       /\ Say("GET_PUBLIC_KEY", "6B00")
       /\ UNCHANGED <<pubkey, screen>>
    \/ /\ p.head # NoPath /\ ~Busy /\ ~BadParameters(p)   \* the derivation fails
       /\ pubkey' = [pubkey EXCEPT !.key = NoKey]
       /\ Say("GET_PUBLIC_KEY", "derivation_error")
       /\ UNCHANGED screen
    \/ /\ p.head \in Path /\ ~Busy /\ ~BadParameters(p)
       /\ \E c \in p.curves : derived_public_key(p, [path |-> p.head, curve |-> c])

on_address_confirmed ==
    /\ set_result_get_public_key(owed, pubkey.key)
    /\ pubkey' = NoPubkey

on_address_rejected ==
    /\ pubkey' = NoPubkey
    /\ Say(owed, "6985")

-----------------------------------------------------------------------------
(* apdu/entry.c and app_main.c: one action per APDU                        *)

\* handle_apdu drops the signing session whenever the instruction changes.
EnterHandler(ins) == IF ins = last_ins THEN tx ELSE reset_transaction_context(tx)

Sign(p) ==
    /\ life = "running"
    /\ last_ins' = "SIGN"
    /\ handle_sign(EnterHandler("SIGN"), p)
    /\ UNCHANGED <<G_called_from_swap, pubkey, allow_blind_sign, switch>>

GetPublicKey(p) ==
    /\ life = "running"
    /\ last_ins' = "GET_PUBLIC_KEY"
    /\ tx' = EnterHandler("GET_PUBLIC_KEY")
    /\ handle_get_public_key(p)
    /\ UNCHANGED <<life, G_called_from_swap, allow_blind_sign, switch, acked>>

\* GET_APP_CONFIGURATION answers 9000, an unknown instruction 6D00.
OtherCommand(ins) ==
    /\ life = "running"
    /\ last_ins' = ins
    /\ tx' = EnterHandler(ins)
    /\ Say(ins, IF ins = "other" THEN "6D00" ELSE "9000")
    /\ UNCHANGED <<life, G_called_from_swap, pubkey, screen, allow_blind_sign, switch, acked>>

\* A wrong CLA is refused before the instruction is looked at.
WrongClass ==
    /\ life = "running"
    /\ Say("other", "6E00")
    /\ UNCHANGED <<life, G_called_from_swap, last_ins, tx, pubkey, screen, allow_blind_sign,
                   switch, acked>>

\* app_main drops the session on a truncated APDU; last_ins keeps its value.
TruncatedApdu ==
    /\ life = "running"
    /\ tx' = reset_transaction_context(tx)
    /\ Say("other", "SWO_WRONG_DATA_LENGTH")
    /\ UNCHANGED <<life, G_called_from_swap, last_ins, pubkey, screen, allow_blind_sign,
                   switch, acked>>

\* io_recv_command or the send of a handler fails, or the user quits from the menu.
AppEnds ==
    /\ life = "running"
    /\ life' = "ended"
    /\ out' = Silence
    /\ UNCHANGED <<G_called_from_swap, last_ins, tx, pubkey, screen, allow_blind_sign, switch,
                   owed, acked>>

-----------------------------------------------------------------------------
(* ui/: the callbacks of the screen on display                             *)

\* reviewChoice shows a status screen once the callback is done.
ApproveReview ==
    /\ life = "running"
    /\ screen.kind \in ReviewKinds
    /\ \/ sign_nothing(tx) /\ UNCHANGED life
       \/ sign_and_reply(tx, owed) /\ UNCHANGED life
       \/ signing_failed(tx)
    /\ screen' = Screen("status_signed")
    /\ UNCHANGED <<G_called_from_swap, last_ins, pubkey, allow_blind_sign, acked>>

RejectReview ==
    /\ life = "running"
    /\ screen.kind \in ReviewKinds
    /\ reject_transaction(tx, owed)
    /\ screen' = Screen("status_rejected")
    /\ UNCHANGED <<life, G_called_from_swap, last_ins, pubkey, allow_blind_sign, acked>>

confirmationChoiceClbk(confirm) ==
    /\ life = "running"
    /\ screen.kind = "address"
    /\ IF confirm THEN on_address_confirmed ELSE on_address_rejected
    /\ screen' = Screen("status_address")
    /\ UNCHANGED <<life, G_called_from_swap, last_ins, tx, allow_blind_sign, switch, acked>>

\* A status page times out, or the blind-signing warning is dismissed: both lead to the
\* home and settings menu.
BackToMenu ==
    /\ life = "running"
    /\ screen.kind \in {"status_signed", "status_rejected", "status_address", "blind_warning"}
    /\ display_idle_menu
    /\ out' = Silence
    /\ UNCHANGED <<life, G_called_from_swap, last_ins, tx, pubkey, allow_blind_sign, owed, acked>>

ToggleBlindSigning ==
    /\ life = "running"
    /\ screen.kind = "menu"
    /\ settings_controls_callback
    /\ out' = Silence
    /\ UNCHANGED <<life, G_called_from_swap, last_ins, tx, pubkey, screen, owed, acked>>

-----------------------------------------------------------------------------
(* The start of the application, alone or as a library of Exchange.        *)

FreshTx(called_from_swap) == [NoTx EXCEPT !.swap_params = called_from_swap]
FreshScreen(called_from_swap) == Screen(IF called_from_swap THEN "none" ELSE "menu")

Init ==
    /\ life = "running"
    /\ G_called_from_swap \in BOOLEAN
    /\ last_ins = "none"
    /\ tx = FreshTx(G_called_from_swap)
    /\ pubkey = NoPubkey
    /\ screen = FreshScreen(G_called_from_swap)
    /\ allow_blind_sign \in BOOLEAN
    /\ switch = (~G_called_from_swap /\ allow_blind_sign)
    /\ owed = "none"
    /\ out = Silence
    /\ acked = << >>

\* The application is opened again: RAM is fresh, only N_storage is kept.
Restart ==
    /\ life # "running"
    /\ life' = "running"
    /\ G_called_from_swap' \in BOOLEAN
    /\ last_ins' = "none"
    /\ tx' = FreshTx(G_called_from_swap')
    /\ pubkey' = NoPubkey
    /\ screen' = FreshScreen(G_called_from_swap')
    /\ switch' = (~G_called_from_swap' /\ allow_blind_sign)
    /\ owed' = "none"
    /\ out' = Silence
    /\ acked' = << >>
    /\ UNCHANGED allow_blind_sign

Apdu ==
    \/ \E p \in SignPacket : Sign(p)
    \/ \E p \in PubkeyRequest : GetPublicKey(p)
    \/ \E ins \in {"GET_APP_CONFIGURATION", "other"} : OtherCommand(ins)
    \/ WrongClass
    \/ TruncatedApdu

UserDecides ==
    \/ ApproveReview
    \/ RejectReview
    \/ \E confirm \in BOOLEAN : confirmationChoiceClbk(confirm)

Next ==
    \/ Apdu
    \/ UserDecides
    \/ BackToMenu
    \/ ToggleBlindSigning
    \/ AppEnds
    \/ Restart

Spec == Init /\ [][Next]_vars

\* A user who is asked eventually decides, unless something else takes the screen first.
LiveSpec == Spec /\ WF_vars(UserDecides)

-----------------------------------------------------------------------------
(* What must hold.                                                         *)

TxType == [sign_state: SignState, data: BOOLEAN, path: Path \cup {NoPath},
           curve: Curve \cup {"none"}, bytes: TxData, raw_tx_length: 0..MaxRawTx,
           prefix: Prefix, has_empty_pub_key: BOOLEAN, fields: Fields \cup {NoFields},
           swap_params: BOOLEAN]

\* Every variable has its type.
TypeOK ==
    /\ life \in {"running", "ended", "aborted", "swap_success", "swap_failure"}
    /\ G_called_from_swap \in BOOLEAN
    /\ last_ins \in Ins \cup {"none"}
    /\ tx \in TxType
    /\ pubkey \in [pending: BOOLEAN, key: Key]
    /\ screen \in [kind: ScreenKinds, key: Key, bytes: TxData, fields: Fields \cup {NoFields}]
    /\ allow_blind_sign \in BOOLEAN
    /\ switch \in BOOLEAN
    /\ owed \in {"none", "SIGN", "GET_PUBLIC_KEY"}
    /\ out \in [to: Ins \cup {"none"}, sw: StatusWord \cup {"none"},
                signature: SUBSET Signature, key: SUBSET Key]
    /\ acked \in TxData

\* While a transaction waits for the user, the screen is the review that was opened for
\* exactly it: same bytes, same key, same fields.  Every APDU that replaces or drops the
\* transaction must replace the review or leave nothing that it could approve
\* (sign_transaction checks sign_state and nothing else about what is on display).
PendingIsOnScreen ==
    life = "running" /\ tx.sign_state = "PENDING_REVIEW" =>
        /\ tx.data
        /\ screen.kind \in ReviewKinds
        /\ screen = ReviewOf(tx, screen.kind)

\* A review draws its pages from parse_context when the user turns them.  Whatever the
\* host does meanwhile, a page shows the transaction the review was opened for, or
\* nothing: never the fields of another transaction.
ReviewNeverShowsAnother ==
    screen.kind \in ReviewKinds => tx.fields \in {screen.fields, NoFields}

\* The bytes stored are the bytes of one upload: its first packet and the packets the
\* host had accepted after it, with nothing of an interrupted upload among them.
UploadIsWhole ==
    tx.sign_state # "IDLE" => tx.data /\ tx.path # NoPath /\ tx.bytes = acked

\* raw_tx never overflows: neither by a packet nor by the account suffix that
\* sign_transaction appends without looking.
RawTxFits ==
    /\ PrefixLen + Len(tx.bytes) <= MaxRawTx
    /\ tx.has_empty_pub_key => tx.raw_tx_length + SuffixLen <= MaxRawTx

\* The key on the address screen is the one that will be returned on approval: no other
\* command overwrites pending_pubkey_ctx while the user compares the address.
AddressShownIsReturned ==
    life = "running" /\ screen.kind = "address" =>
        pubkey = [pending |-> TRUE, key |-> screen.key]

\* A reply carries a signature only to SIGN and a public key only to GET_PUBLIC_KEY: a
\* late callback never answers a command sent after the one it belongs to.
ReplyAnswersItsCommand ==
    /\ out.signature # {} => out.to \in {"SIGN", "none"}
    /\ out.key # {} => out.to \in {"GET_PUBLIC_KEY", "none"}

\* The switch on the settings page, cached in G_switches, is what the NVM holds.
SwitchShowsSetting ==
    life = "running" /\ screen.kind = "menu" => switch = allow_blind_sign

\* A signature outside a swap: the user approved a review of these bytes, to be signed
\* with this key, and they are the bytes the host uploaded.
SignedIsApproved ==
    [][\A s \in out'.signature : ~G_called_from_swap =>
            /\ screen.kind \in ReviewKinds
            /\ s.key = screen.key
            /\ s.bytes = screen.bytes /\ s.bytes = acked
            /\ screen.fields = ParseTx(s.bytes).fields]_vars

\* A transaction that could not be clear-signed is signed only from a blind-signing
\* review, with the setting on at that moment.
BlindSignNeedsConsent ==
    [][\A s \in out'.signature :
            ~G_called_from_swap /\ ParseTx(s.bytes).exception = "BLIND_SIGN_REQUIRED" =>
                screen.kind = "blind_review" /\ allow_blind_sign]_vars

\* The multi-signing prefix, the account suffix and an empty SigningPubKey go together:
\* a single-signing signature can never be taken for a multi-signing one.
PrefixMatchesSuffix ==
    \A s \in out.signature :
        /\ s.suffixed = ParseTx(s.bytes).has_empty_pub_key
        /\ s.prefix = IF s.suffixed THEN "multi" ELSE "single"

\* In a swap a complete transaction ends the library call: with a signature and "success"
\* when it matches what the user agreed to in Exchange, and without one otherwise,
\* whatever commands and failed uploads came before.
SwapVerdict ==
    G_called_from_swap =>
        LET matches == SwapMatches(ParseTx(acked).fields)
        IN  /\ out.signature # {} <=> life = "swap_success"
            /\ life = "swap_success" => matches
            /\ life = "swap_failure" => ~matches

\* No command waits for an answer that cannot come: the screen that owes it stays
\* on display, and its callback replies, until the answer is given or another command is
\* taken in.
EveryCommandAnswered == owed # "none" ~> owed = "none" \/ life # "running"

-----------------------------------------------------------------------------
(* The abstract specification, and this one as an implementation of it.    *)

Subjects == [key: [path: Path, curve: Curve], bytes: TxData]

AgreedSubjects == {s \in Subjects : SwapMatches(ParseTx(s.bytes).fields)}

\* The subject of the review on display, held or not.
Asked ==
    IF life = "running" /\ screen.kind \in ReviewKinds
    THEN {[key |-> screen.key, bytes |-> screen.bytes]}
    ELSE {}

Told ==
    CASE life = "running" /\ screen.kind = "status_signed" -> "signed"
      [] life = "running" /\ screen.kind = "status_rejected" -> "rejected"
      [] OTHER -> "nothing"

Given == {[key |-> s.key, bytes |-> s.bytes] : s \in out.signature}

Promise == INSTANCE Consent WITH
    Subject <- Subjects,
    Agreed <- AgreedSubjects,
    on <- life = "running",
    swap <- G_called_from_swap,
    asked <- Asked,
    held <- life = "running" /\ tx.sign_state = "PENDING_REVIEW",
    told <- Told,
    given <- Given

\* The application keeps its promise about consent.  A review that is held is never
\* replaced by another, only decided, withdrawn or taken off; approving it signs exactly
\* what it was opened for or stops the application, and the review and its session go
\* together, so that no second signature can follow; approving a review that is no longer
\* held, or rejecting any, signs nothing.
ConsentIsKept == Promise!Spec

-----------------------------------------------------------------------------
(* The invariant that is inductive.                                        *)

Parsed(t) ==
    /\ ParseTx(t.bytes).exception # "ERROR"
    /\ t.raw_tx_length = PrefixLen + Len(t.bytes)
    /\ t.fields = ParseTx(t.bytes).fields
    /\ t.has_empty_pub_key = ParseTx(t.bytes).has_empty_pub_key
    /\ t.prefix = PrefixFor(t)
    /\ SuffixFits(t)

\* What a session holds in each of its states; upload is what the host had accepted.
SessionOK(t, upload) ==
    /\ t.sign_state # "PENDING_REVIEW" => t.fields = NoFields /\ ~t.has_empty_pub_key
    /\ t.sign_state = "IDLE" => t.bytes = << >>
    /\ t.sign_state # "IDLE" => t.data /\ t.path \in Path /\ t.curve \in Curve /\ t.bytes = upload
    /\ t.sign_state = "PENDING_REVIEW" => Parsed(t)

ReviewOK ==
    /\ screen.kind \in ReviewKinds => ~G_called_from_swap
    /\ screen.kind = "blind_review" => allow_blind_sign
    /\ ~G_called_from_swap /\ tx.sign_state = "PENDING_REVIEW" =>
            /\ screen.kind \in ReviewKinds
            /\ screen = ReviewOf(tx, screen.kind)
            /\ ParseTx(tx.bytes).exception = "BLIND_SIGN_REQUIRED" => screen.kind = "blind_review"

SwapOK ==
    G_called_from_swap /\ life = "running" => tx.swap_params /\ tx.sign_state # "PENDING_REVIEW"

OwedOK ==
    life = "running" =>
        /\ owed = "SIGN" => tx.sign_state = "PENDING_REVIEW"
        /\ owed = "GET_PUBLIC_KEY" => screen.kind = "address"

\* Only SIGN opens a session, and any other instruction drops it.
SessionIsOfSign == tx.sign_state # "IDLE" => last_ins = "SIGN"

OutputOK == ReplyAnswersItsCommand /\ PrefixMatchesSuffix /\ SwapVerdict

\* The inductive invariant: what the session holds, and which screen is on display for
\* it, in every state that handlers and callbacks can leave behind.
IInv ==
    /\ TypeOK
    /\ SessionOK(tx, acked)
    /\ SessionIsOfSign
    /\ ReviewOK
    /\ SwapOK
    /\ OwedOK
    /\ AddressShownIsReturned
    /\ SwitchShowsSetting
    /\ OutputOK

-----------------------------------------------------------------------------
(* What the documentation says and the code does not do.                   *)

\* get_public_key.c:133-135 does not "leave the device waiting on a confirmation that
\* will never come": a pending confirmation has its screen on display.
ConfirmationCanCome ==
    life = "running" /\ pubkey.pending => screen.kind = "address"

\* doc/xrpapp.asc:283 lists 6982 as the status word of a command the user cancelled.
CancelledByUserIs6982 ==
    [][screen.kind \in ReviewKinds /\ screen'.kind = "status_rejected" =>
            out'.sw \in {"none", "6982"}]_vars

=============================================================================
