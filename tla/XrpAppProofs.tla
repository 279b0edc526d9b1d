---------------------------- MODULE XrpAppProofs ----------------------------
(***************************************************************************)
(* Proofs about XrpApp, for every alphabet, path set, buffer size, parser  *)
(* and swap comparison that meet the assumptions of XrpApp.  IInv is       *)
(* inductive; type correctness and the safety properties follow from it.   *)
(*                                                                         *)
(* The second half is about what XrpApp gives away.  Outside a swap only   *)
(* the approval of a review signs, and it signs what that review was       *)
(* opened for: the action properties follow from this and from IInv.  And  *)
(* XrpApp implements Consent: every APDU, callback and end of the          *)
(* application is one step of the promise, or changes nothing that the     *)
(* promise speaks of.                                                      *)
(***************************************************************************)
EXTENDS XrpApp, TLAPS

-----------------------------------------------------------------------------
(* Facts about the data.                                                   *)

\* Transaction data are the sequences that fit between the prefix and the end of raw_tx.
LEMMA TxDataIsSeq ==
    \A b : b \in TxData <=> b \in Seq(Byte) /\ Len(b) <= MaxRawTx - PrefixLen
<1>1. ASSUME NEW b \in TxData PROVE b \in Seq(Byte) /\ Len(b) <= MaxRawTx - PrefixLen
  <2>1. PICK n \in 0..MaxRawTx - PrefixLen : b \in [1..n -> Byte]
    BY DEF TxData
  <2>2. n \in Nat
    BY LengthAssumption
  <2> QED
    BY <2>1, <2>2, LengthAssumption
<1>2. ASSUME NEW b \in Seq(Byte), Len(b) <= MaxRawTx - PrefixLen PROVE b \in TxData
  <2>1. Len(b) \in 0..MaxRawTx - PrefixLen
    BY <1>2, LengthAssumption
  <2>2. b \in [1..Len(b) -> Byte]
    OBVIOUS
  <2> QED
    BY <2>1, <2>2 DEF TxData
<1> QED
  BY <1>1, <1>2

\* The empty transaction is transaction data.
LEMMA EmptyIsTxData == << >> \in TxData
<1>1. << >> \in Seq(Byte) /\ Len(<< >>) = 0
  OBVIOUS
<1>2. 0 <= MaxRawTx - PrefixLen
  BY LengthAssumption
<1> QED
  BY <1>1, <1>2, TxDataIsSeq

\* The bytes of one packet are a sequence.
LEMMA PacketIsSeq == \A p \in SignPacket : p.bytes \in Seq(Byte)
<1> SUFFICES ASSUME NEW p \in SignPacket PROVE p.bytes \in Seq(Byte)
  OBVIOUS
<1>1. p.bytes \in UNION {[1..n -> Byte] : n \in 0..MaxLc}
  BY DEF SignPacket
<1>2. PICK n \in 0..MaxLc : p.bytes \in [1..n -> Byte]
  BY <1>1
<1>3. n \in Nat
  BY LengthAssumption
<1> QED
  BY <1>2, <1>3

\* What parse_tx returns for transaction data.
LEMMA ParseType == \A b \in TxData : ParseTx(b) \in ParseOutcome
BY ParseAssumption DEF TxData

\* A data sequence read to its own length is itself.
LEMMA WholeSubSeq == \A b \in TxData : SubSeq(b, 1, Len(b)) = b
<1> SUFFICES ASSUME NEW b \in TxData PROVE SubSeq(b, 1, Len(b)) = b
  OBVIOUS
<1>1. b \in Seq(Byte)
  BY TxDataIsSeq
<1> QED
  BY <1>1

-----------------------------------------------------------------------------
(* The session record.                                                     *)

\* The zeroed session is well typed.
LEMMA NoTxType == NoTx \in TxType
BY EmptyIsTxData, LengthAssumption DEF NoTx, TxType, SignState, Prefix

\* A reset leaves a well-formed idle session and, in a swap, the swap parameters.
LEMMA ResetOK ==
    ASSUME G_called_from_swap \in BOOLEAN, NEW t \in TxType
    PROVE  /\ reset_transaction_context(t) \in TxType
           /\ reset_transaction_context(t).sign_state = "IDLE"
           /\ reset_transaction_context(t).bytes = << >>
           /\ reset_transaction_context(t).fields = NoFields
           /\ reset_transaction_context(t).has_empty_pub_key = FALSE
           /\ G_called_from_swap => reset_transaction_context(t).swap_params = t.swap_params
BY NoTxType DEF reset_transaction_context, TxType, NoTx

\* So a reset session is well formed whatever upload came before it.
LEMMA ResetSession ==
    ASSUME G_called_from_swap \in BOOLEAN, NEW t \in TxType, NEW u
    PROVE  SessionOK(reset_transaction_context(t), u)
BY ResetOK DEF SessionOK

-----------------------------------------------------------------------------
(* The SIGN command, handler by handler.  Usable says what a handler may   *)
(* assume of the session it is given, Frame what the SIGN command leaves.  *)

Usable(t) ==
    /\ t \in TxType
    /\ SessionOK(t, acked)
    /\ t.sign_state = "PENDING_REVIEW" => t = tx
    /\ G_called_from_swap => t.swap_params /\ t.sign_state # "PENDING_REVIEW"

Frame ==
    /\ UNCHANGED <<G_called_from_swap, pubkey, allow_blind_sign, switch>>
    /\ last_ins' = "SIGN"

\* A refused packet answers and keeps the session it was given.
LEMMA RefuseStep ==
    ASSUME IInv, life = "running", NEW t, Usable(t), NEW status \in StatusWord,
           Refuse(t, status), Frame
    PROVE  IInv'
<1> USE DEF Refuse, Frame, Say, Silence
<1>1. TypeOK'
  BY DEF IInv, TypeOK, Usable, Ins
<1>2. SessionOK(tx, acked)'
  BY DEF Usable, SessionOK, Parsed, PrefixFor, SuffixFits
<1>3. ReviewOK'
  BY DEF IInv, Usable, ReviewOK, ReviewOf, KeyOf
<1>4. SwapOK' /\ OwedOK'
  BY DEF IInv, Usable, SwapOK, OwedOK
<1>5. AddressShownIsReturned' /\ SwitchShowsSetting' /\ OutputOK'
  BY
  DEF IInv, AddressShownIsReturned, SwitchShowsSetting, OutputOK, ReplyAnswersItsCommand,
      PrefixMatchesSuffix, SwapVerdict
<1> QED
  BY <1>1, <1>2, <1>3, <1>4, <1>5 DEF IInv, SessionIsOfSign

\* An error resets the session first.
LEMMA SendErrorStep ==
    ASSUME IInv, life = "running", NEW t \in TxType, NEW status \in StatusWord,
           G_called_from_swap => t.swap_params, send_error(t, status), Frame
    PROVE  IInv'
<1>1. G_called_from_swap \in BOOLEAN
  BY DEF IInv, TypeOK
<1>2. Usable(reset_transaction_context(t))
  BY <1>1, ResetOK, ResetSession DEF Usable
<1> QED
  BY <1>2, RefuseStep DEF send_error

\* A well-formed pending session signs exactly its data, with its own key and prefix.
LEMMA SignatureType ==
    ASSUME NEW t \in TxType, t.sign_state = "PENDING_REVIEW", t.path \in Path, t.curve \in Curve,
           Parsed(t)
    PROVE  /\ SignatureOf(t) \in Signature
           /\ SignatureOf(t) = [key |-> KeyOf(t), prefix |-> t.prefix, bytes |-> t.bytes,
                                suffixed |-> t.has_empty_pub_key]
<1>1. t.bytes \in TxData
  BY DEF TxType
<1>2. Len(t.bytes) \in Nat
  BY <1>1, TxDataIsSeq
<1>3. t.raw_tx_length - PrefixLen = Len(t.bytes)
  BY <1>2, LengthAssumption DEF Parsed
<1>4. SubSeq(t.bytes, 1, t.raw_tx_length - PrefixLen) = t.bytes
  BY <1>1, <1>3, WholeSubSeq
<1> QED
  BY <1>1, <1>4 DEF SignatureOf, Signature, KeyOf, TxType

\* A parsed transaction that is ready for review.
Ready(t) ==
    /\ t \in TxType
    /\ t.sign_state = "PENDING_REVIEW"
    /\ t.data /\ t.path \in Path /\ t.curve \in Curve
    /\ Parsed(t)
    /\ G_called_from_swap => t.swap_params

\* Its signature carries the prefix and the suffix its own SigningPubKey calls for.
LEMMA SignedAsParsed ==
    ASSUME NEW t, Ready(t)
    PROVE  LET s == SignatureOf(t)
           IN  /\ s.suffixed = ParseTx(s.bytes).has_empty_pub_key
               /\ s.prefix = IF s.suffixed THEN "multi" ELSE "single"
<1>1. SignatureOf(t) = [key |-> KeyOf(t), prefix |-> t.prefix, bytes |-> t.bytes,
                        suffixed |-> t.has_empty_pub_key]
  BY SignatureType DEF Ready
<1> QED
  BY <1>1 DEF Ready, Parsed, PrefixFor

\* Rejecting a pending transaction outside a swap.
LEMMA RejectedOK ==
    ASSUME IInv, NEW t, Ready(t), NEW command, reject_transaction(t, command),
           ~G_called_from_swap
    PROVE  /\ tx' = reset_transaction_context(t) /\ tx' \in TxType
           /\ tx'.sign_state = "IDLE" /\ tx'.bytes = << >> /\ tx'.fields = NoFields
           /\ tx'.has_empty_pub_key = FALSE
           /\ out' = [Silence EXCEPT !.to = command, !.sw = "6985"]
           /\ owed' = "none" /\ switch' = switch
<1>1. G_called_from_swap \in BOOLEAN
  BY DEF IInv, TypeOK
<1> QED
  BY <1>1, ResetOK DEF Ready, reject_transaction, Say

\* A transaction handed to the review is displayed, signed or rejected, and each
\* outcome keeps the invariant.
LEMMA ReviewStep ==
    ASSUME IInv, life = "running", NEW t, Ready(t), acked' = t.bytes, Frame,
           review_transaction(t, ParseTx(t.bytes).exception = "BLIND_SIGN_REQUIRED")
    PROVE  IInv'
<1> DEFINE blind == ParseTx(t.bytes).exception = "BLIND_SIGN_REQUIRED"
<1>0. G_called_from_swap \in BOOLEAN /\ t \in TxType /\ t.bytes \in TxData
  BY DEF IInv, TypeOK, Ready, TxType
<1>1. CASE G_called_from_swap /\ swap_decides(t) /\ UNCHANGED screen
  <2>1. life' \in {"swap_success", "swap_failure", "aborted"}
    BY <1>1 DEF swap_decides, signing_failed
  <2>2. tx' = t \/ tx' = reset_transaction_context(t)
    BY <1>1 DEF swap_decides, signing_failed, sign_and_reply, reject_transaction
  <2>3. tx' \in TxType /\ SessionOK(tx', acked')
    BY <2>2, <1>0, ResetOK, ResetSession DEF Ready, SessionOK
  <2>4. /\ owed' \in {"none", owed}
        /\ \/ out' = Silence /\ life' = "aborted"
           \/ /\ out' = [Silence EXCEPT !.to = "SIGN", !.sw = "6985"]
              /\ life' = "swap_failure" /\ ~SwapMatches(t.fields)
           \/ /\ out' = [Silence EXCEPT !.to = "SIGN", !.sw = "9000",
                                         !.signature = {SignatureOf(t)}]
              /\ life' = "swap_success" /\ SwapMatches(t.fields)
    BY <1>1 DEF swap_decides, check_swap_conditions_and_sign, signing_failed, sign_and_reply,
       reject_transaction, Say, Ready
  <2>5. t.fields = ParseTx(acked').fields
    BY DEF Ready, Parsed
  <2>6. /\ out' \in [to: Ins \cup {"none"}, sw: StatusWord \cup {"none"},
                     signature: SUBSET Signature, key: SUBSET Key]
        /\ OutputOK'
    <3>1. CASE out' = Silence /\ life' = "aborted"
      BY <3>1
      DEF Silence, OutputOK, ReplyAnswersItsCommand, PrefixMatchesSuffix, SwapVerdict
    <3>2. CASE /\ out' = [Silence EXCEPT !.to = "SIGN", !.sw = "6985"]
               /\ life' = "swap_failure" /\ ~SwapMatches(t.fields)
      <4>1. out' = [to |-> "SIGN", sw |-> "6985", signature |-> {}, key |-> {}]
        BY <3>2 DEF Silence
      <4>2. ~SwapMatches(ParseTx(acked').fields)
        BY <2>5, <3>2, Zenon
      <4>3. SwapVerdict'
        <5>1. out'.signature = {}
          BY <4>1
        <5>2. life' = "swap_failure"
          BY <3>2, Zenon
        <5> QED
          BY <4>2, <5>1, <5>2 DEF SwapVerdict
      <4> QED
        BY <4>1, <4>3
        DEF OutputOK, ReplyAnswersItsCommand, PrefixMatchesSuffix, Ins, StatusWord
    <3>3. CASE /\ out' = [Silence EXCEPT !.to = "SIGN", !.sw = "9000",
                                         !.signature = {SignatureOf(t)}]
               /\ life' = "swap_success" /\ SwapMatches(t.fields)
      <4>1. out' = [to |-> "SIGN", sw |-> "9000", signature |-> {SignatureOf(t)}, key |-> {}]
        BY <3>3 DEF Silence
      <4>2. {SignatureOf(t)} \in SUBSET Signature
        BY <1>0, SignatureType DEF Ready
      <4>3. PrefixMatchesSuffix'
        BY <4>1, SignedAsParsed DEF PrefixMatchesSuffix
      <4>4. SwapMatches(ParseTx(acked').fields)
        BY <2>5, <3>3, Zenon
      <4>5. SwapVerdict'
        BY <3>3, <4>1, <4>4 DEF SwapVerdict
      <4>6. ReplyAnswersItsCommand'
        BY <4>1 DEF ReplyAnswersItsCommand
      <4> QED
        BY <4>1, <4>2, <4>3, <4>5, <4>6 DEF OutputOK, Ins, StatusWord
    <3> QED
      BY <2>4, <3>1, <3>2, <3>3
  <2>7. TypeOK'
    BY <1>0, <1>1, <2>1, <2>3, <2>4, <2>6 DEF IInv, TypeOK, Frame, Ins
  <2>8. ReviewOK' /\ SwapOK' /\ OwedOK' /\ AddressShownIsReturned' /\ SwitchShowsSetting'
    BY <1>1, <2>1 DEF IInv, ReviewOK, SwapOK, OwedOK, AddressShownIsReturned,
                      SwitchShowsSetting, Frame
  <2> QED
    BY <2>3, <2>6, <2>7, <2>8 DEF IInv, SessionIsOfSign, Frame
<1>2. CASE ~G_called_from_swap /\ ui_error_blind_signing(t) /\ UNCHANGED life
  <2>1. /\ tx' \in TxType /\ tx'.sign_state = "IDLE" /\ tx'.bytes = << >>
        /\ tx'.fields = NoFields /\ tx'.has_empty_pub_key = FALSE
        /\ out' = [Silence EXCEPT !.to = "SIGN", !.sw = "6985"]
        /\ owed' = "none" /\ screen' = Screen("blind_warning")
    BY <1>2, RejectedOK DEF ui_error_blind_signing
  <2>2. TypeOK'
    BY <1>0, <1>2, <2>1, EmptyIsTxData
    DEF IInv, TypeOK, Frame, Silence, Ins, StatusWord, Screen, ScreenKinds, NoKey, Key
  <2>3. SessionOK(tx', acked') /\ ReviewOK' /\ SwapOK' /\ OwedOK'
    BY <1>2, <2>1 DEF SessionOK, ReviewOK, ReviewKinds, SwapOK, OwedOK, Frame, Screen
  <2>4. AddressShownIsReturned' /\ SwitchShowsSetting' /\ OutputOK'
    BY <1>2, <2>1
    DEF Frame, AddressShownIsReturned, SwitchShowsSetting, OutputOK, ReplyAnswersItsCommand,
        PrefixMatchesSuffix, SwapVerdict, Screen,
                Silence
  <2> QED
    BY <2>2, <2>3, <2>4 DEF IInv, SessionIsOfSign, Frame
<1>3. CASE /\ ~G_called_from_swap /\ (blind => allow_blind_sign)
           /\ screen' = ReviewOf(t, ReviewKind(blind))
           /\ tx' = t
           /\ AnswerLater("SIGN")
           /\ UNCHANGED life
  <2>1. screen' = [kind |-> IF blind THEN "blind_review" ELSE "review", key |-> KeyOf(t),
                   bytes |-> t.bytes, fields |-> t.fields]
    BY <1>3 DEF ReviewOf, ReviewKind
  <2>2. TypeOK'
    BY <1>0, <1>3, <2>1
    DEF IInv, TypeOK, Frame, Silence, Ins, AnswerLater, ScreenKinds, ReviewKinds, Key, KeyOf,
        TxType
  <2>3. SessionOK(tx', acked')
    BY <1>3 DEF Ready, SessionOK
  <2>4. ReviewOK'
    BY <1>3, <2>1 DEF ReviewOK, ReviewKinds, ReviewOf, KeyOf, Frame
  <2>5. SwapOK' /\ OwedOK' /\ AddressShownIsReturned' /\ SwitchShowsSetting'
    BY <1>3, <2>1 DEF Ready, SwapOK, OwedOK, AddressShownIsReturned, SwitchShowsSetting,
                      AnswerLater, Frame
  <2>6. OutputOK'
    BY <1>3
    DEF AnswerLater, OutputOK, ReplyAnswersItsCommand, PrefixMatchesSuffix, SwapVerdict, Silence
  <2> QED
    BY <2>2, <2>3, <2>4, <2>5, <2>6 DEF IInv, SessionIsOfSign, Frame
<1> QED
  BY <1>1, <1>2, <1>3 DEF review_transaction

\* A session that is receiving data: opened by a first packet, nothing parsed yet.
Receiving(t, upload) ==
    /\ t \in TxType
    /\ t.data /\ t.path \in Path /\ t.curve \in Curve
    /\ t.bytes = upload /\ t.fields = NoFields /\ t.has_empty_pub_key = FALSE
    /\ G_called_from_swap => t.swap_params

\* What parsing leaves of a session that is complete, once it was not refused, is ready.
LEMMA CompletedReady ==
    ASSUME NEW u, NEW t, Receiving(t, u),
           t.sign_state = "PENDING_REVIEW", t.raw_tx_length = PrefixLen + Len(u),
           ParseTx(t.bytes).exception # "ERROR",
           SuffixFits([t EXCEPT !.fields = ParseTx(t.bytes).fields,
                                !.has_empty_pub_key = ParseTx(t.bytes).has_empty_pub_key])
    PROVE  LET t1 == [t EXCEPT !.fields = ParseTx(t.bytes).fields,
                               !.has_empty_pub_key = ParseTx(t.bytes).has_empty_pub_key]
               t2 == [t1 EXCEPT !.prefix = PrefixFor(t1)]
           IN  Ready(t2) /\ t2.bytes = u
<1> DEFINE t1 == [t EXCEPT !.fields = ParseTx(t.bytes).fields,
                           !.has_empty_pub_key = ParseTx(t.bytes).has_empty_pub_key]
           t2 == [t1 EXCEPT !.prefix = PrefixFor(t1)]
<1>1. t \in TxType /\ t.bytes \in TxData /\ t.bytes = u
  BY DEF Receiving, TxType
<1>2. ParseTx(t.bytes) \in ParseOutcome
  BY <1>1, ParseType
<1>3. t1 \in TxType
  BY <1>1, <1>2 DEF TxType, ParseOutcome
<1>4. t2 \in TxType
  BY <1>3 DEF TxType, PrefixFor, Prefix
<1>5. /\ t2.sign_state = "PENDING_REVIEW" /\ t2.data /\ t2.path \in Path /\ t2.curve \in Curve
      /\ t2.bytes = t.bytes /\ t2.raw_tx_length = PrefixLen + Len(t2.bytes)
      /\ t2.fields = ParseTx(t2.bytes).fields
      /\ t2.has_empty_pub_key = ParseTx(t2.bytes).has_empty_pub_key
      /\ t2.has_empty_pub_key = t1.has_empty_pub_key
      /\ t2.raw_tx_length = t1.raw_tx_length
      /\ t2.prefix = PrefixFor(t1)
      /\ G_called_from_swap => t2.swap_params
  BY <1>1 DEF Receiving, TxType
<1>6. Parsed(t2)
  BY <1>5 DEF Parsed, PrefixFor, SuffixFits
<1> QED
  BY <1>1, <1>4, <1>5, <1>6 DEF Ready

\* The last packet: refused, or parsed and handed to the review.
LEMMA CompleteStep ==
    ASSUME IInv, life = "running", NEW u, NEW t, Receiving(t, u),
           t.sign_state = "PENDING_REVIEW", t.raw_tx_length = PrefixLen + Len(u),
           complete_transaction(t, u), Frame
    PROVE  IInv'
<1> DEFINE exception == ParseTx(t.bytes).exception
           t1 == [t EXCEPT !.fields = ParseTx(t.bytes).fields,
                           !.has_empty_pub_key = ParseTx(t.bytes).has_empty_pub_key]
           t2 == [t1 EXCEPT !.prefix = PrefixFor(t1)]
<1>1. t \in TxType /\ t.bytes \in TxData /\ t.bytes = u
  BY DEF Receiving, TxType
<1>2. ParseTx(t.bytes) \in ParseOutcome
  BY <1>1, ParseType
<1>3. t1 \in TxType /\ (G_called_from_swap => t1.swap_params)
  BY <1>1, <1>2 DEF TxType, ParseOutcome, Receiving
<1>4. CASE exception = "ERROR" /\ send_error(t1, "68xx")
  BY <1>3, <1>4, SendErrorStep DEF StatusWord
<1>5. CASE ~SuffixFits(t1) /\ send_error(t1, "6700")
  BY <1>3, <1>5, SendErrorStep DEF StatusWord
<1>6. CASE /\ exception # "ERROR" /\ SuffixFits(t1)
           /\ acked' = u
           /\ review_transaction(t2, exception = "BLIND_SIGN_REQUIRED")
  <2>1. Ready(t2) /\ t2.bytes = u
    BY <1>6, CompletedReady
  <2> HIDE DEF t2
  <2>2. review_transaction(t2, ParseTx(t2.bytes).exception = "BLIND_SIGN_REQUIRED")
    BY <1>1, <1>6, <2>1
  <2> QED
    BY <1>6, <2>1, <2>2, ReviewStep
<1> QED
  BY <1>4, <1>5, <1>6 DEF complete_transaction

\* The packet that completes an upload leaves a session that is still only received.
LEMMA PendingReceived ==
    ASSUME NEW u \in TxData, NEW t, Receiving(t, u), NEW p \in SignPacket,
           RawTxHolds(t.bytes \o p.bytes)
    PROVE  LET data == t.bytes \o p.bytes
               t1 == [t EXCEPT !.bytes = data]
               pending == [t1 EXCEPT !.sign_state = "PENDING_REVIEW",
                                     !.raw_tx_length = PrefixLen + Len(data)]
           IN  /\ Receiving(pending, u \o p.bytes)
               /\ pending.sign_state = "PENDING_REVIEW"
               /\ pending.raw_tx_length = PrefixLen + Len(u \o p.bytes)
<1> DEFINE data == t.bytes \o p.bytes
           t1 == [t EXCEPT !.bytes = data]
           pending == [t1 EXCEPT !.sign_state = "PENDING_REVIEW",
                                 !.raw_tx_length = PrefixLen + Len(data)]
<1>1. /\ t \in TxType /\ t.bytes = u /\ u \in Seq(Byte) /\ p.bytes \in Seq(Byte)
      /\ data \in Seq(Byte)
  BY PacketIsSeq, TxDataIsSeq DEF Receiving
<1>2. Len(data) \in Nat /\ data = u \o p.bytes
  BY <1>1
<1>3. RawTxHolds(data)
  OBVIOUS
<1> HIDE DEF data
<1>4. PrefixLen + Len(data) \in 0..MaxRawTx /\ Len(data) <= MaxRawTx - PrefixLen
  BY <1>2, <1>3, LengthAssumption DEF RawTxHolds
<1>5. data \in TxData
  BY <1>1, <1>4, TxDataIsSeq
<1>6. /\ pending \in TxType /\ pending.sign_state = "PENDING_REVIEW"
      /\ pending.bytes = u \o p.bytes
      /\ pending.raw_tx_length = PrefixLen + Len(u \o p.bytes)
      /\ pending.data /\ pending.path \in Path /\ pending.curve \in Curve
      /\ pending.fields = NoFields /\ pending.has_empty_pub_key = FALSE
      /\ G_called_from_swap => pending.swap_params
  BY <1>1, <1>2, <1>4, <1>5 DEF Receiving, TxType, SignState
<1> QED
  BY <1>6 DEF Receiving, data

\* A packet of an open upload is refused, stored, or completes the transaction.
LEMMA ContentStep ==
    ASSUME IInv, life = "running", NEW u \in TxData, NEW t, Receiving(t, u),
           NEW p \in SignPacket, handle_packet_content(t, p, u), Frame
    PROVE  IInv'
<1> DEFINE data == t.bytes \o p.bytes
           t1 == [t EXCEPT !.bytes = data]
           waiting == [t1 EXCEPT !.sign_state = "WAITING_FOR_MORE"]
           pending == [t1 EXCEPT !.sign_state = "PENDING_REVIEW",
                                 !.raw_tx_length = PrefixLen + Len(data)]
<1>1. /\ t \in TxType /\ t.bytes = u /\ u \in Seq(Byte) /\ p.bytes \in Seq(Byte)
      /\ data \in Seq(Byte)
  BY PacketIsSeq, TxDataIsSeq DEF Receiving
<1>2. Len(data) \in Nat /\ data = u \o p.bytes
  BY <1>1
<1> HIDE DEF data
<1>3. CASE ~RawTxHolds(data) /\ send_error(t1, "6700")
  <2>1. Usable(reset_transaction_context(t1))
    <3>1. reset_transaction_context(t1) = reset_transaction_context(t)
      BY <1>1 DEF reset_transaction_context, TxType
    <3>2. G_called_from_swap \in BOOLEAN
      BY DEF IInv, TypeOK
    <3> QED
      BY <1>1, <3>1, <3>2, ResetOK, ResetSession DEF Usable, Receiving
  <2> QED
    BY <1>3, <2>1, RefuseStep DEF send_error, StatusWord
<1>4. ASSUME RawTxHolds(data) PROVE data \in TxData
  <2>1. Len(data) <= MaxRawTx - PrefixLen
    BY <1>2, <1>4, LengthAssumption DEF RawTxHolds
  <2>2. data \in Seq(Byte)
    BY <1>1
  <2> QED
    BY <2>1, <2>2, TxDataIsSeq
<1>5. CASE /\ RawTxHolds(data)
           /\ tx' = waiting
           /\ acked' = u \o p.bytes
           /\ Say("SIGN", "9000")
           /\ UNCHANGED <<life, screen>>
  <2>1. /\ waiting \in TxType /\ waiting.sign_state = "WAITING_FOR_MORE"
        /\ waiting.bytes = u \o p.bytes
        /\ waiting.data /\ waiting.path \in Path /\ waiting.curve \in Curve
        /\ waiting.fields = NoFields /\ waiting.has_empty_pub_key = FALSE
        /\ G_called_from_swap => waiting.swap_params
    BY <1>1, <1>2, <1>4, <1>5 DEF Receiving, TxType, SignState
  <2>2. acked' \in TxData
    BY <1>1, <1>2, <1>4, <1>5
  <2> HIDE DEF waiting
  <2>3. TypeOK'
    BY <1>5, <2>1, <2>2 DEF IInv, TypeOK, Frame, Say, Silence, Ins, StatusWord
  <2>4. SessionOK(tx, acked)' /\ SwapOK' /\ OwedOK'
    BY <1>5, <2>1 DEF SessionOK, SwapOK, OwedOK, Say, Frame
  <2>5. ReviewOK' /\ AddressShownIsReturned' /\ SwitchShowsSetting' /\ OutputOK'
    BY <1>5, <2>1 DEF IInv, ReviewOK, AddressShownIsReturned, SwitchShowsSetting,
                      OutputOK, ReplyAnswersItsCommand, PrefixMatchesSuffix, SwapVerdict, Say,
                      Silence, Frame
  <2> QED
    BY <2>3, <2>4, <2>5 DEF IInv, SessionIsOfSign, Frame
<1>6. CASE RawTxHolds(data) /\ complete_transaction(pending, u \o p.bytes)
  <2>1. /\ Receiving(pending, u \o p.bytes)
        /\ pending.sign_state = "PENDING_REVIEW"
        /\ pending.raw_tx_length = PrefixLen + Len(u \o p.bytes)
    BY <1>6, PendingReceived DEF data
  <2> HIDE DEF pending
  <2> QED
    BY <1>6, <2>1, CompleteStep
<1> QED
  BY <1>3, <1>5, <1>6 DEF handle_packet_content, data

\* The session a handler works on after the instruction check of handle_apdu.
LEMMA EnterOK ==
    ASSUME IInv, life = "running", NEW ins
    PROVE  /\ Usable(EnterHandler(ins))
           /\ EnterHandler(ins).sign_state # "IDLE" => EnterHandler(ins) = tx
<1>1. G_called_from_swap \in BOOLEAN /\ tx \in TxType /\ SessionOK(tx, acked)
  BY DEF IInv, TypeOK
<1>2. G_called_from_swap => tx.swap_params /\ tx.sign_state # "PENDING_REVIEW"
  BY DEF IInv, SwapOK
<1>3. CASE ins = last_ins
  BY <1>1, <1>2, <1>3 DEF EnterHandler, Usable
<1>4. CASE ins # last_ins
  BY <1>1, <1>2, <1>4, ResetOK, ResetSession DEF EnterHandler, Usable
<1> QED
  BY <1>3, <1>4

\* A first packet: refused before or after the reset, or the start of an upload.
LEMMA FirstPacketStep ==
    ASSUME IInv, life = "running", NEW t, Usable(t), t.sign_state = "IDLE",
           NEW p \in SignPacket, handle_first_packet(t, p), Frame
    PROVE  IInv'
<1> DEFINE r == reset_transaction_context(t)
           t0 == [r EXCEPT !.data = TRUE]
           t1 == [t0 EXCEPT !.path = p.head]
<1>1. /\ G_called_from_swap \in BOOLEAN /\ t \in TxType
      /\ G_called_from_swap => t.swap_params
  BY DEF IInv, TypeOK, Usable
<1>2. /\ r \in TxType /\ r.sign_state = "IDLE" /\ r.bytes = << >> /\ r.fields = NoFields
      /\ r.has_empty_pub_key = FALSE /\ (G_called_from_swap => r.swap_params)
  BY <1>1, ResetOK
<1> HIDE DEF r
<1>3. Usable(t0)
  BY <1>2 DEF Usable, TxType, SessionOK
<1>4. ASSUME p.head \in Path PROVE Usable(t1)
  BY <1>2, <1>4 DEF Usable, TxType, SessionOK
<1>5. CASE Refuse(t, "6A80")
  BY <1>5, RefuseStep DEF StatusWord
<1>6. CASE Refuse(t0, "6A81")
  BY <1>3, <1>6, RefuseStep DEF StatusWord
<1>7. CASE p.head \in Path /\ Refuse(t1, "6B00")
  BY <1>4, <1>7, RefuseStep DEF StatusWord
<1>8. ASSUME p.head \in Path, NEW c \in Curve,
             handle_packet_content([t1 EXCEPT !.curve = c], p, << >>)
      PROVE  IInv'
  <2> DEFINE t2 == [t1 EXCEPT !.curve = c]
  <2>1. Receiving(t2, << >>)
    BY <1>2, <1>8 DEF Receiving, TxType
  <2> HIDE DEF t2
  <2> QED
    BY <1>8, <2>1, ContentStep, EmptyIsTxData DEF t2
<1> QED
  BY <1>5, <1>6, <1>7, <1>8 DEF handle_first_packet, r

\* Any SIGN packet keeps the invariant.
LEMMA SignStep ==
    ASSUME IInv, NEW p \in SignPacket, Sign(p)
    PROVE  IInv'
<1> DEFINE t == EnterHandler("SIGN")
<1>1. life = "running" /\ Frame /\ handle_sign(t, p)
  BY DEF Sign, Frame
<1>2. Usable(t) /\ (t.sign_state # "IDLE" => t = tx)
  BY <1>1, EnterOK
<1> HIDE DEF t
<1>3. CASE t.sign_state = "IDLE" /\ handle_first_packet(t, p)
  BY <1>1, <1>2, <1>3, FirstPacketStep
<1>4. CASE Refuse(t, "6A80")
  BY <1>1, <1>2, <1>4, RefuseStep DEF StatusWord
<1>5. CASE t.sign_state = "WAITING_FOR_MORE" /\ handle_packet_content(t, p, acked)
  <2>1. acked \in TxData
    BY DEF IInv, TypeOK
  <2>2. Receiving(t, acked)
    BY <1>2, <1>5 DEF Usable, SessionOK, Receiving, TxType
  <2> QED
    BY <1>1, <1>5, <2>1, <2>2, ContentStep
<1> QED
  BY <1>1, <1>3, <1>4, <1>5 DEF handle_sign, handle_subsequent_packet

-----------------------------------------------------------------------------
(* The other commands, the callbacks and the life cycle.                   *)

\* A step other than SIGN either keeps the session or resets it.  What holds of the
\* session and of the review on display still holds, provided the review gives way only
\* to a session with nothing pending.
LEMMA DropOrKeep ==
    ASSUME IInv, life = "running", tx' = tx \/ tx' = reset_transaction_context(tx),
           UNCHANGED <<G_called_from_swap, acked>>,
           \/ UNCHANGED <<screen, allow_blind_sign>>
           \/ screen'.kind \notin ReviewKinds /\ tx'.sign_state # "PENDING_REVIEW"
    PROVE  tx' \in TxType /\ SessionOK(tx, acked)' /\ ReviewOK' /\ SwapOK'
<1>1. /\ G_called_from_swap \in BOOLEAN /\ tx \in TxType /\ SessionOK(tx, acked)
      /\ ReviewOK /\ SwapOK
  BY DEF IInv, TypeOK
<1>2. /\ tx' \in TxType
      /\ G_called_from_swap => tx'.swap_params /\ tx'.sign_state # "PENDING_REVIEW"
      /\ tx'.sign_state = "IDLE" \/ tx' = tx
  <2>1. G_called_from_swap => tx.swap_params /\ tx.sign_state # "PENDING_REVIEW"
    BY <1>1 DEF SwapOK
  <2>2. CASE tx' = tx
    BY <1>1, <2>1, <2>2
  <2>3. CASE tx' = reset_transaction_context(tx)
    BY <1>1, <2>1, <2>3, ResetOK
  <2> QED
    BY <2>2, <2>3
<1>3. SessionOK(tx, acked)'
  <2>1. CASE tx' = tx
    BY <1>1, <2>1 DEF SessionOK, Parsed, PrefixFor, SuffixFits
  <2>2. CASE tx' = reset_transaction_context(tx)
    BY <1>1, <2>2, ResetSession
  <2> QED
    BY <2>1, <2>2
<1>4. ReviewOK'
  <2>1. CASE UNCHANGED <<screen, allow_blind_sign>>
    BY <1>1, <1>2, <2>1 DEF ReviewOK, ReviewOf, KeyOf
  <2>2. CASE screen'.kind \notin ReviewKinds /\ tx'.sign_state # "PENDING_REVIEW"
    BY <1>1, <2>2 DEF ReviewOK, ReviewKinds
  <2> QED
    BY <2>1, <2>2
<1>5. SwapOK'
  BY <1>2 DEF SwapOK
<1> QED
  BY <1>2, <1>3, <1>4, <1>5

\* GET_PUBLIC_KEY answers, or shows an address with the pending key behind it.
LEMMA GetPublicKeyStep ==
    ASSUME IInv, NEW p \in PubkeyRequest, GetPublicKey(p)
    PROVE  IInv'
<1>1. /\ life = "running" /\ last_ins' = "GET_PUBLIC_KEY"
      /\ tx' = EnterHandler("GET_PUBLIC_KEY") /\ handle_get_public_key(p)
      /\ UNCHANGED <<life, G_called_from_swap, allow_blind_sign, switch, acked>>
  BY DEF GetPublicKey
<1>2. tx'.sign_state = "IDLE" /\ (tx' = tx \/ tx' = reset_transaction_context(tx))
  <2>1. G_called_from_swap \in BOOLEAN /\ tx \in TxType
    BY DEF IInv, TypeOK
  <2> QED
    BY <1>1, <2>1, ResetOK DEF IInv, SessionIsOfSign, EnterHandler
<1>3. /\ life \in {"running", "ended", "aborted", "swap_success", "swap_failure"}
      /\ G_called_from_swap \in BOOLEAN /\ pubkey \in [pending: BOOLEAN, key: Key]
      /\ screen \in [kind: ScreenKinds, key: Key, bytes: TxData, fields: Fields \cup {NoFields}]
      /\ allow_blind_sign \in BOOLEAN /\ switch \in BOOLEAN /\ acked \in TxData
      /\ tx \in TxType /\ NoKey \in Key
      /\ AddressShownIsReturned /\ SwitchShowsSetting
  BY DEF IInv, TypeOK, NoKey, Key
<1>4. CASE /\ UNCHANGED <<pubkey, screen>>
           /\ \E status \in {"6A80", "6985", "6B00"} : Say("GET_PUBLIC_KEY", status)
  <2>1. tx' \in TxType /\ SessionOK(tx, acked)' /\ ReviewOK' /\ SwapOK'
    BY <1>1, <1>2, <1>4, DropOrKeep
  <2>2. TypeOK'
    BY <1>1, <1>3, <1>4, <2>1 DEF TypeOK, Say, Silence, Ins, StatusWord
  <2>3. SessionIsOfSign' /\ OwedOK' /\ AddressShownIsReturned' /\ SwitchShowsSetting'
        /\ OutputOK'
    BY <1>1, <1>2, <1>3, <1>4 DEF SessionIsOfSign, OwedOK, AddressShownIsReturned,
       SwitchShowsSetting, OutputOK, ReplyAnswersItsCommand, PrefixMatchesSuffix, SwapVerdict,
       Say, Silence
  <2> QED
    BY <2>1, <2>2, <2>3 DEF IInv
<1>5. CASE /\ ~pubkey.pending /\ pubkey' \in [pending: {FALSE}, key: {NoKey}]
           /\ UNCHANGED screen
           /\ \/ Say("GET_PUBLIC_KEY", "derivation_error")
              \/ Say("GET_PUBLIC_KEY", "SWO_INCORRECT_DATA")
              \/ \E key \in Key : set_result_get_public_key("GET_PUBLIC_KEY", key)
  <2>1. tx' \in TxType /\ SessionOK(tx, acked)' /\ ReviewOK' /\ SwapOK'
    BY <1>1, <1>2, <1>5, DropOrKeep
  <2>2. /\ out' \in [to: Ins \cup {"none"}, sw: StatusWord \cup {"none"},
                     signature: SUBSET Signature, key: SUBSET Key]
        /\ owed' = "none"
        /\ out'.signature = {} /\ out'.to = "GET_PUBLIC_KEY"
    <3>1. CASE \E status \in {"derivation_error", "SWO_INCORRECT_DATA"} :
                    Say("GET_PUBLIC_KEY", status)
      BY <3>1 DEF Say, Silence, Ins, StatusWord
    <3>2. ASSUME NEW key \in Key, set_result_get_public_key("GET_PUBLIC_KEY", key)
          PROVE  /\ out' = [to |-> "GET_PUBLIC_KEY", sw |-> "9000", signature |-> {},
                            key |-> {key}]
                 /\ owed' = "none" /\ {key} \in SUBSET Key
      BY <3>2 DEF set_result_get_public_key, Silence
    <3> QED
      BY <1>5, <3>1, <3>2 DEF Ins, StatusWord
  <2>3. pubkey' \in [pending: BOOLEAN, key: Key]
    BY <1>3, <1>5
  <2>4. TypeOK'
    BY <1>1, <1>3, <1>5, <2>1, <2>2, <2>3 DEF TypeOK, Ins
  <2>5. screen.kind # "address"
    BY <1>1, <1>3, <1>5 DEF AddressShownIsReturned
  <2>6. SessionIsOfSign' /\ OwedOK' /\ AddressShownIsReturned' /\ SwitchShowsSetting'
        /\ OutputOK'
    BY <1>1, <1>2, <1>3, <1>5, <2>2, <2>5 DEF SessionIsOfSign, OwedOK, AddressShownIsReturned,
       SwitchShowsSetting, OutputOK, ReplyAnswersItsCommand, PrefixMatchesSuffix, SwapVerdict
  <2> QED
    BY <2>1, <2>4, <2>6 DEF IInv
<1>6. CASE \E key \in Key : /\ pubkey' = [pending |-> TRUE, key |-> key]
                            /\ screen' = [Screen("address") EXCEPT !.key = key]
                            /\ AnswerLater("GET_PUBLIC_KEY")
  <2>1. PICK key \in Key : /\ pubkey' = [pending |-> TRUE, key |-> key]
                           /\ screen' = [kind |-> "address", key |-> key, bytes |-> << >>,
                                         fields |-> NoFields]
                           /\ AnswerLater("GET_PUBLIC_KEY")
    BY <1>6 DEF Screen
  <2>2. tx' \in TxType /\ SessionOK(tx, acked)' /\ ReviewOK' /\ SwapOK'
    BY <1>1, <1>2, <2>1, DropOrKeep DEF ReviewKinds
  <2>3. TypeOK'
    BY <1>1, <1>3, <2>1, <2>2, EmptyIsTxData
    DEF TypeOK, AnswerLater, Silence, Ins, ScreenKinds
  <2>4. SessionIsOfSign' /\ OwedOK' /\ AddressShownIsReturned' /\ SwitchShowsSetting'
        /\ OutputOK'
    BY <1>1, <1>2, <2>1 DEF SessionIsOfSign, OwedOK, AddressShownIsReturned,
       SwitchShowsSetting, OutputOK, ReplyAnswersItsCommand, PrefixMatchesSuffix, SwapVerdict,
       AnswerLater, Silence
  <2> QED
    BY <2>2, <2>3, <2>4 DEF IInv
<1>7. ASSUME NEW c \in p.curves, p.head \in Path, ~Busy,
             derived_public_key(p, [path |-> p.head, curve |-> c])
      PROVE  IInv'
  <2> DEFINE key == [path |-> p.head, curve |-> c]
  <2>1. key \in Key
    BY <1>7 DEF PubkeyRequest, Key
  <2> HIDE DEF key
  <2>2. CASE /\ set_result_get_public_key("GET_PUBLIC_KEY", key)
             /\ pubkey' = [pubkey EXCEPT !.key = NoKey]
             /\ UNCHANGED screen
    BY <1>3, <1>5, <1>7, <2>1, <2>2 DEF Busy
  <2>3. CASE /\ pubkey' = NoPubkey
             /\ Say("GET_PUBLIC_KEY", "SWO_INCORRECT_DATA")
             /\ UNCHANGED screen
    BY <1>5, <1>7, <2>3 DEF NoPubkey, Busy
  <2>4. CASE /\ pubkey' = [pending |-> TRUE, key |-> key]
             /\ screen' = [Screen("address") EXCEPT !.key = key]
             /\ AnswerLater("GET_PUBLIC_KEY")
    BY <1>6, <2>1, <2>4
  <2> QED
    BY <1>7, <2>2, <2>3, <2>4 DEF derived_public_key, key
<1> QED
  <2>1. CASE p.head # NoPath /\ ~Busy /\ pubkey' = [pubkey EXCEPT !.key = NoKey]
             /\ Say("GET_PUBLIC_KEY", "derivation_error") /\ UNCHANGED screen
    BY <1>3, <1>5, <2>1 DEF Busy
  <2> QED
    BY <1>1, <1>4, <1>7, <2>1 DEF handle_get_public_key

\* The replies that need no look at the request.
LEMMA PlainCommandStep ==
    ASSUME IInv,
           \/ \E ins \in {"GET_APP_CONFIGURATION", "other"} : OtherCommand(ins)
           \/ WrongClass
           \/ TruncatedApdu
    PROVE  IInv'
<1>1. /\ life = "running" /\ last_ins' \in Ins \cup {"none"}
      /\ tx' = tx \/ tx' = reset_transaction_context(tx)
      /\ UNCHANGED <<life, G_called_from_swap, pubkey, screen, allow_blind_sign, switch, acked>>
      /\ owed' = "none"
      /\ out' \in [to: Ins \cup {"none"}, sw: StatusWord \cup {"none"}, signature: {{}}, key: {{}}]
  BY DEF OtherCommand, WrongClass, TruncatedApdu, EnterHandler, Say, Silence, Ins, StatusWord,
         IInv, TypeOK
<1>2. tx' \in TxType /\ SessionOK(tx, acked)' /\ ReviewOK' /\ SwapOK'
  BY <1>1, DropOrKeep
<1>3. SessionIsOfSign'
  <2>1. G_called_from_swap \in BOOLEAN /\ tx \in TxType
    BY DEF IInv, TypeOK
  <2> QED
    BY <2>1, ResetOK DEF IInv, SessionIsOfSign, OtherCommand, WrongClass, TruncatedApdu,
       EnterHandler
<1>4. TypeOK'
  BY <1>1, <1>2 DEF IInv, TypeOK
<1>5. OwedOK' /\ AddressShownIsReturned' /\ SwitchShowsSetting' /\ OutputOK'
  BY <1>1
  DEF IInv, OwedOK, AddressShownIsReturned, SwitchShowsSetting, OutputOK,
      ReplyAnswersItsCommand, PrefixMatchesSuffix, SwapVerdict
<1> QED
  BY <1>2, <1>3, <1>4, <1>5 DEF IInv

\* A review on display at most one command behind: a reply from it can only go to SIGN.
LEMMA ReviewOwesSign ==
    ASSUME IInv, life = "running", screen.kind \in ReviewKinds
    PROVE  owed \in {"none", "SIGN"} /\ ~G_called_from_swap
BY DEF IInv, TypeOK, OwedOK, ReviewOK, ReviewKinds

\* A transaction waiting for the user is ready to be signed.
LEMMA PendingIsReady ==
    ASSUME IInv, tx.sign_state = "PENDING_REVIEW"
    PROVE  tx.data /\ tx.path \in Path /\ tx.curve \in Curve /\ Parsed(tx) /\ tx.bytes = acked
           /\ SignatureOf(tx) \in Signature
           /\ SignatureOf(tx) = [key |-> KeyOf(tx), prefix |-> tx.prefix, bytes |-> tx.bytes,
                                 suffixed |-> tx.has_empty_pub_key]
<1>1. /\ tx \in TxType /\ tx.data /\ tx.path \in Path /\ tx.curve \in Curve /\ Parsed(tx)
      /\ tx.bytes = acked
  BY DEF IInv, TypeOK, SessionOK
<1> QED
  BY <1>1, SignatureType

\* Approving or rejecting a review ends the session and shows a status page.
LEMMA ReviewDecisionStep ==
    ASSUME IInv, ApproveReview \/ RejectReview
    PROVE  IInv'
<1>1. /\ life = "running" /\ screen.kind \in ReviewKinds
      /\ UNCHANGED <<G_called_from_swap, last_ins, pubkey, allow_blind_sign, acked>>
      /\ life' \in {"running", "aborted"}
  BY DEF ApproveReview, RejectReview, signing_failed
<1>2. owed \in {"none", "SIGN"} /\ ~G_called_from_swap
  BY <1>1, ReviewOwesSign
<1>3. tx' = reset_transaction_context(tx)
  <2>1. tx.sign_state = "PENDING_REVIEW" => tx.data
    BY PendingIsReady
  <2> QED
    BY <1>2, <2>1 DEF ApproveReview, RejectReview, sign_nothing, sign_and_reply, signing_failed,
       reject_transaction, CanSign
<1>4. G_called_from_swap \in BOOLEAN /\ tx \in TxType
  BY DEF IInv, TypeOK
<1>5. tx'.sign_state = "IDLE"
  BY <1>3, <1>4, ResetOK
<1>6. screen' \in {Screen("status_signed"), Screen("status_rejected")}
  BY DEF ApproveReview, RejectReview
<1>7. screen'.kind \in {"status_signed", "status_rejected"}
  BY <1>6 DEF Screen
<1>8. tx' \in TxType /\ SessionOK(tx, acked)' /\ ReviewOK' /\ SwapOK'
  BY <1>1, <1>3, <1>5, <1>7, DropOrKeep DEF ReviewKinds
<1>9. /\ switch' \in {switch, allow_blind_sign}
      /\ owed' \in {"none", owed}
      /\ owed' = "none" \/ tx.sign_state # "PENDING_REVIEW" \/ life' = "aborted"
      /\ \/ out' = Silence
         \/ out' = [Silence EXCEPT !.to = owed, !.sw = "6985"]
         \/ /\ tx.sign_state = "PENDING_REVIEW"
            /\ out' = [Silence EXCEPT !.to = owed, !.sw = "9000", !.signature = {SignatureOf(tx)}]
  BY PendingIsReady DEF ApproveReview, RejectReview, sign_nothing, sign_and_reply,
     signing_failed, reject_transaction, CanSign, Say
<1>10. /\ out' \in [to: Ins \cup {"none"}, sw: StatusWord \cup {"none"},
                    signature: SUBSET Signature, key: SUBSET Key]
       /\ OutputOK'
  <2>1. CASE out' = Silence
    BY <1>1, <1>2, <2>1
    DEF Silence, OutputOK, ReplyAnswersItsCommand, PrefixMatchesSuffix, SwapVerdict
  <2>2. CASE out' = [Silence EXCEPT !.to = owed, !.sw = "6985"]
    BY <1>1, <1>2, <2>2
    DEF Silence, OutputOK, ReplyAnswersItsCommand, PrefixMatchesSuffix, SwapVerdict, Ins,
        StatusWord
  <2>3. CASE /\ tx.sign_state = "PENDING_REVIEW"
             /\ out' = [Silence EXCEPT !.to = owed, !.sw = "9000", !.signature = {SignatureOf(tx)}]
    <3>1. out' = [to |-> owed, sw |-> "9000", signature |-> {SignatureOf(tx)}, key |-> {}]
      BY <2>3 DEF Silence
    <3>2. {SignatureOf(tx)} \in SUBSET Signature
      BY <2>3, PendingIsReady
    <3>3. Ready(tx)
      BY <1>2, <1>4, <2>3, PendingIsReady DEF Ready
    <3>4. PrefixMatchesSuffix'
      BY <3>1, <3>3, SignedAsParsed DEF PrefixMatchesSuffix
    <3> QED
      BY <1>1, <1>2, <3>1, <3>2, <3>4
      DEF OutputOK, ReplyAnswersItsCommand, SwapVerdict, Ins, StatusWord
  <2> QED
    BY <1>9, <2>1, <2>2, <2>3
<1>11. TypeOK'
  <2>1. screen' \in [kind: ScreenKinds, key: Key, bytes: TxData, fields: Fields \cup {NoFields}]
    BY <1>6, EmptyIsTxData DEF Screen, ScreenKinds, NoKey, Key
  <2> QED
    BY <1>1, <1>8, <1>9, <1>10, <2>1 DEF IInv, TypeOK
<1>12. OwedOK' /\ AddressShownIsReturned' /\ SwitchShowsSetting' /\ SessionIsOfSign'
  BY <1>1, <1>2, <1>5, <1>7, <1>9 DEF IInv, OwedOK, AddressShownIsReturned,
     SwitchShowsSetting, SessionIsOfSign
<1> QED
  BY <1>8, <1>10, <1>11, <1>12 DEF IInv

\* The user's answer to an address sends the key that was on display, or none.
LEMMA AddressDecisionStep ==
    ASSUME IInv, NEW confirm \in BOOLEAN, confirmationChoiceClbk(confirm)
    PROVE  IInv'
<1>1. /\ life = "running" /\ screen.kind = "address" /\ screen' = Screen("status_address")
      /\ UNCHANGED <<life, G_called_from_swap, last_ins, tx, allow_blind_sign, switch, acked>>
      /\ pubkey' = NoPubkey /\ owed' = "none"
      /\ \/ out' = [Silence EXCEPT !.to = owed, !.sw = "9000", !.key = {pubkey.key}]
         \/ out' = [Silence EXCEPT !.to = owed, !.sw = "6985"]
  BY DEF confirmationChoiceClbk, on_address_confirmed, on_address_rejected,
         set_result_get_public_key, Say
<1>2. owed \in {"none", "GET_PUBLIC_KEY"} /\ tx.sign_state # "PENDING_REVIEW"
  BY <1>1 DEF IInv, TypeOK, OwedOK, ReviewOK, SwapOK, ReviewKinds
<1>3. screen'.kind = "status_address"
  BY <1>1 DEF Screen
<1>4. tx' \in TxType /\ SessionOK(tx, acked)' /\ ReviewOK' /\ SwapOK'
  BY <1>1, <1>2, <1>3, DropOrKeep DEF ReviewKinds
<1>5. /\ out' \in [to: Ins \cup {"none"}, sw: StatusWord \cup {"none"},
                   signature: SUBSET Signature, key: SUBSET Key]
      /\ OutputOK'
  <2>1. pubkey.key \in Key
    BY DEF IInv, TypeOK
  <2> QED
    BY <1>1, <1>2, <2>1
    DEF Silence, OutputOK, ReplyAnswersItsCommand, PrefixMatchesSuffix, SwapVerdict, Ins,
        StatusWord
<1>6. TypeOK'
  <2>1. /\ screen' \in [kind: ScreenKinds, key: Key, bytes: TxData, fields: Fields \cup {NoFields}]
        /\ pubkey' \in [pending: BOOLEAN, key: Key]
    BY <1>1, EmptyIsTxData DEF Screen, ScreenKinds, NoKey, Key, NoPubkey
  <2> QED
    BY <1>1, <1>4, <1>5, <2>1 DEF IInv, TypeOK
<1>7. OwedOK' /\ AddressShownIsReturned' /\ SwitchShowsSetting' /\ SessionIsOfSign'
  BY <1>1, <1>3 DEF IInv, OwedOK, AddressShownIsReturned, SwitchShowsSetting, SessionIsOfSign
<1> QED
  BY <1>4, <1>5, <1>6, <1>7 DEF IInv

\* Going back to the menu and turning the setting on or off leave the session alone.
LEMMA MenuStep ==
    ASSUME IInv, BackToMenu \/ ToggleBlindSigning
    PROVE  IInv'
<1>1. /\ life = "running" /\ out' = Silence /\ screen.kind \notin ReviewKinds \cup {"address"}
      /\ UNCHANGED <<life, G_called_from_swap, last_ins, tx, pubkey, owed, acked>>
      /\ screen' = Screen("menu") \/ UNCHANGED screen
  BY DEF BackToMenu, ToggleBlindSigning, display_idle_menu, ReviewKinds
<1>2. screen'.kind = "menu" /\ switch' = allow_blind_sign' /\ switch' \in BOOLEAN
  <2>1. CASE BackToMenu
    BY <2>1 DEF BackToMenu, display_idle_menu, Screen, IInv, TypeOK
  <2>2. CASE ToggleBlindSigning
    BY <2>2 DEF ToggleBlindSigning, settings_controls_callback
  <2> QED
    BY <2>1, <2>2
<1>3. tx.sign_state # "PENDING_REVIEW"
  BY <1>1 DEF IInv, TypeOK, ReviewOK, SwapOK
<1>4. owed = "none"
  BY <1>1, <1>3 DEF IInv, TypeOK, OwedOK
<1>5. tx' \in TxType /\ SessionOK(tx, acked)' /\ ReviewOK' /\ SwapOK'
  BY <1>1, <1>2, <1>3, DropOrKeep DEF ReviewKinds
<1>6. TypeOK'
  <2>1. screen' \in [kind: ScreenKinds, key: Key, bytes: TxData, fields: Fields \cup {NoFields}]
    BY <1>1, EmptyIsTxData DEF Screen, ScreenKinds, NoKey, Key, IInv, TypeOK
  <2>2. out' \in [to: Ins \cup {"none"}, sw: StatusWord \cup {"none"},
                  signature: SUBSET Signature, key: SUBSET Key]
    BY <1>1 DEF Silence
  <2> QED
    BY <1>1, <1>2, <1>5, <2>1, <2>2 DEF IInv, TypeOK
<1>7. /\ OwedOK' /\ AddressShownIsReturned' /\ SwitchShowsSetting' /\ SessionIsOfSign'
      /\ OutputOK'
  BY <1>1, <1>2, <1>4 DEF IInv, OwedOK, AddressShownIsReturned, SwitchShowsSetting,
     SessionIsOfSign, OutputOK, ReplyAnswersItsCommand, PrefixMatchesSuffix, SwapVerdict,
     Silence
<1> QED
  BY <1>5, <1>6, <1>7 DEF IInv

\* The application stops with its RAM as it is.
LEMMA AppEndsStep ==
    ASSUME IInv, AppEnds
    PROVE  IInv'
<1>1. /\ life = "running" /\ life' = "ended" /\ out' = Silence
      /\ UNCHANGED <<G_called_from_swap, last_ins, tx, pubkey, screen, allow_blind_sign, switch,
                     owed, acked>>
  BY DEF AppEnds
<1>2. tx' \in TxType /\ SessionOK(tx, acked)' /\ ReviewOK' /\ SwapOK'
  BY <1>1, DropOrKeep
<1>3. TypeOK'
  BY <1>1 DEF IInv, TypeOK, Silence
<1>4. /\ OwedOK' /\ AddressShownIsReturned' /\ SwitchShowsSetting' /\ SessionIsOfSign'
      /\ OutputOK'
  BY <1>1 DEF IInv, OwedOK, AddressShownIsReturned, SwitchShowsSetting,
     SessionIsOfSign, OutputOK, ReplyAnswersItsCommand, PrefixMatchesSuffix, SwapVerdict,
     Silence
<1> QED
  BY <1>2, <1>3, <1>4 DEF IInv

\* The state an application starts in, whatever the setting.
Started ==
    /\ life = "running" /\ G_called_from_swap \in BOOLEAN /\ last_ins = "none"
    /\ tx = FreshTx(G_called_from_swap) /\ pubkey = NoPubkey
    /\ screen = FreshScreen(G_called_from_swap)
    /\ allow_blind_sign \in BOOLEAN
    /\ switch = (~G_called_from_swap /\ allow_blind_sign)
    /\ owed = "none" /\ out = Silence /\ acked = << >>

\* It satisfies the invariant.
LEMMA StartedOK == Started => IInv
<1> SUFFICES ASSUME Started PROVE IInv
  OBVIOUS
<1>1. screen \in {Screen("none"), Screen("menu")} /\ (screen.kind = "menu" <=> ~G_called_from_swap)
  BY DEF Started, FreshScreen, Screen
<1>2. screen.kind \in {"none", "menu"}
  BY <1>1 DEF Screen
<1>3. /\ tx \in TxType /\ tx.sign_state = "IDLE" /\ tx.bytes = << >> /\ tx.fields = NoFields
      /\ tx.has_empty_pub_key = FALSE /\ (G_called_from_swap => tx.swap_params)
  BY NoTxType DEF Started, FreshTx, NoTx, TxType
<1>4. switch \in BOOLEAN
  BY DEF Started
<1>5. TypeOK
  <2>1. screen \in [kind: ScreenKinds, key: Key, bytes: TxData, fields: Fields \cup {NoFields}]
    BY <1>1, EmptyIsTxData DEF Screen, ScreenKinds, NoKey, Key
  <2> QED
    BY <1>3, <1>4, <2>1, EmptyIsTxData DEF Started, TypeOK, NoPubkey, NoKey, Key, Silence
<1>6. SessionOK(tx, acked) /\ SessionIsOfSign /\ ReviewOK /\ SwapOK
  BY <1>2, <1>3 DEF SessionOK, SessionIsOfSign, ReviewOK, ReviewKinds, SwapOK
<1>7. OwedOK /\ AddressShownIsReturned /\ OutputOK
  BY <1>2
  DEF Started, OwedOK, AddressShownIsReturned, OutputOK, ReplyAnswersItsCommand,
      PrefixMatchesSuffix, SwapVerdict, Silence
<1>8. SwitchShowsSetting
  BY <1>1 DEF Started, SwitchShowsSetting
<1> QED
  BY <1>5, <1>6, <1>7, <1>8 DEF IInv

-----------------------------------------------------------------------------
(* The theorems.                                                           *)

\* IInv is an inductive invariant of the application.
THEOREM Invariance == Spec => []IInv
<1>1. Init => IInv
  <2>1. Init => Started
    BY DEF Init, Started
  <2> QED
    BY <2>1, StartedOK
<1>2. IInv /\ [Next]_vars => IInv'
  <2> SUFFICES ASSUME IInv, [Next]_vars PROVE IInv'
    OBVIOUS
  <2>1. ASSUME NEW p \in SignPacket, Sign(p) PROVE IInv'
    BY <2>1, SignStep
  <2>2. ASSUME NEW p \in PubkeyRequest, GetPublicKey(p) PROVE IInv'
    BY <2>2, GetPublicKeyStep
  <2>3. CASE \/ \E ins \in {"GET_APP_CONFIGURATION", "other"} : OtherCommand(ins)
             \/ WrongClass
             \/ TruncatedApdu
    BY <2>3, PlainCommandStep
  <2>4. CASE ApproveReview \/ RejectReview
    BY <2>4, ReviewDecisionStep
  <2>5. ASSUME NEW confirm \in BOOLEAN, confirmationChoiceClbk(confirm) PROVE IInv'
    BY <2>5, AddressDecisionStep
  <2>6. CASE BackToMenu \/ ToggleBlindSigning
    BY <2>6, MenuStep
  <2>7. CASE AppEnds
    BY <2>7, AppEndsStep
  <2>8. CASE Restart
    <3>1. Started'
      BY <2>8 DEF Restart, Started, IInv, TypeOK
    <3> QED
      BY <3>1, StartedOK, PTL
  <2>9. CASE UNCHANGED vars
    BY <2>9 DEF vars, IInv, TypeOK, SessionOK, SessionIsOfSign, ReviewOK, ReviewOf, KeyOf,
       SwapOK, OwedOK, AddressShownIsReturned, SwitchShowsSetting, OutputOK,
       ReplyAnswersItsCommand, PrefixMatchesSuffix, SwapVerdict,
       Parsed, PrefixFor, SuffixFits
  <2> QED
    BY <2>1, <2>2, <2>3, <2>4, <2>5, <2>6, <2>7, <2>8, <2>9 DEF Next, Apdu, UserDecides
<1> QED
  BY <1>1, <1>2, PTL DEF Spec

\* Type correctness: every variable keeps its type, so in particular no upload, reset or
\* review ever leaves raw_tx longer than MAX_RAW_TX.
THEOREM TypeCorrect == Spec => []TypeOK
<1>1. IInv => TypeOK
  BY DEF IInv
<1> QED
  BY <1>1, Invariance, PTL

\* A transaction that waits for the user is the one on the screen (display_review_flow,
\* sign_transaction): in a swap nothing waits, and otherwise the review was opened for it.
THEOREM PendingShown == Spec => []PendingIsOnScreen
<1>1. IInv => PendingIsOnScreen
  BY DEF IInv, TypeOK, SessionOK, ReviewOK, SwapOK, PendingIsOnScreen
<1> QED
  BY <1>1, Invariance, PTL

\* The bytes a session holds are those of one upload, whatever commands interrupted the
\* uploads before it (handle_apdu, reset_transaction_context).
THEOREM UploadWhole == Spec => []UploadIsWhole
<1>1. IInv => UploadIsWhole
  <2> SUFFICES ASSUME IInv, tx.sign_state # "IDLE"
               PROVE  tx.data /\ tx.path # NoPath /\ tx.bytes = acked
    BY DEF UploadIsWhole
  <2>1. tx.data /\ tx.path \in Path /\ tx.bytes = acked
    BY DEF IInv, SessionOK
  <2> QED
    BY <2>1, PathAssumption
<1> QED
  BY <1>1, Invariance, PTL

\* raw_tx holds the prefix, the data and the account suffix that sign_transaction appends
\* without a check of its own.
THEOREM RawTxNeverOverflows == Spec => []RawTxFits
<1>1. IInv => RawTxFits
  <2> SUFFICES ASSUME IInv PROVE RawTxFits
    OBVIOUS
  <2>1. tx.bytes \in TxData /\ tx.has_empty_pub_key \in BOOLEAN
    BY DEF IInv, TypeOK, TxType
  <2>2. PrefixLen + Len(tx.bytes) <= MaxRawTx
    <3>1. tx.bytes \in Seq(Byte) /\ Len(tx.bytes) <= MaxRawTx - PrefixLen
      BY <2>1, TxDataIsSeq
    <3>2. Len(tx.bytes) \in Nat
      BY <3>1
    <3> HIDE DEF IInv
    <3> QED
      BY <3>1, <3>2, LengthAssumption
  <2>3. ASSUME tx.has_empty_pub_key PROVE tx.raw_tx_length + SuffixLen <= MaxRawTx
    <3>1. Parsed(tx)
      BY <2>1, <2>3 DEF IInv, SessionOK
    <3> QED
      BY <2>3, <3>1 DEF Parsed, SuffixFits
  <2> QED
    BY <2>2, <2>3 DEF RawTxFits
<1> QED
  BY <1>1, Invariance, PTL

\* The address the user compares is the address that is returned: no request overwrites
\* pending_pubkey_ctx while one is on display (the busy check of handle_get_public_key).
THEOREM AddressShown == Spec => []AddressShownIsReturned
<1>1. IInv => AddressShownIsReturned
  BY DEF IInv
<1> QED
  BY <1>1, Invariance, PTL

\* A late callback never sends a signature or a key in answer to another command.
THEOREM RepliesMatch == Spec => []ReplyAnswersItsCommand
<1>1. IInv => ReplyAnswersItsCommand
  BY DEF IInv, OutputOK
<1> QED
  BY <1>1, Invariance, PTL

\* The switch of the menu agrees with the setting that survives a restart
\* (settings_controls_callback).
THEOREM SwitchShown == Spec => []SwitchShowsSetting
<1>1. IInv => SwitchShowsSetting
  BY DEF IInv
<1> QED
  BY <1>1, Invariance, PTL

\* Multi-signing prefix, account suffix and empty SigningPubKey always go together
\* (prefix_hash_and_suffix, sign_transaction).
THEOREM PrefixAndSuffix == Spec => []PrefixMatchesSuffix
<1>1. IInv => PrefixMatchesSuffix
  BY DEF IInv, OutputOK
<1> QED
  BY <1>1, Invariance, PTL

\* A swap ends with a signature exactly when the transaction is the one agreed to in
\* Exchange (check_swap_conditions_and_sign).
THEOREM SwapDecided == Spec => []SwapVerdict
<1>1. IInv => SwapVerdict
  BY DEF IInv, OutputOK
<1> QED
  BY <1>1, Invariance, PTL

-----------------------------------------------------------------------------
(* No step but the approval of a review signs.                             *)

Unsigned == out'.signature = {}

\* Status words, silence and public keys carry no signature.
LEMMA PlainOutput ==
    ASSUME NEW command
    PROVE  /\ \A status : Say(command, status) => Unsigned
           /\ AnswerLater(command) => Unsigned
           /\ out' = Silence => Unsigned
           /\ \A key : set_result_get_public_key(command, key) => Unsigned
<1>1. ASSUME NEW status, Say(command, status) PROVE Unsigned
  BY <1>1 DEF Say, Silence, Unsigned
<1>2. ASSUME AnswerLater(command) \/ out' = Silence PROVE Unsigned
  BY <1>2 DEF AnswerLater, Silence, Unsigned
<1>3. ASSUME NEW key, set_result_get_public_key(command, key) PROVE Unsigned
  BY <1>3 DEF set_result_get_public_key, Silence, Unsigned
<1> QED
  BY <1>1, <1>2, <1>3

\* Nor does a rejected transaction, or one that was put on display.
LEMMA ReviewUnsigned ==
    ASSUME ~G_called_from_swap, NEW t, NEW blind, review_transaction(t, blind)
    PROVE  Unsigned
<1>1. \A command : reject_transaction(t, command) => Unsigned
  BY PlainOutput DEF reject_transaction
<1> QED
  BY <1>1, PlainOutput DEF review_transaction, ui_error_blind_signing

\* A refused packet, with or without a reset.
LEMMA RefusedUnsigned ==
    \A t, status : (Refuse(t, status) => Unsigned) /\ (send_error(t, status) => Unsigned)
BY PlainOutput DEF Refuse, send_error

\* Any packet of the SIGN command.
LEMMA PacketUnsigned ==
    ASSUME ~G_called_from_swap, NEW t, NEW p, NEW u, handle_packet_content(t, p, u)
    PROVE  Unsigned
<1>1. \A t1, u1 : complete_transaction(t1, u1) => Unsigned
  BY RefusedUnsigned, ReviewUnsigned DEF complete_transaction
<1> QED
  BY <1>1, RefusedUnsigned, PlainOutput DEF handle_packet_content

LEMMA SignUnsigned ==
    ASSUME ~G_called_from_swap, NEW p, Sign(p)
    PROVE  Unsigned
<1>1. \A t : handle_first_packet(t, p) => Unsigned
  BY RefusedUnsigned, PacketUnsigned DEF handle_first_packet
<1>2. \A t : handle_subsequent_packet(t, p) => Unsigned
  BY RefusedUnsigned, PacketUnsigned DEF handle_subsequent_packet
<1>3. \A t : handle_sign(t, p) => Unsigned
  BY <1>1, <1>2, RefusedUnsigned DEF handle_sign
<1> QED
  BY <1>3 DEF Sign

LEMMA PubkeyUnsigned ==
    ASSUME NEW p, GetPublicKey(p)
    PROVE  Unsigned
<1>1. \A key : derived_public_key(p, key) => Unsigned
  BY PlainOutput DEF derived_public_key
<1>2. handle_get_public_key(p) => Unsigned
  BY <1>1, PlainOutput DEF handle_get_public_key
<1> QED
  BY <1>2 DEF GetPublicKey

\* Outside a swap, a step that signs is the approval of a review of the pending
\* transaction, and gives away the signature of exactly that transaction.
LEMMA OnlyApprovalSigns ==
    ASSUME IInv, Next, ~G_called_from_swap, ~Unsigned
    PROVE  /\ life = "running" /\ screen.kind \in ReviewKinds
           /\ tx.sign_state = "PENDING_REVIEW"
           /\ out'.signature = {SignatureOf(tx)}
<1>1. ApproveReview
  <2>1. \A p \in SignPacket : ~Sign(p)
    BY SignUnsigned
  <2>2. \A p \in PubkeyRequest : ~GetPublicKey(p)
    BY PubkeyUnsigned
  <2>3. ~\E ins \in {"GET_APP_CONFIGURATION", "other"} : OtherCommand(ins)
    BY PlainOutput DEF OtherCommand
  <2>4. ~WrongClass /\ ~TruncatedApdu
    BY PlainOutput DEF WrongClass, TruncatedApdu
  <2>5. ~RejectReview
    BY PlainOutput DEF RejectReview, reject_transaction
  <2>6. \A confirm \in BOOLEAN : ~confirmationChoiceClbk(confirm)
    BY PlainOutput DEF confirmationChoiceClbk, on_address_confirmed, on_address_rejected
  <2>7. ~BackToMenu /\ ~ToggleBlindSigning /\ ~AppEnds /\ ~Restart
    BY PlainOutput DEF BackToMenu, ToggleBlindSigning, AppEnds, Restart
  <2> QED
    BY <2>1, <2>2, <2>3, <2>4, <2>5, <2>6, <2>7 DEF Next, Apdu, UserDecides
<1>2. sign_and_reply(tx, owed)
  BY <1>1, PlainOutput DEF ApproveReview, sign_nothing, signing_failed
<1>3. out' = [to |-> owed, sw |-> "9000", signature |-> {SignatureOf(tx)}, key |-> {}]
  BY <1>2 DEF sign_and_reply, Silence
<1>4. tx.sign_state = "PENDING_REVIEW"
  BY <1>2 DEF sign_and_reply, CanSign
<1> QED
  BY <1>1, <1>3, <1>4 DEF ApproveReview

\* What the review on display says of the transaction that waits.
LEMMA ReviewOfPending ==
    ASSUME IInv, ~G_called_from_swap, tx.sign_state = "PENDING_REVIEW"
    PROVE  /\ screen = ReviewOf(tx, screen.kind)
           /\ screen.fields = ParseTx(tx.bytes).fields /\ screen.bytes = tx.bytes
           /\ screen.key = KeyOf(tx)
           /\ tx.bytes = acked
           /\ ParseTx(tx.bytes).exception = "BLIND_SIGN_REQUIRED" =>
                  screen.kind = "blind_review" /\ allow_blind_sign
<1>1. /\ screen = ReviewOf(tx, screen.kind)
      /\ ParseTx(tx.bytes).exception = "BLIND_SIGN_REQUIRED" => screen.kind = "blind_review"
      /\ screen.kind = "blind_review" => allow_blind_sign
  BY DEF IInv, ReviewOK
<1>2. Parsed(tx) /\ tx.bytes = acked
  BY PendingIsReady
<1>3. /\ screen.fields = tx.fields /\ screen.bytes = tx.bytes /\ screen.key = KeyOf(tx)
  BY <1>1 DEF ReviewOf
<1> QED
  BY <1>1, <1>2, <1>3 DEF Parsed

-----------------------------------------------------------------------------
(* The theorems.                                                           *)

\* Outside a swap, every signature is over the bytes, with the key and under the fields of
\* the review the user just approved (sign_transaction, display_review_flow).
THEOREM OnlyApprovedIsSigned == Spec => SignedIsApproved
<1> DEFINE A == \A s \in out'.signature : ~G_called_from_swap =>
                    /\ screen.kind \in ReviewKinds
                    /\ s.key = screen.key
                    /\ s.bytes = screen.bytes /\ s.bytes = acked
                    /\ screen.fields = ParseTx(s.bytes).fields
<1>1. IInv /\ [Next]_vars => [A]_vars
  <2> SUFFICES ASSUME IInv, Next, NEW s \in out'.signature, ~G_called_from_swap
               PROVE  /\ screen.kind \in ReviewKinds
                      /\ s.key = screen.key
                      /\ s.bytes = screen.bytes /\ s.bytes = acked
                      /\ screen.fields = ParseTx(s.bytes).fields
    OBVIOUS
  <2>1. ~Unsigned
    BY DEF Unsigned
  <2>2. screen.kind \in ReviewKinds /\ tx.sign_state = "PENDING_REVIEW" /\ s = SignatureOf(tx)
    BY <2>1, OnlyApprovalSigns
  <2>3. s = [key |-> KeyOf(tx), prefix |-> tx.prefix, bytes |-> tx.bytes,
             suffixed |-> tx.has_empty_pub_key]
    BY <2>2, PendingIsReady
  <2> QED
    BY <2>2, <2>3, ReviewOfPending
<1> QED
  BY <1>1, Invariance, PTL DEF Spec, SignedIsApproved

\* A transaction that cannot be shown in clear is signed only from the blind-signing
\* review and while the setting is on (review_transaction, settings_controls_callback).
THEOREM BlindSigningIsConsented == Spec => BlindSignNeedsConsent
<1> DEFINE A == \A s \in out'.signature :
            ~G_called_from_swap /\ ParseTx(s.bytes).exception = "BLIND_SIGN_REQUIRED" =>
                screen.kind = "blind_review" /\ allow_blind_sign
<1>1. IInv /\ [Next]_vars => [A]_vars
  <2> SUFFICES ASSUME IInv, Next, NEW s \in out'.signature, ~G_called_from_swap,
                      ParseTx(s.bytes).exception = "BLIND_SIGN_REQUIRED"
               PROVE  screen.kind = "blind_review" /\ allow_blind_sign
    OBVIOUS
  <2>1. ~Unsigned
    BY DEF Unsigned
  <2>2. tx.sign_state = "PENDING_REVIEW" /\ s = SignatureOf(tx)
    BY <2>1, OnlyApprovalSigns
  <2>3. s.bytes = tx.bytes
    BY <2>2, PendingIsReady
  <2> QED
    BY <2>2, <2>3, ReviewOfPending
<1> QED
  BY <1>1, Invariance, PTL DEF Spec, BlindSignNeedsConsent

-----------------------------------------------------------------------------
(* The promise.                                                            *)

\* The question on display can still be approved.
Held == life = "running" /\ tx.sign_state = "PENDING_REVIEW"

\* A step of XrpApp, seen as a step of the promise.
Kept == [Promise!Next]_(Promise!vars)

StatusKinds == {"status_signed", "status_rejected"}

-----------------------------------------------------------------------------
(* What the kinds of steps are to the promise.                             *)

\* An unsigned output gives nothing.
LEMMA UnsignedGivesNothing == Unsigned => Given' = {}
BY DEF Unsigned, Given

\* A command that is answered without a new screen: it can only withdraw what is held.
LEMMA QuietStep ==
    ASSUME life = "running", life' = "running",
           UNCHANGED <<G_called_from_swap, screen>>, Unsigned,
           tx'.sign_state = "PENDING_REVIEW" => tx.sign_state = "PENDING_REVIEW"
    PROVE  Kept
<1>1. Given' = {} /\ Asked' = Asked /\ Told' = Told /\ (Held' => Held)
  BY UnsignedGivesNothing DEF Asked, Told, Held
<1>2. CASE Held /\ ~Held'
  <2>1. Promise!Withdraw
    BY <1>1, <1>2 DEF Promise!Withdraw, Promise!Nothing, Held
  <2> QED
    BY <2>1 DEF Kept, Promise!Next
<1>3. CASE Held' <=> Held
  <2>1. CASE Given = {}
    BY <1>1, <1>3, <2>1 DEF Kept, Promise!vars, Held
  <2>2. CASE Given # {}
    <3>1. Promise!Send
      BY <1>1, <1>3, <2>2 DEF Promise!Send, Promise!Nothing, Held
    <3> QED
      BY <3>1 DEF Kept, Promise!Next
  <2> QED
    BY <2>1, <2>2
<1> QED
  BY <1>1, <1>2, <1>3

\* A screen that is neither a review nor the outcome of one takes the place of whatever
\* was on display.
LEMMA OtherScreenStep ==
    ASSUME life = "running", life' = "running", UNCHANGED G_called_from_swap, Unsigned,
           screen'.kind \notin ReviewKinds \cup StatusKinds,
           tx'.sign_state # "PENDING_REVIEW"
    PROVE  Kept
<1>1. Given' = {} /\ Asked' = {} /\ Told' = "nothing" /\ ~Held'
  BY UnsignedGivesNothing DEF Asked, Told, Held, StatusKinds
<1>2. Promise!ShowOther
  BY <1>1 DEF Promise!ShowOther, Promise!Nothing, Held
<1> QED
  BY <1>2 DEF Kept, Promise!Next

\* The application stops, or the library call returns, without a signature.
LEMMA StopStep ==
    ASSUME life = "running", life' # "running", UNCHANGED G_called_from_swap, Unsigned
    PROVE  Kept
<1>1. Given' = {} /\ Asked' = {} /\ Told' = "nothing" /\ ~Held'
  BY UnsignedGivesNothing DEF Asked, Told, Held
<1>2. Promise!Stop
  BY <1>1 DEF Promise!Stop, Promise!Leave, Promise!Nothing, Held
<1> QED
  BY <1>2 DEF Kept, Promise!Next

-----------------------------------------------------------------------------
(* A transaction that is complete.                                         *)

\* What a session that is ready to be signed is about.
LEMMA ReadySubject ==
    ASSUME NEW t, Ready(t)
    PROVE  /\ [key |-> KeyOf(t), bytes |-> t.bytes] \in Subjects
           /\ SignatureOf(t) = [key |-> KeyOf(t), prefix |-> t.prefix, bytes |-> t.bytes,
                                suffixed |-> t.has_empty_pub_key]
           /\ SwapMatches(t.fields) =>
                  [key |-> KeyOf(t), bytes |-> t.bytes] \in AgreedSubjects
<1>1. t.bytes \in TxData /\ KeyOf(t) \in [path: Path, curve: Curve]
  BY DEF Ready, TxType, KeyOf
<1>2. [key |-> KeyOf(t), bytes |-> t.bytes] \in Subjects
  BY <1>1 DEF Subjects
<1>3. t.fields = ParseTx(t.bytes).fields
  BY DEF Ready, Parsed
<1> QED
  BY <1>2, <1>3, SignatureType DEF Ready, AgreedSubjects

\* It is put on display as a question of its own, decided by the swap, or turned down
\* with the blind-signing warning.
LEMMA ReviewKept ==
    ASSUME IInv, life = "running", tx.sign_state # "PENDING_REVIEW",
           NEW t, Ready(t), NEW blind \in BOOLEAN,
           review_transaction(t, blind), UNCHANGED G_called_from_swap
    PROVE  Kept
<1>1. CASE G_called_from_swap /\ swap_decides(t)
  <2>1. CASE check_swap_conditions_and_sign(t) /\ sign_and_reply(t, "SIGN") /\ life' = "swap_success"
    <3>1. out' = [to |-> "SIGN", sw |-> "9000", signature |-> {SignatureOf(t)}, key |-> {}]
      BY <2>1 DEF sign_and_reply, Silence
    <3>2. Given' = {[key |-> KeyOf(t), bytes |-> t.bytes]}
      <4> DEFINE s == SignatureOf(t)
      <4>1. s.key = KeyOf(t) /\ s.bytes = t.bytes
        <5>1. s = [key |-> KeyOf(t), prefix |-> t.prefix, bytes |-> t.bytes,
                   suffixed |-> t.has_empty_pub_key]
          BY ReadySubject
        <5> HIDE DEF s
        <5> QED
          BY <5>1
      <4> HIDE DEF s
      <4>2. Given' = {[key |-> s.key, bytes |-> s.bytes]}
        BY <3>1 DEF Given, s
      <4> QED
        BY <4>1, <4>2
    <3>3. [key |-> KeyOf(t), bytes |-> t.bytes] \in AgreedSubjects
      BY <2>1, ReadySubject DEF check_swap_conditions_and_sign
    <3>4. Asked' = {} /\ Told' = "nothing" /\ ~Held' /\ life' # "running"
      BY <2>1 DEF Asked, Told, Held
    <3>5. Promise!SignAgreed
      BY <1>1, <3>2, <3>3, <3>4 DEF Promise!SignAgreed, Promise!Leave, Held
    <3> QED
      BY <3>5 DEF Kept, Promise!Next
  <2>2. CASE signing_failed(t)
    BY <2>2, StopStep, PlainOutput DEF signing_failed
  <2>3. CASE reject_transaction(t, "SIGN") /\ life' = "swap_failure"
    BY <2>3, StopStep, PlainOutput DEF reject_transaction
  <2> QED
    BY <1>1, <2>1, <2>2, <2>3 DEF swap_decides
<1>2. CASE ~G_called_from_swap /\ ui_error_blind_signing(t) /\ UNCHANGED life
  <2>1. tx'.sign_state = "IDLE" /\ screen'.kind = "blind_warning"
    BY <1>2, RejectedOK DEF ui_error_blind_signing, Screen
  <2>2. Unsigned
    BY <1>2, PlainOutput DEF ui_error_blind_signing, reject_transaction
  <2> QED
    BY <1>2, <2>1, <2>2, OtherScreenStep DEF ReviewKinds, StatusKinds
<1>3. CASE /\ ~G_called_from_swap /\ screen' = ReviewOf(t, ReviewKind(blind))
           /\ tx' = t /\ AnswerLater("SIGN") /\ UNCHANGED life
  <2>1. screen'.kind \in ReviewKinds /\ screen'.key = KeyOf(t) /\ screen'.bytes = t.bytes
    BY <1>3 DEF ReviewOf, ReviewKind, ReviewKinds
  <2>2. /\ Given' = {} /\ Asked' = {[key |-> KeyOf(t), bytes |-> t.bytes]}
        /\ Told' = "nothing" /\ Held' /\ ~Held
    BY <1>3, <2>1, PlainOutput, UnsignedGivesNothing
    DEF Asked, Told, Held, Ready, ReviewKinds
  <2>3. Promise!Ask
    BY <1>3, <2>2, ReadySubject DEF Promise!Ask, Promise!Nothing, Held
  <2> QED
    BY <2>3 DEF Kept, Promise!Next
<1> QED
  BY <1>1, <1>2, <1>3 DEF review_transaction

-----------------------------------------------------------------------------
(* The SIGN command.                                                       *)

\* A refused packet withdraws at most the transaction that it drops.
LEMMA RefuseKept ==
    ASSUME life = "running", NEW t, NEW status, Refuse(t, status),
           t.sign_state = "PENDING_REVIEW" => tx.sign_state = "PENDING_REVIEW",
           UNCHANGED G_called_from_swap
    PROVE  Kept
<1>1. Unsigned
  BY RefusedUnsigned
<1> QED
  BY <1>1, QuietStep DEF Refuse

\* So does one that drops the session.
LEMMA SendErrorKept ==
    ASSUME life = "running", G_called_from_swap \in BOOLEAN, NEW t \in TxType, NEW status,
           send_error(t, status), UNCHANGED G_called_from_swap
    PROVE  Kept
<1>1. reset_transaction_context(t).sign_state = "IDLE"
  BY ResetOK
<1> QED
  BY <1>1, RefuseKept DEF send_error

\* The last packet of an upload.
LEMMA CompleteKept ==
    ASSUME IInv, life = "running", tx.sign_state # "PENDING_REVIEW",
           NEW u, NEW t, Receiving(t, u),
           t.sign_state = "PENDING_REVIEW", t.raw_tx_length = PrefixLen + Len(u),
           complete_transaction(t, u), UNCHANGED G_called_from_swap
    PROVE  Kept
<1> DEFINE exception == ParseTx(t.bytes).exception
           t1 == [t EXCEPT !.fields = ParseTx(t.bytes).fields,
                           !.has_empty_pub_key = ParseTx(t.bytes).has_empty_pub_key]
           t2 == [t1 EXCEPT !.prefix = PrefixFor(t1)]
<1>1. t1 \in TxType /\ G_called_from_swap \in BOOLEAN
  <2>1. t \in TxType /\ t.bytes \in TxData
    BY DEF Receiving, TxType
  <2>2. ParseTx(t.bytes) \in ParseOutcome
    BY <2>1, ParseType
  <2> QED
    BY <2>1, <2>2 DEF TxType, ParseOutcome, IInv, TypeOK
<1>2. CASE send_error(t1, "68xx") \/ send_error(t1, "6700")
  BY <1>1, <1>2, SendErrorKept
<1>3. CASE /\ exception # "ERROR" /\ SuffixFits(t1)
           /\ review_transaction(t2, exception = "BLIND_SIGN_REQUIRED")
  <2>1. Ready(t2)
    BY <1>3, CompletedReady
  <2> HIDE DEF t2
  <2> QED
    BY <1>3, <2>1, ReviewKept
<1> QED
  BY <1>2, <1>3 DEF complete_transaction

\* Any packet of an open upload.
LEMMA ContentKept ==
    ASSUME IInv, life = "running", tx.sign_state # "PENDING_REVIEW",
           NEW u \in TxData, NEW t, Receiving(t, u), NEW p \in SignPacket,
           handle_packet_content(t, p, u), UNCHANGED G_called_from_swap
    PROVE  Kept
<1> DEFINE data == t.bytes \o p.bytes
           t1 == [t EXCEPT !.bytes = data]
           pending == [t1 EXCEPT !.sign_state = "PENDING_REVIEW",
                                 !.raw_tx_length = PrefixLen + Len(data)]
<1>1. t \in TxType /\ G_called_from_swap \in BOOLEAN
  BY DEF Receiving, IInv, TypeOK
<1>2. CASE send_error(t1, "6700")
  <2>1. reset_transaction_context(t1) = reset_transaction_context(t)
    BY <1>1 DEF reset_transaction_context, TxType
  <2> QED
    BY <1>1, <1>2, <2>1, SendErrorKept DEF send_error
<1>3. CASE /\ tx' = [t1 EXCEPT !.sign_state = "WAITING_FOR_MORE"]
           /\ Say("SIGN", "9000") /\ UNCHANGED <<life, screen>>
  <2>1. tx'.sign_state = "WAITING_FOR_MORE"
    BY <1>1, <1>3 DEF TxType
  <2> QED
    BY <1>3, <2>1, PlainOutput, QuietStep
<1>4. CASE RawTxHolds(data) /\ complete_transaction(pending, u \o p.bytes)
  <2>1. /\ Receiving(pending, u \o p.bytes)
        /\ pending.sign_state = "PENDING_REVIEW"
        /\ pending.raw_tx_length = PrefixLen + Len(u \o p.bytes)
    BY <1>4, PendingReceived
  <2> HIDE DEF pending
  <2> QED
    BY <1>4, <2>1, CompleteKept
<1> QED
  BY <1>2, <1>3, <1>4 DEF handle_packet_content

\* Any SIGN packet.
LEMMA SignKept ==
    ASSUME IInv, NEW p \in SignPacket, Sign(p)
    PROVE  Kept
<1> DEFINE t == EnterHandler("SIGN")
           r == reset_transaction_context(t)
<1>1. /\ life = "running" /\ handle_sign(t, p) /\ UNCHANGED G_called_from_swap
      /\ G_called_from_swap \in BOOLEAN
  BY DEF Sign, IInv, TypeOK
<1>2. /\ Usable(t) /\ (t.sign_state # "IDLE" => t = tx)
      /\ tx.sign_state = "PENDING_REVIEW" => t = tx
  BY <1>1, EnterOK DEF IInv, SessionIsOfSign, EnterHandler
<1> HIDE DEF t
<1>3. /\ r \in TxType /\ r.sign_state = "IDLE" /\ r.bytes = << >> /\ r.fields = NoFields
      /\ r.has_empty_pub_key = FALSE /\ (G_called_from_swap => r.swap_params)
  BY <1>1, <1>2, ResetOK DEF Usable
<1>4. CASE t.sign_state = "IDLE" /\ handle_first_packet(t, p)
  <2> HIDE DEF r
  <2> DEFINE t0 == [r EXCEPT !.data = TRUE]
             t1 == [t0 EXCEPT !.path = p.head]
  <2>1. t0.sign_state = "IDLE" /\ t1.sign_state = "IDLE" /\ tx.sign_state # "PENDING_REVIEW"
    BY <1>2, <1>3, <1>4 DEF TxType
  <2>2. CASE Refuse(t, "6A80") \/ Refuse(t0, "6A81") \/ Refuse(t1, "6B00")
    BY <1>1, <1>4, <2>1, <2>2, RefuseKept
  <2>3. ASSUME p.head \in Path, NEW c \in Curve,
               handle_packet_content([t1 EXCEPT !.curve = c], p, << >>)
        PROVE  Kept
    <3> DEFINE t2 == [t1 EXCEPT !.curve = c]
    <3>1. Receiving(t2, << >>)
      BY <1>3, <2>3 DEF Receiving, TxType
    <3> HIDE DEF t2
    <3> QED
      BY <1>1, <2>1, <2>3, <3>1, ContentKept, EmptyIsTxData DEF t2
  <2> QED
    BY <1>4, <2>2, <2>3 DEF handle_first_packet, r
<1>5. CASE Refuse(t, "6A80")
  BY <1>1, <1>2, <1>5, RefuseKept
<1>6. CASE t.sign_state = "WAITING_FOR_MORE" /\ handle_packet_content(t, p, acked)
  <2>1. acked \in TxData /\ tx.sign_state # "PENDING_REVIEW"
    BY <1>2, <1>6 DEF IInv, TypeOK
  <2>2. Receiving(t, acked)
    BY <1>2, <1>6 DEF Usable, SessionOK, Receiving, TxType
  <2> QED
    BY <1>1, <1>6, <2>1, <2>2, ContentKept
<1> QED
  BY <1>1, <1>4, <1>5, <1>6 DEF handle_sign, handle_subsequent_packet

-----------------------------------------------------------------------------
(* The other commands, the callbacks and the life cycle.                   *)

\* GET_PUBLIC_KEY drops the session, and shows at most an address.
LEMMA GetPublicKeyKept ==
    ASSUME IInv, NEW p \in PubkeyRequest, GetPublicKey(p)
    PROVE  Kept
<1>1. /\ life = "running" /\ life' = "running" /\ UNCHANGED G_called_from_swap
      /\ tx' = EnterHandler("GET_PUBLIC_KEY") /\ handle_get_public_key(p)
  BY DEF GetPublicKey
<1>2. tx'.sign_state = "IDLE"
  <2>1. G_called_from_swap \in BOOLEAN /\ tx \in TxType
    BY DEF IInv, TypeOK
  <2> QED
    BY <1>1, <2>1, ResetOK DEF IInv, SessionIsOfSign, EnterHandler
<1>3. Unsigned
  BY PubkeyUnsigned
<1>4. UNCHANGED screen \/ screen'.kind = "address"
  <2>1. \A key : derived_public_key(p, key) => UNCHANGED screen \/ screen'.kind = "address"
    BY DEF derived_public_key, Screen
  <2> QED
    BY <1>1, <2>1 DEF handle_get_public_key
<1>5. CASE UNCHANGED screen
  BY <1>1, <1>2, <1>3, <1>5, QuietStep
<1>6. CASE screen'.kind = "address"
  BY <1>1, <1>2, <1>3, <1>6, OtherScreenStep DEF ReviewKinds, StatusKinds
<1> QED
  BY <1>4, <1>5, <1>6

\* The other commands keep the session or drop it, and show nothing.
LEMMA PlainCommandKept ==
    ASSUME IInv,
           \/ \E ins \in {"GET_APP_CONFIGURATION", "other"} : OtherCommand(ins)
           \/ WrongClass
           \/ TruncatedApdu
    PROVE  Kept
<1>1. /\ life = "running" /\ life' = "running" /\ UNCHANGED <<G_called_from_swap, screen>>
      /\ tx' = tx \/ tx' = reset_transaction_context(tx)
  BY DEF OtherCommand, WrongClass, TruncatedApdu, EnterHandler
<1>2. Unsigned
  BY PlainOutput DEF OtherCommand, WrongClass, TruncatedApdu
<1>3. tx'.sign_state = "PENDING_REVIEW" => tx.sign_state = "PENDING_REVIEW"
  <2>1. G_called_from_swap \in BOOLEAN /\ tx \in TxType
    BY DEF IInv, TypeOK
  <2>2. reset_transaction_context(tx).sign_state = "IDLE"
    BY <2>1, ResetOK
  <2> QED
    BY <1>1, <2>2
<1> QED
  BY <1>1, <1>2, <1>3, QuietStep

\* The user approves what is asked: signed if it is still held, and only then.
LEMMA ApproveKept ==
    ASSUME IInv, ApproveReview
    PROVE  Kept
<1>1. /\ life = "running" /\ screen.kind \in ReviewKinds /\ screen' = Screen("status_signed")
      /\ UNCHANGED G_called_from_swap
  BY DEF ApproveReview
<1>2. ~G_called_from_swap /\ Asked = {[key |-> screen.key, bytes |-> screen.bytes]}
  BY <1>1, ReviewOwesSign DEF Asked
<1>3. tx'.sign_state = "IDLE"
  <2>1. G_called_from_swap \in BOOLEAN /\ tx \in TxType
    BY DEF IInv, TypeOK
  <2>2. tx' = reset_transaction_context(tx)
    BY PendingIsReady DEF ApproveReview, sign_nothing, sign_and_reply, signing_failed, CanSign
  <2> QED
    BY <2>1, <2>2, ResetOK
<1>4. /\ screen'.kind = "status_signed"
      /\ life' = "running" => Asked' = {} /\ Told' = "signed" /\ ~Held'
  BY <1>1, <1>3 DEF Asked, Told, Held, Screen, ReviewKinds
<1>5. CASE sign_nothing(tx) /\ UNCHANGED life
  <2>1. ~Held /\ Given' = {}
    BY <1>5, PendingIsReady, PlainOutput, UnsignedGivesNothing DEF sign_nothing, CanSign, Held
  <2>2. Promise!Approve
    BY <1>1, <1>2, <1>4, <1>5, <2>1 DEF Promise!Approve, Promise!Decide, Held
  <2> QED
    BY <2>2 DEF Kept, Promise!Next
<1>6. CASE sign_and_reply(tx, owed) /\ UNCHANGED life
  <2>1. tx.sign_state = "PENDING_REVIEW" /\ Held
    BY <1>1, <1>6 DEF sign_and_reply, CanSign, Held
  <2>2. Given' = Asked
    <3> DEFINE s == SignatureOf(tx)
    <3>1. s.key = screen.key /\ s.bytes = screen.bytes
      BY <1>2, <2>1, PendingIsReady, ReviewOfPending
    <3> HIDE DEF s
    <3>2. out' = [to |-> owed, sw |-> "9000", signature |-> {s}, key |-> {}]
      BY <1>6 DEF sign_and_reply, Silence, s
    <3>3. Given' = {[key |-> s.key, bytes |-> s.bytes]}
      BY <3>2 DEF Given
    <3> QED
      BY <1>2, <3>1, <3>3
  <2>3. Promise!Approve
    BY <1>1, <1>2, <1>4, <1>6, <2>1, <2>2 DEF Promise!Approve, Promise!Decide, Held
  <2> QED
    BY <2>3 DEF Kept, Promise!Next
<1>7. CASE signing_failed(tx)
  BY <1>1, <1>7, PlainOutput, StopStep DEF signing_failed
<1> QED
  BY <1>5, <1>6, <1>7 DEF ApproveReview

\* The user rejects it, held or not.
LEMMA RejectKept ==
    ASSUME IInv, RejectReview
    PROVE  Kept
<1>1. /\ life = "running" /\ life' = "running" /\ screen.kind \in ReviewKinds
      /\ screen' = Screen("status_rejected") /\ UNCHANGED G_called_from_swap
      /\ reject_transaction(tx, owed)
  BY DEF RejectReview
<1>2. ~G_called_from_swap /\ Asked = {[key |-> screen.key, bytes |-> screen.bytes]}
  BY <1>1, ReviewOwesSign DEF Asked
<1>3. tx'.sign_state = "IDLE"
  <2>1. G_called_from_swap \in BOOLEAN /\ tx \in TxType
    BY DEF IInv, TypeOK
  <2> QED
    BY <1>1, <1>2, <2>1, ResetOK DEF reject_transaction
<1>4. Given' = {}
  BY <1>1, PlainOutput, UnsignedGivesNothing DEF reject_transaction
<1>5. screen'.kind = "status_rejected" /\ Asked' = {} /\ Told' = "rejected" /\ ~Held'
  BY <1>1, <1>3 DEF Asked, Told, Held, Screen, ReviewKinds
<1>6. Promise!Reject
  BY <1>1, <1>2, <1>4, <1>5 DEF Promise!Reject, Promise!Decide, Promise!Nothing, Held
<1> QED
  BY <1>6 DEF Kept, Promise!Next

\* The other callbacks show a page of their own while nothing is held, or none at all.
LEMMA CallbackKept ==
    ASSUME IInv,
           \/ \E confirm \in BOOLEAN : confirmationChoiceClbk(confirm)
           \/ BackToMenu
           \/ ToggleBlindSigning
    PROVE  Kept
<1>1. /\ life = "running" /\ life' = "running" /\ UNCHANGED <<G_called_from_swap, tx>>
      /\ screen.kind \notin ReviewKinds
  BY DEF confirmationChoiceClbk, BackToMenu, ToggleBlindSigning, ReviewKinds
<1>2. tx'.sign_state # "PENDING_REVIEW"
  BY <1>1 DEF IInv, ReviewOK, SwapOK
<1>3. Unsigned
  BY PlainOutput DEF confirmationChoiceClbk, on_address_confirmed, on_address_rejected,
     BackToMenu, ToggleBlindSigning
<1>4. UNCHANGED screen \/ screen'.kind \in {"status_address", "menu"}
  BY DEF confirmationChoiceClbk, BackToMenu, ToggleBlindSigning, display_idle_menu, Screen
<1>5. CASE UNCHANGED screen
  BY <1>1, <1>2, <1>3, <1>5, QuietStep
<1>6. CASE screen'.kind \in {"status_address", "menu"}
  BY <1>1, <1>2, <1>3, <1>6, OtherScreenStep DEF ReviewKinds, StatusKinds
<1> QED
  BY <1>4, <1>5, <1>6

\* The application that starts asks nothing.
LEMMA RestartKept ==
    ASSUME Restart
    PROVE  Kept
<1>1. /\ life # "running" /\ life' = "running" /\ G_called_from_swap' \in BOOLEAN
      /\ tx'.sign_state = "IDLE" /\ screen'.kind \in {"none", "menu"} /\ out' = Silence
  BY DEF Restart, FreshTx, NoTx, FreshScreen, Screen
<1>2. Given' = {} /\ Asked' = {} /\ Told' = "nothing" /\ ~Held'
  BY <1>1, PlainOutput, UnsignedGivesNothing DEF Asked, Told, Held, ReviewKinds
<1>3. Promise!Start
  BY <1>1, <1>2 DEF Promise!Start, Promise!Nothing, Held
<1> QED
  BY <1>3 DEF Kept, Promise!Next

-----------------------------------------------------------------------------
(* The theorems.                                                           *)

\* The application implements the promise about consent: whatever APDUs and callbacks
\* come in whatever order, a question that is held is only decided, withdrawn or taken
\* off, and nothing but its approval or an agreed swap gives a signature (handle_apdu,
\* review_transaction, sign_transaction, reject_transaction).
THEOREM ConsentRefined == Spec => ConsentIsKept
<1>1. Init => Promise!Init
  <2> SUFFICES ASSUME Init PROVE Promise!Init
    OBVIOUS
  <2>1. /\ life = "running" /\ G_called_from_swap \in BOOLEAN /\ out = Silence
        /\ tx.sign_state = "IDLE" /\ screen.kind \in {"none", "menu"}
    BY DEF Init, FreshTx, NoTx, FreshScreen, Screen
  <2>2. Given = {} /\ Asked = {} /\ Told = "nothing" /\ ~Held
    BY <2>1 DEF Given, Silence, Asked, Told, Held, ReviewKinds
  <2> QED
    BY <2>1, <2>2 DEF Promise!Init, Held
<1>2. IInv /\ [Next]_vars => Kept
  <2> SUFFICES ASSUME IInv, [Next]_vars PROVE Kept
    OBVIOUS
  <2>1. ASSUME NEW p \in SignPacket, Sign(p) PROVE Kept
    BY <2>1, SignKept
  <2>2. ASSUME NEW p \in PubkeyRequest, GetPublicKey(p) PROVE Kept
    BY <2>2, GetPublicKeyKept
  <2>3. CASE \/ \E ins \in {"GET_APP_CONFIGURATION", "other"} : OtherCommand(ins)
             \/ WrongClass
             \/ TruncatedApdu
    BY <2>3, PlainCommandKept
  <2>4. CASE ApproveReview
    BY <2>4, ApproveKept
  <2>5. CASE RejectReview
    BY <2>5, RejectKept
  <2>6. CASE \/ \E confirm \in BOOLEAN : confirmationChoiceClbk(confirm)
             \/ BackToMenu
             \/ ToggleBlindSigning
    BY <2>6, CallbackKept
  <2>7. CASE AppEnds
    BY <2>7, StopStep, PlainOutput DEF AppEnds
  <2>8. CASE Restart
    BY <2>8, RestartKept
  <2>9. CASE UNCHANGED vars
    BY <2>9 DEF vars, Kept, Promise!vars, Asked, Told, Given
  <2> QED
    BY <2>1, <2>2, <2>3, <2>4, <2>5, <2>6, <2>7, <2>8, <2>9 DEF Next, Apdu, UserDecides
<1> QED
  BY <1>1, <1>2, Invariance, PTL DEF Spec, ConsentIsKept, Promise!Spec, Kept

\* A page of a review shows the fields the review was opened for or none: outside the
\* review of the pending transaction parse_context is zeroed (display_review_flow,
\* reset_transaction_context).
THEOREM ReviewPagesAreItsOwn == Spec => []ReviewNeverShowsAnother
<1>1. IInv => ReviewNeverShowsAnother
  <2> SUFFICES ASSUME IInv, screen.kind \in ReviewKinds
               PROVE  tx.fields \in {screen.fields, NoFields}
    BY DEF ReviewNeverShowsAnother
  <2>1. CASE tx.sign_state = "PENDING_REVIEW"
    <3>1. screen = ReviewOf(tx, screen.kind)
      BY <2>1 DEF IInv, ReviewOK
    <3> QED
      BY <3>1 DEF ReviewOf
  <2>2. CASE tx.sign_state # "PENDING_REVIEW"
    BY <2>2 DEF IInv, SessionOK
  <2> QED
    BY <2>1, <2>2
<1> QED
  BY <1>1, Invariance, PTL

=============================================================================
