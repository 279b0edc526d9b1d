------------------------------ MODULE XrpBase58 ------------------------------
(***************************************************************************)
(* The base58 text of an address (xrp_encode_base58_address of             *)
(* xrp/xrp_helpers.c): long division in place, with an inner loop that     *)
(* leaves off where the digits left of it are still zero.                  *)
(***************************************************************************)
EXTENDS Integers, Sequences, SequencesExt

CONSTANTS
    InBase,    \* 256
    OutBase,   \* 58
    Alphabet,  \* bas_e58_alphabet
    Growth,    \* digits per hundred bytes (138)
    AddressSize \* the bytes of an account and its checksum (24), scaled down

\* base to the power n
Power(base, n) ==
    LET power[k \in 0..n] == IF k = 0 THEN 1 ELSE base * power[k - 1]
    IN  power[n]

\* output_size: the digits that n bytes are given.
OutputSize(n) == ((n * Growth) \div 100) + 1

\* The letters differ, and there are digits enough for every number of as many bytes.
ASSUME BaseAssumption ==
    /\ InBase \in Nat /\ OutBase \in Nat /\ InBase > OutBase /\ OutBase > 1
    /\ Alphabet \in [1..OutBase -> Range(Alphabet)]
    /\ \A i, j \in 1..OutBase : Alphabet[i] = Alphabet[j] => i = j
    /\ " " \notin Range(Alphabet)
    /\ Growth \in Nat /\ Growth >= 100 /\ AddressSize \in Nat
    /\ \A n \in 0..AddressSize : Power(InBase, n) <= Power(OutBase, OutputSize(n))

LeadingZeros(bytes) == Max({n \in 0..Len(bytes) : \A i \in 1..n : bytes[i] = 0})

\* The digits of one more byte, from the right.  carry is what comes into a digit.
Carry(buffer, byte) ==
    LET In[j \in 0..Len(buffer)] ==
            IF j = Len(buffer) THEN byte ELSE (In[j + 1] + InBase * buffer[j + 1]) \div OutBase
    IN  In

\* Defect: the loop leaves off as soon as nothing is carried.
left_or_right(j, stop_at) == TRUE

\* Digits left of the one where the byte before left off; with no digit left of it, any.
LeftOf(j, stop_at) == stop_at <= 1 \/ j < stop_at

\* The inner loop: stop_at is the place of its last round, 0 when it went through.
AddByte(state, byte) ==
    LET carry == Carry(state.buffer, byte)
        stop == Max({j \in DOMAIN state.buffer : LeftOf(j, state.stop_at) /\ carry[j - 1] = 0} \cup {0})
    IN  [stop_at |-> stop,
         buffer |-> [j \in DOMAIN state.buffer |->
                        IF j < stop THEN state.buffer[j]
                        ELSE (carry[j] + InBase * state.buffer[j]) % OutBase]]

\* The digits of some bytes, one byte after the other.
Divided(bytes, output_size) ==
    LET blank == [buffer |-> [j \in 1..output_size |-> 0], stop_at |-> output_size]
        after[k \in 0..Len(bytes)] == IF k = 0 THEN blank ELSE AddByte(after[k - 1], bytes[k])
    IN  after[Len(bytes)].buffer

xrp_encode_base58_address(bytes) ==
    LET zero_count == LeadingZeros(bytes)
        rest == SubSeq(bytes, zero_count + 1, Len(bytes))
        digits == Divided(rest, OutputSize(Len(rest)))
        significant == SubSeq(digits, LeadingZeros(digits) + 1, Len(digits))
    IN  [i \in 1..zero_count |-> Alphabet[1]]
            \o [i \in DOMAIN significant |-> Alphabet[1 + significant[i]]]

\* The number that digits are, and the digits that a text is.
ValueOf(base, digits) ==
    LET upTo[k \in 0..Len(digits)] == IF k = 0 THEN 0 ELSE base * upTo[k - 1] + digits[k]
    IN  upTo[Len(digits)]

DigitOf(c) == CHOOSE d \in 0..OutBase - 1 : Alphabet[d + 1] = c

DigitsIn(text) == [i \in DOMAIN text |-> DigitOf(text[i])]

\* The text of a number of bytes: as many first letters as there are zero bytes, and the
\* number in base 58.
Encodes(text, bytes) ==
    /\ Range(text) \subseteq Range(Alphabet)
    /\ ValueOf(OutBase, DigitsIn(text)) = ValueOf(InBase, bytes)
    /\ LeadingZeros(DigitsIn(text)) = LeadingZeros(bytes)

=============================================================================
