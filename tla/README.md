# Verification of the XRP application

TLA+ models of the Ledger XRP application (`src/` is the repository), TLC instances that
check them, and proofs checked by TLAPS.  The application receives a transaction from a host
over APDUs, parses it, shows it, and signs it when the user approves, or without the user
when the Exchange application has called it with the parameters of a swap.  What can go wrong
is that something is signed which was not shown, or shown differently from what it is.

## 1. The system

| Part | State | Operations | Talks to | Hard part |
|---|---|---|---|---|
| APDU loop (`app_main.c`, `apdu/entry.c`) | `last_ins`, swap flag | receive, dispatch, reset on a change of instruction | all commands | one APDU may arrive while a screen is up |
| Signing session (`apdu/global.c`, `sign_transaction.c`) | `sign_state`, `tmp_ctx` (raw transaction, path, curve), `parse_context` | first and later packets, completion, sign, reject | parser, review, loop | callbacks fire long after the APDU; three moments write prefix, suffix and result |
| Address command (`get_public_key.c`, `address_ui_nbgl.c`) | pending flag, key context | request, confirm, cancel | loop, screens | one pending context, no lock but the flag |
| Review dispatch (`transaction.c`) | two callbacks | clear review, blind review, refusal, swap | screens, session | decides who consents |
| Screens (`ui/`) | displayed use case, page buffers, settings switch | open, page, approve, reject, toggle | session, settings in NVM | pages are drawn from the session, not from a copy |
| Parser (`xrp/xrp_parse.c`) | `parse_context`: fields, current array and indices, depth, verdict | one field per round, completion, verdict | field table, flags, sort | one array slot and an 8-bit depth for nested input |
| Field table (`xrp/fields.c`) | none | name, hidden, recognized | parser, review | a hidden field is signed unseen |
| Field sort (`xrp/field_sort.c`) | the fields, an index that steps back | sort | parser | in place, stable, terminates |
| Flags (`xrp/flags.c`) | none | text of flags, unknown flags | parser, review | two tables kept in sync by hand |
| Time (`xrp/time.c`) | none | date of a time | review | C division of negative numbers, leap cycles |
| Swap (`swap/`, `transaction.c`) | `approval_strings.swap` | copy parameters, compare, finalize; check an address, print an amount | Exchange, parser, session | nobody looks; what is compared is what the parser left |
| Amounts, percentages, other formatters, helpers (`xrp/amount.c`, `percentage.c`, `general.c`, `xrp_helpers.c`, ...) | none | printing, base58, BIP32 path | review, swap | decimal points, widths |

What makes each of them correct:

- *session, screens, dispatch*: a signature is of the bytes, key and fields of the review that
  was just approved; blind signing needs its own review and the setting; stored bytes are of one
  upload; prefix, suffix and an empty `SigningPubKey` go together; every command is answered and
  no late callback answers another one;
- *address*: the key returned is the key of the address on display;
- *parser, field table, sort*: the review has a row for every field of the signed bytes except
  those deliberately left out, under its own number, in review order; clear signing means
  everything was understood; type, flags and `SigningPubKey` that decide are the top-level ones;
- *flags, time, amounts, currencies, rates, addresses, blobs*: a value can be read back from its
  row, or the row says that it cannot;
- *swap*: what is signed is the payment agreed to in Exchange, and nothing else; what Exchange is
  told about addresses and amounts is true.

The device has one thread.  Concurrency is the interleaving of APDUs with callbacks of the
screen, both of which run to completion.  The only thing that survives a restart is the
blind-signing setting.

## 2. The modules

| Module | What it is |
|---|---|
| `XrpApp` | loop, session, address command, review dispatch, screens, settings, restart, as one state machine |
| `XrpAppProofs` | its inductive invariant, its safety theorems, the action properties about signatures and pages, and the refinement of `Consent` |
| `Consent` | abstract specification of signing: one question is held at a time, an approval signs what was asked, once |
| `FieldOrder` | the priorities of fields and the stable order of a review |
| `FieldSort` | the loop of `sort_fields`; `SortedResult` is its abstract specification: sorted at once |
| `FieldSortProofs` | indices, order, stability, number of rounds, the refinement of `SortedResult` |
| `XrpParse` | `parse_tx`, one field of the stream per step |
| `XrpReview` | what a review must be, counted from the brackets of the stream |
| `Subsequence` | the items of a sequence at chosen positions, which rows and parts of a review are taken by |
| `XrpReviewProofs` | limits and clear signing for every stream; what the depth, the array slot and the fields so far say about the brackets of the stream; the fields that decide; that the review of a flat transaction is the one `XrpReview` describes |
| `XrpSwap` | the three library calls of Exchange: check an address, print an amount, and the parser run by a swap with the comparison with its parameters |
| `XrpSwapProofs` | that a swap signs the agreed payment and refuses none, and that Exchange is told the truth |
| `XrpPrint` | the printing of numbers and of XRP, and the reading of a text as a number |
| `XrpPrintProofs` | that every amount of XRP that is printed reads back |
| `XrpAmount` | issued amounts and currencies |
| `XrpBase58` | long division in place, with its early exit, and what a base58 text stands for |
| `XrpFormat` | percentages, accounts, blobs and `format_field` |
| `XrpDisplay` | the pairs of a page and the slots of their texts; what a page must say |
| `XrpDisplayProofs` | that the texts of a page are those of its own fields, fit their rows and read back; that a base58 text encodes its bytes |
| `XrpFlags` | the text of flags and the masks of known flags |
| `XrpTime` | `ripple_epoch_to_tm` against a calendar that goes on day by day |
| `XrpRowProofs` | that flags read back from their row, that numbers of SetFlag read apart, that blind signing is forced for a reason; that every time is shown as its date |
| `Induction` | facts the proofs share: least elements, induction and recursion along 0..n, permutations, sequences taken at positions, ranks |
| `MC...` | the small instances |

`XrpSwap` composes with the parser by extending `XrpReview`, which extends `XrpParse`, and prints the amount that Exchange shows with
`XrpPrint`, which it extends too; the parser
uses the order of `FieldOrder`, which `FieldSort` shows the loop of the code to produce.  `XrpApp`
takes the parser and the swap comparison as operators (`ParseTx`, `SwapMatches`): its properties
hold whatever these compute, and the other modules are about what they compute.  `XrpDisplay` takes
fields as the parser leaves them and formats them with `XrpFormat`, which extends `XrpAmount` and
`XrpBase58`; `XrpAmount` extends `XrpPrint`.  `XrpApp` implements `Consent` (`ConsentIsKept`): the question is the
review on display with the bytes and the key it was opened for (`Asked`), it is held while its
session is pending, and what is given is the signature in the output (`Given`).

### State and actions

`XrpApp`: `tx` is `sign_state`, `tmp_ctx.transaction_context`, `parse_context` and whether swap
parameters are held; `pubkey` the pending confirmation and its context; `screen` the use case NBGL
displays together with what it was opened for; `switch` the cached copy of `allow_blind_sign`;
`owed` the command whose handler returned without a reply; `out` the output of the last step.
Each handler (`handle_sign`, `handle_get_public_key`, ...) and each callback (`ApproveReview`,
`RejectReview`, `confirmationChoiceClbk`, `ToggleBlindSigning`, ...) is one action, from entry to
return, including the resets done by the dispatcher.  A failure of the cryptographic calls is a
nondeterministic choice.  `acked` is a history variable: the bytes the host had accepted.

`XrpParse`: `context` is `parseContext_t` without the bytes, `verdict` the result, `input` the
history of the stream.  A token is a field with its header; its content is what the parser tells
apart (a native, issued, nonstandard or forged amount; an account or a vector with its length; a
path step with its kind).  Any field may be cut short by the end of the data.  `NoRoom` is the full
array; the end of the stream is the action `EndOfStream`: cleared regular key, mandatory fields,
sort, verdict.

`XrpSwap`: `params` is what Exchange passed, `agreed` the copy, `decision` how far the call is.  `checked` and
`printable` are what Exchange was told before.  Exchange calls for an address and is answered, or for
an amount and then for the signature; every call is an invocation of its own, which the application
does not relate to the others.  A
number is a word of eight bits where the code has 64, and an address a short sequence of characters
with a buffer of five where the code has 41, so that cut addresses, overlong tags, amounts that
do not fit and amounts that have the bit of their encoding all occur.  It follows one upload; that a
refused or broken upload leaves the parameters in place for the next one is `SwapVerdict` of `XrpApp`.

`XrpFlags`: a value is the set of its bits.  The labels and masks are those of the code; the width
of the row is the 128 bytes of the smallest device.  The digits that `%u` writes are an operator
(`Decimal`): all that matters of them is that different numbers have different digits.

`XrpDisplay`: `transaction` is the array of fields, `txFieldValueStrings` the slots, `page` the run of
pairs on display and `drawn` those asked for so far.  `getPair` is called for each pair of a page, in
any order; the texts are read when they are drawn, so every property is about the slot of an index
and not about the value of the formatter.  A text is a sequence of characters, a fixed message one
character.  A formatter is the operator of its name; that `format_field` zeroes the buffer first is why
an operator can stand for it, and that the text fits is part of `TypeOK`.  What a page must say is
stated by reading: the value of the digits (`SaysScaled`), the number of a base58 text (`Encodes`), the
characters between the zero bytes of a currency (`Surrounded`).

`XrpTime`: a time is a day and a second of the day, since TLC has integers of 32 bits with a sign;
quotient and remainder truncate as C does.  Its specification is named `TimeSpec`, since the proofs of
both kinds of rows are in one module.

## 3. The runs

| Run | Question | Bounds |
|---|---|---|
| `app` | safety of the whole life cycle, the inductive invariant, and the refinement of `Consent` | 3 kinds of bytes, a buffer for 2 of them, one path, both curves |
| `app_answers` | no command waits for an answer that cannot come | 2 kinds of bytes, a buffer for one |
| `sort` | order, stability, termination, refinement of `SortedResult` | all sequences of up to 5 fields of the three priorities |
| `parse` | the review is the transaction, what decides about clear signing, and the depth that tells top-level fields apart | six families of streams, `fields` of 6, 2 items, paths and steps, a depth that wraps at 3 |
| `swap` | the agreed payment is signed, and nothing else; what Exchange is told is true | a payment with up to 2 deviations, 10 agreements, 54 addresses with paths |
| `display` | what the user reads is what the bytes say | all amounts of XRP of a word of ten bits; issued amounts with mantissas of three digits and exponents from -5 to 4 and 25; currencies of five bytes; rates of two decimals; accounts of two bytes in real base58; blobs about as long as a row of 24; pages of up to 3 of 5 fields |
| `flags` | flags can be read back from the row | all combinations of the flags of each type and one unknown |
| `time` | dates | all days of 32 bits, the seconds at the borders of minutes, hours and days |
| `app_pending`, `app_cancelled`, `parse_types`, `parse_flags` | four statements of comments, tests and the APDU document that the code does not keep | as above |

Why the bounds are enough: `XrpApp` treats bytes alike except for what the parser says, and with one
byte per packet and a buffer for two every kind of upload occurs: whole, cut, interrupted, restarted,
too long with and without the suffix.  The limits of the parser are scaled so that each is hit and
exceeded within a stream of ten tokens; the families keep apart what does not interact (nesting of
deciding fields, numbering of items, numbering of paths, verdicts, fields that bring others or fail,
the cleared key).  The sort compares neighbours only, and five fields are enough for one to travel
over several others of each priority.  A payment with two deviations has every pair of an omitted, a
doubled, a changed and an added field.  Flags and days are complete up to the choice of the unknown
bit and of the seconds.

The depth of objects has 8 bits in the code and wraps at 3 in the run, so that streams on both sides
of the border are explored.  The properties of what is signed in clear, and `DepthIsExact`, are
stated of streams with fewer objects open at once than the width allows (256 in the code);
without that premise the run finds `DepthIsExact` violated, so the premise is needed.

In `display` the limits keep the relations of the code: a word holds numbers of one digit more than is
printed; the least exponent with the longest mantissa takes just the room asked for; the
exponent has values on both sides of its limits; a mantissa is shorter than, as long as, and longer
than the places its exponent moves the point; a currency has bytes before, in and after the place of
its code, and room to spell XRP at any of them; a blob is one character or one byte shorter and longer than a
row, whose length is odd without its end, as in the code.

`CHECK_DEADLOCK FALSE` is set where the modelled function returns (`FieldSort`, `XrpParse`,
`XrpSwap`, `XrpFlags`, `XrpDisplay`) or the calendar ends (`XrpTime`).  `XrpApp` never stops: it can be restarted.

### Fairness

`app_answers` assumes weak fairness of the user's decision: a user who is asked for as long as it
takes decides some time.  Nothing is assumed of the host or of the settings menu.  `sort` assumes
that the loop goes on, which nothing preempts on this device.

### What the runs show

Every property of the passing runs holds, and for each a plausible bug of the code (kept in the
modules as a definition marked *Defect*) makes it fail.

Four statements of the repository do not hold:

- `ConfirmationCanCome`: `get_public_key.c:133-135` says the device must not wait for a confirmation
  that will never come.  A SIGN that replaces the address screen leaves
  `pubkey_confirmation_pending` set with no callback to clear it, and the address command is
  answered 6985 until the application is restarted.
- `CancelledByUserIs6982`: `doc/xrpapp.asc:283` lists 6982 for a command cancelled by the user; the
  code answers 6985.
- `SecondTypeForcesBlind`: `xrp_parse.c:600-602` says a later `TransactionType` forces blind signing.
  When the first has the value 0xFFFF, which is also `TRANSACTION_INVALID`, the second is trusted.
- `SecondFlagsForceBlind`: `xrp_parse.c:718-719` says the same of a second top-level `Flags`.  One
  that is hidden (0 or only `tfFullyCanonicalSig`) has been removed before they are counted.

One more observation without a statement to set it against: `parse_decimal_number` compares the
exponent with 0 after the bias was subtracted, so that a mantissa of 0 with the raw exponent 97 is
shown as 0 while other amounts with a mantissa of 0 are called invalid.  Both are right as to the
value; `AmountReadsBack` allows for it.

In both parser cases the properties that matter still hold: the type of a clear review is the only
one that is not `TRANSACTION_INVALID` (`TypeIsTrusted`), and no unknown flag is signed in clear
(`FlagsAreKnown`).

## 4. The proofs

All theorems hold for every value of the constants that satisfies the named assumptions of the
modules, each of which the code justifies and TLC evaluates: lengths are natural numbers, the prefix
fits the buffer, `NoPath` and `BadPath` are no paths, `ParseTx` returns an outcome (`XrpApp`); tokens
have their shape, `INVALID` is no supported type, native amounts are told from the other kinds,
and no flags or only the canonical one are flags of every type (`SupportedAssumption`, `FlagsAssumption`, `AmountAssumption`
of the parser); the parameters of a swap have their types and the address of every account fits the
buffer of the agreed one (`SwapAssumption`; an address of this ledger has at most 35 characters, the
buffer 41; the word holds four times the bit that marks an amount as native, that bit is a number of
no more digits than are printed, a native amount has its sign bit above it clear, and no text contains
its own end).  What a check is asked for has its type (`CheckAssumption`), and a word has all the
numbers of as many digits as are printed but not all of one digit more (`PrintAssumption`).

- `XrpAppProofs`: `Invariance`, that `IInv` is inductive.  The properties of interest are not: that a
  review on display belongs to the pending session is kept by a packet only because a session that is
  pending refuses packets, by a callback only because the dispatcher drops the session at every
  change of instruction, and in a swap only because nothing is ever pending.  `IInv` therefore adds
  what a session holds in each of its states (`SessionOK`), that a session belongs to the last
  instruction (`SessionIsOfSign`), what is on display for it (`ReviewOK`), and who owes a reply
  (`OwedOK`).  The proof goes action by action; each handler ends in one of a few shapes (session
  dropped, refused, packet stored, review opened), and one lemma per shape shows the invariant.
  From it follow `TypeCorrect`, `PendingShown`, `UploadWhole`, `RawTxNeverOverflows`, `AddressShown`,
  `RepliesMatch`, `SwitchShown`, `PrefixAndSuffix`, `SwapDecided`.  Its second part is about steps:
  `OnlyApprovedIsSigned` and `BlindSigningIsConsented`: a step that signs outside a
  swap is `ApproveReview`, and the invariant says what was on display.  `ConsentRefined`: `XrpApp`
  implements `Consent`, each handler by a step of asking, giving or dropping, or a stutter.
  `ReviewPagesAreItsOwn`: while a review stays on display, what its pages are drawn from stays the
  transaction it was opened for, although they are drawn from the session and not from a copy.
- `FieldSortProofs`: indices, `WalkedIsOrdered`, `SortIsStable` and `SortedAtTheEnd`, from an invariant
  that says the walked part is in order and the history `from` is injective.  `SortRefines`: the
  loop stutters and then does the one step of `SortedResult`, because a stable order of a sequence is
  unique (`RankingUnique`).  `SortIsBounded`: a round either walks on or removes one inversion, so
  the rounds are bounded by what inversions there can be.
- `XrpReviewProofs`, the parser: `ParseTypeCorrect`: `fields` and the 8-bit indices stay within their limits for
  every stream and every limit, by one lemma per kind of field; `ClearIsUnderstood`: with the
  invariant that no malformed token is behind a parser that is still running.
- `XrpReviewProofs`, the nesting: `ReadInv`, which ties the depth and the array slot to the brackets that are open,
  and the fields so far to the top-level tokens that decide.  None of the properties is inductive
  by itself: the parser keeps one array slot and a depth of 8 bits, and which token a field came
  from cannot be told from the field.  From it follow `DepthCountsObjects`, `ReviewOfTheType`,
  `NoUnknownFlags`, `MultiSignIsItsOwn`, for streams of any length with fewer objects open at
  once than the depth can count.
- `XrpReviewProofs`, the rows: `ReviewShowsTheTransaction`.  `RowsInv` adds to `ReadInv` that the parser has stopped at
  nothing it should have read (`GoodSoFar`), that its array indices and path indices are the
  numbers counted from the brackets (`Numbered`), that the fields are what the tokens so far
  spell out (`SpelledSoFar`), and where the regular key stands that the end may clear
  (`KeySoFar`).  The end removes that key and sorts, and both sides take the same three
  parts of the same rows (`ThreeParts`).
- `XrpSwapProofs`: `SignsOnlyTheAgreement` and `RefusesNoAgreement`.  `TracedInv` adds to `RowsInv`, which
  speaks of flat transactions, what holds of every stream: every field comes from a token of its own and every telling token
  has left its field (`RowsTraced`), the types that were met are in the fields (`TypesTold`), and a
  verdict that lets a swap go on was reached at the end of the stream (`ReadThrough`); a
  verdict of blind signing would not be asked for.  `Arranged` ties the copy of the parameters to
  those of Exchange.  The first theorem counts: six fields, with six different names, from six
  tokens, leave no other telling token; and an address as long as the buffer cannot be
  that of an account, so that the cut of `strncpy` is harmless.  The second goes back: six telling
  tokens in the order of the ledger give six fields, and the sort moves only the type, the account
  and nothing else before them.  The third, `NothingWrongIsTold`, keeps with `Told` where the two
  texts came from: what is printed is the print of the agreed amount, and an address is confirmed
  when it is the text of the key to its end (`SameToTheEnd`).  An amount that a transaction was
  accepted with is native, so it has few enough digits to be printed, and `XrpPrintProofs` reads it back.
- `XrpPrintProofs`: `AmountSaysItself`.  The base is never reduced by the word (`BaseIs`), so the rounds
  of the loop are the digits of the value (`NumDigitsIs`) and the digits add up to it
  (`DigitsReadBack`).  Then two cases, as in `adjust_decimals`: no more digits than decimals, where zeros
  are put between the point and the digits, and more, where the point goes between them; in both
  the zeros that are cut off are the ones `Read` puts back, and a first digit is never 0.

- `XrpDisplayProofs`, base58: `TextEncodes`.  The inner loop leaves off at the first digit where nothing is carried,
  but only left of where the byte before left off.  `Sound` is what makes that right: all digits left of
  where it left off are zero, and that place is at most as many digits from the right as the bytes so far are
  given.  One byte multiplies the digits by the base of the bytes from the right (`Multiplied`); the
  number stays below the power that the digits can hold (`ValueBelow`, `SizesFit`), so nothing is carried out
  of the buffer and every digit that was skipped would have stayed zero (`AddByteIs`).  `DividedIs` then goes
  through the bytes.  At the ends zeros have no value (`ValueAfterZeros`) and are as many letters as bytes
  (`LeadingZerosIs`, `ZerosThen`), and letters differ, so that they are read back (`DigitOfLetter`).
- `XrpDisplayProofs`, the pages: `AmountsReadBack`, `NumbersReadBack`, `CurrenciesReadBack`, `AddressesReadBack`,
  `TextsAreWholeOrMarked`.
  That a drawn pair shows its own field is not inductive by itself: `SlotsHold` adds that the page is a run
  of no more pairs than there are slots and lies within the transaction, so that two drawn pairs never share a
  slot (`SlotsApart`).  The rest is about the formatters.  Digits are added up in one place: a number with
  zeros behind or in front (`ZerosNumber`), and one number after the other (`NumberConcat`).  An issued
  amount loses the zeros at its end (`TrailingIs`) and has its point put after, into or before what is
  left (`PositionedSays`, one case each); a percentage has its zeros cut by a search from the right that
  stops at the point, which is the cut that XRP amounts get (`RedundantIs`); a currency is shown up to its
  first zero byte only if nothing but zeros follows (`TextSays`); a cut text and its dots fill
  the row (`MarkedCut`).  An address in three segments is centered with spaces (`CenteredIs`) in three
  parts that fit their pages and are the whole of it (`SegmentsAre`), and without its spaces it is the text of
  `TextEncodes` again (`SegmentedIs`), because no letter is a space.
- `XrpDisplayProofs`, the rows: `EveryTextFits`.  The invariant is the same `SlotsHold`; the rest is a length for
  each formatter.  A number has at most as many digits as a word prints; XRP adds one point and the zeros before it;
  base58 has no more letters than the digits it is given.  An issued amount is the hard one, since the code writes
  its zeros without asking for room: that is sound because `InRange` bounds the exponent and the mantissa first, so
  that a point with zeros after, within or before the digits stays within the room of a number (`PositionedFits`,
  `CanonicalFits`).  Without that bound the run finds the property violated.
- `XrpRowProofs`, the flags: `BlindOnlyForAReason` and `ClearFlagsReadBack`.  The nine tables are gone through once
  (`TableIs`): bits and labels differ, no label is the message for no flags, and the bits are those of the mask
  of the type.  Whichever flags are set, what is written is no longer than all labels with their separators
  (`OffsetsFit`), so `append_item` never puts its error in the place of the text and the loop gathers the labels
  of the flags that are set (`WrittenIs`).  Taking away a flag without a label gathers the same; and a label in the row is
  that of one flag, which is set (`TextOfOne`).  Here the inductive invariant (`RowIs`) has little to add: the row is the
  text of its field, and a field with no flag but the one of all types is not shown.
  `SetFlagsApart`: a number with a label has no bit but the first five, which `Number` adds up, so that two
  such numbers are equal when their sums are (`NumberTellsBits`); the labels of different numbers differ
  (`LabelsDiffer`), none is the word in front of a number without a label, and the digits tell the others.
- `XrpRowProofs`, the times: `TimesAreCivil`.  The calendar is a step relation and the code a computation, so the
  invariant says where in its cycles a day stands (`Stands`): after how many cycles of 400, of 100, of 4 and of 1
  years, each of which begins in March, and after how many months and days; the date is that of this place
  (`Calendar`).  `CyclesAre`: the code's divisions find those numbers, because all that is left of the day is less
  than the cycle it is divided by, except on the last day of a longer cycle, where the quotient is one too many
  and the code takes it back.  `DaysAre`: truncation towards zero is undone before 2000-03-01.  `MonthsOverIs`: the
  loop stops at the month of the day.  `TomorrowIsDated`: the next day is in the same month (`SameMonth`), the first of the next
  (`NextMonth`) or the first of March in the next year, cycle of 4, century or cycle of 400 (`NextMarch`), and in each
  case the rule of the calendar says the same, because a year of the cycles ends with a leap day exactly when
  it is leap by 4, 100 and 400 (`LeapYears`).  No width of the time is needed: there is no
  last day in it but that of the constant.

Of the fields it is assumed what the parser leaves (`FieldAssumption`): an issued amount has a
currency that is not all zeros, an account and its checksum are bytes and together no more than an address
holds, and numbers, lengths of lists and whole percents have no more digits
than a word prints, as the 32 bits of the code do.  `AmountAssumption` relates the limits of issued amounts to the
room of a row as the code's constants are related, `RateAssumption` says that a percentage has no more
decimals than a number has digits.  `BaseAssumption` says that the letters differ, that none is a space,
and that as many bytes as an account and its checksum have (24) are given enough digits in the other base;
with the numbers of the code this is the bound 138/100 > log 256 / log 58.  `PageAssumption` says that the
longest address (35 letters) fits three pages of the smallest device (16 each) with its segments.
`RoomAssumption` says that a row has room for a printed number with its point and unit, for the hex of a
currency, for an address and for three pages, as the 128 bytes of `MAX_FIELD_LEN` (less one) have.
`LabelAssumption` says that a row has room for all labels of a type, one after the other; the longest list has
107 characters.  `DecimalAssumption` says that `%u` writes different values of the number fields with
different digits, and `TimeAssumption` that the seconds explored are those of a day.

Model-checked only: liveness and termination (`EveryCommandAnswered`, the fairness of
`SortedResult`), which the prover does not reach.

## 5. What is not modelled, and the plan

Left out for good: drawing and wording (titles, names of transaction types, messages); the order of
the bytes of a number; the SDK (cryptography with key derivation and hashes, NBGL, transport), which
appears as what may come back from it; tests, fuzzing, build.

A file is *partly* modelled where something of it is left out: `xrp_helpers.c` (compressing and
hashing a key), `general.c` (names of transaction types), `readers.c` (order of bytes).

Every safety property of the passing runs is proved.  What TLC adds to the proofs is liveness, the four
statements that do not hold, and evidence that the assumptions are met by instances in which the
interesting cases occur.  From here the project follows the code: a new transaction type with flags is a new table in
`XrpFlags`, and its proof a lemma like `PaymentTable`; a new formatter is a new operator in `XrpFormat`, and its
proofs a lemma about the length of its text and one about how it reads.
