------------------------------ MODULE FieldSort ------------------------------
(***************************************************************************)
(* The order of the fields in a review (xrp/field_sort.c): sort_fields     *)
(* walks the parsed fields with one index and steps back after every swap. *)
(* The transaction type comes first, then the accounts that stand outside  *)
(* any array, then everything else.                                        *)
(*                                                                         *)
(* A step is one round of the loop.  The sort runs over the result of a    *)
(* parse, so any sequence of at most MAX_FIELD_COUNT fields can be its     *)
(* input.                                                                  *)
(***************************************************************************)
EXTENDS FieldOrder, FiniteSets

CONSTANTS
    Field,         \* parsed fields
    MaxFieldCount  \* MAX_FIELD_COUNT (60), scaled down for TLC

ASSUME CountAssumption == MaxFieldCount \in Nat

ASSUME KindAssumption == \A f \in Field :
    IsTransactionTypeField(f) \in BOOLEAN /\ IsNormalAccountField(f) \in BOOLEAN

VARIABLES
    fields,  \* result->fields, the first num_fields of them
    i,       \* the index of the loop, from 0 as in the code
    input,   \* history: the fields the sort was called with
    from     \* history: fields[j] is input[from[j]]

vars == <<fields, i, input, from>>

\* Defect: fields of one priority are swapped as well.
not_after(next, cur) == get_priority_score(next) <= get_priority_score(cur)

OutOfOrder(next, cur) == is_preceding(next, cur) /\ ~is_preceding(cur, next)

Exchange(s, p, q) == [s EXCEPT ![p] = s[q], ![q] = s[p]]

\* Defect: a field is copied over the other one.
overwrite_fields(p, q) == fields' = [fields EXCEPT ![p] = fields[q]] /\ UNCHANGED from

swap_fields(p, q) == fields' = Exchange(fields, p, q) /\ from' = Exchange(from, p, q)

\* Defect: the walk goes on after a swap.
never_back(n) == n + 1

\* Defect: the index steps below the first field.
no_floor(n) == n - 1

StepBack(n) == IF n > 0 THEN n - 1 ELSE 0

MoreToDo == i < Len(fields) - 1

SwapNext ==
    /\ MoreToDo
    /\ OutOfOrder(fields[i + 2], fields[i + 1])
    /\ swap_fields(i + 1, i + 2)
    /\ i' = StepBack(i)
    /\ UNCHANGED input

Advance ==
    /\ MoreToDo
    /\ ~OutOfOrder(fields[i + 2], fields[i + 1])
    /\ i' = i + 1
    /\ UNCHANGED <<fields, input, from>>

Init ==
    /\ \E n \in 0..MaxFieldCount : fields \in [1..n -> Field]
    /\ i = 0
    /\ input = fields
    /\ from = [j \in 1..Len(fields) |-> j]

Next == SwapNext \/ Advance

Spec == Init /\ [][Next]_vars

\* The loop runs until its condition fails: nothing preempts it.
LiveSpec == Spec /\ WF_vars(Next)

-----------------------------------------------------------------------------
(* What must hold.                                                         *)

Score(j) == get_priority_score(fields[j])

\* Every variable has its type; in particular the 8-bit index never passes the last field.
TypeOK ==
    /\ fields \in Seq(Field) /\ Len(fields) <= MaxFieldCount
    /\ i \in 0..MaxFieldCount /\ (i < Len(fields) \/ i = 0)
    /\ input \in Seq(Field) /\ Len(input) = Len(fields)
    /\ from \in [1..Len(fields) -> 1..Len(fields)]

\* What has been walked over is in order, so that the whole is in order at the end:
\* stepping back by one after a swap is enough.
Ordered == \A j, k \in 1..Len(fields) : j < k /\ k <= i + 1 => Score(j) <= Score(k)

\* The fields are those of the input, none lost or doubled, and two fields of the same
\* priority never change places: the amounts of a review keep the order of the signed
\* bytes.
StablePermutation ==
    /\ \A j \in 1..Len(fields) : fields[j] = input[from[j]]
    /\ \A j, k \in 1..Len(fields) : j < k => \/ from[j] < from[k]
                                             \/ from[j] # from[k] /\ Score(j) < Score(k)

\* Pairs of fields that stand in the wrong order.
Inversions ==
    {p \in (1..Len(fields)) \X (1..Len(fields)) : p[1] < p[2] /\ Score(p[2]) < Score(p[1])}

Measure == 2 * Cardinality(Inversions) + Len(fields) - i

\* Stepping back never makes the sort run for ever: every round comes closer to the end,
\* so that n fields take at most n^2 rounds.
SortTakesFewRounds == [][Measure' < Measure]_vars

-----------------------------------------------------------------------------
(* The specification it implements: the fields are put in order at once.   *)

\* The caller of sort_fields sees the input until the sort returns.
Returned == IF MoreToDo THEN input ELSE fields

Abstract == INSTANCE SortedResult WITH result <- Returned, sorted <- ~MoreToDo

\* Seen from parse_tx_internal the result changes once, into the stable sort of what it
\* was, and the call returns.
SortsAtOnce == Abstract!Spec

=============================================================================
