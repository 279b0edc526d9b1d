------------------------------ MODULE FieldOrder ------------------------------
(***************************************************************************)
(* The order in which the fields of a transaction are reviewed: the        *)
(* transaction type, the accounts that stand outside any array, the rest,  *)
(* and within each of the three the order of the signed bytes.             *)
(***************************************************************************)
EXTENDS Subsequence

CONSTANTS
    IsTransactionTypeField(_),  \* is_transaction_type_field
    IsNormalAccountField(_)     \* is_normal_account_field

get_priority_score(f) ==
    IF IsTransactionTypeField(f) THEN 0 ELSE IF IsNormalAccountField(f) THEN 1 ELSE 2

\* Defect: the type comes second.
account_first(f, g) == get_priority_score(f) = 1 /\ get_priority_score(g) # 1

is_preceding(f, g) == get_priority_score(f) < get_priority_score(g)

OfScore(s, n) == AtPositions(s, {k \in DOMAIN s : get_priority_score(s[k]) = n})

StableSorted(s) == OfScore(s, 0) \o OfScore(s, 1) \o OfScore(s, 2)

=============================================================================
