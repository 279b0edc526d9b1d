----------------------------- MODULE SortedResult -----------------------------
(***************************************************************************)
(* What parse_tx_internal relies on when it calls sort_fields: the result  *)
(* is put in review order, at once.                                        *)
(***************************************************************************)
EXTENDS FieldOrder

CONSTANTS Field, MaxFieldCount

VARIABLES result, sorted

Init ==
    /\ \E n \in 0..MaxFieldCount : result \in [1..n -> Field]
    /\ sorted \in BOOLEAN
    /\ sorted => result = StableSorted(result)

SortFields ==
    /\ ~sorted
    /\ sorted' = TRUE
    /\ result' = StableSorted(result)

Safety == Init /\ [][SortFields]_<<result, sorted>>

\* The call returns.
Spec == Safety /\ WF_<<result, sorted>>(SortFields)

=============================================================================
