----------------------------- MODULE MCFieldSort -----------------------------
(***************************************************************************)
(* Fields of all three priorities, two of a kind where stability can show. *)
(***************************************************************************)
EXTENDS FieldSort

CONSTANTS type1, account1, account2, amount1, amount2

MCField == {type1, account1, account2, amount1, amount2}
MCIsType(f) == f = type1
MCIsAccount(f) == f \in {account1, account2}
=============================================================================
