----------------------------- MODULE MCXrpFlags -----------------------------
(***************************************************************************)
(* Every type with a formatter and one without, every combination of the   *)
(* flags any of the formatters knows for the type or for one like it, two  *)
(* flags no one knows, and every small number of a SetFlag.                *)
(***************************************************************************)
EXTENDS XrpFlags, TLC

MCTypes ==
    {"ACCOUNT_SET", "OFFER_CREATE", "PAYMENT", "TRUST_SET", "PAYMENT_CHANNEL_CLAIM",
     "NFTOKEN_MINT", "NFTOKEN_CREATE_OFFER", "AMM_DEPOSIT", "AMM_WITHDRAW", "ESCROW_CREATE"}

Bits(type) ==
    (CASE type \in {"NFTOKEN_MINT", "NFTOKEN_CREATE_OFFER"} -> 0..4
       [] type \in {"AMM_DEPOSIT", "AMM_WITHDRAW"} -> 16..23
       [] OTHER -> 16..21)
    \cup {5, 31}

Field(type, id, value) == [transaction_type |-> type, id |-> id, value |-> value]

MCFields ==
    UNION {{Field(type, "FLAGS", value) : value \in SUBSET Bits(type)} : type \in MCTypes}
    \cup {Field(type, id, value) : type \in {"ACCOUNT_SET", "PAYMENT"},
                                   id \in {"SET_FLAG", "CLEAR_FLAG"},
                                   value \in SUBSET {0, 1, 2, 3, 4, 31}}

MCDecimal(value) == ToString(value)

=============================================================================
