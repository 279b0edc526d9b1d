----------------------------- MODULE Subsequence -----------------------------
(***************************************************************************)
(* Parts of a sequence, by position.  Sequences!SelectSeq says the same of *)
(* a test of the elements, but the proofs need a definition they can       *)
(* expand.                                                                 *)
(***************************************************************************)
EXTENDS Integers, Sequences

\* The elements of s at the positions of K, in their order.
AtPositions(s, K) ==
    LET upTo[k \in 0..Len(s)] ==
            IF k = 0 THEN << >>
            ELSE IF k \in K THEN Append(upTo[k - 1], s[k])
            ELSE upTo[k - 1]
    IN  upTo[Len(s)]

=============================================================================
