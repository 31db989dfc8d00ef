------------------------------- MODULE Lists --------------------------------
(***************************************************************************)
(* The walk over a linked list that unlinks some of its entries.           *)
(***************************************************************************)
EXTENDS Naturals, Sequences

\* The entries of s that are in S, in their order: SelectSeq with a set for the test, as
\* a function of the position the walk has come to, which a proof can follow.
Keep(s, S) ==
    LET kept[n \in 0 .. Len(s)] ==
            IF n = 0 THEN <<>>
            ELSE IF s[n] \in S THEN Append(kept[n - 1], s[n])
            ELSE kept[n - 1]
    IN  kept[Len(s)]
=============================================================================
