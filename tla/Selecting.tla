------------------------------ MODULE Selecting ------------------------------
(***************************************************************************)
(* How results are filtered everywhere in a search: what is kept of a list    *)
(* comes in the order of the list.                                          *)
(***************************************************************************)
EXTENDS Naturals, Sequences

\* What there is of S in a sequence, in its order.
Among(s, S) ==
    LET taken[i \in 0 .. Len(s)] ==
            IF i = 0 THEN <<>> ELSE IF s[i] \in S THEN Append(taken[i - 1], s[i]) ELSE taken[i - 1]
    IN  taken[Len(s)]
=============================================================================
