---------------------------- MODULE Subsequences ----------------------------
(* Lists that keep some of their entries, as a recursive function. *)
EXTENDS Integers, Sequences

\* The entries of s at the positions in I, in their order.
Subsequence(s, I) ==
  LET taken[n \in 0..Len(s)] ==
        IF n = 0 THEN <<>>
        ELSE IF n \in I THEN Append(taken[n - 1], s[n]) ELSE taken[n - 1]
  IN  taken[Len(s)]
=============================================================================
