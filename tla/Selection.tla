----------------------------- MODULE Selection -----------------------------
(***************************************************************************)
(* What a comprehension with a condition gives: `[x for x in s if ...]`.   *)
(* SelectSeq is the same, but is nothing a prover knows of.                *)
(***************************************************************************)
EXTENDS Naturals, Sequences

\* The elements of s that are in T, in their order.
Chosen(s, T) ==
  LET upto[n \in 0 .. Len(s)] ==
        IF n = 0 THEN <<>>
        ELSE IF s[n] \in T THEN Append(upto[n - 1], s[n]) ELSE upto[n - 1]
  IN upto[Len(s)]
=============================================================================
