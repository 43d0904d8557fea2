-------------------------------- MODULE Filter --------------------------------
(* Array.filter() with a set in place of a predicate, for sequences that are  *)
(* reasoned about as well as checked.                                         *)
EXTENDS Naturals, Sequences

\* The items of s that are in S, in their order.
Within(s, S) ==
  LET kept[i \in 0..Len(s)] ==
        IF i = 0 THEN <<>>
        ELSE IF s[i] \in S THEN Append(kept[i - 1], s[i]) ELSE kept[i - 1]
  IN kept[Len(s)]
=============================================================================
