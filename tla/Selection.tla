----------------------------- MODULE Selection -----------------------------
(***************************************************************************)
(* What a loop with "if ...: continue; rows.append(...)" keeps of a list:  *)
(* SelectSeq with a set for its test, so that it can be reasoned about.    *)
(***************************************************************************)
EXTENDS Integers, Sequences

\* The elements of s that are in T, in their order.
Filter(s, T) ==
  LET kept[n \in 0 .. Len(s)] ==
        IF n = 0 THEN <<>>
        ELSE IF s[n] \in T THEN Append(kept[n - 1], s[n]) ELSE kept[n - 1]
  IN kept[Len(s)]
=============================================================================
