---------------------------- MODULE Subsequences ----------------------------
(***************************************************************************)
(* What is left of a sequence when some of its positions are dropped: the  *)
(* text functions of the server and of the C++ tokenizer all drop tokens   *)
(* or characters and keep the order of the others.                         *)
(***************************************************************************)
EXTENDS Naturals, Sequences

\* The elements of s at the positions in keep, in order.
At(s, keep) ==
  LET kept[n \in 0..Len(s)] ==
        IF n = 0 THEN <<>>
        ELSE IF n \in keep THEN Append(kept[n - 1], s[n]) ELSE kept[n - 1]
  IN  kept[Len(s)]
=============================================================================
