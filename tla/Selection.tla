----------------------------- MODULE Selection -----------------------------
(***************************************************************************)
(* The elements of a sequence that are in a set, in their order.  It is    *)
(* SelectSeq with a set for the test, written as a recursive function so   *)
(* that proofs can be done about what is selected.                         *)
(***************************************************************************)
EXTENDS Naturals, Sequences

Selected(s, S) ==
  LET kept[n \in 0 .. Len(s)] ==
        IF n = 0 THEN <<>>
        ELSE IF s[n] \in S THEN Append(kept[n - 1], s[n]) ELSE kept[n - 1]
  IN  kept[Len(s)]

=============================================================================
