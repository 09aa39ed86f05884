-------------------------------- MODULE Picking --------------------------------
(***************************************************************************)
(* The elements of a sequence that are in a set, in their order: SelectSeq *)
(* with its test given as a set, and as a definition the provers expand.   *)
(***************************************************************************)
EXTENDS Naturals, Sequences

Picked(s, S) ==
  LET upTo[i \in 0..Len(s)] ==
        IF i = 0 THEN << >>
        ELSE IF s[i] \in S THEN Append(upTo[i - 1], s[i]) ELSE upTo[i - 1]
  IN  upTo[Len(s)]
=============================================================================
