--------------------------- MODULE SequenceFilter ---------------------------
(***************************************************************************)
(* The elements of a sequence that are in a set, in their order: what      *)
(* std::remove_if, Iterator::filter and the like leave.  It is SelectSeq   *)
(* as a recursive function, which can be proved about.                     *)
(***************************************************************************)
EXTENDS Naturals, Sequences

Kept(s, T) ==
  LET upTo[i \in 0 .. Len(s)] ==
        IF i = 0 THEN <<>>
        ELSE IF s[i] \in T THEN Append(upTo[i - 1], s[i]) ELSE upTo[i - 1]
  IN  upTo[Len(s)]
=============================================================================
