------------------------------- MODULE Filters -------------------------------
(****************************************************************************)
(* What Vec::retain, Iterator::filter and BTreeMap::retain keep of a list.  *)
(* SelectSeq is a primitive of the provers, so this is a recursive function. *)
(****************************************************************************)
EXTENDS Naturals, Sequences

(* The elements of s that are in S, in their order.                         *)
Keep(s, S) ==
  LET kept[n \in 0..Len(s)] ==
        IF n = 0 THEN <<>>
        ELSE IF s[n] \in S THEN Append(kept[n - 1], s[n]) ELSE kept[n - 1]
  IN kept[Len(s)]
==============================================================================
