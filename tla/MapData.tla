------------------------------- MODULE MapData -------------------------------
(****************************************************************************)
(* What a Map or Set promises to those who walk over it while it changes:   *)
(* the comment in Map::for_each (core/engine/src/builtins/map/mod.rs, 475). *)
(* Every entry is visited once, keys added meanwhile are visited, keys      *)
(* deleted before their turn are not, and a key deleted and added again is  *)
(* visited again.                                                           *)
(*                                                                          *)
(* One exception is in the code and not in the comment: a walk that was     *)
(* under way when the map was cleared may pass over keys added later.       *)
(****************************************************************************)
EXTENDS Sequences, SequencesExt, Filters

CONSTANTS Keys, Walks, NoKey

VARIABLES
  keys,      \* the keys of the map, in insertion order
  rest,      \* for each open walk, the keys it has still to visit, in order
  finished,  \* walks that came to their end
  loose,     \* open walks that a clear has overtaken
  yielded    \* the key that the last step handed out, or NoKey

vars == <<keys, rest, finished, loose, yielded>>

Init ==
  /\ keys = <<>>
  /\ rest = [w \in {} |-> <<>>]
  /\ finished = {} /\ loose = {}
  /\ yielded = NoKey

Without(open) == [w \in open |-> rest[w]]

Insert(k) ==
  /\ ~Contains(keys, k)
  /\ keys' = Append(keys, k)
  /\ \E blind \in SUBSET loose :
       rest' = [w \in DOMAIN rest |-> IF w \in blind THEN rest[w] ELSE Append(rest[w], k)]
  /\ yielded' = NoKey
  /\ UNCHANGED <<finished, loose>>

Delete(k) ==
  /\ Contains(keys, k)
  /\ keys' = Keep(keys, Keys \ {k})
  /\ rest' = [w \in DOMAIN rest |-> Keep(rest[w], Keys \ {k})]
  /\ yielded' = NoKey
  /\ UNCHANGED <<finished, loose>>

Clear ==
  /\ keys' = <<>>
  /\ rest' = [w \in DOMAIN rest |-> <<>>]
  /\ loose' \in SUBSET DOMAIN rest
  /\ yielded' = NoKey
  /\ UNCHANGED finished

Start(w) ==
  /\ w \notin DOMAIN rest
  /\ rest' = [v \in DOMAIN rest \cup {w} |-> IF v = w THEN keys ELSE rest[v]]
  /\ yielded' = NoKey
  /\ UNCHANGED <<keys, finished, loose>>

Visit(w) ==
  /\ w \in DOMAIN rest /\ rest[w] # <<>>
  /\ rest' = [rest EXCEPT ![w] = Tail(@)]
  /\ yielded' = Head(rest[w])
  /\ UNCHANGED <<keys, finished, loose>>

End(w) ==
  /\ w \in DOMAIN rest /\ rest[w] = <<>>
  /\ rest' = Without(DOMAIN rest \ {w})
  /\ finished' = finished \cup {w}
  /\ loose' = loose \ {w}
  /\ yielded' = NoKey
  /\ UNCHANGED keys

(* Walks are given up: an iterator is collected, a callback throws, or the   *)
(* map is a copy whose original they go on walking over.                    *)
GiveUp(gone) ==
  /\ rest' = Without(DOMAIN rest \ gone)
  /\ loose' = loose \ gone
  /\ yielded' = NoKey
  /\ UNCHANGED <<keys, finished>>

(* A step that no one sees.                                                 *)
Pass == yielded' = NoKey /\ UNCHANGED <<keys, rest, finished, loose>>

Next ==
  \/ \E k \in Keys : Insert(k) \/ Delete(k)
  \/ \E w \in Walks : Start(w) \/ Visit(w) \/ End(w)
  \/ \E gone \in SUBSET DOMAIN rest : GiveUp(gone)
  \/ Clear \/ Pass

Spec == Init /\ [][Next]_vars
==============================================================================
