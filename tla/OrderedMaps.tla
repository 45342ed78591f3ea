------------------------------ MODULE OrderedMaps ------------------------------
(****************************************************************************)
(* The ordered map behind Map and Set (core/engine/src/builtins/map and set: *)
(* ordered_map.rs, ordered_set.rs, the iterators, forEach and the walk for   *)
(* Rust callers), used by one thread of JavaScript.                         *)
(*                                                                          *)
(* An entry is a key or, for Empty(n), the number n.  While a walk holds a   *)
(* lock, a deletion leaves an Empty behind so that no index moves.          *)
(****************************************************************************)
EXTENDS Integers, Sequences, FiniteSets, SequencesExt, Filters

CONSTANTS
  Keys, NoKey,
  Walks,       \* iterators, and calls of forEach and for_each_native
  MaxEntries   \* bound: entries of the map, empty ones included

ASSUME OrderedMapAssumption ==
  /\ MaxEntries \in Nat
  /\ IsFiniteSet(Walks)
  /\ Keys \cap 0..MaxEntries = {}

VARIABLES
  entries,     \* OrderedMap.map
  lock,        \* OrderedMap.lock
  emptyCount,  \* OrderedMap.empty_count
  kind,        \* what each walk is, or how it went
  index,       \* its next index, counted from 1
  callStack,   \* the calls of forEach and for_each_native that run, innermost last
  looping,     \* the innermost call is in its loop, not in its callback
  inherited,   \* the lock count a copy starts from
  overtaken,   \* history: walks that were under way when the map was cleared
  yielded      \* history: the key the last step handed out

mapVars == <<entries, lock, emptyCount, kind, index, callStack, looping,
             inherited, overtaken, yielded>>

Calls     == {"forEach", "native"}
Live(es)  == Keep(es, Keys)
OpenWalks == {w \in Walks : kind[w] \in Calls \cup {"iterator"}}
InnerCall(w) == callStack # <<>> /\ Last(callStack) = w

MapInit ==
  /\ entries = <<>> /\ lock = 0 /\ emptyCount = 0
  /\ kind = [w \in Walks |-> "unused"]
  /\ index = [w \in Walks |-> 1]
  /\ callStack = <<>> /\ looping = FALSE
  /\ inherited = 0
  /\ overtaken = {} /\ yielded = NoKey

----------------------------------------------------------------------------
(* The operations of OrderedMap and OrderedSet.                             *)

IndexOf(k) == CHOOSE i \in DOMAIN entries : entries[i] = k

(* insert and add: a key that is there keeps its place.                     *)
InsertKey(k) ==
  /\ ~looping
  /\ Len(entries) < MaxEntries
  /\ ~Contains(entries, k)
  /\ entries' = Append(entries, k)
  /\ yielded' = NoKey
  /\ UNCHANGED <<lock, emptyCount, kind, index, callStack, looping, inherited, overtaken>>

SwapRemoveKey(s, i) == SubSeq([s EXCEPT ![i] = Last(s)], 1, Len(s) - 1)

\* Mutant: empty_count stays as it was.
RemoveReusingEmpties(k) ==
  /\ ~looping /\ Contains(entries, k)
  /\ IF lock = 0 THEN entries' = RemoveAt(entries, IndexOf(k))
     ELSE LET marked == IF Contains(entries, emptyCount) THEN entries
                        ELSE Append(entries, emptyCount)
          IN entries' = SwapRemoveKey(marked, IndexOf(k))
  /\ yielded' = NoKey
  /\ UNCHANGED <<emptyCount, lock, kind, index, callStack, looping, inherited, overtaken>>

(* remove and delete: shift_remove, or under a lock an Empty that is added   *)
(* last and that swap_remove moves to the key's place.                      *)
RemoveKey(k) ==
  /\ ~looping /\ Contains(entries, k)
  /\ IF lock = 0
     THEN /\ entries' = RemoveAt(entries, IndexOf(k))
          /\ UNCHANGED emptyCount
     ELSE LET marked == IF Contains(entries, emptyCount) THEN entries
                        ELSE Append(entries, emptyCount)
          IN /\ entries' = SwapRemoveKey(marked, IndexOf(k))
             /\ emptyCount' = emptyCount + 1
  /\ yielded' = NoKey
  /\ UNCHANGED <<lock, kind, index, callStack, looping, inherited, overtaken>>

ClearMap ==
  /\ ~looping /\ entries # <<>>
  /\ entries' = <<>> /\ emptyCount' = 0
  /\ overtaken' = overtaken \cup {w \in OpenWalks : index[w] > 1}
  /\ yielded' = NoKey
  /\ UNCHANGED <<lock, kind, index, callStack, looping, inherited>>

\* Mutant: every unlock removes the empty entries.
UnlockAlwaysSweeping ==
  /\ lock' = lock - 1
  /\ entries' = Live(entries)
  /\ emptyCount' = 0

(* unlock: the last one removes the empty entries.                          *)
Unlock ==
  /\ lock' = lock - 1
  /\ IF lock' = 0
     THEN entries' = Live(entries) /\ emptyCount' = 0
     ELSE UNCHANGED <<entries, emptyCount>>

(* The clone that Set.prototype.union and its like make: it takes the lock   *)
(* count with it, but not the walks that would release it.                  *)
CopySet ==
  /\ ~looping /\ lock > 0
  /\ kind' = [w \in Walks |-> IF w \in OpenWalks THEN "dropped" ELSE kind[w]]
  /\ callStack' = <<>>
  /\ inherited' = lock
  /\ overtaken' = {}
  /\ yielded' = NoKey
  /\ UNCHANGED <<entries, lock, emptyCount, index, looping>>

----------------------------------------------------------------------------
(* Walks.                                                                   *)

(* create_map_iterator, or a call of forEach or for_each_native.            *)
StartWalk(w, what) ==
  /\ ~looping /\ kind[w] = "unused"
  /\ looping' = (what \in Calls)
  /\ kind' = [kind EXCEPT ![w] = what]
  /\ lock' = lock + 1
  /\ callStack' = IF what \in Calls THEN Append(callStack, w) ELSE callStack
  /\ yielded' = NoKey
  /\ UNCHANGED <<entries, emptyCount, index, inherited, overtaken>>

(* A walk is over and lets go of its lock.                                  *)
LetGoOf(w, how) ==
  /\ kind' = [kind EXCEPT ![w] = how]
  /\ Unlock
  /\ callStack' = IF InnerCall(w) THEN Front(callStack) ELSE callStack
  /\ overtaken' = overtaken \ {w}
  /\ looping' = FALSE
  /\ yielded' = NoKey
  /\ UNCHANGED <<index, inherited>>

VisitEntry(w, i) ==
  /\ yielded' = entries[i]
  /\ index' = [index EXCEPT ![w] = i + 1]
  /\ looping' = FALSE
  /\ UNCHANGED <<entries, lock, emptyCount, kind, callStack, inherited, overtaken>>

(* %MapIteratorPrototype%.next: on to the next entry that is not empty; at   *)
(* the end the iterator gives up its lock for good.                         *)
IteratorNext(w) ==
  LET ahead == {i \in DOMAIN entries : i >= index[w] /\ entries[i] \in Keys} IN
  /\ ~looping /\ kind[w] = "iterator"
  /\ \/ \E i \in ahead :
          /\ \A j \in ahead : i <= j
          /\ VisitEntry(w, i)
     \/ /\ ahead = {}
        /\ LetGoOf(w, "ended")

(* The collector finalizes an iterator.                                     *)
DropIterator(w) ==
  /\ ~looping /\ kind[w] = "iterator"
  /\ LetGoOf(w, "dropped")

(* One turn of the loop in forEach, after its callback has returned.         *)
ForEachTurn(w) ==
  /\ kind[w] = "forEach" /\ InnerCall(w)
  /\ \/ index[w] > Len(entries) /\ LetGoOf(w, "ended")
     \/ /\ index[w] <= Len(entries) /\ entries[index[w]] \in Keys
        /\ VisitEntry(w, index[w])
     \/ /\ index[w] <= Len(entries) /\ entries[index[w]] \notin Keys
        /\ index' = [index EXCEPT ![w] = @ + 1]
        /\ looping' = TRUE
        /\ yielded' = NoKey
        /\ UNCHANGED <<entries, lock, emptyCount, kind, callStack, inherited, overtaken>>

(* One turn of the loop in for_each_native: at an empty entry it continues   *)
(* and the index stays.                                                     *)
NativeTurn(w) ==
  /\ kind[w] = "native" /\ InnerCall(w)
  /\ \/ index[w] > Len(entries) /\ LetGoOf(w, "ended")
     \/ /\ index[w] <= Len(entries) /\ entries[index[w]] \in Keys
        /\ VisitEntry(w, index[w])
     \/ /\ index[w] <= Len(entries) /\ entries[index[w]] \notin Keys
        /\ looping' = TRUE
        /\ yielded' = NoKey
        /\ UNCHANGED <<entries, lock, emptyCount, kind, index, callStack,
                       inherited, overtaken>>

(* The callback throws.                                                     *)
WalkThrows(w) ==
  /\ ~looping /\ kind[w] \in Calls /\ InnerCall(w)
  /\ LetGoOf(w, "dropped")

MapNext ==
  \/ \E k \in Keys : InsertKey(k) \/ RemoveKey(k)
  \/ ClearMap \/ CopySet
  \/ \E w \in Walks :
       \/ \E what \in Calls \cup {"iterator"} : StartWalk(w, what)
       \/ IteratorNext(w) \/ DropIterator(w)
       \/ ForEachTurn(w) \/ NativeTurn(w) \/ WalkThrows(w)

MapSpec == MapInit /\ [][MapNext]_mapVars

----------------------------------------------------------------------------
MapTypeOK ==
  /\ \A i \in DOMAIN entries : entries[i] \in Keys \/ entries[i] \in 0..MaxEntries
  /\ lock \in 0..(inherited + Cardinality(Walks))
  /\ index \in [Walks -> 1..(MaxEntries + 1)]

(* The lock is held exactly by the walks that are open (and in a copy by     *)
(* those of the original, which never let go); empty_count is the number of  *)
(* empty entries, each with a number of its own, and none outlives the last  *)
(* lock.  size, which subtracts the count, depends on it.                   *)
LocksAndEmptiesAgree ==
  LET empties == {i \in DOMAIN entries : entries[i] \notin Keys} IN
  /\ lock = inherited + Cardinality(OpenWalks)
  /\ emptyCount = Cardinality(empties)
  /\ IsInjective(entries)
  /\ lock = 0 => empties = {}

(* Each walk visits the keys that MapData says it has still to visit, in     *)
(* that order, whatever is inserted, deleted, cleared or walked over between *)
(* two of its steps.                                                        *)
AbstractMap == INSTANCE MapData WITH
  keys <- Live(entries),
  rest <- [w \in OpenWalks |-> Live(SubSeq(entries, index[w], Len(entries)))],
  finished <- {w \in Walks : kind[w] = "ended"},
  loose <- overtaken

WalksRefineMapData == AbstractMap!Spec

(* A call of forEach or for_each_native that is in its loop gets out of it:  *)
(* it calls back or returns.                                                *)
WalksGetOn == looping ~> ~looping

MapFairness == \A w \in Walks : WF_mapVars(ForEachTurn(w) \/ NativeTurn(w))
================================================================================
