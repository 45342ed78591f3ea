----------------------------- MODULE MCStructures -----------------------------
(****************************************************************************)
(* The heap and the data structures on it side by side for TLC: in each      *)
(* behaviour one of them is used, and the others stand still in one of their *)
(* initial states.                                                          *)
(****************************************************************************)
EXTENDS Gc, Promises, PromiseCombinators, OrderedMaps, BufferViews, InlineCaches,
        TLC

VARIABLE part   \* the one that is used

allVars == <<part, vars, promiseVars, combinatorVars, mapVars, bufferVars, cacheVars>>

StructuresInit ==
  /\ part \in {"heap", "promises", "combinator", "map", "buffer", "shapes"}
  /\ Init /\ PromisesInit /\ CombinatorInit /\ MapInit /\ BufferInit /\ CacheInit
  /\ part # "combinator" => combinator = "all"
  /\ part # "buffer" =>
       sort = "fixed" /\ buffer = 0 /\ view = [size |-> 1, offset |-> 0, length |-> 0]
  /\ part # "shapes" =>
       instruction = "get" /\ \A o \in Owners : ~shapeOf[o].unique

StructuresNext ==
  \/ /\ part = "heap" /\ Next
     /\ UNCHANGED <<part, promiseVars, combinatorVars, mapVars, bufferVars, cacheVars>>
  \/ /\ part = "promises" /\ PromisesNext
     /\ UNCHANGED <<part, vars, combinatorVars, mapVars, bufferVars, cacheVars>>
  \/ /\ part = "combinator" /\ CombinatorNext
     /\ UNCHANGED <<part, vars, promiseVars, mapVars, bufferVars, cacheVars>>
  \/ /\ part = "map" /\ MapNext
     /\ UNCHANGED <<part, vars, promiseVars, combinatorVars, bufferVars, cacheVars>>
  \/ /\ part = "buffer" /\ BufferNext
     /\ UNCHANGED <<part, vars, promiseVars, combinatorVars, mapVars, cacheVars>>
  \/ /\ part = "shapes" /\ CacheNext
     /\ UNCHANGED <<part, vars, promiseVars, combinatorVars, mapVars, bufferVars>>

StructuresSpec == StructuresInit /\ [][StructuresNext]_allVars

Symmetry == Permutations(Objects) \cup Permutations(Ephs)

(* Every variable of every part has the values the code's types give it.     *)
StructuresTypes ==
  /\ TypeOK /\ PromisesTypeOK /\ CombinatorTypeOK /\ MapTypeOK /\ BufferTypeOK
  /\ CacheTypeOK
===============================================================================
