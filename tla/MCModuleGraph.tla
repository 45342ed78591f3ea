--------------------------- MODULE MCModuleGraph ---------------------------
(****************************************************************************)
(* Instances of ModuleGraph for TLC.  The requests of a module come without *)
(* duplicates, in one order.                                                *)
(****************************************************************************)
EXTENDS ModuleGraph, FiniteSetsExt, TLC

CONSTANTS a, b, c, d

Three == {a, b, c}
Four == {a, b, c, d}

\* A graph of MS from the sets rs[m] of the modules that m requests.
Graph(rs, tla, broken, throws) ==
  [requests |-> [m \in DOMAIN rs |-> SetToSeq(rs[m])],
   tla |-> tla, broken |-> broken, throws |-> throws]

ReachesIn(rs) ==
  FoldSet(LAMBDA k, reach : [m \in DOMAIN rs |-> IF k \in reach[m] THEN reach[m] \cup reach[k]
                                                                   ELSE reach[m]],
          rs, DOMAIN rs)

\* The faults with which the code does on this graph what its comments say: a
\* cycle of two or more modules has neither a module that cannot be linked nor
\* top-level await within its reach, and a synchronous module that throws
\* imports none.
PlainGraph(rs) ==
  LET reach == ReachesIn(rs)
      cyclic == {m \in Three : \E n \in Three \ {m} : n \in reach[m] /\ m \in reach[n]}
      Still(tla) == \A m \in cyclic : (reach[m] \cup {m}) \cap tla = {}
      Faults(tla) == {<<{}, {}>>}
        \cup {<<{m}, {}>> : m \in Three \ (cyclic \cup UNION {reach[n] : n \in cyclic})}
        \cup {<<{}, {m}>> : m \in {n \in Three : n \in tla \/ reach[n] \cap tla = {}}}
  IN UNION {{Graph(rs, tla, f[1], f[2]) : f \in Faults(tla)} :
              tla \in {t \in SUBSET Three : Still(t)}}

\* Every plain graph of three modules with at most one fault; only a may import
\* itself.
PlainGraphs ==
  UNION {PlainGraph(rs) : rs \in {r \in [Three -> SUBSET Three] : b \notin r[b] /\ c \notin r[c]}}

\* A cycle of a and b over an asynchronous c, which every member of the cycle
\* has as many dependencies on as its root has.
EvenCycles ==
  {Graph((a :> {b}) @@ (b :> {a, c}) @@ (c :> {}), {c}, {}, throws) : throws \in {{}, {c}}}

ModelledGraphs == PlainGraphs \cup EvenCycles

\* The condition under which the searches are proved to be clean is met.
ASSUME ModelledCyclesLink == Modules = Three => \A g \in ModelledGraphs : CyclesLink(g)

\* And the one under which no module is proved to wait in vain: of the plain graphs.
ASSUME PlainGraphsAreCalm == Modules = Three => \A g \in PlainGraphs : Calm(g)

\* b cannot be linked, and a, which it imports and which imports it, has been
\* prelinked before that shows.
BrokenCycle == {Graph((a :> {b}) @@ (b :> {a}) @@ (c :> {}), {}, {b}, {})}

\* In the cycle of a and b, b waits for c and d, and a waits for b only.
UnevenCycle ==
  {Graph((a :> {b}) @@ (b :> {a, c, d}) @@ (c :> {}) @@ (d :> {}), {c, d}, {}, {})}

\* a imports b, which has top-level await.
Pair == {Graph((a :> {b}) @@ (b :> {}) @@ (c :> {}), {b}, {}, {})}

\* The same, and a throws once b is there.
ThrowingPair == {Graph((a :> {b}) @@ (b :> {}) @@ (c :> {}), {b}, {}, {a})}

\* This graph is not calm, but the counters of what waits are proved exact in it as well.
ASSUME ThrowingPairRests == Modules = Three => \A g \in ThrowingPair : CyclesRest(g) /\ ~ Calm(g)

==============================================================================
