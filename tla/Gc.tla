--------------------------------- MODULE Gc ---------------------------------
(****************************************************************************)
(* The garbage collector of core/gc: handles count their references, and a *)
(* collection finds the roots by counting, for every box, the handles that *)
(* lie inside the heap; what has more handles than that is held from        *)
(* outside.  Ephemerons hold their value only while their key is marked,    *)
(* weak maps are tables of ephemerons the collector empties of dead keys.   *)
(*                                                                          *)
(* pc is "mutator" while the program runs; the other values are the phases  *)
(* of Collector::collect, which runs inside one call on one thread.  A box  *)
(* has at most one handle on the stack and at most one in each other box.   *)
(* Allocations first collect when the heap has grown (manage_state): that   *)
(* is Collect followed by the allocation.  The collector's lists are sets    *)
(* here: it may take what they hold in any order.                           *)
(****************************************************************************)
EXTENDS Integers, FiniteSets, FiniteSetsExt

CONSTANTS
  Objects,     \* addresses of GcBoxes; each holds a GcRefCell
  Ephs,        \* addresses of EphemeronBoxes
  None,        \* an ephemeron without its data
  MaxBoxes, MaxHandles   \* bounds: boxes and handles that exist at once

Boxes == Objects \cup Ephs

ASSUME GcAssumption ==
  /\ Objects \cap Ephs = {}
  /\ None \notin Boxes
  /\ MaxBoxes \in Nat /\ MaxHandles \in Nat

VARIABLES
  strongs, weaks,   \* the allocated boxes
  weakMaps,         \* the WeakMapBoxes, each named by the ephemeron it holds
  maps,             \* the objects that are RawWeakMaps
  contents,         \* the boxes the fields of an object, the entries of a
                    \* weak map or the value of an ephemeron have handles to
  key,              \* the key of an ephemeron
  held,             \* the boxes with a handle on the stack
  borrow,           \* the state of an object's GcRefCell
  ref, nonRoot,     \* GcHeader's counts
  marked,           \* the boxes whose mark bit is set
  pc,               \* the phase of the collection
  finalized,        \* whether the finalizers have run
  work,             \* what the loop of this phase has still to visit
  gray,             \* the queue of the Tracer
  dead,             \* strong_dead
  pending, previousLen   \* pending_ephemerons; its length before this pass

heap == <<strongs, weaks, weakMaps, maps, contents, key>>
collector == <<nonRoot, marked, pc, finalized, work, gray, dead, pending, previousLen>>
vars == <<heap, held, borrow, ref, collector>>

Allocated == strongs \cup weaks

\* Trace visits nothing of a cell that is mutably borrowed.
Traced(c) == IF c \in Objects /\ borrow[c] = "writing" THEN {} ELSE contents[c]

Containers(b) == {c \in Allocated : b \in contents[c]}
\* Mutant: trace_non_roots does not look at the borrow flag.
CountThroughBorrows(b) == {c \in Allocated : b \in contents[c]}

TracedContainers(b) == {c \in Allocated : b \in Traced(c)}

Rooted(b) == nonRoot[b] < ref[b]

(****************************************************************************)
(* What the program does with handles.                                      *)
(****************************************************************************)
Running == pc = "mutator"

Room(boxes, handles) ==
  /\ Cardinality(Allocated) + boxes <= MaxBoxes
  /\ MapThenSumSet(LAMBDA b : ref[b], Allocated) + handles <= MaxHandles

CountIn(b, bs) == IF b \in bs THEN 1 ELSE 0
Plus(counts, bs) == [b \in Boxes |-> counts[b] + CountIn(b, bs)]
Minus(counts, bs) == [b \in Boxes |-> counts[b] - CountIn(b, bs)]

Init ==
  /\ strongs = {} /\ weaks = {}
  /\ weakMaps = {} /\ maps = {}
  /\ contents = [b \in Boxes |-> {}]
  /\ key = [e \in Ephs |-> None]
  /\ held = {}
  /\ borrow = [o \in Objects |-> "unused"]
  /\ ref = [b \in Boxes |-> 0]
  /\ nonRoot = [b \in Boxes |-> 0]
  /\ marked = {}
  /\ pc = "mutator" /\ finalized = FALSE
  /\ work = {} /\ gray = {}
  /\ dead = {} /\ pending = {} /\ previousLen = 0

\* Gc::new
New(o) ==
  /\ Running /\ Room(1, 1)
  /\ o \notin Allocated
  /\ strongs' = strongs \cup {o}
  /\ held' = held \cup {o}
  /\ ref' = Plus(ref, {o})
  /\ UNCHANGED <<weaks, weakMaps, maps, contents, key, borrow, collector>>

\* Bound: an ephemeron's value holds one handle at most.
Values == {{}} \cup {{b} : b \in held}

\* A new ephemeron with a handle of its own; its value takes clones.
MakeEphemeron(e, k, value) ==
  /\ e \notin Allocated
  /\ k \in held \cap Objects
  /\ weaks' = weaks \cup {e}
  /\ key' = [key EXCEPT ![e] = k]

\* Ephemeron::new, WeakGc::new
NewEphemeron(e, k, value) ==
  /\ Running /\ Room(1, 1 + Cardinality(value))
  /\ MakeEphemeron(e, k, value)
  /\ contents' = [contents EXCEPT ![e] = value]
  /\ held' = held \cup {e}
  /\ ref' = Plus(ref, value \cup {e})
  /\ UNCHANGED <<strongs, weakMaps, maps, borrow, collector>>

\* WeakMap::new
NewWeakMap(o, e) ==
  /\ Running /\ Room(2, 2)
  /\ o \notin Allocated /\ e \notin Allocated
  /\ strongs' = strongs \cup {o}
  /\ weaks' = weaks \cup {e}
  /\ key' = [key EXCEPT ![e] = o]
  /\ weakMaps' = weakMaps \cup {e}
  /\ maps' = maps \cup {o}
  /\ held' = held \cup {o}
  /\ ref' = Plus(ref, {o, e})
  /\ UNCHANGED <<contents, borrow, collector>>

EntriesOf(o, k) == {e \in contents[o] : key[e] = k}

\* WeakMap::insert.  The entry that had this key is dropped.
Insert(o, e, k, value) ==
  /\ Running /\ Room(1, 1 + Cardinality(value))
  /\ o \in maps \cap held
  /\ borrow[o] \in {"unused", "writing"}
  /\ MakeEphemeron(e, k, value)
  /\ contents' = [contents EXCEPT ![e] = value, ![o] = (@ \ EntriesOf(o, k)) \cup {e}]
  /\ ref' = Minus(Plus(ref, value \cup {e}), EntriesOf(o, k))
  /\ UNCHANGED <<strongs, weakMaps, maps, held, borrow, collector>>

\* A handle is dropped from an object's field, or with its entry (WeakMap::remove).
Take(o, b) ==
  /\ Running
  /\ o \in held \cap Objects
  /\ borrow[o] \in {"unused", "writing"}
  /\ b \in contents[o]
  /\ o \in maps => key[b] \in held
  /\ contents' = [contents EXCEPT ![o] = @ \ {b}]
  /\ ref' = Minus(ref, {b})
  /\ UNCHANGED <<strongs, weaks, weakMaps, maps, key, held, borrow, collector>>

\* A clone of a handle is put into a field.
Store(o, b) ==
  /\ Running /\ Room(0, 1)
  /\ o \in (held \cap Objects) \ maps
  /\ borrow[o] \in {"unused", "writing"}
  /\ b \in held \ contents[o]
  /\ contents' = [contents EXCEPT ![o] = @ \cup {b}]
  /\ ref' = Plus(ref, {b})
  /\ UNCHANGED <<strongs, weaks, weakMaps, maps, key, held, borrow, collector>>

\* A handle is cloned from a field, from an entry or from an ephemeron's
\* value, or made from its key (Ephemeron::value, WeakGc::upgrade).
Load(c, b) ==
  /\ Running /\ Room(0, 1)
  /\ c \in held
  /\ b \in contents[c] \/ (c \in Ephs /\ b = key[c])
  /\ b \in Boxes \ held
  /\ held' = held \cup {b}
  /\ ref' = Plus(ref, {b})
  /\ UNCHANGED <<heap, borrow, collector>>

\* Drop of a handle on the stack; a borrow of the object must have ended.
Drop(b) ==
  /\ Running
  /\ b \in held
  /\ b \in Objects => borrow[b] = "unused"
  /\ held' = held \ {b}
  /\ ref' = Minus(ref, {b})
  /\ UNCHANGED <<heap, borrow, collector>>

\* GcRefCell::borrow and borrow_mut, and the end of the GcRef or GcRefMut.
\* Bound: one object is borrowed at a time.
SetBorrow(o, flag) ==
  /\ Running
  /\ o \in held \cap Objects
  /\ borrow[o] # flag
  /\ \A p \in Objects : borrow[p] # "unused" => p = o /\ flag = "unused"
  /\ borrow' = [borrow EXCEPT ![o] = flag]
  /\ UNCHANGED <<heap, held, ref, collector>>

(****************************************************************************)
(* Collector::collect                                                       *)
(****************************************************************************)
MinOf(m, n) == IF m <= n THEN m ELSE n

\* GcHeader::inc_non_root_count once for every handle found in the heap; the
\* count does not grow beyond ref_count.
NonRoots(b) == MinOf(ref[b], nonRoot[b] + Cardinality(TracedContainers(b)))

\* trace_non_roots, and the call of the first mark_heap
Collect ==
  /\ Running
  /\ Allocated # {}
  /\ nonRoot' = [b \in Boxes |-> IF b \in Allocated THEN NonRoots(b) ELSE 0]
  /\ pc' = "strong"
  /\ work' = strongs
  /\ UNCHANGED <<heap, held, borrow, ref, marked, finalized, gray, dead, pending, previousLen>>

InCollection == UNCHANGED <<heap, held, borrow, ref, nonRoot, finalized>>

\* Tracer::trace_until_empty, for one node.  Tracing a Gc queues its box,
\* tracing an Ephemeron marks its box and stops there.
TraceNext(n) ==
  /\ n \in gray
  /\ IF n \in marked
       THEN gray' = gray \ {n} /\ marked' = marked
       ELSE /\ marked' = marked \cup {n} \cup (Traced(n) \cap Ephs)
            /\ gray' = (gray \ {n}) \cup (Traced(n) \cap Objects)
  /\ UNCHANGED <<pc, work, dead, pending, previousLen>> /\ InCollection

\* mark_heap, step 0
MarkStrong(o) ==
  /\ pc = "strong" /\ gray = {} /\ o \in work
  /\ work' = work \ {o}
  /\ IF Rooted(o)
       THEN gray' = {o} /\ dead' = dead
       ELSE gray' = gray /\ dead' = dead \cup ({o} \ marked)
  /\ UNCHANGED <<marked, pc, pending, previousLen>> /\ InCollection

EndMarking ==
  /\ pc' = "marked"
  /\ dead' = dead \ marked

\* Step 0.1, or on to the ephemerons
EndStrong ==
  /\ pc = "strong" /\ gray = {} /\ work = {}
  /\ IF weaks = {}
       THEN EndMarking /\ work' = work
       ELSE pc' = "weak" /\ work' = weaks /\ dead' = dead
  /\ UNCHANGED <<marked, gray, pending, previousLen>> /\ InCollection

\* Mutant: the value is traced although the key is not marked.
TraceAnyValue(e, m) ==
  LET done == e \in m
      value == IF done THEN contents[e] ELSE {}
  IN  /\ marked' = m \cup (value \cap Ephs)
      /\ gray' = value \cap Objects
      /\ pending' = IF done THEN pending ELSE pending \cup {e}

\* ErasedEphemeronBox::trace under the marks m: the value is traced if the
\* ephemeron and its key are marked, else it is tried again.
TraceEphemeron(e, m) ==
  LET done == e \in m /\ (key[e] = None \/ key[e] \in m)
      value == IF done THEN contents[e] ELSE {}
  IN  /\ marked' = m \cup (value \cap Ephs)
      /\ gray' = value \cap Objects
      /\ pending' = IF done THEN pending ELSE pending \cup {e}

\* Step 1
MarkWeak(e) ==
  /\ pc = "weak" /\ gray = {} /\ e \in work
  /\ work' = work \ {e}
  /\ TraceEphemeron(e, IF Rooted(e) THEN marked \cup {e} ELSE marked)
  /\ UNCHANGED <<pc, dead, previousLen>> /\ InCollection

StartPass ==
  /\ work' = pending
  /\ previousLen' = Cardinality(pending)
  /\ pending' = {}

\* Step 2: the ephemerons of the weak maps that are alive
EndWeak ==
  /\ pc = "weak" /\ gray = {} /\ work = {}
  /\ marked' = marked \cup {e \in weakMaps : key[e] # None}
  /\ pc' = "retry"
  /\ StartPass
  /\ UNCHANGED <<gray, dead>> /\ InCollection

\* Step 3
Retry(e) ==
  /\ pc = "retry" /\ gray = {} /\ e \in work
  /\ work' = work \ {e}
  /\ TraceEphemeron(e, marked)
  /\ UNCHANGED <<pc, dead, previousLen>> /\ InCollection

\* Mutant: the pending ephemerons are tried once more only.
EndPassForGood ==
  /\ pc = "retry" /\ gray = {} /\ work = {}
  /\ EndMarking
  /\ UNCHANGED <<marked, gray, work, pending, previousLen>> /\ InCollection

\* Another pass, unless this one removed nothing; then step 4
EndPass ==
  /\ pc = "retry" /\ gray = {} /\ work = {}
  /\ IF previousLen = Cardinality(pending)
       THEN EndMarking /\ UNCHANGED <<work, pending, previousLen>>
       ELSE StartPass /\ UNCHANGED <<pc, dead>>
  /\ UNCHANGED <<marked, gray>> /\ InCollection

\* The handles that run_finalizer gives up: those of the dead objects, and the
\* values of the ephemerons that are cleared.
GivenUp(b) ==
  Cardinality({c \in dead \cup pending : b \in Traced(c)})

\* finalize, and the call of the second mark_heap.  The finalizers of the
\* engine's own types leave all handles alone.
Finalize ==
  /\ pc = "marked" /\ ~finalized
  /\ dead # {} \/ pending # {}
  /\ ref' = [b \in Boxes |-> ref[b] - GivenUp(b)]
  /\ key' = [e \in Ephs |-> IF e \in pending THEN None ELSE key[e]]
  /\ contents' = [c \in Boxes |-> IF c \in pending THEN {} ELSE contents[c]]
  /\ finalized' = TRUE
  /\ pc' = "strong" /\ work' = strongs
  /\ dead' = {} /\ pending' = {}
  /\ UNCHANGED <<strongs, weaks, weakMaps, maps, held, borrow, nonRoot, marked, gray, previousLen>>

\* Mutant: what is freed gives up its handles, as without the DropGuard.
SurvivorsUnguarded(counts) == [b \in Boxes |->
  IF b \in marked THEN counts[b] - Cardinality(Containers(b) \ marked) ELSE 0]

Survivors(counts) == [b \in Boxes |-> IF b \in marked THEN counts[b] ELSE 0]

\* Mutant: the non-root counts of the survivors are not reset.
SweepKeepingCounts ==
  /\ pc = "marked"
  /\ finalized \/ (dead = {} /\ pending = {})
  /\ strongs' = strongs \cap marked
  /\ weaks' = weaks \cap marked
  /\ maps' = maps \cap marked
  /\ contents' = [b \in Boxes |-> IF b \in marked THEN contents[b] ELSE {}]
  /\ key' = [e \in Ephs |-> IF e \in marked THEN key[e] ELSE None]
  /\ borrow' = [o \in Objects |-> IF o \in marked THEN borrow[o] ELSE "unused"]
  /\ ref' = Survivors(ref)
  /\ nonRoot' = Survivors(nonRoot)
  /\ marked' = {}
  /\ pc' = "clear"
  /\ dead' = {} /\ pending' = {}
  /\ UNCHANGED <<weakMaps, held, finalized, work, gray, previousLen>>

\* sweep.  A DropGuard is up: what is freed gives up no handles.
Sweep ==
  /\ pc = "marked"
  /\ finalized \/ (dead = {} /\ pending = {})
  /\ strongs' = strongs \cap marked
  /\ weaks' = weaks \cap marked
  /\ maps' = maps \cap marked
  /\ contents' = [b \in Boxes |-> IF b \in marked THEN contents[b] ELSE {}]
  /\ key' = [e \in Ephs |-> IF e \in marked THEN key[e] ELSE None]
  /\ borrow' = [o \in Objects |-> IF o \in marked THEN borrow[o] ELSE "unused"]
  /\ ref' = Survivors(ref)
  /\ nonRoot' = [b \in Boxes |-> 0]
  /\ marked' = {}
  /\ pc' = "clear"
  /\ dead' = {} /\ pending' = {}
  /\ UNCHANGED <<weakMaps, held, finalized, work, gray, previousLen>>

Expired(o) == {e \in contents[o] : key[e] = None}

\* The maps clear_dead_entries reaches: not those that are borrowed.
Cleared == {key[e] : e \in weakMaps} \cap {o \in maps : borrow[o] = "unused"}

\* The retain of weak_maps that ends the collection
ClearMaps ==
  /\ pc = "clear"
  /\ weakMaps' = {e \in weakMaps : key[e] # None}
  /\ contents' = [b \in Boxes |-> IF b \in Cleared THEN contents[b] \ Expired(b) ELSE contents[b]]
  /\ ref' = [b \in Boxes |-> ref[b] - Cardinality({o \in Cleared : b \in Expired(o)})
                                    - CountIn(b, weakMaps \ weakMaps')]
  /\ pc' = "mutator" /\ finalized' = FALSE
  /\ previousLen' = 0
  /\ UNCHANGED <<strongs, weaks, maps, key, held, borrow, nonRoot, marked, work, gray, dead, pending>>

Mutator ==
  \/ \E o \in Objects : New(o)
  \/ \E e \in Ephs, k \in Objects, value \in Values : NewEphemeron(e, k, value)
  \/ \E o \in Objects, e \in Ephs : NewWeakMap(o, e)
  \/ \E o, k \in Objects, e \in Ephs, value \in Values : Insert(o, e, k, value)
  \/ \E o \in Objects, b \in Boxes : Take(o, b)
  \/ \E o \in Objects, b \in Boxes : Store(o, b)
  \/ \E c, b \in Boxes : Load(c, b)
  \/ \E b \in Boxes : Drop(b)
  \/ \E o \in Objects, flag \in {"unused", "reading", "writing"} : SetBorrow(o, flag)

Collector ==
  \/ Collect
  \/ \E n \in Objects : TraceNext(n)
  \/ \E o \in Objects : MarkStrong(o)
  \/ EndStrong
  \/ \E e \in Ephs : MarkWeak(e)
  \/ EndWeak
  \/ \E e \in Ephs : Retry(e)
  \/ EndPass
  \/ Finalize
  \/ Sweep
  \/ ClearMaps

Next == Mutator \/ Collector
Spec == Init /\ [][Next]_vars

(****************************************************************************)
(* Properties                                                               *)
(****************************************************************************)
\* The heap keeps its shape: what is free is blank, and
\* the loops of the collector range over boxes that are allocated.
TypeOK ==
  /\ strongs \subseteq Objects /\ weaks \subseteq Ephs
  /\ weakMaps \subseteq Ephs /\ maps \subseteq strongs
  /\ contents \in [Boxes -> SUBSET Boxes]
  /\ key \in [Ephs -> Objects \cup {None}]
  /\ \A b \in Boxes \ Allocated : contents[b] = {} /\ ref[b] = 0
  /\ held \subseteq Boxes
  /\ borrow \in [Objects -> {"unused", "reading", "writing"}]
  /\ ref \in [Boxes -> Nat] /\ nonRoot \in [Boxes -> Nat]
  /\ marked \cup work \subseteq Allocated
  /\ gray \cup dead \subseteq strongs /\ pending \subseteq weaks
  /\ pc \in {"mutator", "strong", "weak", "retry", "marked", "clear"}
  /\ finalized \in BOOLEAN /\ previousLen \in Nat

\* What the program can still get at.  An ephemeron keeps its value only as
\* long as its key is reachable too, so this is the least set that is closed.
Roots == held \cup weakMaps
Closed(s) ==
  /\ Roots \subseteq s
  /\ \A o \in s \cap Objects : contents[o] \subseteq s
  /\ \A e \in s \cap Ephs : key[e] \in s => contents[e] \subseteq s
Reachable == {b \in Allocated : \A s \in SUBSET Allocated : Closed(s) => b \in s}

\* No handle, key or weak map box points to memory that was freed: the
\* assumption of every unsafe dereference in core/gc, sweep's above all.
NoDangling ==
  /\ held \cup weakMaps \subseteq Allocated
  /\ \A c \in Allocated : contents[c] \subseteq Allocated
  /\ \A e \in weaks : key[e] \in Allocated \cup {None}

\* Between collections ref_count is the number of handles that exist: the
\* finalizers gave up every handle of what was freed once, the sweep none.
CountsAreExact ==
  Running => \A b \in Allocated :
    ref[b] = Cardinality(Containers(b)) + CountIn(b, held) + CountIn(b, weakMaps)

\* Once the handles in the heap are counted, the boxes is_rooted() names are
\* those with a handle elsewhere: on the stack, in a weak map box, or in a
\* cell that is being written.
RootsAreExact ==
  pc \in {"strong", "weak", "retry"} /\ ~finalized => \A b \in Allocated :
    Rooted(b) <=> b \in Roots \/ Containers(b) # TracedContainers(b)

\* A weak map keeps its WeakMapBox, which empties it of dead keys, exactly as
\* long as it is allocated.
MapsAreTracked ==
  Running => {key[e] : e \in weakMaps} = maps

\* The collector's books: counts, roots and weak maps.
BooksAreExact == CountsAreExact /\ RootsAreExact /\ MapsAreTracked

\* A collection frees everything the program cannot reach, values of
\* ephemerons included, and nothing else.
SweepIsExact ==
  [][pc = "marked" /\ pc' = "clear" => Allocated' = Reachable]_vars

\* A weak reference the program can reach is cleared only when its key
\* cannot be reached: WeakRef.deref does not come back empty too early.
WeakReferencesHold ==
  [][\A e \in weaks :
       key[e] # None /\ key'[e] # key[e] => {e, key[e]} \cap (Allocated \ Reachable) # {}]_vars

=============================================================================
