------------------------------ MODULE GcProofs ------------------------------
(****************************************************************************)
(* Proofs about Gc: the invariant of the heap, that no step of the program  *)
(* between collections breaks it, the collector, and the theorems.  Objects *)
(* and Ephs are any sets, finite or not.                                    *)
(*                                                                          *)
(* The first marking moves the boundary of what is marked (FirstInv); when  *)
(* it ends, what is marked is closed and is what the program can reach.     *)
(* The finalizers take the handles of everything else, so that the second   *)
(* marking finds the same boxes (SecondInv), and sweep frees the rest.  At   *)
(* the end: each step of a collection brings its end closer.                *)
(****************************************************************************)
EXTENDS Gc, FiniteSetTheorems, TLAPS

------------------------------------------------------------------------------
(* The invariant between collections. *)

\* The phases of the collector that mark: mark_heap runs twice, before and
\* after the finalizers.
Marking == pc \in {"strong", "weak", "retry", "marked"}
FirstMarking == Marking /\ ~finalized
SecondMarking == Marking /\ finalized

\* The lists of boxes are finite, so that handles can be counted.
Finite == IsFiniteSet(strongs) /\ IsFiniteSet(weaks)

\* Every loop of the collector leaves its lists empty for the next, and a
\* collection leaves no mark and no count behind.
Quiet ==
  /\ ~Marking => marked = {} /\ gray = {} /\ dead = {} /\ pending = {} /\ work = {}
  /\ ~Marking => \A b \in Boxes : nonRoot[b] = 0
  /\ Running => ~finalized
  /\ pc = "strong" => pending = {} /\ work \subseteq strongs
  /\ pc \in {"weak", "retry"} => work \subseteq weaks
  /\ pc = "marked" => gray = {} /\ work = {}

\* A borrow keeps the handle it was made through alive.
BorrowersHold == \A o \in Objects : borrow[o] # "unused" => o \in held

\* An ephemeron that lost its key gave up its value with it.
NoKeyNoValue == \A e \in Ephs : key[e] = None => contents[e] = {}

\* The boxes whose handles ref_count counts: once the finalizers have run the
\* dead ones have given theirs up, although sweep has not freed them yet.
LiveContainers(b) == IF SecondMarking THEN Containers(b) \cap marked ELSE Containers(b)

\* ref_count is exact, in every phase.
CountInv == \A b \in Allocated :
  ref[b] = Cardinality(LiveContainers(b)) + CountIn(b, held) + CountIn(b, weakMaps)

\* Every weak map has its WeakMapBox; before the finalizers have run none of
\* these has lost its key.
MapsInv ==
  /\ {key[e] : e \in weakMaps} \ {None} = IF SecondMarking THEN maps \cap marked ELSE maps
  /\ Running \/ FirstMarking => \A e \in weakMaps : key[e] # None

\* What holds in every phase, whatever the marks are.
Base == Finite /\ TypeOK /\ NoDangling /\ Quiet /\ BorrowersHold /\ NoKeyNoValue
        /\ CountInv /\ MapsInv

------------------------------------------------------------------------------
(* Counting handles. *)

\* Of the boxes A, those with a handle to b in their fields m.
Holders(A, m, b) == {c \in A : b \in m[c]}

\* Between the fields m and n only the box c changes, which may be new.
OneChanges(A, m, n, b, c) ==
  /\ IsFiniteSet(A)
  /\ c \in A \/ b \notin m[c]
  /\ \A d \in A \ {c} : n[d] = m[d]

\* The handles to b that the heap holds change by those of the one box that
\* changes: what every write through a Gc does to ref_count.
LEMMA HoldersStep ==
  ASSUME NEW A, NEW m, NEW n, NEW b, NEW c, OneChanges(A, m, n, b, c)
  PROVE  /\ IsFiniteSet(A \cup {c})
         /\ Cardinality(Holders(A, m, b)) \in Nat
         /\ Cardinality(Holders(A \cup {c}, n, b)) \in Nat
         /\ Cardinality(Holders(A \cup {c}, n, b)) =
              Cardinality(Holders(A, m, b)) + CountIn(b, n[c]) - CountIn(b, m[c])
<1>a. /\ IsFiniteSet(A)
      /\ c \in A \/ b \notin m[c]
      /\ \A d \in A \ {c} : n[d] = m[d]
  BY DEF OneChanges
<1> DEFINE H == Holders(A, m, b)
           K == Holders(A \cup {c}, n, b)
<1>1. IsFiniteSet(H) /\ Cardinality(H) \in Nat
  <2>1. H \subseteq A
    BY DEF Holders
  <2>2. QED
    BY <1>a, <2>1, FS_Subset, FS_CardinalityType
<1>2. c \in H <=> b \in m[c]
  BY <1>a DEF Holders
<1>3. CountIn(b, m[c]) = IF c \in H THEN 1 ELSE 0
  BY <1>2 DEF CountIn
<1>4. IsFiniteSet(A \cup {c})
  BY <1>a, FS_AddElement
<1>5. Cardinality(K) = Cardinality(H) + CountIn(b, n[c]) - CountIn(b, m[c])
  <2>1. CASE b \in n[c]
    <3>1. K = H \cup {c}
      BY <1>a, <2>1 DEF Holders
    <3>2. CountIn(b, n[c]) = 1
      BY <2>1 DEF CountIn
    <3>3. Cardinality(H \cup {c}) = IF c \in H THEN Cardinality(H) ELSE Cardinality(H) + 1
      BY <1>1, FS_AddElement
    <3> HIDE DEF H, K
    <3>4. QED
      BY <3>1, <3>2, <3>3, <1>1, <1>3
  <2>2. CASE b \notin n[c]
    <3>1. K = H \ {c}
      BY <1>a, <2>2 DEF Holders
    <3>2. CountIn(b, n[c]) = 0
      BY <2>2 DEF CountIn
    <3>3. Cardinality(H \ {c}) = IF c \in H THEN Cardinality(H) - 1 ELSE Cardinality(H)
      BY <1>1, FS_RemoveElement
    <3> HIDE DEF H, K
    <3>4. QED
      BY <3>1, <3>2, <3>3, <1>1, <1>3
  <2>3. QED
    BY <2>1, <2>2
<1>6. Cardinality(K) \in Nat
  <2>1. K \subseteq A \cup {c}
    BY DEF Holders
  <2>2. QED
    BY <2>1, <1>4, FS_Subset, FS_CardinalityType
<1>7. QED
  BY <1>1, <1>4, <1>5, <1>6

\* The heap starts empty.
LEMMA InitInv == Init => Base
<1> SUFFICES ASSUME Init PROVE Base
  OBVIOUS
<1> USE DEF Init, Boxes
<1>1. Finite
  BY FS_EmptySet DEF Finite
<1>2. TypeOK
  BY DEF TypeOK, Allocated
<1>3. NoDangling /\ BorrowersHold /\ NoKeyNoValue
  BY DEF NoDangling, BorrowersHold, NoKeyNoValue, Allocated
<1>4. Quiet /\ CountInv /\ MapsInv
  BY DEF Quiet, Running, Marking, SecondMarking, FirstMarking, CountInv, MapsInv, Allocated
<1>5. QED
  BY <1>1, <1>2, <1>3, <1>4 DEF Base

\* What every step of the program between collections has to keep, apart from
\* the counts.
HeapShape ==
  /\ strongs \subseteq Objects /\ weaks \subseteq Ephs
  /\ weakMaps \subseteq Ephs /\ maps \subseteq strongs
  /\ contents \in [Boxes -> SUBSET Boxes]
  /\ key \in [Ephs -> Objects \cup {None}]
  /\ \A b \in Boxes \ Allocated : contents[b] = {}
  /\ held \subseteq Boxes
  /\ borrow \in [Objects -> {"unused", "reading", "writing"}]

\* The invariant of the heap as the program between collections sees it.
HeapInv == HeapShape /\ Finite /\ NoDangling /\ BorrowersHold /\ NoKeyNoValue

\* All handles to b: in the heap, on the stack, in the weak map boxes.
Handles(A, m, b, h, w) == Cardinality(Holders(A, m, b)) + CountIn(b, h) + CountIn(b, w)

\* ref_count is the number of handles, for free boxes too.
RefInv ==
  /\ ref \in [Boxes -> Int]
  /\ \A b \in Boxes : ref[b] = Handles(Allocated, contents, b, held, weakMaps)

\* The weak map boxes are those of the allocated weak maps.
WeakMapsInv ==
  /\ {key[e] : e \in weakMaps} = maps
  /\ None \notin maps

\* The heap is finite.
LEMMA AllocatedFinite == ASSUME Finite PROVE IsFiniteSet(Allocated)
BY FS_Union DEF Finite, Allocated

\* The number of handles is a natural number.
LEMMA HandlesNat ==
  ASSUME NEW A, IsFiniteSet(A), NEW m, NEW b, NEW h, NEW w
  PROVE  /\ Handles(A, m, b, h, w) \in Nat
         /\ Cardinality(Holders(A, m, b)) \in Nat
<1>1. Holders(A, m, b) \subseteq A
  BY DEF Holders
<1>2. Cardinality(Holders(A, m, b)) \in Nat
  BY <1>1, FS_Subset, FS_CardinalityType
<1>3. CountIn(b, h) \in {0, 1} /\ CountIn(b, w) \in {0, 1}
  BY DEF CountIn
<1>4. QED
  BY <1>2, <1>3 DEF Handles

\* Nothing has a handle to a box that is not allocated.
LEMMA FreeHasNoHandles ==
  ASSUME NoDangling, NEW b, b \notin Allocated
  PROVE  Handles(Allocated, contents, b, held, weakMaps) = 0
<1>1. Holders(Allocated, contents, b) = {}
  BY DEF NoDangling, Holders
<1>2. b \notin held /\ b \notin weakMaps
  BY DEF NoDangling
<1>3. QED
  BY <1>1, <1>2, FS_EmptySet DEF Handles, CountIn

\* A handle more on a list counts for the box it points to.
LEMMA CountUnion ==
  ASSUME NEW S, NEW T, S \cap T = {}, NEW b
  PROVE  CountIn(b, S \cup T) = CountIn(b, S) + CountIn(b, T)
BY DEF CountIn

\* A handle less on a list counts for the box it pointed to.
LEMMA CountWithout ==
  ASSUME NEW S, NEW T, T \subseteq S, NEW b
  PROVE  CountIn(b, S \ T) = CountIn(b, S) - CountIn(b, T)
BY DEF CountIn

\* A list has no or one handle to a box.
LEMMA CountType == ASSUME NEW S, NEW b PROVE CountIn(b, S) \in {0, 1}
BY DEF CountIn

\* The handles to b after a step that changes the fields of one box, the
\* stack and the weak map boxes.
LEMMA HandlesChange ==
  ASSUME NEW A, NEW m, NEW n, NEW b, NEW c, OneChanges(A, m, n, b, c),
         NEW h, NEW w, NEW h2, NEW w2
  PROVE  Handles(A \cup {c}, n, b, h2, w2) =
           Handles(A, m, b, h, w) + (CountIn(b, n[c]) - CountIn(b, m[c]))
             + (CountIn(b, h2) - CountIn(b, h)) + (CountIn(b, w2) - CountIn(b, w))
<1> DEFINE x == Cardinality(Holders(A, m, b))
           y == Cardinality(Holders(A \cup {c}, n, b))
<1>1. /\ IsFiniteSet(A \cup {c}) /\ x \in Nat
      /\ y = x + CountIn(b, n[c]) - CountIn(b, m[c])
  BY HoldersStep
<1>2. /\ CountIn(b, n[c]) \in Nat /\ CountIn(b, m[c]) \in Nat
      /\ CountIn(b, h) \in Nat /\ CountIn(b, h2) \in Nat
      /\ CountIn(b, w) \in Nat /\ CountIn(b, w2) \in Nat
  BY CountType
<1>3. /\ Handles(A, m, b, h, w) = x + CountIn(b, h) + CountIn(b, w)
      /\ Handles(A \cup {c}, n, b, h2, w2) = y + CountIn(b, h2) + CountIn(b, w2)
  BY DEF Handles
<1> HIDE DEF x, y
<1>4. QED
  BY <1>1, <1>2, <1>3

\* One box more leaves the heap finite.
LEMMA ChangeFinite ==
  ASSUME NEW A, NEW m, NEW n, NEW b, NEW c, OneChanges(A, m, n, b, c)
  PROVE  IsFiniteSet(A \cup {c})
BY HoldersStep

------------------------------------------------------------------------------
(* The program between collections, one lemma for each of its operations. *)

\* Between collections the parts of Base read more simply.
LEMMA RunningFacts ==
  ASSUME Base, Running
  PROVE  /\ HeapInv /\ RefInv /\ WeakMapsInv
         /\ IsFiniteSet(Allocated)
         /\ Quiet /\ TypeOK
<1>1. ~Marking /\ ~SecondMarking
  BY DEF Running, Marking, SecondMarking
<1>2. HeapInv
  BY DEF Base, HeapInv, HeapShape, TypeOK
<1>3. RefInv
  <2>1. \A b \in Allocated : LiveContainers(b) = Holders(Allocated, contents, b)
    BY <1>1 DEF LiveContainers, Containers, Holders
  <2>2. ref \in [Boxes -> Int] /\ \A b \in Boxes \ Allocated : ref[b] = 0
    BY DEF Base, TypeOK
  <2>3. \A b \in Allocated : ref[b] = Handles(Allocated, contents, b, held, weakMaps)
    BY <2>1 DEF Base, CountInv, Handles
  <2>4. QED
    BY <2>2, <2>3, FreeHasNoHandles DEF RefInv, Base
<1>4. WeakMapsInv
  <2>1. {key[e] : e \in weakMaps} \ {None} = maps /\ \A e \in weakMaps : key[e] # None
    BY <1>1 DEF Base, MapsInv
  <2>2. QED
    BY <2>1 DEF WeakMapsInv
<1>5. QED
  BY <1>2, <1>3, <1>4, AllocatedFinite DEF Base

\* and it is enough to keep those.
LEMMA RunningBase ==
  ASSUME Base, Running, UNCHANGED collector,
         HeapInv', RefInv', WeakMapsInv'
  PROVE  Base' /\ Running'
<1>1. Running' /\ ~Marking' /\ ~SecondMarking' /\ ~Marking
  BY DEF Running, Marking, SecondMarking, collector
<1>2. CountInv'
  <2>1. \A b \in Allocated' : LiveContainers(b)' = Holders(Allocated', contents', b)
    BY <1>1 DEF LiveContainers, Containers, Holders
  <2>2. QED
    BY GcAssumption, <2>1 DEF CountInv, RefInv, Handles, HeapInv, HeapShape, Allocated, Boxes
<1>3. Quiet'
  BY <1>1 DEF Base, Quiet, collector, Running, Marking
<1>4. MapsInv'
  BY <1>1 DEF MapsInv, WeakMapsInv
<1>5. IsFiniteSet(Allocated')
  BY AllocatedFinite, FS_Union DEF HeapInv, Finite, Allocated
<1>6. ref' \in [Boxes -> Nat]
  <2>1. ASSUME NEW b \in Boxes PROVE ref'[b] \in Nat
    <3>1. Handles(Allocated', contents', b, held', weakMaps') \in Nat
      BY <1>5, HandlesNat
    <3>2. QED
      BY <3>1 DEF RefInv
  <2>2. ref' \in [Boxes -> Int]
    BY DEF RefInv
  <2>3. QED
    BY <2>1, <2>2
<1>7. TypeOK'
  <2>1. marked' = {} /\ gray' = {} /\ dead' = {} /\ pending' = {} /\ work' = {}
    BY <1>1 DEF Base, Quiet, collector
  <2>2. nonRoot' \in [Boxes -> Nat] /\ finalized' \in BOOLEAN /\ previousLen' \in Nat
    BY DEF Base, TypeOK, collector
  <2>3. pc' \in {"mutator", "strong", "weak", "retry", "marked", "clear"}
    BY <1>1 DEF Running
  <2>4. \A b \in Boxes \ Allocated' : contents'[b] = {} /\ ref'[b] = 0
    <3>1. ASSUME NEW b \in Boxes \ Allocated'
          PROVE  Handles(Allocated', contents', b, held', weakMaps') = 0
      <4>1. Holders(Allocated', contents', b) = {} /\ b \notin held' /\ b \notin weakMaps'
        BY DEF HeapInv, NoDangling, Holders
      <4>2. QED
        BY <4>1, FS_EmptySet DEF Handles, CountIn
    <3>2. QED
      BY <3>1 DEF HeapInv, HeapShape, RefInv
  <2>5. QED
    BY <1>6, <2>1, <2>2, <2>3, <2>4 DEF TypeOK, HeapInv, HeapShape
<1>8. QED
  BY <1>1, <1>2, <1>3, <1>4, <1>7 DEF Base, HeapInv

\* Gc::new: one box, one handle on the stack.
LEMMA NewOK ==
  ASSUME Base, Running, NEW o \in Objects, New(o)
  PROVE  HeapInv' /\ RefInv' /\ WeakMapsInv'
<1>1. HeapInv /\ RefInv /\ WeakMapsInv /\ IsFiniteSet(Allocated)
  BY RunningFacts
<1>2. /\ o \notin Allocated /\ o \notin held /\ contents[o] = {}
      /\ Allocated' = Allocated \cup {o}
      /\ held' = held \cup {o} /\ contents' = contents /\ weakMaps' = weakMaps
      /\ key' = key /\ maps' = maps /\ borrow' = borrow /\ weaks' = weaks
      /\ strongs' = strongs \cup {o}
      /\ ref' = [b \in Boxes |-> ref[b] + CountIn(b, {o})]
  BY GcAssumption, <1>1 DEF New, Allocated, Plus, HeapInv, HeapShape, NoDangling, Boxes
<1>3. HeapInv'
  <2>1. HeapShape'
    BY GcAssumption, <1>1, <1>2 DEF HeapInv, HeapShape, Boxes
  <2>2. Finite'
    BY <1>1, <1>2, FS_AddElement DEF HeapInv, Finite
  <2>3. NoDangling' /\ BorrowersHold' /\ NoKeyNoValue'
    BY <1>1, <1>2 DEF HeapInv, NoDangling, BorrowersHold, NoKeyNoValue
  <2>4. QED
    BY <2>1, <2>2, <2>3 DEF HeapInv
<1>4. RefInv'
  <2>1. ASSUME NEW b \in Boxes
        PROVE  ref'[b] = Handles(Allocated', contents', b, held', weakMaps')
    <3>1. OneChanges(Allocated, contents, contents', b, o)
      BY <1>1, <1>2 DEF OneChanges
    <3>2. Handles(Allocated \cup {o}, contents', b, held', weakMaps') =
            Handles(Allocated, contents, b, held, weakMaps)
              + (CountIn(b, contents'[o]) - CountIn(b, contents[o]))
              + (CountIn(b, held') - CountIn(b, held))
              + (CountIn(b, weakMaps') - CountIn(b, weakMaps))
      BY <3>1, HandlesChange
    <3>3. ref[b] = Handles(Allocated, contents, b, held, weakMaps)
      BY <1>1 DEF RefInv
    <3>4. Handles(Allocated \cup {o}, contents', b, held', weakMaps')
            = Handles(Allocated', contents', b, held', weakMaps')
      BY <1>2
    <3>nat. Handles(Allocated, contents, b, held, weakMaps) \in Nat
      BY <1>1, HandlesNat
    <3>5. QED
      BY <3>nat, <1>2, <3>2, <3>3, <3>4 DEF CountIn
  <2>2. ref' \in [Boxes -> Int]
    BY <1>1, <1>2, CountType DEF RefInv
  <2>3. QED
    BY <2>1, <2>2 DEF RefInv
<1>5. WeakMapsInv'
  BY <1>1, <1>2 DEF WeakMapsInv
<1>6. QED
  BY <1>3, <1>4, <1>5

\* Ephemeron::new: one box, its handle, and the clones its value takes.
LEMMA NewEphemeronOK ==
  ASSUME Base, Running, NEW e \in Ephs, NEW k \in Objects, NEW value \in Values,
         NewEphemeron(e, k, value)
  PROVE  HeapInv' /\ RefInv' /\ WeakMapsInv'
<1>1. HeapInv /\ RefInv /\ WeakMapsInv /\ IsFiniteSet(Allocated)
  BY RunningFacts
<1>2. value \subseteq held /\ held \subseteq Boxes /\ held \subseteq Allocated
  BY <1>1 DEF Values, HeapInv, HeapShape, NoDangling
<1>3. /\ e \notin Allocated /\ e \notin held /\ contents[e] = {} /\ e \in Boxes
      /\ e \notin weakMaps /\ k \in held
      /\ Allocated' = Allocated \cup {e}
      /\ held' = held \cup {e} /\ contents' = [contents EXCEPT ![e] = value]
      /\ weakMaps' = weakMaps /\ key' = [key EXCEPT ![e] = k]
      /\ maps' = maps /\ borrow' = borrow /\ weaks' = weaks \cup {e} /\ strongs' = strongs
      /\ ref' = [b \in Boxes |-> ref[b] + CountIn(b, value \cup {e})]
  BY GcAssumption, <1>1, <1>2 DEF NewEphemeron, MakeEphemeron, Allocated, Plus, HeapInv, HeapShape, NoDangling, Boxes
<1>4. HeapInv'
  <2>1. HeapShape'
    BY <1>1, <1>2, <1>3 DEF HeapInv, HeapShape
  <2>2. Finite'
    BY <1>1, <1>3, FS_AddElement DEF HeapInv, Finite
  <2>3. NoDangling'
    BY <1>1, <1>2, <1>3 DEF HeapInv, HeapShape, NoDangling
  <2>4. BorrowersHold' /\ NoKeyNoValue'
    BY GcAssumption, <1>1, <1>2, <1>3 DEF HeapInv, HeapShape, BorrowersHold, NoKeyNoValue, Boxes
  <2>5. QED
    BY <2>1, <2>2, <2>3, <2>4 DEF HeapInv
<1>8. /\ contents'[e] = value
      /\ \A d \in Allocated \ {e} : contents'[d] = contents[d]
  BY <1>1, <1>3 DEF HeapInv, HeapShape
<1>5. RefInv'
  <2>1. ASSUME NEW b \in Boxes
        PROVE  ref'[b] = Handles(Allocated', contents', b, held', weakMaps')
    <3>1. OneChanges(Allocated, contents, contents', b, e)
      BY <1>1, <1>3, <1>8 DEF OneChanges
    <3>2. Handles(Allocated \cup {e}, contents', b, held', weakMaps') =
            Handles(Allocated, contents, b, held, weakMaps)
              + (CountIn(b, contents'[e]) - CountIn(b, contents[e]))
              + (CountIn(b, held') - CountIn(b, held))
              + (CountIn(b, weakMaps') - CountIn(b, weakMaps))
      BY <3>1, HandlesChange
    <3>3. ref[b] = Handles(Allocated, contents, b, held, weakMaps)
      BY <1>1 DEF RefInv
    <3>4. Handles(Allocated \cup {e}, contents', b, held', weakMaps')
            = Handles(Allocated', contents', b, held', weakMaps')
      BY <1>3
    <3>nat. Handles(Allocated, contents, b, held, weakMaps) \in Nat
      BY <1>1, HandlesNat
    <3>5. QED
      BY <3>nat, <1>2, <1>3, <1>8, <3>2, <3>3, <3>4 DEF CountIn
  <2>2. ref' \in [Boxes -> Int]
    BY <1>1, <1>3, CountType DEF RefInv
  <2>3. QED
    BY <2>1, <2>2 DEF RefInv
<1>6. WeakMapsInv'
  BY <1>1, <1>3 DEF WeakMapsInv, HeapInv, HeapShape
<1>7. QED
  BY <1>4, <1>5, <1>6

\* WeakMap::new: the map, its ephemeron, and the WeakMapBox.
LEMMA NewWeakMapOK ==
  ASSUME Base, Running, NEW o \in Objects, NEW e \in Ephs, NewWeakMap(o, e)
  PROVE  HeapInv' /\ RefInv' /\ WeakMapsInv'
<1>1. HeapInv /\ RefInv /\ WeakMapsInv /\ IsFiniteSet(Allocated)
  BY RunningFacts
<1>2. /\ o \notin Allocated /\ e \notin Allocated /\ o # e /\ o \in Boxes /\ e \in Boxes
      /\ o \notin held /\ e \notin held /\ e \notin weakMaps /\ o \notin weakMaps
      /\ contents[o] = {} /\ contents[e] = {}
      /\ Allocated' = (Allocated \cup {o}) \cup {e}
      /\ held' = held \cup {o} /\ contents' = contents
      /\ weakMaps' = weakMaps \cup {e} /\ key' = [key EXCEPT ![e] = o]
      /\ maps' = maps \cup {o} /\ borrow' = borrow
      /\ weaks' = weaks \cup {e} /\ strongs' = strongs \cup {o}
      /\ ref' = [b \in Boxes |-> ref[b] + CountIn(b, {o} \cup {e})]
  <2>1. {o, e} = {o} \cup {e}
    OBVIOUS
  <2>2. ref' = [b \in Boxes |-> ref[b] + CountIn(b, {o} \cup {e})]
    BY <2>1 DEF NewWeakMap, Plus
  <2>3. o \notin Allocated /\ e \notin Allocated /\ o # e /\ o \in Boxes /\ e \in Boxes
    BY GcAssumption DEF NewWeakMap, Boxes
  <2>4. QED
    BY <1>1, <2>2, <2>3 DEF NewWeakMap, Allocated, HeapInv, HeapShape, NoDangling
<1>3. HeapInv'
  <2>1. HeapShape'
    BY <1>1, <1>2 DEF HeapInv, HeapShape
  <2>2. Finite'
    BY <1>1, <1>2, FS_AddElement DEF HeapInv, Finite
  <2>3. NoDangling'
    BY <1>1, <1>2 DEF HeapInv, HeapShape, NoDangling
  <2>4. BorrowersHold' /\ NoKeyNoValue'
    BY <1>1, <1>2 DEF HeapInv, HeapShape, BorrowersHold, NoKeyNoValue
  <2>5. QED
    BY <2>1, <2>2, <2>3, <2>4 DEF HeapInv
<1>4. RefInv'
  <2>1. ASSUME NEW b \in Boxes
        PROVE  ref'[b] = Handles(Allocated', contents', b, held', weakMaps')
    <3>1. OneChanges(Allocated, contents, contents, b, o)
      BY <1>1, <1>2 DEF OneChanges
    <3>2. Handles(Allocated \cup {o}, contents, b, held', weakMaps) =
            Handles(Allocated, contents, b, held, weakMaps)
              + (CountIn(b, contents[o]) - CountIn(b, contents[o]))
              + (CountIn(b, held') - CountIn(b, held))
              + (CountIn(b, weakMaps) - CountIn(b, weakMaps))
      BY <3>1, HandlesChange
    <3>fin. IsFiniteSet(Allocated \cup {o})
      BY <3>1, ChangeFinite
    <3>3. OneChanges(Allocated \cup {o}, contents, contents, b, e)
      BY <1>2, <3>fin DEF OneChanges
    <3>4. Handles((Allocated \cup {o}) \cup {e}, contents, b, held', weakMaps') =
            Handles(Allocated \cup {o}, contents, b, held', weakMaps)
              + (CountIn(b, contents[e]) - CountIn(b, contents[e]))
              + (CountIn(b, held') - CountIn(b, held'))
              + (CountIn(b, weakMaps') - CountIn(b, weakMaps))
      BY <3>3, HandlesChange
    <3>5. /\ ref[b] = Handles(Allocated, contents, b, held, weakMaps)
          /\ Handles(Allocated', contents', b, held', weakMaps')
               = Handles((Allocated \cup {o}) \cup {e}, contents, b, held', weakMaps')
      BY <1>1, <1>2 DEF RefInv
    <3>6. ref'[b] = ref[b] + CountIn(b, {o} \cup {e})
      BY <1>2
    <3>7. /\ held' = held \cup {o} /\ o \notin held /\ o # e
          /\ weakMaps' = weakMaps \cup {e} /\ e \notin weakMaps
      BY <1>2
    <3>nat. Handles(Allocated, contents, b, held, weakMaps) \in Nat
      BY <1>1, HandlesNat
    <3>8. QED
      BY <3>nat, <3>2, <3>4, <3>5, <3>6, <3>7 DEF CountIn
  <2>2. ref' \in [Boxes -> Int]
    BY <1>1, <1>2, CountType DEF RefInv
  <2>3. QED
    BY <2>1, <2>2 DEF RefInv
<1>5. WeakMapsInv'
  BY GcAssumption, <1>1, <1>2 DEF WeakMapsInv, HeapInv, HeapShape, Boxes
<1>6. QED
  BY <1>3, <1>4, <1>5

\* WeakMap::insert: the new entry is counted, the one it replaces given up.
LEMMA InsertOK ==
  ASSUME Base, Running, NEW o \in Objects, NEW k \in Objects, NEW e \in Ephs,
         NEW value \in Values, Insert(o, e, k, value)
  PROVE  HeapInv' /\ RefInv' /\ WeakMapsInv'
<1> DEFINE old == EntriesOf(o, k)
           middle == [contents EXCEPT ![e] = value]
<1>1. HeapInv /\ RefInv /\ WeakMapsInv /\ IsFiniteSet(Allocated)
  BY RunningFacts
<1>2. value \subseteq held /\ held \subseteq Boxes /\ held \subseteq Allocated
  BY <1>1 DEF Values, HeapInv, HeapShape, NoDangling
<1>3. old \subseteq contents[o] /\ contents[o] \subseteq Allocated /\ o \in Allocated /\ o \in Boxes
  BY GcAssumption, <1>1, <1>2 DEF Insert, EntriesOf, HeapInv, NoDangling, Boxes
<1>4. /\ e \notin Allocated /\ contents[e] = {} /\ e \in Boxes /\ e # o
      /\ e \notin weakMaps /\ k \in held
      /\ Allocated' = Allocated \cup {e}
      /\ contents' = [contents EXCEPT ![e] = value, ![o] = (contents[o] \ old) \cup {e}]
      /\ held' = held /\ weakMaps' = weakMaps /\ key' = [key EXCEPT ![e] = k]
      /\ maps' = maps /\ borrow' = borrow /\ weaks' = weaks \cup {e} /\ strongs' = strongs
      /\ ref' \in [Boxes -> Int]
      /\ \A b \in Boxes : ref'[b] = ref[b] + CountIn(b, value \cup {e}) - CountIn(b, old)
  <2>1. e \notin Allocated /\ e # o /\ e \in Boxes /\ contents[e] = {}
    BY GcAssumption, <1>1, <1>3 DEF Insert, MakeEphemeron, HeapInv, HeapShape, Boxes
  <2>2. contents' = [contents EXCEPT ![e] = value, ![o] = (contents[o] \ old) \cup {e}]
    BY <1>1, <1>3, <2>1 DEF Insert, HeapInv, HeapShape
  <2>3. /\ ref' \in [Boxes -> Int]
        /\ \A b \in Boxes : ref'[b] = ref[b] + CountIn(b, value \cup {e}) - CountIn(b, old)
    <3>1. ref' = Minus(Plus(ref, value \cup {e}), old)
      BY DEF Insert
    <3> DEFINE up == Plus(ref, value \cup {e})
    <3>2. \A b \in Boxes : up[b] = ref[b] + CountIn(b, value \cup {e})
      BY DEF Plus
    <3> HIDE DEF old, up
    <3>3. ref' = [b \in Boxes |-> up[b] - CountIn(b, old)]
      BY <3>1 DEF Minus, up
    <3>4. \A b \in Boxes : ref'[b] = up[b] - CountIn(b, old)
      BY <3>3
    <3>5. ref' \in [Boxes -> Int]
      BY <1>1, <3>2, <3>3, CountType DEF RefInv
    <3>6. \A b \in Boxes : ref'[b] = ref[b] + CountIn(b, value \cup {e}) - CountIn(b, old)
      <4>1. ASSUME NEW b \in Boxes
            PROVE  ref'[b] = ref[b] + CountIn(b, value \cup {e}) - CountIn(b, old)
        <5>1. up[b] = ref[b] + CountIn(b, value \cup {e}) /\ ref'[b] = up[b] - CountIn(b, old)
          BY <3>2, <3>4
        <5>2. ref[b] \in Int /\ CountIn(b, value \cup {e}) \in Int /\ CountIn(b, old) \in Int
          BY <1>1, CountType DEF RefInv
        <5>3. QED
          BY <5>1, <5>2
      <4>2. QED
        BY <4>1
    <3>7. QED
      BY <3>5, <3>6
  <2>4. QED
    BY <1>1, <2>1, <2>2, <2>3 DEF Insert, MakeEphemeron, Allocated, HeapInv, NoDangling
<1> HIDE DEF old
<1>5. /\ contents'[e] = value /\ contents'[o] = (contents[o] \ old) \cup {e}
      /\ \A d \in Boxes \ {e, o} : contents'[d] = contents[d]
  BY <1>1, <1>3, <1>4 DEF HeapInv, HeapShape
<1>6. HeapInv'
  <2>1. HeapShape'
    BY <1>1, <1>2, <1>3, <1>4 DEF HeapInv, HeapShape
  <2>2. Finite'
    BY <1>1, <1>4, FS_AddElement DEF HeapInv, Finite
  <2>3. NoDangling'
    <3>1. \A c \in Allocated' : contents'[c] \subseteq Allocated'
      <4>1. Allocated \subseteq Boxes
        BY GcAssumption, <1>1 DEF HeapInv, HeapShape, Allocated, Boxes
      <4>2. QED
        BY <1>1, <1>2, <1>3, <1>4, <1>5, <4>1 DEF HeapInv, NoDangling
    <3>2. \A x \in weaks' : key'[x] \in Allocated' \cup {None}
      BY <1>1, <1>2, <1>4 DEF HeapInv, HeapShape, NoDangling
    <3>3. QED
      BY <1>1, <1>4, <3>1, <3>2 DEF HeapInv, NoDangling
  <2>4. BorrowersHold'
    BY <1>1, <1>4 DEF HeapInv, BorrowersHold
  <2>5. NoKeyNoValue'
    BY GcAssumption, <1>1, <1>4, <1>5 DEF HeapInv, HeapShape, NoKeyNoValue, Boxes
  <2>6. QED
    BY <2>1, <2>2, <2>3, <2>4, <2>5 DEF HeapInv
<1>7. RefInv'
  <2>1. ASSUME NEW b \in Boxes
        PROVE  ref'[b] = Handles(Allocated', contents', b, held', weakMaps')
    <3>1. OneChanges(Allocated, contents, middle, b, e)
      <4>1. \A d \in Allocated \ {e} : middle[d] = contents[d]
        BY <1>1, <1>4 DEF HeapInv, HeapShape
      <4>2. QED
        BY <1>1, <1>4, <4>1 DEF OneChanges
    <3>2. middle[e] = value /\ middle[o] = contents[o]
      BY <1>1, <1>3, <1>4 DEF HeapInv, HeapShape
    <3>3. \A d \in Allocated' \ {o} : contents'[d] = middle[d]
      BY GcAssumption, <1>1, <1>3, <1>4 DEF HeapInv, HeapShape, Allocated, Boxes
    <3> HIDE DEF middle
    <3>4. Handles(Allocated \cup {e}, middle, b, held, weakMaps) =
            Handles(Allocated, contents, b, held, weakMaps)
              + (CountIn(b, middle[e]) - CountIn(b, contents[e]))
              + (CountIn(b, held) - CountIn(b, held))
              + (CountIn(b, weakMaps) - CountIn(b, weakMaps))
      BY <3>1, HandlesChange
    <3>fin. IsFiniteSet(Allocated \cup {e})
      BY <3>1, ChangeFinite
    <3>5. OneChanges(Allocated \cup {e}, middle, contents', b, o)
      BY <1>3, <1>4, <3>3, <3>fin DEF OneChanges
    <3>6. Handles((Allocated \cup {e}) \cup {o}, contents', b, held', weakMaps') =
            Handles(Allocated \cup {e}, middle, b, held, weakMaps)
              + (CountIn(b, contents'[o]) - CountIn(b, middle[o]))
              + (CountIn(b, held') - CountIn(b, held))
              + (CountIn(b, weakMaps') - CountIn(b, weakMaps))
      BY <3>5, HandlesChange
    <3>7. /\ ref[b] = Handles(Allocated, contents, b, held, weakMaps)
          /\ Handles(Allocated', contents', b, held', weakMaps')
               = Handles((Allocated \cup {e}) \cup {o}, contents', b, held', weakMaps')
      <4>1. Allocated' = (Allocated \cup {e}) \cup {o}
        BY <1>3, <1>4
      <4>2. QED
        BY <1>1, <4>1 DEF RefInv
    <3>8. ref'[b] = ref[b] + CountIn(b, value \cup {e}) - CountIn(b, old)
      BY <1>4
    <3>9. /\ held' = held /\ weakMaps' = weakMaps /\ e \notin value
          /\ e \notin contents[o] /\ contents[e] = {} /\ old \subseteq contents[o]
          /\ contents'[o] = (contents[o] \ old) \cup {e}
      BY <1>2, <1>3, <1>4, <1>5
    <3>nat. Handles(Allocated, contents, b, held, weakMaps) \in Nat
      BY <1>1, HandlesNat
    <3>10. QED
      BY <3>nat, <3>2, <3>4, <3>6, <3>7, <3>8, <3>9 DEF CountIn
  <2>2. ref' \in [Boxes -> Int]
    BY <1>1, <1>4, CountType DEF RefInv
  <2>3. QED
    BY <2>1, <2>2 DEF RefInv
<1>8. WeakMapsInv'
  BY <1>1, <1>4 DEF WeakMapsInv, HeapInv, HeapShape
<1>9. QED
  BY <1>6, <1>7, <1>8

\* A handle is dropped from a field or with its entry.
LEMMA TakeOK ==
  ASSUME Base, Running, NEW o \in Objects, NEW b0 \in Boxes, Take(o, b0)
  PROVE  HeapInv' /\ RefInv' /\ WeakMapsInv'
<1>1. HeapInv /\ RefInv /\ WeakMapsInv /\ IsFiniteSet(Allocated)
  BY RunningFacts
<1>2. /\ o \in Allocated /\ o \in Boxes /\ b0 \in contents[o]
      /\ Allocated' = Allocated
      /\ contents' = [contents EXCEPT ![o] = @ \ {b0}]
      /\ held' = held /\ weakMaps' = weakMaps /\ key' = key
      /\ maps' = maps /\ borrow' = borrow /\ weaks' = weaks /\ strongs' = strongs
      /\ ref' = [b \in Boxes |-> ref[b] - CountIn(b, {b0})]
  BY GcAssumption, <1>1 DEF Take, Minus, Allocated, Boxes, HeapInv, NoDangling
<1>3. /\ contents'[o] = contents[o] \ {b0}
      /\ \A d \in Boxes \ {o} : contents'[d] = contents[d]
      /\ contents' \in [Boxes -> SUBSET Boxes]
  BY <1>1, <1>2 DEF HeapInv, HeapShape
<1>4. Allocated \subseteq Boxes
  BY GcAssumption, <1>1 DEF HeapInv, HeapShape, Allocated, Boxes
<1>5. HeapInv'
  <2>1. HeapShape'
    BY <1>1, <1>2, <1>3, <1>4 DEF HeapInv, HeapShape
  <2>2. Finite' /\ NoDangling' /\ BorrowersHold'
    BY <1>1, <1>2, <1>3, <1>4 DEF HeapInv, Finite, NoDangling, BorrowersHold
  <2>3. NoKeyNoValue'
    BY GcAssumption, <1>1, <1>2, <1>3 DEF HeapInv, NoKeyNoValue, Boxes
  <2>4. QED
    BY <2>1, <2>2, <2>3 DEF HeapInv
<1>6. RefInv'
  <2>1. ASSUME NEW b \in Boxes
        PROVE  ref'[b] = Handles(Allocated', contents', b, held', weakMaps')
    <3>1. OneChanges(Allocated, contents, contents', b, o)
      BY <1>1, <1>2, <1>3, <1>4 DEF OneChanges
    <3>2. Handles(Allocated \cup {o}, contents', b, held', weakMaps') =
            Handles(Allocated, contents, b, held, weakMaps)
              + (CountIn(b, contents'[o]) - CountIn(b, contents[o]))
              + (CountIn(b, held') - CountIn(b, held))
              + (CountIn(b, weakMaps') - CountIn(b, weakMaps))
      BY <3>1, HandlesChange
    <3>3. ref[b] = Handles(Allocated, contents, b, held, weakMaps)
      BY <1>1 DEF RefInv
    <3>4. Handles(Allocated \cup {o}, contents', b, held', weakMaps')
            = Handles(Allocated', contents', b, held', weakMaps')
      <4>1. Allocated \cup {o} = Allocated'
        BY <1>2
      <4>2. QED
        BY <4>1
    <3>nat. Handles(Allocated, contents, b, held, weakMaps) \in Nat
      BY <1>1, HandlesNat
    <3>5. QED
      BY <3>nat, <1>2, <1>3, <3>2, <3>3, <3>4 DEF CountIn
  <2>2. ref' \in [Boxes -> Int]
    BY <1>1, <1>2, CountType DEF RefInv
  <2>3. QED
    BY <2>1, <2>2 DEF RefInv
<1>7. WeakMapsInv'
  BY <1>1, <1>2 DEF WeakMapsInv
<1>8. QED
  BY <1>5, <1>6, <1>7

\* A clone of a handle is put into a field.
LEMMA StoreOK ==
  ASSUME Base, Running, NEW o \in Objects, NEW b0 \in Boxes, Store(o, b0)
  PROVE  HeapInv' /\ RefInv' /\ WeakMapsInv'
<1>1. HeapInv /\ RefInv /\ WeakMapsInv /\ IsFiniteSet(Allocated)
  BY RunningFacts
<1>2. /\ o \in Allocated /\ o \in Boxes /\ b0 \notin contents[o] /\ b0 \in Allocated
      /\ Allocated' = Allocated
      /\ contents' = [contents EXCEPT ![o] = @ \cup {b0}]
      /\ held' = held /\ weakMaps' = weakMaps /\ key' = key
      /\ maps' = maps /\ borrow' = borrow /\ weaks' = weaks /\ strongs' = strongs
      /\ ref' = [b \in Boxes |-> ref[b] + CountIn(b, {b0})]
  BY GcAssumption, <1>1 DEF Store, Plus, Allocated, Boxes, HeapInv, NoDangling
<1>3. /\ contents'[o] = contents[o] \cup {b0}
      /\ \A d \in Boxes \ {o} : contents'[d] = contents[d]
      /\ contents' \in [Boxes -> SUBSET Boxes]
  BY <1>1, <1>2 DEF HeapInv, HeapShape
<1>4. Allocated \subseteq Boxes
  BY GcAssumption, <1>1 DEF HeapInv, HeapShape, Allocated, Boxes
<1>5. HeapInv'
  <2>1. HeapShape'
    BY <1>1, <1>2, <1>3, <1>4 DEF HeapInv, HeapShape
  <2>2. Finite' /\ NoDangling' /\ BorrowersHold'
    BY <1>1, <1>2, <1>3, <1>4 DEF HeapInv, Finite, NoDangling, BorrowersHold
  <2>3. NoKeyNoValue'
    BY GcAssumption, <1>1, <1>2, <1>3 DEF HeapInv, NoKeyNoValue, Boxes
  <2>4. QED
    BY <2>1, <2>2, <2>3 DEF HeapInv
<1>6. RefInv'
  <2>1. ASSUME NEW b \in Boxes
        PROVE  ref'[b] = Handles(Allocated', contents', b, held', weakMaps')
    <3>1. OneChanges(Allocated, contents, contents', b, o)
      BY <1>1, <1>2, <1>3, <1>4 DEF OneChanges
    <3>2. Handles(Allocated \cup {o}, contents', b, held', weakMaps') =
            Handles(Allocated, contents, b, held, weakMaps)
              + (CountIn(b, contents'[o]) - CountIn(b, contents[o]))
              + (CountIn(b, held') - CountIn(b, held))
              + (CountIn(b, weakMaps') - CountIn(b, weakMaps))
      BY <3>1, HandlesChange
    <3>3. ref[b] = Handles(Allocated, contents, b, held, weakMaps)
      BY <1>1 DEF RefInv
    <3>4. Handles(Allocated \cup {o}, contents', b, held', weakMaps')
            = Handles(Allocated', contents', b, held', weakMaps')
      <4>1. Allocated \cup {o} = Allocated'
        BY <1>2
      <4>2. QED
        BY <4>1
    <3>nat. Handles(Allocated, contents, b, held, weakMaps) \in Nat
      BY <1>1, HandlesNat
    <3>5. QED
      BY <3>nat, <1>2, <1>3, <3>2, <3>3, <3>4 DEF CountIn
  <2>2. ref' \in [Boxes -> Int]
    BY <1>1, <1>2, CountType DEF RefInv
  <2>3. QED
    BY <2>1, <2>2 DEF RefInv
<1>7. WeakMapsInv'
  BY <1>1, <1>2 DEF WeakMapsInv
<1>8. QED
  BY <1>5, <1>6, <1>7

\* A handle is cloned from a field or upgraded from a key.
LEMMA LoadOK ==
  ASSUME Base, Running, NEW c \in Boxes, NEW b0 \in Boxes, Load(c, b0)
  PROVE  HeapInv' /\ RefInv' /\ WeakMapsInv'
<1>1. HeapInv /\ RefInv /\ WeakMapsInv /\ IsFiniteSet(Allocated)
  BY RunningFacts
<1>2. b0 \in Allocated /\ b0 \notin held
  BY GcAssumption, <1>1 DEF Load, HeapInv, HeapShape, NoDangling, Allocated, Boxes
<1>3. /\ UNCHANGED <<heap, borrow, Allocated>>
      /\ held' = held \cup {b0}
      /\ ref' = [b \in Boxes |-> ref[b] + CountIn(b, {b0})]
  BY DEF Load, Plus, Allocated, heap
<1>4. HeapInv'
  BY <1>1, <1>2, <1>3 DEF HeapInv, HeapShape, Finite, NoDangling, BorrowersHold, NoKeyNoValue, heap
<1>5. RefInv'
  <2>1. ASSUME NEW b \in Boxes
        PROVE  ref'[b] = Handles(Allocated', contents', b, held', weakMaps')
    <3>1. CountIn(b, held') = CountIn(b, held) + CountIn(b, {b0})
      BY <1>2, <1>3, CountUnion
    <3>2. QED
      BY <1>1, <1>3, <3>1, HandlesNat, CountType DEF RefInv, Handles, heap
  <2>2. ref' \in [Boxes -> Int]
    BY <1>1, <1>3, CountType DEF RefInv
  <2>3. QED
    BY <2>1, <2>2 DEF RefInv
<1>6. WeakMapsInv'
  BY <1>1, <1>3 DEF WeakMapsInv, heap
<1>7. QED
  BY <1>4, <1>5, <1>6

\* Drop of a handle on the stack; the box stays until the next collection.
LEMMA DropOK ==
  ASSUME Base, Running, NEW b0 \in Boxes, Drop(b0)
  PROVE  HeapInv' /\ RefInv' /\ WeakMapsInv'
<1>1. HeapInv /\ RefInv /\ WeakMapsInv /\ IsFiniteSet(Allocated)
  BY RunningFacts
<1>2. /\ UNCHANGED <<heap, borrow, Allocated>>
      /\ b0 \in held /\ held' = held \ {b0}
      /\ b0 \in Objects => borrow[b0] = "unused"
      /\ ref' = [b \in Boxes |-> ref[b] - CountIn(b, {b0})]
  BY DEF Drop, Minus, Allocated, heap
<1>3. HeapInv'
  BY <1>1, <1>2 DEF HeapInv, HeapShape, Finite, NoDangling, BorrowersHold, NoKeyNoValue, heap
<1>4. RefInv'
  <2>1. ASSUME NEW b \in Boxes
        PROVE  ref'[b] = Handles(Allocated', contents', b, held', weakMaps')
    <3>1. CountIn(b, held') = CountIn(b, held) - CountIn(b, {b0})
      BY <1>2, CountWithout
    <3>2. QED
      BY <1>1, <1>2, <3>1, HandlesNat, CountType DEF RefInv, Handles, heap
  <2>2. ref' \in [Boxes -> Int]
    BY <1>1, <1>2, CountType DEF RefInv
  <2>3. QED
    BY <2>1, <2>2 DEF RefInv
<1>5. WeakMapsInv'
  BY <1>1, <1>2 DEF WeakMapsInv, heap
<1>6. QED
  BY <1>3, <1>4, <1>5

\* A borrow changes no handle.
LEMMA SetBorrowOK ==
  ASSUME Base, Running, NEW o \in Objects, NEW flag \in {"unused", "reading", "writing"},
         SetBorrow(o, flag)
  PROVE  HeapInv' /\ RefInv' /\ WeakMapsInv'
<1>1. HeapInv /\ RefInv /\ WeakMapsInv
  BY RunningFacts
<1>2. /\ UNCHANGED <<heap, held, ref, Allocated>>
      /\ o \in held /\ borrow' = [borrow EXCEPT ![o] = flag]
  BY DEF SetBorrow, Allocated, heap
<1>3. HeapInv'
  BY <1>1, <1>2 DEF HeapInv, HeapShape, Finite, NoDangling, BorrowersHold, NoKeyNoValue, heap
<1>4. RefInv' /\ WeakMapsInv'
  BY <1>1, <1>2 DEF RefInv, Handles, Holders, WeakMapsInv, heap
<1>5. QED
  BY <1>3, <1>4

\* No step of the program between collections breaks Base.
LEMMA MutatorStep ==
  ASSUME Base, Mutator
  PROVE  Base' /\ Running'
<1>1. Running /\ UNCHANGED collector
  BY DEF Mutator, New, NewEphemeron, NewWeakMap, Insert, Take, Store, Load, Drop, SetBorrow
<1>2. HeapInv' /\ RefInv' /\ WeakMapsInv'
  BY <1>1, NewOK, NewEphemeronOK, NewWeakMapOK, InsertOK, TakeOK, StoreOK, LoadOK, DropOK,
     SetBorrowOK DEF Mutator
<1>3. QED
  BY <1>1, <1>2, RunningBase

------------------------------------------------------------------------------
(* The invariant of the marking. *)

\* While the first mark_heap runs, is_rooted() names exactly the boxes with a
\* handle outside of what was traced.
RootsInv == FirstMarking => \A b \in Allocated :
  Rooted(b) <=> b \in Roots \/ Containers(b) # TracedContainers(b)

\* Such an ephemeron has been traced to the end.
Active(e) == e \in marked /\ (key[e] = None \/ key[e] \in marked)

\* A root is marked, queued, or still ahead in the loop over the strong or
\* the weak boxes.
RootedAreMarked ==
  /\ \A o \in strongs : Rooted(o) => o \in marked \cup gray \/ (pc = "strong" /\ o \in work)
  /\ \A e \in weaks : Rooted(e) => e \in marked \/ pc = "strong" \/ (pc = "weak" /\ e \in work)

\* What a marked object refers to is marked, queued or a root (a cell that is
\* being written is not traced, so its fields are roots); and an ephemeron is
\* traced, ahead in this pass, or pending.
MarksAreTraced ==
  /\ \A o \in marked \cap Objects : \A b \in contents[o] : b \in marked \cup gray \/ Rooted(b)
  /\ pc # "strong" =>
       \A e \in weaks : e \in work \cup pending \/ (Active(e) /\ contents[e] \subseteq marked \cup gray)

\* The strong boxes the collector is done with are marked, queued or listed as
\* dead; at the end the list holds no marked box.
DeadIsUnmarked ==
  /\ \A o \in strongs : o \in marked \cup gray \cup dead \/ (pc = "strong" /\ o \in work)
  /\ pc = "marked" => dead \cap marked = {}

\* The passes over the pending ephemerons: if this one has removed none so
\* far, it marked nothing either, and those tried again are still not active.
\* This is why the loop may stop.
PassInv ==
  /\ pc = "retry" =>
       /\ work \cap pending = {}
       /\ Cardinality(work \cup pending) <= previousLen
       /\ Cardinality(work \cup pending) = previousLen =>
            gray = {} /\ \A e \in pending : ~Active(e)
  /\ pc = "marked" => \A e \in pending : ~Active(e)

\* The state of the first marking,
FirstInv == RootedAreMarked /\ MarksAreTraced /\ DeadIsUnmarked /\ PassInv

\* and of the second: what the first one marked is closed, and everything
\* else has given up its handles, so the second marking marks nothing new.
SecondInv ==
  /\ Roots \subseteq marked
  /\ gray \subseteq marked
  /\ \A c \in marked : contents[c] \subseteq marked
  /\ \A e \in weaks : key[e] \in marked \cup {None}
  /\ \A b \in Allocated \ marked : ref[b] = 0

\* Only what the program can reach is marked.
ReachInv == Marking => marked \cup gray \subseteq Reachable

\* The inductive invariant.
IInv ==
  /\ Base /\ RootsInv /\ ReachInv
  /\ FirstMarking => FirstInv
  /\ SecondMarking => SecondInv

------------------------------------------------------------------------------
(* What is reachable. *)

\* Reachable is closed: it holds the roots,
LEMMA ReachRoots ==
  ASSUME HeapInv
  PROVE  Roots \subseteq Reachable
BY DEF HeapInv, NoDangling, Roots, Reachable, Closed

\* what the objects in it refer to,
LEMMA ReachObject ==
  ASSUME HeapInv, NEW o \in Reachable, o \in Objects
  PROVE  contents[o] \subseteq Reachable
BY DEF HeapInv, NoDangling, Reachable, Closed

\* and the values of its ephemerons whose keys are in it;
LEMMA ReachEphemeron ==
  ASSUME HeapInv, NEW e \in Reachable, e \in Ephs, key[e] \in Reachable
  PROVE  contents[e] \subseteq Reachable
BY DEF HeapInv, NoDangling, Reachable, Closed

\* and it is the least set that does.
LEMMA ReachLeast ==
  ASSUME NEW s \in SUBSET Allocated, Closed(s)
  PROVE  Reachable \subseteq s
BY DEF Reachable

\* What is_rooted() names is reachable: the fields of a cell that is being
\* written too, since the borrow was made through a handle.
LEMMA ReachRooted ==
  ASSUME HeapInv, RootsInv, FirstMarking, NEW b \in Allocated, Rooted(b)
  PROVE  b \in Reachable
<1>1. CASE b \in Roots
  BY <1>1, ReachRoots
<1>2. CASE b \notin Roots
  <2>1. PICK c \in Allocated : b \in contents[c] /\ b \notin Traced(c)
    BY <1>2 DEF RootsInv, Containers, TracedContainers, Traced
  <2>2. c \in Objects /\ c \in held
    BY <2>1 DEF Traced, HeapInv, BorrowersHold
  <2>3. c \in Reachable
    BY <2>2, ReachRoots DEF Roots
  <2>4. QED
    BY <2>1, <2>2, <2>3, ReachObject
<1>3. QED
  BY <1>1, <1>2

\* What a cell that is being written refers to is a root.
LEMMA UntracedIsRooted ==
  ASSUME RootsInv, FirstMarking, NEW b \in Allocated, NEW c \in Allocated,
         b \in contents[c], b \notin Traced(c)
  PROVE  Rooted(b)
BY DEF RootsInv, Containers, TracedContainers

------------------------------------------------------------------------------
(* The marking, one lemma for each of its steps. *)

\* The parts of Base the collector's steps use.
LEMMA BaseFacts ==
  ASSUME Base
  PROVE  /\ HeapInv /\ Quiet
         /\ marked \cup work \subseteq Allocated
         /\ gray \cup dead \subseteq strongs /\ pending \subseteq weaks
         /\ nonRoot \in [Boxes -> Nat] /\ ref \in [Boxes -> Nat] /\ previousLen \in Nat
         /\ Allocated \subseteq Boxes
BY DEF Base, HeapInv, HeapShape, TypeOK, Allocated, Boxes

\* A step of the marking keeps Base,
LEMMA MarkingBase ==
  ASSUME Base, Marking, Marking', InCollection, Quiet',
         marked' \cup work' \subseteq Allocated,
         gray' \cup dead' \subseteq strongs, pending' \subseteq weaks,
         previousLen' \in Nat, SecondMarking => marked' = marked
  PROVE  /\ Base'
         /\ FirstMarking' = FirstMarking /\ SecondMarking' = SecondMarking
<1>1. /\ UNCHANGED <<strongs, weaks, weakMaps, maps, contents, key, held, borrow, ref, nonRoot, finalized>>
      /\ Allocated' = Allocated
  BY DEF InCollection, heap, Allocated
<1>2. FirstMarking' = FirstMarking /\ SecondMarking' = SecondMarking
  BY <1>1 DEF FirstMarking, SecondMarking
<1>3. TypeOK'
  <2>1. pc' \in {"mutator", "strong", "weak", "retry", "marked", "clear"}
    BY DEF Marking
  <2>2. QED
    BY <1>1, <2>1 DEF Base, TypeOK
<1>4. (Finite /\ NoDangling /\ BorrowersHold /\ NoKeyNoValue)'
  BY <1>1 DEF Base, Finite, NoDangling, BorrowersHold, NoKeyNoValue
<1>5. CountInv'
  <2>1. ASSUME NEW b PROVE LiveContainers(b)' = LiveContainers(b)
    BY <1>1, <1>2 DEF LiveContainers, Containers
  <2>2. QED
    BY <1>1, <2>1 DEF Base, CountInv
<1>6. MapsInv'
  <2>1. ~Running /\ ~Running'
    BY DEF Marking, Running
  <2>2. QED
    BY <1>1, <1>2, <2>1 DEF Base, MapsInv
<1>7. QED
  BY <1>2, <1>3, <1>4, <1>5, <1>6 DEF Base

\* and changes neither the roots nor what is reachable.
LEMMA MarkingFrame ==
  ASSUME RootsInv, Marking, Marking', InCollection
  PROVE  /\ RootsInv' /\ Reachable' = Reachable
         /\ \A b : Rooted(b)' = Rooted(b)
<1>1. /\ UNCHANGED <<strongs, weaks, weakMaps, maps, contents, key, held, borrow, ref, nonRoot, finalized>>
      /\ Allocated' = Allocated
  BY DEF InCollection, heap, Allocated
<1>2. \A b : Rooted(b)' = Rooted(b)
  BY <1>1 DEF Rooted
<1>3. Reachable' = Reachable
  BY <1>1 DEF Reachable, Closed, Roots
<1>4. RootsInv'
  <2>1. \A b : Containers(b)' = Containers(b) /\ TracedContainers(b)' = TracedContainers(b)
    BY <1>1 DEF Containers, TracedContainers, Traced
  <2>2. FirstMarking' = FirstMarking /\ Roots' = Roots
    BY <1>1 DEF FirstMarking, Roots
  <2>3. QED
    BY <1>1, <1>2, <2>1, <2>2 DEF RootsInv
<1>5. QED
  BY <1>2, <1>3, <1>4

\* Tracer::trace_until_empty, for one node.
LEMMA TraceNextOK ==
  ASSUME IInv, NEW n \in Objects, TraceNext(n)
  PROVE  IInv'
<1>1. /\ HeapInv /\ Quiet /\ Base /\ RootsInv /\ ReachInv
      /\ marked \cup work \subseteq Allocated
      /\ gray \cup dead \subseteq strongs /\ pending \subseteq weaks
      /\ previousLen \in Nat /\ Allocated \subseteq Boxes
  BY BaseFacts DEF IInv
<1>2. /\ n \in gray /\ InCollection
      /\ pc' = pc /\ work' = work /\ dead' = dead /\ pending' = pending
      /\ previousLen' = previousLen
  BY DEF TraceNext
<1>3. Marking /\ Marking' /\ pc \in {"strong", "weak", "retry"} /\ n \in Allocated
  BY <1>1, <1>2 DEF Quiet, Marking, Allocated
<1>4. UNCHANGED <<strongs, weaks, contents, key, finalized, borrow>> /\ Allocated' = Allocated
  BY <1>2 DEF InCollection, heap, Allocated
<1>5. /\ RootsInv' /\ Reachable' = Reachable
      /\ \A b : Rooted(b)' = Rooted(b)
  BY <1>1, <1>2, <1>3, MarkingFrame
<1>6. /\ Traced(n) \subseteq contents[n] /\ contents[n] \subseteq Allocated
      /\ Allocated \cap Objects \subseteq strongs
  BY GcAssumption, <1>1, <1>3 DEF Traced, HeapInv, HeapShape, NoDangling, Allocated
<1>7. marked' \subseteq Allocated /\ gray' \subseteq strongs
  BY <1>1, <1>3, <1>6 DEF TraceNext
<1>8. Quiet'
  BY <1>1, <1>2, <1>3, <1>4 DEF Quiet, Marking, Running
<1>9. SecondMarking => marked' = marked /\ gray' \subseteq gray
  BY <1>2 DEF TraceNext, IInv, SecondInv
<1>10. Base' /\ FirstMarking' = FirstMarking /\ SecondMarking' = SecondMarking
  BY <1>1, <1>2, <1>3, <1>7, <1>8, <1>9, MarkingBase
<1>11. ReachInv'
  <2>1. contents[n] \subseteq Reachable
    BY <1>1, <1>2, <1>3, ReachObject DEF ReachInv
  <2>2. QED
    BY <1>1, <1>3, <1>5, <1>6, <2>1 DEF ReachInv, TraceNext
<1>12. ASSUME FirstMarking PROVE FirstInv'
  <2>1. FirstInv
    BY <1>12 DEF IInv
  <2>2. marked \subseteq marked' /\ marked \cup gray \subseteq marked' \cup gray'
    BY DEF TraceNext
  <2>3. RootedAreMarked'
    BY <1>2, <1>4, <1>5, <2>1, <2>2 DEF FirstInv, RootedAreMarked
  <2>4. MarksAreTraced'
    <3>1. ASSUME NEW o \in marked' \cap Objects, NEW b \in contents[o]
          PROVE  b \in marked' \cup gray' \/ Rooted(b)
      <4>1. CASE o \in marked
        BY <2>1, <2>2, <4>1 DEF FirstInv, MarksAreTraced
      <4>2. CASE o \notin marked
        <5>1. o = n /\ n \notin marked
          BY GcAssumption, <1>2, <4>2 DEF TraceNext
        <5>2. CASE b \in Traced(n)
          BY <1>1, <1>6, <5>1, <5>2 DEF TraceNext, Boxes
        <5>3. CASE b \notin Traced(n)
          BY <1>1, <1>3, <1>6, <1>12, <5>1, <5>3, UntracedIsRooted
        <5>4. QED
          BY <5>2, <5>3
      <4>3. QED
        BY <4>1, <4>2
    <3>2. \A e \in weaks : Active(e) => Active(e)'
      BY <1>4, <2>2 DEF Active
    <3>3. ASSUME pc # "strong", NEW e \in weaks
          PROVE  e \in work \cup pending \/ (Active(e)' /\ contents[e] \subseteq marked' \cup gray')
      BY <2>1, <2>2, <3>2, <3>3 DEF FirstInv, MarksAreTraced
    <3>4. QED
      BY <1>2, <1>4, <1>5, <3>1, <3>3 DEF MarksAreTraced
  <2>5. DeadIsUnmarked'
    BY <1>2, <1>3, <1>4, <2>1, <2>2 DEF FirstInv, DeadIsUnmarked
  <2>6. PassInv'
    BY <1>2, <1>3, <2>1 DEF FirstInv, PassInv
  <2>7. QED
    BY <2>3, <2>4, <2>5, <2>6 DEF FirstInv
<1>13. ASSUME SecondMarking PROVE SecondInv'
  <2>1. SecondInv
    BY <1>13 DEF IInv
  <2>2. UNCHANGED <<held, weakMaps, ref>>
    BY <1>2 DEF InCollection, heap
  <2>3. QED
    BY <1>4, <1>9, <1>13, <2>1, <2>2 DEF SecondInv, Roots
<1>14. QED
  BY <1>5, <1>10, <1>11, <1>12, <1>13 DEF IInv

\* In the second marking only marked boxes have handles left.
LEMMA SecondRooted ==
  ASSUME Base, SecondInv, NEW b \in Allocated, Rooted(b)
  PROVE  b \in marked
<1>1. nonRoot[b] \in Nat
  BY BaseFacts
<1>2. QED
  BY <1>1 DEF SecondInv, Rooted

\* A step of the second marking that marks nothing new keeps its invariant.
LEMMA SecondSame ==
  ASSUME SecondInv, InCollection, marked' = marked, gray' \subseteq marked
  PROVE  SecondInv'
<1>1. UNCHANGED <<strongs, weaks, contents, key, held, weakMaps, ref>> /\ Allocated' = Allocated
  BY DEF InCollection, heap, Allocated
<1>2. QED
  BY <1>1 DEF SecondInv, Roots

\* mark_heap, step 0.
LEMMA MarkStrongOK ==
  ASSUME IInv, NEW o \in Objects, MarkStrong(o)
  PROVE  IInv'
<1>1. /\ HeapInv /\ Quiet /\ Base /\ RootsInv /\ ReachInv
      /\ marked \cup work \subseteq Allocated
      /\ gray \cup dead \subseteq strongs /\ pending \subseteq weaks
      /\ previousLen \in Nat
  BY BaseFacts DEF IInv
<1>2. /\ pc = "strong" /\ gray = {} /\ o \in work /\ work' = work \ {o} /\ InCollection
      /\ pc' = pc /\ marked' = marked /\ pending' = pending /\ previousLen' = previousLen
  BY DEF MarkStrong
<1>3. Marking /\ Marking'
  BY <1>2 DEF Marking
<1>4. UNCHANGED <<strongs, weaks, contents, key, finalized>> /\ Allocated' = Allocated
  BY <1>2 DEF InCollection, heap, Allocated
<1>5. /\ RootsInv' /\ Reachable' = Reachable
      /\ \A b : Rooted(b)' = Rooted(b)
  BY <1>1, <1>2, <1>3, MarkingFrame
<1>6. o \in strongs /\ o \in Allocated
  BY <1>1, <1>2 DEF Quiet, Allocated
<1>7. gray' \cup dead' \subseteq strongs
  BY <1>1, <1>2, <1>6 DEF MarkStrong
<1>8. Quiet'
  BY <1>1, <1>2, <1>3, <1>4 DEF Quiet, Marking, Running
<1>9. Base' /\ FirstMarking' = FirstMarking /\ SecondMarking' = SecondMarking
  BY <1>1, <1>2, <1>3, <1>7, <1>8, MarkingBase
<1>10. SecondMarking => gray' \subseteq marked
  BY <1>1, <1>2, <1>6, SecondRooted DEF IInv, MarkStrong
<1>11. ReachInv'
  <2>1. ASSUME Rooted(o) PROVE o \in Reachable
    <3>1. CASE FirstMarking
      BY <1>1, <1>6, <2>1, <3>1, ReachRooted
    <3>2. CASE SecondMarking
      BY <1>1, <1>3, <1>6, <2>1, <3>2, SecondRooted DEF IInv, ReachInv
    <3>3. QED
      BY <1>3, <3>1, <3>2 DEF FirstMarking, SecondMarking
  <2>2. gray' \subseteq Reachable
    BY <1>2, <2>1 DEF MarkStrong
  <2>3. QED
    BY <1>1, <1>2, <1>3, <1>5, <2>2 DEF ReachInv
<1>12. ASSUME FirstMarking PROVE FirstInv'
  <2>1. FirstInv
    BY <1>12 DEF IInv
  <2>2. RootedAreMarked'
    BY <1>2, <1>4, <1>5, <2>1 DEF FirstInv, RootedAreMarked, MarkStrong
  <2>3. MarksAreTraced'
    BY <1>2, <1>4, <1>5, <2>1 DEF FirstInv, MarksAreTraced
  <2>4. DeadIsUnmarked'
    BY <1>2, <1>4, <2>1 DEF FirstInv, DeadIsUnmarked, MarkStrong
  <2>5. PassInv'
    BY <1>2 DEF PassInv
  <2>6. QED
    BY <2>2, <2>3, <2>4, <2>5 DEF FirstInv
<1>13. ASSUME SecondMarking PROVE SecondInv'
  BY <1>2, <1>10, <1>13, SecondSame DEF IInv
<1>14. QED
  BY <1>5, <1>9, <1>11, <1>12, <1>13 DEF IInv

\* The end of step 0.
LEMMA EndStrongOK ==
  ASSUME IInv, EndStrong
  PROVE  IInv'
<1>1. /\ HeapInv /\ Quiet /\ Base /\ RootsInv /\ ReachInv
      /\ marked \cup work \subseteq Allocated
      /\ gray \cup dead \subseteq strongs /\ pending \subseteq weaks
      /\ previousLen \in Nat
  BY BaseFacts DEF IInv
<1>2. /\ pc = "strong" /\ gray = {} /\ work = {} /\ InCollection
      /\ \/ weaks = {} /\ pc' = "marked" /\ dead' = dead \ marked /\ work' = {}
         \/ pc' = "weak" /\ work' = weaks /\ dead' = dead
      /\ marked' = marked /\ gray' = gray /\ pending' = pending /\ previousLen' = previousLen
  BY DEF EndStrong, EndMarking
<1>3. Marking /\ Marking'
  BY <1>2 DEF Marking
<1>4. UNCHANGED <<strongs, weaks, contents, key, finalized>> /\ Allocated' = Allocated
  BY <1>2 DEF InCollection, heap, Allocated
<1>5. /\ RootsInv' /\ Reachable' = Reachable
      /\ \A b : Rooted(b)' = Rooted(b)
  BY <1>1, <1>2, <1>3, MarkingFrame
<1>6. dead' \subseteq strongs /\ work' \subseteq Allocated /\ pending = {}
  BY <1>1, <1>2 DEF Allocated, Quiet
<1>7. Quiet'
  BY <1>2, <1>3, <1>4 DEF Quiet, Running
<1>8. Base' /\ FirstMarking' = FirstMarking /\ SecondMarking' = SecondMarking
  BY <1>1, <1>2, <1>3, <1>6, <1>7, MarkingBase
<1>9. ReachInv'
  BY <1>1, <1>2, <1>3, <1>5 DEF ReachInv
<1>10. ASSUME FirstMarking PROVE FirstInv'
  <2>1. FirstInv
    BY <1>10 DEF IInv
  <2>2. RootedAreMarked'
    BY <1>2, <1>4, <1>5, <2>1 DEF FirstInv, RootedAreMarked
  <2>3. MarksAreTraced'
    BY <1>2, <1>4, <1>5, <2>1 DEF FirstInv, MarksAreTraced
  <2>4. DeadIsUnmarked'
    BY <1>2, <1>4, <2>1 DEF FirstInv, DeadIsUnmarked
  <2>5. PassInv'
    BY <1>2, <1>6 DEF PassInv
  <2>6. QED
    BY <2>2, <2>3, <2>4, <2>5 DEF FirstInv
<1>11. ASSUME SecondMarking PROVE SecondInv'
  BY <1>2, <1>11, SecondSame DEF IInv
<1>12. QED
  BY <1>5, <1>8, <1>9, <1>10, <1>11 DEF IInv

\* The test of ErasedEphemeronBox::trace under the marks m.
Try(e, m) == e \in m /\ (key[e] = None \/ key[e] \in m)

\* An ephemeron that passes the test becomes active, and its value is marked
\* or queued;
LEMMA TraceEphemeronDone ==
  ASSUME HeapInv, Allocated \subseteq Boxes, NEW e \in weaks, NEW m, marked \subseteq m,
         m \subseteq marked \cup {e}, UNCHANGED key, TraceEphemeron(e, m), Try(e, m)
  PROVE  /\ m \subseteq marked' /\ marked' \subseteq m \cup contents[e]
         /\ marked' \cap Objects = marked \cap Objects
         /\ gray' = contents[e] \cap Objects
         /\ marked' \subseteq Allocated \cup marked /\ gray' \subseteq strongs
         /\ pending' = pending
         /\ Active(e)' /\ contents[e] \subseteq marked' \cup gray'
<1>1. /\ marked' = m \cup (contents[e] \cap Ephs)
      /\ gray' = contents[e] \cap Objects
      /\ pending' = pending
  BY DEF TraceEphemeron, Try
<1>2. /\ contents[e] \subseteq Allocated /\ e \in Ephs /\ Objects \cap Ephs = {}
      /\ e \in Allocated /\ Allocated \subseteq Objects \cup Ephs /\ Allocated \cap Objects \subseteq strongs
  BY GcAssumption DEF HeapInv, HeapShape, NoDangling, Allocated, Boxes
<1>3. marked' \cap Objects = marked \cap Objects
  BY <1>1, <1>2
<1>4. Active(e)'
  BY <1>1 DEF Active, Try
<1>5. QED
  BY <1>1, <1>2, <1>3, <1>4

\* one that does not is pending.
LEMMA TraceEphemeronNot ==
  ASSUME NEW e, NEW m, TraceEphemeron(e, m), ~Try(e, m)
  PROVE  marked' = m /\ gray' = {} /\ pending' = pending \cup {e}
BY DEF TraceEphemeron, Try

\* mark_heap, step 1.
LEMMA MarkWeakOK ==
  ASSUME IInv, NEW e \in Ephs, MarkWeak(e)
  PROVE  IInv'
<1> DEFINE m == IF Rooted(e) THEN marked \cup {e} ELSE marked
<1>1. /\ HeapInv /\ Quiet /\ Base /\ RootsInv /\ ReachInv
      /\ marked \cup work \subseteq Allocated
      /\ gray \cup dead \subseteq strongs /\ pending \subseteq weaks
      /\ previousLen \in Nat /\ Allocated \subseteq Boxes
  BY BaseFacts DEF IInv
<1>2. /\ pc = "weak" /\ gray = {} /\ e \in work /\ work' = work \ {e} /\ InCollection
      /\ TraceEphemeron(e, m)
      /\ pc' = pc /\ dead' = dead /\ previousLen' = previousLen
  BY DEF MarkWeak
<1>3. Marking /\ Marking'
  BY <1>2 DEF Marking
<1>4. UNCHANGED <<strongs, weaks, contents, key, finalized>> /\ Allocated' = Allocated
  BY <1>2 DEF InCollection, heap, Allocated
<1>5. /\ RootsInv' /\ Reachable' = Reachable
      /\ \A b : Rooted(b)' = Rooted(b)
  BY <1>1, <1>2, <1>3, MarkingFrame
<1>6. /\ e \in weaks /\ e \in Allocated
      /\ marked \subseteq m /\ m \subseteq marked \cup {e}
      /\ Rooted(e) => e \in m
      /\ e \in m => e \in marked \/ Rooted(e)
      /\ ~Rooted(e) => m = marked
  BY <1>1, <1>2 DEF Quiet, Allocated
<1> HIDE DEF m
<1>7. CASE Try(e, m)
  <2>1. /\ m \subseteq marked' /\ marked' \subseteq m \cup contents[e]
        /\ marked' \cap Objects = marked \cap Objects
        /\ gray' = contents[e] \cap Objects
        /\ marked' \subseteq Allocated \cup marked /\ gray' \subseteq strongs
        /\ pending' = pending
        /\ Active(e)' /\ contents[e] \subseteq marked' \cup gray'
    BY <1>1, <1>2, <1>4, <1>6, <1>7, TraceEphemeronDone
  <2>2. Quiet'
    BY <1>1, <1>2, <1>3, <1>4 DEF Quiet, Marking, Running
  <2>3. SecondMarking => marked' = marked /\ gray' \subseteq marked
    <3>1. ASSUME SecondMarking PROVE m = marked /\ contents[e] \subseteq marked
      <4>1. SecondInv
        BY <3>1 DEF IInv
      <4>2. m = marked
        BY <1>1, <1>6, <4>1, SecondRooted
      <4>3. QED
        BY <1>7, <4>1, <4>2 DEF Try, SecondInv
    <3>2. QED
      BY <2>1, <3>1
  <2>4. Base' /\ FirstMarking' = FirstMarking /\ SecondMarking' = SecondMarking
    BY <1>1, <1>2, <1>3, <2>1, <2>2, <2>3, MarkingBase
  <2>5. ReachInv'
    <3>1. CASE FirstMarking
      <4>1. e \in Reachable
        BY <1>1, <1>3, <1>6, <1>7, <3>1, ReachRooted DEF Try, ReachInv
      <4>2. contents[e] \subseteq Reachable
        <5>1. CASE key[e] = None
          BY <1>1, <5>1 DEF HeapInv, NoKeyNoValue
        <5>2. CASE key[e] # None
          <6>1. key[e] \in marked
            BY GcAssumption, <1>1, <1>6, <1>7, <5>2 DEF Try, HeapInv, HeapShape
          <6>2. QED
            BY <1>1, <1>3, <4>1, <6>1, ReachEphemeron DEF ReachInv
        <5>3. QED
          BY <5>1, <5>2
      <4>3. QED
        BY <1>1, <1>3, <1>5, <1>6, <2>1, <4>1, <4>2 DEF ReachInv
    <3>2. CASE SecondMarking
      BY <1>1, <1>3, <1>5, <2>3, <3>2 DEF ReachInv
    <3>3. QED
      BY <1>3, <3>1, <3>2 DEF FirstMarking, SecondMarking
  <2>6. ASSUME FirstMarking PROVE FirstInv'
    <3>1. FirstInv
      BY <2>6 DEF IInv
    <3>2. marked \subseteq marked' /\ marked \cup gray \subseteq marked' \cup gray'
      BY <1>2, <1>6, <2>1
    <3>3. RootedAreMarked'
      BY <1>2, <1>4, <1>5, <1>6, <2>1, <3>1, <3>2 DEF FirstInv, RootedAreMarked
    <3>4. MarksAreTraced'
      <4>1. \A o \in marked' \cap Objects : \A b \in contents[o] : b \in marked' \cup gray' \/ Rooted(b)
        BY <2>1, <3>1, <3>2 DEF FirstInv, MarksAreTraced
      <4>2. \A x \in weaks : Active(x) => Active(x)'
        BY <1>4, <3>2 DEF Active
      <4>3. \A x \in weaks :
              x \in work' \cup pending' \/ (Active(x)' /\ contents[x] \subseteq marked' \cup gray')
        <5>1. ASSUME NEW x \in weaks, x # e
              PROVE  x \in work' \cup pending' \/ (Active(x)' /\ contents[x] \subseteq marked' \cup gray')
          <6>1. x \in work \cup pending \/ (Active(x) /\ contents[x] \subseteq marked \cup gray)
            BY <1>2, <3>1 DEF FirstInv, MarksAreTraced
          <6>2. QED
            BY <1>2, <2>1, <3>2, <4>2, <5>1, <6>1
        <5>2. QED
          BY <2>1, <5>1
      <4>4. QED
        BY <1>4, <1>5, <4>1, <4>3 DEF MarksAreTraced
    <3>5. DeadIsUnmarked'
      BY <1>2, <1>4, <3>1, <3>2 DEF FirstInv, DeadIsUnmarked
    <3>6. PassInv'
      BY <1>2 DEF PassInv
    <3>7. QED
      BY <3>3, <3>4, <3>5, <3>6 DEF FirstInv
  <2>7. ASSUME SecondMarking PROVE SecondInv'
    BY <1>2, <2>3, <2>7, SecondSame DEF IInv
  <2>8. QED
    BY <1>5, <2>4, <2>5, <2>6, <2>7 DEF IInv
<1>8. CASE ~Try(e, m)
  <2>1. marked' = m /\ gray' = {} /\ pending' = pending \cup {e}
    BY <1>2, <1>8, TraceEphemeronNot
  <2>2. Quiet'
    BY <1>1, <1>2, <1>3, <1>4 DEF Quiet, Marking, Running
  <2>3. SecondMarking => marked' = marked
    BY <1>1, <1>6, <2>1, SecondRooted DEF IInv
  <2>4. marked' \subseteq Allocated /\ pending' \subseteq weaks
    BY <1>1, <1>6, <2>1
  <2>5. Base' /\ FirstMarking' = FirstMarking /\ SecondMarking' = SecondMarking
    BY <1>1, <1>2, <1>3, <2>1, <2>2, <2>3, <2>4, MarkingBase
  <2>6. ReachInv'
    <3>1. CASE FirstMarking
      BY <1>1, <1>3, <1>5, <1>6, <2>1, <3>1, ReachRooted DEF ReachInv
    <3>2. CASE SecondMarking
      BY <1>1, <1>3, <1>5, <2>1, <2>3, <3>2 DEF ReachInv
    <3>3. QED
      BY <1>3, <3>1, <3>2 DEF FirstMarking, SecondMarking
  <2>7. ASSUME FirstMarking PROVE FirstInv'
    <3>1. FirstInv
      BY <2>7 DEF IInv
    <3>2. marked \subseteq marked' /\ marked' \cap Objects = marked \cap Objects
      BY GcAssumption, <1>6, <2>1
    <3>3. RootedAreMarked'
      BY <1>2, <1>4, <1>5, <1>6, <2>1, <3>1, <3>2 DEF FirstInv, RootedAreMarked
    <3>4. MarksAreTraced'
      <4>1. \A o \in marked' \cap Objects : \A b \in contents[o] : b \in marked' \cup gray' \/ Rooted(b)
        BY <1>2, <3>1, <3>2 DEF FirstInv, MarksAreTraced
      <4>2. \A x \in weaks : Active(x) => Active(x)'
        BY <1>4, <3>2 DEF Active
      <4>3. ASSUME NEW x \in weaks
            PROVE  x \in work' \cup pending' \/ (Active(x)' /\ contents[x] \subseteq marked' \cup gray')
        <5>1. x \in work \cup pending \/ (Active(x) /\ contents[x] \subseteq marked \cup gray)
          BY <1>2, <3>1 DEF FirstInv, MarksAreTraced
        <5>2. QED
          BY <1>2, <2>1, <3>2, <4>2, <5>1
      <4>4. QED
        BY <1>4, <1>5, <4>1, <4>3 DEF MarksAreTraced
    <3>5. DeadIsUnmarked'
      BY <1>2, <1>4, <2>1, <3>1, <3>2 DEF FirstInv, DeadIsUnmarked
    <3>6. PassInv'
      BY <1>2 DEF PassInv
    <3>7. QED
      BY <3>3, <3>4, <3>5, <3>6 DEF FirstInv
  <2>8. ASSUME SecondMarking PROVE SecondInv'
    BY <1>2, <2>1, <2>3, <2>8, SecondSame DEF IInv
  <2>9. QED
    BY <1>5, <2>5, <2>6, <2>7, <2>8 DEF IInv
<1>9. QED
  BY <1>7, <1>8

\* mark_heap, step 2: the ephemerons of the weak maps are roots, so nothing
\* is marked here that was not.
LEMMA EndWeakOK ==
  ASSUME IInv, EndWeak
  PROVE  IInv'
<1>1. /\ HeapInv /\ Quiet /\ Base /\ RootsInv /\ ReachInv
      /\ marked \cup work \subseteq Allocated
      /\ gray \cup dead \subseteq strongs /\ pending \subseteq weaks
  BY BaseFacts DEF IInv
<1>2. /\ pc = "weak" /\ gray = {} /\ work = {} /\ InCollection
      /\ marked' = marked \cup {e \in weakMaps : key[e] # None}
      /\ pc' = "retry" /\ work' = pending /\ pending' = {}
      /\ previousLen' = Cardinality(pending)
      /\ gray' = gray /\ dead' = dead
  BY DEF EndWeak, StartPass
<1>3. Marking /\ Marking'
  BY <1>2 DEF Marking
<1>4. UNCHANGED <<strongs, weaks, contents, key, finalized>> /\ Allocated' = Allocated
  BY <1>2 DEF InCollection, heap, Allocated
<1>5. /\ RootsInv' /\ Reachable' = Reachable
      /\ \A b : Rooted(b)' = Rooted(b)
  BY <1>1, <1>2, <1>3, MarkingFrame
<1>6. marked' = marked
  <2>1. ASSUME NEW e \in weakMaps PROVE e \in marked
    <3>1. e \in Allocated /\ e \in weaks
      BY GcAssumption, <1>1 DEF HeapInv, HeapShape, NoDangling, Allocated
    <3>2. CASE FirstMarking
      <4>1. Rooted(e)
        BY <1>1, <2>1, <3>1, <3>2 DEF RootsInv, Roots
      <4>2. QED
        BY <1>2, <3>1, <3>2, <4>1 DEF IInv, FirstInv, RootedAreMarked
    <3>3. CASE SecondMarking
      BY <2>1, <3>3 DEF IInv, SecondInv, Roots
    <3>4. QED
      BY <1>3, <3>2, <3>3 DEF FirstMarking, SecondMarking
  <2>2. QED
    BY <1>2, <2>1
<1>7. IsFiniteSet(pending) /\ Cardinality(pending) \in Nat
  BY <1>1, FS_Subset, FS_CardinalityType DEF HeapInv, Finite
<1>8. Quiet'
  BY <1>1, <1>2, <1>3, <1>4 DEF Quiet, Running
<1>9. work' \subseteq Allocated /\ previousLen' \in Nat
  BY <1>1, <1>2, <1>7 DEF Allocated
<1>10. Base' /\ FirstMarking' = FirstMarking /\ SecondMarking' = SecondMarking
  BY <1>1, <1>2, <1>3, <1>6, <1>8, <1>9, MarkingBase
<1>11. ReachInv'
  BY <1>1, <1>2, <1>3, <1>5, <1>6 DEF ReachInv
<1>12. ASSUME FirstMarking PROVE FirstInv'
  <2>1. FirstInv
    BY <1>12 DEF IInv
  <2>2. RootedAreMarked'
    BY <1>2, <1>4, <1>5, <1>6, <2>1 DEF FirstInv, RootedAreMarked
  <2>3. MarksAreTraced'
    BY <1>2, <1>4, <1>5, <1>6, <2>1 DEF FirstInv, MarksAreTraced, Active
  <2>4. DeadIsUnmarked'
    BY <1>2, <1>4, <1>6, <2>1 DEF FirstInv, DeadIsUnmarked
  <2>5. PassInv'
    <3>1. work' \cup pending' = pending /\ work' \cap pending' = {}
      BY <1>2
    <3>2. QED
      BY <1>2, <1>7, <3>1 DEF PassInv
  <2>6. QED
    BY <2>2, <2>3, <2>4, <2>5 DEF FirstInv
<1>13. ASSUME SecondMarking PROVE SecondInv'
  BY <1>2, <1>6, <1>13, SecondSame DEF IInv
<1>14. QED
  BY <1>5, <1>10, <1>11, <1>12, <1>13 DEF IInv

\* mark_heap, step 3, for one ephemeron.
LEMMA RetryOK ==
  ASSUME IInv, NEW e \in Ephs, Retry(e)
  PROVE  IInv'
<1>1. /\ HeapInv /\ Quiet /\ Base /\ RootsInv /\ ReachInv
      /\ marked \cup work \subseteq Allocated
      /\ gray \cup dead \subseteq strongs /\ pending \subseteq weaks
      /\ previousLen \in Nat /\ Allocated \subseteq Boxes
  BY BaseFacts DEF IInv
<1>2. /\ pc = "retry" /\ gray = {} /\ e \in work /\ work' = work \ {e} /\ InCollection
      /\ TraceEphemeron(e, marked)
      /\ pc' = pc /\ dead' = dead /\ previousLen' = previousLen
  BY DEF Retry
<1>3. Marking /\ Marking'
  BY <1>2 DEF Marking
<1>4. UNCHANGED <<strongs, weaks, contents, key, finalized>> /\ Allocated' = Allocated
  BY <1>2 DEF InCollection, heap, Allocated
<1>5. /\ RootsInv' /\ Reachable' = Reachable
      /\ \A b : Rooted(b)' = Rooted(b)
  BY <1>1, <1>2, <1>3, MarkingFrame
<1>6. e \in weaks
  BY <1>1, <1>2 DEF Quiet
<1>7. IsFiniteSet(work \cup pending) /\ Cardinality(work \cup pending) \in Nat
  <2>1. work \cup pending \subseteq weaks
    BY <1>1, <1>2 DEF Quiet
  <2>2. QED
    BY <1>1, <2>1, FS_Subset, FS_CardinalityType DEF HeapInv, Finite
<1>8. CASE Try(e, marked)
  <2>1. /\ marked \subseteq marked' /\ marked' \subseteq marked \cup contents[e]
        /\ marked' \cap Objects = marked \cap Objects
        /\ gray' = contents[e] \cap Objects
        /\ marked' \subseteq Allocated \cup marked /\ gray' \subseteq strongs
        /\ pending' = pending
        /\ Active(e)' /\ contents[e] \subseteq marked' \cup gray'
    BY <1>1, <1>2, <1>4, <1>6, <1>8, TraceEphemeronDone
  <2>2. Quiet'
    BY <1>1, <1>2, <1>3, <1>4 DEF Quiet, Marking, Running
  <2>3. SecondMarking => marked' = marked /\ gray' \subseteq marked
    BY <1>8, <2>1 DEF IInv, SecondInv, Try
  <2>4. Base' /\ FirstMarking' = FirstMarking /\ SecondMarking' = SecondMarking
    BY <1>1, <1>2, <1>3, <2>1, <2>2, <2>3, MarkingBase
  <2>5. ReachInv'
    <3>1. e \in Reachable
      BY <1>1, <1>3, <1>8 DEF Try, ReachInv
    <3>2. contents[e] \subseteq Reachable
      <4>1. CASE key[e] = None
        BY <1>1, <4>1 DEF HeapInv, NoKeyNoValue
      <4>2. CASE key[e] # None
        BY <1>1, <1>3, <1>8, <3>1, <4>2, ReachEphemeron DEF ReachInv, Try
      <4>3. QED
        BY <4>1, <4>2
    <3>3. QED
      BY <1>1, <1>3, <1>5, <2>1, <3>1, <3>2 DEF ReachInv
  <2>6. ASSUME FirstMarking PROVE FirstInv'
    <3>1. FirstInv
      BY <2>6 DEF IInv
    <3>2. marked \cup gray \subseteq marked' \cup gray'
      BY <1>2, <2>1
    <3>3. RootedAreMarked'
      BY <1>2, <1>4, <1>5, <2>1, <3>1, <3>2 DEF FirstInv, RootedAreMarked
    <3>4. MarksAreTraced'
      <4>1. \A o \in marked' \cap Objects : \A b \in contents[o] : b \in marked' \cup gray' \/ Rooted(b)
        BY <2>1, <3>1, <3>2 DEF FirstInv, MarksAreTraced
      <4>2. \A x \in weaks : Active(x) => Active(x)'
        BY <1>4, <2>1 DEF Active
      <4>3. \A x \in weaks :
              x \in work' \cup pending' \/ (Active(x)' /\ contents[x] \subseteq marked' \cup gray')
        <5>1. ASSUME NEW x \in weaks, x # e
              PROVE  x \in work' \cup pending' \/ (Active(x)' /\ contents[x] \subseteq marked' \cup gray')
          <6>1. x \in work \cup pending \/ (Active(x) /\ contents[x] \subseteq marked \cup gray)
            BY <1>2, <3>1 DEF FirstInv, MarksAreTraced
          <6>2. QED
            BY <1>2, <2>1, <3>2, <4>2, <5>1, <6>1
        <5>2. QED
          BY <2>1, <5>1
      <4>4. QED
        BY <1>4, <1>5, <4>1, <4>3 DEF MarksAreTraced
    <3>5. DeadIsUnmarked'
      BY <1>2, <1>4, <3>1, <3>2 DEF FirstInv, DeadIsUnmarked
    <3>6. PassInv'
      <4>1. work \cap pending = {} /\ Cardinality(work \cup pending) <= previousLen
        BY <1>2, <3>1 DEF FirstInv, PassInv
      <4>2. work' \cup pending' = (work \cup pending) \ {e}
        BY <1>2, <2>1, <4>1
      <4>3. Cardinality(work' \cup pending') = Cardinality(work \cup pending) - 1
        BY <1>2, <1>7, <4>2, FS_RemoveElement
      <4>4. QED
        BY <1>1, <1>2, <1>7, <2>1, <4>1, <4>3 DEF PassInv
    <3>7. QED
      BY <3>3, <3>4, <3>5, <3>6 DEF FirstInv
  <2>7. ASSUME SecondMarking PROVE SecondInv'
    BY <1>2, <2>3, <2>7, SecondSame DEF IInv
  <2>8. QED
    BY <1>5, <2>4, <2>5, <2>6, <2>7 DEF IInv
<1>9. CASE ~Try(e, marked)
  <2>1. marked' = marked /\ gray' = {} /\ pending' = pending \cup {e}
    BY <1>2, <1>9, TraceEphemeronNot
  <2>2. Quiet'
    BY <1>1, <1>2, <1>3, <1>4 DEF Quiet, Marking, Running
  <2>3. pending' \subseteq weaks
    BY <1>1, <1>6, <2>1
  <2>4. Base' /\ FirstMarking' = FirstMarking /\ SecondMarking' = SecondMarking
    BY <1>1, <1>2, <1>3, <2>1, <2>2, <2>3, MarkingBase
  <2>5. ReachInv'
    BY <1>1, <1>3, <1>5, <2>1 DEF ReachInv
  <2>6. ASSUME FirstMarking PROVE FirstInv'
    <3>1. FirstInv
      BY <2>6 DEF IInv
    <3>2. RootedAreMarked'
      BY <1>2, <1>4, <1>5, <2>1, <3>1 DEF FirstInv, RootedAreMarked
    <3>3. MarksAreTraced'
      BY <1>2, <1>4, <1>5, <2>1, <3>1 DEF FirstInv, MarksAreTraced, Active
    <3>4. DeadIsUnmarked'
      BY <1>2, <1>4, <2>1, <3>1 DEF FirstInv, DeadIsUnmarked
    <3>5. PassInv'
      <4>1. work' \cup pending' = work \cup pending /\ work' \cap pending' = {}
        BY <1>2, <2>1, <3>1 DEF FirstInv, PassInv
      <4>2. Cardinality(work \cup pending) = previousLen => \A x \in pending' : ~Active(x)
        BY <1>2, <1>9, <2>1, <3>1 DEF FirstInv, PassInv, Active, Try
      <4>3. \A x \in pending' : Active(x)' = Active(x)
        BY <1>4, <2>1 DEF Active
      <4>4. QED
        BY <1>2, <2>1, <3>1, <4>1, <4>2, <4>3 DEF FirstInv, PassInv
    <3>6. QED
      BY <3>2, <3>3, <3>4, <3>5 DEF FirstInv
  <2>7. ASSUME SecondMarking PROVE SecondInv'
    BY <1>2, <2>1, <2>7, SecondSame DEF IInv
  <2>8. QED
    BY <1>5, <2>4, <2>5, <2>6, <2>7 DEF IInv
<1>10. QED
  BY <1>8, <1>9

\* The end of a pass: the next one, or the end of the marking.
LEMMA EndPassOK ==
  ASSUME IInv, EndPass
  PROVE  IInv'
<1>1. /\ HeapInv /\ Quiet /\ Base /\ RootsInv /\ ReachInv
      /\ marked \cup work \subseteq Allocated
      /\ gray \cup dead \subseteq strongs /\ pending \subseteq weaks
      /\ previousLen \in Nat
  BY BaseFacts DEF IInv
<1>2. /\ pc = "retry" /\ gray = {} /\ work = {} /\ InCollection
      /\ marked' = marked /\ gray' = gray
  BY DEF EndPass
<1>3. Marking /\ Marking'
  BY <1>2 DEF Marking, EndPass, EndMarking
<1>4. UNCHANGED <<strongs, weaks, contents, key, finalized>> /\ Allocated' = Allocated
  BY <1>2 DEF InCollection, heap, Allocated
<1>5. /\ RootsInv' /\ Reachable' = Reachable
      /\ \A b : Rooted(b)' = Rooted(b)
  BY <1>1, <1>2, <1>3, MarkingFrame
<1>6. IsFiniteSet(pending) /\ Cardinality(pending) \in Nat
  BY <1>1, FS_Subset, FS_CardinalityType DEF HeapInv, Finite
<1>7. ReachInv'
  BY <1>1, <1>2, <1>3, <1>5 DEF ReachInv
<1>8. SecondMarking => SecondInv'
  BY <1>2, SecondSame DEF IInv
<1>9. CASE previousLen = Cardinality(pending)
  <2>1. /\ pc' = "marked" /\ dead' = dead \ marked /\ work' = {} /\ pending' = pending
        /\ previousLen' = previousLen
    BY <1>2, <1>9 DEF EndPass, EndMarking
  <2>2. Quiet'
    BY <1>2, <1>3, <1>4, <2>1 DEF Quiet, Running
  <2>3. Base' /\ FirstMarking' = FirstMarking /\ SecondMarking' = SecondMarking
    BY <1>1, <1>2, <1>3, <2>1, <2>2, MarkingBase
  <2>4. ASSUME FirstMarking PROVE FirstInv'
    <3>1. FirstInv
      BY <2>4 DEF IInv
    <3>2. RootedAreMarked'
      BY <1>2, <1>4, <1>5, <2>1, <3>1 DEF FirstInv, RootedAreMarked
    <3>3. MarksAreTraced'
      BY <1>2, <1>4, <1>5, <2>1, <3>1 DEF FirstInv, MarksAreTraced, Active
    <3>4. DeadIsUnmarked'
      BY <1>2, <1>4, <2>1, <3>1 DEF FirstInv, DeadIsUnmarked
    <3>5. PassInv'
      <4>1. work \cup pending = pending
        BY <1>2
      <4>2. \A x \in pending : ~Active(x)
        BY <1>2, <1>9, <3>1, <4>1 DEF FirstInv, PassInv
      <4>3. QED
        BY <1>2, <1>4, <2>1, <4>2 DEF PassInv, Active
    <3>6. QED
      BY <3>2, <3>3, <3>4, <3>5 DEF FirstInv
  <2>5. QED
    BY <1>5, <1>7, <1>8, <2>3, <2>4 DEF IInv
<1>10. CASE previousLen # Cardinality(pending)
  <2>1. /\ pc' = pc /\ dead' = dead /\ work' = pending /\ pending' = {}
        /\ previousLen' = Cardinality(pending)
    BY <1>2, <1>10 DEF EndPass, StartPass
  <2>2. Quiet'
    BY <1>1, <1>2, <1>3, <1>4, <2>1 DEF Quiet, Running
  <2>3. work' \subseteq Allocated
    BY <1>1, <2>1 DEF Allocated
  <2>4. Base' /\ FirstMarking' = FirstMarking /\ SecondMarking' = SecondMarking
    BY <1>1, <1>2, <1>3, <1>6, <2>1, <2>2, <2>3, MarkingBase
  <2>5. ASSUME FirstMarking PROVE FirstInv'
    <3>1. FirstInv
      BY <2>5 DEF IInv
    <3>2. RootedAreMarked'
      BY <1>2, <1>4, <1>5, <2>1, <3>1 DEF FirstInv, RootedAreMarked
    <3>3. MarksAreTraced'
      BY <1>2, <1>4, <1>5, <2>1, <3>1 DEF FirstInv, MarksAreTraced, Active
    <3>4. DeadIsUnmarked'
      BY <1>2, <1>4, <2>1, <3>1 DEF FirstInv, DeadIsUnmarked
    <3>5. PassInv'
      <4>1. work' \cup pending' = pending /\ work' \cap pending' = {}
        BY <2>1
      <4>2. QED
        BY <1>2, <1>6, <2>1, <4>1 DEF PassInv
    <3>6. QED
      BY <3>2, <3>3, <3>4, <3>5 DEF FirstInv
  <2>6. QED
    BY <1>5, <1>7, <1>8, <2>4, <2>5 DEF IInv
<1>11. QED
  BY <1>9, <1>10

------------------------------------------------------------------------------
(* The steps before and after it. *)

\* What trace_non_roots finds is a part of the handles in the heap.
LEMMA TracedFew ==
  ASSUME HeapInv, IsFiniteSet(Allocated), NEW b
  PROVE  /\ Cardinality(TracedContainers(b)) \in Nat
         /\ Cardinality(TracedContainers(b)) <= Cardinality(Containers(b))
         /\ Cardinality(TracedContainers(b)) = Cardinality(Containers(b))
              <=> Containers(b) = TracedContainers(b)
<1>1. TracedContainers(b) \subseteq Containers(b) /\ Containers(b) \subseteq Allocated
  BY DEF TracedContainers, Containers, Traced
<1>2. IsFiniteSet(Containers(b))
  BY <1>1, FS_Subset
<1>3. IsFiniteSet(TracedContainers(b))
  BY <1>1, <1>2, FS_Subset
<1>4. QED
  BY <1>1, <1>2, <1>3, FS_Subset, FS_CardinalityType

\* trace_non_roots: a box is rooted exactly if some handle was not found.
LEMMA CollectOK ==
  ASSUME IInv, Collect
  PROVE  IInv'
<1>1. /\ Base /\ Running /\ HeapInv /\ RefInv /\ WeakMapsInv /\ IsFiniteSet(Allocated)
      /\ Quiet /\ TypeOK
  BY RunningFacts DEF IInv, Collect
<1>2. /\ UNCHANGED <<strongs, weaks, weakMaps, maps, contents, key, held, borrow, ref>>
      /\ UNCHANGED <<marked, finalized, gray, dead, pending, previousLen>>
      /\ pc' = "strong" /\ work' = strongs /\ Allocated' = Allocated
      /\ nonRoot' = [b \in Boxes |-> IF b \in Allocated THEN NonRoots(b) ELSE 0]
  BY DEF Collect, heap, Allocated
<1>3. /\ marked = {} /\ gray = {} /\ dead = {} /\ pending = {} /\ ~finalized
      /\ \A b \in Boxes : nonRoot[b] = 0
      /\ ~Marking
  BY <1>1 DEF Quiet, Running, Marking
<1>4. Marking' /\ FirstMarking' /\ ~SecondMarking' /\ ~SecondMarking /\ ~Running'
  BY <1>2, <1>3 DEF Marking, FirstMarking, SecondMarking, Running
<1>5. ASSUME NEW b \in Allocated
      PROVE  /\ nonRoot'[b] = MinOf(ref[b], Cardinality(TracedContainers(b)))
             /\ b \in Boxes /\ ref[b] \in Nat
             /\ Cardinality(TracedContainers(b)) \in Nat
  <2>1. b \in Boxes /\ ref[b] \in Nat
    BY <1>1 DEF HeapInv, HeapShape, TypeOK, Allocated, Boxes
  <2>2. Cardinality(TracedContainers(b)) \in Nat
    BY <1>1, TracedFew
  <2>3. nonRoot'[b] = NonRoots(b)
    BY <1>2, <2>1
  <2>4. NonRoots(b) = MinOf(ref[b], Cardinality(TracedContainers(b)))
    BY <1>3, <2>1, <2>2 DEF NonRoots
  <2>5. QED
    BY <2>1, <2>2, <2>3, <2>4
<1>6. TypeOK'
  <2>1. \A b \in Allocated : nonRoot'[b] \in Nat
    BY <1>5 DEF MinOf
  <2>2. nonRoot' \in [Boxes -> Nat]
    <3>1. \A b \in Boxes : nonRoot'[b] \in Nat
      BY <1>2, <2>1
    <3>2. QED
      BY <1>2, <3>1
  <2>3. strongs \subseteq Allocated
    BY DEF Allocated
  <2>4. QED
    BY <1>1, <1>2, <1>3, <2>2, <2>3 DEF TypeOK
<1>7. Base'
  <2>1. (Finite /\ NoDangling /\ BorrowersHold /\ NoKeyNoValue)'
    BY <1>1, <1>2 DEF Base, Finite, NoDangling, BorrowersHold, NoKeyNoValue
  <2>2. Quiet'
    BY <1>2, <1>3, <1>4 DEF Quiet
  <2>3. CountInv'
    <3>1. \A b : LiveContainers(b)' = LiveContainers(b)
      BY <1>2, <1>4 DEF LiveContainers, Containers
    <3>2. QED
      BY <1>1, <1>2, <3>1 DEF Base, CountInv
  <2>4. MapsInv'
    BY <1>1, <1>2, <1>4 DEF Base, MapsInv
  <2>5. QED
    BY <1>6, <2>1, <2>2, <2>3, <2>4 DEF Base
<1>8. RootsInv'
  <2>1. ASSUME NEW b \in Allocated
        PROVE  Rooted(b)' <=> b \in Roots \/ Containers(b) # TracedContainers(b)
    <3> DEFINE t == Cardinality(TracedContainers(b))
               c == Cardinality(Containers(b))
    <3>1. t \in Nat
      BY <1>1, TracedFew
    <3>2. t <= c
      BY <1>1, TracedFew
    <3>3. t = c <=> Containers(b) = TracedContainers(b)
      BY <1>1, TracedFew
    <3>4. ref[b] = c + CountIn(b, held) + CountIn(b, weakMaps) /\ b \in Boxes
      BY <1>1, <1>4, <1>5 DEF Base, CountInv, LiveContainers
    <3>5. c \in Nat
      <4>1. Containers(b) \subseteq Allocated
        BY DEF Containers
      <4>2. QED
        BY <1>1, <4>1, FS_Subset, FS_CardinalityType
    <3>6. Rooted(b)' <=> MinOf(ref[b], t) < ref[b]
      BY <1>2, <1>5 DEF Rooted
    <3>7. b \in Roots <=> CountIn(b, held) = 1 \/ CountIn(b, weakMaps) = 1
      BY DEF CountIn, Roots
    <3>8. CountIn(b, held) \in {0, 1} /\ CountIn(b, weakMaps) \in {0, 1}
      BY CountType
    <3> HIDE DEF t, c
    <3>9. MinOf(ref[b], t) < ref[b] <=> t < ref[b]
      BY <3>1, <1>5 DEF MinOf
    <3>10. t < ref[b] <=> b \in Roots \/ t # c
      BY <3>1, <3>2, <3>4, <3>5, <3>7, <3>8
    <3>11. QED
      BY <3>3, <3>6, <3>9, <3>10
  <2>2. \A b : Containers(b)' = Containers(b) /\ TracedContainers(b)' = TracedContainers(b)
    BY <1>2 DEF Containers, TracedContainers, Traced
  <2>3. Roots' = Roots
    BY <1>2 DEF Roots
  <2>4. QED
    BY <1>2, <2>1, <2>2, <2>3 DEF RootsInv
<1>9. ReachInv' /\ FirstInv'
  <2>1. FirstInv'
    BY <1>2, <1>3 DEF FirstInv, RootedAreMarked, MarksAreTraced, DeadIsUnmarked, PassInv
  <2>2. QED
    BY <1>2, <1>3, <2>1 DEF ReachInv
<1>10. QED
  BY <1>4, <1>7, <1>8, <1>9 DEF IInv

\* When the first marking ends, what is marked is closed, and what is not
\* marked is dead, if it is an object; the pending ephemerons are those that
\* are not active.
LEMMA FirstDone ==
  ASSUME IInv, pc = "marked", ~finalized
  PROVE  /\ Roots \subseteq marked
         /\ dead = strongs \ marked
         /\ \A o \in marked \cap Objects : contents[o] \subseteq marked
         /\ \A e \in weaks : e \in pending <=> ~Active(e)
         /\ \A e \in weaks : Active(e) => contents[e] \subseteq marked
<1>1. FirstMarking /\ FirstInv /\ Base /\ RootsInv
  BY DEF IInv, FirstMarking, Marking
<1>2. HeapInv /\ Quiet /\ marked \subseteq Allocated /\ dead \subseteq strongs
  BY <1>1, BaseFacts
<1>3. gray = {} /\ work = {}
  BY <1>2 DEF Quiet
<1>4. ASSUME NEW b \in Allocated, Rooted(b) PROVE b \in marked
  BY <1>1, <1>3, <1>4 DEF FirstInv, RootedAreMarked, Allocated
<1>5. Roots \subseteq marked
  BY <1>1, <1>2, <1>4 DEF RootsInv, Roots, HeapInv, NoDangling
<1>6. dead = strongs \ marked
  BY <1>1, <1>2, <1>3 DEF FirstInv, DeadIsUnmarked
<1>7. ASSUME NEW o \in marked \cap Objects PROVE contents[o] \subseteq marked
  <2>1. contents[o] \subseteq Allocated
    BY <1>2 DEF HeapInv, NoDangling
  <2>2. QED
    BY <1>1, <1>3, <1>4, <2>1 DEF FirstInv, MarksAreTraced
<1>8. \A e \in weaks : e \in pending <=> ~Active(e)
  BY <1>1, <1>3 DEF FirstInv, MarksAreTraced, PassInv
<1>9. \A e \in weaks : Active(e) => contents[e] \subseteq marked
  BY <1>1, <1>3, <1>8 DEF FirstInv, MarksAreTraced
<1>10. QED
  BY <1>5, <1>6, <1>7, <1>8, <1>9

\* run_finalizer gives up the handles of the dead and of the pending, and the
\* others are the marked boxes that keep theirs.
LEMMA FinalizeCounts ==
  ASSUME IInv, Finalize, NEW b
  PROVE  /\ LiveContainers(b)' = Containers(b) \ (dead \cup pending)
         /\ GivenUp(b) = Cardinality(Containers(b) \cap (dead \cup pending))
<1>1. /\ Base /\ HeapInv /\ marked \subseteq Allocated /\ dead \subseteq strongs /\ pending \subseteq weaks
      /\ Allocated \subseteq Boxes
  BY BaseFacts DEF IInv
<1>2. /\ pc = "marked" /\ ~finalized /\ pc' = "strong" /\ finalized' /\ marked' = marked
      /\ contents' = [c \in Boxes |-> IF c \in pending THEN {} ELSE contents[c]]
      /\ UNCHANGED <<strongs, weaks>> /\ Allocated' = Allocated
  BY DEF Finalize, Allocated
<1>3. /\ Roots \subseteq marked
      /\ dead = strongs \ marked
      /\ \A e \in weaks : e \in pending <=> ~Active(e)
  BY <1>2, FirstDone
<1>4. \A c \in Allocated : c \in marked /\ c \notin pending <=> c \notin dead \cup pending
  BY GcAssumption, <1>1, <1>3 DEF Allocated, Active, HeapInv, HeapShape
<1>5. LiveContainers(b)' = Containers(b) \ (dead \cup pending)
  <2>1. SecondMarking'
    BY <1>2 DEF SecondMarking, Marking
  <2>2. LiveContainers(b)' = {c \in Allocated : b \in contents'[c]} \cap marked
    BY <1>2, <2>1 DEF LiveContainers, Containers
  <2>3. \A c \in Allocated : contents'[c] = IF c \in pending THEN {} ELSE contents[c]
    BY <1>1, <1>2
  <2>4. QED
    BY <1>4, <2>2, <2>3 DEF Containers
<1>6. \A c \in dead \cup pending : Traced(c) = contents[c] /\ c \in Allocated
  BY GcAssumption, <1>1, <1>3 DEF Traced, HeapInv, HeapShape, BorrowersHold, Roots, Allocated
<1>7. {c \in dead \cup pending : b \in Traced(c)} = Containers(b) \cap (dead \cup pending)
  BY <1>6 DEF Containers
<1>8. QED
  BY <1>5, <1>7 DEF GivenUp

\* The finalizers: the counts stay exact, nothing marked depends on what was
\* given up, and what is reachable stays so.
LEMMA FinalizeOK ==
  ASSUME IInv, Finalize
  PROVE  IInv'
<1>1. /\ Base /\ HeapInv /\ marked \subseteq Allocated /\ dead \subseteq strongs /\ pending \subseteq weaks
      /\ Allocated \subseteq Boxes /\ Quiet /\ RootsInv /\ ReachInv
      /\ nonRoot \in [Boxes -> Nat] /\ ref \in [Boxes -> Nat]
  BY BaseFacts DEF IInv
<1>2. /\ pc = "marked" /\ ~finalized /\ pc' = "strong" /\ finalized' = TRUE
      /\ contents' = [c \in Boxes |-> IF c \in pending THEN {} ELSE contents[c]]
      /\ key' = [e \in Ephs |-> IF e \in pending THEN None ELSE key[e]]
      /\ ref' = [b \in Boxes |-> ref[b] - GivenUp(b)]
      /\ UNCHANGED <<strongs, weaks, weakMaps, maps, held, borrow, nonRoot, marked, gray, previousLen>>
      /\ Allocated' = Allocated /\ work' = strongs /\ dead' = {} /\ pending' = {}
  BY DEF Finalize, Allocated
<1>3. /\ Roots \subseteq marked
      /\ dead = strongs \ marked
      /\ \A o \in marked \cap Objects : contents[o] \subseteq marked
      /\ \A e \in weaks : e \in pending <=> ~Active(e)
      /\ \A e \in weaks : Active(e) => contents[e] \subseteq marked
  BY <1>2, FirstDone
<1>4. gray = {} /\ Roots' = Roots /\ Marking /\ Marking'
      /\ SecondMarking' /\ ~FirstMarking' /\ ~Running' /\ FirstMarking /\ ~SecondMarking
  BY <1>1, <1>2 DEF Quiet, Roots, Marking, SecondMarking, FirstMarking, Running
<1>5. \A c \in Allocated : contents'[c] = IF c \in pending THEN {} ELSE contents[c]
  BY <1>1, <1>2
<1>6. \A e \in weaks : key'[e] = IF e \in pending THEN None ELSE key[e]
  BY <1>1, <1>2 DEF HeapInv, HeapShape
<1>7. \A c \in marked : contents'[c] \subseteq marked
  <2>1. ASSUME NEW c \in marked PROVE contents'[c] \subseteq marked
    <3>1. c \in Allocated
      BY <1>1
    <3>2. CASE c \in strongs
      BY <1>1, <1>3, <1>5, <3>1, <3>2 DEF HeapInv, HeapShape
    <3>3. CASE c \in weaks
      BY <1>3, <1>5, <3>1, <3>3
    <3>4. QED
      BY <3>1, <3>2, <3>3 DEF Allocated
  <2>2. QED
    BY <2>1
<1>8. IsFiniteSet(Allocated)
  BY <1>1, AllocatedFinite DEF HeapInv
<1>9. ASSUME NEW b \in Allocated
      PROVE  /\ ref'[b] \in Nat
             /\ ref'[b] = Cardinality(LiveContainers(b)') + CountIn(b, held) + CountIn(b, weakMaps)
  <2> DEFINE D == dead \cup pending
             n == Cardinality(Containers(b))
             x == Cardinality(Containers(b) \cap D)
             y == Cardinality(Containers(b) \ D)
  <2>1. Containers(b) \subseteq Allocated
    BY DEF Containers
  <2>2. IsFiniteSet(Containers(b)) /\ n \in Nat
    BY <1>8, <2>1, FS_Subset, FS_CardinalityType
  <2>3. IsFiniteSet(Containers(b) \ D) /\ y = n - x
    BY <2>2, FS_Difference
  <2>4. y \in Nat
    BY <2>3, FS_CardinalityType
  <2>5. IsFiniteSet(Containers(b) \cap D)
    BY <2>2, FS_Subset
  <2>6. x \in Nat
    BY <2>5, FS_CardinalityType
  <2>7. LiveContainers(b)' = Containers(b) \ D /\ GivenUp(b) = x
    BY FinalizeCounts
  <2>8. ref'[b] = ref[b] - x
    BY <1>1, <1>2, <2>7
  <2>9. ref[b] = n + CountIn(b, held) + CountIn(b, weakMaps)
    BY <1>1, <1>4 DEF Base, CountInv, LiveContainers
  <2>10. CountIn(b, held) \in Nat /\ CountIn(b, weakMaps) \in Nat
    BY CountType
  <2>11. Cardinality(LiveContainers(b)') = y
    BY <2>7
  <2> HIDE DEF n, x, y, D
  <2>12. ref'[b] = y + CountIn(b, held) + CountIn(b, weakMaps)
    BY <2>2, <2>3, <2>4, <2>6, <2>8, <2>9, <2>10
  <2>13. ref'[b] \in Nat
    BY <2>4, <2>10, <2>12
  <2>14. QED
    BY <2>11, <2>12, <2>13
<1>10. ASSUME NEW b \in Boxes \ Allocated PROVE ref'[b] = 0 /\ contents'[b] = {}
  <2>1. ref[b] = 0 /\ contents[b] = {}
    BY <1>1 DEF Base, TypeOK
  <2>2. Containers(b) = {}
    BY <1>1 DEF Containers, HeapInv, NoDangling
  <2>3. GivenUp(b) = 0
    BY <2>2, FinalizeCounts, FS_EmptySet
  <2>4. QED
    BY <1>2, <2>1, <2>3
<1>11. TypeOK'
  <2>1. ref' \in [Boxes -> Nat]
    <3>1. \A b \in Boxes : ref'[b] \in Nat
      BY <1>9, <1>10
    <3>2. QED
      BY <1>2, <3>1
  <2>2. contents' \in [Boxes -> SUBSET Boxes] /\ key' \in [Ephs -> Objects \cup {None}]
    BY <1>1, <1>2 DEF HeapInv, HeapShape
  <2>3. strongs \subseteq Allocated
    BY DEF Allocated
  <2>4. QED
    BY <1>1, <1>2, <1>10, <2>1, <2>2, <2>3 DEF Base, TypeOK
<1>12. Base'
  <2>1. (Finite /\ BorrowersHold)'
    BY <1>1, <1>2 DEF Base, Finite, BorrowersHold
  <2>2. NoDangling'
    BY <1>1, <1>2, <1>5, <1>6 DEF HeapInv, NoDangling
  <2>3. NoKeyNoValue'
    BY <1>1, <1>2 DEF HeapInv, NoKeyNoValue, Boxes
  <2>4. Quiet'
    BY <1>2, <1>4 DEF Quiet, Running
  <2>5. CountInv'
    BY <1>2, <1>9 DEF CountInv
  <2>6. MapsInv'
    <3>1. ASSUME NEW e \in weakMaps
          PROVE  /\ key'[e] = IF key[e] \in marked THEN key[e] ELSE None
                 /\ key[e] # None
      <4>1. e \in weaks /\ e \in marked
        BY GcAssumption, <1>1, <1>3 DEF Roots, HeapInv, HeapShape, NoDangling, Allocated
      <4>2. key[e] # None
        BY <1>1, <1>4 DEF Base, MapsInv
      <4>3. QED
        BY <1>3, <1>6, <4>1, <4>2 DEF Active
    <3>2. {key[e] : e \in weakMaps} \ {None} = maps
      BY <1>1, <1>4 DEF Base, MapsInv
    <3>3. None \notin marked
      BY GcAssumption, <1>1
    <3>4. {key'[e] : e \in weakMaps} \ {None} = maps \cap marked
      BY <3>1, <3>2, <3>3
    <3>5. QED
      BY <1>2, <1>4, <3>4 DEF MapsInv
  <2>7. QED
    BY <1>11, <2>1, <2>2, <2>3, <2>4, <2>5, <2>6 DEF Base
<1>13. ReachInv'
  <2>1. ASSUME NEW s \in SUBSET Allocated, Closed(s)' PROVE marked \subseteq s
    <3>1. /\ Roots \subseteq s
          /\ \A o \in s \cap Objects : contents'[o] \subseteq s
          /\ \A e \in s \cap Ephs : key'[e] \in s => contents'[e] \subseteq s
      BY <1>4, <2>1 DEF Closed
    <3>2. ASSUME NEW o \in s \cap marked, o \in Objects
          PROVE  contents[o] \subseteq s \cap marked
      <4>1. o \in Allocated /\ o \notin pending
        BY GcAssumption, <1>1, <3>2 DEF HeapInv, HeapShape
      <4>2. QED
        BY <1>3, <1>5, <3>1, <3>2, <4>1
    <3>3. ASSUME NEW e \in s \cap marked, e \in Ephs, key[e] \in s \cap marked
          PROVE  contents[e] \subseteq s \cap marked
      <4>1. e \in Allocated /\ e \in weaks
        BY GcAssumption, <1>1, <3>3 DEF HeapInv, HeapShape, Allocated
      <4>2. Active(e)
        BY <3>3 DEF Active
      <4>3. key'[e] = key[e] /\ contents'[e] = contents[e]
        BY <1>3, <1>5, <1>6, <4>1, <4>2
      <4>4. QED
        BY <1>3, <3>1, <3>3, <4>1, <4>2, <4>3
    <3>4. Closed(s \cap marked)
      BY <1>3, <3>1, <3>2, <3>3 DEF Closed
    <3>5. Reachable \subseteq s \cap marked
      BY <3>4, ReachLeast
    <3>6. QED
      BY <1>1, <1>4, <3>5 DEF ReachInv
  <2>2. Reachable' = {b \in Allocated : \A s \in SUBSET Allocated : Closed(s)' => b \in s}
    BY <1>2 DEF Reachable
  <2>3. marked \subseteq Reachable'
    BY <1>1, <2>1, <2>2
  <2>4. QED
    BY <1>2, <1>4, <2>3 DEF ReachInv
<1>14. RootsInv'
  BY <1>4 DEF RootsInv
<1>15. SecondInv'
  <2>1. \A e \in weaks : key'[e] \in marked \cup {None}
    BY <1>3, <1>6 DEF Active
  <2>2. ASSUME NEW b \in Allocated \ marked PROVE ref'[b] = 0
    <3>1. LiveContainers(b)' = {}
      BY <1>2, <1>4, <1>7, <2>2 DEF LiveContainers, Containers
    <3>2. b \notin held /\ b \notin weakMaps
      BY <1>3, <2>2 DEF Roots
    <3>3. QED
      BY <1>9, <2>2, <3>1, <3>2, FS_EmptySet DEF CountIn
  <2>3. QED
    BY <1>2, <1>3, <1>4, <1>7, <2>1, <2>2 DEF SecondInv
<1>16. QED
  BY <1>4, <1>12, <1>13, <1>14, <1>15 DEF IInv

\* Before sweep nothing that is marked refers to what is not.
LEMMA MarkedIsClosed ==
  ASSUME IInv, pc = "marked", finalized \/ (dead = {} /\ pending = {})
  PROVE  /\ Roots \subseteq marked
         /\ \A c \in marked : contents[c] \subseteq marked
         /\ \A e \in weaks \cap marked : key[e] \in marked \cup {None}
         /\ \A b \in marked : ref[b] = Cardinality(Containers(b) \cap marked)
                                         + CountIn(b, held) + CountIn(b, weakMaps)
         /\ {key[e] : e \in weakMaps} \ {None} = maps \cap marked
<1>1. /\ Base /\ HeapInv /\ marked \subseteq Allocated /\ dead \subseteq strongs /\ pending \subseteq weaks
  BY BaseFacts DEF IInv
<1>2. Marking
  BY DEF Marking
<1>3. CASE finalized
  <2>1. SecondMarking /\ SecondInv
    BY <1>2, <1>3 DEF SecondMarking, IInv
  <2>2. \A b \in marked : ref[b] = Cardinality(Containers(b) \cap marked)
                                    + CountIn(b, held) + CountIn(b, weakMaps)
    BY <1>1, <2>1 DEF Base, CountInv, LiveContainers
  <2>3. {key[e] : e \in weakMaps} \ {None} = maps \cap marked
    BY <1>1, <2>1 DEF Base, MapsInv
  <2>4. QED
    BY <2>1, <2>2, <2>3 DEF SecondInv
<1>4. CASE ~finalized
  <2>1. ~SecondMarking
    BY <1>4 DEF SecondMarking
  <2>2. Roots \subseteq marked /\ dead = strongs \ marked /\ \A e \in weaks : Active(e)
    BY <1>4, FirstDone
  <2>3. Allocated = marked
    BY <1>1, <1>4, <2>2 DEF Allocated, Active
  <2>4. maps \subseteq marked
    BY <1>1, <2>3 DEF HeapInv, HeapShape, Allocated
  <2>5. {key[e] : e \in weakMaps} \ {None} = maps \cap marked
    BY <1>1, <2>1, <2>4 DEF Base, MapsInv
  <2>6. \A b \in marked : ref[b] = Cardinality(Containers(b))
                                     + CountIn(b, held) + CountIn(b, weakMaps)
    BY <1>1, <2>1, <2>3 DEF Base, CountInv, LiveContainers
  <2>7. \A b : Containers(b) \cap marked = Containers(b)
    BY <2>3 DEF Containers
  <2>8. /\ \A c \in marked : contents[c] \subseteq marked
        /\ \A e \in weaks \cap marked : key[e] \in marked \cup {None}
    BY <1>1, <2>3 DEF HeapInv, NoDangling
  <2>9. QED
    BY <2>2, <2>5, <2>6, <2>7, <2>8
<1>5. QED
  BY <1>3, <1>4

\* sweep leaves the marked boxes with their counts.
LEMMA SweepOK ==
  ASSUME IInv, Sweep
  PROVE  IInv'
<1>1. /\ Base /\ HeapInv /\ marked \subseteq Allocated /\ Quiet
      /\ ref \in [Boxes -> Nat] /\ Allocated \subseteq Boxes
  BY BaseFacts DEF IInv
<1>2. /\ pc = "marked" /\ (finalized \/ (dead = {} /\ pending = {})) /\ pc' = "clear"
      /\ strongs' = strongs \cap marked /\ weaks' = weaks \cap marked
      /\ maps' = maps \cap marked
      /\ contents' = [b \in Boxes |-> IF b \in marked THEN contents[b] ELSE {}]
      /\ key' = [e \in Ephs |-> IF e \in marked THEN key[e] ELSE None]
      /\ borrow' = [o \in Objects |-> IF o \in marked THEN borrow[o] ELSE "unused"]
      /\ ref' = [b \in Boxes |-> IF b \in marked THEN ref[b] ELSE 0]
      /\ nonRoot' = [b \in Boxes |-> 0]
      /\ marked' = {} /\ dead' = {} /\ pending' = {}
      /\ UNCHANGED <<weakMaps, held, finalized, work, gray, previousLen>>
      /\ Allocated' = marked
  BY <1>1 DEF Sweep, Survivors, Allocated
<1>3. /\ Roots \subseteq marked
      /\ \A c \in marked : contents[c] \subseteq marked
      /\ \A e \in weaks \cap marked : key[e] \in marked \cup {None}
      /\ \A b \in marked : ref[b] = Cardinality(Containers(b) \cap marked)
                                      + CountIn(b, held) + CountIn(b, weakMaps)
      /\ {key[e] : e \in weakMaps} \ {None} = maps \cap marked
  BY <1>2, MarkedIsClosed
<1>4. /\ gray = {} /\ work = {} /\ Roots' = Roots
      /\ ~Marking' /\ ~FirstMarking' /\ ~SecondMarking' /\ ~Running'
  BY <1>1, <1>2 DEF Quiet, Roots, Marking, FirstMarking, SecondMarking, Running
<1>5. \A c \in marked : contents'[c] = contents[c] /\ ref'[c] = ref[c]
  BY <1>1, <1>2
<1>6. \A e \in weaks \cap marked : key'[e] = key[e]
  BY <1>1, <1>2 DEF HeapInv, HeapShape
<1>7. TypeOK'
  <2>1. /\ ref' \in [Boxes -> Nat] /\ nonRoot' \in [Boxes -> Nat]
        /\ contents' \in [Boxes -> SUBSET Boxes]
        /\ key' \in [Ephs -> Objects \cup {None}]
        /\ borrow' \in [Objects -> {"unused", "reading", "writing"}]
    BY <1>1, <1>2 DEF HeapInv, HeapShape
  <2>2. \A b \in Boxes \ Allocated' : contents'[b] = {} /\ ref'[b] = 0
    BY <1>2
  <2>3. QED
    BY <1>1, <1>2, <1>4, <2>1, <2>2 DEF Base, TypeOK
<1>8. (Finite /\ BorrowersHold /\ NoKeyNoValue)'
  <2>1. Finite'
    BY <1>1, <1>2, FS_Subset DEF HeapInv, Finite
  <2>2. BorrowersHold'
    BY <1>1, <1>2 DEF HeapInv, BorrowersHold
  <2>3. NoKeyNoValue'
    BY <1>1, <1>2 DEF HeapInv, NoKeyNoValue, Boxes
  <2>4. QED
    BY <2>1, <2>2, <2>3
<1>9. NoDangling'
  BY <1>2, <1>3, <1>5, <1>6 DEF NoDangling, Roots
<1>10. Quiet'
  BY <1>2, <1>4 DEF Quiet
<1>11. CountInv'
  <2>1. ASSUME NEW b PROVE LiveContainers(b)' = Containers(b) \cap marked
    BY <1>1, <1>2, <1>4, <1>5 DEF LiveContainers, Containers
  <2>2. QED
    BY <1>2, <1>3, <1>5, <2>1 DEF CountInv
<1>12. MapsInv'
  <2>1. weakMaps \subseteq weaks \cap marked
    BY GcAssumption, <1>1, <1>3 DEF Roots, HeapInv, HeapShape, Allocated
  <2>2. {key'[e] : e \in weakMaps} = {key[e] : e \in weakMaps}
    BY <1>6, <2>1
  <2>3. QED
    BY <1>2, <1>3, <1>4, <2>2 DEF MapsInv
<1>13. Base'
  BY <1>7, <1>8, <1>9, <1>10, <1>11, <1>12 DEF Base
<1>14. RootsInv' /\ ReachInv'
  BY <1>4 DEF RootsInv, ReachInv
<1>15. QED
  BY <1>4, <1>13, <1>14 DEF IInv

\* The maps give up the entries whose keys are gone.
LEMMA ClearMapsOK ==
  ASSUME IInv, ClearMaps
  PROVE  IInv'
<1>1. /\ Base /\ HeapInv /\ Quiet
      /\ ref \in [Boxes -> Nat] /\ Allocated \subseteq Boxes /\ IsFiniteSet(Allocated)
  BY BaseFacts, AllocatedFinite DEF IInv, HeapInv
<1>2. /\ pc = "clear" /\ pc' = "mutator" /\ ~finalized' /\ previousLen' = 0
      /\ weakMaps' = {e \in weakMaps : key[e] # None}
      /\ contents' = [b \in Boxes |-> IF b \in Cleared THEN contents[b] \ Expired(b) ELSE contents[b]]
      /\ ref' = [b \in Boxes |-> ref[b] - Cardinality({o \in Cleared : b \in Expired(o)})
                                        - CountIn(b, weakMaps \ weakMaps')]
      /\ UNCHANGED <<strongs, weaks, maps, key, held, borrow, nonRoot, marked, work, gray, dead, pending>>
      /\ Allocated' = Allocated /\ finalized' = FALSE
  BY DEF ClearMaps, Allocated
<1>3. ~Marking /\ ~SecondMarking /\ ~Marking' /\ ~SecondMarking' /\ ~FirstMarking' /\ Running'
  BY <1>2 DEF Marking, SecondMarking, FirstMarking, Running
<1>4. Cleared \subseteq Allocated
  BY <1>1 DEF Cleared, HeapInv, HeapShape, Allocated
<1>5. \A c \in Allocated : contents'[c] = IF c \in Cleared THEN contents[c] \ Expired(c) ELSE contents[c]
  BY <1>1, <1>2
<1>6. ASSUME NEW b \in Allocated
      PROVE  /\ ref'[b] \in Nat
             /\ ref'[b] = Cardinality(Containers(b)') + CountIn(b, held) + CountIn(b, weakMaps')
  <2> DEFINE X == {o \in Cleared : b \in Expired(o)}
             n == Cardinality(Containers(b))
             x == Cardinality(X)
             y == Cardinality(Containers(b) \ X)
  <2>1. X \subseteq Containers(b) /\ Containers(b) \subseteq Allocated
    BY <1>4 DEF Containers, Expired
  <2>2. IsFiniteSet(Containers(b)) /\ n \in Nat
    BY <1>1, <2>1, FS_Subset, FS_CardinalityType
  <2>3. Containers(b) \cap X = X
    BY <2>1
  <2>4. IsFiniteSet(Containers(b) \ X) /\ y = n - x
    BY <2>2, <2>3, FS_Difference
  <2>5. y \in Nat
    BY <2>4, FS_CardinalityType
  <2>6. IsFiniteSet(X)
    BY <2>1, <2>2, FS_Subset
  <2>7. x \in Nat
    BY <2>6, FS_CardinalityType
  <2>8. Containers(b)' = Containers(b) \ X
    <3>1. Containers(b)' = {c \in Allocated : b \in contents'[c]}
      BY <1>2 DEF Containers
    <3>2. \A c \in Allocated : b \in contents'[c] <=> b \in contents[c] /\ c \notin X
      BY <1>5
    <3> HIDE DEF X
    <3>3. QED
      BY <3>1, <3>2 DEF Containers
  <2>9. ref[b] = n + CountIn(b, held) + CountIn(b, weakMaps)
    BY <1>1, <1>3 DEF Base, CountInv, LiveContainers
  <2>10. CountIn(b, weakMaps \ weakMaps') = CountIn(b, weakMaps) - CountIn(b, weakMaps')
    BY <1>2, CountWithout
  <2>11. ref'[b] = ref[b] - x - CountIn(b, weakMaps \ weakMaps')
    BY <1>1, <1>2
  <2>12. CountIn(b, held) \in Nat /\ CountIn(b, weakMaps) \in Nat /\ CountIn(b, weakMaps') \in Nat
    BY CountType
  <2>13. Cardinality(Containers(b)') = y
    BY <2>8
  <2> HIDE DEF n, x, y, X
  <2>14. ref'[b] = y + CountIn(b, held) + CountIn(b, weakMaps')
    BY <2>2, <2>4, <2>5, <2>7, <2>9, <2>10, <2>11, <2>12
  <2>15. ref'[b] \in Nat
    BY <2>5, <2>12, <2>14
  <2>16. QED
    BY <2>13, <2>14, <2>15
<1>7. ASSUME NEW b \in Boxes \ Allocated PROVE ref'[b] = 0 /\ contents'[b] = {}
  <2>1. ref[b] = 0 /\ contents[b] = {}
    BY <1>1 DEF Base, TypeOK
  <2>2. {o \in Cleared : b \in Expired(o)} = {}
    BY <1>1, <1>4 DEF Expired, HeapInv, NoDangling
  <2>3. CountIn(b, weakMaps \ weakMaps') = 0
    BY <1>1 DEF CountIn, HeapInv, NoDangling
  <2>4. QED
    BY <1>2, <1>4, <2>1, <2>2, <2>3, FS_EmptySet
<1>8. TypeOK'
  <2>1. ref' \in [Boxes -> Nat]
    <3>1. \A b \in Boxes : ref'[b] \in Nat
      BY <1>6, <1>7
    <3>2. QED
      BY <1>2, <3>1
  <2>2. contents' \in [Boxes -> SUBSET Boxes] /\ weakMaps' \subseteq Ephs
    BY <1>1, <1>2 DEF HeapInv, HeapShape
  <2>3. QED
    BY <1>1, <1>2, <1>7, <2>1, <2>2 DEF Base, TypeOK
<1>9. (Finite /\ NoDangling /\ BorrowersHold /\ NoKeyNoValue)'
  <2>1. Finite' /\ BorrowersHold'
    BY <1>1, <1>2 DEF Base, Finite, BorrowersHold
  <2>2. NoDangling'
    BY <1>1, <1>2, <1>5 DEF HeapInv, NoDangling
  <2>3. NoKeyNoValue'
    BY <1>1, <1>2 DEF HeapInv, NoKeyNoValue, Boxes
  <2>4. QED
    BY <2>1, <2>2, <2>3
<1>10. Quiet'
  BY <1>1, <1>2, <1>3 DEF Quiet
<1>11. CountInv'
  BY <1>2, <1>3, <1>6 DEF CountInv, LiveContainers
<1>12. MapsInv'
  <2>1. {key[e] : e \in weakMaps} \ {None} = maps
    BY <1>1, <1>3 DEF Base, MapsInv
  <2>2. {key[e] : e \in weakMaps'} \ {None} = {key[e] : e \in weakMaps} \ {None}
    BY <1>2
  <2>3. \A e \in weakMaps' : key[e] # None
    BY <1>2
  <2>4. QED
    BY <1>2, <1>3, <2>1, <2>2, <2>3 DEF MapsInv
<1>13. Base'
  BY <1>8, <1>9, <1>10, <1>11, <1>12 DEF Base
<1>14. RootsInv' /\ ReachInv'
  BY <1>3 DEF RootsInv, ReachInv
<1>15. QED
  BY <1>3, <1>13, <1>14 DEF IInv

------------------------------------------------------------------------------
(* The theorems. *)

\* When a marking ends, what is marked is what is reachable.
LEMMA MarkedIsReachable ==
  ASSUME IInv, pc = "marked"
  PROVE  marked = Reachable
<1>1. /\ HeapInv /\ ReachInv /\ Marking /\ gray = {} /\ marked \subseteq Allocated
  BY BaseFacts DEF IInv, Marking, Quiet
<1>2. Closed(marked)
  <2>1. CASE finalized
    BY <1>1, <2>1 DEF IInv, SecondMarking, SecondInv, Closed
  <2>2. CASE ~finalized
    <3>1. /\ Roots \subseteq marked
          /\ \A o \in marked \cap Objects : contents[o] \subseteq marked
          /\ \A e \in weaks : Active(e) => contents[e] \subseteq marked
      BY <2>2, FirstDone
    <3>2. marked \cap Ephs \subseteq weaks
      BY GcAssumption, <1>1 DEF HeapInv, HeapShape, Allocated
    <3>3. QED
      BY <3>1, <3>2 DEF Closed, Active
  <2>3. QED
    BY <2>1, <2>2
<1>3. QED
  BY <1>1, <1>2, ReachLeast DEF ReachInv

\* A step that changes nothing keeps the invariant.
LEMMA Stutter ==
  ASSUME IInv, UNCHANGED vars
  PROVE  IInv'
<1>1. /\ UNCHANGED <<strongs, weaks, weakMaps, maps, contents, key, held, borrow, ref, nonRoot,
                      marked, pc, finalized, work, gray, dead, pending, previousLen>>
      /\ Allocated' = Allocated
  BY DEF vars, heap, collector, Allocated
<1>2. Marking' = Marking /\ FirstMarking' = FirstMarking /\ SecondMarking' = SecondMarking
      /\ Roots' = Roots
  BY <1>1 DEF Marking, FirstMarking, SecondMarking, Roots
<1>3. Base'
  <2>1. (Finite /\ TypeOK /\ NoDangling /\ BorrowersHold /\ NoKeyNoValue)'
    BY <1>1 DEF IInv, Base, Finite, TypeOK, NoDangling, BorrowersHold, NoKeyNoValue
  <2>2. Quiet'
    BY <1>1, <1>2 DEF IInv, Base, Quiet, Running
  <2>3. CountInv' /\ MapsInv'
    BY <1>1, <1>2 DEF IInv, Base, CountInv, LiveContainers, Containers, MapsInv, Running
  <2>4. QED
    BY <2>1, <2>2, <2>3 DEF Base
<1>4. RootsInv'
  BY <1>1, <1>2 DEF IInv, RootsInv, Rooted, Containers, TracedContainers, Traced
<1>5. ReachInv'
  BY <1>1, <1>2 DEF IInv, ReachInv, Reachable, Closed
<1>6. FirstInv => FirstInv'
  BY <1>1, <1>2 DEF FirstInv, RootedAreMarked, MarksAreTraced, DeadIsUnmarked, PassInv, Rooted, Active
<1>7. SecondInv => SecondInv'
  BY <1>1, <1>2 DEF SecondInv
<1>8. QED
  BY <1>2, <1>3, <1>4, <1>5, <1>6, <1>7 DEF IInv

\* Between collections the invariant is Base.
LEMMA RunningInv ==
  ASSUME Base, Running
  PROVE  IInv
BY DEF IInv, Running, RootsInv, ReachInv, FirstMarking, SecondMarking, Marking

\* No step breaks the invariant.
LEMMA StepInv ==
  ASSUME IInv, Next
  PROVE  IInv'
<1>1. CASE Mutator
  <2>1. Base' /\ Running'
    BY <1>1, MutatorStep DEF IInv
  <2>2. QED
    BY <2>1 DEF IInv, Running, RootsInv, ReachInv, FirstMarking, SecondMarking, Marking
<1>2. CASE Collect
  BY <1>2, CollectOK
<1>3. CASE \E n \in Objects : TraceNext(n)
  BY <1>3, TraceNextOK
<1>4. CASE \E o \in Objects : MarkStrong(o)
  BY <1>4, MarkStrongOK
<1>5. CASE EndStrong
  BY <1>5, EndStrongOK
<1>6. CASE \E e \in Ephs : MarkWeak(e)
  BY <1>6, MarkWeakOK
<1>7. CASE EndWeak
  BY <1>7, EndWeakOK
<1>8. CASE \E e \in Ephs : Retry(e)
  BY <1>8, RetryOK
<1>9. CASE EndPass
  BY <1>9, EndPassOK
<1>10. CASE Finalize
  BY <1>10, FinalizeOK
<1>11. CASE Sweep
  BY <1>11, SweepOK
<1>12. CASE ClearMaps
  BY <1>12, ClearMapsOK
<1>13. QED
  BY <1>1, <1>2, <1>3, <1>4, <1>5, <1>6, <1>7, <1>8, <1>9, <1>10, <1>11, <1>12 DEF Next, Collector

\* The invariant holds in every state of every execution.
THEOREM InvariantHolds == Spec => []IInv
<1>1. Init => IInv
  BY InitInv, RunningInv DEF Init, Running
<1>2. IInv /\ [Next]_vars => IInv'
  BY StepInv, Stutter
<1>3. QED
  BY <1>1, <1>2, PTL DEF Spec

\* What is free is blank, and the loops of Collector::collect range over boxes
\* that are allocated.
THEOREM HeapShapeHolds == Spec => []TypeOK
<1>1. IInv => TypeOK
  BY DEF IInv, Base
<1>2. QED
  BY <1>1, InvariantHolds, PTL

\* No handle, key or weak map box ever points to a box that sweep has freed:
\* what every unsafe dereference in core/gc relies on.
THEOREM NothingDangles == Spec => []NoDangling
<1>1. IInv => NoDangling
  BY DEF IInv, Base
<1>2. QED
  BY <1>1, InvariantHolds, PTL

\* Between collections ref_count is the number of handles; while mark_heap runs
\* is_rooted() is exact; a weak map is tracked exactly as long as it lives.
THEOREM BooksHold == Spec => []BooksAreExact
<1>1. ASSUME IInv PROVE BooksAreExact
  <2>1. Base /\ RootsInv
    BY <1>1 DEF IInv
  <2>2. CountsAreExact
    BY <2>1 DEF Base, CountInv, CountsAreExact, LiveContainers, SecondMarking, Marking, Running
  <2>3. RootsAreExact
    BY <2>1 DEF RootsInv, RootsAreExact, FirstMarking, Marking
  <2>4. MapsAreTracked
    BY <2>1, RunningFacts DEF MapsAreTracked, WeakMapsInv
  <2>5. QED
    BY <2>2, <2>3, <2>4 DEF BooksAreExact
<1>2. QED
  BY <1>1, InvariantHolds, PTL

\* sweep alone ends the marked phase for good.
LEMMA OnlySweepClears ==
  ASSUME [Next]_vars, pc = "marked", pc' = "clear"
  PROVE  Sweep
<1>1. pc' # pc /\ ~Running
  BY DEF Running
<1>2. ~UNCHANGED vars
  BY <1>1 DEF vars, collector
<1>3. ~Mutator
  BY <1>1 DEF Mutator, New, NewEphemeron, NewWeakMap, Insert, Take, Store, Load, Drop, SetBorrow
<1>4. ~(Collect \/ EndStrong \/ EndWeak \/ EndPass \/ Finalize \/ ClearMaps)
  BY DEF Collect, EndStrong, EndWeak, EndPass, EndMarking, StartPass, Finalize, ClearMaps, Running
<1>5. /\ ~\E n \in Objects : TraceNext(n)
      /\ ~\E o \in Objects : MarkStrong(o)
      /\ ~\E e \in Ephs : MarkWeak(e)
      /\ ~\E e \in Ephs : Retry(e)
  BY DEF TraceNext, MarkStrong, MarkWeak, Retry
<1>6. QED
  BY <1>2, <1>3, <1>4, <1>5 DEF Next, Collector

\* A collection frees everything the program cannot reach, and nothing else.
THEOREM SweepExact == Spec => SweepIsExact
<1>1. ASSUME IInv, [Next]_vars, pc = "marked", pc' = "clear"
      PROVE  Allocated' = Reachable
  <2>1. Sweep /\ marked = Reachable /\ marked \subseteq Allocated
    BY <1>1, OnlySweepClears, MarkedIsReachable, BaseFacts DEF IInv
  <2>2. Allocated' = marked
    BY <2>1 DEF Sweep, Allocated
  <2>3. QED
    BY <2>1, <2>2
<1>2. IInv /\ [Next]_vars => [pc = "marked" /\ pc' = "clear" => Allocated' = Reachable]_vars
  BY <1>1
<1>3. QED
  BY <1>2, InvariantHolds, PTL DEF Spec, SweepIsExact

\* Only run_finalizer and sweep take the key of an ephemeron.
LEMMA KeysChange ==
  ASSUME IInv, [Next]_vars, NEW e \in weaks, key'[e] # key[e]
  PROVE  (Finalize \/ Sweep) /\ pc = "marked"
<1>1. key \in [Ephs -> Objects \cup {None}] /\ e \in Ephs /\ e \in Allocated
  BY BaseFacts DEF IInv, HeapInv, HeapShape, Allocated
<1>2. key' # key
  OBVIOUS
<1>3. ~UNCHANGED vars
  BY <1>2 DEF vars, heap
<1>4. ~Mutator
  <2>1. \A x, k, v : x \in Ephs => ~MakeEphemeron(x, k, v)
    BY <1>1 DEF MakeEphemeron
  <2>2. \A o \in Objects, x \in Ephs : ~NewWeakMap(o, x)
    BY <1>1 DEF NewWeakMap
  <2>3. QED
    BY <1>2, <2>1, <2>2
       DEF Mutator, New, NewEphemeron, Insert, Take, Store, Load, Drop, SetBorrow, heap
<1>5. ~(Collect \/ EndStrong \/ EndWeak \/ EndPass \/ ClearMaps)
  BY <1>2 DEF Collect, EndStrong, EndWeak, EndPass, ClearMaps, InCollection, heap
<1>6. /\ ~\E n \in Objects : TraceNext(n)
      /\ ~\E o \in Objects : MarkStrong(o)
      /\ ~\E x \in Ephs : MarkWeak(x)
      /\ ~\E x \in Ephs : Retry(x)
  BY <1>2 DEF TraceNext, MarkStrong, MarkWeak, Retry, InCollection, heap
<1>7. Finalize \/ Sweep
  BY <1>3, <1>4, <1>5, <1>6 DEF Next, Collector
<1>8. QED
  BY <1>7 DEF Finalize, Sweep

\* An ephemeron loses its key only if it or its key cannot be reached.
THEOREM WeakReferencesStay == Spec => WeakReferencesHold
<1>1. ASSUME IInv, [Next]_vars, NEW e \in weaks, key[e] # None, key'[e] # key[e]
      PROVE  {e, key[e]} \cap (Allocated \ Reachable) # {}
  <2>1. (Finalize \/ Sweep) /\ pc = "marked"
    BY <1>1, KeysChange
  <2>2. marked = Reachable
    BY <1>1, <2>1, MarkedIsReachable
  <2>3. e \in Allocated /\ key[e] \in Allocated /\ e \in Ephs
    BY <1>1, BaseFacts DEF IInv, HeapInv, HeapShape, NoDangling, Allocated
  <2>4. e \notin marked \/ key[e] \notin marked
    <3>1. CASE Finalize
      <4>1. ~finalized /\ e \in pending
        BY <1>1, <2>3, <3>1 DEF Finalize
      <4>2. ~Active(e)
        BY <1>1, <2>1, <4>1, FirstDone
      <4>3. QED
        BY <4>2 DEF Active
    <3>2. CASE Sweep
      BY <1>1, <2>3, <3>2 DEF Sweep
    <3>3. QED
      BY <2>1, <3>1, <3>2
  <2>5. QED
    BY <2>2, <2>3, <2>4
<1>2. IInv /\ [Next]_vars =>
        [\A e \in weaks :
           key[e] # None /\ key'[e] # key[e] => {e, key[e]} \cap (Allocated \ Reachable) # {}]_vars
  BY <1>1
<1>3. QED
  BY <1>2, InvariantHolds, PTL DEF Spec, WeakReferencesHold

------------------------------------------------------------------------------
(* The end of a collection.  mark_heap has loops within loops: each of them *)
(* brings the collection closer to its end.                                 *)

\* The phases that are still to come,
PhasesLeft ==
  LET ofThisMarking == IF pc = "strong" THEN 5 ELSE IF pc = "weak" THEN 4 ELSE IF pc = "retry" THEN 3
                       ELSE IF pc = "marked" THEN 2 ELSE IF pc = "clear" THEN 1 ELSE 0
  IN IF finalized THEN ofThisMarking ELSE ofThisMarking + 5

\* what this phase has still to visit, the boxes without a mark, and the queue.
WorkLeft == Cardinality(work)
Unmarked == Cardinality(Allocated \ marked)
Queued   == Cardinality(gray)

\* A step brings the end closer if it ends a phase, or a pass over fewer
\* ephemerons begins, or a box has been visited, or marked, or taken from the queue:
\* the lexicographic order, in which there is no infinite descent.
Closer ==
  \/ PhasesLeft' < PhasesLeft
  \/ /\ PhasesLeft' = PhasesLeft
     /\ \/ previousLen' < previousLen
        \/ previousLen' = previousLen /\ WorkLeft' < WorkLeft
        \/ previousLen' = previousLen /\ WorkLeft' = WorkLeft /\ Unmarked' < Unmarked
        \/ /\ previousLen' = previousLen /\ WorkLeft' = WorkLeft /\ Unmarked' = Unmarked
           /\ Queued' < Queued

CollectionEnds == [][~Running => Running' \/ Closer]_vars

\* Some step of the collector has its guard, so that a collection that has begun is
\* never stuck; and what it counts down are natural numbers.
GoesOn ==
  ~Running =>
    /\ \/ \E o \in Objects : o \in gray
       \/ pc \in {"strong", "weak", "retry"} /\ gray = {} /\ work = {}
       \/ pc = "strong" /\ gray = {} /\ \E o \in Objects : o \in work
       \/ pc \in {"weak", "retry"} /\ gray = {} /\ \E e \in Ephs : e \in work
       \/ pc = "marked" /\ ~finalized /\ (dead # {} \/ pending # {})
       \/ pc = "marked" /\ (finalized \/ (dead = {} /\ pending = {}))
       \/ pc = "clear"
    /\ {PhasesLeft, previousLen, WorkLeft, Unmarked, Queued} \subseteq Nat

\* A pass tries each ephemeron once, and there are no more of them than at its start.
PassFits ==
  pc = "retry" => work \cap pending = {} /\ Cardinality(work \cup pending) <= previousLen

\* What the collector counts is finite.
LEMMA CountedSets ==
  ASSUME IInv
  PROVE  /\ IsFiniteSet(Allocated) /\ IsFiniteSet(Allocated \ marked)
         /\ IsFiniteSet(work) /\ IsFiniteSet(gray) /\ IsFiniteSet(pending)
         /\ {Cardinality(work), Cardinality(Allocated \ marked), Cardinality(gray), Cardinality(pending)} \subseteq Nat
<1>1. /\ Finite /\ work \subseteq Allocated /\ gray \subseteq strongs /\ pending \subseteq weaks
  BY DEF IInv, Base, TypeOK
<1>2. IsFiniteSet(Allocated)
  BY <1>1, AllocatedFinite
<1>3. IsFiniteSet(Allocated \ marked) /\ IsFiniteSet(work) /\ IsFiniteSet(gray) /\ IsFiniteSet(pending)
  BY <1>1, <1>2, FS_Subset DEF Finite
<1> QED BY <1>2, <1>3, FS_CardinalityType

\* The passes stay within their bound.
LEMMA PassFitsStep ==
  ASSUME IInv, PassFits, [Next]_vars
  PROVE  PassFits'
<1> SUFFICES ASSUME pc' = "retry" PROVE (work \cap pending)' = {} /\ Cardinality(work' \cup pending') <= previousLen'
  BY DEF PassFits
<1>1. IsFiniteSet(pending) /\ Cardinality(pending) \in Nat /\ IsFiniteSet(work)
  BY CountedSets
<1>2. CASE EndWeak \/ EndPass
  <2>1. work' = pending /\ pending' = {} /\ previousLen' = Cardinality(pending)
    BY <1>2 DEF EndWeak, EndPass, StartPass, EndMarking
  <2>2. work' \cup pending' = pending
    BY <2>1
  <2> QED BY <1>1, <2>1, <2>2
<1>3. CASE \E e \in Ephs : Retry(e)
  <2>1. PICK e \in Ephs : Retry(e)
    BY <1>3
  <2>2. /\ pc = "retry" /\ e \in work /\ work' = work \ {e} /\ previousLen' = previousLen
        /\ pending' \subseteq pending \cup {e}
    BY <2>1 DEF Retry, TraceEphemeron
  <2>3. work \cap pending = {} /\ Cardinality(work \cup pending) <= previousLen
    BY <2>2 DEF PassFits
  <2>4. work' \cup pending' \subseteq work \cup pending /\ work' \cap pending' = {}
    BY <2>2, <2>3
  <2>5. /\ IsFiniteSet(work \cup pending) /\ Cardinality(work \cup pending) \in Nat
        /\ Cardinality(work' \cup pending') \in Nat
        /\ Cardinality(work' \cup pending') <= Cardinality(work \cup pending)
    BY <1>1, <2>4, FS_Union, FS_Subset, FS_CardinalityType
  <2>6. previousLen \in Nat
    BY BaseFacts DEF IInv
  <2> QED BY <2>2, <2>3, <2>4, <2>5, <2>6
<1>4. CASE \E n \in Objects : TraceNext(n)
  <2>1. UNCHANGED <<pc, work, pending, previousLen>>
    BY <1>4 DEF TraceNext
  <2> QED BY <2>1 DEF PassFits
<1>5. CASE Mutator \/ UNCHANGED vars
  <2>1. UNCHANGED <<pc, work, pending, previousLen>>
    BY <1>5 DEF Mutator, New, NewEphemeron, NewWeakMap, Insert, Take, Store, Load, Drop, SetBorrow, vars, collector
  <2> QED BY <2>1 DEF PassFits
<1>6. ~(Collect \/ Finalize \/ Sweep \/ ClearMaps \/ EndStrong)
  BY DEF Collect, Finalize, Sweep, ClearMaps, EndStrong, EndMarking
<1>7. ~\E o \in Objects : MarkStrong(o)
  BY DEF MarkStrong
<1>8. ~\E e \in Ephs : MarkWeak(e)
  BY DEF MarkWeak
<1> QED BY <1>2, <1>3, <1>4, <1>5, <1>6, <1>7, <1>8 DEF Next, Collector

\* A set that loses an element, and one that is contained in another.
LEMMA FewerElements ==
  ASSUME NEW S, IsFiniteSet(S), NEW T \in SUBSET S
  PROVE  /\ Cardinality(T) \in Nat /\ Cardinality(S) \in Nat
         /\ T # S => Cardinality(T) < Cardinality(S)
<1>1. IsFiniteSet(T) /\ Cardinality(T) \in Nat /\ Cardinality(S) \in Nat /\ Cardinality(T) <= Cardinality(S)
  BY FS_Subset, FS_CardinalityType
<1>2. T # S => Cardinality(T) # Cardinality(S)
  BY FS_Subset
<1> QED BY <1>1, <1>2

\* Every step of the collector brings the end of the collection closer.
LEMMA CollectorCloser ==
  ASSUME IInv, PassFits, Next, ~Running
  PROVE  Running' \/ Closer
<1>f. /\ IsFiniteSet(work) /\ IsFiniteSet(gray) /\ IsFiniteSet(Allocated \ marked)
      /\ Cardinality(pending) \in Nat
  BY CountedSets
<1>t. previousLen \in Nat /\ finalized \in BOOLEAN
  BY BaseFacts DEF IInv, Base, TypeOK
<1>1. CASE \E n \in Objects : TraceNext(n)
  <2>1. PICK n \in Objects : TraceNext(n)
    BY <1>1
  <2>2. /\ UNCHANGED <<strongs, weaks, finalized, pc, work, previousLen>>
        /\ Allocated' = Allocated /\ n \in gray /\ n \in Allocated
    BY <2>1, BaseFacts DEF TraceNext, InCollection, heap, Allocated, IInv
  <2>3. PhasesLeft' = PhasesLeft /\ WorkLeft' = WorkLeft
    BY <2>2 DEF PhasesLeft, WorkLeft
  <2>4. CASE n \in marked
    <3>1. gray' = gray \ {n} /\ marked' = marked
      BY <2>1, <2>4 DEF TraceNext
    <3>2. Unmarked' = Unmarked /\ Queued' < Queued
      BY <1>f, <2>2, <3>1, FewerElements DEF Unmarked, Queued
    <3> QED BY <2>2, <2>3, <3>2 DEF Closer
  <2>5. CASE n \notin marked
    <3>1. marked \subseteq marked' /\ n \in marked'
      BY <2>1, <2>5 DEF TraceNext
    <3>2. Allocated' \ marked' \subseteq Allocated \ marked /\ n \in Allocated \ marked /\ n \notin Allocated' \ marked'
      BY <2>2, <2>5, <3>1
    <3>3. Unmarked' < Unmarked
      BY <1>f, <3>2, FewerElements DEF Unmarked
    <3> QED BY <2>2, <2>3, <3>3 DEF Closer
  <2> QED BY <2>4, <2>5
<1>2. CASE (\E o \in Objects : MarkStrong(o)) \/ (\E e \in Ephs : MarkWeak(e) \/ Retry(e))
  <2>1. PICK x : x \in work /\ work' = work \ {x} /\ UNCHANGED <<pc, previousLen, finalized>>
    BY <1>2 DEF MarkStrong, MarkWeak, Retry, InCollection
  <2>2. PhasesLeft' = PhasesLeft
    BY <2>1 DEF PhasesLeft
  <2>3. WorkLeft' < WorkLeft
    BY <1>f, <2>1, FewerElements DEF WorkLeft
  <2> QED BY <2>1, <2>2, <2>3 DEF Closer
<1>3. CASE EndStrong \/ EndWeak
  <2>1. pc \in {"strong", "weak"} /\ pc' \in {"weak", "retry", "marked"} /\ (pc = "weak" => pc' = "retry") /\ finalized' = finalized
    BY <1>3 DEF EndStrong, EndWeak, EndMarking, InCollection
  <2>2. PhasesLeft' < PhasesLeft
    BY <1>t, <2>1 DEF PhasesLeft
  <2> QED BY <2>2 DEF Closer
<1>4. CASE EndPass
  <2>1. pc = "retry" /\ work = {} /\ finalized' = finalized
    BY <1>4 DEF EndPass, InCollection
  <2>2. CASE previousLen = Cardinality(pending)
    <3>1. pc' = "marked"
      BY <1>4, <2>2 DEF EndPass, EndMarking
    <3>2. PhasesLeft' < PhasesLeft
      BY <1>t, <2>1, <3>1 DEF PhasesLeft
    <3> QED BY <3>2 DEF Closer
  <2>3. CASE previousLen # Cardinality(pending)
    <3>1. pc' = pc /\ previousLen' = Cardinality(pending)
      BY <1>4, <2>3 DEF EndPass, StartPass
    <3>2. Cardinality(pending) <= previousLen
      <4>1. work \cup pending = pending
        BY <2>1
      <4> QED BY <2>1, <4>1 DEF PassFits
    <3>3. PhasesLeft' = PhasesLeft /\ previousLen' < previousLen
      BY <1>f, <1>t, <2>1, <2>3, <3>1, <3>2 DEF PhasesLeft
    <3> QED BY <3>3 DEF Closer
  <2> QED BY <2>2, <2>3
<1>5. CASE Finalize \/ Sweep
  <2>1. pc = "marked" /\ (Finalize => ~finalized /\ finalized' = TRUE /\ pc' = "strong") /\ (Sweep => finalized' = finalized /\ pc' = "clear")
    BY <1>5 DEF Finalize, Sweep
  <2>2. PhasesLeft' < PhasesLeft
    BY <1>5, <1>t, <2>1 DEF PhasesLeft
  <2> QED BY <2>2 DEF Closer
<1>6. CASE ClearMaps
  BY <1>6 DEF ClearMaps, Running
<1>7. ~Mutator /\ ~Collect
  BY DEF Mutator, New, NewEphemeron, NewWeakMap, Insert, Take, Store, Load, Drop, SetBorrow, Collect
<1> QED BY <1>1, <1>2, <1>3, <1>4, <1>5, <1>6, <1>7 DEF Next, Collector

\* A collection always has a step to do, and every step brings its end closer: the loop over
\* the pending ephemerons ends, and tracing does, whatever refers to what.
THEOREM CollectionsEnd == Spec => []GoesOn /\ CollectionEnds
<1>1. Init => PassFits
  BY DEF Init, PassFits
<1>2. Spec => []PassFits
  BY <1>1, PassFitsStep, InvariantHolds, PTL DEF Spec
<1>3. IInv /\ PassFits /\ [Next]_vars => [~Running => Running' \/ Closer]_vars
  BY CollectorCloser
<1>4. ASSUME IInv PROVE GoesOn
  <2>1. /\ Quiet /\ gray \subseteq Objects /\ strongs \subseteq Objects /\ weaks \subseteq Ephs
        /\ pc \in {"mutator", "strong", "weak", "retry", "marked", "clear"} /\ finalized \in BOOLEAN /\ previousLen \in Nat
    BY <1>4 DEF IInv, Base, TypeOK
  <2>2. {PhasesLeft, previousLen, WorkLeft, Unmarked, Queued} \subseteq Nat
    BY <1>4, <2>1, CountedSets DEF PhasesLeft, WorkLeft, Unmarked, Queued
  <2>3. pc = "strong" => work \subseteq Objects
    BY <2>1 DEF Quiet
  <2>4. pc \in {"weak", "retry"} => work \subseteq Ephs
    BY <2>1 DEF Quiet
  <2> QED BY <2>1, <2>2, <2>3, <2>4 DEF GoesOn, Running
<1> QED BY <1>2, <1>3, <1>4, InvariantHolds, PTL DEF Spec, CollectionEnds

==============================================================================
