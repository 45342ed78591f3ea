---------------------------- MODULE StructureProofs ----------------------------
(****************************************************************************)
(* Proofs about the data structures of the engine, for all values of their   *)
(* constants: BufferViews, then OrderedMaps, then InlineCaches; and what all *)
(* parts of MCStructures have in common.                                    *)
(****************************************************************************)
EXTENDS MCStructures, GcProofs, PromiseProofs, SequenceFacts, FiniteSetTheorems

----------------------------------------------------------------------------
(* Multiples of an element size.                                            *)

\* More elements take no less space.
LEMMA TimesMonotone ==
  ASSUME NEW a \in Nat, NEW b \in Nat, NEW s \in Nat, a <= b
  PROVE  a * s \in Nat /\ a * s <= b * s
OBVIOUS

\* A multiple of a natural number is one.
LEMMA ProductInNat ==
  ASSUME NEW a \in Nat, NEW s \in Nat
  PROVE  a * s \in Nat
OBVIOUS

\* The element after a valid index begins within the array's end.
LEMMA NextIndex ==
  ASSUME NEW a \in Nat, NEW b \in Nat, NEW s \in Nat, a < b
  PROVE  a * s \in Nat /\ a * s + s <= b * s
OBVIOUS

\* What a range has before and after a place in it.
LEMMA SplitRange ==
  ASSUME NEW a \in Nat, NEW b \in Nat, NEW s \in Nat
  PROVE  a * s + (b - a) * s = b * s
OBVIOUS

\* The whole elements that fit in n bytes.
LEMMA WholeElements ==
  ASSUME NEW n \in Nat, NEW s \in Nat \ {0}
  PROVE  n \div s \in Nat /\ (n \div s) * s <= n
OBVIOUS

\* More bytes hold no fewer whole elements.
LEMMA MoreElements ==
  ASSUME NEW m \in Nat, NEW n \in Nat, NEW s \in Nat \ {0}, m <= n
  PROVE  m \div s <= n \div s
OBVIOUS

\* Elements of one byte.
LEMMA ByteElements ==
  ASSUME NEW n \in Nat
  PROVE  n \div 1 = n
OBVIOUS

----------------------------------------------------------------------------
(* The inductive invariant: types, and what an operation still knows of the  *)
(* view when it has looked at it once.                                      *)

ViewTypes ==
  /\ view.size \in Nat \ {0}
  /\ view.offset \in Nat
  /\ view.length \in Nat \cup {LengthTracking}
  /\ buffer \in Nat \cup {Detached}
  /\ known \in Nat /\ knownBytes \in Nat \cup {Detached}

StillKnown ==
  /\ op = "DataView" => view.size = 1
  /\ op = "atomic" =>
       ~IsOutOfBounds(view, knownBytes) /\ known = ArrayLength(view, knownBytes)

BufferInv == ViewTypes /\ StillKnown /\ AccessesStayInView

\* Where a view that is in bounds begins and ends.
LEMMA ElementsInBounds ==
  ASSUME NEW v, v.size \in Nat \ {0}, v.offset \in Nat, v.length \in Nat \cup {LengthTracking},
         NEW bytes \in Nat \cup {Detached}, ~IsOutOfBounds(v, bytes)
  PROVE  /\ bytes \in Nat
         /\ ArrayLength(v, bytes) \in Nat
         /\ ArrayLength(v, bytes) * v.size \in Nat
         /\ v.offset + ArrayLength(v, bytes) * v.size <= bytes
<1>1. bytes \in Nat /\ v.offset <= bytes
  BY DEF IsOutOfBounds, Detached
<1>2. CASE v.length = LengthTracking
  <2>1. bytes - v.offset \in Nat
    BY <1>1
  <2> DEFINE n == (bytes - v.offset) \div v.size
  <2>2. n \in Nat /\ n * v.size <= bytes - v.offset
    BY <2>1, WholeElements
  <2>3. n * v.size \in Nat
    BY <2>2, ProductInNat
  <2>4. ArrayLength(v, bytes) = n
    BY <1>2 DEF ArrayLength
  <2> HIDE DEF n
  <2> QED BY <1>1, <2>2, <2>3, <2>4
<1>3. CASE v.length # LengthTracking
  <2>1. v.length \in Nat /\ ArrayLength(v, bytes) = v.length
    BY <1>3 DEF ArrayLength
  <2>2. v.length * v.size \in Nat
    BY <2>1, ProductInNat
  <2>3. ByteEnd(v, bytes) = v.offset + v.length * v.size
    BY <1>3 DEF ByteEnd
  <2> QED BY <1>1, <2>1, <2>2, <2>3 DEF IsOutOfBounds
<1> QED BY <1>2, <1>3

\* Where an array that is in bounds begins and ends.
LEMMA ArrayInBounds ==
  ASSUME ViewTypes, NEW bytes \in Nat \cup {Detached}, ~IsOutOfBounds(view, bytes)
  PROVE  /\ bytes \in Nat
         /\ ArrayLength(view, bytes) \in Nat
         /\ ByteIndex(ArrayLength(view, bytes)) \in Nat
         /\ view.offset <= ByteIndex(ArrayLength(view, bytes))
         /\ ByteIndex(ArrayLength(view, bytes)) <= bytes
<1>1. /\ bytes \in Nat /\ ArrayLength(view, bytes) \in Nat
      /\ ArrayLength(view, bytes) * view.size \in Nat
      /\ view.offset + ArrayLength(view, bytes) * view.size <= bytes
  BY ElementsInBounds DEF ViewTypes
<1> QED BY <1>1 DEF ByteIndex, ViewTypes

\* An array does not shrink when its buffer has not.
LEMMA ArrayGrown ==
  ASSUME ViewTypes, NEW old \in Nat, NEW new \in Nat, old <= new,
         ~IsOutOfBounds(view, old)
  PROVE  ~IsOutOfBounds(view, new) /\ ArrayLength(view, old) <= ArrayLength(view, new)
<1>1. view.offset <= old
  BY DEF IsOutOfBounds, ViewTypes
<1>2. CASE view.length = LengthTracking
  <2>1. old - view.offset \in Nat /\ new - view.offset \in Nat /\ old - view.offset <= new - view.offset
    BY <1>1 DEF ViewTypes
  <2>2. (old - view.offset) \div view.size <= (new - view.offset) \div view.size
    BY <2>1, MoreElements DEF ViewTypes
  <2>3. ~IsOutOfBounds(view, new)
    <3>1. ByteEnd(view, new) = new /\ view.offset <= new
      BY <1>1, <1>2 DEF ByteEnd, ViewTypes
    <3> QED BY <3>1 DEF IsOutOfBounds, Detached, ViewTypes
  <2>4. /\ ArrayLength(view, old) = (old - view.offset) \div view.size
        /\ ArrayLength(view, new) = (new - view.offset) \div view.size
    BY <1>2 DEF ArrayLength
  <2> QED BY <2>2, <2>3, <2>4
<1>3. CASE view.length # LengthTracking
  <2> DEFINE end == view.offset + view.length * view.size
  <2>0. view.length \in Nat /\ view.length # LengthTracking
    BY <1>3 DEF ViewTypes
  <2>1. view.length * view.size \in Nat
    BY <2>0, ProductInNat DEF ViewTypes
  <2>3. /\ ByteEnd(view, old) = end /\ ByteEnd(view, new) = end
        /\ ArrayLength(view, old) = view.length /\ ArrayLength(view, new) = view.length
    BY <2>0 DEF ByteEnd, ArrayLength
  <2>2. end \in Nat /\ end <= old
    <3>1. end \in Nat
      BY <2>1 DEF ViewTypes
    <3> HIDE DEF end
    <3> QED BY <2>3, <3>1 DEF IsOutOfBounds
  <2>4. ArrayLength(view, new) \in Nat
    BY <2>0, <2>3
  <2> HIDE DEF end
  <2>5. ~IsOutOfBounds(view, new)
    BY <1>1, <2>2, <2>3 DEF IsOutOfBounds, ViewTypes, Detached
  <2> QED BY <2>3, <2>4, <2>5
<1> QED BY <1>2, <1>3

----------------------------------------------------------------------------
(* A stretch of bytes between two elements of an array that is in bounds.   *)

InView(first, count) ==
  /\ ByteIndex(ArrayLength(view, buffer)) <= buffer
  /\ view.offset <= first
  /\ first + count <= ByteIndex(ArrayLength(view, buffer))

\* Elements i to j, when j is at most the length, are in the view.
LEMMA RangeInView ==
  ASSUME ViewTypes, ~IsOutOfBounds(view, buffer), NEW i \in Nat, NEW j \in Nat,
         i <= j, j <= ArrayLength(view, buffer)
  PROVE  ByteIndex(i) \in Nat /\ InView(ByteIndex(i), (j - i) * view.size)
<1> DEFINE n == ArrayLength(view, buffer)
<1>1. n \in Nat /\ ByteIndex(n) <= buffer /\ ByteIndex(n) \in Nat /\ buffer \in Nat
  BY ArrayInBounds DEF ViewTypes
<1> HIDE DEF n
<1>2. /\ i * view.size \in Nat
      /\ i * view.size + (j - i) * view.size = j * view.size
      /\ j * view.size \in Nat /\ j * view.size <= n * view.size
      /\ n * view.size \in Nat
  <2>1. i * view.size + (j - i) * view.size = j * view.size
    BY SplitRange DEF ViewTypes
  <2>2. i * view.size \in Nat /\ n * view.size \in Nat
    BY <1>1, TimesMonotone DEF ViewTypes
  <2>3. j * view.size \in Nat /\ j * view.size <= n * view.size
    BY <1>1, TimesMonotone DEF ViewTypes, n
  <2> QED BY <2>1, <2>2, <2>3
<1>3. (j - i) * view.size \in Int
  BY DEF ViewTypes
<1>4. ByteIndex(i) \in Nat /\ view.offset <= ByteIndex(i)
  BY <1>2 DEF ByteIndex, ViewTypes
<1>5. ByteIndex(i) + (j - i) * view.size <= ByteIndex(n)
  BY <1>2, <1>3 DEF ByteIndex, ViewTypes
<1> QED BY <1>1, <1>4, <1>5 DEF InView, n

\* An element before the length is in the view.
LEMMA ElementInView ==
  ASSUME ViewTypes, ~IsOutOfBounds(view, buffer), NEW i \in Nat, i < ArrayLength(view, buffer)
  PROVE  InView(ByteIndex(i), view.size)
<1>1. ArrayLength(view, buffer) \in Nat
  BY ArrayInBounds DEF ViewTypes
<1>2. i + 1 \in Nat /\ i <= i + 1 /\ i + 1 <= ArrayLength(view, buffer)
  BY <1>1
<1>3. InView(ByteIndex(i), ((i + 1) - i) * view.size)
  BY <1>2, RangeInView
<1>4. ((i + 1) - i) * view.size = view.size
  BY DEF ViewTypes
<1> QED BY <1>3, <1>4

\* An access within the view satisfies the property in the next state.
LEMMA TouchesInView ==
  ASSUME NEW from, NEW to, NEW n, op # "bufferSlice",
         Touches(from, to, n), UNCHANGED <<buffer, view>>,
         InView(from, n), InView(to, n)
  PROVE  AccessesStayInView'
BY DEF Touches, Copies, InView, InElements, AccessesStayInView, ByteIndex, ArrayLength

\* So does a copy from it into a view with room for that many elements.
LEMMA CopiesInView ==
  ASSUME ViewTypes, NEW from, NEW count \in Nat, NEW target, NEW bytes \in Nat,
         target.size \in Nat \ {0}, target.offset \in Nat,
         target.length \in Nat \cup {LengthTracking},
         ~IsOutOfBounds(target, bytes), count <= ArrayLength(target, bytes),
         Copies(from, target.offset, count * target.size, target, bytes),
         op # "bufferSlice", UNCHANGED <<buffer, view>>, InView(from, count * target.size)
  PROVE  AccessesStayInView'
<1> DEFINE n == ArrayLength(target, bytes)
<1>1. n \in Nat /\ target.offset + n * target.size <= bytes
  BY ElementsInBounds
<1> HIDE DEF n
<1>2. /\ count * target.size \in Nat /\ n * target.size \in Nat
      /\ count * target.size <= n * target.size
  BY <1>1, TimesMonotone DEF n
<1>3. InElements(target, bytes, target.offset, count * target.size)
  BY <1>1, <1>2 DEF InElements, n
<1>4. InElements(view, buffer, from, count * target.size)
  BY DEF InView, InElements, ByteIndex, ViewTypes
<1>5. /\ access'.by # "bufferSlice" /\ access'.into = target /\ access'.space = bytes
      /\ access'.from = from /\ access'.to = target.offset
      /\ access'.count = count * target.size
  BY DEF Copies
<1> QED BY <1>3, <1>4, <1>5 DEF AccessesStayInView, InElements, ArrayLength

\* A step that touches no memory.
LEMMA NoAccessIsFine == ASSUME access' = NoAccess PROVE AccessesStayInView'
BY DEF NoAccess, AccessesStayInView

\* A store checks the index against the length it reads at that moment.
LEMMA StoreInView ==
  ASSUME ViewTypes, NEW i \in Nat, StoreAt(i), op # "bufferSlice", UNCHANGED <<buffer, view>>
  PROVE  AccessesStayInView'
<1>1. CASE buffer # Detached /\ ~IsOutOfBounds(view, buffer) /\ i < ArrayLength(view, buffer)
  <2>1. Touches(ByteIndex(i), ByteIndex(i), view.size)
    BY <1>1 DEF StoreAt
  <2> QED BY <1>1, <2>1, ElementInView, TouchesInView
<1>2. CASE ~(buffer # Detached /\ ~IsOutOfBounds(view, buffer) /\ i < ArrayLength(view, buffer))
  BY <1>2, NoAccessIsFine DEF StoreAt
<1> QED BY <1>1, <1>2

----------------------------------------------------------------------------
\* The invariant holds in the initial states.
LEMMA BufferInitInv == BufferInit => BufferInv
<1> SUFFICES ASSUME BufferInit PROVE BufferInv
  OBVIOUS
<1>1. ViewTypes
  <2>1. /\ view.size \in Sizes \cup {1} /\ view.offset \in 0..MaxBytes
        /\ view.length \in 0..MaxBytes \cup {LengthTracking}
        /\ buffer \in 0..MaxBytes /\ known = 0 /\ knownBytes = 0
    BY DEF BufferInit, Views
  <2>2. view.size \in Nat \ {0}
    <3>1. view.size \in Sizes \/ view.size = 1
      BY <2>1
    <3>2. \A s \in Sizes : s \in Nat \ {0}
      BY BufferAssumption
    <3> QED BY <3>1, <3>2
  <2>3. \A n \in 0..MaxBytes : n \in Nat
    BY BufferAssumption
  <2> QED BY <2>1, <2>2, <2>3 DEF ViewTypes
<1>2. StillKnown /\ AccessesStayInView
  BY DEF BufferInit, StillKnown, AccessesStayInView, NoAccess
<1> QED BY <1>1, <1>2 DEF BufferInv

\* Types and knowledge survive every step that keeps the view.
LEMMA KnowledgeKept ==
  ASSUME ViewTypes, StillKnown, BufferNext
  PROVE  ViewTypes' /\ StillKnown'
<1> USE DEF Detached
<1>1. view' = view
  BY DEF BufferNext, Resize, Detach, Begin, GiveUpOperation, CopyWithin, Fill, Slice, SliceBuffer,
         SetElement, SetFromArrayLike, AccessAtomic, AccessDataView
<1>2. CASE \E n \in 0..MaxBytes : Resize(n)
  BY <1>2, BufferAssumption DEF Resize, ViewTypes, StillKnown
<1>3. CASE Detach
  BY <1>3 DEF Detach, ViewTypes, StillKnown
<1>4. ASSUME NEW name, Begin(name) PROVE ViewTypes' /\ StillKnown'
  <2>1. IF IsOutOfBounds(view, buffer) THEN known' = 0
        ELSE known' = ArrayLength(view, buffer) /\ ArrayLength(view, buffer) \in Nat
    BY <1>4, ArrayInBounds DEF Begin, ViewTypes
  <2>2. ViewTypes'
    BY <1>4, <2>1 DEF Begin, ViewTypes
  <2>3. /\ op' = name /\ knownBytes' = buffer
        /\ name = "DataView" => view.size = 1
        /\ name = "atomic" => ~IsOutOfBounds(view, buffer)
    BY <1>4 DEF Begin
  <2>4. StillKnown'
    BY <1>1, <2>1, <2>3 DEF StillKnown, IsOutOfBounds, ByteEnd, ArrayLength
  <2> QED BY <2>2, <2>4
<1>5. CASE Finish /\ buffer' = buffer
  BY <1>1, <1>5 DEF Finish, ViewTypes, StillKnown
<1>6. CASE UNCHANGED <<buffer, op, known, knownBytes>>
  BY <1>1, <1>6 DEF ViewTypes, StillKnown, IsOutOfBounds, ByteEnd, ArrayLength
<1>7. ASSUME NEW i, AccessAtomic(i) \/ \E j : SliceBuffer(i, j) PROVE ViewTypes' /\ StillKnown'
  BY <1>5, <1>6, <1>7 DEF AccessAtomic, SliceBuffer
<1>8. ASSUME NEW i, NEW j, NEW k,
             \/ GiveUpOperation \/ CopyWithin(i, j, k) \/ Fill(i, j) \/ Slice(i, j)
             \/ SetElement(i) \/ AccessDataView(i, j)
      PROVE  ViewTypes' /\ StillKnown'
  BY <1>5, <1>8 DEF GiveUpOperation, CopyWithin, Fill, Slice, SetElement, AccessDataView
<1>9. ASSUME NEW i, SetFromArrayLike(i) PROVE ViewTypes' /\ StillKnown'
  BY <1>6, <1>9 DEF SetFromArrayLike
<1> QED BY <1>2, <1>3, <1>4, <1>7, <1>8, <1>9 DEF BufferNext

\* Every step preserves the invariant.
LEMMA BufferNextInv == BufferInv /\ [BufferNext]_bufferVars => BufferInv'
<1> SUFFICES ASSUME BufferInv, [BufferNext]_bufferVars PROVE BufferInv'
  OBVIOUS
<1>1. CASE UNCHANGED bufferVars
  BY <1>1 DEF bufferVars, BufferInv, ViewTypes, StillKnown, AccessesStayInView, IsOutOfBounds, ByteEnd,
              ArrayLength, InElements
<1>2. CASE BufferNext
  <2>t. ViewTypes /\ StillKnown /\ Indices \subseteq Nat
    BY BufferAssumption DEF BufferInv, Indices
  <2>k. ViewTypes' /\ StillKnown'
    BY <1>2, <2>t, KnowledgeKept
  <2>1. ASSUME NEW n, NEW name, Resize(n) \/ Detach \/ GiveUpOperation \/ Begin(name)
        PROVE  AccessesStayInView'
    BY <2>1, NoAccessIsFine DEF Resize, Detach, GiveUpOperation, Begin
  <2>2. ASSUME NEW to \in Indices, NEW from \in Indices, NEW final \in Indices,
               CopyWithin(to, from, final)
        PROVE  AccessesStayInView'
    <3> DEFINE n     == ArrayLength(view, buffer)
               limit == ByteIndex(n)
               count == Lesser(final - from, known - to)
               bytes == Lesser(count * view.size,
                               Lesser(limit - ByteIndex(to), limit - ByteIndex(from)))
    <3>1. /\ op = "copyWithin" /\ ~IsOutOfBounds(view, buffer)
          /\ Touches(ByteIndex(from), ByteIndex(to), bytes)
          /\ UNCHANGED <<buffer, view>>
          /\ {to, from, final} \subseteq 0..known
      BY <2>2 DEF CopyWithin
    <3>2. limit \in Nat /\ limit <= buffer /\ buffer \in Nat
      BY <2>t, <3>1, ArrayInBounds DEF ViewTypes
    <3>3. /\ ByteIndex(from) \in Nat /\ view.offset <= ByteIndex(from)
          /\ ByteIndex(to) \in Nat /\ view.offset <= ByteIndex(to)
      <4>1. from * view.size \in Nat /\ to * view.size \in Nat
        BY <2>t, TimesMonotone DEF ViewTypes
      <4> QED BY <2>t, <4>1 DEF ByteIndex, ViewTypes
    <3>4. count * view.size \in Int
      <4>1. final - from \in Int /\ known - to \in Int
        BY <2>t DEF ViewTypes
      <4> QED BY <2>t, <4>1 DEF Lesser, ViewTypes
    <3> HIDE DEF limit, count
    <3>5. /\ bytes \in Int
          /\ ByteIndex(from) + bytes <= limit /\ ByteIndex(to) + bytes <= limit
      BY <3>2, <3>3, <3>4 DEF Lesser
    <3> HIDE DEF bytes
    <3>6. InView(ByteIndex(from), bytes) /\ InView(ByteIndex(to), bytes)
      BY <3>2, <3>3, <3>5 DEF InView, limit
    <3> QED BY <3>1, <3>6, TouchesInView
  <2>3. ASSUME NEW start \in Indices, NEW end \in Indices, Fill(start, end)
        PROVE  AccessesStayInView'
    <3> DEFINE last == Lesser(end, ArrayLength(view, buffer))
    <3>1. /\ op # "bufferSlice" /\ ~IsOutOfBounds(view, buffer)
          /\ start < last
          /\ Touches(ByteIndex(start), ByteIndex(start), (last - start) * view.size)
          /\ UNCHANGED <<buffer, view>>
      BY <2>3 DEF Fill
    <3>2. last \in Nat /\ last <= ArrayLength(view, buffer)
      BY <2>t, <3>1, ArrayInBounds DEF Lesser, ViewTypes
    <3> HIDE DEF last
    <3>3. InView(ByteIndex(start), (last - start) * view.size)
      BY <2>t, <3>1, <3>2, RangeInView
    <3> QED BY <3>1, <3>3, TouchesInView
  <2>s. ASSUME NEW start \in Indices, NEW end \in Indices, Slice(start, end)
        PROVE  AccessesStayInView'
    <3> DEFINE last == Lesser(end, ArrayLength(view, buffer))
    <3>1. /\ op # "bufferSlice" /\ ~IsOutOfBounds(view, buffer)
          /\ start < last
          /\ UNCHANGED <<buffer, view>>
      BY <2>s DEF Slice
    <3>r. PICK bytes \in 0..MaxBytes : \E target \in Views(bytes, "resizable") :
             /\ target.size = view.size /\ end - start <= ArrayLength(target, bytes)
             /\ Copies(ByteIndex(start), target.offset, (last - start) * view.size, target, bytes)
      BY <2>s DEF Slice
    <3>2. PICK target \in Views(bytes, "resizable") :
             /\ target.size = view.size /\ end - start <= ArrayLength(target, bytes)
             /\ Copies(ByteIndex(start), target.offset, (last - start) * view.size, target, bytes)
      BY <3>r
    <3>3. last \in Nat /\ last <= ArrayLength(view, buffer) /\ last <= end
      BY <2>t, <3>1, ArrayInBounds DEF Lesser, ViewTypes
    <3> HIDE DEF last
    <3>4. InView(ByteIndex(start), (last - start) * view.size)
      BY <2>t, <3>1, <3>3, RangeInView
    <3>5. /\ bytes \in Nat /\ target.size \in Nat \ {0} /\ target.offset \in Nat
          /\ target.length \in Nat \cup {LengthTracking}
          /\ ~IsOutOfBounds(target, bytes)
      <4>1. \A n \in 0..MaxBytes : n \in Nat
        BY BufferAssumption
      <4> QED BY <2>t, <3>2, <4>1 DEF Views, ViewTypes
    <3>6. last - start \in Nat /\ last - start <= ArrayLength(target, bytes)
      <4>1. ArrayLength(target, bytes) \in Nat
        BY <3>5, ElementsInBounds
      <4> QED BY <2>t, <3>1, <3>2, <3>3, <4>1
    <3> QED BY <2>t, <3>1, <3>2, <3>4, <3>5, <3>6, CopiesInView
  <2>4. ASSUME NEW i \in Indices, SetElement(i) \/ SetFromArrayLike(i)
        PROVE  AccessesStayInView'
    BY <2>t, <2>4, StoreInView DEF SetElement, SetFromArrayLike
  <2>5. ASSUME NEW i \in Indices, NEW size \in Sizes, AccessDataView(i, size)
        PROVE  AccessesStayInView'
    <3>1. /\ op = "DataView" /\ ~IsOutOfBounds(view, buffer)
          /\ i + size <= ArrayLength(view, buffer)
          /\ Touches(i + view.offset, i + view.offset, size)
          /\ UNCHANGED <<buffer, view>>
      BY <2>5 DEF AccessDataView
    <3>2. size \in Nat /\ view.size = 1
      BY <2>t, <3>1, BufferAssumption DEF StillKnown
    <3>3. InView(ByteIndex(i), ((i + size) - i) * view.size)
      BY <2>t, <3>1, <3>2, RangeInView
    <3>4. ByteIndex(i) = i + view.offset /\ ((i + size) - i) * view.size = size
      BY <2>t, <3>2 DEF ByteIndex, ViewTypes
    <3> QED BY <3>1, <3>3, <3>4, TouchesInView
  <2>6. ASSUME NEW i \in Indices, AccessAtomic(i) PROVE AccessesStayInView'
    <3>1. CASE knownBytes > buffer
      BY <2>6, <3>1, NoAccessIsFine DEF AccessAtomic
    <3>2. CASE ~(knownBytes > buffer)
      <4>1. /\ op = "atomic" /\ i < known /\ buffer # Detached
            /\ Touches(ByteIndex(i), ByteIndex(i), view.size)
            /\ UNCHANGED <<buffer, view>>
        BY <2>6, <3>2 DEF AccessAtomic
      <4>2. ~IsOutOfBounds(view, knownBytes) /\ known = ArrayLength(view, knownBytes)
        BY <2>t, <4>1 DEF StillKnown
      <4>3. knownBytes \in Nat /\ buffer \in Nat /\ knownBytes <= buffer
        BY <2>t, <3>2, <4>1, <4>2, ArrayInBounds DEF ViewTypes
      <4>4. ~IsOutOfBounds(view, buffer) /\ known <= ArrayLength(view, buffer)
        BY <2>t, <4>2, <4>3, ArrayGrown
      <4>5. i < ArrayLength(view, buffer)
        <5>1. ArrayLength(view, buffer) \in Nat
          BY <2>t, <4>4, ArrayInBounds DEF ViewTypes
        <5> QED BY <2>t, <4>1, <4>4, <5>1 DEF ViewTypes
      <4> QED BY <2>t, <4>1, <4>4, <4>5, ElementInView, TouchesInView
    <3> QED BY <3>1, <3>2
  <2>7. ASSUME NEW first \in Indices, NEW final \in Indices, SliceBuffer(first, final)
        PROVE  AccessesStayInView'
    <3>1. CASE final > buffer
      BY <2>7, <3>1, NoAccessIsFine DEF SliceBuffer
    <3>2. CASE ~(final > buffer)
      <4>1. /\ op = "bufferSlice" /\ first <= final /\ buffer # Detached
            /\ UNCHANGED <<buffer, view>>
        BY <2>7, <3>2 DEF SliceBuffer
      <4>2. buffer \in Nat /\ first \in Nat /\ final \in Nat /\ final <= buffer
        BY <2>t, <3>2, <4>1 DEF ViewTypes
      <4>3. PICK bytes \in (final - first)..MaxBytes :
               Copies(first, 0, final - first, WholeBuffer, bytes)
        BY <2>7, <3>2 DEF SliceBuffer
      <4>4. \A n \in Int : ArrayLength(WholeBuffer, n) * WholeBuffer.size = n /\ WholeBuffer.offset = 0
        BY DEF ArrayLength, WholeBuffer
      <4>5. /\ InElements(WholeBuffer, buffer, first, final - first)
            /\ InElements(WholeBuffer, bytes, 0, final - first)
        BY <4>2, <4>4, BufferAssumption DEF InElements
      <4>6. /\ access'.by = "bufferSlice" /\ access'.into = WholeBuffer /\ access'.space = bytes
            /\ access'.from = first /\ access'.to = 0 /\ access'.count = final - first
        BY <4>1, <4>3 DEF Copies
      <4> QED BY <4>1, <4>5, <4>6 DEF AccessesStayInView, InElements, ArrayLength
    <3> QED BY <3>1, <3>2
  <2>8. AccessesStayInView'
    BY <1>2, <2>1, <2>2, <2>3, <2>s, <2>4, <2>5, <2>6, <2>7 DEF BufferNext
  <2> QED BY <2>k, <2>8 DEF BufferInv
<1> QED BY <1>1, <1>2

\* The invariant holds.
THEOREM BufferInvHolds == BufferSpec => []BufferInv
<1> QED BY BufferInitInv, BufferNextInv, PTL DEF BufferSpec

----------------------------------------------------------------------------
(* Whatever JavaScript or another agent does to the buffer while an          *)
(* operation of typed arrays, DataView or Atomics converts its arguments,    *)
(* the bytes that are then read and written are those of its view.          *)
THEOREM AccessesAreInView == BufferSpec => []AccessesStayInView
<1>1. BufferInv => AccessesStayInView
  BY DEF BufferInv
<1> QED BY <1>1, BufferInvHolds, PTL

\* A resize stays within the maximum, and nothing changes a buffer's sort or the
\* elements of a view.
LEMMA BufferLimits ==
  ASSUME BufferNext
  PROVE  /\ UNCHANGED <<sort, view>>
         /\ buffer' = buffer \/ buffer' \in 0..MaxBytes \cup {Detached}
         /\ panicked' = panicked \/ panicked' = TRUE
<1>1. CASE \E n \in 0..MaxBytes : Resize(n)
  BY <1>1 DEF Resize
<1>2. CASE Detach
  BY <1>2 DEF Detach
<1>3. CASE \E name \in {"copyWithin", "fill", "slice", "setElement", "setArrayLike",
                        "DataView", "atomic", "bufferSlice"} : Begin(name)
  BY <1>3 DEF Begin
<1>4. CASE GiveUpOperation
  BY <1>4 DEF GiveUpOperation
<1>5. CASE \E to, from, final \in Indices : CopyWithin(to, from, final)
  BY <1>5 DEF CopyWithin
<1>6. CASE \E i, j \in Indices : Fill(i, j) \/ Slice(i, j) \/ SliceBuffer(i, j)
  BY <1>6 DEF Fill, Slice, SliceBuffer
<1>7. CASE \E i \in Indices : SetElement(i) \/ SetFromArrayLike(i) \/ AccessAtomic(i)
  BY <1>7 DEF SetElement, SetFromArrayLike, AccessAtomic
<1>8. CASE \E i \in Indices, size \in Sizes : AccessDataView(i, size)
  BY <1>8 DEF AccessDataView
<1> QED BY <1>1, <1>2, <1>3, <1>4, <1>5, <1>6, <1>7, <1>8 DEF BufferNext

\* The variables of a buffer, its view and an operation keep their types.
THEOREM TheBuffersTypesAreCorrect == BufferSpec => []BufferTypeOK
<1>1. ASSUME BufferInit PROVE BufferTypeOK
  <2>1. view \in [size : Sizes \cup {1}, offset : 0..MaxBytes, length : 0..MaxBytes \cup {LengthTracking}]
    BY <1>1 DEF BufferInit, Views
  <2>2. view.size \in Sizes \cup {1} /\ view.offset \in Nat /\ view.length \in Nat \cup {LengthTracking}
    BY <2>1, BufferAssumption
  <2> QED BY <1>1, <2>2, BufferAssumption DEF BufferInit, BufferTypeOK
<1>2. BufferTypeOK /\ BufferInv' /\ [BufferNext]_bufferVars => BufferTypeOK'
  <2> SUFFICES ASSUME BufferTypeOK, BufferInv', [BufferNext]_bufferVars PROVE BufferTypeOK'
    OBVIOUS
  <2>1. known' \in Nat /\ knownBytes' \in Nat \cup {Detached}
    BY DEF BufferInv, ViewTypes
  <2>2. CASE BufferNext
    BY <2>1, <2>2, BufferLimits DEF BufferTypeOK
  <2>3. CASE UNCHANGED bufferVars
    BY <2>3 DEF BufferTypeOK, bufferVars
  <2> QED BY <2>2, <2>3
<1> QED BY <1>1, <1>2, BufferInvHolds, PTL DEF BufferSpec

----------------------------------------------------------------------------
(* OrderedMaps: what its lists of entries, walks and lock look like.        *)

Numbers == 0..MaxEntries

\* Entries, of which n are empty ones and have the numbers below n.
EntriesFit(es, n) ==
  /\ es \in Seq(Keys \cup Numbers)
  /\ Len(es) <= MaxEntries
  /\ IsInjective(es)
  /\ n \in Numbers
  /\ \A m \in Numbers : m < n <=> \E i \in 1..Len(es) : es[i] = m

EmptiesOf(es) == {i \in DOMAIN es : es[i] \notin Keys}

\* The empty entries are as many as their numbers.
LEMMA EmptiesAreNumbered ==
  ASSUME NEW es, NEW n, EntriesFit(es, n)
  PROVE  /\ IsFiniteSet(EmptiesOf(es))
         /\ Cardinality(EmptiesOf(es)) = n
<1>1. /\ es \in Seq(Keys \cup Numbers) /\ n \in Nat
      /\ DOMAIN es = 1..Len(es) /\ Len(es) \in Nat
      /\ \A i \in 1..Len(es) : es[i] \in Keys \cup Numbers
      /\ \A i, j \in 1..Len(es) : es[i] = es[j] => i = j
  BY OrderedMapAssumption, LenProperties, ElementOfSeq DEF EntriesFit, IsInjective, Numbers
<1>2. PICK S, T, f : /\ S = EmptiesOf(es) /\ T = 0..(n - 1)
                     /\ f = [i \in EmptiesOf(es) |-> es[i]]
  OBVIOUS
<1>3. \A i \in S : i \in 1..Len(es) /\ es[i] \in T /\ f[i] = es[i]
  <2> SUFFICES ASSUME NEW i \in S PROVE i \in 1..Len(es) /\ es[i] \in T /\ f[i] = es[i]
    OBVIOUS
  <2>1. i \in 1..Len(es) /\ es[i] \notin Keys /\ f[i] = es[i]
    BY <1>1, <1>2 DEF EmptiesOf
  <2>2. es[i] \in Numbers
    BY <1>1, <2>1
  <2>3. es[i] < n
    BY <2>1, <2>2 DEF EntriesFit
  <2> QED BY <1>1, <1>2, <2>1, <2>2, <2>3 DEF Numbers
<1>4. ASSUME NEW m \in T PROVE \E i \in S : es[i] = m
  <2>1. m \in Numbers /\ m < n
    BY <1>2, <1>4, OrderedMapAssumption DEF EntriesFit, Numbers
  <2>2. PICK i \in 1..Len(es) : es[i] = m
    BY <2>1 DEF EntriesFit
  <2>3. m \notin Keys
    BY <2>1, OrderedMapAssumption DEF Numbers
  <2> QED BY <1>1, <1>2, <2>2, <2>3 DEF EmptiesOf
<1>5. f \in [S -> T]
  BY <1>2, <1>3
<1>6. f \in Injection(S, T)
  BY <1>1, <1>3, <1>5 DEF Injection, IsInjective
<1>7. f \in Surjection(S, T)
  BY <1>3, <1>4, <1>5 DEF Surjection
<1>8. IsFiniteSet(T) /\ Cardinality(T) = n
  BY <1>1, <1>2, FS_Interval
<1>9. IsFiniteSet(S) /\ (Cardinality(S) = Cardinality(T) <=> f \in Surjection(S, T))
  BY <1>6, <1>8, FS_Injection
<1> QED BY <1>2, <1>7, <1>8, <1>9

\* What EntriesFit says, place by place.
LEMMA FitFacts ==
  ASSUME NEW es, NEW n, EntriesFit(es, n)
  PROVE  /\ DOMAIN es = 1..Len(es) /\ Len(es) \in Nat /\ n \in Nat /\ MaxEntries \in Nat
         /\ \A i \in 1..Len(es) : es[i] \in Keys \cup Numbers
         /\ \A i \in 1..Len(es) : es[i] \in Keys <=> es[i] \notin Numbers
         /\ \A i, j \in 1..Len(es) : es[i] = es[j] => i = j
BY OrderedMapAssumption, LenProperties, ElementOfSeq DEF EntriesFit, IsInjective, Numbers

\* There are fewer empty entries than entries, where there is a key.
LEMMA RoomForAnEmpty ==
  ASSUME NEW es, NEW n, EntriesFit(es, n), NEW i \in 1..Len(es), es[i] \in Keys
  PROVE  n < Len(es) /\ n + 1 \in Numbers
<1>1. PICK S, T, U : S = EmptiesOf(es) /\ T = 1..Len(es) /\ U = T \ {i}
  OBVIOUS
<1>2. Len(es) \in Nat /\ DOMAIN es = T /\ n \in Nat
  BY <1>1, FitFacts
<1>3. IsFiniteSet(T) /\ Cardinality(T) = Len(es)
  <2>1. PICK l, one : l = Len(es) /\ one = 1
    OBVIOUS
  <2>2. l \in Int /\ one \in Int /\ T = one..l
    BY <1>1, <1>2, <2>1
  <2>3. IsFiniteSet(T) /\ Cardinality(T) = IF one > l THEN 0 ELSE l - one + 1
    BY <2>2, FS_Interval
  <2> QED BY <1>2, <2>1, <2>3
<1>4. IsFiniteSet(U) /\ Cardinality(U) = Len(es) - 1
  <2>1. i \in T
    BY <1>1
  <2> QED BY <1>1, <1>3, <2>1, FS_RemoveElement
<1>5. S \in SUBSET U
  BY <1>1, <1>2 DEF EmptiesOf
<1>6. Cardinality(S) <= Cardinality(U)
  BY <1>4, <1>5, FS_Subset
<1>7. Cardinality(S) = n
  BY <1>1, EmptiesAreNumbered
<1> QED BY <1>2, <1>4, <1>6, <1>7, OrderedMapAssumption DEF EntriesFit, Numbers

\* A key is added.
LEMMA InsertFits ==
  ASSUME NEW es, NEW n, EntriesFit(es, n), NEW k \in Keys,
         Len(es) < MaxEntries, ~ Contains(es, k), NEW fs, fs = Append(es, k)
  PROVE  EntriesFit(fs, n)
<1>1. /\ es \in Seq(Keys \cup Numbers) /\ Len(es) \in Nat /\ n \in Nat /\ MaxEntries \in Nat
      /\ \A i, j \in 1..Len(es) : es[i] = es[j] => i = j
  BY FitFacts DEF EntriesFit
<1>2. /\ fs \in Seq(Keys \cup Numbers) /\ Len(fs) = Len(es) + 1
      /\ fs[Len(es) + 1] = k /\ \A i \in 1..Len(es) : fs[i] = es[i]
  BY <1>1, AppendProperties
<1>3. DOMAIN fs = 1..Len(es) + 1
  BY <1>2, LenProperties
<1>4. \A i \in 1..Len(es) + 1 : i \in 1..Len(es) \/ i = Len(es) + 1
  BY <1>1
<1>5. \A i \in 1..Len(es) : es[i] # k
  BY DEF Contains
<1>6. IsInjective(fs)
  BY <1>1, <1>2, <1>3, <1>4, <1>5 DEF IsInjective
<1>7. \A m \in Numbers : m # k
  BY OrderedMapAssumption DEF Numbers
<1>8. \A m \in Numbers : m < n <=> \E i \in 1..Len(fs) : fs[i] = m
  <2>1. \A i \in 1..Len(es) : i \in 1..Len(es) + 1
    BY <1>1
  <2>2. \A m \in Numbers : (\E i \in 1..Len(fs) : fs[i] = m) <=> \E i \in 1..Len(es) : es[i] = m
    BY ONLY <1>2, <1>4, <1>7, <2>1
  <2> QED BY <2>2 DEF EntriesFit
<1> QED BY <1>1, <1>2, <1>6, <1>8 DEF EntriesFit

\* A key is removed where there is no empty entry.
LEMMA RemoveFits ==
  ASSUME NEW es, EntriesFit(es, 0), NEW i \in 1..Len(es), NEW fs, fs = RemoveAt(es, i)
  PROVE  EntriesFit(fs, 0)
<1>0. /\ es \in Seq(Keys \cup Numbers) /\ Len(es) \in Nat /\ MaxEntries \in Nat
      /\ \A j, k \in 1..Len(es) : es[j] = es[k] => j = k
  <2>1. PICK n : n = 0 /\ EntriesFit(es, n)
    OBVIOUS
  <2>2. es \in Seq(Keys \cup Numbers)
    BY ONLY <2>1 DEF EntriesFit
  <2> QED BY ONLY <2>1, <2>2, FitFacts
<1>1. /\ es \in Seq(Keys \cup Numbers) /\ Len(es) \in Nat /\ MaxEntries \in Nat /\ i \in Nat
      /\ \A j, k \in 1..Len(es) : es[j] = es[k] => j = k
  BY <1>0
<1>2. /\ fs \in Seq(Keys \cup Numbers) /\ Len(fs) = Len(es) - 1
      /\ \A j \in 1..Len(fs) : fs[j] = IF j < i THEN es[j] ELSE es[j + 1]
  <2>1. PICK S : S = Keys \cup Numbers /\ es \in Seq(S)
    BY <1>1
  <2>2. /\ RemoveAt(es, i) \in Seq(S) /\ Len(RemoveAt(es, i)) = Len(es) - 1
        /\ \A j \in 1..(Len(es) - 1) : RemoveAt(es, i)[j] = IF j < i THEN es[j] ELSE es[j + 1]
    BY <2>1, RemoveAtFacts
  <2> QED BY <2>1, <2>2
<1>3. DOMAIN fs = 1..Len(fs)
  BY <1>2, LenProperties
<1>4. \A j \in 1..Len(fs) : j \in 1..Len(es) /\ j + 1 \in 1..Len(es) /\ j \in Nat
  BY <1>1, <1>2
<1>5. IsInjective(fs)
  <2> SUFFICES ASSUME NEW j \in 1..Len(fs), NEW k \in 1..Len(fs), fs[j] = fs[k] PROVE j = k
    BY <1>3 DEF IsInjective
  <2>1. /\ j \in Nat /\ k \in Nat
        /\ (IF j < i THEN j ELSE j + 1) = (IF k < i THEN k ELSE k + 1)
    BY <1>1, <1>2, <1>4
  <2> QED BY <1>1, <2>1
<1>6. \A m \in Numbers : ~ (m < 0)
  BY <1>1 DEF Numbers
<1>7. \A m \in Numbers : ~ \E j \in 1..Len(fs) : fs[j] = m
  BY <1>2, <1>4, <1>6 DEF EntriesFit
<1> QED BY <1>1, <1>2, <1>5, <1>6, <1>7 DEF EntriesFit, Numbers

\* Number n takes the place of entry i.
Marked(es, fs, i, n) ==
  /\ Len(fs) = Len(es)
  /\ fs[i] = n
  /\ \A j \in 1..Len(es) : j # i => fs[j] = es[j]

\* Under a lock an empty entry with the next number takes the place of a key.
LEMMA MarkFits ==
  ASSUME NEW es, NEW n, EntriesFit(es, n), NEW i \in 1..Len(es), es[i] \in Keys,
         NEW grown, grown = (IF Contains(es, n) THEN es ELSE Append(es, n)),
         NEW fs, fs = SwapRemoveKey(grown, i)
  PROVE  EntriesFit(fs, n + 1) /\ Marked(es, fs, i, n)
<1>1. /\ es \in Seq(Keys \cup Numbers) /\ Len(es) \in Nat /\ n \in Nat /\ n \in Numbers
      /\ MaxEntries \in Nat /\ i \in Nat /\ es[i] \notin Numbers
      /\ \A j, k \in 1..Len(es) : es[j] = es[k] => j = k
      /\ \A j \in 1..Len(es) : es[j] \in Keys \cup Numbers
  BY FitFacts DEF EntriesFit
<1>2. \A j \in 1..Len(es) : es[j] # n
  BY <1>1 DEF EntriesFit
<1>3. grown = Append(es, n)
  BY <1>2 DEF Contains
<1>4. /\ grown \in Seq(Keys \cup Numbers) /\ Len(grown) = Len(es) + 1
      /\ grown[Len(es) + 1] = n /\ \A j \in 1..Len(es) : grown[j] = es[j]
  BY <1>1, <1>3, AppendProperties
<1>5. PICK t : t = [grown EXCEPT ![i] = Last(grown)]
  OBVIOUS
<1>6. Last(grown) = n /\ i \in 1..Len(grown)
  BY <1>1, <1>4 DEF Last
<1>7. t \in Seq(Keys \cup Numbers) /\ Len(t) = Len(es) + 1
  BY <1>1, <1>4, <1>5, <1>6, ExceptSeq
<1>8. t[i] = n /\ \A j \in 1..Len(es) : j # i => t[j] = es[j]
  <2>1. DOMAIN grown = 1..Len(grown)
    BY <1>4, LenProperties
  <2>2. \A j \in 1..Len(es) : j \in 1..Len(grown)
    BY <1>1, <1>4
  <2> QED BY <1>4, <1>5, <1>6, <2>1, <2>2
<1>9. fs = SubSeq(t, 1, Len(es))
  <2>1. Len(grown) - 1 = Len(es)
    BY <1>1, <1>4
  <2> QED BY <1>5, <2>1 DEF SwapRemoveKey
<1>10. /\ fs \in Seq(Keys \cup Numbers) /\ Len(fs) = Len(es)
       /\ \A j \in 1..Len(es) : fs[j] = t[j]
  <2>1. \A j \in 1..Len(es) : t[j] \in Keys \cup Numbers
    BY <1>1, <1>8
  <2>2. /\ fs \in Seq(Keys \cup Numbers)
        /\ Len(fs) = IF 1 <= Len(es) THEN Len(es) - 1 + 1 ELSE 0
        /\ \A j \in 1..(Len(es) - 1 + 1) : fs[j] = t[1 + j - 1]
    BY <1>1, <1>9, <2>1, SubSeqProperties
  <2>3. Len(es) - 1 + 1 = Len(es) /\ \A j \in 1..Len(es) : 1 + j - 1 = j
    BY <1>1
  <2>4. Len(fs) = Len(es)
    BY <1>1, <2>2
  <2> QED BY <2>2, <2>3, <2>4
<1>11. DOMAIN fs = 1..Len(es)
  BY <1>10, LenProperties
<1>12. fs[i] = n /\ \A j \in 1..Len(es) : j # i => fs[j] = es[j]
  BY <1>8, <1>10
<1>13. IsInjective(fs)
  BY <1>1, <1>2, <1>11, <1>12 DEF IsInjective
<1>14. n + 1 \in Numbers
  BY RoomForAnEmpty
<1>15. ASSUME NEW m \in Numbers
       PROVE  m < n + 1 <=> \E j \in 1..Len(fs) : fs[j] = m
  <2>1. m < n + 1 <=> m < n \/ m = n
    BY <1>1 DEF Numbers
  <2>2. m < n <=> \E j \in 1..Len(es) : es[j] = m
    BY DEF EntriesFit
  <2>3. es[i] # m
    BY <1>1
  <2> QED BY ONLY <1>10, <1>12, <2>1, <2>2, <2>3, i \in 1..Len(es)
<1>16. Marked(es, fs, i, n)
  BY <1>10, <1>12 DEF Marked
<1> QED BY <1>10, <1>13, <1>14, <1>15, <1>16 DEF EntriesFit

\* The last unlock leaves the keys.
LEMMA LiveFits ==
  ASSUME NEW es, NEW n, EntriesFit(es, n), NEW fs, fs = Live(es)
  PROVE  EntriesFit(fs, 0)
<1>1. es \in Seq(Keys \cup Numbers) /\ Len(es) \in Nat /\ Len(es) <= MaxEntries
      /\ MaxEntries \in Nat /\ IsInjective(es)
  BY FitFacts DEF EntriesFit
<1>2. /\ fs \in Seq(Keys \cup Numbers) /\ fs \in Seq(Keys)
      /\ Len(fs) \in Nat /\ Len(fs) <= Len(es) /\ IsInjective(fs)
  BY <1>1, KeepFacts DEF Live
<1>3. \A i \in 1..Len(fs) : fs[i] \in Keys
  BY <1>2, ElementOfSeq
<1>4. \A m \in Numbers : ~ (m < 0) /\ m \notin Keys
  BY <1>1, OrderedMapAssumption DEF Numbers
<1> QED BY <1>1, <1>2, <1>3, <1>4 DEF EntriesFit, Numbers

\* An empty map.
LEMMA NothingFits == EntriesFit(<<>>, 0)
<1>1. PICK es : es = <<>>
  OBVIOUS
<1>2. es \in Seq(Keys \cup Numbers) /\ Len(es) = 0
  BY <1>1, EmptySeq
<1>3. MaxEntries \in Nat /\ \A i : i \notin 1..Len(es)
  BY <1>2, OrderedMapAssumption
<1>4. IsInjective(es)
  BY <1>2, <1>3, LenProperties DEF IsInjective
<1> QED BY <1>1, <1>2, <1>3, <1>4 DEF EntriesFit, Numbers
----------------------------------------------------------------------------
(* The inductive invariant: the empty entries have the numbers below their   *)
(* count, and the lock is held by the open walks.                           *)

WalkKinds == {"unused", "iterator", "forEach", "native", "ended", "dropped"}

WalksFit == kind \in [Walks -> WalkKinds] /\ index \in [Walks -> 1..(MaxEntries + 1)]

LockFits ==
  /\ inherited \in Nat
  /\ lock = inherited + Cardinality(OpenWalks)
  /\ lock = 0 => emptyCount = 0

MapInv == EntriesFit(entries, emptyCount) /\ WalksFit /\ LockFits

\* The walks are finitely many.
LEMMA OpenWalksAreFinite ==
  /\ IsFiniteSet(OpenWalks) /\ Cardinality(OpenWalks) \in Nat
  /\ Cardinality(Walks) \in Nat /\ Cardinality(OpenWalks) <= Cardinality(Walks)
<1>1. IsFiniteSet(Walks) /\ OpenWalks \in SUBSET Walks
  BY OrderedMapAssumption DEF OpenWalks
<1>2. IsFiniteSet(OpenWalks) /\ Cardinality(OpenWalks) <= Cardinality(Walks)
  BY <1>1, FS_Subset
<1> QED BY <1>1, <1>2, FS_CardinalityType

\* The map and its walks begin so.
LEMMA MapInitInv == MapInit => MapInv
<1> SUFFICES ASSUME MapInit PROVE MapInv
  OBVIOUS
<1>1. EntriesFit(entries, emptyCount)
  BY NothingFits DEF MapInit
<1>2. WalksFit
  <2>1. 1 \in 1..(MaxEntries + 1)
    BY OrderedMapAssumption
  <2> QED BY <2>1 DEF MapInit, WalksFit, WalkKinds
<1>3. LockFits
  <2>1. OpenWalks = {}
    BY DEF MapInit, OpenWalks, Calls
  <2> QED BY <2>1, FS_EmptySet DEF MapInit, LockFits
<1> QED BY <1>1, <1>2, <1>3 DEF MapInv

\* A key has a place.
LEMMA IndexOfKey ==
  ASSUME MapInv, NEW k \in Keys, Contains(entries, k)
  PROVE  IndexOf(k) \in 1..Len(entries) /\ entries[IndexOf(k)] = k
<1>1. \E i \in DOMAIN entries : entries[i] = k
  BY FitFacts DEF MapInv, Contains
<1> QED BY <1>1, FitFacts DEF MapInv, IndexOf

\* A step that leaves walks and locks alone.
LEMMA EntriesStep ==
  ASSUME MapInv, UNCHANGED <<lock, kind, index, inherited>>,
         EntriesFit(entries', emptyCount'), lock = 0 => emptyCount' = 0
  PROVE  MapInv'
BY DEF MapInv, WalksFit, LockFits, OpenWalks

\* A walk that ends gives up one lock, and the last one sweeps.
LEMMA LetGoStep ==
  ASSUME MapInv, NEW w \in OpenWalks, NEW how \in {"ended", "dropped"}, LetGoOf(w, how)
  PROVE  MapInv'
<1>1. OpenWalks' = OpenWalks \ {w}
  BY DEF MapInv, WalksFit, LetGoOf, OpenWalks, Calls
<1>2. PICK S, T : S = OpenWalks /\ T = OpenWalks'
  OBVIOUS
<1>3. IsFiniteSet(S) /\ Cardinality(S) \in Nat /\ w \in S /\ T = S \ {w}
  BY <1>1, <1>2, OpenWalksAreFinite
<1>4. Cardinality(T) = Cardinality(S) - 1 /\ IsFiniteSet(T)
  BY <1>3, FS_RemoveElement
<1>5. Cardinality(T) \in Nat
  BY <1>4, FS_CardinalityType
<1>6. lock' = inherited' + Cardinality(T) /\ inherited' \in Nat
  BY <1>2, <1>3, <1>4 DEF MapInv, LockFits, LetGoOf, Unlock
<1>7. EntriesFit(entries', emptyCount') /\ (lock' = 0 => emptyCount' = 0)
  <2>1. CASE lock' = 0
    BY <2>1, LiveFits DEF MapInv, LetGoOf, Unlock
  <2>2. CASE lock' # 0
    BY <2>2 DEF MapInv, LetGoOf, Unlock
  <2> QED BY <2>1, <2>2
<1>8. WalksFit'
  BY DEF MapInv, WalksFit, WalkKinds, LetGoOf, OpenWalks
<1> QED BY <1>2, <1>6, <1>7, <1>8 DEF MapInv, LockFits

\* A walk visits an entry.
LEMMA VisitStep ==
  ASSUME MapInv, NEW w \in Walks, NEW i \in 1..Len(entries),
         index' = [index EXCEPT ![w] = i + 1],
         UNCHANGED <<entries, lock, emptyCount, kind, inherited>>
  PROVE  MapInv'
<1>1. i + 1 \in 1..(MaxEntries + 1)
  BY FitFacts DEF MapInv, EntriesFit
<1> QED BY <1>1 DEF MapInv, WalksFit, LockFits, OpenWalks

\* A turn of a call of forEach or for_each_native.
LEMMA TurnStep ==
  ASSUME MapInv, NEW w \in Walks, ForEachTurn(w) \/ NativeTurn(w)
  PROVE  MapInv'
<1>1. w \in OpenWalks
  BY DEF ForEachTurn, NativeTurn, OpenWalks, Calls
<1>2. index[w] \in Nat /\ 1 <= index[w] /\ Len(entries) \in Nat
  BY FitFacts DEF MapInv, WalksFit
<1>3. CASE LetGoOf(w, "ended")
  BY <1>1, <1>3, LetGoStep
<1>4. ASSUME index[w] <= Len(entries), index' = [index EXCEPT ![w] = index[w] + 1],
             UNCHANGED <<entries, lock, emptyCount, kind, inherited>>
      PROVE  MapInv'
  <2>1. index[w] \in 1..Len(entries)
    BY <1>2, <1>4
  <2> QED BY <1>4, <2>1, VisitStep
<1>5. CASE index[w] <= Len(entries) /\ VisitEntry(w, index[w])
  BY <1>4, <1>5 DEF VisitEntry
<1>6. CASE UNCHANGED <<entries, lock, emptyCount, kind, index, inherited>>
  BY <1>6 DEF MapInv, WalksFit, LockFits, OpenWalks
<1> QED BY <1>3, <1>4, <1>5, <1>6 DEF ForEachTurn, NativeTurn

\* Every step keeps the invariant.
LEMMA MapNextInv == MapInv /\ [MapNext]_mapVars => MapInv'
<1> SUFFICES ASSUME MapInv, [MapNext]_mapVars PROVE MapInv'
  OBVIOUS
<1>1. /\ DOMAIN entries = 1..Len(entries) /\ Len(entries) \in Nat
      /\ EntriesFit(entries, emptyCount) /\ inherited \in Nat /\ lock \in Nat
  BY FitFacts, OpenWalksAreFinite DEF MapInv, LockFits
<1>2. ASSUME NEW k \in Keys, InsertKey(k) PROVE MapInv'
  <2>1. EntriesFit(entries', emptyCount)
    BY <1>1, <1>2, InsertFits DEF InsertKey
  <2> QED BY <1>2, <2>1, EntriesStep DEF InsertKey, MapInv, LockFits
<1>3. ASSUME NEW k \in Keys, RemoveKey(k) PROVE MapInv'
  <2>1. PICK i \in 1..Len(entries) : i = IndexOf(k) /\ entries[i] \in Keys
    BY <1>3, IndexOfKey DEF RemoveKey
  <2>2. CASE lock = 0
    <3>1. entries' = RemoveAt(entries, i) /\ emptyCount' = emptyCount /\ emptyCount = 0
      BY <1>3, <2>1, <2>2 DEF RemoveKey, MapInv, LockFits
    <3>2. EntriesFit(entries', 0)
      BY <1>1, <3>1, RemoveFits
    <3> QED BY <1>3, <3>1, <3>2, EntriesStep DEF RemoveKey
  <2>3. CASE lock # 0
    <3>1. PICK grown : grown = IF Contains(entries, emptyCount) THEN entries
                                 ELSE Append(entries, emptyCount)
      OBVIOUS
    <3>2. entries' = SwapRemoveKey(grown, i) /\ emptyCount' = emptyCount + 1
      BY <1>3, <2>1, <2>3, <3>1 DEF RemoveKey
    <3>3. EntriesFit(entries', emptyCount + 1)
      BY <1>1, <2>1, <3>1, <3>2, MarkFits
    <3> QED BY <1>3, <2>3, <3>2, <3>3, EntriesStep DEF RemoveKey
  <2> QED BY <2>2, <2>3
<1>4. CASE ClearMap
  BY <1>4, NothingFits, EntriesStep DEF ClearMap
<1>5. CASE CopySet
  <2>1. OpenWalks' = {}
    BY <1>5 DEF CopySet, OpenWalks, Calls, MapInv, WalksFit
  <2>2. Cardinality(OpenWalks') = 0
    BY <2>1, FS_EmptySet
  <2>3. LockFits'
    BY <1>1, <1>5, <2>2 DEF CopySet, LockFits
  <2>4. WalksFit'
    BY <1>5 DEF CopySet, MapInv, WalksFit, WalkKinds
  <2> QED BY <1>1, <1>5, <2>3, <2>4 DEF CopySet, MapInv
<1>6. ASSUME NEW w \in Walks, NEW what \in Calls \cup {"iterator"}, StartWalk(w, what)
      PROVE  MapInv'
  <2>1. PICK S, T : S = OpenWalks /\ T = OpenWalks'
    OBVIOUS
  <2>2. T = S \cup {w} /\ w \notin S
    BY <1>6, <2>1 DEF StartWalk, OpenWalks, Calls, MapInv, WalksFit
  <2>3. IsFiniteSet(S) /\ Cardinality(S) \in Nat
    BY <2>1, OpenWalksAreFinite
  <2>4. Cardinality(T) = Cardinality(S) + 1
    BY <2>2, <2>3, FS_AddElement
  <2>5. lock' = lock + 1 /\ inherited' = inherited /\ lock = inherited + Cardinality(S)
    BY <1>6, <2>1 DEF StartWalk, MapInv, LockFits
  <2>6. LockFits'
    BY <1>1, <2>1, <2>3, <2>4, <2>5 DEF LockFits
  <2>7. WalksFit'
    BY <1>6 DEF StartWalk, Calls, MapInv, WalksFit, WalkKinds
  <2> QED BY <1>1, <1>6, <2>6, <2>7 DEF StartWalk, MapInv
<1>7. ASSUME NEW w \in Walks, IteratorNext(w) PROVE MapInv'
  <2>1. w \in OpenWalks
    BY <1>7 DEF IteratorNext, OpenWalks
  <2>2. PICK ahead : ahead = {i \in DOMAIN entries : i >= index[w] /\ entries[i] \in Keys}
    OBVIOUS
  <2>3. CASE LetGoOf(w, "ended")
    BY <2>1, <2>3, LetGoStep
  <2>4. ASSUME NEW i \in ahead, VisitEntry(w, i) PROVE MapInv'
    <3>1. i \in 1..Len(entries)
      BY <1>1, <2>2
    <3> QED BY <2>4, <3>1, VisitStep DEF VisitEntry
  <2> QED BY <1>7, <2>2, <2>3, <2>4 DEF IteratorNext
<1>8. ASSUME NEW w \in Walks, DropIterator(w) \/ WalkThrows(w) PROVE MapInv'
  <2>1. w \in OpenWalks
    BY <1>8 DEF DropIterator, WalkThrows, OpenWalks
  <2> QED BY <1>8, <2>1, LetGoStep DEF DropIterator, WalkThrows
<1>9. CASE UNCHANGED mapVars
  BY <1>9 DEF MapInv, WalksFit, LockFits, OpenWalks, mapVars
<1> QED BY <1>2, <1>3, <1>4, <1>5, <1>6, <1>7, <1>8, <1>9, TurnStep DEF MapNext

\* The lock is held by the walks that are open, and size, which subtracts the
\* count of the empty entries, is the number of keys, whatever is deleted,
\* cleared and inserted under any number of locks.
THEOREM LocksAndEmptiesAlwaysAgree == MapSpec => []LocksAndEmptiesAgree
<1>1. MapInv => LocksAndEmptiesAgree
  <2> SUFFICES ASSUME MapInv PROVE LocksAndEmptiesAgree
    OBVIOUS
  <2>1. PICK S : S = EmptiesOf(entries)
    OBVIOUS
  <2>2. IsFiniteSet(S) /\ Cardinality(S) = emptyCount
    BY <2>1, EmptiesAreNumbered DEF MapInv
  <2>3. emptyCount = 0 => S = {}
    BY <2>2, FS_EmptySet
  <2> QED BY <2>1, <2>2, <2>3 DEF LocksAndEmptiesAgree, EmptiesOf, MapInv, LockFits, EntriesFit
<1> QED BY <1>1, MapInitInv, MapNextInv, PTL DEF MapSpec

\* Entries, locks and indices have their types; an index is one past the end
\* of the largest map at most.
THEOREM TheMapsTypesAreCorrect == MapSpec => []MapTypeOK
<1>1. MapInv => MapTypeOK
  <2> SUFFICES ASSUME MapInv PROVE MapTypeOK
    OBVIOUS
  <2>1. \A i \in DOMAIN entries : entries[i] \in Keys \/ entries[i] \in 0..MaxEntries
    BY FitFacts DEF MapInv, Numbers
  <2>2. lock \in 0..(inherited + Cardinality(Walks))
    BY OpenWalksAreFinite DEF MapInv, LockFits
  <2> QED BY <2>1, <2>2 DEF MapTypeOK, MapInv, WalksFit
<1> QED BY <1>1, MapInitInv, MapNextInv, PTL DEF MapSpec

----------------------------------------------------------------------------
(* Walks over an OrderedMap: what each has before it.                       *)

\* The keys a walk has before it that stands at i.
Ahead(es, i) == Live(SubSeq(es, i, Len(es)))

\* At the end there is none, and at the start there are all.
LEMMA AheadEnds ==
  ASSUME NEW E, NEW es \in Seq(E)
  PROVE  /\ \A i \in Int : i > Len(es) => Ahead(es, i) = <<>>
         /\ Ahead(es, 1) = Live(es)
<1>1. Len(es) \in Nat
  BY LenProperties
<1>2. ASSUME NEW i \in Int, i > Len(es) PROVE Ahead(es, i) = <<>>
  <2>1. SubSeq(es, i, Len(es)) = <<>>
    BY <1>1, <1>2, SubSeqEmpty
  <2> QED BY <2>1, KeepOfNothing DEF Ahead, Live
<1>3. SubSeq(es, 1, Len(es)) = es
  BY SubSeqFull
<1> QED BY <1>2, <1>3 DEF Ahead

\* What is ahead of i is what is from i to j, and what is ahead of j.
LEMMA AheadSkips ==
  ASSUME NEW E, NEW es \in Seq(E), NEW i \in 1..Len(es), NEW j \in i..Len(es) + 1,
         \A m \in i..j - 1 : es[m] \notin Keys
  PROVE  Ahead(es, i) = Ahead(es, j)
<1>1. /\ Len(es) \in Nat /\ i \in Nat /\ j \in Nat /\ 1 <= i /\ i <= j /\ j <= Len(es) + 1
      /\ \A m \in 1..Len(es) : es[m] \in E
  BY LenProperties, ElementOfSeq
<1>2. PICK n, a, b : n = Len(es) /\ a = SubSeq(es, i, j - 1) /\ b = SubSeq(es, j, n)
  OBVIOUS
<1>3. a \o b = SubSeq(es, i, n)
  <2>1. i \in 1..Len(es) + 1 /\ j - 1 \in i - 1..Len(es) /\ n \in j - 1..Len(es) /\ (j - 1) + 1 = j
    BY <1>1, <1>2
  <2> QED BY <1>2, <2>1, ConcatAdjacentSubSeq
<1>4. /\ a \in Seq(E) /\ \A m \in 1..Len(a) : a[m] \notin Keys
  <2>1. \A m \in i..j - 1 : m \in 1..Len(es) /\ es[m] \in E
    BY <1>1
  <2>2. /\ a \in Seq(E) /\ Len(a) = IF i <= j - 1 THEN (j - 1) - i + 1 ELSE 0
        /\ \A m \in 1..(j - 1) - i + 1 : a[m] = es[i + m - 1]
    <3>1. i \in Int /\ j - 1 \in Int
      BY <1>1
    <3>2. PICK l : l = j - 1
      OBVIOUS
    <3> QED BY <1>2, <2>1, <3>1, <3>2, SubSeqProperties
  <2>3. ASSUME NEW m \in 1..Len(a) PROVE a[m] \notin Keys
    <3>1. m \in 1..(j - 1) - i + 1 /\ i + m - 1 \in i..j - 1
      BY <1>1, <2>2
    <3> QED BY <2>2, <3>1
  <2> QED BY <2>2, <2>3
<1>5. b \in Seq(E)
  <2>1. \A m \in j..n : es[m] \in E
    BY <1>1, <1>2
  <2> QED BY <1>1, <1>2, <2>1, SubSeqProperties
<1>6. Keep(a, Keys) = <<>>
  <2>1. PICK t : t = Keep(a, Keys)
    OBVIOUS
  <2>2. t \in Seq(E) /\ \A x : x \notin ToSet(t)
    <3>1. t \in Seq(E) /\ \A x : x \in ToSet(t) <=> x \in ToSet(a) /\ x \in Keys
      BY ONLY <1>4, <2>1, KeepFacts, KeepElements
    <3>2. \A x : x \in ToSet(a) <=> \E m \in 1..Len(a) : a[m] = x
      BY ONLY <1>4, ToSetFacts
    <3> QED BY ONLY <1>4, <3>1, <3>2
  <2>3. t = <<>>
    <3>1. ToSet(t) = {}
      BY <2>2
    <3>2. ASSUME t # <<>> PROVE FALSE
      <4>1. Len(t) \in Nat \ {0}
        BY <2>2, <3>2, EmptySeq
      <4>2. t[1] \in ToSet(t)
        BY <2>2, <4>1, ToSetFacts
      <4> QED BY <3>1, <4>2
    <3> QED BY <3>2
  <2> QED BY <2>1, <2>3
<1>7. Keep(b, Keys) \in Seq(E)
  BY <1>5, KeepFacts
<1>8. Keep(a \o b, Keys) = Keep(b, Keys)
  <2>1. Keep(a \o b, Keys) = Keep(a, Keys) \o Keep(b, Keys)
    <3>1. PICK u : u = a \o b
      OBVIOUS
    <3>2. Joins(u, a, b)
      BY <3>1 DEF Joins
    <3>3. Joins(Keep(u, Keys), Keep(a, Keys), Keep(b, Keys))
      BY ONLY <1>4, <1>5, <3>2, KeepJoined
    <3> QED BY ONLY <3>1, <3>3 DEF Joins
  <2>2. <<>> \o Keep(b, Keys) = Keep(b, Keys)
    BY ONLY <1>7, ConcatEmptySeq
  <2> QED BY ONLY <1>6, <2>1, <2>2
<1> QED BY <1>2, <1>3, <1>8 DEF Ahead, Live

\* The key at i is the first of what is ahead of i.
LEMMA AheadVisits ==
  ASSUME NEW E, NEW es \in Seq(E), NEW i \in 1..Len(es), es[i] \in Keys
  PROVE  /\ Ahead(es, i) # <<>>
         /\ Head(Ahead(es, i)) = es[i]
         /\ Tail(Ahead(es, i)) = Ahead(es, i + 1)
<1>1. /\ Len(es) \in Nat /\ i \in Nat /\ \A m \in 1..Len(es) : es[m] \in E
  BY LenProperties, ElementOfSeq
<1>2. PICK o, b, k : o = <<es[i]>> /\ b = SubSeq(es, i + 1, Len(es)) /\ k = es[i]
  OBVIOUS
<1>3. SubSeq(es, i, Len(es)) = o \o b
  BY <1>1, <1>2, SubSeqRecursiveFirst
<1>4. k \in E /\ o \in Seq(E) /\ o = Append(<<>>, k)
  <2>1. k \in E
    BY <1>1, <1>2
  <2>2. <<k>> \in Seq(E)
    BY ONLY <2>1
  <2> QED BY <1>2, <2>1, <2>2
<1>5. b \in Seq(E)
  <2>1. \A m \in i + 1..Len(es) : es[m] \in E
    BY <1>1
  <2> QED BY <1>1, <1>2, <2>1, SubSeqProperties
<1>6. Keep(o, Keys) = o
  <2>1. PICK n : n = <<>> /\ n \in Seq(E)
    BY EmptySeq
  <2>2. k \in Keys /\ o = Append(n, k)
    BY <1>2, <1>4, <2>1
  <2>3. Keep(Append(n, k), Keys) = Append(Keep(n, Keys), k)
    BY ONLY <1>4, <2>1, <2>2, KeepAppended
  <2>4. Keep(n, Keys) = n
    BY <2>1, KeepOfNothing
  <2> QED BY ONLY <2>2, <2>3, <2>4
<1>7. PICK c : c = Keep(b, Keys) /\ c \in Seq(E)
  BY <1>5, KeepFacts
<1>8. Ahead(es, i) = o \o c
  <2>1. Keep(o \o b, Keys) = Keep(o, Keys) \o Keep(b, Keys)
    <3>1. PICK u : u = o \o b
      OBVIOUS
    <3>2. o \in Seq(E) /\ b \in Seq(E) /\ Joins(u, o, b)
      BY <1>4, <1>5, <3>1 DEF Joins
    <3>3. Joins(Keep(u, Keys), Keep(o, Keys), Keep(b, Keys))
      BY ONLY <3>2, KeepJoined
    <3> QED BY ONLY <3>1, <3>3 DEF Joins
  <2>2. Ahead(es, i) = Keep(o \o b, Keys)
    BY <1>3 DEF Ahead, Live
  <2> QED BY ONLY <1>6, <1>7, <2>1, <2>2
<1>9. Ahead(es, i + 1) = c
  BY <1>2, <1>7 DEF Ahead, Live
<1>10. o \o c # <<>> /\ Head(o \o c) = k /\ Tail(o \o c) = c
  BY <1>2, <1>4, <1>7
<1> QED BY <1>2, <1>8, <1>9, <1>10

\* A key that is added is ahead of every walk that has not passed the end.
LEMMA AheadAppended ==
  ASSUME NEW E, NEW es \in Seq(E), NEW k \in E, k \in Keys, NEW i \in Nat \ {0},
         NEW fs, fs = Append(es, k)
  PROVE  Ahead(fs, i) = IF i <= Len(es) + 1 THEN Append(Ahead(es, i), k) ELSE Ahead(es, i)
<1>1. PICK n : n = Len(es) /\ n \in Nat
  BY LenProperties
<1>2. fs \in Seq(E) /\ Len(fs) = n + 1 /\ fs[n + 1] = k /\ \A j \in 1..n : fs[j] = es[j]
  BY <1>1, AppendProperties
<1>3. CASE i > n + 1
  <2>1. i \in Int /\ i > Len(es) /\ i > Len(fs)
    BY <1>1, <1>2, <1>3
  <2>2. Ahead(es, i) = <<>> /\ Ahead(fs, i) = <<>>
    BY ONLY <1>2, <2>1, es \in Seq(E), AheadEnds
  <2> QED BY <1>1, <1>3, <2>2
<1>4. CASE i <= n + 1
  <2>1. PICK a : a = SubSeq(es, i, n)
    OBVIOUS
  <2>2. \A j \in 1..n : es[j] \in E
    BY <1>1, ElementOfSeq
  <2>3. \A j \in i..n : j \in 1..n /\ es[j] \in E
    BY <1>1, <2>2
  <2>4. /\ a \in Seq(E) /\ Len(a) = n - i + 1
        /\ \A j \in 1..n - i + 1 : a[j] = es[i + j - 1]
    <3>1. i \in Int /\ n \in Int
      BY <1>1
    <3>2. /\ a \in Seq(E) /\ Len(a) = IF i <= n THEN n - i + 1 ELSE 0
          /\ \A j \in 1..n - i + 1 : a[j] = es[i + j - 1]
      BY ONLY <2>1, <2>3, <3>1, SubSeqProperties
    <3> QED BY <1>1, <1>4, <3>1, <3>2
  <2>5. PICK b : b = SubSeq(fs, i, n + 1)
    OBVIOUS
  <2>6. /\ b \in Seq(E) /\ Len(b) = n - i + 2
        /\ \A j \in 1..n - i + 2 : b[j] = fs[i + j - 1]
    <3>1. i \in Int /\ n + 1 \in Int /\ \A j \in i..n + 1 : j \in 1..Len(fs)
      BY <1>1, <1>2
    <3>2. \A j \in i..n + 1 : fs[j] \in E
      BY <1>2, <3>1, ElementOfSeq
    <3>3. PICK m : m = n + 1
      OBVIOUS
    <3>4. /\ b \in Seq(E) /\ Len(b) = IF i <= m THEN m - i + 1 ELSE 0
          /\ \A j \in 1..m - i + 1 : b[j] = fs[i + j - 1]
      BY ONLY <2>5, <3>1, <3>2, <3>3, SubSeqProperties
    <3>5. m - i + 1 = n - i + 2
      BY <1>1, <3>3
    <3> QED BY <1>1, <1>4, <3>1, <3>3, <3>4, <3>5
  <2>7. PICK c : c = Append(a, k)
    OBVIOUS
  <2>8. /\ c \in Seq(E) /\ Len(c) = n - i + 2 /\ c[n - i + 2] = k
        /\ \A j \in 1..n - i + 1 : c[j] = a[j]
    <3>1. n - i + 1 + 1 = n - i + 2
      BY <1>1
    <3> QED BY <2>4, <2>7, <3>1, AppendProperties
  <2>9. ASSUME NEW j \in 1..Len(b) PROVE b[j] = c[j]
    <3>1. CASE j = n - i + 2
      <4>1. i + j - 1 = n + 1
        BY <1>1, <3>1
      <4> QED BY <1>2, <2>6, <2>8, <3>1, <4>1
    <3>2. CASE j # n - i + 2
      <4>1. j \in 1..n - i + 1 /\ i + j - 1 \in 1..n
        BY <1>1, <2>6, <3>2
      <4> QED BY <1>2, <2>4, <2>6, <2>8, <4>1
    <3> QED BY <3>1, <3>2
  <2>10. b = c
    BY <2>6, <2>8, <2>9, SeqEqual
  <2>11. Keep(c, Keys) = Append(Keep(a, Keys), k)
    BY <2>4, <2>7, KeepAppended
  <2> QED BY <1>1, <1>2, <1>4, <2>1, <2>5, <2>10, <2>11 DEF Ahead, Live
<1> QED BY <1>1, <1>3, <1>4

\* What is left ahead when the key at p is marked as empty.
LEMMA AheadMarked ==
  ASSUME NEW E, NEW es \in Seq(E), NEW fs \in Seq(E), Len(fs) = Len(es),
         \A i, j \in 1..Len(es) : es[i] = es[j] => i = j,
         NEW p \in 1..Len(es), fs[p] \notin Keys, \A j \in 1..Len(es) : j # p => fs[j] = es[j],
         NEW i \in Nat \ {0}
  PROVE  Ahead(fs, i) = Keep(Ahead(es, i), Keys \ {es[p]})
<1>1. PICK n, k, T : n = Len(es) /\ n \in Nat /\ k = es[p] /\ T = Keys \ {k}
  BY LenProperties
<1>2. \A j \in 1..n : es[j] \in E /\ fs[j] \in E
  BY <1>1, ElementOfSeq
<1>3. PICK a, b : a = SubSeq(es, i, n) /\ b = SubSeq(fs, i, n)
  OBVIOUS
<1>4. \A j \in i..n : j \in 1..n /\ es[j] \in E /\ fs[j] \in E
  BY <1>1, <1>2
<1>5. i \in Int /\ n \in Int
  BY <1>1
<1>6. /\ a \in Seq(E) /\ Len(a) = IF i <= n THEN n - i + 1 ELSE 0
      /\ \A j \in 1..n - i + 1 : a[j] = es[i + j - 1]
  BY ONLY <1>3, <1>4, <1>5, SubSeqProperties
<1>7. /\ b \in Seq(E) /\ Len(b) = IF i <= n THEN n - i + 1 ELSE 0
      /\ \A j \in 1..n - i + 1 : b[j] = fs[i + j - 1]
  BY ONLY <1>3, <1>4, <1>5, SubSeqProperties
<1>8. \A j \in 1..Len(b) : j \in 1..n - i + 1 /\ i + j - 1 \in 1..n
  BY <1>1, <1>7
<1>9. \A j \in 1..n : (fs[j] \in Keys <=> es[j] \in T) /\ (fs[j] \in Keys => fs[j] = es[j])
  BY <1>1
<1>10. \A j \in 1..Len(b) : (b[j] \in Keys <=> a[j] \in T) /\ (b[j] \in Keys => b[j] = a[j])
  BY <1>6, <1>7, <1>8, <1>9
<1>11. Len(a) = Len(b)
  BY <1>6, <1>7
<1>12. Keep(b, Keys) = Keep(a, T)
  BY ONLY <1>6, <1>7, <1>10, <1>11, SameKept
<1>13. Keep(Keep(a, Keys), T) = Keep(a, Keys \cap T)
  BY ONLY <1>6, KeepTwice
<1>14. Keys \cap T = T
  BY <1>1
<1> QED BY <1>1, <1>3, <1>12, <1>13, <1>14 DEF Ahead, Live

\* What is left when the key at p is taken out.
LEMMA LiveRemoved ==
  ASSUME NEW E, NEW es \in Seq(E), NEW p \in 1..Len(es),
         \A i, j \in 1..Len(es) : es[i] = es[j] => i = j
  PROVE  Live(RemoveAt(es, p)) = Keep(Live(es), Keys \ {es[p]})
<1>1. PICK n, k, T : n = Len(es) /\ n \in Nat /\ k = es[p] /\ T = Keys \ {k}
  BY LenProperties
<1>2. \A j \in 1..n : es[j] \in E
  BY <1>1, ElementOfSeq
<1>3. PICK a, b, o : a = SubSeq(es, 1, p - 1) /\ b = SubSeq(es, p + 1, n) /\ o = <<k>>
  OBVIOUS
<1>4. /\ a \in Seq(E) /\ Len(a) \in Nat
      /\ \A j \in 1..Len(a) : a[j] # k
  <2>1. \A j \in 1..p - 1 : j \in 1..n /\ es[j] \in E /\ es[j] # k
    BY <1>1, <1>2
  <2>2. PICK q : q = p - 1 /\ q \in Int /\ 1 \in Int /\ q \in Nat
    BY <1>1
  <2>3. /\ a \in Seq(E) /\ Len(a) = IF 1 <= q THEN q - 1 + 1 ELSE 0
        /\ \A j \in 1..q - 1 + 1 : a[j] = es[1 + j - 1]
    <3>1. \A j \in 1..q : es[j] \in E
      BY <2>1, <2>2
    <3> QED BY <1>3, <2>2, <3>1, SubSeqProperties
  <2>4. Len(a) = q /\ \A j \in 1..q : j \in 1..q - 1 + 1 /\ 1 + j - 1 = j
    BY <2>2, <2>3
  <2> QED BY <2>1, <2>2, <2>3, <2>4
<1>5. /\ b \in Seq(E) /\ Len(b) \in Nat
      /\ \A j \in 1..Len(b) : b[j] # k
  <2>1. \A j \in p + 1..n : j \in 1..n /\ es[j] \in E /\ es[j] # k
    BY <1>1, <1>2
  <2>2. PICK q : q = p + 1 /\ q \in Int /\ n \in Int
    BY <1>1
  <2>3. /\ b \in Seq(E) /\ Len(b) = IF q <= n THEN n - q + 1 ELSE 0
        /\ \A j \in 1..n - q + 1 : b[j] = es[q + j - 1]
    <3>1. \A j \in q..n : es[j] \in E
      BY <2>1, <2>2
    <3> QED BY <1>3, <2>2, <3>1, SubSeqProperties
  <2>4. \A j \in 1..Len(b) : j \in 1..n - q + 1 /\ q + j - 1 \in p + 1..n
    BY <1>1, <2>2, <2>3
  <2> QED BY <2>1, <2>3, <2>4, LenProperties
<1>6. k \in E /\ o \in Seq(E)
  <2>1. k \in E
    BY <1>1, <1>2
  <2>2. <<k>> \in Seq(E)
    BY ONLY <2>1
  <2> QED BY <1>3, <2>1, <2>2
<1>7. es = a \o (o \o b)
  <2>1. SubSeq(es, p, n) = o \o b
    BY <1>1, <1>3, SubSeqRecursiveFirst
  <2>2. a \o SubSeq(es, p, n) = SubSeq(es, 1, n)
    <3>1. 1 \in 1..Len(es) + 1 /\ p - 1 \in 1 - 1..Len(es) /\ n \in p - 1..Len(es) /\ (p - 1) + 1 = p
      BY <1>1
    <3> QED BY <1>3, <3>1, ConcatAdjacentSubSeq
  <2>3. SubSeq(es, 1, n) = es
    BY <1>1, SubSeqFull
  <2> QED BY <2>1, <2>2, <2>3
<1>8. Keep(es, T) = Keep(a, T) \o Keep(b, T)
  <2>1. o \o b \in Seq(E)
    BY <1>5, <1>6, ConcatProperties
  <2>2. /\ Keep(a \o (o \o b), T) = Keep(a, T) \o Keep(o \o b, T)
        /\ Keep(o \o b, T) = Keep(o, T) \o Keep(b, T)
    <3>1. PICK c, d : c = o \o b /\ d = a \o c
      OBVIOUS
    <3>2. /\ a \in Seq(E) /\ b \in Seq(E) /\ o \in Seq(E) /\ c \in Seq(E)
          /\ Joins(c, o, b) /\ Joins(d, a, c)
      BY <1>4, <1>5, <1>6, <2>1, <3>1 DEF Joins
    <3>3. Joins(Keep(d, T), Keep(a, T), Keep(c, T)) /\ Joins(Keep(c, T), Keep(o, T), Keep(b, T))
      BY ONLY <3>2, KeepJoined
    <3> QED BY ONLY <3>1, <3>3 DEF Joins
  <2>3. Keep(o, T) = <<>>
    <3>1. PICK e : e = <<>> /\ e \in Seq(E)
      BY EmptySeq
    <3>2. o = Append(e, k) /\ k \notin T
      BY <1>1, <1>3, <3>1
    <3>3. Keep(Append(e, k), T) = Keep(e, T)
      BY ONLY <1>6, <3>1, <3>2, KeepAppended
    <3> QED BY <3>1, <3>2, <3>3, KeepOfNothing
  <2>4. Keep(b, T) \in Seq(E)
    BY <1>5, KeepFacts
  <2>5. <<>> \o Keep(b, T) = Keep(b, T)
    BY ONLY <2>4, ConcatEmptySeq
  <2> QED BY ONLY <1>7, <2>2, <2>3, <2>5
<1>9. Keep(a, T) = Keep(a, Keys) /\ Keep(b, T) = Keep(b, Keys)
  <2>1. /\ \A j \in 1..Len(a) : (a[j] \in T <=> a[j] \in Keys) /\ (a[j] \in T => a[j] = a[j])
        /\ \A j \in 1..Len(b) : (b[j] \in T <=> b[j] \in Keys) /\ (b[j] \in T => b[j] = b[j])
    BY <1>1, <1>4, <1>5
  <2> QED BY ONLY <1>4, <1>5, <2>1, SameKept
<1>10. Keep(a \o b, Keys) = Keep(a, Keys) \o Keep(b, Keys)
  <2>1. PICK u : u = a \o b
    OBVIOUS
  <2>2. Joins(u, a, b)
    BY <2>1 DEF Joins
  <2>3. Joins(Keep(u, Keys), Keep(a, Keys), Keep(b, Keys))
    BY ONLY <1>4, <1>5, <2>2, KeepJoined
  <2> QED BY ONLY <2>1, <2>3 DEF Joins
<1>11. RemoveAt(es, p) = a \o b
  BY <1>1, <1>3 DEF RemoveAt
<1>12. Keep(Keep(es, Keys), T) = Keep(es, Keys \cap T)
  BY KeepTwice
<1>13. Keys \cap T = T
  BY <1>1
<1> QED BY ONLY <1>1, <1>8, <1>9, <1>10, <1>11, <1>12, <1>13 DEF Live

\* Where walks stand: no further than the end, but for those that a clear has
\* overtaken.
WalksAhead ==
  /\ overtaken \subseteq OpenWalks
  /\ \A w \in OpenWalks : index[w] <= Len(entries) + 1 \/ w \in overtaken
  /\ \A w \in Walks : kind[w] = "unused" => index[w] = 1

WalkInv == MapInv /\ WalksAhead

\* MapData has its operators from the same modules.
LEMMA SameKeep ==
  ASSUME NEW s, NEW S
  PROVE  AbstractMap!Keep(s, S) = Keep(s, S)
BY DEF AbstractMap!Keep, Keep

\* The same of this one.
LEMMA SameContains ==
  ASSUME NEW s, NEW e
  PROVE  AbstractMap!Contains(s, e) = Contains(s, e)
BY DEF AbstractMap!Contains, Contains

\* The walks begin so.
LEMMA WalkInitInv == MapInit => WalkInv
<1> SUFFICES ASSUME MapInit PROVE WalkInv
  OBVIOUS
<1>1. OpenWalks = {}
  BY DEF MapInit, OpenWalks, Calls
<1>2. WalksAhead
  BY <1>1 DEF MapInit, WalksAhead
<1> QED BY <1>2, MapInitInv DEF WalkInv

\* Where the lock is not held, nobody walks.
LEMMA NoLockNoWalk == ASSUME MapInv, lock = 0 PROVE OpenWalks = {}
<1>1. PICK c : c = Cardinality(OpenWalks) /\ c \in Nat /\ c = 0
  BY OpenWalksAreFinite DEF MapInv, LockFits
<1> QED BY <1>1, OpenWalksAreFinite, FS_EmptySet

\* What a walk that lets go leaves behind: its entries, unless it was the last.
LEMMA LetGoLeaves ==
  ASSUME MapInv, NEW w \in OpenWalks, NEW how \in {"ended", "dropped"}, LetGoOf(w, how)
  PROVE  /\ OpenWalks' = OpenWalks \ {w}
         /\ entries' = entries \/ (OpenWalks' = {} /\ entries' = Live(entries))
         /\ overtaken' = overtaken \ {w} /\ index' = index
         /\ kind' = [kind EXCEPT ![w] = how] /\ yielded' = NoKey
<1>1. OpenWalks' = OpenWalks \ {w}
  BY DEF MapInv, WalksFit, LetGoOf, OpenWalks, Calls
<1>2. CASE lock' = 0
  <2>1. MapInv'
    BY LetGoStep
  <2>2. OpenWalks' = {}
    <3>1. PICK S : S = OpenWalks'
      OBVIOUS
    <3>2. IsFiniteSet(S)
      <4>1. IsFiniteSet(OpenWalks)
        BY OpenWalksAreFinite
      <4> QED BY <1>1, <3>1, <4>1, FS_RemoveElement
    <3>3. Cardinality(S) \in Nat /\ inherited' \in Nat /\ lock' = inherited' + Cardinality(S)
      BY <2>1, <3>1, <3>2, FS_CardinalityType DEF MapInv, LockFits
    <3>4. Cardinality(S) = 0
      BY <1>2, <3>3
    <3> QED BY <3>1, <3>2, <3>4, FS_EmptySet
  <2> QED BY <1>1, <1>2, <2>2 DEF LetGoOf, Unlock
<1>3. CASE lock' # 0
  BY <1>1, <1>3 DEF LetGoOf, Unlock
<1> QED BY <1>2, <1>3

\* Every step keeps the invariant.
LEMMA WalkNextInv == WalkInv /\ [MapNext]_mapVars => WalkInv'
<1> SUFFICES ASSUME WalkInv, [MapNext]_mapVars PROVE WalksAhead'
  BY MapNextInv DEF WalkInv
<1>0. /\ MapInv /\ WalksAhead /\ Len(entries) \in Nat /\ DOMAIN entries = 1..Len(entries)
      /\ entries \in Seq(Keys \cup Numbers)
      /\ kind \in [Walks -> WalkKinds] /\ index \in [Walks -> 1..(MaxEntries + 1)]
      /\ MaxEntries \in Nat
  BY FitFacts DEF WalkInv, MapInv, EntriesFit, WalksFit
<1>1. ASSUME NEW k \in Keys, InsertKey(k) PROVE WalksAhead'
  <2>1. OpenWalks' = OpenWalks
    BY <1>1 DEF InsertKey, OpenWalks
  <2>2. Len(entries') = Len(entries) + 1
    BY <1>0, <1>1, AppendProperties DEF InsertKey
  <2> QED BY <1>0, <1>1, <2>1, <2>2 DEF InsertKey, WalksAhead, OpenWalks
<1>2. ASSUME NEW k \in Keys, RemoveKey(k) PROVE WalksAhead'
  <2>1. OpenWalks' = OpenWalks
    BY <1>2 DEF RemoveKey, OpenWalks
  <2>2. CASE lock = 0
    <3>1. OpenWalks = {}
      BY <1>0, <2>2, NoLockNoWalk
    <3> QED BY <1>0, <1>2, <2>1, <3>1 DEF RemoveKey, WalksAhead
  <2>3. CASE lock # 0
    <3>1. PICK i \in 1..Len(entries) : i = IndexOf(k) /\ entries[i] \in Keys
      BY <1>0, <1>2, IndexOfKey DEF RemoveKey
    <3>2. PICK grown : grown = IF Contains(entries, emptyCount) THEN entries
                                 ELSE Append(entries, emptyCount)
      OBVIOUS
    <3>3. entries' = SwapRemoveKey(grown, i)
      BY <1>2, <2>3, <3>1, <3>2 DEF RemoveKey
    <3>4. Len(entries') = Len(entries)
      <4>1. EntriesFit(entries, emptyCount)
        BY <1>0 DEF MapInv
      <4>2. PICK es, n, fs : es = entries /\ n = emptyCount /\ fs = entries'
        OBVIOUS
      <4>3. /\ EntriesFit(es, n) /\ i \in 1..Len(es) /\ es[i] \in Keys
            /\ grown = (IF Contains(es, n) THEN es ELSE Append(es, n))
            /\ fs = SwapRemoveKey(grown, i)
        BY <3>1, <3>2, <3>3, <4>1, <4>2
      <4>4. Marked(es, fs, i, n)
        BY ONLY <4>3, MarkFits
      <4> QED BY <4>2, <4>4 DEF Marked
    <3> QED BY <1>0, <1>2, <2>1, <3>4 DEF RemoveKey, WalksAhead
  <2> QED BY <2>2, <2>3
<1>3. CASE ClearMap
  <2>1. OpenWalks' = OpenWalks /\ entries' = <<>> /\ Len(<<>>) = 0
    BY <1>3 DEF ClearMap, OpenWalks
  <2>2. \A w \in OpenWalks : w \in Walks /\ index[w] \in Nat /\ 1 <= index[w]
    BY <1>0 DEF OpenWalks
  <2>3. index' = index /\ kind' = kind
        /\ overtaken' = overtaken \cup {w \in OpenWalks : index[w] > 1}
    BY <1>3 DEF ClearMap
  <2>4. Len(entries') + 1 = 1
    BY <2>1
  <2>5. \A w \in OpenWalks : index[w] <= 1 \/ w \in overtaken'
    BY <2>2, <2>3
  <2> QED BY <1>0, <2>1, <2>3, <2>4, <2>5 DEF WalksAhead
<1>4. CASE CopySet
  <2>1. OpenWalks' = {}
    BY <1>0, <1>4 DEF CopySet, OpenWalks, Calls
  <2> QED BY <1>0, <1>4, <2>1 DEF CopySet, WalksAhead
<1>5. ASSUME NEW w \in Walks, NEW what \in Calls \cup {"iterator"}, StartWalk(w, what)
      PROVE  WalksAhead'
  <2>1. OpenWalks' = OpenWalks \cup {w} /\ index[w] = 1
    BY <1>0, <1>5 DEF StartWalk, OpenWalks, Calls, WalksAhead
  <2>2. \A v \in Walks : kind'[v] = "unused" => kind[v] = "unused"
    BY <1>0, <1>5 DEF StartWalk, Calls
  <2> QED BY <1>0, <1>5, <2>1, <2>2 DEF StartWalk, WalksAhead
<1>6. ASSUME NEW w \in OpenWalks, NEW how \in {"ended", "dropped"}, LetGoOf(w, how)
      PROVE  WalksAhead'
  <2>1. /\ OpenWalks' = OpenWalks \ {w}
        /\ entries' = entries \/ (OpenWalks' = {} /\ entries' = Live(entries))
        /\ overtaken' = overtaken \ {w} /\ index' = index
        /\ kind' = [kind EXCEPT ![w] = how]
    BY <1>0, <1>6, LetGoLeaves
  <2>2. \A v \in Walks : kind'[v] = "unused" => kind[v] = "unused"
    BY <1>0, <2>1
  <2> QED BY <1>0, <2>1, <2>2 DEF WalksAhead
<1>7. ASSUME NEW w \in OpenWalks, NEW i \in 1..Len(entries), index' = [index EXCEPT ![w] = i + 1],
             UNCHANGED <<entries, kind, overtaken>>
      PROVE  WalksAhead'
  <2>1. OpenWalks' = OpenWalks /\ w \in Walks /\ kind[w] # "unused"
    BY <1>7 DEF OpenWalks, Calls
  <2>2. \A v \in Walks : index'[v] = IF v = w THEN i + 1 ELSE index[v]
    BY <1>0, <1>7
  <2>3. \A v \in OpenWalks : v \in Walks
    BY DEF OpenWalks
  <2>4. i + 1 <= Len(entries) + 1
    BY <1>0
  <2> QED BY <1>0, <1>7, <2>1, <2>2, <2>3, <2>4 DEF WalksAhead
<1>8. ASSUME NEW w \in Walks, ForEachTurn(w) \/ NativeTurn(w) PROVE WalksAhead'
  <2>1. w \in OpenWalks /\ index[w] \in Nat /\ 1 <= index[w]
    BY <1>0, <1>8 DEF ForEachTurn, NativeTurn, OpenWalks, Calls
  <2>2. CASE LetGoOf(w, "ended")
    BY <1>6, <2>1, <2>2
  <2>3. CASE index[w] <= Len(entries) /\ index' = [index EXCEPT ![w] = index[w] + 1]
             /\ UNCHANGED <<entries, kind, overtaken>>
    <3>1. index[w] \in 1..Len(entries)
      BY <1>0, <2>1, <2>3
    <3> QED BY <1>7, <2>1, <2>3, <3>1
  <2>4. CASE UNCHANGED <<entries, kind, index, overtaken>>
    BY <1>0, <2>4 DEF WalksAhead, OpenWalks
  <2> QED BY <1>8, <2>2, <2>3, <2>4 DEF ForEachTurn, NativeTurn, VisitEntry
<1>9. ASSUME NEW w \in Walks, IteratorNext(w) \/ DropIterator(w) \/ WalkThrows(w) PROVE WalksAhead'
  <2>1. w \in OpenWalks
    BY <1>9 DEF IteratorNext, DropIterator, WalkThrows, OpenWalks
  <2>2. CASE LetGoOf(w, "ended") \/ LetGoOf(w, "dropped")
    BY <1>6, <2>1, <2>2
  <2>3. ASSUME NEW i \in DOMAIN entries, VisitEntry(w, i) PROVE WalksAhead'
    BY <1>0, <1>7, <2>1, <2>3 DEF VisitEntry
  <2> QED BY <1>9, <2>2, <2>3 DEF IteratorNext, DropIterator, WalkThrows
<1>10. CASE UNCHANGED mapVars
  BY <1>0, <1>10 DEF mapVars, WalksAhead, OpenWalks
<1> QED BY <1>1, <1>2, <1>3, <1>4, <1>5, <1>8, <1>9, <1>10 DEF MapNext

----------------------------------------------------------------------------
(* OrderedMaps implements MapData.                                          *)

Before == [w \in OpenWalks |-> Ahead(entries, index[w])]
Ended == {w \in Walks : kind[w] = "ended"}

\* The mapping, by these names.
LEMMA MapMapping ==
  /\ AbstractMap!vars = <<Live(entries), Before, Ended, overtaken, yielded>>
  /\ AbstractMap!Init <=> /\ Live(entries) = <<>> /\ Before = [w \in {} |-> <<>>]
                          /\ Ended = {} /\ overtaken = {} /\ yielded = NoKey
BY DEF AbstractMap!vars, AbstractMap!Init, Before, Ended, Ahead

\* The walks that are open, by the mapping's name.
LEMMA DomainMapping ==
  ASSUME NEW gone \in SUBSET DOMAIN Before, AbstractMap!GiveUp(gone)
  PROVE  AbstractMap!Next
BY DEF AbstractMap!Next, Before, Ahead

\* A step that is not seen at all.
LEMMA StutterMapping ==
  ASSUME Live(entries') = Live(entries), Before' = Before, Ended' = Ended,
         overtaken' = overtaken, yielded' = yielded
  PROVE  UNCHANGED AbstractMap!vars
BY DEF AbstractMap!vars, Before, Ended, Ahead

\* An insertion, which walks that a clear has overtaken may not see.
LEMMA InsertMapping ==
  ASSUME NEW k \in Keys, ~ Contains(Live(entries), k),
         Live(entries') = Append(Live(entries), k),
         NEW blind \in SUBSET overtaken,
         Before' = [w \in DOMAIN Before |-> IF w \in blind THEN Before[w] ELSE Append(Before[w], k)],
         yielded' = NoKey, Ended' = Ended, overtaken' = overtaken
  PROVE  AbstractMap!Insert(k)
BY SameContains DEF AbstractMap!Insert, Before, Ended, Ahead

\* A deletion.
LEMMA DeleteMapping ==
  ASSUME NEW k \in Keys, Contains(Live(entries), k),
         Live(entries') = Keep(Live(entries), Keys \ {k}),
         Before' = [w \in DOMAIN Before |-> Keep(Before[w], Keys \ {k})],
         yielded' = NoKey, Ended' = Ended, overtaken' = overtaken
  PROVE  AbstractMap!Delete(k)
BY SameContains, SameKeep DEF AbstractMap!Delete, Before, Ended, Ahead

\* A clear.
LEMMA ClearMapping ==
  ASSUME Live(entries') = <<>>, Before' = [w \in DOMAIN Before |-> <<>>],
         overtaken' \in SUBSET DOMAIN Before, yielded' = NoKey, Ended' = Ended
  PROVE  AbstractMap!Clear
BY DEF AbstractMap!Clear, Before, Ended, Ahead

\* The start of a walk.
LEMMA StartMapping ==
  ASSUME NEW w \in Walks, w \notin DOMAIN Before,
         Before' = [v \in DOMAIN Before \cup {w} |-> IF v = w THEN Live(entries) ELSE Before[v]],
         yielded' = NoKey, Live(entries') = Live(entries), Ended' = Ended, overtaken' = overtaken
  PROVE  AbstractMap!Start(w)
BY DEF AbstractMap!Start, Before, Ended, Ahead

\* A visit.
LEMMA VisitMapping ==
  ASSUME NEW w \in DOMAIN Before, Before[w] # <<>>,
         Before' = [Before EXCEPT ![w] = Tail(@)], yielded' = Head(Before[w]),
         Live(entries') = Live(entries), Ended' = Ended, overtaken' = overtaken
  PROVE  AbstractMap!Visit(w)
BY DEF AbstractMap!Visit, Before, Ended, Ahead

\* The end of a walk.
LEMMA EndMapping ==
  ASSUME NEW w \in DOMAIN Before, Before[w] = <<>>,
         Before' = [v \in DOMAIN Before \ {w} |-> Before[v]], Ended' = Ended \cup {w},
         overtaken' = overtaken \ {w}, yielded' = NoKey, Live(entries') = Live(entries)
  PROVE  AbstractMap!End(w)
BY DEF AbstractMap!End, AbstractMap!Without, Before, Ended, Ahead

\* Walks given up.
LEMMA GiveUpMapping ==
  ASSUME NEW gone, Before' = [v \in DOMAIN Before \ gone |-> Before[v]], Ended' = Ended,
         overtaken' = overtaken \ gone, yielded' = NoKey, Live(entries') = Live(entries)
  PROVE  AbstractMap!GiveUp(gone)
BY DEF AbstractMap!GiveUp, AbstractMap!Without, Before, Ended, Ahead

\* A step that changes nothing that is promised.
LEMMA PassMapping ==
  ASSUME Before' = Before, Ended' = Ended, overtaken' = overtaken, yielded' = NoKey,
         Live(entries') = Live(entries)
  PROVE  AbstractMap!Pass
BY DEF AbstractMap!Pass, Before, Ended, Ahead

----------------------------------------------------------------------------
(* Each operation is one that MapData allows.                               *)

\* What the walks are and see, by the names of the mapping.
LEMMA BeforeFacts ==
  /\ DOMAIN Before = OpenWalks
  /\ \A w \in OpenWalks : Before[w] = Ahead(entries, index[w])
BY DEF Before

\* The keys among the entries.
LEMMA LiveContains ==
  ASSUME NEW E, NEW es \in Seq(E), NEW k \in Keys
  PROVE  Contains(Live(es), k) <=> Contains(es, k)
<1>1. PICK l : l = Live(es)
  OBVIOUS
<1>2. l \in Seq(E) /\ \A x : x \in ToSet(l) <=> x \in ToSet(es) /\ x \in Keys
  BY <1>1, KeepFacts, KeepElements DEF Live
<1>3. /\ k \in ToSet(l) <=> \E i \in 1..Len(l) : l[i] = k
      /\ k \in ToSet(es) <=> \E i \in 1..Len(es) : es[i] = k
  BY <1>2, ToSetFacts
<1> QED BY <1>1, <1>2, <1>3 DEF Contains

\* Keeping the keys again keeps all of them.
LEMMA LiveTwice ==
  ASSUME NEW E, NEW es \in Seq(E)
  PROVE  Live(Live(es)) = Live(es)
<1>1. Keep(es, Keys) \in Seq(Keys)
  BY KeepFacts
<1> QED BY <1>1, KeepAll DEF Live

\* Insertions.
LEMMA InsertRefines ==
  ASSUME WalkInv, NEW k \in Keys, InsertKey(k)
  PROVE  AbstractMap!Insert(k)
<1>1. /\ entries \in Seq(Keys \cup Numbers) /\ index \in [Walks -> 1..(MaxEntries + 1)]
      /\ MaxEntries \in Nat /\ WalksAhead
  BY OrderedMapAssumption DEF WalkInv, MapInv, EntriesFit, WalksFit
<1>2. PICK E : E = Keys \cup Numbers
  OBVIOUS
<1>3. entries \in Seq(E) /\ k \in E /\ entries' = Append(entries, k)
  BY <1>1, <1>2 DEF InsertKey
<1>4. Live(entries') = Append(Live(entries), k)
  <2>1. Keep(Append(entries, k), Keys) = Append(Keep(entries, Keys), k)
    BY <1>3, KeepAppended
  <2> QED BY <1>3, <2>1 DEF Live
<1>5. ~ Contains(Live(entries), k)
  BY <1>3, LiveContains DEF InsertKey
<1>6. OpenWalks' = OpenWalks /\ index' = index /\ Ended' = Ended /\ overtaken' = overtaken
      /\ yielded' = NoKey
  BY DEF InsertKey, OpenWalks, Ended
<1>7. PICK blind : blind = {w \in OpenWalks : index[w] > Len(entries) + 1}
  OBVIOUS
<1>8. blind \in SUBSET overtaken
  <2>1. ASSUME NEW w \in OpenWalks, index[w] > Len(entries) + 1 PROVE w \in overtaken
    <3>1. w \in Walks /\ index[w] \in Nat /\ Len(entries) \in Nat
      BY <1>1, LenProperties DEF OpenWalks
    <3>2. ~ (index[w] <= Len(entries) + 1)
      BY <2>1, <3>1
    <3> QED BY <1>1, <3>2 DEF WalksAhead
  <2> QED BY <1>7, <2>1
<1>9. ASSUME NEW w \in OpenWalks
      PROVE  Ahead(entries', index[w])
               = IF w \in blind THEN Before[w] ELSE Append(Before[w], k)
  <2>1. index[w] \in Nat \ {0} /\ Len(entries) \in Nat
    BY <1>1, LenProperties DEF OpenWalks
  <2>2. PICK fs, i : fs = entries' /\ i = index[w]
    OBVIOUS
  <2>3. Ahead(fs, i) = IF i <= Len(entries) + 1 THEN Append(Ahead(entries, i), k) ELSE Ahead(entries, i)
    BY <1>3, <2>1, <2>2, AheadAppended
  <2>4. Before[w] = Ahead(entries, i)
    BY <2>2, BeforeFacts
  <2>5. w \in blind <=> ~ (i <= Len(entries) + 1)
    BY <1>7, <2>1, <2>2
  <2> QED BY <2>2, <2>3, <2>4, <2>5
<1>10. Before' = [w \in OpenWalks |-> Ahead(entries', index[w])]
  BY <1>6 DEF Before
<1>11. Before' = [w \in DOMAIN Before |-> IF w \in blind THEN Before[w] ELSE Append(Before[w], k)]
  BY <1>9, <1>10, BeforeFacts
<1> QED BY <1>4, <1>5, <1>6, <1>8, <1>11, InsertMapping

\* Deletions, with the lock and without.
LEMMA DeleteRefines ==
  ASSUME WalkInv, NEW k \in Keys, RemoveKey(k)
  PROVE  AbstractMap!Delete(k)
<1>1. /\ entries \in Seq(Keys \cup Numbers) /\ index \in [Walks -> 1..(MaxEntries + 1)]
      /\ MaxEntries \in Nat /\ MapInv /\ EntriesFit(entries, emptyCount)
      /\ \A i, j \in 1..Len(entries) : entries[i] = entries[j] => i = j
  BY FitFacts DEF WalkInv, MapInv, EntriesFit, WalksFit
<1>2. PICK E : E = Keys \cup Numbers
  OBVIOUS
<1>3. entries \in Seq(E) /\ k \in E
  BY <1>1, <1>2
<1>4. Contains(Live(entries), k)
  BY <1>3, LiveContains DEF RemoveKey
<1>5. OpenWalks' = OpenWalks /\ index' = index /\ Ended' = Ended /\ overtaken' = overtaken
      /\ yielded' = NoKey
  BY DEF RemoveKey, OpenWalks, Ended
<1>6. PICK p \in 1..Len(entries) : p = IndexOf(k) /\ entries[p] = k
  BY <1>1, IndexOfKey DEF RemoveKey
<1>7. Before' = [w \in OpenWalks |-> Ahead(entries', index[w])]
  BY <1>5 DEF Before
<1>8. CASE lock = 0
  <2>1. entries' = RemoveAt(entries, p) /\ OpenWalks = {}
    BY <1>1, <1>6, <1>8, NoLockNoWalk DEF RemoveKey
  <2>2. Live(entries') = Keep(Live(entries), Keys \ {k})
    <3>1. Live(RemoveAt(entries, p)) = Keep(Live(entries), Keys \ {entries[p]})
      BY ONLY <1>1, <1>3, <1>6, LiveRemoved
    <3> QED BY <1>6, <2>1, <3>1
  <2>3. Before' = [w \in DOMAIN Before |-> Keep(Before[w], Keys \ {k})]
    BY <1>7, <2>1, BeforeFacts
  <2> QED BY <1>4, <1>5, <2>2, <2>3, DeleteMapping
<1>9. CASE lock # 0
  <2>1. PICK grown : grown = IF Contains(entries, emptyCount) THEN entries
                               ELSE Append(entries, emptyCount)
    OBVIOUS
  <2>2. entries' = SwapRemoveKey(grown, p)
    BY <1>6, <1>9, <2>1 DEF RemoveKey
  <2>3. PICK es, n, fs : es = entries /\ n = emptyCount /\ fs = entries'
    OBVIOUS
  <2>4. /\ EntriesFit(es, n) /\ p \in 1..Len(es) /\ es[p] \in Keys
        /\ grown = (IF Contains(es, n) THEN es ELSE Append(es, n))
        /\ fs = SwapRemoveKey(grown, p)
    BY <1>1, <1>6, <2>1, <2>2, <2>3
  <2>5. Marked(es, fs, p, n) /\ EntriesFit(fs, n + 1)
    BY ONLY <2>4, MarkFits
  <2>6. /\ es \in Seq(E) /\ fs \in Seq(E) /\ Len(fs) = Len(es)
        /\ \A i, j \in 1..Len(es) : es[i] = es[j] => i = j
        /\ fs[p] \notin Keys /\ \A j \in 1..Len(es) : j # p => fs[j] = es[j]
    <3>1. n \notin Keys
      BY <2>4, OrderedMapAssumption DEF EntriesFit, Numbers
    <3>2. fs \in Seq(E)
      BY <1>2, <2>5 DEF EntriesFit
    <3> QED BY <1>1, <1>3, <2>3, <2>5, <3>1, <3>2 DEF Marked
  <2>7. ASSUME NEW i \in Nat \ {0}
        PROVE  Ahead(fs, i) = Keep(Ahead(es, i), Keys \ {k})
    <3>1. Ahead(fs, i) = Keep(Ahead(es, i), Keys \ {es[p]})
      BY ONLY <2>4, <2>6, i \in Nat \ {0}, AheadMarked
    <3> QED BY <1>6, <2>3, <3>1
  <2>8. Live(entries') = Keep(Live(entries), Keys \ {k})
    <3>1. 1 \in Nat \ {0}
      OBVIOUS
    <3>2. Ahead(fs, 1) = Live(fs) /\ Ahead(es, 1) = Live(es)
      BY <2>6, AheadEnds
    <3>3. Ahead(fs, 1) = Keep(Ahead(es, 1), Keys \ {k})
      BY <2>7, <3>1
    <3> QED BY <2>3, <3>2, <3>3
  <2>9. Before' = [w \in DOMAIN Before |-> Keep(Before[w], Keys \ {k})]
    <3>1. ASSUME NEW w \in OpenWalks
          PROVE  Ahead(entries', index[w]) = Keep(Before[w], Keys \ {k})
      <4>1. index[w] \in Nat \ {0}
        BY <1>1 DEF OpenWalks
      <4>2. PICK i : i = index[w] /\ i \in Nat \ {0}
        BY <4>1
      <4> QED BY <2>3, <2>7, <4>2, BeforeFacts
    <3> QED BY <1>7, <3>1, BeforeFacts
  <2> QED BY <1>4, <1>5, <2>8, <2>9, DeleteMapping
<1> QED BY <1>8, <1>9

\* Clearing leaves nothing ahead of anyone.
LEMMA ClearRefines ==
  ASSUME WalkInv, ClearMap
  PROVE  AbstractMap!Clear
<1>1. /\ entries' = <<>> /\ OpenWalks' = OpenWalks /\ index' = index /\ Ended' = Ended
      /\ yielded' = NoKey /\ overtaken' = overtaken \cup {w \in OpenWalks : index[w] > 1}
  BY DEF ClearMap, OpenWalks, Ended
<1>2. index \in [Walks -> 1..(MaxEntries + 1)] /\ MaxEntries \in Nat /\ overtaken \subseteq OpenWalks
  BY OrderedMapAssumption DEF WalkInv, MapInv, WalksFit, WalksAhead
<1>3. Live(entries') = <<>>
  BY <1>1, KeepOfNothing DEF Live
<1>4. ASSUME NEW w \in OpenWalks PROVE Ahead(entries', index[w]) = <<>>
  <2>1. PICK es, i : es = entries' /\ i = index[w]
    OBVIOUS
  <2>2. es \in Seq(Keys) /\ Len(es) = 0 /\ i \in Int /\ i > Len(es)
    BY <1>1, <1>2, <2>1 DEF OpenWalks
  <2>3. Ahead(es, i) = <<>>
    BY ONLY <2>2, AheadEnds
  <2> QED BY <2>1, <2>3
<1>5. Before' = [w \in OpenWalks |-> Ahead(entries', index[w])]
  BY <1>1 DEF Before
<1>6. Before' = [w \in DOMAIN Before |-> <<>>]
  BY <1>4, <1>5, BeforeFacts
<1>7. overtaken' \in SUBSET DOMAIN Before
  BY <1>1, <1>2, BeforeFacts
<1> QED BY <1>1, <1>3, <1>6, <1>7, ClearMapping

\* A copy leaves all walks with the original.
LEMMA CopyRefines ==
  ASSUME WalkInv, CopySet
  PROVE  AbstractMap!GiveUp(OpenWalks)
<1>1. kind \in [Walks -> WalkKinds] /\ overtaken \subseteq OpenWalks
  BY DEF WalkInv, MapInv, WalksFit, WalksAhead
<1>2. OpenWalks' = {} /\ Ended' = Ended
  BY <1>1 DEF CopySet, OpenWalks, Calls, Ended
<1>3. Before' = [v \in {} |-> Ahead(entries', index'[v])]
  BY <1>2 DEF Before
<1>4. Before' = [v \in DOMAIN Before \ OpenWalks |-> Before[v]]
  BY <1>3, BeforeFacts
<1>5. /\ overtaken' = overtaken \ OpenWalks /\ yielded' = NoKey
      /\ Live(entries') = Live(entries)
  BY <1>1 DEF CopySet
<1>6. PICK gone : gone = OpenWalks
  OBVIOUS
<1> QED BY <1>2, <1>4, <1>5, <1>6, GiveUpMapping

\* A walk that starts has all keys before it.
LEMMA StartRefines ==
  ASSUME WalkInv, NEW w \in Walks, NEW what \in Calls \cup {"iterator"}, StartWalk(w, what)
  PROVE  AbstractMap!Start(w)
<1>1. /\ entries \in Seq(Keys \cup Numbers) /\ kind \in [Walks -> WalkKinds] /\ WalksAhead
  BY DEF WalkInv, MapInv, EntriesFit, WalksFit
<1>2. /\ entries' = entries /\ index' = index /\ overtaken' = overtaken /\ yielded' = NoKey
      /\ index[w] = 1 /\ w \notin OpenWalks
  BY <1>1 DEF StartWalk, WalksAhead, OpenWalks, Calls
<1>3. OpenWalks' = OpenWalks \cup {w} /\ Ended' = Ended
  BY <1>1 DEF StartWalk, OpenWalks, Ended, Calls
<1>4. Before' = [v \in OpenWalks \cup {w} |-> Ahead(entries, index[v])]
  BY <1>2, <1>3 DEF Before
<1>5. Ahead(entries, index[w]) = Live(entries)
  <2>1. PICK i : i = index[w] /\ i = 1
    BY <1>2
  <2>2. Ahead(entries, 1) = Live(entries)
    BY <1>1, AheadEnds
  <2> QED BY <2>1, <2>2
<1>6. Before' = [v \in DOMAIN Before \cup {w} |-> IF v = w THEN Live(entries) ELSE Before[v]]
  BY <1>2, <1>4, <1>5, BeforeFacts
<1> QED BY <1>2, <1>3, <1>6, BeforeFacts, StartMapping

\* A walk that lets go has come to its end, or is given up.
LEMMA LetGoRefines ==
  ASSUME WalkInv, NEW w \in OpenWalks, NEW how \in {"ended", "dropped"}, LetGoOf(w, how),
         how = "ended" => Before[w] = <<>>
  PROVE  AbstractMap!Next
<1>1. /\ entries \in Seq(Keys \cup Numbers) /\ kind \in [Walks -> WalkKinds]
      /\ w \in Walks /\ kind[w] # "ended"
  BY DEF WalkInv, MapInv, EntriesFit, WalksFit, OpenWalks, Calls
<1>2. /\ OpenWalks' = OpenWalks \ {w}
      /\ entries' = entries \/ (OpenWalks' = {} /\ entries' = Live(entries))
      /\ overtaken' = overtaken \ {w} /\ index' = index
      /\ kind' = [kind EXCEPT ![w] = how] /\ yielded' = NoKey
  BY LetGoLeaves DEF WalkInv
<1>3. Live(entries') = Live(entries)
  BY <1>1, <1>2, LiveTwice
<1>4. Before' = [v \in OpenWalks \ {w} |-> Ahead(entries', index[v])]
  BY <1>2 DEF Before
<1>5. Before' = [v \in DOMAIN Before \ {w} |-> Before[v]]
  <2>1. CASE entries' = entries
    BY <1>4, <2>1, BeforeFacts
  <2>2. CASE OpenWalks \ {w} = {}
    BY <1>4, <2>2, BeforeFacts
  <2> QED BY <1>2, <2>1, <2>2
<1>6. CASE how = "ended"
  <2>1. Ended' = Ended \cup {w}
    BY <1>1, <1>2, <1>6 DEF Ended
  <2>2. AbstractMap!End(w)
    BY <1>2, <1>3, <1>5, <1>6, <2>1, BeforeFacts, EndMapping
  <2> QED BY <1>1, <2>2 DEF AbstractMap!Next
<1>7. CASE how = "dropped"
  <2>1. Ended' = Ended
    BY <1>1, <1>2, <1>7 DEF Ended
  <2>2. PICK gone : gone = {w}
    OBVIOUS
  <2>3. AbstractMap!GiveUp(gone)
    BY <1>2, <1>3, <1>5, <2>1, <2>2, GiveUpMapping
  <2>4. gone \in SUBSET DOMAIN Before
    BY <2>2, BeforeFacts
  <2> QED BY <2>3, <2>4, DomainMapping DEF AbstractMap!Next
<1> QED BY <1>6, <1>7

\* A walk hands out the first key it has before it.
LEMMA VisitRefines ==
  ASSUME WalkInv, NEW w \in OpenWalks, NEW i \in DOMAIN entries, VisitEntry(w, i),
         entries[i] \in Keys, index[w] <= i,
         \A m \in index[w]..i - 1 : entries[m] \notin Keys
  PROVE  AbstractMap!Visit(w)
<1>1. /\ entries \in Seq(Keys \cup Numbers) /\ index \in [Walks -> 1..(MaxEntries + 1)]
      /\ MaxEntries \in Nat /\ w \in Walks
  BY OrderedMapAssumption DEF WalkInv, MapInv, EntriesFit, WalksFit, OpenWalks
<1>2. PICK E, n, j : E = Keys \cup Numbers /\ n = Len(entries) /\ j = index[w]
  OBVIOUS
<1>3. /\ entries \in Seq(E) /\ n \in Nat /\ i \in 1..n /\ j \in Nat /\ 1 <= j /\ j <= i
  BY <1>1, <1>2, LenProperties
<1>4. Ahead(entries, j) = Ahead(entries, i)
  <2>1. j \in 1..Len(entries) /\ i \in j..Len(entries) + 1
    BY <1>2, <1>3
  <2>2. \A m \in j..i - 1 : entries[m] \notin Keys
    BY <1>2
  <2> QED BY ONLY <1>3, <2>1, <2>2, AheadSkips
<1>5. /\ Ahead(entries, i) # <<>> /\ Head(Ahead(entries, i)) = entries[i]
      /\ Tail(Ahead(entries, i)) = Ahead(entries, i + 1)
  BY <1>2, <1>3, AheadVisits
<1>6. Before[w] = Ahead(entries, i)
  BY <1>2, <1>4, BeforeFacts
<1>7. /\ OpenWalks' = OpenWalks /\ Ended' = Ended /\ entries' = entries
      /\ index' = [index EXCEPT ![w] = i + 1] /\ overtaken' = overtaken
      /\ yielded' = entries[i]
  BY DEF VisitEntry, OpenWalks, Ended
<1>8. Before' = [v \in OpenWalks |-> Ahead(entries, index'[v])]
  BY <1>7 DEF Before
<1>9. \A v \in OpenWalks : v \in Walks
  BY DEF OpenWalks
<1>10. \A v \in OpenWalks : Ahead(entries, index'[v]) = IF v = w THEN Tail(Before[w]) ELSE Before[v]
  <2>1. ASSUME NEW v \in OpenWalks
        PROVE  Ahead(entries, index'[v]) = IF v = w THEN Tail(Before[w]) ELSE Before[v]
    <3>1. CASE v = w
      <4>1. index'[v] = i + 1
        BY <1>1, <1>7, <3>1
      <4> QED BY <1>5, <1>6, <3>1, <4>1
    <3>2. CASE v # w
      <4>1. index'[v] = index[v]
        BY <1>1, <1>7, <1>9, <3>2
      <4> QED BY <3>2, <4>1, BeforeFacts
    <3> QED BY <3>1, <3>2
  <2> QED BY <2>1
<1>11. Before' = [Before EXCEPT ![w] = Tail(@)]
  BY <1>8, <1>10, BeforeFacts
<1> QED BY <1>5, <1>6, <1>7, <1>11, BeforeFacts, VisitMapping

\* A walk that has passed the end, or has only empty entries before it, has no
\* key before it.
LEMMA NothingAhead ==
  ASSUME WalkInv, NEW w \in OpenWalks,
         \A m \in DOMAIN entries : m >= index[w] => entries[m] \notin Keys
  PROVE  Before[w] = <<>>
<1>1. /\ entries \in Seq(Keys \cup Numbers) /\ index \in [Walks -> 1..(MaxEntries + 1)]
      /\ MaxEntries \in Nat /\ w \in Walks
  BY OrderedMapAssumption DEF WalkInv, MapInv, EntriesFit, WalksFit, OpenWalks
<1>2. PICK E, n, i : E = Keys \cup Numbers /\ n = Len(entries) /\ i = index[w]
  OBVIOUS
<1>3. entries \in Seq(E) /\ n \in Nat /\ i \in Nat /\ 1 <= i /\ Before[w] = Ahead(entries, i)
  BY <1>1, <1>2, LenProperties, BeforeFacts
<1>4. \A m \in Int : m > n => Ahead(entries, m) = <<>>
  BY <1>2, <1>3, AheadEnds
<1>5. CASE i > n
  BY <1>3, <1>4, <1>5
<1>6. CASE i <= n
  <2>1. PICK j : j = n + 1
    OBVIOUS
  <2>2. /\ i \in 1..Len(entries) /\ j \in i..Len(entries) + 1
        /\ \A m \in i..j - 1 : entries[m] \notin Keys
    BY <1>2, <1>3, <1>6, <2>1
  <2>3. Ahead(entries, i) = Ahead(entries, j)
    BY ONLY <1>3, <2>2, AheadSkips
  <2> QED BY <1>3, <1>4, <2>1, <2>3
<1> QED BY <1>3, <1>5, <1>6

\* Turns that hand out no key change nothing that is promised.
LEMMA PassRefines ==
  ASSUME WalkInv, NEW w \in OpenWalks, index[w] <= Len(entries), entries[index[w]] \notin Keys,
         index' = [index EXCEPT ![w] = @ + 1] \/ index' = index,
         yielded' = NoKey, UNCHANGED <<entries, kind, overtaken>>
  PROVE  AbstractMap!Pass
<1>1. /\ entries \in Seq(Keys \cup Numbers) /\ index \in [Walks -> 1..(MaxEntries + 1)]
      /\ MaxEntries \in Nat /\ w \in Walks
  BY OrderedMapAssumption DEF WalkInv, MapInv, EntriesFit, WalksFit, OpenWalks
<1>2. PICK E, n, i : E = Keys \cup Numbers /\ n = Len(entries) /\ i = index[w]
  OBVIOUS
<1>3. entries \in Seq(E) /\ n \in Nat /\ i \in Nat /\ 1 <= i /\ i <= n
  BY <1>1, <1>2, LenProperties
<1>4. Ahead(entries, i) = Ahead(entries, i + 1)
  <2>1. PICK j : j = i + 1
    OBVIOUS
  <2>2. /\ i \in 1..Len(entries) /\ j \in i..Len(entries) + 1
        /\ \A m \in i..j - 1 : entries[m] \notin Keys
    BY <1>2, <1>3, <2>1
  <2>3. Ahead(entries, i) = Ahead(entries, j)
    BY ONLY <1>3, <2>2, AheadSkips
  <2> QED BY <2>1, <2>3
<1>5. OpenWalks' = OpenWalks /\ Ended' = Ended
  BY DEF OpenWalks, Ended
<1>6. Before' = [v \in OpenWalks |-> Ahead(entries, index'[v])]
  BY <1>5 DEF Before
<1>7. ASSUME NEW v \in OpenWalks PROVE Ahead(entries, index'[v]) = Before[v]
  <2>1. v \in Walks
    BY DEF OpenWalks
  <2>2. CASE index'[v] = index[v]
    BY <2>2, BeforeFacts
  <2>3. CASE v = w /\ index'[v] = i + 1
    BY <1>2, <1>4, <2>3, BeforeFacts
  <2> QED BY <1>1, <1>2, <2>1, <2>2, <2>3
<1>8. Before' = [v \in OpenWalks |-> Before[v]]
  BY <1>6, <1>7
<1>9. Before = [v \in OpenWalks |-> Before[v]]
  BY DEF Before
<1> QED BY <1>5, <1>8, <1>9, PassMapping

\* Turns of the loops.
LEMMA TurnRefines ==
  ASSUME WalkInv, NEW w \in Walks, ForEachTurn(w) \/ NativeTurn(w)
  PROVE  AbstractMap!Next
<1>1. /\ w \in OpenWalks /\ entries \in Seq(Keys \cup Numbers)
      /\ index[w] \in Nat /\ 1 <= index[w] /\ Len(entries) \in Nat /\ DOMAIN entries = 1..Len(entries)
  BY OrderedMapAssumption, LenProperties
  DEF ForEachTurn, NativeTurn, OpenWalks, Calls, WalkInv, MapInv, EntriesFit, WalksFit
<1>2. CASE index[w] > Len(entries) /\ LetGoOf(w, "ended")
  <2>1. Before[w] = <<>>
    <3>1. \A m \in DOMAIN entries : m >= index[w] => entries[m] \notin Keys
      BY <1>1, <1>2
    <3> QED BY <1>1, <3>1, NothingAhead
  <2> QED BY <1>1, <1>2, <2>1, LetGoRefines
<1>3. CASE index[w] <= Len(entries) /\ entries[index[w]] \in Keys /\ VisitEntry(w, index[w])
  <2>1. PICK i : i = index[w]
    OBVIOUS
  <2>2. i \in DOMAIN entries /\ \A m \in index[w]..i - 1 : entries[m] \notin Keys
    BY <1>1, <1>3, <2>1
  <2>3. VisitEntry(w, i) /\ entries[i] \in Keys /\ index[w] <= i
    BY <1>1, <1>3, <2>1
  <2>4. AbstractMap!Visit(w)
    BY <1>1, <2>2, <2>3, VisitRefines
  <2> QED BY <2>4 DEF AbstractMap!Next
<1>4. CASE /\ index[w] <= Len(entries) /\ entries[index[w]] \notin Keys
           /\ index' = [index EXCEPT ![w] = @ + 1] \/ index' = index
           /\ yielded' = NoKey /\ UNCHANGED <<entries, kind, overtaken>>
  <2>1. AbstractMap!Pass
    BY <1>1, <1>4, PassRefines
  <2> QED BY <2>1 DEF AbstractMap!Next
<1> QED BY <1>2, <1>3, <1>4 DEF ForEachTurn, NativeTurn

\* Iterators.
LEMMA IteratorRefines ==
  ASSUME WalkInv, NEW w \in Walks, IteratorNext(w)
  PROVE  AbstractMap!Next
<1>1. /\ w \in OpenWalks /\ entries \in Seq(Keys \cup Numbers)
      /\ index[w] \in Nat /\ 1 <= index[w] /\ Len(entries) \in Nat /\ DOMAIN entries = 1..Len(entries)
  BY OrderedMapAssumption, LenProperties
  DEF IteratorNext, OpenWalks, Calls, WalkInv, MapInv, EntriesFit, WalksFit
<1>2. PICK ahead : ahead = {i \in DOMAIN entries : i >= index[w] /\ entries[i] \in Keys}
  OBVIOUS
<1>3. \/ \E i \in ahead : (\A j \in ahead : i <= j) /\ VisitEntry(w, i)
      \/ ahead = {} /\ LetGoOf(w, "ended")
  BY <1>2 DEF IteratorNext
<1>4. ASSUME NEW i \in ahead, \A j \in ahead : i <= j, VisitEntry(w, i) PROVE AbstractMap!Next
  <2>1. i \in DOMAIN entries /\ entries[i] \in Keys /\ index[w] <= i
    BY <1>1, <1>2
  <2>2. ASSUME NEW m \in index[w]..i - 1 PROVE entries[m] \notin Keys
    <3>1. m \in DOMAIN entries /\ m >= index[w] /\ ~ (i <= m)
      BY <1>1, <2>1
    <3> QED BY <1>2, <1>4, <3>1
  <2>3. AbstractMap!Visit(w)
    BY <1>1, <1>4, <2>1, <2>2, VisitRefines
  <2> QED BY <2>3 DEF AbstractMap!Next
<1>5. CASE ahead = {} /\ LetGoOf(w, "ended")
  <2>1. Before[w] = <<>>
    BY <1>1, <1>2, <1>5, NothingAhead
  <2> QED BY <1>1, <1>5, <2>1, LetGoRefines
<1> QED BY <1>3, <1>4, <1>5

\* Every step of the map is one that MapData allows.
LEMMA WalkRefines ==
  WalkInv /\ [MapNext]_mapVars => [AbstractMap!Next]_AbstractMap!vars
<1> SUFFICES ASSUME WalkInv, [MapNext]_mapVars PROVE [AbstractMap!Next]_AbstractMap!vars
  OBVIOUS
<1>1. ASSUME NEW k \in Keys, InsertKey(k) \/ RemoveKey(k) PROVE AbstractMap!Next
  BY <1>1, InsertRefines, DeleteRefines DEF AbstractMap!Next
<1>2. CASE ClearMap
  BY <1>2, ClearRefines DEF AbstractMap!Next
<1>3. CASE CopySet
  <2>1. PICK gone : gone = OpenWalks
    OBVIOUS
  <2>2. AbstractMap!GiveUp(gone) /\ gone \in SUBSET DOMAIN Before
    BY <1>3, <2>1, CopyRefines, BeforeFacts
  <2> QED BY <2>2, DomainMapping
<1>4. ASSUME NEW w \in Walks, NEW what \in Calls \cup {"iterator"}, StartWalk(w, what)
      PROVE  AbstractMap!Next
  BY <1>4, StartRefines DEF AbstractMap!Next
<1>5. ASSUME NEW w \in Walks, IteratorNext(w) \/ ForEachTurn(w) \/ NativeTurn(w)
      PROVE  AbstractMap!Next
  BY <1>5, IteratorRefines, TurnRefines
<1>6. ASSUME NEW w \in Walks, DropIterator(w) \/ WalkThrows(w) PROVE AbstractMap!Next
  <2>1. w \in OpenWalks /\ LetGoOf(w, "dropped")
    BY <1>6 DEF DropIterator, WalkThrows, OpenWalks
  <2> QED BY <2>1, LetGoRefines
<1>7. CASE UNCHANGED mapVars
  <2>1. /\ entries' = entries /\ index' = index /\ kind' = kind /\ overtaken' = overtaken
        /\ yielded' = yielded
    BY <1>7 DEF mapVars
  <2>2. Before' = Before /\ Ended' = Ended
    BY <2>1 DEF Before, Ended, OpenWalks
  <2> QED BY <2>1, <2>2, StutterMapping
<1> QED BY <1>1, <1>2, <1>3, <1>4, <1>5, <1>6, <1>7 DEF MapNext

\* The map begins as MapData does.
LEMMA WalkInitRefines == MapInit => AbstractMap!Init
<1> SUFFICES ASSUME MapInit PROVE AbstractMap!Init
  OBVIOUS
<1>1. OpenWalks = {} /\ Ended = {} /\ Live(entries) = <<>> /\ overtaken = {} /\ yielded = NoKey
  BY KeepOfNothing DEF MapInit, OpenWalks, Calls, Ended, Live
<1>2. Before = [w \in {} |-> <<>>]
  BY <1>1 DEF Before
<1> QED BY <1>1, <1>2, MapMapping

\* THE REFINEMENT
\* Whatever is inserted, deleted, cleared, copied or walked over between two of
\* its steps, each walk hands out what MapData says is before it, in that order.
THEOREM WalksSeeWhatTheMapPromises == MapSpec => WalksRefineMapData
<1>1. WalkInv /\ [MapNext]_mapVars => WalkInv'
  BY WalkNextInv
<1> QED BY <1>1, WalkInitInv, WalkInitRefines, WalkRefines, PTL
        DEF MapSpec, WalksRefineMapData, AbstractMap!Spec

----------------------------------------------------------------------------
(* The inductive invariant of InlineCaches.                                 *)

AllKinds   == {"data", "readonly", "accessor"}
Properties == [key : {"x", "y"}, attributes : AllKinds]
Tables     == {t \in Seq(Properties) : \A i, j \in DOMAIN t : t[i].key = t[j].key => i = j}
ShapeRecords == [addr : Addrs, unique : BOOLEAN, prototype : BOOLEAN, table : Tables]
Slots == [inherited : BOOLEAN, index : Nat, attributes : AllKinds]
EntryRecords == [shape : Addrs, alive : BOOLEAN, prototypeShape : Addrs \cup {NoShape},
                 prototypeAlive : BOOLEAN, slot : Slots, right : BOOLEAN]

ShapesIn(f, L) == L \cup {f[o] : o \in Owners}

\* One address, one shape; and a unique shape has one owner.
ObjectsFit(f, L) ==
  /\ f \in [Owners -> ShapeRecords]
  /\ L \subseteq ShapeRecords
  /\ \A s \in L, o \in Owners : s.addr # f[o].addr
  /\ \A s, t \in L : s.addr = t.addr => s = t
  /\ f["receiver"].addr = f["prototype"].addr =>
       f["receiver"] = f["prototype"] /\ ~f["receiver"].unique

\* The shapes that o has or may come to have again: a unique one is left for good.
UsableBy(f, L, o) == {f[o]} \cup {s \in ShapesIn(f, L) : ~s.unique}

\* What a right entry says of the receiver's shape and of the prototype's.
FitsReceiver(e, s) ==
  IF e.slot.inherited THEN s.unique \/ ~Has(s.table, "x")
  ELSE Has(s.table, "x") /\ e.slot = SlotIn(s.table, "x", FALSE)
FitsPrototype(e, s) ==
  e.slot.inherited => Has(s.table, "x") /\ e.slot = SlotIn(s.table, "x", TRUE)

AddressesLive(f, L, e) ==
  /\ e.alive => \E s \in ShapesIn(f, L) : s.addr = e.shape
  /\ e.prototypeAlive => \E s \in ShapesIn(f, L) : s.addr = e.prototypeShape

RightNow(f, L, e) ==
  /\ e.alive =>
       \A s \in UsableBy(f, L, "receiver") : s.addr = e.shape => FitsReceiver(e, s)
  /\ e.prototypeAlive =>
       \A s \in UsableBy(f, L, "prototype") : s.addr = e.prototypeShape => FitsPrototype(e, s)
  /\ e.slot.inherited => e.prototypeShape # NoShape

SetMayUse(which, slot) ==
  which = "set" =>
    slot.attributes # "readonly" /\ (slot.inherited => slot.attributes = "accessor")

EntryGood(which, f, L, e) ==
  AddressesLive(f, L, e) /\ (e.right => RightNow(f, L, e) /\ SetMayUse(which, e.slot))

CacheGood(which, f, L, c) ==
  /\ c \in Seq(EntryRecords) /\ Len(c) <= Capacity
  /\ \A i \in 1..Len(c) : EntryGood(which, f, L, c[i])

LookupFits == lookup # NoLookup => lookup.slot \in Slots /\ lookup.slot.attributes = "accessor"

CacheInv ==
  /\ ObjectsFit(shapeOf, left)
  /\ CacheGood(instruction, shapeOf, left, cached)
  /\ LookupFits
----------------------------------------------------------------------------
(* Property tables.                                                         *)

\* Where a key is, and what its slot is.
LEMMA SlotFacts ==
  ASSUME NEW t \in Tables, NEW k, Has(t, k), NEW b \in BOOLEAN
  PROVE  /\ At(t, k) \in 1..Len(t) /\ t[At(t, k)].key = k
         /\ \A i \in 1..Len(t) : t[i].key = k => i = At(t, k)
         /\ SlotIn(t, k, b) \in Slots
         /\ SlotIn(t, k, b).inherited = b
         /\ SlotIn(t, k, b).attributes = t[At(t, k)].attributes
<1>1. /\ t \in Seq(Properties) /\ DOMAIN t = 1..Len(t) /\ Len(t) \in Nat
      /\ \A i, j \in 1..Len(t) : t[i].key = t[j].key => i = j
      /\ \A i \in 1..Len(t) : t[i] \in Properties
  BY LenProperties, ElementOfSeq DEF Tables
<1>2. At(t, k) \in 1..Len(t) /\ t[At(t, k)].key = k
  BY <1>1 DEF Has, At
<1>3. \A i \in 1..Len(t) : t[i].key = k => i = At(t, k)
  BY <1>1, <1>2
<1>4. PICK i, T : i = At(t, k) /\ T = {j \in 1..(i - 1) : t[j].attributes = "accessor"}
  OBVIOUS
<1>5. i \in Nat /\ i >= 1
  BY <1>1, <1>2, <1>4
<1>6. Cardinality(T) \in Nat
  <2>1. PICK U, one, m : one = 1 /\ m = i - 1 /\ U = one..m
    OBVIOUS
  <2>2. one \in Int /\ m \in Int /\ T \in SUBSET U
    BY <1>4, <1>5, <2>1
  <2>3. IsFiniteSet(T)
    BY <2>1, <2>2, FS_Interval, FS_Subset
  <2> QED BY <2>3, FS_CardinalityType
<1>7. SlotIn(t, k, b) = [inherited |-> b, index |-> i - 1 + Cardinality(T), attributes |-> t[i].attributes]
  BY <1>4 DEF SlotIn
<1>8. t[i] \in Properties
  BY <1>1, <1>2, <1>4
<1>9. i - 1 + Cardinality(T) \in Nat /\ t[i].attributes \in AllKinds
  BY <1>5, <1>6, <1>8 DEF Properties
<1> QED BY <1>2, <1>3, <1>4, <1>7, <1>9 DEF Slots

\* A property that is added does not move the others.
LEMMA AppendKeeps ==
  ASSUME NEW t \in Tables, NEW k \in {"x", "y"}, ~ Has(t, k), NEW a \in AllKinds,
         NEW u, u = Append(t, Property(k, a))
  PROVE  /\ u \in Tables
         /\ Has(t, "x") =>
              /\ Has(u, "x")
              /\ SlotIn(u, "x", TRUE) = SlotIn(t, "x", TRUE)
              /\ SlotIn(u, "x", FALSE) = SlotIn(t, "x", FALSE)
         /\ Has(u, k)
<1>1. /\ t \in Seq(Properties) /\ DOMAIN t = 1..Len(t) /\ Len(t) \in Nat
      /\ \A i, j \in 1..Len(t) : t[i].key = t[j].key => i = j
  BY LenProperties DEF Tables
<1>2. PICK p : p = Property(k, a)
  OBVIOUS
<1>3. p \in Properties /\ p.key = k
  BY <1>2 DEF Property, Properties
<1>4. /\ u \in Seq(Properties) /\ Len(u) = Len(t) + 1 /\ u[Len(t) + 1] = p
      /\ \A i \in 1..Len(t) : u[i] = t[i]
  BY <1>1, <1>2, <1>3, AppendProperties
<1>5. DOMAIN u = 1..Len(t) + 1
  BY <1>4, LenProperties
<1>6. /\ \A i \in 1..Len(t) + 1 : i \in 1..Len(t) \/ i = Len(t) + 1
      /\ \A i \in 1..Len(t) : i \in 1..Len(t) + 1
      /\ Len(t) + 1 \in 1..Len(t) + 1
  BY <1>1
<1>7. \A i \in 1..Len(t) : t[i].key # k
  BY <1>1 DEF Has
<1>8. u \in Tables
  <2> SUFFICES ASSUME NEW i \in 1..Len(t) + 1, NEW j \in 1..Len(t) + 1, u[i].key = u[j].key
               PROVE  i = j
    BY <1>4, <1>5 DEF Tables
  <2> QED BY <1>1, <1>3, <1>4, <1>6, <1>7
<1>9. Has(u, k)
  BY <1>3, <1>4, <1>5, <1>6 DEF Has
<1>10. ASSUME Has(t, "x"), NEW b \in BOOLEAN
       PROVE  Has(u, "x") /\ SlotIn(u, "x", b) = SlotIn(t, "x", b)
  <2>1. PICK i : i = At(t, "x")
    OBVIOUS
  <2>2. i \in 1..Len(t) /\ t[i].key = "x"
    BY <1>10, <2>1, SlotFacts
  <2>3. i \in 1..Len(t) + 1 /\ u[i] = t[i]
    BY <1>4, <1>6, <2>2
  <2>4. Has(u, "x")
    BY <1>5, <2>2, <2>3 DEF Has
  <2>5. i \in 1..Len(u) /\ u[i].key = "x"
    BY <1>4, <2>2, <2>3
  <2>6. At(u, "x") = i
    BY <1>8, <2>4, <2>5, SlotFacts
  <2>7. \A j \in 1..(i - 1) : u[j] = t[j]
    <3>1. \A j \in 1..(i - 1) : j \in 1..Len(t)
      BY <1>1, <2>2
    <3> QED BY <1>4, <3>1
  <2>8. PICK T, U : /\ T = {j \in 1..(i - 1) : t[j].attributes = "accessor"}
                    /\ U = {j \in 1..(i - 1) : u[j].attributes = "accessor"}
    OBVIOUS
  <2>9. T = U
    BY <2>7, <2>8
  <2>10. /\ SlotIn(t, "x", b) = [inherited |-> b, index |-> i - 1 + Cardinality(T), attributes |-> t[i].attributes]
         /\ SlotIn(u, "x", b) = [inherited |-> b, index |-> i - 1 + Cardinality(U), attributes |-> u[i].attributes]
    BY <2>1, <2>6, <2>8 DEF SlotIn
  <2> QED BY <2>3, <2>4, <2>9, <2>10
<1> QED BY <1>8, <1>9, <1>10

\* The other changes of a table make a table, too.
LEMMA TableChanges ==
  ASSUME NEW t \in Tables, NEW k, Has(t, k)
  PROVE  /\ \A a \in AllKinds : [t EXCEPT ![At(t, k)].attributes = a] \in Tables
         /\ RemoveAt(t, At(t, k)) \in Tables
<1>1. /\ t \in Seq(Properties) /\ DOMAIN t = 1..Len(t) /\ Len(t) \in Nat
      /\ \A i, j \in 1..Len(t) : t[i].key = t[j].key => i = j
      /\ \A i \in 1..Len(t) : t[i] \in Properties
  BY LenProperties, ElementOfSeq DEF Tables
<1>2. PICK p : p = At(t, k)
  OBVIOUS
<1>3. p \in 1..Len(t)
  BY <1>2, SlotFacts
<1>4. ASSUME NEW a \in AllKinds, NEW u, u = [t EXCEPT ![p].attributes = a]
      PROVE  u \in Tables
  <2>1. PICK e : e = [t[p] EXCEPT !.attributes = a]
    OBVIOUS
  <2>2. e \in Properties /\ e.key = t[p].key
    BY <1>1, <1>3, <2>1 DEF Properties
  <2>3. u = [t EXCEPT ![p] = e]
    BY <1>4, <2>1
  <2>4. u \in Seq(Properties) /\ Len(u) = Len(t)
    BY <1>1, <1>3, <2>2, <2>3, ExceptSeq
  <2>5. DOMAIN u = 1..Len(t) /\ \A i \in 1..Len(t) : u[i].key = t[i].key
    BY <1>1, <1>3, <2>2, <2>3
  <2> QED BY <1>1, <2>4, <2>5 DEF Tables
<1>5. ASSUME NEW u, u = RemoveAt(t, p)
      PROVE  u \in Tables
  <2>1. /\ u \in Seq(Properties) /\ Len(u) = Len(t) - 1
        /\ \A j \in 1..Len(u) : u[j] = IF j < p THEN t[j] ELSE t[j + 1]
    <3>1. t \in Seq(Properties) /\ p \in 1..Len(t) /\ u = RemoveAt(t, p)
      BY <1>1, <1>3, <1>5
    <3> QED BY ONLY <3>1, RemoveAtFacts
  <2>2. DOMAIN u = 1..Len(u)
    BY <2>1, LenProperties
  <2>3. \A j \in 1..Len(u) : j \in 1..Len(t) /\ j + 1 \in 1..Len(t) /\ j \in Nat
    BY <1>1, <2>1
  <2> SUFFICES ASSUME NEW i \in 1..Len(u), NEW j \in 1..Len(u), u[i].key = u[j].key
               PROVE  i = j
    BY <2>1, <2>2 DEF Tables
  <2>4. (IF i < p THEN i ELSE i + 1) = (IF j < p THEN j ELSE j + 1)
    BY <1>1, <2>1, <2>3
  <2> QED BY <1>3, <2>3, <2>4
<1> QED BY <1>2, <1>4, <1>5

\* No property at all.
LEMMA EmptyTable == <<>> \in Tables /\ ~ Has(<<>>, "x")
<1>1. PICK t : t = <<>>
  OBVIOUS
<1>2. t \in Seq(Properties) /\ Len(t) = 0
  BY <1>1, EmptySeq
<1>3. DOMAIN t = 1..0
  BY <1>2, LenProperties
<1>4. \A i : i \notin DOMAIN t
  BY <1>3
<1>5. t \in Tables /\ ~ Has(t, "x")
  BY <1>2, <1>4 DEF Tables, Has
<1> QED BY <1>1, <1>5
----------------------------------------------------------------------------
(* One object gets another shape.                                           *)

Fresh(f, L, s) == \A t \in ShapesIn(f, L) : t.addr # s.addr

\* new is old with a property more, at the same address.
Extends(new, old) ==
  /\ new.unique /\ old.unique /\ new.addr = old.addr
  /\ \E k \in {"x", "y"}, a \in AllKinds :
       ~ Has(old.table, k) /\ new.table = Append(old.table, Property(k, a))

\* o's shape, among f and L, becomes new, and leaves old at its address: new is
\* fresh, or shared by transition, or the same unique shape grown.
Evolves(f, L, o, new, old) ==
  /\ new \in ShapeRecords /\ old \in ShapeRecords
  /\ old.addr = f[o].addr
  /\ old.unique \/ old = f[o]
  /\ \/ Fresh(f, L, new)
     \/ new \in ShapesIn(f, L) /\ ~ new.unique
     \/ Extends(new, f[o])

\* What is left of the shapes: those that something refers to.
Leaves(f, L, o, new, old, g, M) ==
  /\ g = [f EXCEPT ![o] = new]
  /\ M \subseteq L \cup {old}
  /\ \A s \in M, p \in Owners : s.addr # g[p].addr

\* Addresses stay unique.
LEMMA ObjectsEvolve ==
  ASSUME NEW f, NEW L, ObjectsFit(f, L), NEW o \in Owners, NEW new, NEW old,
         Evolves(f, L, o, new, old), NEW g, NEW M, Leaves(f, L, o, new, old, g, M)
  PROVE  ObjectsFit(g, M)
<1>1. /\ f \in [Owners -> ShapeRecords] /\ new \in ShapeRecords /\ old \in ShapeRecords
      /\ g = [f EXCEPT ![o] = new] /\ g \in [Owners -> ShapeRecords] /\ M \subseteq ShapeRecords
      /\ g[o] = new
      /\ \A p \in Owners : p # o => g[p] = f[p]
  BY DEF ObjectsFit, Evolves, Leaves
<1>2. \A s, t \in M : s.addr = t.addr => s = t
  <2>1. \A s \in L : s.addr # old.addr
    BY DEF ObjectsFit, Evolves
  <2>2. \A s \in M : s \in L \/ s = old
    BY DEF Leaves
  <2> QED BY <2>1, <2>2 DEF ObjectsFit
<1>3. ASSUME NEW p \in Owners, p # o, new.addr = f[p].addr
      PROVE  new = f[p] /\ ~ new.unique
  <2>1. f[p] \in ShapesIn(f, L) /\ f[o] \in ShapesIn(f, L)
    BY DEF ShapesIn
  <2>2. ~ Fresh(f, L, new)
    BY <1>3, <2>1 DEF Fresh
  <2>3. f[o].addr = f[p].addr => f[o] = f[p] /\ ~ f[o].unique
    BY <1>3 DEF ObjectsFit, Owners
  <2>4. ~ Extends(new, f[o])
    BY <1>3, <2>3 DEF Extends
  <2>5. new \in ShapesIn(f, L) /\ ~ new.unique
    BY <2>2, <2>4 DEF Evolves
  <2>6. CASE new \in L
    BY <1>3, <2>6 DEF ObjectsFit
  <2>7. CASE new = f[o]
    BY <1>3, <2>3, <2>5, <2>7
  <2>8. new \in L \/ new = f[o] \/ new = f[p]
    BY <1>3, <2>5 DEF ShapesIn, Owners
  <2> QED BY <2>5, <2>6, <2>7, <2>8
<1>4. g["receiver"].addr = g["prototype"].addr =>
        g["receiver"] = g["prototype"] /\ ~ g["receiver"].unique
  <2>1. CASE o = "receiver"
    BY <1>1, <1>3, <2>1 DEF Owners
  <2>2. CASE o = "prototype"
    BY <1>1, <1>3, <2>2 DEF Owners
  <2> QED BY <2>1, <2>2 DEF Owners
<1> QED BY <1>1, <1>2, <1>4 DEF ObjectsFit, Leaves

\* A shape that p can use now was usable before, is fresh, or has just grown.
LEMMA UsableEvolve ==
  ASSUME NEW f, NEW L, ObjectsFit(f, L), NEW o \in Owners, NEW new, NEW old,
         Evolves(f, L, o, new, old), NEW g, NEW M, Leaves(f, L, o, new, old, g, M),
         NEW p \in Owners, NEW s \in UsableBy(g, M, p)
  PROVE  \/ s \in UsableBy(f, L, p)
         \/ Fresh(f, L, s)
         \/ p = o /\ s = new /\ Extends(new, f[p])
<1>1. /\ g[o] = new /\ \A q \in Owners : q # o => g[q] = f[q]
      /\ M \subseteq L \cup {old}
  BY DEF ObjectsFit, Leaves
<1>2. \A q \in Owners : f[q] \in ShapesIn(f, L)
  BY DEF ShapesIn
<1>3. CASE s = new /\ (p = o \/ ~ s.unique)
  <2>1. CASE new \in ShapesIn(f, L) /\ ~ new.unique
    BY <1>3, <2>1 DEF UsableBy
  <2>2. CASE Fresh(f, L, new)
    BY <1>3, <2>2
  <2>3. CASE Extends(new, f[o])
    BY <1>3, <2>3 DEF Extends
  <2> QED BY <2>1, <2>2, <2>3 DEF Evolves
<1>4. CASE s = g[p] /\ p # o
  BY <1>1, <1>4 DEF UsableBy
<1>5. CASE s \in M /\ ~ s.unique
  <2>1. s \in L \/ s = f[o]
    BY <1>1, <1>5 DEF Evolves
  <2>2. s \in ShapesIn(f, L)
    BY <1>2, <2>1 DEF ShapesIn
  <2> QED BY <1>5, <2>2 DEF UsableBy
<1>6. CASE \E q \in Owners : q # o /\ s = g[q] /\ ~ s.unique
  BY <1>1, <1>2, <1>6 DEF UsableBy
<1>7. \/ s = g[p]
      \/ ~ s.unique /\ (s \in M \/ \E q \in Owners : s = g[q])
  BY DEF UsableBy, ShapesIn
<1> QED BY <1>1, <1>3, <1>4, <1>5, <1>6, <1>7

\* An entry stays right: the address of a shape that is still there is neither
\* fresh nor given to a shape that says something else.
LEMMA EntryEvolves ==
  ASSUME NEW which, NEW f, NEW L, ObjectsFit(f, L), NEW o \in Owners, NEW new, NEW old,
         Evolves(f, L, o, new, old), NEW g, NEW M, Leaves(f, L, o, new, old, g, M),
         NEW e \in EntryRecords, EntryGood(which, f, L, e),
         \A s \in L \cup {old} :
           /\ \/ e.alive /\ e.shape = s.addr
              \/ e.prototypeAlive /\ e.prototypeShape = s.addr
           /\ \A p \in Owners : s.addr # g[p].addr
           => s \in M
  PROVE  EntryGood(which, g, M, e)
<1>1. /\ g[o] = new /\ \A q \in Owners : q # o => g[q] = f[q]
      /\ old.addr = f[o].addr /\ f \in [Owners -> ShapeRecords]
  BY DEF ObjectsFit, Leaves, Evolves
<1>2. ASSUME NEW a, NEW s \in ShapesIn(f, L), s.addr = a,
             \/ e.alive /\ e.shape = a
             \/ e.prototypeAlive /\ e.prototypeShape = a
      PROVE  \E t \in ShapesIn(g, M) : t.addr = a
  <2>1. CASE \E p \in Owners : g[p].addr = a
    BY <2>1 DEF ShapesIn
  <2>2. CASE \A p \in Owners : g[p].addr # a
    <3>1. PICK t \in L \cup {old} : t.addr = a
      <4>1. CASE s \in L
        BY <1>2, <4>1
      <4>2. CASE s = f[o]
        BY <1>1, <1>2, <4>2
      <4>3. \A q \in Owners : q # o => s # f[q]
        BY <1>1, <1>2, <2>2
      <4> QED BY <4>1, <4>2, <4>3 DEF ShapesIn
    <3>2. t \in M
      BY <1>2, <2>2, <3>1
    <3> QED BY <3>1, <3>2 DEF ShapesIn
  <2> QED BY <2>1, <2>2
<1>3. AddressesLive(g, M, e)
  <2>1. ASSUME e.alive PROVE \E s \in ShapesIn(g, M) : s.addr = e.shape
    <3>1. PICK s \in ShapesIn(f, L) : s.addr = e.shape
      BY <2>1 DEF EntryGood, AddressesLive
    <3> QED BY <1>2, <2>1, <3>1
  <2>2. ASSUME e.prototypeAlive PROVE \E s \in ShapesIn(g, M) : s.addr = e.prototypeShape
    <3>1. PICK s \in ShapesIn(f, L) : s.addr = e.prototypeShape
      BY <2>2 DEF EntryGood, AddressesLive
    <3> QED BY <1>2, <2>2, <3>1
  <2> QED BY <2>1, <2>2 DEF AddressesLive
<1>4. ASSUME e.right PROVE RightNow(g, M, e) /\ SetMayUse(which, e.slot)
  <2>1. /\ RightNow(f, L, e) /\ SetMayUse(which, e.slot) /\ AddressesLive(f, L, e)
        /\ e.slot.inherited \in BOOLEAN
    BY <1>4 DEF EntryGood, EntryRecords, Slots
  <2>2. ASSUME NEW p \in Owners, Extends(new, f[p]), p = o
        PROVE  /\ Has(f[p].table, "x") =>
                    /\ Has(new.table, "x")
                    /\ SlotIn(new.table, "x", TRUE) = SlotIn(f[p].table, "x", TRUE)
                    /\ SlotIn(new.table, "x", FALSE) = SlotIn(f[p].table, "x", FALSE)
               /\ new.unique /\ f[p] \in UsableBy(f, L, p) /\ f[p].addr = new.addr
    <3>1. PICK k \in {"x", "y"}, a \in AllKinds :
              ~ Has(f[p].table, k) /\ new.table = Append(f[p].table, Property(k, a))
      BY <2>2 DEF Extends
    <3>2. f[p].table \in Tables
      BY <1>1 DEF ShapeRecords
    <3>3. Has(f[p].table, "x") =>
             /\ Has(new.table, "x")
             /\ SlotIn(new.table, "x", TRUE) = SlotIn(f[p].table, "x", TRUE)
             /\ SlotIn(new.table, "x", FALSE) = SlotIn(f[p].table, "x", FALSE)
      <4>1. PICK t, u : t = f[p].table /\ u = new.table
        OBVIOUS
      <4>2. /\ t \in Tables /\ k \in {"x", "y"} /\ a \in AllKinds
            /\ ~ Has(t, k) /\ u = Append(t, Property(k, a))
        BY <3>1, <3>2, <4>1
      <4>3. Has(t, "x") =>
               /\ Has(u, "x")
               /\ SlotIn(u, "x", TRUE) = SlotIn(t, "x", TRUE)
               /\ SlotIn(u, "x", FALSE) = SlotIn(t, "x", FALSE)
        BY ONLY <4>2, AppendKeeps
      <4> QED BY ONLY <4>1, <4>3
    <3> QED BY <2>2, <3>3 DEF UsableBy, Extends
  <2>3. ASSUME e.alive, NEW s \in UsableBy(g, M, "receiver"), s.addr = e.shape
        PROVE  FitsReceiver(e, s)
    <3>1. "receiver" \in Owners
      BY DEF Owners
    <3>2. ~ Fresh(f, L, s)
      BY <2>1, <2>3 DEF AddressesLive, Fresh
    <3>3. CASE s \in UsableBy(f, L, "receiver")
      BY <2>1, <2>3, <3>3 DEF RightNow
    <3>4. CASE o = "receiver" /\ Extends(s, f["receiver"]) /\ s = new
      <4>1. FitsReceiver(e, f["receiver"])
        BY <2>1, <2>2, <2>3, <3>1, <3>4 DEF RightNow
      <4> QED BY <2>2, <3>1, <3>4, <4>1 DEF FitsReceiver
    <3> QED BY <2>3, <3>1, <3>2, <3>3, <3>4, UsableEvolve
  <2>4. ASSUME e.prototypeAlive, NEW s \in UsableBy(g, M, "prototype"), s.addr = e.prototypeShape
        PROVE  FitsPrototype(e, s)
    <3>1. "prototype" \in Owners
      BY DEF Owners
    <3>2. ~ Fresh(f, L, s)
      BY <2>1, <2>4 DEF AddressesLive, Fresh
    <3>3. CASE s \in UsableBy(f, L, "prototype")
      BY <2>1, <2>4, <3>3 DEF RightNow
    <3>4. CASE o = "prototype" /\ Extends(s, f["prototype"]) /\ s = new
      <4>1. FitsPrototype(e, f["prototype"])
        BY <2>1, <2>2, <2>4, <3>1, <3>4 DEF RightNow
      <4> QED BY <2>2, <3>1, <3>4, <4>1 DEF FitsPrototype
    <3> QED BY <2>4, <3>1, <3>2, <3>3, <3>4, UsableEvolve
  <2> QED BY <2>1, <2>3, <2>4 DEF RightNow
<1> QED BY <1>3, <1>4 DEF EntryGood
----------------------------------------------------------------------------
(* The transitions of InlineCaches change one object's shape so.            *)

Changes(o) == \E new, old : Evolves(shapeOf, left, o, new, old) /\ Become(o, new, old)

\* A shape that moves gets an address that nobody has.
LEMMA MoveChanges ==
  ASSUME ObjectsFit(shapeOf, left), NEW o \in Owners, NEW new \in ShapeRecords,
         NEW old \in ShapeRecords, old.addr = shapeOf[o].addr,
         old.unique \/ old = shapeOf[o], Move(o, new, old)
  PROVE  Changes(o)
<1>1. FreeAddrs \subseteq Nat /\ FreeAddrs # {} /\ FreeAddrs \subseteq Addrs
  BY InlineCacheAssumption DEF Move, FreeAddrs
<1>2. PICK a : a = NextAddr
  OBVIOUS
<1>3. a \in FreeAddrs
  <2>1. \E i \in FreeAddrs : \A j \in FreeAddrs : i <= j
    BY <1>1, LeastNumber
  <2> QED BY <1>2, <2>1, Zenon DEF NextAddr
<1>4. PICK moved : moved = [new EXCEPT !.addr = a]
  OBVIOUS
<1>5. moved \in ShapeRecords /\ moved.addr = a
  BY <1>1, <1>3, <1>4 DEF ShapeRecords
<1>6. Fresh(shapeOf, left, moved)
  BY <1>3, <1>5 DEF Fresh, ShapesIn, FreeAddrs, Shapes
<1>7. Become(o, moved, old)
  BY <1>2, <1>4 DEF Move
<1> QED BY <1>5, <1>6, <1>7 DEF Changes, Evolves

\* A transition of a shared shape leads to one that is there or to a new one.
LEMMA ShareChanges ==
  ASSUME ObjectsFit(shapeOf, left), NEW o \in Owners, NEW new \in ShapeRecords,
         ~ new.unique, Share(o, new)
  PROVE  Changes(o)
<1>1. shapeOf[o] \in ShapeRecords
  BY DEF ObjectsFit
<1>2. ASSUME NEW s \in Shapes, s = [new EXCEPT !.addr = s.addr], Become(o, s, shapeOf[o])
      PROVE  Changes(o)
  <2>1. s \in ShapesIn(shapeOf, left) /\ s \in ShapeRecords
    BY <1>2 DEF Shapes, ShapesIn, ObjectsFit
  <2>2. s.unique = new.unique
    BY <1>2 DEF ShapeRecords
  <2> QED BY <1>1, <1>2, <2>1, <2>2 DEF Changes, Evolves
<1>3. ASSUME NEW unique \in BOOLEAN, Move(o, [new EXCEPT !.unique = unique], shapeOf[o])
      PROVE  Changes(o)
  <2>1. [new EXCEPT !.unique = unique] \in ShapeRecords
    BY DEF ShapeRecords
  <2> QED BY <1>1, <1>3, <2>1, MoveChanges
<1> QED BY <1>2, <1>3 DEF Share

\* Another table makes another shape.
LEMMA RetableChanges ==
  ASSUME ObjectsFit(shapeOf, left), NEW o \in Owners, NEW table \in Tables, Retable(o, table)
  PROVE  Changes(o)
<1>1. PICK old, new, rest : /\ old = shapeOf[o] /\ new = [old EXCEPT !.table = table]
                            /\ rest = [old EXCEPT !.table = <<>>, !.prototype = FALSE]
  OBVIOUS
<1>2. old \in ShapeRecords /\ <<>> \in Tables
  BY <1>1, EmptyTable DEF ObjectsFit
<1>3. /\ new \in ShapeRecords /\ new.unique = old.unique
      /\ rest \in ShapeRecords /\ rest.unique = old.unique /\ rest.addr = old.addr
  BY <1>1, <1>2 DEF ShapeRecords
<1>4. CASE old.unique
  <2>1. Move(o, new, rest)
    BY <1>1, <1>4 DEF Retable
  <2> QED BY <1>1, <1>3, <1>4, <2>1, MoveChanges
<1>5. CASE ~ old.unique
  <2>1. Share(o, new)
    BY <1>1, <1>5 DEF Retable
  <2> QED BY <1>3, <1>5, <2>1, ShareChanges
<1> QED BY <1>4, <1>5

\* A new property makes a unique shape grow where it is.
LEMMA InsertChanges ==
  ASSUME ObjectsFit(shapeOf, left), NEW o \in Owners, NEW k \in {"x", "y"},
         NEW a \in AllKinds, InsertProperty(o, k, a)
  PROVE  Changes(o)
<1>1. PICK old, table, new : /\ old = shapeOf[o] /\ table = Append(old.table, Property(k, a))
                             /\ new = [old EXCEPT !.table = table]
  OBVIOUS
<1>2. old \in ShapeRecords /\ old.table \in Tables /\ ~ Has(old.table, k)
  BY <1>1 DEF ObjectsFit, ShapeRecords, InsertProperty
<1>3. PICK t : t = old.table
  OBVIOUS
<1>4. t \in Tables /\ ~ Has(t, k) /\ table = Append(t, Property(k, a))
  BY <1>1, <1>2, <1>3
<1>5. table \in Tables
  BY <1>4, AppendKeeps
<1>6. /\ new \in ShapeRecords /\ new.unique = old.unique /\ new.addr = old.addr
      /\ new.table = table
  BY <1>1, <1>2, <1>5 DEF ShapeRecords
<1>7. CASE old.unique
  <2>1. Become(o, new, old)
    BY <1>1, <1>7 DEF InsertProperty
  <2>2. Extends(new, old)
    BY <1>1, <1>2, <1>6, <1>7 DEF Extends
  <2> QED BY <1>1, <1>2, <1>6, <2>1, <2>2 DEF Changes, Evolves
<1>8. CASE ~ old.unique
  <2>1. Share(o, new)
    BY <1>1, <1>8 DEF InsertProperty
  <2> QED BY <1>6, <1>8, <2>1, ShareChanges
<1> QED BY <1>7, <1>8

\* Another prototype makes another shape, too.
LEMMA PrototypeChanges ==
  ASSUME ObjectsFit(shapeOf, left), NEW on \in BOOLEAN, ChangePrototype(on)
  PROVE  Changes("receiver")
<1>1. PICK o, old, new, rest :
           /\ o = "receiver" /\ old = shapeOf[o] /\ new = [old EXCEPT !.prototype = on]
           /\ rest = [old EXCEPT !.table = <<>>]
  OBVIOUS
<1>2. o \in Owners /\ old \in ShapeRecords /\ <<>> \in Tables
  BY <1>1, EmptyTable DEF ObjectsFit, Owners
<1>3. /\ new \in ShapeRecords /\ new.unique = old.unique
      /\ rest \in ShapeRecords /\ rest.unique = old.unique /\ rest.addr = old.addr
  BY <1>1, <1>2 DEF ShapeRecords
<1>4. CASE old.unique
  <2>1. Move(o, new, rest)
    BY <1>1, <1>4 DEF ChangePrototype
  <2> QED BY <1>1, <1>2, <1>3, <1>4, <2>1, MoveChanges
<1>5. CASE ~ old.unique
  <2>1. Share(o, new)
    BY <1>1, <1>5 DEF ChangePrototype
  <2> QED BY <1>1, <1>2, <1>3, <1>5, <2>1, ShareChanges
<1> QED BY <1>4, <1>5

\* All that JavaScript does to shapes is a change of one object's shape.
LEMMA ReshapeChanges ==
  ASSUME ObjectsFit(shapeOf, left), Reshape
  PROVE  \E o \in Owners : Changes(o)
<1>1. \A k \in Names : k \in {"x", "y"} /\ Attributes(k) \subseteq AllKinds
  BY InlineCacheAssumption DEF Attributes, AllKinds
<1>2. ASSUME NEW o \in Owners, NEW k \in Names, NEW a \in Attributes(k), InsertProperty(o, k, a)
      PROVE  Changes(o)
  BY <1>1, <1>2, InsertChanges
<1>3. ASSUME NEW o \in Owners, NEW k \in Names, NEW a \in Attributes(k), ChangeAttributes(o, k, a)
      PROVE  Changes(o)
  <2>1. PICK t, u : t = shapeOf[o].table /\ u = [t EXCEPT ![At(t, k)].attributes = a]
    OBVIOUS
  <2>2. t \in Tables /\ Has(t, k) /\ Retable(o, u) /\ a \in AllKinds
    BY <1>1, <1>3, <2>1 DEF ChangeAttributes, ObjectsFit, ShapeRecords
  <2>3. u \in Tables
    BY <2>1, <2>2, TableChanges
  <2> QED BY <2>2, <2>3, RetableChanges
<1>4. ASSUME NEW o \in Owners, NEW k \in Names, RemoveProperty(o, k)
      PROVE  Changes(o)
  <2>1. PICK t, u : t = shapeOf[o].table /\ u = RemoveAt(t, At(t, k))
    OBVIOUS
  <2>2. t \in Tables /\ Has(t, k) /\ Retable(o, u)
    BY <1>4, <2>1 DEF RemoveProperty, ObjectsFit, ShapeRecords
  <2>3. u \in Tables
    BY <2>1, <2>2, TableChanges
  <2> QED BY <2>2, <2>3, RetableChanges
<1>5. ASSUME NEW on \in BOOLEAN, ChangePrototype(on)
      PROVE  \E o \in Owners : Changes(o)
  BY <1>5, PrototypeChanges DEF Owners
<1> QED BY <1>2, <1>3, <1>4, <1>5 DEF Reshape

\* The entries that were good stay so.
LEMMA ChangeKeeps ==
  ASSUME CacheInv, NEW o \in Owners, Changes(o)
  PROVE  /\ ObjectsFit(shapeOf', left')
         /\ CacheGood(instruction, shapeOf', left', cached)
<1>1. PICK new, old : Evolves(shapeOf, left, o, new, old) /\ Become(o, new, old)
  BY DEF Changes
<1>2. PICK f, L, g, M : f = shapeOf /\ L = left /\ g = shapeOf' /\ M = left'
  OBVIOUS
<1>3. /\ ObjectsFit(f, L) /\ Evolves(f, L, o, new, old)
      /\ Leaves(f, L, o, new, old, g, M)
  BY <1>1, <1>2 DEF CacheInv, Become, Leaves
<1>4. ObjectsFit(g, M)
  BY <1>3, ObjectsEvolve
<1>5. ASSUME NEW i \in 1..Len(cached)
      PROVE  EntryGood(instruction, g, M, cached[i])
  <2>1. PICK e : e = cached[i]
    OBVIOUS
  <2>2. e \in EntryRecords /\ EntryGood(instruction, f, L, e) /\ i \in DOMAIN cached
    BY <1>2, <2>1, ElementOfSeq, LenProperties DEF CacheInv, CacheGood
  <2>3. ASSUME NEW s \in L \cup {old},
               \/ e.alive /\ e.shape = s.addr
               \/ e.prototypeAlive /\ e.prototypeShape = s.addr,
               \A p \in Owners : s.addr # g[p].addr
        PROVE  s \in M
    <3>1. ReferredTo(s.addr)
      BY <2>1, <2>2, <2>3 DEF ReferredTo
    <3> QED BY <1>1, <1>2, <2>3, <3>1 DEF Become
  <2> QED BY <1>3, <2>1, <2>2, <2>3, EntryEvolves
<1> QED BY <1>2, <1>4, <1>5 DEF CacheInv, CacheGood
----------------------------------------------------------------------------
(* The entries of InlineCaches.                                             *)

\* An address belongs to one shape.
LEMMA OneAddressOneShape ==
  ASSUME ObjectsFit(shapeOf, left)
  PROVE  /\ \A s, t \in Shapes : s.addr = t.addr => s = t
         /\ \A s \in Shapes : s \in ShapeRecords
         /\ Shapes = ShapesIn(shapeOf, left)
<1>1. Shapes = left \cup {shapeOf["receiver"], shapeOf["prototype"]}
  BY DEF Shapes, Owners
<1>2. Shapes = ShapesIn(shapeOf, left)
  BY DEF Shapes, ShapesIn
<1> QED BY <1>1, <1>2 DEF ObjectsFit, Owners

\* What a lookup finds has a slot, and is found in the receiver first.
LEMMA FoundFacts ==
  ASSUME ObjectsFit(shapeOf, left), NEW s \in ShapeRecords, Finds(s)
  PROVE  /\ Found(s) \in Slots
         /\ Has(s.table, "x") => ~ Found(s).inherited /\ Found(s) = SlotIn(s.table, "x", FALSE)
         /\ ~ Has(s.table, "x") =>
              /\ Found(s).inherited /\ s.prototype
              /\ Has(shapeOf["prototype"].table, "x")
              /\ Found(s) = SlotIn(shapeOf["prototype"].table, "x", TRUE)
<1>1. PICK t, u : t = s.table /\ u = shapeOf["prototype"].table
  OBVIOUS
<1>2. t \in Tables /\ u \in Tables
  BY <1>1 DEF ObjectsFit, ShapeRecords, Owners
<1>3. CASE Has(t, "x")
  <2>1. Found(s) = SlotIn(t, "x", FALSE)
    BY <1>1, <1>3 DEF Found
  <2>2. SlotIn(t, "x", FALSE) \in Slots /\ ~ SlotIn(t, "x", FALSE).inherited
    BY <1>2, <1>3, SlotFacts
  <2> QED BY <1>1, <1>3, <2>1, <2>2
<1>4. CASE ~ Has(t, "x")
  <2>1. Found(s) = SlotIn(u, "x", TRUE) /\ s.prototype /\ Has(u, "x")
    BY <1>1, <1>4 DEF Found, Finds, Inherits
  <2>2. SlotIn(u, "x", TRUE) \in Slots /\ SlotIn(u, "x", TRUE).inherited
    BY <1>2, <2>1, SlotFacts
  <2> QED BY <1>1, <1>4, <2>1, <2>2
<1> QED BY <1>3, <1>4

\* The entry that is made for a slot is what it says.
LEMMA EntryIsGood ==
  ASSUME ObjectsFit(shapeOf, left), NEW which, NEW shape \in Shapes, NEW slot \in Slots,
         SetMayUse(which, slot), NEW e, e = Entry(shape, slot)
  PROVE  e = NoEntry \/ (e \in EntryRecords /\ EntryGood(which, shapeOf, left, e))
<1>1. CASE slot.inherited /\ ~ shape.prototype
  BY <1>1 DEF Entry
<1>2. CASE ~ (slot.inherited /\ ~ shape.prototype)
  <2>1. PICK q, a, r : /\ q = shapeOf["prototype"]
                       /\ a = (IF slot.inherited THEN q.addr ELSE NoShape)
                       /\ r = (Finds(shape) /\ Found(shape) = slot)
    OBVIOUS
  <2>2. e = [shape |-> shape.addr, alive |-> TRUE, prototypeShape |-> a,
             prototypeAlive |-> slot.inherited, slot |-> slot, right |-> r]
    BY <1>2, <2>1 DEF Entry
  <2>3. /\ q \in Shapes /\ q \in ShapeRecords /\ shape \in ShapeRecords
        /\ slot.inherited \in BOOLEAN
    BY <2>1, OneAddressOneShape DEF Shapes, Owners, Slots
  <2>4. /\ e.shape = shape.addr /\ e.prototypeShape = a /\ e.slot = slot
        /\ e.prototypeAlive = slot.inherited /\ e.alive
        /\ e.right = r
    BY <2>2
  <2>5. e \in EntryRecords
    <3>1. r \in BOOLEAN
      BY <2>1
    <3>2. a \in Addrs \cup {NoShape} /\ shape.addr \in Addrs
      BY <2>1, <2>3 DEF ShapeRecords
    <3> QED BY <2>2, <2>3, <3>1, <3>2 DEF EntryRecords
  <2>6. AddressesLive(shapeOf, left, e)
    <3>1. shape \in ShapesIn(shapeOf, left) /\ q \in ShapesIn(shapeOf, left)
      BY <2>3, OneAddressOneShape
    <3> QED BY <2>1, <2>4, <3>1 DEF AddressesLive
  <2>7. ASSUME e.right PROVE RightNow(shapeOf, left, e)
    <3>1. Finds(shape) /\ Found(shape) = slot
      BY <2>1, <2>4, <2>7
    <3>2. ASSUME NEW s \in UsableBy(shapeOf, left, "receiver"), s.addr = e.shape
          PROVE  FitsReceiver(e, s)
      <4>1. s \in Shapes
        BY DEF UsableBy, ShapesIn, Shapes, Owners
      <4>2. s = shape
        BY <2>4, <3>2, <4>1, OneAddressOneShape
      <4> QED BY <2>3, <2>4, <3>1, <4>2, FoundFacts DEF FitsReceiver
    <3>3. ASSUME NEW s \in UsableBy(shapeOf, left, "prototype"), s.addr = e.prototypeShape,
                 slot.inherited
          PROVE  FitsPrototype(e, s)
      <4>1. s \in Shapes
        BY DEF UsableBy, ShapesIn, Shapes, Owners
      <4>2. s = q
        BY <2>1, <2>3, <2>4, <3>3, <4>1, OneAddressOneShape
      <4> QED BY <2>1, <2>3, <2>4, <3>1, <3>3, <4>2, FoundFacts DEF FitsPrototype
    <3>4. slot.inherited => a # NoShape
      BY <2>1, <2>3, InlineCacheAssumption DEF ShapeRecords, NoShape
    <3> QED BY <2>4, <3>2, <3>3, <3>4 DEF RightNow
  <2> QED BY <2>4, <2>5, <2>6, <2>7 DEF EntryGood
<1> QED BY <1>1, <1>2

\* Adding a good entry keeps the cache good.
LEMMA AddGood ==
  ASSUME NEW which, NEW f, NEW L, CacheGood(which, f, L, cached), NEW entry,
         entry = NoEntry \/ (entry \in EntryRecords /\ EntryGood(which, f, L, entry)),
         AddEntry(entry)
  PROVE  CacheGood(which, f, L, cached')
<1>1. /\ cached \in Seq(EntryRecords) /\ Len(cached) <= Capacity /\ Len(cached) \in Nat
      /\ Capacity \in Nat \ {0}
      /\ \A i \in 1..Len(cached) : EntryGood(which, f, L, cached[i])
  BY LenProperties, InlineCacheAssumption DEF CacheGood
<1>2. PICK live : live = Keep(cached, {e \in ToSet(cached) : e.alive})
  OBVIOUS
<1>3. live \in Seq(EntryRecords) /\ Len(live) <= Len(cached) /\ Len(live) \in Nat
  BY <1>1, <1>2, KeepFacts
<1>4. \A i \in 1..Len(live) : EntryGood(which, f, L, live[i])
  <2> SUFFICES ASSUME NEW i \in 1..Len(live) PROVE EntryGood(which, f, L, live[i])
    OBVIOUS
  <2>1. live[i] \in ToSet(live)
    BY <1>3, ToSetFacts
  <2>2. live[i] \in ToSet(cached)
    <3>1. PICK kept : kept = {e \in ToSet(cached) : e.alive}
      OBVIOUS
    <3>2. cached \in Seq(EntryRecords) /\ live = Keep(cached, kept)
      BY <1>1, <1>2, <3>1
    <3>3. \A x : x \in ToSet(live) <=> x \in ToSet(cached) /\ x \in kept
      BY ONLY <3>2, KeepElements
    <3> QED BY <2>1, <3>3
  <2>3. PICK j \in 1..Len(cached) : cached[j] = live[i]
    BY <1>1, <2>2, ToSetFacts
  <2> QED BY <1>1, <2>3
<1>5. CASE cached' = live
  BY <1>1, <1>3, <1>4, <1>5 DEF CacheGood
<1>6. CASE cached' = cached
  BY <1>6 DEF CacheGood
<1>7. CASE cached' = <<>>
  <2>1. PICK t : t = <<>>
    OBVIOUS
  <2>2. t \in Seq(EntryRecords) /\ Len(t) = 0
    BY <2>1, EmptySeq
  <2> QED BY <1>1, <1>7, <2>1, <2>2 DEF CacheGood
<1>8. CASE cached' = Append(live, entry) /\ entry # NoEntry /\ Len(live) # Capacity
  <2>1. PICK t : t = Append(live, entry)
    OBVIOUS
  <2>2. /\ t \in Seq(EntryRecords) /\ Len(t) = Len(live) + 1 /\ t[Len(live) + 1] = entry
        /\ \A i \in 1..Len(live) : t[i] = live[i]
    BY <1>3, <1>8, <2>1, AppendProperties
  <2>3. \A i \in 1..Len(t) : i \in 1..Len(live) \/ i = Len(live) + 1
    BY <1>3, <2>2
  <2>4. Len(t) <= Capacity
    BY <1>1, <1>3, <1>8, <2>2
  <2> QED BY <1>4, <1>8, <2>1, <2>2, <2>3, <2>4 DEF CacheGood
<1> QED BY <1>2, <1>5, <1>6, <1>7, <1>8 DEF AddEntry
----------------------------------------------------------------------------
(* The steps of InlineCaches.                                               *)

\* A behaviour of InlineCaches begins so.
LEMMA CacheInitInv == CacheInit => CacheInv
<1> SUFFICES ASSUME CacheInit PROVE CacheInv
  OBVIOUS
<1>1. PICK u, v \in BOOLEAN :
           shapeOf = [receiver  |-> [addr |-> 1, unique |-> u, prototype |-> TRUE,  table |-> <<>>],
                      prototype |-> [addr |-> 2, unique |-> v, prototype |-> FALSE, table |-> <<>>]]
  BY DEF CacheInit
<1>2. 1 \in Addrs /\ 2 \in Addrs /\ <<>> \in Tables
  BY EmptyTable, InlineCacheAssumption
<1>3. PICK r, p : /\ r = [addr |-> 1, unique |-> u, prototype |-> TRUE,  table |-> <<>>]
                  /\ p = [addr |-> 2, unique |-> v, prototype |-> FALSE, table |-> <<>>]
  OBVIOUS
<1>4. r \in ShapeRecords /\ p \in ShapeRecords /\ r.addr # p.addr
  BY <1>2, <1>3 DEF ShapeRecords
<1>5. /\ shapeOf \in [Owners -> ShapeRecords]
      /\ shapeOf["receiver"].addr # shapeOf["prototype"].addr
  <2>1. shapeOf = [receiver |-> r, prototype |-> p]
    BY <1>1, <1>3, Zenon
  <2>2. DOMAIN shapeOf = Owners /\ shapeOf["receiver"] = r /\ shapeOf["prototype"] = p
    BY ONLY <2>1 DEF Owners
  <2>3. shapeOf = [o \in Owners |-> shapeOf[o]]
    BY ONLY <2>1, <2>2
  <2> QED BY ONLY <1>4, <2>2, <2>3 DEF Owners
<1>6. ObjectsFit(shapeOf, left)
  BY <1>5 DEF ObjectsFit, CacheInit
<1>7. CacheGood(instruction, shapeOf, left, cached)
  <2>1. cached \in Seq(EntryRecords) /\ Len(cached) = 0
    BY EmptySeq DEF CacheInit
  <2> QED BY <2>1, InlineCacheAssumption DEF CacheGood
<1>8. LookupFits
  BY DEF CacheInit, LookupFits
<1> QED BY <1>6, <1>7, <1>8 DEF CacheInv

\* A freed shape takes the weak references to it along.
LEMMA FreeKeeps ==
  ASSUME CacheInv, NEW s \in left, FreeShape(s)
  PROVE  CacheInv'
<1>1. PICK f, L, M : f = shapeOf /\ L = left /\ M = left \ {s}
  OBVIOUS
<1>2. /\ ObjectsFit(f, L) /\ f = shapeOf' /\ M = left'
      /\ cached \in Seq(EntryRecords) /\ Len(cached) <= Capacity
      /\ DOMAIN cached = 1..Len(cached) /\ Len(cached) \in Nat
      /\ \A i \in 1..Len(cached) : cached[i] \in EntryRecords /\ EntryGood(instruction, f, L, cached[i])
  BY <1>1, LenProperties, ElementOfSeq DEF CacheInv, CacheGood, FreeShape
<1>3. ObjectsFit(f, M)
  BY <1>1, <1>2 DEF ObjectsFit
<1>4. PICK c : c = cached'
  OBVIOUS
<1>5. c = [i \in 1..Len(cached) |->
             [cached[i] EXCEPT !.alive = @ /\ cached[i].shape # s.addr,
                               !.prototypeAlive = @ /\ cached[i].prototypeShape # s.addr]]
  BY <1>2, <1>4 DEF FreeShape
<1>6. ASSUME NEW i \in 1..Len(cached)
      PROVE  c[i] \in EntryRecords /\ EntryGood(instruction, f, M, c[i])
  <2>1. PICK e, d : e = cached[i] /\ d = c[i]
    OBVIOUS
  <2>2. e \in EntryRecords /\ EntryGood(instruction, f, L, e)
    BY <1>2, <2>1
  <2>3. PICK x, y : /\ x = (e.alive /\ e.shape # s.addr)
                    /\ y = (e.prototypeAlive /\ e.prototypeShape # s.addr)
    OBVIOUS
  <2>4. d = [e EXCEPT !.alive = x, !.prototypeAlive = y] /\ x \in BOOLEAN /\ y \in BOOLEAN
    BY <1>5, <2>1, <2>3
  <2>5. /\ d \in EntryRecords /\ d.alive = x /\ d.prototypeAlive = y /\ d.shape = e.shape
        /\ d.prototypeShape = e.prototypeShape /\ d.slot = e.slot /\ d.right = e.right
    BY <2>2, <2>4 DEF EntryRecords
  <2>6. \A t \in ShapesIn(f, L) : t.addr # s.addr => t \in ShapesIn(f, M)
    BY <1>1 DEF ShapesIn
  <2>7. AddressesLive(f, M, d)
    <3>1. ASSUME d.alive PROVE \E t \in ShapesIn(f, M) : t.addr = d.shape
      <4>1. e.alive /\ e.shape # s.addr
        BY <2>3, <2>5, <3>1
      <4>2. PICK t \in ShapesIn(f, L) : t.addr = e.shape
        BY <2>2, <4>1 DEF EntryGood, AddressesLive
      <4> QED BY <2>5, <2>6, <4>1, <4>2
    <3>2. ASSUME d.prototypeAlive PROVE \E t \in ShapesIn(f, M) : t.addr = d.prototypeShape
      <4>1. e.prototypeAlive /\ e.prototypeShape # s.addr
        BY <2>3, <2>5, <3>2
      <4>2. PICK t \in ShapesIn(f, L) : t.addr = e.prototypeShape
        BY <2>2, <4>1 DEF EntryGood, AddressesLive
      <4> QED BY <2>5, <2>6, <4>1, <4>2
    <3> QED BY <3>1, <3>2 DEF AddressesLive
  <2>8. \A o \in Owners : UsableBy(f, M, o) \subseteq UsableBy(f, L, o)
    BY <1>1 DEF UsableBy, ShapesIn
  <2>9. \A o \in Owners : o = "receiver" \/ o = "prototype"
    BY DEF Owners
  <2>10. ASSUME d.right PROVE RightNow(f, M, d) /\ SetMayUse(instruction, d.slot)
    <3>1. RightNow(f, L, e) /\ SetMayUse(instruction, e.slot)
      BY <2>2, <2>5, <2>10 DEF EntryGood
    <3>2. d.alive => e.alive
      BY <2>3, <2>5
    <3>3. d.prototypeAlive => e.prototypeAlive
      BY <2>3, <2>5
    <3> QED BY <2>5, <2>8, <3>1, <3>2, <3>3 DEF RightNow, FitsReceiver, FitsPrototype, Owners
  <2> QED BY <2>1, <2>5, <2>7, <2>10 DEF EntryGood
<1>7. c \in Seq(EntryRecords) /\ Len(c) = Len(cached)
  <2>1. c \in [1..Len(cached) -> EntryRecords]
    BY <1>5, <1>6
  <2>2. c \in Seq(EntryRecords)
    BY <1>2, <2>1, SeqDef
  <2> QED BY <1>2, <2>1, <2>2, LenProperties
<1>8. CacheGood(instruction, f, M, c)
  BY <1>2, <1>6, <1>7 DEF CacheGood
<1> QED BY <1>2, <1>3, <1>4, <1>8 DEF CacheInv, FreeShape, LookupFits

\* set creates a property, and caches nothing.
LEMMA CreateKeeps ==
  ASSUME CacheInv, CreateProperty
  PROVE  CacheInv'
<1>1. /\ "receiver" \in Owners /\ "x" \in {"x", "y"} /\ "data" \in AllKinds
      /\ InsertProperty("receiver", "x", "data") /\ ObjectsFit(shapeOf, left)
      /\ UNCHANGED <<instruction, cached, lookup>>
  BY DEF CreateProperty, CacheInv, Owners, AllKinds
<1>2. /\ ObjectsFit(shapeOf', left')
      /\ CacheGood(instruction, shapeOf', left', cached)
  BY <1>1, InsertChanges, ChangeKeeps
<1> QED BY <1>1, <1>2 DEF CacheInv, LookupFits

\* A step that leaves shapes alone and adds an entry, or none.
LEMMA CacheStep ==
  ASSUME CacheInv, UNCHANGED <<instruction, shapeOf, left>>, LookupFits',
         CacheGood(instruction, shapeOf, left, cached')
  PROVE  CacheInv'
BY DEF CacheInv

\* An entry for a slot is added.
LEMMA AddStep ==
  ASSUME CacheInv, UNCHANGED <<instruction, shapeOf, left>>, LookupFits',
         NEW shape \in Shapes, NEW slot \in Slots, SetMayUse(instruction, slot),
         AddEntry(Entry(shape, slot))
  PROVE  CacheInv'
<1>1. PICK e : e = Entry(shape, slot)
  OBVIOUS
<1>2. e = NoEntry \/ (e \in EntryRecords /\ EntryGood(instruction, shapeOf, left, e))
  BY <1>1, EntryIsGood DEF CacheInv
<1>3. CacheGood(instruction, shapeOf, left, cached')
  BY <1>1, <1>2, AddGood DEF CacheInv
<1> QED BY <1>3, CacheStep

\* Every step keeps the invariant.
LEMMA CacheNextInv == CacheInv /\ [CacheNext]_cacheVars => CacheInv'
<1> SUFFICES ASSUME CacheInv, [CacheNext]_cacheVars PROVE CacheInv'
  OBVIOUS
<1>1. /\ ObjectsFit(shapeOf, left) /\ shapeOf["receiver"] \in Shapes
      /\ shapeOf["receiver"] \in ShapeRecords /\ CacheGood(instruction, shapeOf, left, cached)
  BY DEF CacheInv, ObjectsFit, Shapes, Owners
<1>2. CASE Reshape
  <2>1. PICK o \in Owners : Changes(o)
    BY <1>1, <1>2, ReshapeChanges
  <2>2. /\ ObjectsFit(shapeOf', left')
        /\ CacheGood(instruction, shapeOf', left', cached)
    BY <2>1, ChangeKeeps
  <2> QED BY <1>2, <2>2 DEF Reshape, CacheInv, LookupFits
<1>3. CASE MissData
  <2>1. PICK shape, slot : shape = shapeOf["receiver"] /\ slot = Found(shape)
    OBVIOUS
  <2>2. slot \in Slots
    BY <1>1, <1>3, <2>1, FoundFacts DEF MissData
  <2>3. SetMayUse(instruction, slot)
    BY <1>3, <2>1 DEF MissData, SetMayUse
  <2>4. LookupFits'
    BY <1>3 DEF MissData, CacheInv, LookupFits
  <2> QED BY <1>1, <1>3, <2>1, <2>2, <2>3, <2>4, AddStep DEF MissData
<1>4. CASE CallAccessor
  <2>1. PICK shape : shape = shapeOf["receiver"]
    OBVIOUS
  <2>2. lookup'.slot = Found(shape) /\ Found(shape) \in Slots /\ Found(shape).attributes = "accessor"
    BY <1>1, <1>4, <2>1, FoundFacts DEF CallAccessor
  <2>3. LookupFits'
    BY <2>2 DEF LookupFits
  <2> QED BY <1>1, <1>4, <2>3, CacheStep DEF CallAccessor
<1>5. CASE AccessorReturns
  <2>1. LookupFits'
    BY <1>5 DEF AccessorReturns, LookupFits
  <2>2. lookup.slot \in Slots /\ SetMayUse(instruction, lookup.slot)
    BY <1>5 DEF AccessorReturns, CacheInv, LookupFits, SetMayUse
  <2>3. CASE AddEntry(Entry(shapeOf["receiver"], lookup.slot))
    BY <1>1, <1>5, <2>1, <2>2, <2>3, AddStep DEF AccessorReturns
  <2>4. CASE cached' = cached
    BY <1>1, <1>5, <2>1, <2>4, CacheStep DEF AccessorReturns
  <2>5. CASE \E shape \in Shapes : AddEntry(Entry(shape, lookup.slot))
    BY <1>5, <2>1, <2>2, <2>5, AddStep DEF AccessorReturns
  <2> QED BY <1>5, <2>3, <2>4, <2>5 DEF AccessorReturns
<1>6. CASE AccessorThrows
  BY <1>1, <1>6, CacheStep DEF AccessorThrows, LookupFits
<1>7. CASE UNCHANGED cacheVars
  BY <1>1, <1>7, CacheStep DEF cacheVars, CacheInv, LookupFits
<1> QED BY <1>2, <1>3, <1>4, <1>5, <1>6, <1>7, FreeKeeps, CreateKeeps DEF CacheNext

\* An entry that was right when it was made never answers with a wrong slot,
\* through any transitions, collections and reuse of addresses; but for a unique
\* receiver that got a property of its own before the inherited one.
THEOREM EntriesAlwaysStayRight == CacheSpec => []EntriesStayRight
<1>1. CacheInv => EntriesStayRight
  <2> SUFFICES ASSUME CacheInv, NEW i \in DOMAIN cached, NEW e, e = cached[i],
                      Matches(e), e.right
               PROVE  \/ HitIsRight(e)
                      \/ e.slot.inherited /\ shapeOf["receiver"].unique
                         /\ Has(shapeOf["receiver"].table, "x")
    BY DEF EntriesStayRight
  <2>1. /\ EntryGood(instruction, shapeOf, left, e) /\ e \in EntryRecords
        /\ e.alive /\ e.shape = shapeOf["receiver"].addr
    BY LenProperties, ElementOfSeq DEF CacheInv, CacheGood, Matches
  <2>2. RightNow(shapeOf, left, e) /\ SetMayUse(instruction, e.slot)
    BY <2>1 DEF EntryGood
  <2>3. FitsReceiver(e, shapeOf["receiver"])
    BY <2>1, <2>2 DEF RightNow, UsableBy
  <2>4. CASE ~ e.slot.inherited
    BY <2>2, <2>3, <2>4 DEF FitsReceiver, HitIsRight, SetMayUse, Finds, Found
  <2>5. CASE e.slot.inherited /\ ~ Has(shapeOf["receiver"].table, "x")
    <3>1. /\ shapeOf["receiver"].prototype /\ e.prototypeAlive
          /\ e.prototypeShape = shapeOf["prototype"].addr
      BY <2>2, <2>5 DEF Matches, RightNow
    <3>2. FitsPrototype(e, shapeOf["prototype"])
      BY <2>2, <3>1 DEF RightNow, UsableBy
    <3> QED BY <2>2, <2>5, <3>1, <3>2 DEF FitsPrototype, HitIsRight, SetMayUse, Finds, Found, Inherits
  <2> QED BY <2>3, <2>4, <2>5 DEF FitsReceiver
<1> QED BY <1>1, CacheInitInv, CacheNextInv, PTL DEF CacheSpec

\* An address belongs to one shape at a time, the one a live entry saw included,
\* and the cache stays within its capacity.
THEOREM TheCachesTypesAreCorrect == CacheSpec => []CacheTypeOK
<1>1. CacheInv => CacheTypeOK
  <2> SUFFICES ASSUME CacheInv PROVE CacheTypeOK
    OBVIOUS
  <2>1. ObjectsFit(shapeOf, left) /\ DOMAIN cached = 1..Len(cached) /\ Len(cached) <= Capacity
    BY LenProperties DEF CacheInv, CacheGood
  <2>2. \A s \in Shapes : s.addr \in Addrs
    BY <2>1, OneAddressOneShape DEF ShapeRecords
  <2>3. \A i \in DOMAIN cached : cached[i].alive => \E s \in Shapes : s.addr = cached[i].shape
    BY <2>1, OneAddressOneShape DEF CacheInv, CacheGood, EntryGood, AddressesLive
  <2> QED BY <2>1, <2>2, <2>3, OneAddressOneShape DEF CacheTypeOK
<1> QED BY <1>1, CacheInitInv, CacheNextInv, PTL DEF CacheSpec

----------------------------------------------------------------------------
(* Side by side, where one part is used and the others stand still, all of   *)
(* them keep the types they have alone.                                     *)

\* One of the parts makes a step, or none does.
LEMMA OnePartSteps ==
  ASSUME [StructuresNext]_allVars
  PROVE  /\ [Next]_vars /\ [PromisesNext]_promiseVars /\ [CombinatorNext]_combinatorVars
         /\ [MapNext]_mapVars /\ [BufferNext]_bufferVars /\ [CacheNext]_cacheVars
BY DEF StructuresNext, allVars

\* Every part keeps the values the code's types give it.
THEOREM StructuresTypesHold == StructuresSpec => []StructuresTypes
<1>1. StructuresInit => Init /\ PromisesInit /\ CombinatorInit /\ MapInit /\ BufferInit /\ CacheInit
  BY DEF StructuresInit
<1>2. StructuresSpec => Spec /\ PromisesSpec /\ CombinatorSpec /\ MapSpec /\ BufferSpec /\ CacheSpec
  BY <1>1, OnePartSteps, PTL
     DEF StructuresSpec, Spec, PromisesSpec, CombinatorSpec, MapSpec, BufferSpec, CacheSpec
<1> QED BY <1>2, HeapShapeHolds, PromisesTypeCorrect, TheCombinatorsTypesAreCorrect,
           TheMapsTypesAreCorrect, TheBuffersTypesAreCorrect, TheCachesTypesAreCorrect, PTL
        DEF StructuresTypes
================================================================================
