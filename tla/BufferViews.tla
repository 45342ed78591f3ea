------------------------------ MODULE BufferViews ------------------------------
(****************************************************************************)
(* A buffer, a typed array or DataView of it, and the built-in operations    *)
(* that run JavaScript between looking at the buffer's length and touching   *)
(* its bytes (core/engine/src/builtins/array_buffer, typed_array, dataview   *)
(* and atomics).  That JavaScript may resize or detach the buffer; a shared  *)
(* buffer is grown by other agents at any time.                             *)
(*                                                                          *)
(* The bytes themselves are left out: an operation yields the stretch of     *)
(* bytes it reads and the stretch it writes.                                *)
(****************************************************************************)
EXTENDS Integers

CONSTANTS
  Sizes,     \* element sizes of typed arrays
  MaxBytes   \* bound: the maximum length of the buffer

ASSUME BufferAssumption == Sizes \subseteq Nat \ {0} /\ MaxBytes \in Nat

LengthTracking == -1    \* array_length or byte_length: None
Detached       == -1

VARIABLES
  sort,      \* of the buffer: "fixed", "resizable", or "shared" and growable
  buffer,    \* its length in bytes, or Detached
  view,      \* the element size, byte offset and length of the view
  op,        \* the operation that runs and has looked at the buffer
  known,     \* the view's length, in elements, as the operation saw it
  knownBytes,\* the buffer's length as it saw it
  access,    \* the bytes the last step read, those it wrote, and the view, of a
             \* buffer of so much space, that it wrote into
  panicked   \* whether a slice of Rust was indexed out of its range

bufferVars == <<sort, buffer, view, op, known, knownBytes, access, panicked>>

WholeBuffer == [size |-> 1, offset |-> 0, length |-> LengthTracking]
NoAccess ==
  [by |-> "none", from |-> 0, to |-> 0, count |-> 0, into |-> WholeBuffer, space |-> 0]
Lesser(a, b) == IF a <= b THEN a ELSE b

----------------------------------------------------------------------------
(* TypedArray and DataView, which counts in elements of one byte.           *)

ByteEnd(v, bytes) ==
  IF v.length = LengthTracking THEN bytes ELSE v.offset + v.length * v.size

IsOutOfBounds(v, bytes) ==
  bytes = Detached \/ v.offset > bytes \/ ByteEnd(v, bytes) > bytes

ArrayLength(v, bytes) ==
  IF v.length = LengthTracking THEN (bytes - v.offset) \div v.size ELSE v.length

(* What the constructors let pass.                                          *)
Views(bytes, kind) ==
  {v \in [size : Sizes \cup {1}, offset : 0..MaxBytes, length : 0..MaxBytes \cup {LengthTracking}] :
     /\ v.offset % v.size = 0
     /\ v.length = LengthTracking => kind # "fixed"
     /\ ~IsOutOfBounds(v, bytes)}

BufferInit ==
  /\ sort \in {"fixed", "resizable", "shared"}
  /\ buffer \in 0..MaxBytes
  /\ view \in Views(buffer, sort)
  /\ op = "none" /\ known = 0 /\ knownBytes = 0
  /\ access = NoAccess /\ panicked = FALSE

----------------------------------------------------------------------------
(* JavaScript, between operations or inside one, and other agents.          *)

Alive == ~panicked

Resize(n) ==
  /\ Alive
  /\ \/ sort = "resizable" /\ buffer # Detached
     \/ sort = "shared" /\ n >= buffer
  /\ buffer' = n
  /\ access' = NoAccess
  /\ UNCHANGED <<sort, view, op, known, knownBytes, panicked>>

Detach ==
  /\ Alive
  /\ sort # "shared" /\ buffer # Detached
  /\ buffer' = Detached
  /\ access' = NoAccess
  /\ UNCHANGED <<sort, view, op, known, knownBytes, panicked>>

(* An operation looks at the view, or at the buffer, and goes on if it is in *)
(* bounds.                                                                  *)
Begin(name) ==
  /\ Alive /\ op = "none"
  /\ name = "DataView" => view.size = 1
  /\ name = "bufferSlice" => sort # "shared" /\ buffer # Detached
  /\ name \in {"copyWithin", "fill", "slice", "setArrayLike", "atomic"} =>
       ~IsOutOfBounds(view, buffer)
  /\ op' = name
  /\ known' = IF IsOutOfBounds(view, buffer) THEN 0 ELSE ArrayLength(view, buffer)
  /\ knownBytes' = buffer
  /\ access' = NoAccess
  /\ UNCHANGED <<sort, buffer, view, panicked>>

Finish == op' = "none" /\ known' = 0 /\ knownBytes' = 0

Copies(from, to, count, target, bytes) ==
  access' = [by |-> op, from |-> from, to |-> to, count |-> count,
             into |-> target, space |-> bytes]
Touches(from, to, count) == Copies(from, to, count, view, buffer)

(* An error is thrown, or nothing is left to do.                            *)
GiveUpOperation ==
  /\ Alive /\ op # "none"
  /\ Finish
  /\ access' = NoAccess
  /\ UNCHANGED <<sort, buffer, view, panicked>>

ByteIndex(i) == i * view.size + view.offset

----------------------------------------------------------------------------
(* %TypedArray%.prototype.                                                  *)

\* Mutant: the bytes are not clamped to the length there is now.
CopyWithinUnclamped(to, from, final) ==
  LET count == Lesser(final - from, known - to) IN
  /\ Alive /\ op = "copyWithin"
  /\ {to, from, final} \subseteq 0..known
  /\ count > 0
  /\ ~IsOutOfBounds(view, buffer)
  /\ Touches(ByteIndex(from), ByteIndex(to), count * view.size)
  /\ Finish
  /\ UNCHANGED <<sort, buffer, view, panicked>>

(* The three arguments were clamped to the length that copyWithin saw; the   *)
(* bytes it moves are clamped to the length there is now.                   *)
CopyWithin(to, from, final) ==
  LET limit == ByteIndex(ArrayLength(view, buffer))
      count == Lesser(final - from, known - to)
      bytes == Lesser(count * view.size,
                      Lesser(limit - ByteIndex(to), limit - ByteIndex(from)))
  IN
  /\ Alive /\ op = "copyWithin"
  /\ {to, from, final} \subseteq 0..known
  /\ count > 0
  /\ ~IsOutOfBounds(view, buffer)
  /\ ByteIndex(to) < limit /\ ByteIndex(from) < limit
  /\ Touches(ByteIndex(from), ByteIndex(to), bytes)
  /\ Finish
  /\ UNCHANGED <<sort, buffer, view, panicked>>

(* fill writes the elements from start to an end that it lowers to the       *)
(* length there is now.                                                     *)
Fill(start, end) ==
  LET last == Lesser(end, ArrayLength(view, buffer)) IN
  /\ Alive /\ op = "fill"
  /\ {start, end} \subseteq 0..known
  /\ ~IsOutOfBounds(view, buffer)
  /\ start < last
  /\ Touches(ByteIndex(start), ByteIndex(start), (last - start) * view.size)
  /\ Finish
  /\ UNCHANGED <<sort, buffer, view, panicked>>

(* slice copies what is left of its range to a view the species constructor  *)
(* gave it, of this buffer or of another, which is in bounds and has room    *)
(* for the range it had at first.  The two are of one type: between others   *)
(* slice goes element by element.                                           *)
Slice(start, end) ==
  LET last == Lesser(end, ArrayLength(view, buffer)) IN
  /\ Alive /\ op = "slice"
  /\ {start, end} \subseteq 0..known
  /\ ~IsOutOfBounds(view, buffer)
  /\ start < last
  /\ \E bytes \in 0..MaxBytes : \E target \in Views(bytes, "resizable") :
       /\ target.size = view.size /\ end - start <= ArrayLength(target, bytes)
       /\ Copies(ByteIndex(start), target.offset, (last - start) * view.size, target, bytes)
  /\ Finish
  /\ UNCHANGED <<sort, buffer, view, panicked>>

(* typed_array_set_element, after the value was converted: an index that is  *)
(* no longer valid is passed over.                                          *)
StoreAt(i) ==
  IF buffer # Detached /\ ~IsOutOfBounds(view, buffer) /\ i < ArrayLength(view, buffer)
  THEN Touches(ByteIndex(i), ByteIndex(i), view.size)
  ELSE access' = NoAccess

SetElement(i) ==
  /\ Alive /\ op = "setElement"
  /\ StoreAt(i)
  /\ Finish
  /\ UNCHANGED <<sort, buffer, view, panicked>>

(* One turn of the loop in set_typed_array_from_array_like, whose bounds     *)
(* were checked before the first.                                           *)
SetFromArrayLike(i) ==
  /\ Alive /\ op = "setArrayLike"
  /\ i < known
  /\ StoreAt(i)
  /\ UNCHANGED <<sort, buffer, view, op, known, knownBytes, panicked>>

----------------------------------------------------------------------------
(* DataView, Atomics, and ArrayBuffer.prototype.slice.                      *)

(* get_view_value and set_view_value look at the buffer when everything is   *)
(* converted.                                                               *)
AccessDataView(i, size) ==
  /\ Alive /\ op = "DataView"
  /\ ~IsOutOfBounds(view, buffer)
  /\ i + size <= ArrayLength(view, buffer)
  /\ Touches(i + view.offset, i + view.offset, size)
  /\ Finish
  /\ UNCHANGED <<sort, buffer, view, panicked>>

(* load, store, compareExchange and the others: the index was checked before *)
(* the values were converted; what is looked at afterwards is whether the    *)
(* buffer is detached, and bytes_with_len takes the length seen before.      *)
AccessAtomic(i) ==
  /\ Alive /\ op = "atomic"
  /\ i < known
  /\ buffer # Detached
  /\ IF knownBytes > buffer
     THEN /\ panicked' = TRUE
          /\ access' = NoAccess
          /\ UNCHANGED <<op, known, knownBytes>>
     ELSE /\ Touches(ByteIndex(i), ByteIndex(i), view.size)
          /\ Finish
          /\ UNCHANGED panicked
  /\ UNCHANGED <<sort, buffer, view>>

(* slice of an ArrayBuffer, to a buffer that the species constructor gave.   *)
SliceBuffer(first, final) ==
  /\ Alive /\ op = "bufferSlice"
  /\ {first, final} \subseteq 0..knownBytes /\ first <= final
  /\ buffer # Detached
  /\ IF final > buffer
     THEN /\ panicked' = TRUE
          /\ access' = NoAccess
          /\ UNCHANGED <<op, known, knownBytes>>
     ELSE /\ \E bytes \in (final - first)..MaxBytes :
               Copies(first, 0, final - first, WholeBuffer, bytes)
          /\ Finish
          /\ UNCHANGED panicked
  /\ UNCHANGED <<sort, buffer, view>>

Indices == 0..MaxBytes

BufferNext ==
  \/ \E n \in 0..MaxBytes : Resize(n)
  \/ Detach
  \/ \E name \in {"copyWithin", "fill", "slice", "setElement", "setArrayLike",
                  "DataView", "atomic", "bufferSlice"} : Begin(name)
  \/ GiveUpOperation
  \/ \E to, from, final \in Indices : CopyWithin(to, from, final)
  \/ \E i, j \in Indices : Fill(i, j) \/ Slice(i, j) \/ SliceBuffer(i, j)
  \/ \E i \in Indices : SetElement(i) \/ SetFromArrayLike(i) \/ AccessAtomic(i)
  \/ \E i \in Indices, size \in Sizes : AccessDataView(i, size)

BufferSpec == BufferInit /\ [][BufferNext]_bufferVars

----------------------------------------------------------------------------
BufferTypeOK ==
  /\ sort \in {"fixed", "resizable", "shared"}
  /\ buffer \in 0..MaxBytes \cup {Detached}
  /\ view.size \in Sizes \cup {1} /\ view.offset \in Nat
  /\ view.length \in Nat \cup {LengthTracking}
  /\ known \in Nat /\ knownBytes \in Nat \cup {Detached}
  /\ panicked \in BOOLEAN

InElements(v, bytes, first, count) ==
  LET end == ArrayLength(v, bytes) * v.size + v.offset IN
  end <= bytes /\ v.offset <= first /\ first + count <= end

(* An operation reads only bytes of the elements that the view has at that   *)
(* moment, or, as ArrayBuffer.prototype.slice, of the buffer, and writes     *)
(* only bytes of the view it writes into, whatever JavaScript did to the     *)
(* buffer since the operation first looked at it.                           *)
AccessesStayInView ==
  access.count > 0 =>
    /\ InElements(IF access.by = "bufferSlice" THEN WholeBuffer ELSE view,
                  buffer, access.from, access.count)
    /\ InElements(access.into, access.space, access.to, access.count)

(* No operation indexes bytes that are no longer there: as the comments in   *)
(* Atomics (RevalidateAtomicAccess) have it, it throws.                      *)
NeverPanics == ~panicked
================================================================================
