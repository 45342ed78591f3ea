------------------------------ MODULE InlineCaches ------------------------------
(****************************************************************************)
(* One access to property x of a receiver, its polymorphic inline cache, and *)
(* the shapes the cache goes by (core/engine/src/vm/inline_cache, the get    *)
(* and set instructions, core/engine/src/object/shape).                     *)
(*                                                                          *)
(* A hit takes the slot of the first entry that matches the receiver's shape *)
(* and changes nothing here; a miss looks x up, which may call a getter or a *)
(* setter, and then caches the slot.  Shapes are allocations: the collector  *)
(* frees those nobody holds, weak references to them die with them, and      *)
(* their addresses are used again.                                          *)
(****************************************************************************)
EXTENDS Integers, Sequences, FiniteSets, SequencesExt, Filters

CONSTANTS
  Accesses,  \* which instructions access x
  Names,     \* bound: x, and y that moves its slot
  Kinds,     \* bound: the kinds of property that x is made
  Addrs,     \* bound: the addresses of shapes
  Capacity   \* PIC_CAPACITY

ASSUME InlineCacheAssumption ==
  /\ Accesses \subseteq {"get", "getGlobal", "set"}
  /\ Names \subseteq {"x", "y"}
  /\ Kinds \subseteq {"data", "readonly", "accessor"}
  /\ {1, 2} \subseteq Addrs /\ Addrs \subseteq Nat \ {0}
  /\ Capacity \in Nat \ {0}

Owners == {"receiver", "prototype"}

Attributes(k) == IF k = "x" THEN Kinds ELSE {"data"}

VARIABLES
  instruction, \* which one it is
  shapeOf,     \* PropertyMap.shape of the two objects
  left,        \* shapes that they left, not freed yet and still referred to
  cached,      \* InlineCache.entries
  megamorphic,
  lookup       \* the miss whose getter or setter runs

cacheVars == <<instruction, shapeOf, left, cached, megamorphic, lookup>>

NoShape  == 0
NoEntry  == [alive |-> FALSE]
NoLookup == [addr |-> NoShape, slot |-> <<>>]

----------------------------------------------------------------------------
(* Property tables: sequences of keys with attributes.  A slot is an index   *)
(* of the storage, where an accessor takes two places.                      *)

Has(table, k) == \E i \in DOMAIN table : table[i].key = k
At(table, k)  == CHOOSE i \in DOMAIN table : table[i].key = k
Property(k, attributes) == [key |-> k, attributes |-> attributes]

SlotIn(table, k, inherited) ==
  LET i == At(table, k) IN
  [inherited  |-> inherited,
   index      |-> i - 1 + Cardinality({j \in 1..(i - 1) : table[j].attributes = "accessor"}),
   attributes |-> table[i].attributes]

(* Where a lookup that starts at a shape finds x, if it does.                *)
Inherits(shape) == shape.prototype /\ Has(shapeOf["prototype"].table, "x")
Finds(shape)    == Has(shape.table, "x") \/ Inherits(shape)
Found(shape) ==
  IF Has(shape.table, "x") THEN SlotIn(shape.table, "x", FALSE)
  ELSE SlotIn(shapeOf["prototype"].table, "x", TRUE)

CacheInit ==
  /\ instruction \in Accesses
  /\ \E u, v \in BOOLEAN :
       shapeOf = [receiver  |-> [addr |-> 1, unique |-> u, prototype |-> TRUE,  table |-> <<>>],
                  prototype |-> [addr |-> 2, unique |-> v, prototype |-> FALSE, table |-> <<>>]]
  /\ left = {} /\ cached = <<>> /\ megamorphic = FALSE
  /\ lookup = NoLookup

----------------------------------------------------------------------------
(* Transitions of an object's shape, which JavaScript makes at any time, and *)
(* in a getter or setter too.                                               *)

Shapes    == left \cup {shapeOf[o] : o \in Owners}
FreeAddrs == Addrs \ {shape.addr : shape \in Shapes}
NextAddr  == CHOOSE a \in FreeAddrs : \A b \in FreeAddrs : a <= b

ReferredTo(a) ==
  \/ lookup.addr = a
  \/ \E i \in DOMAIN cached :
       \/ cached[i].alive /\ cached[i].shape = a
       \/ cached[i].prototypeAlive /\ cached[i].prototypeShape = a

(* o's shape is now new; old is what remains of the one it had.  What no     *)
(* object has and nothing refers to is as good as freed.                    *)
Become(o, new, old) ==
  /\ shapeOf' = [shapeOf EXCEPT ![o] = new]
  /\ left' = {s \in left \cup {old} :
                s.addr \notin {shapeOf'[p].addr : p \in Owners} /\ ReferredTo(s.addr)}

(* A unique shape's table is moved to a new address.                         *)
Move(o, new, old) ==
  FreeAddrs # {} /\ Become(o, [new EXCEPT !.addr = NextAddr], old)

(* Shared shapes are found by way of the transitions that made them.  After  *)
(* so many transitions a shape of its own is made instead.                  *)
Share(o, new) ==
  \/ \E s \in Shapes : s = [new EXCEPT !.addr = s.addr] /\ Become(o, s, shapeOf[o])
  \/ \E unique \in BOOLEAN : Move(o, [new EXCEPT !.unique = unique], shapeOf[o])

Retable(o, table) ==
  LET old == shapeOf[o]
      new == [old EXCEPT !.table = table]
  IN IF old.unique THEN Move(o, new, [old EXCEPT !.table = <<>>, !.prototype = FALSE])
     ELSE Share(o, new)

(* insert_property_transition: a unique shape keeps its address.             *)
InsertProperty(o, k, attributes) ==
  LET old == shapeOf[o]
      new == [old EXCEPT !.table = Append(@, Property(k, attributes))]
  IN
  /\ ~Has(old.table, k)
  /\ IF old.unique THEN Become(o, new, old) ELSE Share(o, new)

ChangeAttributes(o, k, attributes) ==
  LET old == shapeOf[o]
      table == [old.table EXCEPT ![At(old.table, k)].attributes = attributes]
  IN
  /\ Has(old.table, k) /\ old.table # table
  /\ Retable(o, table)

RemoveProperty(o, k) ==
  LET table == shapeOf[o].table IN
  /\ Has(table, k)
  /\ Retable(o, RemoveAt(table, At(table, k)))

ChangePrototype(on) ==
  LET old == shapeOf["receiver"]
      new == [old EXCEPT !.prototype = on]
  IN
  /\ old.prototype # on
  /\ IF old.unique THEN Move("receiver", new, [old EXCEPT !.table = <<>>])
     ELSE Share("receiver", new)

Reshape ==
  /\ \/ \E o \in Owners, k \in Names :
          \/ \E attributes \in Attributes(k) :
               InsertProperty(o, k, attributes) \/ ChangeAttributes(o, k, attributes)
          \/ RemoveProperty(o, k)
     \/ \E on \in BOOLEAN : ChangePrototype(on)
  /\ UNCHANGED <<instruction, cached, megamorphic, lookup>>

(* The collector clears the weak references to a shape before it frees it.   *)
FreeShape(s) ==
  /\ s.addr # lookup.addr
  /\ left' = left \ {s}
  /\ cached' = [i \in DOMAIN cached |->
                   [cached[i] EXCEPT !.alive = @ /\ cached[i].shape # s.addr,
                                     !.prototypeAlive = @ /\ cached[i].prototypeShape # s.addr]]
  /\ UNCHANGED <<instruction, shapeOf, megamorphic, lookup>>

----------------------------------------------------------------------------
(* The cache.                                                               *)

\* Mutant: the shape of the prototype is not compared.
MatchesReceiverOnly(e) == e.shape = shapeOf["receiver"].addr /\ e.alive

(* CacheEntry::matches the receiver's shape.                                *)
Matches(e) ==
  /\ e.shape = shapeOf["receiver"].addr /\ e.alive
  /\ e.prototypeShape # NoShape =>
       /\ shapeOf["receiver"].prototype
       /\ e.prototypeShape = shapeOf["prototype"].addr /\ e.prototypeAlive

(* InlineCache::set keeps the live entries and adds one, or gives up.        *)
AddEntry(entry) ==
  LET live == Keep(cached, {e \in ToSet(cached) : e.alive}) IN
  IF megamorphic THEN UNCHANGED <<cached, megamorphic>>
  ELSE IF entry = NoEntry THEN cached' = live /\ UNCHANGED megamorphic
  ELSE IF Len(live) = Capacity THEN cached' = <<>> /\ megamorphic' = TRUE
  ELSE cached' = Append(live, entry) /\ UNCHANGED megamorphic

(* right: whether the slot is the one that a lookup at that shape finds now. *)
Entry(shape, slot) ==
  IF slot.inherited /\ ~shape.prototype THEN NoEntry
  ELSE [shape |-> shape.addr, alive |-> TRUE,
        prototypeShape |-> IF slot.inherited THEN shapeOf["prototype"].addr ELSE NoShape,
        prototypeAlive |-> slot.inherited,
        slot  |-> slot,
        right |-> Finds(shape) /\ Found(shape) = slot]

Misses == \A i \in DOMAIN cached : ~Matches(cached[i])

(* A miss that finds a data property: for set, one of the receiver's own.    *)
MissData ==
  LET shape == shapeOf["receiver"] IN
  /\ Misses /\ Finds(shape) /\ Found(shape).attributes # "accessor"
  /\ instruction = "set" => ~Found(shape).inherited /\ Found(shape).attributes = "data"
  /\ AddEntry(Entry(shape, Found(shape)))
  /\ UNCHANGED <<instruction, shapeOf, left, lookup>>

(* set creates the property.  What it finds nowhere is not FOUND, and what it *)
(* finds on the prototype is NOT_CACHEABLE: the cache stays as it is.        *)
CreateProperty ==
  LET shape == shapeOf["receiver"] IN
  /\ instruction = "set" /\ Misses
  /\ Finds(shape) => Found(shape).inherited /\ Found(shape).attributes = "data"
  /\ InsertProperty("receiver", "x", "data")
  /\ UNCHANGED <<instruction, cached, megamorphic, lookup>>

(* A miss that finds an accessor calls it.  get_by_name keeps the shape that *)
(* it looked at, unless the site is megamorphic.                            *)
CallAccessor ==
  LET shape == shapeOf["receiver"] IN
  /\ lookup = NoLookup
  /\ Misses /\ Finds(shape) /\ Found(shape).attributes = "accessor"
  /\ lookup' = [addr |-> IF instruction = "get" /\ ~megamorphic THEN shape.addr ELSE NoShape,
                slot |-> Found(shape)]
  /\ UNCHANGED <<instruction, shapeOf, left, cached, megamorphic>>

(* It returns, and the slot is cached: with that shape, or with the one that *)
(* the receiver has by now.                                                 *)
AccessorReturns ==
  /\ lookup # NoLookup
  /\ IF instruction # "get" THEN AddEntry(Entry(shapeOf["receiver"], lookup.slot))
     ELSE IF lookup.addr = NoShape THEN UNCHANGED <<cached, megamorphic>>
     ELSE \E shape \in Shapes : shape.addr = lookup.addr /\ AddEntry(Entry(shape, lookup.slot))
  /\ lookup' = NoLookup
  /\ UNCHANGED <<instruction, shapeOf, left>>

AccessorThrows ==
  /\ lookup # NoLookup
  /\ lookup' = NoLookup
  /\ UNCHANGED <<instruction, shapeOf, left, cached, megamorphic>>

CacheNext ==
  \/ Reshape
  \/ \E s \in left : FreeShape(s)
  \/ MissData \/ CreateProperty \/ CallAccessor \/ AccessorReturns \/ AccessorThrows

CacheSpec == CacheInit /\ [][CacheNext]_cacheVars

----------------------------------------------------------------------------
(* An address belongs to one shape, and a live entry's to the shape it saw.   *)
CacheTypeOK ==
  /\ \A s, t \in Shapes : s.addr = t.addr => s = t
  /\ \A s \in Shapes : s.addr \in Addrs
  /\ Len(cached) <= Capacity
  /\ \A i \in DOMAIN cached : cached[i].alive => \E s \in Shapes : s.addr = cached[i].shape

(* A hit takes the slot that looking x up would find.                        *)
HitIsRight(e) ==
  /\ Finds(shapeOf["receiver"]) /\ e.slot = Found(shapeOf["receiver"])
  /\ instruction = "set" =>
       e.slot.attributes # "readonly" /\ (e.slot.inherited => e.slot.attributes = "accessor")

HitsAreRight == \A i \in DOMAIN cached : Matches(cached[i]) => HitIsRight(cached[i])

(* An entry that was right when it was made never gives a wrong slot,        *)
(* whatever becomes of the shapes and of their addresses: unless a receiver  *)
(* with a unique shape gets a property of its own before an inherited one,   *)
(* which leaves its shape at the same address.                              *)
EntriesStayRight ==
  \A i \in DOMAIN cached :
    LET e == cached[i] IN
    Matches(e) /\ e.right =>
      \/ HitIsRight(e)
      \/ e.slot.inherited /\ shapeOf["receiver"].unique /\ Has(shapeOf["receiver"].table, "x")
================================================================================
