-------------------------- MODULE ModuleGraphProofs --------------------------
(****************************************************************************)
(* Proofs about the linking and the evaluation of modules.                  *)
(****************************************************************************)
EXTENDS ModuleGraph, SequenceFacts, FiniteSetTheorems, FunctionTheorems

------------------------------------------------------------------------------
(* Stacks: sequences in which nothing is twice.                             *)

Once(s) == \A i, j \in 1..Len(s) : s[i] = s[j] => i = j
PlaceIn(s, m) == CHOOSE i \in DOMAIN s : s[i] = m

\* Every element has one place.
LEMMA PlaceFacts ==
  ASSUME NEW s \in Seq(Modules), Once(s)
  PROVE  /\ \A m \in ToSet(s) : PlaceIn(s, m) \in 1..Len(s) /\ s[PlaceIn(s, m)] = m
         /\ \A i \in 1..Len(s) : PlaceIn(s, s[i]) = i
<1>1. DOMAIN s = 1..Len(s)
  BY LenProperties
<1>2. ASSUME NEW m \in ToSet(s) PROVE PlaceIn(s, m) \in 1..Len(s) /\ s[PlaceIn(s, m)] = m
  <2>1. \E i \in DOMAIN s : s[i] = m
    BY <1>1, ToSetFacts
  <2> QED BY <1>1, <2>1 DEF PlaceIn
<1>3. ASSUME NEW i \in 1..Len(s) PROVE PlaceIn(s, s[i]) = i
  <2>1. s[i] \in ToSet(s)
    BY ToSetFacts
  <2>2. PlaceIn(s, s[i]) \in 1..Len(s) /\ s[PlaceIn(s, s[i])] = s[i]
    BY <1>2, <2>1
  <2> QED BY <2>2 DEF Once
<1> QED BY <1>2, <1>3

\* t is s with r on top of it.
OnTop(s, r, t) ==
  /\ t \in Seq(Modules) /\ Once(t) /\ ToSet(t) = ToSet(s) \cup {r}
  /\ PlaceIn(t, r) = Len(s) + 1
  /\ \A n \in ToSet(s) : PlaceIn(t, n) = PlaceIn(s, n) /\ PlaceIn(s, n) \in 1..Len(s)

\* What is pushed is the last.
LEMMA PushFacts ==
  ASSUME NEW s \in Seq(Modules), Once(s), NEW r \in Modules, r \notin ToSet(s), NEW t, t = Append(s, r)
  PROVE  OnTop(s, r, t)
<1>1. /\ t \in Seq(Modules) /\ Len(t) = Len(s) + 1 /\ t[Len(s) + 1] = r
      /\ \A i \in 1..Len(s) : t[i] = s[i]
  BY AppendProperties
<1>2. ToSet(t) = ToSet(s) \cup {r}
  BY ToSetMoves
<1>3. Len(s) \in Nat /\ \A i \in 1..Len(s) : s[i] \in ToSet(s)
  BY LenProperties, ToSetFacts
<1>4. Once(t)
  <2>1. SUFFICES ASSUME NEW i \in 1..Len(s) + 1, NEW j \in 1..Len(s) + 1, t[i] = t[j]
                 PROVE  i = j
    BY <1>1 DEF Once
  <2>2. /\ i \in 1..Len(s) \/ i = Len(s) + 1
        /\ j \in 1..Len(s) \/ j = Len(s) + 1
    BY <1>3
  <2> QED BY <1>1, <1>3, <2>1, <2>2 DEF Once
<1>5. PlaceIn(t, t[Len(s) + 1]) = Len(s) + 1
  <2>1. \A i \in 1..Len(t) : PlaceIn(t, t[i]) = i
    BY <1>1, <1>4, PlaceFacts
  <2> QED BY <1>1, <1>3, <2>1
<1>6. ASSUME NEW n \in ToSet(s) PROVE PlaceIn(t, n) = PlaceIn(s, n) /\ PlaceIn(s, n) \in 1..Len(s)
  <2>1. PICK i : i = PlaceIn(s, n)
    OBVIOUS
  <2>2. i \in 1..Len(s) /\ s[i] = n
    BY <2>1, PlaceFacts
  <2>3. i \in 1..Len(t) /\ t[i] = n
    BY <1>1, <1>3, <2>2
  <2>4. PlaceIn(t, t[i]) = i
    BY <1>1, <1>4, <2>3, PlaceFacts
  <2> QED BY <2>1, <2>2, <2>3, <2>4
<1> QED BY <1>1, <1>2, <1>4, <1>5, <1>6 DEF OnTop

\* What is popped down to m is m and what was pushed after it.
LEMMA PopFacts ==
  ASSUME NEW s \in Seq(Modules), Once(s), NEW m \in ToSet(s),
         NEW t, t = SubSeq(s, 1, PlaceIn(s, m) - 1)
  PROVE  /\ t \in Seq(Modules) /\ Once(t) /\ Len(t) = PlaceIn(s, m) - 1
         /\ ToSet(t) = {n \in ToSet(s) : PlaceIn(s, n) < PlaceIn(s, m)}
         /\ \A n \in ToSet(t) : PlaceIn(t, n) = PlaceIn(s, n)
<1>1. PICK p : p = PlaceIn(s, m)
  OBVIOUS
<1>2. p \in 1..Len(s) /\ Len(s) \in Nat
  BY <1>1, PlaceFacts, LenProperties
<1>3. \A i \in 1..p - 1 : s[i] \in Modules /\ i \in 1..Len(s)
  BY <1>2, ElementOfSeq
<1>4. /\ t \in Seq(Modules) /\ Len(t) = p - 1
      /\ \A i \in 1..p - 1 : t[i] = s[i]
  <2>1. /\ 1 \in Int /\ p - 1 \in Int /\ (IF 1 <= p - 1 THEN (p - 1) - 1 + 1 ELSE 0) = p - 1
        /\ (p - 1) - 1 + 1 = p - 1 /\ \A i \in 1..p - 1 : 1 + i - 1 = i
    BY <1>2
  <2>2. /\ SubSeq(s, 1, p - 1) \in Seq(Modules)
        /\ Len(SubSeq(s, 1, p - 1)) = IF 1 <= p - 1 THEN (p - 1) - 1 + 1 ELSE 0
        /\ \A i \in 1..(p - 1) - 1 + 1 : SubSeq(s, 1, p - 1)[i] = s[1 + i - 1]
    BY <1>3, <2>1, SubSeqProperties
  <2> QED BY <1>1, <2>1, <2>2
<1>5. Once(t)
  <2>1. SUFFICES ASSUME NEW i \in 1..p - 1, NEW j \in 1..p - 1, t[i] = t[j]
                 PROVE  i = j
    BY <1>4 DEF Once
  <2> QED BY <1>3, <1>4, <2>1 DEF Once
<1>6. ASSUME NEW n \in ToSet(t)
      PROVE  /\ PlaceIn(t, n) = PlaceIn(s, n)
             /\ n \in ToSet(s) /\ PlaceIn(s, n) < PlaceIn(s, m)
  <2>1. PICK i \in 1..p - 1 : t[i] = n
    <3>1. \E i \in 1..Len(t) : t[i] = n
      BY <1>4, ToSetFacts
    <3> QED BY <1>4, <3>1
  <2>2. PlaceIn(t, t[i]) = i
    BY <1>4, <1>5, PlaceFacts
  <2>3. PlaceIn(s, s[i]) = i /\ s[i] \in ToSet(s)
    BY <1>3, PlaceFacts, ToSetFacts
  <2>4. t[i] = s[i] /\ i < p
    BY <1>2, <1>4
  <2> QED BY <1>1, <2>1, <2>2, <2>3, <2>4
<1>7. ASSUME NEW n \in ToSet(s), PlaceIn(s, n) < PlaceIn(s, m) PROVE n \in ToSet(t)
  <2>1. PICK i : i = PlaceIn(s, n)
    OBVIOUS
  <2>2. i \in 1..Len(s) /\ s[i] = n
    BY <2>1, PlaceFacts
  <2>3. i \in 1..p - 1
    BY <1>1, <1>2, <1>7, <2>1, <2>2
  <2>4. t[i] = n
    BY <1>4, <2>2, <2>3
  <2>5. \A x : x \in ToSet(t) <=> \E j \in 1..Len(t) : t[j] = x
    <3>1. t \in Seq(Modules)
      BY <1>4
    <3> QED BY ONLY <3>1, ToSetFacts
  <2>6. i \in 1..Len(t)
    BY <1>4, <2>3
  <2> QED BY ONLY <2>4, <2>5, <2>6
<1> QED BY <1>1, <1>4, <1>5, <1>6, <1>7

\* The last activation and those before it.
LEMMA FrontFacts ==
  ASSUME NEW E, NEW c \in Seq(E), c # <<>>, NEW t, t = Front(c)
  PROVE  /\ t \in Seq(E) /\ Len(t) = Len(c) - 1 /\ Len(c) \in Nat \ {0}
         /\ \A i \in 1..Len(t) : i \in 1..Len(c) /\ t[i] = c[i]
         /\ Last(c) = c[Len(c)] /\ Last(c) \in E
<1>1. Len(c) \in Nat \ {0}
  BY EmptySeq
<1>2. \A i \in 1..Len(c) - 1 : c[i] \in E /\ i \in 1..Len(c)
  BY <1>1, ElementOfSeq
<1>3. PICK p : p = Len(c) - 1
  OBVIOUS
<1>4. /\ 1 \in Int /\ p \in Int /\ (IF 1 <= p THEN p - 1 + 1 ELSE 0) = p
      /\ p - 1 + 1 = p /\ \A i \in 1..p : 1 + i - 1 = i
  BY <1>1, <1>3
<1>5. /\ SubSeq(c, 1, p) \in Seq(E)
      /\ Len(SubSeq(c, 1, p)) = IF 1 <= p THEN p - 1 + 1 ELSE 0
      /\ \A i \in 1..p - 1 + 1 : SubSeq(c, 1, p)[i] = c[1 + i - 1]
  BY <1>2, <1>3, <1>4, SubSeqProperties
<1>6. t = SubSeq(c, 1, p)
  BY <1>3 DEF Front
<1>7. Len(c) \in 1..Len(c)
  BY <1>1
<1>8. Last(c) = c[Len(c)] /\ Last(c) \in E
  BY <1>7, ElementOfSeq DEF Last
<1> QED BY <1>1, <1>2, <1>3, <1>4, <1>5, <1>6, <1>8

------------------------------------------------------------------------------
(* The search: which modules are on the stack, which of them are activated, *)
(* and how that agrees with their status.                                   *)

Call == [module : Modules, next : Nat, index : Nat, deps : Nat]
On == ToSet(stack)
Called(j) == calls[j].module
Act == {Called(j) : j \in 1..Len(calls)}

Clean ==
  /\ calls # <<>> <=> phase \in {"link", "evaluate"}
  /\ calls = <<>> => stack = <<>> /\ index = 0
  /\ phase \notin {"gather", "reject"} => todo = <<>>
  /\ phase # "gather" => execList = {}

\* Every activation requires the module of the next one, which was pushed later.
Chain ==
  /\ calls # <<>> => PlaceIn(stack, Called(1)) = 1 /\ calls[1].index = 0
  /\ \A j \in 1..Len(calls) :
       /\ Called(j) \in On /\ calls[j].index < index
       /\ calls[j].next \in 1..Len(Requests(Called(j))) + 1
  /\ \A j \in 1..Len(calls) : j < Len(calls) =>
       /\ calls[j].next \in 1..Len(Requests(Called(j)))
       /\ Requests(Called(j))[calls[j].next] = Called(j + 1)
  /\ \A j, k \in 1..Len(calls) : j < k =>
       PlaceIn(stack, Called(j)) < PlaceIn(stack, Called(k)) /\ calls[j].index < calls[k].index

OnStatus ==
  \A m \in Modules :
    /\ status[m] = "linking" <=> phase = "link" /\ m \in Act
    /\ status[m] = "prelinked" <=> phase = "link" /\ m \in On \ Act
    /\ status[m] = "evaluating" <=> phase = "evaluate" /\ m \in On

\* The low links of Tarjan's algorithm: no module pushed before an activation
\* has a higher one than the activation's index.
Low ==
  /\ \A n \in On : ancestor[n] < index
  /\ \A n \in On, j \in 1..Len(calls) :
       PlaceIn(stack, n) < PlaceIn(stack, Called(j)) => ancestor[n] < calls[j].index
  /\ \A j \in 1..Len(calls) : ancestor[Called(j)] <= calls[j].index

Base == TypeOK /\ graph \in Graphs /\ Once(stack) /\ Clean /\ Chain /\ OnStatus /\ Low

\* Places on the stack of the search.
LEMMA StackPlaces ==
  ASSUME TypeOK, Once(stack)
  PROVE  /\ \A m : Place(m) = PlaceIn(stack, m)
         /\ stack \in Seq(Modules) /\ Len(stack) \in Nat /\ On \subseteq Modules
         /\ \A m \in On : PlaceIn(stack, m) \in 1..Len(stack) /\ stack[PlaceIn(stack, m)] = m
         /\ \A m, n \in On : PlaceIn(stack, m) = PlaceIn(stack, n) => m = n
<1>1. stack \in Seq(Modules)
  BY DEF TypeOK
<1>2. \A m : Place(m) = PlaceIn(stack, m)
  BY DEF Place, PlaceIn
<1>3. /\ \A m \in ToSet(stack) : PlaceIn(stack, m) \in 1..Len(stack) /\ stack[PlaceIn(stack, m)] = m
      /\ Len(stack) \in Nat /\ ToSet(stack) \subseteq Modules
  BY <1>1, PlaceFacts, LenProperties, ToSetFacts
<1> QED BY <1>1, <1>2, <1>3 DEF On

\* A component is what is on the stack from its first module on.
LEMMA ComponentIs ==
  ASSUME TypeOK, Once(stack), NEW m \in On
  PROVE  Component(m) = {n \in On : PlaceIn(stack, m) <= PlaceIn(stack, n)}
<1>1. /\ stack \in Seq(Modules) /\ Len(stack) \in Nat
      /\ \A n \in On : PlaceIn(stack, n) \in 1..Len(stack) /\ stack[PlaceIn(stack, n)] = n
      /\ \A n : Place(n) = PlaceIn(stack, n)
  BY StackPlaces
<1>2. ASSUME NEW i \in PlaceIn(stack, m)..Len(stack)
      PROVE  stack[i] \in On /\ PlaceIn(stack, m) <= PlaceIn(stack, stack[i])
  <2>1. i \in 1..Len(stack)
    BY <1>1, <1>2
  <2>2. stack[i] \in ToSet(stack) /\ PlaceIn(stack, stack[i]) = i
    BY <1>1, <2>1, PlaceFacts, ToSetFacts
  <2> QED BY <1>1, <1>2, <2>2 DEF On
<1>4. Component(m) = {stack[i] : i \in PlaceIn(stack, m)..Len(stack)}
  BY <1>1 DEF Component
<1>3. ASSUME NEW n \in On, PlaceIn(stack, m) <= PlaceIn(stack, n)
      PROVE  n \in Component(m)
  <2>1. PlaceIn(stack, n) \in PlaceIn(stack, m)..Len(stack) /\ stack[PlaceIn(stack, n)] = n
    BY <1>1, <1>3
  <2> QED BY <1>4, <2>1
<1> QED BY <1>2, <1>3, <1>4

\* Without an activation nothing is on the stack.
LEMMA NothingOn ==
  ASSUME Base
  PROVE  /\ calls = <<>> => On = {} /\ Act = {}
         /\ phase \in {"idle", "gather", "reject"} => calls = <<>>
<1>1. phase \in {"idle", "gather", "reject"} => calls = <<>>
  BY DEF Base, Clean
<1>2. calls = <<>> => stack = <<>>
  BY DEF Base, Clean
<1>3. ToSet(<<>>) = {} /\ Len(<<>>) = 0
  BY DEF ToSet
<1> QED BY <1>1, <1>2, <1>3 DEF On, Act

\* What is on the stack has a status of the search.
LEMMA OffStack ==
  ASSUME Base, NEW r \in Modules, status[r] \notin {"linking", "prelinked", "evaluating"}
  PROVE  r \notin On
<1>1. OnStatus /\ (calls # <<>> <=> phase \in {"link", "evaluate"})
  BY DEF Base, Clean
<1>2. calls = <<>> => On = {}
  BY NothingOn
<1> QED BY <1>1, <1>2 DEF OnStatus

------------------------------------------------------------------------------
(* What the pieces of the search do.                                        *)

Pushed(r) ==
  /\ stack' \in Seq(Modules) /\ Once(stack') /\ calls' \in Seq(Call)
  /\ On' = On \cup {r}
  /\ PlaceIn(stack', r) = Len(stack) + 1
  /\ \A n \in On : PlaceIn(stack', n) = PlaceIn(stack, n) /\ PlaceIn(stack, n) \in 1..Len(stack)
  /\ Len(calls') = Len(calls) + 1
  /\ \A j \in 1..Len(calls) : calls'[j] = calls[j]
  /\ calls'[Len(calls) + 1] = [module |-> r, next |-> 1, index |-> index, deps |-> 0]

\* Enter pushes a module and its activation.
LEMMA EnterPushes ==
  ASSUME TypeOK, Once(stack), NEW r \in Modules \ On, NEW s, Enter(r, s)
  PROVE  Pushed(r)
<1>1. /\ stack \in Seq(Modules) /\ Len(stack) \in Nat
      /\ \A n : Place(n) = PlaceIn(stack, n)
  BY StackPlaces
<1>3. stack' = Append(stack, r) /\ calls' = Append(calls, [module |-> r, next |-> 1, index |-> index, deps |-> 0])
  BY DEF Enter
<1>4. /\ stack' \in Seq(Modules) /\ Once(stack') /\ ToSet(stack') = ToSet(stack) \cup {r}
      /\ PlaceIn(stack', r) = Len(stack) + 1
      /\ \A n \in ToSet(stack) : PlaceIn(stack', n) = PlaceIn(stack, n) /\ PlaceIn(stack, n) \in 1..Len(stack)
  <2>1. PICK t : t = stack'
    OBVIOUS
  <2>2. /\ t = Append(stack, r) /\ r \in Modules /\ r \notin ToSet(stack)
        /\ stack \in Seq(Modules) /\ Once(stack)
    BY <1>1, <1>3, <2>1 DEF On
  <2>3. /\ t \in Seq(Modules) /\ Once(t) /\ ToSet(t) = ToSet(stack) \cup {r}
        /\ PlaceIn(t, r) = Len(stack) + 1
        /\ \A n \in ToSet(stack) : PlaceIn(t, n) = PlaceIn(stack, n) /\ PlaceIn(stack, n) \in 1..Len(stack)
    <3>1. OnTop(stack, r, t)
      BY ONLY <2>2, PushFacts
    <3> QED BY <3>1 DEF OnTop
  <2> QED BY <2>1, <2>3
<1>5. calls \in Seq(Call) /\ [module |-> r, next |-> 1, index |-> index, deps |-> 0] \in Call
  BY DEF TypeOK, Call
<1>6. /\ calls' \in Seq(Call) /\ Len(calls') = Len(calls) + 1
      /\ \A j \in 1..Len(calls) : calls'[j] = calls[j]
      /\ calls'[Len(calls) + 1] = [module |-> r, next |-> 1, index |-> index, deps |-> 0]
  BY <1>3, <1>5, AppendProperties
<1> QED BY <1>1, <1>4, <1>6 DEF Pushed, On

Popped ==
  /\ stack' \in Seq(Modules) /\ Once(stack') /\ calls' \in Seq(Call)
  /\ On' = IF ancestor[Top.module] = Top.index
             THEN {n \in On : PlaceIn(stack, n) < PlaceIn(stack, Top.module)} ELSE On
  /\ \A n \in On' : PlaceIn(stack', n) = PlaceIn(stack, n)
  /\ Len(calls') = Len(calls) - 1
  /\ \A j \in 1..Len(calls) - 1 : calls'[j] = calls[j]

\* The last activation.
LEMMA TopIs ==
  ASSUME TypeOK, calls # <<>>
  PROVE  /\ calls \in Seq(Call) /\ Len(calls) \in Nat \ {0} /\ Len(calls) \in 1..Len(calls)
         /\ Top = calls[Len(calls)] /\ Top \in Call /\ Top.module = Called(Len(calls))
         /\ Top.module \in Modules /\ Top.next \in Nat /\ Top.index \in Nat /\ Top.deps \in Nat
<1>1. calls \in Seq(Call)
  BY DEF TypeOK, Call
<1>2. Len(calls) \in Nat \ {0} /\ Last(calls) = calls[Len(calls)] /\ Last(calls) \in Call
  BY <1>1, FrontFacts
<1> QED BY <1>1, <1>2 DEF Top, Called, Call

\* Leave pops the activation, and the component of its module when that is the
\* component's root.
LEMMA LeavePops ==
  ASSUME TypeOK, Once(stack), calls # <<>>, Top.module \in On, Leave(Top.module)
  PROVE  Popped
<1>1. /\ stack \in Seq(Modules) /\ Len(stack) \in Nat
      /\ \A n : Place(n) = PlaceIn(stack, n)
  BY StackPlaces
<1>3. calls \in Seq(Call) /\ calls' = Front(calls)
  BY TopIs DEF Leave
<1>4. /\ calls' \in Seq(Call) /\ Len(calls') = Len(calls) - 1
      /\ \A j \in 1..Len(calls) - 1 : calls'[j] = calls[j]
  BY <1>3, FrontFacts
<1>5. CASE ancestor[Top.module] = Top.index
  <2>1. PICK t, m : t = stack' /\ m = Top.module
    OBVIOUS
  <2>2. t = SubSeq(stack, 1, PlaceIn(stack, m) - 1) /\ m \in ToSet(stack)
    BY <1>1, <1>5, <2>1 DEF Leave, On
  <2>3. /\ t \in Seq(Modules) /\ Once(t)
        /\ ToSet(t) = {n \in ToSet(stack) : PlaceIn(stack, n) < PlaceIn(stack, m)}
        /\ \A n \in ToSet(t) : PlaceIn(t, n) = PlaceIn(stack, n)
    BY <1>1, <2>2, PopFacts
  <2>4. On' = {n \in On : PlaceIn(stack, n) < PlaceIn(stack, Top.module)}
    BY <1>1, <2>1, <2>3 DEF On
  <2> QED BY <1>1, <1>4, <1>5, <2>1, <2>3, <2>4 DEF Popped, On
<1>6. CASE ancestor[Top.module] # Top.index
  <2>1. stack' = stack
    BY <1>6 DEF Leave
  <2> QED BY <1>1, <1>4, <1>6, <2>1 DEF Popped, On
<1> QED BY <1>5, <1>6

Moved(deps) ==
  /\ stack' = stack /\ index' = index /\ calls' \in Seq(Call)
  /\ On' = On
  /\ Len(calls') = Len(calls)
  /\ \A j \in 1..Len(calls) : calls'[j].module = calls[j].module /\ calls'[j].index = calls[j].index
  /\ \A j \in 1..Len(calls) : j < Len(calls) => calls'[j] = calls[j]
  /\ calls'[Len(calls)].next = Top.next + 1 /\ calls'[Len(calls)].deps = Top.deps + deps

\* A record with two of its fields changed.
LEMMA TwoFields ==
  ASSUME NEW t \in Call, NEW d \in Nat, NEW e \in Nat
  PROVE  [t EXCEPT !.next = d, !.deps = e]
           = [module |-> t.module, next |-> d, index |-> t.index, deps |-> e]
<1>1. PICK u : u = [t EXCEPT !.next = d]
  OBVIOUS
<1>2. u = [module |-> t.module, next |-> d, index |-> t.index, deps |-> t.deps]
  BY <1>1 DEF Call
<1>3. [t EXCEPT !.next = d, !.deps = e] = [u EXCEPT !.deps = e]
  BY <1>1
<1>4. [u EXCEPT !.deps = e] = [module |-> t.module, next |-> d, index |-> t.index, deps |-> e]
  BY <1>2
<1> QED BY <1>3, <1>4

\* The two counters of an activation move.
LEMMA CallMoves ==
  ASSUME NEW t \in Call, NEW d \in Nat
  PROVE  [t EXCEPT !.next = @ + 1, !.deps = @ + d]
           = [module |-> t.module, next |-> t.next + 1, index |-> t.index, deps |-> t.deps + d]
<1>1. t.next + 1 \in Nat /\ t.deps + d \in Nat
  BY DEF Call
<1>2. [t EXCEPT !.next = t.next + 1, !.deps = t.deps + d]
        = [module |-> t.module, next |-> t.next + 1, index |-> t.index, deps |-> t.deps + d]
  BY ONLY <1>1, t \in Call, TwoFields
<1>3. [t EXCEPT !.next = @ + 1, !.deps = @ + d] = [t EXCEPT !.next = t.next + 1, !.deps = t.deps + d]
  BY DEF Call
<1> QED BY ONLY <1>2, <1>3

\* Advance changes the counters of the last activation.
LEMMA AdvanceMoves ==
  ASSUME TypeOK, calls # <<>>, NEW deps \in Nat, Advance(deps)
  PROVE  Moved(deps)
<1>1. /\ calls \in Seq(Call) /\ Len(calls) \in Nat \ {0} /\ Len(calls) \in 1..Len(calls)
      /\ Top = calls[Len(calls)] /\ Top \in Call
  BY TopIs
<1>2. PICK l, c : /\ l = Len(calls)
                  /\ c = [module |-> Top.module, next |-> Top.next + 1, index |-> Top.index,
                           deps |-> Top.deps + deps]
  OBVIOUS
<1>3. c \in Call /\ c.next = Top.next + 1 /\ c.deps = Top.deps + deps /\ c.module = Top.module /\ c.index = Top.index
  BY <1>1, <1>2 DEF Call
<1>4. calls' = [calls EXCEPT ![l] = c]
  <2>1. [Top EXCEPT !.next = @ + 1, !.deps = @ + deps] = c
    BY ONLY <1>1, <1>2, deps \in Nat, CallMoves
  <2>2. calls' = [calls EXCEPT ![l] = [Top EXCEPT !.next = @ + 1, !.deps = @ + deps]]
    BY <1>1, <1>2 DEF Advance
  <2> QED BY <2>1, <2>2
<1>5. /\ [calls EXCEPT ![l] = c] \in Seq(Call) /\ Len([calls EXCEPT ![l] = c]) = Len(calls)
      /\ \A j \in 1..Len(calls) : [calls EXCEPT ![l] = c][j] = IF j = l THEN c ELSE calls[j]
  BY <1>1, <1>2, <1>3, ExceptSeq
<1>6. /\ stack' = stack /\ index' = index /\ On' = On
  BY DEF Advance, On
<1>7. /\ calls' \in Seq(Call) /\ Len(calls') = Len(calls)
      /\ \A j \in 1..Len(calls) : calls'[j] = IF j = l THEN c ELSE calls[j]
  BY <1>4, <1>5
<1>8. \A j \in 1..Len(calls) : calls'[j].module = calls[j].module /\ calls'[j].index = calls[j].index
  BY <1>1, <1>2, <1>3, <1>7
<1> QED BY <1>1, <1>2, <1>3, <1>6, <1>7, <1>8 DEF Moved

------------------------------------------------------------------------------
(* What the actions do to the search.                                       *)

Entering(r, p, s) ==
  /\ Enter(r, s) /\ phase' = p /\ UNCHANGED <<root, failed>>
  /\ \/ p = "link" /\ s = "linking" /\ status[r] = "unlinked"
     \/ p = "evaluate" /\ s = "evaluating" /\ status[r] = "linked"
  /\ phase = "idle" \/ (phase = p /\ calls # <<>> /\ HasNext /\ r = Required)

Visiting(deps) ==
  /\ calls # <<>> /\ HasNext /\ Advance(deps) /\ UNCHANGED <<status, phase, root, failed>>
  /\ phase = "link" => status[Required] # "unlinked"
  /\ phase = "evaluate" => status[Required] = "evaluating" \/ (Reached(Required) /\ ~ failed[Required])
  /\ IF status[Required] = IF phase = "link" THEN "linking" ELSE "evaluating"
       THEN LowerAncestor(Top.module, Required) ELSE UNCHANGED ancestor

Leaving ==
  /\ calls # <<>> /\ ~ HasNext /\ Leave(Top.module) /\ UNCHANGED ancestor
  /\ \A n \in Modules :
       IF ancestor[Top.module] = Top.index /\ n \in Component(Top.module)
         THEN status'[n] \in IF phase = "link" THEN {"linked"} ELSE {"evaluating-async", "evaluated"}
         ELSE status'[n] = IF phase = "link" /\ n = Top.module THEN "prelinked" ELSE status[n]
  /\ UNCHANGED failed
  /\ phase # "evaluate" => UNCHANGED root
  /\ phase = "evaluate" => \A n \in Modules :
       root'[n] = IF ancestor[Top.module] = Top.index /\ n \in Component(Top.module) THEN Top.module ELSE root[n]

Abandoning ==
  /\ calls # <<>> /\ Abandon /\ UNCHANGED <<ancestor, root>>
  /\ \A n \in Modules : failed'[n] <=> failed[n] \/ (phase = "evaluate" /\ n \in On)
  /\ phase = "link" => Top.module \in graph.broken
  /\ \A n \in Modules : status'[n] = IF n \notin On THEN status[n]
                                     ELSE IF phase = "link" THEN "unlinked" ELSE "evaluated"

Resting ==
  /\ UNCHANGED <<search, ancestor, root>>
  /\ \A n \in Modules : failed[n] => failed'[n]
  /\ phase \in {"idle", "gather", "reject"} /\ phase' \in {"idle", "gather", "reject"}
  /\ \A n \in Modules :
       status'[n] # status[n] => status[n] = "evaluating-async" /\ status'[n] = "evaluated"

Kinds ==
  \/ \E r \in Modules, p \in {"link", "evaluate"}, s \in {"linking", "evaluating"} : Entering(r, p, s)
  \/ \E deps \in Nat : Visiting(deps)
  \/ Leaving \/ Abandoning \/ Resting

\* The module a search looks at next is a module.
LEMMA RequiredIs ==
  ASSUME TypeOK, Chain, calls # <<>>
  PROVE  /\ Top.module \in On /\ Top.module \in Modules
         /\ Top.next \in 1..Len(Requests(Top.module)) + 1
         /\ HasNext => Top.next \in 1..Len(Requests(Top.module)) /\ Required \in Modules
         /\ Requests(Top.module) \in Seq(Modules) /\ Len(Requests(Top.module)) \in Nat
<1>1. /\ Top = calls[Len(calls)] /\ Top.module = Called(Len(calls)) /\ Len(calls) \in 1..Len(calls)
      /\ Top.module \in Modules /\ Top.next \in Nat
  BY TopIs
<1>2. Top.module \in On /\ Top.next \in 1..Len(Requests(Top.module)) + 1
  BY <1>1 DEF Chain
<1>3. Requests(Top.module) \in Seq(Modules)
  BY <1>1 DEF TypeOK, Requests
<1>4. Len(Requests(Top.module)) \in Nat
  BY <1>3, LenProperties
<1>5. ASSUME HasNext PROVE Top.next \in 1..Len(Requests(Top.module)) /\ Required \in Modules
  <2>1. Top.next \in 1..Len(Requests(Top.module))
    BY <1>2, <1>4, <1>5 DEF HasNext
  <2> QED BY <1>3, <2>1, ElementOfSeq DEF Required
<1> QED BY <1>1, <1>2, <1>3, <1>4, <1>5

\* Every action is of one of these kinds.
LEMMA ActionKinds ==
  ASSUME Base, Next
  PROVE  Kinds
<1>1. TypeOK /\ Chain /\ Clean /\ Once(stack)
  BY DEF Base
<1>2. ASSUME Searching("link") \/ Searching("evaluate")
      PROVE  HasNext => Required \in Modules
  BY <1>1, <1>2, RequiredIs DEF Searching
<1>3. CASE EnterLink
  <2>1. Entering(Required, "link", "linking")
    BY <1>3 DEF EnterLink, Entering, Searching
  <2> QED BY <1>2, <1>3, <2>1 DEF EnterLink, Kinds
<1>4. CASE VisitLink
  <2>1. Visiting(0)
    BY <1>4 DEF VisitLink, Visiting, Searching
  <2> QED BY <2>1 DEF Kinds
<1>5. CASE FailLink
  <2>1. Abandoning
    BY <1>5 DEF FailLink, Abandoning, Searching, On
  <2> QED BY <2>1 DEF Kinds
<1>6. CASE FinishLink
  <2>1. Leaving
    BY <1>6 DEF FinishLink, Leaving, Searching
  <2> QED BY <2>1 DEF Kinds
<1>7. CASE EnterEvaluation
  <2>1. Entering(Required, "evaluate", "evaluating")
    BY <1>7 DEF EnterEvaluation, Entering, Searching
  <2> QED BY <1>2, <1>7, <2>1 DEF EnterEvaluation, Kinds
<1>8. CASE VisitEvaluation
  <2>1. PICK deps \in Nat : deps = IF IsAsync(Required) THEN 1 ELSE 0
    OBVIOUS
  <2>2. Visiting(deps)
    BY <1>8, <2>1 DEF VisitEvaluation, Visiting, Searching, HasFailed, Reached
  <2> QED BY <2>2 DEF Kinds
<1>9. ASSUME Unwind, Searching("evaluate"), UNCHANGED <<ancestor, root>> PROVE Abandoning
  BY <1>9 DEF Unwind, Abandoning, Searching, On
<1>10. CASE FailEvaluation
  BY <1>9, <1>10 DEF FailEvaluation, Kinds
<1>11. ASSUME NEW ord, Return(Top.module, ord), Searching("evaluate"), ~ HasNext, UNCHANGED <<ancestor, failed>>
       PROVE  Leaving
  BY <1>11 DEF Return, Leaving, Searching
<1>12. CASE ExecuteSync
  BY <1>9, <1>11, <1>12 DEF ExecuteSync, Kinds
<1>13. CASE ExecuteAsync
  BY <1>11, <1>13 DEF ExecuteAsync, Kinds
<1>14. CASE \E m \in Modules : Link(m)
  <2>1. PICK m \in Modules : Link(m)
    BY <1>14
  <2>2. Entering(m, "link", "linking")
    BY <2>1 DEF Link, Entering
  <2> QED BY <2>2 DEF Kinds
<1>15. CASE \E m \in Modules : Evaluate(m)
  <2>1. PICK m \in Modules : Evaluate(m)
    BY <1>15
  <2>2. Entering(m, "evaluate", "evaluating")
    BY <2>1 DEF Evaluate, Entering
  <2> QED BY <2>2 DEF Kinds
<1>16. status \in [Modules -> Statuses]
  BY <1>1 DEF TypeOK
<1>17. ASSUME NEW m \in Modules, status[m] = "evaluating-async", Complete(m)
       PROVE  \A n \in Modules :
                status'[n] # status[n] => status[n] = "evaluating-async" /\ status'[n] = "evaluated"
  BY <1>16, <1>17 DEF Complete
<1>18. CASE \E m \in Modules : EvaluateAgain(m) \/ Reject(m)
  BY <1>18 DEF EvaluateAgain, Reject, Resting, Kinds, search
<1>19. CASE \E m \in Modules : Fulfill(m)
  <2>1. PICK m \in Modules : Fulfill(m)
    BY <1>19
  <2>2. Resting
    BY <1>17, <2>1 DEF Fulfill, Resting, search
  <2> QED BY <2>2 DEF Kinds
<1>20. CASE \E m \in Modules : RunReady(m)
  <2>1. PICK m \in Modules : RunReady(m)
    BY <1>20
  <2>2. Resting
    BY <1>17, <2>1 DEF RunReady, Resting, search
  <2> QED BY <2>2 DEF Kinds
<1>21. CASE Gather \/ SkipParent \/ EndFulfill \/ EndReject
  BY <1>21 DEF Gather, SkipParent, EndFulfill, EndReject, Resting, Kinds, search
<1>22. CASE RejectNext
  <2>1. \A n \in Modules :
          status'[n] # status[n] => status[n] = "evaluating-async" /\ status'[n] = "evaluated"
    BY <1>16, <1>22 DEF RejectNext
  <2>2. \A n \in Modules : failed[n] => failed'[n]
    <3>1. failed \in [Modules -> BOOLEAN]
      BY <1>1 DEF TypeOK
    <3> QED BY <1>22, <3>1 DEF RejectNext
  <2>3. UNCHANGED <<search, ancestor, root>> /\ phase = "reject" /\ phase' = "reject"
    BY <1>22 DEF RejectNext
  <2> QED BY <2>1, <2>2, <2>3 DEF Resting, Kinds
<1> QED BY <1>3, <1>4, <1>5, <1>6, <1>7, <1>8, <1>10, <1>12, <1>13, <1>14, <1>15, <1>18, <1>19,
           <1>20, <1>21, <1>22 DEF Next, Linking, Evaluating, Settling, Host

------------------------------------------------------------------------------
(* The types.                                                               *)

PromiseStates == {"pending", "fulfilled", "rejected"}

\* The promises keep their number when some are settled.
LEMMA SettledIs ==
  ASSUME TypeOK, NEW ps, NEW s \in PromiseStates
  PROVE  /\ Settled(ps, s) \in Seq(PromiseStates)
         /\ Len(Settled(ps, s)) = Len(promise) /\ Len(promise) \in Nat
         /\ \A i \in 1..Len(promise) : Settled(ps, s)[i] = IF i \in ps THEN s ELSE promise[i]
<1>1. promise \in Seq(PromiseStates)
  BY DEF TypeOK, PromiseStates
<1>2. Len(promise) \in Nat /\ DOMAIN promise = 1..Len(promise) /\ promise \in [1..Len(promise) -> PromiseStates]
  BY <1>1, LenProperties
<1>3. PICK f, n : f = Settled(ps, s) /\ n = Len(promise)
  OBVIOUS
<1>4. f \in [1..n -> PromiseStates] /\ \A i \in 1..n : f[i] = IF i \in ps THEN s ELSE promise[i]
  BY <1>2, <1>3 DEF Settled
<1>5. n \in Nat
  BY <1>2, <1>3
<1>6. f \in Seq(PromiseStates) /\ Len(f) = n
  BY ONLY <1>4, <1>5
<1> QED BY <1>2, <1>3, <1>4, <1>6

PromiseTypes == promise \in Seq(PromiseStates) /\ capability \in [Modules -> 0..Len(promise)]

\* Settling promises keeps their types.
LEMMA SettledTypes ==
  ASSUME TypeOK, NEW ps, NEW s \in PromiseStates, promise' = Settled(ps, s), UNCHANGED capability
  PROVE  PromiseTypes'
<1>1. capability \in [Modules -> 0..Len(promise)]
  BY DEF TypeOK
<1>2. promise' \in Seq(PromiseStates) /\ Len(promise') = Len(promise)
  BY SettledIs
<1> QED BY <1>1, <1>2 DEF PromiseTypes

\* A new promise keeps them.
LEMMA PromisedTypes ==
  ASSUME TypeOK, NEW s \in PromiseStates, promise' = Append(promise, s),
         \/ UNCHANGED capability
         \/ \E m \in Modules : capability' = [capability EXCEPT ![m] = Len(promise) + 1]
  PROVE  PromiseTypes' /\ Len(promise') = Len(promise) + 1 /\ Len(promise) \in Nat
<1>1. promise \in Seq(PromiseStates) /\ capability \in [Modules -> 0..Len(promise)]
  BY DEF TypeOK, PromiseStates
<1>2. promise' \in Seq(PromiseStates) /\ Len(promise') = Len(promise) + 1 /\ Len(promise) \in Nat
  <2>1. PICK t : t = promise'
    OBVIOUS
  <2>2. t \in Seq(PromiseStates) /\ Len(t) = Len(promise) + 1
    BY <1>1, <2>1, AppendProperties
  <2> QED BY <1>1, <2>1, <2>2, LenProperties
<1>3. \A x \in 0..Len(promise) : x \in 0..Len(promise')
  BY <1>2
<1>4. Len(promise) + 1 \in 0..Len(promise')
  BY <1>2
<1>5. capability' \in [Modules -> 0..Len(promise')]
  BY <1>1, <1>3, <1>4
<1> QED BY <1>2, <1>5 DEF PromiseTypes

SearchTypes ==
  /\ calls \in Seq(Call) /\ stack \in Seq(Modules) /\ index \in Nat /\ ancestor \in [Modules -> Nat]
  /\ Once(stack) /\ phase \in {"idle", "link", "evaluate", "gather", "reject"}

\* The search variables keep their types, and nothing comes twice on the stack.
LEMMA SearchTypesKept ==
  ASSUME Base, Next
  PROVE  SearchTypes'
<1>1. TypeOK /\ Chain /\ Clean /\ Once(stack)
  BY DEF Base
<1>2. /\ calls \in Seq(Call) /\ stack \in Seq(Modules) /\ index \in Nat /\ ancestor \in [Modules -> Nat]
      /\ status \in [Modules -> Statuses]
  BY <1>1 DEF TypeOK, Call
<1>3. Kinds
  BY ActionKinds
<1>4. ASSUME NEW r \in Modules, NEW p \in {"link", "evaluate"}, NEW s \in {"linking", "evaluating"},
             Entering(r, p, s)
      PROVE  SearchTypes'
  <2>1. r \notin On
    BY <1>4, OffStack DEF Entering
  <2>2. Pushed(r)
    BY <1>1, <1>4, <2>1, EnterPushes DEF Entering
  <2> QED BY <1>2, <1>4, <2>2 DEF Entering, Enter, Pushed, SearchTypes
<1>5. ASSUME NEW deps \in Nat, Visiting(deps) PROVE SearchTypes'
  <2>1. Moved(deps)
    BY <1>1, <1>5, AdvanceMoves DEF Visiting
  <2>2. Required \in Modules /\ Top.module \in Modules
    BY <1>1, <1>5, RequiredIs DEF Visiting
  <2>3. ancestor' \in [Modules -> Nat]
    BY <1>2, <1>5, <2>2 DEF Visiting, LowerAncestor
  <2>4. phase' \in {"idle", "link", "evaluate", "gather", "reject"}
    BY <1>1, <1>5 DEF Visiting, TypeOK
  <2> QED BY <1>1, <1>2, <2>1, <2>3, <2>4 DEF Moved, SearchTypes
<1>6. CASE Leaving
  <2>1. Popped
    BY <1>1, <1>6, LeavePops, RequiredIs DEF Leaving
  <2>2. index' \in Nat /\ phase' \in {"idle", "link", "evaluate", "gather", "reject"}
    BY <1>1, <1>2, <1>6 DEF Leaving, Leave, TypeOK
  <2> QED BY <1>2, <1>6, <2>1, <2>2 DEF Leaving, Popped, SearchTypes
<1>7. CASE Abandoning
  <2>1. <<>> \in Seq(Call) /\ <<>> \in Seq(Modules) /\ Once(<<>>)
    BY EmptySeq DEF Once
  <2> QED BY <1>2, <1>7, <2>1 DEF Abandoning, Abandon, SearchTypes
<1>8. CASE Resting
  BY <1>1, <1>2, <1>8 DEF Resting, search, SearchTypes
<1> QED BY <1>3, <1>4, <1>5, <1>6, <1>7, <1>8 DEF Kinds

ModuleTypes ==
  /\ graph \in Graphs
  /\ status \in [Modules -> Statuses] /\ root \in [Modules -> Modules]
  /\ order \in [Modules -> Nat] /\ counter \in Nat
  /\ pending \in [Modules -> Nat] /\ failed \in [Modules -> BOOLEAN]
  /\ parents \in [Modules -> Seq(Modules)] /\ todo \in Seq(Modules)

BodyTypes == execList \subseteq Modules /\ running \subseteq Modules /\ started \subseteq Modules /\ threw \subseteq Modules

\* The lists of parents and of those left to look at: who is appended, taken and
\* left away is a module.
LEMMA ListTypes ==
  ASSUME TypeOK
  PROVE  /\ \A m, n \in Modules : [parents EXCEPT ![m] = Append(@, n)] \in [Modules -> Seq(Modules)]
         /\ \A m \in Modules : [parents EXCEPT ![m] = <<>>] \in [Modules -> Seq(Modules)]
         /\ todo # <<>> => Head(todo) \in Modules /\ Tail(todo) \in Seq(Modules)
         /\ \A m \in Modules : todo # <<>> => parents[m] \o Tail(todo) \in Seq(Modules)
         /\ \A m \in Modules : <<m>> \in Seq(Modules)
<1>1. parents \in [Modules -> Seq(Modules)] /\ todo \in Seq(Modules)
  BY DEF TypeOK
<1>2. ASSUME NEW m \in Modules, NEW n \in Modules
      PROVE  [parents EXCEPT ![m] = Append(@, n)] \in [Modules -> Seq(Modules)]
  <2>1. Append(parents[m], n) \in Seq(Modules)
    BY <1>1, AppendProperties
  <2> QED BY <1>1, <2>1
<1>3. ASSUME NEW m \in Modules PROVE [parents EXCEPT ![m] = <<>>] \in [Modules -> Seq(Modules)]
  <2>1. <<>> \in Seq(Modules)
    BY EmptySeq
  <2> QED BY <1>1, <2>1
<1>4. todo # <<>> => Head(todo) \in Modules /\ Tail(todo) \in Seq(Modules)
  BY <1>1, HeadTailProperties
<1>5. ASSUME NEW m \in Modules, todo # <<>> PROVE parents[m] \o Tail(todo) \in Seq(Modules)
  BY <1>1, <1>4, <1>5, ConcatProperties
<1> QED BY <1>2, <1>3, <1>4, <1>5

\* The types of Return and Unwind.
LEMMA ReturnTypes ==
  ASSUME TypeOK, NEW m \in Modules, NEW ord, Return(m, ord), m = Top.module, calls # <<>>, UNCHANGED capability
  PROVE  /\ status' \in [Modules -> Statuses] /\ root' \in [Modules -> Modules]
         /\ pending' \in [Modules -> Nat] /\ PromiseTypes'
<1>1. /\ status \in [Modules -> Statuses] /\ root \in [Modules -> Modules] /\ pending \in [Modules -> Nat]
      /\ promise \in Seq(PromiseStates) /\ capability \in [Modules -> 0..Len(promise)]
  BY DEF TypeOK, PromiseStates
<1>2. Top.deps \in Nat
  BY TopIs
<1>3. promise' = promise \/ promise' = Settled({capability[m]}, "fulfilled")
  BY DEF Return
<1>4. PromiseTypes'
  <2>1. "fulfilled" \in PromiseStates
    BY DEF PromiseStates
  <2>2. CASE promise' = promise
    BY <1>1, <2>2 DEF PromiseTypes
  <2>3. CASE promise' = Settled({capability[m]}, "fulfilled")
    BY <2>1, <2>3, SettledTypes
  <2> QED BY <1>3, <2>2, <2>3
<1>5. status' \in [Modules -> Statuses]
  BY <1>1 DEF Return, Statuses
<1>6. root' \in [Modules -> Modules]
  BY <1>1 DEF Return
<1>7. pending' \in [Modules -> Nat]
  BY <1>1, <1>2 DEF Return
<1> QED BY <1>4, <1>5, <1>6, <1>7

\* A failing link that unwinds the stack keeps the types of the statuses, the errors and the
\* promises.
LEMMA UnwindTypes ==
  ASSUME TypeOK, Unwind, UNCHANGED capability
  PROVE  status' \in [Modules -> Statuses] /\ failed' \in [Modules -> BOOLEAN] /\ PromiseTypes'
<1>1. status \in [Modules -> Statuses] /\ failed \in [Modules -> BOOLEAN]
  BY DEF TypeOK
<1>2. "rejected" \in PromiseStates
  BY DEF PromiseStates
<1>3. PromiseTypes'
  BY <1>2, SettledTypes DEF Unwind
<1>4. status' \in [Modules -> Statuses]
  BY <1>1 DEF Unwind, Statuses
<1>5. failed' \in [Modules -> BOOLEAN]
  BY <1>1 DEF Unwind
<1> QED BY <1>3, <1>4, <1>5

MoreTypes == ModuleTypes /\ BodyTypes /\ PromiseTypes

\* The variables outside of the search keep their types.
LEMMA MoreTypesKept ==
  ASSUME Base, Next
  PROVE  MoreTypes'
<1>1. TypeOK /\ Chain
  BY DEF Base
<1>2. MoreTypes
  BY <1>1 DEF Base, TypeOK, MoreTypes, ModuleTypes, BodyTypes, PromiseTypes, PromiseStates
<1>3. ASSUME calls # <<>>
      PROVE  /\ Top.module \in Modules /\ Top.deps \in Nat
             /\ HasNext => Required \in Modules
  BY <1>1, <1>3, TopIs, RequiredIs
<1> USE DEF MoreTypes
<1>4. CASE EnterLink \/ EnterEvaluation \/ \E m \in Modules : Link(m)
  <2>1. PICK r, s : Enter(r, s) /\ s \in Statuses
    BY <1>4 DEF EnterLink, EnterEvaluation, Link, Statuses
  <2>2. status' \in [Modules -> Statuses]
    BY <1>2, <2>1 DEF Enter, ModuleTypes
  <2>3. UNCHANGED <<graph, root, failed, asyncs, bodies, jobs, promises>>
    BY <1>4 DEF EnterLink, EnterEvaluation, Link
  <2> QED BY <1>2, <2>2, <2>3 DEF ModuleTypes, BodyTypes, PromiseTypes, asyncs, bodies, jobs, promises
<1>5. CASE VisitLink
  BY <1>2, <1>5 DEF VisitLink, ModuleTypes, BodyTypes, PromiseTypes, asyncs, bodies, jobs, promises
<1>6. CASE FailLink
  <2>1. status' \in [Modules -> Statuses]
    BY <1>2, <1>6 DEF FailLink, ModuleTypes, Statuses
  <2> QED BY <1>2, <1>6, <2>1 DEF FailLink, ModuleTypes, BodyTypes, PromiseTypes, asyncs, bodies, jobs, promises
<1>7. CASE FinishLink
  <2>1. status' \in [Modules -> Statuses]
    BY <1>2, <1>7 DEF FinishLink, ModuleTypes, Statuses
  <2> QED BY <1>2, <1>7, <2>1 DEF FinishLink, ModuleTypes, BodyTypes, PromiseTypes, asyncs, bodies, jobs, promises
<1>8. CASE \E m \in Modules : Evaluate(m)
  <2>1. PICK m \in Modules : Evaluate(m)
    BY <1>8
  <2>2. "pending" \in PromiseStates /\ "evaluating" \in Statuses
    BY DEF PromiseStates, Statuses
  <2>3. PromiseTypes'
    BY <1>1, <2>1, <2>2, PromisedTypes DEF Evaluate
  <2>4. status' \in [Modules -> Statuses]
    BY <1>2, <2>1, <2>2 DEF Evaluate, Enter, ModuleTypes
  <2> QED BY <1>2, <2>1, <2>3, <2>4 DEF Evaluate, ModuleTypes, BodyTypes, asyncs, bodies, jobs
<1>9. CASE \E m \in Modules : EvaluateAgain(m)
  <2>1. PICK m \in Modules : EvaluateAgain(m)
    BY <1>9
  <2>2. PICK s : s = IF status[root[m]] = "evaluating-async" THEN "pending"
                     ELSE IF failed[root[m]] THEN "rejected" ELSE "fulfilled"
    OBVIOUS
  <2>3. s \in PromiseStates /\ promise' = Append(promise, s) /\ UNCHANGED capability
    BY <2>1, <2>2 DEF PromiseStates, EvaluateAgain
  <2>4. PromiseTypes'
    BY <1>1, <2>3, PromisedTypes
  <2> QED BY <1>2, <2>1, <2>4 DEF EvaluateAgain, ModuleTypes, BodyTypes, asyncs, bodies, jobs
<1>10. CASE VisitEvaluation
  <2>1. Top.module \in Modules /\ Required \in Modules
    BY <1>3, <1>10 DEF VisitEvaluation, Searching
  <2>2. Target(Required) \in Modules
    BY <1>2, <2>1 DEF Target, ModuleTypes
  <2>3. parents' \in [Modules -> Seq(Modules)]
    BY <1>1, <1>2, <1>10, <2>1, <2>2, ListTypes DEF VisitEvaluation, ModuleTypes
  <2> QED BY <1>2, <1>10, <2>3 DEF VisitEvaluation, ModuleTypes, BodyTypes, PromiseTypes, bodies, jobs, promises
<1>11. CASE FailEvaluation
  <2>1. status' \in [Modules -> Statuses] /\ failed' \in [Modules -> BOOLEAN] /\ PromiseTypes'
    BY <1>1, <1>11, UnwindTypes DEF FailEvaluation
  <2> QED BY <1>2, <1>11, <2>1 DEF FailEvaluation, ModuleTypes, BodyTypes, asyncs, bodies, jobs
<1>12. CASE ExecuteSync
  <2>1. Top.module \in Modules /\ calls # <<>>
    BY <1>3, <1>12 DEF ExecuteSync, Searching
  <2>2. CASE Top.module \in graph.throws
    <3>1. Unwind /\ threw' = threw \cup {Top.module} /\ UNCHANGED <<root, pending>>
      BY <1>12, <2>2 DEF ExecuteSync
    <3>2. status' \in [Modules -> Statuses] /\ failed' \in [Modules -> BOOLEAN] /\ PromiseTypes'
      BY <1>1, <1>12, <3>1, UnwindTypes DEF ExecuteSync
    <3> QED BY <1>2, <1>12, <2>1, <3>1, <3>2 DEF ExecuteSync, ModuleTypes, BodyTypes, jobs
  <2>3. CASE Top.module \notin graph.throws
    <3>1. Return(Top.module, order) /\ UNCHANGED <<threw, failed>>
      BY <1>12, <2>3 DEF ExecuteSync
    <3>2. /\ status' \in [Modules -> Statuses] /\ root' \in [Modules -> Modules]
          /\ pending' \in [Modules -> Nat] /\ PromiseTypes'
      BY <1>1, <1>12, <2>1, <3>1, ReturnTypes DEF ExecuteSync
    <3> QED BY <1>2, <1>12, <2>1, <3>1, <3>2 DEF ExecuteSync, ModuleTypes, BodyTypes, jobs
  <2> QED BY <2>2, <2>3
<1>13. CASE ExecuteAsync
  <2>1. Top.module \in Modules /\ calls # <<>>
    BY <1>3, <1>13 DEF ExecuteAsync, Searching
  <2>2. PICK ord : ord = [order EXCEPT ![Top.module] = counter + 1] /\ Return(Top.module, ord)
    BY <1>13 DEF ExecuteAsync
  <2>3. /\ status' \in [Modules -> Statuses] /\ root' \in [Modules -> Modules]
        /\ pending' \in [Modules -> Nat] /\ PromiseTypes'
    BY <1>1, <1>13, <2>1, <2>2, ReturnTypes DEF ExecuteAsync
  <2>4. order' \in [Modules -> Nat] /\ counter' \in Nat
    <3>1. PICK m, c : m = Top.module /\ c = counter + 1
      BY <2>1
    <3>2. order' = [order EXCEPT ![m] = c] /\ counter' = c
      BY <1>13, <3>1 DEF ExecuteAsync
    <3>3. order \in [Modules -> Nat] /\ counter \in Nat
      BY <1>2 DEF ModuleTypes
    <3>4. c \in Nat
      BY <3>1, <3>3
    <3> QED BY ONLY <3>2, <3>3, <3>4
  <2> QED BY <1>2, <1>13, <2>1, <2>3, <2>4 DEF ExecuteAsync, ModuleTypes, BodyTypes, jobs
<1>14. ASSUME NEW m \in Modules, Complete(m), UNCHANGED capability
       PROVE  status' \in [Modules -> Statuses] /\ PromiseTypes'
  <2>1. "fulfilled" \in PromiseStates /\ "evaluated" \in Statuses
    BY DEF PromiseStates, Statuses
  <2> QED BY <1>1, <1>2, <1>14, <2>1, SettledTypes DEF Complete, ModuleTypes
<1>15. CASE \E m \in Modules : Fulfill(m)
  <2>1. PICK m \in Modules : Fulfill(m)
    BY <1>15
  <2>2. CASE status[m] = "evaluated"
    BY <1>2, <2>1, <2>2 DEF Fulfill, ModuleTypes, BodyTypes, PromiseTypes
  <2>3. CASE status[m] # "evaluated"
    <3>1. status' \in [Modules -> Statuses] /\ PromiseTypes'
      BY <1>14, <2>1, <2>3 DEF Fulfill
    <3>2. todo' \in Seq(Modules) /\ parents' \in [Modules -> Seq(Modules)]
      <4>1. todo' = parents[m] /\ parents' = [parents EXCEPT ![m] = <<>>]
        BY <2>1, <2>3 DEF Fulfill
      <4>2. parents \in [Modules -> Seq(Modules)] /\ [parents EXCEPT ![m] = <<>>] \in [Modules -> Seq(Modules)]
        BY <1>1, <1>2, ListTypes DEF ModuleTypes
      <4> QED BY <4>1, <4>2
    <3> QED BY <1>2, <2>1, <3>1, <3>2 DEF Fulfill, ModuleTypes, BodyTypes
  <2> QED BY <2>2, <2>3
<1>16. CASE \E m \in Modules : RunReady(m)
  <2>1. PICK m \in Modules : RunReady(m)
    BY <1>16
  <2>2. status' \in [Modules -> Statuses] /\ PromiseTypes'
    BY <1>2, <1>14, <2>1 DEF RunReady, ModuleTypes, PromiseTypes
  <2> QED BY <1>2, <2>1, <2>2 DEF RunReady, ModuleTypes, BodyTypes, asyncs
<1>17. CASE Gather
  <2>1. Head(todo) \in Modules /\ Tail(todo) \in Seq(Modules)
    BY <1>1, <1>17, ListTypes DEF Gather
  <2>2. pending' \in [Modules -> Nat]
    <3>1. PICK p : p = Head(todo)
      OBVIOUS
    <3>2. pending' = [pending EXCEPT ![p] = @ - 1] /\ pending[p] > 0
      BY <1>17, <3>1 DEF Gather
    <3>3. pending \in [Modules -> Nat] /\ p \in Modules
      BY <1>2, <2>1, <3>1 DEF ModuleTypes
    <3> QED BY ONLY <3>2, <3>3
  <2>3. todo' \in Seq(Modules) /\ parents' \in [Modules -> Seq(Modules)]
    <3>1. PICK p : p = Head(todo) /\ p \in Modules
      BY <2>1
    <3>2. parents' = parents \/ parents' = [parents EXCEPT ![p] = <<>>]
      BY <1>17, <3>1 DEF Gather
    <3>3. todo # <<>> /\ (todo' = Tail(todo) \/ todo' = parents[p] \o Tail(todo))
      BY <1>17, <3>1 DEF Gather
    <3>4. /\ parents \in [Modules -> Seq(Modules)] /\ [parents EXCEPT ![p] = <<>>] \in [Modules -> Seq(Modules)]
          /\ todo # <<>> => parents[p] \o Tail(todo) \in Seq(Modules)
      BY <1>1, <1>2, <3>1, ListTypes DEF ModuleTypes
    <3> QED BY <2>1, <3>2, <3>3, <3>4
  <2> QED BY <1>2, <1>17, <2>1, <2>2, <2>3 DEF Gather, ModuleTypes, BodyTypes, PromiseTypes, bodies, promises
<1>18. CASE SkipParent
  <2>1. todo' \in Seq(Modules)
    BY <1>1, <1>18, ListTypes DEF SkipParent
  <2> QED BY <1>2, <1>18, <2>1 DEF SkipParent, ModuleTypes, BodyTypes, PromiseTypes, asyncs, bodies, promises
<1>19. CASE EndFulfill \/ EndReject
  BY <1>2, <1>19 DEF EndFulfill, EndReject, ModuleTypes, BodyTypes, PromiseTypes, asyncs, bodies, jobs, promises
<1>20. CASE \E m \in Modules : Reject(m)
  <2>1. PICK m \in Modules : Reject(m)
    BY <1>20
  <2>2. todo' \in Seq(Modules)
    BY <1>1, <2>1, ListTypes DEF Reject
  <2> QED BY <1>2, <2>1, <2>2 DEF Reject, ModuleTypes, BodyTypes, PromiseTypes, asyncs, promises
<1>21. CASE RejectNext
  <2>1. Head(todo) \in Modules /\ Tail(todo) \in Seq(Modules)
    BY <1>1, <1>21, ListTypes DEF RejectNext
  <2>2. CASE status[Head(todo)] = "evaluated"
    BY <1>2, <1>21, <2>1, <2>2 DEF RejectNext, ModuleTypes, BodyTypes, PromiseTypes, bodies
  <2>3. CASE status[Head(todo)] # "evaluated"
    <3>1. "rejected" \in PromiseStates /\ "evaluated" \in Statuses
      BY DEF PromiseStates, Statuses
    <3>2. PromiseTypes'
      BY <1>1, <1>21, <2>3, <3>1, SettledTypes DEF RejectNext
    <3>3. todo' \in Seq(Modules) /\ parents' \in [Modules -> Seq(Modules)]
      BY <1>1, <1>21, <2>1, <2>3, ListTypes DEF RejectNext
    <3>4. status' \in [Modules -> Statuses] /\ failed' \in [Modules -> BOOLEAN]
      BY <1>2, <1>21, <2>3, <3>1 DEF RejectNext, ModuleTypes
    <3> QED BY <1>2, <1>21, <3>2, <3>3, <3>4 DEF RejectNext, ModuleTypes, BodyTypes, bodies
  <2> QED BY <2>2, <2>3
<1> QED BY <1>4, <1>5, <1>6, <1>7, <1>8, <1>9, <1>10, <1>11, <1>12, <1>13, <1>15, <1>16, <1>17, <1>18,
           <1>19, <1>20, <1>21 DEF Next, Linking, Evaluating, Settling, Host

\* So every variable keeps its type.
LEMMA TypesKept ==
  ASSUME Base, Next
  PROVE  TypeOK' /\ (graph \in Graphs)' /\ Once(stack)'
<1>1. SearchTypes' /\ MoreTypes'
  BY SearchTypesKept, MoreTypesKept
<1>2. \A g \in Graphs : g.requests \in [Modules -> Seq(Modules)]
  BY GraphAssumption
<1>3. graph' \in Graphs
  BY <1>1 DEF MoreTypes, ModuleTypes
<1>4. graph'.requests \in [Modules -> Seq(Modules)]
  BY <1>2, <1>3
<1> QED BY <1>1, <1>3, <1>4 DEF SearchTypes, MoreTypes, ModuleTypes, BodyTypes, PromiseTypes, TypeOK, Call, PromiseStates

------------------------------------------------------------------------------
(* The shape of the search.                                                 *)

\* There is something left to gather or to reject only while that goes on.
LEMMA JobsKept ==
  ASSUME Base, Next
  PROVE  /\ phase' \notin {"gather", "reject"} => todo' = <<>>
         /\ phase' # "gather" => execList' = {}
<1>1. /\ phase \notin {"gather", "reject"} => todo = <<>>
      /\ phase # "gather" => execList = {}
      /\ calls # <<>> <=> phase \in {"link", "evaluate"}
  BY DEF Base, Clean
<1>2. CASE Linking
  BY <1>1, <1>2 DEF Linking, EnterLink, VisitLink, FailLink, FinishLink, Leave, Abandon, Searching, jobs
<1>3. CASE EnterEvaluation \/ VisitEvaluation \/ FailEvaluation
  BY <1>1, <1>3 DEF EnterEvaluation, VisitEvaluation, FailEvaluation, Unwind, Abandon, Searching, jobs
<1>4. CASE ExecuteSync
  BY <1>1, <1>4 DEF ExecuteSync, Return, Leave, Unwind, Abandon, Searching, jobs
<1>5. CASE ExecuteAsync
  BY <1>1, <1>5 DEF ExecuteAsync, Return, Leave, Searching, jobs
<1>6. CASE Gather \/ SkipParent \/ EndFulfill \/ \E m \in Modules : RunReady(m)
  BY <1>6 DEF Gather, SkipParent, EndFulfill, RunReady, jobs
<1>7. CASE RejectNext \/ EndReject
  BY <1>1, <1>7 DEF RejectNext, EndReject, jobs
<1>8. CASE Host
  BY <1>1, <1>8 DEF Host, Link, Evaluate, EvaluateAgain, Fulfill, Reject, jobs
<1> QED BY <1>2, <1>3, <1>4, <1>5, <1>6, <1>7, <1>8 DEF Next, Evaluating, Settling

\* Entering keeps the shape: the new module is the last.
LEMMA EnteringKeeps ==
  ASSUME Base, (graph \in Graphs)', UNCHANGED graph,
         NEW r \in Modules, NEW p \in {"link", "evaluate"}, NEW s \in {"linking", "evaluating"}, Entering(r, p, s)
  PROVE  Pushed(r) /\ r \notin On /\ Chain' /\ Low' /\ OnStatus'
<1>1. TypeOK /\ Once(stack) /\ Chain /\ Low /\ OnStatus /\ Clean
  BY DEF Base
<1>2. r \notin On
  BY OffStack DEF Entering
<1>3. Pushed(r)
  BY <1>1, <1>2, EnterPushes DEF Entering
<1>4. PICK l : l = Len(calls)
  OBVIOUS
<1>5. /\ l \in Nat /\ calls \in Seq(Call) /\ index \in Nat /\ ancestor \in [Modules -> Nat]
      /\ status \in [Modules -> Statuses] /\ On \subseteq Modules /\ Len(stack) \in Nat
  BY <1>1, <1>4, StackPlaces, LenProperties DEF TypeOK, Call
<1>6. /\ Len(calls') = l + 1
      /\ \A j \in 1..l : calls'[j] = calls[j]
      /\ calls'[l + 1].module = r /\ calls'[l + 1].next = 1 /\ calls'[l + 1].index = index
      /\ On' = On \cup {r} /\ PlaceIn(stack', r) = Len(stack) + 1
      /\ \A n \in On : PlaceIn(stack', n) = PlaceIn(stack, n) /\ PlaceIn(stack, n) \in 1..Len(stack)
  BY <1>3, <1>4 DEF Pushed
<1>7. index' = index + 1 /\ ancestor' = [ancestor EXCEPT ![r] = index] /\ status' = [status EXCEPT ![r] = s] /\ phase' = p
  BY DEF Entering, Enter
<1>8. /\ \A j \in 1..l + 1 : j \in 1..l \/ j = l + 1
      /\ \A j \in 1..l : j \in 1..l + 1 /\ j # l + 1 /\ j < l + 1
      /\ l + 1 \in 1..l + 1
  BY <1>5
<1>9. \A j \in 1..l : /\ calls'[j] = calls[j] /\ calls[j].module \in On /\ calls[j] \in Call
                      /\ PlaceIn(stack', calls[j].module) = PlaceIn(stack, calls[j].module)
                      /\ PlaceIn(stack, calls[j].module) \in 1..Len(stack)
  <2>1. \A j \in 1..l : calls[j].module \in On
    BY <1>1, <1>4 DEF Chain, Called
  <2> QED BY <1>4, <1>5, <1>6, <2>1, ElementOfSeq
<1>11. Chain'
  <2>1. (calls # <<>> => PlaceIn(stack, Called(1)) = 1 /\ calls[1].index = 0)'
    <3>1. CASE l = 0
      <4>1. calls = <<>>
        BY <1>4, <1>5, <3>1, EmptySeq
      <4>2. stack = <<>> /\ index = 0
        BY <1>1, <4>1 DEF Clean
      <4>3. Len(stack) = 0
        BY <4>2
      <4> QED BY <1>6, <3>1, <4>2, <4>3 DEF Called
    <3>2. CASE l # 0
      <4>1. calls # <<>> /\ 1 \in 1..l
        BY <1>4, <1>5, <3>2, EmptySeq
      <4>2. PlaceIn(stack, calls[1].module) = 1 /\ calls[1].index = 0
        BY <1>1, <4>1 DEF Chain, Called
      <4> QED BY <1>9, <4>1, <4>2 DEF Called
    <3> QED BY <3>1, <3>2
  <2>2. ASSUME NEW j \in 1..l + 1
        PROVE  /\ calls'[j].module \in On' /\ calls'[j].index < index'
               /\ calls'[j].next \in 1..Len(Requests(calls'[j].module)) + 1
    <3>1. CASE j \in 1..l
      <4>1. /\ calls[j].module \in On /\ calls[j].index < index
            /\ calls[j].next \in 1..Len(Requests(calls[j].module)) + 1
        BY <1>1, <1>4, <3>1 DEF Chain, Called
      <4>2. calls[j].index \in Nat
        BY <1>9, <3>1 DEF Call
      <4>3. PICK c : c = calls[j] /\ c = calls'[j]
        BY <1>9, <3>1
      <4>4. c.index < index' /\ c.module \in On'
        BY <1>5, <1>6, <1>7, <4>1, <4>2, <4>3
      <4> QED BY <4>1, <4>3, <4>4
    <3>2. CASE j = l + 1
      <4>1. Len(Requests(r)) \in Nat
        BY <1>1, LenProperties DEF TypeOK, Requests
      <4>2. 1 \in 1..Len(Requests(r)) + 1 /\ index < index + 1
        BY <1>5, <4>1
      <4> QED BY <1>6, <1>7, <3>2, <4>2
    <3> QED BY <1>8, <3>1, <3>2
  <2>3. ASSUME NEW j \in 1..l + 1, j < l + 1
        PROVE  /\ calls'[j].next \in 1..Len(Requests(calls'[j].module))
               /\ Requests(calls'[j].module)[calls'[j].next] = calls'[j + 1].module
    <3>1. j \in 1..l /\ (j < l \/ j = l)
      BY <1>5, <2>3
    <3>2. CASE j < l
      <4>1. j + 1 \in 1..l
        BY <1>5, <3>2
      <4> QED BY <1>1, <1>4, <1>9, <3>1, <3>2, <4>1 DEF Chain, Called
    <3>3. CASE j = l
      <4>1. calls # <<>>
        BY <1>4, <1>5, <3>1, EmptySeq
      <4>2. phase # "idle"
        BY <4>1, NothingOn
      <4>3. HasNext /\ r = Required
        BY <4>2 DEF Entering
      <4>4. Top = calls[j]
        BY <1>1, <1>4, <3>3, <4>1, TopIs
      <4>5. Top.next \in 1..Len(Requests(Top.module))
        BY <1>1, <4>1, <4>3, RequiredIs
      <4> QED BY <1>6, <1>9, <3>1, <3>3, <4>3, <4>4, <4>5 DEF Required
    <3> QED BY <3>1, <3>2, <3>3
  <2>4. ASSUME NEW j \in 1..l + 1, NEW k \in 1..l + 1, j < k
        PROVE  /\ PlaceIn(stack', calls'[j].module) < PlaceIn(stack', calls'[k].module)
               /\ calls'[j].index < calls'[k].index
    <3>1. j \in 1..l
      BY <1>5, <2>4
    <3>2. CASE k \in 1..l
      <4>1. PlaceIn(stack, calls[j].module) < PlaceIn(stack, calls[k].module) /\ calls[j].index < calls[k].index
        BY <1>1, <1>4, <2>4, <3>1, <3>2 DEF Chain, Called
      <4> QED BY <1>9, <3>1, <3>2, <4>1
    <3>3. CASE k = l + 1
      <4>1. calls[j].index < index
        BY <1>1, <1>4, <3>1 DEF Chain
      <4>2. PlaceIn(stack, calls[j].module) < Len(stack) + 1
        BY <1>5, <1>9, <3>1
      <4> QED BY <1>6, <1>9, <3>1, <3>3, <4>1, <4>2
    <3> QED BY <1>8, <3>2, <3>3
  <2> QED BY <1>6, <2>1, <2>2, <2>3, <2>4 DEF Chain, Called, Requests
<1>12. Low'
  <2>1. \A n \in On' : ancestor'[n] < index'
    BY <1>1, <1>5, <1>6, <1>7 DEF Low
  <2>2. ASSUME NEW n \in On', NEW j \in 1..l + 1, PlaceIn(stack', n) < PlaceIn(stack', calls'[j].module)
        PROVE  ancestor'[n] < calls'[j].index
    <3>1. n \in On
      BY <1>5, <1>6, <1>8, <1>9, <2>2
    <3>2. ancestor'[n] = ancestor[n] /\ ancestor[n] < index
      BY <1>1, <1>2, <1>5, <1>7, <3>1 DEF Low
    <3>3. CASE j \in 1..l
      <4>1. PlaceIn(stack, n) < PlaceIn(stack, calls[j].module)
        BY <1>6, <1>9, <2>2, <3>1, <3>3
      <4> QED BY <1>1, <1>4, <1>9, <3>1, <3>2, <3>3, <4>1 DEF Low, Called
    <3>4. CASE j = l + 1
      BY <1>6, <3>2, <3>4
    <3> QED BY <1>8, <3>3, <3>4
  <2>3. ASSUME NEW j \in 1..l + 1 PROVE ancestor'[calls'[j].module] <= calls'[j].index
    <3>1. CASE j \in 1..l
      BY <1>1, <1>2, <1>4, <1>5, <1>7, <1>9, <3>1 DEF Low, Called
    <3>2. CASE j = l + 1
      BY <1>5, <1>6, <1>7, <3>2
    <3> QED BY <1>8, <3>1, <3>2
  <2> QED BY <1>6, <2>1, <2>2, <2>3 DEF Low, Called
<1>13. OnStatus'
  <2>1. Act' = Act \cup {r}
    <3>1. Act' = {calls'[j].module : j \in 1..l + 1}
      BY <1>6 DEF Act, Called
    <3>2. Act = {calls[j].module : j \in 1..l}
      BY <1>4 DEF Act, Called
    <3> QED BY <1>6, <1>8, <1>9, <3>1, <3>2
  <2>2. status'[r] = s /\ \A n \in Modules \ {r} : status'[n] = status[n]
    BY <1>5, <1>7
  <2>3. (p = "link" /\ s = "linking") \/ (p = "evaluate" /\ s = "evaluating")
    BY Zenon DEF Entering
  <2>4. phase = p \/ (phase = "idle" /\ On = {} /\ Act = {})
    BY NothingOn DEF Entering
  <2>5. Act \subseteq On
    BY <1>1 DEF Chain, Act
  <2> QED BY <1>1, <1>2, <1>6, <1>7, <2>1, <2>2, <2>3, <2>4, <2>5 DEF OnStatus
<1> QED BY <1>2, <1>3, <1>11, <1>12, <1>13

\* Looking at a required module keeps the shape: only low links go down.
LEMMA VisitingKeeps ==
  ASSUME Base, UNCHANGED graph, NEW deps \in Nat, Visiting(deps)
  PROVE  Moved(deps) /\ Chain' /\ Low' /\ OnStatus'
<1>1. TypeOK /\ Once(stack) /\ Chain /\ Low /\ OnStatus /\ Clean
  BY DEF Base
<1>2. calls # <<>> /\ HasNext /\ Advance(deps) /\ status' = status /\ phase' = phase
  BY DEF Visiting
<1>3. Moved(deps)
  BY <1>1, <1>2, AdvanceMoves
<1>4. /\ Top.module \in On /\ Top.module \in Modules /\ Required \in Modules
      /\ Top.next \in 1..Len(Requests(Top.module)) /\ Len(Requests(Top.module)) \in Nat
  BY <1>1, <1>2, RequiredIs
<1>5. PICK l : l = Len(calls)
  OBVIOUS
<1>6. l \in Nat \ {0} /\ Top = calls[l] /\ l \in 1..l
  BY <1>1, <1>2, <1>5, TopIs
<1>7. /\ stack' = stack /\ index' = index /\ On' = On /\ Len(calls') = l
      /\ \A j \in 1..l : calls'[j].module = calls[j].module /\ calls'[j].index = calls[j].index
      /\ \A j \in 1..l : j < l => calls'[j] = calls[j]
      /\ calls'[l].next = Top.next + 1
  BY <1>3, <1>5 DEF Moved
<1>8. Chain'
  <2>1. (calls # <<>> => PlaceIn(stack, Called(1)) = 1 /\ calls[1].index = 0)'
    <3>1. 1 \in 1..l
      BY <1>6
    <3>2. PlaceIn(stack, calls[1].module) = 1 /\ calls[1].index = 0
      BY <1>1, <1>2 DEF Chain, Called
    <3> QED BY <1>7, <3>1, <3>2 DEF Called
  <2>2. ASSUME NEW j \in 1..l
        PROVE  /\ calls'[j].module \in On' /\ calls'[j].index < index'
               /\ calls'[j].next \in 1..Len(Requests(calls'[j].module)) + 1
    <3>1. calls[j].module \in On /\ calls[j].index < index
      BY <1>1, <1>5 DEF Chain, Called
    <3>2. CASE j = l
      <4>1. Top.next + 1 \in 1..Len(Requests(Top.module)) + 1
        BY <1>4
      <4> QED BY <1>6, <1>7, <3>1, <3>2, <4>1
    <3>3. CASE j # l
      <4>1. j < l
        BY <1>6, <3>3
      <4>2. calls[j].next \in 1..Len(Requests(calls[j].module)) + 1
        BY <1>1, <1>5 DEF Chain, Called
      <4>3. PICK c : c = calls[j] /\ c = calls'[j]
        BY <1>7, <4>1
      <4> QED BY <1>7, <3>1, <4>2, <4>3
    <3> QED BY <3>2, <3>3
  <2>3. ASSUME NEW j \in 1..l, j < l
        PROVE  /\ calls'[j].next \in 1..Len(Requests(calls'[j].module))
               /\ Requests(calls'[j].module)[calls'[j].next] = calls'[j + 1].module
    <3>1. j + 1 \in 1..l
      BY <1>6, <2>3
    <3>2. /\ calls[j].next \in 1..Len(Requests(calls[j].module))
          /\ Requests(calls[j].module)[calls[j].next] = calls[j + 1].module
      BY <1>1, <1>5, <2>3 DEF Chain, Called
    <3>3. PICK c : c = calls[j] /\ c = calls'[j]
      BY <1>7, <2>3
    <3> QED BY <1>7, <3>1, <3>2, <3>3
  <2>4. ASSUME NEW j \in 1..l, NEW k \in 1..l, j < k
        PROVE  /\ PlaceIn(stack', calls'[j].module) < PlaceIn(stack', calls'[k].module)
               /\ calls'[j].index < calls'[k].index
    BY <1>1, <1>5, <1>7, <2>4 DEF Chain, Called
  <2> QED BY <1>7, <2>1, <2>2, <2>3, <2>4 DEF Chain, Called, Requests
<1>9. Low'
  <2>1. \A n \in Modules : ancestor'[n] \in Nat /\ ancestor'[n] <= ancestor[n]
    <3>1. ancestor \in [Modules -> Nat]
      BY <1>1 DEF TypeOK
    <3>2. ancestor' = ancestor \/ LowerAncestor(Top.module, Required)
      BY DEF Visiting
    <3> QED BY <1>4, <3>1, <3>2 DEF LowerAncestor
  <2>2. On \subseteq Modules /\ index \in Nat /\ ancestor \in [Modules -> Nat]
    BY <1>1, StackPlaces DEF TypeOK
  <2>3. \A j \in 1..l : calls[j].module \in On /\ calls[j].index \in Nat
    <3>1. \A j \in 1..l : calls[j] \in Call
      BY <1>1, <1>5, ElementOfSeq DEF TypeOK, Call
    <3> QED BY <1>1, <1>5, <3>1 DEF Chain, Called, Call
  <2>4. \A n \in On' : ancestor'[n] < index'
    BY <1>1, <1>7, <2>1, <2>2 DEF Low
  <2>5. ASSUME NEW n \in On', NEW j \in 1..l, PlaceIn(stack', n) < PlaceIn(stack', calls'[j].module)
        PROVE  ancestor'[n] < calls'[j].index
    <3>1. ancestor[n] < calls[j].index
      BY <1>1, <1>5, <1>7, <2>5 DEF Low, Called
    <3> QED BY <1>7, <2>1, <2>2, <2>3, <3>1
  <2>6. ASSUME NEW j \in 1..l PROVE ancestor'[calls'[j].module] <= calls'[j].index
    <3>1. ancestor[calls[j].module] <= calls[j].index
      BY <1>1, <1>5 DEF Low, Called
    <3> QED BY <1>7, <2>1, <2>2, <2>3, <3>1
  <2> QED BY <1>7, <2>4, <2>5, <2>6 DEF Low, Called
<1>10. OnStatus'
  <2>1. Act' = Act
    BY <1>5, <1>7 DEF Act, Called
  <2> QED BY <1>1, <1>2, <1>7, <2>1 DEF OnStatus
<1> QED BY <1>3, <1>8, <1>9, <1>10

\* Leaving keeps the shape: what is popped is done.
LEMMA LeavingKeeps ==
  ASSUME Base, UNCHANGED graph, TypeOK', Leaving
  PROVE  /\ Popped /\ Chain' /\ Low' /\ OnStatus'
         /\ calls' = <<>> => stack' = <<>>
<1>1. TypeOK /\ Once(stack) /\ Chain /\ Low /\ OnStatus /\ Clean
  BY DEF Base
<1>2. calls # <<>> /\ ~ HasNext /\ Leave(Top.module) /\ ancestor' = ancestor
  BY DEF Leaving
<1>3. /\ Top.module \in On /\ Top.module \in Modules
  BY <1>1, <1>2, RequiredIs
<1>4. Popped
  BY <1>1, <1>2, <1>3, LeavePops
<1>5. PICK l : l = Len(calls)
  OBVIOUS
<1>6. l \in Nat \ {0} /\ Top = calls[l] /\ l \in 1..l
  BY <1>1, <1>2, <1>5, TopIs
<1>7. /\ On' = IF ancestor[Top.module] = Top.index
                 THEN {n \in On : PlaceIn(stack, n) < PlaceIn(stack, Top.module)} ELSE On
      /\ \A n \in On' : PlaceIn(stack', n) = PlaceIn(stack, n)
      /\ Len(calls') = l - 1 /\ \A j \in 1..l - 1 : calls'[j] = calls[j]
  BY <1>4, <1>5 DEF Popped
<1>8. /\ \A j \in 1..l - 1 : j \in 1..l /\ j < l
      /\ \A j \in 1..l : j \in 1..l - 1 \/ j = l
  BY <1>6
<1>9. \A j \in 1..l - 1 : /\ calls'[j] = calls[j] /\ calls[j].module \in On'
                          /\ PlaceIn(stack', calls[j].module) = PlaceIn(stack, calls[j].module)
                          /\ PlaceIn(stack, calls[j].module) < PlaceIn(stack, Top.module)
  <2>1. \A j \in 1..l - 1 : /\ calls[j].module \in On
                            /\ PlaceIn(stack, calls[j].module) < PlaceIn(stack, calls[l].module)
    BY <1>1, <1>5, <1>6, <1>8 DEF Chain, Called
  <2> QED BY <1>6, <1>7, <2>1
<1>10. index' = (IF l = 1 THEN 0 ELSE index) /\ phase' = (IF l = 1 THEN "idle" ELSE phase)
  BY <1>2, <1>5 DEF Leave
<1>11. ASSUME l = 1 PROVE On' = {} /\ stack' = <<>>
  <2>1. PlaceIn(stack, Top.module) = 1 /\ Top.index = 0 /\ ancestor[Top.module] <= Top.index
    BY <1>1, <1>2, <1>5, <1>6, <1>11 DEF Chain, Low, Called
  <2>2. ancestor[Top.module] \in Nat
    BY <1>1, <1>3 DEF TypeOK
  <2>3. \A n \in On : PlaceIn(stack, n) \in 1..Len(stack)
    BY <1>1, StackPlaces
  <2>4. On' = {}
    BY <1>7, <2>1, <2>2, <2>3
  <2>5. stack' \in Seq(Modules)
    BY <1>4 DEF Popped
  <2>6. PICK t : t = stack'
    OBVIOUS
  <2>7. t # <<>> <=> ToSet(t) # {}
    BY <1>3, <2>5, <2>6, ToSetMoves
  <2> QED BY <2>4, <2>6, <2>7 DEF On
<1>12. calls' = <<>> => l = 1
  BY <1>6, <1>7, EmptySeq
<1>13. Chain'
  <2>1. (calls # <<>> => PlaceIn(stack, Called(1)) = 1 /\ calls[1].index = 0)'
    <3>1. SUFFICES ASSUME calls' # <<>> PROVE (PlaceIn(stack, Called(1)) = 1 /\ calls[1].index = 0)'
      OBVIOUS
    <3>2. calls' \in Seq(Call)
      BY <1>4 DEF Popped
    <3>3. Len(calls') # 0
      BY <3>1, <3>2, EmptySeq
    <3>4. 1 \in 1..l - 1
      BY <1>6, <1>7, <3>3
    <3>5. PlaceIn(stack, calls[1].module) = 1 /\ calls[1].index = 0
      BY <1>1, <1>2 DEF Chain, Called
    <3> QED BY <1>9, <3>4, <3>5 DEF Called
  <2>2. ASSUME NEW j \in 1..l - 1
        PROVE  /\ calls'[j].module \in On' /\ calls'[j].index < index'
               /\ calls'[j].next \in 1..Len(Requests(calls'[j].module)) + 1
    <3>1. calls[j].index < index /\ calls[j].next \in 1..Len(Requests(calls[j].module)) + 1
      BY <1>1, <1>5, <1>8 DEF Chain, Called
    <3>2. l # 1
      BY <1>6
    <3>3. PICK c : c = calls[j] /\ c = calls'[j]
      BY <1>9
    <3> QED BY <1>9, <1>10, <3>1, <3>2, <3>3
  <2>3. ASSUME NEW j \in 1..l - 1, j < l - 1
        PROVE  /\ calls'[j].next \in 1..Len(Requests(calls'[j].module))
               /\ Requests(calls'[j].module)[calls'[j].next] = calls'[j + 1].module
    <3>1. j + 1 \in 1..l - 1
      BY <1>6, <2>3
    <3>2. /\ calls[j].next \in 1..Len(Requests(calls[j].module))
          /\ Requests(calls[j].module)[calls[j].next] = calls[j + 1].module
      BY <1>1, <1>5, <1>8, <2>3 DEF Chain, Called
    <3>3. PICK c : c = calls[j] /\ c = calls'[j]
      BY <1>9
    <3> QED BY <1>7, <3>1, <3>2, <3>3
  <2>4. ASSUME NEW j \in 1..l - 1, NEW k \in 1..l - 1, j < k
        PROVE  /\ PlaceIn(stack', calls'[j].module) < PlaceIn(stack', calls'[k].module)
               /\ calls'[j].index < calls'[k].index
    <3>1. PlaceIn(stack, calls[j].module) < PlaceIn(stack, calls[k].module) /\ calls[j].index < calls[k].index
      BY <1>1, <1>5, <1>8, <2>4 DEF Chain, Called
    <3> QED BY <1>9, <3>1
  <2> QED BY <1>7, <2>1, <2>2, <2>3, <2>4 DEF Chain, Called, Requests
<1>14. Low'
  <2>1. On' \subseteq On
    BY <1>7
  <2>2. ASSUME NEW n \in On' PROVE ancestor'[n] < index'
    <3>1. l # 1
      BY <1>11, <2>2
    <3> QED BY <1>1, <1>2, <1>10, <2>1, <3>1 DEF Low
  <2>3. ASSUME NEW n \in On', NEW j \in 1..l - 1, PlaceIn(stack', n) < PlaceIn(stack', calls'[j].module)
        PROVE  ancestor'[n] < calls'[j].index
    <3>1. PlaceIn(stack, n) < PlaceIn(stack, calls[j].module)
      BY <1>7, <1>9, <2>3
    <3> QED BY <1>1, <1>2, <1>5, <1>8, <1>9, <2>1, <3>1 DEF Low, Called
  <2>4. ASSUME NEW j \in 1..l - 1 PROVE ancestor'[calls'[j].module] <= calls'[j].index
    BY <1>1, <1>2, <1>5, <1>8, <1>9 DEF Low, Called
  <2> QED BY <1>7, <2>2, <2>3, <2>4 DEF Low, Called
<1>15. OnStatus'
  <2>1. Act' = Act \ {Top.module} /\ Top.module \in Act /\ Act' \subseteq On'
    <3>1. Act' = {calls'[j].module : j \in 1..l - 1}
      BY <1>7 DEF Act, Called
    <3>2. Act = {calls[j].module : j \in 1..l}
      BY <1>5 DEF Act, Called
    <3>3. \A j \in 1..l - 1 : calls[j].module # Top.module
      <4>1. PlaceIn(stack, Top.module) \in Nat
        BY <1>1, <1>3, StackPlaces
      <4> QED BY <1>9, <4>1
    <3> QED BY <1>6, <1>8, <1>9, <3>1, <3>2, <3>3
  <2>2. PICK m \in On : m = Top.module
    BY <1>3
  <2>3. CASE ancestor[m] = Top.index
    <3>1. Component(m) = {n \in On : PlaceIn(stack, m) <= PlaceIn(stack, n)}
      BY <1>1, ComponentIs
    <3>2. On' = {n \in On : PlaceIn(stack, n) < PlaceIn(stack, m)}
      BY <1>7, <2>2, <2>3
    <3>3. \A n \in On : PlaceIn(stack, n) \in Nat
      BY <1>1, StackPlaces
    <3>4. On' = On \ Component(m) /\ m \in Component(m) /\ Component(m) \subseteq On
      BY <3>1, <3>2, <3>3
    <3>5. \A n \in Modules :
            IF n \in Component(m)
              THEN status'[n] \in IF phase = "link" THEN {"linked"} ELSE {"evaluating-async", "evaluated"}
              ELSE status'[n] = IF phase = "link" /\ n = m THEN "prelinked" ELSE status[n]
      BY <2>2, <2>3 DEF Leaving
    <3>6. On' # {} => l # 1
      BY <1>11
    <3>7. On \subseteq Modules /\ phase \in {"link", "evaluate"}
      BY <1>1, <1>2, StackPlaces DEF Clean
    <3> QED BY <1>1, <1>10, <2>1, <2>2, <3>4, <3>5, <3>6, <3>7 DEF OnStatus
  <2>4. CASE ancestor[m] # Top.index
    <3>1. On' = On
      BY <1>7, <2>2, <2>4
    <3>2. \A n \in Modules : status'[n] = IF phase = "link" /\ n = m THEN "prelinked" ELSE status[n]
      BY <2>2, <2>4 DEF Leaving
    <3>3. l # 1
      BY <1>11, <2>2, <3>1
    <3>4. phase \in {"link", "evaluate"}
      BY <1>1, <1>2 DEF Clean
    <3> QED BY <1>1, <1>10, <2>1, <2>2, <3>1, <3>2, <3>3, <3>4 DEF OnStatus
  <2> QED BY <2>3, <2>4
<1> QED BY <1>4, <1>11, <1>12, <1>13, <1>14, <1>15

\* When the search is given up nothing is left of it.
LEMMA AbandoningKeeps ==
  ASSUME Base, Abandoning
  PROVE  Chain' /\ Low' /\ OnStatus' /\ On' = {}
<1>1. OnStatus /\ Clean /\ calls # <<>> /\ TypeOK
  BY DEF Base, Abandoning
<1>2. calls' = <<>> /\ stack' = <<>> /\ phase' = "idle"
  BY DEF Abandoning, Abandon
<1>3. Len(<<>>) = 0 /\ ToSet(<<>>) = {} /\ \A j \in 1..0 : FALSE
  BY DEF ToSet
<1>4. On' = {} /\ Len(calls') = 0
  BY <1>2, <1>3 DEF On
<1>5. Chain'
  BY <1>2, <1>3, <1>4 DEF Chain
<1>6. Low'
  BY <1>3, <1>4 DEF Low
<1>7. OnStatus'
  <2>1. \A n \in Modules : status'[n] = IF n \notin On THEN status[n]
                                        ELSE IF phase = "link" THEN "unlinked" ELSE "evaluated"
    BY DEF Abandoning
  <2>2. Act \subseteq On
    BY DEF Base, Chain, Act
  <2> QED BY <1>1, <1>2, <1>4, <2>1, <2>2 DEF OnStatus, Clean
<1> QED BY <1>4, <1>5, <1>6, <1>7

\* Between the searches nothing is on the stack.
LEMMA RestingKeeps ==
  ASSUME Base, UNCHANGED graph, Resting
  PROVE  Chain' /\ Low' /\ OnStatus' /\ On = {} /\ On' = {} /\ calls = <<>> /\ calls' = <<>>
<1>1. On = {} /\ Act = {} /\ calls = <<>>
  BY NothingOn DEF Resting
<1>2. calls' = calls /\ stack' = stack /\ index' = index /\ ancestor' = ancestor
  BY DEF Resting, search
<1>3. On' = {} /\ Act' = {}
  BY <1>1, <1>2 DEF On, Act, Called
<1>4. Chain /\ Low /\ OnStatus
  BY DEF Base
<1>5. Chain'
  BY <1>2, <1>4 DEF Chain, Called, On, Requests
<1>6. Low'
  BY <1>2, <1>4 DEF Low, Called, On
<1>7. OnStatus'
  <2>1. \A m \in Modules : status[m] \notin {"linking", "prelinked", "evaluating"}
    BY <1>1, <1>4 DEF OnStatus
  <2>2. \A n \in Modules :
          status'[n] # status[n] => status[n] = "evaluating-async" /\ status'[n] = "evaluated"
    BY DEF Resting
  <2>3. phase' \notin {"link", "evaluate"}
    BY DEF Resting
  <2> QED BY <1>3, <2>1, <2>2, <2>3 DEF OnStatus
<1> QED BY <1>1, <1>2, <1>3, <1>5, <1>6, <1>7

\* No action changes the program.
LEMMA GraphStays ==
  ASSUME Next
  PROVE  UNCHANGED graph
BY DEF Next, Linking, Evaluating, Settling, Host, Link, EnterLink, VisitLink, FailLink, FinishLink, Evaluate,
   EvaluateAgain, EnterEvaluation, VisitEvaluation, FailEvaluation, ExecuteSync, ExecuteAsync, Fulfill, Gather,
   SkipParent, RunReady, EndFulfill, Reject, RejectNext, EndReject

\* The phase goes with the activations.
LEMMA CleanKept ==
  ASSUME Base, Next, TypeOK'
  PROVE  Clean'
<1>1. TypeOK /\ Once(stack) /\ Chain /\ Clean
  BY DEF Base
<1>2. Kinds /\ UNCHANGED graph /\ (graph \in Graphs)'
  BY ActionKinds, GraphStays, TypesKept
<1>3. calls \in Seq(Call) /\ Len(calls) \in Nat /\ calls' \in Seq(Call)
  BY <1>1, LenProperties DEF TypeOK, Call
<1>4. SUFFICES /\ calls' # <<>> <=> phase' \in {"link", "evaluate"}
               /\ calls' = <<>> => stack' = <<>> /\ index' = 0
  BY JobsKept DEF Clean
<1>5. PICK c : c = calls'
  OBVIOUS
<1>6. c \in Seq(Call) /\ (c = <<>> <=> Len(c) = 0)
  BY <1>3, <1>5, EmptySeq
<1>7. ASSUME NEW r \in Modules, NEW p \in {"link", "evaluate"}, NEW s \in {"linking", "evaluating"},
             Entering(r, p, s)
      PROVE  c # <<>> /\ phase' \in {"link", "evaluate"}
  <2>1. Pushed(r) /\ phase' = p
    BY <1>2, <1>7, EnteringKeeps DEF Entering
  <2> QED BY <1>3, <1>5, <1>6, <2>1 DEF Pushed
<1>8. ASSUME NEW deps \in Nat, Visiting(deps)
      PROVE  c # <<>> /\ phase' \in {"link", "evaluate"}
  <2>1. Moved(deps) /\ calls # <<>> /\ phase' = phase
    BY <1>2, <1>8, VisitingKeeps DEF Visiting
  <2>2. Len(calls) # 0
    BY <1>3, <2>1, EmptySeq
  <2> QED BY <1>1, <1>5, <1>6, <2>1, <2>2 DEF Moved, Clean
<1>9. ASSUME Leaving
      PROVE  /\ c # <<>> <=> phase' \in {"link", "evaluate"}
             /\ c = <<>> => stack' = <<>> /\ index' = 0
  <2>1. Popped /\ (calls' = <<>> => stack' = <<>>)
    BY <1>2, <1>9, LeavingKeeps
  <2>2. /\ index' = IF Len(calls) = 1 THEN 0 ELSE index
        /\ phase' = IF Len(calls) = 1 THEN "idle" ELSE phase
        /\ calls # <<>>
    BY <1>9 DEF Leaving, Leave
  <2>3. Len(c) = Len(calls) - 1
    BY <1>5, <2>1 DEF Popped
  <2> QED BY <1>1, <1>3, <1>5, <1>6, <2>1, <2>2, <2>3 DEF Clean
<1>10. CASE Abandoning
  BY <1>10 DEF Abandoning, Abandon
<1>11. CASE Resting
  BY <1>1, <1>11 DEF Resting, Clean, search
<1> QED BY <1>2, <1>5, <1>7, <1>8, <1>9, <1>10, <1>11 DEF Kinds

\* The base is inductive.
LEMMA BaseInit ==
  ASSUME Init
  PROVE  Base
<1>1. \A g \in Graphs : g.requests \in [Modules -> Seq(Modules)]
  BY GraphAssumption
<1>2. <<>> \in Seq(Modules) /\ <<>> \in Seq(Call) /\ <<>> \in Seq({"pending", "fulfilled", "rejected"}) /\ Len(<<>>) = 0
  BY EmptySeq
<1>3. TypeOK
  BY <1>1, <1>2 DEF Init, TypeOK, Statuses, Call
<1>4. Once(stack) /\ Clean /\ On = {} /\ Act = {} /\ Len(calls) = 0 /\ \A j \in 1..0 : FALSE
  BY <1>2 DEF Init, Once, Clean, On, Act, ToSet
<1>5. Chain /\ Low
  BY <1>4 DEF Init, Chain, Low
<1>6. OnStatus
  BY <1>4 DEF Init, OnStatus
<1> QED BY <1>3, <1>4, <1>5, <1>6 DEF Base, Init

\* Every step of the two searches keeps the shape of the search.
LEMMA BaseNext ==
  ASSUME Base, [Next]_vars
  PROVE  Base'
<1>1. CASE Next
  <2>1. TypeOK' /\ (graph \in Graphs)' /\ Once(stack)' /\ Clean' /\ UNCHANGED graph /\ Kinds
    BY <1>1, TypesKept, CleanKept, GraphStays, ActionKinds
  <2>2. Chain' /\ Low' /\ OnStatus'
    <3>1. CASE \E r \in Modules, p \in {"link", "evaluate"}, s \in {"linking", "evaluating"} : Entering(r, p, s)
      BY <2>1, <3>1, EnteringKeeps
    <3>2. CASE \E deps \in Nat : Visiting(deps)
      BY <2>1, <3>2, VisitingKeeps
    <3>3. CASE Leaving
      BY <2>1, <3>3, LeavingKeeps
    <3>4. CASE Abandoning
      BY <3>4, AbandoningKeeps
    <3>5. CASE Resting
      BY <2>1, <3>5, RestingKeeps
    <3> QED BY <2>1, <3>1, <3>2, <3>3, <3>4, <3>5 DEF Kinds
  <2> QED BY <2>1, <2>2 DEF Base
<1>2. CASE UNCHANGED vars
  <2>1. /\ UNCHANGED <<graph, status, ancestor, root, failed, phase, calls, stack, index>>
        /\ UNCHANGED <<order, pending, parents, counter, running, started, threw, todo, execList, capability, promise>>
    BY <1>2 DEF vars, search, asyncs, bodies, jobs, promises
  <2>2. TypeOK' /\ (graph \in Graphs)' /\ Once(stack)' /\ Clean'
    BY <2>1 DEF Base, TypeOK, Clean
  <2>3. On' = On /\ Act' = Act
    BY <2>1 DEF On, Act, Called
  <2>4. Chain'
    BY <2>1, <2>3 DEF Base, Chain, Called, Requests
  <2>5. Low' /\ OnStatus'
    BY <2>1, <2>3 DEF Base, Low, OnStatus, Called
  <2> QED BY <2>2, <2>4, <2>5 DEF Base
<1> QED BY <1>1, <1>2

\* In every state the stack is that of one search: the modules on it are the ones
\* with a status of that search, in the order they were entered, and each
\* activation requires the next.
THEOREM SearchIsWellFormed == Spec => []Base
<1>1. Init => Base
  BY BaseInit
<1>2. Base /\ [Next]_vars => Base'
  BY BaseNext
<1> QED BY <1>1, <1>2, PTL DEF Spec

------------------------------------------------------------------------------
(* The outcome of a module and the promise of its capability.               *)

LinkStatuses == {"unlinked", "linking", "prelinked", "linked"}

\* The state of m's promise.
Outcome(m) == IF status[m] # "evaluated" THEN "pending" ELSE IF failed[m] THEN "rejected" ELSE "fulfilled"

\* Only what is evaluated has failed; a capability belongs to one module, which is
\* evaluated or being evaluated; and its promise has the module's outcome.
PromisesAgree ==
  /\ \A m \in Modules : status[m] # "evaluated" => ~ failed[m]
  /\ \A m \in Modules : status[m] \in LinkStatuses => capability[m] = 0
  /\ \A m, n \in Modules : capability[m] # 0 /\ capability[m] = capability[n] => m = n
  /\ \A m \in Modules : capability[m] # 0 => promise[capability[m]] = Outcome(m)

\* Of a search only the module that evaluate was called for has a capability.
OneCapability ==
  phase = "evaluate" => \A m \in On : m # Called(1) <=> capability[m] = 0

Capabilities == PromisesAgree /\ OneCapability

\* What is evaluated stays so, with the outcome it has.
Finals ==
  \A m \in Modules : status[m] = "evaluated" => status'[m] = "evaluated" /\ failed'[m] = failed[m]

\* Steps that give no module an outcome and no promise a new state.
Undecided ==
  /\ UNCHANGED <<failed, capability, promise>>
  /\ \A n \in Modules : \/ status'[n] = status[n]
                        \/ status[n] \in LinkStatuses /\ status'[n] \in LinkStatuses \cup {"evaluating"}

\* They keep the agreement.
LEMMA NoOutcome ==
  ASSUME TypeOK, PromisesAgree, Undecided
  PROVE  PromisesAgree' /\ Finals
<1> USE DEF Undecided
<1>1. \A n \in Modules : (status[n] = "evaluated" <=> status'[n] = "evaluated")
                         /\ (status'[n] \in LinkStatuses => status[n] \in LinkStatuses)
  BY DEF LinkStatuses
<1>2. \A n \in Modules : Outcome(n)' = Outcome(n)
  BY <1>1 DEF Outcome
<1> QED BY <1>1, <1>2 DEF PromisesAgree, Finals

\* Steps that give the modules of D the outcome s, while those of W begin to wait:
\* of D at most m has a capability, whose promise is settled with s.
Decided(D, W, m, s) ==
  /\ UNCHANGED capability
  /\ \A n \in D \cup W : n \in Modules /\ status[n] \notin LinkStatuses \cup {"evaluated"}
  /\ \A n \in Modules : status'[n] = IF n \in D THEN "evaluated"
                                     ELSE IF n \in W THEN "evaluating-async" ELSE status[n]
  /\ \A n \in Modules : failed'[n] = IF n \in D THEN s = "rejected" ELSE failed[n]
  /\ \A n \in D : n # m => capability[n] = 0
  /\ promise' = IF m \in D THEN Settled({capability[m]}, s) ELSE promise

\* They keep it as well.
LEMMA NewOutcomes ==
  ASSUME TypeOK, PromisesAgree, NEW D, NEW W, NEW m \in Modules, NEW s \in {"fulfilled", "rejected"},
         Decided(D, W, m, s)
  PROVE  PromisesAgree' /\ Finals
<1> USE DEF Decided
<1>1. /\ promise \in Seq(PromiseStates) /\ capability \in [Modules -> 0..Len(promise)]
      /\ failed \in [Modules -> BOOLEAN]
  BY DEF TypeOK, PromiseStates
<1>2. s \in PromiseStates
  BY DEF PromiseStates
<1>3. /\ Len(promise) \in Nat
      /\ \A i \in 1..Len(promise) : Settled({capability[m]}, s)[i] = IF i \in {capability[m]} THEN s ELSE promise[i]
  BY <1>2, SettledIs
<1>4. ASSUME NEW n \in Modules, capability[n] # 0 PROVE promise'[capability[n]] = Outcome(n)'
  <2>1. capability[n] \in 1..Len(promise)
    BY <1>1, <1>3, <1>4
  <2>2. promise[capability[n]] = Outcome(n)
    BY <1>4 DEF PromisesAgree
  <2>3. CASE n \in D
    <3>1. n = m /\ status'[n] = "evaluated" /\ failed'[n] = (s = "rejected")
      BY <1>4, <2>3
    <3> QED BY <1>3, <2>1, <2>3, <3>1 DEF Outcome
  <2>4. CASE n \notin D
    <3>1. Outcome(n)' = Outcome(n)
      BY <2>4 DEF Outcome
    <3>2. promise'[capability[n]] = promise[capability[n]]
      <4>1. m \in D => capability[n] # capability[m]
        BY <1>4, <2>4 DEF PromisesAgree
      <4> QED BY <1>3, <2>1, <4>1
    <3> QED BY <2>2, <3>1, <3>2
  <2> QED BY <2>3, <2>4
<1>5. \A n \in Modules : status'[n] # "evaluated" => ~ failed'[n]
  BY DEF PromisesAgree
<1>6. \A n \in Modules : status'[n] \in LinkStatuses => capability[n] = 0
  BY DEF PromisesAgree, LinkStatuses
<1>7. Finals
  BY DEF Finals
<1>8. \A n1, n2 \in Modules : capability'[n1] # 0 /\ capability'[n1] = capability'[n2] => n1 = n2
  BY DEF PromisesAgree
<1> QED BY <1>4, <1>5, <1>6, <1>7, <1>8 DEF PromisesAgree

\* Unwind decides the whole stack.
LEMMA UnwindDecides ==
  ASSUME Base, Capabilities, phase = "evaluate", Unwind, UNCHANGED capability
  PROVE  Decided(On, {}, Called(1), "rejected") /\ Called(1) \in Modules
<1>1. TypeOK /\ OnStatus /\ Chain /\ Clean
  BY DEF Base
<1>2. calls # <<>>
  BY <1>1 DEF Clean
<1>3. /\ calls \in Seq(Call) /\ 1 \in 1..Len(calls)
  BY <1>1, <1>2, EmptySeq DEF TypeOK, Call
<1>4. Head(calls).module = Called(1) /\ Called(1) \in On /\ On \subseteq Modules
  <2>1. Head(calls) = calls[1]
    BY <1>2, <1>3
  <2>2. Called(1) \in On
    BY <1>1, <1>3 DEF Chain
  <2>3. On \subseteq Modules
    BY StackPlaces DEF Base
  <2> QED BY <2>1, <2>2, <2>3 DEF Called
<1>5. \A n \in On : status[n] = "evaluating"
  BY <1>1, <1>4 DEF OnStatus
<1>6. failed \in [Modules -> BOOLEAN] /\ \A n \in On : ~ failed[n]
  BY <1>1, <1>4, <1>5 DEF TypeOK, Capabilities, PromisesAgree
<1>7. promise' = Settled({capability[Called(1)]}, "rejected")
  BY <1>4 DEF Unwind
<1>8. /\ \A m \in Modules : status'[m] = IF m \in On THEN "evaluated" ELSE status[m]
      /\ \A m \in Modules : failed'[m] = (m \in On \/ failed[m])
  BY DEF Unwind, On
<1> QED BY <1>4, <1>5, <1>6, <1>7, <1>8 DEF Decided, Capabilities, OneCapability, LinkStatuses

\* Return decides a component, or lets it wait.
LEMMA ReturnDecides ==
  ASSUME Base, Capabilities, Searching("evaluate"), NEW ord, Return(Top.module, ord), UNCHANGED <<capability, failed>>
  PROVE  \E D, W : Decided(D, W, Called(1), "fulfilled") /\ Called(1) \in Modules
<1>1. TypeOK /\ OnStatus /\ Chain /\ Low /\ Once(stack) /\ calls # <<>> /\ phase = "evaluate"
  BY DEF Base, Searching
<1>2. Top.module \in On /\ On \subseteq Modules
  BY <1>1, RequiredIs, StackPlaces
<1>3. PICK m, l : m = Top.module /\ l = Len(calls)
  OBVIOUS
<1>4. PICK done : done = IF ancestor[m] = Top.index THEN Component(m) ELSE {}
  OBVIOUS
<1>5. PICK W : W = {n \in done : ord[n] # 0}
  OBVIOUS
<1>6. /\ \A n \in Modules : status'[n] = IF n \in W THEN "evaluating-async"
                                         ELSE IF n \in done THEN "evaluated" ELSE status[n]
      /\ promise' = IF l = 1 /\ m \notin W THEN Settled({capability[m]}, "fulfilled") ELSE promise
  BY <1>3, <1>4, <1>5 DEF Return
<1>7. /\ Component(m) = {n \in On : PlaceIn(stack, m) <= PlaceIn(stack, n)}
      /\ \A n \in On : PlaceIn(stack, n) \in Nat
  BY <1>1, <1>2, <1>3, ComponentIs, StackPlaces
<1>8. /\ l \in Nat \ {0} /\ Called(l) = m /\ 1 \in 1..l /\ l \in 1..l /\ Top = calls[l]
  BY <1>1, <1>3, TopIs
<1>9. Called(1) \in On /\ PlaceIn(stack, Called(1)) = 1 /\ calls[1].index = 0
  BY <1>1, <1>3, <1>8 DEF Chain
<1>10. l # 1 => PlaceIn(stack, Called(1)) < PlaceIn(stack, m) /\ Called(1) \notin Component(m)
  BY <1>1, <1>2, <1>3, <1>7, <1>8, <1>9 DEF Chain
<1>11. l = 1 => m \in done
  <2>1. SUFFICES ASSUME l = 1 PROVE m \in done
    OBVIOUS
  <2>2. ancestor[m] <= 0 /\ Top.index = 0 /\ ancestor[m] \in Nat
    BY <1>1, <1>2, <1>3, <1>8, <1>9, <2>1 DEF Low, TypeOK
  <2> QED BY <1>2, <1>3, <1>4, <1>7, <2>2
<1>12. \A n \in On : status[n] = "evaluating" /\ ~ failed[n]
  BY <1>1, <1>2 DEF OnStatus, Capabilities, PromisesAgree
<1>13. done \subseteq On
  BY <1>4, <1>7
<1>14. PICK D : D = done \ W
  OBVIOUS
<1>15. Called(1) \in D <=> l = 1 /\ m \notin W
  BY <1>4, <1>8, <1>10, <1>11, <1>14
<1>16. \A n \in D : n # Called(1) => capability[n] = 0
  BY <1>1, <1>13, <1>14 DEF Capabilities, OneCapability
<1>17. failed \in [Modules -> BOOLEAN] /\ failed' = failed
  BY <1>1 DEF TypeOK
<1>18. promise' = IF Called(1) \in D THEN Settled({capability[Called(1)]}, "fulfilled") ELSE promise
  BY <1>6, <1>8, <1>15
<1>19. Decided(D, W, Called(1), "fulfilled")
  BY <1>2, <1>5, <1>6, <1>12, <1>13, <1>14, <1>16, <1>17, <1>18 DEF Decided, LinkStatuses
<1> QED BY <1>2, <1>9, <1>19

\* Complete decides one module.
LEMMA CompleteDecides ==
  ASSUME TypeOK, PromisesAgree, NEW m \in Modules, status[m] = "evaluating-async", Complete(m),
         UNCHANGED <<capability, failed>>
  PROVE  Decided({m}, {}, m, "fulfilled")
<1>1. status \in [Modules -> Statuses] /\ failed \in [Modules -> BOOLEAN] /\ ~ failed[m]
  BY DEF TypeOK, PromisesAgree
<1> QED BY <1>1 DEF Decided, Complete, LinkStatuses

\* A new capability is that of the module evaluate was called for.
LEMMA EvaluateAgrees ==
  ASSUME Base, PromisesAgree, NEW m \in Modules, Evaluate(m)
  PROVE  PromisesAgree' /\ Finals
<1>1. TypeOK /\ capability \in [Modules -> 0..Len(promise)] /\ promise \in Seq(PromiseStates)
      /\ status \in [Modules -> Statuses] /\ Len(promise) \in Nat
  BY LenProperties DEF Base, TypeOK, PromiseStates
<1>2. /\ status[m] = "linked" /\ status' = [status EXCEPT ![m] = "evaluating"] /\ failed' = failed
      /\ promise' = Append(promise, "pending")
      /\ capability' = [capability EXCEPT ![m] = Len(promise) + 1]
  BY DEF Evaluate, Enter
<1>3. PICK k, t : k = Len(promise) + 1 /\ t = promise'
  OBVIOUS
<1>4. t[k] = "pending" /\ \A i \in 1..Len(promise) : t[i] = promise[i]
  <2>1. "pending" \in PromiseStates
    BY DEF PromiseStates
  <2> QED BY <1>1, <1>2, <1>3, <2>1, AppendProperties
<1>5. /\ \A n \in Modules : status'[n] = IF n = m THEN "evaluating" ELSE status[n]
      /\ \A n \in Modules : capability'[n] = IF n = m THEN k ELSE capability[n]
  BY <1>1, <1>2, <1>3
<1>6. \A n \in Modules : capability[n] # k /\ (capability[n] # 0 => capability[n] \in 1..Len(promise))
  BY <1>1, <1>3
<1>7. k # 0
  BY <1>1, <1>3
<1>8. \A n \in Modules : n # m => Outcome(n)' = Outcome(n)
  BY <1>2, <1>5 DEF Outcome
<1>9. Outcome(m)' = "pending"
  BY <1>5 DEF Outcome
<1>10. ASSUME NEW n \in Modules, capability'[n] # 0 PROVE promise'[capability'[n]] = Outcome(n)'
  <2>1. CASE n = m
    BY <1>3, <1>4, <1>5, <1>9, <2>1
  <2>2. CASE n # m
    <3>1. promise[capability[n]] = Outcome(n)
      BY <1>5, <1>10, <2>2 DEF PromisesAgree
    <3> QED BY <1>3, <1>4, <1>5, <1>6, <1>8, <1>10, <2>2, <3>1
  <2> QED BY <2>1, <2>2
<1>11. \A n \in Modules : status'[n] # "evaluated" => ~ failed'[n]
  BY <1>2, <1>5 DEF PromisesAgree
<1>12. \A n \in Modules : status'[n] \in LinkStatuses => capability'[n] = 0
  BY <1>5 DEF PromisesAgree, LinkStatuses
<1>13. \A n1, n2 \in Modules : capability'[n1] # 0 /\ capability'[n1] = capability'[n2] => n1 = n2
  BY <1>5, <1>6, <1>7 DEF PromisesAgree
<1>14. Finals
  BY <1>2, <1>5 DEF Finals
<1> QED BY <1>10, <1>11, <1>12, <1>13, <1>14 DEF PromisesAgree

\* A promise without a capability changes nothing.
LEMMA EvaluateAgainAgrees ==
  ASSUME Base, PromisesAgree, NEW m \in Modules, EvaluateAgain(m)
  PROVE  PromisesAgree' /\ Finals
<1>1. /\ capability \in [Modules -> 0..Len(promise)] /\ promise \in Seq(PromiseStates) /\ Len(promise) \in Nat
  BY LenProperties DEF Base, TypeOK, PromiseStates
<1>2. PICK s, t : t = Append(promise, s) /\ s \in PromiseStates /\ t = promise'
  <2>1. PICK s : s = IF status[root[m]] = "evaluating-async" THEN "pending"
                     ELSE IF failed[root[m]] THEN "rejected" ELSE "fulfilled"
    OBVIOUS
  <2>2. s \in PromiseStates /\ promise' = Append(promise, s)
    BY <2>1 DEF EvaluateAgain, PromiseStates
  <2> QED BY <2>2
<1>3. \A i \in 1..Len(promise) : t[i] = promise[i]
  <2>1. \A i \in 1..Len(promise) : Append(promise, s)[i] = promise[i]
    BY <1>1, <1>2, AppendProperties
  <2> QED BY <1>2, <2>1
<1>4. UNCHANGED <<status, failed, capability>>
  BY DEF EvaluateAgain
<1>5. \A n \in Modules : capability[n] # 0 => capability[n] \in 1..Len(promise)
  BY <1>1
<1>6. \A n \in Modules : Outcome(n)' = Outcome(n)
  BY <1>4 DEF Outcome
<1> QED BY <1>2, <1>3, <1>4, <1>5, <1>6 DEF PromisesAgree, Finals

\* Every step keeps the agreement, and what is evaluated as it is.
LEMMA AgreementKept ==
  ASSUME Base, Capabilities, Next
  PROVE  PromisesAgree' /\ Finals
<1>1. TypeOK /\ OnStatus /\ PromisesAgree /\ Chain /\ Once(stack) /\ Clean
  BY DEF Base, Capabilities
<1>2. status \in [Modules -> Statuses] /\ failed \in [Modules -> BOOLEAN]
  BY <1>1 DEF TypeOK
<1>3. CASE EnterLink \/ VisitLink \/ \E m \in Modules : Link(m)
  <2>1. Undecided
    BY <1>2, <1>3 DEF EnterLink, VisitLink, Link, Enter, Undecided, LinkStatuses, promises
  <2> QED BY <1>1, <2>1, NoOutcome
<1>4. CASE FailLink
  <2>1. \A m \in Modules : m \in On => status[m] \in LinkStatuses
    BY <1>4 DEF FailLink, On, LinkStatuses
  <2>2. Undecided
    BY <1>2, <1>4, <2>1 DEF FailLink, Undecided, LinkStatuses, promises, On
  <2> QED BY <1>1, <2>2, NoOutcome
<1>5. CASE FinishLink
  <2>1. /\ \A m \in On : status[m] \in LinkStatuses
        /\ Top.module \in On
    <3>1. phase = "link" /\ calls # <<>>
      BY <1>5 DEF FinishLink, Searching
    <3>2. On \subseteq Modules
      BY <1>1, StackPlaces
    <3> QED BY <1>1, <3>1, <3>2, RequiredIs DEF OnStatus, LinkStatuses
  <2>2. Component(Top.module) \subseteq On
    BY <1>1, <2>1, ComponentIs
  <2>3. Undecided
    BY <1>2, <1>5, <2>1, <2>2 DEF FinishLink, Undecided, LinkStatuses, promises
  <2> QED BY <1>1, <2>3, NoOutcome
<1>6. CASE EnterEvaluation \/ VisitEvaluation
  <2>1. Undecided
    BY <1>2, <1>6 DEF EnterEvaluation, VisitEvaluation, Enter, Undecided, LinkStatuses, promises
  <2> QED BY <1>1, <2>1, NoOutcome
<1>7. ASSUME Searching("evaluate"), Unwind, UNCHANGED capability
      PROVE  PromisesAgree' /\ Finals
  <2>1. Decided(On, {}, Called(1), "rejected") /\ Called(1) \in Modules
    BY <1>7, UnwindDecides DEF Searching
  <2> QED BY <1>1, <2>1, NewOutcomes
<1>8. ASSUME Searching("evaluate"), NEW ord, Return(Top.module, ord), UNCHANGED <<capability, failed>>
      PROVE  PromisesAgree' /\ Finals
  <2>1. PICK D, W : Decided(D, W, Called(1), "fulfilled") /\ Called(1) \in Modules
    BY <1>8, ReturnDecides
  <2> QED BY <1>1, <2>1, NewOutcomes
<1>9. CASE FailEvaluation
  BY <1>7, <1>9 DEF FailEvaluation
<1>10. CASE ExecuteSync
  BY <1>7, <1>8, <1>10 DEF ExecuteSync
<1>11. CASE ExecuteAsync
  BY <1>8, <1>11 DEF ExecuteAsync
<1>12. ASSUME NEW m \in Modules, status[m] = "evaluating-async", Complete(m), UNCHANGED <<capability, failed>>
       PROVE  PromisesAgree' /\ Finals
  BY <1>1, <1>12, CompleteDecides, NewOutcomes
<1>13. ASSUME UNCHANGED <<status, failed, capability, promise>>
       PROVE  PromisesAgree' /\ Finals
  <2>1. Undecided
    BY <1>13 DEF Undecided
  <2> QED BY <1>1, <2>1, NoOutcome
<1>14. CASE \E m \in Modules : Fulfill(m)
  BY <1>12, <1>13, <1>14 DEF Fulfill
<1>15. CASE \E m \in Modules : RunReady(m)
  BY <1>12, <1>13, <1>15 DEF RunReady
<1>16. CASE Gather \/ SkipParent \/ EndFulfill \/ EndReject \/ \E m \in Modules : Reject(m)
  BY <1>13, <1>16 DEF Gather, SkipParent, EndFulfill, EndReject, Reject, promises
<1>17. CASE RejectNext
  <2>1. PICK p : p = Head(todo)
    OBVIOUS
  <2>2. p \in Modules
    BY <1>1, <1>17, <2>1, ListTypes DEF RejectNext
  <2>3. CASE status[p] = "evaluated"
    BY <1>13, <1>17, <2>1, <2>3 DEF RejectNext
  <2>4. CASE status[p] # "evaluated"
    <3>1. Decided({p}, {}, p, "rejected")
      BY <1>2, <1>17, <2>1, <2>2, <2>4 DEF RejectNext, Decided, LinkStatuses
    <3> QED BY <1>1, <2>2, <3>1, NewOutcomes
  <2> QED BY <2>3, <2>4
<1>18. CASE \E m \in Modules : Evaluate(m) \/ EvaluateAgain(m)
  BY <1>1, <1>18, EvaluateAgrees, EvaluateAgainAgrees
<1> QED BY <1>3, <1>4, <1>5, <1>6, <1>9, <1>10, <1>11, <1>14, <1>15, <1>16, <1>17, <1>18
        DEF Next, Linking, Evaluating, Settling, Host

\* Evaluate gives its module the capability, and no search gives another.
LEMMA OneCapabilityKept ==
  ASSUME Base, Capabilities, Next
  PROVE  OneCapability'
<1>1. TypeOK /\ PromisesAgree /\ OneCapability /\ Chain /\ Clean
  BY DEF Base, Capabilities
<1>2. Kinds /\ UNCHANGED graph /\ TypeOK' /\ (graph \in Graphs)'
  BY ActionKinds, GraphStays, TypesKept
<1>3. SUFFICES ASSUME phase' = "evaluate"
               PROVE  \A m \in On' : m # calls'[1].module <=> capability'[m] = 0
  BY DEF OneCapability, Called
<1>4. calls \in Seq(Call) /\ (calls = <<>> <=> Len(calls) = 0) /\ Len(calls) \in Nat
  BY <1>1, EmptySeq, LenProperties DEF TypeOK, Call
<1>5. (\E m \in Modules : Evaluate(m)) \/ UNCHANGED capability
  BY DEF Next, Linking, Evaluating, Settling, Host, Link, EnterLink, VisitLink, FailLink, FinishLink,
     EvaluateAgain, EnterEvaluation, VisitEvaluation, FailEvaluation, ExecuteSync, ExecuteAsync, Fulfill, Gather,
     SkipParent, RunReady, EndFulfill, Reject, RejectNext, EndReject, promises
<1>6. CASE \E m \in Modules : Evaluate(m)
  <2>1. PICK m \in Modules : Evaluate(m)
    BY <1>6
  <2>2. Entering(m, "evaluate", "evaluating") /\ phase = "idle"
    BY <2>1 DEF Evaluate, Entering
  <2>3. Pushed(m)
    BY <1>2, <2>2, EnteringKeeps
  <2>4. On = {} /\ Len(calls) = 0
    BY <1>4, <2>2, NothingOn
  <2>5. On' = {m} /\ calls'[1].module = m
    BY <2>3, <2>4 DEF Pushed
  <2>6. capability'[m] # 0
    <3>1. capability \in [Modules -> 0..Len(promise)] /\ Len(promise) \in Nat
      BY <1>1, LenProperties DEF TypeOK
    <3> QED BY <2>1, <3>1 DEF Evaluate
  <2> QED BY <2>5, <2>6
<1>7. ASSUME UNCHANGED capability, phase = "evaluate", On' \subseteq On, calls'[1].module = calls[1].module
      PROVE  \A m \in On' : m # calls'[1].module <=> capability'[m] = 0
  BY <1>1, <1>7 DEF OneCapability, Called
<1>8. ASSUME UNCHANGED capability, NEW r \in Modules, NEW p \in {"link", "evaluate"},
             NEW s \in {"linking", "evaluating"}, Entering(r, p, s), phase # "idle"
      PROVE  \A m \in On' : m # calls'[1].module <=> capability'[m] = 0
  <2>1. Pushed(r) /\ r \notin On
    BY <1>2, <1>8, EnteringKeeps
  <2>2. phase = "evaluate" /\ status[r] = "linked" /\ calls # <<>>
    BY <1>3, <1>8 DEF Entering
  <2>3. 1 \in 1..Len(calls)
    BY <1>4, <2>2
  <2>4. calls'[1] = calls[1] /\ On' = On \cup {r}
    BY <2>1, <2>3 DEF Pushed
  <2>5. capability[r] = 0
    BY <1>1, <2>2 DEF PromisesAgree, LinkStatuses
  <2>6. calls[1].module \in On
    BY <1>1, <2>3 DEF Chain, Called
  <2> QED BY <1>1, <1>8, <2>1, <2>2, <2>4, <2>5, <2>6 DEF OneCapability, Called
<1>9. ASSUME UNCHANGED capability, NEW r \in Modules, NEW p \in {"link", "evaluate"},
             NEW s \in {"linking", "evaluating"}, Entering(r, p, s), phase = "idle"
      PROVE  \E m \in Modules : Evaluate(m)
  <2>1. p = "evaluate" /\ status[r] = "linked"
    BY <1>3, <1>9 DEF Entering
  <2>2. calls = <<>>
    BY <1>9, NothingOn
  <2>3. ~ Linking /\ ~ Evaluating /\ ~ Settling
    BY <1>9, <2>2 DEF Linking, Evaluating, Settling, EnterLink, VisitLink, FailLink, FinishLink, EnterEvaluation,
       VisitEvaluation, FailEvaluation, ExecuteSync, ExecuteAsync, Gather, SkipParent, RunReady, EndFulfill,
       RejectNext, EndReject, Searching
  <2> QED BY <1>3, <1>9, <2>3 DEF Next, Host, Link, Fulfill, Reject, EvaluateAgain
<1>10. ASSUME UNCHANGED capability, NEW deps \in Nat, Visiting(deps)
       PROVE  \A m \in On' : m # calls'[1].module <=> capability'[m] = 0
  <2>1. Moved(deps) /\ phase = "evaluate" /\ calls # <<>>
    BY <1>2, <1>3, <1>10, VisitingKeeps DEF Visiting
  <2>2. 1 \in 1..Len(calls)
    BY <1>4, <2>1
  <2> QED BY <1>7, <1>10, <2>1, <2>2 DEF Moved
<1>11. ASSUME UNCHANGED capability, Leaving
       PROVE  \A m \in On' : m # calls'[1].module <=> capability'[m] = 0
  <2>1. Popped /\ calls # <<>>
    BY <1>2, <1>11, LeavingKeeps DEF Leaving
  <2>2. phase = "evaluate" /\ Len(calls) # 1
    BY <1>3, <1>11 DEF Leaving, Leave
  <2>3. 1 \in 1..Len(calls) - 1
    <3>1. PICK l : l = Len(calls)
      OBVIOUS
    <3>2. l \in Nat /\ l # 0 /\ l # 1
      BY <1>4, <2>1, <2>2, <3>1
    <3>3. 1 \in 1..l - 1
      BY ONLY <3>2
    <3> QED BY <3>1, <3>3
  <2>4. calls'[1] = calls[1] /\ On' \subseteq On
    BY <2>1, <2>3 DEF Popped
  <2> QED BY <1>7, <1>11, <2>2, <2>4
<1>12. ~ Abandoning /\ ~ Resting
  BY <1>3 DEF Abandoning, Abandon, Resting
<1> QED BY <1>2, <1>5, <1>6, <1>8, <1>9, <1>10, <1>11, <1>12 DEF Kinds

\* At first there is no capability.
LEMMA CapabilitiesInit ==
  ASSUME Init
  PROVE  Capabilities
BY DEF Init, Capabilities, PromisesAgree, OneCapability

\* Every step keeps promises and outcomes in agreement, and outcomes final.
LEMMA CapabilitiesNext ==
  ASSUME Base, Capabilities, [Next]_vars
  PROVE  Capabilities' /\ [Finals]_vars
<1>1. CASE Next
  BY <1>1, AgreementKept, OneCapabilityKept DEF Capabilities
<1>2. CASE UNCHANGED vars
  <2>1. UNCHANGED <<status, failed, phase, calls, stack, capability, promise>>
    BY <1>2 DEF vars, search, promises
  <2> QED BY <1>2, <2>1 DEF Capabilities, PromisesAgree, OneCapability, Outcome, On, Called
<1> QED BY <1>1, <1>2

\* An outcome, once a module has one, is final; and a promise has, at every time,
\* the outcome of the module it is the capability of.
THEOREM OutcomesAreFinal ==
  /\ Spec => []PromisesAgree
  /\ Spec => [][Finals]_vars
<1>1. Init => Base
  BY BaseInit
<1>2. Base /\ [Next]_vars => Base'
  BY BaseNext
<1>3. Init => Capabilities
  BY CapabilitiesInit
<1>4. Base /\ Capabilities /\ [Next]_vars => Capabilities' /\ [Finals]_vars
  BY CapabilitiesNext
<1>5. Capabilities => PromisesAgree
  BY DEF Capabilities
<1> QED BY <1>1, <1>2, <1>3, <1>4, <1>5, PTL DEF Spec

------------------------------------------------------------------------------
(* Linking.  What follows is about graphs in which the cycles, and all that *)
(* they import, can be linked.                                              *)

\* A choice of what has the cycles, and where there is one, of what waits for nothing.
Cyclic == IF CyclesRest(graph)
            THEN CHOOSE C \in SUBSET Modules : CyclesIn(graph, C) /\ \E S \in SUBSET Modules : SyncIn(graph, C, S)
            ELSE CHOOSE C \in SUBSET Modules : CyclesIn(graph, C)

\* What is not in Cyclic is on the stack only while it is activated, and is the
\* root of its component.  Of Cyclic nothing is on the stack but what was pushed
\* by the first activation of Cyclic and those it has led to.
CalmSearch ==
  /\ CyclesIn(graph, Cyclic)
  /\ On \ Cyclic \subseteq Act
  /\ \A j \in 1..Len(calls) : Called(j) \notin Cyclic => ancestor[Called(j)] = calls[j].index
  /\ \A j \in 1..Len(calls), n \in On \cap Cyclic :
       j = Len(calls) => Called(j) \in Cyclic
  /\ \A j \in 1..Len(calls), n \in On \cap Cyclic :
       Called(j) \in Cyclic /\ (j = 1 \/ Called(j - 1) \notin Cyclic)
         => PlaceIn(stack, Called(j)) <= PlaceIn(stack, n) /\ calls[j].index <= ancestor[n]

\* Where the cycles can be linked, Cyclic has them.
LEMMA CyclicIs ==
  ASSUME CyclesLink(graph)
  PROVE  CyclesIn(graph, Cyclic)
<1>1. \E C \in SUBSET Modules : CyclesIn(graph, C)
  BY DEF CyclesLink
<1>2. CyclesRest(graph) => \E C \in SUBSET Modules : CyclesIn(graph, C) /\ \E S \in SUBSET Modules : SyncIn(graph, C, S)
  BY DEF CyclesRest
<1> QED BY <1>1, <1>2 DEF Cyclic

\* What is in Cyclic requests only what is.
LEMMA CyclicClosed ==
  ASSUME TypeOK, CyclesIn(graph, Cyclic)
  PROVE  \A m \in Cyclic : \A i \in 1..Len(Requests(m)) : Requests(m)[i] \in Cyclic
<1>1. ASSUME NEW m \in Cyclic, NEW i \in 1..Len(Requests(m)) PROVE Requests(m)[i] \in Cyclic
  <2>1. m \in Modules
    BY DEF CyclesIn, Closed
  <2>2. Requests(m) \in Seq(Modules) /\ Requests(m) = graph.requests[m]
    BY <2>1 DEF TypeOK, Requests
  <2>3. Requests(m)[i] \in ToSet(Requests(m))
    BY <2>2, ToSetFacts
  <2> QED BY <2>2, <2>3 DEF CyclesIn, Closed
<1> QED BY <1>1

\* Outside of Cyclic a module requires nothing that is on the stack but itself.
LEMMA RequiresItself ==
  ASSUME Base, CalmSearch, calls # <<>>, HasNext, Top.module \notin Cyclic, Required \in On
  PROVE  Required = Top.module
<1>1. TypeOK /\ Chain /\ Once(stack)
  BY DEF Base
<1>2. PICK l, m, r : l = Len(calls) /\ m = Top.module /\ r = Required
  OBVIOUS
<1>3. l \in Nat \ {0} /\ Top = calls[l] /\ m = Called(l) /\ l \in 1..l
  BY <1>1, <1>2, TopIs
<1>4. m \notin Cyclic /\ r \in On
  BY <1>2
<1>5. On \cap Cyclic = {}
  BY <1>2, <1>3, <1>4 DEF CalmSearch
<1>6. PICK j \in 1..l : r = Called(j)
  BY <1>2, <1>4, <1>5 DEF CalmSearch, Act
<1>7. PICK S : S = {Called(k) : k \in j..l}
  OBVIOUS
<1>8. \A k \in j..l : k \in 1..l /\ Called(k) \in On /\ PlaceIn(stack, Called(k)) \in Nat
  <2>1. \A k \in j..l : k \in 1..l
    BY <1>3, <1>6
  <2>2. \A n \in On : PlaceIn(stack, n) \in Nat
    BY <1>1, StackPlaces
  <2> QED BY <1>1, <1>2, <2>1, <2>2 DEF Chain
<1>9. S # {} /\ S \subseteq Modules \ Cyclic
  <2>1. On \subseteq Modules /\ j \in j..l
    BY <1>1, <1>3, <1>6, StackPlaces
  <2> QED BY <1>5, <1>7, <1>8, <2>1
<1>10. PICK x \in S : ToSet(graph.requests[x]) \cap S \subseteq {x}
  BY <1>9 DEF CalmSearch, CyclesIn
<1>11. PICK k \in j..l : x = Called(k)
  BY <1>7, <1>10
<1>12. x \in Modules /\ Requests(x) \in Seq(Modules) /\ Requests(x) = graph.requests[x]
  BY <1>1, <1>9, <1>10 DEF TypeOK, Requests
<1>13. \A i \in 1..Len(Requests(x)) : Requests(x)[i] \in ToSet(graph.requests[x])
  BY <1>12, ToSetFacts
<1>14. CASE k = l
  <2>1. Top.next \in 1..Len(Requests(m)) /\ r = Requests(m)[Top.next]
    BY <1>1, <1>2, RequiredIs DEF Required
  <2>2. r \in S
    BY <1>3, <1>6, <1>7
  <2> QED BY <1>2, <1>3, <1>10, <1>11, <1>13, <1>14, <2>1, <2>2
<1>15. CASE k # l
  <2>1. k \in 1..l /\ k < l /\ k + 1 \in j..l /\ k < k + 1
    BY <1>3, <1>6, <1>15
  <2>2. calls[k].next \in 1..Len(Requests(x)) /\ Requests(x)[calls[k].next] = Called(k + 1)
    BY <1>1, <1>2, <1>11, <2>1 DEF Chain
  <2>3. Called(k + 1) = x
    BY <1>7, <1>10, <1>13, <2>1, <2>2
  <2>4. PlaceIn(stack, Called(k)) < PlaceIn(stack, Called(k + 1))
    BY <1>1, <1>2, <1>8, <2>1 DEF Chain
  <2> QED BY <1>8, <1>11, <2>1, <2>3, <2>4
<1> QED BY <1>14, <1>15

\* Cyclic is the same all the time.
LEMMA CyclicStays ==
  ASSUME UNCHANGED graph
  PROVE  Cyclic' = Cyclic /\ (CyclesIn(graph, Cyclic)' <=> CyclesIn(graph, Cyclic))
BY DEF Cyclic, CyclesIn, Closed, CyclesRest, SyncIn

\* A new activation is of Cyclic when the one that requires it is.
LEMMA CalmEntering ==
  ASSUME Base, UNCHANGED graph, (graph \in Graphs)', CalmSearch,
         NEW r \in Modules, NEW p \in {"link", "evaluate"}, NEW s \in {"linking", "evaluating"}, Entering(r, p, s)
  PROVE  CalmSearch'
<1>1. TypeOK /\ Once(stack) /\ Chain /\ Clean
  BY DEF Base
<1>2. Pushed(r) /\ r \notin On
  BY EnteringKeeps
<1>3. PICK l : l = Len(calls)
  OBVIOUS
<1>4. /\ l \in Nat /\ Len(calls') = l + 1
      /\ \A j \in 1..l : calls'[j] = calls[j] /\ j \in 1..Len(calls) /\ j # l + 1
      /\ calls'[l + 1].module = r /\ calls'[l + 1].index = index
      /\ (l = 0 <=> calls = <<>>)
  <2>1. calls \in Seq(Call)
    BY <1>1 DEF TypeOK, Call
  <2>2. Len(calls) \in Nat /\ (Len(calls) = 0 <=> calls = <<>>)
    BY <2>1, EmptySeq, LenProperties
  <2> QED BY <1>2, <1>3, <2>2 DEF Pushed
<1>5. \A n \in On : n # r /\ n \in Modules
  BY <1>1, <1>2, StackPlaces
<1>6. /\ ancestor'[r] = index /\ \A n \in On : ancestor'[n] = ancestor[n]
      /\ index \in Nat
  <2>1. ancestor \in [Modules -> Nat] /\ index \in Nat
    BY <1>1 DEF TypeOK
  <2> QED BY <1>5, <2>1 DEF Entering, Enter
<1>7. Cyclic' = Cyclic /\ CyclesIn(graph, Cyclic)'
  BY CyclicStays DEF CalmSearch
<1>8. On' = On \cup {r} /\ Act' = Act \cup {r}
  <2>1. 1..l + 1 = 1..l \cup {l + 1}
    BY <1>4
  <2>2. \A j \in 1..l : Called(j)' = Called(j)
    BY <1>4 DEF Called
  <2>3. Called(l + 1)' = r
    BY <1>4 DEF Called
  <2>4. Act' = {Called(j)' : j \in 1..l + 1}
    BY <1>4 DEF Act
  <2>5. Act' = Act \cup {r}
    BY <1>3, <2>1, <2>2, <2>3, <2>4 DEF Act
  <2> QED BY <1>2, <2>5 DEF Pushed
<1>9. (On \ Cyclic \subseteq Act)'
  BY <1>7, <1>8 DEF CalmSearch
<1>10. ASSUME NEW j \in 1..l + 1, calls'[j].module \notin Cyclic
       PROVE  ancestor'[calls'[j].module] = calls'[j].index
  <2>1. CASE j = l + 1
    BY <1>4, <1>6, <2>1
  <2>2. CASE j # l + 1
    <3>1. j \in 1..l
      BY <1>4, <2>2
    <3>2. Called(j) \in On /\ calls'[j] = calls[j]
      BY <1>1, <1>3, <1>4, <3>1 DEF Chain
    <3> QED BY <1>3, <1>6, <1>10, <3>1, <3>2 DEF CalmSearch, Called
  <2> QED BY <2>1, <2>2
<1>11. ASSUME On \cap Cyclic # {} PROVE r \in Cyclic
  <2>1. l # 0 /\ Called(l) = Top.module /\ Top.module \in Modules
    BY <1>3, <1>4, <1>11, NothingOn, TopIs, <1>1
  <2>2. Called(l) \in Cyclic
    <3>1. l \in 1..Len(calls)
      BY <1>3, <1>4, <2>1
    <3> QED BY <1>3, <1>11, <3>1 DEF CalmSearch
  <2>3. HasNext /\ r = Required
    BY <1>4, <2>1, NothingOn DEF Entering
  <2>4. Top.next \in 1..Len(Requests(Top.module)) /\ r = Requests(Top.module)[Top.next]
    BY <1>1, <1>4, <2>1, <2>3, RequiredIs DEF Required
  <2> QED BY <1>1, <2>1, <2>2, <2>4, CyclicClosed DEF CalmSearch
<1>12. ASSUME NEW n \in On' \cap Cyclic
       PROVE  calls'[l + 1].module \in Cyclic
  BY <1>4, <1>8, <1>11
<1>13. ASSUME NEW j \in 1..l + 1, NEW n \in On' \cap Cyclic,
              calls'[j].module \in Cyclic, j = 1 \/ calls'[j - 1].module \notin Cyclic
       PROVE  PlaceIn(stack', calls'[j].module) <= PlaceIn(stack', n) /\ calls'[j].index <= ancestor'[n]
  <2>1. /\ PlaceIn(stack', r) = Len(stack) + 1 /\ Len(stack) \in Nat
        /\ \A x \in On : PlaceIn(stack', x) = PlaceIn(stack, x) /\ PlaceIn(stack, x) \in 1..Len(stack)
    BY <1>1, <1>2, StackPlaces DEF Pushed
  <2>2. CASE j # l + 1
    <3>1. j \in 1..l /\ (j = 1 \/ j - 1 \in 1..l)
      BY <1>4, <2>2
    <3>2. Called(j) \in On /\ calls'[j] = calls[j] /\ calls[j].index < index
      BY <1>1, <1>3, <1>4, <3>1 DEF Chain
    <3>3. j = 1 \/ Called(j - 1) \notin Cyclic
      BY <1>4, <1>13, <3>1 DEF Called
    <3>4. CASE n \in On
      <4>1. PlaceIn(stack, Called(j)) <= PlaceIn(stack, n) /\ calls[j].index <= ancestor[n]
        BY <1>3, <1>13, <3>1, <3>2, <3>3, <3>4 DEF CalmSearch, Called
      <4> QED BY <1>6, <2>1, <3>2, <3>4, <4>1 DEF Called
    <3>5. CASE n = r
      <4>1. calls[j].index \in Nat
        <5>1. calls \in Seq(Call)
          BY <1>1 DEF TypeOK, Call
        <5>2. calls[j] \in Call
          BY <1>3, <3>1, <5>1, ElementOfSeq
        <5> QED BY <5>2 DEF Call
      <4>2. PlaceIn(stack', calls'[j].module) < Len(stack) + 1
        BY <2>1, <3>2 DEF Called
      <4> QED BY <1>6, <2>1, <3>2, <3>5, <4>1, <4>2 DEF Called
    <3> QED BY <1>8, <3>4, <3>5
  <2>3. CASE j = l + 1
    <3>1. On \cap Cyclic = {}
      <4>1. CASE l = 0
        BY <1>4, <4>1, NothingOn
      <4>2. CASE l # 0
        <5>1. l \in 1..l /\ j - 1 = l /\ j # 1
          BY <1>4, <2>3, <4>2
        <5>2. Called(l) \notin Cyclic
          BY <1>4, <1>13, <5>1 DEF Called
        <5> QED BY <1>3, <5>1, <5>2 DEF CalmSearch
      <4> QED BY <4>1, <4>2
    <3>2. n = r /\ calls'[j].module = r /\ calls'[j].index = index
      BY <1>4, <1>8, <2>3, <3>1
    <3> QED BY <1>6, <2>1, <3>2
  <2> QED BY <2>2, <2>3
<1> QED BY <1>4, <1>7, <1>9, <1>10, <1>12, <1>13 DEF CalmSearch, Called

\* A module outside of Cyclic keeps its ancestor index, one of Cyclic takes over
\* one of Cyclic.
LEMMA CalmVisiting ==
  ASSUME Base, UNCHANGED graph, CalmSearch, NEW deps \in Nat, Visiting(deps)
  PROVE  CalmSearch'
<1>1. TypeOK /\ Once(stack) /\ Chain /\ OnStatus /\ Clean /\ calls # <<>> /\ HasNext
  BY DEF Base, Visiting
<1>2. Moved(deps)
  BY VisitingKeeps
<1>3. PICK l, m, r : l = Len(calls) /\ m = Top.module /\ r = Required
  OBVIOUS
<1>4. /\ l \in Nat \ {0} /\ l \in 1..l /\ m = Called(l) /\ m \in Modules /\ m \in On /\ r \in Modules
      /\ r = Requests(m)[Top.next] /\ Top.next \in 1..Len(Requests(m))
  BY <1>1, <1>3, TopIs, RequiredIs DEF Required
<1>5. ancestor \in [Modules -> Nat] /\ On \subseteq Modules
  BY <1>1, StackPlaces DEF TypeOK
<1>6. UNCHANGED ancestor \/ (r \in On /\ LowerAncestor(m, r))
  BY <1>1, <1>3, <1>4 DEF Visiting, OnStatus, Clean, Act, Chain
<1>7. /\ On' = On /\ Len(calls') = l /\ stack' = stack
      /\ \A j \in 1..l : calls'[j].module = calls[j].module /\ calls'[j].index = calls[j].index
  BY <1>2, <1>3 DEF Moved
<1>8. \A n \in On : ancestor'[n] = IF n = m /\ ~ (UNCHANGED ancestor) /\ ancestor[r] < ancestor[m]
                                   THEN ancestor[r] ELSE ancestor[n]
  BY <1>4, <1>5, <1>6 DEF LowerAncestor
<1>9. Cyclic' = Cyclic /\ CyclesIn(graph, Cyclic)'
  BY CyclicStays DEF CalmSearch
<1>10. Act' = Act
  <2>1. Act' = {calls'[j].module : j \in 1..l} /\ Act = {calls[j].module : j \in 1..l}
    BY <1>3, <1>7 DEF Act, Called
  <2> QED BY <1>7, <2>1
<1>11. ASSUME NEW n \in On \ Cyclic PROVE ancestor'[n] = ancestor[n]
  <2>1. r \in On /\ n = m => r = m
    BY <1>1, <1>3, <1>11, RequiresItself
  <2> QED BY <1>5, <1>6, <1>8, <1>11, <2>1
<1>12. \A j \in 1..l : Called(j) \in On
  BY <1>1, <1>3 DEF Chain
<1>13. ASSUME NEW j \in 1..l, NEW n \in On \cap Cyclic,
              Called(j) \in Cyclic, j = 1 \/ Called(j - 1) \notin Cyclic
       PROVE  PlaceIn(stack, Called(j)) <= PlaceIn(stack, n) /\ calls[j].index <= ancestor'[n]
  <2>1. \A x \in On \cap Cyclic : PlaceIn(stack, Called(j)) <= PlaceIn(stack, x) /\ calls[j].index <= ancestor[x]
    BY <1>3, <1>13 DEF CalmSearch
  <2>2. n = m => r \in Cyclic
    BY <1>1, <1>4, <1>13, CyclicClosed DEF CalmSearch
  <2> QED BY <1>6, <1>8, <1>13, <2>1, <2>2
<1> QED BY <1>3, <1>7, <1>9, <1>10, <1>11, <1>12, <1>13 DEF CalmSearch, Called

\* When the first activation of Cyclic returns, all of Cyclic leaves the stack.
LEMMA CalmLeaving ==
  ASSUME Base, UNCHANGED graph, TypeOK', CalmSearch, Leaving
  PROVE  CalmSearch'
<1>1. TypeOK /\ Once(stack) /\ Chain /\ Low /\ calls # <<>>
  BY DEF Base, Leaving
<1>2. Popped /\ UNCHANGED ancestor
  BY LeavingKeeps DEF Leaving
<1>3. PICK l, m : l = Len(calls) /\ m = Top.module
  OBVIOUS
<1>4. l \in Nat \ {0} /\ l \in 1..l /\ m = Called(l) /\ m \in On /\ Top.index = calls[l].index
  BY <1>1, <1>3, TopIs, RequiredIs
<1>5. /\ Len(calls') = l - 1 /\ \A j \in 1..l - 1 : calls'[j] = calls[j] /\ j \in 1..l /\ j # l
      /\ On' \subseteq On /\ \A n \in On' : PlaceIn(stack', n) = PlaceIn(stack, n)
  BY <1>2, <1>3, <1>4 DEF Popped
<1>6. ancestor[m] = calls[l].index => On' = {n \in On : PlaceIn(stack, n) < PlaceIn(stack, m)}
  BY <1>2, <1>3, <1>4 DEF Popped
<1>7. Cyclic' = Cyclic /\ CyclesIn(graph, Cyclic)'
  BY CyclicStays DEF CalmSearch
<1>8. \A n \in On : PlaceIn(stack, n) \in Nat
  BY <1>1, StackPlaces
<1>9. ASSUME NEW n \in On' \ Cyclic PROVE n \in Act'
  <2>1. PICK j \in 1..l : n = Called(j)
    BY <1>3, <1>5, <1>9 DEF CalmSearch, Act
  <2>2. j # l
    BY <1>3, <1>4, <1>6, <1>8, <1>9, <2>1 DEF CalmSearch
  <2>3. j \in 1..l - 1
    BY <1>4, <2>1, <2>2
  <2> QED BY <1>5, <2>1, <2>3 DEF Act, Called
<1>10. \A j \in 1..l - 1 : Called(j) \notin Cyclic => ancestor[Called(j)] = calls[j].index
  BY <1>3, <1>5 DEF CalmSearch
<1>11. ASSUME l - 1 \in 1..l - 1, NEW n \in On' \cap Cyclic PROVE Called(l - 1) \in Cyclic
  <2>1. SUFFICES ASSUME Called(l - 1) \notin Cyclic PROVE FALSE
    OBVIOUS
  <2>2. n \in On \cap Cyclic
    BY <1>5, <1>11
  <2>3. m \in Cyclic
    BY <1>3, <1>4, <2>2 DEF CalmSearch
  <2>4. PlaceIn(stack, m) <= PlaceIn(stack, n) /\ calls[l].index <= ancestor[m]
    BY <1>3, <1>4, <2>1, <2>2, <2>3 DEF CalmSearch
  <2>5. ancestor[m] <= calls[l].index
    BY <1>1, <1>3, <1>4 DEF Low
  <2>6. ancestor[m] = calls[l].index
    <3>1. ancestor[m] \in Nat /\ Top.index \in Nat
      BY <1>1, <1>3, TopIs DEF TypeOK
    <3> QED BY <1>4, <2>4, <2>5, <3>1
  <2> QED BY <1>4, <1>6, <1>8, <1>11, <2>2, <2>4, <2>6
<1>12. ASSUME NEW j \in 1..l - 1, NEW n \in On' \cap Cyclic,
              Called(j) \in Cyclic, j = 1 \/ Called(j - 1) \notin Cyclic
       PROVE  PlaceIn(stack', Called(j)) <= PlaceIn(stack', n) /\ calls[j].index <= ancestor[n]
  <2>1. PlaceIn(stack, Called(j)) <= PlaceIn(stack, n) /\ calls[j].index <= ancestor[n]
    BY <1>3, <1>5, <1>12 DEF CalmSearch
  <2>2. Called(j) \in On'
    <3>1. Called(j) \in On /\ PlaceIn(stack, Called(j)) < PlaceIn(stack, m)
      <4>1. j \in 1..Len(calls) /\ l \in 1..Len(calls) /\ j < l
        BY <1>3, <1>4
      <4> QED BY <1>1, <1>4, <4>1 DEF Chain
    <3>2. On' = On \/ On' = {x \in On : PlaceIn(stack, x) < PlaceIn(stack, m)}
      BY <1>2, <1>3 DEF Popped
    <3> QED BY <3>1, <3>2
  <2> QED BY <1>5, <1>12, <2>1, <2>2
<1>13. \A j \in 1..l - 1 : Called(j)' = Called(j) /\ (j = 1 \/ Called(j - 1)' = Called(j - 1))
  <2>1. \A j \in 1..l - 1 : j = 1 \/ j - 1 \in 1..l - 1
    BY <1>4
  <2> QED BY <1>5, <2>1 DEF Called
<1>14. \A j \in 1..l - 1 : Called(j)' \notin Cyclic => ancestor'[Called(j)'] = calls'[j].index
  BY <1>2, <1>5, <1>10, <1>13
<1>15. \A j \in 1..l - 1, n \in On' \cap Cyclic : j = l - 1 => Called(j)' \in Cyclic
  BY <1>11, <1>13
<1>16. \A j \in 1..l - 1, n \in On' \cap Cyclic :
         Called(j)' \in Cyclic /\ (j = 1 \/ Called(j - 1)' \notin Cyclic)
           => PlaceIn(stack', Called(j)') <= PlaceIn(stack', n) /\ calls'[j].index <= ancestor'[n]
  BY <1>2, <1>5, <1>12, <1>13
<1>17. On' \ Cyclic \subseteq Act' /\ Len(calls') = l - 1
  BY <1>5, <1>9
<1> QED BY <1>7, <1>14, <1>15, <1>16, <1>17 DEF CalmSearch

\* Every step keeps modules outside of Cyclic in components of their own.
LEMMA CalmSearchKept ==
  ASSUME Base, CalmSearch, Next
  PROVE  CalmSearch'
<1>1. Kinds /\ UNCHANGED graph /\ TypeOK' /\ (graph \in Graphs)'
  BY ActionKinds, GraphStays, TypesKept
<1>2. ASSUME On' = {}, calls' = <<>> PROVE CalmSearch'
  <2>1. Len(<<>>) = 0
    OBVIOUS
  <2>2. Cyclic' = Cyclic /\ CyclesIn(graph, Cyclic)'
    BY <1>1, CyclicStays DEF CalmSearch
  <2> QED BY <1>2, <2>1, <2>2 DEF CalmSearch
<1>3. CASE Abandoning
  BY <1>2, <1>3, AbandoningKeeps DEF Abandoning, Abandon
<1>4. CASE Resting
  BY <1>1, <1>2, <1>4, RestingKeeps
<1> QED BY <1>1, <1>3, <1>4, CalmEntering, CalmVisiting, CalmLeaving DEF Kinds

\* It is so at first.
LEMMA CalmInit ==
  ASSUME Init, CyclesLink(graph)
  PROVE  CalmSearch
<1>1. On = {} /\ Len(calls) = 0
  BY DEF Init, On, ToSet
<1> QED BY <1>1, CyclicIs DEF CalmSearch

\* And in every step, with those in which nothing happens.
LEMMA CalmNext ==
  ASSUME Base, CalmSearch, [Next]_vars
  PROVE  CalmSearch'
<1>1. SUFFICES ASSUME UNCHANGED vars PROVE CalmSearch'
  BY CalmSearchKept
<1>2. UNCHANGED <<graph, ancestor, calls, stack>>
  BY <1>1 DEF vars, search
<1>3. UNCHANGED On /\ UNCHANGED Act /\ \A j : Called(j)' = Called(j)
  BY <1>2 DEF On, Act, Called
<1> QED BY <1>2, <1>3, CyclicStays DEF CalmSearch

------------------------------------------------------------------------------
(* The requests a search has behind it.                                     *)

Positions(n) == 1..Len(Requests(n))
Explored(n, i) == \A j \in 1..Len(calls) : Called(j) = n => i < calls[j].next

\* A new activation has nothing behind it, the others have what they had.
LEMMA EnteringExplored ==
  ASSUME Base, UNCHANGED graph, (graph \in Graphs)',
         NEW r \in Modules, NEW p \in {"link", "evaluate"}, NEW s \in {"linking", "evaluating"}, Entering(r, p, s),
         NEW n \in On', NEW i \in Positions(n), Explored(n, i)'
  PROVE  n \in On /\ Explored(n, i)
<1>1. Pushed(r) /\ r \notin On /\ TypeOK
  BY EnteringKeeps DEF Base
<1>2. PICK l : l = Len(calls)
  OBVIOUS
<1>3. /\ l \in Nat /\ Len(calls') = l + 1 /\ calls'[l + 1].module = r /\ calls'[l + 1].next = 1
      /\ \A j \in 1..l : calls'[j] = calls[j]
  <2>1. calls \in Seq(Call)
    BY <1>1 DEF TypeOK, Call
  <2>2. Len(calls) \in Nat
    BY <2>1, LenProperties
  <2> QED BY <1>1, <1>2, <2>2 DEF Pushed
<1>4. \A j \in 1..l + 1 : calls'[j].module = n => i < calls'[j].next
  BY <1>3 DEF Explored, Called
<1>5. n # r
  <2>1. i \in Nat /\ i >= 1 /\ l + 1 \in 1..l + 1
    BY <1>3 DEF Positions
  <2> QED BY <1>3, <1>4, <2>1
<1>6. \A j \in 1..l : j \in 1..l + 1
  BY <1>3
<1>7. Explored(n, i)
  BY <1>2, <1>3, <1>4, <1>6 DEF Explored, Called
<1> QED BY <1>1, <1>5, <1>7 DEF Pushed

\* The last activation has one request more behind it.
LEMMA VisitingExplored ==
  ASSUME Base, UNCHANGED graph, NEW deps \in Nat, Visiting(deps),
         NEW n \in On', NEW i \in Positions(n), Explored(n, i)'
  PROVE  n \in On /\ (Explored(n, i) \/ (n = Top.module /\ Requests(n)[i] = Required))
<1>1. Moved(deps) /\ TypeOK /\ calls # <<>> /\ Chain
  BY VisitingKeeps DEF Visiting, Base
<1>2. PICK l : l = Len(calls)
  OBVIOUS
<1>3. /\ l \in Nat \ {0} /\ l \in 1..l /\ Top = calls[l] /\ Top.module = Called(l) /\ Len(calls') = l
      /\ \A j \in 1..l : calls'[j].module = calls[j].module
      /\ \A j \in 1..l : j < l => calls'[j] = calls[j]
      /\ calls'[l].next = Top.next + 1 /\ Top.next \in Nat
  BY <1>1, <1>2, TopIs DEF Moved
<1>4. \A j \in 1..l : calls'[j].module = n => i < calls'[j].next
  BY <1>3 DEF Explored, Called
<1>5. i \in Nat
  BY DEF Positions
<1>6. CASE n = Top.module /\ i = Top.next
  BY <1>1, <1>6 DEF Required, Moved
<1>7. CASE n # Top.module \/ i # Top.next
  <2>1. ASSUME NEW j \in 1..l, Called(j) = n PROVE i < calls[j].next
    <3>1. CASE j = l
      <4>1. i < Top.next + 1
        BY <1>3, <1>4, <2>1, <3>1 DEF Called
      <4> QED BY <1>3, <1>5, <1>7, <2>1, <3>1, <4>1
    <3>2. CASE j # l
      <4>1. j < l
        BY <1>3, <3>2
      <4> QED BY <1>3, <1>4, <2>1, <4>1 DEF Called
    <3> QED BY <3>1, <3>2
  <2>2. Explored(n, i)
    BY <1>2, <2>1 DEF Explored
  <2> QED BY <1>1, <2>2 DEF Moved
<1> QED BY <1>6, <1>7

\* What returns has all of its requests behind it.
LEMMA LeavingExplored ==
  ASSUME Base, UNCHANGED graph, TypeOK', Leaving,
         NEW n \in On', NEW i \in Positions(n), Explored(n, i)'
  PROVE  n \in On /\ Explored(n, i)
<1>1. Popped /\ TypeOK /\ calls # <<>> /\ Chain /\ ~ HasNext
  BY LeavingKeeps DEF Leaving, Base
<1>2. PICK l : l = Len(calls)
  OBVIOUS
<1>3. /\ l \in Nat \ {0} /\ Top = calls[l] /\ Len(calls') = l - 1 /\ Top.module = Called(l)
      /\ \A j \in 1..l - 1 : calls'[j] = calls[j]
      /\ Top.next \in Nat /\ Top.next > Len(Requests(Top.module)) /\ Len(Requests(Top.module)) \in Nat
  BY <1>1, <1>2, TopIs, RequiredIs DEF Popped, HasNext
<1>4. ASSUME NEW j \in 1..l, Called(j) = n PROVE i < calls[j].next
  <2>1. CASE j = l
    BY <1>3, <1>4, <2>1 DEF Positions
  <2>2. CASE j # l
    <3>1. j \in 1..l - 1
      BY <1>3, <2>2
    <3> QED BY <1>3, <1>4, <3>1 DEF Explored, Called
  <2> QED BY <2>1, <2>2
<1>5. Explored(n, i)
  BY <1>2, <1>4 DEF Explored
<1> QED BY <1>1, <1>5 DEF Popped

\* What leaves the stack has all of its requests behind it, and only the module
\* that returns among it is activated.
LEMMA LeftExplored ==
  ASSUME Base, UNCHANGED graph, TypeOK', Leaving, NEW n \in On \ On'
  PROVE  /\ n \in Act => n = Top.module
         /\ \A i \in Positions(n) : Explored(n, i)
         /\ ancestor[Top.module] = Top.index /\ PlaceIn(stack, Top.module) <= PlaceIn(stack, n)
<1>1. Popped /\ TypeOK /\ calls # <<>> /\ Chain /\ ~ HasNext /\ Once(stack)
  BY LeavingKeeps DEF Leaving, Base
<1>2. PICK l, m : l = Len(calls) /\ m = Top.module
  OBVIOUS
<1>3. /\ l \in Nat \ {0} /\ Top = calls[l] /\ m = Called(l) /\ l \in 1..l /\ m \in On
      /\ Top.next \in Nat /\ Top.next > Len(Requests(m)) /\ Len(Requests(m)) \in Nat
  BY <1>1, <1>2, TopIs, RequiredIs DEF HasNext
<1>4. /\ ancestor[m] = Top.index
      /\ ~ (PlaceIn(stack, n) < PlaceIn(stack, m))
  BY <1>1, <1>2 DEF Popped
<1>5. PlaceIn(stack, m) \in Nat /\ PlaceIn(stack, n) \in Nat
  BY <1>1, <1>3, StackPlaces
<1>6. ASSUME NEW j \in 1..l, Called(j) = n PROVE j = l
  <2>1. SUFFICES ASSUME j < l PROVE FALSE
    BY <1>3
  <2>2. PlaceIn(stack, Called(j)) < PlaceIn(stack, Called(l))
    BY <1>1, <1>2, <1>3, <2>1 DEF Chain
  <2> QED BY <1>3, <1>4, <1>6, <2>2
<1>7. \A i \in Positions(n) : Explored(n, i)
  BY <1>2, <1>3, <1>6 DEF Explored, Positions
<1>8. n \in Act => n = m
  BY <1>2, <1>3, <1>6 DEF Act
<1> QED BY <1>2, <1>4, <1>5, <1>7, <1>8

------------------------------------------------------------------------------
(* What a linked module imports is linked.                                  *)

Linked(m) == status[m] # "unlinked"
Asked(n, i) == Requests(n)[i]

\* What a module that link has left requests is linked, and not on the stack when
\* link may still fail; so is what a module on the stack has behind it.
LinksBehind(n, i) == Linked(Asked(n, i)) /\ (phase = "link" /\ n \notin Cyclic => Asked(n, i) = n \/ Asked(n, i) \notin On)

Links ==
  /\ \A n \in Modules \ On : Linked(n) => \A i \in Positions(n) : LinksBehind(n, i) /\ Asked(n, i) \in Modules
  /\ \A n \in On : \A i \in Positions(n) :
       phase # "link" \/ Explored(n, i) => LinksBehind(n, i) /\ Asked(n, i) \in Modules

\* A request is for a module.
LEMMA AskedIs ==
  ASSUME TypeOK, NEW n \in Modules
  PROVE  \A i \in Positions(n) : Asked(n, i) \in Modules
<1>1. Requests(n) \in Seq(Modules)
  BY DEF TypeOK, Requests
<1> QED BY <1>1, ElementOfSeq DEF Positions, Asked

\* The requests stay.
LEMMA AskedStays ==
  ASSUME UNCHANGED graph
  PROVE  /\ \A n, i : Asked(n, i)' = Asked(n, i)
         /\ \A n : Positions(n)' = Positions(n)
         /\ Cyclic' = Cyclic
BY CyclicStays DEF Asked, Positions, Requests

\* A new module on the stack is not what those behind have requested.
LEMMA LinksEntering ==
  ASSUME Base, UNCHANGED graph, (graph \in Graphs)', Links,
         NEW r \in Modules, NEW p \in {"link", "evaluate"}, NEW s \in {"linking", "evaluating"}, Entering(r, p, s)
  PROVE  Links'
<1>1. Pushed(r) /\ r \notin On /\ TypeOK
  BY EnteringKeeps DEF Base
<1>2. On' = On \cup {r} /\ On \subseteq Modules
  BY <1>1, StackPlaces DEF Pushed, Base
<1>3. \A n \in Modules : status'[n] = IF n = r THEN s ELSE status[n]
  BY <1>1 DEF Entering, Enter, TypeOK
<1>4. \A n \in Modules : Linked(n) => Linked(n)'
  BY <1>3 DEF Linked
<1>5. phase' = "link" => ~ Linked(r)
  BY DEF Entering, Linked
<1>6. phase = phase' \/ On = {}
  BY NothingOn DEF Entering
<1>7. \A n \in On' : phase # "link" \/ phase = phase' \/ n = r
  BY <1>2, <1>6
<1>8. ASSUME NEW n \in Modules, NEW i \in Positions(n), LinksBehind(n, i)
      PROVE  LinksBehind(n, i)'
  <2>1. Asked(n, i) \in Modules
    BY <1>1, <1>8, AskedIs
  <2>2. Linked(Asked(n, i))'
    BY <1>4, <1>8, <2>1, AskedStays DEF LinksBehind, Linked
  <2>3. phase' = "link" => Asked(n, i) # r
    BY <1>5, <1>8 DEF LinksBehind
  <2> QED BY <1>2, <1>6, <1>8, <2>2, <2>3, AskedStays DEF LinksBehind, Linked
<1>9. ASSUME NEW n \in Modules \ On', Linked(n)', NEW i \in Positions(n)
      PROVE  LinksBehind(n, i)' /\ Asked(n, i) \in Modules
  <2>1. n \in Modules \ On /\ Linked(n)
    BY <1>2, <1>3, <1>9 DEF Linked
  <2> QED BY <1>8, <1>9, <2>1 DEF Links
<1>10. ASSUME NEW n \in On', NEW i \in Positions(n), phase' # "link" \/ Explored(n, i)'
       PROVE  LinksBehind(n, i)' /\ Asked(n, i) \in Modules
  <2>1. n \in Modules /\ i \in Positions(n)
    BY <1>2, <1>10
  <2>2. CASE phase' = "link"
    <3>1. n \in On /\ Explored(n, i)
      BY <1>10, <2>2, EnteringExplored
    <3> QED BY <1>8, <2>1, <3>1 DEF Links
  <2>3. CASE phase' # "link" /\ n \in On
    <3>1. phase # "link"
      BY <1>6, <2>3
    <3> QED BY <1>8, <2>1, <2>3, <3>1 DEF Links
  <2>4. CASE phase' # "link" /\ n = r
    <3>1. Linked(n) /\ n \notin On
      BY <1>1, <2>4 DEF Entering, Linked
    <3> QED BY <1>8, <2>1, <3>1 DEF Links
  <2> QED BY <1>2, <1>10, <2>2, <2>3, <2>4
<1> QED BY <1>9, <1>10, AskedStays DEF Links

\* The next request is linked, and outside of Cyclic it is not on the stack.
LEMMA LinksVisiting ==
  ASSUME Base, UNCHANGED graph, CalmSearch, Links, NEW deps \in Nat, Visiting(deps)
  PROVE  Links'
<1>1. Moved(deps) /\ TypeOK /\ calls # <<>> /\ HasNext /\ Once(stack)
  BY VisitingKeeps DEF Visiting, Base
<1>2. On' = On /\ UNCHANGED <<status, phase>> /\ On \subseteq Modules
  BY <1>1, StackPlaces DEF Moved, Visiting
<1>3. \A n, i : LinksBehind(n, i)' <=> LinksBehind(n, i)
  BY <1>2, AskedStays DEF LinksBehind, Linked
<1>4. \A n : Linked(n)' <=> Linked(n)
  BY <1>2 DEF Linked
<1>5. ASSUME NEW n \in On', NEW i \in Positions(n), phase' # "link" \/ Explored(n, i)'
      PROVE  LinksBehind(n, i) /\ Asked(n, i) \in Modules
  <2>1. Asked(n, i) \in Modules
    BY <1>1, <1>2, <1>5, AskedIs
  <2>2. CASE phase # "link" \/ Explored(n, i)
    BY <1>2, <1>5, <2>2 DEF Links
  <2>3. CASE phase = "link" /\ ~ Explored(n, i)
    <3>1. n = Top.module /\ Asked(n, i) = Required
      BY <1>2, <1>5, <2>3, VisitingExplored DEF Asked
    <3>2. Linked(Required)
      BY <2>3 DEF Visiting, Linked
    <3>3. n \notin Cyclic => Required = n \/ Required \notin On
      BY <1>1, <3>1, RequiresItself
    <3> QED BY <2>1, <3>1, <3>2, <3>3 DEF LinksBehind
  <2> QED BY <2>2, <2>3
<1> QED BY <1>2, <1>3, <1>4, <1>5, AskedStays DEF Links

\* What leaves the stack has nothing on it behind.
LEMMA LinksLeaving ==
  ASSUME Base, UNCHANGED graph, TypeOK', CalmSearch, Links, Leaving
  PROVE  Links'
<1>1. Popped /\ TypeOK /\ calls # <<>> /\ Once(stack) /\ OnStatus /\ Clean
  BY LeavingKeeps DEF Leaving, Base
<1>2. On' \subseteq On /\ On \subseteq Modules
  BY <1>1, StackPlaces DEF Popped
<1>3. Top.module \in On
  BY <1>1, RequiredIs DEF Base
<1>4. \A n \in Modules : Linked(n)' <=> Linked(n)
  <2>1. \A n \in Component(Top.module) : n \in On
    BY <1>1, <1>3, ComponentIs
  <2>2. phase \in {"link", "evaluate"}
    BY <1>1 DEF Clean
  <2>3. \A n \in On : status[n] # "unlinked"
    BY <1>1, <1>2, <2>2 DEF OnStatus
  <2> QED BY <1>3, <2>1, <2>3 DEF Leaving, Linked
<1>5. phase' = phase \/ (phase' # "link" /\ On' = {})
  <2>1. ToSet(<<>>) = {}
    BY DEF ToSet
  <2>2. CASE Len(calls) # 1
    BY <2>2 DEF Leaving, Leave
  <2>3. CASE Len(calls) = 1
    <3>1. calls' = <<>>
      <4>1. calls' \in Seq(Call) /\ Len(calls') = 0
        BY <1>1, <2>3 DEF Popped
      <4> QED BY <4>1, EmptySeq
    <3>2. stack' = <<>> /\ phase' = "idle"
      BY <2>3, <3>1, LeavingKeeps DEF Leaving, Leave
    <3> QED BY <2>1, <3>2 DEF On
  <2> QED BY <2>2, <2>3
<1>6. ASSUME NEW n \in Modules, NEW i \in Positions(n), LinksBehind(n, i)
      PROVE  LinksBehind(n, i)'
  <2>1. Asked(n, i) \in Modules
    BY <1>1, <1>6, AskedIs
  <2>2. Linked(Asked(n, i))'
    BY <1>4, <1>6, <2>1, AskedStays DEF LinksBehind, Linked
  <2> QED BY <1>2, <1>5, <1>6, <2>2, AskedStays DEF LinksBehind, Linked
<1>7. ASSUME NEW n \in Modules \ On', Linked(n)', NEW i \in Positions(n)
      PROVE  LinksBehind(n, i)' /\ Asked(n, i) \in Modules
  <2>1. CASE n \notin On
    BY <1>4, <1>6, <1>7, <2>1 DEF Links
  <2>2. CASE n \in On
    <3>1. Explored(n, i)
      BY <1>7, <2>2, LeftExplored
    <3> QED BY <1>6, <1>7, <2>2, <3>1 DEF Links
  <2> QED BY <2>1, <2>2
<1>8. ASSUME NEW n \in On', NEW i \in Positions(n), phase' # "link" \/ Explored(n, i)'
      PROVE  LinksBehind(n, i)' /\ Asked(n, i) \in Modules
  <2>1. phase # "link" \/ Explored(n, i)
    BY <1>5, <1>8, LeavingExplored
  <2> QED BY <1>2, <1>6, <1>8, <2>1 DEF Links
<1> QED BY <1>7, <1>8, AskedStays DEF Links

\* A link that fails sets back only what no linked module requests.
LEMMA LinksAbandoning ==
  ASSUME Base, UNCHANGED graph, CalmSearch, Links, Abandoning
  PROVE  Links'
<1>1. TypeOK /\ Once(stack) /\ Clean /\ calls # <<>> /\ OnStatus
  BY DEF Abandoning, Base
<1>2. On' = {} /\ phase' = "idle" /\ On \subseteq Modules
  BY <1>1, AbandoningKeeps, StackPlaces DEF Abandoning, Abandon
<1>3. SUFFICES ASSUME NEW n \in Modules, Linked(n)', NEW i \in Positions(n)
               PROVE  Linked(Asked(n, i))' /\ Asked(n, i) \in Modules
  BY <1>2, AskedStays DEF Links, LinksBehind, Linked
<1>4. Asked(n, i) \in Modules
  BY <1>1, AskedIs
<1>5. CASE phase = "link"
  <2>1. n \notin On /\ Linked(n)
    BY <1>3, <1>5 DEF Abandoning, Linked
  <2>2. Linked(Asked(n, i)) /\ (n \notin Cyclic => Asked(n, i) \notin On)
    BY <1>3, <1>5, <2>1 DEF Links, LinksBehind
  <2>3. On \cap Cyclic = {}
    <3>1. Top.module \notin Cyclic
      BY <1>5 DEF Abandoning, CalmSearch, CyclesIn
    <3> QED BY <1>1, <3>1, TopIs DEF CalmSearch
  <2>4. n \in Cyclic => Asked(n, i) \in Cyclic
    BY <1>1, <1>3, CyclicClosed DEF CalmSearch, Positions, Asked
  <2>5. Asked(n, i) \notin On
    BY <2>2, <2>3, <2>4
  <2> QED BY <1>4, <2>2, <2>5, AskedStays DEF Abandoning, Linked
<1>6. CASE phase # "link"
  <2>1. \A x \in Modules : Linked(x)' <=> Linked(x)
    <3>1. phase = "evaluate"
      BY <1>1, <1>6 DEF Clean
    <3> QED BY <1>1, <1>2, <1>6, <3>1 DEF Abandoning, Linked, OnStatus
  <2>2. Linked(Asked(n, i))
    BY <1>3, <1>6, <2>1 DEF Links, LinksBehind
  <2> QED BY <1>4, <2>1, <2>2, AskedStays DEF Linked
<1> QED BY <1>5, <1>6

\* Every step keeps what is linked closed.
LEMMA LinksKept ==
  ASSUME Base, CalmSearch, Links, Next
  PROVE  Links'
<1>1. Kinds /\ UNCHANGED graph /\ TypeOK' /\ (graph \in Graphs)'
  BY ActionKinds, GraphStays, TypesKept
<1>2. CASE Resting
  <2>1. On = {} /\ On' = {} /\ phase # "link" /\ phase' # "link"
    BY <1>1, <1>2, RestingKeeps DEF Resting
  <2>2. \A n \in Modules : Linked(n)' <=> Linked(n)
    BY <1>2 DEF Resting, Linked
  <2>3. \A n \in Modules : \A i \in Positions(n) : LinksBehind(n, i) /\ Asked(n, i) \in Modules => LinksBehind(n, i)'
    BY <1>1, <2>1, <2>2, AskedStays DEF LinksBehind, Linked
  <2> QED BY <1>1, <2>1, <2>2, <2>3, AskedStays DEF Links
<1> QED BY <1>1, <1>2, LinksEntering, LinksVisiting, LinksLeaving, LinksAbandoning DEF Kinds

\* So does no step at all.
LEMMA LinksNext ==
  ASSUME Base, CalmSearch, Links, [Next]_vars
  PROVE  Links'
<1>1. SUFFICES ASSUME UNCHANGED vars PROVE Links'
  BY LinksKept
<1>2. UNCHANGED <<graph, status, phase, calls, stack>>
  BY <1>1 DEF vars, search
<1>3. UNCHANGED On /\ \A j : Called(j)' = Called(j)
  BY <1>2 DEF On, Called
<1>4. \A n, i : (Explored(n, i)' <=> Explored(n, i)) /\ (LinksBehind(n, i)' <=> LinksBehind(n, i))
  BY <1>2, <1>3, AskedStays DEF Explored, LinksBehind, Linked
<1> QED BY <1>2, <1>3, <1>4, AskedStays DEF Links, Linked

\* Nothing is linked at first.
LEMMA LinksInit ==
  ASSUME Init
  PROVE  Links
BY DEF Init, Links, Linked, On, ToSet

\* link leaves nothing half linked, and a failed link finds every module it has
\* to set back in the status it can be set back from, in graphs whose cycles can
\* be linked.
THEOREM LinkIsClean ==
  (\A g \in Graphs : CyclesLink(g)) => (Spec => [](LinkedClosed /\ UnwindFindsLinking))
<1> SUFFICES ASSUME \A g \in Graphs : CyclesLink(g) PROVE Spec => [](LinkedClosed /\ UnwindFindsLinking)
  OBVIOUS
<1>1. Init => Base
  BY BaseInit
<1>2. Base /\ [Next]_vars => Base'
  BY BaseNext
<1>3. Init => CalmSearch /\ Links
  BY CalmInit, LinksInit DEF Init
<1>4. Base /\ CalmSearch /\ Links /\ [Next]_vars => CalmSearch' /\ Links'
  BY CalmNext, LinksNext
<1>5. Base /\ Links => LinkedClosed
  <2>1. SUFFICES ASSUME Base, Links, phase = "idle", NEW m \in Modules, status[m] # "unlinked"
                 PROVE  /\ status[m] \notin {"linking", "prelinked"}
                        /\ \A r \in ToSet(Requests(m)) : status[r] # "unlinked"
    BY DEF LinkedClosed
  <2>2. On = {}
    BY <2>1, NothingOn
  <2>3. status[m] \notin {"linking", "prelinked"}
    BY <2>1 DEF Base, OnStatus
  <2>4. Requests(m) \in Seq(Modules)
    BY <2>1 DEF Base, TypeOK, Requests
  <2>5. ASSUME NEW r \in ToSet(Requests(m)) PROVE status[r] # "unlinked"
    <3>1. PICK i \in 1..Len(Requests(m)) : Requests(m)[i] = r
      BY <2>4, ToSetFacts
    <3>2. LinksBehind(m, i)
      BY <2>1, <2>2 DEF Links, Linked, Positions
    <3> QED BY <3>1, <3>2 DEF LinksBehind, Asked, Linked
  <2> QED BY <2>3, <2>5
<1>6. Base /\ CalmSearch => UnwindFindsLinking
  <2>1. SUFFICES ASSUME Base, CalmSearch, Searching("link"), Top.module \in graph.broken, NEW m \in On
                 PROVE  status[m] = "linking"
    BY DEF UnwindFindsLinking, On
  <2>2. TypeOK /\ OnStatus /\ Once(stack)
    BY <2>1 DEF Base
  <2>3. Top.module \notin Cyclic
    BY <2>1 DEF CalmSearch, CyclesIn
  <2>4. On \cap Cyclic = {}
    BY <2>1, <2>2, <2>3, TopIs DEF CalmSearch, Searching
  <2>5. m \in Act /\ m \in Modules
    BY <2>1, <2>2, <2>4, StackPlaces DEF CalmSearch
  <2> QED BY <2>1, <2>2, <2>5 DEF OnStatus, Searching
<1> QED BY <1>1, <1>2, <1>3, <1>4, <1>5, <1>6, PTL DEF Spec

------------------------------------------------------------------------------
(* Evaluation finds the cycles: Tarjan's algorithm.  This needs no condition *)
(* on the graph, on failures or on what waits.                              *)

Leads(m, n) == \A S \in SUBSET Modules : Closed(graph, S) /\ m \in S => n \in S

\* Where a module leads, what it leads to leads on.
LEMMA LeadsOn ==
  ASSUME NEW k, NEW m, NEW n, Leads(k, m), Leads(m, n)
  PROVE  Leads(k, n)
BY DEF Leads

\* A module leads to itself.
LEMMA LeadsToItself ==
  ASSUME NEW m
  PROVE  Leads(m, m)
BY DEF Leads

\* A module leads to each module it requests.
LEMMA LeadsToAsked ==
  ASSUME TypeOK, NEW m \in Modules, NEW e \in Positions(m)
  PROVE  Leads(m, Asked(m, e))
<1>1. Requests(m) \in Seq(Modules) /\ Requests(m) = graph.requests[m]
  BY DEF TypeOK, Requests
<1>2. Requests(m)[e] \in ToSet(Requests(m))
  BY <1>1, ToSetFacts DEF Positions
<1> QED BY <1>1, <1>2 DEF Leads, Closed, Asked

\* Where a module leads depends on the graph alone, which no step changes.
LEMMA LeadsStays ==
  ASSUME UNCHANGED graph
  PROVE  /\ \A m, n : Leads(m, n)' <=> Leads(m, n)
         /\ \A S : Closed(graph, S)' <=> Closed(graph, S)
BY DEF Leads, Closed

\* P is what evaluate has left with a cycle root: it is closed, and has one cycle
\* root for each cycle.
Searched(P) ==
  /\ P \subseteq Modules /\ Closed(graph, P)
  /\ \A n \in Modules : (n \in P => Reached(n)) /\ (Reached(n) /\ ~ failed[n] => n \in P)
  /\ \A m, n \in P : Leads(m, n) /\ Leads(n, m) => root[m] = root[n]

Roots == \A n \in Modules : Leads(n, root[n]) /\ Leads(root[n], n)

\* The activation that n was pushed by, or under.
InSegment(n, j) ==
  /\ PlaceIn(stack, Called(j)) <= PlaceIn(stack, n)
  /\ \A k \in 1..Len(calls) : j < k => PlaceIn(stack, n) < PlaceIn(stack, Called(k))

\* What is behind a module on the stack is there as well, or has left it.
Behind(P) == \A n \in On : \A e \in Positions(n) : Explored(n, e) => Asked(n, e) \in On \cup P

\* The last activation has still to take over the ancestor index of the module it
\* requires, which returned and stays on the stack with n.
TakesOver(n, i, j) ==
  /\ i = Len(calls) /\ HasNext /\ Required \in On
  /\ PlaceIn(stack, Called(i)) < PlaceIn(stack, Required) /\ PlaceIn(stack, Required) <= PlaceIn(stack, n)
  /\ ancestor[Required] < calls[j].index

\* When n has a module behind it that was pushed before activation j, the
\* activation that n is under knows: its ancestor index is below that of j.
Lows ==
  \A n \in On, i \in 1..Len(calls) : InSegment(n, i) =>
    \A e \in Positions(n) : Explored(n, e) /\ Asked(n, e) \in On =>
      \A j \in 1..i : PlaceIn(stack, Asked(n, e)) < PlaceIn(stack, Called(j)) =>
        ancestor[Called(i)] < calls[j].index \/ TakesOver(n, i, j)

\* A low ancestor index is that of a module which n leads to.
Below == \A n \in On, j \in 1..Len(calls) : ancestor[n] < calls[j].index =>
           \E p \in On : PlaceIn(stack, p) < PlaceIn(stack, Called(j)) /\ Leads(n, p)

\* An activation leads to all that was pushed later, which leads back to the
\* activation it is under.
Down == \A n \in On, j \in 1..Len(calls) :
          PlaceIn(stack, Called(j)) <= PlaceIn(stack, n) => Leads(Called(j), n)
Up == \A n \in On : \E j \in 1..Len(calls) : InSegment(n, j) /\ Leads(n, Called(j))

Trace(P) == phase = "evaluate" => Behind(P) /\ Lows /\ Below /\ Down /\ Up

\* What a new activation changes.
Entered(r, l) ==
  /\ l \in Nat /\ l = Len(calls) /\ Len(calls') = l + 1
  /\ \A j \in 1..l : calls'[j] = calls[j] /\ Called(j) \in On /\ calls[j].index < index /\ calls[j].index \in Nat
  /\ calls'[l + 1].module = r /\ calls'[l + 1].index = index /\ index \in Nat
  /\ On' = On \cup {r} /\ r \notin On /\ On \subseteq Modules
  /\ ancestor'[r] = index /\ \A n \in On : ancestor'[n] = ancestor[n] /\ ancestor[n] \in Nat
  /\ PlaceIn(stack', r) = Len(stack) + 1 /\ Len(stack) \in Nat
  /\ \A n \in On : PlaceIn(stack', n) = PlaceIn(stack, n) /\ PlaceIn(stack, n) \in 1..Len(stack)
  /\ l = 0 <=> calls = <<>>
  /\ \A j \in 1..l + 1 : j \in 1..l \/ j = l + 1

\* A visit that enters a module puts it on top of the stack and of the calls, above every
\* module already there.
LEMMA EnteringIs ==
  ASSUME Base, UNCHANGED graph, (graph \in Graphs)',
         NEW r \in Modules, NEW p \in {"link", "evaluate"}, NEW s \in {"linking", "evaluating"}, Entering(r, p, s)
  PROVE  Entered(r, Len(calls))
<1>1. TypeOK /\ Once(stack) /\ Chain /\ Clean
  BY DEF Base
<1>2. Pushed(r) /\ r \notin On
  BY EnteringKeeps
<1>3. PICK l : l = Len(calls)
  OBVIOUS
<1>4. /\ l \in Nat /\ Len(calls') = l + 1 /\ calls \in Seq(Call)
      /\ calls'[l + 1].module = r /\ calls'[l + 1].index = index
      /\ (l = 0 <=> calls = <<>>)
  <2>1. calls \in Seq(Call)
    BY <1>1 DEF TypeOK, Call
  <2>2. Len(calls) \in Nat /\ (Len(calls) = 0 <=> calls = <<>>)
    BY <2>1, EmptySeq, LenProperties
  <2> QED BY <1>2, <1>3, <2>1, <2>2 DEF Pushed
<1>5. \A n \in On : n # r /\ n \in Modules
  BY <1>1, <1>2, StackPlaces
<1>6. /\ ancestor'[r] = index /\ \A n \in On : ancestor'[n] = ancestor[n] /\ ancestor[n] \in Nat
      /\ index \in Nat
  <2>1. ancestor \in [Modules -> Nat] /\ index \in Nat
    BY <1>1 DEF TypeOK
  <2> QED BY <1>5, <2>1 DEF Entering, Enter
<1>7. ASSUME NEW j \in 1..l
      PROVE  calls'[j] = calls[j] /\ Called(j) \in On /\ calls[j].index < index /\ calls[j].index \in Nat
  <2>1. calls[j] \in Call
    BY <1>3, <1>4, ElementOfSeq
  <2> QED BY <1>1, <1>2, <1>3, <2>1 DEF Chain, Pushed, Call
<1>8. /\ PlaceIn(stack', r) = Len(stack) + 1 /\ Len(stack) \in Nat /\ On \subseteq Modules
      /\ \A n \in On : PlaceIn(stack', n) = PlaceIn(stack, n) /\ PlaceIn(stack, n) \in 1..Len(stack)
      /\ On' = On \cup {r}
  BY <1>1, <1>2, StackPlaces DEF Pushed
<1>9. \A j \in 1..l + 1 : j \in 1..l \/ j = l + 1
  BY <1>4
<1> QED BY <1>2, <1>3, <1>4, <1>6, <1>7, <1>8, <1>9 DEF Entered

\* The activation a module is under stays the same, and a new module is under its
\* own.
LEMMA EnteringSegments ==
  ASSUME NEW r, NEW l, Entered(r, l), NEW n \in On', NEW j \in 1..l + 1
  PROVE  InSegment(n, j)' <=> (n = r /\ j = l + 1) \/ (n \in On /\ j \in 1..l /\ InSegment(n, j))
<1>1. \A k \in 1..l : PlaceIn(stack', calls'[k].module) = PlaceIn(stack, Called(k)) /\ PlaceIn(stack, Called(k)) \in 1..Len(stack)
  BY DEF Entered, Called
<1>2. PlaceIn(stack', calls'[l + 1].module) = Len(stack) + 1 /\ Len(stack) \in Nat
  BY DEF Entered
<1>3. l \in Nat /\ \A k \in 1..l : k \in 1..l + 1
  BY DEF Entered
<1>4. InSegment(n, j)' <=> /\ PlaceIn(stack', calls'[j].module) <= PlaceIn(stack', n)
                           /\ \A k \in 1..l + 1 : j < k => PlaceIn(stack', n) < PlaceIn(stack', calls'[k].module)
  BY DEF InSegment, Called, Entered
<1>5. CASE n = r
  <2>1. PlaceIn(stack', n) = Len(stack) + 1 /\ l + 1 \in 1..l + 1 /\ r \notin On
    BY <1>3, <1>5 DEF Entered
  <2>2. j = l + 1 => InSegment(n, j)'
    BY <1>2, <1>3, <1>4, <2>1
  <2>3. j # l + 1 => ~ InSegment(n, j)'
    BY <1>2, <1>3, <1>4, <2>1
  <2> QED BY <1>5, <2>1, <2>2, <2>3
<1>6. CASE n # r
  <2>1. n \in On /\ PlaceIn(stack', n) = PlaceIn(stack, n) /\ PlaceIn(stack, n) \in 1..Len(stack)
    BY <1>6 DEF Entered
  <2>2. j = l + 1 => ~ InSegment(n, j)'
    BY <1>2, <1>3, <1>4, <2>1
  <2>3. ASSUME j \in 1..l PROVE InSegment(n, j)' <=> InSegment(n, j)
    <3>1. InSegment(n, j) <=> /\ PlaceIn(stack, Called(j)) <= PlaceIn(stack, n)
                              /\ \A k \in 1..l : j < k => PlaceIn(stack, n) < PlaceIn(stack, Called(k))
      BY DEF InSegment, Entered
    <3>2. \A k \in 1..l + 1 : k \in 1..l \/ k = l + 1
      BY DEF Entered
    <3>3. /\ \A k \in 1..l : PlaceIn(stack', n) < PlaceIn(stack', calls'[k].module)
                            <=> PlaceIn(stack, n) < PlaceIn(stack, Called(k))
          /\ PlaceIn(stack', n) < PlaceIn(stack', calls'[l + 1].module)
      BY <1>1, <1>2, <2>1
    <3>4. (\A k \in 1..l + 1 : j < k => PlaceIn(stack', n) < PlaceIn(stack', calls'[k].module))
            <=> \A k \in 1..l : j < k => PlaceIn(stack, n) < PlaceIn(stack, Called(k))
      BY <1>3, <3>2, <3>3
    <3>5. PlaceIn(stack', calls'[j].module) = PlaceIn(stack, Called(j))
      BY <1>1, <2>3
    <3> QED BY <1>4, <2>1, <3>1, <3>4, <3>5
  <2>4. j \in 1..l \/ j = l + 1
    BY DEF Entered
  <2> QED BY <1>3, <1>6, <2>1, <2>2, <2>3, <2>4
<1> QED BY <1>5, <1>6

\* A new activation has nothing behind it, and nothing pushed after it.
LEMMA TraceEntering ==
  ASSUME Base, UNCHANGED graph, (graph \in Graphs)', NEW P, Searched(P), Trace(P),
         NEW r \in Modules, NEW s \in {"linking", "evaluating"}, Entering(r, "evaluate", s)
  PROVE  Behind(P)' /\ Lows' /\ Below' /\ Down' /\ Up'
<1>1. PICK l : l = Len(calls)
  OBVIOUS
<1>2. Entered(r, l) /\ TypeOK /\ Chain
  BY <1>1, EnteringIs DEF Base
<1>3. /\ l \in Nat /\ Len(calls') = l + 1 /\ On' = On \cup {r} /\ r \notin On /\ On \subseteq Modules
      /\ \A j \in 1..l + 1 : j \in 1..l \/ j = l + 1
      /\ \A j \in 1..l : j \in 1..l + 1 /\ j \in 1..Len(calls)
  BY <1>1, <1>2 DEF Entered
<1>4. /\ \A j \in 1..l : /\ calls'[j] = calls[j] /\ Called(j)' = Called(j) /\ Called(j) \in On
                         /\ calls[j].index < index /\ calls[j].index \in Nat
      /\ Called(l + 1)' = r /\ calls'[l + 1].index = index /\ index \in Nat
  BY <1>2 DEF Entered, Called
<1>5. /\ PlaceIn(stack', r) = Len(stack) + 1 /\ Len(stack) \in Nat
      /\ \A n \in On : PlaceIn(stack', n) = PlaceIn(stack, n) /\ PlaceIn(stack, n) \in 1..Len(stack)
      /\ ancestor'[r] = index /\ \A n \in On : ancestor'[n] = ancestor[n] /\ ancestor[n] \in Nat
  BY <1>2 DEF Entered
<1>6. \A m, n : Leads(m, n)' <=> Leads(m, n)
  BY LeadsStays
<1>7. ASSUME On # {}
      PROVE  /\ Behind(P) /\ Lows /\ Below /\ Down /\ Up
             /\ HasNext /\ r = Required /\ l \in 1..l /\ Leads(Called(l), r)
  <2>1. phase # "idle" /\ calls # <<>>
    BY <1>7, NothingOn
  <2>2. phase = "evaluate" /\ HasNext /\ r = Required
    BY <2>1 DEF Entering
  <2>3. l \in 1..l /\ Called(l) = Top.module /\ Top.module \in Modules
    BY <1>1, <1>2, <2>1, TopIs
  <2>4. Top.next \in Positions(Top.module) /\ r = Asked(Top.module, Top.next)
    BY <1>2, <2>1, <2>2, RequiredIs DEF Required, Positions, Asked
  <2>5. Leads(Called(l), r)
    BY <1>2, <2>3, <2>4, LeadsToAsked
  <2> QED BY <2>2, <2>3, <2>5 DEF Trace
<1>8. Behind(P)'
  <2>1. SUFFICES ASSUME NEW n \in On', NEW e \in Positions(n), Explored(n, e)'
                 PROVE  Asked(n, e) \in On' \cup P
    BY AskedStays DEF Behind
  <2>2. n \in On /\ Explored(n, e)
    BY <2>1, EnteringExplored
  <2> QED BY <1>3, <1>7, <2>1, <2>2 DEF Behind
<1>9. Below'
  <2>1. SUFFICES ASSUME NEW n \in On', NEW j \in 1..l + 1, ancestor'[n] < calls'[j].index
                 PROVE  \E p \in On' : PlaceIn(stack', p) < PlaceIn(stack', Called(j)') /\ Leads(n, p)
    BY <1>3, <1>6 DEF Below
  <2>2. n \in On
    <3>1. SUFFICES ASSUME n = r PROVE FALSE
      BY <1>3
    <3>2. calls'[j].index <= index /\ calls'[j].index \in Nat
      BY <1>3, <1>4
    <3> QED BY <1>4, <1>5, <2>1, <3>1, <3>2
  <2>3. CASE j \in 1..l
    <3>1. PICK p \in On : PlaceIn(stack, p) < PlaceIn(stack, Called(j)) /\ Leads(n, p)
      BY <1>3, <1>4, <1>5, <1>7, <2>1, <2>2, <2>3 DEF Below
    <3> QED BY <1>3, <1>4, <1>5, <2>3, <3>1
  <2>4. CASE j = l + 1
    <3>1. PlaceIn(stack', n) < PlaceIn(stack', Called(j)')
      BY <1>4, <1>5, <2>2, <2>4
    <3>2. Leads(n, n)
      BY LeadsToItself
    <3> QED BY <1>3, <2>2, <3>1, <3>2
  <2> QED BY <1>3, <2>3, <2>4
<1>10. Down'
  <2>1. SUFFICES ASSUME NEW n \in On', NEW j \in 1..l + 1, PlaceIn(stack', Called(j)') <= PlaceIn(stack', n)
                 PROVE  Leads(Called(j)', n)
    BY <1>3, <1>6 DEF Down
  <2>2. CASE j = l + 1
    <3>1. n = r
      BY <1>3, <1>4, <1>5, <2>1, <2>2
    <3> QED BY <1>4, <2>2, <3>1, LeadsToItself
  <2>3. CASE j \in 1..l /\ n \in On
    <3>1. PlaceIn(stack, Called(j)) <= PlaceIn(stack, n)
      BY <1>4, <1>5, <2>1, <2>3
    <3> QED BY <1>3, <1>4, <1>7, <2>3, <3>1 DEF Down
  <2>4. CASE j \in 1..l /\ n = r
    <3>1. On # {}
      BY <1>4, <2>4
    <3>2. l \in 1..l /\ Leads(Called(l), r) /\ Called(l) \in On
      BY <1>4, <1>7, <3>1
    <3>3. PlaceIn(stack, Called(j)) <= PlaceIn(stack, Called(l))
      <4>1. PlaceIn(stack, Called(j)) \in Nat /\ PlaceIn(stack, Called(l)) \in Nat
        BY <1>4, <1>5, <2>4, <3>2
      <4>2. CASE j = l
        BY <4>1, <4>2
      <4>3. CASE j # l
        <5>1. j < l
          BY <1>3, <2>4, <4>3
        <5>2. PlaceIn(stack, Called(j)) < PlaceIn(stack, Called(l))
          BY <1>1, <1>2, <2>4, <3>2, <5>1 DEF Chain
        <5> QED BY <4>1, <5>2
      <4> QED BY <4>2, <4>3
    <3>4. Leads(Called(j), Called(l))
      BY <1>1, <1>7, <2>4, <3>1, <3>2, <3>3 DEF Down
    <3>5. Leads(Called(j), r)
      BY <3>2, <3>4, LeadsOn
    <3> QED BY <1>4, <2>4, <3>5
  <2> QED BY <1>3, <2>2, <2>3, <2>4
<1>11. Up'
  <2>1. SUFFICES ASSUME NEW n \in On' PROVE \E j \in 1..l + 1 : InSegment(n, j)' /\ Leads(n, Called(j)')
    BY <1>3, <1>6 DEF Up
  <2>2. CASE n = r
    <3>1. l + 1 \in 1..l + 1
      BY <1>3
    <3>2. InSegment(n, l + 1)'
      BY <1>2, <2>2, <3>1, EnteringSegments
    <3>3. Leads(n, Called(l + 1)')
      BY <1>4, <2>2, LeadsToItself
    <3> QED BY <3>1, <3>2, <3>3
  <2>3. CASE n \in On
    <3>1. PICK j \in 1..l : InSegment(n, j) /\ Leads(n, Called(j))
      BY <1>1, <1>7, <2>3 DEF Up
    <3>2. InSegment(n, j)'
      BY <1>2, <1>3, <2>3, <3>1, EnteringSegments
    <3> QED BY <1>3, <1>4, <3>1, <3>2
  <2> QED BY <1>3, <2>2, <2>3
<1>12. Lows'
  <2>1. SUFFICES ASSUME NEW n \in On', NEW i \in 1..l + 1, InSegment(n, i)', NEW e \in Positions(n),
                        Explored(n, e)', Asked(n, e) \in On', NEW j \in 1..i,
                        PlaceIn(stack', Asked(n, e)) < PlaceIn(stack', Called(j)')
                 PROVE  ancestor'[Called(i)'] < calls'[j].index
    BY <1>3, AskedStays DEF Lows
  <2>2. n \in On /\ Explored(n, e)
    BY <2>1, EnteringExplored
  <2>3. i \in 1..l /\ InSegment(n, i)
    BY <1>2, <1>3, <2>1, <2>2, EnteringSegments
  <2>4. j \in 1..l
    BY <1>3, <2>1, <2>3
  <2>5. Behind(P) /\ Lows /\ HasNext /\ r = Required
    BY <1>7, <2>2
  <2>6. r \notin P
    <3>1. status[r] = "linked"
      BY DEF Entering
    <3> QED BY <3>1 DEF Searched, Reached
  <2>7. Asked(n, e) \in On
    BY <1>3, <2>1, <2>2, <2>5, <2>6 DEF Behind
  <2>8. PlaceIn(stack, Asked(n, e)) < PlaceIn(stack, Called(j))
    BY <1>4, <1>5, <2>1, <2>4, <2>7
  <2>9. ~ TakesOver(n, i, j)
    BY <1>3, <2>5 DEF TakesOver
  <2>10. ancestor[Called(i)] < calls[j].index
    BY <1>1, <2>1, <2>2, <2>3, <2>5, <2>7, <2>8, <2>9 DEF Lows
  <2> QED BY <1>4, <1>5, <2>3, <2>4, <2>10
<1> QED BY <1>8, <1>9, <1>10, <1>11, <1>12

\* The last activation takes over the ancestor index of what it requires, and is
\* the last that can have anything to take over.
LEMMA TraceVisiting ==
  ASSUME Base, UNCHANGED graph, NEW P, Searched(P), Trace(P), phase = "evaluate",
         NEW deps \in Nat, Visiting(deps)
  PROVE  Behind(P)' /\ Lows' /\ Below' /\ Down' /\ Up'
<1>1. TypeOK /\ Once(stack) /\ Chain /\ OnStatus /\ Low /\ calls # <<>> /\ HasNext
  BY DEF Base, Visiting
<1>2. Moved(deps)
  BY VisitingKeeps
<1>3. PICK l, m, r : l = Len(calls) /\ m = Top.module /\ r = Required
  OBVIOUS
<1>4. /\ l \in Nat \ {0} /\ l \in 1..l /\ m = Called(l) /\ m \in Modules /\ m \in On /\ r \in Modules
      /\ Top.next \in Positions(m) /\ r = Asked(m, Top.next)
  BY <1>1, <1>3, TopIs, RequiredIs DEF Required, Positions, Asked
<1>5. ancestor \in [Modules -> Nat] /\ On \subseteq Modules /\ \A n \in On : PlaceIn(stack, n) \in Nat
  <2>1. On \subseteq Modules /\ \A n \in On : PlaceIn(stack, n) \in 1..Len(stack)
    BY <1>1, StackPlaces
  <2>2. ancestor \in [Modules -> Nat]
    BY <1>1 DEF TypeOK
  <2> QED BY <2>1, <2>2
<1>6. /\ r \in On \cup P
      /\ IF r \in On THEN LowerAncestor(m, r) ELSE UNCHANGED ancestor
  <2>1. IF status[r] = "evaluating" THEN LowerAncestor(m, r) ELSE UNCHANGED ancestor
    BY <1>3 DEF Visiting
  <2>2. status[r] = "evaluating" <=> r \in On
    BY <1>1, <1>4 DEF OnStatus
  <2>3. status[r] # "evaluating" => r \in P
    BY <1>3, <1>4 DEF Visiting, Searched
  <2> QED BY <2>1, <2>2, <2>3
<1>7. /\ On' = On /\ Len(calls') = l /\ stack' = stack
      /\ \A j \in 1..l : Called(j)' = Called(j) /\ calls'[j].index = calls[j].index /\ calls[j].index \in Nat
      /\ \A j \in 1..l : Called(j) \in On
  <2>1. \A j \in 1..l : calls[j] \in Call
    BY <1>1, <1>3, TopIs, ElementOfSeq
  <2> QED BY <1>1, <1>2, <1>3, <2>1 DEF Moved, Called, Chain, Call
<1>8. /\ \A n \in On : n # m => ancestor'[n] = ancestor[n]
      /\ \A n \in On : ancestor'[n] \in Nat /\ ancestor[n] \in Nat /\ ancestor'[n] <= ancestor[n]
      /\ ancestor'[m] = ancestor[m] \/ (r \in On /\ ancestor'[m] = ancestor[r])
      /\ r \in On => ancestor'[m] <= ancestor[r]
  BY <1>4, <1>5, <1>6 DEF LowerAncestor
<1>9. \A a, b : Leads(a, b)' <=> Leads(a, b)
  BY LeadsStays
<1>10. Behind(P) /\ Lows /\ Below /\ Down /\ Up
  BY DEF Trace
<1>11. ASSUME NEW n, NEW j \in 1..l PROVE InSegment(n, j)' <=> InSegment(n, j)
  <2>1. InSegment(n, j)' <=> /\ PlaceIn(stack, Called(j)') <= PlaceIn(stack, n)
                             /\ \A k \in 1..l : j < k => PlaceIn(stack, n) < PlaceIn(stack, Called(k)')
    BY <1>7 DEF InSegment
  <2>2. InSegment(n, j) <=> /\ PlaceIn(stack, Called(j)) <= PlaceIn(stack, n)
                            /\ \A k \in 1..l : j < k => PlaceIn(stack, n) < PlaceIn(stack, Called(k))
    BY <1>3 DEF InSegment
  <2> QED BY <1>7, <2>1, <2>2
<1>12. Behind(P)'
  <2>1. SUFFICES ASSUME NEW n \in On', NEW e \in Positions(n), Explored(n, e)'
                 PROVE  Asked(n, e) \in On' \cup P
    BY AskedStays DEF Behind
  <2>2. n \in On /\ (Explored(n, e) \/ (n = m /\ Asked(n, e) = r))
    BY <1>3, <2>1, VisitingExplored DEF Asked
  <2> QED BY <1>6, <1>7, <1>10, <2>1, <2>2 DEF Behind
<1>13. Below'
  <2>1. SUFFICES ASSUME NEW n \in On, NEW j \in 1..l, ancestor'[n] < calls[j].index
                 PROVE  \E p \in On : PlaceIn(stack, p) < PlaceIn(stack, Called(j)) /\ Leads(n, p)
    BY <1>7, <1>9 DEF Below
  <2>2. CASE ancestor'[n] = ancestor[n]
    BY <1>3, <1>10, <2>1, <2>2 DEF Below
  <2>3. CASE ancestor'[n] # ancestor[n]
    <3>1. n = m /\ r \in On /\ ancestor[r] < calls[j].index
      BY <1>8, <2>1, <2>3
    <3>2. PICK p \in On : PlaceIn(stack, p) < PlaceIn(stack, Called(j)) /\ Leads(r, p)
      BY <1>3, <1>10, <2>1, <3>1 DEF Below
    <3>3. Leads(n, p)
      <4>1. Leads(m, r)
        BY <1>1, <1>4, LeadsToAsked
      <4> QED BY <3>1, <3>2, <4>1, LeadsOn
    <3> QED BY <3>2, <3>3
  <2> QED BY <2>2, <2>3
<1>14. Down'
  BY <1>3, <1>7, <1>9, <1>10 DEF Down
<1>15. Up'
  <2>1. ASSUME NEW n \in On PROVE \E j \in 1..l : InSegment(n, j)' /\ Leads(n, Called(j)')
    <3>1. PICK j \in 1..l : InSegment(n, j) /\ Leads(n, Called(j))
      BY <1>3, <1>10, <2>1 DEF Up
    <3> QED BY <1>7, <1>11, <3>1
  <2> QED BY <1>7, <1>9, <2>1 DEF Up
<1>16. Lows'
  <2>1. SUFFICES ASSUME NEW n \in On, NEW i \in 1..l, InSegment(n, i), NEW e \in Positions(n),
                        Explored(n, e)', Asked(n, e) \in On, NEW j \in 1..i,
                        PlaceIn(stack, Asked(n, e)) < PlaceIn(stack, Called(j))
                 PROVE  ancestor'[Called(i)] < calls[j].index
    <3>1. \A i \in 1..l : \A j \in 1..i : j \in 1..l
      BY <1>4
    <3> QED BY <1>7, <1>11, <3>1, AskedStays DEF Lows
  <2>2. j \in 1..l /\ j \in 1..Len(calls) /\ i \in 1..Len(calls) /\ calls[j].index \in Nat /\ Called(i) \in On
    BY <1>3, <1>4, <1>7, <2>1
  <2>3. CASE Explored(n, e)
    <3>1. ancestor[Called(i)] < calls[j].index \/ TakesOver(n, i, j)
      BY <1>10, <2>1, <2>2, <2>3 DEF Lows
    <3>2. CASE ancestor[Called(i)] < calls[j].index
      BY <1>8, <2>2, <3>2
    <3>3. CASE TakesOver(n, i, j)
      <4>1. i = l /\ r \in On /\ ancestor[r] < calls[j].index
        BY <1>3, <3>3 DEF TakesOver
      <4> QED BY <1>4, <1>8, <2>2, <4>1
    <3> QED BY <3>1, <3>2, <3>3
  <2>4. CASE ~ Explored(n, e)
    <3>1. n = m /\ Asked(n, e) = r
      BY <1>3, <1>7, <2>1, <2>4, VisitingExplored DEF Asked
    <3>2. i = l
      <4>1. SUFFICES ASSUME i < l PROVE FALSE
        BY <1>4, <2>1
      <4>2. PlaceIn(stack, n) < PlaceIn(stack, Called(l))
        BY <1>3, <1>4, <2>1, <4>1 DEF InSegment
      <4> QED BY <1>4, <1>5, <3>1, <4>2
    <3>3. ancestor[r] < calls[j].index
      BY <1>1, <2>1, <2>2, <3>1 DEF Low
    <3> QED BY <1>4, <1>8, <2>1, <2>2, <3>1, <3>2, <3>3
  <2> QED BY <2>3, <2>4
<1> QED BY <1>12, <1>13, <1>14, <1>15, <1>16

\* What the return of an activation changes.
Returned(m, l) ==
  /\ l \in Nat \ {0} /\ l = Len(calls) /\ l \in 1..l /\ m = Top.module /\ m = Called(l) /\ m \in On /\ On \subseteq Modules
  /\ Top.index = calls[l].index /\ ~ HasNext /\ UNCHANGED ancestor
  /\ Len(calls') = l - 1
  /\ \A j \in 1..l : Called(j) \in On /\ calls[j].index \in Nat
  /\ \A j \in 1..l - 1 : /\ calls'[j] = calls[j] /\ Called(j)' = Called(j) /\ j \in 1..l /\ j # l
                         /\ PlaceIn(stack, Called(j)) < PlaceIn(stack, m)
  /\ \A j \in 1..l : j = l \/ j \in 1..l - 1
  /\ \A n \in On : PlaceIn(stack, n) \in Nat /\ ancestor[n] \in Nat
  /\ On' = IF ancestor[m] = calls[l].index THEN {n \in On : PlaceIn(stack, n) < PlaceIn(stack, m)} ELSE On
  /\ \A n \in On' : n \in On /\ PlaceIn(stack', n) = PlaceIn(stack, n)
  /\ \A j \in 1..l - 1 : Called(j) \in On'

\* A return takes the call away and, at the root of its cycle, the modules above it from the
\* stack.
LEMMA LeavingIs ==
  ASSUME Base, UNCHANGED graph, TypeOK', Leaving
  PROVE  Returned(Top.module, Len(calls))
<1>1. TypeOK /\ Once(stack) /\ Chain /\ calls # <<>> /\ ~ HasNext /\ UNCHANGED ancestor
  BY DEF Base, Leaving
<1>2. Popped
  BY LeavingKeeps
<1>3. PICK l, m : l = Len(calls) /\ m = Top.module
  OBVIOUS
<1>4. /\ l \in Nat \ {0} /\ l \in 1..l /\ m = Called(l) /\ m \in On /\ Top.index = calls[l].index
      /\ calls \in Seq(Call)
  BY <1>1, <1>3, TopIs, RequiredIs
<1>5. On \subseteq Modules /\ \A n \in On : PlaceIn(stack, n) \in Nat /\ ancestor[n] \in Nat
  <2>1. On \subseteq Modules /\ \A n \in On : PlaceIn(stack, n) \in 1..Len(stack)
    BY <1>1, StackPlaces
  <2>2. ancestor \in [Modules -> Nat]
    BY <1>1 DEF TypeOK
  <2> QED BY <2>1, <2>2
<1>6. \A j \in 1..l : Called(j) \in On /\ calls[j].index \in Nat
  <2>1. \A j \in 1..l : calls[j] \in Call
    BY <1>3, <1>4, ElementOfSeq
  <2> QED BY <1>1, <1>3, <2>1 DEF Chain, Call
<1>7. /\ \A j \in 1..l - 1 : j \in 1..l /\ j # l /\ j < l
      /\ \A j \in 1..l : j = l \/ j \in 1..l - 1
  BY <1>4
<1>8. \A j \in 1..l - 1 : PlaceIn(stack, Called(j)) < PlaceIn(stack, m)
  BY <1>1, <1>3, <1>4, <1>7 DEF Chain
<1>9. /\ Len(calls') = l - 1
      /\ \A j \in 1..l - 1 : calls'[j] = calls[j] /\ Called(j)' = Called(j)
      /\ On' = IF ancestor[m] = calls[l].index THEN {n \in On : PlaceIn(stack, n) < PlaceIn(stack, m)} ELSE On
      /\ \A n \in On' : PlaceIn(stack', n) = PlaceIn(stack, n)
  BY <1>2, <1>3, <1>4 DEF Popped, Called
<1>10. \A j \in 1..l - 1 : Called(j) \in On'
  BY <1>6, <1>7, <1>8, <1>9
<1>11. \A n \in On' : n \in On
  BY <1>9
<1> QED BY <1>1, <1>3, <1>4, <1>5, <1>6, <1>7, <1>8, <1>9, <1>10, <1>11 DEF Returned

\* What was pushed after the last activation is under it, and on a cycle with it.
LEMMA UnderTop ==
  ASSUME NEW m, NEW l, Returned(m, l), Up, Down, NEW n \in On, PlaceIn(stack, m) <= PlaceIn(stack, n)
  PROVE  InSegment(n, l) /\ Leads(n, m) /\ Leads(m, n)
<1>1. InSegment(n, l)
  BY DEF InSegment, Returned
<1>2. Leads(m, n)
  BY DEF Down, Returned
<1>3. PICK j \in 1..l : InSegment(n, j) /\ Leads(n, Called(j))
  BY DEF Up, Returned
<1>4. j = l
  <2>1. SUFFICES ASSUME j \in 1..l - 1 PROVE FALSE
    BY <1>3 DEF Returned
  <2>2. j < l /\ l \in 1..Len(calls) /\ m = Called(l)
    BY <2>1 DEF Returned
  <2>3. PlaceIn(stack, n) < PlaceIn(stack, m)
    BY <1>3, <2>2 DEF InSegment
  <2> QED BY <2>3 DEF Returned
<1> QED BY <1>1, <1>2, <1>3, <1>4 DEF Returned

\* When the root of a component returns, the activations below it and what is
\* under them stay as they were.
LEMMA TracePopping ==
  ASSUME Base, UNCHANGED graph, TypeOK', Leaving, NEW P, Behind(P), Lows, Below, Down, Up,
         NEW m, NEW l, Returned(m, l), ancestor[m] = calls[l].index, NEW Q, Q = P \cup (On \ On')
  PROVE  Behind(Q)' /\ Lows' /\ Below' /\ Down' /\ Up'
<1>1. /\ l = Len(calls) /\ Len(calls') = l - 1 /\ l \in Nat
      /\ \A j \in 1..l - 1 : /\ calls'[j] = calls[j] /\ Called(j)' = Called(j) /\ j \in 1..l /\ j # l
                             /\ PlaceIn(stack, Called(j)) < PlaceIn(stack, m)
                             /\ Called(j) \in On' /\ Called(j) \in On
      /\ On' = {n \in On : PlaceIn(stack, n) < PlaceIn(stack, m)}
      /\ \A n \in On' : n \in On /\ PlaceIn(stack', n) = PlaceIn(stack, n)
      /\ \A n \in On : PlaceIn(stack, n) \in Nat
      /\ m \in On /\ m = Called(l) /\ UNCHANGED ancestor
  BY DEF Returned
<1>2. \A a, b : Leads(a, b)' <=> Leads(a, b)
  BY LeadsStays
<1>3. ASSUME NEW n \in On', NEW j \in 1..l - 1 PROVE InSegment(n, j)' <=> InSegment(n, j)
  <2>1. InSegment(n, j)' <=> /\ PlaceIn(stack, Called(j)) <= PlaceIn(stack, n)
                             /\ \A k \in 1..l - 1 : j < k => PlaceIn(stack, n) < PlaceIn(stack, Called(k))
    BY <1>1 DEF InSegment
  <2>2. InSegment(n, j) <=> /\ PlaceIn(stack, Called(j)) <= PlaceIn(stack, n)
                            /\ \A k \in 1..l : j < k => PlaceIn(stack, n) < PlaceIn(stack, Called(k))
    BY <1>1 DEF InSegment
  <2>3. PlaceIn(stack, n) < PlaceIn(stack, Called(l))
    BY <1>1
  <2>4. \A k \in 1..l : k = l \/ k \in 1..l - 1
    BY <1>1
  <2> QED BY <1>1, <2>1, <2>2, <2>3, <2>4
<1>4. Behind(Q)'
  <2>1. SUFFICES ASSUME NEW n \in On', NEW e \in Positions(n), Explored(n, e)'
                 PROVE  Asked(n, e) \in On' \cup Q
    BY AskedStays DEF Behind
  <2>2. n \in On /\ Explored(n, e)
    BY <2>1, LeavingExplored
  <2>3. Asked(n, e) \in On \cup P
    BY <2>1, <2>2 DEF Behind
  <2> QED BY <2>3
<1>5. Below'
  <2>1. SUFFICES ASSUME NEW n \in On', NEW j \in 1..l - 1, ancestor[n] < calls[j].index
                 PROVE  \E p \in On' : PlaceIn(stack', p) < PlaceIn(stack', Called(j)) /\ Leads(n, p)
    BY <1>1, <1>2 DEF Below
  <2>2. PICK p \in On : PlaceIn(stack, p) < PlaceIn(stack, Called(j)) /\ Leads(n, p)
    BY <1>1, <2>1 DEF Below
  <2>3. p \in On'
    BY <1>1, <2>1, <2>2
  <2> QED BY <1>1, <2>1, <2>2, <2>3
<1>6. Down'
  BY <1>1, <1>2 DEF Down
<1>7. Up'
  <2>1. ASSUME NEW n \in On' PROVE \E j \in 1..l - 1 : InSegment(n, j)' /\ Leads(n, Called(j)')
    <3>1. PICK j \in 1..l : InSegment(n, j) /\ Leads(n, Called(j))
      BY <1>1, <2>1 DEF Up
    <3>2. j # l
      BY <1>1, <2>1, <3>1 DEF InSegment
    <3>3. j \in 1..l - 1
      BY <1>1, <3>1, <3>2
    <3> QED BY <1>1, <1>3, <2>1, <3>1, <3>3
  <2> QED BY <1>1, <1>2, <2>1 DEF Up
<1>8. Lows'
  <2>1. SUFFICES ASSUME NEW n \in On', NEW i \in 1..l - 1, InSegment(n, i)', NEW e \in Positions(n),
                        Explored(n, e)', Asked(n, e) \in On', NEW j \in 1..i,
                        PlaceIn(stack', Asked(n, e)) < PlaceIn(stack', Called(j)')
                 PROVE  ancestor[Called(i)'] < calls'[j].index
    BY <1>1, AskedStays DEF Lows
  <2>2. j \in 1..l - 1 /\ i \in 1..l /\ i # l
    BY <1>1, <2>1
  <2>3. n \in On /\ Explored(n, e) /\ InSegment(n, i)
    BY <1>3, <2>1, LeavingExplored
  <2>4. Asked(n, e) \in On /\ PlaceIn(stack, Asked(n, e)) < PlaceIn(stack, Called(j))
    BY <1>1, <2>1, <2>2
  <2>5. ancestor[Called(i)] < calls[j].index \/ TakesOver(n, i, j)
    BY <1>1, <2>1, <2>2, <2>3, <2>4 DEF Lows
  <2> QED BY <1>1, <2>1, <2>2, <2>5 DEF TakesOver
<1> QED BY <1>4, <1>5, <1>6, <1>7, <1>8

\* When another activation returns, what was under it is under the one that
\* requires it, and leads back there.
LEMMA TraceStaying ==
  ASSUME Base, UNCHANGED graph, TypeOK', Leaving, NEW P, Behind(P), Lows, Below, Down, Up,
         NEW m, NEW l, Returned(m, l), ancestor[m] # calls[l].index
  PROVE  Behind(P)' /\ Lows' /\ Below' /\ Down' /\ Up'
<1>1. /\ l = Len(calls) /\ Len(calls') = l - 1 /\ l \in Nat \ {0} /\ l \in 1..l
      /\ \A j \in 1..l - 1 : /\ calls'[j] = calls[j] /\ Called(j)' = Called(j) /\ j \in 1..l /\ j # l
                             /\ PlaceIn(stack, Called(j)) < PlaceIn(stack, m) /\ Called(j) \in On
      /\ On' = On
      /\ \A n \in On : PlaceIn(stack', n) = PlaceIn(stack, n) /\ PlaceIn(stack, n) \in Nat /\ ancestor[n] \in Nat
      /\ m \in On /\ m = Called(l) /\ UNCHANGED ancestor /\ ~ HasNext /\ calls[l].index \in Nat
      /\ m \in Modules
  BY DEF Returned
<1>2. Chain /\ Low /\ TypeOK /\ calls # <<>>
  BY DEF Base, Leaving
<1>3. ancestor[m] < calls[l].index
  BY <1>1, <1>2 DEF Low
<1>4. l - 1 \in 1..l - 1 /\ l - 1 < l
  <2>1. l # 1
    <3>1. SUFFICES ASSUME l = 1 PROVE FALSE
      OBVIOUS
    <3>2. calls[l].index = 0
      BY <1>2, <3>1 DEF Chain
    <3> QED BY <1>1, <1>3, <3>2
  <2> QED BY <1>1, <2>1
<1>5. \A a, b : Leads(a, b)' <=> Leads(a, b)
  BY LeadsStays
<1>6. \A j \in 1..l - 1 : PlaceIn(stack, Called(j)) <= PlaceIn(stack, Called(l - 1))
  <2>1. SUFFICES ASSUME NEW j \in 1..l - 1 PROVE PlaceIn(stack, Called(j)) <= PlaceIn(stack, Called(l - 1))
    OBVIOUS
  <2>2. CASE j = l - 1
    BY <1>1, <1>4, <2>2
  <2>3. CASE j # l - 1
    <3>1. j < l - 1 /\ j \in 1..l /\ l - 1 \in 1..l
      <4>1. l \in Nat \ {0} /\ j \in 1..l - 1
        BY <1>1, <2>1
      <4> QED BY ONLY <1>4, <2>3, <4>1
    <3>2. PlaceIn(stack, Called(j)) < PlaceIn(stack, Called(l - 1))
      <4>1. l = Len(calls)
        BY <1>1
      <4> QED BY <1>2, <3>1, <4>1 DEF Chain
    <3> QED BY <1>1, <1>4, <3>2
  <2> QED BY <2>2, <2>3
<1>7. Leads(m, Called(l - 1))
  <2>1. PICK p \in On : PlaceIn(stack, p) < PlaceIn(stack, m) /\ Leads(m, p)
    BY <1>1, <1>3 DEF Below
  <2>2. PICK j \in 1..l : InSegment(p, j) /\ Leads(p, Called(j))
    BY <1>1, <2>1 DEF Up
  <2>3. j # l
    <3>1. SUFFICES ASSUME j = l PROVE FALSE
      OBVIOUS
    <3>2. PlaceIn(stack, m) <= PlaceIn(stack, p)
      BY <1>1, <2>2, <3>1 DEF InSegment
    <3>3. PlaceIn(stack, m) \in Nat /\ PlaceIn(stack, p) \in Nat
      BY <1>1, <2>1
    <3> QED BY ONLY <2>1, <3>2, <3>3
  <2>4. j \in 1..l - 1
    BY <1>1, <2>2, <2>3
  <2>5. Leads(Called(j), Called(l - 1))
    BY <1>1, <1>4, <1>6, <2>4 DEF Down
  <2>6. Leads(m, Called(j))
    BY <2>1, <2>2, LeadsOn
  <2> QED BY <2>5, <2>6, LeadsOn
<1>8. ASSUME NEW n \in On, NEW j \in 1..l - 1
      PROVE  /\ InSegment(n, j) => InSegment(n, j)'
             /\ InSegment(n, l) => InSegment(n, l - 1)'
             /\ InSegment(n, j)' => InSegment(n, j) \/ (j = l - 1 /\ InSegment(n, l))
  <2>1. \A i \in 1..l - 1 :
          InSegment(n, i)' <=> /\ PlaceIn(stack, Called(i)) <= PlaceIn(stack, n)
                               /\ \A k \in 1..l - 1 : i < k => PlaceIn(stack, n) < PlaceIn(stack, Called(k))
    <3>1. SUFFICES ASSUME NEW i \in 1..l - 1
                   PROVE  InSegment(n, i)' <=>
                            /\ PlaceIn(stack, Called(i)) <= PlaceIn(stack, n)
                            /\ \A k \in 1..l - 1 : i < k => PlaceIn(stack, n) < PlaceIn(stack, Called(k))
      OBVIOUS
    <3>2. InSegment(n, i)' <=> /\ PlaceIn(stack', Called(i)') <= PlaceIn(stack', n)
                               /\ \A k \in 1..l - 1 : i < k => PlaceIn(stack', n) < PlaceIn(stack', Called(k)')
      BY <1>1 DEF InSegment
    <3>3. \A k \in 1..l - 1 : PlaceIn(stack', Called(k)') = PlaceIn(stack, Called(k))
      BY <1>1
    <3>4. PlaceIn(stack', n) = PlaceIn(stack, n)
      BY <1>1, <1>8
    <3> QED BY ONLY <3>1, <3>2, <3>3, <3>4
  <2>2. \A i \in 1..l :
          InSegment(n, i) <=> /\ PlaceIn(stack, Called(i)) <= PlaceIn(stack, n)
                              /\ \A k \in 1..l : i < k => PlaceIn(stack, n) < PlaceIn(stack, Called(k))
    BY <1>1 DEF InSegment
  <2>3. \A k \in 1..l : k = l \/ k \in 1..l - 1
    BY <1>1
  <2>4. InSegment(n, j) => InSegment(n, j)'
    BY <1>1, <2>1, <2>2
  <2>5. InSegment(n, l) => InSegment(n, l - 1)'
    <3>1. SUFFICES ASSUME PlaceIn(stack, m) <= PlaceIn(stack, n) PROVE InSegment(n, l - 1)'
      BY <1>1, <2>2
    <3>2. \A k \in 1..l - 1 : ~ (l - 1 < k)
      BY <1>1
    <3>3. PlaceIn(stack, Called(l - 1)) <= PlaceIn(stack, n)
      BY <1>1, <1>4, <3>1
    <3> QED BY <1>4, <2>1, <3>2, <3>3
  <2>6. ASSUME InSegment(n, j)' PROVE InSegment(n, j) \/ (j = l - 1 /\ InSegment(n, l))
    <3>1. CASE PlaceIn(stack, n) < PlaceIn(stack, m)
      BY <1>1, <2>1, <2>2, <2>3, <2>6, <3>1
    <3>2. CASE ~ (PlaceIn(stack, n) < PlaceIn(stack, m))
      <4>1. PlaceIn(stack, m) <= PlaceIn(stack, n) /\ \A k \in 1..l : ~ (l < k)
        BY <1>1, <3>2
      <4>2. InSegment(n, l)
        BY <1>1, <2>2, <4>1
      <4>3. j = l - 1
        <5>1. SUFFICES ASSUME j < l - 1 PROVE FALSE
          BY <1>1, <1>8
        <5>2. PlaceIn(stack, n) < PlaceIn(stack, Called(l - 1))
          BY <1>4, <2>1, <2>6, <5>1
        <5> QED BY <1>1, <1>4, <4>1, <5>2
      <4> QED BY <4>2, <4>3
    <3> QED BY <3>1, <3>2
  <2> QED BY <2>4, <2>5, <2>6
<1>9. Behind(P)'
  <2>1. SUFFICES ASSUME NEW n \in On', NEW e \in Positions(n), Explored(n, e)'
                 PROVE  Asked(n, e) \in On' \cup P
    BY AskedStays DEF Behind
  <2>2. n \in On /\ Explored(n, e)
    BY <2>1, LeavingExplored
  <2> QED BY <1>1, <2>1, <2>2 DEF Behind
<1>10. Below'
  <2>1. SUFFICES ASSUME NEW n \in On, NEW j \in 1..l - 1, ancestor[n] < calls[j].index
                 PROVE  \E p \in On : PlaceIn(stack', p) < PlaceIn(stack', Called(j)) /\ Leads(n, p)
    BY <1>1, <1>5 DEF Below
  <2>2. PICK p \in On : PlaceIn(stack, p) < PlaceIn(stack, Called(j)) /\ Leads(n, p)
    BY <1>1, <2>1 DEF Below
  <2> QED BY <1>1, <2>1, <2>2
<1>11. Down'
  BY <1>1, <1>5 DEF Down
<1>12. Up'
  <2>1. ASSUME NEW n \in On PROVE \E j \in 1..l - 1 : InSegment(n, j)' /\ Leads(n, Called(j)')
    <3>1. PICK j \in 1..l : InSegment(n, j) /\ Leads(n, Called(j))
      BY <1>1, <2>1 DEF Up
    <3>2. CASE j \in 1..l - 1
      BY <1>1, <1>8, <2>1, <3>1, <3>2
    <3>3. CASE j = l
      <4>1. InSegment(n, l - 1)'
        BY <1>4, <1>8, <2>1, <3>1, <3>3
      <4>2. Leads(n, Called(l - 1))
        BY <1>1, <1>7, <3>1, <3>3, LeadsOn
      <4> QED BY <1>1, <1>4, <4>1, <4>2
    <3> QED BY <1>1, <3>2, <3>3
  <2> QED BY <1>1, <1>5, <2>1 DEF Up
<1>13. /\ HasNext' /\ Required' = m
  <2>1. PICK c : c = calls'
    OBVIOUS
  <2>2. c \in Seq(Call) /\ c # <<>> /\ Len(c) = l - 1
    <3>1. c \in Seq(Call) /\ Len(c) = l - 1
      BY <1>1, <2>1 DEF TypeOK, Call
    <3> QED BY <1>4, <3>1, EmptySeq
  <2>3. Last(c) = c[l - 1]
    BY <2>2, FrontFacts
  <2>4. Top' = calls[l - 1]
    BY <1>1, <1>4, <2>1, <2>3 DEF Top
  <2>5. /\ calls[l - 1].next \in 1..Len(Requests(Called(l - 1)))
        /\ Requests(Called(l - 1))[calls[l - 1].next] = Called(l - 1 + 1) /\ l - 1 + 1 = l
    <3>1. l - 1 \in 1..Len(calls) /\ l - 1 < Len(calls) /\ l - 1 + 1 = l
      <4>1. l = Len(calls) /\ l \in Nat \ {0}
        BY <1>1
      <4> QED BY ONLY <1>4, <4>1
    <3>2. PICK k : k = l - 1
      OBVIOUS
    <3>3. /\ calls[k].next \in 1..Len(Requests(Called(k)))
          /\ Requests(Called(k))[calls[k].next] = Called(k + 1)
      BY <1>2, <3>1, <3>2 DEF Chain
    <3> QED BY <3>1, <3>2, <3>3
  <2>6. Top'.module = Called(l - 1) /\ Requests(Called(l - 1))' = Requests(Called(l - 1))
    BY <1>1, <1>4, <2>4 DEF Called, Requests
  <2>7. Requests(Called(l - 1)) \in Seq(Modules)
    <3>1. Called(l - 1) \in Modules
      BY <1>1, <1>4 DEF Returned
    <3> QED BY <1>2, <3>1 DEF TypeOK, Requests
  <2>8. Requests(Top.module)' = Requests(Called(l - 1))
    BY <2>4, <2>6 DEF Requests, Called
  <2> QED BY <1>1, <2>4, <2>5, <2>7, <2>8 DEF HasNext, Required
<1>14. Lows'
  <2>1. SUFFICES ASSUME NEW n \in On', NEW i \in 1..l - 1, InSegment(n, i)', NEW e \in Positions(n),
                        Explored(n, e)', Asked(n, e) \in On', NEW j \in 1..i,
                        PlaceIn(stack', Asked(n, e)) < PlaceIn(stack', Called(j)')
                 PROVE  ancestor'[Called(i)'] < calls'[j].index \/ TakesOver(n, i, j)'
    BY <1>1, AskedStays DEF Lows
  <2>2. j \in 1..l - 1 /\ i \in 1..l /\ i # l
    BY <1>1, <2>1
  <2>3. /\ n \in On /\ Explored(n, e) /\ Asked(n, e) \in On
        /\ PlaceIn(stack, Asked(n, e)) < PlaceIn(stack, Called(j))
    BY <1>1, <2>1, <2>2, LeavingExplored
  <2>4. CASE InSegment(n, i)
    <3>1. ancestor[Called(i)] < calls[j].index \/ TakesOver(n, i, j)
      BY <1>1, <2>1, <2>2, <2>3, <2>4 DEF Lows
    <3> QED BY <1>1, <2>2, <3>1 DEF TakesOver
  <2>5. CASE i = l - 1 /\ InSegment(n, l)
    <3>1. j \in 1..l
      BY <1>1, <2>2
    <3>2. ancestor[m] < calls[j].index \/ TakesOver(n, l, j)
      BY <1>1, <2>1, <2>3, <2>5, <3>1 DEF Lows
    <3>3. ancestor[m] < calls[j].index
      BY <1>1, <3>2 DEF TakesOver
    <3>4. PlaceIn(stack, m) <= PlaceIn(stack, n)
      BY <1>1, <2>5 DEF InSegment
    <3>5. /\ PlaceIn(stack', Called(i)') < PlaceIn(stack', m) /\ PlaceIn(stack', m) <= PlaceIn(stack', n)
          /\ i = Len(calls') /\ ancestor'[m] < calls'[j].index
      BY <1>1, <1>4, <2>2, <2>5, <3>3, <3>4
    <3>6. TakesOver(n, i, j)'
      BY <1>1, <1>13, <3>5 DEF TakesOver
    <3> QED BY <3>6
  <2> QED BY <1>8, <2>1, <2>3, <2>4, <2>5
<1> QED BY <1>9, <1>10, <1>11, <1>12, <1>14

\* When the root of a component returns, the component is the modules of one
\* cycle, or one module, and has nothing behind it that is left on the stack.
LEMMA SearchedPopping ==
  ASSUME Base, UNCHANGED graph, TypeOK', Leaving, phase = "evaluate",
         NEW P, Searched(P), Roots, Behind(P), Lows, Down, Up,
         NEW m, NEW l, Returned(m, l), ancestor[m] = calls[l].index, NEW Q, Q = P \cup (On \ On')
  PROVE  Searched(Q)' /\ Roots'
<1>1. /\ m = Top.module /\ Top.index = calls[l].index /\ l = Len(calls) /\ l \in 1..l /\ m = Called(l)
      /\ On' = {n \in On : PlaceIn(stack, n) < PlaceIn(stack, m)} /\ m \in On /\ On \subseteq Modules
      /\ \A n \in On : PlaceIn(stack, n) \in Nat
      /\ ~ HasNext
  BY DEF Returned
<1>2. TypeOK /\ Once(stack) /\ OnStatus
  BY DEF Base
<1>3. PICK D : D = On \ On'
  OBVIOUS
<1>4. D \subseteq On /\ D \subseteq Modules /\ m \in D /\ \A n \in On : n \in D <=> PlaceIn(stack, m) <= PlaceIn(stack, n)
  BY <1>1, <1>3
<1>5. Component(Top.module) = D
  <2>1. Component(m) = {n \in On : PlaceIn(stack, m) <= PlaceIn(stack, n)}
    BY <1>1, <1>2, ComponentIs
  <2> QED BY <1>1, <1>4, <2>1
<1>6. \A n \in Modules : /\ root'[n] = IF n \in D THEN m ELSE root[n]
                         /\ n \in D => Reached(n)' /\ ~ Reached(n)
                         /\ n \notin D => status'[n] = status[n]
                         /\ failed'[n] = failed[n]
  <2>1. \A n \in D : status[n] = "evaluating"
    BY <1>2, <1>4 DEF OnStatus
  <2> QED BY <1>1, <1>5, <2>1 DEF Leaving, Reached
<1>7. /\ \A a, b : Leads(a, b)' <=> Leads(a, b)
      /\ \A S : Closed(graph, S)' <=> Closed(graph, S)
  BY LeadsStays
<1>8. \A n \in D : InSegment(n, l) /\ Leads(n, m) /\ Leads(m, n)
  BY <1>4, UnderTop
<1>9. Q \subseteq Modules /\ Q = P \cup D
  BY <1>3, <1>4 DEF Searched
<1>10. ASSUME NEW n \in D, NEW e \in Positions(n) PROVE Asked(n, e) \in Q
  <2>1. n \in On /\ n \in On \ On'
    BY <1>3, <1>4, <1>10
  <2>2. Explored(n, e)
    BY <1>10, <2>1, LeftExplored
  <2>3. Asked(n, e) \in On \cup P
    BY <1>10, <2>1, <2>2 DEF Behind
  <2>4. SUFFICES ASSUME Asked(n, e) \in On, Asked(n, e) \notin D PROVE FALSE
    BY <1>9, <2>3
  <2>5. PlaceIn(stack, Asked(n, e)) < PlaceIn(stack, Called(l))
    BY <1>1, <1>4, <2>4
  <2>6. ancestor[Called(l)] < calls[l].index \/ TakesOver(n, l, l)
    BY <1>1, <1>8, <1>10, <2>1, <2>2, <2>4, <2>5 DEF Lows
  <2>7. ancestor[m] \in Nat
    BY <1>1, <1>2 DEF TypeOK
  <2> QED BY <1>1, <2>6, <2>7 DEF TakesOver
<1>11. Closed(graph, Q)
  <2>1. ASSUME NEW n \in D, NEW x \in ToSet(graph.requests[n]) PROVE x \in Q
    <3>1. Requests(n) \in Seq(Modules) /\ Requests(n) = graph.requests[n]
      BY <1>2, <1>4, <2>1 DEF TypeOK, Requests
    <3>2. PICK e \in 1..Len(Requests(n)) : Requests(n)[e] = x
      BY <2>1, <3>1, ToSetFacts
    <3> QED BY <1>10, <2>1, <3>2 DEF Positions, Asked
  <2>2. \A n \in P : ToSet(graph.requests[n]) \subseteq P
    BY DEF Searched, Closed
  <2> QED BY <1>9, <2>1, <2>2 DEF Closed
<1>12. \A n \in Modules : (n \in Q => Reached(n)') /\ (Reached(n)' /\ ~ failed'[n] => n \in Q)
  BY <1>6, <1>9 DEF Searched, Reached
<1>13. P \cap D = {} /\ P \subseteq Modules
  BY <1>4, <1>6 DEF Searched
<1>14. ASSUME NEW a \in Q, NEW b \in Q, Leads(a, b), Leads(b, a) PROVE root'[a] = root'[b]
  <2>1. a \in P <=> b \in P
    BY <1>14 DEF Leads, Searched
  <2>2. CASE a \in P
    BY <1>6, <1>13, <1>14, <2>1, <2>2 DEF Searched
  <2>3. CASE a \notin P
    BY <1>4, <1>6, <1>9, <1>14, <2>1, <2>3
  <2> QED BY <2>2, <2>3
<1>15. Roots'
  BY <1>6, <1>7, <1>8 DEF Roots
<1> QED BY <1>7, <1>9, <1>11, <1>12, <1>14, <1>15 DEF Searched

\* Any other step leaves the cycle roots alone.
LEMMA SearchedStays ==
  ASSUME UNCHANGED <<graph, root>>, NEW P, Searched(P), Roots,
         \A n \in Modules : /\ Reached(n) => Reached(n)'
                            /\ Reached(n)' /\ ~ failed'[n] => Reached(n)
                            /\ failed[n] => failed'[n]
  PROVE  Searched(P)' /\ Roots'
<1>1. /\ \A a, b : Leads(a, b)' <=> Leads(a, b)
      /\ \A S : Closed(graph, S)' <=> Closed(graph, S)
  BY LeadsStays
<1>2. Roots'
  BY <1>1 DEF Roots
<1>3. \A n \in Modules : (n \in P => Reached(n)') /\ (Reached(n)' /\ ~ failed'[n] => n \in P)
  BY DEF Searched
<1> QED BY <1>1, <1>2, <1>3 DEF Searched

\* Something holds what evaluate has left with a cycle root, and the search traces it.
Found == Roots /\ \E P : Searched(P) /\ Trace(P)

\* Every step of the evaluating search keeps the argument that its cycle roots are right.
LEMMA FoundKept ==
  ASSUME Base, Found, Next
  PROVE  Found'
<1>1. Kinds /\ UNCHANGED graph /\ TypeOK' /\ (graph \in Graphs)' /\ OnStatus /\ Clean /\ TypeOK /\ Once(stack)
  BY ActionKinds, GraphStays, TypesKept DEF Base
<1>2. PICK P : Searched(P) /\ Trace(P)
  BY DEF Found
<1>3. Roots
  BY DEF Found
<1>4. \A n \in Modules : Reached(n) => n \notin On
  BY OffStack DEF Reached
<1>5. ASSUME NEW r \in Modules, NEW p \in {"link", "evaluate"}, NEW s \in {"linking", "evaluating"}, Entering(r, p, s)
      PROVE  Found'
  <2>1. \A n \in Modules : (Reached(n)' <=> Reached(n)) /\ failed'[n] = failed[n]
    <3>1. status \in [Modules -> Statuses]
      BY <1>1 DEF TypeOK
    <3> QED BY <1>5, <3>1 DEF Entering, Enter, Reached
  <2>2. Searched(P)' /\ Roots'
    BY <1>1, <1>2, <1>3, <1>5, <2>1, SearchedStays DEF Entering
  <2>3. p = "evaluate" => Trace(P)'
    BY <1>1, <1>2, <1>5, TraceEntering DEF Trace
  <2>4. p # "evaluate" => Trace(P)'
    BY <1>5 DEF Entering, Trace
  <2> QED BY <2>2, <2>3, <2>4 DEF Found
<1>6. ASSUME NEW deps \in Nat, Visiting(deps) PROVE Found'
  <2>1. \A n \in Modules : (Reached(n)' <=> Reached(n)) /\ failed'[n] = failed[n]
    BY <1>6 DEF Visiting, Reached
  <2>2. Searched(P)' /\ Roots'
    BY <1>1, <1>2, <1>3, <1>6, <2>1, SearchedStays DEF Visiting
  <2>3. Trace(P)'
    <3>1. phase = "evaluate" => Trace(P)'
      BY <1>1, <1>2, <1>6, TraceVisiting DEF Trace
    <3>2. phase # "evaluate" => Trace(P)'
      BY <1>6 DEF Visiting, Trace
    <3> QED BY <3>1, <3>2
  <2> QED BY <2>2, <2>3 DEF Found
<1>7. CASE Leaving
  <2>1. PICK l, m : l = Len(calls) /\ m = Top.module /\ Returned(m, l)
    BY <1>1, <1>7, LeavingIs
  <2>2. phase' = "evaluate" => phase = "evaluate"
    BY <1>7 DEF Leaving, Leave
  <2>3. phase \in {"link", "evaluate"}
    BY <1>1, <1>7 DEF Leaving, Clean
  <2>4. Component(Top.module) \subseteq On /\ m \in On /\ On \subseteq Modules
    BY <1>1, <2>1, ComponentIs DEF Returned
  <2>5. CASE phase = "evaluate" /\ ancestor[m] = calls[l].index
    <3>1. PICK Q : Q = P \cup (On \ On')
      OBVIOUS
    <3>2. Behind(P) /\ Lows /\ Below /\ Down /\ Up
      BY <1>2, <2>5 DEF Trace
    <3>3. Searched(Q)' /\ Roots'
      BY <1>1, <1>2, <1>3, <1>7, <2>1, <2>5, <3>1, <3>2, SearchedPopping
    <3>4. Trace(Q)'
      BY <1>1, <1>7, <2>1, <2>5, <3>1, <3>2, TracePopping DEF Trace
    <3> QED BY <3>3, <3>4 DEF Found
  <2>6. CASE phase # "evaluate"
    <3>1. \A n \in Modules : (Reached(n)' <=> Reached(n)) /\ failed'[n] = failed[n]
      BY <1>4, <1>7, <2>1, <2>3, <2>4, <2>6 DEF Leaving, Reached
    <3>2. UNCHANGED root
      BY <1>7, <2>6 DEF Leaving
    <3>3. Searched(P)' /\ Roots'
      BY <1>1, <1>2, <1>3, <3>1, <3>2, SearchedStays
    <3> QED BY <2>2, <2>6, <3>3 DEF Found, Trace
  <2>7. CASE phase = "evaluate" /\ ancestor[m] # calls[l].index
    <3>1. Behind(P) /\ Lows /\ Below /\ Down /\ Up
      BY <1>2, <2>7 DEF Trace
    <3>2. Trace(P)'
      BY <1>1, <1>7, <2>1, <2>7, <3>1, TraceStaying DEF Trace
    <3>3. ancestor[Top.module] # Top.index
      BY <2>1, <2>7 DEF Returned
    <3>4. \A n \in Modules : (Reached(n)' <=> Reached(n)) /\ failed'[n] = failed[n] /\ root'[n] = root[n]
      BY <1>7, <2>7, <3>3 DEF Leaving, Reached
    <3>5. UNCHANGED root
      <4>1. root \in [Modules -> Modules] /\ root' \in [Modules -> Modules]
        BY <1>1 DEF TypeOK
      <4> QED BY <3>4, <4>1
    <3>6. Searched(P)' /\ Roots'
      BY <1>1, <1>2, <1>3, <3>4, <3>5, SearchedStays
    <3> QED BY <3>2, <3>6 DEF Found
  <2> QED BY <2>5, <2>6, <2>7
<1>8. CASE Abandoning
  <2>1. phase \in {"link", "evaluate"} /\ phase' = "idle"
    BY <1>1, <1>8 DEF Abandoning, Abandon, Clean
  <2>2. \A n \in Modules : /\ Reached(n) => Reached(n)'
                           /\ Reached(n)' /\ ~ failed'[n] => Reached(n)
                           /\ failed[n] => failed'[n]
    BY <1>4, <1>8, <2>1 DEF Abandoning, Reached
  <2>3. Searched(P)' /\ Roots'
    BY <1>1, <1>2, <1>3, <1>8, <2>2, SearchedStays DEF Abandoning
  <2> QED BY <2>1, <2>3 DEF Found, Trace
<1>9. CASE Resting
  <2>1. \A n \in Modules : /\ Reached(n) => Reached(n)'
                           /\ Reached(n)' /\ ~ failed'[n] => Reached(n)
                           /\ failed[n] => failed'[n]
    BY <1>9 DEF Resting, Reached
  <2>2. Searched(P)' /\ Roots'
    BY <1>1, <1>2, <1>3, <1>9, <2>1, SearchedStays DEF Resting
  <2> QED BY <1>9, <2>2 DEF Found, Trace, Resting
<1> QED BY <1>1, <1>5, <1>6, <1>7, <1>8, <1>9 DEF Kinds

\* What a module imports, directly or not, is what it leads to besides itself.
LEMMA ReachesIs ==
  ASSUME TypeOK, NEW m \in Modules, NEW n \in Modules
  PROVE  Leads(m, n) <=> m = n \/ n \in Reaches[m]
<1>1. n \in Reaches[m] <=>
        \A S \in SUBSET Modules : Closed(graph, S) /\ ToSet(Requests(m)) \subseteq S => n \in S
  BY DEF Reaches, Closed, Requests
<1>2. ASSUME n \in Reaches[m] PROVE Leads(m, n)
  BY <1>1, <1>2 DEF Leads, Closed, Requests
<1>3. ASSUME Leads(m, n), m # n PROVE n \in Reaches[m]
  <2>1. SUFFICES ASSUME NEW S \in SUBSET Modules, Closed(graph, S), ToSet(Requests(m)) \subseteq S
                 PROVE  n \in S
    BY <1>1
  <2>2. Closed(graph, S \cup {m})
    BY <2>1 DEF Closed, Requests
  <2> QED BY <1>3, <2>2 DEF Leads
<1>4. Leads(m, m)
  BY LeadsToItself
<1> QED BY <1>2, <1>3, <1>4

\* The empty search has found what there is.
LEMMA FoundInit ==
  ASSUME Init
  PROVE  Found
<1>1. Roots
  BY LeadsToItself DEF Init, Roots
<1>2. Searched({}) /\ Trace({})
  BY DEF Init, Searched, Trace, Closed, Reached
<1> QED BY <1>1, <1>2 DEF Found

\* The same with the steps in which nothing happens.
LEMMA FoundNext ==
  ASSUME Base, Found, [Next]_vars
  PROVE  Found'
<1>1. SUFFICES ASSUME UNCHANGED vars PROVE Found'
  BY FoundKept
<1>2. UNCHANGED <<graph, status, ancestor, root, failed, phase, calls, stack>>
  BY <1>1 DEF vars, search
<1>3. PICK P : Searched(P) /\ Trace(P)
  BY <1>1 DEF Found
<1>4. /\ \A m, n : Leads(m, n)' <=> Leads(m, n)
      /\ \A S : Closed(graph, S)' <=> Closed(graph, S)
  BY <1>2, LeadsStays
<1>5. Searched(P)' /\ Roots'
  BY <1>1, <1>2, <1>3, SearchedStays DEF Found, Reached
<1>6. Trace(P)'
  <2>1. /\ UNCHANGED On /\ \A j : Called(j)' = Called(j)
        /\ \A n : Positions(n)' = Positions(n) /\ \A e : Asked(n, e)' = Asked(n, e)
    BY <1>2 DEF On, Called, Positions, Asked, Requests
  <2>2. /\ (HasNext' <=> HasNext) /\ Required' = Required
    BY <1>2 DEF HasNext, Required, Top, Requests
  <2>3. /\ \A n, e : Explored(n, e)' <=> Explored(n, e)
        /\ \A n, j : InSegment(n, j)' <=> InSegment(n, j)
    BY <1>2, <2>1 DEF Explored, InSegment
  <2>4. \A n, i, j : TakesOver(n, i, j)' <=> TakesOver(n, i, j)
    BY <1>2, <2>1, <2>2 DEF TakesOver
  <2>5. Lows => Lows'
    BY <1>2, <2>1, <2>3, <2>4 DEF Lows
  <2>6. (Behind(P) => Behind(P)') /\ (Up => Up') /\ (Down => Down') /\ (Below => Below')
    BY <1>2, <1>4, <2>1, <2>3 DEF Behind, Up, Down, Below
  <2> QED BY <1>2, <1>3, <2>5, <2>6 DEF Trace
<1> QED BY <1>5, <1>6 DEF Found

\* Tarjan: modules that were evaluated have the same cycle root exactly when each
\* imports the other.
THEOREM CyclesAreFound == Spec => []SameCycleSameRoot
<1>1. Init => Base
  BY BaseInit
<1>2. Base /\ [Next]_vars => Base'
  BY BaseNext
<1>3. Init => Found
  BY FoundInit
<1>4. Base /\ Found /\ [Next]_vars => Found'
  BY FoundNext
<1>5. Base /\ Found => SameCycleSameRoot
  <2>1. SUFFICES ASSUME Base, Found, NEW m \in Modules, NEW n \in Modules,
                        Reached(m), Reached(n), ~ failed[m], ~ failed[n]
                 PROVE  root[m] = root[n] <=> m = n \/ (m \in Reaches[n] /\ n \in Reaches[m])
    BY DEF SameCycleSameRoot
  <2>2. PICK P : Searched(P)
    BY <2>1 DEF Found
  <2>3. TypeOK /\ Roots
    BY <2>1 DEF Base, Found
  <2>4. root[m] \in Modules /\ root[n] \in Modules
    BY <2>3 DEF TypeOK
  <2>5. (Leads(m, n) /\ Leads(n, m)) <=> m = n \/ (m \in Reaches[n] /\ n \in Reaches[m])
    BY <2>3, ReachesIs, LeadsToItself
  <2>6. ASSUME root[m] = root[n] PROVE Leads(m, n) /\ Leads(n, m)
    <3>1. Leads(m, root[m]) /\ Leads(root[m], m) /\ Leads(n, root[m]) /\ Leads(root[m], n)
      BY <2>3, <2>6 DEF Roots
    <3> QED BY <3>1, LeadsOn
  <2>7. ASSUME Leads(m, n), Leads(n, m) PROVE root[m] = root[n]
    BY <2>1, <2>2, <2>7 DEF Searched
  <2> QED BY <2>5, <2>6, <2>7
<1> QED BY <1>1, <1>2, <1>3, <1>4, <1>5, PTL DEF Spec

\* What the two searches leave behind is clean, in graphs whose cycles can be linked.
THEOREM SearchesLeaveClean ==
  (\A g \in Graphs : CyclesLink(g)) => (Spec => []SearchesAreClean)
<1>1. LinkedClosed /\ SameCycleSameRoot => SearchesAreClean
  BY DEF SearchesAreClean
<1> QED BY <1>1, LinkIsClean, CyclesAreFound, PTL

------------------------------------------------------------------------------
(* How often a module is in a sequence, and in the parent lists.            *)

\* The places of n in a sequence, and in the parent lists ps.
Occurs(s, n) == {i \in DOMAIN s : s[i] = n}
Times(s, n) == Cardinality(Occurs(s, n))
Entries(ps, n) == UNION {{<<d, i>> : i \in Occurs(ps[d], n)} : d \in Modules}
Count(ps, n) == Cardinality(Entries(ps, n))

\* Occurrences are finitely many, and there are none of what is not there.
LEMMA OccursFinite ==
  ASSUME NEW E, NEW s \in Seq(E), NEW n
  PROVE  /\ IsFiniteSet(Occurs(s, n)) /\ Times(s, n) \in Nat
         /\ Times(s, n) = 0 <=> n \notin ToSet(s)
<1>1. Len(s) \in Nat /\ DOMAIN s = 1..Len(s)
  BY LenProperties
<1>2. IsFiniteSet(1..Len(s)) /\ Occurs(s, n) \subseteq 1..Len(s)
  BY <1>1, FS_Interval DEF Occurs
<1>3. IsFiniteSet(Occurs(s, n))
  BY <1>2, FS_Subset
<1>4. Times(s, n) \in Nat /\ (Times(s, n) = 0 <=> Occurs(s, n) = {})
  BY <1>3, FS_CardinalityType, FS_EmptySet DEF Times
<1>5. Occurs(s, n) = {} <=> n \notin ToSet(s)
  BY DEF Occurs, ToSet
<1> QED BY <1>3, <1>4, <1>5

\* One more element is one more occurrence of it.
LEMMA TimesAppend ==
  ASSUME NEW E, NEW s \in Seq(E), NEW e \in E, NEW n
  PROVE  /\ e = n => Times(Append(s, e), n) = Times(s, n) + 1
         /\ e # n => Times(Append(s, e), n) = Times(s, n)
<1>1. PICK t, l : t = Append(s, e) /\ l = Len(s)
  OBVIOUS
<1>2. /\ l \in Nat /\ DOMAIN s = 1..l /\ t \in Seq(E) /\ DOMAIN t = 1..l + 1
      /\ t[l + 1] = e /\ \A i \in 1..l : t[i] = s[i]
  <2>1. Len(s) \in Nat /\ DOMAIN s = 1..Len(s)
    BY LenProperties
  <2>2. t \in Seq(E) /\ Len(t) = l + 1 /\ t[l + 1] = e /\ \A i \in 1..l : t[i] = s[i]
    BY <1>1, AppendProperties
  <2>3. DOMAIN t = 1..Len(t)
    BY <2>2, LenProperties
  <2> QED BY <1>1, <2>1, <2>2, <2>3
<1>3. \A i \in 1..l + 1 : i \in 1..l \/ i = l + 1
  BY <1>2
<1>4. l + 1 \in 1..l + 1 /\ \A i \in 1..l : i \in 1..l + 1 /\ i # l + 1
  BY <1>2
<1>5. IsFiniteSet(Occurs(s, n)) /\ Times(s, n) \in Nat
  BY OccursFinite
<1>6. CASE e = n
  <2>1. Occurs(t, n) = Occurs(s, n) \cup {l + 1} /\ l + 1 \notin Occurs(s, n)
    BY <1>2, <1>3, <1>4, <1>6 DEF Occurs
  <2>2. Cardinality(Occurs(t, n)) = Cardinality(Occurs(s, n)) + 1
    BY <1>5, <2>1, FS_AddElement
  <2> QED BY <1>1, <1>6, <2>2 DEF Times
<1>7. CASE e # n
  <2>1. Occurs(t, n) = Occurs(s, n)
    BY <1>2, <1>3, <1>4, <1>7 DEF Occurs
  <2> QED BY <1>1, <1>5, <1>7, <2>1 DEF Times
<1> QED BY <1>6, <1>7

\* Of two sequences joined, the occurrences add up.
LEMMA TimesJoined ==
  ASSUME NEW E, NEW s \in Seq(E), NEW n
  PROVE  \A t \in Seq(E) : Times(s \o t, n) = Times(s, n) + Times(t, n)
<1> DEFINE X == {t \in Seq(E) : Times(s \o t, n) = Times(s, n) + Times(t, n)}
<1>1. <<>> \in X
  <2>1. <<>> \in Seq(E) /\ ToSet(<<>>) = {}
    BY EmptySeq DEF ToSet
  <2>2. Times(<<>>, n) = 0 /\ Times(s, n) \in Nat
    BY <2>1, OccursFinite
  <2> QED BY <2>1, <2>2, ConcatEmptySeq
<1>2. ASSUME NEW t \in Seq(E), NEW e \in E, t \in X PROVE Append(t, e) \in X
  <2>1. PICK u : u = s \o t
    OBVIOUS
  <2>2. u \in Seq(E) /\ Append(t, e) \in Seq(E)
    BY <2>1, ConcatProperties, AppendProperties
  <2>3. s \o Append(t, e) = Append(u, e)
    <3>1. PICK o : o = <<e>> /\ o \in Seq(E)
      <4>1. <<e>> \in Seq(E)
        BY ONLY <1>2
      <4> QED BY <4>1
    <3>2. Append(t, e) = t \o o /\ Append(u, e) = u \o o
      BY <2>2, <3>1, AppendIsConcat
    <3> QED BY <2>1, <3>1, <3>2, ConcatAssociative
  <2>4. Times(u, n) = Times(s, n) + Times(t, n)
    BY <1>2, <2>1
  <2>5. /\ e = n => Times(Append(u, e), n) = Times(u, n) + 1 /\ Times(Append(t, e), n) = Times(t, n) + 1
        /\ e # n => Times(Append(u, e), n) = Times(u, n) /\ Times(Append(t, e), n) = Times(t, n)
    BY <2>2, TimesAppend
  <2>6. Times(s, n) \in Nat /\ Times(t, n) \in Nat
    BY OccursFinite
  <2>7. Times(s \o Append(t, e), n) = Times(s, n) + Times(Append(t, e), n)
    <3>1. CASE e = n
      BY ONLY <2>3, <2>4, <2>5, <2>6, <3>1
    <3>2. CASE e # n
      BY ONLY <2>3, <2>4, <2>5, <2>6, <3>2
    <3> QED BY <3>1, <3>2
  <2> QED BY <2>2, <2>7
<1> HIDE DEF X
<1>3. \A t \in Seq(E) : t \in X
  BY ONLY <1>1, <1>2, SequenceInduction
<1> QED BY <1>3 DEF X

\* The head is one of the occurrences.
LEMMA TimesTail ==
  ASSUME NEW E, NEW s \in Seq(E), s # <<>>, NEW n
  PROVE  /\ Head(s) \in E /\ Tail(s) \in Seq(E)
         /\ Head(s) = n => Times(s, n) = Times(Tail(s), n) + 1
         /\ Head(s) # n => Times(s, n) = Times(Tail(s), n)
<1>1. PICK h, t : h = Head(s) /\ t = Tail(s)
  OBVIOUS
<1>2. h \in E /\ t \in Seq(E)
  BY <1>1, HeadTailProperties
<1>3. PICK o, z : o = <<h>> /\ o \in Seq(E) /\ o = Append(z, h) /\ z \in Seq(E) /\ z = <<>>
  <2>1. <<h>> \in Seq(E)
    BY ONLY <1>2
  <2>2. <<h>> = Append(<<>>, h) /\ <<>> \in Seq(E)
    BY EmptySeq
  <2> QED BY <2>1, <2>2
<1>4. s = o \o t
  <2>1. o \o t \in Seq(E) /\ Len(o \o t) = Len(o) + Len(t) /\ Len(o) = 1
    BY <1>2, <1>3, ConcatProperties
  <2>2. Len(s) \in Nat /\ Len(t) = Len(s) - 1 /\ Len(t) \in Nat /\ s[1] = h /\ \A i \in 1..Len(t) : t[i] = s[i + 1]
    BY <1>1, <1>2, HeadTailProperties, LenProperties
  <2>3. \A i \in 1..Len(s) : (o \o t)[i] = s[i]
    <3>1. ASSUME NEW i \in 1..Len(s) PROVE (o \o t)[i] = s[i]
      <4>1. CASE i = 1
        <5>1. (o \o t)[1] = o[1]
          BY <1>2, <1>3, <2>1, ConcatProperties
        <5> QED BY <1>3, <2>2, <4>1, <5>1
      <4>2. CASE i # 1
        <5>1. i - 1 \in 1..Len(t) /\ (i - 1) + 1 = i /\ i \in (Len(o) + 1)..(Len(o) + Len(t)) /\ i - Len(o) = i - 1
          BY <2>1, <2>2, <4>2
        <5>2. (o \o t)[i] = t[i - 1]
          BY <1>2, <1>3, <2>1, <2>2, <5>1, ConcatProperties
        <5> QED BY <2>2, <5>1, <5>2
      <4> QED BY <4>1, <4>2
    <3> QED BY <3>1
  <2>4. Len(o \o t) = Len(s)
    BY <2>1, <2>2
  <2> QED BY <1>3, <2>1, <2>3, <2>4, SeqEqual
<1>10. o \in Seq(E) /\ z \in Seq(E) /\ o = Append(z, h)
  BY <1>3
<1>5. Times(s, n) = Times(o, n) + Times(t, n)
  BY ONLY <1>2, <1>4, <1>10, TimesJoined
<1>6. (h = n => Times(o, n) = 1) /\ (h # n => Times(o, n) = 0)
  <2>1. Times(z, n) = 0
    <3>1. ToSet(z) = {}
      BY <1>3 DEF ToSet
    <3> QED BY <1>3, <3>1, OccursFinite
  <2>2. (h = n => Times(o, n) = Times(z, n) + 1) /\ (h # n => Times(o, n) = Times(z, n))
    BY ONLY <1>2, <1>10, TimesAppend
  <2> QED BY ONLY <2>1, <2>2
<1>7. Times(t, n) \in Nat
  BY <1>2, OccursFinite
<1>8. CASE h = n
  BY ONLY <1>1, <1>2, <1>5, <1>6, <1>7, <1>8
<1>9. CASE h # n
  BY ONLY <1>1, <1>2, <1>5, <1>6, <1>7, <1>9
<1> QED BY <1>8, <1>9

\* The entries of n in the list of d, and in those of the modules in D.
EntriesAt(ps, n, d) == {<<d, i>> : i \in Occurs(ps[d], n)}
EntriesIn(ps, n, D) == UNION {EntriesAt(ps, n, d) : d \in D}

\* The entries of one list are finitely many: as many as the occurrences in it.
LEMMA EntriesAtFinite ==
  ASSUME NEW ps \in [Modules -> Seq(Modules)], NEW n, NEW d \in Modules
  PROVE  IsFiniteSet(EntriesAt(ps, n, d)) /\ Cardinality(EntriesAt(ps, n, d)) = Times(ps[d], n)
<1>1. PICK O, T : O = Occurs(ps[d], n) /\ T = EntriesAt(ps, n, d)
  OBVIOUS
<1>2. IsFiniteSet(O)
  BY <1>1, OccursFinite
<1>3. PICK f : f = [i \in O |-> <<d, i>>]
  OBVIOUS
<1>4. f \in Bijection(O, T)
  <2>1. T = {<<d, i>> : i \in O}
    BY <1>1 DEF EntriesAt
  <2>2. f \in [O -> T]
    BY <1>3, <2>1
  <2>3. \A i, j \in O : f[i] = f[j] => i = j
    BY <1>3
  <2>4. \A t \in T : \E i \in O : f[i] = t
    BY <1>3, <2>1
  <2> QED BY <2>2, <2>3, <2>4, Fun_IsBij
<1>5. ExistsBijection(O, T)
  BY <1>4 DEF ExistsBijection
<1>6. IsFiniteSet(T) /\ Cardinality(T) = Cardinality(O)
  BY <1>2, <1>5, FS_Bijection
<1> QED BY <1>1, <1>6 DEF Times

\* Entries are finitely many, and there are none of what is in no list.
LEMMA CountIs ==
  ASSUME NEW ps \in [Modules -> Seq(Modules)], NEW n, NEW D \in SUBSET Modules
  PROVE  /\ IsFiniteSet(EntriesIn(ps, n, D))
         /\ Entries(ps, n) = EntriesIn(ps, n, Modules)
         /\ IsFiniteSet(Entries(ps, n)) /\ Count(ps, n) \in Nat
         /\ Count(ps, n) = 0 <=> \A d \in Modules : n \notin ToSet(ps[d])
<1>1. ASSUME NEW X \in SUBSET Modules PROVE IsFiniteSet(EntriesIn(ps, n, X))
  <2>1. PICK F : F = {EntriesAt(ps, n, d) : d \in X}
    OBVIOUS
  <2>2. IsFiniteSet(X)
    BY GraphAssumption, FS_Subset
  <2>3. PICK f : f = [d \in X |-> EntriesAt(ps, n, d)]
    OBVIOUS
  <2>4. f \in Surjection(X, F)
    <3>1. f \in [X -> F]
      BY <2>1, <2>3
    <3>2. \A t \in F : \E d \in X : f[d] = t
      BY <2>1, <2>3
    <3> QED BY <3>1, <3>2, Fun_IsSurj
  <2>5. IsFiniteSet(F)
    BY <2>2, <2>4, FS_Surjection
  <2>6. \A T \in F : IsFiniteSet(T)
    BY <2>1, EntriesAtFinite
  <2> QED BY <2>1, <2>5, <2>6, FS_UNION DEF EntriesIn
<1>2. Entries(ps, n) = EntriesIn(ps, n, Modules)
  BY DEF Entries, EntriesAt, EntriesIn
<1>3. IsFiniteSet(Entries(ps, n))
  BY <1>1, <1>2
<1>4. Count(ps, n) \in Nat /\ (Count(ps, n) = 0 <=> Entries(ps, n) = {})
  BY <1>3, FS_CardinalityType, FS_EmptySet DEF Count
<1>5. Entries(ps, n) = {} <=> \A d \in Modules : n \notin ToSet(ps[d])
  <2>1. \A x : x \in Entries(ps, n) <=> \E d \in Modules : \E i \in Occurs(ps[d], n) : x = <<d, i>>
    BY DEF Entries
  <2>2. \A d \in Modules : n \in ToSet(ps[d]) <=> \E i : i \in Occurs(ps[d], n)
    BY DEF Occurs, ToSet
  <2> QED BY <2>1, <2>2
<1> QED BY <1>1, <1>2, <1>3, <1>4, <1>5

\* When one list changes, the count changes as the occurrences in it.
LEMMA CountChanges ==
  ASSUME NEW ps \in [Modules -> Seq(Modules)], NEW qs \in [Modules -> Seq(Modules)], NEW n, NEW p \in Modules,
         \A d \in Modules : d # p => qs[d] = ps[d]
  PROVE  Count(qs, n) + Times(ps[p], n) = Count(ps, n) + Times(qs[p], n)
<1>1. PICK D, R : D = Modules \ {p} /\ R = EntriesIn(ps, n, D)
  OBVIOUS
<1>2. ASSUME NEW rs \in [Modules -> Seq(Modules)], \A d \in Modules : d # p => rs[d] = ps[d]
      PROVE  Count(rs, n) = Cardinality(R) + Times(rs[p], n) /\ Times(rs[p], n) \in Nat /\ Cardinality(R) \in Nat
  <2>1. PICK A : A = EntriesAt(rs, n, p)
    OBVIOUS
  <2>2. Entries(rs, n) = R \cup A /\ R \cap A = {}
    <3>1. \A d \in D : EntriesAt(rs, n, d) = EntriesAt(ps, n, d)
      BY <1>1, <1>2 DEF EntriesAt
    <3>2. Entries(rs, n) = EntriesIn(rs, n, Modules)
      BY <1>2, CountIs
    <3>3. \A x : x \in R <=> \E d \in D : x \in EntriesAt(ps, n, d)
      BY <1>1 DEF EntriesIn
    <3>4. \A d \in Modules : d \in D \/ d = p
      BY <1>1
    <3>5. \A x : x \in Entries(rs, n) <=> \E d \in Modules : x \in EntriesAt(rs, n, d)
      BY <3>2 DEF EntriesIn
    <3>6. Entries(rs, n) = R \cup A
      BY <1>1, <2>1, <3>1, <3>3, <3>4, <3>5
    <3>7. R \cap A = {}
      <4>1. \A d \in D : EntriesAt(ps, n, d) \cap EntriesAt(rs, n, p) = {}
        BY <1>1 DEF EntriesAt
      <4> QED BY <2>1, <3>3, <4>1
    <3> QED BY <3>6, <3>7
  <2>3. IsFiniteSet(R) /\ IsFiniteSet(A) /\ Cardinality(A) = Times(rs[p], n)
    <3>1. D \in SUBSET Modules
      BY <1>1
    <3>2. IsFiniteSet(R)
      BY <1>1, <3>1, CountIs
    <3> QED BY <1>2, <2>1, <3>2, EntriesAtFinite
  <2>4. Cardinality(R) \in Nat /\ Cardinality(A) \in Nat
    BY <2>3, FS_CardinalityType
  <2>5. Cardinality(R \cup A) = Cardinality(R) + Cardinality(A) - Cardinality(R \cap A) /\ Cardinality({}) = 0
    BY <2>3, FS_Union, FS_EmptySet
  <2>6. Cardinality(R \cup A) = Cardinality(R) + Cardinality(A)
    <3>1. PICK I : I = R \cap A
      OBVIOUS
    <3>2. I = {} /\ Cardinality(R \cup A) = Cardinality(R) + Cardinality(A) - Cardinality(I)
      BY <2>2, <2>5, <3>1
    <3>3. Cardinality(I) = 0
      BY <3>2, FS_EmptySet
    <3> QED BY ONLY <2>4, <3>2, <3>3
  <2> QED BY <2>2, <2>3, <2>4, <2>6 DEF Count
<1>3. Count(ps, n) = Cardinality(R) + Times(ps[p], n) /\ Times(ps[p], n) \in Nat /\ Cardinality(R) \in Nat
  BY <1>2
<1>4. Count(qs, n) = Cardinality(R) + Times(qs[p], n) /\ Times(qs[p], n) \in Nat
  BY <1>2
<1> QED BY <1>3, <1>4

------------------------------------------------------------------------------
(* Modules that wait.  What follows is about graphs whose cycles wait for   *)
(* nothing: whatever waits is in no cycle.                                  *)

\* The largest closed set of modules without top-level await: what is in it waits
\* for nothing.
Sync == {m \in Modules : \E S \in SUBSET Modules : Closed(graph, S) /\ S \cap graph.tla = {} /\ m \in S}

\* The synchronous modules that throw.
Throwers == graph.throws \ graph.tla

\* What the cycles import is in Sync.
LEMMA SyncIs ==
  ASSUME CyclesRest(graph)
  PROVE  CyclesLink(graph) /\ SyncIn(graph, Cyclic, Sync)
<1>1. CyclesLink(graph)
  BY DEF CyclesRest, CyclesLink
<1>2. \E C \in SUBSET Modules : CyclesIn(graph, C) /\ \E S \in SUBSET Modules : SyncIn(graph, C, S)
  BY DEF CyclesRest
<1>3. PICK S \in SUBSET Modules : SyncIn(graph, Cyclic, S)
  BY <1>2 DEF Cyclic
<1>4. Cyclic \subseteq Sync /\ Sync \cap graph.tla = {}
  BY <1>3 DEF SyncIn, Sync
<1>5. ASSUME NEW m \in Sync PROVE ToSet(graph.requests[m]) \subseteq Sync
  <2>1. PICK T \in SUBSET Modules : Closed(graph, T) /\ T \cap graph.tla = {} /\ m \in T
    BY <1>5 DEF Sync
  <2>2. ToSet(graph.requests[m]) \subseteq T
    BY <2>1 DEF Closed
  <2> QED BY <2>1, <2>2 DEF Sync
<1>6. Closed(graph, Sync)
  BY <1>5 DEF Closed, Sync
<1> QED BY <1>1, <1>4, <1>6 DEF SyncIn

\* In a calm graph the synchronous modules that throw are in Sync, too.
LEMMA CalmIs ==
  ASSUME Calm(graph)
  PROVE  CyclesRest(graph) /\ Throwers \subseteq Sync
<1>1. PICK C, S \in SUBSET Modules : CyclesIn(graph, C) /\ SyncIn(graph, C, S) /\ Throwers \subseteq S
  BY DEF Calm, Throwers
<1>2. S \subseteq Sync
  BY <1>1 DEF SyncIn, Sync
<1> QED BY <1>1, <1>2 DEF CyclesRest

\* Sync is the same all the time.
LEMMA SyncStays ==
  ASSUME UNCHANGED graph
  PROVE  /\ Sync' = Sync /\ Throwers' = Throwers
         /\ SyncIn(graph, Cyclic, Sync)' <=> SyncIn(graph, Cyclic, Sync)
BY CyclicStays DEF Sync, SyncIn, Closed, Throwers

\* What is in Sync requests only what is.
LEMMA SyncClosed ==
  ASSUME TypeOK, SyncIn(graph, Cyclic, Sync)
  PROVE  Sync \subseteq Modules /\ \A m \in Sync : \A e \in Positions(m) : Asked(m, e) \in Sync
<1>1. Sync \subseteq Modules
  BY DEF SyncIn, Closed
<1>2. ASSUME NEW m \in Sync, NEW e \in Positions(m) PROVE Asked(m, e) \in Sync
  <2>1. Requests(m) \in Seq(Modules) /\ Requests(m) = graph.requests[m]
    BY <1>1 DEF TypeOK, Requests
  <2>2. Requests(m)[e] \in ToSet(Requests(m))
    BY <2>1, ToSetFacts DEF Positions
  <2> QED BY <2>1, <2>2 DEF SyncIn, Closed, Asked
<1> QED BY <1>1, <1>2

\* A component that is taken off the stack is one module, or in Cyclic.
LEMMA ComponentIsCalm ==
  ASSUME Base, CalmSearch, calls # <<>>
  PROVE  /\ Top.module \notin Cyclic => ancestor[Top.module] = Top.index /\ Component(Top.module) = {Top.module}
         /\ Top.module \in Cyclic => Component(Top.module) \subseteq Cyclic
<1>1. TypeOK /\ Chain /\ Once(stack)
  BY DEF Base
<1>2. PICK l, m : l = Len(calls) /\ m = Top.module
  OBVIOUS
<1>3. l \in Nat \ {0} /\ Top = calls[l] /\ m = Called(l) /\ l \in 1..l /\ m \in On
  BY <1>1, <1>2, TopIs, RequiredIs
<1>4. /\ Component(m) = {n \in On : PlaceIn(stack, m) <= PlaceIn(stack, n)}
      /\ \A n \in On : PlaceIn(stack, n) \in Nat
  BY <1>1, <1>3, ComponentIs, StackPlaces
<1>5. ASSUME NEW n \in Component(m), n \notin Cyclic PROVE n = m
  <2>1. PICK k \in 1..l : n = Called(k)
    BY <1>2, <1>4, <1>5 DEF CalmSearch, Act
  <2>2. k < l => PlaceIn(stack, n) < PlaceIn(stack, m)
    BY <1>1, <1>2, <1>3, <2>1 DEF Chain
  <2>3. k = l
    BY <1>3, <1>4, <1>5, <2>1, <2>2
  <2> QED BY <1>3, <2>1, <2>3
<1>6. m \in Component(m)
  BY <1>3, <1>4
<1>7. CASE m \notin Cyclic
  <2>1. On \cap Cyclic = {}
    BY <1>2, <1>3, <1>7 DEF CalmSearch
  <2>2. Component(m) = {m}
    BY <1>4, <1>5, <1>6, <2>1
  <2>3. ancestor[m] = Top.index
    BY <1>2, <1>3, <1>7 DEF CalmSearch
  <2> QED BY <1>2, <1>7, <2>2, <2>3
<1>8. CASE m \in Cyclic
  BY <1>2, <1>5, <1>8
<1> QED BY <1>2, <1>7, <1>8

\* A module in no cycle is its own cycle root.
Alone == \A n \in Modules : IF n \in Cyclic THEN root[n] \in Cyclic ELSE root[n] = n

\* Every step keeps cycle roots within Cyclic, and modules outside of it alone.
LEMMA AloneKept ==
  ASSUME Base, CalmSearch, Alone, Next
  PROVE  Alone'
<1>1. Kinds /\ UNCHANGED graph
  BY ActionKinds, GraphStays DEF Base
<1>2. Cyclic' = Cyclic /\ Cyclic \subseteq Modules
  BY <1>1, CyclicStays DEF CalmSearch, CyclesIn, Closed
<1>3. UNCHANGED root \/ (Leaving /\ phase = "evaluate")
  BY <1>1 DEF Kinds, Entering, Visiting, Leaving, Abandoning, Resting
<1>4. CASE UNCHANGED root
  BY <1>2, <1>4 DEF Alone
<1>5. CASE Leaving /\ phase = "evaluate"
  <2>1. PICK m : m = Top.module
    OBVIOUS
  <2>2. \A n \in Modules : root'[n] = IF ancestor[m] = Top.index /\ n \in Component(m) THEN m ELSE root[n]
    BY <1>5, <2>1 DEF Leaving
  <2>3. (m \notin Cyclic => Component(m) = {m}) /\ (m \in Cyclic => Component(m) \subseteq Cyclic)
    BY <1>5, <2>1, ComponentIsCalm DEF Leaving
  <2> QED BY <1>2, <2>2, <2>3 DEF Alone
<1> QED BY <1>3, <1>4, <1>5

Waits(n) == status[n] = "evaluating-async"
Done(n) == status[n] = "evaluated" /\ ~ failed[n]
Failed(n) == status[n] = "evaluated" /\ failed[n]

\* Sync modules are in no async order, and are told of nothing.
Apart ==
  /\ SyncIn(graph, Cyclic, Sync)
  /\ \A n \in Sync : order[n] = 0 /\ n \notin ToSet(todo) /\ \A d \in Modules : n \notin ToSet(parents[d])

\* What waits has its place in the order, as what has waited; nobody else.
Ordered ==
  /\ \A n \in Modules : order[n] <= counter
  /\ \A n \in Modules : Waits(n) => order[n] # 0
  /\ \A n \in Modules : ~ Reached(n) => order[n] = 0

\* Modules that wait have parents, which come later in the order or have failed.
Listed ==
  \A d \in Modules : \A n \in ToSet(parents[d]) :
    /\ Waits(d)
    /\ status[n] = "evaluating" \/ (Waits(n) /\ order[d] < order[n]) \/ Failed(n)

\* Those that are told wait, or have failed.
Told == \A n \in ToSet(todo) : Waits(n) \/ Failed(n)

\* What waits for nothing is about to run, runs, or is about to fail; only a
\* synchronous module that has thrown is left behind.
Ready ==
  /\ \A n \in Modules : Waits(n) /\ pending[n] = 0 =>
       n \in running \cup execList \cup Throwers \/ (phase = "reject" /\ n \in ToSet(todo))
  /\ \A n \in running \cup execList : Waits(n) /\ pending[n] = 0 /\ n \notin ToSet(todo)
  /\ running \subseteq graph.tla
  /\ \A n \in execList \ graph.tla : parents[n] = <<>>

\* What waits has one entry for each thing it waits for.
Exact ==
  \A n \in Modules : Waits(n) =>
    \/ phase = "reject" /\ (n \in ToSet(todo) \/ pending[n] = Count(parents, n))
    \/ phase # "reject" /\ pending[n] = Count(parents, n) + Times(todo, n)

Waiting == Apart /\ Ordered /\ Listed /\ Told /\ Ready /\ Exact

\* And inner_evaluate counts the entries of a module that it is evaluating.
Deps == phase = "evaluate" => \A j \in 1..Len(calls) : calls[j].deps = Count(parents, Called(j))

\* The types of what waits.
LEMMA WaitingTypes ==
  ASSUME TypeOK
  PROVE  /\ status \in [Modules -> Statuses] /\ failed \in [Modules -> BOOLEAN]
         /\ order \in [Modules -> Nat] /\ pending \in [Modules -> Nat] /\ counter \in Nat
         /\ parents \in [Modules -> Seq(Modules)] /\ todo \in Seq(Modules) /\ ToSet(todo) \subseteq Modules
         /\ \A d \in Modules : ToSet(parents[d]) \subseteq Modules
         /\ \A n : Count(parents, n) \in Nat /\ Times(todo, n) \in Nat
         /\ \A n : Count(parents, n) = 0 <=> \A d \in Modules : n \notin ToSet(parents[d])
         /\ \A n : Times(todo, n) = 0 <=> n \notin ToSet(todo)
         /\ running \subseteq Modules /\ execList \subseteq Modules /\ calls \in Seq(Call) /\ Len(calls) \in Nat
<1>1. /\ parents \in [Modules -> Seq(Modules)] /\ todo \in Seq(Modules) /\ calls \in Seq(Call)
      /\ status \in [Modules -> Statuses] /\ failed \in [Modules -> BOOLEAN]
      /\ order \in [Modules -> Nat] /\ pending \in [Modules -> Nat] /\ counter \in Nat
      /\ running \subseteq Modules /\ execList \subseteq Modules
  BY DEF TypeOK, Call
<1>2. ToSet(todo) \subseteq Modules /\ \A d \in Modules : ToSet(parents[d]) \subseteq Modules
  <2>1. ASSUME NEW d \in Modules PROVE ToSet(parents[d]) \subseteq Modules
    <3>1. parents[d] \in Seq(Modules)
      BY <1>1
    <3> QED BY <3>1, ToSetFacts
  <2> QED BY <1>1, <2>1, ToSetFacts
<1>3. ASSUME NEW n
      PROVE  /\ Count(parents, n) \in Nat /\ (Count(parents, n) = 0 <=> \A d \in Modules : n \notin ToSet(parents[d]))
             /\ Times(todo, n) \in Nat /\ (Times(todo, n) = 0 <=> n \notin ToSet(todo))
  BY <1>1, CountIs, OccursFinite
<1>4. Len(calls) \in Nat
  BY <1>1, LenProperties
<1> QED BY <1>1, <1>2, <1>3, <1>4

\* Whoever waits is none of Sync, has not failed and is not on the stack; whoever
\* runs is in no list.
LEMMA WaitingIs ==
  ASSUME Base, PromisesAgree, Waiting
  PROVE  /\ \A n \in Modules : Waits(n) => n \notin Sync /\ n \notin Cyclic /\ ~ failed[n] /\ n \notin On
         /\ \A n \in running \cup execList : Count(parents, n) = 0 /\ Times(todo, n) = 0 /\ n \notin Sync
         /\ \A n \in running \cup execList : \A d \in Modules : n \notin ToSet(parents[d])
         /\ \A n \in On : order[n] = 0
<1> USE DEF Waits
<1>1. TypeOK /\ Apart /\ Ordered /\ Ready /\ Exact /\ PromisesAgree
  BY DEF Base, Waiting
<1>2. ASSUME NEW n \in Modules, Waits(n) PROVE n \notin Sync /\ n \notin Cyclic /\ ~ failed[n] /\ n \notin On
  <2>1. n \notin Sync /\ n \notin Cyclic
    BY <1>1, <1>2 DEF Apart, Ordered, SyncIn
  <2>2. ~ failed[n]
    BY <1>1, <1>2 DEF PromisesAgree
  <2>3. n \notin On
    BY <1>2, OffStack
  <2> QED BY <2>1, <2>2, <2>3
<1>3. ASSUME NEW n \in running \cup execList
      PROVE  Count(parents, n) = 0 /\ Times(todo, n) = 0 /\ n \notin Sync /\ \A d \in Modules : n \notin ToSet(parents[d])
  <2>1. n \in Modules /\ Waits(n) /\ pending[n] = 0 /\ n \notin ToSet(todo)
    BY <1>1, WaitingTypes DEF Ready
  <2>2. Count(parents, n) \in Nat /\ Times(todo, n) = 0
    BY <1>1, <2>1, WaitingTypes
  <2>3. Count(parents, n) = 0
    BY <1>1, <2>1, <2>2 DEF Exact
  <2> QED BY <1>1, <1>2, <2>1, <2>2, <2>3, WaitingTypes
<1>4. ASSUME NEW n \in On PROVE order[n] = 0
  <2>1. n \in Modules /\ calls # <<>> /\ OnStatus /\ phase \in {"link", "evaluate"}
    BY NothingOn, StackPlaces DEF Base, Clean
  <2>2. ~ Reached(n)
    <3>1. phase = "link" => n \in Act \/ n \in On \ Act
      OBVIOUS
    <3> QED BY <2>1, <3>1 DEF OnStatus, Reached
  <2> QED BY <1>1, <2>1, <2>2 DEF Ordered
<1> QED BY <1>2, <1>3, <1>4

\* Steps that leave the waiting modules as they are keep this: whatever is being
\* evaluated and has an entry stays so or fails.
Quietly ==
  /\ UNCHANGED <<graph, order, pending, parents, counter, todo, execList, running>>
  /\ phase' = phase \/ (todo = <<>> /\ phase' # "reject")
  /\ \A n \in Modules : /\ Waits(n)' <=> Waits(n)
                        /\ Reached(n) => Reached(n)'
                        /\ Failed(n) => Failed(n)'
  /\ \A d \in Modules : \A n \in ToSet(parents[d]) :
       status[n] = "evaluating" => status'[n] = "evaluating" \/ Failed(n)'

\* Those steps keep what waits in order.
LEMMA Undisturbed ==
  ASSUME Base, Waiting, Quietly
  PROVE  Waiting'
<1>1. TypeOK /\ Apart /\ Ordered /\ Listed /\ Told /\ Ready /\ Exact
  BY DEF Base, Waiting
<1>2. /\ UNCHANGED <<graph, order, pending, parents, counter, todo, execList, running>>
      /\ phase' = phase \/ (todo = <<>> /\ phase' # "reject")
      /\ \A n \in Modules : (Waits(n)' <=> Waits(n)) /\ (Reached(n) => Reached(n)') /\ (Failed(n) => Failed(n)')
      /\ \A d \in Modules : \A n \in ToSet(parents[d]) :
           status[n] = "evaluating" => status'[n] = "evaluating" \/ Failed(n)'
  BY DEF Quietly
<1>3. /\ ToSet(todo) \subseteq Modules /\ \A d \in Modules : ToSet(parents[d]) \subseteq Modules
      /\ \A n : Count(parents, n) \in Nat /\ Times(todo, n) \in Nat
      /\ \A n : Times(todo, n) = 0 <=> n \notin ToSet(todo)
      /\ execList \subseteq Modules /\ running \subseteq Modules
  BY <1>1, WaitingTypes
<1>4. todo = <<>> => ToSet(todo) = {}
  BY DEF ToSet
<1>5. Apart'
  BY <1>1, <1>2, SyncStays DEF Apart
<1>6. Ordered'
  BY <1>1, <1>2 DEF Ordered
<1>7. Listed' /\ Told'
  BY <1>1, <1>2, <1>3 DEF Listed, Told
<1>8. Ready'
  BY <1>1, <1>2, <1>3, <1>4 DEF Ready, Throwers
<1>9. Exact'
  <2>2. \A n \in Modules : Count(parents', n) = Count(parents, n) /\ Times(todo', n) = Times(todo, n)
    BY <1>2
  <2>3. CASE phase' = phase
    BY <1>1, <1>2, <2>2, <2>3 DEF Exact
  <2>4. CASE todo = <<>> /\ phase' # "reject"
    BY <1>1, <1>2, <1>3, <1>4, <2>2, <2>4 DEF Exact
  <2> QED BY <1>2, <2>3, <2>4
<1> QED BY <1>5, <1>6, <1>7, <1>8, <1>9 DEF Waiting

\* Linking concerns nothing that waits.
LEMMA QuietLinking ==
  ASSUME Base, Linking \/ \E m \in Modules : Link(m)
  PROVE  Quietly
<1>1. TypeOK /\ OnStatus /\ Clean /\ Chain /\ Once(stack)
  BY DEF Base
<1>2. status \in [Modules -> Statuses] /\ On \subseteq Modules
  BY <1>1, StackPlaces DEF TypeOK
<1>3. /\ UNCHANGED <<graph, order, pending, parents, counter, todo, execList, running, failed>>
      /\ phase' = phase \/ (todo = <<>> /\ phase' # "reject")
  <2>1. CASE FailLink
    BY <1>1, <2>1 DEF FailLink, Abandon, asyncs, jobs, bodies, Searching, Clean
  <2>2. CASE FinishLink
    BY <1>1, <2>2 DEF FinishLink, Leave, asyncs, jobs, bodies, Searching, Clean
  <2>3. CASE EnterLink \/ VisitLink
    BY <2>3 DEF EnterLink, VisitLink, asyncs, jobs, bodies
  <2>4. CASE \E m \in Modules : Link(m)
    BY <1>1, <2>4 DEF Link, asyncs, jobs, bodies, Clean
  <2> QED BY <2>1, <2>2, <2>3, <2>4 DEF Linking
<1>4. \A n \in Modules : status'[n] = status[n] \/ (status[n] \in LinkStatuses /\ status'[n] \in LinkStatuses)
  <2>1. CASE FailLink
    BY <2>1 DEF FailLink, LinkStatuses
  <2>2. CASE FinishLink
    <3>1. calls # <<>> /\ phase = "link" /\ Top.module \in On
      BY <1>1, <2>2, RequiredIs DEF FinishLink, Searching
    <3>2. \A n \in On : status[n] \in LinkStatuses
      <4>1. \A n \in On : n \in Act \/ n \in On \ Act
        OBVIOUS
      <4> QED BY <1>1, <1>2, <3>1, <4>1 DEF OnStatus, LinkStatuses
    <3>3. Component(Top.module) \subseteq On
      BY <1>1, <3>1, ComponentIs
    <3> QED BY <2>2, <3>1, <3>2, <3>3 DEF FinishLink, LinkStatuses
  <2>3. CASE EnterLink
    BY <1>2, <2>3 DEF EnterLink, Enter, LinkStatuses
  <2>4. CASE VisitLink
    BY <2>4 DEF VisitLink
  <2>5. CASE \E m \in Modules : Link(m)
    BY <1>2, <2>5 DEF Link, Enter, LinkStatuses
  <2> QED BY <2>1, <2>2, <2>3, <2>4, <2>5 DEF Linking
<1>5. \A d \in Modules : ToSet(parents[d]) \subseteq Modules
  BY <1>1, WaitingTypes
<1> QED BY <1>3, <1>4, <1>5 DEF Quietly, Waits, Failed, Reached, LinkStatuses

\* Nor does an evaluation that begins or goes on to a module it has not met.
LEMMA QuietEntering ==
  ASSUME Base, EnterEvaluation \/ (\E m \in Modules : Evaluate(m) \/ EvaluateAgain(m)) \/ EndFulfill \/ EndReject
  PROVE  Quietly
<1>1. TypeOK /\ Clean
  BY DEF Base
<1>2. status \in [Modules -> Statuses]
  BY <1>1 DEF TypeOK
<1>3. /\ UNCHANGED <<graph, order, pending, parents, counter, todo, execList, running, failed>>
      /\ phase' = phase \/ (todo = <<>> /\ phase' # "reject")
  <2>1. CASE EnterEvaluation
    BY <2>1 DEF EnterEvaluation, asyncs, jobs, bodies
  <2>2. CASE EndFulfill \/ EndReject
    BY <2>2 DEF EndFulfill, EndReject, asyncs, jobs, bodies
  <2>3. CASE \E m \in Modules : Evaluate(m) \/ EvaluateAgain(m)
    BY <1>1, <2>3 DEF Evaluate, EvaluateAgain, asyncs, jobs, bodies, Clean
  <2> QED BY <2>1, <2>2, <2>3
<1>4. \A n \in Modules : status'[n] = status[n] \/ (status[n] = "linked" /\ status'[n] = "evaluating")
  <2>1. CASE EnterEvaluation
    BY <1>2, <2>1 DEF EnterEvaluation, Enter
  <2>2. CASE EndFulfill \/ EndReject
    BY <2>2 DEF EndFulfill, EndReject
  <2>3. CASE \E m \in Modules : Evaluate(m) \/ EvaluateAgain(m)
    BY <1>2, <2>3 DEF Evaluate, EvaluateAgain, Enter
  <2> QED BY <2>1, <2>2, <2>3
<1>5. \A d \in Modules : ToSet(parents[d]) \subseteq Modules
  BY <1>1, WaitingTypes
<1> QED BY <1>3, <1>4, <1>5 DEF Quietly, Waits, Failed, Reached

\* An evaluation that ends with an error fails what it was evaluating.
LEMMA QuietUnwinding ==
  ASSUME Base, Searching("evaluate"), Unwind, UNCHANGED <<graph, order, pending, parents, counter, todo, execList, running>>
  PROVE  Quietly
<1>1. TypeOK /\ OnStatus /\ Clean
  BY DEF Base
<1>2. On \subseteq Modules /\ \A d \in Modules : ToSet(parents[d]) \subseteq Modules
  BY <1>1, StackPlaces, WaitingTypes DEF Base
<1>3. /\ \A n \in Modules : status'[n] = IF n \in On THEN "evaluated" ELSE status[n]
      /\ \A n \in Modules : failed'[n] <=> n \in On \/ failed[n]
  BY DEF Unwind, On
<1>4. \A n \in Modules : n \in On <=> status[n] = "evaluating"
  BY <1>1 DEF OnStatus, Searching
<1>5. phase' = phase \/ (todo = <<>> /\ phase' # "reject")
  BY <1>1 DEF Unwind, Abandon, Searching, Clean
<1> QED BY <1>2, <1>3, <1>4, <1>5 DEF Quietly, Waits, Failed, Reached

\* The component done is evaluated without having waited.
Finished(m, done) ==
  /\ Return(m, order) /\ Leave(m) /\ UNCHANGED <<failed, pending>>
  /\ done = IF ancestor[m] = Top.index THEN Component(m) ELSE {}
  /\ m \in On /\ On \subseteq Modules /\ done \subseteq On
  /\ Top.deps = 0 /\ Count(parents, m) = 0
  /\ \A n \in done : \A d \in Modules : n \notin ToSet(parents[d])
  /\ \A n \in Modules : status'[n] = IF n \in done THEN "evaluated" ELSE status[n]
  /\ \A n \in On : status[n] = "evaluating"

\* What runs at once has no entry.
LEMMA SyncFinishes ==
  ASSUME Base, PromisesAgree, CalmSearch, Waiting, Deps, ExecuteSync, Top.module \notin graph.throws
  PROVE  \E done : Finished(Top.module, done)
<1>1. TypeOK /\ OnStatus /\ Clean /\ Chain /\ Once(stack) /\ calls # <<>> /\ phase = "evaluate"
  BY DEF Base, ExecuteSync, Searching
<1>2. PICK m, done : m = Top.module /\ done = IF ancestor[m] = Top.index THEN Component(m) ELSE {}
  OBVIOUS
<1>3. Return(m, order) /\ UNCHANGED failed /\ Top.deps = 0
  BY <1>2 DEF ExecuteSync
<1>4. m \in On /\ m \in Modules /\ On \subseteq Modules
  BY <1>1, <1>2, RequiredIs, StackPlaces
<1>5. done \subseteq On
  BY <1>1, <1>2, <1>4, ComponentIs
<1>6. {n \in done : order[n] # 0} = {}
  BY <1>5, WaitingIs
<1>7. /\ \A n \in Modules : status'[n] = IF n \in done THEN "evaluated" ELSE status[n]
      /\ pending' = [n \in Modules |-> pending[n]]
      /\ Leave(m)
  BY <1>2, <1>3, <1>6 DEF Return
<1>8. pending' = pending
  BY <1>1, <1>7 DEF TypeOK
<1>9. Count(parents, m) = 0
  <2>1. calls[Len(calls)].deps = Count(parents, Called(Len(calls))) /\ Called(Len(calls)) = m /\ Top = calls[Len(calls)]
    BY <1>1, <1>2, TopIs DEF Deps
  <2> QED BY <1>3, <2>1
<1>10. ASSUME NEW n \in done, NEW d \in Modules PROVE n \notin ToSet(parents[d])
  <2>1. CASE m \in Cyclic
    <3>1. n \in Sync
      BY <1>1, <1>2, <1>10, <2>1, ComponentIsCalm DEF Waiting, Apart, SyncIn
    <3> QED BY <1>10, <3>1 DEF Waiting, Apart
  <2>2. CASE m \notin Cyclic
    <3>1. n = m
      BY <1>1, <1>2, <1>10, <2>2, ComponentIsCalm
    <3> QED BY <1>1, <1>9, <1>10, <3>1, WaitingTypes
  <2> QED BY <2>1, <2>2
<1>11. \A n \in On : status[n] = "evaluating"
  BY <1>1, <1>4 DEF OnStatus
<1>12. Finished(m, done)
  BY <1>2, <1>3, <1>4, <1>5, <1>7, <1>8, <1>9, <1>10, <1>11 DEF Finished
<1> QED BY <1>2, <1>12

\* So nothing that waits loses an entry.
LEMMA QuietExecuting ==
  ASSUME Base, PromisesAgree, CalmSearch, Waiting, Deps, ExecuteSync
  PROVE  Quietly
<1>1. TypeOK /\ Clean /\ phase = "evaluate"
  BY DEF Base, ExecuteSync, Searching
<1>2. PICK m : m = Top.module
  OBVIOUS
<1>3. UNCHANGED <<graph, order, parents, counter, todo, execList, running>>
  BY DEF ExecuteSync, jobs
<1>4. CASE m \in graph.throws
  BY <1>2, <1>3, <1>4, QuietUnwinding DEF ExecuteSync
<1>5. CASE m \notin graph.throws
  <2>1. PICK done : Finished(m, done)
    BY <1>2, <1>5, SyncFinishes
  <2>2. phase' = phase \/ (todo = <<>> /\ phase' # "reject")
    BY <1>1, <2>1 DEF Finished, Leave, Clean
  <2>3. \A d \in Modules : ToSet(parents[d]) \subseteq Modules
    BY <1>1, WaitingTypes
  <2> QED BY <1>3, <2>1, <2>2, <2>3 DEF Quietly, Waits, Failed, Reached, Finished
<1> QED BY <1>4, <1>5

\* No other step of a search, of link or of evaluate, is of concern.
LEMMA QuietSteps ==
  ASSUME Base, PromisesAgree, CalmSearch, Waiting, Deps,
         \/ Linking \/ EnterEvaluation \/ FailEvaluation \/ ExecuteSync \/ EndFulfill \/ EndReject
         \/ \E m \in Modules : Link(m) \/ Evaluate(m) \/ EvaluateAgain(m)
  PROVE  Quietly
<1>1. CASE Linking \/ \E m \in Modules : Link(m)
  BY <1>1, QuietLinking
<1>2. CASE EnterEvaluation \/ (\E m \in Modules : Evaluate(m) \/ EvaluateAgain(m)) \/ EndFulfill \/ EndReject
  BY <1>2, QuietEntering
<1>3. CASE FailEvaluation
  BY <1>3, QuietUnwinding DEF FailEvaluation, asyncs, bodies, jobs
<1>4. CASE ExecuteSync
  BY <1>4, QuietExecuting
<1> QED BY <1>1, <1>2, <1>3, <1>4

\* In qs the module m has one entry more than in ps, in the list of r.
OneMore(ps, qs, r, m) ==
  /\ \A d \in Modules : ToSet(qs[d]) = IF d = r THEN ToSet(ps[d]) \cup {m} ELSE ToSet(ps[d])
  /\ Count(qs, m) = Count(ps, m) + 1
  /\ \A n : n # m => Count(qs, n) = Count(ps, n)

\* That is so when m is appended to the list of r.
LEMMA EntryAdded ==
  ASSUME NEW ps \in [Modules -> Seq(Modules)], NEW qs \in [Modules -> Seq(Modules)],
         NEW r \in Modules, NEW m \in Modules,
         qs[r] = Append(ps[r], m), \A d \in Modules : d # r => qs[d] = ps[d]
  PROVE  OneMore(ps, qs, r, m)
<1>1. PICK s, t : s = ps[r] /\ t = qs[r] /\ s \in Seq(Modules) /\ t = Append(s, m)
  OBVIOUS
<1>2. ToSet(t) = ToSet(s) \cup {m}
  BY <1>1, ToSetMoves
<1>3. ASSUME NEW n
      PROVE  /\ n = m => Count(qs, n) = Count(ps, n) + 1
             /\ n # m => Count(qs, n) = Count(ps, n)
  <2>1. Count(qs, n) + Times(s, n) = Count(ps, n) + Times(t, n)
    <3>1. Count(qs, n) + Times(ps[r], n) = Count(ps, n) + Times(qs[r], n)
      BY CountChanges
    <3> QED BY <1>1, <3>1
  <2>2. Times(s, n) \in Nat
    BY ONLY <1>1, OccursFinite
  <2>3. Count(ps, n) \in Nat /\ Count(qs, n) \in Nat
    BY CountIs
  <2>4. /\ m = n => Times(t, n) = Times(s, n) + 1
        /\ m # n => Times(t, n) = Times(s, n)
    BY <1>1, TimesAppend
  <2>5. CASE n = m
    BY ONLY <2>1, <2>2, <2>3, <2>4, <2>5
  <2>6. CASE n # m
    BY ONLY <2>1, <2>2, <2>3, <2>4, <2>6
  <2> QED BY <2>5, <2>6
<1>4. \A n : (n = m => Count(qs, n) = Count(ps, n) + 1) /\ (n # m => Count(qs, n) = Count(ps, n))
  BY <1>3
<1>5. Count(qs, m) = Count(ps, m) + 1 /\ \A n : n # m => Count(qs, n) = Count(ps, n)
  BY ONLY <1>4
<1> QED BY <1>1, <1>2, <1>5 DEF OneMore

\* Whom a module waits for: a module that waits, is in no cycle, and waits itself.
LEMMA WaitsFor ==
  ASSUME Base, PromisesAgree, CalmSearch, Alone, Waiting, VisitEvaluation, IsAsync(Required)
  PROVE  /\ Required \in Modules /\ Waits(Required) /\ root[Required] = Required /\ Target(Required) = Required
         /\ Top.module \in On /\ Top.module \in Modules \ Sync /\ status[Top.module] = "evaluating"
<1> USE DEF Waits
<1>1. TypeOK /\ OnStatus /\ Chain /\ Once(stack) /\ calls # <<>> /\ phase = "evaluate" /\ HasNext
  BY DEF Base, VisitEvaluation, Searching
<1>2. PICK m, r : m = Top.module /\ r = Required
  OBVIOUS
<1>3. m \in On /\ m \in Modules /\ r \in Modules /\ Top.next \in Positions(m) /\ r = Asked(m, Top.next)
  BY <1>1, <1>2, RequiredIs DEF Positions, Asked, Required
<1>4. status[m] = "evaluating"
  BY <1>1, <1>3 DEF OnStatus
<1>5. status[r] # "evaluating"
  <2>1. status[r] = "evaluating" => r \in On
    BY <1>1, <1>3 DEF OnStatus
  <2> QED BY <1>2, <2>1, WaitingIs DEF IsAsync
<1>6. Waits(root[r]) /\ root[r] \in Modules
  BY <1>1, <1>2, <1>3, <1>5 DEF IsAsync, TypeOK
<1>7. root[r] \notin Cyclic /\ root[r] \notin Sync
  BY <1>6, WaitingIs
<1>8. root[r] = r
  BY <1>3, <1>7 DEF Alone
<1>9. m \notin Sync
  BY <1>1, <1>3, <1>7, <1>8, SyncClosed DEF Waiting, Apart
<1> QED BY <1>2, <1>3, <1>4, <1>5, <1>6, <1>8, <1>9 DEF Target

\* A module that requires what waits has an entry, and one more dependency.
LEMMA WaitingVisiting ==
  ASSUME Base, TypeOK', PromisesAgree, CalmSearch, Alone, Waiting, VisitEvaluation
  PROVE  Waiting' /\ (Deps => Deps')
<1> USE DEF Waits, Failed
<1>1. TypeOK /\ OnStatus /\ Chain /\ Once(stack) /\ Clean /\ calls # <<>> /\ phase = "evaluate" /\ HasNext
  BY DEF Base, VisitEvaluation, Searching
<1>2. PICK m, r, l : m = Top.module /\ r = Required /\ l = Len(calls)
  OBVIOUS
<1>3. m \in On /\ m \in Modules /\ r \in Modules /\ l \in Nat \ {0} /\ Called(l) = m /\ Top = calls[l] /\ Top.deps \in Nat
  BY <1>1, <1>2, RequiredIs, TopIs
<1>4. PICK k \in Nat : k = IF IsAsync(r) THEN 1 ELSE 0
  OBVIOUS
<1>5. Advance(k) /\ UNCHANGED <<graph, status, failed, phase, order, pending, counter, running, todo, execList>>
  BY <1>2, <1>4 DEF VisitEvaluation, jobs, bodies
<1>6. /\ Len(calls') = l /\ calls'[l].deps = Top.deps + k
      /\ \A j \in 1..l : calls'[j].module = calls[j].module /\ (j < l => calls'[j] = calls[j])
  <2>1. Moved(k)
    BY <1>1, <1>5, AdvanceMoves
  <2> QED BY <1>2, <2>1 DEF Moved
<1>7. \A j \in 1..l : j < l => Called(j) # m
  <2>1. \A n \in On : PlaceIn(stack, n) \in Nat
    BY <1>1, StackPlaces
  <2> QED BY <1>1, <1>2, <1>3, <2>1 DEF Chain
<1>8. ASSUME Deps, Count(parents', m) = Count(parents, m) + k, \A n : n # m => Count(parents', n) = Count(parents, n)
      PROVE  Deps'
  <2>1. \A j \in 1..l : calls[j].deps = Count(parents, Called(j))
    BY <1>1, <1>2, <1>8 DEF Deps
  <2>2. ASSUME NEW j \in 1..l PROVE calls'[j].deps = Count(parents', calls'[j].module)
    <3>1. calls'[j].module = Called(j)
      BY <1>6 DEF Called
    <3>2. CASE j < l
      BY <1>6, <1>7, <1>8, <2>1, <3>1, <3>2
    <3>3. CASE j = l
      <4>1. Top.deps = Count(parents, m)
        BY <1>3, <2>1, <3>3
      <4> QED BY <1>3, <1>6, <1>8, <3>1, <3>3, <4>1
    <3> QED BY <1>3, <3>2, <3>3
  <2> QED BY <1>6, <2>2 DEF Deps, Called
<1>9. CASE ~ IsAsync(r)
  <2>1. UNCHANGED parents
    BY <1>2, <1>9 DEF VisitEvaluation
  <2>2. Quietly
    BY <1>1, <1>5, <2>1 DEF Quietly, Reached
  <2>3. Waiting'
    BY <2>2, Undisturbed
  <2>4. k = 0 /\ Count(parents, m) \in Nat
    BY <1>1, <1>4, <1>9, WaitingTypes
  <2>5. Count(parents', m) = Count(parents, m) + k /\ \A n : n # m => Count(parents', n) = Count(parents, n)
    BY <2>1, <2>4
  <2> QED BY <1>8, <2>3, <2>5
<1>10. CASE IsAsync(r)
  <2>1. Waits(r) /\ m \notin Sync /\ status[m] = "evaluating" /\ Target(r) = r
    BY <1>2, <1>10, WaitsFor
  <2>2. parents' = [parents EXCEPT ![r] = Append(@, m)]
    BY <1>2, <1>10, <2>1 DEF VisitEvaluation
  <2>3. parents \in [Modules -> Seq(Modules)]
    BY <1>1 DEF TypeOK
  <2>4. /\ \A d \in Modules : ToSet(parents'[d]) = IF d = r THEN ToSet(parents[d]) \cup {m} ELSE ToSet(parents[d])
        /\ Count(parents', m) = Count(parents, m) + 1
        /\ \A n : n # m => Count(parents', n) = Count(parents, n)
    <3>1. parents' \in [Modules -> Seq(Modules)]
      BY DEF TypeOK
    <3>2. parents'[r] = Append(parents[r], m) /\ \A d \in Modules : d # r => parents'[d] = parents[d]
      BY <1>3, <2>2, <2>3
    <3>3. PICK ps, qs : ps = parents /\ qs = parents'
      OBVIOUS
    <3>4. /\ ps \in [Modules -> Seq(Modules)] /\ qs \in [Modules -> Seq(Modules)]
          /\ qs[r] = Append(ps[r], m) /\ \A d \in Modules : d # r => qs[d] = ps[d]
      BY <2>3, <3>1, <3>2, <3>3
    <3>5. OneMore(ps, qs, r, m)
      BY ONLY <1>3, <3>4, EntryAdded
    <3> QED BY <3>3, <3>5 DEF OneMore
  <2>5. Apart /\ Ordered /\ Listed /\ Told /\ Ready /\ Exact
    BY DEF Waiting
  <2>6. Apart'
    BY <1>5, <2>1, <2>4, <2>5, SyncStays DEF Apart
  <2>7. Ordered' /\ Told'
    BY <1>5, <2>5 DEF Ordered, Told, Reached
  <2>8. Listed'
    <3>1. UNCHANGED <<status, failed, order>>
      BY <1>5
    <3>2. ASSUME NEW d \in Modules, NEW n \in ToSet(parents'[d])
          PROVE  Waits(d) /\ (status[n] = "evaluating" \/ (Waits(n) /\ order[d] < order[n]) \/ Failed(n))
      <4>1. CASE n \in ToSet(parents[d])
        BY <2>5, <4>1 DEF Listed
      <4>2. CASE n \notin ToSet(parents[d])
        <5>1. d = r /\ n = m
          BY <2>4, <3>2, <4>2
        <5> QED BY <2>1, <5>1
      <4> QED BY <4>1, <4>2
    <3> QED BY <3>1, <3>2 DEF Listed
  <2>9. Ready'
    <3>1. execList = {}
      BY <1>1 DEF Clean
    <3> QED BY <1>1, <1>5, <2>5, <3>1 DEF Ready, Throwers
  <2>10. Exact'
    <3>1. \A n : Times(todo', n) = Times(todo, n)
      BY <1>5
    <3> QED BY <1>1, <1>5, <2>1, <2>4, <2>5, <3>1 DEF Exact
  <2> QED BY <1>4, <1>8, <1>10, <2>4, <2>6, <2>7, <2>8, <2>9, <2>10 DEF Waiting
<1> QED BY <1>9, <1>10

\* The module m begins to wait, last in the order, or runs.
Queued(m) ==
  /\ m = Top.module /\ m \in On /\ m \in Modules \ (Sync \cup Cyclic) /\ status[m] = "evaluating"
  /\ ancestor[m] = Top.index /\ Component(m) = {m} /\ Leave(m)
  /\ Top.deps = Count(parents, m) /\ (Top.deps > 0 \/ m \in graph.tla)
  /\ UNCHANGED <<graph, failed, parents, todo, execList>> /\ counter' = counter + 1
  /\ running' = IF Top.deps = 0 THEN running \cup {m} ELSE running
  /\ started' = IF Top.deps = 0 THEN started \cup {m} ELSE started
  /\ \A n \in Modules : /\ status'[n] = IF n = m THEN "evaluating-async" ELSE status[n]
                        /\ pending'[n] = IF n = m THEN Top.deps ELSE pending[n]
                        /\ order'[n] = IF n = m THEN counter + 1 ELSE order[n]
  /\ phase' \in {"idle", "evaluate"} /\ todo = <<>> /\ execList = {} /\ ToSet(todo) = {}

\* A module that begins to wait has counted its entries.
LEMMA AsyncQueues ==
  ASSUME Base, PromisesAgree, CalmSearch, Waiting, Deps, ExecuteAsync
  PROVE  Queued(Top.module)
<1> USE DEF Waits, Failed, Reached
<1>1. TypeOK /\ OnStatus /\ Chain /\ Once(stack) /\ Clean /\ calls # <<>> /\ phase = "evaluate"
  BY DEF Base, ExecuteAsync, Searching
<1>2. PICK m, l : m = Top.module /\ l = Len(calls)
  OBVIOUS
<1>3. m \in On /\ m \in Modules /\ l \in Nat \ {0} /\ l \in 1..l /\ Called(l) = m /\ Top = calls[l] /\ Top.deps \in Nat
  BY <1>1, <1>2, RequiredIs, TopIs
<1>4. /\ order \in [Modules -> Nat] /\ counter \in Nat
      /\ \A n : Count(parents, n) \in Nat /\ (Count(parents, n) = 0 <=> \A d \in Modules : n \notin ToSet(parents[d]))
  BY <1>1, WaitingTypes
<1>5. Top.deps = Count(parents, m) /\ (Top.deps > 0 \/ m \in graph.tla)
  BY <1>1, <1>2, <1>3 DEF Deps, ExecuteAsync
<1>6. m \notin Sync /\ m \notin Cyclic
  BY <1>3, <1>4, <1>5 DEF Waiting, Apart, SyncIn
<1>7. ancestor[m] = Top.index /\ Component(m) = {m}
  BY <1>1, <1>2, <1>6, ComponentIsCalm
<1>8. order' = [order EXCEPT ![m] = counter + 1] /\ counter' = counter + 1
      /\ UNCHANGED <<graph, failed, parents, todo, execList>>
      /\ running' = (IF Top.deps = 0 THEN running \cup {m} ELSE running)
      /\ started' = (IF Top.deps = 0 THEN started \cup {m} ELSE started)
  BY <1>2 DEF ExecuteAsync, jobs
<1>9. Return(m, [order EXCEPT ![m] = counter + 1])
  BY <1>2 DEF ExecuteAsync
<1>10. {n \in {m} : [order EXCEPT ![m] = counter + 1][n] # 0} = {m}
  BY <1>3, <1>4
<1>11. /\ \A n \in Modules : status'[n] = IF n \in {m} THEN "evaluating-async" ELSE IF n \in {m} THEN "evaluated" ELSE status[n]
       /\ \A n \in Modules : pending'[n] = IF n \in {m} THEN Top.deps ELSE pending[n]
       /\ Leave(m)
  BY <1>7, <1>9, <1>10 DEF Return
<1>12. \A n \in Modules : /\ status'[n] = IF n = m THEN "evaluating-async" ELSE status[n]
                          /\ pending'[n] = IF n = m THEN Top.deps ELSE pending[n]
                          /\ order'[n] = IF n = m THEN counter + 1 ELSE order[n]
  BY <1>4, <1>8, <1>11
<1>13. phase' \in {"idle", "evaluate"}
  BY <1>1, <1>11 DEF Leave
<1>14. status[m] = "evaluating" /\ todo = <<>> /\ execList = {} /\ ToSet(todo) = {}
  BY <1>1, <1>3 DEF OnStatus, Clean, ToSet
<1>15. Queued(m)
  BY <1>2, <1>3, <1>5, <1>6, <1>7, <1>8, <1>11, <1>12, <1>13, <1>14 DEF Queued
<1> QED BY <1>2, <1>15

\* It comes last in the order, and its counter is that number of entries.
LEMMA WaitingExecuting ==
  ASSUME Base, PromisesAgree, CalmSearch, Waiting, Deps, ExecuteAsync
  PROVE  Waiting'
<1> USE DEF Waits, Failed, Reached
<1>1. TypeOK /\ phase = "evaluate"
  BY DEF Base, ExecuteAsync, Searching
<1>2. PICK m : Queued(m)
  BY AsyncQueues
<1>4. Apart /\ Ordered /\ Listed /\ Told /\ Ready /\ Exact
  BY DEF Waiting
<1>5. /\ order \in [Modules -> Nat] /\ pending \in [Modules -> Nat]
      /\ counter \in Nat /\ \A d \in Modules : ToSet(parents[d]) \subseteq Modules
      /\ \A n : Times(todo, n) = 0 <=> n \notin ToSet(todo)
      /\ \A n : Count(parents, n) \in Nat
      /\ running \subseteq Modules
  BY <1>1, WaitingTypes
<1>3. m \in Modules /\ m \notin Sync
  BY <1>2 DEF Queued
<1>6. Top.deps = Count(parents, m) /\ (Top.deps > 0 \/ m \in graph.tla)
  BY <1>2 DEF Queued
<1>10. /\ UNCHANGED <<graph, failed, parents, todo, execList>> /\ counter' = counter + 1
       /\ running' = IF Top.deps = 0 THEN running \cup {m} ELSE running
  BY <1>2 DEF Queued
<1>13. /\ \A n \in Modules : status'[n] = IF n = m THEN "evaluating-async" ELSE status[n]
       /\ \A n \in Modules : pending'[n] = IF n = m THEN Top.deps ELSE pending[n]
       /\ \A n \in Modules : order'[n] = IF n = m THEN counter + 1 ELSE order[n]
       /\ phase' \in {"idle", "evaluate"}
  BY <1>2 DEF Queued
<1>15. status[m] = "evaluating" /\ todo = <<>> /\ execList = {} /\ ToSet(todo) = {}
  BY <1>2 DEF Queued
<1>16. Apart'
  BY <1>3, <1>4, <1>10, <1>13, SyncStays DEF Apart, SyncIn, Closed
<1>17. Ordered'
  BY <1>4, <1>5, <1>10, <1>13 DEF Ordered
<1>18. Listed'
  <2>1. ASSUME NEW d \in Modules, NEW n \in ToSet(parents[d])
        PROVE  Waits(d)' /\ (status'[n] = "evaluating" \/ (Waits(n)' /\ order'[d] < order'[n]) \/ Failed(n)')
    <3>1. n \in Modules /\ Waits(d) /\ (status[n] = "evaluating" \/ (Waits(n) /\ order[d] < order[n]) \/ Failed(n))
      BY <1>4, <1>5, <2>1 DEF Listed
    <3>2. d # m /\ Waits(d)' /\ order'[d] = order[d]
      BY <1>13, <1>15, <3>1
    <3>3. CASE n = m
      <4>1. order[d] <= counter
        BY <1>4 DEF Ordered
      <4>2. order[d] < counter + 1 /\ Waits(n)'
        BY <1>3, <1>5, <1>13, <3>3, <4>1
      <4> QED BY <1>3, <1>13, <3>2, <3>3, <4>2
    <3>4. CASE n # m
      BY <1>10, <1>13, <3>1, <3>2, <3>4
    <3> QED BY <3>3, <3>4
  <2> QED BY <1>10, <2>1 DEF Listed
<1>19. Told'
  BY <1>10, <1>15 DEF Told
<1>20. Ready'
  <2>1. ASSUME NEW n \in Modules, Waits(n)', pending'[n] = 0 PROVE n \in running' \cup Throwers'
    <3>1. CASE n = m
      BY <1>10, <1>13, <2>1, <3>1
    <3>2. CASE n # m
      BY <1>1, <1>4, <1>10, <1>13, <1>15, <2>1, <3>2 DEF Ready, Throwers
    <3> QED BY <3>1, <3>2
  <2>2. ASSUME NEW n \in running' PROVE Waits(n)' /\ pending'[n] = 0
    <3>1. CASE n = m
      <4>1. ~ Waits(m)
        BY <1>15
      <4>2. n \notin running
        BY <1>4, <3>1, <4>1 DEF Ready
      <4> QED BY <1>3, <1>10, <1>13, <2>2, <3>1, <4>2
    <3>2. CASE n # m
      <4>1. n \in running /\ n \in Modules
        BY <1>5, <1>10, <2>2, <3>2
      <4> QED BY <1>4, <1>13, <3>2, <4>1 DEF Ready
    <3> QED BY <3>1, <3>2
  <2>3. running' \subseteq graph'.tla
    BY <1>4, <1>5, <1>6, <1>10 DEF Ready
  <2> QED BY <1>10, <1>15, <2>1, <2>2, <2>3 DEF Ready
<1>21. Exact'
  <2>1. ASSUME NEW n \in Modules, Waits(n)' PROVE pending'[n] = Count(parents', n) + Times(todo', n)
    <3>1. Times(todo', n) = 0 /\ Count(parents', n) = Count(parents, n) /\ Times(todo, n) = 0
      BY <1>5, <1>10, <1>15
    <3>2. CASE n = m
      BY <1>5, <1>6, <1>13, <3>1, <3>2
    <3>3. CASE n # m
      <4>1. Waits(n) /\ pending'[n] = pending[n]
        BY <1>13, <2>1, <3>3
      <4>2. pending[n] = Count(parents, n) + Times(todo, n)
        BY <1>1, <1>4, <4>1 DEF Exact
      <4> QED BY <3>1, <4>1, <4>2
    <3> QED BY <3>2, <3>3
  <2> QED BY <1>13, <2>1 DEF Exact
<1> QED BY <1>16, <1>17, <1>18, <1>19, <1>20, <1>21 DEF Waiting

\* The list s is h followed by t.
Heads(s, h, t) ==
  /\ h \in Modules /\ t \in Seq(Modules) /\ ToSet(s) = ToSet(t) \cup {h} /\ ToSet(t) \subseteq Modules
  /\ Times(s, h) = Times(t, h) + 1
  /\ \A n : n # h => Times(s, n) = Times(t, n)
  /\ \A n : Times(t, n) \in Nat /\ (Times(t, n) = 0 <=> n \notin ToSet(t))

\* A list that is not empty is its head and its tail.
LEMMA HeadIs ==
  ASSUME NEW s \in Seq(Modules), s # <<>>
  PROVE  Heads(s, Head(s), Tail(s))
<1>1. PICK h, t : h = Head(s) /\ t = Tail(s)
  OBVIOUS
<1>2. h \in Modules /\ t \in Seq(Modules)
  BY <1>1, HeadTailProperties
<1>3. ToSet(s) = ToSet(t) \cup {h}
  BY <1>1, <1>2, ToSetMoves
<1>4. \A n : (h = n => Times(s, n) = Times(t, n) + 1) /\ (h # n => Times(s, n) = Times(t, n))
  BY <1>1, TimesTail
<1>5. \A n : Times(t, n) \in Nat /\ (Times(t, n) = 0 <=> n \notin ToSet(t))
  BY <1>2, OccursFinite
<1>6. ToSet(t) \subseteq Modules
  BY <1>2, ToSetFacts
<1> QED BY <1>1, <1>2, <1>3, <1>4, <1>5, <1>6 DEF Heads

\* The list of p is taken from ps and put before the list s: ts is what comes of s.
Taken(ps, qs, p, s, ts) ==
  /\ ToSet(ts) = ToSet(ps[p]) \cup ToSet(s)
  /\ \A d \in Modules : ToSet(qs[d]) = IF d = p THEN {} ELSE ToSet(ps[d])
  /\ \A n : Count(qs, n) + Times(ts, n) = Count(ps, n) + Times(s, n)
  /\ \A n : n \notin ToSet(ps[p]) => Count(qs, n) = Count(ps, n)
  /\ \A n : Count(qs, n) \in Nat /\ Times(ts, n) \in Nat
  /\ \A n : Times(ts, n) = 0 <=> n \notin ToSet(ts)

\* That is what comes of a list that is taken.
LEMMA ListTaken ==
  ASSUME NEW ps \in [Modules -> Seq(Modules)], NEW qs \in [Modules -> Seq(Modules)], NEW p \in Modules,
         NEW s \in Seq(Modules), NEW ts, ts = ps[p] \o s,
         qs[p] = <<>>, \A d \in Modules : d # p => qs[d] = ps[d]
  PROVE  Taken(ps, qs, p, s, ts)
<1>1. PICK l : l = ps[p] /\ l \in Seq(Modules)
  OBVIOUS
<1>2. ts \in Seq(Modules)
  BY <1>1, ConcatProperties
<1>3. ASSUME NEW n
      PROVE  /\ Times(ts, n) = Times(l, n) + Times(s, n)
             /\ Times(ts, n) \in Nat /\ Times(l, n) \in Nat /\ Times(s, n) \in Nat
             /\ Times(ts, n) = 0 <=> n \notin ToSet(ts)
             /\ Times(l, n) = 0 <=> n \notin ToSet(l)
             /\ Times(s, n) = 0 <=> n \notin ToSet(s)
             /\ Count(qs, n) + Times(l, n) = Count(ps, n)
             /\ Count(ps, n) \in Nat /\ Count(qs, n) \in Nat
  <2>1. Times(ts, n) = Times(l, n) + Times(s, n)
    BY <1>1, TimesJoined
  <2>2. /\ Times(ts, n) \in Nat /\ Times(l, n) \in Nat /\ Times(s, n) \in Nat
        /\ Times(ts, n) = 0 <=> n \notin ToSet(ts)
        /\ Times(l, n) = 0 <=> n \notin ToSet(l)
        /\ Times(s, n) = 0 <=> n \notin ToSet(s)
    BY <1>1, <1>2, OccursFinite
  <2>3. Count(qs, n) + Times(ps[p], n) = Count(ps, n) + Times(qs[p], n)
    BY CountChanges
  <2>4. Count(ps, n) \in Nat /\ Count(qs, n) \in Nat
    BY CountIs
  <2>5. Times(qs[p], n) = 0
    <3>1. PICK z : z = qs[p] /\ z = <<>> /\ z \in Seq(Modules)
      OBVIOUS
    <3>2. ToSet(z) = {}
      BY <3>1 DEF ToSet
    <3>3. Times(z, n) = 0
      BY <3>1, <3>2, OccursFinite
    <3> QED BY <3>1, <3>3
  <2>6. Count(qs, n) + Times(l, n) = Count(ps, n)
    BY ONLY <1>1, <2>3, <2>4, <2>5
  <2> QED BY <2>1, <2>2, <2>4, <2>6
<1>4. ToSet(ts) = ToSet(l) \cup ToSet(s)
  <2>1. ASSUME NEW n PROVE n \in ToSet(ts) <=> n \in ToSet(l) \/ n \in ToSet(s)
    <3>1. Times(ts, n) = 0 <=> Times(l, n) = 0 /\ Times(s, n) = 0
      BY <1>3
    <3> QED BY <1>3, <3>1
  <2> QED BY <2>1
<1>5. \A d \in Modules : ToSet(qs[d]) = IF d = p THEN {} ELSE ToSet(ps[d])
  <2>1. ToSet(<<>>) = {}
    BY DEF ToSet
  <2>2. ToSet(qs[p]) = {}
    BY <2>1
  <2> QED BY <2>2
<1>6. ASSUME NEW n PROVE Count(qs, n) + Times(ts, n) = Count(ps, n) + Times(s, n)
  <2>1. /\ Times(ts, n) = Times(l, n) + Times(s, n) /\ Count(qs, n) + Times(l, n) = Count(ps, n)
        /\ Times(l, n) \in Nat /\ Times(s, n) \in Nat /\ Count(qs, n) \in Nat
    BY <1>3
  <2> QED BY ONLY <2>1
<1>7. ASSUME NEW n, n \notin ToSet(ps[p]) PROVE Count(qs, n) = Count(ps, n)
  BY <1>1, <1>3, <1>7
<1> QED BY <1>1, <1>3, <1>4, <1>5, <1>6, <1>7 DEF Taken

\* Modules that are told, or have entries, between two searches.
LEMMA NoneEvaluating ==
  ASSUME Base, Waiting, phase \in {"idle", "gather", "reject"}
  PROVE  /\ \A n \in Modules : status[n] # "evaluating"
         /\ \A d \in Modules : \A n \in ToSet(parents[d]) : Waits(n) \/ Failed(n)
<1>1. \A n \in Modules : status[n] # "evaluating"
  BY DEF Base, OnStatus
<1>2. \A d \in Modules : ToSet(parents[d]) \subseteq Modules
  BY WaitingTypes DEF Base
<1> QED BY <1>1, <1>2 DEF Waiting, Listed

\* A body that ends well: those that wait for it are told.
LEMMA WaitingFulfill ==
  ASSUME Base, TypeOK', PromisesAgree, Waiting, NEW m \in Modules, Fulfill(m)
  PROVE  Waiting'
<1> USE DEF Waits, Failed, Reached
<1>1. TypeOK /\ Clean /\ phase = "idle" /\ m \in running
  BY DEF Base, Fulfill
<1>2. Apart /\ Ordered /\ Listed /\ Told /\ Ready /\ Exact
  BY DEF Waiting
<1>3. /\ parents \in [Modules -> Seq(Modules)] /\ \A d \in Modules : ToSet(parents[d]) \subseteq Modules
      /\ status \in [Modules -> Statuses] /\ running \subseteq Modules
      /\ \A n : Times(todo, n) = 0 <=> n \notin ToSet(todo)
      /\ \A n : Count(parents, n) \in Nat /\ Times(todo, n) \in Nat
  BY <1>1, WaitingTypes
<1>4. todo = <<>> /\ execList = {} /\ ToSet(todo) = {}
  BY <1>1 DEF Clean, ToSet
<1>5. Waits(m) /\ \A n \in running : \A d \in Modules : n \notin ToSet(parents[d])
  BY <1>1, <1>2, WaitingIs DEF Ready
<1>6. /\ \A n \in Modules : status'[n] = IF n = m THEN "evaluated" ELSE status[n]
      /\ phase' = "gather" /\ todo' = parents[m] /\ parents' = [parents EXCEPT ![m] = <<>>]
      /\ UNCHANGED <<graph, failed, order, pending, counter, execList>> /\ running' = running \ {m}
  BY <1>3, <1>5 DEF Fulfill, Complete
<1>7. Taken(parents, parents', m, todo, todo')
  <2>1. PICK ps, qs, s, ts : ps = parents /\ qs = parents' /\ s = todo /\ ts = todo'
    OBVIOUS
  <2>2. /\ ps \in [Modules -> Seq(Modules)] /\ qs \in [Modules -> Seq(Modules)] /\ s \in Seq(Modules)
        /\ qs[m] = <<>> /\ \A d \in Modules : d # m => qs[d] = ps[d]
    BY <1>1, <1>3, <1>6, <2>1 DEF TypeOK
  <2>3. ts = ps[m] \o s
    BY <1>3, <1>4, <1>6, <2>1, ConcatEmptySeq
  <2>4. Taken(ps, qs, m, s, ts)
    BY <2>2, <2>3, ListTaken
  <2> QED BY <2>1, <2>4
<1>8. /\ ToSet(todo') = ToSet(parents[m])
      /\ \A d \in Modules : ToSet(parents'[d]) = IF d = m THEN {} ELSE ToSet(parents[d])
      /\ \A n : Count(parents', n) + Times(todo', n) = Count(parents, n) + Times(todo, n)
  BY <1>4, <1>7 DEF Taken
<1>9. \A d \in Modules : \A n \in ToSet(parents[d]) : n # m /\ n \in Modules /\ (Waits(n) \/ Failed(n))
  BY <1>1, <1>3, <1>5, NoneEvaluating
<1>10. Apart'
  BY <1>2, <1>6, <1>8, SyncStays DEF Apart
<1>11. Ordered'
  BY <1>2, <1>5, <1>6 DEF Ordered
<1>12. Listed' /\ Told'
  BY <1>2, <1>3, <1>6, <1>8, <1>9 DEF Listed, Told
<1>13. Ready'
  BY <1>2, <1>3, <1>4, <1>5, <1>6, <1>8 DEF Ready, Throwers
<1>14. Exact'
  BY <1>1, <1>2, <1>6, <1>8 DEF Exact
<1> QED BY <1>10, <1>11, <1>12, <1>13, <1>14 DEF Waiting

\* A parent that is told waits for one thing less, is ready when that was the
\* last, and tells its own parents when it can run at once.
LEMMA WaitingGather ==
  ASSUME Base, TypeOK', PromisesAgree, Waiting, Gather
  PROVE  Waiting'
<1> USE DEF Waits, Failed, Reached
<1>1. TypeOK /\ Clean /\ phase = "gather" /\ todo # <<>>
  BY DEF Base, Gather
<1>2. Apart /\ Ordered /\ Listed /\ Told /\ Ready /\ Exact
  BY DEF Waiting
<1>3. /\ parents \in [Modules -> Seq(Modules)] /\ \A d \in Modules : ToSet(parents[d]) \subseteq Modules
      /\ status \in [Modules -> Statuses] /\ pending \in [Modules -> Nat] /\ todo \in Seq(Modules)
      /\ running \subseteq Modules /\ execList \subseteq Modules
      /\ \A n : Times(todo, n) = 0 <=> n \notin ToSet(todo)
      /\ \A n : Count(parents, n) \in Nat /\ Times(todo, n) \in Nat
  BY <1>1, WaitingTypes
<1>4. PICK p, t : p = Head(todo) /\ t = Tail(todo)
  OBVIOUS
<1>5. Heads(todo, p, t)
  BY <1>1, <1>3, <1>4, HeadIs
<1>6. /\ p \in Modules /\ t \in Seq(Modules) /\ ToSet(todo) = ToSet(t) \cup {p} /\ ToSet(t) \subseteq Modules
      /\ Times(todo, p) = Times(t, p) + 1
      /\ \A n : n # p => Times(todo, n) = Times(t, n)
      /\ \A n : Times(t, n) \in Nat /\ (Times(t, n) = 0 <=> n \notin ToSet(t))
  BY <1>5 DEF Heads
<1>7. Waits(p) /\ pending[p] > 0
  BY <1>4 DEF Gather
<1>8. /\ UNCHANGED <<graph, status, failed, order, counter, running>> /\ phase' = "gather"
      /\ \A n \in Modules : pending'[n] = IF n = p THEN pending[n] - 1 ELSE pending[n]
      /\ execList' = IF pending[p] = 1 THEN execList \cup {p} ELSE execList
      /\ IF pending[p] = 1 /\ p \notin graph.tla
           THEN todo' = parents[p] \o t /\ parents' = [parents EXCEPT ![p] = <<>>]
           ELSE todo' = t /\ parents' = parents
  BY <1>1, <1>3, <1>4 DEF Gather, bodies
<1>9. pending[p] = Count(parents, p) + Times(todo, p)
  BY <1>1, <1>2, <1>6, <1>7 DEF Exact
<1>10. /\ \A n : Count(parents', n) + Times(todo', n) = Count(parents, n) + Times(t, n)
       /\ \A n : Times(todo', n) = 0 <=> n \notin ToSet(todo')
       /\ \A n : Count(parents', n) \in Nat /\ Times(todo', n) \in Nat
       /\ \A d \in Modules : ToSet(parents'[d]) \subseteq ToSet(parents[d])
       /\ ToSet(todo') \subseteq ToSet(parents[p]) \cup ToSet(t)
       /\ \A d \in Modules : parents[d] = <<>> => parents'[d] = <<>>
       /\ (pending[p] = 1 /\ p \notin graph.tla) => parents'[p] = <<>>
  <2>1. CASE pending[p] = 1 /\ p \notin graph.tla
    <3>1. PICK ps, qs, ts : ps = parents /\ qs = parents' /\ ts = todo'
      OBVIOUS
    <3>2. /\ ps \in [Modules -> Seq(Modules)] /\ qs \in [Modules -> Seq(Modules)] /\ t \in Seq(Modules) /\ p \in Modules
          /\ qs[p] = <<>> /\ \A d \in Modules : d # p => qs[d] = ps[d]
      BY <1>3, <1>6, <1>8, <2>1, <3>1 DEF TypeOK
    <3>3. ts = ps[p] \o t
      BY <1>8, <2>1, <3>1
    <3>4. Taken(ps, qs, p, t, ts)
      BY <3>2, <3>3, ListTaken
    <3>5. /\ ToSet(todo') = ToSet(parents[p]) \cup ToSet(t)
          /\ \A d \in Modules : ToSet(parents'[d]) = IF d = p THEN {} ELSE ToSet(parents[d])
          /\ \A n : Count(parents', n) + Times(todo', n) = Count(parents, n) + Times(t, n)
          /\ \A n : Count(parents', n) \in Nat /\ Times(todo', n) \in Nat
          /\ \A n : Times(todo', n) = 0 <=> n \notin ToSet(todo')
      BY <3>1, <3>4 DEF Taken
    <3>6. parents'[p] = <<>> /\ \A d \in Modules : d # p => parents'[d] = parents[d]
      BY <3>1, <3>2
    <3> QED BY <3>5, <3>6
  <2>2. CASE ~ (pending[p] = 1 /\ p \notin graph.tla)
    BY <1>3, <1>6, <1>8, <2>2
  <2> QED BY <2>1, <2>2
<1>11. \A d \in Modules : \A n \in ToSet(parents[d]) : n \in Modules /\ (Waits(n) \/ Failed(n))
  BY <1>1, <1>3, NoneEvaluating
<1>12. Apart'
  BY <1>2, <1>6, <1>8, <1>10, SyncStays DEF Apart
<1>13. Ordered'
  BY <1>2, <1>8 DEF Ordered
<1>14. Listed'
  BY <1>2, <1>8, <1>10 DEF Listed
<1>15. Told'
  BY <1>2, <1>6, <1>8, <1>10, <1>11 DEF Told
<1>16. Exact'
  <2>1. ASSUME NEW n \in Modules, Waits(n) PROVE pending'[n] = Count(parents', n) + Times(todo', n)
    <3>1. pending[n] = Count(parents, n) + Times(todo, n) /\ pending[n] \in Nat
      BY <1>1, <1>2, <1>3, <2>1 DEF Exact
    <3>2. CASE n = p
      <4>1. /\ pending[p] = Count(parents, p) + Times(todo, p) /\ Times(todo, p) = Times(t, p) + 1
            /\ pending'[p] = pending[p] - 1 /\ Count(parents, p) \in Nat /\ Times(t, p) \in Nat
        BY <1>3, <1>6, <1>8, <1>9
      <4>2. pending'[p] = Count(parents, p) + Times(t, p)
        BY ONLY <4>1
      <4> QED BY <1>10, <3>2, <4>2
    <3>3. CASE n # p
      BY <1>6, <1>8, <1>10, <3>1, <3>3
    <3> QED BY <3>2, <3>3
  <2> QED BY <1>8, <2>1 DEF Exact
<1>17. Ready'
  <2>1. ASSUME NEW n \in Modules, Waits(n), pending'[n] = 0 PROVE n \in running' \cup execList' \cup Throwers'
    BY <1>1, <1>2, <1>3, <1>7, <1>8, <2>1 DEF Ready, Throwers
  <2>2. ASSUME NEW n \in running' \cup execList' PROVE Waits(n) /\ pending'[n] = 0 /\ n \notin ToSet(todo')
    <3>1. n \in Modules /\ Waits(n) /\ pending'[n] = 0
      <4>1. CASE n \in running \cup execList
        <5>1. n \in Modules /\ Waits(n) /\ pending[n] = 0
          BY <1>2, <1>3, <4>1 DEF Ready
        <5> QED BY <1>7, <1>8, <5>1
      <4>2. CASE n \notin running \cup execList
        <5>1. n = p /\ pending[p] = 1
          BY <1>8, <2>2, <4>2
        <5> QED BY <1>6, <1>7, <1>8, <5>1
      <4> QED BY <4>1, <4>2
    <3>2. 0 = Count(parents', n) + Times(todo', n)
      BY <1>8, <1>16, <3>1 DEF Exact
    <3>3. Times(todo', n) = 0
      <4>1. Count(parents', n) \in Nat /\ Times(todo', n) \in Nat
        BY <1>10
      <4> QED BY ONLY <3>2, <4>1
    <3> QED BY <1>10, <3>1, <3>3
  <2>3. \A n \in execList' \ graph'.tla : parents'[n] = <<>>
    BY <1>2, <1>3, <1>8, <1>10 DEF Ready
  <2>4. running' \subseteq graph'.tla
    BY <1>2, <1>8 DEF Ready
  <2> QED BY <1>8, <2>1, <2>2, <2>3, <2>4 DEF Ready
<1> QED BY <1>12, <1>13, <1>14, <1>15, <1>16, <1>17 DEF Waiting

\* A parent is skipped only when it has failed.
LEMMA WaitingSkip ==
  ASSUME Base, PromisesAgree, Alone, Waiting, SkipParent
  PROVE  Waiting'
<1> USE DEF Waits, Failed, Reached
<1>1. TypeOK /\ Clean /\ phase = "gather" /\ todo # <<>>
  BY DEF Base, SkipParent
<1>2. Apart /\ Ordered /\ Listed /\ Told /\ Ready /\ Exact
  BY DEF Waiting
<1>3. todo \in Seq(Modules) /\ running \cup execList \subseteq Modules
  BY <1>1, WaitingTypes
<1>4. PICK p, t : p = Head(todo) /\ t = Tail(todo)
  OBVIOUS
<1>5. Heads(todo, p, t)
  BY <1>1, <1>3, <1>4, HeadIs
<1>6. /\ p \in Modules /\ ToSet(todo) = ToSet(t) \cup {p}
      /\ \A n : n # p => Times(todo, n) = Times(t, n)
  BY <1>5 DEF Heads
<1>7. /\ UNCHANGED <<graph, status, failed, order, pending, parents, counter, running, execList, phase>>
      /\ todo' = t
  BY <1>4 DEF SkipParent, asyncs, bodies
<1>8. Failed(p)
  <2>1. p \notin execList
    BY <1>2, <1>6 DEF Ready
  <2>2. failed[root[p]]
    BY <1>4, <2>1 DEF SkipParent, Skipped
  <2>3. ~ Waits(p)
    <3>1. Waits(p) => root[p] = p /\ ~ failed[p]
      BY <1>6, WaitingIs DEF Alone
    <3> QED BY <2>2, <3>1
  <2> QED BY <1>2, <1>6, <2>3 DEF Told
<1>9. Apart'
  BY <1>2, <1>6, <1>7, SyncStays DEF Apart
<1>10. Ordered' /\ Listed' /\ Told'
  BY <1>2, <1>6, <1>7 DEF Ordered, Listed, Told
<1>11. Ready'
  BY <1>1, <1>2, <1>6, <1>7 DEF Ready, Throwers
<1>12. Exact'
  <2>1. ASSUME NEW n \in Modules, Waits(n) PROVE pending'[n] = Count(parents', n) + Times(todo', n)
    <3>1. n # p /\ pending[n] = Count(parents, n) + Times(todo, n)
      BY <1>1, <1>2, <1>8, <2>1 DEF Exact
    <3> QED BY <1>6, <1>7, <3>1
  <2> QED BY <1>1, <1>7, <2>1 DEF Exact
<1> QED BY <1>9, <1>10, <1>11, <1>12 DEF Waiting

\* What has become ready has its body started, or completes.
LEMMA WaitingRun ==
  ASSUME Base, PromisesAgree, Waiting, NEW m \in Modules, RunReady(m)
  PROVE  Waiting' /\ (Throwers \subseteq Sync => m \notin Throwers)
<1> USE DEF Waits, Failed, Reached
<1>1. TypeOK /\ Clean /\ phase = "gather" /\ todo = <<>> /\ m \in execList /\ Waits(m)
  BY DEF Base, RunReady, NextReady
<1>2. Apart /\ Ordered /\ Listed /\ Told /\ Ready /\ Exact
  BY DEF Waiting
<1>3. /\ status \in [Modules -> Statuses] /\ running \cup execList \subseteq Modules
      /\ \A d \in Modules : ToSet(parents[d]) \subseteq Modules
  BY <1>1, WaitingTypes
<1>4. Throwers \subseteq Sync => m \notin Throwers
  BY <1>1, WaitingIs
<1>5. \A d \in Modules : m \notin ToSet(parents[d])
  BY <1>1, WaitingIs
<1>6. m \notin graph.tla => parents[m] = <<>>
  BY <1>1, <1>2 DEF Ready
<1>7. ToSet(parents[m]) # {} => m \in graph.tla
  BY <1>6 DEF ToSet
<1>8. /\ UNCHANGED <<graph, failed, order, pending, parents, counter, todo, phase>>
      /\ execList' = execList \ {m}
      /\ running' = IF m \in graph.tla THEN running \cup {m} ELSE running
      /\ \A n \in Modules : status'[n] = IF n = m /\ m \notin graph.tla \cup Throwers THEN "evaluated" ELSE status[n]
  <2>1. status' = IF m \in graph.tla \cup Throwers THEN status ELSE [status EXCEPT ![m] = "evaluated"]
    BY DEF RunReady, Complete, Throwers
  <2> QED BY <1>3, <2>1 DEF RunReady, asyncs
<1>9. Apart'
  BY <1>2, <1>8, SyncStays DEF Apart
<1>10. Ordered'
  BY <1>1, <1>2, <1>8 DEF Ordered
<1>11. Listed'
  BY <1>1, <1>2, <1>3, <1>5, <1>7, <1>8 DEF Listed
<1>12. Told' /\ Exact'
  <2>1. ToSet(todo) = {}
    BY <1>1 DEF ToSet
  <2> QED BY <1>1, <1>2, <1>8, <2>1 DEF Told, Exact
<1>13. Ready'
  BY <1>1, <1>2, <1>3, <1>8 DEF Ready, Throwers
<1> QED BY <1>4, <1>9, <1>10, <1>11, <1>12, <1>13 DEF Waiting

\* A body that throws: its module is the first to fail.
LEMMA WaitingReject ==
  ASSUME Base, TypeOK', PromisesAgree, Waiting, NEW m \in Modules, Reject(m)
  PROVE  Waiting'
<1> USE DEF Waits, Failed, Reached
<1>1. TypeOK /\ Clean /\ phase = "idle" /\ m \in running
  BY DEF Base, Reject
<1>2. Apart /\ Ordered /\ Listed /\ Told /\ Ready /\ Exact
  BY DEF Waiting
<1>3. running \subseteq Modules /\ \A n : Count(parents, n) \in Nat
  BY <1>1, WaitingTypes
<1>4. todo = <<>> /\ execList = {} /\ \A n : Times(todo, n) = 0
  <2>1. todo = <<>> /\ execList = {}
    BY <1>1 DEF Clean
  <2>2. ToSet(todo) = {}
    BY <2>1 DEF ToSet
  <2>3. \A n : Times(todo, n) = 0
    BY <1>1, <2>2, WaitingTypes
  <2> QED BY <2>1, <2>3
<1>5. Waits(m) /\ m \notin Sync
  BY <1>1, <1>2, WaitingIs DEF Ready
<1>6. UNCHANGED <<graph, status, failed, order, pending, parents, counter, execList>> /\ phase' = "reject"
      /\ running' = running \ {m}
  BY DEF Reject, asyncs
<1>7. ToSet(todo') = {m}
  <2>1. todo' = <<m>>
    BY DEF Reject
  <2>2. PICK z \in Seq(Modules) : z = <<>> /\ todo' = Append(z, m)
    <3>1. PICK z : z = <<>> /\ z \in Seq(Modules)
      BY EmptySeq
    <3>2. Append(z, m) = <<m>>
      BY <3>1
    <3> QED BY <2>1, <3>1, <3>2
  <2>3. ToSet(z) = {} /\ ToSet(Append(z, m)) = ToSet(z) \cup {m}
    BY <2>2, ToSetMoves DEF ToSet
  <2> QED BY <2>2, <2>3
<1>8. Apart'
  BY <1>2, <1>5, <1>6, <1>7, SyncStays DEF Apart
<1>9. Ordered' /\ Listed' /\ Told'
  BY <1>2, <1>5, <1>6, <1>7 DEF Ordered, Listed, Told
<1>10. Ready'
  BY <1>1, <1>2, <1>4, <1>6, <1>7 DEF Ready, Throwers
<1>11. Exact'
  <2>1. ASSUME NEW n \in Modules, Waits(n) PROVE pending[n] = Count(parents, n)
    <3>1. pending[n] = Count(parents, n) + Times(todo, n)
      BY <1>1, <1>2, <2>1 DEF Exact
    <3> QED BY <1>3, <1>4, <3>1
  <2> QED BY <1>6, <2>1 DEF Exact
<1> QED BY <1>8, <1>9, <1>10, <1>11 DEF Waiting

\* A module fails, and those that wait for it are next.
LEMMA WaitingRejectNext ==
  ASSUME Base, TypeOK', PromisesAgree, Waiting, RejectNext
  PROVE  Waiting'
<1> USE DEF Waits, Failed, Reached
<1>1. TypeOK /\ Clean /\ phase = "reject" /\ todo # <<>> /\ phase' = "reject"
  BY DEF Base, RejectNext
<1>2. Apart /\ Ordered /\ Listed /\ Told /\ Ready /\ Exact
  BY DEF Waiting
<1>3. /\ parents \in [Modules -> Seq(Modules)] /\ \A d \in Modules : ToSet(parents[d]) \subseteq Modules
      /\ status \in [Modules -> Statuses] /\ failed \in [Modules -> BOOLEAN] /\ todo \in Seq(Modules)
      /\ running \subseteq Modules
  BY <1>1, WaitingTypes
<1>4. PICK p, t : p = Head(todo) /\ t = Tail(todo)
  OBVIOUS
<1>5. Heads(todo, p, t)
  BY <1>1, <1>3, <1>4, HeadIs
<1>6. p \in Modules /\ t \in Seq(Modules) /\ ToSet(todo) = ToSet(t) \cup {p} /\ ToSet(t) \subseteq Modules
  BY <1>5 DEF Heads
<1>7. UNCHANGED <<graph, order, pending, counter, running, execList>> /\ execList = {}
  BY <1>1 DEF RejectNext, bodies, Clean
<1>8. CASE status[p] = "evaluated"
  <2>1. UNCHANGED <<status, failed, parents>> /\ todo' = t
    BY <1>4, <1>8 DEF RejectNext
  <2>2. Apart'
    BY <1>2, <1>6, <1>7, <2>1, SyncStays DEF Apart
  <2>3. Ordered' /\ Listed' /\ Told'
    BY <1>2, <1>6, <1>7, <2>1 DEF Ordered, Listed, Told
  <2>4. Ready'
    BY <1>1, <1>2, <1>6, <1>7, <1>8, <2>1 DEF Ready, Throwers
  <2>5. Exact'
    BY <1>1, <1>2, <1>6, <1>7, <1>8, <2>1 DEF Exact
  <2> QED BY <2>2, <2>3, <2>4, <2>5 DEF Waiting
<1>9. CASE status[p] # "evaluated"
  <2>1. /\ status[p] = "evaluating-async" /\ todo' = parents[p] \o t /\ parents' = [parents EXCEPT ![p] = <<>>]
        /\ \A n \in Modules : status'[n] = IF n = p THEN "evaluated" ELSE status[n]
        /\ \A n \in Modules : failed'[n] = IF n = p THEN TRUE ELSE failed[n]
    BY <1>3, <1>4, <1>6, <1>9 DEF RejectNext
  <2>2. Taken(parents, parents', p, t, todo')
    <3>1. PICK ps, qs, ts : ps = parents /\ qs = parents' /\ ts = todo'
      OBVIOUS
    <3>2. /\ ps \in [Modules -> Seq(Modules)] /\ qs \in [Modules -> Seq(Modules)] /\ t \in Seq(Modules) /\ p \in Modules
          /\ qs[p] = <<>> /\ \A d \in Modules : d # p => qs[d] = ps[d]
      BY <1>3, <1>6, <2>1, <3>1 DEF TypeOK
    <3>3. ts = ps[p] \o t
      BY <2>1, <3>1
    <3>4. Taken(ps, qs, p, t, ts)
      BY <3>2, <3>3, ListTaken
    <3> QED BY <3>1, <3>4
  <2>3. /\ ToSet(todo') = ToSet(parents[p]) \cup ToSet(t)
        /\ \A d \in Modules : ToSet(parents'[d]) = IF d = p THEN {} ELSE ToSet(parents[d])
        /\ \A n : n \notin ToSet(parents[p]) => Count(parents', n) = Count(parents, n)
    BY <2>2 DEF Taken
  <2>4. \A d \in Modules : \A n \in ToSet(parents[d]) : n \in Modules /\ (Waits(n) \/ Failed(n))
    BY <1>1, <1>3, NoneEvaluating
  <2>5. \A n \in running : \A d \in Modules : n \notin ToSet(parents[d])
    BY WaitingIs
  <2>6. Apart'
    BY <1>2, <1>6, <1>7, <2>3, SyncStays DEF Apart
  <2>7. Ordered'
    BY <1>2, <1>7, <2>1 DEF Ordered
  <2>8. Listed'
    <3>1. ASSUME NEW d \in Modules, NEW n \in ToSet(parents'[d])
          PROVE  Waits(d)' /\ (status'[n] = "evaluating" \/ (Waits(n)' /\ order'[d] < order'[n]) \/ Failed(n)')
      <4>1. d # p /\ n \in ToSet(parents[d]) /\ n \in Modules
        BY <1>3, <2>3, <3>1
      <4>2. Waits(d) /\ (status[n] = "evaluating" \/ (Waits(n) /\ order[d] < order[n]) \/ Failed(n))
        BY <1>2, <4>1 DEF Listed
      <4> QED BY <1>7, <2>1, <4>1, <4>2
    <3> QED BY <3>1 DEF Listed
  <2>9. Told'
    BY <1>2, <1>6, <2>1, <2>3, <2>4 DEF Told
  <2>10. Ready'
    <3>1. ASSUME NEW n \in Modules, Waits(n)', pending'[n] = 0 PROVE n \in running \cup Throwers' \/ n \in ToSet(todo')
      BY <1>1, <1>2, <1>6, <1>7, <2>1, <2>3, <3>1 DEF Ready, Throwers
    <3>2. ASSUME NEW n \in running PROVE Waits(n)' /\ pending'[n] = 0 /\ n \notin ToSet(todo')
      BY <1>2, <1>3, <1>6, <1>7, <2>1, <2>3, <2>5, <3>2 DEF Ready
    <3> QED BY <1>1, <1>2, <1>7, <3>1, <3>2 DEF Ready
  <2>11. Exact'
    <3>1. ASSUME NEW n \in Modules, Waits(n)' PROVE n \in ToSet(todo') \/ pending'[n] = Count(parents', n)
      <4>1. n # p /\ Waits(n)
        BY <2>1, <3>1
      <4>2. n \in ToSet(todo) \/ pending[n] = Count(parents, n)
        BY <1>1, <1>2, <4>1 DEF Exact
      <4> QED BY <1>6, <1>7, <2>3, <4>1, <4>2
    <3> QED BY <1>1, <3>1 DEF Exact
  <2> QED BY <2>6, <2>7, <2>8, <2>9, <2>10, <2>11 DEF Waiting
<1> QED BY <1>8, <1>9

\* Activations that come and go count the entries of their modules.
LEMMA DepsKept ==
  ASSUME Base, PromisesAgree, CalmSearch, Alone, Waiting, Deps, TypeOK', Next
  PROVE  Deps'
<1>1. TypeOK /\ Chain /\ Once(stack) /\ Clean /\ OnStatus
  BY DEF Base
<1>2. CASE VisitEvaluation
  BY <1>2, WaitingVisiting
<1>3. ASSUME NEW m \in Modules, Enter(m, "evaluating"), status[m] = "linked", phase' = "evaluate", UNCHANGED parents,
             phase = "evaluate" \/ calls = <<>>
      PROVE  Deps'
  <2>1. m \notin On
    BY <1>3, OffStack
  <2>2. Pushed(m)
    BY <1>1, <1>3, <2>1, EnterPushes
  <2>3. Count(parents, m) = 0
    <3>1. ASSUME NEW d \in Modules PROVE m \notin ToSet(parents[d])
      BY <1>3 DEF Waiting, Listed, Waits, Failed
    <3> QED BY <1>1, <3>1, WaitingTypes
  <2>4. ASSUME NEW j \in 1..Len(calls) + 1 PROVE calls'[j].deps = Count(parents, calls'[j].module)
    <3>1. Len(calls) \in Nat
      BY <1>1, WaitingTypes
    <3>2. CASE j = Len(calls) + 1
      BY <2>2, <2>3, <3>2 DEF Pushed
    <3>3. CASE j # Len(calls) + 1
      <4>1. j \in 1..Len(calls)
        BY <3>1, <3>3
      <4>2. calls = <<>> => Len(calls) = 0
        OBVIOUS
      <4>3. phase = "evaluate" /\ calls'[j] = calls[j]
        BY <1>3, <2>2, <4>1, <4>2 DEF Pushed
      <4> QED BY <4>1, <4>3 DEF Deps, Called
    <3> QED BY <3>2, <3>3
  <2> QED BY <1>3, <2>2, <2>4 DEF Deps, Called, Pushed
<1>4. CASE EnterEvaluation
  <2>1. Required \in Modules
    BY <1>1, <1>4, RequiredIs DEF EnterEvaluation, Searching
  <2> QED BY <1>3, <1>4, <2>1 DEF EnterEvaluation, Searching, asyncs
<1>5. CASE \E m \in Modules : Evaluate(m)
  <2>1. PICK m \in Modules : Evaluate(m)
    BY <1>5
  <2> QED BY <1>1, <1>3, <2>1 DEF Evaluate, asyncs, Clean
<1>6. CASE ExecuteSync \/ ExecuteAsync
  <2>1. calls # <<>> /\ phase = "evaluate" /\ UNCHANGED parents
    BY <1>6 DEF ExecuteSync, ExecuteAsync, Searching
  <2>2. Leave(Top.module) \/ phase' = "idle"
    BY <1>6 DEF ExecuteSync, ExecuteAsync, Return, Unwind, Abandon
  <2>3. CASE phase' = "idle"
    BY <2>3 DEF Deps
  <2>4. CASE Leave(Top.module)
    <3>1. Popped
      BY <1>1, <2>1, <2>4, RequiredIs, LeavePops
    <3>2. \A j \in 1..Len(calls) - 1 : j \in 1..Len(calls)
      BY <1>1, WaitingTypes
    <3> QED BY <2>1, <3>1, <3>2 DEF Deps, Popped, Called
  <2> QED BY <2>2, <2>3, <2>4
<1>7. CASE FailEvaluation \/ Linking
  <2>1. phase' # "evaluate"
    BY <1>7 DEF FailEvaluation, Unwind, Abandon, Linking, EnterLink, VisitLink, FailLink, FinishLink, Leave, Searching
  <2> QED BY <2>1 DEF Deps
<1>8. CASE Settling
  <2>1. phase' # "evaluate"
    BY <1>8 DEF Settling, Gather, SkipParent, EndFulfill, RejectNext, EndReject, RunReady
  <2> QED BY <2>1 DEF Deps
<1>9. CASE \E m \in Modules : Link(m) \/ EvaluateAgain(m) \/ Fulfill(m) \/ Reject(m)
  <2>1. phase' # "evaluate"
    BY <1>9 DEF Link, EvaluateAgain, Fulfill, Reject
  <2> QED BY <2>1 DEF Deps
<1> QED BY <1>2, <1>4, <1>5, <1>6, <1>7, <1>8, <1>9 DEF Next, Evaluating, Host

\* Every step keeps what waits in order.
LEMMA WaitingKept ==
  ASSUME Base, PromisesAgree, CalmSearch, Alone, Waiting, Deps, TypeOK', Next
  PROVE  Waiting'
<1>1. CASE \/ Linking \/ EnterEvaluation \/ FailEvaluation \/ ExecuteSync \/ EndFulfill \/ EndReject
           \/ \E m \in Modules : Link(m) \/ Evaluate(m) \/ EvaluateAgain(m)
  BY <1>1, QuietSteps, Undisturbed
<1>5. CASE VisitEvaluation
  BY <1>5, WaitingVisiting
<1>6. CASE ExecuteAsync
  BY <1>6, WaitingExecuting
<1>7. CASE Gather \/ SkipParent \/ RejectNext
  BY <1>7, WaitingGather, WaitingSkip, WaitingRejectNext
<1>8. CASE \E m \in Modules : RunReady(m)
  BY <1>8, WaitingRun
<1>9. CASE \E m \in Modules : Fulfill(m) \/ Reject(m)
  BY <1>9, WaitingFulfill, WaitingReject
<1> QED BY <1>1, <1>5, <1>6, <1>7, <1>8, <1>9 DEF Next, Evaluating, Settling, Host

\* What is known at all times of graphs whose cycles wait for nothing.
Calmly == Base /\ Capabilities /\ CalmSearch /\ Alone /\ Waiting /\ Deps

\* Nothing waits at first.
LEMMA CalmlyInit ==
  ASSUME Init, CyclesRest(graph)
  PROVE  Calmly
<1>1. Base /\ Capabilities
  BY BaseInit, CapabilitiesInit
<1>2. CalmSearch /\ SyncIn(graph, Cyclic, Sync)
  BY SyncIs, CalmInit
<1>3. Alone
  BY DEF Init, Alone
<1>4. ToSet(<<>>) = {} /\ Sync \subseteq Modules
  BY <1>2 DEF ToSet, SyncIn, Closed
<1>5. Waiting
  BY <1>2, <1>4 DEF Init, Waiting, Apart, Ordered, Listed, Told, Ready, Exact, Waits, Failed, Reached
<1>6. Deps
  BY DEF Init, Deps
<1> QED BY <1>1, <1>2, <1>3, <1>5, <1>6 DEF Calmly

\* And every step keeps it.
LEMMA CalmlyNext ==
  ASSUME Calmly, [Next]_vars
  PROVE  Calmly'
<1>1. Base /\ Capabilities /\ PromisesAgree /\ CalmSearch /\ Alone /\ Waiting /\ Deps
  BY DEF Calmly, Capabilities
<1>2. Base' /\ Capabilities' /\ CalmSearch'
  BY <1>1, BaseNext, CapabilitiesNext, CalmNext
<1>3. CASE Next
  <2>1. TypeOK'
    BY <1>2 DEF Base
  <2> QED BY <1>1, <1>2, <1>3, <2>1, AloneKept, WaitingKept, DepsKept DEF Calmly
<1>4. CASE UNCHANGED vars
  <2>1. UNCHANGED <<graph, status, root, failed, phase, calls, order, pending, parents, counter, running, todo, execList>>
    BY <1>4 DEF vars, search, asyncs, bodies, jobs
  <2>2. Quietly
    BY <2>1 DEF Quietly, Waits, Reached, Failed
  <2>3. Waiting'
    BY <1>1, <2>2, Undisturbed
  <2>4. Alone' /\ Deps'
    BY <1>1, <2>1, CyclicStays DEF Alone, Deps, Called
  <2> QED BY <1>2, <2>3, <2>4 DEF Calmly
<1> QED BY <1>3, <1>4

\* Where the cycles wait for nothing a module that waits has a counter that is exact:
\* it is told once by each thing it waits for.
THEOREM CountersAreExact ==
  (\A g \in Graphs : CyclesRest(g)) => (Spec => []PendingIsExact)
<1> SUFFICES ASSUME \A g \in Graphs : CyclesRest(g) PROVE Spec => []PendingIsExact
  OBVIOUS
<1>1. Init => Calmly
  BY CalmlyInit DEF Init
<1>2. Calmly /\ [Next]_vars => Calmly'
  BY CalmlyNext
<1>3. Calmly => PendingIsExact
  <2>1. SUFFICES ASSUME Calmly, phase = "idle", NEW m \in Modules, status[m] = "evaluating-async"
                 PROVE  pending[m] = Count(parents, m)
    BY DEF PendingIsExact, Count, Entries, Occurs
  <2>2. TypeOK /\ Exact /\ todo = <<>>
    BY <2>1 DEF Calmly, Base, Clean, Waiting
  <2>3. Times(todo, m) = 0 /\ Count(parents, m) \in Nat
    <3>1. ToSet(todo) = {}
      BY <2>2 DEF ToSet
    <3> QED BY <2>2, <3>1, WaitingTypes
  <2>4. pending[m] = Count(parents, m) + Times(todo, m)
    BY <2>1, <2>2 DEF Exact, Waits
  <2> QED BY <2>3, <2>4
<1> QED BY <1>1, <1>2, <1>3, PTL DEF Spec

\* Whatever the code asserts of a status, or panics at, is as it expects.
THEOREM NothingPanics ==
  (\A g \in Graphs : CyclesRest(g)) => (Spec => []StatusesAreExpected)
<1> SUFFICES ASSUME \A g \in Graphs : CyclesRest(g) PROVE Spec => []StatusesAreExpected
  OBVIOUS
<1>1. Init => Calmly
  BY CalmlyInit DEF Init
<1>2. Calmly /\ [Next]_vars => Calmly'
  BY CalmlyNext
<1>3. Calmly => TypeOK /\ GatherFindsWaiting
  <2>1. SUFFICES ASSUME Calmly, phase = "gather", todo # <<>>, ~ Skipped(Head(todo))
                 PROVE  status[Head(todo)] = "evaluating-async" /\ pending[Head(todo)] > 0
    BY DEF GatherFindsWaiting, Calmly, Base
  <2>2. TypeOK /\ Alone /\ Apart /\ Told /\ Exact
    BY <2>1 DEF Calmly, Base, Waiting
  <2>3. PICK p : p = Head(todo)
    OBVIOUS
  <2>4. p \in Modules /\ p \in ToSet(todo) /\ Times(todo, p) # 0 /\ Times(todo, p) \in Nat
    <3>1. todo \in Seq(Modules) /\ Times(todo, p) \in Nat /\ (Times(todo, p) = 0 <=> p \notin ToSet(todo))
      BY <2>2, WaitingTypes
    <3>2. Heads(todo, p, Tail(todo))
      BY <2>1, <2>3, <3>1, HeadIs
    <3> QED BY <3>1, <3>2 DEF Heads
  <2>5. p \notin Cyclic
    BY <2>2, <2>4 DEF Apart, SyncIn
  <2>6. ~ failed[p]
    BY <2>1, <2>2, <2>3, <2>4, <2>5 DEF Alone, Skipped
  <2>7. Waits(p)
    BY <2>2, <2>4, <2>6 DEF Told, Failed
  <2>8. pending[p] = Count(parents, p) + Times(todo, p) /\ Count(parents, p) \in Nat
    BY <2>1, <2>2, <2>4, <2>7, WaitingTypes DEF Exact
  <2> QED BY <2>3, <2>4, <2>7, <2>8 DEF Waits
<1>4. \A g \in Graphs : CyclesLink(g)
  BY DEF CyclesRest, CyclesLink
<1>5. Spec => []UnwindFindsLinking
  BY <1>4, LinkIsClean, PTL
<1>6. TypeOK /\ GatherFindsWaiting /\ UnwindFindsLinking => StatusesAreExpected
  BY DEF StatusesAreExpected
<1> QED BY <1>1, <1>2, <1>3, <1>5, <1>6, PTL DEF Spec

------------------------------------------------------------------------------
(* What a module requests comes before it.  What follows is about calm      *)
(* graphs: no synchronous module throws after it has waited.                *)

ThrowersRest == Throwers \subseteq Sync

\* When n waits, a request r of it is n itself, is done, waits as well and will
\* tell n, or has been fulfilled or rejected and n is about to be told.
Met(n, r) ==
  \/ r = n \/ Done(r)
  \/ Waits(r) /\ order[r] < order[n] /\ (n \in ToSet(parents[r]) \/ r \in execList \ graph.tla)
  \/ phase = "reject" /\ n \in ToSet(todo)

\* When evaluate has a request r of n behind it.
Covered(n, r) ==
  \/ r \in On /\ (n \in Cyclic \/ r = n)
  \/ Done(r)
  \/ Waits(r) /\ n \in ToSet(parents[r])

WaitersMet == \A n \in Modules : Waits(n) => \A e \in Positions(n) : Met(n, Asked(n, e))
SearchCovers == phase = "evaluate" => \A n \in On : \A e \in Positions(n) : Explored(n, e) => Covered(n, Asked(n, e))
DoneClosed == \A n \in Modules : Done(n) => \A e \in Positions(n) : Done(Asked(n, e))
StartedAfter == \A n \in started : \A e \in Positions(n) : Done(Asked(n, e)) \/ Leads(Asked(n, e), n)

\* Quiet steps keep what is met.
LEMMA MetQuietly ==
  ASSUME TypeOK, Quietly, Finals, NEW n \in Modules, NEW r \in Modules, Waits(n), Met(n, r)
  PROVE  Met(n, r)'
<1>1. UNCHANGED <<graph, order, parents, execList, todo>> /\ (Waits(r)' <=> Waits(r))
  BY DEF Quietly
<1>2. phase = "reject" /\ n \in ToSet(todo) => phase' = "reject"
  <2>1. todo = <<>> => ToSet(todo) = {}
    BY DEF ToSet
  <2> QED BY <2>1 DEF Quietly
<1>3. Done(r) => Done(r)'
  BY DEF Finals, Done
<1> QED BY <1>1, <1>2, <1>3 DEF Met

\* Every step keeps what is met while it waits.
LEMMA MetStays ==
  ASSUME Calmly, ThrowersRest, Base', Finals, Next,
         NEW n \in Modules, NEW r \in Modules, Waits(n), Waits(n)', Met(n, r)
  PROVE  Met(n, r)'
<1> USE DEF Waits
<1>1. /\ Base /\ TypeOK /\ TypeOK' /\ Clean /\ PromisesAgree /\ CalmSearch /\ Alone /\ Waiting /\ Deps
      /\ Apart /\ Ordered /\ Listed /\ Told /\ Ready /\ Exact
  BY DEF Calmly, Base, Capabilities, Waiting
<1>2. /\ parents \in [Modules -> Seq(Modules)] /\ status \in [Modules -> Statuses] /\ failed \in [Modules -> BOOLEAN]
      /\ todo \in Seq(Modules) /\ \A d \in Modules : ToSet(parents[d]) \subseteq Modules
  BY <1>1, WaitingTypes
<1>3. Done(r) => Done(r)'
  BY DEF Finals, Done
<1>4. SUFFICES ASSUME r # n, ~ Done(r)' PROVE Met(n, r)'
  BY DEF Met
<1>5. \/ Waits(r) /\ order[r] < order[n] /\ (n \in ToSet(parents[r]) \/ r \in execList \ graph.tla)
      \/ phase = "reject" /\ n \in ToSet(todo)
  BY <1>3, <1>4 DEF Met
<1>6. UNCHANGED graph
  BY GraphStays
<1>7. CASE \/ Linking \/ EnterEvaluation \/ FailEvaluation \/ ExecuteSync \/ EndFulfill \/ EndReject
           \/ \E m \in Modules : Link(m) \/ Evaluate(m) \/ EvaluateAgain(m)
  <2>1. Quietly
    BY <1>1, <1>7, QuietSteps
  <2> QED BY <1>1, <2>1, MetQuietly
<1>8. CASE VisitEvaluation
  <2>1. phase = "evaluate" /\ UNCHANGED <<status, order, execList>>
    BY <1>8 DEF VisitEvaluation, Searching, jobs
  <2>2. ToSet(parents[r]) \subseteq ToSet(parents'[r])
    <3>1. CASE IsAsync(Required)
      <4>1. PICK t \in Modules, m \in Modules : parents' = [parents EXCEPT ![t] = Append(@, m)]
        BY <1>1, <1>8, <3>1, WaitsFor DEF VisitEvaluation
      <4>2. ToSet(Append(parents[t], m)) = ToSet(parents[t]) \cup {m}
        BY <1>2, ToSetMoves
      <4> QED BY <1>2, <4>1, <4>2
    <3>2. CASE ~ IsAsync(Required)
      BY <1>8, <3>2 DEF VisitEvaluation
    <3> QED BY <3>1, <3>2
  <2> QED BY <1>5, <1>6, <2>1, <2>2 DEF Met
<1>9. CASE ExecuteAsync
  <2>1. PICK m : Queued(m)
    BY <1>1, <1>9, AsyncQueues
  <2>2. phase = "evaluate"
    BY <1>9 DEF ExecuteAsync, Searching
  <2> QED BY <1>5, <1>6, <2>1, <2>2 DEF Met, Queued
<1>10. CASE \E m \in Modules : Fulfill(m)
  <2>1. PICK m \in Modules : Fulfill(m)
    BY <1>10
  <2>2. phase = "idle" /\ Waits(m) /\ ~ failed[m]
    BY <1>1, <2>1, WaitingIs DEF Fulfill, Ready
  <2>3. /\ status' = [status EXCEPT ![m] = "evaluated"] /\ parents' = [parents EXCEPT ![m] = <<>>]
        /\ UNCHANGED <<failed, order, execList>>
    BY <2>1, <2>2 DEF Fulfill, Complete
  <2>4. r # m
    BY <1>2, <1>4, <2>2, <2>3 DEF Done
  <2> QED BY <1>2, <1>5, <1>6, <2>2, <2>3, <2>4 DEF Met
<1>11. CASE Gather
  <2>1. PICK p : p = Head(todo)
    OBVIOUS
  <2>2. /\ phase = "gather" /\ UNCHANGED <<status, order>>
        /\ execList' = (IF pending[p] = 1 THEN execList \cup {p} ELSE execList)
        /\ IF pending[p] = 1 /\ p \notin graph.tla THEN parents' = [parents EXCEPT ![p] = <<>>] ELSE parents' = parents
    BY <1>11, <2>1 DEF Gather
  <2> QED BY <1>2, <1>5, <1>6, <2>2 DEF Met
<1>12. CASE SkipParent
  BY <1>5, <1>6, <1>12 DEF SkipParent, asyncs, Met
<1>13. CASE \E m \in Modules : RunReady(m)
  <2>1. PICK m \in Modules : RunReady(m)
    BY <1>13
  <2>2. m \notin Throwers
    BY <1>1, <2>1, WaitingRun DEF ThrowersRest
  <2>3. /\ phase = "gather" /\ execList' = execList \ {m} /\ m \in execList
        /\ UNCHANGED <<failed, order, parents>> /\ Waits(m)
        /\ status' = IF m \in graph.tla THEN status ELSE [status EXCEPT ![m] = "evaluated"]
    BY <2>1, <2>2 DEF RunReady, Complete, asyncs, NextReady, Throwers
  <2>4. ~ failed[m]
    BY <1>1, <2>3 DEF PromisesAgree
  <2>5. r # m \/ m \in graph.tla
    BY <1>2, <1>4, <2>3, <2>4 DEF Done
  <2>6. Waits(r) => Waits(r)'
    BY <1>2, <2>3, <2>5
  <2> QED BY <1>5, <1>6, <2>3, <2>5, <2>6 DEF Met
<1>14. CASE \E m \in Modules : Reject(m)
  BY <1>5, <1>6, <1>14 DEF Reject, asyncs, Met
<1>15. CASE RejectNext
  <2>1. PICK p, t : p = Head(todo) /\ t = Tail(todo)
    OBVIOUS
  <2>2. phase = "reject" /\ phase' = "reject" /\ todo # <<>> /\ UNCHANGED <<order, execList>> /\ execList = {}
    BY <1>1, <1>15 DEF RejectNext, Clean
  <2>3. Heads(todo, p, t)
    BY <1>2, <2>1, <2>2, HeadIs
  <2>4. p \in Modules /\ t \in Seq(Modules) /\ ToSet(todo) = ToSet(t) \cup {p}
    BY <2>3 DEF Heads
  <2>5. CASE status[p] = "evaluated"
    <3>1. UNCHANGED <<status, parents>> /\ todo' = t
      BY <1>15, <2>1, <2>5 DEF RejectNext
    <3> QED BY <1>5, <1>6, <2>2, <2>4, <2>5, <3>1 DEF Met
  <2>6. CASE status[p] # "evaluated"
    <3>1. /\ status' = [status EXCEPT ![p] = "evaluated"]
          /\ todo' = parents[p] \o t /\ parents' = [parents EXCEPT ![p] = <<>>]
      BY <1>15, <2>1, <2>6 DEF RejectNext
    <3>2. ToSet(todo') = ToSet(parents[p]) \cup ToSet(t)
      <4>1. PICK ps, qs, ts : ps = parents /\ qs = parents' /\ ts = todo'
        OBVIOUS
      <4>2. /\ ps \in [Modules -> Seq(Modules)] /\ qs \in [Modules -> Seq(Modules)] /\ t \in Seq(Modules) /\ p \in Modules
            /\ qs[p] = <<>> /\ \A d \in Modules : d # p => qs[d] = ps[d]
        BY <1>1, <1>2, <2>4, <3>1, <4>1 DEF TypeOK
      <4>3. ts = ps[p] \o t
        BY <3>1, <4>1
      <4>4. Taken(ps, qs, p, t, ts)
        BY <4>2, <4>3, ListTaken
      <4> QED BY <4>1, <4>4 DEF Taken
    <3>3. n # p
      BY <1>2, <2>4, <3>1
    <3>4. n \in ToSet(todo) => n \in ToSet(todo')
      BY <2>4, <3>2, <3>3
    <3>5. CASE n \in ToSet(todo)
      BY <2>2, <3>4, <3>5 DEF Met
    <3>6. CASE n \notin ToSet(todo)
      <4>1. Waits(r) /\ order[r] < order[n] /\ n \in ToSet(parents[r])
        BY <1>5, <2>2, <3>6
      <4>2. CASE r = p
        BY <2>2, <3>2, <4>1, <4>2 DEF Met
      <4>3. CASE r # p
        BY <1>2, <2>2, <2>4, <3>1, <4>1, <4>3 DEF Met
      <4> QED BY <4>2, <4>3
    <3> QED BY <3>5, <3>6
  <2> QED BY <2>5, <2>6
<1> QED BY <1>7, <1>8, <1>9, <1>10, <1>11, <1>12, <1>13, <1>14, <1>15 DEF Next, Evaluating, Settling, Host

\* The last activation has all its requests behind it when there is no next.
LEMMA TopExplored ==
  ASSUME Base, calls # <<>>, ~ HasNext
  PROVE  \A e \in Positions(Top.module) : Explored(Top.module, e)
<1>1. TypeOK /\ Chain /\ Once(stack)
  BY DEF Base
<1>2. PICK l, m : l = Len(calls) /\ m = Top.module
  OBVIOUS
<1>3. /\ l \in Nat \ {0} /\ l \in 1..l /\ Top = calls[l] /\ m = Called(l) /\ m \in On
      /\ Top.next \in Nat /\ Len(Requests(m)) \in Nat /\ Top.next > Len(Requests(m))
  BY <1>1, <1>2, TopIs, RequiredIs DEF HasNext
<1>4. ASSUME NEW e \in Positions(m), NEW j \in 1..l, Called(j) = m PROVE e < calls[j].next
  <2>1. j < l => PlaceIn(stack, Called(j)) < PlaceIn(stack, m)
    BY <1>1, <1>2, <1>3 DEF Chain
  <2>2. PlaceIn(stack, m) \in Nat
    BY <1>1, <1>3, StackPlaces
  <2>3. j = l
    BY <1>3, <1>4, <2>1, <2>2
  <2> QED BY <1>3, <1>4, <2>3 DEF Positions
<1> QED BY <1>2, <1>4 DEF Explored

\* Whatever is on the stack leads to the last activation.
LEMMA LeadsToTop ==
  ASSUME Base, Found, phase = "evaluate", calls # <<>>, NEW r \in On
  PROVE  Leads(r, Top.module)
<1>1. TypeOK /\ Chain /\ Once(stack)
  BY DEF Base
<1>2. PICK l, m : l = Len(calls) /\ m = Top.module
  OBVIOUS
<1>3. l \in Nat \ {0} /\ l \in 1..l /\ m = Called(l) /\ m \in On
  BY <1>1, <1>2, TopIs, RequiredIs
<1>4. Down /\ Up
  BY DEF Found, Trace
<1>5. PICK j \in 1..l : Leads(r, Called(j))
  BY <1>2, <1>4 DEF Up
<1>6. PlaceIn(stack, Called(j)) <= PlaceIn(stack, m)
  <2>1. PlaceIn(stack, m) \in Nat /\ Called(j) \in On /\ PlaceIn(stack, Called(j)) \in Nat
    <3>1. Called(j) \in On
      BY <1>1, <1>2 DEF Chain
    <3> QED BY <1>1, <1>3, <3>1, StackPlaces
  <2>2. j < l => PlaceIn(stack, Called(j)) < PlaceIn(stack, m)
    BY <1>1, <1>2, <1>3 DEF Chain
  <2>3. j < l \/ j = l
    BY <1>3
  <2> QED BY <1>3, <2>1, <2>2, <2>3
<1>7. Leads(Called(j), m)
  BY <1>2, <1>3, <1>4, <1>6 DEF Down
<1> QED BY <1>2, <1>5, <1>7, LeadsOn

\* Only a module that execute_async is called for begins to wait.
LEMMA BeginsToWait ==
  ASSUME Calmly, Next, NEW n \in Modules, ~ Waits(n), Waits(n)'
  PROVE  ExecuteAsync /\ Queued(n)
<1> USE DEF Waits
<1>1. /\ Base /\ TypeOK /\ PromisesAgree /\ CalmSearch /\ Alone /\ Waiting /\ Deps
      /\ status \in [Modules -> Statuses]
  BY DEF Calmly, Base, Capabilities, TypeOK
<1>2. CASE \/ Linking \/ EnterEvaluation \/ FailEvaluation \/ ExecuteSync \/ EndFulfill \/ EndReject
           \/ \E m \in Modules : Link(m) \/ Evaluate(m) \/ EvaluateAgain(m)
  BY <1>1, <1>2, QuietSteps DEF Quietly
<1>3. CASE ExecuteAsync
  <2>1. PICK m : Queued(m)
    BY <1>1, <1>3, AsyncQueues
  <2>2. n = m
    BY <2>1 DEF Queued
  <2> QED BY <1>3, <2>1, <2>2
<1>4. CASE VisitEvaluation \/ Gather \/ SkipParent \/ RejectNext
  BY <1>1, <1>4 DEF VisitEvaluation, Gather, SkipParent, RejectNext
<1>5. CASE \E m \in Modules : Fulfill(m) \/ Reject(m) \/ RunReady(m)
  BY <1>1, <1>5 DEF Fulfill, Reject, RunReady, Complete
<1> QED BY <1>2, <1>3, <1>4, <1>5 DEF Next, Evaluating, Settling, Host

\* Of what waits every request stays met.
LEMMA WaitersMetKept ==
  ASSUME Calmly, ThrowersRest, Base', Finals, Next, WaitersMet, SearchCovers
  PROVE  WaitersMet'
<1> USE DEF Waits
<1>1. /\ Base /\ TypeOK /\ PromisesAgree /\ CalmSearch /\ Waiting /\ Deps /\ Ordered
      /\ order \in [Modules -> Nat] /\ counter \in Nat /\ UNCHANGED graph
  BY GraphStays DEF Calmly, Base, Capabilities, TypeOK, Waiting
<1>2. SUFFICES ASSUME NEW n \in Modules, Waits(n)', NEW e \in Positions(n) PROVE Met(n, Asked(n, e))'
  BY <1>1, AskedStays DEF WaitersMet
<1>3. PICK r \in Modules : r = Asked(n, e)
  BY <1>1, AskedIs
<1>4. Asked(n, e)' = r
  BY <1>1, <1>3, AskedStays
<1>5. CASE Waits(n)
  BY <1>2, <1>3, <1>4, <1>5, MetStays DEF WaitersMet, Met
<1>6. CASE ~ Waits(n)
  <2>1. ExecuteAsync /\ Queued(n)
    BY <1>2, <1>6, BeginsToWait
  <2>2. phase = "evaluate" /\ calls # <<>> /\ ~ HasNext /\ n = Top.module /\ n \in On /\ n \notin Cyclic
    BY <2>1 DEF ExecuteAsync, Searching, Queued
  <2>3. Covered(n, r)
    BY <1>1, <1>2, <1>3, <2>2, TopExplored DEF SearchCovers
  <2>4. CASE r = n
    BY <1>4, <2>4 DEF Met
  <2>5. CASE Done(r)
    <3>1. Done(r)'
      BY <2>5 DEF Finals, Done
    <3> QED BY <1>4, <3>1 DEF Met
  <2>6. CASE r # n /\ Waits(r) /\ n \in ToSet(parents[r])
    <3>1. order[r] <= counter /\ order[r] \in Nat
      BY <1>1 DEF Ordered
    <3>2. order'[r] = order[r] /\ order'[n] = counter + 1 /\ Waits(r)' /\ parents' = parents
      BY <2>1, <2>6 DEF Queued
    <3>3. order'[r] < order'[n]
      BY <1>1, <3>1, <3>2
    <3> QED BY <1>4, <2>6, <3>2, <3>3 DEF Met
  <2> QED BY <2>2, <2>3, <2>4, <2>5, <2>6 DEF Covered
<1> QED BY <1>5, <1>6

\* A component that is finished was behind its search, and leaves the stack.
LEMMA FinishedLeaves ==
  ASSUME Calmly, Base', ExecuteSync, Top.module \notin graph.throws, NEW done, Finished(Top.module, done)
  PROVE  Leaving /\ done = On \ On' /\ UNCHANGED graph
<1>1. Base /\ TypeOK /\ Once(stack) /\ TypeOK' /\ UNCHANGED graph
  BY DEF Calmly, Base, ExecuteSync
<1>2. Leaving
  BY DEF ExecuteSync, Finished, Return, Leaving, Searching
<1>3. Returned(Top.module, Len(calls))
  BY <1>1, <1>2, LeavingIs
<1>4. PICK m, l : m = Top.module /\ l = Len(calls)
  OBVIOUS
<1>5. /\ On' = (IF ancestor[m] = Top.index THEN {n \in On : PlaceIn(stack, n) < PlaceIn(stack, m)} ELSE On)
      /\ \A n \in On : PlaceIn(stack, n) \in Nat
      /\ m \in On /\ done = (IF ancestor[m] = Top.index THEN Component(m) ELSE {})
  BY <1>3, <1>4 DEF Returned, Finished
<1>6. Component(m) = {n \in On : PlaceIn(stack, m) <= PlaceIn(stack, n)}
  BY <1>1, <1>5, ComponentIs
<1>7. done = On \ On'
  <2>1. CASE ancestor[m] = Top.index
    BY <1>5, <1>6, <2>1
  <2>2. CASE ancestor[m] # Top.index
    BY <1>5, <2>2
  <2> QED BY <2>1, <2>2
<1> QED BY <1>1, <1>2, <1>7

\* A module that waits in a calm graph leaves the stack alone.
LEMMA QueuedLeaves ==
  ASSUME Calmly, Base', ExecuteAsync, NEW m, Queued(m)
  PROVE  Leaving /\ On' = On \ {m} /\ UNCHANGED graph
<1>1. Base /\ TypeOK /\ Once(stack) /\ TypeOK' /\ UNCHANGED graph /\ m = Top.module /\ m \in On
      /\ ancestor[m] = Top.index /\ Component(m) = {m}
  BY DEF Calmly, Base, Queued
<1>2. Leaving
  BY DEF ExecuteAsync, Return, Leaving, Searching
<1>3. Returned(m, Len(calls))
  BY <1>1, <1>2, LeavingIs
<1>4. On' = {n \in On : PlaceIn(stack, n) < PlaceIn(stack, m)} /\ \A n \in On : PlaceIn(stack, n) \in Nat
  BY <1>1, <1>3 DEF Returned
<1>5. {m} = {n \in On : PlaceIn(stack, m) <= PlaceIn(stack, n)}
  BY <1>1, ComponentIs
<1>6. \A n \in On : n # m => PlaceIn(stack, n) < PlaceIn(stack, m)
  BY <1>1, <1>4, <1>5
<1> QED BY <1>1, <1>2, <1>4, <1>6

\* What evaluate has behind it stays covered.
LEMMA SearchCoversKept ==
  ASSUME Calmly, Base', Finals, Next, SearchCovers
  PROVE  SearchCovers'
<1> USE DEF Waits
<1>1. /\ Base /\ TypeOK /\ Chain /\ Once(stack) /\ Clean /\ OnStatus /\ PromisesAgree /\ CalmSearch /\ Alone /\ Waiting /\ Deps
      /\ parents \in [Modules -> Seq(Modules)] /\ failed \in [Modules -> BOOLEAN] /\ status \in [Modules -> Statuses]
      /\ TypeOK' /\ UNCHANGED graph /\ graph' \in Graphs /\ On \subseteq Modules
  BY GraphStays, StackPlaces DEF Calmly, Base, Capabilities, TypeOK
<1>2. SUFFICES ASSUME phase' = "evaluate", NEW n \in On', NEW e \in Positions(n), Explored(n, e)'
               PROVE  Covered(n, Asked(n, e))'
  BY <1>1, AskedStays DEF SearchCovers
<1>3. n \in Modules
  BY <1>1, <1>2, ToSetFacts DEF TypeOK, On
<1>4. PICK r \in Modules : r = Asked(n, e)
  BY <1>1, <1>3, AskedIs
<1>5. Asked(n, e)' = r /\ Cyclic' = Cyclic
  BY <1>1, <1>4, AskedStays
<1>6. Done(r) => Done(r)'
  BY DEF Finals, Done
<1>7. CASE EnterEvaluation \/ \E m \in Modules : Evaluate(m)
  <2>1. PICK m \in Modules : Entering(m, "evaluate", "evaluating")
    <3>1. CASE EnterEvaluation
      <4>1. Required \in Modules
        BY <1>1, <3>1, RequiredIs DEF EnterEvaluation, Searching
      <4>2. Entering(Required, "evaluate", "evaluating")
        BY <3>1 DEF EnterEvaluation, Entering, Searching
      <4> QED BY <4>1, <4>2
    <3>2. CASE \E m \in Modules : Evaluate(m)
      BY <3>2 DEF Evaluate, Entering
    <3> QED BY <1>7, <3>1, <3>2
  <2>2. Quietly
    BY <1>1, <1>7, QuietSteps
  <2>3. n \in On /\ Explored(n, e)
    BY <1>1, <1>2, <2>1, EnteringExplored
  <2>4. phase = "evaluate"
    <3>1. phase = "idle" => On = {}
      BY <1>1, NothingOn
    <3> QED BY <2>1, <2>3, <3>1 DEF Entering
  <2>5. Covered(n, r)
    BY <1>4, <2>3, <2>4 DEF SearchCovers
  <2>6. m \notin On
    BY <1>1, <2>1, OffStack DEF Entering
  <2>7. On \subseteq On'
    <3>1. Enter(m, "evaluating")
      BY <2>1 DEF Entering
    <3>2. Pushed(m)
      BY <1>1, <2>6, <3>1, EnterPushes
    <3> QED BY <3>2 DEF Pushed
  <2> QED BY <1>5, <1>6, <2>2, <2>5, <2>7 DEF Covered, Quietly
<1>8. CASE VisitEvaluation
  <2>1. PICK k \in Nat : k = IF IsAsync(Required) THEN 1 ELSE 0
    OBVIOUS
  <2>2. Visiting(k) /\ calls # <<>> /\ HasNext /\ phase = "evaluate" /\ UNCHANGED <<status, failed, stack>>
    BY <1>8, <2>1 DEF VisitEvaluation, Visiting, Searching, HasFailed, Reached, Advance
  <2>3. On' = On
    BY <2>2 DEF On
  <2>4. n \in On /\ (Explored(n, e) \/ (n = Top.module /\ Requests(n)[e] = Required))
    BY <1>1, <1>2, <2>2, VisitingExplored
  <2>5. \A d \in Modules : ToSet(parents[d]) \subseteq ToSet(parents'[d])
    <3>1. CASE IsAsync(Required)
      <4>1. PICK t \in Modules, m \in Modules : parents' = [parents EXCEPT ![t] = Append(@, m)]
        BY <1>1, <1>8, <3>1, WaitsFor DEF VisitEvaluation
      <4>2. ToSet(Append(parents[t], m)) = ToSet(parents[t]) \cup {m}
        BY <1>1, ToSetMoves
      <4> QED BY <1>1, <4>1, <4>2
    <3>2. CASE ~ IsAsync(Required)
      BY <1>8, <3>2 DEF VisitEvaluation
    <3> QED BY <3>1, <3>2
  <2>6. CASE Explored(n, e)
    <3>1. Covered(n, r)
      BY <1>4, <2>2, <2>4, <2>6 DEF SearchCovers
    <3> QED BY <1>5, <1>6, <2>2, <2>3, <2>5, <3>1 DEF Covered
  <2>7. CASE n = Top.module /\ r = Required
    <3>1. CASE status[r] = "evaluating"
      <4>1. r \in On
        BY <1>1, <2>2, <3>1 DEF OnStatus
      <4>2. n \in Cyclic \/ r = n
        BY <1>1, <2>2, <2>7, <4>1, RequiresItself
      <4> QED BY <1>5, <2>3, <4>1, <4>2 DEF Covered
    <3>2. CASE status[r] # "evaluating" /\ IsAsync(r)
      <4>1. Waits(r) /\ Target(r) = r
        BY <1>1, <1>8, <2>7, <3>2, WaitsFor
      <4>2. parents' = [parents EXCEPT ![r] = Append(@, n)]
        BY <1>8, <2>7, <3>2, <4>1 DEF VisitEvaluation
      <4>3. ToSet(Append(parents[r], n)) = ToSet(parents[r]) \cup {n}
        BY <1>1, <1>3, ToSetMoves
      <4>4. Waits(r)' /\ n \in ToSet(parents'[r])
        BY <1>1, <2>2, <4>1, <4>2, <4>3
      <4> QED BY <1>5, <4>4 DEF Covered
    <3>3. CASE status[r] # "evaluating" /\ ~ IsAsync(r)
      <4>1. Reached(r) /\ ~ failed[r] /\ status[root[r]] # "evaluating-async"
        BY <1>8, <2>7, <3>3 DEF VisitEvaluation, HasFailed, IsAsync
      <4>2. ~ Waits(r)
        BY <1>1, <4>1, WaitingIs DEF Alone
      <4>3. Done(r)
        BY <4>1, <4>2 DEF Done, Reached
      <4> QED BY <1>5, <1>6, <4>3 DEF Covered
    <3> QED BY <3>1, <3>2, <3>3
  <2> QED BY <1>4, <2>4, <2>6, <2>7 DEF Asked
<1>9. CASE ExecuteSync
  <2>1. phase = "evaluate" /\ calls # <<>> /\ parents' = parents
    BY <1>9 DEF ExecuteSync, Searching
  <2>2. Top.module \notin graph.throws
    BY <1>2, <1>9 DEF ExecuteSync, Unwind, Abandon
  <2>3. PICK done : Finished(Top.module, done)
    BY <1>1, <1>9, <2>2, SyncFinishes
  <2>4. Leaving /\ done = On \ On'
    BY <1>9, <2>2, <2>3, FinishedLeaves
  <2>5. n \in On /\ Explored(n, e)
    BY <1>1, <1>2, <2>4, LeavingExplored
  <2>6. Covered(n, r)
    BY <1>4, <2>1, <2>5 DEF SearchCovers
  <2>7. /\ \A d \in Modules : status'[d] = IF d \in done THEN "evaluated" ELSE status[d]
        /\ UNCHANGED failed /\ \A d \in On : status[d] = "evaluating"
    BY <2>3 DEF Finished
  <2>8. CASE r \in done
    <3>1. r \in On /\ ~ failed[r]
      BY <1>1, <2>4, <2>7, <2>8 DEF PromisesAgree
    <3>2. Done(r)'
      BY <2>7, <2>8, <3>1 DEF Done
    <3> QED BY <1>5, <3>2 DEF Covered
  <2>9. CASE r \notin done
    BY <1>5, <1>6, <2>1, <2>4, <2>6, <2>7, <2>9 DEF Covered
  <2> QED BY <2>8, <2>9
<1>10. CASE ExecuteAsync
  <2>1. phase = "evaluate"
    BY <1>10 DEF ExecuteAsync, Searching
  <2>2. PICK m : Queued(m)
    BY <1>1, <1>10, AsyncQueues
  <2>3. Leaving /\ On' = On \ {m}
    BY <1>10, <2>2, QueuedLeaves
  <2>4. n \in On /\ Explored(n, e)
    BY <1>1, <1>2, <2>3, LeavingExplored
  <2>5. Covered(n, r)
    BY <1>4, <2>1, <2>4 DEF SearchCovers
  <2>6. /\ \A d \in Modules : status'[d] = IF d = m THEN "evaluating-async" ELSE status[d]
        /\ m \notin Cyclic /\ parents' = parents
    BY <2>2 DEF Queued
  <2>7. n \in Cyclic => r \in Cyclic
    BY <1>1, <1>4, CyclicClosed DEF CalmSearch, Asked, Positions
  <2>8. n # m
    BY <1>2, <2>3
  <2> QED BY <1>5, <1>6, <2>3, <2>5, <2>6, <2>7, <2>8 DEF Covered
<1>11. CASE FailEvaluation \/ Linking \/ Settling
  BY <1>2, <1>11 DEF FailEvaluation, Unwind, Abandon, Linking, EnterLink, VisitLink, FailLink, FinishLink, Leave, Searching,
     Settling, Gather, SkipParent, EndFulfill, RejectNext, EndReject, RunReady
<1>12. CASE \E m \in Modules : Link(m) \/ EvaluateAgain(m) \/ Fulfill(m) \/ Reject(m)
  BY <1>2, <1>12 DEF Link, EvaluateAgain, Fulfill, Reject
<1> QED BY <1>7, <1>8, <1>9, <1>10, <1>11, <1>12 DEF Next, Evaluating, Host

\* What is about to run, or runs between two steps of the host, requests nothing
\* that is not done, but itself perhaps.
LEMMA Unawaited ==
  ASSUME Calmly, WaitersMet, NEW m \in Modules,
         (phase = "idle" /\ m \in running) \/ (phase = "gather" /\ NextReady(m)),
         NEW e \in Positions(m)
  PROVE  Asked(m, e) = m \/ Done(Asked(m, e))
<1> USE DEF Waits
<1>1. Base /\ TypeOK /\ Clean /\ PromisesAgree /\ Waiting /\ Ready /\ order \in [Modules -> Nat]
  BY DEF Calmly, Base, Capabilities, Waiting, TypeOK
<1>2. PICK r \in Modules : r = Asked(m, e)
  BY <1>1, AskedIs
<1>3. m \in running \cup execList
  BY DEF NextReady
<1>4. Waits(m)
  BY <1>1, <1>3 DEF Ready
<1>5. m \notin ToSet(parents[r])
  BY <1>1, <1>3, WaitingIs
<1>6. Met(m, r)
  BY <1>2, <1>4 DEF WaitersMet
<1>7. CASE Waits(r) /\ order[r] < order[m] /\ r \in execList
  <2>1. phase = "gather" /\ NextReady(m)
    BY <1>1, <1>7 DEF Clean
  <2>2. order[m] <= order[r] /\ order[m] \in Nat /\ order[r] \in Nat
    BY <1>1, <1>7, <2>1 DEF NextReady
  <2> QED BY <1>7, <2>2
<1> QED BY <1>2, <1>5, <1>6, <1>7 DEF Met

\* The steps by which a module is done.
LEMMA NewlyDone ==
  ASSUME Calmly, Finals, Next, NEW n \in Modules, ~ Done(n), Done(n)'
  PROVE  \/ ExecuteSync /\ Top.module \notin graph.throws
         \/ phase = "idle" /\ n \in running
         \/ phase = "gather" /\ NextReady(n)
<1>1. /\ Base /\ TypeOK /\ PromisesAgree /\ CalmSearch /\ Waiting /\ Deps
      /\ status \in [Modules -> Statuses] /\ failed \in [Modules -> BOOLEAN]
  BY DEF Calmly, Base, Capabilities, TypeOK
<1>2. status[n] # "evaluated" /\ status'[n] = "evaluated" /\ ~ failed'[n]
  BY DEF Done, Finals
<1>3. ~ Linking /\ \A m \in Modules : ~ Link(m)
  BY <1>1, <1>2 DEF Linking, EnterLink, Enter, VisitLink, FailLink, FinishLink, Link
<1>4. /\ ~ EnterEvaluation /\ ~ VisitEvaluation
      /\ \A m \in Modules : ~ Evaluate(m) /\ ~ EvaluateAgain(m)
  BY <1>1, <1>2 DEF EnterEvaluation, Enter, VisitEvaluation, Evaluate, EvaluateAgain
<1>5. ~ Unwind
  BY <1>2 DEF Unwind
<1>6. ~ ExecuteAsync
  <2>1. ASSUME ExecuteAsync PROVE FALSE
    <3>1. PICK m : Queued(m)
      BY <1>1, <2>1, AsyncQueues
    <3> QED BY <1>2, <3>1 DEF Queued
  <2> QED BY <2>1
<1>7. ~ Gather /\ ~ SkipParent /\ ~ EndFulfill /\ ~ EndReject /\ \A m \in Modules : ~ Reject(m)
  BY <1>2 DEF Gather, SkipParent, EndFulfill, EndReject, Reject
<1>8. ~ RejectNext
  BY <1>1, <1>2 DEF RejectNext
<1>9. ASSUME NEW m \in Modules, Fulfill(m) PROVE phase = "idle" /\ n \in running
  BY <1>1, <1>2, <1>9 DEF Fulfill, Complete
<1>10. ASSUME NEW m \in Modules, RunReady(m) PROVE phase = "gather" /\ NextReady(n)
  BY <1>1, <1>2, <1>10 DEF RunReady, Complete
<1> QED BY <1>3, <1>4, <1>5, <1>6, <1>7, <1>8, <1>9, <1>10
        DEF Next, Evaluating, Settling, Host, FailEvaluation, ExecuteSync

\* What is done requests only what is done.
LEMMA DoneClosedKept ==
  ASSUME Calmly, Base', Found', Finals, Next, WaitersMet, SearchCovers, DoneClosed
  PROVE  DoneClosed'
<1> USE DEF Waits
<1>1. /\ Base /\ TypeOK /\ PromisesAgree /\ CalmSearch /\ Waiting /\ Deps /\ TypeOK' /\ UNCHANGED graph
      /\ status \in [Modules -> Statuses] /\ On \subseteq Modules
  BY GraphStays, StackPlaces DEF Calmly, Base, Capabilities, TypeOK
<1>2. SUFFICES ASSUME NEW n \in Modules, Done(n)', NEW e \in Positions(n) PROVE Done(Asked(n, e))'
  BY <1>1, AskedStays DEF DoneClosed
<1>3. PICK r \in Modules : r = Asked(n, e)
  BY <1>1, AskedIs
<1>4. Asked(n, e)' = r /\ (Done(r) => Done(r)')
  BY <1>1, <1>3, AskedStays DEF Finals, Done
<1>5. CASE Done(n)
  BY <1>3, <1>4, <1>5 DEF DoneClosed
<1>6. CASE ~ Done(n) /\ ((phase = "idle" /\ n \in running) \/ (phase = "gather" /\ NextReady(n)))
  <2>1. Asked(n, e) = n \/ Done(Asked(n, e))
    BY <1>6, Unawaited
  <2> QED BY <1>2, <1>3, <1>4, <2>1
<1>7. CASE ~ Done(n) /\ ExecuteSync /\ Top.module \notin graph.throws
  <2>1. PICK done : Finished(Top.module, done)
    BY <1>1, <1>7, SyncFinishes
  <2>2. Leaving /\ done = On \ On'
    BY <1>7, <2>1, FinishedLeaves
  <2>3. /\ \A d \in Modules : status'[d] = IF d \in done THEN "evaluated" ELSE status[d]
        /\ UNCHANGED failed /\ done \subseteq On
        /\ \A d \in On : status[d] = "evaluating"
        /\ n \in done => n \notin ToSet(parents[r])
    BY <2>1 DEF Finished
  <2>4. n \in done
    BY <1>2, <1>7, <2>3 DEF Done
  <2>5. Covered(n, r)
    <3>1. Explored(n, e)
      BY <1>1, <2>2, <2>4, LeftExplored
    <3>2. phase = "evaluate"
      BY <1>7 DEF ExecuteSync, Searching
    <3> QED BY <1>3, <2>3, <2>4, <3>1, <3>2 DEF SearchCovers
  <2>6. CASE r \in On
    <3>1. PICK P : Searched(P)'
      BY DEF Found
    <3>2. n \in P
      BY <1>2, <3>1 DEF Searched, Reached, Done
    <3>3. Leads(n, r)'
      <4>1. Leads(n, r)
        BY <1>1, <1>3, LeadsToAsked
      <4> QED BY <1>1, <4>1, LeadsStays
    <3>4. r \in P
      BY <3>1, <3>2, <3>3 DEF Searched, Leads
    <3>5. Reached(r)'
      BY <3>1, <3>4 DEF Searched
    <3>6. status[r] = "evaluating" /\ ~ failed[r]
      BY <1>1, <2>3, <2>6 DEF PromisesAgree
    <3> QED BY <1>4, <2>3, <3>5, <3>6 DEF Reached, Done
  <2> QED BY <1>4, <2>3, <2>4, <2>5, <2>6 DEF Covered
<1> QED BY <1>2, <1>5, <1>6, <1>7, NewlyDone

\* A body has started only when what its module requests is done, or leads to it.
LEMMA StartedAfterKept ==
  ASSUME Calmly, Found, Base', Finals, Next, WaitersMet, SearchCovers, StartedAfter
  PROVE  StartedAfter'
<1> USE DEF Waits
<1>1. /\ Base /\ TypeOK /\ PromisesAgree /\ CalmSearch /\ Waiting /\ Deps /\ UNCHANGED graph /\ started \subseteq Modules
  BY GraphStays DEF Calmly, Base, Capabilities, TypeOK
<1>2. ASSUME NEW n \in Modules, NEW e \in Positions(n), Done(Asked(n, e)) \/ Leads(Asked(n, e), n)
      PROVE  (Done(Asked(n, e)) \/ Leads(Asked(n, e), n))'
  <2>1. PICK r \in Modules : r = Asked(n, e) /\ Asked(n, e)' = r
    BY <1>1, AskedIs, AskedStays
  <2> QED BY <1>1, <1>2, <2>1, LeadsStays DEF Finals, Done
<1>3. SUFFICES ASSUME NEW n \in started', n \notin started, NEW e \in Positions(n)
               PROVE  n \in Modules /\ (Done(Asked(n, e)) \/ Leads(Asked(n, e), n))
  BY <1>1, <1>2, AskedStays DEF StartedAfter
<1>4. CASE ExecuteSync \/ ExecuteAsync
  <2>1. phase = "evaluate" /\ calls # <<>> /\ ~ HasNext
    BY <1>4 DEF ExecuteSync, ExecuteAsync, Searching
  <2>2. n = Top.module /\ Top.deps = 0
    BY <1>3, <1>4 DEF ExecuteSync, ExecuteAsync
  <2>3. n \in On /\ n \in Modules
    BY <1>1, <2>1, <2>2, RequiredIs DEF Base
  <2>4. Count(parents, n) = 0
    <3>1. PICK l : l = Len(calls)
      OBVIOUS
    <3>2. l \in 1..l /\ Top = calls[l] /\ n = Called(l)
      BY <1>1, <2>1, <2>2, <3>1, TopIs DEF Base
    <3> QED BY <1>1, <2>1, <2>2, <3>1, <3>2 DEF Deps
  <2>5. PICK r \in Modules : r = Asked(n, e)
    BY <1>1, <2>3, AskedIs
  <2>6. Covered(n, r)
    BY <1>1, <2>1, <2>2, <2>3, <2>5, TopExplored DEF SearchCovers
  <2>7. n \notin ToSet(parents[r])
    BY <1>1, <2>4, WaitingTypes
  <2>8. r \in On => Leads(r, n)
    BY <1>1, <2>1, <2>2, LeadsToTop
  <2> QED BY <2>3, <2>5, <2>6, <2>7, <2>8 DEF Covered
<1>5. CASE \E m \in Modules : RunReady(m)
  <2>1. phase = "gather" /\ NextReady(n) /\ n \in Modules
    BY <1>3, <1>5 DEF RunReady
  <2>2. Asked(n, e) = n \/ Done(Asked(n, e))
    BY <2>1, Unawaited
  <2> QED BY <2>1, <2>2, LeadsToItself
<1>6. ~ Linking /\ ~ EnterEvaluation /\ ~ VisitEvaluation /\ ~ FailEvaluation
  BY <1>3 DEF Linking, EnterLink, VisitLink, FailLink, FinishLink, EnterEvaluation, VisitEvaluation, FailEvaluation, bodies
<1>7. ~ Gather /\ ~ SkipParent /\ ~ EndFulfill /\ ~ RejectNext /\ ~ EndReject /\ ~ Host
  BY <1>3 DEF Gather, SkipParent, EndFulfill, RejectNext, EndReject, bodies, Host, Link, Evaluate, EvaluateAgain, Fulfill, Reject
<1> QED BY <1>4, <1>5, <1>6, <1>7 DEF Next, Evaluating, Settling

------------------------------------------------------------------------------
(* Errors are not lost.                                                     *)

\* What has thrown has failed, or is about to.
Threw == \A n \in threw : Failed(n) \/ (phase = "reject" /\ n \in ToSet(todo))

\* Every step keeps that.
LEMMA ThrewKept ==
  ASSUME Calmly, ThrowersRest, Base', Finals, Next, Threw
  PROVE  Threw'
<1>1. /\ Base /\ TypeOK /\ TypeOK' /\ Clean /\ PromisesAgree /\ Waiting /\ Told /\ threw \subseteq Modules
      /\ status \in [Modules -> Statuses] /\ failed \in [Modules -> BOOLEAN] /\ On \subseteq Modules
      /\ parents \in [Modules -> Seq(Modules)] /\ todo \in Seq(Modules)
  BY StackPlaces DEF Calmly, Base, Capabilities, Waiting, TypeOK
<1>2. \A n \in Modules : Failed(n) => Failed(n)'
  BY DEF Finals, Failed
<1>3. ASSUME NEW n \in threw, ~ Failed(n) PROVE Failed(n)' \/ (phase' = "reject" /\ n \in ToSet(todo'))
  <2>1. phase = "reject" /\ n \in ToSet(todo) /\ n \in Modules
    BY <1>1, <1>3 DEF Threw
  <2>2. todo # <<>>
    <3>1. ToSet(<<>>) = {}
      BY DEF ToSet
    <3> QED BY <2>1, <3>1
  <2>3. RejectNext
    <3>1. ~ Linking /\ ~ Host
      BY <2>1 DEF Linking, EnterLink, VisitLink, FailLink, FinishLink, Searching, Host, Link, Evaluate, EvaluateAgain, Fulfill, Reject
    <3>2. ~ Evaluating
      BY <2>1 DEF Evaluating, EnterEvaluation, VisitEvaluation, FailEvaluation, ExecuteSync, ExecuteAsync, Searching
    <3>3. ~ Gather /\ ~ SkipParent /\ ~ EndFulfill /\ ~ EndReject /\ \A m \in Modules : ~ RunReady(m)
      BY <2>1, <2>2 DEF Gather, SkipParent, EndFulfill, EndReject, RunReady
    <3> QED BY <3>1, <3>2, <3>3 DEF Next, Settling
  <2>4. PICK p, t : p = Head(todo) /\ t = Tail(todo)
    OBVIOUS
  <2>5. Heads(todo, p, t)
    BY <1>1, <2>2, <2>4, HeadIs
  <2>6. p \in Modules /\ t \in Seq(Modules) /\ ToSet(todo) = ToSet(t) \cup {p}
    BY <2>5 DEF Heads
  <2>7. CASE status[p] = "evaluated"
    <3>1. todo' = t /\ phase' = "reject"
      BY <2>1, <2>3, <2>4, <2>7 DEF RejectNext
    <3>2. Failed(p)
      BY <1>1, <2>6, <2>7 DEF Told, Waits, Failed
    <3> QED BY <1>3, <2>1, <2>6, <3>1, <3>2
  <2>8. CASE status[p] # "evaluated"
    <3>1. /\ status' = [status EXCEPT ![p] = "evaluated"] /\ failed' = [failed EXCEPT ![p] = TRUE]
          /\ todo' = parents[p] \o t /\ parents' = [parents EXCEPT ![p] = <<>>] /\ phase' = "reject"
      BY <2>1, <2>3, <2>4, <2>8 DEF RejectNext
    <3>2. ToSet(todo') = ToSet(parents[p]) \cup ToSet(t)
      <4>1. PICK ps, qs, ts : ps = parents /\ qs = parents' /\ ts = todo'
        OBVIOUS
      <4>2. /\ ps \in [Modules -> Seq(Modules)] /\ qs \in [Modules -> Seq(Modules)] /\ t \in Seq(Modules) /\ p \in Modules
            /\ qs[p] = <<>> /\ \A d \in Modules : d # p => qs[d] = ps[d]
        BY <1>1, <2>6, <3>1, <4>1 DEF TypeOK
      <4>3. ts = ps[p] \o t
        BY <3>1, <4>1
      <4>4. Taken(ps, qs, p, t, ts)
        BY <4>2, <4>3, ListTaken
      <4> QED BY <4>1, <4>4 DEF Taken
    <3>3. Failed(p)'
      BY <1>1, <2>6, <3>1 DEF Failed
    <3> QED BY <2>1, <2>6, <3>1, <3>2, <3>3
  <2> QED BY <2>7, <2>8
<1>4. ASSUME NEW n \in threw', n \notin threw PROVE Failed(n)' \/ (phase' = "reject" /\ n \in ToSet(todo'))
  <2>1. CASE ExecuteSync
    <3>1. n = Top.module /\ Unwind /\ calls # <<>>
      BY <1>4, <2>1 DEF ExecuteSync, Searching
    <3>2. n \in On /\ n \in Modules
      BY <1>1, <3>1, RequiredIs DEF Base
    <3> QED BY <3>1, <3>2 DEF Unwind, Failed, On
  <2>2. ASSUME NEW m \in Modules, Reject(m) PROVE Failed(n)' \/ (phase' = "reject" /\ n \in ToSet(todo'))
    <3>1. phase' = "reject" /\ n = m /\ todo' = <<m>>
      BY <1>4, <2>2 DEF Reject
    <3>2. ToSet(<<m>>) = {m}
      <4>1. PICK z : z = <<>> /\ z \in Seq(Modules)
        BY EmptySeq
      <4>2. ToSet(z) = {} /\ ToSet(Append(z, m)) = ToSet(z) \cup {m}
        BY <4>1, ToSetMoves DEF ToSet
      <4>3. Append(z, m) = <<m>>
        BY <4>1
      <4> QED BY <4>2, <4>3
    <3> QED BY <3>1, <3>2
  <2>3. \A m \in Modules : ~ RunReady(m)
    <3>1. ASSUME NEW m \in Modules, RunReady(m) PROVE FALSE
      <4>1. m \notin Throwers
        BY <1>1, <3>1, WaitingRun DEF ThrowersRest
      <4> QED BY <1>4, <3>1, <4>1 DEF RunReady, Throwers
    <3> QED BY <3>1
  <2>4. ~ Linking /\ ~ EnterEvaluation /\ ~ VisitEvaluation /\ ~ FailEvaluation /\ ~ ExecuteAsync
    BY <1>4 DEF Linking, EnterLink, VisitLink, FailLink, FinishLink, EnterEvaluation, VisitEvaluation,
       FailEvaluation, ExecuteAsync, bodies
  <2>5. /\ ~ Gather /\ ~ SkipParent /\ ~ EndFulfill /\ ~ RejectNext /\ ~ EndReject
        /\ \A m \in Modules : ~ Link(m) /\ ~ Evaluate(m) /\ ~ EvaluateAgain(m) /\ ~ Fulfill(m)
    BY <1>4 DEF Gather, SkipParent, EndFulfill, RejectNext, EndReject, bodies, Link, Evaluate, EvaluateAgain, Fulfill
  <2> QED BY <2>1, <2>2, <2>3, <2>4, <2>5 DEF Next, Evaluating, Settling, Host
<1>5. \A n \in threw' : Failed(n)' \/ (phase' = "reject" /\ n \in ToSet(todo'))
  BY <1>1, <1>2, <1>3, <1>4
<1> QED BY <1>5 DEF Threw

\* Once no body runs nothing waits: the first of what waits would wait for nothing.
LEMMA NobodyWaits ==
  ASSUME Calmly, ThrowersRest, Quiet
  PROVE  \A n \in Modules : ~ Waits(n)
<1>1. Base /\ TypeOK /\ Clean /\ Listed /\ Ready /\ Exact /\ order \in [Modules -> Nat]
  BY DEF Calmly, Base, Waiting, TypeOK
<1>2. phase = "idle" /\ running = {} /\ execList = {} /\ ToSet(todo) = {}
  BY <1>1 DEF Quiet, Clean, ToSet
<1>3. SUFFICES ASSUME NEW w \in Modules, Waits(w) PROVE FALSE
  OBVIOUS
<1>4. PICK S : S = {order[n] : n \in {k \in Modules : Waits(k)}}
  OBVIOUS
<1>5. S \subseteq Nat /\ S # {}
  BY <1>1, <1>3, <1>4
<1>6. PICK i \in S : \A j \in S : i <= j
  BY <1>5, LeastNumber
<1>7. PICK n \in Modules : Waits(n) /\ i = order[n]
  BY <1>4, <1>6
<1>8. pending[n] # 0
  <2>1. n \notin Throwers
    BY <1>1, <1>7, WaitingIs DEF ThrowersRest, Calmly, Capabilities
  <2> QED BY <1>1, <1>2, <1>7, <2>1 DEF Ready
<1>9. Times(todo, n) = 0 /\ Count(parents, n) \in Nat
  BY <1>1, <1>2, WaitingTypes
<1>10. Count(parents, n) # 0
  <2>1. pending[n] = Count(parents, n) + Times(todo, n)
    BY <1>1, <1>2, <1>7 DEF Exact
  <2> QED BY <1>8, <1>9, <2>1
<1>11. PICK d \in Modules : n \in ToSet(parents[d])
  BY <1>1, <1>10, WaitingTypes
<1>12. Waits(d) /\ order[d] < order[n]
  <2>1. Waits(d) /\ (status[n] = "evaluating" \/ (Waits(n) /\ order[d] < order[n]) \/ Failed(n))
    BY <1>1, <1>11 DEF Listed
  <2> QED BY <1>7, <2>1 DEF Waits, Failed
<1>13. order[n] <= order[d] /\ order[n] \in Nat /\ order[d] \in Nat
  BY <1>1, <1>4, <1>6, <1>7, <1>12
<1> QED BY <1>12, <1>13

\* The order in which modules are evaluated.
InOrder == Calmly /\ ThrowersRest /\ Found /\ WaitersMet /\ SearchCovers /\ DoneClosed /\ StartedAfter /\ Threw

\* At first no module is in it.
LEMMA InOrderInit ==
  ASSUME Init, Calm(graph)
  PROVE  InOrder
<1>1. Calmly /\ ThrowersRest /\ Found
  BY CalmIs, CalmlyInit, FoundInit DEF ThrowersRest
<1>2. /\ \A n \in Modules : ~ Waits(n) /\ ~ Done(n)
      /\ phase = "idle" /\ started = {} /\ threw = {}
  BY DEF Init, Waits, Done
<1> QED BY <1>1, <1>2 DEF InOrder, WaitersMet, SearchCovers, DoneClosed, StartedAfter, Threw

\* And every step goes on with it.
LEMMA InOrderNext ==
  ASSUME InOrder, [Next]_vars
  PROVE  InOrder'
<1>1. Calmly /\ ThrowersRest /\ Found /\ WaitersMet /\ SearchCovers /\ DoneClosed /\ StartedAfter /\ Threw /\ Base /\ Capabilities
  BY DEF InOrder, Calmly
<1>2. Calmly' /\ Found' /\ Base' /\ ThrowersRest'
  <2>1. UNCHANGED graph
    BY GraphStays DEF vars
  <2> QED BY <1>1, <2>1, CalmlyNext, FoundNext, BaseNext, SyncStays DEF ThrowersRest
<1>3. CASE Next
  <2>1. Finals
    BY <1>1, <1>3, AgreementKept DEF Capabilities
  <2>2. WaitersMet'
    BY <1>1, <1>2, <1>3, <2>1, WaitersMetKept
  <2>3. SearchCovers'
    BY <1>1, <1>2, <1>3, <2>1, SearchCoversKept
  <2>4. DoneClosed'
    BY <1>1, <1>2, <1>3, <2>1, DoneClosedKept
  <2>5. StartedAfter'
    BY <1>1, <1>2, <1>3, <2>1, StartedAfterKept
  <2>6. Threw'
    BY <1>1, <1>2, <1>3, <2>1, ThrewKept
  <2> QED BY <1>2, <2>2, <2>3, <2>4, <2>5, <2>6 DEF InOrder
<1>4. CASE UNCHANGED vars
  <2>1. UNCHANGED <<graph, status, root, failed, phase, calls, stack, order, parents, todo, execList, started, threw>>
    BY <1>4 DEF vars, search, asyncs, bodies, jobs
  <2>2. /\ \A n, e : Asked(n, e)' = Asked(n, e)
        /\ \A n : Positions(n)' = Positions(n)
        /\ Cyclic' = Cyclic /\ \A m, n : Leads(m, n)' <=> Leads(m, n)
    BY <2>1, AskedStays, LeadsStays
  <2>3. /\ \A n : (Waits(n)' <=> Waits(n)) /\ (Done(n)' <=> Done(n)) /\ (Failed(n)' <=> Failed(n))
        /\ On' = On /\ \A n, e : Explored(n, e)' <=> Explored(n, e)
    BY <2>1 DEF Waits, Done, Failed, On, Explored, Called
  <2>4. \A n, r : (Met(n, r)' <=> Met(n, r)) /\ (Covered(n, r)' <=> Covered(n, r))
    BY <2>1, <2>2, <2>3 DEF Met, Covered
  <2>5. WaitersMet'
    BY <1>1, <2>2, <2>3, <2>4 DEF WaitersMet
  <2>6. SearchCovers'
    BY <1>1, <2>1, <2>2, <2>3, <2>4 DEF SearchCovers
  <2>7. DoneClosed' /\ StartedAfter' /\ Threw'
    BY <1>1, <2>1, <2>2, <2>3 DEF DoneClosed, StartedAfter, Threw
  <2> QED BY <1>2, <2>5, <2>6, <2>7 DEF InOrder
<1> QED BY <1>3, <1>4

\* A body starts only when all that its module imports, apart from what imports it
\* back, was evaluated without an error.
THEOREM ImportsComeFirst ==
  (\A g \in Graphs : Calm(g)) => (Spec => []DependenciesFirst)
<1> SUFFICES ASSUME \A g \in Graphs : Calm(g) PROVE Spec => []DependenciesFirst
  OBVIOUS
<1>1. Init => InOrder
  BY InOrderInit DEF Init
<1>2. InOrder /\ [Next]_vars => InOrder'
  BY InOrderNext
<1>3. InOrder => DependenciesFirst
  <2>1. SUFFICES ASSUME InOrder, NEW m \in started, NEW r \in ToSet(Requests(m)), m \notin Reaches[r],
                        NEW d \in Reaches[r] \cup {r}
                 PROVE  Done(d)
    BY DEF DependenciesFirst, Done
  <2>2. TypeOK /\ m \in Modules /\ Requests(m) \in Seq(Modules)
    BY <2>1 DEF InOrder, Calmly, Base, TypeOK, Requests
  <2>3. PICK e \in Positions(m) : r = Asked(m, e)
    BY <2>2, ToSetFacts DEF Positions, Asked
  <2>4. r \in Modules
    BY <2>2, <2>3, AskedIs
  <2>5. ~ Leads(r, m)
    <3>1. r # m
      BY <2>1, <2>2 DEF Reaches
    <3> QED BY <2>1, <2>2, <2>4, <3>1, ReachesIs
  <2>6. Done(r)
    BY <2>1, <2>3, <2>5 DEF InOrder, StartedAfter
  <2>7. PICK D : D = {n \in Modules : Done(n)}
    OBVIOUS
  <2>8. Closed(graph, D)
    <3>1. ASSUME NEW n \in D, NEW q \in ToSet(graph.requests[n]) PROVE q \in D
      <4>1. n \in Modules /\ Requests(n) \in Seq(Modules) /\ q \in ToSet(Requests(n))
        BY <2>2, <2>7, <3>1 DEF TypeOK, Requests
      <4>2. PICK i \in Positions(n) : q = Asked(n, i)
        BY <4>1, ToSetFacts DEF Positions, Asked
      <4>3. q \in Modules
        BY <2>2, <4>1, <4>2, AskedIs
      <4> QED BY <2>1, <2>7, <3>1, <4>1, <4>2, <4>3 DEF InOrder, DoneClosed
    <3> QED BY <2>7, <3>1 DEF Closed
  <2>9. d \in Modules /\ Leads(r, d)
    <3>1. CASE d = r
      BY <2>4, <3>1, LeadsToItself
    <3>2. CASE d \in Reaches[r]
      <4>1. d \in Modules
        BY <2>4, <3>2 DEF Reaches
      <4> QED BY <2>2, <2>4, <3>2, <4>1, ReachesIs
    <3> QED BY <3>1, <3>2
  <2>10. D \in SUBSET Modules /\ r \in D
    BY <2>4, <2>6, <2>7
  <2> QED BY <2>7, <2>8, <2>9, <2>10 DEF Leads
<1> QED BY <1>1, <1>2, <1>3, PTL DEF Spec

\* An error reaches whatever imports the module that had it, what has thrown has
\* that error when the host goes on, and capabilities are settled with the outcome
\* of their module once no body runs.
THEOREM OutcomesArrive ==
  (\A g \in Graphs : Calm(g)) => (Spec => []OutcomesAreKept)
<1> SUFFICES ASSUME \A g \in Graphs : Calm(g) PROVE Spec => []OutcomesAreKept
  OBVIOUS
<1>1. Init => InOrder
  BY InOrderInit DEF Init
<1>2. InOrder /\ [Next]_vars => InOrder'
  BY InOrderNext
<1>3. InOrder => ErrorsPropagate
  <2>1. SUFFICES ASSUME InOrder, phase = "idle", NEW m \in Modules, NEW r \in ToSet(Requests(m)), failed[r], Reached(m), ~ failed[m]
                 PROVE  FALSE
    BY DEF ErrorsPropagate
  <2>2. TypeOK /\ PromisesAgree /\ WaitersMet /\ DoneClosed /\ Requests(m) \in Seq(Modules)
    BY <2>1 DEF InOrder, Calmly, Base, Capabilities, TypeOK, Requests
  <2>3. PICK e \in Positions(m) : r = Asked(m, e)
    BY <2>2, ToSetFacts DEF Positions, Asked
  <2>4. r \in Modules
    BY <2>2, <2>3, AskedIs
  <2>5. ~ Done(r) /\ ~ Waits(r)
    BY <2>1, <2>2, <2>4 DEF PromisesAgree, Done, Waits
  <2>6. CASE Waits(m)
    <3>1. Met(m, r)
      BY <2>2, <2>3, <2>6 DEF WaitersMet
    <3> QED BY <2>1, <2>5, <3>1 DEF Met
  <2>7. CASE Done(m)
    BY <2>2, <2>3, <2>5, <2>7 DEF DoneClosed
  <2> QED BY <2>1, <2>6, <2>7 DEF Reached, Waits, Done
<1>4. InOrder => ErrorsAreRecorded
  BY DEF InOrder, Threw, Failed, ErrorsAreRecorded
<1>5. InOrder => CapabilitiesSettle
  <2>1. SUFFICES ASSUME InOrder, Quiet, NEW m \in Modules, capability[m] # 0
                 PROVE  promise[capability[m]] = IF failed[m] THEN "rejected" ELSE "fulfilled"
    BY DEF CapabilitiesSettle
  <2>2. /\ PromisesAgree /\ OnStatus /\ phase = "idle" /\ status[m] \in Statuses
        /\ \A n \in Modules : ~ Waits(n)
    BY <2>1, NobodyWaits DEF InOrder, Calmly, Base, Capabilities, TypeOK, Quiet
  <2>3. status[m] = "evaluated"
    <3>1. status[m] \notin LinkStatuses
      BY <2>1, <2>2 DEF PromisesAgree
    <3>2. status[m] # "evaluating" /\ status[m] # "evaluating-async"
      BY <2>2 DEF OnStatus, Waits
    <3> QED BY <2>2, <3>1, <3>2 DEF Statuses, LinkStatuses
  <2> QED BY <2>1, <2>2, <2>3 DEF PromisesAgree, Outcome
<1>6. ErrorsPropagate /\ ErrorsAreRecorded /\ CapabilitiesSettle => OutcomesAreKept
  BY DEF OutcomesAreKept
<1> QED BY <1>1, <1>2, <1>3, <1>4, <1>5, <1>6, PTL DEF Spec

------------------------------------------------------------------------------
(* The end of a search, and of a walk over what waits.                      *)

\* The modules no activation has entered, and those whose list nobody has taken.
Unentered == {m \in Modules : status[m] = IF phase = "link" THEN "unlinked" ELSE "linked"}
Awaited == {m \in Modules : parents[m] # <<>>}

\* What is left: of a search the modules to enter, the activations to end, and what
\* the last one still requests; of a walk the lists to take, the parents to tell,
\* and the bodies to run.
Left ==
  IF phase \in {"link", "evaluate"}
    THEN <<Cardinality(Unentered), Len(calls), Len(Requests(Top.module)) + 1 - Top.next>>
    ELSE <<Cardinality(Awaited), Len(todo), Cardinality(execList)>>

\* The lexicographic order, in which there is no infinite descent.
Shrinks(v, w) ==
  v[1] < w[1] \/ (v[1] = w[1] /\ (v[2] < w[2] \/ (v[2] = w[2] /\ v[3] < w[3])))

SearchEnds == [][phase # "idle" => phase' = "idle" \/ (phase' = phase /\ Shrinks(Left', Left))]_vars

\* What is counted down are natural numbers.
Counted == phase # "idle" => \A i \in 1..3 : Left[i] \in Nat

\* A set that loses an element.
LEMMA FewerModules ==
  ASSUME NEW S \in SUBSET Modules, NEW T \in SUBSET S
  PROVE  /\ Cardinality(T) \in Nat /\ Cardinality(S) \in Nat
         /\ Cardinality(T) < Cardinality(S) \/ (Cardinality(T) = Cardinality(S) /\ T = S)
<1>1. IsFiniteSet(S)
  BY GraphAssumption, FS_Subset
<1>2. IsFiniteSet(T) /\ Cardinality(T) \in Nat /\ Cardinality(S) \in Nat /\ Cardinality(T) <= Cardinality(S)
  BY <1>1, FS_Subset, FS_CardinalityType
<1>3. Cardinality(T) = Cardinality(S) => T = S
  BY <1>1, FS_Subset
<1> QED BY <1>2, <1>3

\* The numbers are natural.
LEMMA LeftIsCounted ==
  ASSUME Base
  PROVE  Counted
<1>1. SUFFICES ASSUME phase # "idle" PROVE \A i \in 1..3 : Left[i] \in Nat
  BY DEF Counted
<1>2. TypeOK /\ Clean /\ Chain
  BY DEF Base
<1>3. /\ Cardinality(Unentered) \in Nat /\ Cardinality(Awaited) \in Nat
      /\ Cardinality(execList) \in Nat
  BY <1>2, FewerModules DEF Unentered, Awaited, TypeOK
<1>4. Len(calls) \in Nat /\ Len(todo) \in Nat
  BY <1>2, LenProperties DEF TypeOK
<1>5. CASE phase \in {"link", "evaluate"}
  <2>1. calls # <<>>
    BY <1>2, <1>5 DEF Clean
  <2>2. Top.next \in 1..Len(Requests(Top.module)) + 1 /\ Len(Requests(Top.module)) \in Nat
    BY <1>2, <2>1, RequiredIs
  <2>3. Len(Requests(Top.module)) + 1 - Top.next \in Nat
    BY <2>2
  <2> QED BY <1>3, <1>4, <1>5, <2>3 DEF Left
<1>6. CASE phase \notin {"link", "evaluate"}
  BY <1>3, <1>4, <1>6 DEF Left
<1> QED BY <1>5, <1>6

\* Every step of a search that goes on leaves less of it.
LEMMA SearchShrinks ==
  ASSUME Base, TypeOK', Next, phase \in {"link", "evaluate"}
  PROVE  phase' = "idle" \/ (phase' = phase /\ Shrinks(Left', Left))
<1>1. TypeOK /\ Clean /\ Chain /\ OnStatus /\ Once(stack) /\ Kinds /\ UNCHANGED graph
  BY ActionKinds, GraphStays DEF Base
<1>2. calls # <<>> /\ Len(calls) \in Nat \ {0} /\ Unentered \subseteq Modules
  BY <1>1, TopIs DEF Clean, Unentered
<1>3. ASSUME NEW u, u = Unentered', u \subseteq Unentered, phase' = phase,
             \/ u # Unentered
             \/ Len(calls') < Len(calls)
             \/ Len(calls') = Len(calls) /\ Left'[3] < Left[3]
      PROVE  Shrinks(Left', Left)
  <2>1. /\ Left'[1] = Cardinality(u) /\ Left[1] = Cardinality(Unentered)
        /\ Left'[2] = Len(calls') /\ Left[2] = Len(calls)
    BY <1>3 DEF Left
  <2>2. Cardinality(u) < Cardinality(Unentered) \/ (Cardinality(u) = Cardinality(Unentered) /\ u = Unentered)
    BY <1>2, <1>3, FewerModules
  <2> QED BY <1>3, <2>1, <2>2 DEF Shrinks
<1>4. ASSUME NEW r \in Modules, NEW p \in {"link", "evaluate"}, NEW s \in {"linking", "evaluating"}, Entering(r, p, s)
      PROVE  phase' = phase /\ Shrinks(Left', Left)
  <2>1. phase' = phase /\ phase = p /\ status' = [status EXCEPT ![r] = s] /\ r \in Unentered
    BY <1>4 DEF Entering, Enter, Unentered
  <2>2. Unentered' = Unentered \ {r}
    BY <1>1, <2>1 DEF Unentered, TypeOK
  <2> QED BY <1>3, <2>1, <2>2
<1>5. ASSUME NEW deps \in Nat, Visiting(deps)
      PROVE  phase' = phase /\ Shrinks(Left', Left)
  <2>1. UNCHANGED <<phase, status>> /\ Moved(deps) /\ Unentered' = Unentered
    BY <1>1, <1>5, AdvanceMoves DEF Visiting, Unentered
  <2>2. /\ calls' # <<>> /\ Top' = calls'[Len(calls')] /\ Len(calls') = Len(calls)
        /\ Top'.module = Top.module /\ Top'.next = Top.next + 1
    <3>1. Len(calls') = Len(calls) /\ calls' \in Seq(Call) /\ calls' # <<>>
      BY <1>2, <2>1 DEF Moved
    <3>2. Top' = calls'[Len(calls')] /\ Top = calls[Len(calls)] /\ Len(calls) \in 1..Len(calls)
      BY <1>1, <1>2, <3>1, FrontFacts, TopIs DEF Top
    <3> QED BY <2>1, <3>1, <3>2 DEF Moved
  <2>3. Left'[3] = Len(Requests(Top.module)) + 1 - (Top.next + 1) /\ Left[3] = Len(Requests(Top.module)) + 1 - Top.next
    BY <1>1, <2>1, <2>2 DEF Left, Requests
  <2>4. Left'[3] < Left[3]
    <3>1. Len(Requests(Top.module)) \in Nat /\ Top.next \in Nat
      BY <1>1, <1>2, RequiredIs, TopIs
    <3> QED BY <2>3, <3>1
  <2> QED BY <1>3, <2>1, <2>2, <2>4
<1>6. ASSUME Leaving PROVE phase' = "idle" \/ (phase' = phase /\ Shrinks(Left', Left))
  <2>1. SUFFICES ASSUME phase' # "idle" PROVE phase' = phase /\ Shrinks(Left', Left)
    OBVIOUS
  <2>2. phase' = phase /\ calls' = Front(calls)
    BY <1>6, <2>1 DEF Leaving, Leave
  <2>3. Len(calls') = Len(calls) - 1
    BY <1>1, <1>2, <2>2, TopIs, FrontFacts
  <2>4. ASSUME NEW n \in Unentered' PROVE n \in Unentered
    BY <1>1, <1>6, <2>2, <2>4 DEF Leaving, Unentered
  <2> QED BY <1>2, <1>3, <2>2, <2>3, <2>4
<1>7. ASSUME Abandoning PROVE phase' = "idle"
  BY <1>7 DEF Abandoning, Abandon
<1>8. ~ Resting
  BY DEF Resting
<1> QED BY <1>1, <1>4, <1>5, <1>6, <1>7, <1>8 DEF Kinds

\* Every step of a walk that goes on leaves less of it.
LEMMA WalkShrinks ==
  ASSUME Base, TypeOK', Next, phase \in {"gather", "reject"}
  PROVE  phase' = "idle" \/ (phase' = phase /\ Shrinks(Left', Left))
<1>1. /\ TypeOK /\ parents \in [Modules -> Seq(Modules)] /\ todo \in Seq(Modules)
      /\ execList \subseteq Modules /\ Awaited \subseteq Modules
  BY DEF Base, TypeOK, Awaited
<1>2. ASSUME NEW w, w = Awaited', w \subseteq Awaited, phase' = phase,
             \/ w # Awaited
             \/ Len(todo') < Len(todo)
             \/ Len(todo') = Len(todo) /\ execList' \subseteq execList /\ execList' # execList
      PROVE  Shrinks(Left', Left)
  <2>1. /\ Left'[1] = Cardinality(w) /\ Left[1] = Cardinality(Awaited)
        /\ Left'[2] = Len(todo') /\ Left[2] = Len(todo)
        /\ Left'[3] = Cardinality(execList') /\ Left[3] = Cardinality(execList)
    BY <1>2 DEF Left
  <2>2. Cardinality(w) < Cardinality(Awaited) \/ (Cardinality(w) = Cardinality(Awaited) /\ w = Awaited)
    BY <1>1, <1>2, FewerModules
  <2>3. execList' \subseteq execList /\ execList' # execList => Cardinality(execList') < Cardinality(execList)
    BY <1>1, FewerModules
  <2> QED BY <1>2, <2>1, <2>2, <2>3 DEF Shrinks
<1>3. ASSUME todo # <<>>
      PROVE  Tail(todo) \in Seq(Modules) /\ Len(Tail(todo)) < Len(todo) /\ Head(todo) \in Modules
  <2>1. Len(todo) \in Nat /\ Len(Tail(todo)) = Len(todo) - 1 /\ Tail(todo) \in Seq(Modules)
    BY <1>1, <1>3, HeadTailProperties, LenProperties
  <2> QED BY <1>1, <1>3, <2>1, HeadTailProperties
<1>4. ASSUME todo # <<>>, NEW p, p = Head(todo), phase' = phase,
             todo' = parents[p] \o Tail(todo), parents' = [parents EXCEPT ![p] = <<>>]
      PROVE  Shrinks(Left', Left)
  <2>1. p \in Modules /\ Awaited' = Awaited \ {p}
    BY <1>1, <1>3, <1>4 DEF Awaited
  <2>2. CASE parents[p] = <<>>
    <3>1. todo' = Tail(todo)
      BY <1>3, <1>4, <2>2, ConcatProperties
    <3> QED BY <1>2, <1>3, <1>4, <2>1, <3>1
  <2>3. CASE parents[p] # <<>>
    <3>1. p \in Awaited
      BY <2>1, <2>3 DEF Awaited
    <3>2. Awaited' \subseteq Awaited /\ Awaited' # Awaited
      BY <2>1, <3>1
    <3> QED BY <1>2, <1>4, <3>2
  <2> QED BY <2>2, <2>3
<1>5. ASSUME todo # <<>>, phase' = phase, todo' = Tail(todo), UNCHANGED parents
      PROVE  Shrinks(Left', Left)
  <2>1. Awaited' = Awaited
    BY <1>5 DEF Awaited
  <2> QED BY <1>2, <1>3, <1>5, <2>1
<1>6. CASE Gather
  <2>1. todo # <<>> /\ phase' = phase
    BY <1>6 DEF Gather
  <2>2. CASE pending[Head(todo)] = 1 /\ Head(todo) \notin graph.tla
    BY <1>4, <1>6, <2>1, <2>2 DEF Gather
  <2>3. CASE ~ (pending[Head(todo)] = 1 /\ Head(todo) \notin graph.tla)
    BY <1>5, <1>6, <2>1, <2>3 DEF Gather
  <2> QED BY <2>1, <2>2, <2>3
<1>7. CASE SkipParent
  BY <1>5, <1>7 DEF SkipParent, asyncs
<1>8. CASE \E m \in Modules : RunReady(m)
  <2>1. PICK m \in Modules : RunReady(m)
    BY <1>8
  <2>2. m \in execList /\ execList' = execList \ {m} /\ UNCHANGED <<phase, todo, parents>>
    BY <2>1 DEF RunReady, NextReady, asyncs
  <2>3. Awaited' = Awaited
    BY <2>2 DEF Awaited
  <2> QED BY <1>2, <2>2, <2>3
<1>9. CASE RejectNext
  <2>1. todo # <<>> /\ phase' = phase
    BY <1>9 DEF RejectNext
  <2>2. CASE status[Head(todo)] = "evaluated"
    BY <1>5, <1>9, <2>1, <2>2 DEF RejectNext
  <2>3. CASE status[Head(todo)] # "evaluated"
    BY <1>4, <1>9, <2>1, <2>3 DEF RejectNext
  <2> QED BY <2>1, <2>2, <2>3
<1>10. CASE EndFulfill \/ EndReject
  BY <1>10 DEF EndFulfill, EndReject
<1>11. ~ Linking /\ ~ Evaluating /\ ~ Host
  BY DEF Linking, EnterLink, VisitLink, FailLink, FinishLink, Evaluating, EnterEvaluation, VisitEvaluation,
         FailEvaluation, ExecuteSync, ExecuteAsync, Searching, Host, Link, Evaluate, EvaluateAgain, Fulfill, Reject
<1> QED BY <1>6, <1>7, <1>8, <1>9, <1>10, <1>11 DEF Next, Settling

\* In every graph: a search of link or evaluate, and a walk over the modules that
\* waited for a body, come closer to their end with every step, whatever fails and
\* however the modules import each other.
THEOREM SearchesEnd == Spec => []Counted /\ SearchEnds
<1>1. Init => Base
  BY BaseInit
<1>2. Base /\ [Next]_vars => Base'
  BY BaseNext
<1>3. Base => Counted
  BY LeftIsCounted
<1>4. Base /\ Base' /\ [Next]_vars
        => [phase # "idle" => phase' = "idle" \/ (phase' = phase /\ Shrinks(Left', Left))]_vars
  <2>1. SUFFICES ASSUME Base, Base', Next, phase # "idle"
                 PROVE  phase' = "idle" \/ (phase' = phase /\ Shrinks(Left', Left))
    OBVIOUS
  <2>2. TypeOK' /\ phase \in {"link", "evaluate", "gather", "reject"}
    BY <2>1 DEF Base, TypeOK
  <2> QED BY <2>1, <2>2, SearchShrinks, WalkShrinks
<1> QED BY <1>1, <1>2, <1>3, <1>4, PTL DEF Spec, SearchEnds

\* While the engine has a search or a walk under way, some action of it has its guard.
GoesOn ==
  phase # "idle" =>
    \/ Searching("link") /\ HasNext
    \/ /\ Searching("link") /\ ~ HasNext
       /\ IF Top.module \in graph.broken
            THEN \A m \in ToSet(stack) : status[m] = "linking"
            ELSE ancestor[Top.module] = Top.index =>
                   \A m \in Component(Top.module) \ {Top.module} : status[m] = "prelinked"
    \/ Searching("evaluate") /\ (HasNext => status[Required] \in {"linked", "evaluating"} \/ Reached(Required))
    \/ /\ phase = "gather" /\ todo # <<>>
       /\ Skipped(Head(todo)) \/ (status[Head(todo)] = "evaluating-async" /\ pending[Head(todo)] > 0)
    \/ /\ phase = "gather" /\ todo = <<>>
       /\ execList = {} \/ \E m \in Modules : NextReady(m) /\ status[m] = "evaluating-async"
    \/ phase = "reject" /\ (todo # <<>> => status[Head(todo)] \in {"evaluating-async", "evaluated"})

\* The component link finishes is prelinked, but for its root.
LEMMA PrelinkedComponent ==
  ASSUME Base, Searching("link"), NEW n \in Component(Top.module) \ {Top.module}
  PROVE  status[n] = "prelinked"
<1>1. TypeOK /\ Chain /\ OnStatus /\ Once(stack) /\ calls # <<>> /\ phase = "link"
  BY DEF Base, Searching
<1>2. PICK l, m : l = Len(calls) /\ m = Top.module
  OBVIOUS
<1>3. l \in Nat \ {0} /\ m = Called(l) /\ l \in 1..l /\ m \in On
  BY <1>1, <1>2, TopIs, RequiredIs
<1>4. n \in On /\ PlaceIn(stack, m) <= PlaceIn(stack, n) /\ PlaceIn(stack, m) \in Nat /\ PlaceIn(stack, n) \in Nat
  BY <1>1, <1>2, <1>3, ComponentIs, StackPlaces
<1>5. n \notin Act
  <2>1. SUFFICES ASSUME NEW k \in 1..l, n = Called(k) PROVE FALSE
    BY <1>2 DEF Act
  <2>2. k < l
    BY <1>2, <1>3, <2>1
  <2>3. PlaceIn(stack, n) < PlaceIn(stack, m)
    BY <1>1, <1>2, <1>3, <2>1, <2>2 DEF Chain
  <2> QED BY ONLY <1>4, <2>3
<1> QED BY <1>1, <1>4, <1>5, StackPlaces DEF OnStatus

\* Some module of the exec list is next.
LEMMA SomeReady ==
  ASSUME TypeOK, execList # {}
  PROVE  \E m \in Modules : NextReady(m)
<1>1. execList \subseteq Modules /\ order \in [Modules -> Nat]
  BY DEF TypeOK
<1>2. PICK S : S = {order[n] : n \in execList}
  OBVIOUS
<1>3. S \subseteq Nat /\ S # {}
  BY <1>1, <1>2
<1>4. PICK i \in S : \A j \in S : i <= j
  BY <1>3, LeastNumber
<1>5. PICK m \in execList : i = order[m]
  BY <1>2, <1>4
<1> QED BY <1>1, <1>2, <1>4, <1>5 DEF NextReady

\* A search finds the module it requires linked, or further.
LEMMA RequiredIsLinked ==
  ASSUME Base, Links, Searching("evaluate"), HasNext
  PROVE  status[Required] \in {"linked", "evaluating"} \/ Reached(Required)
<1>1. TypeOK /\ Chain /\ OnStatus /\ Once(stack) /\ calls # <<>> /\ phase = "evaluate" /\ On \subseteq Modules
  BY StackPlaces DEF Base, Searching
<1>2. PICK m, e : m = Top.module /\ e = Top.next
  OBVIOUS
<1>3. m \in On /\ e \in Positions(m) /\ Required = Asked(m, e) /\ Required \in Modules
  BY <1>1, <1>2, RequiredIs DEF Positions, Asked, Required
<1>4. status[Required] # "unlinked"
  BY <1>1, <1>3 DEF Links, LinksBehind, Linked
<1>5. status[Required] \in Statuses /\ status[Required] \notin {"linking", "prelinked"}
  BY <1>1, <1>3 DEF TypeOK, OnStatus
<1> QED BY <1>4, <1>5 DEF Statuses, Reached

\* A search and a walk are never stuck before their end, in graphs whose cycles wait
\* for nothing: none of the panics of the code is reached, and something else is.
THEOREM NothingIsStuck ==
  (\A g \in Graphs : CyclesRest(g)) => (Spec => []GoesOn)
<1> SUFFICES ASSUME \A g \in Graphs : CyclesRest(g) PROVE Spec => []GoesOn
  OBVIOUS
<1>1. Init => Calmly /\ Links
  BY CalmlyInit, LinksInit DEF Init
<1>2. Calmly /\ Links /\ [Next]_vars => Calmly' /\ Links'
  BY CalmlyNext, LinksNext DEF Calmly
<1>3. Calmly /\ Links /\ StatusesAreExpected => GoesOn
  <2>1. SUFFICES ASSUME Calmly, Links, StatusesAreExpected, phase # "idle" PROVE GoesOn
    BY DEF GoesOn
  <2>2. /\ Base /\ TypeOK /\ Clean /\ UnwindFindsLinking /\ GatherFindsWaiting /\ Told /\ Ready
        /\ phase \in {"link", "evaluate", "gather", "reject"}
    BY <2>1 DEF Calmly, Base, Waiting, StatusesAreExpected, TypeOK
  <2>3. CASE phase = "link"
    BY <2>2, <2>3, PrelinkedComponent DEF GoesOn, Searching, Clean, UnwindFindsLinking
  <2>4. CASE phase = "evaluate"
    BY <2>1, <2>2, <2>4, RequiredIsLinked DEF GoesOn, Searching, Clean
  <2>5. CASE phase = "gather" /\ todo # <<>>
    BY <2>2, <2>5 DEF GoesOn, GatherFindsWaiting
  <2>6. CASE phase = "gather" /\ todo = <<>>
    <3>1. ASSUME NEW m \in Modules, NextReady(m) PROVE status[m] = "evaluating-async"
      BY <2>2, <3>1 DEF NextReady, Ready, Waits
    <3> QED BY <2>2, <2>6, <3>1, SomeReady DEF GoesOn
  <2>7. CASE phase = "reject"
    <3>1. ASSUME todo # <<>> PROVE status[Head(todo)] \in {"evaluating-async", "evaluated"}
      <4>1. Heads(todo, Head(todo), Tail(todo))
        BY <2>2, <3>1, HeadIs DEF TypeOK
      <4>2. Head(todo) \in ToSet(todo)
        BY <4>1 DEF Heads
      <4> QED BY <2>2, <4>2 DEF Told, Waits, Failed
    <3> QED BY <2>7, <3>1 DEF GoesOn
  <2> QED BY <2>2, <2>3, <2>4, <2>5, <2>6, <2>7
<1>4. Spec => []StatusesAreExpected
  BY NothingPanics
<1> QED BY <1>1, <1>2, <1>3, <1>4, PTL DEF Spec

==============================================================================
