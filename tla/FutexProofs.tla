----------------------------- MODULE FutexProofs -----------------------------
(* Proofs about Futex, for every set of agents, waiters, addresses, values,   *)
(* and that it implements WaiterLists.                                        *)
EXTENDS FutexRefinement, SequenceTheorems, TLAPS

------------------------------------------------------------------------------
(* What the three list operations of futex.rs do to a list without repeats. *)

\* push_back adds its element and nothing else.
LEMMA AppendFacts ==
  ASSUME NEW S, NEW s \in Seq(S), NEW e \in S, IsInjective(s), ~ Contains(s, e)
  PROVE  /\ Append(s, e) \in Seq(S)
         /\ IsInjective(Append(s, e))
         /\ \A w : Contains(Append(s, e), w) <=> Contains(s, w) \/ w = e
<1> DEFINE t == Append(s, e)
<1>1. /\ t \in Seq(S)
      /\ Len(t) = Len(s) + 1
      /\ \A i \in 1..Len(s) : t[i] = s[i]
      /\ t[Len(s) + 1] = e
  BY AppendProperties
<1>2. Len(s) \in Nat /\ DOMAIN s = 1..Len(s) /\ DOMAIN t = 1..Len(t)
  BY <1>1, LenProperties
<1> HIDE DEF t
<1>3. IsInjective(t)
  BY <1>1, <1>2 DEF IsInjective, Contains
<1>4. \A w : Contains(t, w) <=> Contains(s, w) \/ w = e
  BY <1>1, <1>2 DEF Contains
<1> QED BY <1>1, <1>3, <1>4 DEF t

\* pop_front removes the head and nothing else.
LEMMA TailFacts ==
  ASSUME NEW S, NEW s \in Seq(S), IsInjective(s), s # <<>>
  PROVE  /\ Tail(s) \in Seq(S)
         /\ Head(s) \in S
         /\ Contains(s, Head(s))
         /\ IsInjective(Tail(s))
         /\ \A w : Contains(Tail(s), w) <=> Contains(s, w) /\ w # Head(s)
<1> DEFINE t == Tail(s)
<1>1. /\ t \in Seq(S)
      /\ Head(s) \in S
      /\ Len(t) = Len(s) - 1
      /\ \A i \in 1..Len(t) : t[i] = s[i + 1]
  BY HeadTailProperties
<1>2. Len(s) \in Nat \ {0} /\ DOMAIN s = 1..Len(s) /\ DOMAIN t = 1..Len(t)
  BY <1>1, LenProperties, EmptySeq
<1>3. Head(s) = s[1]
  OBVIOUS
<1> HIDE DEF t
<1>4. IsInjective(t)
  <2>1. ASSUME NEW i \in 1..Len(t), NEW j \in 1..Len(t), t[i] = t[j]
        PROVE  i = j
    <3>1. /\ i + 1 \in 1..Len(s) /\ j + 1 \in 1..Len(s)
          /\ i \in Int /\ j \in Int
      BY <1>1, <1>2, <2>1
    <3>2. s[i + 1] = s[j + 1]
      BY <1>1, <2>1
    <3>3. i + 1 = j + 1
      BY ONLY IsInjective(s), <1>2, <3>1, <3>2 DEF IsInjective
    <3> QED BY ONLY <3>1, <3>3
  <2> QED BY <1>2, <2>1 DEF IsInjective
<1>5. ASSUME NEW w
      PROVE  Contains(t, w) <=> Contains(s, w) /\ w # s[1]
  <2>1. ASSUME Contains(t, w) PROVE Contains(s, w) /\ w # s[1]
    BY <1>1, <1>2, <2>1 DEF Contains, IsInjective
  <2>2. ASSUME Contains(s, w), w # s[1] PROVE Contains(t, w)
    <3>1. PICK i \in 1..Len(s) : s[i] = w
      BY <2>2 DEF Contains
    <3>2. i - 1 \in 1..Len(t) /\ t[i - 1] = w
      BY <1>1, <1>2, <2>2, <3>1
    <3> QED BY <3>2 DEF Contains
  <2> QED BY <2>1, <2>2
<1>6. Contains(s, s[1])
  BY <1>2 DEF Contains
<1> QED BY <1>1, <1>3, <1>4, <1>5, <1>6 DEF t

\* CursorMut::remove unlinks its element and nothing else.
LEMMA UnlinkFacts ==
  ASSUME NEW S, NEW s \in Seq(S), NEW e, IsInjective(s), Contains(s, e)
  PROVE  /\ Unlink(s, e) \in Seq(S)
         /\ IsInjective(Unlink(s, e))
         /\ \A w : Contains(Unlink(s, e), w) <=> Contains(s, w) /\ w # e
<1> DEFINE k == CHOOSE i \in 1..Len(s) : s[i] = e
           l == SubSeq(s, 1, k - 1)
           r == SubSeq(s, k + 1, Len(s))
           t == l \o r
<1>1. k \in 1..Len(s) /\ s[k] = e
  BY DEF Contains
<1>2. Len(s) \in Nat /\ DOMAIN s = 1..Len(s) /\ \A i \in 1..Len(s) : s[i] \in S
  BY LenProperties, ElementOfSeq
<1>3. t = Unlink(s, e)
  BY DEF Unlink, RemoveAt
<1> HIDE DEF k
<1>4. /\ l \in Seq(S)
      /\ Len(l) = k - 1
      /\ \A i \in 1..k - 1 : l[i] = s[i]
  <2>1. \A i \in 1..k - 1 : s[i] \in S
    BY <1>1, <1>2
  <2>2. k \in Int /\ k - 1 \in Int /\ 1 \in Int
    BY <1>1, <1>2
  <2> QED BY <1>1, <1>2, <2>1, <2>2, SubSeqProperties
<1>5. /\ r \in Seq(S)
      /\ Len(r) = Len(s) - k
      /\ \A i \in 1..Len(s) - k : r[i] = s[k + i]
  <2>1. \A i \in k + 1..Len(s) : s[i] \in S
    BY <1>1, <1>2
  <2>2. k + 1 \in Int /\ Len(s) \in Int
    BY <1>1, <1>2
  <2>3. /\ r \in Seq(S)
        /\ Len(r) = IF k + 1 <= Len(s) THEN Len(s) - (k + 1) + 1 ELSE 0
        /\ \A i \in 1..Len(s) - (k + 1) + 1 : r[i] = s[(k + 1) + i - 1]
    BY <2>1, <2>2, SubSeqProperties
  <2> HIDE DEF r
  <2>4. \A i \in 1..Len(s) - k : i \in 1..Len(s) - (k + 1) + 1 /\ (k + 1) + i - 1 = k + i
    BY <1>1, <1>2
  <2>5. Len(r) = Len(s) - k
    <3>1. k \in Int /\ Len(s) \in Int /\ k <= Len(s)
      BY <1>1, <1>2
    <3> QED BY <2>3, <3>1
  <2> QED BY <2>3, <2>4, <2>5
<1> HIDE DEF l, r
<1>6. /\ t \in Seq(S)
      /\ Len(t) = Len(s) - 1
      /\ DOMAIN t = 1..Len(t)
      /\ \A i \in 1..Len(t) : t[i] = IF i < k THEN s[i] ELSE s[i + 1]
  <2>1. /\ t \in Seq(S)
        /\ Len(t) = Len(l) + Len(r)
        /\ \A i \in 1..Len(l) + Len(r) :
             t[i] = IF i <= Len(l) THEN l[i] ELSE r[i - Len(l)]
    BY <1>4, <1>5, ConcatProperties
  <2> HIDE DEF t
  <2>2. k \in Int /\ 1 <= k /\ k <= Len(s) /\ Len(s) \in Nat
    BY <1>1, <1>2
  <2>3. Len(l) + Len(r) = Len(s) - 1
    BY <1>4, <1>5, <2>2
  <2>4. Len(t) = Len(s) - 1 /\ DOMAIN t = 1..Len(t)
    BY <2>1, <2>3, LenProperties
  <2>5. ASSUME NEW i \in 1..Len(t), i < k
        PROVE  t[i] = s[i]
    <3>1. i \in 1..Len(l) + Len(r) /\ i <= Len(l) /\ i \in 1..k - 1
      BY <1>4, <2>2, <2>3, <2>4, <2>5
    <3> QED BY <1>4, <2>1, <3>1
  <2>6. ASSUME NEW i \in 1..Len(t), ~ (i < k)
        PROVE  t[i] = s[i + 1]
    <3>1. /\ i \in 1..Len(l) + Len(r) /\ ~ (i <= Len(l))
          /\ i - Len(l) = i - (k - 1) /\ i - (k - 1) \in 1..Len(s) - k
          /\ k + (i - (k - 1)) = i + 1
      BY <1>4, <2>2, <2>3, <2>4, <2>6
    <3>2. t[i] = r[i - (k - 1)]
      BY <2>1, <3>1
    <3> QED BY <1>5, <3>1, <3>2
  <2> QED BY <2>1, <2>4, <2>5, <2>6
<1> HIDE DEF t
<1>7. IsInjective(t)
  <2>1. ASSUME NEW i \in 1..Len(t), NEW j \in 1..Len(t), t[i] = t[j]
        PROVE  i = j
    <3>0. k \in Int /\ Len(s) \in Int
      BY <1>1, <1>2
    <3>a. ASSUME NEW q \in 1..Len(t)
          PROVE  \E m \in 1..Len(s) : t[q] = s[m] /\ m = IF q < k THEN q ELSE q + 1
      <4>1. q \in 1..Len(s) /\ q + 1 \in 1..Len(s)
        BY ONLY <1>6, <3>0, q \in 1..Len(t)
      <4>2. t[q] = IF q < k THEN s[q] ELSE s[q + 1]
        BY ONLY <1>6, q \in 1..Len(t)
      <4> QED BY ONLY <4>1, <4>2
    <3>1. PICK m \in 1..Len(s) : t[i] = s[m] /\ m = IF i < k THEN i ELSE i + 1
      BY ONLY <3>a, i \in 1..Len(t)
    <3>2. PICK n \in 1..Len(s) : t[j] = s[n] /\ n = IF j < k THEN j ELSE j + 1
      BY ONLY <3>a, j \in 1..Len(t)
    <3>3. m = n
      <4>1. s[m] = s[n]
        BY ONLY <2>1, <3>1, <3>2
      <4>2. m \in DOMAIN s /\ n \in DOMAIN s
        BY ONLY <1>2, m \in 1..Len(s), n \in 1..Len(s)
      <4> QED BY ONLY IsInjective(s), <4>1, <4>2 DEF IsInjective
    <3>4. i \in Int /\ j \in Int
      OBVIOUS
    <3> QED BY ONLY <3>0, <3>1, <3>2, <3>3, <3>4
  <2> QED BY <1>6, <2>1 DEF IsInjective
<1>8. ASSUME NEW w
      PROVE  Contains(t, w) <=> Contains(s, w) /\ w # e
  <2>1. ASSUME Contains(t, w) PROVE Contains(s, w) /\ w # e
    <3>1. PICK i \in 1..Len(t) : t[i] = w
      BY ONLY <1>6, <2>1 DEF Contains
    <3>2. PICK j \in 1..Len(s) : w = s[j] /\ j # k
      <4>1. i \in Int /\ k \in Int /\ Len(s) \in Int
        BY <1>1, <1>2, <1>6
      <4>2. CASE i < k
        BY ONLY <1>6, <3>1, <4>1, <4>2, i \in 1..Len(t)
      <4>3. CASE ~ (i < k)
        <5>1. t[i] = s[i + 1] /\ i + 1 \in 1..Len(s) /\ i + 1 # k
          BY ONLY <1>6, <4>1, <4>3, i \in 1..Len(t)
        <5> QED BY ONLY <3>1, <5>1
      <4> QED BY ONLY <4>2, <4>3
    <3>3. j \in DOMAIN s /\ k \in DOMAIN s
      BY <1>1, <1>2
    <3> QED BY ONLY IsInjective(s), <1>1, <3>2, <3>3 DEF Contains, IsInjective
  <2>2. ASSUME Contains(s, w), w # e PROVE Contains(t, w)
    <3>1. PICK i \in 1..Len(s) : s[i] = w
      BY <2>2 DEF Contains
    <3>2. CASE i < k
      BY <1>1, <1>2, <1>6, <3>1, <3>2 DEF Contains
    <3>3. CASE i > k
      <4>1. i - 1 \in 1..Len(t) /\ t[i - 1] = w
        BY <1>1, <1>2, <1>6, <3>1, <3>3
      <4> QED BY <4>1 DEF Contains
    <3>4. i # k
      BY <1>1, <2>2, <3>1
    <3> QED BY <1>1, <1>2, <3>1, <3>2, <3>3, <3>4
  <2> QED BY <2>1, <2>2
<1> QED BY <1>3, <1>6, <1>7, <1>8

------------------------------------------------------------------------------
(* The inductive invariant. *)

IInv ==
  /\ TypeOK
  /\ CriticalSection
  /\ ListsAreSound
  /\ LinkedUntilTold
  /\ UnlinkedIsSignalled
  /\ NoLostWakeup

\* The record of an agent that is in no call.
LEMMA NoRecordType == NoRecord \in Records
<1>1. (CHOOSE x \in Addr : TRUE) \in Addr /\ (CHOOSE v \in Val : TRUE) \in Val
  BY FutexAssumption
<1> QED BY <1>1 DEF NoRecord, Records, Timeouts

\* The invariant holds before the first call.
LEMMA InitIInv == Init => IInv
<1> SUFFICES ASSUME Init PROVE IInv
  OBVIOUS
<1>1. TypeOK
  BY FutexAssumption, NoRecordType
  DEF Init, TypeOK, Waiters, Holding, Results, Outcomes, JobStates
<1>2. \A w, x : ~ Contains(<<>>, w) /\ IsInjective(<<>>)
  BY DEF Contains, IsInjective
<1>3. CriticalSection
  BY FutexAssumption DEF Init, CriticalSection, Holding
<1>4. ListsAreSound
  BY <1>2 DEF Init, ListsAreSound
<1>5. LinkedUntilTold /\ UnlinkedIsSignalled
  BY DEF Init, LinkedUntilTold, UnlinkedIsSignalled
<1>6. NoLostWakeup
  BY <1>1, <1>2 DEF Init, NoLostWakeup, Committed, Linked, TypeOK, Records, Waiters
<1> QED BY <1>1, <1>3, <1>4, <1>5, <1>6 DEF IInv

\* Every step preserves the types.
LEMMA TypeStep == TypeOK /\ ListsAreSound /\ [Next]_vars => TypeOK'
<1> SUFFICES ASSUME TypeOK, ListsAreSound, [Next]_vars PROVE TypeOK'
  OBVIOUS
<1> USE FutexAssumption, NoRecordType
<1> USE DEF TypeOK, Waiters, Outcomes
<1>0. \A a \in Agents : Discard(a) \in [Waiters -> Records]
  BY DEF Discard
<1>1. ASSUME NEW a \in Agents, Program(a) PROVE TypeOK'
  <2>1. CASE \E x \in Addr, v \in Val : Store(a, x, v)
    BY <2>1 DEF Store, StartOp, asyncVars
  <2>2. ASSUME NEW at \in {"load", "loadAsync"}, NEW x \in Addr, NEW v \in Val,
               NEW t \in Timeouts, Begin(a, at, x, v, t)
        PROVE  TypeOK'
    BY <2>2 DEF Begin, StartOp, Acquire, asyncVars, Records, Holding, Results
  <2>3. ASSUME NEW x \in Addr, NEW n \in Counts, BeginNotify(a, x, n) PROVE TypeOK'
    <3>1. rec' \in [Waiters -> Records]
      BY <2>3 DEF BeginNotify, Records
    <3> QED BY <2>3, <3>1 DEF BeginNotify, StartOp, Acquire, asyncVars, Holding
  <2>4. CASE DropJobs(a)
    BY <2>4 DEF DropJobs, StartOp, JobStates
  <2>5. ASSUME NEW x \in Addr, NEW v \in Val, NEW t \in {"none", "finite"},
               BeginWait(a, x, v, t)
        PROVE  TypeOK'
    <3>1. t \in Timeouts
      BY DEF Timeouts
    <3>2. Begin(a, "load", x, v, t)
      BY <2>5 DEF BeginWait
    <3> QED BY <2>2, <3>1, <3>2, Zenon
  <2>6. ASSUME NEW x \in Addr, NEW v \in Val, NEW t \in Timeouts,
               BeginWaitAsync(a, x, v, t)
        PROVE  TypeOK'
    <3>1. Begin(a, "loadAsync", x, v, t)
      BY <2>6 DEF BeginWaitAsync
    <3> QED BY <2>2, <3>1, Zenon
  <2> HIDE DEF TypeOK
  <2> QED BY <1>1, <2>1, <2>3, <2>4, <2>5, <2>6, Zenon DEF Program
<1>2. ASSUME NEW a \in Agents, Internal(a) PROVE TypeOK'
  <2>1. CASE Load(a)
    <3>1. rec' \in [Waiters -> Records]
      <4>1. rec' = Discard(a) \/ rec' = rec
        BY ONLY <2>1 DEF Load
      <4>2. rec \in [Waiters -> Records]
        OBVIOUS
      <4> QED BY ONLY <1>0, <4>1, <4>2, a \in Agents
    <3>2. pc' \in [Agents -> Holding \cup {"idle", "asleep", "awake"}]
      BY <2>1 DEF Load, Return, Holding
    <3>3. /\ lock' \in Agents \cup {NoAgent}
          /\ expired' \subseteq Waiters
          /\ result' \in [Agents -> Results]
      <4>1. \/ UNCHANGED <<lock, expired, result>>
            \/ \E r \in Results : Return(a, r)
        <5>1. \A r : r = "not-equal" => r \in Results
          BY ONLY TRUE DEF Results
        <5> QED BY ONLY <2>1, <5>1 DEF Load
      <4>2. CASE UNCHANGED <<lock, expired, result>>
        BY <4>2
      <4>3. ASSUME NEW r \in Results, Return(a, r)
            PROVE  /\ lock' \in Agents \cup {NoAgent}
                  /\ expired' \subseteq Waiters
                  /\ result' \in [Agents -> Results]
        <5>1. lock' = NoAgent /\ expired' = expired \ {a}
              /\ result' = [result EXCEPT ![a] = r]
          BY ONLY <4>3 DEF Return
        <5>2. expired \subseteq Waiters /\ result \in [Agents -> Results]
          OBVIOUS
        <5> QED BY ONLY <5>1, <5>2, r \in Results
      <4> QED BY ONLY <4>1, <4>2, <4>3
    <3>4. UNCHANGED <<mem, owes, waiters, signalled, count, popped, asyncVars, ops,
                      spurious>>
      BY ONLY <2>1 DEF Load
    <3> QED BY <3>1, <3>2, <3>3, <3>4 DEF asyncVars
  <2>2. CASE Push(a)
    BY <2>2, AppendProperties DEF Push, AddWaiter, asyncVars, Holding, Records
  <2>3. CASE CheckNotified(a)
    BY <2>3 DEF CheckNotified, Return, Discard, asyncVars, Holding, Results
  <2>4. CASE CheckTimedOut(a)
    <3> DEFINE y == rec[a].addr
    <3>1. y \in Addr /\ waiters[y] \in Seq(Waiters)
      BY DEF Records
    <3>2. Unlink(waiters[y], a) \in Seq(Waiters)
      BY <2>4, <3>1, UnlinkFacts DEF CheckTimedOut, Linked, ListsAreSound
    <3> QED BY <2>4, <3>1, <3>2 DEF CheckTimedOut, Return, Discard, asyncVars, Holding, Results
  <2>5. CASE Sleep(a)
    BY <2>5 DEF Sleep, asyncVars
  <2>6. CASE Wake(a)
    BY <2>6 DEF Wake, asyncVars
  <2>7. CASE Reacquire(a)
    BY <2>7 DEF Reacquire, Acquire, asyncVars, Holding
  <2>8. CASE LoadAsync(a)
    <3>1. rec' \in [Waiters -> Records]
      <4>1. rec' = Discard(a) \/ rec' = rec
        BY ONLY <2>8 DEF LoadAsync
      <4>2. rec \in [Waiters -> Records]
        OBVIOUS
      <4> QED BY ONLY <1>0, <4>1, <4>2, a \in Agents
    <3>2. pc' \in [Agents -> Holding \cup {"idle", "asleep", "awake"}]
      BY <2>8 DEF LoadAsync, Return, Holding
    <3>3. /\ lock' \in Agents \cup {NoAgent}
          /\ expired' \subseteq Waiters
          /\ result' \in [Agents -> Results]
      <4>1. \/ UNCHANGED <<lock, expired, result>>
            \/ \E r \in Results : Return(a, r)
        <5>1. \A r : r \in {"not-equal", "timed-out-at-once"} => r \in Results
          BY ONLY TRUE DEF Results
        <5> QED BY ONLY <2>8, <5>1 DEF LoadAsync
      <4>2. CASE UNCHANGED <<lock, expired, result>>
        BY <4>2
      <4>3. ASSUME NEW r \in Results, Return(a, r)
            PROVE  /\ lock' \in Agents \cup {NoAgent}
                  /\ expired' \subseteq Waiters
                  /\ result' \in [Agents -> Results]
        <5>1. lock' = NoAgent /\ expired' = expired \ {a}
              /\ result' = [result EXCEPT ![a] = r]
          BY ONLY <4>3 DEF Return
        <5>2. expired \subseteq Waiters /\ result \in [Agents -> Results]
          OBVIOUS
        <5> QED BY ONLY <5>1, <5>2, r \in Results
      <4> QED BY ONLY <4>1, <4>2, <4>3
    <3>4. UNCHANGED <<mem, owes, waiters, signalled, count, popped, asyncVars, ops,
                      spurious>>
      BY ONLY <2>8 DEF LoadAsync
    <3> QED BY <3>1, <3>2, <3>3, <3>4 DEF asyncVars
  <2>9. ASSUME NEW i \in Async, PushAsync(a, i) PROVE TypeOK'
    <3> DEFINE y == rec[a].addr
    <3>1. y \in Addr /\ waiters[y] \in Seq(Waiters) /\ Append(waiters[y], i) \in Seq(Waiters)
      BY AppendProperties DEF Records
    <3>2. waiters' \in [Addr -> Seq(Waiters)]
      BY <2>9, <3>1 DEF PushAsync, AddWaiter
    <3>3. rec' \in [Waiters -> Records]
      BY <2>9 DEF PushAsync, Discard
    <3> QED BY <2>9, <3>2, <3>3 DEF PushAsync, Return, Holding, Results, JobStates
  <2>10. CASE Pop(a)
    <3> DEFINE y == rec[a].addr
               h == Head(waiters[y])
    <3>1. y \in Addr /\ waiters[y] \in Seq(Waiters) /\ waiters[y] # <<>>
      BY <2>10 DEF Pop, Records
    <3>2. h \in Waiters /\ Tail(waiters[y]) \in Seq(Waiters)
      BY <3>1, HeadTailProperties
    <3>3. waiters' \in [Addr -> Seq(Waiters)]
      BY <2>10, <3>1, <3>2 DEF Pop
    <3>4. signalled' \subseteq Agents /\ chan' \in [Async -> {"none", "empty"} \cup Outcomes]
      BY <2>10, <3>2 DEF Pop
    <3> QED BY <2>10, <3>3, <3>4 DEF Pop
  <2>11. CASE EndNotify(a)
    BY <2>11 DEF EndNotify, Discard, asyncVars
  <2> QED BY <1>2, <2>1, <2>2, <2>3, <2>4, <2>5, <2>6, <2>7, <2>8, <2>9, <2>10, <2>11
        DEF Internal
<1>3. ASSUME NEW a \in Agents, NEW i \in Async, RunTimer(a, i) PROVE TypeOK'
  <2> DEFINE y == rec[i].addr
  <2>1. y \in Addr /\ waiters[y] \in Seq(Waiters)
    BY DEF Records
  <2>2. Linked(i) => Unlink(waiters[y], i) \in Seq(Waiters)
    BY <2>1, UnlinkFacts DEF Linked, ListsAreSound
  <2>3. waiters' \in [Addr -> Seq(Waiters)]
    <3>1. CASE Linked(i)
      <4>1. waiters' = [waiters EXCEPT ![y] = Unlink(waiters[y], i)]
        BY <1>3, <3>1 DEF RunTimer
      <4> QED BY <2>1, <2>2, <3>1, <4>1
    <3>2. CASE ~ Linked(i)
      BY <1>3, <3>2 DEF RunTimer
    <3> QED BY <3>1, <3>2
  <2>4. chan' \in [Async -> {"none", "empty"} \cup Outcomes]
    <3>1. chan' = [chan EXCEPT ![i] = "timed-out"] \/ chan' = chan
      BY ONLY <1>3 DEF RunTimer
    <3>2. chan \in [Async -> {"none", "empty"} \cup Outcomes]
      OBVIOUS
    <3>3. "timed-out" \in Outcomes
      BY DEF Outcomes
    <3> QED BY ONLY <3>1, <3>2, <3>3
  <2> QED BY <1>3, <2>3, <2>4 DEF RunTimer, JobStates
<1>4. ASSUME NEW a \in Agents, NEW i \in Async, RunJob(a, i) PROVE TypeOK'
  BY <1>4 DEF RunJob, JobStates
<1>5. ASSUME NEW a \in Agents, SpuriousWake(a) PROVE TypeOK'
  BY <1>5 DEF SpuriousWake, asyncVars
<1>6. ASSUME NEW w \in Waiters, Expire(w) PROVE TypeOK'
  BY <1>6 DEF Expire, asyncVars
<1>7. CASE UNCHANGED vars
  BY <1>7 DEF vars
<1> QED BY <1>1, <1>2, <1>3, <1>4, <1>5, <1>6, <1>7 DEF Next, Jobs

\* The part of the invariant that is about lists, threads and outcomes.
Rest ==
  /\ CriticalSection
  /\ ListsAreSound
  /\ LinkedUntilTold
  /\ UnlinkedIsSignalled
  /\ NoLostWakeup

\* Only waiters that wait are listed, and only under their own address.
LEMMA ListedFacts ==
  ASSUME TypeOK, ListsAreSound
  PROVE  /\ \A w \in Waiters : rec[w].addr \in Addr /\ rec[w].val \in Val
         /\ \A a \in Agents : pc[a] \notin Linkable =>
              \A x \in Addr : ~ Contains(waiters[x], a)
         /\ \A i \in Async : chan[i] # "empty" =>
              \A x \in Addr : ~ Contains(waiters[x], i)
         /\ \A x \in Addr, w \in Waiters : Contains(waiters[x], w) => x = rec[w].addr
  BY FutexAssumption DEF TypeOK, ListsAreSound, Records, Waiters

\* A step that leaves memory, records, lists and outcomes alone, and moves
\* threads only in and out of their sleep, preserves the invariant if it keeps
\* the mutex and the signals right.
LEMMA QuietStep ==
  ASSUME TypeOK, Rest,
         UNCHANGED <<mem, owes, waiters, rec, chan>>,
         \A b \in Agents : \/ pc'[b] = pc[b]
                           \/ pc[b] \in Linkable /\ pc'[b] \in Linkable,
         CriticalSection', UnlinkedIsSignalled'
  PROVE  Rest'
<1>1. ListsAreSound'
  BY DEF Rest, ListsAreSound
<1>2. LinkedUntilTold'
  BY DEF Rest, LinkedUntilTold, Linked
<1>3. NoLostWakeup'
  <2>1. \A w \in Waiters : Committed(w)' => Committed(w)
    BY DEF Committed, Linked, Linkable
  <2> QED BY <2>1 DEF Rest, NoLostWakeup
<1> QED BY <1>1, <1>2, <1>3 DEF Rest

\* A call of wait or waitAsync begins.
LEMMA BeginStep ==
  ASSUME TypeOK, Rest, NEW a \in Agents, NEW at \in {"load", "loadAsync"},
         NEW x \in Addr, NEW v \in Val, NEW t \in Timeouts, Begin(a, at, x, v, t)
  PROVE  Rest'
<1> USE FutexAssumption DEF Rest, Waiters
<1>1. /\ pc[a] = "idle"
      /\ UNCHANGED <<mem, owes, waiters, signalled, chan>>
      /\ lock = NoAgent /\ lock' = a
      /\ pc' = [pc EXCEPT ![a] = at]
      /\ \A w \in Waiters : w # a => rec'[w] = rec[w]
  BY DEF Begin, StartOp, Acquire, asyncVars, TypeOK
<1>2. \A y \in Addr : ~ Contains(waiters[y], a)
  BY <1>1, ListedFacts DEF Linkable
<1>3. CriticalSection'
  BY <1>1 DEF CriticalSection, TypeOK, Holding
<1>4. ListsAreSound'
  BY <1>1, <1>2 DEF ListsAreSound, TypeOK, Linkable
<1>5. \A w \in Waiters : w # a => Linked(w)' = Linked(w)
  BY <1>1 DEF Linked
<1>6. LinkedUntilTold'
  BY <1>1, <1>5 DEF LinkedUntilTold
<1>7. UnlinkedIsSignalled'
  BY <1>1, <1>5 DEF UnlinkedIsSignalled, TypeOK
<1>8. rec'[a].addr = x
  BY DEF Begin, TypeOK
<1>9. NoLostWakeup'
  <2>1. ~ Committed(a)'
    BY <1>1, <1>2, <1>8 DEF Committed, Linked, TypeOK
  <2>2. \A w \in Waiters : w # a => (Committed(w)' => Committed(w))
    BY <1>1, <1>5 DEF Committed, TypeOK
  <2> QED BY <1>1, <2>1, <2>2 DEF NoLostWakeup
<1> QED BY <1>3, <1>4, <1>6, <1>7, <1>9

\* Leaving the mutex and forgetting the record of an agent that is not listed.
LEMMA ReturnStep ==
  ASSUME TypeOK, Rest, NEW a \in Agents,
         pc[a] \in Holding, ~ Linked(a),
         lock' = NoAgent, pc' = [pc EXCEPT ![a] = "idle"], rec' = Discard(a),
         UNCHANGED <<mem, waiters, signalled, chan>>,
         \A b \in Agents, y \in Addr :
           y \in owes[b] /\ y \notin owes'[b] => waiters[y] = <<>>
  PROVE  Rest'
<1> USE FutexAssumption DEF Rest, Waiters
<1>1. \A w \in Waiters : w # a => rec'[w] = rec[w]
  BY DEF Discard, TypeOK
<1>2. \A y \in Addr : ~ Contains(waiters[y], a)
  BY ListedFacts DEF Linked
<1>3. CriticalSection'
  BY DEF CriticalSection, TypeOK, Holding
<1>4. ListsAreSound'
  BY <1>1, <1>2 DEF ListsAreSound, TypeOK, Linkable
<1>5. \A w \in Waiters : w # a => Linked(w)' = Linked(w)
  BY <1>1 DEF Linked
<1>6. LinkedUntilTold'
  BY <1>5 DEF LinkedUntilTold
<1>7. UnlinkedIsSignalled'
  BY <1>5 DEF UnlinkedIsSignalled, TypeOK
<1>8. rec'[a].addr \in Addr
  BY NoRecordType DEF Discard, TypeOK, Records
<1>9. NoLostWakeup'
  <2>1. ~ Committed(a)'
    BY <1>2, <1>8 DEF Committed, Linked, TypeOK
  <2>2. \A w \in Waiters : w # a => (Committed(w)' => Committed(w))
    BY <1>5 DEF Committed, TypeOK
  <2>3. ASSUME NEW w \in Waiters, Committed(w)', (mem[rec[w].addr] # rec[w].val)'
        PROVE  \E b \in Agents : rec[w].addr \in owes'[b]
    <3>1. w # a /\ Committed(w) /\ rec'[w] = rec[w]
      BY <1>1, <2>1, <2>2, <2>3
    <3>2. PICK b \in Agents : rec[w].addr \in owes[b]
      BY <2>3, <3>1 DEF NoLostWakeup
    <3>3. waiters[rec[w].addr] # <<>>
      <4>1. ~ (w \in Agents /\ pc[w] \in {"push", "pushAsync"})
        BY <3>1 DEF CriticalSection, Holding
      <4>2. Contains(waiters[rec[w].addr], w)
        BY <3>1, <4>1 DEF Committed, Linked
      <4> QED BY <4>2 DEF Contains
    <3>4. rec[w].addr \in Addr
      BY ListedFacts
    <3> QED BY <3>2, <3>3, <3>4
  <2> QED BY <1>1, <2>1, <2>3 DEF NoLostWakeup
<1> QED BY <1>3, <1>4, <1>6, <1>7, <1>9

\* Taking waiter u out of the list of y: it is told its outcome if it is
\* asynchronous, and signalled or awake if it is synchronous.
LEMMA RemoveStep ==
  ASSUME TypeOK, Rest, NEW y \in Addr, NEW u \in Waiters,
         UNCHANGED <<mem, owes, lock, pc, rec>>,
         \A x \in Addr : x # y => waiters'[x] = waiters[x],
         IsInjective(waiters'[y]),
         Contains(waiters[y], u),
         \A w : Contains(waiters'[y], w) <=> Contains(waiters[y], w) /\ w # u,
         \A i \in Async : i # u => chan'[i] = chan[i],
         u \in Async => chan'[u] \in Outcomes,
         signalled \subseteq signalled',
         u \in Agents /\ pc[u] = "asleep" => u \in signalled'
  PROVE  Rest'
<1> USE FutexAssumption DEF Rest, Waiters
<1>1. CriticalSection'
  BY DEF CriticalSection
<1>2. ListsAreSound'
  BY DEF ListsAreSound
<1>3. ASSUME NEW w \in Waiters, w # u
      PROVE  Linked(w)' <=> Linked(w)
  <2>1. rec'[w].addr = rec[w].addr /\ rec[w].addr \in Addr
    BY ListedFacts
  <2>2. CASE rec[w].addr = y
    BY <1>3, <2>1, <2>2 DEF Linked
  <2>3. CASE rec[w].addr # y
    BY <2>1, <2>3 DEF Linked
  <2> QED BY <2>2, <2>3
<1>4. LinkedUntilTold'
  BY <1>3 DEF LinkedUntilTold, Outcomes
<1>5. UnlinkedIsSignalled'
  BY <1>3 DEF UnlinkedIsSignalled
<1>6. NoLostWakeup'
  <2>1. \A w \in Waiters : Committed(w)' => Committed(w)
    <3>1. Linked(u)
      BY ListedFacts DEF Linked
    <3> QED BY <1>3, <3>1 DEF Committed
  <2> QED BY <2>1 DEF NoLostWakeup
<1> QED BY <1>1, <1>2, <1>4, <1>5, <1>6

\* The rest of the invariant under each action.
LEMMA ProgramStep ==
  ASSUME TypeOK, Rest, NEW a \in Agents, Program(a)
  PROVE  Rest'
<1> USE FutexAssumption DEF Waiters
<1>1. ASSUME NEW x \in Addr, NEW v \in Val, Store(a, x, v) PROVE Rest'
  <2>1. /\ UNCHANGED <<lock, waiters, pc, rec, signalled, chan>>
        /\ mem' = [mem EXCEPT ![x] = v]
        /\ \A b \in Agents : owes[b] \subseteq owes'[b]
        /\ x \in owes'[a]
    BY <1>1 DEF Store, asyncVars, TypeOK
  <2>2. NoLostWakeup'
    <3>1. \A w \in Waiters : Committed(w)' => Committed(w)
      BY <2>1 DEF Committed, Linked
    <3>2. \A w \in Waiters : rec[w].addr # x => mem'[rec[w].addr] = mem[rec[w].addr]
      BY <2>1, ListedFacts DEF TypeOK, Rest
    <3> QED BY <2>1, <3>1, <3>2 DEF NoLostWakeup, Rest
  <2> QED BY <2>1, <2>2
          DEF Rest, CriticalSection, ListsAreSound, LinkedUntilTold,
              UnlinkedIsSignalled, Linked
<1>2. ASSUME NEW x \in Addr, NEW v \in Val, NEW t \in {"none", "finite"},
             BeginWait(a, x, v, t)
      PROVE  Rest'
  <2>1. Begin(a, "load", x, v, t) /\ t \in Timeouts
    BY <1>2 DEF BeginWait, Timeouts
  <2> QED BY <2>1, BeginStep
<1>3. ASSUME NEW x \in Addr, NEW v \in Val, NEW t \in Timeouts,
             BeginWaitAsync(a, x, v, t)
      PROVE  Rest'
  <2>1. Begin(a, "loadAsync", x, v, t)
    BY <1>3 DEF BeginWaitAsync
  <2> QED BY <2>1, BeginStep
<1>4. ASSUME NEW x \in Addr, NEW n \in Counts, BeginNotify(a, x, n) PROVE Rest'
  <2>1. /\ pc[a] = "idle"
        /\ lock = NoAgent /\ lock' = a
        /\ pc' = [pc EXCEPT ![a] = "pop"]
        /\ UNCHANGED <<mem, owes, waiters, signalled, chan>>
        /\ \A w \in Waiters : w # a => rec'[w] = rec[w]
        /\ rec'[a].addr = x
    BY <1>4 DEF BeginNotify, StartOp, Acquire, asyncVars, TypeOK, Records
  <2>2. \A y \in Addr : ~ Contains(waiters[y], a)
    BY <2>1, ListedFacts DEF Linkable, Rest
  <2>3. CriticalSection'
    BY <2>1 DEF CriticalSection, Rest, TypeOK, Holding
  <2>4. ListsAreSound'
    BY <2>1, <2>2 DEF ListsAreSound, Rest, TypeOK, Linkable
  <2>5. \A w \in Waiters : w # a => Linked(w)' = Linked(w)
    BY <2>1 DEF Linked
  <2>6. LinkedUntilTold' /\ UnlinkedIsSignalled'
    BY <2>1, <2>5 DEF LinkedUntilTold, UnlinkedIsSignalled, Rest, TypeOK
  <2>7. NoLostWakeup'
    <3>1. ~ Committed(a)'
      BY <2>1, <2>2 DEF Committed, Linked, TypeOK
    <3>2. \A w \in Waiters : w # a => (Committed(w)' => Committed(w))
      BY <2>1, <2>5 DEF Committed, TypeOK
    <3> QED BY <2>1, <3>1, <3>2 DEF NoLostWakeup, Rest
  <2> QED BY <2>3, <2>4, <2>6, <2>7 DEF Rest
<1>5. CASE DropJobs(a)
  BY <1>5 DEF DropJobs, Rest, CriticalSection, ListsAreSound, LinkedUntilTold,
              UnlinkedIsSignalled, NoLostWakeup, Committed, Linked
<1> QED BY <1>1, <1>2, <1>3, <1>4, <1>5, Zenon DEF Program

\* The steps of Atomics.wait.
LEMMA WaitStep ==
  ASSUME TypeOK, Rest, NEW a \in Agents,
         \/ Load(a) \/ Push(a) \/ CheckNotified(a) \/ CheckTimedOut(a) \/ Sleep(a)
         \/ Wake(a) \/ SpuriousWake(a) \/ Reacquire(a)
  PROVE  Rest'
<1> USE FutexAssumption DEF Waiters
<1>1. CASE Load(a)
  <2>1. CASE mem[rec[a].addr] # rec[a].val
    <3>1. ~ Linked(a) /\ pc[a] \in Holding
      BY <1>1, ListedFacts DEF Load, Linked, Linkable, Holding, Rest
    <3> QED BY <1>1, <2>1, <3>1, ReturnStep DEF Load, Return, asyncVars
  <2>2. CASE mem[rec[a].addr] = rec[a].val
    <3>1. /\ pc[a] = "load"
          /\ pc' = [pc EXCEPT ![a] = "push"]
          /\ UNCHANGED <<mem, owes, lock, waiters, rec, signalled, chan>>
      BY <1>1, <2>2 DEF Load, asyncVars
    <3>2. CriticalSection'
      BY <3>1 DEF Rest, CriticalSection, TypeOK, Holding
    <3>3. ListsAreSound'
      BY <3>1 DEF Rest, ListsAreSound, TypeOK, Linkable
    <3>4. LinkedUntilTold' /\ UnlinkedIsSignalled'
      BY <3>1 DEF Rest, LinkedUntilTold, UnlinkedIsSignalled, TypeOK, Linked
    <3>5. NoLostWakeup'
      <4>1. \A w \in Waiters : w # a => (Committed(w)' => Committed(w))
        BY <3>1 DEF Committed, Linked, TypeOK
      <4> QED BY <2>2, <3>1, <4>1 DEF Rest, NoLostWakeup
    <3> QED BY <3>2, <3>3, <3>4, <3>5 DEF Rest
  <2> QED BY <2>1, <2>2
<1>2. CASE Push(a)
  <2> DEFINE y == rec[a].addr
  <2>1. /\ pc[a] = "push"
        /\ pc' = [pc EXCEPT ![a] = "check"]
        /\ UNCHANGED <<mem, owes, lock, rec, signalled, chan>>
        /\ y \in Addr
        /\ waiters' = [waiters EXCEPT ![y] = Append(waiters[y], a)]
    BY <1>2, ListedFacts DEF Push, AddWaiter, asyncVars, Rest
  <2>2. ~ Contains(waiters[y], a) /\ IsInjective(waiters[y]) /\ waiters[y] \in Seq(Waiters)
    BY <2>1, ListedFacts DEF Linkable, Rest, ListsAreSound, TypeOK
  <2>3. /\ IsInjective(waiters'[y])
        /\ \A w : Contains(waiters'[y], w) <=> Contains(waiters[y], w) \/ w = a
        /\ \A x \in Addr : x # y => waiters'[x] = waiters[x]
    <3>1. waiters'[y] = Append(waiters[y], a)
      BY <2>1 DEF TypeOK
    <3>2. \A x \in Addr : x # y => waiters'[x] = waiters[x]
      BY <2>1 DEF TypeOK
    <3> QED BY <2>2, <3>1, <3>2, AppendFacts
  <2> HIDE DEF y
  <2>4. CriticalSection'
    BY <2>1 DEF Rest, CriticalSection, TypeOK, Holding
  <2>5. ListsAreSound'
    BY <2>1, <2>3 DEF Rest, ListsAreSound, TypeOK, Linkable, y
  <2>6. \A w \in Waiters : Linked(w)' <=> (Linked(w) \/ w = a)
    BY <2>1, <2>3, ListedFacts DEF Linked, Rest, y
  <2>7. LinkedUntilTold' /\ UnlinkedIsSignalled'
    BY <2>1, <2>6 DEF Rest, LinkedUntilTold, UnlinkedIsSignalled, TypeOK
  <2>8. NoLostWakeup'
    <3>1. \A w \in Waiters : Committed(w)' => Committed(w)
      BY <2>1, <2>6 DEF Committed, TypeOK
    <3> QED BY <2>1, <3>1 DEF Rest, NoLostWakeup
  <2> QED BY <2>4, <2>5, <2>7, <2>8 DEF Rest
<1>3. CASE CheckNotified(a)
  BY <1>3, ReturnStep DEF CheckNotified, Return, Holding, asyncVars
<1>4. CASE CheckTimedOut(a)
  <2> DEFINE y == rec[a].addr
  <2>1. /\ pc[a] = "check" /\ lock = a /\ lock' = NoAgent
        /\ pc' = [pc EXCEPT ![a] = "idle"]
        /\ UNCHANGED <<mem, owes, signalled, chan>>
        /\ rec' = Discard(a)
        /\ y \in Addr
        /\ waiters' = [waiters EXCEPT ![y] = Unlink(waiters[y], a)]
    BY <1>4, ListedFacts
    DEF CheckTimedOut, Return, asyncVars, Rest, CriticalSection, Holding
  <2>2. Contains(waiters[y], a) /\ IsInjective(waiters[y]) /\ waiters[y] \in Seq(Waiters)
    BY <1>4, <2>1 DEF CheckTimedOut, Linked, Rest, ListsAreSound, TypeOK
  <2>3. /\ IsInjective(waiters'[y])
        /\ \A w : Contains(waiters'[y], w) <=> Contains(waiters[y], w) /\ w # a
        /\ \A x \in Addr : x # y => waiters'[x] = waiters[x]
    <3>1. waiters'[y] = Unlink(waiters[y], a)
      BY <2>1 DEF TypeOK
    <3>2. \A x \in Addr : x # y => waiters'[x] = waiters[x]
      BY <2>1 DEF TypeOK
    <3> QED BY <2>2, <3>1, <3>2, UnlinkFacts
  <2>4. /\ \A w \in Waiters : w # a => rec'[w] = rec[w]
        /\ rec'[a].addr \in Addr
    BY <2>1, NoRecordType DEF Discard, TypeOK, Records
  <2>5. \A x \in Addr : ~ Contains(waiters'[x], a)
    BY <2>3, ListedFacts DEF Rest
  <2> HIDE DEF y
  <2>6. CriticalSection'
    BY <2>1 DEF Rest, CriticalSection, TypeOK, Holding
  <2>7. ListsAreSound'
    BY <2>1, <2>3, <2>4, <2>5 DEF Rest, ListsAreSound, TypeOK, Linkable
  <2>8. ASSUME NEW w \in Waiters, w # a PROVE Linked(w)' <=> Linked(w)
    <3>1. rec'[w] = rec[w] /\ rec[w].addr \in Addr
      BY <2>4, <2>8, ListedFacts DEF Rest
    <3> QED BY <2>3, <2>8, <3>1 DEF Linked
  <2>9. LinkedUntilTold' /\ UnlinkedIsSignalled'
    BY <2>1, <2>8 DEF Rest, LinkedUntilTold, UnlinkedIsSignalled, TypeOK
  <2>10. NoLostWakeup'
    <3>1. ~ Committed(a)'
      BY <2>1, <2>4, <2>5 DEF Committed, Linked, TypeOK
    <3>2. \A w \in Waiters : w # a => (Committed(w)' => Committed(w))
      BY <2>1, <2>8 DEF Committed, TypeOK
    <3> QED BY <2>1, <2>4, <3>1, <3>2 DEF Rest, NoLostWakeup
  <2> QED BY <2>6, <2>7, <2>9, <2>10 DEF Rest
<1>5. CASE Sleep(a)
  <2>1. CriticalSection'
    BY <1>5 DEF Sleep, Rest, CriticalSection, TypeOK, Holding
  <2>2. UnlinkedIsSignalled'
    BY <1>5 DEF Sleep, Rest, UnlinkedIsSignalled, TypeOK, Linked
  <2> QED BY <1>5, <2>1, <2>2, QuietStep DEF Sleep, TypeOK, Linkable, asyncVars
<1>6. CASE Wake(a) \/ SpuriousWake(a)
  <2>1. /\ pc[a] = "asleep"
        /\ pc' = [pc EXCEPT ![a] = "awake"]
        /\ signalled' = signalled \ {a}
        /\ UNCHANGED <<mem, owes, lock, waiters, rec, chan>>
    BY <1>6 DEF Wake, SpuriousWake, asyncVars
  <2>2. CriticalSection'
    BY <2>1 DEF Rest, CriticalSection, TypeOK, Holding
  <2>3. UnlinkedIsSignalled'
    BY <2>1 DEF Rest, UnlinkedIsSignalled, TypeOK, Linked
  <2> QED BY <2>1, <2>2, <2>3, QuietStep DEF TypeOK, Linkable
<1>7. CASE Reacquire(a)
  <2>1. CriticalSection'
    BY <1>7 DEF Reacquire, Acquire, Rest, CriticalSection, TypeOK, Holding
  <2>2. UnlinkedIsSignalled'
    BY <1>7 DEF Reacquire, Rest, UnlinkedIsSignalled, TypeOK, Linked
  <2> QED BY <1>7, <2>1, <2>2, QuietStep DEF Reacquire, TypeOK, Linkable, asyncVars
<1> QED BY <1>1, <1>2, <1>3, <1>4, <1>5, <1>6, <1>7, Zenon

\* The steps of Atomics.waitAsync, its timers and its jobs.
LEMMA AsyncStep ==
  ASSUME TypeOK, Rest, NEW a \in Agents,
         LoadAsync(a) \/ \E i \in Async : PushAsync(a, i) \/ RunTimer(a, i) \/ RunJob(a, i)
  PROVE  Rest'
<1> USE FutexAssumption DEF Waiters
<1>1. CASE LoadAsync(a)
  <2>1. CASE lock' = NoAgent /\ pc' = [pc EXCEPT ![a] = "idle"] /\ rec' = Discard(a)
    <3>1. ~ Linked(a) /\ pc[a] \in Holding
      BY <1>1, ListedFacts DEF LoadAsync, Linked, Linkable, Holding, Rest
    <3> QED BY <1>1, <2>1, <3>1, ReturnStep DEF LoadAsync, asyncVars
  <2>2. CASE /\ mem[rec[a].addr] = rec[a].val
             /\ pc' = [pc EXCEPT ![a] = "pushAsync"]
             /\ UNCHANGED <<lock, rec>>
    <3>1. pc[a] = "loadAsync" /\ UNCHANGED <<mem, owes, waiters, signalled, chan>>
      BY <1>1 DEF LoadAsync, asyncVars
    <3>2. CriticalSection'
      BY <2>2, <3>1 DEF Rest, CriticalSection, TypeOK, Holding
    <3>3. ListsAreSound'
      BY <2>2, <3>1 DEF Rest, ListsAreSound, TypeOK, Linkable
    <3>4. LinkedUntilTold' /\ UnlinkedIsSignalled'
      BY <2>2, <3>1 DEF Rest, LinkedUntilTold, UnlinkedIsSignalled, TypeOK, Linked
    <3>5. NoLostWakeup'
      <4>1. \A w \in Waiters : w # a => (Committed(w)' => Committed(w))
        BY <2>2, <3>1 DEF Committed, Linked, TypeOK
      <4> QED BY <2>2, <3>1, <4>1 DEF Rest, NoLostWakeup
    <3> QED BY <3>2, <3>3, <3>4, <3>5 DEF Rest
  <2> QED BY <1>1, <2>1, <2>2 DEF LoadAsync, Return
<1>2. ASSUME NEW i \in Async, PushAsync(a, i) PROVE Rest'
  <2> DEFINE y == rec[a].addr
  <2>1. /\ pc[a] = "pushAsync" /\ lock = a /\ lock' = NoAgent
        /\ pc' = [pc EXCEPT ![a] = "idle"]
        /\ UNCHANGED <<mem, owes, signalled>>
        /\ y \in Addr
        /\ chan[i] = "none" /\ chan' = [chan EXCEPT ![i] = "empty"]
        /\ waiters' = [waiters EXCEPT ![y] = Append(waiters[y], i)]
        /\ i # a
    BY <1>2, ListedFacts
    DEF PushAsync, AddWaiter, Return, Rest, CriticalSection, Holding
  <2>2. /\ ~ Contains(waiters[y], i) /\ IsInjective(waiters[y])
        /\ waiters[y] \in Seq(Waiters)
    BY <2>1, ListedFacts DEF Rest, ListsAreSound, TypeOK
  <2>3. /\ IsInjective(waiters'[y])
        /\ \A w : Contains(waiters'[y], w) <=> Contains(waiters[y], w) \/ w = i
        /\ \A x \in Addr : x # y => waiters'[x] = waiters[x]
    <3>1. waiters'[y] = Append(waiters[y], i)
      BY <2>1 DEF TypeOK
    <3>2. \A x \in Addr : x # y => waiters'[x] = waiters[x]
      BY <2>1 DEF TypeOK
    <3> QED BY <2>2, <3>1, <3>2, AppendFacts
  <2>4. /\ \A w \in Waiters : w # a /\ w # i => rec'[w] = rec[w]
        /\ rec'[a].addr \in Addr
        /\ rec'[i] = rec[a]
    BY <1>2, <2>1, NoRecordType DEF PushAsync, Discard, TypeOK, Records
  <2>5. \A x \in Addr : ~ Contains(waiters[x], a) /\ ~ Contains(waiters[x], i)
    BY <2>1, ListedFacts DEF Linkable, Rest
  <2>6. \A x \in Addr : ~ Contains(waiters'[x], a)
    BY <2>1, <2>3, <2>5
  <2>7. Contains(waiters'[y], i) /\ rec'[i].addr = y /\ rec'[i].val = rec[a].val
    BY <2>3, <2>4
  <2> HIDE DEF y
  <2>8. CriticalSection'
    BY <2>1 DEF Rest, CriticalSection, TypeOK, Holding
  <2>9. ListsAreSound'
    BY <2>1, <2>3, <2>4, <2>5, <2>6, <2>7 DEF Rest, ListsAreSound, TypeOK, Linkable
  <2>10. ASSUME NEW w \in Waiters, w # a, w # i PROVE Linked(w)' <=> Linked(w)
    <3>1. rec'[w] = rec[w] /\ rec[w].addr \in Addr
      BY <2>4, <2>10, ListedFacts DEF Rest
    <3> QED BY <2>3, <2>10, <3>1 DEF Linked
  <2>11. Linked(i)'
    BY <2>7 DEF Linked
  <2>12. LinkedUntilTold' /\ UnlinkedIsSignalled'
    BY <2>1, <2>10, <2>11 DEF Rest, LinkedUntilTold, UnlinkedIsSignalled, TypeOK
  <2>13. NoLostWakeup'
    <3>1. ~ Committed(a)'
      BY <2>1, <2>4, <2>6 DEF Committed, Linked, TypeOK
    <3>2. \A w \in Waiters : w # a /\ w # i => (Committed(w)' => Committed(w))
      BY <2>1, <2>10 DEF Committed, TypeOK
    <3>3. mem[y] # rec[a].val => \E b \in Agents : y \in owes[b]
      BY <2>1 DEF Rest, NoLostWakeup, Committed, y
    <3> QED BY <2>1, <2>4, <2>7, <3>1, <3>2, <3>3 DEF Rest, NoLostWakeup
  <2> QED BY <2>8, <2>9, <2>12, <2>13 DEF Rest
<1>3. ASSUME NEW i \in Async, RunTimer(a, i) PROVE Rest'
  <2>1. CASE Linked(i)
    <3> DEFINE y == rec[i].addr
    <3>1. /\ UNCHANGED <<mem, owes, lock, pc, rec, signalled>>
          /\ waiters' = [waiters EXCEPT ![y] = Unlink(waiters[y], i)]
          /\ chan' = [chan EXCEPT ![i] = "timed-out"]
          /\ y \in Addr
          /\ i \notin Agents
      BY <1>3, <2>1, ListedFacts DEF RunTimer, Rest
    <3>2. Contains(waiters[y], i) /\ IsInjective(waiters[y]) /\ waiters[y] \in Seq(Waiters)
      BY <2>1, <3>1 DEF Linked, Rest, ListsAreSound, TypeOK
    <3>3. /\ IsInjective(waiters'[y])
          /\ \A w : Contains(waiters'[y], w) <=> Contains(waiters[y], w) /\ w # i
          /\ \A x \in Addr : x # y => waiters'[x] = waiters[x]
      <4>1. waiters'[y] = Unlink(waiters[y], i)
        BY <3>1 DEF TypeOK
      <4>2. \A x \in Addr : x # y => waiters'[x] = waiters[x]
        BY <3>1 DEF TypeOK
      <4> QED BY <3>2, <4>1, <4>2, UnlinkFacts
    <3>4. /\ \A j \in Async : j # i => chan'[j] = chan[j]
          /\ chan'[i] \in Outcomes
      BY <3>1 DEF TypeOK, Outcomes
    <3> HIDE DEF y
    <3> QED BY <3>1, <3>2, <3>3, <3>4, RemoveStep
  <2>2. CASE ~ Linked(i)
    BY <1>3, <2>2 DEF RunTimer, Rest, CriticalSection, ListsAreSound, LinkedUntilTold,
                      UnlinkedIsSignalled, NoLostWakeup, Committed, Linked
  <2> QED BY <2>1, <2>2
<1>4. ASSUME NEW i \in Async, RunJob(a, i) PROVE Rest'
  BY <1>4 DEF RunJob, Rest, CriticalSection, ListsAreSound, LinkedUntilTold,
              UnlinkedIsSignalled, NoLostWakeup, Committed, Linked
<1> QED BY <1>1, <1>2, <1>3, <1>4, Zenon

\* The steps of Atomics.notify.
LEMMA NotifyStep ==
  ASSUME TypeOK, Rest, NEW a \in Agents, Pop(a) \/ EndNotify(a)
  PROVE  Rest'
<1> USE FutexAssumption DEF Waiters
<1>1. CASE Pop(a)
  <2> DEFINE y == rec[a].addr
             u == Head(waiters[y])
  <2>1. /\ UNCHANGED <<mem, owes, lock, pc, rec>>
        /\ waiters' = [waiters EXCEPT ![y] = Tail(waiters[y])]
        /\ waiters[y] # <<>>
        /\ y \in Addr
    BY <1>1, ListedFacts DEF Pop, Rest
  <2>2. IsInjective(waiters[y]) /\ waiters[y] \in Seq(Waiters)
    BY <2>1 DEF Rest, ListsAreSound, TypeOK
  <2>3. /\ IsInjective(waiters'[y])
        /\ \A w : Contains(waiters'[y], w) <=> Contains(waiters[y], w) /\ w # u
        /\ \A x \in Addr : x # y => waiters'[x] = waiters[x]
        /\ u \in Waiters
        /\ Contains(waiters[y], u)
    <3>1. waiters'[y] = Tail(waiters[y])
      BY <2>1 DEF TypeOK
    <3>2. \A x \in Addr : x # y => waiters'[x] = waiters[x]
      BY <2>1 DEF TypeOK
    <3> QED BY <2>1, <2>2, <3>1, <3>2, TailFacts
  <2>4. /\ \A j \in Async : j # u => chan'[j] = chan[j]
        /\ u \in Async => chan'[u] \in Outcomes
        /\ signalled \subseteq signalled'
        /\ u \in Agents /\ pc[u] = "asleep" => u \in signalled'
    BY <1>1, <2>3 DEF Pop, TypeOK, Outcomes
  <2> HIDE DEF y, u
  <2> QED BY <2>1, <2>3, <2>4, RemoveStep
<1>2. CASE EndNotify(a)
  <2>1. ~ Linked(a) /\ pc[a] \in Holding
    BY <1>2, ListedFacts DEF EndNotify, Linked, Linkable, Holding, Rest
  <2>2. \A b \in Agents, x \in Addr :
          x \in owes[b] /\ x \notin owes'[b] => waiters[x] = <<>>
    BY <1>2 DEF EndNotify, TypeOK
  <2> QED BY <1>2, <2>1, <2>2, ReturnStep DEF EndNotify, asyncVars
<1> QED BY <1>1, <1>2

------------------------------------------------------------------------------
\* Every step preserves the invariant.
LEMMA Inductive == IInv /\ [Next]_vars => IInv'
<1> SUFFICES ASSUME TypeOK, Rest, [Next]_vars PROVE TypeOK' /\ Rest'
  BY DEF IInv, Rest
<1>1. TypeOK'
  BY TypeStep DEF Rest
<1>2. ASSUME NEW a \in Agents, Program(a) PROVE Rest'
  BY <1>2, ProgramStep
<1>3. ASSUME NEW a \in Agents, Internal(a) PROVE Rest'
  BY <1>3, WaitStep, AsyncStep, NotifyStep DEF Internal
<1>4. ASSUME NEW a \in Agents, Jobs(a) PROVE Rest'
  BY <1>4, AsyncStep DEF Jobs
<1>5. ASSUME NEW a \in Agents, SpuriousWake(a) PROVE Rest'
  BY <1>5, WaitStep
<1>6. ASSUME NEW w \in Waiters, Expire(w) PROVE Rest'
  BY <1>6 DEF Expire, Rest, CriticalSection, ListsAreSound, LinkedUntilTold,
              UnlinkedIsSignalled, NoLostWakeup, Committed, Linked, asyncVars
<1>7. ASSUME UNCHANGED vars PROVE Rest'
  BY <1>7 DEF vars, asyncVars, Rest, CriticalSection, ListsAreSound, LinkedUntilTold,
              UnlinkedIsSignalled, NoLostWakeup, Committed, Linked
<1>8. Rest'
  <2> HIDE DEF Rest
  <2> QED BY <1>2, <1>3, <1>4, <1>5, <1>6, <1>7, Zenon DEF Next
<1> QED BY <1>1, <1>8

\* The whole invariant holds of every execution of futex.rs.
THEOREM FutexInvariant == Spec => []IInv
<1> QED BY InitIInv, Inductive, PTL DEF Spec

\* Every variable keeps the values the code's types give it.
THEOREM FutexTypes == Spec => []TypeOK
<1>1. IInv => TypeOK
  BY DEF IInv
<1> QED BY <1>1, FutexInvariant, PTL

\* No wait or waitAsync call misses the notify that follows a store.
THEOREM NoWakeupIsLost == Spec => []NoLostWakeup
<1>1. IInv => NoLostWakeup
  BY DEF IInv
<1> QED BY <1>1, FutexInvariant, PTL

\* The raw pointers in the lists are valid: the safety contracts of
\* add_waiter, add_async_waiter and remove_waiter hold at every use.
THEOREM ListsAreAlwaysSound == Spec => []ListsAreSound
<1>1. IInv => ListsAreSound
  BY DEF IInv
<1> QED BY <1>1, FutexInvariant, PTL

\* The critical section has one agent in it at a time, an asynchronous waiter
\* is listed until it is told, an unlisted sleeper has been signalled.
THEOREM SleepersAndOutcomes ==
  Spec => [](CriticalSection /\ LinkedUntilTold /\ UnlinkedIsSignalled)
<1>1. IInv => CriticalSection /\ LinkedUntilTold /\ UnlinkedIsSignalled
  BY DEF IInv
<1> QED BY <1>1, FutexInvariant, PTL

\* A promise is settled once, with what its channel delivered: neither notify
\* nor the timeout job tells a waiter that has been told already.
THEOREM OutcomesAreFinal == Spec => OutcomeIsFinal
<1> DEFINE Final(i) == /\ chan[i] \in Outcomes => chan'[i] = chan[i]
                       /\ promise'[i] # promise[i] => promise'[i] \in {"pending", chan[i]}
<1>1. ASSUME TypeOK, ListsAreSound, Next, NEW i \in Async PROVE Final(i)
  <2> USE FutexAssumption DEF Outcomes
  <2>1. CASE UNCHANGED <<chan, promise>>
    BY <2>1
  <2>2. ASSUME NEW a \in Agents, NEW j \in Async, PushAsync(a, j) PROVE Final(i)
    BY <1>1, <2>2 DEF PushAsync, TypeOK
  <2>3. ASSUME NEW a \in Agents, NEW j \in Async, RunTimer(a, j) PROVE Final(i)
    <3>1. Linked(j) => chan[j] = "empty"
      BY <1>1, ListedFacts DEF Linked, Waiters
    <3> QED BY <1>1, <2>3, <3>1 DEF RunTimer, TypeOK
  <2>4. ASSUME NEW a \in Agents, NEW j \in Async, RunJob(a, j) PROVE Final(i)
    BY <1>1, <2>4 DEF RunJob, TypeOK
  <2>5. ASSUME NEW a \in Agents, Pop(a) PROVE Final(i)
    <3> DEFINE y == rec[a].addr
               u == Head(waiters[y])
    <3>1. y \in Addr /\ waiters[y] \in Seq(Waiters) /\ waiters[y] # <<>>
          /\ IsInjective(waiters[y])
      BY <1>1, <2>5, ListedFacts DEF Pop, TypeOK, ListsAreSound, Waiters
    <3>2. Contains(waiters[y], u)
      BY <3>1, TailFacts
    <3>3. u \in Async => chan[u] = "empty"
      BY <1>1, <3>1, <3>2, ListedFacts DEF Waiters
    <3>4. promise' = promise /\ (chan' = chan \/ (u \notin Agents /\ chan' = [chan EXCEPT ![u] = "ok"]))
      BY <2>5 DEF Pop
    <3> HIDE DEF u
    <3> QED BY <1>1, <3>3, <3>4 DEF TypeOK
  <2>6. ASSUME NEW a \in Agents, Program(a) PROVE UNCHANGED <<chan, promise>>
    BY <2>6 DEF Program, Store, BeginWait, BeginWaitAsync, Begin, BeginNotify, DropJobs,
                asyncVars
  <2>7. ASSUME NEW a \in Agents,
               \/ Load(a) \/ Push(a) \/ CheckNotified(a) \/ CheckTimedOut(a) \/ Sleep(a)
               \/ Wake(a) \/ SpuriousWake(a) \/ Reacquire(a) \/ LoadAsync(a) \/ EndNotify(a)
        PROVE  UNCHANGED <<chan, promise>>
    BY <2>7 DEF Load, Push, CheckNotified, CheckTimedOut, Sleep, Wake, SpuriousWake,
                Reacquire, LoadAsync, EndNotify, asyncVars
  <2>8. ASSUME NEW w \in Waiters, Expire(w) PROVE UNCHANGED <<chan, promise>>
    BY <2>8 DEF Expire, asyncVars
  <2> HIDE DEF Final
  <2> QED BY <1>1, <2>1, <2>2, <2>3, <2>4, <2>5, <2>6, <2>7, <2>8, Zenon DEF Next, Internal, Jobs
<1>2. IInv /\ [Next]_vars => [\A i \in Async : Final(i)]_vars
  BY <1>1 DEF IInv
<1> QED BY <1>2, FutexInvariant, PTL DEF Spec, OutcomeIsFinal

------------------------------------------------------------------------------
(* Futex implements WaiterLists.                                               *)
(* What the refinement needs beyond the invariant of FutexProofs. *)

\* A wait or waitAsync that has not returned has no result yet.
NoResultYet ==
  \A a \in Agents :
    pc[a] \in {"load", "push", "loadAsync", "pushAsync"} => result[a] = "none"

\* notify_many removes no more waiters than it was asked to.
PopsAreBounded == \A a \in Agents : pc[a] = "pop" => popped[a] <= count[a]

RInv == IInv /\ NoResultYet /\ PopsAreBounded

\* The strengthened invariant holds before the first call.
LEMMA InitRInv == Init => RInv
<1> QED BY InitIInv DEF Init, RInv, NoResultYet, PopsAreBounded

\* Every step preserves the strengthened invariant.
LEMMA NextRInv == RInv /\ [Next]_vars => RInv'
<1> SUFFICES ASSUME RInv, [Next]_vars
             PROVE  NoResultYet' /\ PopsAreBounded'
  BY Inductive DEF RInv
<1> USE DEF RInv, NoResultYet, PopsAreBounded
<1>t. TypeOK
  BY DEF RInv, IInv
<1>1. ASSUME NEW a \in Agents, Program(a) PROVE NoResultYet' /\ PopsAreBounded'
  <2>1. CASE (\E x \in Addr, v \in Val : Store(a, x, v)) \/ DropJobs(a)
    BY <2>1 DEF Store, DropJobs
  <2>2. ASSUME NEW at \in {"load", "loadAsync"}, NEW x \in Addr, NEW v \in Val,
               NEW t \in Timeouts, Begin(a, at, x, v, t)
        PROVE  NoResultYet' /\ PopsAreBounded'
    BY <1>t, <2>2 DEF Begin, TypeOK
  <2>3. ASSUME NEW x \in Addr, NEW n \in Counts, BeginNotify(a, x, n)
        PROVE  NoResultYet' /\ PopsAreBounded'
    BY <1>t, <2>3, FutexAssumption DEF BeginNotify, TypeOK
  <2>4. "finite" \in Timeouts /\ "none" \in Timeouts
    BY DEF Timeouts
  <2> HIDE DEF RInv, NoResultYet, PopsAreBounded
  <2> QED BY <1>1, <2>1, <2>2, <2>3, <2>4 DEF Program, BeginWait, BeginWaitAsync
<1>2. ASSUME NEW a \in Agents, Internal(a) \/ SpuriousWake(a)
      PROVE  NoResultYet' /\ PopsAreBounded'
  <2>1. CASE Load(a) \/ LoadAsync(a) \/ \E i \in Async : PushAsync(a, i)
    BY <1>t, <2>1 DEF Load, LoadAsync, PushAsync, Return, TypeOK
  <2>2. CASE CheckNotified(a) \/ CheckTimedOut(a)
    BY <1>t, <2>2 DEF CheckNotified, CheckTimedOut, Return, TypeOK
  <2>3. CASE Push(a) \/ Sleep(a) \/ Wake(a) \/ Reacquire(a) \/ SpuriousWake(a)
    BY <1>t, <2>3 DEF Push, Sleep, Wake, Reacquire, SpuriousWake, TypeOK
  <2>4. CASE Pop(a)
    BY <1>t, <2>4 DEF Pop, TypeOK
  <2>5. CASE EndNotify(a)
    BY <1>t, <2>5 DEF EndNotify, TypeOK
  <2> QED BY <1>2, <2>1, <2>2, <2>3, <2>4, <2>5 DEF Internal
<1>3. ASSUME NEW a \in Agents, Jobs(a) PROVE NoResultYet' /\ PopsAreBounded'
  BY <1>3 DEF Jobs, RunTimer, RunJob
<1>4. ASSUME NEW w \in Waiters, Expire(w) PROVE NoResultYet' /\ PopsAreBounded'
  BY <1>4 DEF Expire
<1>5. CASE UNCHANGED vars
  BY <1>5 DEF vars
<1> QED BY <1>1, <1>2, <1>3, <1>4, <1>5 DEF Next

------------------------------------------------------------------------------
(* What the mapping is in a state where no notify_many is at work. *)

NobodyNotifies == \A a \in Agents : pc[a] # "pop"

\* The status of a waiter that no notify has claimed.
Plain(w) ==
  IF w \in Agents
  THEN IF pc[w] \in Linkable THEN IF Linked(w) THEN "waiting" ELSE "ok"
       ELSE IF result[w] \in Outcomes THEN result[w] ELSE "out"
  ELSE IF chan[w] = "none" THEN "out"
       ELSE IF chan[w] = "empty" THEN "waiting" ELSE chan[w]

MappingIsPlain ==
  /\ AbsList = waiters
  /\ AbsStatus = [w \in Waiters |-> Plain(w)]
  /\ AbsReturned = popped

\* While no notify has claimed a waiter, the mapping is the plain one.
LEMMA UnclaimedMapping ==
  ASSUME IInv, \A x \in Addr : Claimed(x) = 0
  PROVE  MappingIsPlain
<1>t. TypeOK /\ LinkedUntilTold
  BY DEF IInv
<1>1. \A x \in Addr : Claimed(x) = 0
  OBVIOUS
<1>2. AbsList = waiters
  <2>1. \A x \in Addr : SubSeq(waiters[x], Claimed(x) + 1, Len(waiters[x])) = waiters[x]
    BY <1>t, <1>1, SubSeqFull DEF TypeOK
  <2> QED BY <1>t, <2>1 DEF AbsList, TypeOK
<1>3. \A w \in Waiters : ~ IsClaimed(w)
  BY <1>t, <1>1, ListedFacts DEF IsClaimed, IInv
<1>4. \A w \in Waiters : StatusOf(w) = Plain(w)
  BY <1>t, <1>3 DEF StatusOf, Plain, LinkedUntilTold, Waiters
<1>5. AbsStatus = [w \in Waiters |-> Plain(w)]
  BY <1>4 DEF AbsStatus
<1>6. AbsReturned = popped
  <2>1. \A a \in Agents : rec[a].addr \in Addr
    BY <1>t, ListedFacts DEF IInv, Waiters
  <2> QED BY <1>t, <1>1, <2>1 DEF AbsReturned, TypeOK
<1> QED BY <1>2, <1>5, <1>6 DEF MappingIsPlain

\* While nobody notifies, the mapping is the plain one.
LEMMA PlainMapping == IInv /\ NobodyNotifies => MappingIsPlain
BY UnclaimedMapping DEF Claimed, Notifying, NobodyNotifies

\* The same after a step.
LEMMA PlainMappingNext == IInv' /\ NobodyNotifies' => MappingIsPlain'
<1> QED BY PlainMapping, PTL

\* Inside a critical section that is not notify's, and outside of all, nobody
\* notifies.
LEMMA HolderAlone ==
  ASSUME CriticalSection, lock = NoAgent \/ pc[lock] # "pop"
  PROVE  NobodyNotifies
BY FutexAssumption DEF CriticalSection, NobodyNotifies, Holding

------------------------------------------------------------------------------
(* The first state. *)

\* Initial states map to initial states.
LEMMA InitMapping == Init => Abstract!Init
<1> SUFFICES ASSUME Init PROVE Abstract!Init
  OBVIOUS
<1>1. IInv /\ NobodyNotifies
  BY InitIInv DEF Init, NobodyNotifies
<1>2. \A w \in Waiters : Plain(w) = "out"
  BY DEF Init, Plain, Linkable, Outcomes, Waiters
<1> QED BY <1>1, <1>2, PlainMapping DEF Init, MappingIsPlain, Abstract!Init

------------------------------------------------------------------------------
(* Steps that change nothing the lists promise. *)

\* Threads that move in or out of their sleep, and whatever touches neither
\* lists nor outcomes.
LEMMA UnseenStep ==
  ASSUME IInv, IInv',
         UNCHANGED <<lock, waiters, rec, count, popped, result, chan>>,
         \A b \in Agents : \/ pc'[b] = pc[b]
                           \/ pc[b] \in Linkable /\ pc'[b] \in Linkable
  PROVE  UNCHANGED Abstract!absVars
<1>t. TypeOK
  BY DEF IInv
<1>1. \A b \in Agents : pc'[b] = "pop" <=> pc[b] = "pop"
  BY DEF Linkable
<1>2. \A x \in Addr : Claimed(x)' = Claimed(x)
  BY <1>1 DEF Claimed, Notifying
<1>3. AbsList' = AbsList
  BY <1>2 DEF AbsList
<1>4. \A w \in Waiters : IsClaimed(w)' = IsClaimed(w) /\ Linked(w)' = Linked(w)
  BY <1>2, <1>t, ListedFacts DEF IsClaimed, Linked, IInv
<1>5. \A w \in Waiters : StatusOf(w)' = StatusOf(w)
  BY <1>4 DEF StatusOf, Waiters
<1>6. AbsStatus' = AbsStatus
  BY <1>5 DEF AbsStatus
<1>7. AbsReturned' = AbsReturned
  <2>1. \A a \in Agents : rec[a].addr \in Addr
    BY <1>t, ListedFacts DEF IInv, Waiters
  <2> QED BY <1>1, <1>2, <2>1 DEF AbsReturned
<1> QED BY <1>3, <1>6, <1>7 DEF Abstract!absVars

\* A step between two states in which nobody notifies, that changes no list
\* and no status.
LEMMA PlainStutter ==
  ASSUME IInv, IInv', NobodyNotifies, NobodyNotifies',
         UNCHANGED <<waiters, popped>>,
         \A w \in Waiters : Plain(w)' = Plain(w)
  PROVE  UNCHANGED Abstract!absVars
<1>1. [w \in Waiters |-> Plain(w)]' = [w \in Waiters |-> Plain(w)]
  OBVIOUS
<1> QED BY <1>1, PlainMapping, PlainMappingNext DEF MappingIsPlain, Abstract!absVars

------------------------------------------------------------------------------
(* wait and waitAsync: between states in which nobody notifies. *)

\* What an agent does to itself is not seen in the status of the others.
LEMMA OthersKeepStatus ==
  ASSUME IInv, NEW a \in Agents,
         \A w \in Waiters : w # a => rec'[w] = rec[w],
         \A w \in Waiters, x \in Addr : w # a =>
           (Contains(waiters'[x], w) <=> Contains(waiters[x], w)),
         \A b \in Agents : b # a => pc'[b] = pc[b] /\ result'[b] = result[b],
         chan' = chan
  PROVE  \A w \in Waiters : w # a => Plain(w)' = Plain(w)
<1>1. ASSUME NEW w \in Waiters, w # a PROVE Linked(w)' <=> Linked(w)
  BY <1>1, ListedFacts DEF Linked, IInv
<1> QED BY <1>1 DEF Plain

\* A wait or waitAsync begins; the result of the agent's last wait is forgotten.
LEMMA BeginRefines ==
  ASSUME RInv, RInv', NEW a \in Agents, NEW at \in {"load", "loadAsync"},
         NEW x \in Addr, NEW v \in Val, NEW t \in Timeouts, Begin(a, at, x, v, t)
  PROVE  [Abstract!Next]_Abstract!absVars
<1>t. IInv /\ IInv' /\ TypeOK /\ CriticalSection
  BY DEF RInv, IInv
<1>1. NobodyNotifies
  BY <1>t, HolderAlone DEF Begin, Acquire
<1>2. NobodyNotifies'
  BY <1>t, <1>1 DEF Begin, NobodyNotifies, TypeOK
<1>3. MappingIsPlain /\ MappingIsPlain'
  BY <1>t, <1>1, <1>2, PlainMapping, PlainMappingNext
<1>4. \A w \in Waiters : w # a => Plain(w)' = Plain(w)
  BY <1>t, OthersKeepStatus DEF Begin, asyncVars, TypeOK
<1>5. /\ a \in Waiters
      /\ Plain(a) = (IF result[a] \in Outcomes THEN result[a] ELSE "out")
      /\ Plain(a)' = "out"
  BY <1>t DEF Begin, StartOp, Plain, TypeOK, Linkable, Outcomes, Waiters
<1>6. waiters' = waiters /\ popped' = popped
  BY DEF Begin
<1>7. CASE result[a] \in Outcomes
  <2>1. Abstract!Reset(a)
    BY <1>3, <1>4, <1>5, <1>6, <1>7 DEF Abstract!Reset, MappingIsPlain, Outcomes
  <2> QED BY <1>5, <2>1 DEF Abstract!Next
<1>8. CASE result[a] \notin Outcomes
  BY <1>t, <1>1, <1>2, <1>4, <1>5, <1>6, <1>8, PlainStutter
<1> QED BY <1>7, <1>8

\* Linking a waiter at the end of a list.
LEMMA AddRefines ==
  ASSUME IInv, IInv', NobodyNotifies, NobodyNotifies',
         NEW u \in Waiters, NEW x \in Addr,
         AddWaiter(u, x), popped' = popped,
         Plain(u) = "out", Plain(u)' = "waiting",
         \A w \in Waiters : w # u => Plain(w)' = Plain(w)
  PROVE  Abstract!Add(u, x)
<1>1. MappingIsPlain /\ MappingIsPlain'
  BY PlainMapping, PlainMappingNext
<1> QED BY <1>1 DEF Abstract!Add, MappingIsPlain, AddWaiter

\* Unlinking a waiter whose time is up.
LEMMA TimeOutRefines ==
  ASSUME IInv, IInv', NobodyNotifies, NobodyNotifies',
         NEW u \in Waiters, Linked(u),
         waiters' = [waiters EXCEPT ![rec[u].addr] = Unlink(@, u)], popped' = popped,
         Plain(u) = "waiting", Plain(u)' = "timed-out",
         \A w \in Waiters : w # u => Plain(w)' = Plain(w)
  PROVE  Abstract!TimeOut(u)
<1> DEFINE y == rec[u].addr
           k == CHOOSE i \in 1..Len(waiters[y]) : waiters[y][i] = u
<1>1. MappingIsPlain /\ MappingIsPlain'
  BY PlainMapping, PlainMappingNext
<1>2. y \in Addr
  BY ListedFacts DEF IInv
<1>3. k \in 1..Len(waiters[y]) /\ waiters[y][k] = u
  BY DEF Linked, Contains
<1>4. waiters' = [waiters EXCEPT ![y] = RemoveAt(@, k)]
  BY DEF Unlink
<1> HIDE DEF y, k
<1>5. \E z \in Addr : \E i \in 1..Len(AbsList[z]) :
        AbsList[z][i] = u /\ AbsList' = [AbsList EXCEPT ![z] = RemoveAt(@, i)]
  BY <1>1, <1>2, <1>3, <1>4 DEF MappingIsPlain
<1>6. /\ AbsStatus[u] = "waiting"
      /\ AbsStatus' = [AbsStatus EXCEPT ![u] = "timed-out"]
      /\ AbsReturned' = AbsReturned
  BY <1>1 DEF MappingIsPlain
<1> QED BY <1>5, <1>6 DEF Abstract!TimeOut, Abstract!RemoveAt, RemoveAt

\* An agent inside wait or waitAsync holds the mutex, so that nobody notifies.
LEMMA CallerAlone ==
  ASSUME IInv, NEW a \in Agents, pc[a] \in Holding \ {"pop"}
  PROVE  NobodyNotifies
BY HolderAlone DEF IInv, CriticalSection

\* Leaving wait or waitAsync without a trace in the lists.
LEMMA ReturnRefines ==
  ASSUME IInv, IInv', NEW a \in Agents, pc[a] \in Holding \ {"pop"},
         NEW r, Return(a, r), rec' = Discard(a),
         UNCHANGED <<waiters, chan, popped>>,
         Plain(a) = IF r \in Outcomes THEN r ELSE "out"
  PROVE  UNCHANGED Abstract!absVars
<1>t. TypeOK
  BY DEF IInv
<1>1. NobodyNotifies
  BY CallerAlone
<1>2. NobodyNotifies'
  BY <1>1, <1>t DEF Return, NobodyNotifies, TypeOK
<1>3. \A w \in Waiters : w # a => Plain(w)' = Plain(w)
  BY <1>t, OthersKeepStatus DEF Return, Discard, TypeOK
<1>4. Plain(a)' = Plain(a)
  BY <1>t DEF Return, Plain, TypeOK, Linkable
<1> QED BY <1>1, <1>2, <1>3, <1>4, PlainStutter

\* The steps of Atomics.wait map to steps of the abstract lists.
LEMMA WaitRefines ==
  ASSUME RInv, RInv', NEW a \in Agents,
         \/ Load(a) \/ Push(a) \/ CheckNotified(a) \/ CheckTimedOut(a) \/ Sleep(a)
         \/ Reacquire(a)
  PROVE  [Abstract!Next]_Abstract!absVars
<1>t. IInv /\ IInv' /\ TypeOK /\ CriticalSection /\ ListsAreSound /\ a \in Waiters
  BY DEF RInv, IInv, Waiters
<1>1. CASE Load(a)
  <2>1. Plain(a) = "out" /\ pc[a] \in Holding \ {"pop"}
    BY <1>1 DEF Load, RInv, NoResultYet, Plain, Linkable, Outcomes, Holding
  <2>2. CASE Return(a, "not-equal") /\ rec' = Discard(a)
    <3>1. UNCHANGED <<waiters, chan, popped>>
      BY <1>1 DEF Load, asyncVars
    <3> QED BY <1>t, <2>1, <2>2, <3>1, ReturnRefines DEF Outcomes
  <2>3. CASE pc' = [pc EXCEPT ![a] = "push"] /\ UNCHANGED <<lock, result, rec, expired>>
    <3>1. NobodyNotifies
      BY <1>t, <2>1, CallerAlone
    <3>2. NobodyNotifies'
      BY <1>t, <2>3, <3>1 DEF NobodyNotifies, TypeOK
    <3>3. UNCHANGED <<waiters, chan, popped, result, rec>>
      BY <1>1, <2>3 DEF Load, asyncVars
    <3>4. \A w \in Waiters : w # a => Plain(w)' = Plain(w)
      BY <1>t, <2>3, <3>3, OthersKeepStatus DEF TypeOK
    <3>5. Plain(a)' = Plain(a)
      BY <1>t, <1>1, <2>3, <3>3 DEF Plain, Load, TypeOK, Linkable
    <3> QED BY <1>t, <3>1, <3>2, <3>3, <3>4, <3>5, PlainStutter
  <2> QED BY <1>1, <2>2, <2>3 DEF Load
<1>2. CASE Push(a)
  <2> DEFINE x == rec[a].addr
  <2>1. NobodyNotifies
    BY <1>t, <1>2, CallerAlone DEF Push, Holding
  <2>2. NobodyNotifies'
    BY <1>t, <1>2, <2>1 DEF Push, NobodyNotifies, TypeOK
  <2>3. Plain(a) = "out"
    BY <1>2 DEF Push, RInv, NoResultYet, Plain, Linkable, Outcomes
  <2>4. /\ x \in Addr /\ waiters[x] \in Seq(Waiters) /\ IsInjective(waiters[x])
        /\ ~ Contains(waiters[x], a)
    BY <1>t, <1>2, ListedFacts DEF Push, TypeOK, ListsAreSound, Linkable
  <2>5. /\ waiters'[x] = Append(waiters[x], a)
        /\ \A y \in Addr : y # x => waiters'[y] = waiters[y]
        /\ UNCHANGED <<rec, chan, popped, result>>
    BY <1>t, <1>2, <2>4 DEF Push, AddWaiter, asyncVars, TypeOK
  <2>6. \A w : Contains(waiters'[x], w) <=> Contains(waiters[x], w) \/ w = a
    BY <1>t, <2>4, <2>5, AppendFacts
  <2> HIDE DEF x
  <2>7. \A w \in Waiters : w # a => Plain(w)' = Plain(w)
    <3>1. \A w \in Waiters, y \in Addr : w # a =>
            (Contains(waiters'[y], w) <=> Contains(waiters[y], w))
      BY <2>5, <2>6
    <3> QED BY <1>t, <1>2, <2>5, <3>1, OthersKeepStatus DEF Push, TypeOK
  <2>8. Plain(a)' = "waiting"
    BY <1>t, <1>2, <2>5, <2>6 DEF x, Plain, Push, Linked, Linkable, TypeOK
  <2>9. Abstract!Add(a, x)
    BY <1>t, <1>2, <2>1, <2>2, <2>3, <2>4, <2>5, <2>7, <2>8, AddRefines DEF Push, x
  <2> QED BY <1>t, <2>4, <2>9 DEF Abstract!Next
<1>3. CASE CheckNotified(a)
  <2>1. Plain(a) = "ok"
    BY <1>3 DEF CheckNotified, Plain, Linkable
  <2> QED BY <1>t, <1>3, <2>1, ReturnRefines
      DEF CheckNotified, Outcomes, Holding, asyncVars
<1>4. CASE CheckTimedOut(a)
  <2> DEFINE x == rec[a].addr
  <2>1. NobodyNotifies
    BY <1>t, <1>4, CallerAlone DEF CheckTimedOut, Holding
  <2>2. NobodyNotifies'
    BY <1>t, <1>4, <2>1 DEF CheckTimedOut, Return, NobodyNotifies, TypeOK
  <2>3. Plain(a) = "waiting" /\ Linked(a)
    BY <1>4 DEF CheckTimedOut, Plain, Linkable
  <2>4. x \in Addr /\ waiters[x] \in Seq(Waiters) /\ IsInjective(waiters[x])
    BY <1>t, ListedFacts DEF TypeOK, ListsAreSound
  <2>5. /\ waiters'[x] = Unlink(waiters[x], a)
        /\ \A y \in Addr : y # x => waiters'[y] = waiters[y]
        /\ UNCHANGED <<chan, popped>>
    BY <1>t, <1>4, <2>4 DEF CheckTimedOut, asyncVars, TypeOK
  <2>6. \A w : Contains(waiters'[x], w) <=> Contains(waiters[x], w) /\ w # a
    BY <2>3, <2>4, <2>5, UnlinkFacts DEF Linked
  <2> HIDE DEF x
  <2>7. \A w \in Waiters : w # a => Plain(w)' = Plain(w)
    <3>1. \A w \in Waiters, y \in Addr : w # a =>
            (Contains(waiters'[y], w) <=> Contains(waiters[y], w))
      BY <2>5, <2>6
    <3> QED BY <1>t, <1>4, <2>5, <3>1, OthersKeepStatus
        DEF CheckTimedOut, Return, Discard, TypeOK
  <2>8. Plain(a)' = "timed-out"
    BY <1>t, <1>4 DEF CheckTimedOut, Return, Plain, Linkable, Outcomes, TypeOK
  <2>9. Abstract!TimeOut(a)
    BY <1>t, <1>4, <2>1, <2>2, <2>3, <2>5, <2>7, <2>8, TimeOutRefines DEF CheckTimedOut
  <2> QED BY <1>t, <2>9 DEF Abstract!Next
<1>5. CASE Sleep(a) \/ Reacquire(a)
  <2>1. NobodyNotifies
    BY <1>t, <1>5, CallerAlone, HolderAlone DEF Sleep, Reacquire, Acquire, Holding
  <2>2. NobodyNotifies'
    BY <1>t, <1>5, <2>1 DEF Sleep, Reacquire, NobodyNotifies, TypeOK
  <2>3. UNCHANGED <<waiters, chan, popped, result, rec>>
    BY <1>5 DEF Sleep, Reacquire, asyncVars
  <2>4. \A w \in Waiters : w # a => Plain(w)' = Plain(w)
    BY <1>t, <1>5, <2>3, OthersKeepStatus DEF Sleep, Reacquire, TypeOK
  <2>5. Plain(a)' = Plain(a)
    BY <1>t, <1>5, <2>3 DEF Plain, Linked, Sleep, Reacquire, TypeOK, Linkable
  <2> QED BY <1>t, <2>1, <2>2, <2>3, <2>4, <2>5, PlainStutter
<1> QED BY <1>1, <1>2, <1>3, <1>4, <1>5

\* So do those of Atomics.waitAsync and its timers.
LEMMA AsyncRefines ==
  ASSUME RInv, RInv', NEW a \in Agents,
         \/ LoadAsync(a)
         \/ \E i \in Async : PushAsync(a, i) \/ RunTimer(a, i)
  PROVE  [Abstract!Next]_Abstract!absVars
<1>t. /\ IInv /\ IInv' /\ TypeOK /\ CriticalSection /\ ListsAreSound
      /\ a \in Waiters /\ Async \subseteq Waiters
  BY DEF RInv, IInv, Waiters
<1>1. CASE LoadAsync(a)
  <2>1. Plain(a) = "out" /\ pc[a] \in Holding \ {"pop"}
    BY <1>1 DEF LoadAsync, RInv, NoResultYet, Plain, Linkable, Outcomes, Holding
  <2>2. UNCHANGED <<waiters, chan, popped>>
    BY <1>1 DEF LoadAsync, asyncVars
  <2>3. ASSUME NEW r \in {"not-equal", "timed-out-at-once"}, Return(a, r), rec' = Discard(a)
        PROVE  UNCHANGED Abstract!absVars
    BY <1>t, <2>1, <2>2, <2>3, ReturnRefines DEF Outcomes
  <2>4. CASE pc' = [pc EXCEPT ![a] = "pushAsync"] /\ UNCHANGED <<lock, result, rec, expired>>
    <3>1. NobodyNotifies
      BY <1>t, <2>1, CallerAlone
    <3>2. NobodyNotifies'
      BY <1>t, <2>4, <3>1 DEF NobodyNotifies, TypeOK
    <3>3. \A w \in Waiters : w # a => Plain(w)' = Plain(w)
      BY <1>t, <2>2, <2>4, OthersKeepStatus DEF TypeOK
    <3>4. Plain(a)' = Plain(a)
      BY <1>t, <1>1, <2>2, <2>4 DEF Plain, LoadAsync, TypeOK, Linkable
    <3> QED BY <1>t, <2>2, <3>1, <3>2, <3>3, <3>4, PlainStutter
  <2> QED BY <1>1, <2>3, <2>4 DEF LoadAsync
<1>2. ASSUME NEW i \in Async, PushAsync(a, i)
      PROVE  [Abstract!Next]_Abstract!absVars
  <2> DEFINE x == rec[a].addr
  <2>1. NobodyNotifies
    BY <1>t, <1>2, CallerAlone DEF PushAsync, Holding
  <2>2. NobodyNotifies'
    BY <1>t, <1>2, <2>1 DEF PushAsync, Return, NobodyNotifies, TypeOK
  <2>3. i \notin Agents /\ i # a /\ i \in Waiters
    BY <1>t, FutexAssumption
  <2>4. Plain(i) = "out" /\ Plain(i)' = "waiting"
    BY <1>t, <1>2, <2>3 DEF PushAsync, Plain, TypeOK
  <2>5. Plain(a) = "out" /\ Plain(a)' = "out"
    BY <1>t, <1>2
    DEF PushAsync, Return, RInv, NoResultYet, Plain, Linkable, Outcomes, TypeOK
  <2>6. /\ x \in Addr /\ waiters[x] \in Seq(Waiters) /\ IsInjective(waiters[x])
        /\ ~ Contains(waiters[x], i)
    BY <1>t, <1>2, ListedFacts DEF PushAsync, TypeOK, ListsAreSound
  <2>7. /\ waiters'[x] = Append(waiters[x], i)
        /\ \A y \in Addr : y # x => waiters'[y] = waiters[y]
    BY <1>t, <1>2, <2>6 DEF PushAsync, AddWaiter, TypeOK
  <2>8. \A w : Contains(waiters'[x], w) <=> Contains(waiters[x], w) \/ w = i
    BY <2>3, <2>6, <2>7, AppendFacts
  <2> HIDE DEF x
  <2>9. ASSUME NEW w \in Waiters, w # i, w # a
        PROVE  Plain(w)' = Plain(w)
    <3>1. rec'[w] = rec[w] /\ rec[w].addr \in Addr
      BY <1>t, <1>2, <2>9, ListedFacts DEF PushAsync, Discard, TypeOK
    <3>2. Linked(w)' <=> Linked(w)
      BY <2>7, <2>8, <2>9, <3>1 DEF Linked
    <3>3. /\ w \in Agents => pc'[w] = pc[w] /\ result'[w] = result[w]
          /\ w \in Async => chan'[w] = chan[w]
      BY <1>t, <1>2, <2>9 DEF PushAsync, Return, TypeOK
    <3> QED BY <3>2, <3>3 DEF Plain, Waiters
  <2>10. Abstract!Add(i, x)
    <3>1. AddWaiter(i, x) /\ popped' = popped
      BY <1>2 DEF PushAsync, x
    <3> QED BY <1>t, <2>1, <2>2, <2>3, <2>4, <2>5, <2>6, <2>9, <3>1, AddRefines
  <2> QED BY <2>3, <2>6, <2>10 DEF Abstract!Next
<1>3. ASSUME NEW i \in Async, RunTimer(a, i)
      PROVE  [Abstract!Next]_Abstract!absVars
  <2> DEFINE x == rec[i].addr
  <2>1. NobodyNotifies
    BY <1>t, <1>3, HolderAlone DEF RunTimer
  <2>2. NobodyNotifies'
    BY <1>3, <2>1 DEF RunTimer, NobodyNotifies
  <2>3. i \notin Agents /\ i \in Waiters
    BY <1>t, FutexAssumption
  <2>4. UNCHANGED <<pc, rec, result, popped>>
    BY <1>3 DEF RunTimer
  <2>5. CASE ~ Linked(i)
    <3>1. UNCHANGED <<waiters, chan>>
      BY <1>3, <2>5 DEF RunTimer
    <3>2. \A w \in Waiters : Plain(w)' = Plain(w)
      BY <2>4, <3>1 DEF Plain, Linked
    <3> QED BY <1>t, <2>1, <2>2, <2>4, <3>1, <3>2, PlainStutter
  <2>6. CASE Linked(i)
    <3>1. /\ waiters' = [waiters EXCEPT ![x] = Unlink(@, i)]
          /\ chan' = [chan EXCEPT ![i] = "timed-out"]
      BY <1>3, <2>6 DEF RunTimer
    <3>2. x \in Addr /\ waiters[x] \in Seq(Waiters) /\ IsInjective(waiters[x])
          /\ chan[i] = "empty"
      BY <1>t, <2>3, <2>6, ListedFacts DEF TypeOK, ListsAreSound, Linked
    <3>3. Plain(i) = "waiting" /\ Plain(i)' = "timed-out"
      BY <1>t, <2>3, <3>1, <3>2 DEF Plain, TypeOK
    <3>4. /\ waiters'[x] = Unlink(waiters[x], i)
          /\ \A y \in Addr : y # x => waiters'[y] = waiters[y]
      BY <1>t, <3>1, <3>2 DEF TypeOK
    <3>5. \A w : Contains(waiters'[x], w) <=> Contains(waiters[x], w) /\ w # i
      BY <2>6, <3>2, <3>4, UnlinkFacts DEF Linked
    <3> HIDE DEF x
    <3>6. ASSUME NEW w \in Waiters, w # i
          PROVE  Plain(w)' = Plain(w)
      <4>1. Linked(w)' <=> Linked(w)
        BY <1>t, <2>4, <3>4, <3>5, <3>6, ListedFacts DEF Linked
      <4>2. w \in Async => chan'[w] = chan[w]
        BY <1>t, <3>1, <3>6 DEF TypeOK
      <4> QED BY <2>4, <4>1, <4>2 DEF Plain, Waiters
    <3>7. Abstract!TimeOut(i)
      BY <1>t, <2>1, <2>2, <2>3, <2>4, <2>6, <3>1, <3>3, <3>6, TimeOutRefines DEF x
    <3> QED BY <2>3, <3>7 DEF Abstract!Next
  <2> QED BY <2>5, <2>6
<1> QED BY <1>1, <1>2, <1>3

------------------------------------------------------------------------------
(* notify: it happens when it takes the mutex, and its loop is not seen. *)

\* What the loop of notify_many has claimed shrinks by the head it removes.
LEMMA DropHead ==
  ASSUME NEW S, NEW s \in Seq(S), s # <<>>, NEW c \in 1..Len(s)
  PROVE  SubSeq(Tail(s), c, Len(Tail(s))) = SubSeq(s, c + 1, Len(s))
<1> DEFINE t == Tail(s)
           l == SubSeq(t, c, Len(t))
           r == SubSeq(s, c + 1, Len(s))
<1>1. t \in Seq(S) /\ Len(t) = Len(s) - 1 /\ \A i \in 1..Len(t) : t[i] = s[i + 1]
  BY HeadTailProperties
<1>2. Len(s) \in Nat /\ Len(t) \in Nat /\ c \in Int /\ c + 1 \in Int /\ 1 <= c /\ c <= Len(s)
  BY <1>1, LenProperties
<1> HIDE DEF t
<1>3. /\ l \in Seq(S)
      /\ Len(l) = Len(s) - c
      /\ \A i \in 1..Len(s) - c : l[i] = t[c + i - 1]
  <2>1. \A i \in c..Len(t) : t[i] \in S
    BY <1>1, <1>2, ElementOfSeq
  <2>2. /\ l \in Seq(S)
        /\ Len(l) = IF c <= Len(t) THEN Len(t) - c + 1 ELSE 0
        /\ \A i \in 1..Len(t) - c + 1 : l[i] = t[c + i - 1]
    BY <1>2, <2>1, SubSeqProperties
  <2> HIDE DEF l
  <2> QED BY <1>1, <1>2, <2>2
<1>4. /\ r \in Seq(S)
      /\ Len(r) = Len(s) - c
      /\ \A i \in 1..Len(s) - c : r[i] = s[c + i]
  <2>1. \A i \in c + 1..Len(s) : s[i] \in S
    BY <1>2, ElementOfSeq
  <2>2. /\ r \in Seq(S)
        /\ Len(r) = IF c + 1 <= Len(s) THEN Len(s) - (c + 1) + 1 ELSE 0
        /\ \A i \in 1..Len(s) - (c + 1) + 1 : r[i] = s[(c + 1) + i - 1]
    BY <1>2, <2>1, SubSeqProperties
  <2> HIDE DEF r
  <2> QED BY <1>2, <2>2
<1> HIDE DEF l, r
<1>5. \A i \in 1..Len(l) : l[i] = r[i]
  <2> TAKE i \in 1..Len(l)
  <2>1. i \in 1..Len(s) - c
    BY <1>3
  <2>2. c + i - 1 \in 1..Len(s) - 1 /\ (c + i - 1) + 1 = c + i
    BY <1>2, <2>1
  <2>3. t[c + i - 1] = s[(c + i - 1) + 1]
    BY ONLY <1>1, <2>2
  <2>4. l[i] = t[c + i - 1] /\ r[i] = s[c + i]
    BY ONLY <1>3, <1>4, <2>1
  <2> QED BY ONLY <2>2, <2>3, <2>4
<1>6. l = r
  BY <1>3, <1>4, <1>5, SeqEqual
<1> QED BY <1>6 DEF l, r, t

\* The notify that begins takes all it will take in one step.
LEMMA BeginNotifyRefines ==
  ASSUME RInv, RInv', NEW a \in Agents, NEW x \in Addr, NEW n \in Counts,
         BeginNotify(a, x, n)
  PROVE  Abstract!Notify(a, x, n)
<1> DEFINE c == IF n < Len(waiters[x]) THEN n ELSE Len(waiters[x])
           oldest == ToSet(SubSeq(waiters[x], 1, c))
<1>t. /\ IInv /\ IInv' /\ TypeOK /\ CriticalSection /\ ListsAreSound
      /\ a \in Waiters
  BY DEF RInv, IInv, Waiters
<1>1. /\ pc[a] = "idle" /\ pc'[a] = "pop"
      /\ lock' = a
      /\ rec'[a].addr = x
      /\ count'[a] = n /\ popped' = [popped EXCEPT ![a] = 0]
      /\ UNCHANGED <<waiters, chan, result>>
      /\ \A b \in Agents : b # a => pc'[b] = pc[b]
      /\ \A w \in Waiters : w # a => rec'[w] = rec[w]
  BY <1>t DEF BeginNotify, StartOp, Acquire, asyncVars, TypeOK
<1>2. NobodyNotifies
  BY <1>t, HolderAlone DEF BeginNotify, Acquire
<1>3. MappingIsPlain
  BY <1>t, <1>2, PlainMapping
<1>4. waiters[x] \in Seq(Waiters) /\ Len(waiters[x]) \in Nat /\ n \in Nat
  BY <1>t, FutexAssumption, LenProperties DEF TypeOK
<1>5. c \in 0..Len(waiters[x])
  BY <1>4
<1>6. \A y \in Addr : Claimed(y)' = IF y = x THEN c ELSE 0
  BY <1>1, <1>4, <1>t DEF Claimed, Notifying, TypeOK
<1>7. \A w : w \in oldest <=> \E i \in 1..c : waiters[x][i] = w
  <2>1. \A i \in 1..c : waiters[x][i] \in Waiters
    BY <1>4, <1>5, ElementOfSeq
  <2>2. c \in Int /\ c >= 0
    BY <1>4, <1>5
  <2> HIDE DEF c
  <2> DEFINE l == SubSeq(waiters[x], 1, c)
  <2>3. /\ l \in Seq(Waiters)
        /\ Len(l) = IF 1 <= c THEN c - 1 + 1 ELSE 0
        /\ \A i \in 1..c - 1 + 1 : l[i] = waiters[x][1 + i - 1]
    BY <2>1, <2>2, SubSeqProperties
  <2> HIDE DEF l
  <2>4. Len(l) = c /\ DOMAIN l = 1..c
    BY <2>2, <2>3, LenProperties
  <2>5. \A i \in 1..c : l[i] = waiters[x][i]
    BY <2>2, <2>3
  <2>6. oldest = {l[i] : i \in 1..c}
    BY <2>4 DEF l, ToSet
  <2> HIDE DEF oldest
  <2> QED BY <2>5, <2>6
<1> HIDE DEF c
<1>8. AbsList' = [AbsList EXCEPT ![x] = SubSeq(@, c + 1, Len(@))]
  <2>1. \A y \in Addr : SubSeq(waiters[y], 1, Len(waiters[y])) = waiters[y]
    BY <1>t, SubSeqFull DEF TypeOK
  <2>2. AbsList' = [y \in Addr |-> IF y = x THEN SubSeq(waiters[x], c + 1, Len(waiters[x]))
                                            ELSE waiters[y]]
    <3>1. \A y \in Addr : SubSeq(waiters'[y], Claimed(y)' + 1, Len(waiters'[y]))
                         = IF y = x THEN SubSeq(waiters[x], c + 1, Len(waiters[x]))
                                    ELSE waiters[y]
      <4>1. 0 + 1 = 1
        OBVIOUS
      <4> QED BY <1>1, <1>6, <2>1, <4>1
    <3> QED BY <3>1 DEF AbsList
  <2>3. waiters = [y \in Addr |-> waiters[y]]
    BY <1>t DEF TypeOK
  <2> QED BY <1>3, <2>2, <2>3 DEF MappingIsPlain
<1>9. \A w \in Waiters : w \in oldest =>
        /\ rec[w].addr = x /\ w # a
        /\ IF w \in Agents THEN pc[w] \in Linkable ELSE chan[w] = "empty"
  <2>1. \A w \in Waiters : w \in oldest => Contains(waiters[x], w)
    BY <1>4, <1>5, <1>7 DEF Contains
  <2> QED BY <1>1, <1>t, <2>1 DEF ListsAreSound, Linkable
<1> HIDE DEF oldest
<1>10. ASSUME NEW w \in Waiters
       PROVE  StatusOf(w)' = IF w \in oldest THEN "ok" ELSE Plain(w)
  <2>1. CASE w = a
    BY <1>1, <1>9, <2>1 DEF StatusOf, Plain, Linkable
  <2>2. CASE w # a
    <3>1. rec'[w] = rec[w] /\ rec[w].addr \in Addr
      BY <1>1, <1>t, <2>2, ListedFacts
    <3>2. IsClaimed(w)' <=> w \in oldest
      <4>1. IsClaimed(w)' <=> rec[w].addr = x /\ \E i \in 1..c : waiters[x][i] = w
        BY <1>1, <1>6, <3>1 DEF IsClaimed
      <4> QED BY <1>7, <1>9, <4>1
    <3>3. Linked(w)' <=> Linked(w)
      BY <1>1, <3>1 DEF Linked
    <3>4. chan[w] = "empty" /\ w \in Async => Linked(w)
      BY <1>t DEF IInv, LinkedUntilTold
    <3>5. CASE w \in Agents
      BY <1>1, <1>9, <2>2, <3>2, <3>3, <3>5 DEF StatusOf, Plain
    <3>6. CASE w \notin Agents
      BY <1>1, <1>9, <2>2, <3>2, <3>3, <3>4, <3>6 DEF StatusOf, Plain, Waiters
    <3> QED BY <3>5, <3>6
  <2> QED BY <2>1, <2>2
<1>11. AbsStatus' = [w \in Waiters |-> IF w \in oldest THEN "ok" ELSE AbsStatus[w]]
  BY <1>3, <1>10 DEF AbsStatus, MappingIsPlain
<1>12. AbsReturned' = [AbsReturned EXCEPT ![a] = c]
  <2>1. AbsReturned' = [b \in Agents |-> IF b = a THEN 0 + c ELSE popped[b]]
    BY <1>1, <1>2, <1>6, <1>t DEF AbsReturned, NobodyNotifies, TypeOK
  <2>2. 0 + c = c
    BY <1>5
  <2>3. popped = [b \in Agents |-> popped[b]]
    BY <1>t DEF TypeOK
  <2> QED BY <1>3, <2>1, <2>2, <2>3 DEF MappingIsPlain
<1>13. AbsList[x] = waiters[x]
  BY <1>3 DEF MappingIsPlain
<1> QED BY <1>8, <1>11, <1>12, <1>13 DEF Abstract!Notify, Abstract!ToSet, ToSet, c, oldest

\* An iteration of the loop removes what was claimed, and nothing else is seen.
LEMMA PopRefines ==
  ASSUME RInv, RInv', NEW a \in Agents, Pop(a)
  PROVE  UNCHANGED Abstract!absVars
<1> PICK x, s, h, c :
      /\ x = rec[a].addr
      /\ s = waiters[x]
      /\ h = Head(s)
      /\ c = IF count[a] - popped[a] < Len(s) THEN count[a] - popped[a] ELSE Len(s)
  OBVIOUS
<1>t. /\ IInv /\ IInv' /\ TypeOK /\ CriticalSection /\ ListsAreSound
      /\ a \in Waiters
  BY DEF RInv, IInv, Waiters
<1>1. /\ pc[a] = "pop" /\ lock = a /\ popped[a] < count[a] /\ s # <<>>
      /\ UNCHANGED <<lock, pc, rec, count, result>>
      /\ x \in Addr /\ s \in Seq(Waiters) /\ IsInjective(s)
      /\ waiters'[x] = Tail(s)
      /\ \A y \in Addr : y # x => waiters'[y] = waiters[y]
      /\ popped' = [popped EXCEPT ![a] = @ + 1]
  <2>1. pc[a] = "pop" /\ lock = a
    BY <1>t DEF Pop, CriticalSection, Holding
  <2>2. x \in Addr
    BY <1>t, ListedFacts
  <2> QED BY <1>t, <2>1, <2>2 DEF Pop, TypeOK, ListsAreSound
<1>2. Len(s) \in Nat /\ Len(s) > 0 /\ Len(Tail(s)) = Len(s) - 1
  BY <1>1, HeadTailProperties, LenProperties, EmptySeq
<1>3. popped[a] \in Nat /\ count[a] \in Nat /\ popped'[a] = popped[a] + 1
  BY <1>t, <1>1 DEF TypeOK
<1>4. c \in 1..Len(s)
  BY <1>1, <1>2, <1>3
<1>5. \A y \in Addr : Claimed(y) = IF y = x THEN c ELSE 0
  BY <1>1 DEF Claimed, Notifying
<1>6. \A y \in Addr : Claimed(y)' = IF y = x THEN c - 1 ELSE 0
  <2>1. Notifying(x)' /\ \A y \in Addr : y # x => ~ Notifying(y)'
    BY <1>1 DEF Notifying
  <2>2. Claimed(x)' = IF count[a] - popped'[a] < Len(Tail(s)) THEN count[a] - popped'[a]
                                                            ELSE Len(Tail(s))
    BY <1>1, <2>1 DEF Claimed
  <2>3. \A y \in Addr : y # x => Claimed(y)' = 0
    BY <2>1 DEF Claimed
  <2>4. Claimed(x)' = c - 1
    BY <1>2, <1>3, <2>2
  <2> QED BY <2>3, <2>4
<1>7. /\ h \in Waiters /\ Contains(s, h) /\ h = s[1]
      /\ \A w : Contains(Tail(s), w) <=> Contains(s, w) /\ w # h
      /\ \A i \in 1..Len(s) - 1 : Tail(s)[i] = s[i + 1]
  <2>1. h = s[1]
    OBVIOUS
  <2>2. /\ h \in Waiters /\ Contains(s, h)
        /\ \A w : Contains(Tail(s), w) <=> Contains(s, w) /\ w # h
    BY <1>1, TailFacts
  <2>3. \A i \in 1..Len(s) - 1 : Tail(s)[i] = s[i + 1]
    BY <1>1, <1>2, HeadTailProperties
  <2> QED BY <2>1, <2>2, <2>3
<1>8. AbsList' = AbsList
  <2>1. SubSeq(Tail(s), c - 1 + 1, Len(Tail(s))) = SubSeq(s, c + 1, Len(s))
    <3>1. c - 1 + 1 = c
      BY <1>4
    <3> QED BY <1>1, <1>4, <3>1, DropHead
  <2>2. \A y \in Addr : SubSeq(waiters'[y], Claimed(y)' + 1, Len(waiters'[y]))
                        = SubSeq(waiters[y], Claimed(y) + 1, Len(waiters[y]))
    <3> TAKE y \in Addr
    <3>1. CASE y = x
      <4>1. Claimed(y) = c /\ Claimed(y)' = c - 1
        BY ONLY <1>5, <1>6, <3>1, y \in Addr
      <4>2. waiters'[y] = Tail(s) /\ waiters[y] = s
        BY <1>1, <3>1
      <4> QED BY ONLY <2>1, <4>1, <4>2
    <3>2. CASE y # x
      <4>1. Claimed(y) = 0 /\ Claimed(y)' = 0
        BY ONLY <1>5, <1>6, <3>2, y \in Addr
      <4>2. waiters'[y] = waiters[y]
        BY <1>1, <3>2
      <4> QED BY ONLY <4>1, <4>2
    <3> QED BY <3>1, <3>2
  <2> QED BY <2>2 DEF AbsList
<1>9. /\ h \in Agents => pc[h] \in Linkable /\ chan' = chan
      /\ h \notin Agents => chan[h] = "empty" /\ chan' = [chan EXCEPT ![h] = "ok"]
      /\ rec[h].addr = x
  BY <1>t, <1>1, <1>7 DEF Pop, ListsAreSound
<1>10. StatusOf(h) = "ok" /\ StatusOf(h)' = "ok"
  <2>1. IsClaimed(h)
    <3>1. Claimed(rec[h].addr) = c
      BY ONLY <1>1, <1>5, <1>9
    <3>2. 1 \in 1..Claimed(rec[h].addr)
      BY ONLY <3>1, <1>4
    <3>3. waiters[rec[h].addr][1] = h
      BY ONLY <1>7, <1>9, s = waiters[x]
    <3> QED BY ONLY <3>2, <3>3 DEF IsClaimed
  <2>2. ~ Linked(h)'
    BY <1>1, <1>7, <1>9 DEF Linked
  <2>3. CASE h \in Agents
    BY <1>1, <1>9, <2>1, <2>2, <2>3 DEF StatusOf
  <2>4. CASE h \notin Agents
    BY <1>t, <1>7, <1>9, <2>1, <2>4 DEF StatusOf, TypeOK, Waiters
  <2> QED BY <2>3, <2>4
<1>11. ASSUME NEW w \in Waiters, w # h
       PROVE  StatusOf(w)' = StatusOf(w)
  <2>1. rec'[w] = rec[w] /\ rec[w].addr \in Addr
    BY <1>1, <1>t, ListedFacts
  <2>2. Linked(w)' <=> Linked(w)
    BY <1>1, <1>7, <1>11, <2>1 DEF Linked
  <2>3. IsClaimed(w)' <=> IsClaimed(w)
    <3>1. CASE rec[w].addr # x
      <4>1. Claimed(rec[w].addr) = 0 /\ Claimed(rec[w].addr)' = 0
        BY <1>5, <1>6, <2>1, <3>1
      <4> QED BY <2>1, <4>1 DEF IsClaimed
    <3>2. CASE rec[w].addr = x
      <4>1. IsClaimed(w) <=> \E i \in 1..c : s[i] = w
        BY <1>1, <1>5, <3>2 DEF IsClaimed
      <4>2. IsClaimed(w)' <=> \E i \in 1..c - 1 : Tail(s)[i] = w
        BY <1>1, <1>6, <2>1, <3>2 DEF IsClaimed
      <4>3. ASSUME NEW i \in 1..c, s[i] = w PROVE \E j \in 1..c - 1 : Tail(s)[j] = w
        <5>1. i # 1
          BY <1>7, <1>11, <4>3
        <5>2. i - 1 \in 1..c - 1 /\ i - 1 \in 1..Len(s) - 1 /\ (i - 1) + 1 = i
          BY <1>2, <1>4, <5>1
        <5> QED BY <1>7, <4>3, <5>2
      <4>4. ASSUME NEW j \in 1..c - 1, Tail(s)[j] = w PROVE \E i \in 1..c : s[i] = w
        <5>1. j + 1 \in 1..c /\ j \in 1..Len(s) - 1
          BY <1>2, <1>4
        <5> QED BY <1>7, <4>4, <5>1
      <4> QED BY <4>1, <4>2, <4>3, <4>4
    <3> QED BY <3>1, <3>2
  <2>4. w \in Async => chan'[w] = chan[w]
    BY <1>t, <1>9, <1>11 DEF TypeOK
  <2> QED BY <1>1, <2>2, <2>3, <2>4 DEF StatusOf, Waiters
<1>12. AbsStatus' = AbsStatus
  BY <1>10, <1>11 DEF AbsStatus
<1>13. AbsReturned' = AbsReturned
  <2>1. \A b \in Agents : b # a => pc[b] # "pop" /\ popped'[b] = popped[b]
    BY <1>t, <1>1 DEF CriticalSection, Holding, TypeOK
  <2>2. popped'[a] + Claimed(x)' = popped[a] + Claimed(x)
    <3>1. Claimed(x) = c /\ Claimed(x)' = c - 1 /\ c \in Int
      BY <1>1, <1>2, <1>4, <1>5, <1>6
    <3>2. popped'[a] + Claimed(x)' = (popped[a] + 1) + (c - 1)
      BY <1>3, <3>1, Zenon
    <3>3. (popped[a] + 1) + (c - 1) = popped[a] + c
      <4>1. \A p, d \in Int : (p + 1) + (d - 1) = p + d
        OBVIOUS
      <4>2. \A p \in Nat : p \in Int
        OBVIOUS
      <4> QED BY <1>3, <3>1, <4>1, <4>2, Zenon
    <3>4. popped[a] + c = popped[a] + Claimed(x)
      BY <3>1, Zenon
    <3> QED BY <3>2, <3>3, <3>4, Zenon
  <2> QED BY <1>1, <2>1, <2>2 DEF AbsReturned
<1> QED BY <1>8, <1>12, <1>13 DEF Abstract!absVars

\* When the loop ends nothing is claimed any more.
LEMMA EndNotifyRefines ==
  ASSUME RInv, RInv', NEW a \in Agents, EndNotify(a)
  PROVE  UNCHANGED Abstract!absVars
<1>t. IInv /\ IInv' /\ TypeOK /\ CriticalSection /\ a \in Waiters
  BY DEF RInv, IInv, Waiters
<1>1. pc[a] = "pop" /\ lock = a /\ rec[a].addr \in Addr
  <2>1. pc[a] = "pop"
    BY DEF EndNotify
  <2>2. TypeOK /\ ListsAreSound
    BY DEF RInv, IInv
  <2> QED BY <1>t, <2>1, <2>2, ListedFacts DEF CriticalSection, Holding
<1>2. \A y \in Addr : Claimed(y) = 0
  <2>1. /\ popped[a] \in Nat /\ count[a] \in Nat
        /\ \A y \in Addr : Len(waiters[y]) \in Nat
    BY <1>t, LenProperties DEF TypeOK
  <2>2. popped[a] = count[a] \/ waiters[rec[a].addr] = <<>>
    BY DEF EndNotify
  <2>3. popped[a] <= count[a]
    BY <1>1 DEF RInv, PopsAreBounded
  <2>4. Len(<<>>) = 0
    BY EmptySeq
  <2> QED BY <1>1, <2>1, <2>2, <2>3, <2>4 DEF Claimed, Notifying
<1>3. NobodyNotifies'
  BY <1>t, <1>1 DEF EndNotify, NobodyNotifies, CriticalSection, Holding, TypeOK
<1>4. MappingIsPlain /\ MappingIsPlain'
  BY <1>t, <1>2, <1>3, UnclaimedMapping, PlainMappingNext
<1>5. UNCHANGED <<waiters, popped, chan, result>>
  BY DEF EndNotify, asyncVars
<1>6. \A w \in Waiters : w # a => Plain(w)' = Plain(w)
  BY <1>t, <1>5, OthersKeepStatus DEF EndNotify, Discard, TypeOK
<1>7. Plain(a)' = Plain(a)
  BY <1>t, <1>1, <1>5 DEF EndNotify, Plain, Linkable, TypeOK
<1>8. [w \in Waiters |-> Plain(w)]' = [w \in Waiters |-> Plain(w)]
  BY <1>6, <1>7
<1> QED BY <1>4, <1>5, <1>8 DEF MappingIsPlain, Abstract!absVars

------------------------------------------------------------------------------
\* Every step maps to a step of the abstract lists or to none.
LEMMA NextMapping == RInv /\ RInv' /\ [Next]_vars => [Abstract!Next]_Abstract!absVars
<1> SUFFICES ASSUME RInv, RInv', [Next]_vars
             PROVE  [Abstract!Next]_Abstract!absVars
  OBVIOUS
<1>t. IInv /\ IInv'
  BY DEF RInv
<1>1. ASSUME NEW a \in Agents, Program(a) PROVE [Abstract!Next]_Abstract!absVars
  <2>1. CASE (\E x \in Addr, v \in Val : Store(a, x, v)) \/ DropJobs(a)
    BY <1>t, <2>1, UnseenStep DEF Store, DropJobs, asyncVars
  <2>2. ASSUME NEW at \in {"load", "loadAsync"}, NEW x \in Addr, NEW v \in Val,
               NEW t \in Timeouts, Begin(a, at, x, v, t)
        PROVE  [Abstract!Next]_Abstract!absVars
    BY <2>2, BeginRefines
  <2>3. ASSUME NEW x \in Addr, NEW n \in Counts, BeginNotify(a, x, n)
        PROVE  [Abstract!Next]_Abstract!absVars
    BY <2>3, BeginNotifyRefines DEF Abstract!Next
  <2>4. "finite" \in Timeouts /\ "none" \in Timeouts
    BY DEF Timeouts
  <2> QED BY <1>1, <2>1, <2>2, <2>3, <2>4 DEF Program, BeginWait, BeginWaitAsync
<1>2. ASSUME NEW a \in Agents, Internal(a) \/ SpuriousWake(a)
      PROVE  [Abstract!Next]_Abstract!absVars
  <2>1. CASE \/ Load(a) \/ Push(a) \/ CheckNotified(a) \/ CheckTimedOut(a) \/ Sleep(a)
             \/ Reacquire(a)
    BY <2>1, WaitRefines
  <2>2. CASE LoadAsync(a) \/ \E i \in Async : PushAsync(a, i)
    BY <2>2, AsyncRefines
  <2>3. CASE Wake(a) \/ SpuriousWake(a)
    <3>1. /\ UNCHANGED <<lock, waiters, rec, count, popped, result, chan>>
          /\ pc' = [pc EXCEPT ![a] = "awake"] /\ pc[a] = "asleep"
      BY <2>3 DEF Wake, SpuriousWake, asyncVars
    <3>2. \A b \in Agents : \/ pc'[b] = pc[b]
                            \/ pc[b] \in Linkable /\ pc'[b] \in Linkable
      BY <1>t, <3>1 DEF Linkable, IInv, TypeOK
    <3> QED BY <1>t, <3>1, <3>2, UnseenStep
  <2>4. CASE Pop(a) \/ EndNotify(a)
    BY <2>4, PopRefines, EndNotifyRefines
  <2> QED BY <1>2, <2>1, <2>2, <2>3, <2>4 DEF Internal
<1>3. ASSUME NEW a \in Agents, Jobs(a) PROVE [Abstract!Next]_Abstract!absVars
  <2>1. CASE \E i \in Async : RunTimer(a, i)
    BY <2>1, AsyncRefines
  <2>2. CASE \E i \in Async : RunJob(a, i)
    BY <1>t, <2>2, UnseenStep DEF RunJob
  <2> QED BY <1>3, <2>1, <2>2 DEF Jobs
<1>4. ASSUME NEW w \in Waiters, Expire(w) PROVE [Abstract!Next]_Abstract!absVars
  BY <1>t, <1>4, UnseenStep DEF Expire, asyncVars
<1>5. CASE UNCHANGED vars
  BY <1>t, <1>5, UnseenStep DEF vars, asyncVars
<1> QED BY <1>1, <1>2, <1>3, <1>4, <1>5 DEF Next

\* The lists of futex.rs, taken and changed one waiter at a time by any number
\* of threads, are the first-in first-out waiter lists of ECMAScript.
THEOREM FutexImplementsWaiterLists == Spec => ImplementsWaiterLists
<1>1. Spec => []RInv
  BY InitRInv, NextRInv, PTL DEF Spec
<1> QED BY <1>1, InitMapping, NextMapping, PTL DEF Spec, ImplementsWaiterLists, Abstract!Spec

==============================================================================
