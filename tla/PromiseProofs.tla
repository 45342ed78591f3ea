---------------------------- MODULE PromiseProofs ----------------------------
(****************************************************************************)
(* Proofs about Promises, for any number of promises, pairs of resolving    *)
(* functions, reactions and frames, and about PromiseCombinators, for any   *)
(* number of elements and calls.                                            *)
(*                                                                          *)
(* A step of Promises first takes something from the stack or the queue and *)
(* then calls a resolving function or registers a reaction on what is left: *)
(* the invariants are predicates of a queue and a stack, so that the two    *)
(* halves of a step are lemmas of their own.                                *)
(****************************************************************************)
EXTENDS Promises, PromiseCombinators, SequenceFacts, FiniteSetTheorems, SequenceTheorems, TLAPS

----------------------------------------------------------------------------
(* Which elements of a queue or a stack are in a set T.                     *)

\* No element is in T.
NoReactions(s, T) == \A i \in 1..Len(s) : s[i] \notin T

\* Exactly one is.
Single(s, T) ==
  \E i \in 1..Len(s) : s[i] \in T /\ \A j \in 1..Len(s) : s[j] \in T => j = i

\* A function of 1..n is a sequence.
LEMMA FunctionIsSeq ==
  ASSUME NEW S, NEW n \in Nat, NEW f, f = [i \in 1..n |-> f[i]], \A i \in 1..n : f[i] \in S
  PROVE  f \in Seq(S) /\ Len(f) = n
<1>1. f \in [1..n -> S]
  OBVIOUS
<1>2. f \in Seq(S)
  BY <1>1, SeqDef
<1> QED BY <1>1, <1>2, LenProperties

\* Pushing a frame or queueing a job that is not in T.
LEMMA AppendOther ==
  ASSUME NEW S, NEW s \in Seq(S), NEW T, NEW e \in S, e \notin T
  PROVE  /\ NoReactions(s, T) => NoReactions(Append(s, e), T)
         /\ Single(s, T) => Single(Append(s, e), T)
<1> DEFINE t == Append(s, e)
<1>1. /\ Len(s) \in Nat /\ Len(t) = Len(s) + 1
      /\ \A i \in 1..Len(s) : t[i] = s[i]
      /\ t[Len(t)] = e
  BY AppendProperties, LenProperties
<1> HIDE DEF t
<1>2. \A i \in 1..Len(t) : i \in 1..Len(s) \/ i = Len(t)
  BY <1>1
<1>3. \A i \in 1..Len(s) : i \in 1..Len(t)
  BY <1>1
<1>4. NoReactions(s, T) => NoReactions(t, T)
  BY <1>1, <1>2 DEF NoReactions
<1>5. Single(s, T) => Single(t, T)
  BY <1>1, <1>2, <1>3 DEF Single
<1> QED BY <1>4, <1>5 DEF t

\* Pushing a frame or queueing a job that is the first of T.
LEMMA AppendFirst ==
  ASSUME NEW S, NEW s \in Seq(S), NEW T, NEW e \in S, e \in T, NoReactions(s, T)
  PROVE  Single(Append(s, e), T)
<1> DEFINE t == Append(s, e)
<1>1. /\ Len(s) \in Nat /\ Len(t) = Len(s) + 1
      /\ \A i \in 1..Len(s) : t[i] = s[i]
      /\ t[Len(t)] = e
  BY AppendProperties, LenProperties
<1> HIDE DEF t
<1>2. \A i \in 1..Len(t) : i \in 1..Len(s) \/ i = Len(t)
  BY <1>1
<1>3. Len(t) \in 1..Len(t)
  BY <1>1
<1>4. Single(t, T)
  BY <1>1, <1>2, <1>3 DEF NoReactions, Single
<1> QED BY <1>4 DEF t

\* The reactions of a settled promise are queued together.
LEMMA ConcatOther ==
  ASSUME NEW S, NEW s \in Seq(S), NEW t \in Seq(S), NEW T, NoReactions(t, T)
  PROVE  /\ NoReactions(s, T) => NoReactions(s \o t, T)
         /\ Single(s, T) => Single(s \o t, T)
<1> DEFINE u == s \o t
<1>1. /\ Len(s) \in Nat /\ Len(t) \in Nat /\ Len(u) = Len(s) + Len(t)
      /\ \A i \in 1..Len(s) + Len(t) : u[i] = IF i <= Len(s) THEN s[i] ELSE t[i - Len(s)]
  BY ConcatProperties, LenProperties
<1> HIDE DEF u
<1>2. \A i \in 1..Len(s) : i \in 1..Len(u) /\ u[i] = s[i]
  BY <1>1
<1>3. ASSUME NEW i \in 1..Len(u), u[i] \in T PROVE i \in 1..Len(s)
  <2> SUFFICES ASSUME i \notin 1..Len(s) PROVE FALSE
    OBVIOUS
  <2>1. i - Len(s) \in 1..Len(t) /\ ~ (i <= Len(s)) /\ i \in 1..Len(s) + Len(t)
    BY <1>1
  <2>2. u[i] = t[i - Len(s)]
    BY <1>1, <2>1
  <2> QED BY <1>3, <2>1, <2>2 DEF NoReactions
<1>4. NoReactions(s, T) => NoReactions(u, T)
  BY <1>2, <1>3 DEF NoReactions
<1>5. Single(s, T) => Single(u, T)
  BY <1>2, <1>3 DEF Single
<1> QED BY <1>4, <1>5 DEF u

\* The head of the queue is taken.
LEMMA TailOther ==
  ASSUME NEW S, NEW s \in Seq(S), s # <<>>, NEW T
  PROVE  /\ NoReactions(s, T) => NoReactions(Tail(s), T)
         /\ Single(s, T) /\ Head(s) \notin T => Single(Tail(s), T)
         /\ Single(s, T) /\ Head(s) \in T => NoReactions(Tail(s), T)
<1> DEFINE t == Tail(s)
<1>1. /\ Len(s) \in Nat \ {0} /\ Len(t) = Len(s) - 1
      /\ \A i \in 1..Len(t) : t[i] = s[i + 1]
  BY HeadTailProperties, EmptySeq
<1>2. Head(s) = s[1]
  OBVIOUS
<1> HIDE DEF t
<1>3. \A i \in 1..Len(t) : i + 1 \in 1..Len(s) /\ i + 1 # 1
  BY <1>1
<1>4. \A i \in 1..Len(s) : i # 1 => i - 1 \in 1..Len(t) /\ (i - 1) + 1 = i
  BY <1>1
<1>5. NoReactions(s, T) => NoReactions(t, T)
  BY <1>1, <1>3 DEF NoReactions
<1>6. ASSUME Single(s, T), s[1] \notin T PROVE Single(t, T)
  <2>1. PICK i \in 1..Len(s) : s[i] \in T /\ \A j \in 1..Len(s) : s[j] \in T => j = i
    BY <1>6 DEF Single
  <2>2. i - 1 \in 1..Len(t) /\ t[i - 1] \in T
    BY <1>1, <1>4, <1>6, <2>1
  <2>3. ASSUME NEW j \in 1..Len(t), t[j] \in T PROVE j = i - 1
    <3>1. j + 1 = i
      BY <1>1, <1>3, <2>1, <2>3
    <3> QED BY <3>1
  <2> QED BY <2>2, <2>3 DEF Single
<1>7. ASSUME Single(s, T), s[1] \in T PROVE NoReactions(t, T)
  <2>1. 1 \in 1..Len(s)
    BY <1>1
  <2> QED BY <1>1, <1>3, <1>7, <2>1 DEF Single, NoReactions
<1> QED BY <1>2, <1>5, <1>6, <1>7 DEF t

\* The innermost frame is left.
LEMMA FrontOther ==
  ASSUME NEW S, NEW s \in Seq(S), s # <<>>, NEW T
  PROVE  /\ Front(s) \in Seq(S)
         /\ Len(Front(s)) = Len(s) - 1
         /\ Last(s) \in S
         /\ NoReactions(s, T) => NoReactions(Front(s), T)
         /\ Single(s, T) /\ Last(s) \notin T => Single(Front(s), T)
         /\ Single(s, T) /\ Last(s) \in T => NoReactions(Front(s), T)
<1> DEFINE t == Front(s)
           n == Len(s)
<1>1. n \in Nat \ {0} /\ n \in 1..n /\ \A i \in 1..n : s[i] \in S
  BY EmptySeq, ElementOfSeq
<1> HIDE DEF n
<1>2. t \in Seq(S) /\ Len(t) = n - 1 /\ \A i \in 1..n - 1 : t[i] = s[i]
  <2>1. \A i \in 1..n - 1 : s[i] \in S
    BY <1>1
  <2>2. n - 1 \in Int /\ (n - 1) - 1 + 1 = n - 1 /\ \A i \in 1..n - 1 : 1 + i - 1 = i
    BY <1>1
  <2>3. /\ t \in Seq(S)
        /\ Len(t) = IF 1 <= n - 1 THEN (n - 1) - 1 + 1 ELSE 0
        /\ \A i \in 1..(n - 1) - 1 + 1 : t[i] = s[1 + i - 1]
    BY <2>1, <2>2, SubSeqProperties DEF Front, n
  <2> HIDE DEF t
  <2>4. Len(t) = n - 1
    BY <1>1, <2>3
  <2> QED BY <2>2, <2>3, <2>4
<1>3. Last(s) = s[n]
  BY DEF Last, n
<1> HIDE DEF t
<1>4. \A i \in 1..Len(t) : i \in 1..n /\ i # n /\ t[i] = s[i]
  BY <1>1, <1>2
<1>5. \A i \in 1..n : i # n => i \in 1..Len(t)
  BY <1>1, <1>2
<1>6. NoReactions(s, T) => NoReactions(t, T)
  BY <1>4 DEF NoReactions, n
<1>7. Single(s, T) /\ s[n] \notin T => Single(t, T)
  BY <1>4, <1>5 DEF Single, n
<1>8. Single(s, T) /\ s[n] \in T => NoReactions(t, T)
  BY <1>1, <1>4 DEF Single, NoReactions, n
<1> QED BY <1>1, <1>2, <1>3, <1>6, <1>7, <1>8 DEF t, n

----------------------------------------------------------------------------
(* The reaction jobs in T, in a queue: they have the numbers from lo to hi, *)
(* in that order.                                                           *)

NumberOf(e) == e.reaction.number

InOrder(s, T, lo, hi) ==
  /\ \A i \in 1..Len(s) : s[i] \in T => NumberOf(s[i]) \in lo..hi
  /\ \A n \in lo..hi : \E i \in 1..Len(s) : s[i] \in T /\ NumberOf(s[i]) = n
  /\ \A i, j \in 1..Len(s) :
       i < j /\ s[i] \in T /\ s[j] \in T => NumberOf(s[i]) < NumberOf(s[j])

\* A job of another promise is queued.
LEMMA OrderAppendOther ==
  ASSUME NEW S, NEW s \in Seq(S), NEW T, NEW e \in S, e \notin T,
         NEW lo \in Nat, NEW hi \in Nat, InOrder(s, T, lo, hi)
  PROVE  InOrder(Append(s, e), T, lo, hi)
<1> DEFINE t == Append(s, e)
<1>1. /\ Len(s) \in Nat /\ Len(t) = Len(s) + 1
      /\ \A i \in 1..Len(s) : t[i] = s[i]
      /\ t[Len(t)] = e
  BY AppendProperties, LenProperties
<1> HIDE DEF t
<1>2. \A i \in 1..Len(t) : t[i] \in T => i \in 1..Len(s)
  BY <1>1
<1>3. \A i \in 1..Len(s) : i \in 1..Len(t)
  BY <1>1
<1>4. InOrder(t, T, lo, hi)
  BY <1>1, <1>2, <1>3 DEF InOrder
<1> QED BY <1>4 DEF t

\* The job of a reaction of a settled promise goes to the end of the queue.
LEMMA OrderAppendNext ==
  ASSUME NEW S, NEW s \in Seq(S), NEW T, NEW e \in S, e \in T,
         NEW lo \in Nat, NEW hi \in Nat, lo <= hi + 1,
         NumberOf(e) = hi + 1, InOrder(s, T, lo, hi)
  PROVE  InOrder(Append(s, e), T, lo, hi + 1)
<1> DEFINE t == Append(s, e)
<1>1. /\ Len(s) \in Nat /\ Len(t) = Len(s) + 1
      /\ \A i \in 1..Len(s) : t[i] = s[i]
      /\ t[Len(t)] = e
  BY AppendProperties, LenProperties
<1> HIDE DEF t
<1>2. \A i \in 1..Len(t) : i \in 1..Len(s) \/ i = Len(t)
  BY <1>1
<1>3. Len(t) \in 1..Len(t) /\ \A i \in 1..Len(s) : i \in 1..Len(t) /\ ~ (Len(t) < i)
  BY <1>1
<1>4. \A i \in 1..Len(t) : t[i] \in T => NumberOf(t[i]) \in lo..hi + 1
  <2>1. hi + 1 \in lo..hi + 1 /\ \A n \in lo..hi : n \in lo..hi + 1
    OBVIOUS
  <2> QED BY <1>1, <1>2, <2>1 DEF InOrder
<1>5. ASSUME NEW n \in lo..hi + 1
      PROVE  \E i \in 1..Len(t) : t[i] \in T /\ NumberOf(t[i]) = n
  <2>1. CASE n = hi + 1
    BY <1>1, <1>3, <2>1
  <2>2. CASE n \in lo..hi
    BY <1>1, <1>3, <2>2 DEF InOrder
  <2> QED BY <2>1, <2>2
<1>6. ASSUME NEW i \in 1..Len(t), NEW j \in 1..Len(t), i < j, t[i] \in T, t[j] \in T
      PROVE  NumberOf(t[i]) < NumberOf(t[j])
  <2>1. i \in 1..Len(s)
    BY <1>1, <1>6
  <2>2. CASE j \in 1..Len(s)
    BY <1>1, <1>6, <2>1, <2>2 DEF InOrder
  <2>3. CASE j = Len(t)
    <3>1. NumberOf(t[i]) \in lo..hi
      BY <1>1, <1>6, <2>1 DEF InOrder
    <3>2. NumberOf(t[j]) = hi + 1
      BY <1>1, <2>3
    <3> QED BY <3>1, <3>2
  <2> QED BY <1>2, <2>2, <2>3
<1>7. InOrder(t, T, lo, hi + 1)
  BY <1>4, <1>5, <1>6 DEF InOrder
<1> QED BY <1>7 DEF t

\* The reactions of another promise are queued together.
LEMMA OrderConcatOther ==
  ASSUME NEW S, NEW s \in Seq(S), NEW t \in Seq(S), NEW T, NoReactions(t, T),
         NEW lo \in Nat, NEW hi \in Nat, InOrder(s, T, lo, hi)
  PROVE  InOrder(s \o t, T, lo, hi)
<1> DEFINE u == s \o t
<1>1. /\ Len(s) \in Nat /\ Len(t) \in Nat /\ Len(u) = Len(s) + Len(t)
      /\ \A i \in 1..Len(s) + Len(t) : u[i] = IF i <= Len(s) THEN s[i] ELSE t[i - Len(s)]
  BY ConcatProperties, LenProperties
<1> HIDE DEF u
<1>2. \A i \in 1..Len(s) : i \in 1..Len(u) /\ u[i] = s[i]
  BY <1>1
<1>3. ASSUME NEW i \in 1..Len(u), u[i] \in T PROVE i \in 1..Len(s)
  <2> SUFFICES ASSUME i \notin 1..Len(s) PROVE FALSE
    OBVIOUS
  <2>1. i - Len(s) \in 1..Len(t) /\ ~ (i <= Len(s)) /\ i \in 1..Len(s) + Len(t)
    BY <1>1
  <2>2. u[i] = t[i - Len(s)]
    BY <1>1, <2>1
  <2> QED BY <1>3, <2>1, <2>2 DEF NoReactions
<1>4. InOrder(u, T, lo, hi)
  BY <1>2, <1>3 DEF InOrder
<1> QED BY <1>4 DEF u

\* The reactions of a promise are queued together when it is settled.
LEMMA OrderConcatAll ==
  ASSUME NEW S, NEW s \in Seq(S), NEW t \in Seq(S), NEW T, NoReactions(s, T),
         \A i \in 1..Len(t) : t[i] \in T /\ NumberOf(t[i]) = i
  PROVE  InOrder(s \o t, T, 1, Len(t))
<1> DEFINE u == s \o t
           n == Len(s)
           k == Len(t)
<1>1. /\ n \in Nat /\ k \in Nat /\ Len(u) = n + k
      /\ \A i \in 1..n + k : u[i] = IF i <= n THEN s[i] ELSE t[i - n]
  BY ConcatProperties, LenProperties
<1>2. /\ \A i \in 1..k : t[i] \in T /\ NumberOf(t[i]) = i
      /\ \A i \in 1..n : s[i] \notin T
  BY DEF NoReactions
<1> HIDE DEF u, n, k
<1>3. ASSUME NEW i \in 1..Len(u), u[i] \in T
      PROVE  i - n \in 1..k /\ NumberOf(u[i]) = i - n
  <2>1. i \in 1..n + k /\ i \notin 1..n
    BY ONLY <1>1, <1>2, <1>3, i \in 1..Len(u)
  <2>2. ~ (i <= n) /\ i - n \in 1..k
    BY ONLY <1>1, <2>1
  <2> QED BY <1>1, <1>2, <2>1, <2>2
<1>4. ASSUME NEW m \in 1..k
      PROVE  m + n \in 1..Len(u) /\ u[m + n] \in T /\ NumberOf(u[m + n]) = m
  <2>1. m + n \in 1..n + k /\ ~ (m + n <= n) /\ (m + n) - n = m
    BY ONLY <1>1, m \in 1..k
  <2> QED BY <1>1, <1>2, <2>1
<1>5. ASSUME NEW i \in 1..Len(u), NEW j \in 1..Len(u), i < j, u[i] \in T, u[j] \in T
      PROVE  NumberOf(u[i]) < NumberOf(u[j])
  <2>1. NumberOf(u[i]) = i - n /\ NumberOf(u[j]) = j - n
    BY <1>3, <1>5
  <2>2. i \in Int /\ j \in Int /\ n \in Int
    BY <1>1
  <2> QED BY <1>5, <2>1, <2>2
<1>6. InOrder(u, T, 1, k)
  BY <1>3, <1>4, <1>5 DEF InOrder
<1> QED BY <1>6 DEF u, k

\* The head of the queue is the job of another promise.
LEMMA OrderTailOther ==
  ASSUME NEW S, NEW s \in Seq(S), s # <<>>, NEW T, Head(s) \notin T,
         NEW lo \in Nat, NEW hi \in Nat, InOrder(s, T, lo, hi)
  PROVE  InOrder(Tail(s), T, lo, hi)
<1> DEFINE t == Tail(s)
<1>1. /\ Len(s) \in Nat \ {0} /\ Len(t) = Len(s) - 1
      /\ \A i \in 1..Len(t) : t[i] = s[i + 1]
  BY HeadTailProperties, EmptySeq
<1>2. s[1] \notin T
  OBVIOUS
<1> HIDE DEF t
<1>3. \A i \in 1..Len(t) : i + 1 \in 1..Len(s)
  BY <1>1
<1>4. \A i, j \in 1..Len(t) : i < j => i + 1 < j + 1
  BY <1>1
<1>5. ASSUME NEW i \in 1..Len(s), s[i] \in T PROVE i - 1 \in 1..Len(t) /\ t[i - 1] = s[i]
  <2>1. i - 1 \in 1..Len(t) /\ (i - 1) + 1 = i
    BY <1>1, <1>2, <1>5
  <2> QED BY <1>1, <2>1
<1>6. InOrder(t, T, lo, hi)
  <2>1. \A i \in 1..Len(t) : t[i] \in T => NumberOf(t[i]) \in lo..hi
    BY <1>1, <1>3 DEF InOrder
  <2>2. \A n \in lo..hi : \E i \in 1..Len(t) : t[i] \in T /\ NumberOf(t[i]) = n
    BY <1>5 DEF InOrder
  <2>3. \A i, j \in 1..Len(t) :
           i < j /\ t[i] \in T /\ t[j] \in T => NumberOf(t[i]) < NumberOf(t[j])
    BY <1>1, <1>3, <1>4 DEF InOrder
  <2> QED BY <2>1, <2>2, <2>3 DEF InOrder
<1> QED BY <1>6 DEF t

\* The head of the queue is the job of this promise: its reaction is the next.
LEMMA OrderTailNext ==
  ASSUME NEW S, NEW s \in Seq(S), s # <<>>, NEW T, Head(s) \in T,
         NEW lo \in Nat, NEW hi \in Nat, InOrder(s, T, lo, hi)
  PROVE  /\ NumberOf(Head(s)) = lo /\ lo <= hi
         /\ InOrder(Tail(s), T, lo + 1, hi)
<1> DEFINE t == Tail(s)
<1>1. /\ Len(s) \in Nat \ {0} /\ Len(t) = Len(s) - 1
      /\ \A i \in 1..Len(t) : t[i] = s[i + 1]
  BY HeadTailProperties, EmptySeq
<1>2. Head(s) = s[1] /\ s[1] \in T
  OBVIOUS
<1> HIDE DEF t
<1>3. 1 \in 1..Len(s) /\ \A i \in 1..Len(s) : i # 1 => 1 < i
  BY <1>1
<1>4. NumberOf(s[1]) \in lo..hi
  BY <1>2, <1>3 DEF InOrder
<1>5. \A i \in 1..Len(s) : i # 1 /\ s[i] \in T => NumberOf(s[1]) < NumberOf(s[i])
  BY <1>2, <1>3 DEF InOrder
<1>6. NumberOf(s[1]) = lo
  <2>1. lo \in lo..hi
    BY <1>4
  <2>2. PICK i \in 1..Len(s) : s[i] \in T /\ NumberOf(s[i]) = lo
    BY <2>1 DEF InOrder
  <2>3. CASE i = 1
    BY <2>2, <2>3
  <2>4. CASE i # 1
    <3>1. NumberOf(s[1]) < lo
      BY <1>5, <2>2, <2>4
    <3> QED BY <1>4, <3>1
  <2> QED BY <2>3, <2>4
<1>7. \A i \in 1..Len(t) : i + 1 \in 1..Len(s) /\ i + 1 # 1
  BY <1>1
<1>8. \A i, j \in 1..Len(t) : i < j => i + 1 < j + 1
  BY <1>1
<1>9. ASSUME NEW i \in 1..Len(s), i # 1 PROVE i - 1 \in 1..Len(t) /\ t[i - 1] = s[i]
  <2>1. i - 1 \in 1..Len(t) /\ (i - 1) + 1 = i
    BY <1>1, <1>9
  <2> QED BY <1>1, <2>1
<1>10. InOrder(t, T, lo + 1, hi)
  <2>1. ASSUME NEW i \in 1..Len(t), t[i] \in T PROVE NumberOf(t[i]) \in lo + 1..hi
    <3>1. NumberOf(t[i]) \in lo..hi /\ lo < NumberOf(t[i])
      BY <1>1, <1>5, <1>6, <1>7, <2>1 DEF InOrder
    <3> QED BY <3>1
  <2>2. ASSUME NEW n \in lo + 1..hi
        PROVE  \E i \in 1..Len(t) : t[i] \in T /\ NumberOf(t[i]) = n
    <3>1. n \in lo..hi /\ n # lo
      OBVIOUS
    <3>2. PICK i \in 1..Len(s) : s[i] \in T /\ NumberOf(s[i]) = n
      BY <3>1 DEF InOrder
    <3>3. i # 1
      BY <1>6, <3>1, <3>2
    <3> QED BY <1>9, <3>2, <3>3
  <2>3. \A i, j \in 1..Len(t) :
           i < j /\ t[i] \in T /\ t[j] \in T => NumberOf(t[i]) < NumberOf(t[j])
    BY <1>1, <1>7, <1>8 DEF InOrder
  <2> QED BY <2>1, <2>2, <2>3 DEF InOrder
<1> QED BY <1>2, <1>4, <1>6, <1>10 DEF t

----------------------------------------------------------------------------
(* The inductive invariant.                                                 *)

\* What is in a reaction, a job or a frame exists.
LiveReaction(c) ==
  {r \in Reaction :
     /\ IF r.handler = Awaiting THEN r.cap = Taken ELSE r.cap \in Pair /\ c[r.cap] # Unused
     /\ r.handler \in Pair => c[r.handler] # Unused}

\* The handler and capability of a reaction job were made; so was the promise
\* that a thenable job will call `then` of.
LiveJob(st, c) ==
  {j \in Job : IF j.kind = "reaction" THEN j.reaction \in LiveReaction(c)
                                      ELSE j.value \in Promise => st[j.value] # "absent"}

\* A frame that will call a function of a pair: the pair was made.
LiveFrame(c) ==
  {k \in NativeFrame : k.kind \in {"handler", "native", "then"} => c[k.id] # Unused}

\* The fields of the promise objects and the tracker's set.
ObjectTypes(st) ==
  /\ st \in [Promise -> {"absent", "pending"} \cup Outcome]
  /\ result \in [Promise -> {Plain, Thenable}]
  /\ handled \in [Promise -> BOOLEAN]
  /\ unhandled \subseteq Promise
  /\ thens \in [Promise -> Nat]

\* Pairs of functions are made in order.
PairTypes(c) ==
  /\ c \in [Pair -> Promise \cup {Taken, Unused}]
  /\ \A f, g \in Pair : f < g /\ c[f] = Unused => c[g] = Unused

\* Every part has its type, and refers to what exists.
Types(st, c, q, s, rd) ==
  /\ ObjectTypes(st)
  /\ PairTypes(c)
  /\ rd \in [Promise -> Seq(Nat)]
  /\ reactions \in [Promise -> Seq(LiveReaction(c))]
  /\ q \in Seq(LiveJob(st, c))
  /\ s \in Seq(LiveFrame(c))
  /\ Len(s) <= MaxDepth \/ Len(s) <= 1

\* What may settle p, apart.
ThenableJobs(p) == {j \in Job : j.kind = "thenable" /\ j.promise = p}
GetFrames(p) == {k \in NativeFrame : k.kind = "get" /\ k.id = p}

\* No pair of functions may settle p; exactly one may.
NonePair(c, p) == \A f \in Pair : c[f] # p
SinglePair(c, p) == \E f \in Pair : c[f] = p /\ \A g \in Pair : c[g] = p => g = f

\* Nothing may settle p; exactly one thing may.
Unclaimed(c, q, s, p) ==
  NonePair(c, p) /\ NoReactions(q, ThenableJobs(p)) /\ NoReactions(s, GetFrames(p))

Claimed(c, q, s, p) ==
  \/ SinglePair(c, p) /\ NoReactions(q, ThenableJobs(p)) /\ NoReactions(s, GetFrames(p))
  \/ NonePair(c, p) /\ Single(q, ThenableJobs(p)) /\ NoReactions(s, GetFrames(p))
  \/ NonePair(c, p) /\ NoReactions(q, ThenableJobs(p)) /\ Single(s, GetFrames(p))

\* The claim of promise l has been taken, and what was called has yet to
\* settle it or to pass the claim on; l = Nobody otherwise.
Nobody == 0

\* A pending promise other than l has one claim, every other promise none.
ClaimsAre(st, c, q, s, l) ==
  /\ l \in Promise => st[l] = "pending"
  /\ \A p \in Promise : IF st[p] = "pending" /\ p # l THEN Claimed(c, q, s, p)
                                                      ELSE Unclaimed(c, q, s, p)

\* The jobs of the reactions of p.
ReactionsOf(p) == {j \in Job : j.kind = "reaction" /\ j.promise = p}

\* The reactions of p that have run or have a job.
Left(p) == thens[p] - Len(reactions[p])

\* The reactions of p that ran, those that have a job and those that wait are
\* numbered one after the other.
OrderOf(st, q, rd, p) ==
  /\ Len(rd[p]) <= Left(p)
  /\ \A i \in 1..Len(rd[p]) : rd[p][i] = i
  /\ InOrder(q, ReactionsOf(p), Len(rd[p]) + 1, Left(p))
  /\ \A i \in 1..Len(reactions[p]) : reactions[p][i].number = Left(p) + i
  /\ st[p] \in {"absent", "pending"} => Left(p) = 0
  /\ st[p] # "pending" => reactions[p] = <<>>
  /\ \A i \in 1..Len(q) : q[i] \in ReactionsOf(p) => q[i].type = st[p]

\* The host's set is that of the promises rejected and unhandled.
TrackerKnows(st) == \A p \in Promise : p \in unhandled <=> st[p] = "rejected" /\ ~handled[p]

\* The invariant of states st, pairs c, queue q, stack s and history rd.
Good(st, c, q, s, rd, l) ==
  /\ Types(st, c, q, s, rd)
  /\ ClaimsAre(st, c, q, s, l)
  /\ \A p \in Promise : OrderOf(st, q, rd, p)
  /\ TrackerKnows(st)

\* The inductive invariant: between two steps no promise is loose.
SettlingInv == Good(state, captures, promiseQueue, frames, reacted, Nobody)

----------------------------------------------------------------------------
(* Reactions, jobs and frames.                                              *)

\* Promises and pairs are not the values that stand for something else.
LEMMA Constants ==
  /\ \A p \in Promise : p \in Nat /\ p # Nobody /\ p # Taken /\ p # Unused /\ p # Plain /\ p # Thenable
  /\ \A f \in Pair : f \in Nat /\ f # Function /\ f # NoHandler /\ f # Awaiting
  /\ Taken # Unused
BY PromisesAssumption DEF Promise, Pair, Nobody, Taken, Unused, Plain, Thenable, Function,
   NoHandler, Awaiting

\* What NewPromiseReactionJob makes.
LEMMA ReactionJobIs ==
  ASSUME NEW p \in Promise, NEW r \in Reaction,
         NEW o \in Outcome, NEW v \in {Plain, Thenable},
         NEW j, j = ReactionJob(p, r, o, v)
  PROVE  /\ j \in Job
         /\ j.kind = "reaction" /\ j.promise = p /\ j.type = o /\ j.value = v
         /\ j.reaction = r /\ NumberOf(j) = r.number
         /\ j \in ReactionsOf(p)
         /\ \A t \in Promise : j \notin ThenableJobs(t) /\ (t # p => j \notin ReactionsOf(t))
<1>1. /\ j.kind = "reaction" /\ j.promise = p /\ j.type = o /\ j.value = v /\ j.reaction = r
  BY DEF ReactionJob
<1>2. j \in Job
  BY DEF Job, ReactionJob
<1> QED BY <1>1, <1>2 DEF ReactionsOf, ThenableJobs, NumberOf

\* The job of a reaction that exists refers to what exists.
LEMMA ReactionJobIsLive ==
  ASSUME NEW st, NEW c, NEW p \in Promise, NEW r \in LiveReaction(c),
         NEW o \in Outcome, NEW v \in {Plain, Thenable}
  PROVE  r \in Reaction /\ ReactionJob(p, r, o, v) \in LiveJob(st, c)
<1> PICK j : j = ReactionJob(p, r, o, v)
  OBVIOUS
<1>1. r \in Reaction
  BY DEF LiveReaction
<1>2. j \in Job /\ j.kind = "reaction" /\ j.reaction = r
  BY <1>1, ReactionJobIs
<1> QED BY <1>1, <1>2 DEF LiveJob

\* What NewPromiseResolveThenableJob makes.
LEMMA ThenableJobIs ==
  ASSUME NEW st, NEW c, NEW p \in Promise, NEW x \in {Thenable} \cup Promise,
         x \in Promise => st[x] # "absent"
  PROVE  LET j == ThenableJob(p, x) IN
         /\ j \in LiveJob(st, c)
         /\ j \in ThenableJobs(p)
         /\ \A t \in Promise : j \notin ReactionsOf(t) /\ (t # p => j \notin ThenableJobs(t))
<1> DEFINE j == ThenableJob(p, x)
<1>1. j.kind = "thenable" /\ j.promise = p /\ j.value = x /\ j \in Job
  BY DEF ThenableJob, Job
<1> HIDE DEF j
<1>2. j \in LiveJob(st, c)
  BY <1>1 DEF LiveJob
<1> QED BY <1>1, <1>2 DEF ReactionsOf, ThenableJobs, j

\* What is pushed on the stack: of the frames only `get` holds a claim.
LEMMA FrameIs ==
  ASSUME NEW c
  PROVE  /\ \A p \in Promise : LET k == Frame("get", p) IN
              /\ k \in LiveFrame(c) /\ k \in GetFrames(p)
              /\ \A t \in Promise : t # p => k \notin GetFrames(t)
         /\ \A f \in Pair, kind \in {"handler", "native", "then"} : c[f] # Unused =>
              LET k == Frame(kind, f) IN
              k \in LiveFrame(c) /\ \A t \in Promise : k \notin GetFrames(t)
         /\ \A kind \in {"script", "await"} : LET k == Frame(kind, 0) IN
              k \in LiveFrame(c) /\ \A t \in Promise : k \notin GetFrames(t)
<1>1. ASSUME NEW p \in Promise, NEW k, k = Frame("get", p)
      PROVE  /\ k \in LiveFrame(c) /\ k \in GetFrames(p)
             /\ \A t \in Promise : t # p => k \notin GetFrames(t)
  <2>1. k \in NativeFrame /\ k.kind = "get" /\ k.id = p
    BY <1>1 DEF Frame, NativeFrame
  <2> QED BY <2>1 DEF LiveFrame, GetFrames
<1>2. ASSUME NEW f \in Pair, NEW kind \in {"handler", "native", "then"}, c[f] # Unused,
             NEW k, k = Frame(kind, f)
      PROVE  k \in LiveFrame(c) /\ \A t \in Promise : k \notin GetFrames(t)
  <2>1. k \in NativeFrame /\ k.kind = kind /\ k.id = f
    BY <1>2 DEF Frame, NativeFrame
  <2> QED BY <1>2, <2>1 DEF LiveFrame, GetFrames
<1>3. ASSUME NEW kind \in {"script", "await"}, NEW k, k = Frame(kind, 0)
      PROVE  k \in LiveFrame(c) /\ \A t \in Promise : k \notin GetFrames(t)
  <2>1. k \in NativeFrame /\ k.kind = kind
    BY <1>3 DEF Frame, NativeFrame
  <2> QED BY <1>3, <2>1 DEF LiveFrame, GetFrames
<1> QED BY <1>1, <1>2, <1>3

\* What exists goes on existing.
Grown(st, c, su, d) ==
  /\ \A f \in Pair : c[f] # Unused => d[f] # Unused
  /\ \A p \in Promise : st[p] # "absent" => su[p] # "absent"

\* What referred to things that exist still does when more exist.
LEMMA LiveGrows ==
  ASSUME NEW st, NEW c, NEW su, NEW d, Grown(st, c, su, d)
  PROVE  /\ \A x \in Seq(LiveReaction(c)) : x \in Seq(LiveReaction(d))
         /\ \A x \in Seq(LiveJob(st, c)) : x \in Seq(LiveJob(su, d))
         /\ \A x \in Seq(LiveFrame(c)) : x \in Seq(LiveFrame(d))
<1>1. LiveReaction(c) \subseteq LiveReaction(d)
  BY DEF LiveReaction, Grown
<1>2. LiveJob(st, c) \subseteq LiveJob(su, d)
  BY <1>1 DEF LiveJob, Grown
<1>3. LiveFrame(c) \subseteq LiveFrame(d)
  <2> SUFFICES ASSUME NEW k \in LiveFrame(c) PROVE k \in LiveFrame(d)
    OBVIOUS
  <2>1. k \in NativeFrame /\ (k.kind \in {"handler", "native", "then"} => c[k.id] # Unused)
    BY DEF LiveFrame
  <2>2. k.kind \in {"handler", "native", "then"} => k.id \in Pair
    BY <2>1 DEF NativeFrame
  <2> QED BY <2>1, <2>2 DEF LiveFrame, Grown
<1> QED BY <1>1, <1>2, <1>3, SeqMonotonic

\* A queue is one of jobs, a stack one of frames.
LEMMA HeadOfQueue ==
  ASSUME NEW st, NEW c, NEW q \in Seq(LiveJob(st, c)), q # <<>>
  PROVE  /\ Head(q) \in LiveJob(st, c) /\ Head(q) \in Job
         /\ Head(q).promise \in Promise
         /\ Head(q).kind = "reaction" =>
              /\ Head(q).reaction \in LiveReaction(c)
              /\ Head(q).type \in Outcome /\ Head(q).value \in {Plain, Thenable}
         /\ Head(q).kind # "reaction" => Head(q).kind = "thenable"
         /\ Head(q).kind = "thenable" /\ Head(q).value \in Promise =>
              st[Head(q).value] # "absent"
         /\ Tail(q) \in Seq(LiveJob(st, c))
<1>1. Head(q) \in LiveJob(st, c) /\ Tail(q) \in Seq(LiveJob(st, c))
  BY HeadTailProperties
<1>2. PICK j : j = Head(q)
  OBVIOUS
<1>3. j \in Job /\ IF j.kind = "reaction" THEN j.reaction \in LiveReaction(c)
                   ELSE j.value \in Promise => st[j.value] # "absent"
  BY <1>1, <1>2 DEF LiveJob
<1>4. /\ j.promise \in Promise
      /\ j.kind = "reaction" => j.type \in Outcome /\ j.value \in {Plain, Thenable}
      /\ j.kind # "reaction" => j.kind = "thenable"
  BY <1>3 DEF Job
<1> QED BY <1>1, <1>2, <1>3, <1>4

----------------------------------------------------------------------------
(* A claim is taken: a function of a pair is called, `then` has been read,  *)
(* a job begins.                                                            *)

\* A function of a pair is called for the first time.
LEMMA TakePair ==
  ASSUME NEW st, NEW c, NEW q, NEW s, NEW rd, Good(st, c, q, s, rd, Nobody),
         NEW f \in Pair, c[f] \in Promise
  PROVE  Good(st, [c EXCEPT ![f] = Taken], q, s, rd, c[f])
<1> DEFINE d == [c EXCEPT ![f] = Taken]
           p == c[f]
<1>1. PairTypes(c) /\ Types(st, c, q, s, rd)
  BY DEF Good, Types
<1>2. /\ \A g \in Pair : d[g] = IF g = f THEN Taken ELSE c[g]
      /\ d \in [Pair -> Promise \cup {Taken, Unused}]
  BY <1>1 DEF PairTypes
<1>3. c[f] # Unused /\ Taken \notin Promise /\ Taken # Unused
  BY Constants
<1> HIDE DEF d
<1>4. Grown(st, c, st, d)
  BY <1>2, <1>3 DEF Grown
<1>5. PairTypes(d)
  BY <1>1, <1>2, <1>3 DEF PairTypes
<1>6. Types(st, d, q, s, rd)
  <2>1. reactions \in [Promise -> Seq(LiveReaction(d))]
    BY <1>1, <1>4, LiveGrows DEF Types
  <2>2. q \in Seq(LiveJob(st, d)) /\ s \in Seq(LiveFrame(d))
    BY <1>1, <1>4, LiveGrows DEF Types
  <2> QED BY <1>1, <1>5, <2>1, <2>2 DEF Types
<1>7. ClaimsAre(st, d, q, s, p)
  <2>1. \A r \in Promise : IF st[r] = "pending" THEN Claimed(c, q, s, r) ELSE Unclaimed(c, q, s, r)
    <3>1. \A r \in Promise : r # Nobody
      BY Constants
    <3> QED BY <3>1 DEF Good, ClaimsAre
  <2>2. st[p] = "pending"
    BY <2>1 DEF Unclaimed, NonePair
  <2>3. Unclaimed(d, q, s, p)
    <3>1. SinglePair(c, p) /\ NoReactions(q, ThenableJobs(p)) /\ NoReactions(s, GetFrames(p))
      BY <2>1, <2>2 DEF Claimed, NonePair
    <3>2. NonePair(d, p)
      BY <1>2, <1>3, <3>1 DEF SinglePair, NonePair
    <3> QED BY <3>1, <3>2 DEF Unclaimed
  <2>4. ASSUME NEW r \in Promise, r # p
        PROVE  /\ NonePair(c, r) => NonePair(d, r)
               /\ SinglePair(c, r) => SinglePair(d, r)
    <3>1. \A g \in Pair : d[g] = r <=> c[g] = r
      BY <1>2, <1>3, <2>4
    <3> QED BY <3>1 DEF NonePair, SinglePair
  <2> QED BY <2>1, <2>2, <2>3, <2>4 DEF ClaimsAre, Claimed, Unclaimed
<1> QED BY <1>6, <1>7 DEF Good, d

\* A native function returns or throws; one that read `then` gives up its claim.
LEMMA PopFrame ==
  ASSUME NEW st, NEW c, NEW q, NEW s, NEW rd, Good(st, c, q, s, rd, Nobody), s # <<>>
  PROVE  /\ Last(s) \in LiveFrame(c)
         /\ Last(s).kind # "get" => Good(st, c, q, Front(s), rd, Nobody)
         /\ Last(s).kind = "get" => /\ Last(s).id \in Promise
                                    /\ Good(st, c, q, Front(s), rd, Last(s).id)
<1>1. Types(st, c, q, s, rd) /\ s \in Seq(LiveFrame(c))
  BY DEF Good, Types
<1>2. PICK k, t : k = Last(s) /\ t = Front(s)
  OBVIOUS
<1>3. /\ k \in LiveFrame(c) /\ t \in Seq(LiveFrame(c)) /\ Len(t) = Len(s) - 1
      /\ \A p \in Promise :
           /\ NoReactions(s, GetFrames(p)) => NoReactions(t, GetFrames(p))
           /\ Single(s, GetFrames(p)) /\ k \notin GetFrames(p) => Single(t, GetFrames(p))
           /\ Single(s, GetFrames(p)) /\ k \in GetFrames(p) => NoReactions(t, GetFrames(p))
  BY <1>1, <1>2, FrontOther
<1>4. k \in NativeFrame /\ (k.kind = "get" => k.id \in Promise)
  BY <1>3 DEF LiveFrame, NativeFrame
<1>5. Types(st, c, q, t, rd)
  <2>1. Len(s) \in Nat /\ MaxDepth \in Nat
    BY <1>1, LenProperties, PromisesAssumption
  <2>2. Len(t) <= MaxDepth \/ Len(t) <= 1
    BY <1>1, <1>3, <2>1 DEF Types
  <2> QED BY <1>1, <1>3, <2>2 DEF Types
<1>6. \A r \in Promise : IF st[r] = "pending" THEN Claimed(c, q, s, r) ELSE Unclaimed(c, q, s, r)
  <2>1. \A r \in Promise : r # Nobody
    BY Constants
  <2> QED BY <2>1 DEF Good, ClaimsAre
<1>7. ASSUME NEW r \in Promise, k \notin GetFrames(r)
      PROVE  IF st[r] = "pending" THEN Claimed(c, q, t, r) ELSE Unclaimed(c, q, t, r)
  BY <1>3, <1>6, <1>7 DEF Claimed, Unclaimed
<1>8. CASE k.kind # "get"
  <2>1. \A r \in Promise : k \notin GetFrames(r)
    BY <1>8 DEF GetFrames
  <2>2. ClaimsAre(st, c, q, t, Nobody)
    BY <1>7, <2>1, Constants DEF ClaimsAre
  <2>3. Good(st, c, q, t, rd, Nobody)
    BY <1>5, <2>2 DEF Good
  <2> QED BY <1>2, <1>3, <1>8, <2>3
<1>9. CASE k.kind = "get"
  <2> DEFINE p == k.id
  <2>1. p \in Promise /\ k \in GetFrames(p) /\ \A r \in Promise : r # p => k \notin GetFrames(r)
    BY <1>4, <1>9 DEF GetFrames
  <2>2. ~ NoReactions(s, GetFrames(p))
    <3>1. Len(s) \in 1..Len(s) /\ s[Len(s)] = k
      BY <1>1, <1>2, EmptySeq DEF Last
    <3> QED BY <2>1, <3>1 DEF NoReactions
  <2>3. st[p] = "pending"
    BY <1>6, <2>1, <2>2 DEF Unclaimed
  <2>4. Unclaimed(c, q, t, p)
    BY <1>3, <1>6, <2>1, <2>2, <2>3 DEF Claimed, Unclaimed
  <2>5. ClaimsAre(st, c, q, t, p)
    BY <1>7, <2>1, <2>3, <2>4 DEF ClaimsAre
  <2>6. Good(st, c, q, t, rd, p)
    BY <1>5, <2>5 DEF Good
  <2> QED BY <1>2, <1>3, <1>9, <2>1, <2>6
<1> QED BY <1>8, <1>9

\* A job that will call `then` begins, and its claim is taken.
LEMMA TakeThenable ==
  ASSUME NEW st, NEW c, NEW q, NEW s, NEW rd, Good(st, c, q, s, rd, Nobody),
         q # <<>>, Head(q).kind = "thenable"
  PROVE  Good(st, c, Tail(q), s, rd, Head(q).promise)
<1>1. Types(st, c, q, s, rd) /\ q \in Seq(LiveJob(st, c))
  BY DEF Good, Types
<1>2. PICK j, t : j = Head(q) /\ t = Tail(q)
  OBVIOUS
<1> DEFINE p == j.promise
<1>3. /\ j \in Job /\ p \in Promise /\ t \in Seq(LiveJob(st, c))
      /\ \A T :
           /\ NoReactions(q, T) => NoReactions(t, T)
           /\ Single(q, T) /\ j \notin T => Single(t, T)
           /\ Single(q, T) /\ j \in T => NoReactions(t, T)
  BY <1>1, <1>2, HeadOfQueue, TailOther
<1>4. /\ j \in ThenableJobs(p)
      /\ \A r \in Promise : j \notin ReactionsOf(r) /\ (r # p => j \notin ThenableJobs(r))
  BY <1>2, <1>3 DEF ThenableJobs, ReactionsOf
<1>5. /\ Len(q) \in Nat \ {0} /\ Len(t) = Len(q) - 1
      /\ \A i \in 1..Len(t) : t[i] = q[i + 1]
      /\ q[1] = j
  BY <1>1, <1>2, HeadTailProperties, EmptySeq
<1>6. Types(st, c, t, s, rd)
  BY <1>1, <1>3 DEF Types
<1>7. \A r \in Promise : IF st[r] = "pending" THEN Claimed(c, q, s, r) ELSE Unclaimed(c, q, s, r)
  <2>1. \A r \in Promise : r # Nobody
    BY Constants
  <2> QED BY <2>1 DEF Good, ClaimsAre
<1>8. ~ NoReactions(q, ThenableJobs(p))
  <2>1. 1 \in 1..Len(q)
    BY <1>5
  <2> QED BY <1>4, <1>5, <2>1 DEF NoReactions
<1>9. ClaimsAre(st, c, t, s, p)
  <2>1. st[p] = "pending"
    BY <1>3, <1>7, <1>8 DEF Unclaimed
  <2>2. Unclaimed(c, t, s, p)
    BY <1>3, <1>4, <1>7, <1>8, <2>1 DEF Claimed, Unclaimed
  <2>3. ASSUME NEW r \in Promise, r # p
        PROVE  IF st[r] = "pending" THEN Claimed(c, t, s, r) ELSE Unclaimed(c, t, s, r)
    BY <1>3, <1>4, <1>7, <2>3 DEF Claimed, Unclaimed
  <2> QED BY <2>1, <2>2, <2>3 DEF ClaimsAre
<1>10. ASSUME NEW r \in Promise PROVE OrderOf(st, t, rd, r)
  <2>1. OrderOf(st, q, rd, r)
    BY DEF Good
  <2>2. Len(rd[r]) + 1 \in Nat /\ Left(r) \in Nat
    <3>1. Len(rd[r]) \in Nat /\ Len(reactions[r]) \in Nat /\ thens[r] \in Nat
      BY <1>1, LenProperties DEF Types, ObjectTypes
    <3> QED BY <2>1, <3>1 DEF OrderOf, Left
  <2>3. InOrder(t, ReactionsOf(r), Len(rd[r]) + 1, Left(r))
    BY <1>1, <1>2, <1>4, <2>1, <2>2, OrderTailOther DEF OrderOf
  <2>4. \A i \in 1..Len(t) : i + 1 \in 1..Len(q)
    BY <1>5
  <2>5. \A i \in 1..Len(t) : t[i] \in ReactionsOf(r) => t[i].type = st[r]
    BY <1>5, <2>1, <2>4 DEF OrderOf
  <2> QED BY <2>1, <2>3, <2>5 DEF OrderOf
<1>11. Good(st, c, t, s, rd, p)
  BY <1>6, <1>9, <1>10 DEF Good
<1> QED BY <1>2, <1>11

\* A reaction's job begins: it is the next of its promise.
LEMMA TakeReaction ==
  ASSUME NEW st, NEW c, NEW q, NEW s, NEW rd, Good(st, c, q, s, rd, Nobody),
         q # <<>>, Head(q).kind = "reaction"
  PROVE  LET j == Head(q) IN
         Good(st, c, Tail(q), s, [rd EXCEPT ![j.promise] = Append(@, j.reaction.number)], Nobody)
<1>1. Types(st, c, q, s, rd) /\ q \in Seq(LiveJob(st, c))
  BY DEF Good, Types
<1>2. PICK j, t : j = Head(q) /\ t = Tail(q)
  OBVIOUS
<1> DEFINE p == j.promise
           n == NumberOf(j)
           re == [rd EXCEPT ![p] = Append(@, n)]
<1>3. /\ j \in Job /\ p \in Promise /\ t \in Seq(LiveJob(st, c))
      /\ j.reaction \in LiveReaction(c)
      /\ \A T :
           /\ NoReactions(q, T) => NoReactions(t, T)
           /\ Single(q, T) /\ j \notin T => Single(t, T)
  BY <1>1, <1>2, HeadOfQueue, TailOther
<1>4. /\ j \in ReactionsOf(p)
      /\ \A r \in Promise : j \notin ThenableJobs(r) /\ (r # p => j \notin ReactionsOf(r))
  BY <1>2, <1>3 DEF ThenableJobs, ReactionsOf
<1>5. /\ Len(q) \in Nat \ {0} /\ Len(t) = Len(q) - 1
      /\ \A i \in 1..Len(t) : t[i] = q[i + 1]
  BY <1>1, <1>2, HeadTailProperties, EmptySeq
<1>6. n \in Nat
  BY <1>3 DEF LiveReaction, Reaction, NumberOf
<1>7. /\ re \in [Promise -> Seq(Nat)]
      /\ \A r \in Promise : re[r] = IF r = p THEN Append(rd[p], n) ELSE rd[r]
  <2>1. rd \in [Promise -> Seq(Nat)]
    BY <1>1 DEF Types
  <2>2. Append(rd[p], n) \in Seq(Nat)
    BY <1>3, <1>6, <2>1, AppendProperties
  <2> QED BY <1>3, <2>1, <2>2
<1> HIDE DEF re
<1>8. Types(st, c, t, s, re)
  BY <1>1, <1>3, <1>7 DEF Types
<1>9. ClaimsAre(st, c, t, s, Nobody)
  <2>1. ClaimsAre(st, c, q, s, Nobody)
    BY DEF Good
  <2> QED BY <1>3, <1>4, <2>1 DEF ClaimsAre, Claimed, Unclaimed
<1>10. ASSUME NEW r \in Promise PROVE OrderOf(st, t, re, r)
  <2>1. OrderOf(st, q, rd, r)
    BY DEF Good
  <2>2. Len(rd[r]) \in Nat /\ Left(r) \in Nat /\ rd[r] \in Seq(Nat)
    <3>1. Len(rd[r]) \in Nat /\ Len(reactions[r]) \in Nat /\ thens[r] \in Nat /\ rd[r] \in Seq(Nat)
      BY <1>1, LenProperties DEF Types, ObjectTypes
    <3> QED BY <2>1, <3>1 DEF OrderOf, Left
  <2>3. \A i \in 1..Len(t) : t[i] \in ReactionsOf(r) => t[i].type = st[r]
    <3>1. \A i \in 1..Len(t) : i + 1 \in 1..Len(q)
      BY <1>5
    <3> QED BY <1>5, <2>1, <3>1 DEF OrderOf
  <2>4. CASE r # p
    <3>1. re[r] = rd[r]
      BY <1>7, <2>4
    <3>2. Len(rd[r]) + 1 \in Nat
      BY <2>2
    <3>3. InOrder(t, ReactionsOf(r), Len(rd[r]) + 1, Left(r))
      BY <1>1, <1>2, <1>4, <2>1, <2>2, <2>4, <3>2, OrderTailOther DEF OrderOf
    <3> QED BY <2>1, <2>3, <3>1, <3>3 DEF OrderOf
  <2>5. CASE r = p
    <3> DEFINE m == Len(rd[r])
    <3>1. m + 1 \in Nat
      BY <2>2
    <3>2. /\ n = m + 1 /\ m + 1 <= Left(r)
          /\ InOrder(t, ReactionsOf(r), (m + 1) + 1, Left(r))
      BY <1>1, <1>2, <1>4, <2>1, <2>2, <2>5, <3>1, OrderTailNext DEF OrderOf
    <3>3. /\ re[r] = Append(rd[r], n) /\ Len(re[r]) = m + 1
          /\ \A i \in 1..m : re[r][i] = rd[r][i]
          /\ re[r][m + 1] = n
      <4>1. re[r] = Append(rd[r], n)
        BY ONLY <1>7, <2>5, r \in Promise
      <4>2. rd[r] \in Seq(Nat) /\ n \in Nat
        BY <1>6, <2>2
      <4>3. /\ Len(Append(rd[r], n)) = Len(rd[r]) + 1
            /\ \A i \in 1..Len(rd[r]) : Append(rd[r], n)[i] = rd[r][i]
            /\ Append(rd[r], n)[Len(rd[r]) + 1] = n
        BY ONLY <4>2, AppendProperties
      <4> QED BY ONLY <4>1, <4>3
    <3>4. \A i \in 1..m : rd[r][i] = i
      BY <2>1 DEF OrderOf
    <3>5. ASSUME NEW i \in 1..Len(re[r]) PROVE re[r][i] = i
      <4>1. i \in 1..m \/ i = m + 1
        BY <2>2, <3>3
      <4> QED BY <3>2, <3>3, <3>4, <4>1
    <3> QED BY <2>1, <2>3, <3>2, <3>3, <3>5 DEF OrderOf
  <2> QED BY <2>4, <2>5
<1>11. Good(st, c, t, s, re, Nobody)
  BY <1>8, <1>9, <1>10 DEF Good
<1> QED BY <1>2, <1>11 DEF re, NumberOf

----------------------------------------------------------------------------
(* The claim is passed on.                                                  *)

\* To a frame that reads `then`.
LEMMA PassToFrame ==
  ASSUME NEW st, NEW c, NEW q, NEW s, NEW rd, NEW p \in Promise, Good(st, c, q, s, rd, p),
         Len(s) < MaxDepth
  PROVE  Good(st, c, q, Append(s, Frame("get", p)), rd, Nobody)
<1> PICK k, t : k = Frame("get", p) /\ t = Append(s, k)
  OBVIOUS
<1>1. Types(st, c, q, s, rd) /\ s \in Seq(LiveFrame(c))
  BY DEF Good, Types
<1>2. /\ k \in LiveFrame(c) /\ k \in GetFrames(p)
      /\ \A r \in Promise : r # p => k \notin GetFrames(r)
  BY FrameIs
<1>3. t \in Seq(LiveFrame(c)) /\ Len(t) = Len(s) + 1
  BY <1>1, <1>2, AppendProperties
<1>4. Types(st, c, q, t, rd)
  <2>1. Len(s) \in Nat /\ MaxDepth \in Nat
    BY <1>1, LenProperties, PromisesAssumption
  <2>2. Len(t) <= MaxDepth
    BY <1>3, <2>1
  <2> QED BY <1>1, <1>3, <2>2 DEF Types
<1>5. /\ st[p] = "pending"
      /\ Unclaimed(c, q, s, p)
      /\ \A r \in Promise : r # p =>
           IF st[r] = "pending" THEN Claimed(c, q, s, r) ELSE Unclaimed(c, q, s, r)
  BY DEF Good, ClaimsAre
<1>6. Claimed(c, q, t, p)
  <2>1. Single(t, GetFrames(p))
    BY <1>1, <1>2, <1>5, AppendFirst DEF Unclaimed
  <2> QED BY <1>5, <2>1 DEF Claimed, Unclaimed
<1>7. ASSUME NEW r \in Promise, r # p
      PROVE  IF st[r] = "pending" THEN Claimed(c, q, t, r) ELSE Unclaimed(c, q, t, r)
  <2>1. /\ NoReactions(s, GetFrames(r)) => NoReactions(t, GetFrames(r))
        /\ Single(s, GetFrames(r)) => Single(t, GetFrames(r))
    BY <1>1, <1>2, <1>7, AppendOther
  <2> QED BY <1>5, <1>7, <2>1 DEF Claimed, Unclaimed
<1>8. ClaimsAre(st, c, q, t, Nobody)
  BY <1>5, <1>6, <1>7, Constants DEF ClaimsAre
<1> QED BY <1>4, <1>8 DEF Good

\* To a job that will call `then`.
LEMMA PassToJob ==
  ASSUME NEW st, NEW c, NEW q, NEW s, NEW rd, NEW p \in Promise, Good(st, c, q, s, rd, p),
         NEW x \in {Thenable} \cup Promise, x \in Promise => st[x] # "absent"
  PROVE  Good(st, c, Append(q, ThenableJob(p, x)), s, rd, Nobody)
<1> PICK j, t : j = ThenableJob(p, x) /\ t = Append(q, j)
  OBVIOUS
<1>1. Types(st, c, q, s, rd) /\ q \in Seq(LiveJob(st, c))
  BY DEF Good, Types
<1>2. /\ j \in LiveJob(st, c) /\ j \in ThenableJobs(p)
      /\ \A r \in Promise : j \notin ReactionsOf(r) /\ (r # p => j \notin ThenableJobs(r))
  BY ThenableJobIs
<1>3. /\ t \in Seq(LiveJob(st, c)) /\ Len(t) = Len(q) + 1 /\ Len(q) \in Nat
      /\ \A i \in 1..Len(q) : t[i] = q[i]
      /\ t[Len(t)] = j
  BY <1>1, <1>2, AppendProperties, LenProperties
<1>4. Types(st, c, t, s, rd)
  BY <1>1, <1>3 DEF Types
<1>5. /\ st[p] = "pending"
      /\ Unclaimed(c, q, s, p)
      /\ \A r \in Promise : r # p =>
           IF st[r] = "pending" THEN Claimed(c, q, s, r) ELSE Unclaimed(c, q, s, r)
  BY DEF Good, ClaimsAre
<1>6. Claimed(c, t, s, p)
  <2>1. Single(t, ThenableJobs(p))
    BY <1>1, <1>2, <1>5, AppendFirst DEF Unclaimed
  <2> QED BY <1>5, <2>1 DEF Claimed, Unclaimed
<1>7. ASSUME NEW r \in Promise, r # p
      PROVE  IF st[r] = "pending" THEN Claimed(c, t, s, r) ELSE Unclaimed(c, t, s, r)
  <2>1. /\ NoReactions(q, ThenableJobs(r)) => NoReactions(t, ThenableJobs(r))
        /\ Single(q, ThenableJobs(r)) => Single(t, ThenableJobs(r))
    BY <1>1, <1>2, <1>7, AppendOther
  <2> QED BY <1>5, <1>7, <2>1 DEF Claimed, Unclaimed
<1>8. ClaimsAre(st, c, t, s, Nobody)
  BY <1>5, <1>6, <1>7, Constants DEF ClaimsAre
<1>9. ASSUME NEW r \in Promise PROVE OrderOf(st, t, rd, r)
  <2>1. OrderOf(st, q, rd, r)
    BY DEF Good
  <2>2. Len(rd[r]) + 1 \in Nat /\ Left(r) \in Nat
    <3>1. Len(rd[r]) \in Nat /\ Len(reactions[r]) \in Nat /\ thens[r] \in Nat
      BY <1>1, LenProperties DEF Types, ObjectTypes
    <3> QED BY <2>1, <3>1 DEF OrderOf, Left
  <2>3. InOrder(t, ReactionsOf(r), Len(rd[r]) + 1, Left(r))
    BY <1>1, <1>2, <2>1, <2>2, OrderAppendOther DEF OrderOf
  <2>4. \A i \in 1..Len(t) : t[i] \in ReactionsOf(r) => t[i].type = st[r]
    <3>1. \A i \in 1..Len(t) : i \in 1..Len(q) \/ i = Len(t)
      BY <1>3
    <3> QED BY <1>2, <1>3, <2>1, <3>1 DEF OrderOf
  <2> QED BY <2>1, <2>3, <2>4 DEF OrderOf
<1> QED BY <1>4, <1>8, <1>9 DEF Good

\* A pair that did not exist yet is made for promise p: nothing refers to it.
LEMMA NewPairTypes ==
  ASSUME NEW st, NEW c, NEW q, NEW s, NEW rd, Types(st, c, q, s, rd),
         NEW f \in Pair, c[f] = Unused, \A g \in Pair : g < f => c[g] # Unused,
         NEW p \in Promise
  PROVE  LET d == [c EXCEPT ![f] = p] IN
         /\ Types(st, d, q, s, rd)
         /\ \A g \in Pair : d[g] = IF g = f THEN p ELSE c[g]
         /\ \A r \in Promise : r # p => /\ NonePair(c, r) => NonePair(d, r)
                                        /\ SinglePair(c, r) => SinglePair(d, r)
         /\ NonePair(c, p) => SinglePair(d, p)
<1> DEFINE d == [c EXCEPT ![f] = p]
<1>1. PairTypes(c) /\ p # Unused /\ f \in Int /\ \A g \in Pair : g \in Int
  BY Constants DEF Types
<1>2. /\ \A g \in Pair : d[g] = IF g = f THEN p ELSE c[g]
      /\ d \in [Pair -> Promise \cup {Taken, Unused}]
  BY <1>1 DEF PairTypes
<1> HIDE DEF d
<1>3. Grown(st, c, st, d)
  BY <1>1, <1>2 DEF Grown
<1>4. PairTypes(d)
  <2>1. ASSUME NEW g \in Pair, NEW h \in Pair, g < h, d[g] = Unused PROVE d[h] = Unused
    <3>1. g # f /\ c[g] = Unused
      BY <1>1, <1>2, <2>1
    <3>2. c[h] = Unused
      BY <1>1, <2>1, <3>1 DEF PairTypes
    <3>3. h # f
      BY <2>1, <3>1
    <3> QED BY <1>2, <3>2, <3>3
  <2> QED BY <1>2, <2>1 DEF PairTypes
<1>5. Types(st, d, q, s, rd)
  <2>1. reactions \in [Promise -> Seq(LiveReaction(d))]
    BY <1>3, LiveGrows DEF Types
  <2>2. q \in Seq(LiveJob(st, d)) /\ s \in Seq(LiveFrame(d))
    BY <1>3, LiveGrows DEF Types
  <2> QED BY <1>4, <2>1, <2>2 DEF Types
<1>6. ASSUME NEW r \in Promise, r # p
      PROVE  /\ NonePair(c, r) => NonePair(d, r)
             /\ SinglePair(c, r) => SinglePair(d, r)
  <2>1. r # Unused
    BY Constants
  <2>2. \A g \in Pair : d[g] = r <=> c[g] = r
    BY <1>2, <1>6, <2>1
  <2> QED BY <2>2 DEF NonePair, SinglePair
<1>7. NonePair(c, p) => SinglePair(d, p)
  BY <1>2 DEF NonePair, SinglePair
<1> QED BY <1>2, <1>5, <1>6, <1>7 DEF d

\* To a new pair of functions, for the `then` a job calls.
LEMMA PassToPair ==
  ASSUME NEW st, NEW c, NEW q, NEW s, NEW rd, NEW p \in Promise, Good(st, c, q, s, rd, p),
         NEW f \in Pair, c[f] = Unused, \A g \in Pair : g < f => c[g] # Unused
  PROVE  Good(st, [c EXCEPT ![f] = p], q, s, rd, Nobody)
<1> PICK d : d = [c EXCEPT ![f] = p]
  OBVIOUS
<1>1. /\ Types(st, d, q, s, rd)
      /\ \A r \in Promise : r # p => /\ NonePair(c, r) => NonePair(d, r)
                                     /\ SinglePair(c, r) => SinglePair(d, r)
      /\ NonePair(c, p) => SinglePair(d, p)
  <2>1. Types(st, c, q, s, rd)
    BY DEF Good
  <2> QED BY <2>1, NewPairTypes
<1>2. /\ st[p] = "pending"
      /\ Unclaimed(c, q, s, p)
      /\ \A r \in Promise : r # p =>
           IF st[r] = "pending" THEN Claimed(c, q, s, r) ELSE Unclaimed(c, q, s, r)
  BY DEF Good, ClaimsAre
<1>3. ClaimsAre(st, d, q, s, Nobody)
  BY <1>1, <1>2, Constants DEF ClaimsAre, Claimed, Unclaimed
<1> QED BY <1>1, <1>3 DEF Good

\* A promise is made, with its pair.
LEMMA MakePromise ==
  ASSUME NEW st, NEW c, NEW q, NEW s, NEW rd, Good(st, c, q, s, rd, Nobody),
         NEW p \in Promise, st[p] = "absent",
         NEW f \in Pair, c[f] = Unused, \A g \in Pair : g < f => c[g] # Unused
  PROVE  Good([st EXCEPT ![p] = "pending"], [c EXCEPT ![f] = p], q, s, rd, Nobody)
<1> PICK d : d = [c EXCEPT ![f] = p]
  OBVIOUS
<1> PICK su : su = [st EXCEPT ![p] = "pending"]
  OBVIOUS
<1>1. Types(st, c, q, s, rd)
  BY DEF Good
<1>2. /\ Types(st, d, q, s, rd)
      /\ \A r \in Promise : r # p => /\ NonePair(c, r) => NonePair(d, r)
                                     /\ SinglePair(c, r) => SinglePair(d, r)
      /\ NonePair(c, p) => SinglePair(d, p)
  BY <1>1, NewPairTypes
<1>3. /\ su \in [Promise -> {"absent", "pending"} \cup Outcome]
      /\ \A r \in Promise : su[r] = IF r = p THEN "pending" ELSE st[r]
  BY <1>1 DEF Types, ObjectTypes
<1>4. Grown(st, d, su, d)
  BY <1>3 DEF Grown
<1>5. Types(su, d, q, s, rd)
  <2>1. q \in Seq(LiveJob(su, d))
    BY <1>2, <1>4, LiveGrows DEF Types
  <2>2. ObjectTypes(su)
    BY <1>2, <1>3 DEF Types, ObjectTypes
  <2> QED BY <1>2, <2>1, <2>2 DEF Types
<1>6. ClaimsAre(su, d, q, s, Nobody)
  <2>1. \A r \in Promise : IF st[r] = "pending" THEN Claimed(c, q, s, r) ELSE Unclaimed(c, q, s, r)
    BY Constants DEF Good, ClaimsAre
  <2>2. Claimed(d, q, s, p)
    BY <1>2, <2>1 DEF Claimed, Unclaimed
  <2>3. ASSUME NEW r \in Promise, r # p
        PROVE  IF su[r] = "pending" THEN Claimed(d, q, s, r) ELSE Unclaimed(d, q, s, r)
    BY <1>2, <1>3, <2>1, <2>3 DEF Claimed, Unclaimed
  <2> QED BY <1>3, <2>2, <2>3, Constants DEF ClaimsAre
<1>7. ASSUME NEW r \in Promise PROVE OrderOf(su, q, rd, r)
  <2>1. OrderOf(st, q, rd, r)
    BY DEF Good
  <2>2. CASE r # p
    BY <1>3, <2>1, <2>2 DEF OrderOf
  <2>3. CASE r = p
    <3>1. Left(r) = 0 /\ Len(rd[r]) <= 0 /\ Len(rd[r]) \in Nat /\ su[r] = "pending"
      BY <1>1, <1>3, <2>1, <2>3, LenProperties DEF OrderOf, Types
    <3>2. \A n : n \notin Len(rd[r]) + 1..Left(r)
      BY <3>1
    <3>3. \A i \in 1..Len(q) : q[i] \notin ReactionsOf(r)
      BY <2>1, <3>2 DEF OrderOf, InOrder
    <3> QED BY <2>1, <3>1, <3>3 DEF OrderOf
  <2> QED BY <2>2, <2>3
<1>8. TrackerKnows(su)
  BY <1>3 DEF Good, TrackerKnows
<1> QED BY <1>5, <1>6, <1>7, <1>8 DEF Good

----------------------------------------------------------------------------
(* The promise is settled: fulfill_promise and reject_promise.              *)

\* The loose promise is fulfilled or rejected: its reactions go to the queue.
LEMMA SettleStep ==
  ASSUME NEW c, NEW q, NEW s, NEW rd, NEW p \in Promise, Good(state, c, q, s, rd, p),
         NEW o \in Outcome, NEW v \in {Plain, Thenable}, Settled(p, o, v, q),
         captures' = c, frames' = s, reacted' = rd, thens' = thens
  PROVE  SettlingInv'
<1> PICK n, js, u :
      /\ n = Len(reactions[p])
      /\ js = [i \in 1..n |-> ReactionJob(p, reactions[p][i], o, v)]
      /\ u = q \o js
  OBVIOUS
<1>1. /\ Types(state, c, q, s, rd) /\ q \in Seq(LiveJob(state, c))
      /\ reactions \in [Promise -> Seq(LiveReaction(c))]
  BY DEF Good, Types
<1>2. /\ state' = [state EXCEPT ![p] = o]
      /\ result' = [result EXCEPT ![p] = v]
      /\ reactions' = [reactions EXCEPT ![p] = <<>>]
      /\ promiseQueue' = u
      /\ unhandled' = IF o = "rejected" /\ ~handled[p] THEN unhandled \cup {p} ELSE unhandled
      /\ handled' = handled
  BY DEF Settled
<1>3. /\ state[p] = "pending"
      /\ Unclaimed(c, q, s, p)
      /\ \A r \in Promise : r # p =>
           IF state[r] = "pending" THEN Claimed(c, q, s, r) ELSE Unclaimed(c, q, s, r)
  BY DEF Good, ClaimsAre
<1>4. /\ state' \in [Promise -> {"absent", "pending"} \cup Outcome]
      /\ \A r \in Promise : state'[r] = IF r = p THEN o ELSE state[r]
      /\ o \notin {"absent", "pending"}
  BY <1>1, <1>2 DEF Types, ObjectTypes, Outcome
<1>5. /\ \A r \in Promise : reactions'[r] = IF r = p THEN <<>> ELSE reactions[r]
      /\ reactions' \in [Promise -> Seq(LiveReaction(c))]
  BY <1>1, <1>2
<1>6. n \in Nat /\ \A i \in 1..n : reactions[p][i] \in LiveReaction(c)
  BY <1>1, LenProperties, ElementOfSeq
<1>7. ASSUME NEW i \in 1..n
      PROVE  /\ js[i] \in LiveJob(state', c) /\ js[i] \in LiveJob(state, c)
             /\ js[i].type = o /\ NumberOf(js[i]) = reactions[p][i].number
             /\ js[i] \in ReactionsOf(p)
             /\ \A r \in Promise : /\ js[i] \notin ThenableJobs(r)
                                   /\ r # p => js[i] \notin ReactionsOf(r)
  <2>1. js[i] = ReactionJob(p, reactions[p][i], o, v)
    OBVIOUS
  <2>2. PICK r \in LiveReaction(c) : r = reactions[p][i]
    BY <1>6
  <2>3. js[i] = ReactionJob(p, r, o, v)
    BY ONLY <2>1, <2>2
  <2>4. r \in Reaction /\ js[i] \in LiveJob(state, c) /\ js[i] \in LiveJob(state', c)
    BY <2>3, ReactionJobIsLive
  <2>5. /\ js[i].type = o /\ NumberOf(js[i]) = r.number
        /\ js[i] \in ReactionsOf(p)
        /\ \A t \in Promise : js[i] \notin ThenableJobs(t) /\ (t # p => js[i] \notin ReactionsOf(t))
    BY <2>3, <2>4, ReactionJobIs
  <2> QED BY ONLY <2>2, <2>4, <2>5
<1>8. js \in Seq(LiveJob(state', c)) /\ js \in Seq(LiveJob(state, c)) /\ Len(js) = n
  <2>1. \A i \in 1..n : js[i] \in LiveJob(state', c) /\ js[i] \in LiveJob(state, c)
    BY <1>7
  <2>2. js = [i \in 1..n |-> js[i]]
    OBVIOUS
  <2> QED BY ONLY <1>6, <2>1, <2>2, FunctionIsSeq
<1>9. q \in Seq(LiveJob(state', c))
  <2>1. Grown(state, c, state', c)
    BY <1>3, <1>4 DEF Grown
  <2> QED BY <1>1, <2>1, LiveGrows
<1>10. /\ u \in Seq(LiveJob(state', c))
       /\ Len(u) = Len(q) + n /\ Len(q) \in Nat
       /\ \A i \in 1..Len(q) + n : u[i] = IF i <= Len(q) THEN q[i] ELSE js[i - Len(q)]
  BY <1>8, <1>9, ConcatProperties, LenProperties
<1>11. Types(state, captures, promiseQueue, frames, reacted)'
  <2>1. ObjectTypes(state)'
    BY <1>1, <1>2, <1>4 DEF Types, ObjectTypes
  <2> QED BY <1>1, <1>2, <1>5, <1>10, <2>1 DEF Types
<1>12. ClaimsAre(state, captures, promiseQueue, frames, Nobody)'
  <2>1. ASSUME NEW r \in Promise
        PROVE  /\ NoReactions(q, ThenableJobs(r)) => NoReactions(u, ThenableJobs(r))
               /\ Single(q, ThenableJobs(r)) => Single(u, ThenableJobs(r))
    <3>1. NoReactions(js, ThenableJobs(r))
      BY <1>7, <1>8 DEF NoReactions
    <3> QED BY <1>1, <1>8, <3>1, ConcatOther
  <2>2. Unclaimed(c, u, s, p)
    BY <1>3, <2>1 DEF Unclaimed
  <2>3. ASSUME NEW r \in Promise, r # p
        PROVE  IF state'[r] = "pending" THEN Claimed(c, u, s, r) ELSE Unclaimed(c, u, s, r)
    BY <1>3, <1>4, <2>1, <2>3 DEF Claimed, Unclaimed
  <2>4. ClaimsAre(state', c, u, s, Nobody)
    BY <1>4, <2>2, <2>3, Constants DEF ClaimsAre
  <2> QED BY <1>2, <2>4
<1>13. ASSUME NEW r \in Promise PROVE OrderOf(state, promiseQueue, reacted, r)'
  <2>1. OrderOf(state, q, rd, r)
    BY DEF Good
  <2>2. Len(rd[r]) \in Nat /\ Len(reactions[r]) \in Nat /\ thens[r] \in Nat
    BY <1>1, LenProperties DEF Types, ObjectTypes
  <2>3. Len(rd[r]) + 1 \in Nat /\ Left(r) \in Nat
    BY <2>1, <2>2 DEF OrderOf, Left
  <2>4. CASE r # p
    <3>1. NoReactions(js, ReactionsOf(r))
      BY <1>7, <1>8, <2>4 DEF NoReactions
    <3>2. InOrder(u, ReactionsOf(r), Len(rd[r]) + 1, Left(r))
      BY <1>1, <1>8, <2>1, <2>3, <3>1, OrderConcatOther DEF OrderOf
    <3>3. reactions'[r] = reactions[r] /\ Left(r)' = Left(r) /\ state'[r] = state[r]
      BY <1>4, <1>5, <2>4 DEF Left
    <3>4. ASSUME NEW i \in 1..Len(u), u[i] \in ReactionsOf(r) PROVE u[i].type = state[r]
      <4>1. CASE i <= Len(q)
        <5>1. i \in 1..Len(q) /\ u[i] = q[i]
          <6>1. i \in 1..Len(q) + n
            BY <1>10
          <6> QED BY ONLY <1>6, <1>10, <4>1, <6>1
        <5> QED BY <2>1, <3>4, <5>1 DEF OrderOf
      <4>2. CASE ~ (i <= Len(q))
        <5>1. u[i] = js[i - Len(q)] /\ i - Len(q) \in 1..n
          <6>1. i \in 1..Len(q) + n
            BY <1>10
          <6> QED BY ONLY <1>6, <1>10, <4>2, <6>1
        <5> QED BY <1>7, <2>4, <3>4, <5>1
      <4> QED BY <4>1, <4>2
    <3> QED BY <1>2, <2>1, <3>2, <3>3, <3>4 DEF OrderOf
  <2>5. CASE r = p
    <3>1. Left(p) = 0 /\ Len(rd[p]) = 0 /\ thens[p] = n
      BY <1>3, <2>1, <2>2, <2>5 DEF OrderOf, Left
    <3>2. Left(p)' = n /\ reactions'[p] = <<>> /\ Len(reactions'[p]) = 0
      BY <1>5, <1>6, <3>1 DEF Left
    <3>3. NoReactions(q, ReactionsOf(p))
      <4>1. \A k : k \notin Len(rd[p]) + 1..Left(p)
        BY <3>1
      <4> QED BY <2>1, <2>5, <4>1 DEF OrderOf, InOrder, NoReactions
    <3>4. \A i \in 1..Len(js) : js[i] \in ReactionsOf(p) /\ NumberOf(js[i]) = i
      <4>1. \A i \in 1..n : reactions[p][i].number = i
        BY <2>1, <2>5, <3>1 DEF OrderOf
      <4> QED BY <1>7, <1>8, <4>1
    <3>5. InOrder(u, ReactionsOf(p), Len(rd[p]) + 1, Left(p)')
      <4>1. InOrder(u, ReactionsOf(p), 1, Len(js))
        BY <1>1, <1>8, <3>3, <3>4, OrderConcatAll
      <4> QED BY <1>8, <3>1, <3>2, <4>1
    <3>6. ASSUME NEW i \in 1..Len(u), u[i] \in ReactionsOf(p) PROVE u[i].type = o
      <4>1. CASE i <= Len(q)
        <5>1. i \in 1..Len(q) /\ u[i] = q[i]
          <6>1. i \in 1..Len(q) + n
            BY <1>10
          <6> QED BY ONLY <1>6, <1>10, <4>1, <6>1
        <5> QED BY <3>3, <3>6, <5>1 DEF NoReactions
      <4>2. CASE ~ (i <= Len(q))
        <5>1. u[i] = js[i - Len(q)] /\ i - Len(q) \in 1..n
          <6>1. i \in 1..Len(q) + n
            BY <1>10
          <6> QED BY ONLY <1>6, <1>10, <4>2, <6>1
        <5> QED BY <1>7, <5>1
      <4> QED BY <4>1, <4>2
    <3>7. Len(rd[p]) <= Left(p)'
      BY <1>6, <3>1, <3>2
    <3>8. \A i \in 1..Len(rd[p]) : rd[p][i] = i
      BY <2>1, <2>5 DEF OrderOf
    <3> QED BY <1>2, <1>4, <2>5, <3>2, <3>5, <3>6, <3>7, <3>8 DEF OrderOf
  <2> QED BY <2>4, <2>5
<1>14. TrackerKnows(state)'
  <2>1. p \notin unhandled
    BY <1>3 DEF Good, TrackerKnows
  <2> QED BY <1>2, <1>3, <1>4, <2>1 DEF Good, TrackerKnows, Outcome
<1> QED BY <1>11, <1>12, <1>13, <1>14 DEF SettlingInv, Good

----------------------------------------------------------------------------
(* The functions of a pair, and perform_promise_then.                       *)

\* A step that does not touch the other fields of the promises.
LEMMA StaysGood ==
  ASSUME NEW st, NEW c, NEW q, NEW s, NEW rd, Good(st, c, q, s, rd, Nobody),
         state' = st, captures' = c, promiseQueue' = q, frames' = s, reacted' = rd,
         UNCHANGED <<result, handled, reactions, unhandled, thens>>
  PROVE  SettlingInv'
<1>1. Types(state, captures, promiseQueue, frames, reacted)'
  BY DEF Good, Types, ObjectTypes
<1>2. ClaimsAre(state, captures, promiseQueue, frames, Nobody)'
  BY DEF Good
<1>3. \A p \in Promise : OrderOf(state, promiseQueue, reacted, p)'
  <2>1. \A p \in Promise : OrderOf(st, q, rd, p)
    BY DEF Good
  <2>2. \A p \in Promise : Left(p)' = Left(p)
    BY DEF Left
  <2> QED BY <2>1, <2>2 DEF OrderOf
<1>4. TrackerKnows(state)'
  BY DEF Good, TrackerKnows
<1> QED BY <1>1, <1>2, <1>3, <1>4 DEF SettlingInv, Good

\* A resolve function is called, for the first time or again.
LEMMA CallResolveStep ==
  ASSUME NEW q, NEW s, NEW rd, Good(state, captures, q, s, rd, Nobody),
         NEW f \in Pair, captures[f] # Unused,
         NEW x \in {Plain, Thenable} \cup Promise, x \in Promise => state[x] # "absent",
         CallResolve(f, x, s, q), reacted' = rd, thens' = thens
  PROVE  SettlingInv'
<1>1. captures[f] \in Promise \cup {Taken}
  BY DEF Good, Types, PairTypes
<1>2. CASE captures[f] = Taken
  <2>1. /\ promiseQueue' = q /\ frames' = s /\ UNCHANGED <<objects, captures>>
    BY <1>2 DEF CallResolve
  <2> QED BY <2>1, StaysGood DEF objects
<1>3. CASE captures[f] # Taken
  <2> PICK p, c : p = captures[f] /\ c = [captures EXCEPT ![f] = Taken]
    OBVIOUS
  <2>1. p \in Promise /\ captures' = c /\ Resolving(p, x, s, q)
    BY <1>1, <1>3 DEF CallResolve
  <2>2. Good(state, c, q, s, rd, p)
    BY <2>1, TakePair
  <2>3. CASE x = p /\ Settled(p, "rejected", Plain, q) /\ frames' = s
    BY <2>1, <2>2, <2>3, SettleStep DEF Outcome
  <2>4. CASE x = Plain /\ Settled(p, "fulfilled", Plain, q) /\ frames' = s
    BY <2>1, <2>2, <2>4, SettleStep DEF Outcome
  <2>5. CASE /\ x = Thenable
             /\ Len(s) < MaxDepth
             /\ frames' = Append(s, Frame("get", p))
             /\ promiseQueue' = q
             /\ UNCHANGED objects
    <3>1. Good(state, c, q, Append(s, Frame("get", p)), rd, Nobody)
      BY <2>1, <2>2, <2>5, PassToFrame
    <3> QED BY <2>1, <2>5, <3>1, StaysGood DEF objects
  <2>6. CASE /\ x \in Promise \ {p}
             /\ promiseQueue' = Append(q, ThenableJob(p, x))
             /\ frames' = s
             /\ UNCHANGED objects
    <3>1. Good(state, c, Append(q, ThenableJob(p, x)), s, rd, Nobody)
      BY <2>1, <2>2, <2>6, PassToJob
    <3> QED BY <2>1, <2>6, <3>1, StaysGood DEF objects
  <2> QED BY ONLY <2>1, <2>3, <2>4, <2>5, <2>6 DEF Resolving
<1> QED BY <1>2, <1>3

\* A reject function is called, for the first time or again.
LEMMA CallRejectStep ==
  ASSUME NEW q, NEW s, NEW rd, Good(state, captures, q, s, rd, Nobody),
         NEW f \in Pair, captures[f] # Unused,
         CallReject(f, s, q), reacted' = rd, thens' = thens
  PROVE  SettlingInv'
<1>1. captures[f] \in Promise \cup {Taken}
  BY DEF Good, Types, PairTypes
<1>2. CASE captures[f] = Taken
  <2>1. /\ promiseQueue' = q /\ frames' = s /\ UNCHANGED <<objects, captures>>
    BY <1>2 DEF CallReject
  <2> QED BY <2>1, StaysGood DEF objects
<1>3. CASE captures[f] # Taken
  <2> PICK p, c : p = captures[f] /\ c = [captures EXCEPT ![f] = Taken]
    OBVIOUS
  <2>1. p \in Promise /\ captures' = c /\ frames' = s /\ Settled(p, "rejected", Plain, q)
    BY <1>1, <1>3 DEF CallReject
  <2>2. Good(state, c, q, s, rd, p)
    BY <2>1, TakePair
  <2> QED BY <2>1, <2>2, SettleStep DEF Outcome
<1> QED BY <1>2, <1>3

\* A reaction is registered on promise t, while st and c are what the promises
\* and the pairs become.
LEMMA PerformThenStep ==
  ASSUME NEW st, NEW c, NEW q, NEW s, NEW rd, Good(st, c, q, s, rd, Nobody),
         NEW t \in Promise, st[t] = state[t], state[t] # "absent",
         NEW handler \in {Function, NoHandler, Awaiting} \cup Pair, NEW cap,
         IF handler = Awaiting THEN cap = Taken ELSE cap \in Pair /\ c[cap] # Unused,
         handler \in Pair => c[handler] # Unused,
         PerformThen(t, handler, cap, q),
         state' = st, captures' = c, frames' = s, reacted' = rd, result' = result
  PROVE  SettlingInv'
<1> PICK r, j : /\ r = [number |-> thens[t] + 1, handler |-> handler, cap |-> cap]
                /\ j = ReactionJob(t, r, state[t], result[t])
  OBVIOUS
<1>1. /\ Types(st, c, q, s, rd) /\ q \in Seq(LiveJob(st, c))
      /\ reactions \in [Promise -> Seq(LiveReaction(c))]
      /\ thens \in [Promise -> Nat]
      /\ st \in [Promise -> {"absent", "pending"} \cup Outcome]
      /\ result \in [Promise -> {Plain, Thenable}]
      /\ handled \in [Promise -> BOOLEAN]
  BY DEF Good, Types, ObjectTypes
<1>2. /\ thens' = [thens EXCEPT ![t] = @ + 1]
      /\ reactions' = IF st[t] = "pending"
                      THEN [reactions EXCEPT ![t] = Append(@, r)] ELSE reactions
      /\ promiseQueue' = IF st[t] = "pending" THEN q ELSE Append(q, j)
      /\ unhandled' = IF handled[t] THEN unhandled ELSE unhandled \ {t}
      /\ handled' = [handled EXCEPT ![t] = TRUE]
  BY DEF PerformThen
<1>3. r \in LiveReaction(c) /\ r.number = thens[t] + 1
  <2>1. r.number = thens[t] + 1 /\ r.handler = handler /\ r.cap = cap
    OBVIOUS
  <2>2. thens[t] + 1 \in Nat
    BY <1>1
  <2>3. cap \in {Taken} \cup Pair
    OBVIOUS
  <2>4. r \in Reaction
    BY <2>2, <2>3 DEF Reaction
  <2> QED BY <2>1, <2>4 DEF LiveReaction
<1>4. ASSUME st[t] # "pending"
      PROVE  /\ j \in LiveJob(st, c) /\ j \in ReactionsOf(t)
             /\ NumberOf(j) = thens[t] + 1 /\ j.type = st[t]
             /\ \A p \in Promise : j \notin ThenableJobs(p) /\ (p # t => j \notin ReactionsOf(p))
  <2>1. state[t] \in Outcome /\ result[t] \in {Plain, Thenable}
    BY <1>1, <1>4
  <2>2. r \in Reaction /\ j \in LiveJob(st, c)
    BY <1>3, <2>1, ReactionJobIsLive
  <2> QED BY <1>3, <2>1, <2>2, ReactionJobIs
<1>5. /\ thens' \in [Promise -> Nat]
      /\ \A p \in Promise : thens'[p] = IF p = t THEN thens[p] + 1 ELSE thens[p]
  BY <1>1, <1>2
<1>6. /\ reactions' \in [Promise -> Seq(LiveReaction(c))]
      /\ \A p \in Promise : reactions'[p] = IF p = t /\ st[t] = "pending"
                                            THEN Append(reactions[p], r) ELSE reactions[p]
  <2>1. Append(reactions[t], r) \in Seq(LiveReaction(c))
    BY <1>1, <1>3, AppendProperties
  <2> QED BY <1>1, <1>2, <2>1
<1>7. promiseQueue' \in Seq(LiveJob(st, c))
  <2>1. st[t] # "pending" => Append(q, j) \in Seq(LiveJob(st, c))
    BY <1>1, <1>4, AppendProperties
  <2> QED BY <1>1, <1>2, <2>1
<1>8. Types(state, captures, promiseQueue, frames, reacted)'
  <2>1. ObjectTypes(state)'
    BY <1>1, <1>2, <1>5 DEF Types, ObjectTypes
  <2> QED BY <1>1, <1>6, <1>7, <2>1 DEF Types
<1>9. ClaimsAre(state, captures, promiseQueue, frames, Nobody)'
  <2>1. ClaimsAre(st, c, q, s, Nobody)
    BY DEF Good
  <2>2. CASE st[t] = "pending"
    BY <1>2, <2>1, <2>2
  <2>3. CASE st[t] # "pending"
    <3>1. ASSUME NEW p \in Promise
          PROVE  /\ NoReactions(q, ThenableJobs(p)) => NoReactions(Append(q, j), ThenableJobs(p))
                 /\ Single(q, ThenableJobs(p)) => Single(Append(q, j), ThenableJobs(p))
      BY <1>1, <1>4, <2>3, AppendOther
    <3>2. ClaimsAre(st, c, Append(q, j), s, Nobody)
      BY <2>1, <3>1 DEF ClaimsAre, Claimed, Unclaimed
    <3> QED BY <1>2, <2>3, <3>2
  <2> QED BY <2>2, <2>3
<1>10. ASSUME NEW p \in Promise PROVE OrderOf(state, promiseQueue, reacted, p)'
  <2>1. OrderOf(st, q, rd, p)
    BY DEF Good
  <2>2. /\ Len(rd[p]) \in Nat /\ Len(reactions[p]) \in Nat /\ thens[p] \in Nat
        /\ reactions[p] \in Seq(LiveReaction(c))
    BY <1>1, LenProperties DEF Types
  <2>3. Len(rd[p]) + 1 \in Nat /\ Left(p) \in Nat
    BY <2>1, <2>2 DEF OrderOf, Left
  <2>4. CASE st[t] = "pending"
    <3>1. promiseQueue' = q
      BY <1>2, <2>4
    <3>2. CASE p # t
      <4>1. reactions'[p] = reactions[p] /\ Left(p)' = Left(p)
        BY <1>5, <1>6, <3>2 DEF Left
      <4> QED BY <2>1, <3>1, <4>1 DEF OrderOf
    <3>3. CASE p = t
      <4>1. /\ reactions'[p] = Append(reactions[p], r)
            /\ Len(reactions'[p]) = Len(reactions[p]) + 1
            /\ \A i \in 1..Len(reactions[p]) : reactions'[p][i] = reactions[p][i]
            /\ reactions'[p][Len(reactions[p]) + 1] = r
        <5>1. reactions'[p] = Append(reactions[p], r)
          BY <1>6, <2>4, <3>3
        <5>2. /\ Len(Append(reactions[p], r)) = Len(reactions[p]) + 1
              /\ \A i \in 1..Len(reactions[p]) : Append(reactions[p], r)[i] = reactions[p][i]
              /\ Append(reactions[p], r)[Len(reactions[p]) + 1] = r
          BY <1>3, <2>2, AppendProperties
        <5> QED BY <5>1, <5>2
      <4>2. Left(p)' = Left(p) /\ thens[p] + 1 = Left(p) + (Len(reactions[p]) + 1)
        BY <1>5, <2>2, <3>3, <4>1 DEF Left
      <4>3. ASSUME NEW i \in 1..Len(reactions'[p]) PROVE reactions'[p][i].number = Left(p) + i
        <5>1. i \in 1..Len(reactions[p]) \/ i = Len(reactions[p]) + 1
          BY <2>2, <4>1
        <5>2. CASE i \in 1..Len(reactions[p])
          BY <2>1, <4>1, <5>2 DEF OrderOf
        <5>3. CASE i = Len(reactions[p]) + 1
          BY <1>3, <3>3, <4>1, <4>2, <5>3
        <5> QED BY <5>1, <5>2, <5>3
      <4> QED BY <2>1, <2>4, <3>1, <3>3, <4>2, <4>3 DEF OrderOf
    <3> QED BY <3>2, <3>3
  <2>5. CASE st[t] # "pending"
    <3>1. promiseQueue' = Append(q, j) /\ reactions' = reactions
      BY <1>2, <2>5
    <3>2. /\ Len(Append(q, j)) = Len(q) + 1 /\ Len(q) \in Nat
          /\ \A i \in 1..Len(q) : Append(q, j)[i] = q[i]
          /\ Append(q, j)[Len(q) + 1] = j
      BY <1>1, <1>4, <2>5, AppendProperties, LenProperties
    <3>3. \A i \in 1..Len(Append(q, j)) : i \in 1..Len(q) \/ i = Len(q) + 1
      BY <3>2
    <3>4. \A i \in 1..Len(Append(q, j)) :
            Append(q, j)[i] \in ReactionsOf(p) => Append(q, j)[i].type = st[p]
      <4>1. j \in ReactionsOf(p) => p = t
        BY <1>4, <2>5
      <4>2. j.type = st[t]
        BY <1>4, <2>5
      <4> QED BY <2>1, <3>2, <3>3, <4>1, <4>2 DEF OrderOf
    <3>5. CASE p # t
      <4>1. Left(p)' = Left(p)
        BY <1>5, <3>1, <3>5 DEF Left
      <4>2. InOrder(Append(q, j), ReactionsOf(p), Len(rd[p]) + 1, Left(p))
        BY <1>1, <1>4, <2>1, <2>3, <2>5, <3>5, OrderAppendOther DEF OrderOf
      <4> QED BY <2>1, <3>1, <3>4, <4>1, <4>2 DEF OrderOf
    <3>6. CASE p = t
      <4>1. reactions[p] = <<>> /\ Len(reactions[p]) = 0 /\ Left(p) = thens[p]
        BY <2>1, <2>2, <2>5, <3>6 DEF OrderOf, Left
      <4>2. Left(p)' = Left(p) + 1
        BY <1>5, <2>2, <3>1, <3>6, <4>1 DEF Left
      <4>3. Len(rd[p]) + 1 <= Left(p) + 1 /\ Len(rd[p]) <= Left(p) + 1
        BY <2>1, <2>2, <2>3 DEF OrderOf
      <4>4. InOrder(Append(q, j), ReactionsOf(p), Len(rd[p]) + 1, Left(p) + 1)
        <5>1. NumberOf(j) = Left(p) + 1 /\ j \in ReactionsOf(p) /\ j \in LiveJob(st, c)
          BY <1>4, <2>5, <3>6, <4>1
        <5> QED BY <1>1, <2>1, <2>3, <4>3, <5>1, OrderAppendNext DEF OrderOf
      <4>5. \A i \in 1..Len(reactions'[p]) : reactions'[p][i].number = Left(p)' + i
        BY <3>1, <4>1
      <4>6. st[p] \notin {"absent", "pending"}
        BY <2>5, <3>6
      <4> QED BY <2>1, <3>1, <3>4, <4>2, <4>3, <4>4, <4>5, <4>6 DEF OrderOf
    <3> QED BY <3>5, <3>6
  <2> QED BY <2>4, <2>5
<1>11. TrackerKnows(state)'
  BY <1>1, <1>2 DEF Good, TrackerKnows
<1> QED BY <1>8, <1>9, <1>10, <1>11 DEF SettlingInv, Good

----------------------------------------------------------------------------
(* The steps.                                                               *)

\* A job calls JavaScript, or a native handler, from the empty stack.
LEMMA PushFrame ==
  ASSUME NEW st, NEW c, NEW q, NEW rd, Good(st, c, q, <<>>, rd, Nobody),
         NEW k \in LiveFrame(c), \A p \in Promise : k \notin GetFrames(p)
  PROVE  Good(st, c, q, <<k>>, rd, Nobody)
<1>1. Types(st, c, q, <<>>, rd)
  BY DEF Good
<1>2. <<k>> \in Seq(LiveFrame(c)) /\ Len(<<k>>) = 1 /\ <<k>>[1] = k
  OBVIOUS
<1>3. Types(st, c, q, <<k>>, rd)
  BY <1>1, <1>2 DEF Types
<1>4. \A p \in Promise : NoReactions(<<k>>, GetFrames(p)) /\ ~ Single(<<>>, GetFrames(p))
  <2>1. \A i \in 1..Len(<<k>>) : i = 1
    BY <1>2
  <2>2. \A i : i \notin 1..Len(<<>>)
    OBVIOUS
  <2> QED BY <1>2, <2>1, <2>2 DEF NoReactions, Single
<1>5. ClaimsAre(st, c, q, <<k>>, Nobody)
  BY <1>4 DEF Good, ClaimsAre, Claimed, Unclaimed
<1> QED BY <1>3, <1>5 DEF Good

\* The types, from the invariant.
LEMMA IInvTypes ==
  ASSUME SettlingInv
  PROVE  /\ Types(state, captures, promiseQueue, frames, reacted)
         /\ PairTypes(captures)
         /\ state \in [Promise -> {"absent", "pending"} \cup Outcome]
         /\ \A p \in Promise : result[p] \in {Plain, Thenable}
BY DEF SettlingInv, Good, Types, ObjectTypes

\* At the start there is no promise, job or frame.
LEMMA PromisesInitIInv == PromisesInit => SettlingInv
<1> SUFFICES ASSUME PromisesInit PROVE SettlingInv
  OBVIOUS
<1> USE DEF PromisesInit
<1>1. /\ \A p \in Promise : /\ state[p] = "absent" /\ reactions[p] = <<>> /\ reacted[p] = <<>>
                            /\ thens[p] = 0 /\ Len(reactions[p]) = 0 /\ Len(reacted[p]) = 0
                            /\ Left(p) = 0 /\ ~handled[p]
      /\ \A f \in Pair : captures[f] = Unused
      /\ Len(promiseQueue) = 0
  BY DEF Left
<1>2. Types(state, captures, promiseQueue, frames, reacted)
  <2>1. ObjectTypes(state)
    BY DEF ObjectTypes
  <2>2. PairTypes(captures)
    BY DEF PairTypes
  <2>3. frames \in Seq(LiveFrame(captures)) /\ Len(frames) <= 1
    <3>1. Frame("script", 0) \in LiveFrame(captures)
      BY FrameIs
    <3> QED BY <3>1
  <2>4. /\ reacted \in [Promise -> Seq(Nat)]
        /\ reactions \in [Promise -> Seq(LiveReaction(captures))]
        /\ promiseQueue \in Seq(LiveJob(state, captures))
    BY EmptySeq
  <2> QED BY <2>1, <2>2, <2>3, <2>4 DEF Types
<1>3. ClaimsAre(state, captures, promiseQueue, frames, Nobody)
  <2>1. ASSUME NEW p \in Promise PROVE Unclaimed(captures, promiseQueue, frames, p)
    <3>1. NonePair(captures, p)
      BY <1>1, Constants DEF NonePair
    <3>2. NoReactions(promiseQueue, ThenableJobs(p))
      BY <1>1 DEF NoReactions
    <3>3. NoReactions(frames, GetFrames(p))
      <4>1. Frame("script", 0) \notin GetFrames(p)
        BY FrameIs
      <4>2. \A i \in 1..Len(frames) : frames[i] = Frame("script", 0)
        OBVIOUS
      <4> QED BY <4>1, <4>2 DEF NoReactions
    <3> QED BY <3>1, <3>2, <3>3 DEF Unclaimed
  <2> QED BY <1>1, <2>1, Constants DEF ClaimsAre
<1>4. ASSUME NEW p \in Promise PROVE OrderOf(state, promiseQueue, reacted, p)
  <2>1. \A n : n \notin 1..0 /\ n \notin 0 + 1..0
    OBVIOUS
  <2>2. InOrder(promiseQueue, ReactionsOf(p), Len(reacted[p]) + 1, Left(p))
    BY <1>1, <2>1 DEF InOrder
  <2> QED BY <1>1, <2>1, <2>2 DEF OrderOf
<1>5. TrackerKnows(state)
  BY <1>1 DEF TrackerKnows
<1> QED BY <1>2, <1>3, <1>4, <1>5 DEF SettlingInv, Good

\* A script makes promises, registers reactions and calls functions.
LEMMA JavaScriptStep == SettlingInv /\ JavaScript => SettlingInv'
<1> SUFFICES ASSUME SettlingInv, JavaScript PROVE SettlingInv'
  OBVIOUS
<1>0. Good(state, captures, promiseQueue, frames, reacted, Nobody)
  BY DEF SettlingInv
<1>1. CASE NewPromise
  <2>1. PICK p \in Promise, f \in Pair :
          /\ FreshPromise(p) /\ FreshPair(f)
          /\ state' = [state EXCEPT ![p] = "pending"]
          /\ captures' = [captures EXCEPT ![f] = p]
          /\ UNCHANGED <<result, handled, reactions, unhandled, promiseQueue, frames, thens, reacted>>
    BY <1>1 DEF NewPromise
  <2>2. Good([state EXCEPT ![p] = "pending"], [captures EXCEPT ![f] = p],
             promiseQueue, frames, reacted, Nobody)
    BY <1>0, <2>1, MakePromise DEF FreshPromise, FreshPair
  <2> QED BY <2>1, <2>2, StaysGood
<1>2. CASE Resolve
  <2>1. PICK f \in Pair, x \in {Plain, Thenable} \cup Promise :
          /\ captures[f] \in Promise
          /\ x \in Promise => state[x] # "absent"
          /\ CallResolve(f, x, frames, promiseQueue)
          /\ UNCHANGED <<thens, reacted>>
    BY <1>2 DEF Resolve
  <2>2. captures[f] # Unused
    BY <2>1, Constants
  <2> QED BY <1>0, <2>1, <2>2, CallResolveStep
<1>3. CASE Reject
  <2>1. PICK f \in Pair :
          /\ captures[f] \in Promise
          /\ CallReject(f, frames, promiseQueue)
          /\ UNCHANGED <<thens, reacted>>
    BY <1>3 DEF Reject
  <2>2. captures[f] # Unused
    BY <2>1, Constants
  <2> QED BY <1>0, <2>1, <2>2, CallRejectStep
<1>4. CASE Then
  <2>1. PICK t \in Promise, p \in Promise, f \in Pair, handler \in {Function, NoHandler} :
          /\ state[t] # "absent"
          /\ FreshPromise(p) /\ FreshPair(f)
          /\ PerformThen(t, handler, f, promiseQueue)
          /\ state' = [state EXCEPT ![p] = "pending"]
          /\ captures' = [captures EXCEPT ![f] = p]
          /\ UNCHANGED <<result, frames, reacted>>
    BY <1>4 DEF Then
  <2> PICK st, c : st = [state EXCEPT ![p] = "pending"] /\ c = [captures EXCEPT ![f] = p]
    OBVIOUS
  <2>2. Good(st, c, promiseQueue, frames, reacted, Nobody)
    BY <1>0, <2>1, MakePromise DEF FreshPromise, FreshPair
  <2>3. st[t] = state[t] /\ c[f] # Unused
    BY <2>1, IInvTypes, Constants DEF FreshPromise, PairTypes
  <2>4. handler # Awaiting /\ handler \notin Pair
    BY Constants DEF Function, NoHandler, Awaiting
  <2> QED BY <2>1, <2>2, <2>3, <2>4, PerformThenStep
<1>5. CASE Await
  <2>1. PICK t \in Promise :
          /\ state[t] # "absent"
          /\ PerformThen(t, Awaiting, Taken, promiseQueue)
          /\ UNCHANGED <<state, result, captures, frames, reacted>>
    BY <1>5 DEF Await
  <2>2. Awaiting \notin Pair
    BY Constants
  <2> QED BY <1>0, <2>1, <2>2, PerformThenStep
<1> QED BY <1>1, <1>2, <1>3, <1>4, <1>5 DEF JavaScript

\* The innermost frame is left: its function, or its promise, is known.
LEMMA LeaveFrame ==
  ASSUME SettlingInv, frames # <<>>
  PROVE  /\ Top.kind # "get" =>
              Good(state, captures, promiseQueue, Front(frames), reacted, Nobody)
         /\ Top.kind = "get" =>
              /\ Top.id \in Promise
              /\ Good(state, captures, promiseQueue, Front(frames), reacted, Top.id)
         /\ Top.kind \in {"handler", "native", "then"} => Top.id \in Pair /\ captures[Top.id] # Unused
<1>1. Good(state, captures, promiseQueue, frames, reacted, Nobody)
  BY DEF SettlingInv
<1>2. PICK k : k = Top
  OBVIOUS
<1>3. /\ k \in LiveFrame(captures)
      /\ k.kind # "get" => Good(state, captures, promiseQueue, Front(frames), reacted, Nobody)
      /\ k.kind = "get" => /\ k.id \in Promise
                           /\ Good(state, captures, promiseQueue, Front(frames), reacted, k.id)
  BY <1>1, <1>2, PopFrame DEF Top
<1>4. k.kind \in {"handler", "native", "then"} => k.id \in Pair /\ captures[k.id] # Unused
  <2>1. k \in NativeFrame
    BY <1>3 DEF LiveFrame
  <2>2. k.kind \in {"handler", "native", "then"} => k.id \in Pair
    BY <2>1 DEF NativeFrame
  <2> QED BY <1>3, <2>2 DEF LiveFrame
<1> QED BY <1>2, <1>3, <1>4

\* The innermost native function returns.
LEMMA ReturnStep == SettlingInv /\ Return => SettlingInv'
<1> SUFFICES ASSUME SettlingInv, Return PROVE SettlingInv'
  OBVIOUS
<1> DEFINE s == Front(frames)
<1>1. CASE /\ frames # <<>> /\ Top.kind \in {"script", "await", "then"}
           /\ frames' = s
           /\ UNCHANGED <<objects, captures, promiseQueue, thens, reacted>>
  <2>1. Good(state, captures, promiseQueue, s, reacted, Nobody)
    BY <1>1, LeaveFrame
  <2> QED BY <1>1, <2>1, StaysGood DEF objects
<1>2. ASSUME NEW x \in {Plain, Thenable} \cup Promise,
             frames # <<>> /\ Top.kind \in {"handler", "native"},
             x \in Promise => state[x] # "absent",
             CallResolve(Top.id, x, s, promiseQueue),
             UNCHANGED <<thens, reacted>>
      PROVE  SettlingInv'
  <2>1. /\ Good(state, captures, promiseQueue, s, reacted, Nobody)
        /\ Top.id \in Pair /\ captures[Top.id] # Unused
    BY <1>2, LeaveFrame
  <2> QED BY <1>2, <2>1, CallResolveStep
<1>3. CASE /\ frames # <<>> /\ Top.kind = "get"
           /\ Settled(Top.id, "fulfilled", Thenable, promiseQueue)
           /\ frames' = s
           /\ UNCHANGED <<captures, thens, reacted>>
  <2>1. Top.id \in Promise /\ Good(state, captures, promiseQueue, s, reacted, Top.id)
    BY <1>3, LeaveFrame
  <2> QED BY <1>3, <2>1, SettleStep DEF Outcome
<1>4. CASE /\ frames # <<>> /\ Top.kind = "get"
           /\ promiseQueue' = Append(promiseQueue, ThenableJob(Top.id, Thenable))
           /\ frames' = s
           /\ UNCHANGED <<objects, captures, thens, reacted>>
  <2>1. Top.id \in Promise /\ Good(state, captures, promiseQueue, s, reacted, Top.id)
    BY <1>4, LeaveFrame
  <2>2. Thenable \notin Promise
    BY Constants
  <2>3. Good(state, captures, Append(promiseQueue, ThenableJob(Top.id, Thenable)), s, reacted, Nobody)
    BY <2>1, <2>2, PassToJob
  <2> QED BY <1>4, <2>3, StaysGood DEF objects
<1> QED BY <1>1, <1>2, <1>3, <1>4 DEF Return

\* The innermost native function throws.
LEMMA ThrowStep == SettlingInv /\ Throw => SettlingInv'
<1> SUFFICES ASSUME SettlingInv, Throw PROVE SettlingInv'
  OBVIOUS
<1> DEFINE s == Front(frames)
<1>1. CASE /\ frames # <<>> /\ Top.kind = "script"
           /\ frames' = s
           /\ UNCHANGED <<objects, captures, promiseQueue, thens, reacted>>
  <2>1. Good(state, captures, promiseQueue, s, reacted, Nobody)
    BY <1>1, LeaveFrame
  <2> QED BY <1>1, <2>1, StaysGood DEF objects
<1>2. CASE /\ frames # <<>> /\ Top.kind \in {"handler", "then"}
           /\ CallReject(Top.id, s, promiseQueue)
           /\ UNCHANGED <<thens, reacted>>
  <2>1. /\ Good(state, captures, promiseQueue, s, reacted, Nobody)
        /\ Top.id \in Pair /\ captures[Top.id] # Unused
    BY <1>2, LeaveFrame
  <2> QED BY <1>2, <2>1, CallRejectStep
<1>3. CASE /\ frames # <<>> /\ Top.kind = "get"
           /\ Settled(Top.id, "rejected", Plain, promiseQueue)
           /\ frames' = s
           /\ UNCHANGED <<captures, thens, reacted>>
  <2>1. Top.id \in Promise /\ Good(state, captures, promiseQueue, s, reacted, Top.id)
    BY <1>3, LeaveFrame
  <2> QED BY <1>3, <2>1, SettleStep DEF Outcome
<1> QED BY <1>1, <1>2, <1>3 DEF Throw

\* A reaction job begins.
LEMMA RunReactionStep == SettlingInv /\ RunReaction => SettlingInv'
<1> SUFFICES ASSUME SettlingInv, RunReaction PROVE SettlingInv'
  OBVIOUS
<1> PICK job, r, rest, rd :
      /\ job = Head(promiseQueue) /\ r = job.reaction /\ rest = Tail(promiseQueue)
      /\ rd = [reacted EXCEPT ![job.promise] = Append(@, job.reaction.number)]
  OBVIOUS
<1>1. /\ frames = <<>> /\ promiseQueue # <<>> /\ job.kind = "reaction"
      /\ reacted' = rd /\ UNCHANGED thens
  BY DEF RunReaction, Runs
<1>2. Good(state, captures, rest, <<>>, rd, Nobody)
  BY <1>1, TakeReaction DEF SettlingInv
<1>3. r \in LiveReaction(captures) /\ job.value \in {Plain, Thenable}
  BY <1>1, HeadOfQueue DEF SettlingInv, Good, Types
<1>4. /\ r \in Reaction
      /\ r.handler \in Pair => captures[r.handler] # Unused
      /\ r.handler = Awaiting => r.cap = Taken
      /\ r.handler # Awaiting => r.cap \in Pair /\ captures[r.cap] # Unused
  BY <1>3 DEF LiveReaction
<1>5. CASE /\ r.handler \in {Function, Awaiting}
           /\ frames' = <<Frame(IF r.handler = Awaiting THEN "await" ELSE "handler", r.cap)>>
           /\ promiseQueue' = rest
           /\ UNCHANGED <<objects, captures>>
  <2> PICK k : k = Frame(IF r.handler = Awaiting THEN "await" ELSE "handler", r.cap)
    OBVIOUS
  <2>1. k \in LiveFrame(captures) /\ \A p \in Promise : k \notin GetFrames(p)
    <3>1. CASE r.handler = Awaiting
      <4>1. k = Frame("await", 0)
        BY <1>4, <3>1 DEF Taken
      <4> QED BY <4>1, FrameIs
    <3>2. CASE r.handler # Awaiting
      <4>1. k = Frame("handler", r.cap) /\ r.cap \in Pair /\ captures[r.cap] # Unused
        BY <1>4, <3>2
      <4> QED BY <4>1, FrameIs
    <3> QED BY <3>1, <3>2
  <2>2. Good(state, captures, rest, <<k>>, rd, Nobody)
    BY <1>2, <2>1, PushFrame
  <2> QED BY <1>1, <1>5, <2>2, StaysGood DEF objects
<1>6. CASE /\ r.handler = NoHandler
           /\ IF job.type = "rejected" THEN CallReject(r.cap, <<>>, rest)
                                       ELSE CallResolve(r.cap, job.value, <<>>, rest)
  <2>1. r.cap \in Pair /\ captures[r.cap] # Unused
    BY <1>4, <1>6 DEF NoHandler, Awaiting
  <2>2. CASE CallReject(r.cap, <<>>, rest)
    BY <1>1, <1>2, <2>1, <2>2, CallRejectStep
  <2>3. CASE CallResolve(r.cap, job.value, <<>>, rest)
    <3>1. job.value \notin Promise
      BY <1>3, Constants
    <3> QED BY <1>1, <1>2, <1>3, <2>1, <2>3, <3>1, CallResolveStep
  <2> QED BY <1>6, <2>2, <2>3
<1>7. CASE /\ r.handler \in Pair
           /\ IF job.type = "rejected"
              THEN CallReject(r.handler, <<Frame("native", r.cap)>>, rest)
              ELSE CallResolve(r.handler, job.value, <<Frame("native", r.cap)>>, rest)
  <2> PICK k : k = Frame("native", r.cap)
    OBVIOUS
  <2>1. /\ r.cap \in Pair /\ captures[r.cap] # Unused
        /\ r.handler \in Pair /\ captures[r.handler] # Unused
    BY <1>4, <1>7, Constants
  <2>2. k \in LiveFrame(captures) /\ \A p \in Promise : k \notin GetFrames(p)
    BY <2>1, FrameIs
  <2>3. Good(state, captures, rest, <<k>>, rd, Nobody)
    BY <1>2, <2>2, PushFrame
  <2>4. CASE CallReject(r.handler, <<k>>, rest)
    BY <1>1, <2>1, <2>3, <2>4, CallRejectStep
  <2>5. CASE CallResolve(r.handler, job.value, <<k>>, rest)
    <3>1. job.value \notin Promise
      BY <1>3, Constants
    <3> QED BY <1>1, <1>3, <2>1, <2>3, <2>5, <3>1, CallResolveStep
  <2> QED BY <1>7, <2>4, <2>5
<1> QED BY <1>5, <1>6, <1>7 DEF RunReaction

\* A job that calls `then` of a thenable begins.
LEMMA RunThenableStep == SettlingInv /\ RunThenable => SettlingInv'
<1> SUFFICES ASSUME SettlingInv, RunThenable PROVE SettlingInv'
  OBVIOUS
<1> PICK job : job = Head(promiseQueue)
  OBVIOUS
<1>1. PICK f \in Pair :
        /\ frames = <<>> /\ promiseQueue # <<>> /\ job.kind = "thenable"
        /\ FreshPair(f)
        /\ captures' = [captures EXCEPT ![f] = job.promise]
        /\ frames' = <<Frame("then", f)>>
        /\ promiseQueue' = Tail(promiseQueue)
        /\ UNCHANGED <<objects, thens, reacted>>
  BY DEF RunThenable
<1> PICK p, c, q : p = job.promise /\ c = [captures EXCEPT ![f] = p] /\ q = Tail(promiseQueue)
  OBVIOUS
<1>2. p \in Promise
  BY <1>1, HeadOfQueue DEF SettlingInv, Good, Types
<1>3. Good(state, captures, q, <<>>, reacted, p)
  BY <1>1, TakeThenable DEF SettlingInv
<1>4. Good(state, c, q, <<>>, reacted, Nobody)
  BY <1>1, <1>2, <1>3, PassToPair DEF FreshPair
<1>5. Frame("then", f) \in LiveFrame(c) /\ \A r \in Promise : Frame("then", f) \notin GetFrames(r)
  <2>1. c[f] # Unused
    BY <1>2, IInvTypes, Constants DEF PairTypes
  <2> QED BY <2>1, FrameIs
<1>6. Good(state, c, q, <<Frame("then", f)>>, reacted, Nobody)
  BY <1>4, <1>5, PushFrame
<1> QED BY <1>1, <1>6, StaysGood DEF objects

\* A job that calls `then` of a promise runs.
LEMMA RunAdoptionStep == SettlingInv /\ RunAdoption => SettlingInv'
<1> SUFFICES ASSUME SettlingInv, RunAdoption PROVE SettlingInv'
  OBVIOUS
<1> PICK job, q : job = Head(promiseQueue) /\ q = Tail(promiseQueue)
  OBVIOUS
<1>1. /\ frames = <<>> /\ promiseQueue # <<>> /\ job.kind = "thenable" /\ job.value \in Promise
  BY DEF RunAdoption
<1>2. PICK p \in Promise, f \in Pair, g \in Pair :
        /\ FreshPair(f) /\ g = f + 1 /\ FreshPromise(p)
        /\ PerformThen(job.value, f, g, q)
        /\ state' = [state EXCEPT ![p] = "pending"]
        /\ captures' = [captures EXCEPT ![f] = job.promise, ![g] = p]
        /\ UNCHANGED <<result, frames, reacted>>
  BY DEF RunAdoption
<1> PICK l, c, d, st :
      /\ l = job.promise
      /\ c = [captures EXCEPT ![f] = l]
      /\ d = [c EXCEPT ![g] = p]
      /\ st = [state EXCEPT ![p] = "pending"]
  OBVIOUS
<1>3. l \in Promise /\ state[job.value] # "absent"
  BY <1>1, HeadOfQueue DEF SettlingInv, Good, Types
<1>4. Good(state, captures, q, <<>>, reacted, l)
  BY <1>1, TakeThenable DEF SettlingInv
<1>5. Good(state, c, q, <<>>, reacted, Nobody)
  BY <1>2, <1>3, <1>4, PassToPair DEF FreshPair
<1>6. /\ f # g /\ f < g
      /\ \A h \in Pair : h < g => h < f \/ h = f
  BY <1>2, Constants
<1>7. /\ \A h \in Pair : c[h] = IF h = f THEN l ELSE captures[h]
      /\ captures[f] = Unused /\ captures[g] = Unused
      /\ \A h \in Pair : h < f => captures[h] # Unused
      /\ c \in [Pair -> Promise \cup {Taken, Unused}]
  BY <1>2, <1>3, <1>6, IInvTypes DEF FreshPair, PairTypes
<1>8. l # Unused /\ p # Unused
  BY <1>3, Constants
<1>9. c[g] = Unused /\ \A h \in Pair : h < g => c[h] # Unused
  BY ONLY <1>6, <1>7, <1>8, f \in Pair, g \in Pair
<1>10. Good(st, d, q, <<>>, reacted, Nobody)
  BY <1>2, <1>5, <1>9, MakePromise DEF FreshPromise
<1>11. captures' = d
  BY ONLY <1>2, <1>6, l = job.promise, c = [captures EXCEPT ![f] = l], d = [c EXCEPT ![g] = p]
<1>12. /\ st[job.value] = state[job.value]
       /\ d[f] # Unused /\ d[g] # Unused
  BY <1>1, <1>2, <1>3, <1>6, <1>7, <1>8, IInvTypes DEF FreshPromise
<1>13. f # Awaiting
  BY Constants
<1> PICK t : t = job.value
  OBVIOUS
<1>14. /\ t \in Promise /\ st[t] = state[t] /\ state[t] # "absent"
       /\ PerformThen(t, f, g, q)
       /\ state' = st /\ frames' = <<>> /\ reacted' = reacted /\ result' = result
  BY <1>1, <1>2, <1>3, <1>12
<1> QED BY ONLY <1>10, <1>11, <1>12, <1>13, <1>14, PerformThenStep, f \in Pair, g \in Pair

\* Every step preserves the invariant.
LEMMA PromisesStepIInv == SettlingInv /\ [PromisesNext]_promiseVars => SettlingInv'
<1> SUFFICES ASSUME SettlingInv, [PromisesNext]_promiseVars PROVE SettlingInv'
  OBVIOUS
<1>1. CASE UNCHANGED promiseVars
  BY <1>1, StaysGood DEF promiseVars, objects, SettlingInv
<1>2. CASE PromisesNext
  BY <1>2, JavaScriptStep, ReturnStep, ThrowStep, RunReactionStep, RunThenableStep,
     RunAdoptionStep DEF PromisesNext, PromisesStep
<1> QED BY <1>1, <1>2

\* The invariant holds.
LEMMA PromisesIInv == PromisesSpec => []SettlingInv
BY PromisesInitIInv, PromisesStepIInv, PTL DEF PromisesSpec

----------------------------------------------------------------------------
(* What the invariant says.                                                 *)

\* The types the model states, from those of the invariant.
LEMMA IInvTypeOK == SettlingInv => PromisesTypeOK
<1> SUFFICES ASSUME SettlingInv PROVE PromisesTypeOK
  OBVIOUS
<1>1. Types(state, captures, promiseQueue, frames, reacted)
  BY DEF SettlingInv, Good
<1>2. /\ LiveReaction(captures) \subseteq Reaction
      /\ LiveJob(state, captures) \subseteq Job
      /\ LiveFrame(captures) \subseteq NativeFrame
  BY DEF LiveReaction, LiveJob, LiveFrame
<1>3. reactions \in [Promise -> Seq(Reaction)]
  BY <1>1, <1>2, SeqMonotonic DEF Types
<1>4. promiseQueue \in Seq(Job) /\ frames \in Seq(NativeFrame)
  BY <1>1, <1>2, SeqMonotonic DEF Types
<1> QED BY <1>1, <1>3, <1>4 DEF PromisesTypeOK, Types, ObjectTypes, PairTypes

\* The claims of OneClaim are what ClaimsAre counts.
LEMMA ClaimsInTheirPlaces ==
  ASSUME SettlingInv, NEW p \in Promise
  PROVE  \A x : x \in Claims(p) <=>
           \/ \E f \in Pair : x = <<"pair", f>> /\ captures[f] = p
           \/ \E i \in 1..Len(promiseQueue) :
                x = <<"job", i>> /\ promiseQueue[i] \in ThenableJobs(p)
           \/ \E i \in 1..Len(frames) : x = <<"frame", i>> /\ frames[i] \in GetFrames(p)
<1>1. /\ promiseQueue \in Seq(LiveJob(state, captures))
      /\ frames \in Seq(LiveFrame(captures))
  BY DEF SettlingInv, Good, Types
<1>2. /\ DOMAIN promiseQueue = 1..Len(promiseQueue)
      /\ \A i \in 1..Len(promiseQueue) : promiseQueue[i] \in Job
  BY <1>1, LenProperties, ElementOfSeq DEF LiveJob
<1>3. /\ DOMAIN frames = 1..Len(frames)
      /\ \A i \in 1..Len(frames) : frames[i] \in NativeFrame
  BY <1>1, LenProperties, ElementOfSeq DEF LiveFrame
<1>4. \A k \in NativeFrame : k = Frame("get", p) <=> k \in GetFrames(p)
  BY DEF NativeFrame, GetFrames, Frame
<1>5. \A j \in Job : j.kind = "thenable" /\ j.promise = p <=> j \in ThenableJobs(p)
  BY DEF ThenableJobs
<1>6. \A i \in 1..Len(frames) : frames[i] = Frame("get", p) <=> frames[i] \in GetFrames(p)
  BY ONLY <1>3, <1>4
<1>7. \A i \in 1..Len(promiseQueue) :
        promiseQueue[i].kind = "thenable" /\ promiseQueue[i].promise = p
          <=> promiseQueue[i] \in ThenableJobs(p)
  BY ONLY <1>2, <1>5
<1> QED BY ONLY <1>2, <1>3, <1>6, <1>7 DEF Claims

\* A set that has one element is the set of that element.
LEMMA OneElement ==
  ASSUME NEW C, NEW e, \A x : x \in C <=> x = e
  PROVE  \E x \in C : C = {x}
<1>1. e \in C
  OBVIOUS
<1>2. C = {e}
  OBVIOUS
<1> QED BY ONLY <1>1, <1>2

\* Counting the places in which a claim may be: OneClaim, from the claims of
\* the invariant.
LEMMA IInvOneClaim == SettlingInv => OneClaim
<1> SUFFICES ASSUME SettlingInv, NEW p \in Promise
             PROVE  IF state[p] = "pending" THEN \E x \in Claims(p) : Claims(p) = {x}
                                            ELSE Claims(p) = {}
  BY DEF OneClaim
<1> PICK C : C = Claims(p)
  OBVIOUS
<1>1. \A x : x \in C <=>
           \/ \E f \in Pair : x = <<"pair", f>> /\ captures[f] = p
           \/ \E i \in 1..Len(promiseQueue) :
                x = <<"job", i>> /\ promiseQueue[i] \in ThenableJobs(p)
           \/ \E i \in 1..Len(frames) : x = <<"frame", i>> /\ frames[i] \in GetFrames(p)
  BY ClaimsInTheirPlaces
<1>2. IF state[p] = "pending" THEN Claimed(captures, promiseQueue, frames, p)
                              ELSE Unclaimed(captures, promiseQueue, frames, p)
  BY Constants DEF SettlingInv, Good, ClaimsAre
<1>3. ASSUME Unclaimed(captures, promiseQueue, frames, p) PROVE C = {}
  BY ONLY <1>1, <1>3 DEF Unclaimed, NonePair, NoReactions
<1>4. ASSUME Claimed(captures, promiseQueue, frames, p) PROVE \E x \in C : C = {x}
  <2>1. CASE /\ SinglePair(captures, p)
             /\ NoReactions(promiseQueue, ThenableJobs(p)) /\ NoReactions(frames, GetFrames(p))
    <3>1. PICK f \in Pair : captures[f] = p /\ \A g \in Pair : captures[g] = p => g = f
      BY <2>1 DEF SinglePair
    <3> PICK e : e = <<"pair", f>>
      OBVIOUS
    <3>2. \A x : x \in C <=> x = e
      BY ONLY e = <<"pair", f>>, <1>1, <2>1, <3>1, f \in Pair DEF NoReactions
    <3> QED BY ONLY <3>2, OneElement
  <2>2. CASE /\ NonePair(captures, p)
             /\ Single(promiseQueue, ThenableJobs(p)) /\ NoReactions(frames, GetFrames(p))
    <3>1. PICK i \in 1..Len(promiseQueue) :
            /\ promiseQueue[i] \in ThenableJobs(p)
            /\ \A k \in 1..Len(promiseQueue) : promiseQueue[k] \in ThenableJobs(p) => k = i
      BY <2>2 DEF Single
    <3> PICK e : e = <<"job", i>>
      OBVIOUS
    <3>2. \A x : x \in C <=> x = e
      BY ONLY e = <<"job", i>>, <1>1, <2>2, <3>1, i \in 1..Len(promiseQueue) DEF NoReactions, NonePair
    <3> QED BY ONLY <3>2, OneElement
  <2>3. CASE /\ NonePair(captures, p)
             /\ NoReactions(promiseQueue, ThenableJobs(p)) /\ Single(frames, GetFrames(p))
    <3>1. PICK i \in 1..Len(frames) :
            /\ frames[i] \in GetFrames(p)
            /\ \A k \in 1..Len(frames) : frames[k] \in GetFrames(p) => k = i
      BY <2>3 DEF Single
    <3> PICK e : e = <<"frame", i>>
      OBVIOUS
    <3>2. \A x : x \in C <=> x = e
      BY ONLY e = <<"frame", i>>, <1>1, <2>3, <3>1, i \in 1..Len(frames) DEF NoReactions, NonePair
    <3> QED BY ONLY <3>2, OneElement
  <2> QED BY ONLY <1>4, <2>1, <2>2, <2>3 DEF Claimed
<1> QED BY <1>2, <1>3, <1>4

\* The order of reactions, from that of the invariant.
LEMMA IInvReactionsInOrder == SettlingInv => ReactionsInOrder
<1> SUFFICES ASSUME SettlingInv PROVE ReactionsInOrder
  OBVIOUS
<1>1. Types(state, captures, promiseQueue, frames, reacted)
  BY IInvTypes
<1>2. ASSUME NEW p \in Promise
      PROVE  LET ran == Len(reacted[p])
                 left == thens[p] - Len(reactions[p])
                 numberOf(i) == promiseQueue[i].reaction.number
             IN
             /\ ran <= left
             /\ \A i \in 1..ran : reacted[p][i] = i
             /\ {numberOf(i) : i \in QueuedReactions(p)} = ran + 1..left
             /\ \A i, j \in QueuedReactions(p) : i < j => numberOf(i) < numberOf(j)
             /\ \A i \in DOMAIN reactions[p] : reactions[p][i].number = left + i
             /\ state[p] = "pending" => left = 0
             /\ state[p] # "pending" => reactions[p] = <<>>
             /\ \A i \in QueuedReactions(p) : promiseQueue[i].type = state[p]
  <2>1. OrderOf(state, promiseQueue, reacted, p)
    BY DEF SettlingInv, Good
  <2>2. /\ DOMAIN promiseQueue = 1..Len(promiseQueue)
        /\ \A i \in 1..Len(promiseQueue) : promiseQueue[i] \in Job
    BY <1>1, LenProperties, ElementOfSeq DEF Types, LiveJob
  <2>3. DOMAIN reactions[p] = 1..Len(reactions[p])
    BY <1>1, LenProperties DEF Types
  <2>4. \A i : i \in QueuedReactions(p) <=>
                 i \in 1..Len(promiseQueue) /\ promiseQueue[i] \in ReactionsOf(p)
    BY <2>2 DEF QueuedReactions, ReactionsOf
  <2>5. /\ \A i \in QueuedReactions(p) :
             NumberOf(promiseQueue[i]) \in Len(reacted[p]) + 1..Left(p)
        /\ \A n \in Len(reacted[p]) + 1..Left(p) :
             \E i \in QueuedReactions(p) : NumberOf(promiseQueue[i]) = n
        /\ \A i, j \in QueuedReactions(p) :
             i < j => NumberOf(promiseQueue[i]) < NumberOf(promiseQueue[j])
        /\ \A i \in QueuedReactions(p) : promiseQueue[i].type = state[p]
    BY ONLY <2>1, <2>4 DEF OrderOf, InOrder
  <2>6. {NumberOf(promiseQueue[i]) : i \in QueuedReactions(p)} = Len(reacted[p]) + 1..Left(p)
    BY ONLY <2>5
  <2> QED BY ONLY <2>1, <2>3, <2>5, <2>6 DEF OrderOf, NumberOf, Left
<1> QED BY <1>2 DEF ReactionsInOrder

\* The tracker's set, from that of the invariant.
LEMMA IInvTrackerIsExact == SettlingInv => TrackerIsExact
BY DEF SettlingInv, Good, Types, ObjectTypes, TrackerKnows, TrackerIsExact

----------------------------------------------------------------------------
(* PromiseCombinators: the first answer that is collected.                  *)

\* Where there is one, it is the one that no other precedes.
LEMMA FirstIs ==
  ASSUME NEW K, NEW s \in Seq(Answer), NEW j \in 1..Len(s), s[j][1] \in K,
         \A k \in 1..Len(s) : s[k][1] \in K => j <= k
  PROVE  FirstIn(s, K) = s[j] /\ FirstIn(s, K) \in Answer /\ FirstIn(s, K) # NoAnswer
<1>0. DOMAIN s = 1..Len(s)
  BY LenProperties
<1>1. PICK C : C = CollectedIn(s, K)
  OBVIOUS
<1>2. j \in C /\ \A k \in C : j <= k
  BY <1>0, <1>1 DEF CollectedIn
<1>3. Len(s) \in Nat /\ \A k \in C : k \in Nat
  BY <1>0, <1>1, LenProperties DEF CollectedIn
<1>4. \A m \in C : (\A k \in C : m <= k) => m = j
  BY <1>2, <1>3
<1>5. (CHOOSE m \in C : \A k \in C : m <= k) = j
  <2>1. \E m \in C : \A k \in C : m <= k
    BY <1>2
  <2>2. /\ (CHOOSE m \in C : \A k \in C : m <= k) \in C
        /\ \A k \in C : (CHOOSE m \in C : \A k1 \in C : m <= k1) <= k
    BY ONLY <2>1, Zenon
  <2> QED BY ONLY <1>4, <2>2
<1>6. FirstIn(s, K) = s[CHOOSE m \in C : \A k \in C : m <= k]
  BY <1>1, <1>2, Zenon DEF FirstIn
<1>7. s[j] \in Answer
  BY ElementOfSeq
<1> QED BY <1>5, <1>6, <1>7, CombinatorAssumption

\* What an answer adds to those before it.
LEMMA FirstAppended ==
  ASSUME NEW K, NEW s \in Seq(Answer), NEW a \in Answer, NEW t, t = Append(s, a)
  PROVE  /\ t \in Seq(Answer)
         /\ FirstIn(s, K) \in Answer \cup {NoAnswer}
         /\ FirstIn(t, K) = IF FirstIn(s, K) # NoAnswer THEN FirstIn(s, K)
                            ELSE IF a[1] \in K THEN a ELSE NoAnswer
<1>1. Len(s) \in Nat
  BY LenProperties
<1>2. /\ t \in Seq(Answer) /\ Len(t) = Len(s) + 1
      /\ \A i \in 1..Len(s) : t[i] = s[i]
      /\ t[Len(s) + 1] = a
  BY <1>1, AppendProperties
<1>0. DOMAIN s = 1..Len(s) /\ DOMAIN t = 1..Len(t)
  BY <1>2, LenProperties
<1>3. \A i \in 1..Len(t) : i \in 1..Len(s) \/ i = Len(s) + 1
  BY <1>1, <1>2
<1>4. /\ Len(s) + 1 \in 1..Len(t)
      /\ \A i \in 1..Len(s) : i \in 1..Len(t) /\ i <= Len(s) + 1 /\ i \in Nat
  BY <1>1, <1>2
<1>5. CASE CollectedIn(s, K) # {}
  <2>1. CollectedIn(s, K) \subseteq Nat
    BY <1>0, <1>4 DEF CollectedIn
  <2>2. PICK j \in CollectedIn(s, K) : \A k \in CollectedIn(s, K) : j <= k
    BY <1>5, <2>1, LeastNumber
  <2>3. /\ j \in 1..Len(s) /\ s[j][1] \in K
        /\ \A k \in 1..Len(s) : s[k][1] \in K => j <= k
    BY <1>0, <2>2 DEF CollectedIn
  <2>4. FirstIn(s, K) = s[j] /\ FirstIn(s, K) \in Answer /\ FirstIn(s, K) # NoAnswer
    BY <2>3, FirstIs
  <2>5. /\ j \in 1..Len(t) /\ t[j][1] \in K /\ t[j] = s[j]
        /\ \A k \in 1..Len(t) : t[k][1] \in K => j <= k
    BY <1>2, <1>3, <1>4, <2>3
  <2>6. FirstIn(t, K) = t[j]
    BY <1>2, <2>5, FirstIs
  <2> QED BY <1>2, <2>4, <2>5, <2>6
<1>6. CASE CollectedIn(s, K) = {}
  <2>1. FirstIn(s, K) = NoAnswer
    BY <1>6 DEF FirstIn
  <2>2. \A k \in 1..Len(s) : s[k][1] \notin K
    BY <1>0, <1>6 DEF CollectedIn
  <2>3. CASE a[1] \in K
    <3>1. PICK j : j = Len(s) + 1
      OBVIOUS
    <3>2. /\ j \in 1..Len(t) /\ t[j][1] \in K /\ t[j] = a
          /\ \A k \in 1..Len(t) : t[k][1] \in K => j <= k
      BY <1>1, <1>2, <1>3, <1>4, <2>2, <2>3, <3>1
    <3>3. FirstIn(t, K) = a
      BY <1>2, <3>2, FirstIs
    <3> QED BY <1>2, <2>1, <2>3, <3>3
  <2>4. CASE a[1] \notin K
    <3>1. \A k \in 1..Len(t) : t[k][1] \notin K
      BY <1>2, <1>3, <2>2, <2>4
    <3>2. CollectedIn(t, K) = {}
      BY <1>0, <3>1 DEF CollectedIn
    <3> QED BY <1>2, <2>1, <2>4, <3>2 DEF FirstIn
  <2> QED BY <2>3, <2>4
<1> QED BY <1>5, <1>6

----------------------------------------------------------------------------
(* PromiseCombinators: the inductive invariant.                             *)

Collecting == {status \in Status : Collects(status)}

Waiting(h, called) == (1..h) \ called

\* h elements have functions; those in called have answered, and what is kept
\* for an element is its first answer.
AnswersFit(K, h, called, es, as) ==
  /\ h \in Nat /\ called \subseteq 1..h
  /\ es \in Seq(Answer \cup {NoAnswer}) /\ h <= Len(es)
  /\ as \in Seq(Seq(Answer)) /\ Len(as) = h
  /\ \A i \in 1..Len(es) : i > h => es[i] = NoAnswer
  /\ \A i \in 1..h : es[i] = FirstIn(as[i], K) /\ (i \in called <=> es[i] # NoAnswer)

\* The count, and what is owed where it says that nothing remains.
CountFits ==
  /\ remaining \in Nat
  /\ remaining = Cardinality(Waiting(handed, alreadyCalled)) + (IF phase = "done" THEN 0 ELSE 1)
  /\ settled.by = "count" =>
       phase = "done" /\ Waiting(handed, alreadyCalled) = {} /\ settled.list = elements
  /\ phase = "done" /\ combinator # "race" /\ settled = Pending => remaining # 0
  /\ combinator = "race" => alreadyCalled = {}

CombinatorInv ==
  /\ CombinatorTypeOK
  /\ AnswersFit(Collecting, handed, alreadyCalled, elements, answers)
  /\ CountFits

\* Fewer or more elements that have not answered.
LEMMA WaitingCount ==
  ASSUME NEW h \in Nat, NEW called \in SUBSET (1..h)
  PROVE  /\ Cardinality(Waiting(h, called)) \in Nat
         /\ Cardinality(Waiting(h, called)) = 0 <=> Waiting(h, called) = {}
         /\ Cardinality(Waiting(h + 1, called)) = Cardinality(Waiting(h, called)) + 1
         /\ \A i \in Waiting(h, called) :
              Cardinality(Waiting(h, called \cup {i})) = Cardinality(Waiting(h, called)) - 1
<1>1. PICK S, T : S = 1..h /\ T = Waiting(h, called)
  OBVIOUS
<1>2. IsFiniteSet(T) /\ T \subseteq 1..h
  <2>1. IsFiniteSet(S) /\ T \subseteq S
    BY <1>1, FS_Interval DEF Waiting
  <2> QED BY <1>1, <2>1, FS_Subset
<1>3. Cardinality(T) \in Nat /\ (Cardinality(T) = 0 <=> T = {})
  BY <1>2, FS_CardinalityType, FS_EmptySet
<1>4. Cardinality(Waiting(h + 1, called)) = Cardinality(T) + 1
  <2>1. h + 1 \notin T /\ h + 1 \notin called
    BY <1>2
  <2>2. Waiting(h + 1, called) = T \cup {h + 1}
    BY <1>1, <2>1 DEF Waiting
  <2> QED BY <1>2, <2>1, <2>2, FS_AddElement
<1>5. ASSUME NEW i \in T PROVE Cardinality(Waiting(h, called \cup {i})) = Cardinality(T) - 1
  <2>1. Waiting(h, called \cup {i}) = T \ {i}
    BY <1>1 DEF Waiting
  <2> QED BY <1>2, <2>1, FS_RemoveElement
<1> QED BY <1>1, <1>3, <1>4, <1>5

\* An element is added that has no functions yet.
LEMMA ElementAdded ==
  ASSUME NEW K, NEW h, NEW called, NEW es, NEW as, AnswersFit(K, h, called, es, as),
         NEW fs, fs = Append(es, NoAnswer)
  PROVE  AnswersFit(K, h, called, fs, as) /\ Len(fs) = Len(es) + 1
<1>1. Len(es) \in Nat /\ h \in Nat /\ h <= Len(es)
  BY LenProperties DEF AnswersFit
<1>2. /\ fs \in Seq(Answer \cup {NoAnswer}) /\ Len(fs) = Len(es) + 1
      /\ \A i \in 1..Len(es) : fs[i] = es[i]
      /\ fs[Len(es) + 1] = NoAnswer
  <2>1. PICK E : E = Answer \cup {NoAnswer}
    OBVIOUS
  <2>2. es \in Seq(E) /\ NoAnswer \in E
    BY <2>1 DEF AnswersFit
  <2>3. /\ Append(es, NoAnswer) \in Seq(E) /\ Len(Append(es, NoAnswer)) = Len(es) + 1
        /\ \A i \in 1..Len(es) : Append(es, NoAnswer)[i] = es[i]
        /\ Append(es, NoAnswer)[Len(es) + 1] = NoAnswer
    BY ONLY <2>2, AppendProperties
  <2> QED BY <2>1, <2>3
<1>3. \A i \in 1..Len(fs) : i \in 1..Len(es) \/ i = Len(es) + 1
  BY <1>1, <1>2
<1>4. \A i \in 1..h : i \in 1..Len(es)
  BY <1>1
<1>5. \A i \in 1..Len(fs) : i > h => fs[i] = NoAnswer
  BY <1>2, <1>3 DEF AnswersFit
<1>6. \A i \in 1..h : fs[i] = FirstIn(as[i], K) /\ (i \in called <=> fs[i] # NoAnswer)
  BY ONLY <1>2, <1>4, AnswersFit(K, h, called, es, as) DEF AnswersFit
<1>7. /\ called \subseteq 1..h /\ as \in Seq(Seq(Answer)) /\ Len(as) = h
      /\ h \in Nat /\ h <= Len(fs)
  <2>1. called \subseteq 1..h /\ as \in Seq(Seq(Answer)) /\ Len(as) = h
    BY DEF AnswersFit
  <2>2. h \in Nat /\ h <= Len(fs)
    BY ONLY <1>1, <1>2
  <2> QED BY <2>1, <2>2
<1>8. fs \in Seq(Answer \cup {NoAnswer})
  BY <1>2
<1>9. AnswersFit(K, h, called, fs, as)
  BY ONLY <1>5, <1>6, <1>7, <1>8 DEF AnswersFit
<1> QED BY <1>2, <1>9

\* It is given its functions.
LEMMA ElementHanded ==
  ASSUME NEW K, NEW h, NEW called, NEW es, NEW as, AnswersFit(K, h, called, es, as),
         h + 1 <= Len(es), NEW bs, bs = Append(as, <<>>)
  PROVE  AnswersFit(K, h + 1, called, es, bs)
<1>1. Len(es) \in Nat /\ h \in Nat /\ Len(as) = h /\ as \in Seq(Seq(Answer))
  BY LenProperties DEF AnswersFit
<1>2. PICK e : e = <<>>
  OBVIOUS
<1>3. e \in Seq(Answer) /\ Len(e) = 0 /\ DOMAIN e = {}
  BY <1>2, EmptySeq, LenProperties
<1>4. /\ bs \in Seq(Seq(Answer)) /\ Len(bs) = h + 1
      /\ \A i \in 1..h : bs[i] = as[i]
      /\ bs[h + 1] = e
  <2>1. PICK E : E = Seq(Answer)
    OBVIOUS
  <2>2. as \in Seq(E) /\ e \in E /\ Len(as) = h /\ bs = Append(as, e)
    BY <1>1, <1>2, <1>3, <2>1
  <2>3. bs \in Seq(E) /\ Len(bs) = h + 1 /\ bs[h + 1] = e
    BY ONLY <2>2, AppendProperties
  <2>4. \A i \in 1..h : bs[i] = as[i]
    BY ONLY <2>2, AppendProperties
  <2> QED BY <2>1, <2>3, <2>4
<1>5. CollectedIn(e, K) = {}
  BY <1>3 DEF CollectedIn
<1>6. FirstIn(e, K) = NoAnswer
  BY <1>5 DEF FirstIn
<1>7. \A i \in 1..h + 1 : i \in 1..h \/ i = h + 1
  BY <1>1
<1>8. h + 1 \in 1..Len(es) /\ h + 1 > h /\ h + 1 \notin 1..h
  BY <1>1
<1>9. es[h + 1] = NoAnswer /\ h + 1 \notin called
  BY <1>8 DEF AnswersFit
<1>10. ASSUME NEW i \in 1..h + 1
       PROVE  es[i] = FirstIn(bs[i], K) /\ (i \in called <=> es[i] # NoAnswer)
  <2>1. CASE i \in 1..h
    BY <1>4, <2>1 DEF AnswersFit
  <2>2. CASE i = h + 1
    BY <1>4, <1>6, <1>9, <2>2
  <2> QED BY <1>7, <2>1, <2>2
<1>11. \A i \in 1..Len(es) : i > h + 1 => es[i] = NoAnswer
  BY <1>1 DEF AnswersFit
<1>12. h + 1 \in Nat /\ called \subseteq 1..h + 1
  BY <1>1 DEF AnswersFit
<1> QED BY <1>4, <1>10, <1>11, <1>12 DEF AnswersFit

\* It answers: with something that is not collected, or again, or for the first time.
LEMMA ElementAnswers ==
  ASSUME NEW K, NEW h, NEW called, NEW es, NEW as, AnswersFit(K, h, called, es, as),
         NEW i \in 1..h, NEW a \in Answer, NEW bs, bs = [as EXCEPT ![i] = Append(@, a)]
  PROVE  /\ a[1] \notin K \/ i \in called => AnswersFit(K, h, called, es, bs)
         /\ a[1] \in K /\ i \notin called =>
              AnswersFit(K, h, called \cup {i}, [es EXCEPT ![i] = a], bs)
<1>1. /\ Len(es) \in Nat /\ h \in Nat /\ Len(as) = h /\ as \in Seq(Seq(Answer)) /\ i \in 1..Len(es)
      /\ es \in Seq(Answer \cup {NoAnswer})
      /\ \A j \in 1..h : j \in 1..Len(es) /\ as[j] \in Seq(Answer)
  <2>1. /\ h \in Nat /\ h <= Len(es) /\ Len(as) = h /\ as \in Seq(Seq(Answer))
        /\ es \in Seq(Answer \cup {NoAnswer})
    BY DEF AnswersFit
  <2>2. Len(es) \in Nat
    BY ONLY <2>1, LenProperties
  <2>3. PICK E : E = Seq(Answer)
    OBVIOUS
  <2>4. \A j \in 1..Len(as) : as[j] \in E
    BY ONLY <2>1, <2>3, ElementOfSeq
  <2>5. \A j \in 1..h : j \in 1..Len(es)
    BY ONLY <2>1, <2>2
  <2> QED BY <2>1, <2>2, <2>3, <2>4, <2>5
<1>2. PICK t : t = Append(as[i], a)
  OBVIOUS
<1>3. /\ t \in Seq(Answer)
      /\ FirstIn(as[i], K) # NoAnswer => FirstIn(t, K) = FirstIn(as[i], K)
      /\ FirstIn(as[i], K) = NoAnswer => FirstIn(t, K) = IF a[1] \in K THEN a ELSE NoAnswer
  <2>1. PICK s : s = as[i] /\ s \in Seq(Answer)
    BY <1>1
  <2>2. /\ t \in Seq(Answer)
        /\ FirstIn(t, K) = IF FirstIn(s, K) # NoAnswer THEN FirstIn(s, K)
                           ELSE IF a[1] \in K THEN a ELSE NoAnswer
    <3>1. s \in Seq(Answer) /\ t = Append(s, a) /\ a \in Answer
      BY <1>2, <2>1
    <3> QED BY ONLY <3>1, FirstAppended
  <2> QED BY <2>1, <2>2
<1>4. /\ bs \in Seq(Seq(Answer)) /\ Len(bs) = h
      /\ \A j \in 1..h : bs[j] = IF j = i THEN t ELSE as[j]
  <2>1. PICK E : E = Seq(Answer)
    OBVIOUS
  <2>2. as \in Seq(E) /\ t \in E /\ i \in 1..Len(as)
    BY <1>1, <1>3, <2>1
  <2>3. bs = [as EXCEPT ![i] = t]
    BY <1>2
  <2>4. bs \in Seq(E) /\ Len(bs) = Len(as)
    BY ONLY <2>2, <2>3, ExceptSeq
  <2>5. DOMAIN as = 1..h
    BY <1>1, LenProperties
  <2>6. \A j \in 1..h : bs[j] = IF j = i THEN t ELSE as[j]
    BY ONLY <2>3, <2>5
  <2> QED BY <1>1, <2>1, <2>4, <2>6
<1>5. es[i] = FirstIn(as[i], K) /\ (i \in called <=> es[i] # NoAnswer)
  BY DEF AnswersFit
<1>6. ASSUME a[1] \notin K \/ i \in called PROVE AnswersFit(K, h, called, es, bs)
  <2>1. FirstIn(t, K) = es[i]
    BY <1>3, <1>5, <1>6
  <2>2. \A j \in 1..h : es[j] = FirstIn(bs[j], K) /\ (j \in called <=> es[j] # NoAnswer)
    BY <1>4, <2>1 DEF AnswersFit
  <2> QED BY <1>4, <2>2 DEF AnswersFit
<1>7. ASSUME a[1] \in K, i \notin called
      PROVE  AnswersFit(K, h, called \cup {i}, [es EXCEPT ![i] = a], bs)
  <2>1. PICK fs : fs = [es EXCEPT ![i] = a]
    OBVIOUS
  <2>2. /\ fs \in Seq(Answer \cup {NoAnswer}) /\ Len(fs) = Len(es)
        /\ \A j \in 1..Len(es) : fs[j] = IF j = i THEN a ELSE es[j]
    BY <1>1, <2>1, ExceptSeq
  <2>3. FirstIn(t, K) = a /\ a # NoAnswer
    BY <1>3, <1>5, <1>7, CombinatorAssumption
  <2>4. ASSUME NEW j \in 1..h
        PROVE  fs[j] = FirstIn(bs[j], K) /\ (j \in called \cup {i} <=> fs[j] # NoAnswer)
    <3>1. CASE j = i
      BY <1>1, <1>4, <2>2, <2>3, <3>1
    <3>2. CASE j # i
      BY <1>1, <1>4, <2>2, <3>2 DEF AnswersFit
    <3> QED BY <3>1, <3>2
  <2>5. \A j \in 1..Len(fs) : j > h => fs[j] = NoAnswer
    BY <1>1, <2>2 DEF AnswersFit
  <2>6. AnswersFit(K, h, called \cup {i}, fs, bs)
    BY <1>4, <2>2, <2>4, <2>5 DEF AnswersFit
  <2> QED BY <2>1, <2>6
<1> QED BY <1>6, <1>7

----------------------------------------------------------------------------
(* PromiseCombinators: the steps.                                           *)

\* A behaviour of a combinator begins so.
LEMMA CombinatorInitInv == CombinatorInit => CombinatorInv
<1> SUFFICES ASSUME CombinatorInit PROVE CombinatorInv
  OBVIOUS
<1>1. PICK e, z, K : e = <<>> /\ z = 0 /\ K = Collecting
  OBVIOUS
<1>2. /\ handed = z /\ alreadyCalled = {} /\ elements = e /\ answers = e /\ remaining = 1
      /\ phase = "next" /\ settled = Pending /\ combinator \in Combinators
  BY <1>1 DEF CombinatorInit
<1>3. /\ e \in Seq(Answer \cup {NoAnswer}) /\ e \in Seq(Seq(Answer)) /\ Len(e) = 0 /\ z \in Nat
      /\ \A i : i \notin 1..Len(e) /\ i \notin 1..z
  BY <1>1, EmptySeq
<1>4. AnswersFit(K, z, {}, e, e)
  BY ONLY <1>1, <1>3 DEF AnswersFit
<1>5. Cardinality(Waiting(handed, alreadyCalled)) = 0
  <2>1. Waiting(z, {}) = {}
    BY <1>3 DEF Waiting
  <2> QED BY <1>2, <2>1, FS_EmptySet
<1>6. CountFits
  BY <1>2, <1>5 DEF CountFits, Pending
<1>7. CombinatorTypeOK
  <2>1. settled \in [status : Status \cup {"pending"}, by : {"nothing", "count", "element", "error"},
                     list : Seq(Answer \cup {NoAnswer})]
    BY <1>1, <1>2, <1>3 DEF Pending
  <2> QED BY <1>1, <1>2, <1>3, <2>1 DEF CombinatorTypeOK
<1> QED BY <1>1, <1>2, <1>4, <1>6, <1>7 DEF CombinatorInv

\* What SettleWith does to the types and the count's promises.
LEMMA Settles ==
  ASSUME CombinatorTypeOK, NEW status \in Status, NEW by \in {"count", "element", "error"},
         NEW list \in Seq(Answer \cup {NoAnswer}), SettleWith(status, by, list)
  PROVE  /\ settled' \in [status : Status \cup {"pending"}, by : {"nothing", "count", "element", "error"},
                          list : Seq(Answer \cup {NoAnswer})]
         /\ settled' # Pending
         /\ settled' = settled \/ (settled'.by = by /\ settled'.list = list)
<1>1. PICK r : r = [status |-> status, by |-> by, list |-> list]
  OBVIOUS
<1>2. /\ r \in [status : Status \cup {"pending"}, by : {"nothing", "count", "element", "error"},
                list : Seq(Answer \cup {NoAnswer})]
      /\ r.by = by /\ r.list = list /\ by # "nothing"
  BY <1>1
<1>3. r # Pending
  BY ONLY <1>2 DEF Pending
<1>4. settled' = IF settled = Pending THEN r ELSE settled
  BY <1>1 DEF SettleWith
<1> QED BY <1>2, <1>3, <1>4 DEF CombinatorTypeOK

\* The statuses that are collected do not change.
LEMMA SameStatuses ==
  ASSUME combinator' = combinator
  PROVE  Collecting' = Collecting
BY DEF Collecting, Collects

\* A step of the loop over the elements.
LEMMA LoopKeeps ==
  ASSUME CombinatorInv, NextElement \/ InvokeThen \/ ThenReturned \/ EndOfElements \/ FailLoop
  PROVE  CombinatorInv'
<1>0. /\ CombinatorTypeOK /\ CountFits
      /\ AnswersFit(Collecting, handed, alreadyCalled, elements, answers)
  BY DEF CombinatorInv
<1>1. PICK K : K = Collecting
  OBVIOUS
<1>2. Len(elements) \in Nat /\ handed \in Nat /\ alreadyCalled \subseteq 1..handed
  BY <1>0, LenProperties DEF CombinatorTypeOK
<1>3. PICK n : n = Cardinality(Waiting(handed, alreadyCalled))
  OBVIOUS
<1>4. /\ n \in Nat /\ (n = 0 <=> Waiting(handed, alreadyCalled) = {})
      /\ Cardinality(Waiting(handed + 1, alreadyCalled)) = n + 1
  BY <1>2, <1>3, WaitingCount
<1>5. CASE NextElement
  <2>1. /\ phase = "next" /\ phase' = "resolve" /\ elements' = Append(elements, NoAnswer)
        /\ UNCHANGED <<combinator, handed, alreadyCalled, remaining, settled, answers>>
    BY <1>5 DEF NextElement
  <2>2. AnswersFit(K, handed, alreadyCalled, elements', answers) /\ Len(elements') = Len(elements) + 1
    BY <1>0, <1>1, <2>1, ElementAdded
  <2>3. AnswersFit(Collecting', handed', alreadyCalled', elements', answers')
    BY <1>1, <2>1, <2>2, SameStatuses
  <2>4. CountFits'
    BY <1>0, <2>1 DEF CountFits
  <2>5. CombinatorTypeOK'
    BY <1>0, <1>2, <2>1, <2>2 DEF CombinatorTypeOK, AnswersFit
  <2> QED BY <2>3, <2>4, <2>5 DEF CombinatorInv
<1>6. CASE InvokeThen
  <2>1. /\ phase = "resolve" /\ phase' = "then" /\ handed' = handed + 1 /\ remaining' = remaining + 1
        /\ answers' = Append(answers, <<>>)
        /\ UNCHANGED <<combinator, elements, alreadyCalled, settled>>
    BY <1>6 DEF InvokeThen
  <2>2. Len(elements) = handed + 1
    BY <1>0, <2>1 DEF CombinatorTypeOK
  <2>3. AnswersFit(K, handed + 1, alreadyCalled, elements, answers')
    <3>1. /\ AnswersFit(K, handed, alreadyCalled, elements, answers)
          /\ handed + 1 <= Len(elements) /\ answers' = Append(answers, <<>>)
      BY <1>0, <1>1, <1>2, <2>1, <2>2
    <3> QED BY ONLY <3>1, ElementHanded
  <2>4. AnswersFit(Collecting', handed', alreadyCalled', elements', answers')
    BY <1>1, <2>1, <2>3, SameStatuses
  <2>5. CountFits'
    <3>1. remaining' = Cardinality(Waiting(handed', alreadyCalled')) + 1 /\ remaining' \in Nat
      BY <1>0, <1>3, <1>4, <2>1 DEF CountFits
    <3> QED BY <1>0, <2>1, <3>1 DEF CountFits
  <2>6. CombinatorTypeOK'
    <3>1. /\ handed' \in Nat /\ alreadyCalled' \subseteq 1..handed'
          /\ Len(elements') = handed' /\ remaining' \in Nat /\ phase' = "then"
      BY <1>0, <1>2, <2>1, <2>2 DEF CombinatorTypeOK
    <3>2. (IF phase' = "resolve" THEN 1 ELSE 0) = 0
      BY <3>1
    <3> QED BY <1>0, <2>1, <3>1, <3>2 DEF CombinatorTypeOK
  <2> QED BY <2>4, <2>5, <2>6 DEF CombinatorInv
<1>7. ASSUME UNCHANGED <<combinator, elements, handed, alreadyCalled, answers>>
      PROVE  AnswersFit(Collecting', handed', alreadyCalled', elements', answers')
  BY <1>0, <1>7, SameStatuses
<1>8. CASE ThenReturned
  <2>1. /\ phase = "then" /\ phase' = "next"
        /\ UNCHANGED <<combinator, elements, handed, alreadyCalled, remaining, settled, answers>>
    BY <1>8 DEF ThenReturned
  <2>2. CountFits' /\ CombinatorTypeOK'
    BY <1>0, <2>1 DEF CountFits, CombinatorTypeOK
  <2> QED BY <1>7, <2>1, <2>2 DEF CombinatorInv
<1>9. CASE EndOfElements
  <2>1. /\ phase = "next" /\ phase' = "done" /\ remaining' = remaining - 1
        /\ UNCHANGED <<combinator, elements, handed, alreadyCalled, answers>>
        /\ IF combinator # "race" /\ remaining' = 0
           THEN SettleWith(Collected, "count", elements) ELSE UNCHANGED settled
    BY <1>9 DEF EndOfElements
  <2>2. remaining' = n /\ Waiting(handed', alreadyCalled') = Waiting(handed, alreadyCalled)
    BY <1>0, <1>3, <1>4, <2>1 DEF CountFits
  <2>3. CASE combinator # "race" /\ remaining' = 0
    <3>1. elements \in Seq(Answer \cup {NoAnswer}) /\ Collected \in Status
      BY <1>0 DEF CombinatorTypeOK, Collected, Status
    <3>2. /\ settled' \in [status : Status \cup {"pending"}, by : {"nothing", "count", "element", "error"},
                           list : Seq(Answer \cup {NoAnswer})]
          /\ settled' # Pending
          /\ settled' = settled \/ (settled'.by = "count" /\ settled'.list = elements)
      BY <1>0, <2>1, <2>3, <3>1, Settles
    <3>3. settled.by # "count"
      BY <1>0, <2>1 DEF CountFits
    <3>4. CountFits'
      BY <1>0, <1>3, <1>4, <2>1, <2>2, <2>3, <3>2, <3>3 DEF CountFits
    <3>5. CombinatorTypeOK'
      BY <1>0, <1>4, <2>1, <2>2, <3>2 DEF CombinatorTypeOK
    <3> QED BY <1>7, <2>1, <3>4, <3>5 DEF CombinatorInv
  <2>4. CASE ~ (combinator # "race" /\ remaining' = 0)
    <3>1. settled' = settled /\ settled.by # "count"
      BY <1>0, <2>1, <2>4 DEF CountFits
    <3>2. CountFits' /\ CombinatorTypeOK'
      BY <1>0, <1>3, <1>4, <2>1, <2>2, <2>4, <3>1 DEF CountFits, CombinatorTypeOK
    <3> QED BY <1>7, <2>1, <3>2 DEF CombinatorInv
  <2> QED BY <2>3, <2>4
<1>10. CASE FailLoop
  <2>1. /\ phase \in {"next", "resolve", "then", "close"} /\ phase' \in {"close", "failed"}
        /\ UNCHANGED <<combinator, elements, handed, alreadyCalled, remaining, answers>>
        /\ UNCHANGED settled \/ SettleWith("rejected", "error", <<>>)
    BY <1>10 DEF FailLoop
  <2>2. PICK e : e = <<>> /\ e \in Seq(Answer \cup {NoAnswer})
    BY EmptySeq
  <2>3. settled.by # "count"
    BY <1>0, <2>1 DEF CountFits
  <2>4. /\ settled' \in [status : Status \cup {"pending"}, by : {"nothing", "count", "element", "error"},
                         list : Seq(Answer \cup {NoAnswer})]
        /\ settled' = settled \/ settled'.by = "error"
    <3>1. CASE UNCHANGED settled
      BY <1>0, <3>1 DEF CombinatorTypeOK
    <3>2. CASE SettleWith("rejected", "error", <<>>)
      <4>1. SettleWith("rejected", "error", e) /\ "rejected" \in Status
        BY <2>2, <3>2 DEF Status
      <4> QED BY <1>0, <2>2, <4>1, Settles
    <3> QED BY <2>1, <3>1, <3>2
  <2>5. CountFits'
    BY <1>0, <2>1, <2>3, <2>4 DEF CountFits
  <2>6. CombinatorTypeOK'
    BY <1>0, <2>1, <2>4 DEF CombinatorTypeOK
  <2> QED BY <1>7, <2>1, <2>5, <2>6 DEF CombinatorInv
<1> QED BY <1>5, <1>6, <1>8, <1>9, <1>10

\* A call of one of the functions of an element.
LEMMA CallKeeps ==
  ASSUME CombinatorInv, NEW i \in 1..handed, NEW status \in Status, NEW v \in Value,
         CallFunction(i, status, v)
  PROVE  CombinatorInv'
<1>0. /\ CombinatorTypeOK /\ CountFits
      /\ AnswersFit(Collecting, handed, alreadyCalled, elements, answers)
  BY DEF CombinatorInv
<1>1. PICK K, a : K = Collecting /\ a = <<status, v>>
  OBVIOUS
<1>2. a \in Answer /\ (a[1] \in K <=> Collects(status))
  BY <1>1 DEF Answer, Collecting
<1>3. /\ UNCHANGED <<combinator, phase, handed>>
      /\ answers' = [answers EXCEPT ![i] = Append(@, a)]
  BY <1>1 DEF CallFunction
<1>4. PICK h, called, es : h = handed /\ called = alreadyCalled /\ es = elements
  OBVIOUS
<1>5. /\ a[1] \notin K \/ i \in called => AnswersFit(K, h, called, es, answers')
      /\ a[1] \in K /\ i \notin called =>
           AnswersFit(K, h, called \cup {i}, [es EXCEPT ![i] = a], answers')
  <2>1. AnswersFit(K, h, called, es, answers)
    BY <1>0, <1>1, <1>4
  <2> QED BY <1>2, <1>3, <1>4, <2>1, ElementAnswers
<1>6. Collecting' = K
  BY <1>1, <1>3, SameStatuses
<1>7. h \in Nat /\ called \in SUBSET (1..h) /\ es \in Seq(Answer \cup {NoAnswer}) /\ Len(es) \in Nat
  BY <1>0, <1>4, LenProperties DEF CombinatorTypeOK
<1>8. CASE ~ Collects(status)
  <2>1. /\ SettleWith(status, "element", <<a>>)
        /\ UNCHANGED <<elements, alreadyCalled, remaining>>
    BY <1>1, <1>8 DEF CallFunction
  <2>2. AnswersFit(Collecting', handed', alreadyCalled', elements', answers')
    BY <1>2, <1>3, <1>4, <1>5, <1>6, <1>8, <2>1
  <2>3. PICK l : l = <<a>> /\ l \in Seq(Answer \cup {NoAnswer})
    <3>1. PICK E : E = Answer \cup {NoAnswer}
      OBVIOUS
    <3>2. a \in E
      BY <1>2, <3>1
    <3>3. <<a>> \in Seq(E)
      BY ONLY <3>2
    <3> QED BY <3>1, <3>3
  <2>4. /\ settled' \in [status : Status \cup {"pending"}, by : {"nothing", "count", "element", "error"},
                         list : Seq(Answer \cup {NoAnswer})]
        /\ settled' # Pending
        /\ settled' = settled \/ settled'.by = "element"
    BY <1>0, <2>1, <2>3, Settles
  <2>5. CountFits'
    BY <1>0, <1>3, <2>1, <2>4 DEF CountFits
  <2>6. CombinatorTypeOK'
    BY <1>0, <1>3, <2>1, <2>4 DEF CombinatorTypeOK
  <2> QED BY <2>2, <2>5, <2>6 DEF CombinatorInv
<1>9. CASE Collects(status) /\ i \in alreadyCalled
  <2>1. UNCHANGED <<elements, alreadyCalled, remaining, settled>>
    BY <1>9 DEF CallFunction
  <2>2. AnswersFit(Collecting', handed', alreadyCalled', elements', answers')
    BY <1>3, <1>4, <1>5, <1>6, <1>9, <2>1
  <2>3. CountFits' /\ CombinatorTypeOK'
    BY <1>0, <1>3, <2>1 DEF CountFits, CombinatorTypeOK
  <2> QED BY <2>2, <2>3 DEF CombinatorInv
<1>10. CASE Collects(status) /\ i \notin alreadyCalled
  <2>1. PICK fs : fs = [es EXCEPT ![i] = a]
    OBVIOUS
  <2>2. /\ alreadyCalled' = called \cup {i} /\ elements' = fs /\ remaining' = remaining - 1
        /\ IF remaining' = 0 THEN SettleWith(Collected, "count", fs) ELSE UNCHANGED settled
    BY <1>1, <1>4, <1>10, <2>1 DEF CallFunction
  <2>3. AnswersFit(K, h, called \cup {i}, fs, answers')
    BY <1>2, <1>4, <1>5, <1>10, <2>1
  <2>4. AnswersFit(Collecting', handed', alreadyCalled', elements', answers')
    BY <1>3, <1>4, <1>6, <2>2, <2>3
  <2>5. /\ fs \in Seq(Answer \cup {NoAnswer}) /\ h <= Len(fs)
        /\ called \cup {i} \subseteq 1..h
    BY <2>3 DEF AnswersFit
  <2>6. Len(fs) = Len(es)
    <3>1. DOMAIN fs = DOMAIN es
      BY <2>1
    <3> QED BY <1>7, <2>5, <3>1, LenProperties
  <2>7. i \in Waiting(h, called) /\ Waiting(h, called \cup {i}) \subseteq Waiting(h, called)
    BY <1>4, <1>10 DEF Waiting
  <2>8. PICK n : n = Cardinality(Waiting(h, called))
    OBVIOUS
  <2>9. /\ n \in Nat /\ (n = 0 <=> Waiting(h, called) = {})
        /\ Cardinality(Waiting(h, called \cup {i})) = n - 1
    BY <1>7, <2>7, <2>8, WaitingCount
  <2>10. Cardinality(Waiting(h, called \cup {i})) \in Nat
         /\ (Cardinality(Waiting(h, called \cup {i})) = 0 <=> Waiting(h, called \cup {i}) = {})
    BY <1>7, <2>5, WaitingCount
  <2>11. n >= 1 /\ settled.by # "count" /\ combinator # "race"
    <3>1. combinator # "race"
      BY <1>10 DEF Collects
    <3> QED BY <1>0, <1>4, <2>7, <2>9, <3>1 DEF CountFits
  <2>12. /\ remaining' = (n - 1) + (IF phase' = "done" THEN 0 ELSE 1) /\ remaining' \in Nat
    BY <1>0, <1>3, <1>4, <2>2, <2>8, <2>9, <2>11 DEF CountFits
  <2>13. CASE remaining' = 0
    <3>1. phase' = "done" /\ Waiting(h, called \cup {i}) = {}
      <4>1. CASE phase' = "done"
        <5>1. remaining' = n - 1
          BY <2>9, <2>12, <4>1
        <5>2. Cardinality(Waiting(h, called \cup {i})) = 0
          BY <2>9, <2>13, <5>1
        <5> QED BY <2>10, <4>1, <5>2
      <4>2. CASE phase' # "done"
        <5>1. remaining' = (n - 1) + 1
          BY <2>12, <4>2
        <5>2. n = 0
          BY <2>9, <2>13, <5>1
        <5> QED BY <2>11, <5>2
      <4> QED BY <4>1, <4>2
    <3>2. Collected \in Status
      BY DEF Collected, Status
    <3>3. /\ settled' \in [status : Status \cup {"pending"}, by : {"nothing", "count", "element", "error"},
                           list : Seq(Answer \cup {NoAnswer})]
          /\ settled' # Pending
          /\ settled' = settled \/ (settled'.by = "count" /\ settled'.list = fs)
      BY <1>0, <2>2, <2>5, <2>13, <3>2, Settles
    <3>4. CountFits'
      BY <1>3, <1>4, <2>2, <2>9, <2>11, <2>12, <2>13, <3>1, <3>3 DEF CountFits
    <3>5. /\ alreadyCalled' \subseteq 1..handed' /\ elements' \in Seq(Answer \cup {NoAnswer})
          /\ Len(elements') = Len(elements)
      BY <1>3, <1>4, <2>2, <2>5, <2>6
    <3>6. CombinatorTypeOK'
      BY <1>0, <1>3, <2>12, <3>3, <3>5 DEF CombinatorTypeOK
    <3> QED BY <2>4, <3>4, <3>6 DEF CombinatorInv
  <2>14. CASE remaining' # 0
    <3>1. settled' = settled
      BY <2>2, <2>14
    <3>2. CountFits'
      BY <1>3, <1>4, <2>2, <2>9, <2>11, <2>12, <2>14, <3>1 DEF CountFits
    <3>3. /\ alreadyCalled' \subseteq 1..handed' /\ elements' \in Seq(Answer \cup {NoAnswer})
          /\ Len(elements') = Len(elements)
      BY <1>3, <1>4, <2>2, <2>5, <2>6
    <3>4. CombinatorTypeOK'
      BY <1>0, <1>3, <2>12, <3>1, <3>3 DEF CombinatorTypeOK
    <3> QED BY <2>4, <3>2, <3>4 DEF CombinatorInv
  <2> QED BY <2>13, <2>14
<1> QED BY <1>8, <1>9, <1>10

\* Each step keeps the invariant.
LEMMA CombinatorNextInv == CombinatorInv /\ [CombinatorNext]_combinatorVars => CombinatorInv'
<1> SUFFICES ASSUME CombinatorInv, [CombinatorNext]_combinatorVars PROVE CombinatorInv'
  OBVIOUS
<1>1. CASE UNCHANGED combinatorVars
  <2>1. UNCHANGED <<combinator, phase, elements, handed, alreadyCalled, remaining, settled, answers>>
    BY <1>1 DEF combinatorVars
  <2>2. AnswersFit(Collecting', handed', alreadyCalled', elements', answers')
    BY <2>1, SameStatuses DEF CombinatorInv
  <2>3. CountFits' /\ CombinatorTypeOK'
    BY <2>1 DEF CombinatorInv, CountFits, CombinatorTypeOK
  <2> QED BY <2>2, <2>3 DEF CombinatorInv
<1>2. CASE NextElement \/ InvokeThen \/ ThenReturned \/ EndOfElements \/ FailLoop
  BY <1>2, LoopKeeps
<1>3. ASSUME NEW i \in 1..handed, NEW status \in Status, NEW v \in Value, CallFunction(i, status, v)
      PROVE  CombinatorInv'
  BY <1>3, CallKeeps
<1> QED BY <1>1, <1>2, <1>3 DEF CombinatorNext

\* The invariant holds in every behaviour of a combinator.
LEMMA CombinatorInvHolds == CombinatorSpec => []CombinatorInv
<1> QED BY CombinatorInitInv, CombinatorNextInv, PTL DEF CombinatorSpec

\* What is asked for follows.
LEMMA CountIsComplete == CombinatorInv => ResultIsComplete
<1> SUFFICES ASSUME CombinatorInv PROVE ResultIsComplete
  OBVIOUS
<1>0. /\ CombinatorTypeOK /\ CountFits
      /\ AnswersFit(Collecting, handed, alreadyCalled, elements, answers)
  BY DEF CombinatorInv
<1>1. \A i \in 1..handed : FirstAnswer(i) = elements[i] /\ (i \in alreadyCalled <=> elements[i] # NoAnswer)
  BY <1>0 DEF FirstAnswer, Collecting, AnswersFit
<1>2. ASSUME settled.by = "count"
      PROVE  /\ phase = "done"
             /\ settled.list = [i \in 1..handed |-> FirstAnswer(i)]
             /\ NoAnswer \notin {settled.list[i] : i \in 1..handed}
  <2>1. phase = "done" /\ 1..handed \subseteq alreadyCalled /\ settled.list = elements
    BY <1>0, <1>2 DEF CountFits, Waiting
  <2>2. elements \in Seq(Answer \cup {NoAnswer}) /\ Len(elements) = handed
    BY <1>0, <2>1 DEF CombinatorTypeOK
  <2>3. elements = [i \in 1..handed |-> elements[i]]
    BY <2>2, LenProperties
  <2>4. elements = [i \in 1..handed |-> FirstAnswer(i)]
    BY <1>1, <2>3
  <2> QED BY <1>1, <2>1, <2>4
<1>3. ASSUME phase = "done", combinator # "race", settled = Pending
      PROVE  \E i \in 1..handed : FirstAnswer(i) = NoAnswer
  <2>1. handed \in Nat /\ alreadyCalled \in SUBSET (1..handed)
    BY <1>0 DEF CombinatorTypeOK
  <2>2. Waiting(handed, alreadyCalled) # {}
    BY <1>0, <1>3, <2>1, WaitingCount DEF CountFits
  <2>3. PICK i \in 1..handed : i \notin alreadyCalled
    BY <2>2 DEF Waiting
  <2> QED BY <1>1, <2>3
<1> QED BY <1>2, <1>3 DEF ResultIsComplete

----------------------------------------------------------------------------
(* The theorems.                                                            *)

\* Every promise, reaction, job and frame has the parts the code's types give
\* it, and at most MaxDepth resolve functions wait for a `then` to be read.
THEOREM PromisesTypeCorrect == PromisesSpec => []PromisesTypeOK
BY PromisesIInv, IInvTypeOK, PTL

\* A pending promise has exactly one claim: a pair of functions, a job that
\* will call `then`, or a resolve function that is reading it.  So nothing
\* settles a promise twice (the assertions of fulfill_promise and
\* reject_promise), and no resolution forgets one.
THEOREM EveryPendingPromiseHasOneClaim == PromisesSpec => []OneClaim
BY PromisesIInv, IInvOneClaim, PTL

\* perform_promise_then, fulfill_promise and reject_promise and the jobs run
\* the reactions of a promise in the order of registration, each once.
THEOREM ReactionsRunInOrder == PromisesSpec => []ReactionsInOrder
BY PromisesIInv, IInvReactionsInOrder, PTL

\* A host that counts the calls of promise_rejection_tracker knows exactly
\* the promises that are rejected and unhandled.
THEOREM TheTrackerIsExact == PromisesSpec => []TrackerIsExact
BY PromisesIInv, IInvTrackerIsExact, PTL

\* The variables of a combinator keep their types.
THEOREM TheCombinatorsTypesAreCorrect == CombinatorSpec => []CombinatorTypeOK
<1>1. CombinatorInv => CombinatorTypeOK
  BY DEF CombinatorInv
<1> QED BY <1>1, CombinatorInvHolds, PTL

\* The count that starts at one comes to nothing when, and only when, the iteration has
\* ended and every element has answered, whatever is called early, late or twice: a result
\* has every element's first answer in its place, and the last answer settles the promise.
THEOREM ResultsAreComplete == CombinatorSpec => []ResultIsComplete
<1> QED BY CountIsComplete, CombinatorInvHolds, PTL

============================================================================
