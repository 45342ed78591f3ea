---------------------------- MODULE SequenceFacts ----------------------------
(****************************************************************************)
(* Lemmas that the proofs about several components need: induction, and     *)
(* what keeping, taking and joining do to the elements of a sequence.       *)
(****************************************************************************)
EXTENDS Integers, Filters, SequencesExt, SequenceTheorems, WellFoundedInduction, TLAPS

\* Induction, over a set in place of a predicate: otherwise there would be a
\* least number outside of it.
LEMMA SetInduction ==
  ASSUME NEW X, 0 \in X, \A n \in Nat : n \in X => n + 1 \in X
  PROVE  \A n \in Nat : n \in X
<1> SUFFICES ASSUME Nat \ X # {} PROVE FALSE
  OBVIOUS
<1>1. PICK n \in Nat \ X : \A m \in Nat \ X : ~ (<<m, n>> \in OpToRel(<, Nat))
  BY WFMin, NatLessThanWellFounded
<1>2. n \in Nat /\ n # 0
  BY <1>1
<1>3. n - 1 \in Nat /\ n - 1 < n /\ (n - 1) + 1 = n
  BY <1>2
<1>4. <<n - 1, n>> \in OpToRel(<, Nat)
  BY <1>2, <1>3 DEF OpToRel
<1>5. n - 1 \in X
  BY <1>1, <1>3, <1>4
<1> QED BY <1>1, <1>3, <1>5

\* A set of natural numbers has a least one.
LEMMA LeastNumber ==
  ASSUME NEW S, S \subseteq Nat, S # {}
  PROVE  \E n \in S : \A m \in S : n <= m
<1>1. PICK n \in S : \A m \in S : ~ (<<m, n>> \in OpToRel(<, Nat))
  BY WFMin, NatLessThanWellFounded
<1>2. \A m \in S : ~ (m < n)
  BY <1>1 DEF OpToRel
<1>3. \A m \in S : n \in Nat /\ m \in Nat /\ ~ (m < n) => n <= m
  OBVIOUS
<1> QED BY <1>1, <1>2, <1>3

----------------------------------------------------------------------------
(* The elements of a sequence.                                              *)

\* They are where they are, and in the set the sequence is over.
LEMMA ToSetFacts ==
  ASSUME NEW E, NEW s \in Seq(E)
  PROVE  /\ ToSet(s) \subseteq E
         /\ \A x : x \in ToSet(s) <=> \E i \in 1..Len(s) : s[i] = x
<1>1. DOMAIN s = 1..Len(s) /\ \A i \in 1..Len(s) : s[i] \in E
  BY LenProperties, ElementOfSeq
<1> QED BY <1>1 DEF ToSet

\* What appending, leaving the head away and emptying do to them.
LEMMA ToSetMoves ==
  ASSUME NEW E, NEW s \in Seq(E), NEW e \in E
  PROVE  /\ ToSet(Append(s, e)) = ToSet(s) \cup {e}
         /\ s # <<>> => ToSet(s) = ToSet(Tail(s)) \cup {Head(s)}
         /\ s # <<>> <=> ToSet(s) # {}
<1>1. Len(s) \in Nat
  BY LenProperties
<1>2. /\ Append(s, e) \in Seq(E) /\ Len(Append(s, e)) = Len(s) + 1
      /\ Append(s, e)[Len(s) + 1] = e
      /\ \A i \in 1..Len(s) : Append(s, e)[i] = s[i]
  BY AppendProperties
<1>3. ToSet(Append(s, e)) = ToSet(s) \cup {e}
  <2>1. \A i \in 1..Len(s) + 1 : i \in 1..Len(s) \/ i = Len(s) + 1
    BY <1>1
  <2>2. Len(s) + 1 \in 1..Len(s) + 1 /\ \A i \in 1..Len(s) : i \in 1..Len(s) + 1
    BY <1>1
  <2>3. \A x : x \in ToSet(Append(s, e)) <=> \E i \in 1..Len(s) + 1 : Append(s, e)[i] = x
    <3>1. PICK t, l : t = Append(s, e) /\ l = Len(s) + 1
      OBVIOUS
    <3>2. t \in Seq(E) /\ Len(t) = l
      BY ONLY <1>2, <3>1
    <3>3. \A x : x \in ToSet(t) <=> \E i \in 1..l : t[i] = x
      BY ONLY <3>2, ToSetFacts
    <3> QED BY ONLY <3>1, <3>3
  <2>4. \A x : x \in ToSet(s) <=> \E i \in 1..Len(s) : s[i] = x
    BY ToSetFacts
  <2>5. PICK t : t = Append(s, e)
    OBVIOUS
  <2>6. ASSUME NEW x, x \in ToSet(t) PROVE x \in ToSet(s) \cup {e}
    <3>1. PICK i \in 1..Len(s) + 1 : t[i] = x
      BY <2>3, <2>5, <2>6
    <3> QED BY ONLY <1>2, <2>1, <2>4, <2>5, <3>1
  <2>7. ASSUME NEW x, x \in ToSet(s) PROVE x \in ToSet(t)
    <3>1. PICK i \in 1..Len(s) : s[i] = x
      BY <2>4, <2>7
    <3> QED BY ONLY <1>2, <2>2, <2>3, <2>5, <3>1
  <2>8. e \in ToSet(t)
    BY ONLY <1>2, <2>2, <2>3, <2>5
  <2> QED BY ONLY <2>5, <2>6, <2>7, <2>8
<1>4. ASSUME s # <<>> PROVE ToSet(s) = ToSet(Tail(s)) \cup {Head(s)}
  <2>1. /\ Tail(s) \in Seq(E) /\ Len(Tail(s)) = Len(s) - 1 /\ Head(s) = s[1]
        /\ \A i \in 1..Len(Tail(s)) : Tail(s)[i] = s[i + 1]
        /\ Len(s) # 0
    BY <1>4, HeadTailProperties, EmptySeq
  <2>2. 1 \in 1..Len(s) /\ \A i \in 1..Len(Tail(s)) : i + 1 \in 1..Len(s)
    BY <1>1, <2>1
  <2>3. \A i \in 1..Len(s) : i = 1 \/ (i - 1 \in 1..Len(Tail(s)) /\ (i - 1) + 1 = i)
    BY <1>1, <2>1
  <2>4. \A x : x \in ToSet(Tail(s)) <=> \E i \in 1..Len(Tail(s)) : Tail(s)[i] = x
    BY <2>1, ToSetFacts
  <2>5. \A x : x \in ToSet(s) <=> \E i \in 1..Len(s) : s[i] = x
    BY ToSetFacts
  <2>6. ASSUME NEW x, x \in ToSet(s) PROVE x \in ToSet(Tail(s)) \cup {Head(s)}
    <3>1. PICK i \in 1..Len(s) : s[i] = x
      BY <2>5, <2>6
    <3> QED BY ONLY <2>1, <2>3, <2>4, <3>1
  <2>7. ASSUME NEW x, x \in ToSet(Tail(s)) \cup {Head(s)} PROVE x \in ToSet(s)
    BY ONLY <2>1, <2>2, <2>4, <2>5, <2>7
  <2> QED BY ONLY <2>6, <2>7
<1>5. s # <<>> <=> ToSet(s) # {}
  <2>1. s = <<>> <=> Len(s) = 0
    BY EmptySeq
  <2>2. Len(s) # 0 => 1 \in 1..Len(s)
    BY <1>1
  <2>3. \A x : x \in ToSet(s) <=> \E i \in 1..Len(s) : s[i] = x
    BY ToSetFacts
  <2>4. Len(s) = 0 => \A i : i \notin 1..Len(s)
    BY <1>1
  <2> QED BY ONLY <2>1, <2>2, <2>3, <2>4
<1> QED BY <1>3, <1>4, <1>5

\* Leaving one element away moves those behind it one place forward.
LEMMA RemoveAtFacts ==
  ASSUME NEW E, NEW s \in Seq(E), NEW i \in 1..Len(s), NEW t, t = RemoveAt(s, i)
  PROVE  /\ t \in Seq(E) /\ Len(t) = Len(s) - 1
         /\ \A j \in 1..Len(t) : t[j] = IF j < i THEN s[j] ELSE s[j + 1]
<1>1. Len(s) \in Nat /\ i \in Nat /\ 1 <= i /\ i <= Len(s)
  BY LenProperties
<1>2. PICK a, b : a = SubSeq(s, 1, i - 1) /\ b = SubSeq(s, i + 1, Len(s)) /\ t = a \o b
  BY DEF RemoveAt
<1>3. \A j \in 1..Len(s) : s[j] \in E
  BY ElementOfSeq
<1>4. /\ a \in Seq(E) /\ Len(a) = i - 1
      /\ \A j \in 1..i - 1 : a[j] = s[j]
  <2>1. i - 1 \in Int /\ 1 \in Int /\ \A j \in 1..i - 1 : s[j] \in E
    BY <1>1, <1>3
  <2>2. /\ a \in Seq(E) /\ Len(a) = IF 1 <= i - 1 THEN (i - 1) - 1 + 1 ELSE 0
        /\ \A j \in 1..((i - 1) - 1 + 1) : a[j] = s[1 + j - 1]
    BY <1>2, <2>1, SubSeqProperties
  <2>3. (i - 1) - 1 + 1 = i - 1 /\ \A j \in 1..i - 1 : 1 + j - 1 = j
    BY <1>1
  <2>4. Len(a) = i - 1
    BY <1>1, <2>2
  <2> QED BY <2>2, <2>3, <2>4
<1>5. /\ b \in Seq(E) /\ Len(b) = Len(s) - i
      /\ \A j \in 1..Len(s) - i : b[j] = s[i + j]
  <2>1. i + 1 \in Int /\ Len(s) \in Int /\ \A j \in (i + 1)..Len(s) : s[j] \in E
    BY <1>1, <1>3
  <2>2. /\ b \in Seq(E) /\ Len(b) = IF i + 1 <= Len(s) THEN Len(s) - (i + 1) + 1 ELSE 0
        /\ \A j \in 1..(Len(s) - (i + 1) + 1) : b[j] = s[(i + 1) + j - 1]
    BY <1>2, <2>1, SubSeqProperties
  <2>3. Len(s) - (i + 1) + 1 = Len(s) - i /\ \A j \in 1..Len(s) - i : (i + 1) + j - 1 = i + j
    BY <1>1
  <2>4. Len(b) = Len(s) - i
    BY <1>1, <2>2
  <2> QED BY <2>2, <2>3, <2>4
<1>6. /\ t \in Seq(E) /\ Len(t) = Len(a) + Len(b)
      /\ \A j \in 1..Len(a) + Len(b) : t[j] = IF j <= Len(a) THEN a[j] ELSE b[j - Len(a)]
  <2>1. a \in Seq(E) /\ b \in Seq(E) /\ t = a \o b
    BY ONLY <1>2, <1>4, <1>5
  <2>2. PICK u : u = a \o b
    OBVIOUS
  <2>3. /\ u \in Seq(E) /\ Len(u) = Len(a) + Len(b)
        /\ \A j \in 1..Len(a) + Len(b) : u[j] = IF j <= Len(a) THEN a[j] ELSE b[j - Len(a)]
    BY ONLY <2>1, <2>2, ConcatProperties
  <2> QED BY ONLY <2>1, <2>2, <2>3
<1>7. Len(t) = Len(s) - 1
  BY <1>1, <1>4, <1>5, <1>6
<1>8. ASSUME NEW j \in 1..Len(t)
      PROVE  t[j] = IF j < i THEN s[j] ELSE s[j + 1]
  <2>1. j \in 1..Len(a) + Len(b)
    BY <1>6
  <2>2. CASE j < i
    <3>1. j <= Len(a) /\ j \in 1..i - 1
      BY <1>1, <1>4, <1>7, <2>2
    <3> QED BY ONLY <1>4, <1>6, <2>1, <2>2, <3>1
  <2>3. CASE ~ (j < i)
    <3>1. PICK k : k = j - Len(a)
      OBVIOUS
    <3>2. ~ (j <= Len(a)) /\ k \in 1..Len(s) - i /\ i + k = j + 1
      BY <1>1, <1>4, <1>7, <2>3, <3>1
    <3> QED BY ONLY <1>5, <1>6, <2>1, <2>3, <3>1, <3>2
  <2> QED BY <2>2, <2>3
<1> QED BY <1>6, <1>7, <1>8

----------------------------------------------------------------------------
(* Keep.                                                                    *)

\* The recursion in Keep, up to N elements.
KeepStep(s, S, f, n) ==
  IF n = 0 THEN <<>>
  ELSE IF s[n] \in S THEN Append(f[n - 1], s[n]) ELSE f[n - 1]

Keeps(s, S, N, f) == f = [n \in 0..N |-> KeepStep(s, S, f, n)]

\* It has a solution.
LEMMA KeepRecursion ==
  ASSUME NEW s, NEW S, NEW N \in Nat
  PROVE  \E f : Keeps(s, S, N, f)
<1> DEFINE X == {m \in Nat : \E f : Keeps(s, S, m, f)}
<1>1. 0 \in X
  <2> DEFINE f == [n \in 0..0 |-> <<>>]
  <2>1. Keeps(s, S, 0, f)
    BY DEF Keeps, KeepStep
  <2> QED BY <2>1
<1>2. ASSUME NEW m \in Nat, m \in X PROVE m + 1 \in X
  <2>1. PICK f : Keeps(s, S, m, f)
    BY <1>2
  <2> DEFINE g == [n \in 0..m + 1 |-> IF n = m + 1 THEN KeepStep(s, S, f, n) ELSE f[n]]
  <2>2. \A n \in 0..m + 1 : n # 0 => n - 1 \in 0..m /\ n - 1 \in 0..m + 1 /\ n - 1 # m + 1
    BY <1>2
  <2>3. \A n \in 0..m + 1 : n # 0 => g[n - 1] = f[n - 1]
    BY <2>2
  <2>4. \A n \in 0..m + 1 : n # m + 1 => n \in 0..m
    BY <1>2
  <2>5. \A n \in 0..m : f[n] = KeepStep(s, S, f, n)
    BY <2>1 DEF Keeps
  <2>6. \A n \in 0..m + 1 : g[n] = KeepStep(s, S, g, n)
    BY <2>3, <2>4, <2>5 DEF KeepStep
  <2>7. Keeps(s, S, m + 1, g)
    BY <2>6 DEF Keeps
  <2> HIDE DEF g
  <2> QED BY <2>7
<1> HIDE DEF X
<1>3. N \in X
  BY <1>1, <1>2, SetInduction
<1> QED BY <1>3 DEF X

\* Keep is what the recursion gives for all of s.
LEMMA KeepIs ==
  ASSUME NEW s, NEW S, Len(s) \in Nat
  PROVE  \E f : Keeps(s, S, Len(s), f) /\ Keep(s, S) = f[Len(s)]
<1> DEFINE kept == CHOOSE f : Keeps(s, S, Len(s), f)
<1>1. Keeps(s, S, Len(s), kept)
  BY KeepRecursion
<1>2. Keep(s, S) = kept[Len(s)]
  BY Zenon DEF Keep, Keeps, KeepStep
<1> QED BY <1>1, <1>2

\* t is what is kept of the first n elements of s: elements of S, all of them,
\* in their order.
Kept(E, s, S, t, n) ==
  /\ t \in Seq(E) /\ Len(t) <= n
  /\ \A i \in 1..Len(t) : t[i] \in S
  /\ \E at \in [1..Len(t) -> 1..n] :
       /\ \A i \in 1..Len(t) : t[i] = s[at[i]]
       /\ \A i, j \in 1..Len(t) : i < j => at[i] < at[j]
       /\ \A k \in 1..n : s[k] \in S => \E i \in 1..Len(t) : at[i] = k

\* A place in s for each element of t shows it.
LEMMA KeptAt ==
  ASSUME NEW E, NEW s, NEW S, NEW n \in Nat, NEW t \in Seq(E), Len(t) <= n,
         NEW at \in [1..Len(t) -> 1..n],
         \A i \in 1..Len(t) : t[i] \in S /\ t[i] = s[at[i]],
         \A i, j \in 1..Len(t) : i < j => at[i] < at[j],
         \A k \in 1..n : s[k] \in S => \E i \in 1..Len(t) : at[i] = k
  PROVE  Kept(E, s, S, t, n)
BY DEF Kept

\* One more element of s is looked at.
LEMMA KeptGrows ==
  ASSUME NEW E, NEW s, NEW S, NEW n \in Nat, NEW u, Kept(E, s, S, u, n),
         NEW m, m = n + 1, s[m] \in E,
         NEW v, v = IF s[m] \in S THEN Append(u, s[m]) ELSE u
  PROVE  Kept(E, s, S, v, m)
<1>3. PICK at \in [1..Len(u) -> 1..n] :
           /\ \A i \in 1..Len(u) : u[i] = s[at[i]]
           /\ \A i, j \in 1..Len(u) : i < j => at[i] < at[j]
           /\ \A k \in 1..n : s[k] \in S => \E i \in 1..Len(u) : at[i] = k
  BY DEF Kept
<1>4. u \in Seq(E) /\ Len(u) \in Nat /\ Len(u) <= n /\ \A i \in 1..Len(u) : u[i] \in S
  BY LenProperties DEF Kept
<1>5. m \in Nat /\ n \in Nat /\ \A k \in 1..m : k \in 1..n \/ k = m
  OBVIOUS
<1>6. \A k \in 1..n : k \in 1..m /\ k < m
  OBVIOUS
<1>7. CASE s[m] \notin S
  <2>1. v = u
    BY <1>7
  <2>2. at \in [1..Len(u) -> 1..m]
    BY <1>6
  <2>3. \A k \in 1..m : s[k] \in S => \E i \in 1..Len(u) : at[i] = k
    BY <1>3, <1>5, <1>7
  <2>4. Kept(E, s, S, u, m)
    <3>1. Len(u) <= m
      BY <1>4
    <3> QED BY ONLY <1>3, <1>4, <1>5, <2>2, <2>3, <3>1, KeptAt
  <2> QED BY <2>1, <2>4
<1>8. CASE s[m] \in S
  <2> DEFINE l == Len(u)
             ot == [i \in 1..l + 1 |-> IF i = l + 1 THEN m ELSE at[i]]
  <2>1. /\ v \in Seq(E) /\ Len(v) = l + 1 /\ v[l + 1] = s[m]
        /\ \A i \in 1..l : v[i] = u[i]
    BY <1>4, <1>8, AppendProperties
  <2>2. \A i \in 1..l + 1 : i \in 1..l \/ i = l + 1
    BY <1>4
  <2>3. \A i \in 1..l : i \in 1..l + 1 /\ i # l + 1 /\ at[i] \in 1..n
    BY <1>4
  <2>4. l + 1 \in 1..l + 1 /\ m \in 1..m
    BY <1>4, <1>5
  <2> HIDE DEF l
  <2>5. ot[l + 1] = m /\ \A i \in 1..l : ot[i] = at[i]
    BY <2>3, <2>4
  <2>6. ot \in [1..l + 1 -> 1..m]
    BY <1>6, <2>2, <2>3, <2>4
  <2> HIDE DEF ot
  <2>7. \A i \in 1..l + 1 : v[i] \in S /\ v[i] = s[ot[i]]
    BY <1>3, <1>4, <1>8, <2>1, <2>2, <2>5 DEF l
  <2>8. ASSUME NEW i \in 1..l + 1, NEW j \in 1..l + 1, i < j PROVE ot[i] < ot[j]
    <3>1. i \in 1..l
      BY <1>4, <2>2, <2>8 DEF l
    <3>2. CASE j \in 1..l
      BY <1>3, <2>5, <2>8, <3>1, <3>2 DEF l
    <3>3. CASE j = l + 1
      BY <1>6, <2>3, <2>5, <3>1, <3>3
    <3> QED BY <2>2, <3>2, <3>3
  <2>9. ASSUME NEW k \in 1..m, s[k] \in S PROVE \E i \in 1..l + 1 : ot[i] = k
    <3>1. CASE k \in 1..n
      BY <1>3, <2>3, <2>5, <2>9, <3>1 DEF l
    <3>2. CASE k = m
      BY <2>4, <2>5, <3>2
    <3> QED BY <1>5, <3>1, <3>2
  <2>10. Len(v) <= m
    BY <1>4, <2>1 DEF l
  <2>11. /\ ot \in [1..Len(v) -> 1..m]
         /\ \A i \in 1..Len(v) : v[i] \in S /\ v[i] = s[ot[i]]
         /\ \A i, j \in 1..Len(v) : i < j => ot[i] < ot[j]
         /\ \A k \in 1..m : s[k] \in S => \E i \in 1..Len(v) : ot[i] = k
    BY ONLY <2>1, <2>6, <2>7, <2>8, <2>9
  <2> QED BY ONLY <1>5, <2>1, <2>10, <2>11, KeptAt
<1> QED BY <1>7, <1>8

\* What Keep returns.
LEMMA KeepIsKept ==
  ASSUME NEW E, NEW s \in Seq(E), NEW S
  PROVE  Kept(E, s, S, Keep(s, S), Len(s))
<1>1. Len(s) \in Nat /\ \A i \in 1..Len(s) : s[i] \in E
  BY LenProperties, ElementOfSeq
<1>2. PICK f : Keeps(s, S, Len(s), f) /\ Keep(s, S) = f[Len(s)]
  BY <1>1, KeepIs
<1> DEFINE X == {n \in Nat : n <= Len(s) => Kept(E, s, S, f[n], n)}
<1>3. 0 \in X
  <2>1. f[0] = <<>>
    BY <1>1, <1>2 DEF Keeps, KeepStep
  <2>2. \A i : i \notin 1..0
    OBVIOUS
  <2>3. <<>> \in Seq(E) /\ Len(<<>>) = 0
    BY EmptySeq
  <2>4. Kept(E, s, S, <<>>, 0)
    <3>1. PICK at, e, n : at = [i \in 1..0 |-> i] /\ e = <<>> /\ n = 0
      OBVIOUS
    <3>2. at \in [1..Len(e) -> 1..n] /\ n \in Nat /\ Len(e) <= n /\ e \in Seq(E)
      BY <2>3, <3>1
    <3>3. \A i : i \notin 1..Len(e) /\ i \notin 1..n
      BY <2>2, <2>3, <3>1
    <3>4. Kept(E, s, S, e, n)
      BY ONLY <3>2, <3>3, KeptAt
    <3> QED BY <3>1, <3>4
  <2> QED BY <2>1, <2>4
<1>4. ASSUME NEW n \in Nat, n \in X PROVE n + 1 \in X
  <2> SUFFICES ASSUME n + 1 <= Len(s) PROVE Kept(E, s, S, f[n + 1], n + 1)
    OBVIOUS
  <2>1. Kept(E, s, S, f[n], n) /\ n + 1 \in 1..Len(s) /\ n + 1 \in 0..Len(s) /\ n + 1 # 0 /\ (n + 1) - 1 = n
    BY <1>1, <1>4
  <2>2. f[n + 1] = IF s[n + 1] \in S THEN Append(f[n], s[n + 1]) ELSE f[n]
    BY <1>2, <2>1 DEF Keeps, KeepStep
  <2>3. PICK u, v, m : u = f[n] /\ v = f[n + 1] /\ m = n + 1
    OBVIOUS
  <2>4. Kept(E, s, S, v, m)
    BY ONLY <1>1, <2>1, <2>2, <2>3, n \in Nat, KeptGrows
  <2> QED BY <2>3, <2>4
<1> HIDE DEF X
<1>5. Len(s) \in X
  BY <1>1, <1>3, <1>4, SetInduction
<1> QED BY <1>1, <1>2, <1>5 DEF X

\* The elements that Keep keeps.
LEMMA KeepElements ==
  ASSUME NEW E, NEW s \in Seq(E), NEW S, NEW t, t = Keep(s, S)
  PROVE  \A x : x \in ToSet(t) <=> x \in ToSet(s) /\ x \in S
<1>1. Kept(E, s, S, t, Len(s))
  BY KeepIsKept
<1>2. PICK at \in [1..Len(t) -> 1..Len(s)] :
           /\ \A i \in 1..Len(t) : t[i] = s[at[i]]
           /\ \A i, j \in 1..Len(t) : i < j => at[i] < at[j]
           /\ \A k \in 1..Len(s) : s[k] \in S => \E i \in 1..Len(t) : at[i] = k
  BY <1>1 DEF Kept
<1>3. /\ t \in Seq(E) /\ Len(t) \in Nat /\ Len(s) \in Nat /\ Len(t) <= Len(s)
      /\ DOMAIN t = 1..Len(t) /\ DOMAIN s = 1..Len(s)
      /\ \A i \in 1..Len(t) : t[i] \in S
  BY <1>1, LenProperties DEF Kept
<1>5. \A x : (\E i \in 1..Len(t) : t[i] = x) <=> x \in S /\ \E i \in 1..Len(s) : s[i] = x
  <2>1. ASSUME NEW i \in 1..Len(t) PROVE t[i] \in S /\ \E k \in 1..Len(s) : s[k] = t[i]
    <3>1. at[i] \in 1..Len(s) /\ s[at[i]] = t[i]
      BY <1>2
    <3> QED BY <1>3, <3>1
  <2>2. ASSUME NEW k \in 1..Len(s), s[k] \in S PROVE \E i \in 1..Len(t) : t[i] = s[k]
    <3>1. PICK i \in 1..Len(t) : at[i] = k
      BY <1>2, <2>2
    <3> QED BY <1>2, <3>1
  <2>3. ASSUME NEW x, NEW i \in 1..Len(t), t[i] = x
        PROVE  x \in S /\ \E k \in 1..Len(s) : s[k] = x
    BY ONLY <2>1, <2>3, i \in 1..Len(t)
  <2>4. ASSUME NEW x \in S, NEW k \in 1..Len(s), s[k] = x
        PROVE  \E i \in 1..Len(t) : t[i] = x
    BY ONLY <2>2, <2>4, k \in 1..Len(s), x \in S
  <2> QED BY ONLY <2>3, <2>4
<1>7. \A x : x \in ToSet(t) <=> x \in ToSet(s) /\ x \in S
  <2>1. \A x : x \in ToSet(t) <=> \E i \in 1..Len(t) : t[i] = x
    BY <1>3, ToSetFacts
  <2>2. \A x : x \in ToSet(s) <=> \E i \in 1..Len(s) : s[i] = x
    BY ToSetFacts
  <2> QED BY ONLY <1>5, <2>1, <2>2
<1> QED BY <1>7

\* They form a sequence over S too, without repetitions if s has none.
LEMMA KeepFacts ==
  ASSUME NEW E, NEW s \in Seq(E), NEW S, NEW t, t = Keep(s, S)
  PROVE  /\ t \in Seq(E) /\ t \in Seq(S) /\ Len(t) \in Nat /\ Len(t) <= Len(s)
         /\ IsInjective(s) => IsInjective(t)
<1>1. Kept(E, s, S, t, Len(s))
  BY KeepIsKept
<1>2. PICK at \in [1..Len(t) -> 1..Len(s)] :
           /\ \A i \in 1..Len(t) : t[i] = s[at[i]]
           /\ \A i, j \in 1..Len(t) : i < j => at[i] < at[j]
           /\ \A k \in 1..Len(s) : s[k] \in S => \E i \in 1..Len(t) : at[i] = k
  BY <1>1 DEF Kept
<1>3. /\ t \in Seq(E) /\ Len(t) \in Nat /\ Len(s) \in Nat /\ Len(t) <= Len(s)
      /\ DOMAIN t = 1..Len(t) /\ DOMAIN s = 1..Len(s)
      /\ \A i \in 1..Len(t) : t[i] \in S
  BY <1>1, LenProperties DEF Kept
<1>4. t \in Seq(S)
  <2>1. t = [i \in 1..Len(t) |-> t[i]]
    BY <1>3
  <2> QED BY <1>3, <2>1, SeqDef
<1>6. ASSUME IsInjective(s) PROVE IsInjective(t)
  <2> SUFFICES ASSUME NEW i \in 1..Len(t), NEW j \in 1..Len(t), t[i] = t[j] PROVE i = j
    BY <1>3 DEF IsInjective
  <2>1. at[i] = at[j]
    BY <1>2, <1>3, <1>6 DEF IsInjective
  <2>2. ~ (i < j) /\ ~ (j < i)
    <3>1. at[i] \in Nat /\ at[j] \in Nat
      BY <1>2
    <3> QED BY <1>2, <2>1, <3>1
  <2> QED BY <2>2
<1> QED BY <1>3, <1>4, <1>6

\* Two recursions that keep the same elements go the same way.
LEMMA SameRecursion ==
  ASSUME NEW s, NEW S, NEW t, NEW T, NEW M \in Nat, NEW N \in Nat, N <= M,
         NEW f, Keeps(s, S, M, f), NEW g, Keeps(t, T, N, g),
         \A i \in 1..N : (s[i] \in S <=> t[i] \in T) /\ (s[i] \in S => s[i] = t[i])
  PROVE  f[N] = g[N]
<1> DEFINE X == {n \in Nat : n <= N => f[n] = g[n]}
<1>1. 0 \in X
  <2>1. 0 \in 0..M /\ 0 \in 0..N
    OBVIOUS
  <2> QED BY <2>1 DEF Keeps, KeepStep
<1>2. ASSUME NEW n \in Nat, n \in X PROVE n + 1 \in X
  <2> SUFFICES ASSUME n + 1 <= N PROVE f[n + 1] = g[n + 1]
    OBVIOUS
  <2>1. n + 1 \in 0..M /\ n + 1 \in 0..N /\ n + 1 \in 1..N /\ n + 1 # 0 /\ (n + 1) - 1 = n
    OBVIOUS
  <2>2. f[n] = g[n]
    BY <1>2
  <2>3. /\ f[n + 1] = IF s[n + 1] \in S THEN Append(f[n], s[n + 1]) ELSE f[n]
        /\ g[n + 1] = IF t[n + 1] \in T THEN Append(g[n], t[n + 1]) ELSE g[n]
    BY <2>1 DEF Keeps, KeepStep
  <2>4. (s[n + 1] \in S <=> t[n + 1] \in T) /\ (s[n + 1] \in S => s[n + 1] = t[n + 1])
    BY <2>1
  <2> QED BY ONLY <2>2, <2>3, <2>4
<1> HIDE DEF X
<1>3. N \in X
  BY <1>1, <1>2, SetInduction
<1> QED BY <1>3 DEF X

\* Sequences of one length in which the same elements are to be kept.
LEMMA SameKept ==
  ASSUME NEW E, NEW s \in Seq(E), NEW S, NEW t \in Seq(E), NEW T, Len(s) = Len(t),
         \A i \in 1..Len(s) : (s[i] \in S <=> t[i] \in T) /\ (s[i] \in S => s[i] = t[i])
  PROVE  Keep(s, S) = Keep(t, T)
<1>1. PICK n : n = Len(s) /\ n = Len(t) /\ n \in Nat /\ n <= n
  BY LenProperties
<1>2. PICK f : Keeps(s, S, n, f) /\ Keep(s, S) = f[n]
  BY <1>1, KeepIs
<1>3. PICK g : Keeps(t, T, n, g) /\ Keep(t, T) = g[n]
  BY <1>1, KeepIs
<1> QED BY <1>1, <1>2, <1>3, SameRecursion

\* What the last element adds.
LEMMA KeepAppended ==
  ASSUME NEW E, NEW s \in Seq(E), NEW e \in E, NEW S
  PROVE  Keep(Append(s, e), S) = IF e \in S THEN Append(Keep(s, S), e) ELSE Keep(s, S)
<1>1. PICK n, t : n = Len(s) /\ t = Append(s, e)
  OBVIOUS
<1>2. /\ n \in Nat /\ t \in Seq(E) /\ Len(t) = n + 1 /\ t[n + 1] = e
      /\ \A i \in 1..n : t[i] = s[i]
  BY <1>1, AppendProperties, LenProperties
<1>3. PICK f : Keeps(s, S, n, f) /\ Keep(s, S) = f[n]
  BY <1>1, <1>2, KeepIs
<1>4. PICK g : Keeps(t, S, n + 1, g) /\ Keep(t, S) = g[n + 1]
  BY <1>2, KeepIs
<1>5. PICK h : h = [m \in 0..n |-> g[m]]
  OBVIOUS
<1>6. Keeps(t, S, n, h)
  <2>1. \A m \in 0..n : m \in 0..n + 1 /\ (m # 0 => m - 1 \in 0..n)
    BY <1>2
  <2>2. \A m \in 0..n : g[m] = KeepStep(t, S, g, m)
    BY <1>4, <2>1 DEF Keeps
  <2>3. \A m \in 0..n : h[m] = KeepStep(t, S, h, m)
    BY <1>5, <2>1, <2>2 DEF KeepStep
  <2>4. h = [m \in 0..n |-> h[m]]
    BY <1>5
  <2> QED BY <2>3, <2>4 DEF Keeps
<1>7. f[n] = h[n] /\ h[n] = g[n]
  <2>1. \A i \in 1..n : (s[i] \in S <=> t[i] \in S) /\ (s[i] \in S => s[i] = t[i])
    BY <1>2
  <2>2. n <= n /\ n \in 0..n
    BY <1>2
  <2> QED BY <1>2, <1>3, <1>5, <1>6, <2>1, <2>2, SameRecursion
<1>8. g[n + 1] = IF t[n + 1] \in S THEN Append(g[n], t[n + 1]) ELSE g[n]
  <2>1. n + 1 \in 0..n + 1 /\ n + 1 # 0 /\ (n + 1) - 1 = n
    BY <1>2
  <2> QED BY <1>4, <2>1 DEF Keeps, KeepStep
<1> QED BY <1>1, <1>2, <1>3, <1>4, <1>7, <1>8

\* Nothing is kept of nothing.
LEMMA KeepOfNothing ==
  ASSUME NEW S
  PROVE  Keep(<<>>, S) = <<>>
<1>1. PICK e : e = <<>> /\ Len(e) = 0
  OBVIOUS
<1>2. PICK f : Keeps(e, S, 0, f) /\ Keep(e, S) = f[0]
  BY <1>1, KeepIs
<1> QED BY <1>1, <1>2 DEF Keeps, KeepStep

\* Induction over sequences, over a set in place of a predicate.
LEMMA SequenceInduction ==
  ASSUME NEW E, NEW X, <<>> \in X, \A s \in Seq(E), e \in E : s \in X => Append(s, e) \in X
  PROVE  \A s \in Seq(E) : s \in X
<1> DEFINE Y == {n \in Nat : \A s \in Seq(E) : Len(s) = n => s \in X}
<1>1. 0 \in Y
  BY EmptySeq
<1>2. ASSUME NEW n \in Nat, n \in Y PROVE n + 1 \in Y
  <2> SUFFICES ASSUME NEW s \in Seq(E), Len(s) = n + 1 PROVE s \in X
    OBVIOUS
  <2>1. s # <<>>
    BY EmptySeq
  <2>2. PICK t \in Seq(E), e \in E : s = Append(t, e)
    BY <2>1, SequenceEmptyOrAppend
  <2>3. Len(t) \in Nat /\ Len(s) = Len(t) + 1
    BY <2>2, LenProperties, AppendProperties
  <2>4. t \in X
    BY <1>2, <2>3
  <2> QED BY <2>2, <2>4
<1> HIDE DEF Y
<1>3. \A n \in Nat : n \in Y
  BY <1>1, <1>2, SetInduction
<1> QED BY <1>3, LenProperties DEF Y

\* Keeping twice is keeping what is in both sets.
LEMMA KeepTwice ==
  ASSUME NEW E, NEW S, NEW T
  PROVE  \A s \in Seq(E) : Keep(Keep(s, S), T) = Keep(s, S \cap T)
<1> DEFINE X == {s \in Seq(E) : Keep(Keep(s, S), T) = Keep(s, S \cap T)}
<1>1. <<>> \in X
  BY EmptySeq, KeepOfNothing
<1>2. ASSUME NEW s \in Seq(E), NEW e \in E, s \in X PROVE Append(s, e) \in X
  <2>1. PICK k, l : k = Keep(s, S) /\ l = Keep(s, S \cap T)
    OBVIOUS
  <2>2. k \in Seq(E) /\ l \in Seq(E) /\ Keep(k, T) = l /\ Append(s, e) \in Seq(E)
    BY <1>2, <2>1, KeepFacts, AppendProperties
  <2>3. /\ Keep(Append(s, e), S) = IF e \in S THEN Append(k, e) ELSE k
        /\ Keep(Append(s, e), S \cap T) = IF e \in S /\ e \in T THEN Append(l, e) ELSE l
    BY <2>1, KeepAppended
  <2>4. Keep(Append(k, e), T) = IF e \in T THEN Append(l, e) ELSE l
    BY <2>2, KeepAppended
  <2> QED BY <2>2, <2>3, <2>4
<1> HIDE DEF X
<1>3. \A s \in Seq(E) : s \in X
  BY ONLY <1>1, <1>2, SequenceInduction
<1> QED BY <1>3 DEF X

\* All is kept of what is in the set.
LEMMA KeepAll ==
  ASSUME NEW S
  PROVE  \A s \in Seq(S) : Keep(s, S) = s
<1> DEFINE X == {s \in Seq(S) : Keep(s, S) = s}
<1>1. <<>> \in X
  BY EmptySeq, KeepOfNothing
<1>2. ASSUME NEW s \in Seq(S), NEW e \in S, s \in X PROVE Append(s, e) \in X
  BY <1>2, KeepAppended, AppendProperties
<1> HIDE DEF X
<1>3. \A s \in Seq(S) : s \in X
  BY ONLY <1>1, <1>2, SequenceInduction
<1> QED BY <1>3 DEF X

\* What is kept of two sequences, one after the other.
LEMMA KeepJoins ==
  ASSUME NEW E, NEW s \in Seq(E), NEW S
  PROVE  \A t \in Seq(E) : Keep(s \o t, S) = Keep(s, S) \o Keep(t, S)
<1> DEFINE X == {t \in Seq(E) : Keep(s \o t, S) = Keep(s, S) \o Keep(t, S)}
<1>0. PICK k : k = Keep(s, S) /\ k \in Seq(E)
  BY KeepFacts
<1>1. <<>> \in X
  BY <1>0, EmptySeq, KeepOfNothing, ConcatEmptySeq
<1>2. ASSUME NEW t \in Seq(E), NEW e \in E, t \in X PROVE Append(t, e) \in X
  <2>1. PICK l, u : l = Keep(t, S) /\ u = s \o t
    OBVIOUS
  <2>2. l \in Seq(E) /\ u \in Seq(E) /\ Keep(u, S) = k \o l /\ Append(t, e) \in Seq(E)
    BY <1>0, <1>2, <2>1, KeepFacts, AppendProperties, ConcatProperties
  <2>3. s \o Append(t, e) = Append(u, e) /\ k \o Append(l, e) = Append(k \o l, e)
    <3>1. ASSUME NEW a \in Seq(E), NEW b \in Seq(E) PROVE a \o Append(b, e) = Append(a \o b, e)
      <4>1. PICK o : o = <<e>> /\ o \in Seq(E)
        <5>1. <<e>> \in Seq(E)
          BY ONLY <1>2
        <5> QED BY <5>1
      <4>2. Append(b, e) = b \o o /\ Append(a \o b, e) = (a \o b) \o o
        BY <4>1, AppendIsConcat, ConcatProperties
      <4> QED BY <4>1, <4>2, ConcatAssociative
    <3> QED BY <1>0, <2>1, <2>2, <3>1
  <2>4. /\ Keep(Append(u, e), S) = IF e \in S THEN Append(k \o l, e) ELSE k \o l
        /\ Keep(Append(t, e), S) = IF e \in S THEN Append(l, e) ELSE l
    <3>1. Keep(Append(u, e), S) = IF e \in S THEN Append(Keep(u, S), e) ELSE Keep(u, S)
      BY ONLY <1>2, <2>2, KeepAppended
    <3>2. Keep(Append(t, e), S) = IF e \in S THEN Append(Keep(t, S), e) ELSE Keep(t, S)
      BY ONLY <1>2, KeepAppended
    <3> QED BY ONLY <2>1, <2>2, <3>1, <3>2
  <2>5. Keep(s \o Append(t, e), S) = k \o Keep(Append(t, e), S)
    <3>1. CASE e \in S
      BY ONLY <2>3, <2>4, <3>1
    <3>2. CASE e \notin S
      BY ONLY <2>3, <2>4, <3>2
    <3> QED BY <3>1, <3>2
  <2> QED BY <1>0, <2>2, <2>5
<1> HIDE DEF X
<1>3. \A t \in Seq(E) : t \in X
  BY ONLY <1>1, <1>2, SequenceInduction
<1> QED BY <1>3 DEF X

\* u is s and then t.
Joins(u, s, t) == u = s \o t

\* The same, for sequences that have a name.
LEMMA KeepJoined ==
  ASSUME NEW E, NEW s \in Seq(E), NEW t \in Seq(E), NEW S, NEW u, Joins(u, s, t)
  PROVE  Joins(Keep(u, S), Keep(s, S), Keep(t, S))
BY KeepJoins DEF Joins

----------------------------------------------------------------------------
(* FlattenSeq of the community modules.                                     *)

\* Its recursion, up to the first N sequences.
FlattenStep(ss, f, i) == IF i = 1 THEN ss[i] ELSE f[i - 1] \o ss[i]

Flattens(ss, N, f) == f = [i \in 1..N |-> FlattenStep(ss, f, i)]

\* It has a solution.
LEMMA FlattenRecursion ==
  ASSUME NEW ss, NEW N \in Nat
  PROVE  \E f : Flattens(ss, N, f)
<1> DEFINE X == {m \in Nat : \E f : Flattens(ss, m, f)}
<1>1. 0 \in X
  <2> DEFINE f == [i \in 1..0 |-> 0]
  <2>1. Flattens(ss, 0, f)
    <3>1. \A i : i \notin 1..0
      OBVIOUS
    <3>2. f = [i \in 1..0 |-> FlattenStep(ss, f, i)]
      BY <3>1
    <3> QED BY <3>2 DEF Flattens
  <2> HIDE DEF f
  <2> QED BY <2>1
<1>2. ASSUME NEW m \in Nat, m \in X PROVE m + 1 \in X
  <2>1. PICK f : Flattens(ss, m, f)
    BY <1>2
  <2> DEFINE g == [i \in 1..m + 1 |-> IF i = m + 1 THEN FlattenStep(ss, f, i) ELSE f[i]]
  <2>2. \A i \in 1..m + 1 : i # 1 => i - 1 \in 1..m /\ i - 1 \in 1..m + 1 /\ i - 1 # m + 1
    BY <1>2
  <2>3. \A i \in 1..m + 1 : i # 1 => g[i - 1] = f[i - 1]
    BY <2>2
  <2>4. \A i \in 1..m + 1 : i # m + 1 => i \in 1..m
    BY <1>2
  <2>5. \A i \in 1..m : f[i] = FlattenStep(ss, f, i)
    BY <2>1 DEF Flattens
  <2>6. \A i \in 1..m + 1 : g[i] = FlattenStep(ss, g, i)
    BY <2>3, <2>4, <2>5 DEF FlattenStep
  <2>7. Flattens(ss, m + 1, g)
    BY <2>6 DEF Flattens
  <2> HIDE DEF g
  <2> QED BY <2>7
<1> HIDE DEF X
<1>3. N \in X
  BY <1>1, <1>2, SetInduction
<1> QED BY <1>3 DEF X

\* FlattenSeq is what the recursion gives for all of its sequences.
LEMMA FlattenIs ==
  ASSUME NEW ss, Len(ss) \in Nat \ {0}
  PROVE  \E f : Flattens(ss, Len(ss), f) /\ FlattenSeq(ss) = f[Len(ss)]
<1> DEFINE flatten == CHOOSE f : Flattens(ss, Len(ss), f)
<1>1. Flattens(ss, Len(ss), flatten)
  BY FlattenRecursion
<1>2. FlattenSeq(ss) = flatten[Len(ss)]
  <2>1. Len(ss) # 0
    OBVIOUS
  <2> QED BY <2>1, Zenon DEF FlattenSeq, Flattens, FlattenStep
<1> QED BY <1>1, <1>2

\* t is the first n sequences of ss one after the other: at and pos say where
\* each element comes from.
JoinedBy(E, ss, t, n, at, pos) ==
  /\ t \in Seq(E)
  /\ at \in [1..Len(t) -> 1..n] /\ pos \in [1..Len(t) -> Nat]
  /\ \A i \in 1..Len(t) : pos[i] \in 1..Len(ss[at[i]]) /\ t[i] = ss[at[i]][pos[i]]
  /\ \A i, j \in 1..Len(t) : i < j => at[i] < at[j] \/ (at[i] = at[j] /\ pos[i] < pos[j])
  /\ \A k \in 1..n : \A p \in 1..Len(ss[k]) : \E i \in 1..Len(t) : at[i] = k /\ pos[i] = p

Joined(E, ss, t, n) == \E at, pos : JoinedBy(E, ss, t, n, at, pos)

\* One more sequence is joined.
LEMMA JoinedGrows ==
  ASSUME NEW E, NEW ss, NEW n \in Nat, NEW u, Joined(E, ss, u, n),
         NEW m, m = n + 1, ss[m] \in Seq(E), NEW v, v = u \o ss[m]
  PROVE  Joined(E, ss, v, m)
<1>1. PICK at, pos : JoinedBy(E, ss, u, n, at, pos)
  BY DEF Joined
<1>2. PICK k, w, l : k = Len(u) /\ w = ss[m] /\ l = Len(w)
  OBVIOUS
<1>3. /\ u \in Seq(E) /\ w \in Seq(E) /\ k \in Nat /\ l \in Nat
      /\ v \in Seq(E) /\ Len(v) = k + l
      /\ \A i \in 1..k + l : v[i] = IF i <= k THEN u[i] ELSE w[i - k]
  BY <1>1, <1>2, ConcatProperties, LenProperties DEF JoinedBy
<1>4. /\ at \in [1..k -> 1..n] /\ pos \in [1..k -> Nat]
      /\ \A i \in 1..k : pos[i] \in 1..Len(ss[at[i]]) /\ u[i] = ss[at[i]][pos[i]]
      /\ \A i, j \in 1..k : i < j => at[i] < at[j] \/ (at[i] = at[j] /\ pos[i] < pos[j])
      /\ \A h \in 1..n : \A p \in 1..Len(ss[h]) : \E i \in 1..k : at[i] = h /\ pos[i] = p
  BY <1>1, <1>2 DEF JoinedBy
<1>5. \A i \in 1..k + l : IF i <= k THEN i \in 1..k ELSE i - k \in 1..l
  BY <1>3
<1>6. /\ \A i \in 1..k : i <= k /\ i \in 1..k + l
      /\ \A p \in 1..l : p + k \in 1..k + l /\ ~ (p + k <= k) /\ (p + k) - k = p
  BY <1>3
<1>7. /\ m \in Nat /\ m \in 1..m
      /\ \A h \in 1..n : h \in 1..m /\ h < m
      /\ \A h \in 1..m : h \in 1..n \/ h = m
  OBVIOUS
<1>8. PICK bt, qos : /\ bt = [i \in 1..k + l |-> IF i <= k THEN at[i] ELSE m]
                     /\ qos = [i \in 1..k + l |-> IF i <= k THEN pos[i] ELSE i - k]
  OBVIOUS
<1>9. /\ \A i \in 1..k + l : i <= k => bt[i] = at[i] /\ qos[i] = pos[i]
      /\ \A i \in 1..k + l : ~ (i <= k) => bt[i] = m /\ qos[i] = i - k
  BY <1>8
<1>14. bt \in [1..k + l -> 1..m] /\ qos \in [1..k + l -> Nat]
  BY <1>3, <1>4, <1>5, <1>7, <1>8
<1>10. ASSUME NEW i \in 1..k + l
       PROVE  qos[i] \in 1..Len(ss[bt[i]]) /\ v[i] = ss[bt[i]][qos[i]]
  <2>1. CASE i <= k
    <3>1. i \in 1..k /\ bt[i] = at[i] /\ qos[i] = pos[i] /\ v[i] = u[i]
      BY <1>3, <1>5, <1>9, <2>1
    <3> QED BY ONLY <1>4, <3>1
  <2>2. CASE ~ (i <= k)
    <3>1. i - k \in 1..l /\ bt[i] = m /\ qos[i] = i - k /\ v[i] = w[i - k]
      BY <1>3, <1>5, <1>9, <2>2
    <3> QED BY ONLY <1>2, <3>1
  <2> QED BY <2>1, <2>2
<1>11. ASSUME NEW i \in 1..k + l, NEW j \in 1..k + l, i < j
       PROVE  bt[i] < bt[j] \/ (bt[i] = bt[j] /\ qos[i] < qos[j])
  <2>1. CASE j <= k
    <3>1. i <= k
      BY ONLY <1>3, <1>11, <2>1
    <3>2. i \in 1..k /\ j \in 1..k
      BY ONLY <1>5, <1>11, <2>1, <3>1
    <3>3. bt[i] = at[i] /\ qos[i] = pos[i] /\ bt[j] = at[j] /\ qos[j] = pos[j]
      BY ONLY <1>9, <1>11, <2>1, <3>1
    <3>4. at[i] < at[j] \/ (at[i] = at[j] /\ pos[i] < pos[j])
      BY ONLY <1>4, <1>11, <3>2
    <3> QED BY ONLY <3>3, <3>4
  <2>2. CASE i <= k /\ ~ (j <= k)
    <3>1. i \in 1..k /\ bt[i] = at[i] /\ bt[j] = m
      BY ONLY <1>5, <1>9, <1>11, <2>2
    <3>2. at[i] < m
      BY ONLY <1>4, <1>7, <3>1
    <3> QED BY ONLY <3>1, <3>2
  <2>3. CASE ~ (i <= k) /\ ~ (j <= k)
    <3>1. bt[i] = m /\ qos[i] = i - k /\ bt[j] = m /\ qos[j] = j - k
      BY ONLY <1>9, <1>11, <2>3
    <3>2. i - k < j - k
      BY ONLY <1>3, <1>11
    <3> QED BY ONLY <3>1, <3>2
  <2>4. ~ (j <= k) \/ i <= k
    BY ONLY <1>3, <1>11
  <2> QED BY ONLY <2>1, <2>2, <2>3, <2>4
<1>12. ASSUME NEW h \in 1..m, NEW p \in 1..Len(ss[h])
       PROVE  \E i \in 1..k + l : bt[i] = h /\ qos[i] = p
  <2>1. CASE h \in 1..n
    <3>1. PICK i \in 1..k : at[i] = h /\ pos[i] = p
      BY ONLY <1>4, <1>12, <2>1
    <3>2. i \in 1..k + l /\ bt[i] = at[i] /\ qos[i] = pos[i]
      BY ONLY <1>6, <1>9, <3>1
    <3> QED BY <3>1, <3>2
  <2>2. CASE h = m
    <3>1. p \in 1..l
      BY ONLY <1>2, <1>12, <2>2
    <3>2. p + k \in 1..k + l /\ bt[p + k] = m /\ qos[p + k] = p
      BY ONLY <1>6, <1>9, <3>1
    <3> QED BY <2>2, <3>2
  <2> QED BY ONLY <1>7, <1>12, <2>1, <2>2
<1>13. JoinedBy(E, ss, v, m, bt, qos)
  BY ONLY <1>3, <1>10, <1>11, <1>12, <1>14 DEF JoinedBy
<1> QED BY <1>13 DEF Joined

\* What FlattenSeq returns.
LEMMA FlattenJoins ==
  ASSUME NEW E, NEW ss \in Seq(Seq(E))
  PROVE  Joined(E, ss, FlattenSeq(ss), Len(ss))
<1>1. Len(ss) \in Nat /\ \A i \in 1..Len(ss) : ss[i] \in Seq(E)
  BY LenProperties, ElementOfSeq
<1>2. Joined(E, ss, <<>>, 0)
  <2>1. PICK none, t, n : none = [i \in 1..0 |-> 0] /\ t = <<>> /\ n = 0
    OBVIOUS
  <2>2. t \in Seq(E) /\ Len(t) = 0
    BY <2>1, EmptySeq
  <2>3. \A i : i \notin 1..Len(t) /\ i \notin 1..n
    BY <2>1, <2>2
  <2>4. none \in [1..Len(t) -> 1..n] /\ none \in [1..Len(t) -> Nat]
    BY <2>1, <2>2
  <2>5. JoinedBy(E, ss, t, n, none, none)
    BY <2>2, <2>3, <2>4 DEF JoinedBy
  <2> QED BY <2>1, <2>5 DEF Joined
<1>3. CASE Len(ss) = 0
  <2>1. ss = <<>>
    BY <1>3, EmptySeq
  <2>2. FlattenSeq(ss) = <<>>
    BY <1>3, <2>1 DEF FlattenSeq
  <2> QED BY <1>2, <1>3, <2>2
<1>4. CASE Len(ss) # 0
  <2>1. PICK f : Flattens(ss, Len(ss), f) /\ FlattenSeq(ss) = f[Len(ss)]
    BY <1>1, <1>4, FlattenIs
  <2> DEFINE X == {n \in Nat : n <= Len(ss) /\ n # 0 => Joined(E, ss, f[n], n)}
  <2>2. ASSUME NEW n \in Nat, n \in X PROVE n + 1 \in X
    <3> SUFFICES ASSUME n + 1 <= Len(ss) PROVE Joined(E, ss, f[n + 1], n + 1)
      OBVIOUS
    <3>1. n + 1 \in 1..Len(ss) /\ (n # 0 => n + 1 # 1 /\ (n + 1) - 1 = n) /\ n <= Len(ss)
      BY <1>1
    <3>2. f[n + 1] = IF n = 0 THEN ss[n + 1] ELSE f[n] \o ss[n + 1]
      <4>1. f[n + 1] = IF n + 1 = 1 THEN ss[n + 1] ELSE f[(n + 1) - 1] \o ss[n + 1]
        BY ONLY <2>1, <3>1 DEF Flattens, FlattenStep
      <4>2. n + 1 = 1 <=> n = 0
        OBVIOUS
      <4>3. CASE n = 0
        BY <4>1, <4>2, <4>3
      <4>4. CASE n # 0
        BY ONLY <3>1, <4>1, <4>2, <4>4
      <4> QED BY <4>3, <4>4
    <3>3. PICK u, v, m : u = (IF n = 0 THEN <<>> ELSE f[n]) /\ v = f[n + 1] /\ m = n + 1
      OBVIOUS
    <3>4. Joined(E, ss, u, n)
      BY <1>2, <2>2, <3>1, <3>3
    <3>5. ss[m] \in Seq(E)
      BY <1>1, <3>1, <3>3
    <3>6. v = u \o ss[m]
      <4>1. <<>> \o ss[m] = ss[m]
        BY <3>5, ConcatEmptySeq
      <4> QED BY <3>2, <3>3, <4>1
    <3>7. Joined(E, ss, v, m)
      BY ONLY n \in Nat, <3>3, <3>4, <3>5, <3>6, JoinedGrows
    <3> QED BY <3>3, <3>7
  <2> HIDE DEF X
  <2>3. 0 \in X
    BY DEF X
  <2>4. Len(ss) \in X
    BY <1>1, <2>2, <2>3, SetInduction
  <2> QED BY <1>1, <1>4, <2>1, <2>4 DEF X
<1> QED BY <1>3, <1>4

\* The same for the elements only.
LEMMA FlattenElements ==
  ASSUME NEW E, NEW ss \in Seq(Seq(E)), NEW t, t = FlattenSeq(ss)
  PROVE  /\ t \in Seq(E)
         /\ \A x : x \in ToSet(t) <=> \E k \in 1..Len(ss) : x \in ToSet(ss[k])
<1>1. PICK n, at, pos : n = Len(ss) /\ JoinedBy(E, ss, t, n, at, pos)
  BY FlattenJoins DEF Joined
<1>2. t \in Seq(E) /\ \A k \in 1..n : ss[k] \in Seq(E)
  BY <1>1, ElementOfSeq DEF JoinedBy
<1>3. \A x : x \in ToSet(t) <=> \E i \in 1..Len(t) : t[i] = x
  BY <1>2, ToSetFacts
<1>4. ASSUME NEW k \in 1..n
      PROVE  \A x : x \in ToSet(ss[k]) <=> \E i \in 1..Len(ss[k]) : ss[k][i] = x
  <2>1. PICK u : u = ss[k] /\ u \in Seq(E)
    BY <1>2
  <2>2. \A x : x \in ToSet(u) <=> \E i \in 1..Len(u) : u[i] = x
    BY ONLY <2>1, ToSetFacts
  <2> QED BY ONLY <2>1, <2>2
<1>5. ASSUME NEW x, x \in ToSet(t) PROVE \E k \in 1..n : x \in ToSet(ss[k])
  <2>1. PICK i \in 1..Len(t) : t[i] = x
    BY <1>3, <1>5
  <2>2. PICK k, q : k = at[i] /\ q = pos[i]
    OBVIOUS
  <2>3. k \in 1..n /\ q \in 1..Len(ss[k]) /\ ss[k][q] = x
    BY ONLY <1>1, <2>1, <2>2 DEF JoinedBy
  <2> QED BY <1>4, <2>3
<1>6. ASSUME NEW x, NEW k \in 1..n, x \in ToSet(ss[k]) PROVE x \in ToSet(t)
  <2>1. PICK q \in 1..Len(ss[k]) : ss[k][q] = x
    BY <1>4, <1>6
  <2>2. PICK i \in 1..Len(t) : at[i] = k /\ pos[i] = q
    BY <1>1, <2>1 DEF JoinedBy
  <2>3. t[i] = ss[k][q]
    BY <1>1, <2>2 DEF JoinedBy
  <2> QED BY <1>3, <2>1, <2>2, <2>3
<1> QED BY ONLY <1>1, <1>2, <1>5, <1>6

==============================================================================
