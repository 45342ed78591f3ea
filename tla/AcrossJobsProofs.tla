-------------------------- MODULE AcrossJobsProofs --------------------------
(****************************************************************************)
(* Proofs about three of the parts that go on from one job to the next, for  *)
(* all values of their constants: AsyncGenerators, then ModuleLoading, then  *)
(* FinalizationRegistries.                                                  *)
(****************************************************************************)
EXTENDS MCAcrossJobs, SequenceFacts, FiniteSetTheorems

----------------------------------------------------------------------------
(* AsyncGenerators.  The inductive invariant: where JavaScript runs and     *)
(* what reaction is out say which state the generator is in, and the other  *)
(* way round.                                                               *)

Requested == [id : Nat, kind : RequestKinds]
Replied   == [id : Nat, how : {"yield", "done", "error"}]

PointFitsState ==
  /\ point \in {"body", "yielded"} => genState = "Executing"
  /\ point \in {"draining", "returning"} => genState = "DrainingQueue"
  /\ point = "script" => ~resumed
  /\ point # "script" => reaction = "none"

WorkIsUnderWay ==
  /\ genState = "Executing" => point \in {"body", "yielded"} \/ reaction = "await"
  /\ genState = "DrainingQueue" => point \in {"draining", "returning"} \/ reaction = "awaitReturn"
  /\ queue # <<>> => genState \in {"Executing", "DrainingQueue"}

\* Until the generator is closed it has only yielded.
OnlyYields ==
  genState \in Suspended \cup {"Executing"} =>
    \A i \in DOMAIN answered : answered[i].how = "yield"

GeneratorInv ==
  /\ AsyncGeneratorTypeOK
  /\ PointFitsState
  /\ WorkIsUnderWay
  /\ OnlyYields
  /\ FrameIsThere
  /\ AnswersInOrder

----------------------------------------------------------------------------
(* What one request does to the numbering of queue and answers.             *)

Numbered(q, done, n) ==
  /\ \A i \in DOMAIN done : done[i].id = i
  /\ \A i \in DOMAIN q : q[i].id = Len(done) + i
  /\ Len(done) + Len(q) = n

YieldsFirst(done) ==
  \A i, j \in DOMAIN done : i < j /\ done[j].how = "yield" => done[i].how = "yield"

\* A sequence with one more element at its end.
LEMMA Appended ==
  ASSUME NEW S, NEW s \in Seq(S), NEW e \in S
  PROVE  /\ Append(s, e) \in Seq(S)
         /\ Append(s, e) # <<>>
         /\ Len(Append(s, e)) = Len(s) + 1
         /\ DOMAIN Append(s, e) = 1..Len(s) + 1
         /\ Append(s, e)[Len(s) + 1] = e
         /\ \A i \in DOMAIN s : Append(s, e)[i] = s[i]
         /\ DOMAIN s = 1..Len(s) /\ Len(s) \in Nat
  OBVIOUS

\* A request that joins the queue gets the next number.
LEMMA Enqueued ==
  ASSUME NEW q \in Seq(Requested), NEW done \in Seq(Replied), NEW n \in Nat,
         NEW k \in RequestKinds, Numbered(q, done, n)
  PROVE  LET more == Append(q, [id |-> n + 1, kind |-> k])
         IN more \in Seq(Requested) /\ more # <<>> /\ Numbered(more, done, n + 1)
<1> DEFINE r == [id |-> n + 1, kind |-> k]
           more == Append(q, r)
<1>1. r \in Requested
  BY DEF Requested
<1>2. /\ more \in Seq(Requested) /\ more # <<>>
      /\ Len(more) = Len(q) + 1 /\ DOMAIN more = 1..Len(q) + 1
      /\ more[Len(q) + 1] = r
      /\ \A i \in DOMAIN q : more[i] = q[i]
      /\ DOMAIN q = 1..Len(q) /\ Len(q) \in Nat
  BY <1>1, Appended
<1>3. Len(done) \in Nat /\ n = Len(done) + Len(q)
  BY LenProperties DEF Numbered
<1>4. r.id = n + 1
  OBVIOUS
<1> HIDE DEF more, r
<1>5. \A i \in DOMAIN more : more[i].id = Len(done) + i
  <2> TAKE i \in DOMAIN more
  <2>1. CASE i \in DOMAIN q
    BY <2>1, <1>2 DEF Numbered
  <2>2. CASE i = Len(q) + 1
    BY <2>2, <1>2, <1>3, <1>4
  <2> QED BY <2>1, <2>2, <1>2
<1>6. Len(done) + Len(more) = n + 1
  BY <1>2, <1>3
<1>7. Numbered(more, done, n + 1)
  BY <1>5, <1>6 DEF Numbered
<1> QED BY <1>2, <1>7 DEF more, r

\* An answer to the request at the front of the queue.
LEMMA Completed ==
  ASSUME NEW q \in Seq(Requested), NEW done \in Seq(Replied), NEW n \in Nat,
         NEW how \in {"yield", "done", "error"}, q # <<>>,
         Numbered(q, done, n), YieldsFirst(done),
         how = "yield" => \A i \in DOMAIN done : done[i].how = "yield"
  PROVE  LET more == Append(done, Reply(Head(q).id, how))
         IN /\ Tail(q) \in Seq(Requested)
            /\ more \in Seq(Replied)
            /\ Numbered(Tail(q), more, n)
            /\ YieldsFirst(more)
            /\ how = "yield" => \A i \in DOMAIN more : more[i].how = "yield"
<1> DEFINE r == Reply(Head(q).id, how)
           more == Append(done, r)
           t == Tail(q)
<1>1. /\ Len(q) \in Nat \ {0} /\ DOMAIN q = 1..Len(q)
      /\ Head(q) \in Requested /\ Head(q) = q[1]
      /\ t \in Seq(Requested) /\ Len(t) = Len(q) - 1 /\ DOMAIN t = 1..Len(t)
      /\ \A i \in 1..Len(t) : t[i] = q[i + 1]
  BY HeadTailProperties, LenProperties, EmptySeq
<1>2. r \in Replied /\ r.id = q[1].id /\ r.how = how
  BY <1>1 DEF Requested, Replied, Reply
<1>3. /\ more \in Seq(Replied)
      /\ Len(more) = Len(done) + 1 /\ DOMAIN more = 1..Len(done) + 1
      /\ more[Len(done) + 1] = r
      /\ \A i \in DOMAIN done : more[i] = done[i]
      /\ DOMAIN done = 1..Len(done) /\ Len(done) \in Nat
  BY <1>2, Appended
<1> HIDE DEF more, r, t
<1>4. q[1].id = Len(done) + 1
  BY <1>1 DEF Numbered
<1>5. \A i \in DOMAIN more : more[i].id = i
  BY <1>2, <1>3, <1>4 DEF Numbered
<1>6. \A i \in DOMAIN t : t[i].id = Len(more) + i
  <2> TAKE i \in DOMAIN t
  <2>1. i \in Nat /\ i + 1 \in DOMAIN q /\ t[i] = q[i + 1]
    BY <1>1
  <2>2. q[i + 1].id = Len(done) + (i + 1)
    BY <2>1 DEF Numbered
  <2> QED BY <2>1, <2>2, <1>3
<1>7. Len(more) + Len(t) = n
  <2>1. Len(done) + Len(q) = n
    BY DEF Numbered
  <2>2. /\ Len(done) \in Nat /\ Len(q) \in Nat
        /\ Len(more) = Len(done) + 1 /\ Len(t) = Len(q) - 1
    BY <1>1, <1>3
  <2> QED BY <2>1, <2>2
<1>8. Numbered(t, more, n)
  BY <1>5, <1>6, <1>7 DEF Numbered
<1>9. YieldsFirst(more)
  <2> SUFFICES ASSUME NEW i \in DOMAIN more, NEW j \in DOMAIN more,
                      i < j, more[j].how = "yield"
               PROVE  more[i].how = "yield"
    BY DEF YieldsFirst
  <2>1. i \in DOMAIN done /\ more[i] = done[i]
    BY <1>3
  <2>2. CASE j \in DOMAIN done
    BY <2>1, <2>2, <1>3 DEF YieldsFirst
  <2>3. CASE j = Len(done) + 1
    BY <2>1, <2>3, <1>2, <1>3
  <2> QED BY <2>2, <2>3, <1>3
<1>10. how = "yield" => \A i \in DOMAIN more : more[i].how = "yield"
  BY <1>2, <1>3
<1> QED BY <1>1, <1>3, <1>8, <1>9, <1>10 DEF more, r, t

\* An answer that a generator which is through gives without the queue.
LEMMA AnsweredAtOnce ==
  ASSUME NEW done \in Seq(Replied), NEW n \in Nat, NEW how \in {"done", "error"},
         Numbered(<<>>, done, n), YieldsFirst(done)
  PROVE  LET more == Append(done, Reply(n + 1, how))
         IN /\ more \in Seq(Replied)
            /\ Numbered(<<>>, more, n + 1)
            /\ YieldsFirst(more)
<1> DEFINE r == Reply(n + 1, how)
           more == Append(done, r)
<1>1. r \in Replied /\ r.id = n + 1 /\ r.how # "yield"
  BY DEF Reply, Replied
<1>2. /\ more \in Seq(Replied)
      /\ Len(more) = Len(done) + 1 /\ DOMAIN more = 1..Len(done) + 1
      /\ more[Len(done) + 1] = r
      /\ \A i \in DOMAIN done : more[i] = done[i]
      /\ DOMAIN done = 1..Len(done) /\ Len(done) \in Nat
  BY <1>1, Appended
<1>3. Len(done) = n
  BY <1>2, EmptySeq DEF Numbered
<1> HIDE DEF more, r
<1>4. \A i \in DOMAIN more : more[i].id = i
  BY <1>1, <1>2, <1>3 DEF Numbered
<1>5. Numbered(<<>>, more, n + 1)
  BY <1>2, <1>3, <1>4, EmptySeq DEF Numbered
<1>6. YieldsFirst(more)
  BY <1>1, <1>2 DEF YieldsFirst
<1> QED BY <1>2, <1>5, <1>6 DEF more, r

\* The order of answers in these terms.
LEMMA InOrder ==
  AnswersInOrder <=> Numbered(queue, answered, requests) /\ YieldsFirst(answered)
BY DEF AnswersInOrder, Numbered, YieldsFirst
----------------------------------------------------------------------------
(* The invariant holds.                                                     *)

\* The invariant holds in the initial states.
LEMMA GeneratorInitInv == AsyncGeneratorInit => GeneratorInv
<1> SUFFICES ASSUME AsyncGeneratorInit PROVE GeneratorInv
  OBVIOUS
<1>1. DOMAIN queue = {} /\ DOMAIN answered = {} /\ Len(queue) = 0 /\ Len(answered) = 0
  BY EmptySeq DEF AsyncGeneratorInit
<1>2. AsyncGeneratorTypeOK
  BY EmptySeq DEF AsyncGeneratorInit, AsyncGeneratorTypeOK, Suspended
<1> QED BY <1>1, <1>2
  DEF AsyncGeneratorInit, GeneratorInv, PointFitsState, WorkIsUnderWay, OnlyYields, FrameIsThere,
      AnswersInOrder, Suspended

\* What an action that answers the front of the queue has to show.
LEMMA CompleteStepFacts ==
  ASSUME GeneratorInv, NEW how \in {"yield", "done", "error"}, queue # <<>>, CompleteStep(how),
         UNCHANGED requests,
         how = "yield" => genState = "Executing"
  PROVE  /\ queue' \in Seq(Requested)
         /\ answered' \in Seq(Replied)
         /\ AnswersInOrder'
         /\ how = "yield" => \A i \in DOMAIN answered' : answered'[i].how = "yield"
<1>1. /\ queue \in Seq(Requested) /\ answered \in Seq(Replied) /\ requests \in Nat
      /\ Numbered(queue, answered, requests) /\ YieldsFirst(answered)
      /\ how = "yield" => \A i \in DOMAIN answered : answered[i].how = "yield"
  BY InOrder DEF GeneratorInv, AsyncGeneratorTypeOK, Requested, Replied, OnlyYields
<1>2. /\ Tail(queue) \in Seq(Requested)
      /\ queue' = Tail(queue)
      /\ answered' = Append(answered, Reply(Head(queue).id, how))
      /\ answered' \in Seq(Replied)
      /\ Numbered(queue', answered', requests)
      /\ YieldsFirst(answered')
      /\ how = "yield" => \A i \in DOMAIN answered' : answered'[i].how = "yield"
  BY <1>1, Completed DEF CompleteStep
<1>3. AnswersInOrder'
  BY <1>2 DEF AnswersInOrder, Numbered, YieldsFirst
<1> QED BY <1>2, <1>3

\* What an action that adds a request to the queue has to show.
LEMMA EnqueueFacts ==
  ASSUME GeneratorInv, NEW kind \in RequestKinds, NewRequest(kind), EnqueueRequest(kind),
         UNCHANGED answered
  PROVE  /\ queue' \in Seq(Requested) /\ queue' # <<>>
         /\ requests' \in Nat
         /\ AnswersInOrder'
<1>1. /\ queue \in Seq(Requested) /\ answered \in Seq(Replied) /\ requests \in Nat
      /\ Numbered(queue, answered, requests) /\ YieldsFirst(answered)
  BY InOrder DEF GeneratorInv, AsyncGeneratorTypeOK, Requested, Replied
<1>2. /\ queue' \in Seq(Requested) /\ queue' # <<>> /\ requests' = requests + 1
      /\ Numbered(queue', answered, requests + 1)
  BY <1>1, Enqueued DEF NewRequest, EnqueueRequest, Request
<1>3. AnswersInOrder'
  BY <1>1, <1>2 DEF AnswersInOrder, Numbered, YieldsFirst
<1> QED BY <1>1, <1>2, <1>3

\* And one that answers a request at once.
LEMMA AnswerAtOnceFacts ==
  ASSUME GeneratorInv, NEW kind \in RequestKinds, NEW how \in {"done", "error"},
         queue = <<>>, NewRequest(kind), AnswerAtOnce(how)
  PROVE  /\ answered' \in Seq(Replied)
         /\ requests' \in Nat
         /\ AnswersInOrder'
<1>1. /\ answered \in Seq(Replied) /\ requests \in Nat
      /\ Numbered(<<>>, answered, requests) /\ YieldsFirst(answered)
  BY InOrder DEF GeneratorInv, AsyncGeneratorTypeOK, Replied
<1>2. /\ answered' \in Seq(Replied) /\ requests' = requests + 1 /\ queue' = <<>>
      /\ Numbered(<<>>, answered', requests + 1) /\ YieldsFirst(answered')
  BY <1>1, AnsweredAtOnce DEF NewRequest, AnswerAtOnce
<1>3. AnswersInOrder'
  BY <1>2 DEF AnswersInOrder, Numbered, YieldsFirst
<1> QED BY <1>1, <1>2, <1>3

\* Steps that leave requests and answers alone.
LEMMA QuietFacts ==
  ASSUME GeneratorInv, UNCHANGED <<queue, answered, requests>>
  PROVE  /\ queue' \in Seq(Requested) /\ answered' \in Seq(Replied) /\ requests' \in Nat
         /\ AnswersInOrder'
BY DEF GeneratorInv, AsyncGeneratorTypeOK, Requested, Replied, AnswersInOrder

\* Every step preserves the invariant.
LEMMA GeneratorNextInv == GeneratorInv /\ [AsyncGeneratorNext]_generatorVars => GeneratorInv'
<1> SUFFICES ASSUME GeneratorInv, [AsyncGeneratorNext]_generatorVars PROVE GeneratorInv'
  OBVIOUS
<1> USE DEF Requested, Replied
<1>1. CASE InnerNext
  <2>1. CASE genState = "Completed"
    <3>1. queue = <<>>
      BY <2>1 DEF GeneratorInv, WorkIsUnderWay
    <3>2. AnswerAtOnce("done") /\ NewRequest("normal") /\ UNCHANGED <<genState, genContext>>
      BY <1>1, <2>1 DEF InnerNext
    <3>3. answered' \in Seq(Replied) /\ requests' \in Nat /\ AnswersInOrder'
      BY <3>1, <3>2, AnswerAtOnceFacts DEF RequestKinds
    <3> QED BY <2>1, <3>2, <3>3
      DEF GeneratorInv, AsyncGeneratorTypeOK, PointFitsState, WorkIsUnderWay, OnlyYields, FrameIsThere,
          AnswerAtOnce, Suspended
  <2>2. CASE genState # "Completed"
    <3>1. NewRequest("normal") /\ EnqueueRequest("normal") /\ UNCHANGED answered
      BY <1>1, <2>2 DEF InnerNext, ResumeFrame, OnlyEnqueue
    <3>2. queue' \in Seq(Requested) /\ queue' # <<>> /\ requests' \in Nat /\ AnswersInOrder'
      BY <3>1, EnqueueFacts DEF RequestKinds
    <3>3. CASE genState \in Suspended /\ ResumeFrame
      BY <3>1, <3>2, <3>3
      DEF GeneratorInv, AsyncGeneratorTypeOK, PointFitsState, WorkIsUnderWay, OnlyYields, FrameIsThere,
          ResumeFrame, Suspended
    <3>4. CASE genState \in {"Executing", "DrainingQueue"} /\ OnlyEnqueue
      BY <3>1, <3>2, <3>4
      DEF GeneratorInv, AsyncGeneratorTypeOK, PointFitsState, WorkIsUnderWay, OnlyYields, FrameIsThere,
          OnlyEnqueue, Suspended
    <3> QED BY <1>1, <2>2, <3>3, <3>4 DEF InnerNext, GeneratorInv, AsyncGeneratorTypeOK, Suspended
  <2> QED BY <2>1, <2>2
<1>2. CASE InnerReturn
  <2>1. NewRequest("return") /\ EnqueueRequest("return") /\ UNCHANGED answered
    BY <1>2 DEF InnerReturn, ResumeFrame, OnlyEnqueue
  <2>2. queue' \in Seq(Requested) /\ queue' # <<>> /\ requests' \in Nat /\ AnswersInOrder'
    BY <2>1, EnqueueFacts DEF RequestKinds
  <2>3. CASE /\ genState \in {"SuspendedStart", "Completed"}
             /\ genState' = "DrainingQueue" /\ point' = "returning"
             /\ UNCHANGED <<genContext, resumed, reaction, awaits, answered>>
    BY <2>2, <2>3
    DEF GeneratorInv, AsyncGeneratorTypeOK, PointFitsState, WorkIsUnderWay, OnlyYields, FrameIsThere, Suspended
  <2>4. CASE genState = "SuspendedYield" /\ ResumeFrame
    BY <2>2, <2>4
    DEF GeneratorInv, AsyncGeneratorTypeOK, PointFitsState, WorkIsUnderWay, OnlyYields, FrameIsThere,
        ResumeFrame, Suspended
  <2>5. CASE genState \in {"Executing", "DrainingQueue"} /\ OnlyEnqueue
    BY <2>2, <2>5
    DEF GeneratorInv, AsyncGeneratorTypeOK, PointFitsState, WorkIsUnderWay, OnlyYields, FrameIsThere,
        OnlyEnqueue, Suspended
  <2> QED BY <1>2, <2>3, <2>4, <2>5 DEF InnerReturn
<1>3. CASE InnerThrow
  <2>1. CASE genState \in {"SuspendedStart", "Completed"}
    <3>1. queue = <<>>
      BY <2>1 DEF GeneratorInv, WorkIsUnderWay
    <3>2. /\ AnswerAtOnce("error") /\ NewRequest("throw") /\ genState' = "Completed"
          /\ genContext' = IF genState = "SuspendedStart" THEN "none" ELSE genContext
      BY <1>3, <2>1 DEF InnerThrow
    <3>3. answered' \in Seq(Replied) /\ requests' \in Nat /\ AnswersInOrder'
      BY <3>1, <3>2, AnswerAtOnceFacts DEF RequestKinds
    <3> QED BY <2>1, <3>1, <3>2, <3>3
      DEF GeneratorInv, AsyncGeneratorTypeOK, PointFitsState, WorkIsUnderWay, OnlyYields, FrameIsThere,
          AnswerAtOnce, Suspended
  <2>2. CASE genState \notin {"SuspendedStart", "Completed"}
    <3>1. NewRequest("throw") /\ EnqueueRequest("throw") /\ UNCHANGED answered
      BY <1>3, <2>2 DEF InnerThrow, ResumeFrame, OnlyEnqueue
    <3>2. queue' \in Seq(Requested) /\ queue' # <<>> /\ requests' \in Nat /\ AnswersInOrder'
      BY <3>1, EnqueueFacts DEF RequestKinds
    <3>3. CASE genState = "SuspendedYield" /\ ResumeFrame
      BY <3>1, <3>2, <3>3
      DEF GeneratorInv, AsyncGeneratorTypeOK, PointFitsState, WorkIsUnderWay, OnlyYields, FrameIsThere,
          ResumeFrame, Suspended
    <3>4. CASE genState \in {"Executing", "DrainingQueue"} /\ OnlyEnqueue
      BY <3>1, <3>2, <3>4
      DEF GeneratorInv, AsyncGeneratorTypeOK, PointFitsState, WorkIsUnderWay, OnlyYields, FrameIsThere,
          OnlyEnqueue, Suspended
    <3> QED BY <1>3, <2>2, <3>3, <3>4 DEF InnerThrow, GeneratorInv, AsyncGeneratorTypeOK, Suspended
  <2> QED BY <2>1, <2>2
<1>4. CASE Await
  <2>1. queue' \in Seq(Requested) /\ answered' \in Seq(Replied) /\ requests' \in Nat /\ AnswersInOrder'
    BY <1>4, QuietFacts DEF Await
  <2>2. /\ genState = "Executing" /\ queue # <<>> /\ awaits \in Nat
        /\ \A i \in DOMAIN answered : answered[i].how = "yield"
    BY <1>4 DEF Await, GeneratorInv, AsyncGeneratorTypeOK, PointFitsState, FrameIsThere, OnlyYields
  <2>3. /\ genState' = "Executing" /\ point' = "script" /\ reaction' = "await"
        /\ awaits' \in Nat /\ queue' # <<>> /\ answered' = answered
    BY <1>4, <2>2 DEF Await, LeaveGenerator
  <2>4. genContext' = "spent"
    BY <1>4, Zenon DEF Await, LeaveGenerator
  <2>5. resumed' = FALSE
    BY <1>4, Zenon DEF Await, LeaveGenerator
  <2> QED BY <2>1, <2>2, <2>3, <2>4, <2>5
    DEF GeneratorInv, AsyncGeneratorTypeOK, PointFitsState, WorkIsUnderWay, OnlyYields, FrameIsThere,
        Suspended
<1>5. CASE Awaited
  <2>1. queue' \in Seq(Requested) /\ answered' \in Seq(Replied) /\ requests' \in Nat /\ AnswersInOrder'
    BY <1>5, QuietFacts DEF Awaited
  <2> QED BY <1>5, <2>1
    DEF GeneratorInv, AsyncGeneratorTypeOK, PointFitsState, WorkIsUnderWay, OnlyYields, FrameIsThere,
        Awaited, Suspended
<1>6. CASE Yield
  <2>1. queue # <<>> /\ genState = "Executing"
    BY <1>6 DEF Yield, GeneratorInv, FrameIsThere, PointFitsState
  <2>2. /\ queue' \in Seq(Requested) /\ answered' \in Seq(Replied) /\ AnswersInOrder'
        /\ \A i \in DOMAIN answered' : answered'[i].how = "yield"
    BY <1>6, <2>1, CompleteStepFacts DEF Yield
  <2> QED BY <1>6, <2>1, <2>2
    DEF GeneratorInv, AsyncGeneratorTypeOK, PointFitsState, WorkIsUnderWay, OnlyYields, FrameIsThere,
        Yield, Suspended
<1>7. CASE Yielded
  <2>1. queue' \in Seq(Requested) /\ answered' \in Seq(Replied) /\ requests' \in Nat /\ AnswersInOrder'
    BY <1>7, QuietFacts DEF Yielded
  <2> QED BY <1>7, <2>1
    DEF GeneratorInv, AsyncGeneratorTypeOK, PointFitsState, WorkIsUnderWay, OnlyYields, FrameIsThere,
        Yielded, LeaveGenerator, Suspended
<1>8. CASE Close
  <2>1. queue # <<>> /\ genState = "Executing"
    BY <1>8 DEF Close, GeneratorInv, FrameIsThere, PointFitsState
  <2>2. queue' \in Seq(Requested) /\ answered' \in Seq(Replied) /\ AnswersInOrder'
    <3>1. PICK how \in {"done", "error"} : CompleteStep(how)
      BY <1>8 DEF Close
    <3> QED BY <1>8, <2>1, <3>1, CompleteStepFacts DEF Close
  <2> QED BY <1>8, <2>1, <2>2
    DEF GeneratorInv, AsyncGeneratorTypeOK, PointFitsState, WorkIsUnderWay, OnlyYields, FrameIsThere,
        Close, Suspended
<1>9. CASE DrainQueue
  <2>1. genState = "DrainingQueue" /\ reaction = "none" /\ reaction' = reaction /\ awaits' = awaits
        /\ requests' = requests
    BY <1>9 DEF DrainQueue, GeneratorInv, PointFitsState
  <2>2. CASE queue = <<>> /\ genState' = "Completed" /\ LeaveGenerator("none") /\ UNCHANGED <<queue, answered>>
    <3>1. queue' \in Seq(Requested) /\ answered' \in Seq(Replied) /\ requests' \in Nat /\ AnswersInOrder'
      BY <2>1, <2>2, QuietFacts
    <3> QED BY <2>1, <2>2, <3>1
      DEF GeneratorInv, AsyncGeneratorTypeOK, PointFitsState, WorkIsUnderWay, OnlyYields, FrameIsThere,
          LeaveGenerator, Suspended
  <2>3. CASE queue # <<>> /\ point' = "returning" /\ UNCHANGED <<genState, genContext, resumed, queue, answered>>
    <3>1. queue' \in Seq(Requested) /\ answered' \in Seq(Replied) /\ requests' \in Nat /\ AnswersInOrder'
      BY <2>1, <2>3, QuietFacts
    <3> QED BY <2>1, <2>3, <3>1
      DEF GeneratorInv, AsyncGeneratorTypeOK, PointFitsState, WorkIsUnderWay, OnlyYields, FrameIsThere, Suspended
  <2>4. CASE /\ queue # <<>>
             /\ CompleteStep(IF Head(queue).kind = "throw" THEN "error" ELSE "done")
             /\ UNCHANGED <<genState, genContext, resumed, point>>
    <3>1. queue' \in Seq(Requested) /\ answered' \in Seq(Replied) /\ AnswersInOrder'
      <4>1. CASE Head(queue).kind = "throw"
        BY <2>1, <2>4, <4>1, CompleteStepFacts
      <4>2. CASE Head(queue).kind # "throw"
        BY <2>1, <2>4, <4>2, CompleteStepFacts
      <4> QED BY <4>1, <4>2
    <3>2. point = "draining"
      BY <1>9 DEF DrainQueue
    <3> QED BY <2>1, <2>4, <3>1, <3>2
      DEF GeneratorInv, AsyncGeneratorTypeOK, PointFitsState, WorkIsUnderWay, OnlyYields, FrameIsThere, Suspended
  <2> QED BY <1>9, <2>2, <2>3, <2>4 DEF DrainQueue
<1>10. CASE AwaitReturn
  <2>1. /\ point = "returning" /\ genState = "DrainingQueue" /\ queue # <<>> /\ reaction = "none"
        /\ UNCHANGED <<genState, awaits, requests>>
    BY <1>10 DEF AwaitReturn, GeneratorInv, PointFitsState, FrameIsThere
  <2>2. CASE reaction' = "awaitReturn" /\ LeaveGenerator(genContext) /\ UNCHANGED <<queue, answered>>
    <3>1. queue' \in Seq(Requested) /\ answered' \in Seq(Replied) /\ requests' \in Nat /\ AnswersInOrder'
      BY <2>1, <2>2, QuietFacts
    <3> QED BY <2>1, <2>2, <3>1
      DEF GeneratorInv, AsyncGeneratorTypeOK, PointFitsState, WorkIsUnderWay, OnlyYields, FrameIsThere,
          LeaveGenerator, Suspended
  <2>3. CASE CompleteStep("error") /\ point' = "draining" /\ UNCHANGED <<genContext, resumed, reaction>>
    <3>1. queue' \in Seq(Requested) /\ answered' \in Seq(Replied) /\ AnswersInOrder'
      BY <2>1, <2>3, CompleteStepFacts
    <3> QED BY <2>1, <2>3, <3>1
      DEF GeneratorInv, AsyncGeneratorTypeOK, PointFitsState, WorkIsUnderWay, OnlyYields, FrameIsThere, Suspended
  <2> QED BY <1>10, <2>2, <2>3 DEF AwaitReturn
<1>11. CASE ReturnAwaited
  <2>1. queue # <<>> /\ genState = "DrainingQueue"
    BY <1>11 DEF ReturnAwaited, GeneratorInv, FrameIsThere
  <2>2. queue' \in Seq(Requested) /\ answered' \in Seq(Replied) /\ AnswersInOrder'
    <3>1. PICK how \in {"done", "error"} : CompleteStep(how)
      BY <1>11 DEF ReturnAwaited
    <3> QED BY <1>11, <2>1, <3>1, CompleteStepFacts DEF ReturnAwaited
  <2> QED BY <1>11, <2>1, <2>2
    DEF GeneratorInv, AsyncGeneratorTypeOK, PointFitsState, WorkIsUnderWay, OnlyYields, FrameIsThere,
        ReturnAwaited, Suspended
<1>12. CASE UNCHANGED generatorVars
  BY <1>12
  DEF generatorVars, GeneratorInv, AsyncGeneratorTypeOK, PointFitsState, WorkIsUnderWay, OnlyYields,
      FrameIsThere, AnswersInOrder
<1> QED BY <1>1, <1>2, <1>3, <1>4, <1>5, <1>6, <1>7, <1>8, <1>9, <1>10, <1>11, <1>12
  DEF AsyncGeneratorNext, AsyncGeneratorStep

\* The invariant holds.
THEOREM GeneratorInvHolds == AsyncGeneratorSpec => []GeneratorInv
<1> QED BY GeneratorInitInv, GeneratorNextInv, PTL DEF AsyncGeneratorSpec

----------------------------------------------------------------------------
(* Requests are answered in their order, each once, and no value follows    *)
(* the answer that ended the generator.                                     *)
THEOREM AnswersKeepOrder == AsyncGeneratorSpec => []AnswersInOrder
<1>1. GeneratorInv => AnswersInOrder
  BY DEF GeneratorInv
<1> QED BY <1>1, GeneratorInvHolds, PTL

(* Whoever waits is served by something that is under way, and what goes on *)
(* finds its frame and a request: resume and complete_step do not fail their *)
(* assertions.                                                              *)
THEOREM WaitingIsServed == AsyncGeneratorSpec => []RequestsAreServed
<1>1. GeneratorInv => RequestsAreServed
  BY DEF GeneratorInv, RequestsAreServed, WaitingRequestsAreServed, WorkIsUnderWay
<1> QED BY <1>1, GeneratorInvHolds, PTL

----------------------------------------------------------------------------
(* ModuleLoading.  The inductive invariant.                                 *)

Pairs == ModuleNames \X ModuleNames

\* What a load knows or waits for: every request of a module it has visited
\* has its entry, and the module behind it is visited or linked, or the loader
\* still owes the answer.
CoversVisited(seen, out, entries) ==
  \A s \in seen : \A r \in requested[s] :
    <<s, r>> \in out \/ (r \in entries[s] /\ r \in seen \cup linked)

Active(l) == loadOutcome[l] \in {"pending", "resolved"}

LoadInv(l) ==
  /\ loading[l] <=> loadOutcome[l] = "pending"
  /\ loading[l] => pendingModules[l] = Cardinality(loadJobs[l]) /\ loadJobs[l] # {}
  /\ loadOutcome[l] = "none" => visited[l] = {} /\ loadJobs[l] = {}
  /\ loadOutcome[l] = "resolved" => loadJobs[l] = {}
  /\ \A job \in loadJobs[l] : job[1] \in visited[l]
  /\ Active(l) => CoversVisited(visited[l], loadJobs[l], loadedModules)
  /\ Active(l) => loadRoot[l] \in visited[l] \cup linked

\* What is linked is complete.
LinkedInv ==
  \A s \in linked : requested[s] \subseteq linked /\ requested[s] \subseteq loadedModules[s]

LoadingInv ==
  /\ LoadingTypeOK
  /\ LinkedInv
  /\ \A l \in Loads : LoadInv(l)

----------------------------------------------------------------------------
(* Facts about the two closures.                                            *)

\* Whatever is closed under requests contains all that its members reach.
LEMMA ReachableInClosed ==
  ASSUME NEW m \in ModuleNames, NEW S \in SUBSET ModuleNames,
         m \in S, \A s \in S : requested[s] \subseteq S
  PROVE  Reachable(m) \subseteq S
BY DEF Reachable

\* And what a module reaches is closed.
LEMMA ReachableIsClosed ==
  ASSUME requested \in [ModuleNames -> SUBSET ModuleNames], NEW m \in ModuleNames
  PROVE  /\ m \in Reachable(m)
         /\ Reachable(m) \subseteq ModuleNames
         /\ \A s \in Reachable(m) : requested[s] \subseteq Reachable(m)
BY DEF Reachable

\* inner_load visits the module it is called for, and follows every entry.
LEMMA VisitsFollowEntries ==
  ASSUME NEW l \in Loads, NEW m \in ModuleNames, NEW entries
  PROVE  LET fresh == ModuleNames \ (visited[l] \cup linked) IN
         /\ Visits(l, m, entries) \subseteq fresh
         /\ m \in fresh => m \in Visits(l, m, entries)
         /\ \A s \in Visits(l, m, entries) :
              requested[s] \cap entries[s] \cap fresh \subseteq Visits(l, m, entries)
<1> DEFINE fresh == ModuleNames \ (visited[l] \cup linked)
           IsClosed(S) == /\ {m} \cap fresh \subseteq S
                          /\ \A s \in S : requested[s] \cap entries[s] \cap fresh \subseteq S
<1> HIDE DEF fresh
<1>1. Visits(l, m, entries) = {x \in fresh : \A S \in SUBSET fresh : IsClosed(S) => x \in S}
  BY DEF Visits, fresh
<1>2. ASSUME m \in fresh PROVE m \in Visits(l, m, entries)
  BY <1>1, <1>2
<1>3. ASSUME NEW s \in Visits(l, m, entries), NEW x \in requested[s] \cap entries[s] \cap fresh
      PROVE  x \in Visits(l, m, entries)
  <2>1. ASSUME NEW S \in SUBSET fresh, IsClosed(S) PROVE x \in S
    BY <1>1, <1>3, <2>1
  <2> QED BY <1>1, <1>3, <2>1
<1> QED BY <1>1, <1>2, <1>3 DEF fresh

\* The sets of jobs are finite.
LEMMA JobsAreFinite ==
  ASSUME NEW J \in SUBSET Pairs
  PROVE  IsFiniteSet(J) /\ Cardinality(J) \in Nat
<1>1. IsFiniteSet(Pairs)
  BY LoadingAssumption, FS_Product DEF Pairs
<1> QED BY <1>1, FS_Subset, FS_CardinalityType

----------------------------------------------------------------------------
(* The heart of it: a call of inner_load keeps the invariant of its load.   *)
LEMMA InnerLoadKeeps ==
  ASSUME LoadingTypeOK, LinkedInv, NEW l \in Loads, NEW m \in ModuleNames,
         NEW entries \in [ModuleNames -> SUBSET ModuleNames],
         NEW before \in Nat, NEW outstanding \in SUBSET Pairs,
         before = Cardinality(outstanding) + 1,
         \A job \in outstanding : job[1] \in visited[l],
         \A s \in visited[l] : \A r \in requested[s] :
           <<s, r>> \in outstanding \/ (r \in entries[s] /\ r \in visited[l] \cup linked \cup {m}),
         loadRoot[l] \in visited[l] \cup linked \cup {m},
         InnerLoad(l, m, entries, before, outstanding),
         loadedModules' = entries, UNCHANGED <<requested, linked, loadRoot>>
  PROVE  /\ LoadInv(l)'
         /\ visited' \in [Loads -> SUBSET ModuleNames]
         /\ loadJobs' \in [Loads -> SUBSET Pairs]
         /\ pendingModules' \in [Loads -> Nat]
         /\ loading' \in [Loads -> BOOLEAN]
         /\ loadOutcome' \in [Loads -> {"none", "pending", "resolved", "rejected"}]
         /\ \A k \in Loads \ {l} :
              /\ visited'[k] = visited[k] /\ loadJobs'[k] = loadJobs[k]
              /\ pendingModules'[k] = pendingModules[k] /\ loading'[k] = loading[k]
              /\ loadOutcome'[k] = loadOutcome[k]
<1> DEFINE fresh  == ModuleNames \ (visited[l] \cup linked)
           visits == Visits(l, m, entries)
           out   == {job \in visits \X ModuleNames :
                       job[2] \in requested[job[1]] \ entries[job[1]]}
           left   == before - 1 + Cardinality(out)
<1>1. /\ visits \subseteq fresh
      /\ m \in fresh => m \in visits
      /\ \A s \in visits : requested[s] \cap entries[s] \cap fresh \subseteq visits
  BY VisitsFollowEntries
<1>2. /\ visited' = [visited EXCEPT ![l] = @ \cup visits]
      /\ loadJobs' = [loadJobs EXCEPT ![l] = outstanding \cup out]
      /\ pendingModules' = [pendingModules EXCEPT ![l] = left]
      /\ loading' = [loading EXCEPT ![l] = left # 0]
      /\ loadOutcome' = [loadOutcome EXCEPT ![l] = IF left = 0 THEN "resolved" ELSE "pending"]
  BY DEF InnerLoad
<1> HIDE DEF visits
<1>3. out \in SUBSET Pairs /\ \A job \in out : job[1] \in visits
  BY <1>1 DEF Pairs
<1>4. \A s \in visits : \A r \in requested[s] : r \in ModuleNames /\ (<<s, r>> \in out \/ r \in entries[s])
  BY <1>1 DEF LoadingTypeOK
<1> HIDE DEF out
<1>5. left = Cardinality(outstanding \cup out) /\ left \in Nat /\ (left = 0 <=> outstanding \cup out = {})
  <2>1. outstanding \cap out = {}
    BY <1>1, <1>3
  <2>2. /\ IsFiniteSet(outstanding) /\ Cardinality(outstanding) \in Nat
        /\ IsFiniteSet(out) /\ Cardinality(out) \in Nat
        /\ IsFiniteSet(outstanding \cup out) /\ Cardinality(outstanding \cup out) \in Nat
    BY <1>3, JobsAreFinite, outstanding \cup out \in SUBSET Pairs
  <2>3. Cardinality(outstanding \cup out) = Cardinality(outstanding) + Cardinality(out) - Cardinality({})
    BY <2>1, <2>2, FS_Union
  <2>4. Cardinality({}) = 0
    BY FS_EmptySet
  <2>5. left = Cardinality(outstanding \cup out)
    BY <2>2, <2>3, <2>4
  <2> QED BY <2>2, <2>5, FS_EmptySet
<1> HIDE DEF left
<1>6. /\ visited'[l] = visited[l] \cup visits
      /\ loadJobs'[l] = outstanding \cup out
      /\ pendingModules'[l] = left
      /\ loading'[l] = (left # 0)
      /\ loadOutcome'[l] = IF left = 0 THEN "resolved" ELSE "pending"
  BY <1>2 DEF LoadingTypeOK
<1>7. CoversVisited(visited[l] \cup visits, outstanding \cup out, entries)
  <2> SUFFICES ASSUME NEW s \in visited[l] \cup visits, NEW r \in requested[s],
                      <<s, r>> \notin outstanding \cup out
               PROVE  r \in entries[s] /\ r \in (visited[l] \cup visits) \cup linked
    BY DEF CoversVisited
  <2>1. CASE s \in visited[l]
    <3>1. r \in entries[s] /\ r \in visited[l] \cup linked \cup {m}
      BY <2>1
    <3>2. m \in fresh \/ m \in visited[l] \cup linked
      OBVIOUS
    <3> QED BY <1>1, <3>1, <3>2
  <2>2. CASE s \in visits
    <3>1. r \in ModuleNames /\ r \in entries[s]
      BY <1>4, <2>2
    <3>2. r \in fresh \/ r \in visited[l] \cup linked
      BY <3>1
    <3> QED BY <1>1, <2>2, <3>1, <3>2
  <2> QED BY <2>1, <2>2
<1>8. loadRoot[l] \in (visited[l] \cup visits) \cup linked
  BY <1>1
<1>9. LoadInv(l)'
  <2>1. (loading[l] <=> loadOutcome[l] = "pending")'
    BY <1>6
  <2>2. (loading[l] => pendingModules[l] = Cardinality(loadJobs[l]) /\ loadJobs[l] # {})'
    BY <1>5, <1>6
  <2>3. loadOutcome'[l] # "none"
    BY <1>6
  <2>4. loadOutcome'[l] = "resolved" => loadJobs'[l] = {}
    BY <1>5, <1>6
  <2>5. \A job \in loadJobs'[l] : job[1] \in visited'[l]
    BY <1>3, <1>6
  <2>6. CoversVisited(visited[l], loadJobs[l], loadedModules)'
    BY <1>6, <1>7 DEF CoversVisited
  <2>7. loadRoot'[l] \in visited'[l] \cup linked'
    BY <1>6, <1>8
  <2> QED BY <2>1, <2>2, <2>3, <2>4, <2>5, <2>6, <2>7 DEF LoadInv, Active
<1>10. /\ visited' \in [Loads -> SUBSET ModuleNames]
       /\ loadJobs' \in [Loads -> SUBSET Pairs]
       /\ pendingModules' \in [Loads -> Nat]
       /\ loading' \in [Loads -> BOOLEAN]
       /\ loadOutcome' \in [Loads -> {"none", "pending", "resolved", "rejected"}]
  BY <1>1, <1>2, <1>3, <1>5 DEF LoadingTypeOK, Pairs
<1>11. \A k \in Loads \ {l} :
         /\ visited'[k] = visited[k] /\ loadJobs'[k] = loadJobs[k]
         /\ pendingModules'[k] = pendingModules[k] /\ loading'[k] = loading[k]
         /\ loadOutcome'[k] = loadOutcome[k]
  BY <1>2 DEF LoadingTypeOK
<1> QED BY <1>9, <1>10, <1>11

\* Other loads do not mind more entries and more linked modules.
LEMMA OtherLoads ==
  ASSUME NEW k \in Loads, LoadInv(k),
         loadedModules \in [ModuleNames -> SUBSET ModuleNames],
         visited[k] \subseteq ModuleNames,
         \A s \in ModuleNames : loadedModules[s] \subseteq loadedModules'[s],
         linked \subseteq linked', UNCHANGED <<requested, loadRoot>>,
         /\ visited'[k] = visited[k] /\ loadJobs'[k] = loadJobs[k]
         /\ pendingModules'[k] = pendingModules[k] /\ loading'[k] = loading[k]
         /\ loadOutcome'[k] = loadOutcome[k]
  PROVE  LoadInv(k)'
<1>1. CoversVisited(visited[k], loadJobs[k], loadedModules) => CoversVisited(visited[k], loadJobs[k], loadedModules)'
  BY DEF CoversVisited
<1> QED BY <1>1 DEF LoadInv, Active

----------------------------------------------------------------------------
\* The invariant holds in the initial states.
LEMMA LoadingInitInv == LoadingInit => LoadingInv
<1> SUFFICES ASSUME LoadingInit PROVE LoadingInv
  OBVIOUS
<1>1. LoadingTypeOK
  BY LoadingAssumption DEF LoadingInit, LoadingTypeOK
<1>2. LinkedInv /\ \A l \in Loads : LoadInv(l)
  BY DEF LoadingInit, LinkedInv, LoadInv, Active
<1> QED BY <1>1, <1>2 DEF LoadingInv

\* A step of load l that calls inner_load.
LEMMA InnerLoadStep ==
  ASSUME LoadingInv, NEW l \in Loads, NEW m \in ModuleNames,
         NEW entries \in [ModuleNames -> SUBSET ModuleNames],
         NEW before \in Nat, NEW outstanding \in SUBSET Pairs,
         before = Cardinality(outstanding) + 1,
         \A s \in ModuleNames : loadedModules[s] \subseteq entries[s],
         \A job \in outstanding : job[1] \in visited[l],
         \A s \in visited[l] : \A r \in requested[s] :
           <<s, r>> \in outstanding \/ (r \in entries[s] /\ r \in visited[l] \cup linked \cup {m}),
         loadRoot[l] \in visited[l] \cup linked \cup {m},
         InnerLoad(l, m, entries, before, outstanding),
         loadedModules' = entries, UNCHANGED <<requested, linked, loadRoot>>
  PROVE  LoadingInv'
<1>1. LoadingTypeOK /\ LinkedInv /\ \A k \in Loads : LoadInv(k)
  BY DEF LoadingInv
<1>2. /\ LoadInv(l)'
      /\ visited' \in [Loads -> SUBSET ModuleNames]
      /\ loadJobs' \in [Loads -> SUBSET Pairs]
      /\ pendingModules' \in [Loads -> Nat]
      /\ loading' \in [Loads -> BOOLEAN]
      /\ loadOutcome' \in [Loads -> {"none", "pending", "resolved", "rejected"}]
      /\ \A k \in Loads \ {l} :
           /\ visited'[k] = visited[k] /\ loadJobs'[k] = loadJobs[k]
           /\ pendingModules'[k] = pendingModules[k] /\ loading'[k] = loading[k]
           /\ loadOutcome'[k] = loadOutcome[k]
  BY <1>1, InnerLoadKeeps
<1>3. \A k \in Loads \ {l} : LoadInv(k)'
  BY <1>1, <1>2, OtherLoads DEF LoadingTypeOK
<1>4. LoadingTypeOK'
  BY <1>1, <1>2 DEF LoadingTypeOK, Pairs
<1>5. LinkedInv'
  BY <1>1 DEF LinkedInv, LoadingTypeOK
<1> QED BY <1>2, <1>3, <1>4, <1>5 DEF LoadingInv

\* Every step preserves the invariant.
LEMMA LoadingNextInv == LoadingInv /\ [LoadingNext]_loadingVars => LoadingInv'
<1> SUFFICES ASSUME LoadingInv, [LoadingNext]_loadingVars PROVE LoadingInv'
  OBVIOUS
<1>t. LoadingTypeOK /\ LinkedInv /\ \A l \in Loads : LoadInv(l)
  BY DEF LoadingInv
<1>1. ASSUME NEW l \in Loads, Load(l) PROVE LoadingInv'
  <2>1. /\ visited[l] = {} /\ loadRoot[l] \in ModuleNames
        /\ loadedModules \in [ModuleNames -> SUBSET ModuleNames]
        /\ InnerLoad(l, loadRoot[l], loadedModules, 1, {})
        /\ loadedModules' = loadedModules /\ UNCHANGED <<requested, linked, loadRoot>>
    BY <1>t, <1>1 DEF Load, LoadInv, LoadingTypeOK
  <2>2. 1 = Cardinality({}) + 1 /\ 1 \in Nat
    BY FS_EmptySet
  <2> QED BY <2>1, <2>2, InnerLoadStep
<1>2. ASSUME NEW l \in Loads, NEW src \in ModuleNames, ContinueDynImport(l, src) PROVE LoadingInv'
  <2> DEFINE entries == [loadedModules EXCEPT ![src] = @ \cup {loadRoot[l]}]
  <2>1. /\ visited[l] = {} /\ loadRoot[l] \in ModuleNames
        /\ InnerLoad(l, loadRoot[l], entries, 1, {})
        /\ loadedModules' = entries /\ UNCHANGED <<requested, linked, loadRoot>>
    BY <1>t, <1>2 DEF ContinueDynImport, LoadInv, LoadingTypeOK
  <2>2. /\ entries \in [ModuleNames -> SUBSET ModuleNames]
        /\ \A s \in ModuleNames : loadedModules[s] \subseteq entries[s]
    BY <1>t, <2>1 DEF LoadingTypeOK
  <2>3. 1 = Cardinality({}) + 1 /\ 1 \in Nat
    BY FS_EmptySet
  <2> HIDE DEF entries
  <2> QED BY <2>1, <2>2, <2>3, InnerLoadStep
<1>3. ASSUME NEW l \in Loads, NEW src \in ModuleNames, NEW m \in ModuleNames,
             FinishLoading(l, src, m)
      PROVE  LoadingInv'
  <2> DEFINE entries == [loadedModules EXCEPT ![src] = @ \cup {m}]
             outstanding == loadJobs[l] \ {<<src, m>>}
  <2>1. /\ entries \in [ModuleNames -> SUBSET ModuleNames]
        /\ \A s \in ModuleNames : loadedModules[s] \subseteq entries[s]
        /\ m \in entries[src]
        /\ <<src, m>> \in loadJobs[l] /\ loadedModules' = entries
        /\ UNCHANGED <<requested, linked, loadRoot>>
    BY <1>t, <1>3 DEF FinishLoading, LoadingTypeOK
  <2>2. CASE loading[l]
    <3>1. /\ InnerLoad(l, m, entries, pendingModules[l], outstanding)
          /\ loadOutcome[l] = "pending" /\ pendingModules[l] = Cardinality(loadJobs[l])
          /\ CoversVisited(visited[l], loadJobs[l], loadedModules)
          /\ loadRoot[l] \in visited[l] \cup linked
          /\ \A job \in loadJobs[l] : job[1] \in visited[l]
      BY <1>t, <1>3, <2>2 DEF FinishLoading, LoadInv, Active
    <3>2. /\ outstanding \in SUBSET Pairs /\ pendingModules[l] \in Nat
          /\ pendingModules[l] = Cardinality(outstanding) + 1
      <4>1. loadJobs[l] \in SUBSET Pairs
        BY <1>t DEF LoadingTypeOK, Pairs
      <4>2. IsFiniteSet(loadJobs[l]) /\ Cardinality(loadJobs[l]) \in Nat
        BY <4>1, JobsAreFinite
      <4>3. Cardinality(outstanding) = Cardinality(loadJobs[l]) - 1
        BY <2>1, <4>2, FS_RemoveElement
      <4> QED BY <3>1, <4>1, <4>2, <4>3
    <3>3. \A s \in visited[l] : \A r \in requested[s] :
            <<s, r>> \in outstanding \/ (r \in entries[s] /\ r \in visited[l] \cup linked \cup {m})
      <4> TAKE s \in visited[l]
      <4> TAKE r \in requested[s]
      <4>1. s \in ModuleNames
        BY <1>t DEF LoadingTypeOK
      <4>2. CASE <<s, r>> = <<src, m>>
        BY <2>1, <4>2
      <4>3. CASE <<s, r>> # <<src, m>>
        BY <2>1, <3>1, <4>1, <4>3 DEF CoversVisited
      <4> QED BY <4>2, <4>3
    <3>4. \A job \in outstanding : job[1] \in visited[l]
      BY <3>1
    <3> HIDE DEF entries, outstanding
    <3> QED BY <2>1, <3>1, <3>2, <3>3, <3>4, InnerLoadStep
  <2>3. CASE ~loading[l]
    <3>1. /\ loadJobs' = [loadJobs EXCEPT ![l] = @ \ {<<src, m>>}]
          /\ UNCHANGED <<loading, visited, pendingModules, loadOutcome>>
      BY <1>3, <2>3 DEF FinishLoading
    <3>2. LoadingTypeOK'
      BY <1>t, <2>1, <3>1 DEF LoadingTypeOK
    <3>3. LinkedInv'
      BY <1>t, <2>1 DEF LinkedInv, LoadingTypeOK
    <3>4. LoadInv(l)'
      <4>1. loadJobs'[l] \subseteq loadJobs[l] /\ loadOutcome[l] \notin {"pending", "resolved", "none"}
        BY <1>t, <2>1, <2>3, <3>1 DEF LoadInv, LoadingTypeOK
      <4> QED BY <1>t, <2>3, <3>1, <4>1 DEF LoadInv, Active
    <3>5. ASSUME NEW k \in Loads \ {l} PROVE LoadInv(k)'
      <4>1. loadJobs'[k] = loadJobs[k]
        BY <1>t, <3>1 DEF LoadingTypeOK
      <4> QED BY <1>t, <2>1, <3>1, <4>1, OtherLoads DEF LoadingTypeOK
    <3> QED BY <3>2, <3>3, <3>4, <3>5 DEF LoadingInv
  <2> QED BY <2>2, <2>3
<1>4. ASSUME NEW l \in Loads, NEW src \in ModuleNames, NEW m \in ModuleNames,
             FailLoading(l, src, m)
      PROVE  LoadingInv'
  <2>1. /\ <<src, m>> \in loadJobs[l]
        /\ loadJobs' = [loadJobs EXCEPT ![l] = @ \ {<<src, m>>}]
        /\ loading' = [loading EXCEPT ![l] = FALSE]
        /\ loadOutcome' = [loadOutcome EXCEPT ![l] = IF loading[l] THEN "rejected" ELSE @]
        /\ UNCHANGED <<requested, loadedModules, linked, loadRoot, visited, pendingModules>>
    BY <1>4 DEF FailLoading
  <2>2. LoadingTypeOK'
    BY <1>t, <2>1 DEF LoadingTypeOK
  <2>3. LinkedInv'
    BY <1>t, <2>1 DEF LinkedInv
  <2>4. loadOutcome'[l] = "rejected" /\ ~loading'[l] /\ loadJobs'[l] \subseteq loadJobs[l]
    <3>1. loadOutcome[l] \notin {"none", "resolved"}
      BY <1>t, <2>1 DEF LoadInv
    <3>2. loadOutcome[l] \in {"pending", "rejected"} /\ (loading[l] <=> loadOutcome[l] = "pending")
      BY <1>t, <3>1 DEF LoadInv, LoadingTypeOK
    <3> QED BY <1>t, <2>1, <3>2 DEF LoadingTypeOK
  <2>5. LoadInv(l)'
    BY <1>t, <2>1, <2>4 DEF LoadInv, Active
  <2>6. ASSUME NEW k \in Loads \ {l} PROVE LoadInv(k)'
    <3>1. /\ loadJobs'[k] = loadJobs[k] /\ loading'[k] = loading[k]
          /\ loadOutcome'[k] = loadOutcome[k]
      BY <1>t, <2>1 DEF LoadingTypeOK
    <3> QED BY <1>t, <2>1, <3>1, OtherLoads DEF LoadingTypeOK
  <2> QED BY <2>2, <2>3, <2>5, <2>6 DEF LoadingInv
<1>5. ASSUME NEW l \in Loads, LinkLoaded(l) PROVE LoadingInv'
  <2>1. /\ loadOutcome[l] = "resolved" /\ loadRoot[l] \in ModuleNames
        /\ linked' = linked \cup Reachable(loadRoot[l])
        /\ UNCHANGED <<requested, loadedModules, loadRoot, loading, visited, pendingModules, loadJobs, loadOutcome>>
    BY <1>t, <1>5 DEF LinkLoaded, LoadingTypeOK
  <2>2. /\ Reachable(loadRoot[l]) \subseteq ModuleNames
        /\ \A s \in Reachable(loadRoot[l]) : requested[s] \subseteq Reachable(loadRoot[l])
    BY <1>t, <2>1, ReachableIsClosed DEF LoadingTypeOK
  <2>3. \A s \in Reachable(loadRoot[l]) : requested[s] \subseteq loadedModules[s]
    <3>1. /\ loadJobs[l] = {} /\ CoversVisited(visited[l], {}, loadedModules)
          /\ loadRoot[l] \in visited[l] \cup linked
      BY <1>t, <2>1 DEF LoadInv, Active
    <3>2. \A s \in visited[l] \cup linked : requested[s] \subseteq visited[l] \cup linked
      BY <1>t, <3>1 DEF CoversVisited, LinkedInv
    <3>3. Reachable(loadRoot[l]) \subseteq visited[l] \cup linked
      <4>1. loadRoot[l] \in ModuleNames /\ visited[l] \cup linked \in SUBSET ModuleNames
        BY <1>t, <2>1 DEF LoadingTypeOK
      <4> QED BY <3>1, <3>2, <4>1, ReachableInClosed
    <3> QED BY <1>t, <3>1, <3>3 DEF CoversVisited, LinkedInv
  <2>4. LoadingTypeOK'
    BY <1>t, <2>1, <2>2 DEF LoadingTypeOK
  <2>5. LinkedInv'
    BY <1>t, <2>1, <2>2, <2>3 DEF LinkedInv
  <2>6. ASSUME NEW k \in Loads PROVE LoadInv(k)'
    BY <1>t, <2>1, OtherLoads DEF LoadingTypeOK
  <2> QED BY <2>4, <2>5, <2>6 DEF LoadingInv
<1>6. CASE UNCHANGED loadingVars
  BY <1>t, <1>6
  DEF loadingVars, LoadingInv, LoadingTypeOK, LinkedInv, LoadInv, Active, CoversVisited
<1> QED BY <1>1, <1>2, <1>3, <1>4, <1>5, <1>6 DEF LoadingNext, Answered

\* The invariant holds.
THEOREM LoadingInvHolds == LoadingSpec => []LoadingInv
<1> QED BY LoadingInitInv, LoadingNextInv, PTL DEF LoadingSpec

----------------------------------------------------------------------------
(* A load's promise is fulfilled only when all that its root reaches has    *)
(* been loaded, and linked modules stay complete: inner_load and             *)
(* finish_loading_imported_module, whatever other loads do.                 *)
THEOREM LoadsAreComplete == LoadingSpec => []LoadedIsComplete
<1>1. ASSUME LoadingInv PROVE LoadedIsComplete
  <2>t. LoadingTypeOK /\ LinkedInv /\ \A l \in Loads : LoadInv(l)
    BY <1>1 DEF LoadingInv
  <2>1. ASSUME NEW m \in linked PROVE \A s \in Reachable(m) : requested[s] \subseteq loadedModules[s]
    <3>1. Reachable(m) \subseteq linked
      BY <2>t, ReachableInClosed DEF LoadingTypeOK, LinkedInv
    <3> QED BY <2>t, <3>1 DEF LinkedInv
  <2>2. ASSUME NEW l \in Loads, loadOutcome[l] = "resolved"
        PROVE  \A s \in Reachable(loadRoot[l]) : requested[s] \subseteq loadedModules[s]
    <3>1. /\ loadJobs[l] = {} /\ CoversVisited(visited[l], {}, loadedModules)
          /\ loadRoot[l] \in visited[l] \cup linked
      BY <2>t, <2>2 DEF LoadInv, Active
    <3>2. \A s \in visited[l] \cup linked : requested[s] \subseteq visited[l] \cup linked
      BY <2>t, <3>1 DEF CoversVisited, LinkedInv
    <3>3. Reachable(loadRoot[l]) \subseteq visited[l] \cup linked
      <4>1. loadRoot[l] \in ModuleNames /\ visited[l] \cup linked \in SUBSET ModuleNames
        BY <2>t, <2>2 DEF LoadingTypeOK
      <4> QED BY <3>1, <3>2, <4>1, ReachableInClosed
    <3> QED BY <2>t, <3>1, <3>3 DEF CoversVisited, LinkedInv
  <2> QED BY <2>1, <2>2 DEF LoadedIsComplete
<1> QED BY <1>1, LoadingInvHolds, PTL

(* The counter of a load is the number of answers the loader still owes it, *)
(* and while its promise is pending there is one: no load waits for nothing. *)
THEOREM LoadsWaitForAnswers == LoadingSpec => []PendingAnswers
<1>1. ASSUME LoadingInv PROVE PendingAnswers
  <2> SUFFICES ASSUME NEW l \in Loads
               PROVE  /\ loading[l] => pendingModules[l] = Cardinality(loadJobs[l]) /\ pendingModules[l] > 0
                      /\ loading[l] <=> loadOutcome[l] = "pending"
    BY DEF PendingAnswers
  <2>1. LoadingTypeOK /\ LoadInv(l)
    BY <1>1 DEF LoadingInv
  <2>2. loadJobs[l] \in SUBSET Pairs
    BY <2>1 DEF LoadingTypeOK, Pairs
  <2>3. IsFiniteSet(loadJobs[l]) /\ Cardinality(loadJobs[l]) \in Nat
    BY <2>2, JobsAreFinite
  <2>4. loadJobs[l] # {} => Cardinality(loadJobs[l]) # 0
    BY <2>3, FS_EmptySet
  <2> QED BY <2>1, <2>3, <2>4 DEF LoadInv
<1> QED BY <1>1, LoadingInvHolds, PTL

(* How a load comes to an end: what it has not visited, and what the loader *)
(* still owes it.                                                           *)
Unvisited(l)   == Cardinality(ModuleNames \ visited[l])
Outstanding(l) == Cardinality(loadJobs[l])

\* More is visited; or nothing is, and one answer less is outstanding.
LoadCloser(l) ==
  \/ Unvisited(l)' < Unvisited(l)
  \/ Unvisited(l)' = Unvisited(l) /\ Outstanding(l)' < Outstanding(l)

\* Each answer brings a load closer to its end, nothing throws it back, and its
\* promise is settled once.
Advances(l) ==
  /\ Answered(l) => LoadCloser(l)
  /\ LoadCloser(l) \/ (visited'[l] = visited[l] /\ loadJobs'[l] = loadJobs[l])
  /\ loadOutcome[l] # "pending" => loadOutcome'[l] = loadOutcome[l]

LoadsAdvance == [][\A l \in Loads : loadOutcome[l] # "none" => Advances(l)]_loadingVars

\* A load whose promise is pending has an answer to come, and what it counts down
\* are natural numbers.
AnswersAreDue ==
  \A l \in Loads :
    /\ {Unvisited(l), Outstanding(l)} \subseteq Nat
    /\ loadOutcome[l] = "pending" => \E src, m \in ModuleNames : <<src, m>> \in loadJobs[l]

\* An answer to a load visits new modules, or is only taken off the list.
LEMMA AnswerIsCloser ==
  ASSUME LoadingInv, NEW l \in Loads, Answered(l)
  PROVE  /\ LoadCloser(l)
         /\ loadOutcome[l] # "pending" => loadOutcome' = loadOutcome
         /\ \A k \in Loads \ {l} : /\ visited'[k] = visited[k] /\ loadJobs'[k] = loadJobs[k]
                                   /\ loadOutcome'[k] = loadOutcome[k]
<1>t. LoadingTypeOK /\ LoadInv(l)
  BY DEF LoadingInv
<1>1. PICK src \in ModuleNames, m \in ModuleNames : FinishLoading(l, src, m) \/ FailLoading(l, src, m)
  BY DEF Answered
<1>2. /\ <<src, m>> \in loadJobs[l] /\ loadJobs[l] \in SUBSET Pairs /\ visited[l] \subseteq ModuleNames
      /\ visited \in [Loads -> SUBSET ModuleNames] /\ loadJobs \in [Loads -> SUBSET Pairs]
      /\ loadOutcome = [k \in Loads |-> loadOutcome[k]]
      /\ loading[l] <=> loadOutcome[l] = "pending"
  BY <1>t, <1>1 DEF FinishLoading, FailLoading, LoadingTypeOK, LoadInv, Pairs
<1> DEFINE rest == loadJobs[l] \ {<<src, m>>}
<1>3. Cardinality(rest) < Outstanding(l)
  <2>1. IsFiniteSet(loadJobs[l]) /\ Cardinality(loadJobs[l]) \in Nat
    BY <1>2, JobsAreFinite
  <2>2. Cardinality(rest) = Cardinality(loadJobs[l]) - 1
    <3>1. <<src, m>> \in loadJobs[l]
      BY <1>2
    <3> QED BY <2>1, <3>1, FS_RemoveElement
  <2> HIDE DEF rest
  <2> QED BY <2>1, <2>2 DEF Outstanding
<1>4. CASE FailLoading(l, src, m) \/ (FinishLoading(l, src, m) /\ ~loading[l])
  <2>1. /\ loadJobs' = [loadJobs EXCEPT ![l] = rest] /\ visited' = visited
        /\ loadOutcome' = [loadOutcome EXCEPT ![l] = IF loading[l] THEN "rejected" ELSE @]
    BY <1>2, <1>4 DEF FinishLoading, FailLoading
  <2>2. Unvisited(l)' = Unvisited(l) /\ Outstanding(l)' < Outstanding(l)
    BY <1>2, <1>3, <2>1 DEF Unvisited, Outstanding
  <2> QED BY <1>2, <2>1, <2>2 DEF LoadCloser
<1>5. CASE FinishLoading(l, src, m) /\ loading[l]
  <2> DEFINE entries == [loadedModules EXCEPT ![src] = @ \cup {m}]
             visits == Visits(l, m, entries)
             owed == {job \in visits \X ModuleNames : job[2] \in requested[job[1]] \ entries[job[1]]}
  <2>1. InnerLoad(l, m, entries, pendingModules[l], rest)
    BY <1>5 DEF FinishLoading
  <2>2. visits \subseteq ModuleNames \ (visited[l] \cup linked)
    BY VisitsFollowEntries
  <2>3. /\ visited' = [visited EXCEPT ![l] = @ \cup visits]
        /\ loadJobs' = [loadJobs EXCEPT ![l] = rest \cup owed]
        /\ \A k \in Loads \ {l} : loadOutcome'[k] = loadOutcome[k]
    <3> HIDE DEF entries, rest
    <3> QED BY <1>2, <2>1 DEF InnerLoad
  <2> HIDE DEF visits, rest
  <2>4. CASE visits = {}
    <3>1. visited'[l] = visited[l] /\ loadJobs'[l] = rest
      BY <1>2, <2>3, <2>4
    <3> QED BY <1>2, <1>3, <1>5, <2>3, <3>1 DEF LoadCloser, Unvisited, Outstanding
  <2>5. CASE visits # {}
    <3>1. /\ visited'[l] = visited[l] \cup visits /\ IsFiniteSet(ModuleNames \ visited[l])
          /\ ModuleNames \ visited'[l] \subseteq ModuleNames \ visited[l]
          /\ ModuleNames \ visited'[l] # ModuleNames \ visited[l]
      BY <1>2, <2>2, <2>3, <2>5, LoadingAssumption, FS_Subset
    <3>2. Unvisited(l)' < Unvisited(l)
      <4> DEFINE before == ModuleNames \ visited[l]
                 after == ModuleNames \ visited'[l]
      <4>1. Unvisited(l) = Cardinality(before) /\ Unvisited(l)' = Cardinality(after)
        BY DEF Unvisited
      <4>2. after \subseteq before /\ after # before /\ IsFiniteSet(before)
        BY <3>1
      <4> HIDE DEF before, after
      <4> QED BY <4>1, <4>2, FS_Subset, FS_CardinalityType
    <3> QED BY <1>2, <1>5, <2>3, <3>2 DEF LoadCloser
  <2> QED BY <2>4, <2>5
<1> QED BY <1>1, <1>4, <1>5

(* Every answer of the loader brings the end of its load closer, in the lexicographic *)
(* order of what is not visited and what is owed: inner_load visits a module   *)
(* once, and a cycle of imports, or entries that other loads record meanwhile, *)
(* never start it again.  And a load that is pending has an answer to come, *)
(* so that it ends if the loader answers.                                   *)
THEOREM LoadsComeToAnEnd == LoadingSpec => []AnswersAreDue /\ LoadsAdvance
<1>1. ASSUME LoadingInv, [LoadingNext]_loadingVars
      PROVE  [\A l \in Loads : loadOutcome[l] # "none" => Advances(l)]_loadingVars
  <2> SUFFICES ASSUME LoadingNext, NEW l \in Loads, loadOutcome[l] # "none" PROVE Advances(l)
    BY <1>1
  <2>t. LoadingTypeOK
    BY <1>1 DEF LoadingInv
  <2>1. Answered(l) => LoadCloser(l)
    BY <1>1, AnswerIsCloser
  <2>2. CASE \E k \in Loads : Answered(k)
    <3>1. PICK k \in Loads : Answered(k)
      BY <2>2
    <3>2. CASE k = l
      BY <1>1, <2>1, <3>1, <3>2, AnswerIsCloser DEF Advances
    <3>3. CASE k # l
      BY <1>1, <2>1, <3>1, <3>3, AnswerIsCloser DEF Advances
    <3> QED BY <3>2, <3>3
  <2>3. CASE \E k \in Loads : Load(k) \/ \E src \in ModuleNames : ContinueDynImport(k, src)
    <3>1. PICK k \in Loads : Load(k) \/ \E src \in ModuleNames : ContinueDynImport(k, src)
      BY <2>3
    <3>2. k # l /\ \E entries : InnerLoad(k, loadRoot[k], entries, 1, {})
      BY <3>1 DEF Load, ContinueDynImport
    <3>3. visited'[l] = visited[l] /\ loadJobs'[l] = loadJobs[l] /\ loadOutcome'[l] = loadOutcome[l]
      BY <2>t, <3>2 DEF InnerLoad, LoadingTypeOK
    <3> QED BY <2>1, <3>3 DEF Advances
  <2>4. CASE \E k \in Loads : LinkLoaded(k)
    <3>1. UNCHANGED <<visited, loadJobs, loadOutcome>>
      BY <2>4 DEF LinkLoaded
    <3> QED BY <2>1, <3>1 DEF Advances
  <2> QED BY <2>2, <2>3, <2>4 DEF LoadingNext
<1>2. ASSUME LoadingInv PROVE AnswersAreDue
  <2> SUFFICES ASSUME NEW l \in Loads
               PROVE  /\ {Unvisited(l), Outstanding(l)} \subseteq Nat
                      /\ loadOutcome[l] = "pending" => \E src, m \in ModuleNames : <<src, m>> \in loadJobs[l]
    BY DEF AnswersAreDue
  <2>1. LoadingTypeOK /\ LoadInv(l)
    BY <1>2 DEF LoadingInv
  <2>2. loadJobs[l] \in SUBSET Pairs
    BY <2>1 DEF LoadingTypeOK, Pairs
  <2>3. {Unvisited(l), Outstanding(l)} \subseteq Nat
    <3>1. IsFiniteSet(ModuleNames \ visited[l])
      BY LoadingAssumption, FS_Subset
    <3> QED BY <2>2, <3>1, JobsAreFinite, FS_CardinalityType DEF Unvisited, Outstanding
  <2>4. loadOutcome[l] = "pending" => loadJobs[l] # {}
    BY <2>1 DEF LoadInv
  <2> QED BY <2>2, <2>3, <2>4 DEF Pairs
<1> QED BY <1>1, <1>2, LoadingInvHolds, PTL DEF LoadingSpec, LoadsAdvance

----------------------------------------------------------------------------
(* FinalizationRegistries: lists of cells.                                  *)

CellRecords == [id : Nat, target : Targets, token : Tokens \cup {NoToken}]

IdsOf(s) == {s[i].id : i \in 1..Len(s)}

\* Cells with different ids.
Distinct(s) == s \in Seq(CellRecords) /\ \A i, j \in 1..Len(s) : s[i].id = s[j].id => i = j

\* What swap_remove makes of a list.
LEMMA SwapRemoveFacts ==
  ASSUME NEW E, NEW s \in Seq(E), NEW i \in 1..Len(s), NEW t, t = SwapRemove(s, i)
  PROVE  /\ t \in Seq(E) /\ Len(t) = Len(s) - 1
         /\ \A j \in 1..Len(t) : t[j] = IF j = i THEN s[Len(s)] ELSE s[j]
<1>1. Len(s) \in Nat /\ i \in Nat /\ 1 <= i /\ i <= Len(s) /\ DOMAIN s = 1..Len(s)
  BY LenProperties
<1>2. \A j \in 1..Len(s) : s[j] \in E
  BY ElementOfSeq
<1>3. PICK u, n : u = [s EXCEPT ![i] = s[Len(s)]] /\ n = Len(s)
  OBVIOUS
<1>4. n \in Nat /\ n >= 1 /\ n \in 1..n
  BY <1>1, <1>3
<1>5. \A j \in 1..n : u[j] \in E /\ u[j] = IF j = i THEN s[n] ELSE s[j]
  BY <1>1, <1>2, <1>3, <1>4
<1>6. u \in Seq(E) /\ Len(u) = n
  BY <1>1, <1>3, <1>4, <1>2, ExceptSeq
<1>7. t = SubSeq(u, 1, n - 1)
  BY <1>3 DEF SwapRemove
<1>8. /\ t \in Seq(E) /\ Len(t) = IF 1 <= n - 1 THEN (n - 1) - 1 + 1 ELSE 0
      /\ \A j \in 1..((n - 1) - 1 + 1) : t[j] = u[1 + j - 1]
  <2>1. n - 1 \in Int /\ 1 \in Int /\ \A j \in 1..n - 1 : u[j] \in E
    BY <1>4, <1>5
  <2> QED BY <1>6, <1>7, <2>1, SubSeqProperties
<1>9. Len(t) = n - 1 /\ (n - 1) - 1 + 1 = n - 1 /\ \A j \in 1..n - 1 : 1 + j - 1 = j /\ j \in 1..n
  BY <1>4, <1>8
<1> QED BY <1>3, <1>5, <1>8, <1>9

\* Of the cells of s all but the one at i stay, one of them in its place.
AllButOne(s, i, t) ==
  /\ Len(t) = Len(s) - 1
  /\ \A j \in 1..Len(t) : j # i => t[j] = s[j]
  /\ \A j \in 1..Len(t) : \E k \in 1..Len(s) : k # i /\ t[j] = s[k]
  /\ \A k \in 1..Len(s) : k # i => \E j \in 1..Len(t) : t[j] = s[k]

\* swap_remove leaves them so, and distinct.
LEMMA SwapRemoves ==
  ASSUME NEW s, Distinct(s), NEW i \in 1..Len(s), NEW t, t = SwapRemove(s, i)
  PROVE  Distinct(t) /\ AllButOne(s, i, t)
<1>1. /\ t \in Seq(CellRecords) /\ Len(t) = Len(s) - 1
      /\ \A j \in 1..Len(t) : t[j] = IF j = i THEN s[Len(s)] ELSE s[j]
  BY SwapRemoveFacts DEF Distinct
<1>2. PICK n : n = Len(s) /\ n \in Nat /\ i \in 1..n
  BY LenProperties DEF Distinct
<1>3. \A j \in 1..Len(t) : j \in 1..n /\ j # n /\ n \in 1..n
  BY <1>1, <1>2
<1>4. \A j \in 1..Len(t) : \E k \in 1..n : k # i /\ t[j] = s[k] /\ (j = i => k = n) /\ (j # i => k = j)
  <2> SUFFICES ASSUME NEW j \in 1..Len(t)
               PROVE  \E k \in 1..n : k # i /\ t[j] = s[k] /\ (j = i => k = n) /\ (j # i => k = j)
    OBVIOUS
  <2>1. CASE j = i
    BY <1>1, <1>2, <1>3, <2>1
  <2>2. CASE j # i
    BY <1>1, <1>2, <1>3, <2>2
  <2> QED BY <2>1, <2>2
<1>5. \A k \in 1..n : k # i => \E j \in 1..Len(t) : t[j] = s[k]
  <2> SUFFICES ASSUME NEW k \in 1..n, k # i PROVE \E j \in 1..Len(t) : t[j] = s[k]
    OBVIOUS
  <2>1. CASE k = n
    <3>1. i \in 1..Len(t) /\ t[i] = s[k]
      BY <1>1, <1>2, <2>1
    <3> QED BY <3>1
  <2>2. CASE k # n
    <3>1. k \in 1..Len(t) /\ t[k] = s[k]
      BY <1>1, <1>2, <2>2
    <3> QED BY <3>1
  <2> QED BY <2>1, <2>2
<1>6. \A k, l \in 1..n : s[k].id = s[l].id => k = l
  BY <1>2 DEF Distinct
<1>7. \A j, k \in 1..Len(t) : t[j].id = t[k].id => j = k
  <2> SUFFICES ASSUME NEW j \in 1..Len(t), NEW k \in 1..Len(t), t[j].id = t[k].id PROVE j = k
    OBVIOUS
  <2>1. PICK p \in 1..n : t[j] = s[p] /\ (j = i => p = n) /\ (j # i => p = j)
    BY <1>4
  <2>2. PICK q \in 1..n : t[k] = s[q] /\ (k = i => q = n) /\ (k # i => q = k)
    BY <1>4
  <2>3. p = q
    BY <1>6, <2>1, <2>2
  <2> QED BY <1>3, <2>1, <2>2, <2>3
<1>8. \A j \in 1..Len(t) : j # i => t[j] = s[j]
  BY <1>1
<1>9. Distinct(t)
  BY ONLY <1>1, <1>7 DEF Distinct
<1> QED BY ONLY <1>1, <1>2, <1>4, <1>5, <1>8, <1>9 DEF AllButOne

\* The id of the removed cell goes with it.
LEMMA IdRemoved ==
  ASSUME NEW s, Distinct(s), NEW i \in 1..Len(s), NEW t, t = SwapRemove(s, i)
  PROVE  IdsOf(t) = IdsOf(s) \ {s[i].id}
<1>0. /\ \A j \in 1..Len(t) : \E k \in 1..Len(s) : k # i /\ t[j] = s[k]
      /\ \A k \in 1..Len(s) : k # i => \E j \in 1..Len(t) : t[j] = s[k]
      /\ \A k, l \in 1..Len(s) : s[k].id = s[l].id => k = l
  <2>1. /\ \A j \in 1..Len(t) : \E k \in 1..Len(s) : k # i /\ t[j] = s[k]
        /\ \A k \in 1..Len(s) : k # i => \E j \in 1..Len(t) : t[j] = s[k]
    <3>1. AllButOne(s, i, t)
      BY SwapRemoves
    <3> QED BY ONLY <3>1 DEF AllButOne
  <2> QED BY <2>1 DEF Distinct
<1>1. ASSUME NEW x \in IdsOf(t) PROVE x \in IdsOf(s) \ {s[i].id}
  <2>1. PICK j \in 1..Len(t) : x = t[j].id
    BY <1>1 DEF IdsOf
  <2>2. PICK k \in 1..Len(s) : k # i /\ t[j] = s[k]
    BY <1>0
  <2>3. x = s[k].id /\ x # s[i].id
    BY <1>0, <2>1, <2>2
  <2> QED BY <2>3 DEF IdsOf
<1>2. ASSUME NEW x \in IdsOf(s) \ {s[i].id} PROVE x \in IdsOf(t)
  <2>1. PICK k \in 1..Len(s) : x = s[k].id /\ k # i
    BY <1>2 DEF IdsOf
  <2>2. PICK j \in 1..Len(t) : t[j] = s[k]
    BY <1>0, <2>1
  <2> QED BY <2>1, <2>2 DEF IdsOf
<1> QED BY <1>1, <1>2

\* A cell is registered.
LEMMA CellAppended ==
  ASSUME NEW s, Distinct(s), NEW cell \in CellRecords, cell.id \notin IdsOf(s),
         NEW t, t = Append(s, cell)
  PROVE  Distinct(t) /\ IdsOf(t) = IdsOf(s) \cup {cell.id}
<1>1. /\ s \in Seq(CellRecords) /\ Len(s) \in Nat
      /\ \A i, j \in 1..Len(s) : s[i].id = s[j].id => i = j
  BY LenProperties DEF Distinct
<1>2. /\ t \in Seq(CellRecords) /\ Len(t) = Len(s) + 1
      /\ \A i \in 1..Len(s) : t[i] = s[i] /\ t[i].id # cell.id
      /\ t[Len(s) + 1] = cell
  BY <1>1, AppendProperties DEF IdsOf
<1>3. \A i \in 1..Len(t) : i \in 1..Len(s) \/ i = Len(s) + 1
  BY <1>1, <1>2
<1>4. Len(s) + 1 \in 1..Len(t) /\ \A i \in 1..Len(s) : i \in 1..Len(t)
  BY <1>1, <1>2
<1>5. \A i, j \in 1..Len(t) : t[i].id = t[j].id => i = j
  BY <1>1, <1>2, <1>3
<1>6. IdsOf(t) = IdsOf(s) \cup {cell.id}
  <2>1. ASSUME NEW x \in IdsOf(t) PROVE x \in IdsOf(s) \cup {cell.id}
    <3>1. PICK i \in 1..Len(t) : x = t[i].id
      BY <2>1 DEF IdsOf
    <3> QED BY <1>2, <1>3, <3>1 DEF IdsOf
  <2>2. ASSUME NEW x \in IdsOf(s) PROVE x \in IdsOf(t)
    BY <1>2, <1>4, <2>2 DEF IdsOf
  <2>3. cell.id \in IdsOf(t)
    BY <1>2, <1>4 DEF IdsOf
  <2> QED BY <2>1, <2>2, <2>3
<1> QED BY <1>2, <1>5, <1>6 DEF Distinct

Different(f, n) == \A i, j \in 1..n : f[i] = f[j] => i = j

\* Different things are as many as their sequence is long.
LEMMA AsManyAsLong ==
  ASSUME NEW n \in Nat, NEW f, Different(f, n)
  PROVE  Cardinality({f[i] : i \in 1..n}) = n
<1>1. PICK S, T, g : S = 1..n /\ T = {f[i] : i \in 1..n} /\ g = [i \in 1..n |-> f[i]]
  OBVIOUS
<1>2. g \in [S -> T] /\ (\A i, j \in S : g[i] = g[j] => i = j) /\ \A x \in T : \E i \in S : g[i] = x
  BY <1>1 DEF Different
<1>3. g \in Surjection(S, T) /\ g \in Injection(S, T)
  BY <1>2 DEF Surjection, Injection, IsInjective
<1>4. IsFiniteSet(S) /\ Cardinality(S) = n
  BY <1>1, FS_Interval
<1>5. IsFiniteSet(T)
  BY <1>3, <1>4, FS_Surjection
<1>6. Cardinality(S) = Cardinality(T) <=> g \in Surjection(S, T)
  BY <1>3, <1>5, FS_Injection
<1> QED BY <1>1, <1>3, <1>4, <1>6

----------------------------------------------------------------------------
(* FinalizationRegistries: the loop of unregister.                          *)

\* The recursion in Unregistering, over N turns of the loop.
TurnStep(cs, token, f, n) ==
  IF n = 0 THEN [i |-> 1, cells |-> cs]
  ELSE LET so == f[n - 1] IN
       IF so.cells[so.i].token = token
       THEN [so EXCEPT !.cells = SwapRemove(so.cells, so.i)]
       ELSE [so EXCEPT !.i = so.i + 1]

Turns(cs, token, N, f) == f = [n \in 0..N |-> TurnStep(cs, token, f, n)]

\* It has a solution.
LEMMA TurnRecursion ==
  ASSUME NEW cs, NEW token, NEW N \in Nat
  PROVE  \E f : Turns(cs, token, N, f)
<1> DEFINE X == {m \in Nat : \E f : Turns(cs, token, m, f)}
<1>1. 0 \in X
  <2> DEFINE f == [n \in 0..0 |-> [i |-> 1, cells |-> cs]]
  <2>1. Turns(cs, token, 0, f)
    BY DEF Turns, TurnStep
  <2> QED BY <2>1
<1>2. ASSUME NEW m \in Nat, m \in X PROVE m + 1 \in X
  <2>1. PICK f : Turns(cs, token, m, f)
    BY <1>2
  <2> DEFINE g == [n \in 0..m + 1 |-> IF n = m + 1 THEN TurnStep(cs, token, f, n) ELSE f[n]]
  <2>2. \A n \in 0..m + 1 : n # 0 => n - 1 \in 0..m /\ n - 1 \in 0..m + 1 /\ n - 1 # m + 1
    BY <1>2
  <2>3. \A n \in 0..m + 1 : n # 0 => g[n - 1] = f[n - 1]
    BY <2>2
  <2>4. \A n \in 0..m + 1 : n # m + 1 => n \in 0..m
    BY <1>2
  <2>5. \A n \in 0..m : f[n] = TurnStep(cs, token, f, n)
    BY <2>1 DEF Turns
  <2>6. \A n \in 0..m + 1 : g[n] = TurnStep(cs, token, g, n)
    BY <2>3, <2>4, <2>5 DEF TurnStep
  <2>7. Turns(cs, token, m + 1, g)
    BY <2>6 DEF Turns
  <2> HIDE DEF g
  <2> QED BY <2>7
<1> HIDE DEF X
<1>3. N \in X
  BY <1>1, <1>2, SetInduction
<1> QED BY <1>3 DEF X

\* Unregistering is what it gives after as many turns as there are cells.
LEMMA UnregisteringIs ==
  ASSUME NEW token, Len(cells) \in Nat
  PROVE  \E f : Turns(cells, token, Len(cells), f) /\ Unregistering(token) = f[Len(cells)].cells
<1> DEFINE turn == CHOOSE f : Turns(cells, token, Len(cells), f)
<1>1. Turns(cells, token, Len(cells), turn)
  BY TurnRecursion
<1>2. Unregistering(token) = turn[Len(cells)].cells
  BY Zenon DEF Unregistering, Turns, TurnStep
<1> QED BY <1>1, <1>2

\* After n turns: the loop is at index i of the cells that are left, those before
\* it have another token, and no cell with another token is gone.
Turned(cs, token, i, left, n) ==
  /\ i \in Nat \ {0} /\ Distinct(left)
  /\ i - 1 <= Len(left) /\ i - 1 + Len(cs) = n + Len(left)
  /\ \A j \in 1..Len(left) : j < i => left[j].token # token
  /\ \A j \in 1..Len(left) : \E k \in 1..Len(cs) : left[j] = cs[k]
  /\ \A k \in 1..Len(cs) : cs[k].token # token => \E j \in 1..Len(left) : left[j] = cs[k]

\* A turn that removes the cell it is at.
LEMMA TurnRemoves ==
  ASSUME NEW cs, Len(cs) \in Nat, NEW token, NEW i, NEW left, NEW n \in Nat, n < Len(cs),
         Turned(cs, token, i, left, n), left[i].token = token,
         NEW t, t = SwapRemove(left, i)
  PROVE  Turned(cs, token, i, t, n + 1)
<1>1. /\ i \in Nat \ {0} /\ Distinct(left) /\ Len(left) \in Nat
      /\ i - 1 <= Len(left) /\ i - 1 + Len(cs) = n + Len(left)
  BY LenProperties DEF Turned, Distinct
<1>2. i \in 1..Len(left)
  BY <1>1
<1>3. /\ Distinct(t) /\ Len(t) = Len(left) - 1
      /\ \A j \in 1..Len(t) : j # i => t[j] = left[j]
      /\ \A j \in 1..Len(t) : \E k \in 1..Len(left) : k # i /\ t[j] = left[k]
      /\ \A k \in 1..Len(left) : k # i => \E j \in 1..Len(t) : t[j] = left[k]
  <2>1. Distinct(left) /\ i \in 1..Len(left) /\ t = SwapRemove(left, i)
    BY <1>1, <1>2
  <2>2. Distinct(t) /\ AllButOne(left, i, t)
    BY ONLY <2>1, SwapRemoves
  <2> QED BY ONLY <2>2 DEF AllButOne
<1>4. i - 1 <= Len(t) /\ i - 1 + Len(cs) = (n + 1) + Len(t)
  BY <1>1, <1>2, <1>3
<1>5. \A j \in 1..Len(t) : j < i => t[j].token # token
  <2>1. \A j \in 1..Len(t) : j \in 1..Len(left) /\ (j < i => j # i)
    BY <1>1, <1>3
  <2> QED BY <1>3, <2>1 DEF Turned
<1>6. \A j \in 1..Len(t) : \E k \in 1..Len(cs) : t[j] = cs[k]
  <2> SUFFICES ASSUME NEW j \in 1..Len(t) PROVE \E k \in 1..Len(cs) : t[j] = cs[k]
    OBVIOUS
  <2>1. PICK l \in 1..Len(left) : t[j] = left[l]
    BY <1>3
  <2>2. PICK k \in 1..Len(cs) : left[l] = cs[k]
    BY DEF Turned
  <2> QED BY <2>1, <2>2
<1>7. \A k \in 1..Len(cs) : cs[k].token # token => \E j \in 1..Len(t) : t[j] = cs[k]
  <2> SUFFICES ASSUME NEW k \in 1..Len(cs), cs[k].token # token
               PROVE  \E j \in 1..Len(t) : t[j] = cs[k]
    OBVIOUS
  <2>1. PICK l \in 1..Len(left) : left[l] = cs[k]
    BY DEF Turned
  <2>2. l # i
    BY <2>1
  <2>3. PICK j \in 1..Len(t) : t[j] = left[l]
    BY <1>3, <2>2
  <2> QED BY <2>1, <2>3
<1> QED BY <1>1, <1>3, <1>4, <1>5, <1>6, <1>7 DEF Turned

\* A turn that goes on to the next cell.
LEMMA TurnGoesOn ==
  ASSUME NEW cs, Len(cs) \in Nat, NEW token, NEW i, NEW left, NEW n \in Nat, n < Len(cs),
         Turned(cs, token, i, left, n), left[i].token # token
  PROVE  Turned(cs, token, i + 1, left, n + 1)
<1>1. /\ i \in Nat \ {0} /\ Distinct(left) /\ Len(left) \in Nat
      /\ i - 1 <= Len(left) /\ i - 1 + Len(cs) = n + Len(left)
  BY LenProperties DEF Turned, Distinct
<1>2. /\ i + 1 \in Nat \ {0} /\ (i + 1) - 1 <= Len(left)
      /\ (i + 1) - 1 + Len(cs) = (n + 1) + Len(left)
  BY <1>1
<1>3. \A j \in 1..Len(left) : j < i + 1 => left[j].token # token
  <2>1. \A j \in 1..Len(left) : j < i + 1 => j < i \/ j = i
    BY <1>1
  <2> QED BY <2>1 DEF Turned
<1> QED BY <1>1, <1>2, <1>3 DEF Turned

\* The cells of cs that have another token.
Others(cs, token, t) ==
  /\ \A j \in 1..Len(t) : \E k \in 1..Len(cs) : t[j] = cs[k] /\ cs[k].token # token
  /\ \A k \in 1..Len(cs) : cs[k].token # token => \E j \in 1..Len(t) : t[j] = cs[k]

\* They are what unregister leaves.
LEMMA UnregisteringLeaves ==
  ASSUME Distinct(cells), NEW token, NEW t, t = Unregistering(token)
  PROVE  Distinct(t) /\ Others(cells, token, t)
<1>1. PICK cs : cs = cells
  OBVIOUS
<1>2. PICK N : N = Len(cs) /\ N \in Nat
  BY <1>1, LenProperties DEF Distinct
<1>3. PICK f : Turns(cs, token, N, f) /\ t = f[N].cells
  BY <1>1, <1>2, UnregisteringIs
<1>4. \A n \in 0..N : f[n] = TurnStep(cs, token, f, n)
  BY <1>3 DEF Turns
<1> DEFINE X == {n \in Nat : n <= N => /\ f[n] \in [i : Nat, cells : Seq(CellRecords)]
                                       /\ Turned(cs, token, f[n].i, f[n].cells, n)}
<1>5. 0 \in X
  <2>1. f[0] = [i |-> 1, cells |-> cs]
    <3>1. 0 \in 0..N
      BY <1>2
    <3>2. f[0] = TurnStep(cs, token, f, 0)
      BY <1>4, <3>1, Zenon
    <3> QED BY ONLY <3>2 DEF TurnStep
  <2>2. cs \in Seq(CellRecords)
    BY <1>1 DEF Distinct
  <2>3. Turned(cs, token, 1, cs, 0)
    <3>1. \A j \in 1..Len(cs) : ~ (j < 1)
      BY <1>2
    <3>2. 1 - 1 <= Len(cs) /\ 1 - 1 + Len(cs) = 0 + Len(cs)
      BY <1>2
    <3> QED BY <1>1, <3>1, <3>2 DEF Turned
  <2> QED BY <2>1, <2>2, <2>3
<1>6. ASSUME NEW n \in Nat, n \in X PROVE n + 1 \in X
  <2> SUFFICES ASSUME n + 1 <= N
               PROVE  /\ f[n + 1] \in [i : Nat, cells : Seq(CellRecords)]
                      /\ Turned(cs, token, f[n + 1].i, f[n + 1].cells, n + 1)
    OBVIOUS
  <2>1. n \in Nat /\ n < N /\ n + 1 \in 0..N /\ n + 1 # 0 /\ (n + 1) - 1 = n
    BY <1>2
  <2>2. PICK so, i, left : so = f[n] /\ i = so.i /\ left = so.cells
    OBVIOUS
  <2>3. so \in [i : Nat, cells : Seq(CellRecords)] /\ Turned(cs, token, i, left, n)
    <3>1. n <= N
      BY <1>2, <2>1
    <3>2. f[n] \in [i : Nat, cells : Seq(CellRecords)] /\ Turned(cs, token, f[n].i, f[n].cells, n)
      BY <1>6, <3>1, Zenon
    <3> QED BY <2>2, <3>2
  <2>4. so = [i |-> i, cells |-> left]
    BY ONLY <2>2, <2>3
  <2>5. f[n + 1] = IF left[i].token = token
                   THEN [so EXCEPT !.cells = SwapRemove(left, i)]
                   ELSE [so EXCEPT !.i = i + 1]
    BY <1>4, <2>1, <2>2 DEF TurnStep
  <2>6. CASE left[i].token = token
    <3>1. PICK u : u = SwapRemove(left, i)
      OBVIOUS
    <3>2. f[n + 1] = [i |-> i, cells |-> u]
      BY ONLY <2>4, <2>5, <2>6, <3>1
    <3>3. Turned(cs, token, i, u, n + 1)
      BY ONLY <1>2, <2>1, <2>3, <2>6, <3>1, TurnRemoves
    <3>4. i \in Nat /\ u \in Seq(CellRecords)
      BY ONLY <3>3 DEF Turned, Distinct
    <3> QED BY ONLY <3>2, <3>3, <3>4
  <2>7. CASE left[i].token # token
    <3>1. PICK k : k = i + 1
      OBVIOUS
    <3>2. f[n + 1] = [i |-> k, cells |-> left]
      BY ONLY <2>4, <2>5, <2>7, <3>1
    <3>3. Turned(cs, token, k, left, n + 1)
      BY ONLY <1>2, <2>1, <2>3, <2>7, <3>1, TurnGoesOn
    <3>4. k \in Nat /\ left \in Seq(CellRecords)
      BY ONLY <3>3 DEF Turned, Distinct
    <3> QED BY ONLY <3>2, <3>3, <3>4
  <2> QED BY <2>6, <2>7
<1> HIDE DEF X
<1>7. N \in X
  BY <1>2, <1>5, <1>6, SetInduction
<1>8. PICK i : Turned(cs, token, i, t, N)
  BY <1>2, <1>3, <1>7 DEF X
<1>9. Distinct(t) /\ Len(t) \in Nat /\ i \in Nat /\ i - 1 = Len(t)
  <2>1. Distinct(t) /\ i \in Nat \ {0} /\ i - 1 + Len(cs) = N + Len(t)
    BY ONLY <1>8 DEF Turned
  <2>2. Len(t) \in Nat
    BY ONLY <2>1, LenProperties DEF Distinct
  <2> QED BY ONLY <1>2, <2>1, <2>2
<1>10. \A j \in 1..Len(t) : t[j].token # token /\ \E k \in 1..Len(cs) : t[j] = cs[k]
  <2>1. \A j \in 1..Len(t) : j < i
    BY <1>9
  <2> QED BY <1>8, <2>1 DEF Turned
<1>11. \A k \in 1..Len(cs) : cs[k].token # token => \E j \in 1..Len(t) : t[j] = cs[k]
  BY <1>8 DEF Turned
<1>12. \A j \in 1..Len(t) : \E k \in 1..Len(cs) : t[j] = cs[k] /\ cs[k].token # token
  <2> SUFFICES ASSUME NEW j \in 1..Len(t)
               PROVE  \E k \in 1..Len(cs) : t[j] = cs[k] /\ cs[k].token # token
    OBVIOUS
  <2>1. PICK k \in 1..Len(cs) : t[j] = cs[k] /\ t[j].token # token
    BY <1>10
  <2> QED BY <2>1
<1> QED BY <1>1, <1>9, <1>11, <1>12 DEF Others

----------------------------------------------------------------------------
(* FinalizationRegistries: the inductive invariant.                         *)

Ran(called) == {called[i] : i \in 1..Len(called)}

\* n cells were registered: cs are left, the callback was called for those in
\* called, and unregister removed those in gone.
CellsFit(cs, called, gone, n) ==
  /\ n \in Nat /\ Distinct(cs)
  /\ called \in Seq(Nat) /\ Different(called, Len(called))
  /\ IdsOf(cs) \cap gone = {} /\ Ran(called) \cap gone = {} /\ Ran(called) \cap IdsOf(cs) = {}
  /\ IdsOf(cs) \cup gone \cup Ran(called) = 1..n

LoopFits ==
  /\ at \in Nat
  /\ runner \in {"callback", "cleanup"} => at >= 1

RegistryInv ==
  /\ RegistryTypeOK
  /\ CellsFit(cells, calledBack, removed, registered)
  /\ LoopFits

\* The callback is called once more.
LEMMA CallAppended ==
  ASSUME NEW s \in Seq(Nat), Different(s, Len(s)),
         NEW m \in Nat, m \notin Ran(s), NEW t, t = Append(s, m)
  PROVE  /\ t \in Seq(Nat) /\ Different(t, Len(t))
         /\ Ran(t) = Ran(s) \cup {m}
<1>1. Len(s) \in Nat
  BY LenProperties
<1>2. /\ t \in Seq(Nat) /\ Len(t) = Len(s) + 1
      /\ \A i \in 1..Len(s) : t[i] = s[i] /\ s[i] # m
      /\ t[Len(s) + 1] = m
  BY <1>1, AppendProperties DEF Ran
<1>3. \A i \in 1..Len(t) : i \in 1..Len(s) \/ i = Len(s) + 1
  BY <1>1, <1>2
<1>4. Len(s) + 1 \in 1..Len(t) /\ \A i \in 1..Len(s) : i \in 1..Len(t)
  BY <1>1, <1>2
<1>5. Different(t, Len(t))
  BY <1>1, <1>2, <1>3 DEF Different
<1>6. ASSUME NEW x \in Ran(t) PROVE x \in Ran(s) \cup {m}
  <2>1. PICK i \in 1..Len(t) : x = t[i]
    BY <1>6 DEF Ran
  <2> QED BY <1>2, <1>3, <2>1 DEF Ran
<1>7. ASSUME NEW x \in Ran(s) PROVE x \in Ran(t)
  BY <1>2, <1>4, <1>7 DEF Ran
<1>8. m \in Ran(t)
  BY <1>2, <1>4 DEF Ran
<1> QED BY <1>2, <1>5, <1>6, <1>7, <1>8

\* A cell is registered.
LEMMA RegisterFits ==
  ASSUME NEW cs, NEW called, NEW gone, NEW n, CellsFit(cs, called, gone, n),
         NEW t \in Targets, NEW token \in Tokens \cup {NoToken}
  PROVE  CellsFit(Append(cs, Cell(n + 1, t, token)), called, gone, n + 1)
<1>1. PICK cell, fs, m : m = n + 1 /\ cell = Cell(n + 1, t, token) /\ fs = Append(cs, cell)
  OBVIOUS
<1>2. n \in Nat /\ m \in Nat /\ cell \in CellRecords /\ cell.id = m /\ m \notin 1..n /\ 1..m = 1..n \cup {m}
  BY <1>1 DEF CellsFit, Cell, CellRecords
<1>3. m \notin IdsOf(cs) /\ m \notin gone /\ m \notin Ran(called)
  BY ONLY <1>2, CellsFit(cs, called, gone, n) DEF CellsFit
<1>4. Distinct(fs) /\ IdsOf(fs) = IdsOf(cs) \cup {m}
  BY <1>1, <1>2, <1>3, CellAppended DEF CellsFit
<1>5. CellsFit(fs, called, gone, m)
  BY <1>2, <1>3, <1>4 DEF CellsFit
<1> QED BY <1>1, <1>5

\* The callback is called for a cell.
LEMMA CallFits ==
  ASSUME NEW cs, NEW called, NEW gone, NEW n, CellsFit(cs, called, gone, n), NEW i \in 1..Len(cs)
  PROVE  CellsFit(SwapRemove(cs, i), Append(called, cs[i].id), gone, n)
<1>1. PICK m, fs, ds : m = cs[i].id /\ fs = SwapRemove(cs, i) /\ ds = Append(called, m)
  OBVIOUS
<1>2. Distinct(cs) /\ m \in IdsOf(cs) /\ m \in Nat
  <2>1. cs[i] \in CellRecords
    BY ElementOfSeq DEF CellsFit, Distinct
  <2> QED BY <1>1, <2>1 DEF CellsFit, IdsOf, CellRecords
<1>3. m \notin gone /\ m \notin Ran(called)
  BY <1>2 DEF CellsFit
<1>4. Distinct(fs) /\ IdsOf(fs) = IdsOf(cs) \ {m}
  BY <1>1, <1>2, SwapRemoves, IdRemoved
<1>5. /\ ds \in Seq(Nat) /\ Different(ds, Len(ds))
      /\ Ran(ds) = Ran(called) \cup {m}
  BY <1>1, <1>2, <1>3, CallAppended DEF CellsFit
<1>6. CellsFit(fs, ds, gone, n)
  BY <1>2, <1>3, <1>4, <1>5 DEF CellsFit
<1> QED BY <1>1, <1>6

\* unregister removes the cells of a token, from wherever the loop is.
LEMMA UnregisterFits ==
  ASSUME NEW called, NEW gone, NEW n, CellsFit(cells, called, gone, n), NEW token, NEW ids,
         ids = {cell.id : cell \in {cells[i] : i \in {i \in DOMAIN cells : cells[i].token = token}}}
  PROVE  /\ CellsFit(Unregistering(token), called, gone \cup ids, n)
         /\ ids \subseteq IdsOf(cells)
<1>1. /\ Distinct(cells) /\ DOMAIN cells = 1..Len(cells) /\ Len(cells) \in Nat
      /\ \A i, j \in 1..Len(cells) : cells[i].id = cells[j].id => i = j
  BY LenProperties DEF CellsFit, Distinct
<1>2. PICK t : t = Unregistering(token)
  OBVIOUS
<1>3. /\ Distinct(t)
      /\ \A j \in 1..Len(t) : \E k \in 1..Len(cells) : t[j] = cells[k] /\ cells[k].token # token
      /\ \A k \in 1..Len(cells) : cells[k].token # token => \E j \in 1..Len(t) : t[j] = cells[k]
  <2>1. Distinct(t) /\ Others(cells, token, t)
    BY <1>1, <1>2, UnregisteringLeaves
  <2> QED BY <2>1 DEF Others
<1>4. \A x : x \in ids <=> \E i \in 1..Len(cells) : cells[i].token = token /\ x = cells[i].id
  BY <1>1
<1>5. IdsOf(t) = IdsOf(cells) \ ids
  <2>1. ASSUME NEW x \in IdsOf(t) PROVE x \in IdsOf(cells) \ ids
    <3>1. PICK j \in 1..Len(t) : x = t[j].id
      BY <2>1 DEF IdsOf
    <3>2. PICK k \in 1..Len(cells) : t[j] = cells[k] /\ cells[k].token # token
      BY <1>3
    <3>3. x \notin ids
      BY <1>1, <1>4, <3>1, <3>2
    <3> QED BY <3>1, <3>2, <3>3 DEF IdsOf
  <2>2. ASSUME NEW x \in IdsOf(cells) \ ids PROVE x \in IdsOf(t)
    <3>1. PICK k \in 1..Len(cells) : x = cells[k].id
      BY <2>2 DEF IdsOf
    <3>2. PICK j \in 1..Len(t) : t[j] = cells[k]
      BY <1>3, <1>4, <2>2, <3>1
    <3> QED BY <3>1, <3>2 DEF IdsOf
  <2> QED BY <2>1, <2>2
<1>6. ids \subseteq IdsOf(cells)
  BY <1>4 DEF IdsOf
<1>7. CellsFit(t, called, gone \cup ids, n)
  BY <1>3, <1>5, <1>6 DEF CellsFit
<1> QED BY <1>2, <1>6, <1>7

\* What is asked for follows.
LEMMA FitIsDue == CellsFit(cells, calledBack, removed, registered) => CallbackIsDue
<1> SUFFICES ASSUME CellsFit(cells, calledBack, removed, registered) PROVE CallbackIsDue
  OBVIOUS
<1>1. /\ DOMAIN cells = 1..Len(cells) /\ Len(cells) \in Nat
      /\ DOMAIN calledBack = 1..Len(calledBack) /\ Len(calledBack) \in Nat
      /\ \A i, j \in 1..Len(cells) : cells[i].id = cells[j].id => i = j
      /\ Different(calledBack, Len(calledBack))
  BY LenProperties DEF CellsFit, Distinct
<1>2. Cardinality(Ran(calledBack)) = Len(calledBack)
  <2>1. Cardinality({calledBack[i] : i \in 1..Len(calledBack)}) = Len(calledBack)
    BY ONLY <1>1, AsManyAsLong
  <2> QED BY <2>1 DEF Ran
<1>3. Cardinality(IdsOf(cells)) = Len(cells)
  <2>1. PICK f : f = [i \in 1..Len(cells) |-> cells[i].id]
    OBVIOUS
  <2>2. \A i \in 1..Len(cells) : f[i] = cells[i].id
    BY <2>1
  <2>3. Different(f, Len(cells))
    BY <1>1, <2>2 DEF Different
  <2>4. Cardinality({f[i] : i \in 1..Len(cells)}) = Len(cells)
    BY ONLY <1>1, <2>3, AsManyAsLong
  <2>5. {f[i] : i \in 1..Len(cells)} = IdsOf(cells)
    BY <2>2 DEF IdsOf
  <2> QED BY <2>4, <2>5
<1>4. PICK ids, ran : /\ ids = {cells[i].id : i \in DOMAIN cells}
                      /\ ran = {calledBack[i] : i \in DOMAIN calledBack}
  OBVIOUS
<1>5. ids = IdsOf(cells) /\ ran = Ran(calledBack)
  BY <1>1, <1>4 DEF IdsOf, Ran
<1>6. /\ Cardinality(ids) = Len(cells) /\ Cardinality(ran) = Len(calledBack)
      /\ ran \cap removed = {} /\ ran \cap ids = {} /\ removed \cap ids = {}
      /\ ran \cup removed \cup ids = 1..registered
  BY <1>2, <1>3, <1>5 DEF CellsFit
<1> QED BY ONLY <1>4, <1>6 DEF CallbackIsDue

----------------------------------------------------------------------------
(* FinalizationRegistries: the steps.                                       *)

\* A behaviour of a registry begins so.
LEMMA RegistryInitInv == RegistryInit => RegistryInv
<1> SUFFICES ASSUME RegistryInit PROVE RegistryInv
  OBVIOUS
<1>1. RegistryTypeOK /\ LoopFits
  <2>1. signal \in BOOLEAN
    BY DEF RegistryInit
  <2>2. (cleanupJob = "cleaning") = (runner \in {"callback", "cleanup"})
    BY DEF RegistryInit
  <2>3. LoopFits /\ removed \subseteq 1..registered
    BY DEF RegistryInit, LoopFits
  <2> QED BY <2>1, <2>2, <2>3 DEF RegistryInit, RegistryTypeOK
<1>2. cells = <<>> /\ calledBack = <<>> /\ removed = {} /\ registered = 0
  BY DEF RegistryInit
<1>3. CellsFit(<<>>, <<>>, {}, 0)
  <2>1. PICK e, z : e = <<>> /\ z = 0
    OBVIOUS
  <2>2. /\ e \in Seq(CellRecords) /\ e \in Seq(Nat) /\ Len(e) = 0 /\ z \in Nat
        /\ \A i : i \notin 1..Len(e) /\ i \notin 1..z
    BY <2>1, EmptySeq
  <2>3. IdsOf(e) = {} /\ Ran(e) = {}
    BY <2>2 DEF IdsOf, Ran
  <2>4. CellsFit(e, e, {}, z)
    BY <2>2, <2>3 DEF CellsFit, Distinct, Different
  <2> QED BY <2>1, <2>4
<1> QED BY <1>1, <1>2, <1>3 DEF RegistryInv

\* Each step keeps the invariant.
LEMMA RegistryNextInv == RegistryInv /\ [RegistryNext]_registryVars => RegistryInv'
<1> SUFFICES ASSUME RegistryInv, [RegistryNext]_registryVars PROVE RegistryInv'
  OBVIOUS
<1>0. RegistryTypeOK /\ CellsFit(cells, calledBack, removed, registered) /\ LoopFits
  BY DEF RegistryInv
<1>k. ASSUME UNCHANGED <<cells, calledBack, removed, registered>>
      PROVE  CellsFit(cells, calledBack, removed, registered)'
  BY <1>0, <1>k
<1>1. CASE UNCHANGED registryVars
  BY <1>0, <1>1, <1>k DEF registryVars, RegistryInv, RegistryTypeOK, LoopFits
<1>2. ASSUME NEW t \in Targets, NEW token \in Tokens \cup {NoToken}, Register(t, token)
      PROVE  RegistryInv'
  <2>1. CellsFit(cells, calledBack, removed, registered)'
    BY <1>0, <1>2, RegisterFits DEF Register
  <2>2. LoopFits'
    BY <1>0, <1>2 DEF Register, LoopFits
  <2>3. RegistryTypeOK'
    BY <1>0, <1>2 DEF Register, RegistryTypeOK, CellsFit
  <2> QED BY <2>1, <2>2, <2>3 DEF RegistryInv
<1>3. ASSUME NEW token \in Tokens, Unregister(token) PROVE RegistryInv'
  <2>1. PICK ids : ids = {cell.id : cell \in {cells[i] : i \in {i \in DOMAIN cells : cells[i].token = token}}}
    OBVIOUS
  <2>2. cells' = Unregistering(token) /\ removed' = removed \cup ids
    BY <1>3, <2>1 DEF Unregister
  <2>3. UNCHANGED <<held, kept, collected, registry, signal, runner, cleanupJob, at, registered, calledBack>>
    BY <1>3 DEF Unregister
  <2>4. /\ CellsFit(Unregistering(token), calledBack, removed \cup ids, registered)
        /\ ids \subseteq IdsOf(cells)
    BY <1>0, <2>1, UnregisterFits
  <2>5. CellsFit(cells, calledBack, removed, registered)'
    BY <2>2, <2>3, <2>4
  <2>6. removed' \subseteq 1..registered'
    BY <2>5 DEF CellsFit
  <2> QED BY <1>0, <2>3, <2>5, <2>6 DEF RegistryInv, RegistryTypeOK, LoopFits
<1>4. ASSUME NEW t \in Targets, Deref(t) PROVE RegistryInv'
  BY <1>0, <1>4, <1>k DEF Deref, RegistryInv, RegistryTypeOK, LoopFits
<1>5. CASE LetGo
  BY <1>0, <1>5, <1>k DEF LetGo, RegistryInv, RegistryTypeOK, LoopFits
<1>6. CASE StartScript
  BY <1>0, <1>6, <1>k DEF StartScript, RegistryInv, RegistryTypeOK, LoopFits
<1>7. CASE EndScript
  BY <1>0, <1>7, <1>k DEF EndScript, RegistryInv, RegistryTypeOK, LoopFits
<1>8. CASE ClearKeptObjects
  BY <1>0, <1>8, <1>k DEF ClearKeptObjects, RegistryInv, RegistryTypeOK, LoopFits
<1>9. CASE Collect
  BY <1>0, <1>9, <1>k DEF Collect, RegistryInv, RegistryTypeOK, LoopFits
<1>10. CASE CollectRegistry
  BY <1>0, <1>10, <1>k DEF CollectRegistry, RegistryInv, RegistryTypeOK, LoopFits
<1>11. CASE CallbackThrows
  BY <1>0, <1>11, <1>k DEF CallbackThrows, EndCleanupJob, RegistryInv, RegistryTypeOK, LoopFits
<1>12. CASE StartCleanup
  <2>1. CASE registry = "dead"
    BY <1>0, <1>12, <1>k, <2>1 DEF StartCleanup, RegistryInv, RegistryTypeOK, LoopFits
  <2>2. CASE registry # "dead"
    <3>1. signal' = FALSE /\ cleanupJob' = "cleaning" /\ runner' = "cleanup" /\ at' = 1
      BY <1>12, <2>2 DEF StartCleanup
    <3>2. UNCHANGED <<held, kept, collected, registry, registered, removed>>
      BY <1>12 DEF StartCleanup
    <3>3. CellsFit(cells, calledBack, removed, registered)'
      BY <1>12, <1>k DEF StartCleanup
    <3>4. signal' \in BOOLEAN
      BY <3>1
    <3>5. (cleanupJob' = "cleaning") = (runner' \in {"callback", "cleanup"})
      BY <3>1
    <3>6. LoopFits'
      BY <3>1 DEF LoopFits
    <3>7. RegistryTypeOK'
      <4>1. cleanupJob' \in {"waiting", "cleaning", "over"} /\ runner' \in {"none", "script", "callback", "cleanup"}
        BY <3>1
      <4> QED BY <1>0, <3>2, <3>4, <3>5, <4>1 DEF RegistryTypeOK
    <3> QED BY <3>3, <3>6, <3>7 DEF RegistryInv
  <2> QED BY <2>1, <2>2
<1>13. CASE CleanupCell
  <2>1. at \in 1..Len(cells)
    <3>1. Len(cells) \in Nat
      BY <1>0, LenProperties DEF CellsFit, Distinct
    <3> QED BY <1>0, <1>13, <3>1 DEF CleanupCell, LoopFits
  <2>2. CASE cells[at].target \notin collected
    BY <1>0, <1>13, <1>k, <2>2 DEF CleanupCell, RegistryInv, RegistryTypeOK, LoopFits
  <2>3. CASE cells[at].target \in collected
    <3>1. CellsFit(cells, calledBack, removed, registered)'
      BY <1>0, <1>13, <2>1, <2>3, CallFits DEF CleanupCell
    <3> QED BY <1>0, <1>13, <2>3, <3>1 DEF CleanupCell, RegistryInv, RegistryTypeOK, LoopFits
  <2> QED BY <2>2, <2>3
<1>14. CASE EndCleanup
  BY <1>0, <1>14, <1>k DEF EndCleanup, EndCleanupJob, RegistryInv, RegistryTypeOK, LoopFits
<1>15. CASE CallbackReturns
  BY <1>0, <1>15, <1>k DEF CallbackReturns, RegistryInv, RegistryTypeOK, LoopFits
<1> QED
  BY <1>1, <1>2, <1>3, <1>4, <1>5, <1>6, <1>7, <1>8, <1>9, <1>10, <1>11, <1>12, <1>13, <1>14, <1>15
     DEF RegistryNext, CleanupStep

\* The invariant holds in every behaviour of a registry.
LEMMA RegistryInvHolds == RegistrySpec => []RegistryInv
<1> QED BY RegistryInitInv, RegistryNextInv, PTL DEF RegistrySpec

\* The variables of a registry keep their types; in particular a target that is
\* held or kept for the job is not collected.
THEOREM TheRegistrysTypesAreCorrect == RegistrySpec => []RegistryTypeOK
<1>1. RegistryInv => RegistryTypeOK
  BY DEF RegistryInv
<1> QED BY <1>1, RegistryInvHolds, PTL

\* Each call of register leads to at most one call of the callback, and to none once
\* unregister has removed the cell, although cleanup and unregister both move the
\* last cell to the place of one they remove, one in the middle of the other's loop.
THEOREM CallbacksAreDue == RegistrySpec => []CallbackIsDue
<1>1. RegistryInv => CallbackIsDue
  BY FitIsDue DEF RegistryInv
<1> QED BY <1>1, RegistryInvHolds, PTL

----------------------------------------------------------------------------
(* Side by side, where one part runs and the others stand still, the parts   *)
(* keep the types they have alone.                                          *)

\* One of the parts makes a step, or none does.
LEMMA PartsStep ==
  ASSUME [AcrossNext]_allVars
  PROVE  /\ [LoadingNext]_loadingVars
         /\ [AsyncGeneratorNext]_generatorVars
         /\ [RegistryNext]_registryVars
BY DEF AcrossNext, allVars

\* Generators, loads and registries keep the values the code's types give them.
THEOREM AcrossTypesHold == AcrossSpec => []AcrossTypes
<1>1. AcrossInit => LoadingInit /\ AsyncGeneratorInit /\ RegistryInit
  BY DEF AcrossInit
<1>2. AcrossSpec => LoadingSpec /\ AsyncGeneratorSpec /\ RegistrySpec
  BY <1>1, PartsStep, PTL DEF AcrossSpec, LoadingSpec, AsyncGeneratorSpec, RegistrySpec
<1>3. LoadingInv /\ GeneratorInv /\ RegistryInv => AcrossTypes
  BY DEF LoadingInv, GeneratorInv, RegistryInv, AcrossTypes
<1> QED BY <1>2, <1>3, LoadingInvHolds, GeneratorInvHolds, RegistryInvHolds, PTL
================================================================================
