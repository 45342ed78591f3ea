------------------------- MODULE JobExecutorProofs -------------------------
(****************************************************************************)
(* Proofs about JobExecutor, for every set of jobs, kinds, modes and delays.*)
(****************************************************************************)
EXTENDS JobExecutor, SequenceFacts

------------------------------------------------------------------------------
(* Promise jobs are called in the order in which they were enqueued.         *)

\* The promise jobs that were taken and are not called yet.
Pending == IF pc = "promise" THEN batch ELSE <<>>

OrderInv ==
  /\ promiseJobs \in Seq(Jobs) /\ enqueued \in Seq(Jobs) /\ ran \in Seq(Jobs)
  /\ Pending \in Seq(Jobs)
  /\ enqueued = ran \o Pending \o promiseJobs

\* Taking the head of a batch and calling it moves it, and loses nothing.
LEMMA MoveHead ==
  ASSUME NEW S, NEW r \in Seq(S), NEW b \in Seq(S), b # <<>>
  PROVE  /\ Append(r, Head(b)) \in Seq(S)
         /\ Tail(b) \in Seq(S)
         /\ Append(r, Head(b)) \o Tail(b) = r \o b
<1> DEFINE h == Head(b)
           t == Tail(b)
           l == Append(r, h) \o t
           m == r \o b
<1>1. h \in S /\ t \in Seq(S) /\ Len(t) = Len(b) - 1 /\ h = b[1]
      /\ \A i \in 1..Len(t) : t[i] = b[i + 1]
  BY HeadTailProperties
<1>2. Append(r, h) \in Seq(S) /\ Len(Append(r, h)) = Len(r) + 1
      /\ (\A i \in 1..Len(r) : Append(r, h)[i] = r[i]) /\ Append(r, h)[Len(r) + 1] = h
  BY <1>1, AppendProperties
<1>3. /\ l \in Seq(S) /\ Len(l) = Len(r) + 1 + Len(t)
      /\ \A i \in 1..(Len(r) + 1 + Len(t)) :
           l[i] = IF i <= Len(r) + 1 THEN Append(r, h)[i] ELSE t[i - (Len(r) + 1)]
  BY <1>1, <1>2, ConcatProperties
<1>4. /\ m \in Seq(S) /\ Len(m) = Len(r) + Len(b)
      /\ \A i \in 1..(Len(r) + Len(b)) : m[i] = IF i <= Len(r) THEN r[i] ELSE b[i - Len(r)]
  BY ConcatProperties
<1>5. Len(r) \in Nat /\ Len(b) \in Nat \ {0} /\ Len(t) \in Nat
  BY <1>1, LenProperties, EmptySeq
<1>6. Len(l) = Len(m)
  BY <1>1, <1>3, <1>4, <1>5
<1>7. ASSUME NEW i \in 1..Len(l) PROVE l[i] = m[i]
  <2> HIDE DEF h, t, l, m
  <2>1. CASE i <= Len(r)
    BY <2>1, <1>2, <1>3, <1>4, <1>5, <1>6
  <2>2. CASE i = Len(r) + 1
    BY <2>2, <1>1, <1>2, <1>3, <1>4, <1>5, <1>6
  <2>3. CASE i > Len(r) + 1
    <3>1. i - (Len(r) + 1) \in 1..Len(t) /\ (i - (Len(r) + 1)) + 1 = i - Len(r)
      BY <2>3, <1>3, <1>5
    <3>2. l[i] = t[i - (Len(r) + 1)] /\ m[i] = b[i - Len(r)]
      BY <2>3, <1>3, <1>4, <1>5, <1>6
    <3> QED BY <3>1, <3>2, <1>1
  <2> QED BY <2>1, <2>2, <2>3, <1>5
<1>8. l = m
  <2> HIDE DEF l, m
  <2> QED BY <1>3, <1>4, <1>6, <1>7, SeqEqual
<1> QED BY <1>1, <1>2, <1>8

\* What a job does to the queue of promise jobs it does to the history too.
LEMMA EffectAppends ==
  ASSUME Effect
  PROVE  \/ UNCHANGED <<promiseJobs, enqueued>>
         \/ \E j \in Jobs : /\ promiseJobs' = Append(promiseJobs, j)
                            /\ enqueued' = Append(enqueued, j)
<1>1. ASSUME NEW j \in Jobs, NEW k, NEW d, Enqueue(j, k, d)
      PROVE  \/ UNCHANGED <<promiseJobs, enqueued>>
             \/ promiseJobs' = Append(promiseJobs, j) /\ enqueued' = Append(enqueued, j)
  BY <1>1 DEF Enqueue, AppendIf
<1> QED BY <1>1 DEF Effect, ClearTimer, ClearAll, script, queues

\* A call in which the batch and the history of calls have already been dealt with.
LEMMA EffectKeepsOrder ==
  ASSUME OrderInv, Effect,
         ran' \in Seq(Jobs), Pending' \in Seq(Jobs), ran' \o Pending' = ran \o Pending
  PROVE  OrderInv'
<1> DEFINE p == ran \o Pending
<1>1. p \in Seq(Jobs)
  BY ConcatProperties DEF OrderInv
<1>2. CASE UNCHANGED <<promiseJobs, enqueued>>
  BY <1>2 DEF OrderInv
<1>3. ASSUME NEW j \in Jobs, promiseJobs' = Append(promiseJobs, j),
             enqueued' = Append(enqueued, j)
      PROVE  OrderInv'
  <2>1. promiseJobs' \in Seq(Jobs) /\ enqueued' \in Seq(Jobs)
    BY <1>3, AppendProperties DEF OrderInv
  <2>2. <<j>> \in Seq(Jobs)
    OBVIOUS
  <2>3. promiseJobs' = promiseJobs \o <<j>> /\ enqueued' = enqueued \o <<j>>
    BY <1>3, AppendIsConcat DEF OrderInv
  <2>4. (p \o promiseJobs) \o <<j>> = p \o (promiseJobs \o <<j>>)
    <3> HIDE DEF p
    <3>1. promiseJobs \in Seq(Jobs)
      BY DEF OrderInv
    <3> QED BY <1>1, <2>2, <3>1, ConcatAssociative
  <2> QED BY <2>1, <2>3, <2>4 DEF OrderInv
<1> QED BY <1>2, <1>3, EffectAppends

\* A step that changes neither the queue nor the history of calls.
LEMMA QuietKeepsOrder ==
  ASSUME OrderInv, UNCHANGED <<promiseJobs, enqueued, ran>>, Pending' = Pending
  PROVE  OrderInv'
BY DEF OrderInv

\* clear() drops the queue, and the history with it.
LEMMA ClearKeepsOrder ==
  ASSUME OrderInv, Clear, ran' = ran, pc' = "outside"
  PROVE  OrderInv'
<1>1. promiseJobs' = <<>> /\ enqueued' = ran /\ Pending' = <<>>
  BY DEF Clear, Pending
<1>2. <<>> \in Seq(Jobs) /\ ran \o <<>> = ran
  BY EmptySeq, ConcatEmptySeq DEF OrderInv
<1> QED BY <1>1, <1>2 DEF OrderInv

\* A failure clears the queues.
LEMMA FailKeepsOrder ==
  ASSUME OrderInv, Fail
  PROVE  OrderInv'
BY ClearKeepsOrder DEF Fail

\* The same for a call outside of the batch of promise jobs.
LEMMA CallKeepsOrder ==
  ASSUME OrderInv, Effect, pc # "promise", pc' # "promise", ran' = ran
  PROVE  OrderInv'
<1>1. Pending' = <<>> /\ Pending = <<>>
  BY DEF Pending
<1> QED BY <1>1, EffectKeepsOrder DEF OrderInv

\* Jobs are taken from the queue in order.
LEMMA PromiseStepsKeepOrder ==
  ASSUME OrderInv, TakePromiseJobs \/ RunPromiseJob \/ TakeGenericJobs
  PROVE  OrderInv'
<1>1. CASE TakePromiseJobs
  <2>1. Pending = <<>> /\ Pending' = promiseJobs /\ promiseJobs' = <<>>
        /\ UNCHANGED <<enqueued, ran>>
    BY <1>1 DEF TakePromiseJobs, Pending
  <2>2. /\ <<>> \in Seq(Jobs)
        /\ ran \o <<>> = ran
        /\ (ran \o promiseJobs) \o <<>> = ran \o promiseJobs
    BY EmptySeq, ConcatEmptySeq, ConcatProperties DEF OrderInv
  <2> QED BY <2>1, <2>2 DEF OrderInv
<1>2. CASE RunPromiseJob
  <2>1. CASE Fail
    BY <2>1, FailKeepsOrder
  <2>2. CASE ~ Fail
    <3>1. /\ pc = "promise" /\ pc' = pc /\ batch # <<>> /\ Effect
          /\ batch' = Tail(batch) /\ ran' = Append(ran, Head(batch))
      BY <1>2, <2>2 DEF RunPromiseJob
    <3>2. Pending = batch /\ Pending' = Tail(batch)
      BY <3>1 DEF Pending
    <3>3. /\ ran' \in Seq(Jobs) /\ Pending' \in Seq(Jobs)
          /\ ran' \o Pending' = ran \o Pending
      BY <3>1, <3>2, MoveHead DEF OrderInv
    <3> QED BY <3>1, <3>3, EffectKeepsOrder
  <2> QED BY <2>1, <2>2
<1>3. CASE TakeGenericJobs
  BY <1>3, QuietKeepsOrder DEF TakeGenericJobs, Pending
<1> QED BY <1>1, <1>2, <1>3

\* Every step keeps the order of promise jobs.
LEMMA OrderStep ==
  ASSUME OrderInv, [Next]_vars
  PROVE  OrderInv'
<1> USE DEF Pending
<1>1. CASE Stop
  BY <1>1, ClearKeepsOrder DEF Stop
<1>2. CASE TakePromiseJobs \/ RunPromiseJob \/ TakeGenericJobs
  BY <1>2, PromiseStepsKeepOrder
<1>3. CASE Admit
  BY <1>3, QuietKeepsOrder DEF Admit
<1>4. CASE TakeDue \/ SkipTimer \/ SettleTimer \/ EndTimers
  BY <1>4, QuietKeepsOrder DEF TakeDue, SkipTimer, SettleTimer, EndTimers, script, queues
<1>5. CASE RunTimer
  BY <1>5, FailKeepsOrder, CallKeepsOrder DEF RunTimer
<1>6. CASE PollDetached
  BY <1>6, QuietKeepsOrder, FailKeepsOrder, CallKeepsOrder DEF PollDetached, script, queues
<1>7. CASE PollCleanup
  BY <1>7, FailKeepsOrder, CallKeepsOrder DEF PollCleanup, Idle, LeaveLoop
<1>8. CASE Finish \/ NotIdle
  BY <1>8, QuietKeepsOrder DEF Finish, NotIdle, Idle, LeaveLoop, script, queues
<1>9. CASE PollGroup
  BY <1>9, QuietKeepsOrder, FailKeepsOrder, CallKeepsOrder DEF PollGroup, script, queues
<1>10. CASE RunGenericJob
  BY <1>10, FailKeepsOrder, CallKeepsOrder DEF RunGenericJob
<1>11. CASE EndPass
  BY <1>11, QuietKeepsOrder DEF EndPass, script, queues
<1>12. CASE Unpark
  BY <1>12, FailKeepsOrder, CallKeepsOrder DEF Unpark
<1>13. CASE Resume
  BY <1>13, QuietKeepsOrder DEF Resume, script, queues
<1>14. CASE Embedder
  <2>1. CASE Call
    BY <2>1, CallKeepsOrder DEF Call
  <2>2. CASE DropRun
    BY <2>2, QuietKeepsOrder DEF DropRun, script, queues
  <2>3. ASSUME NEW m \in Modes, Start(m) PROVE OrderInv'
    BY <2>3, QuietKeepsOrder DEF Start
  <2> QED BY <1>14, <2>1, <2>2, <2>3 DEF Embedder
<1>15. CASE World
  BY <1>15, QuietKeepsOrder DEF World, SetStop, Tick, BecomeReady, script, queues
<1>16. CASE UNCHANGED vars
  BY <1>16, QuietKeepsOrder DEF vars, script, queues
<1> QED
  BY <1>1, <1>2, <1>3, <1>4, <1>5, <1>6, <1>7, <1>8, <1>9, <1>10, <1>11, <1>12, <1>13,
     <1>14, <1>15, <1>16 DEF Next, Loop

\* SimpleJobExecutor keeps the order of HostEnqueuePromiseJob: what was enqueued
\* and not dropped by clear() is what ran, then the rest of the batch, then the
\* queue, over every number of jobs, batches, errors and runs.
THEOREM PromiseJobsKeepTheirOrder == Spec => []PromiseJobsInOrder
<1>1. Init => OrderInv
  <2>1. <<>> \in Seq(Jobs) /\ <<>> \o <<>> \o <<>> = <<>>
    BY EmptySeq, ConcatEmptySeq
  <2> QED BY <2>1 DEF Init, OrderInv, Pending
<1>2. OrderInv /\ [Next]_vars => OrderInv'
  BY OrderStep
<1>3. OrderInv => PromiseJobsInOrder
  BY DEF OrderInv, Pending, PromiseJobsInOrder
<1> QED BY <1>1, <1>2, <1>3, PTL DEF Spec

------------------------------------------------------------------------------
(* The callback of a timer that was cleared is not called.                   *)

\* clearTimeout empties the token, and no token is ever filled again.
TokensInv == cleared \subseteq revoked

\* What a job does may revoke tokens, and makes none valid again.
LEMMA EffectRevokes ==
  ASSUME TokensInv, Effect
  PROVE  TokensInv'
<1>1. ASSUME NEW j, NEW k, NEW d, Enqueue(j, k, d) PROVE TokensInv'
  BY <1>1 DEF Enqueue, TokensInv
<1>2. ASSUME NEW j, ClearTimer(j) PROVE TokensInv'
  BY <1>2 DEF ClearTimer, TokensInv
<1>3. CASE ClearAll
  BY <1>3 DEF ClearAll, TokensInv
<1>4. CASE UNCHANGED script
  BY <1>4 DEF script, tokens, TokensInv
<1> QED BY <1>1, <1>2, <1>3, <1>4 DEF Effect

\* The executor's clear leaves the tokens alone.
LEMMA ClearRevokes ==
  ASSUME TokensInv, Clear
  PROVE  TokensInv'
BY DEF Clear, TokensInv

\* Every step keeps the tokens of cleared timers revoked.
LEMMA TokensStep ==
  ASSUME TokensInv, [Next]_vars
  PROVE  TokensInv'
<1>1. CASE Effect
  BY <1>1, EffectRevokes
<1>2. CASE Clear
  BY <1>2, ClearRevokes
<1>3. CASE UNCHANGED <<revoked, cleared>>
  BY <1>3 DEF TokensInv
<1>4. CASE SettleTimer
  BY <1>4 DEF SettleTimer, TokensInv
<1>5. Next => Effect \/ Clear \/ SettleTimer \/ UNCHANGED <<revoked, cleared>>
  <2> USE DEF script, tokens
  <2>1. Stop \/ Fail => Clear
    BY DEF Stop, Fail
  <2>2. RunTimer \/ RunPromiseJob \/ RunGenericJob \/ Unpark \/ PollCleanup \/ Call
          => Effect \/ Fail
    BY DEF RunTimer, RunPromiseJob, RunGenericJob, Unpark, PollCleanup, Call
  <2>3. PollDetached \/ PollGroup => Effect \/ Fail \/ UNCHANGED <<revoked, cleared>>
    BY DEF PollDetached, PollGroup
  <2>4. TakeDue \/ SkipTimer \/ EndTimers \/ Finish \/ NotIdle \/ Resume
          => UNCHANGED <<revoked, cleared>>
    BY DEF TakeDue, SkipTimer, EndTimers, Finish, NotIdle, Resume
  <2>5. Admit \/ TakePromiseJobs \/ TakeGenericJobs \/ EndPass => UNCHANGED <<revoked, cleared>>
    BY DEF Admit, TakePromiseJobs, TakeGenericJobs, EndPass
  <2>6. DropRun \/ World => UNCHANGED <<revoked, cleared>>
    BY DEF DropRun, World, SetStop, Tick, BecomeReady
  <2>7. ASSUME NEW m \in Modes PROVE Start(m) => UNCHANGED <<revoked, cleared>>
    BY DEF Start
  <2> QED BY <2>1, <2>2, <2>3, <2>4, <2>5, <2>6, <2>7 DEF Next, Loop, Embedder
<1> QED BY <1>1, <1>2, <1>3, <1>4, <1>5 DEF vars, script, tokens

\* The only step that calls a timer's callback looks at its token.
LEMMA CallingIsRunTimer ==
  ASSUME Next, NEW j, Calling(j)
  PROVE  RunTimer /\ j \notin revoked
<1> USE DEF Calling
<1>1. ~ (Stop \/ Admit \/ TakeDue \/ SkipTimer \/ SettleTimer \/ EndTimers \/ PollDetached)
  BY DEF Stop, Admit, TakeDue, SkipTimer, SettleTimer, EndTimers, PollDetached
<1>2. ~ (PollCleanup \/ Finish \/ NotIdle \/ PollGroup \/ TakePromiseJobs \/ RunPromiseJob)
  BY DEF PollCleanup, Finish, NotIdle, PollGroup, TakePromiseJobs, RunPromiseJob, Idle
<1>3. ~ (TakeGenericJobs \/ RunGenericJob \/ EndPass \/ Unpark \/ Resume)
  BY DEF TakeGenericJobs, RunGenericJob, EndPass, Unpark, Resume
<1>4. ~ (Embedder \/ World)
  BY DEF Embedder, Call, DropRun, Start, World, SetStop, Tick, BecomeReady
<1>5. RunTimer
  BY <1>1, <1>2, <1>3, <1>4 DEF Next, Loop
<1> QED BY <1>5 DEF RunTimer

\* After clearTimeout or clear_all the callback of a timer is not called, not
\* even when run_jobs had already taken it out of clock_jobs to call it.
THEOREM ClearedTimersNeverRun == Spec => ClearedNeverRuns
<1>1. Init => TokensInv
  BY DEF Init, TokensInv
<1>2. TokensInv /\ [Next]_vars => TokensInv'
  BY TokensStep
<1>3. TokensInv /\ [Next]_vars => [\A j \in cleared : ~ Calling(j)]_vars
  BY CallingIsRunTimer DEF TokensInv
<1> QED BY <1>1, <1>2, <1>3, PTL DEF Spec, ClearedNeverRuns

------------------------------------------------------------------------------
(* Type correctness.                                                         *)

\* TypeOK, for what a job can change and for the rest.
ScriptTypes ==
  /\ kind \in [Jobs -> AllKinds \cup {"none"}]
  /\ delay \in [Jobs -> Delays \cup {0}]
  /\ deadline \in [Jobs -> Instants]
  /\ promiseJobs \in Seq(Jobs) /\ genericJobs \in Seq(Jobs) /\ asyncJobs \in Seq(Jobs)
  /\ cleanupJobs \in Seq(Jobs) /\ enqueued \in Seq(Jobs)
  /\ clockJobs \in [Instants -> Seq(Jobs)]
  /\ active \subseteq Jobs /\ revoked \subseteq Jobs /\ cleared \subseteq Jobs

LoopTypes ==
  /\ batch \in Seq(Jobs) /\ ran \in Seq(Jobs)
  /\ detached \subseteq Jobs /\ ready \subseteq Jobs /\ group \subseteq Jobs
  /\ frGroup \subseteq Jobs /\ dead \subseteq Jobs
  /\ stop \in BOOLEAN /\ deferred \in BOOLEAN
  /\ now \in 0..MaxTime /\ stamp \in 0..MaxTime
  /\ mode \in {"park", "stalled", "cooperative"}
  /\ pc \in {"outside", "top", "due", "clock", "settle", "detached", "idle", "group",
             "take", "promise", "generic", "parked", "yielded"}
  /\ outcome \in {"none", "ok", "stopped", "error", "stalled"}
  /\ pc = "settle" => batch # <<>>

\* The two parts say what TypeOK says.
LEMMA TypesAreTypeOK == ScriptTypes /\ LoopTypes => TypeOK
BY DEF ScriptTypes, LoopTypes, TypeOK

\* An instant that a timer may be queued for.
LEMMA InstantsReach ==
  ASSUME NEW t \in 0..MaxTime, NEW d \in Delays \cup {0}
  PROVE  t \in Instants /\ t + d \in Instants /\ t \in Nat /\ t <= t + d
BY ExecutorAssumption DEF Instants

\* Whatever a job does keeps its part.
LEMMA EffectTypes ==
  ASSUME ScriptTypes, LoopTypes, Effect
  PROVE  ScriptTypes'
<1>1. ASSUME NEW j \in Jobs, NEW k \in Kinds, NEW d \in Delays \cup {0}, Enqueue(j, k, d)
      PROVE  ScriptTypes'
  <2>1. kind' \in [Jobs -> AllKinds \cup {"none"}]
    BY <1>1, ExecutorAssumption DEF Enqueue, ScriptTypes
  <2>2. ASSUME NEW q \in Seq(Jobs), NEW c PROVE AppendIf(c, q, j) \in Seq(Jobs)
    BY AppendProperties DEF AppendIf
  <2>3. /\ promiseJobs' \in Seq(Jobs) /\ genericJobs' \in Seq(Jobs) /\ asyncJobs' \in Seq(Jobs)
        /\ cleanupJobs' \in Seq(Jobs) /\ enqueued' \in Seq(Jobs)
    BY <1>1, <2>2 DEF Enqueue, ScriptTypes
  <2>4. /\ delay' \in [Jobs -> Delays \cup {0}] /\ deadline' \in [Jobs -> Instants]
        /\ clockJobs' \in [Instants -> Seq(Jobs)] /\ active' \subseteq Jobs
    <3>1. now + d \in Instants
      BY InstantsReach DEF LoopTypes
    <3>2. Append(clockJobs[now + d], j) \in Seq(Jobs)
      BY <3>1, AppendProperties DEF ScriptTypes
    <3> QED BY <1>1, <3>1, <3>2 DEF Enqueue, ScriptTypes
  <2> QED BY <1>1, <2>1, <2>3, <2>4 DEF Enqueue, ScriptTypes
<1>2. ASSUME NEW j \in Jobs, ClearTimer(j) PROVE ScriptTypes'
  BY <1>2 DEF ClearTimer, ScriptTypes, queues
<1>3. CASE ClearAll
  BY <1>3 DEF ClearAll, ScriptTypes, queues
<1>4. CASE UNCHANGED script
  BY <1>4 DEF script, queues, tokens, ScriptTypes
<1> QED BY <1>1, <1>2, <1>3, <1>4 DEF Effect

\* What clear() leaves.
LEMMA ClearTypes ==
  ASSUME ScriptTypes, LoopTypes, Clear, active' \subseteq Jobs
  PROVE  /\ ScriptTypes'
         /\ detached' \subseteq Jobs /\ group' \subseteq Jobs /\ frGroup' \subseteq Jobs
         /\ batch' \in Seq(Jobs) /\ dead' \subseteq Jobs
<1>1. <<>> \in Seq(Jobs)
  BY EmptySeq
<1>2. ToSet(promiseJobs) \subseteq Jobs /\ ToSet(genericJobs) \subseteq Jobs
      /\ ToSet(asyncJobs) \subseteq Jobs /\ ToSet(cleanupJobs) \subseteq Jobs
      /\ ToSet(batch) \subseteq Jobs /\ QueuedTimers \subseteq Jobs
  <2>1. ASSUME NEW q \in Seq(Jobs) PROVE ToSet(q) \subseteq Jobs
    BY ToSetFacts
  <2> QED BY <2>1 DEF ScriptTypes, LoopTypes, QueuedTimers
<1>3. Contained \subseteq Jobs /\ DroppedTimers \subseteq Jobs
  BY <1>2 DEF Contained, DroppedTimers, LoopTypes
<1> QED BY <1>1, <1>3 DEF Clear, ScriptTypes, LoopTypes

\* A job that throws.
LEMMA FailTypes ==
  ASSUME ScriptTypes, LoopTypes, Fail
  PROVE  ScriptTypes' /\ LoopTypes'
<1>1. active' \subseteq Jobs
  BY DEF Fail, ScriptTypes
<1> QED BY <1>1, ClearTypes DEF Fail, LoopTypes, world

\* The jobs that run from a batch.
LEMMA BatchTypes ==
  ASSUME ScriptTypes, LoopTypes,
         SkipTimer \/ RunTimer \/ SettleTimer \/ RunPromiseJob \/ RunGenericJob
  PROVE  ScriptTypes' /\ LoopTypes'
<1>1. batch # <<>> => Head(batch) \in Jobs /\ Tail(batch) \in Seq(Jobs)
  BY HeadTailProperties DEF LoopTypes
<1>2. CASE Fail
  BY <1>2, FailTypes
<1>3. CASE SkipTimer
  BY <1>1, <1>3 DEF SkipTimer, ScriptTypes, LoopTypes, script, queues, tokens, world, run
<1>4. CASE RunTimer /\ ~ Fail
  BY <1>4, EffectTypes DEF RunTimer, LoopTypes, world
<1>5. CASE SettleTimer
  <2>1. batch # <<>> /\ Head(batch) \in Jobs
    BY <1>1, <1>5 DEF SettleTimer, LoopTypes
  <2>2. stamp + delay[Head(batch)] \in Instants
    BY <2>1, InstantsReach DEF LoopTypes, ScriptTypes
  <2>3. Append(clockJobs[stamp + delay[Head(batch)]], Head(batch)) \in Seq(Jobs)
    BY <2>1, <2>2, AppendProperties DEF ScriptTypes
  <2> QED BY <1>1, <1>5, <2>1, <2>2, <2>3 DEF SettleTimer, ScriptTypes, LoopTypes, world, run
<1>6. CASE RunPromiseJob /\ ~ Fail
  <2>1. Append(ran, Head(batch)) \in Seq(Jobs)
    BY <1>1, <1>6, AppendProperties DEF RunPromiseJob, LoopTypes
  <2> QED BY <1>1, <1>6, <2>1, EffectTypes DEF RunPromiseJob, LoopTypes, world, run
<1>7. CASE RunGenericJob /\ ~ Fail
  BY <1>1, <1>7, EffectTypes DEF RunGenericJob, LoopTypes, world, run
<1> QED BY <1>2, <1>3, <1>4, <1>5, <1>6, <1>7

\* The jobs that are taken from their queues.
LEMMA TakeTypes ==
  ASSUME ScriptTypes, LoopTypes, Stop \/ Admit \/ TakeDue \/ TakePromiseJobs \/ TakeGenericJobs
  PROVE  ScriptTypes' /\ LoopTypes'
<1>1. <<>> \in Seq(Jobs)
  BY EmptySeq
<1>2. \A k : Of(k) \in Seq(Jobs) /\ ToSet(Of(k)) \subseteq Jobs
  <2>1. asyncJobs \in Seq(Jobs)
    BY DEF ScriptTypes
  <2>2. \A S : Keep(asyncJobs, S) \in Seq(Jobs)
    BY <2>1, KeepFacts
  <2> QED BY <2>2, ToSetFacts DEF Of
<1>3. CASE Stop
  BY <1>3, ClearTypes DEF Stop, ScriptTypes, LoopTypes
<1>4. CASE Admit
  <2>1. ToSet(cleanupJobs) \subseteq Jobs
    BY ToSetFacts DEF ScriptTypes
  <2> QED BY <1>1, <1>2, <1>4, <2>1 DEF Admit, ScriptTypes, LoopTypes, world, tokens
<1>5. CASE TakeDue
  <2>1. now \in Nat /\ \A i \in 1..now : i - 1 \in Instants
    BY ExecutorAssumption DEF LoopTypes, Instants
  <2>2. [i \in 1..now |-> clockJobs[i - 1]] \in Seq(Seq(Jobs))
    BY <2>1 DEF ScriptTypes
  <2>3. batch' \in Seq(Jobs)
    BY <1>5, <2>2, FlattenJoins DEF TakeDue, Joined, JoinedBy
  <2>4. ASSUME NEW t \in Instants PROVE Keep(clockJobs[t], Jobs \ revoked) \in Seq(Jobs)
    BY KeepFacts DEF ScriptTypes
  <2>5. clockJobs' \in [Instants -> Seq(Jobs)]
    BY <1>1, <1>5, <2>4 DEF TakeDue
  <2> QED BY <1>5, <2>3, <2>5 DEF TakeDue, ScriptTypes, LoopTypes, world, tokens, run
<1>6. CASE TakePromiseJobs
  BY <1>1, <1>6 DEF TakePromiseJobs, ScriptTypes, LoopTypes, world, tokens, run
<1>7. CASE TakeGenericJobs
  BY <1>1, <1>7 DEF TakeGenericJobs, ScriptTypes, LoopTypes, world, tokens, run
<1> QED BY <1>3, <1>4, <1>5, <1>6, <1>7

\* The futures, and the places of the loop where it looks at them.
LEMMA PollTypes ==
  ASSUME ScriptTypes, LoopTypes,
         EndTimers \/ PollDetached \/ PollCleanup \/ Finish \/ NotIdle \/ PollGroup
           \/ EndPass \/ Unpark \/ Resume
  PROVE  ScriptTypes' /\ LoopTypes'
<1>1. CASE Fail
  BY <1>1, FailTypes
<1>2. CASE UNCHANGED script
  <2>1. ScriptTypes'
    BY <1>2 DEF script, queues, tokens, ScriptTypes
  <2>2. CASE EndTimers \/ NotIdle \/ Resume
    BY <2>1, <2>2 DEF EndTimers, NotIdle, Resume, LoopTypes, world, run
  <2>3. CASE Finish
    BY <2>1, <2>3 DEF Finish, LeaveLoop, Idle, LoopTypes, world
  <2>4. CASE EndPass
    BY <2>1, <2>4 DEF EndPass, LoopTypes, world
  <2>5. CASE PollDetached /\ ~ Fail
    BY <2>1, <2>5 DEF PollDetached, LoopTypes, world, run
  <2>6. CASE PollCleanup /\ ~ Fail
    BY <2>1, <2>6 DEF PollCleanup, LeaveLoop, LoopTypes, world
  <2>7. CASE PollGroup /\ ~ Fail
    BY <2>1, <2>7 DEF PollGroup, LoopTypes, world, run
  <2>8. CASE Unpark /\ ~ Fail
    BY <2>1, <2>8 DEF Unpark, LoopTypes, world
  <2> QED BY <1>1, <2>2, <2>3, <2>4, <2>5, <2>6, <2>7, <2>8
<1>3. CASE Effect /\ ~ UNCHANGED script /\ ~ Fail
  <2>1. ScriptTypes'
    BY <1>3, EffectTypes
  <2>2. CASE PollDetached
    BY <1>3, <2>1, <2>2 DEF PollDetached, LoopTypes, world, run
  <2>3. CASE PollCleanup
    BY <1>3, <2>1, <2>3 DEF PollCleanup, LeaveLoop, LoopTypes, world
  <2>4. CASE PollGroup
    BY <1>3, <2>1, <2>4 DEF PollGroup, LoopTypes, world
  <2>5. CASE Unpark
    BY <1>3, <2>1, <2>5 DEF Unpark, LoopTypes, world
  <2>6. ~ (EndTimers \/ Finish \/ NotIdle \/ EndPass \/ Resume)
    BY <1>3 DEF EndTimers, Finish, NotIdle, EndPass, Resume
  <2> QED BY <2>2, <2>3, <2>4, <2>5, <2>6
<1> QED BY <1>1, <1>2, <1>3 DEF EndTimers, PollDetached, PollCleanup, Finish, NotIdle, PollGroup,
             EndPass, Unpark, Resume

\* The embedder, and what other threads do.
LEMMA OutsideTypes ==
  ASSUME ScriptTypes, LoopTypes, Embedder \/ World
  PROVE  ScriptTypes' /\ LoopTypes'
<1>1. CASE Call
  BY <1>1, EffectTypes DEF Call, LoopTypes, world, run
<1>2. CASE DropRun
  BY <1>2 DEF DropRun, ScriptTypes, LoopTypes, script, queues, tokens, world
<1>3. ASSUME NEW m \in Modes, Start(m) PROVE ScriptTypes' /\ LoopTypes'
  <2>1. asyncJobs \in Seq(Jobs) /\ m \in {"park", "stalled", "cooperative"}
    BY ExecutorAssumption DEF ScriptTypes
  <2>2. \A k : Of(k) \in Seq(Jobs) /\ ToSet(Of(k)) \subseteq Jobs
    <3>1. \A S : Keep(asyncJobs, S) \in Seq(Jobs)
      BY <2>1, KeepFacts
    <3> QED BY <3>1, ToSetFacts DEF Of
  <2> QED BY <1>3, <2>1, <2>2 DEF Start, ScriptTypes, LoopTypes, world, tokens
<1>4. CASE SetStop
  BY <1>4 DEF SetStop, ScriptTypes, LoopTypes, script, queues, tokens, run
<1>5. CASE Tick
  BY <1>5, ExecutorAssumption DEF Tick, ScriptTypes, LoopTypes, script, queues, tokens, run
<1>6. ASSUME NEW j \in Jobs, BecomeReady(j) PROVE ScriptTypes' /\ LoopTypes'
  BY <1>6 DEF BecomeReady, ScriptTypes, LoopTypes, script, queues, tokens, run
<1> QED BY <1>1, <1>2, <1>3, <1>4, <1>5, <1>6 DEF Embedder, World

\* Every step keeps the types.
LEMMA TypesStep ==
  ASSUME ScriptTypes, LoopTypes, [Next]_vars
  PROVE  ScriptTypes' /\ LoopTypes'
<1>1. CASE UNCHANGED vars
  BY <1>1 DEF vars, ScriptTypes, LoopTypes, script, queues, tokens, run, world
<1> QED BY <1>1, BatchTypes, TakeTypes, PollTypes, OutsideTypes DEF Next, Loop

\* The executor and the timers start with the right types.
LEMMA TypesStart ==
  ASSUME Init
  PROVE  ScriptTypes /\ LoopTypes
<1>1. <<>> \in Seq(Jobs) /\ 0 \in Instants /\ 0 \in 0..MaxTime
  BY EmptySeq, ExecutorAssumption DEF Instants
<1> QED BY <1>1 DEF Init, ScriptTypes, LoopTypes

\* Whatever jobs do, however long they run, every queue holds jobs, every timer
\* is queued for an instant of the clock, and the loop is at one of its places.
THEOREM TheExecutorsTypesAreCorrect == Spec => []TypeOK
<1> DEFINE Types == ScriptTypes /\ LoopTypes
<1>1. Init => Types
  BY TypesStart
<1>2. Types /\ [Next]_vars => Types'
  BY TypesStep
<1>3. Types => TypeOK
  BY TypesAreTypeOK
<1> QED BY <1>1, <1>2, <1>3, PTL DEF Spec

------------------------------------------------------------------------------
(* The queues, the groups and the table of timers hold what they should.     *)

\* What the container a job is in says of its kind, and what is in two of them.
\* p, g, a, c, q and b are the jobs of the four queues, of clock_jobs and of the
\* batch, det, grp and frg the futures, and dd what was dropped.
Fits(kd, p, g, a, c, q, act, rev, det, grp, frg, b, dd) ==
  /\ \A j \in p : kd[j] = "promise"
  /\ \A j \in g : kd[j] = "generic"
  /\ \A j \in a : kd[j] \in {"contextual", "detached"}
  /\ \A j \in c : kd[j] = "cleanup"
  /\ \A j \in q : kd[j] \in Timers
  /\ \A j \in det : kd[j] = "detached"
  /\ \A j \in grp : kd[j] = "contextual" /\ j \notin a
  /\ \A j \in frg : kd[j] = "cleanup" /\ j \notin c
  /\ \A j \in b \cup rev \cup dd : kd[j] # "none"
  /\ \A j \in dd : kd[j] \in Timers => j \in rev
  /\ \A j \in dd : j \notin p \cup g \cup a \cup c \cup q \cup det \cup grp \cup frg \cup b
  /\ act \ rev = {j \in q \cup b : kd[j] \in Timers /\ j \notin rev}

\* The invariant's first part in a state, with the groups, the batch and what was
\* dropped as they are given.
Fit(det, grp, frg, b, dd) ==
  Fits(kind, ToSet(promiseJobs), ToSet(genericJobs), ToSet(asyncJobs), ToSet(cleanupJobs),
       QueuedTimers, active, revoked, det, grp, frg, b, dd)

\* The kinds of the jobs of the batch, by the place in the loop.
BatchKinds ==
  CASE pc \in {"clock", "settle"} -> Timers
    [] pc = "promise" -> {"promise"}
    [] pc = "generic" -> {"generic"}
    [] OTHER -> {}

BatchFits == \A j \in ToSet(batch) : kind[j] \in BatchKinds

\* Where the loop can be when the last run has ended well.
LoopEnds == (pc # "outside" => outcome # "ok") /\ CompleteMeansEmpty

QueuesInv == Fit(detached, group, frGroup, ToSet(batch), dead) /\ BatchFits /\ LoopEnds


\* Every queue holds jobs.
LEMMA QueuesHoldJobs ==
  ASSUME ScriptTypes
  PROVE  /\ ToSet(promiseJobs) \subseteq Jobs /\ ToSet(genericJobs) \subseteq Jobs
         /\ ToSet(asyncJobs) \subseteq Jobs /\ ToSet(cleanupJobs) \subseteq Jobs
         /\ QueuedTimers \subseteq Jobs
<1>1. ASSUME NEW q \in Seq(Jobs) PROVE ToSet(q) \subseteq Jobs
  BY ToSetFacts
<1> QED BY <1>1 DEF ScriptTypes, QueuedTimers

\* A timer that is enqueued is queued for its instant.
LEMMA EnqueuedTimers ==
  ASSUME ScriptTypes, LoopTypes, NEW j \in Jobs, NEW k \in Kinds, NEW d \in Delays \cup {0},
         Enqueue(j, k, d)
  PROVE  \A i : i \in QueuedTimers' <=> i \in QueuedTimers \/ (i = j /\ k \in Timers)
<1>1. CASE k \notin Timers
  BY <1>1 DEF Enqueue, QueuedTimers
<1>2. CASE k \in Timers
  <2>1. PICK t \in Instants : t = now + d
    BY InstantsReach DEF LoopTypes
  <2>2. clockJobs' = [clockJobs EXCEPT ![t] = Append(clockJobs[t], j)]
    BY <1>2, <2>1 DEF Enqueue
  <2>3. ToSet(Append(clockJobs[t], j)) = ToSet(clockJobs[t]) \cup {j}
    BY ToSetMoves DEF ScriptTypes
  <2>4. \A u \in Instants : ToSet(clockJobs'[u]) =
          IF u = t THEN ToSet(clockJobs[u]) \cup {j} ELSE ToSet(clockJobs[u])
    BY <2>2, <2>3 DEF ScriptTypes
  <2> QED BY <1>2, <2>4 DEF QueuedTimers
<1> QED BY <1>1, <1>2

\* A job that is new: it is queued for its kind, and nothing else changes.
LEMMA FitsNew ==
  ASSUME NEW kd, NEW p, NEW g, NEW a, NEW c, NEW q, NEW act, NEW rev,
         NEW det, NEW grp, NEW frg, NEW b, NEW dd,
         Fits(kd, p, g, a, c, q, act, rev, det, grp, frg, b, dd),
         p \cup g \cup a \cup c \cup q \cup rev \cup det \cup grp \cup frg \cup b \cup dd
           \subseteq Jobs,
         NEW j, kd[j] = "none", NEW k \in AllKinds,
         NEW kd2, kd2[j] = k, \A i \in Jobs : i # j => kd2[i] = kd[i],
         NEW p2, \A i : i \in p2 <=> i \in p \/ (i = j /\ k = "promise"),
         NEW g2, \A i : i \in g2 <=> i \in g \/ (i = j /\ k = "generic"),
         NEW a2, \A i : i \in a2 <=> i \in a \/ (i = j /\ k \in {"contextual", "detached"}),
         NEW c2, \A i : i \in c2 <=> i \in c \/ (i = j /\ k = "cleanup"),
         NEW q2, \A i : i \in q2 <=> i \in q \/ (i = j /\ k \in Timers),
         NEW act2, act2 = IF k \in Timers THEN (act \ rev) \cup {j} ELSE act
  PROVE  Fits(kd2, p2, g2, a2, c2, q2, act2, rev, det, grp, frg, b, dd)
<1>1. k # "none"
  BY DEF AllKinds
<1>2. /\ j \notin p /\ j \notin g /\ j \notin a /\ j \notin c /\ j \notin q /\ j \notin det
      /\ j \notin grp /\ j \notin frg /\ j \notin b /\ j \notin rev /\ j \notin dd
  BY DEF Fits, Timers
<1>3. \A i \in p \cup g \cup a \cup c \cup q \cup rev \cup det \cup grp \cup frg \cup b \cup dd :
        i # j /\ kd2[i] = kd[i]
  BY <1>2
<1>4. act2 \ rev = {i \in q2 \cup b : kd2[i] \in Timers /\ i \notin rev}
  <2>1. act \ rev = {i \in q \cup b : kd[i] \in Timers /\ i \notin rev}
    BY DEF Fits
  <2>2. j \notin act \/ j \in rev
    BY <1>2, <2>1
  <2>3. \A i : i \in q2 \cup b /\ kd2[i] \in Timers /\ i \notin rev
               <=> i \in act \ rev \/ (i = j /\ k \in Timers)
    BY <1>2, <1>3, <2>1
  <2>4. \A i : i \in act2 \ rev <=> i \in act \ rev \/ (i = j /\ k \in Timers)
    BY <1>2, <2>2
  <2> QED BY <2>3, <2>4
<1>5. /\ \A i \in p2 : kd2[i] = "promise"
      /\ \A i \in g2 : kd2[i] = "generic"
      /\ \A i \in a2 : kd2[i] \in {"contextual", "detached"}
      /\ \A i \in c2 : kd2[i] = "cleanup"
      /\ \A i \in q2 : kd2[i] \in Timers
  BY <1>3 DEF Fits
<1>6. /\ \A i \in det : kd2[i] = "detached"
      /\ \A i \in grp : kd2[i] = "contextual" /\ i \notin a2
      /\ \A i \in frg : kd2[i] = "cleanup" /\ i \notin c2
      /\ \A i \in b \cup rev \cup dd : kd2[i] # "none"
  BY <1>1, <1>3 DEF Fits
<1>7. /\ \A i \in dd : kd2[i] \in Timers => i \in rev
      /\ \A i \in dd : i \notin p2 \cup g2 \cup a2 \cup c2 \cup q2 \cup det \cup grp
                                \cup frg \cup b
  BY <1>2, <1>3 DEF Fits
<1> QED BY <1>4, <1>5, <1>6, <1>7 DEF Fits

\* Tokens that are revoked.
LEMMA FitsRevoked ==
  ASSUME NEW kd, NEW p, NEW g, NEW a, NEW c, NEW q, NEW act, NEW rev,
         NEW det, NEW grp, NEW frg, NEW b, NEW dd,
         Fits(kd, p, g, a, c, q, act, rev, det, grp, frg, b, dd),
         NEW R, \A i \in R : i \in rev \/ i \in act,
         NEW rev2, rev2 = rev \cup R, NEW act2, act2 \ rev2 = act \ rev2
  PROVE  Fits(kd, p, g, a, c, q, act2, rev2, det, grp, frg, b, dd)
<1>1. act \ rev = {i \in q \cup b : kd[i] \in Timers /\ i \notin rev}
  BY DEF Fits
<1>2. act2 \ rev2 = {i \in q \cup b : kd[i] \in Timers /\ i \notin rev2}
  BY <1>1
<1>3. \A i \in R : kd[i] # "none"
  BY <1>1 DEF Fits, Timers
<1> QED BY <1>2, <1>3 DEF Fits

\* Futures and jobs that leave, some of them for good.
LEMMA FitsLess ==
  ASSUME NEW kd, NEW p, NEW g, NEW a, NEW c, NEW q, NEW act, NEW rev,
         NEW det, NEW grp, NEW frg, NEW b, NEW dd,
         Fits(kd, p, g, a, c, q, act, rev, det, grp, frg, b, dd),
         NEW det2, NEW grp2, NEW frg2, NEW b2, NEW dd2,
         det2 \subseteq det, grp2 \subseteq grp, frg2 \subseteq frg, b2 \subseteq b,
         \A i \in b \ b2 : kd[i] \in Timers => i \in rev,
         \A i \in dd2 \ dd : i \in (grp \ grp2) \cup (frg \ frg2) /\ i \notin b2
  PROVE  Fits(kd, p, g, a, c, q, act, rev, det2, grp2, frg2, b2, dd2)
<1>1. act \ rev = {i \in q \cup b : kd[i] \in Timers /\ i \notin rev}
  BY DEF Fits
<1>2. act \ rev = {i \in q \cup b2 : kd[i] \in Timers /\ i \notin rev}
  BY <1>1
<1>3. ASSUME NEW i \in dd2
      PROVE  /\ kd[i] # "none"
             /\ kd[i] \in Timers => i \in rev
             /\ i \notin p \cup g \cup a \cup c \cup q \cup det2 \cup grp2 \cup frg2 \cup b2
  <2>1. CASE i \in dd
    BY <2>1 DEF Fits
  <2>2. CASE i \in grp \ grp2 /\ i \notin b2
    BY <2>2 DEF Fits, Timers
  <2>3. CASE i \in frg \ frg2 /\ i \notin b2
    BY <2>3 DEF Fits, Timers
  <2> QED BY <2>1, <2>2, <2>3
<1> QED BY <1>2, <1>3 DEF Fits

\* What a job does while the groups and the batch stay.
LEMMA EffectFits ==
  ASSUME ScriptTypes, LoopTypes, Effect, NEW det, NEW grp, NEW frg, NEW b, NEW dd,
         Fit(det, grp, frg, b, dd), det \cup grp \cup frg \cup b \cup dd \subseteq Jobs
  PROVE  /\ Fit(det, grp, frg, b, dd)'
         /\ \A i \in Jobs : kind[i] # "none" => kind'[i] = kind[i]
<1>1. ASSUME NEW j \in Jobs, NEW k \in Kinds, NEW d \in Delays \cup {0}, Enqueue(j, k, d)
      PROVE  /\ Fit(det, grp, frg, b, dd)'
             /\ \A i \in Jobs : kind[i] # "none" => kind'[i] = kind[i]
  <2>1. /\ kind[j] = "none" /\ k \in AllKinds /\ kind'[j] = k
        /\ \A i \in Jobs : i # j => kind'[i] = kind[i]
    BY <1>1, ExecutorAssumption DEF Enqueue, ScriptTypes
  <2>2. ASSUME NEW s \in Seq(Jobs)
        PROVE  \A i : i \in ToSet(Append(s, j)) <=> i \in ToSet(s) \/ i = j
    BY ToSetMoves
  <2>3. /\ \A i : i \in ToSet(promiseJobs') <=> i \in ToSet(promiseJobs) \/ (i = j /\ k = "promise")
        /\ \A i : i \in ToSet(genericJobs') <=> i \in ToSet(genericJobs) \/ (i = j /\ k = "generic")
        /\ \A i : i \in ToSet(asyncJobs') <=>
             i \in ToSet(asyncJobs) \/ (i = j /\ k \in {"contextual", "detached"})
        /\ \A i : i \in ToSet(cleanupJobs') <=> i \in ToSet(cleanupJobs) \/ (i = j /\ k = "cleanup")
    <3>1. /\ promiseJobs' = IF k = "promise" THEN Append(promiseJobs, j) ELSE promiseJobs
          /\ genericJobs' = IF k = "generic" THEN Append(genericJobs, j) ELSE genericJobs
          /\ asyncJobs' = IF k \in {"contextual", "detached"} THEN Append(asyncJobs, j)
                          ELSE asyncJobs
          /\ cleanupJobs' = IF k = "cleanup" THEN Append(cleanupJobs, j) ELSE cleanupJobs
      BY <1>1 DEF Enqueue, AppendIf
    <3>2. /\ promiseJobs \in Seq(Jobs) /\ genericJobs \in Seq(Jobs) /\ asyncJobs \in Seq(Jobs)
          /\ cleanupJobs \in Seq(Jobs)
      BY DEF ScriptTypes
    <3>3. \A i : i \in ToSet(promiseJobs') <=> i \in ToSet(promiseJobs) \/ (i = j /\ k = "promise")
      BY ONLY <2>2, <3>1, <3>2
    <3>4. \A i : i \in ToSet(genericJobs') <=> i \in ToSet(genericJobs) \/ (i = j /\ k = "generic")
      BY ONLY <2>2, <3>1, <3>2
    <3>5. \A i : i \in ToSet(asyncJobs') <=>
             i \in ToSet(asyncJobs) \/ (i = j /\ k \in {"contextual", "detached"})
      BY ONLY <2>2, <3>1, <3>2
    <3>6. \A i : i \in ToSet(cleanupJobs') <=> i \in ToSet(cleanupJobs) \/ (i = j /\ k = "cleanup")
      BY ONLY <2>2, <3>1, <3>2
    <3> QED BY ONLY <3>3, <3>4, <3>5, <3>6
  <2>4. \A i : i \in QueuedTimers' <=> i \in QueuedTimers \/ (i = j /\ k \in Timers)
    BY <1>1, EnqueuedTimers
  <2>5. active' = (IF k \in Timers THEN (active \ revoked) \cup {j} ELSE active)
        /\ revoked' = revoked
    BY <1>1 DEF Enqueue
  <2>6. ToSet(promiseJobs) \cup ToSet(genericJobs) \cup ToSet(asyncJobs) \cup ToSet(cleanupJobs)
        \cup QueuedTimers \cup revoked \cup det \cup grp \cup frg \cup b \cup dd \subseteq Jobs
    BY QueuesHoldJobs DEF ScriptTypes
  <2>7. PICK kd, p, g, a, c, q, act, kd2, p2, g2, a2, c2, q2, act2, rev :
          /\ kd = kind /\ p = ToSet(promiseJobs) /\ g = ToSet(genericJobs)
          /\ a = ToSet(asyncJobs) /\ c = ToSet(cleanupJobs) /\ q = QueuedTimers /\ act = active
          /\ kd2 = kind' /\ p2 = ToSet(promiseJobs') /\ g2 = ToSet(genericJobs')
          /\ a2 = ToSet(asyncJobs') /\ c2 = ToSet(cleanupJobs') /\ q2 = QueuedTimers'
          /\ act2 = active' /\ rev = revoked
    OBVIOUS
  <2>8. Fits(kd2, p2, g2, a2, c2, q2, act2, rev, det, grp, frg, b, dd)
    <3>1. Fits(kd, p, g, a, c, q, act, rev, det, grp, frg, b, dd)
      BY <2>7 DEF Fit
    <3>2. /\ kd[j] = "none" /\ k \in AllKinds /\ kd2[j] = k
          /\ \A i \in Jobs : i # j => kd2[i] = kd[i]
          /\ act2 = IF k \in Timers THEN (act \ rev) \cup {j} ELSE act
          /\ p \cup g \cup a \cup c \cup q \cup rev \cup det \cup grp \cup frg \cup b \cup dd
               \subseteq Jobs
      BY <2>1, <2>5, <2>6, <2>7
    <3>3. /\ \A i : i \in p2 <=> i \in p \/ (i = j /\ k = "promise")
          /\ \A i : i \in g2 <=> i \in g \/ (i = j /\ k = "generic")
          /\ \A i : i \in a2 <=> i \in a \/ (i = j /\ k \in {"contextual", "detached"})
          /\ \A i : i \in c2 <=> i \in c \/ (i = j /\ k = "cleanup")
          /\ \A i : i \in q2 <=> i \in q \/ (i = j /\ k \in Timers)
      BY <2>3, <2>4, <2>7
    <3> QED BY ONLY <3>1, <3>2, <3>3, FitsNew
  <2> QED BY <2>1, <2>5, <2>7, <2>8 DEF Fit
<1>2. ASSUME NEW j \in Jobs, ClearTimer(j) PROVE Fit(det, grp, frg, b, dd)' /\ kind' = kind
  <2>1. Fits(kind, ToSet(promiseJobs), ToSet(genericJobs), ToSet(asyncJobs), ToSet(cleanupJobs),
             QueuedTimers, active', revoked', det, grp, frg, b, dd)
    <3>1. revoked' = revoked \cup {j} /\ active' \ revoked' = active \ revoked'
          /\ \A i \in {j} : i \in revoked \/ i \in active
      BY <1>2 DEF ClearTimer
    <3> QED BY <3>1, FitsRevoked DEF Fit
  <2>2. UNCHANGED <<kind, promiseJobs, genericJobs, asyncJobs, cleanupJobs, clockJobs>>
    BY <1>2 DEF ClearTimer, queues
  <2> QED BY <2>1, <2>2 DEF Fit, QueuedTimers
<1>3. ASSUME ClearAll PROVE Fit(det, grp, frg, b, dd)' /\ kind' = kind
  <2>1. Fits(kind, ToSet(promiseJobs), ToSet(genericJobs), ToSet(asyncJobs), ToSet(cleanupJobs),
             QueuedTimers, active', revoked', det, grp, frg, b, dd)
    <3>1. revoked' = revoked \cup active /\ active' \ revoked' = active \ revoked'
          /\ \A i \in active : i \in revoked \/ i \in active
      BY <1>3 DEF ClearAll
    <3> QED BY <3>1, FitsRevoked DEF Fit
  <2>2. UNCHANGED <<kind, promiseJobs, genericJobs, asyncJobs, cleanupJobs, clockJobs>>
    BY <1>3 DEF ClearAll, queues
  <2> QED BY <2>1, <2>2 DEF Fit, QueuedTimers
<1>4. ASSUME UNCHANGED script PROVE Fit(det, grp, frg, b, dd)' /\ kind' = kind
  BY <1>4 DEF script, queues, tokens, Fit, QueuedTimers
<1> QED BY <1>1, <1>2, <1>3, <1>4 DEF Effect

\* A call after which some futures and jobs have left.
LEMMA CallFits ==
  ASSUME ScriptTypes, LoopTypes, Effect, Fit(detached, group, frGroup, ToSet(batch), dead),
         detached' \subseteq detached, group' \subseteq group, frGroup' \subseteq frGroup,
         ToSet(batch') \subseteq ToSet(batch),
         \A i \in ToSet(batch) \ ToSet(batch') : kind[i] \notin Timers,
         \A i \in dead' \ dead : i \in frGroup \ frGroup' /\ i \notin ToSet(batch')
  PROVE  /\ Fit(detached, group, frGroup, ToSet(batch), dead)'
         /\ \A i \in Jobs : kind[i] # "none" => kind'[i] = kind[i]
<1>1. PICK det, grp, frg, b, dd : /\ det = detached /\ grp = group /\ frg = frGroup
                                  /\ b = ToSet(batch) /\ dd = dead
  OBVIOUS
<1>2. det \cup grp \cup frg \cup b \cup dd \subseteq Jobs
  BY <1>1, ToSetFacts DEF LoopTypes
<1>3. /\ Fit(det, grp, frg, b, dd)'
      /\ \A i \in Jobs : kind[i] # "none" => kind'[i] = kind[i]
  BY <1>1, <1>2, EffectFits
<1>4. \A i \in b : kind'[i] = kind[i]
  BY <1>1, <1>2, <1>3 DEF Fit, Fits
<1>5. PICK kd, p, g, a, c, q, act, rev, det2, grp2, frg2, b2, dd2 :
        /\ kd = kind' /\ p = ToSet(promiseJobs') /\ g = ToSet(genericJobs')
        /\ a = ToSet(asyncJobs') /\ c = ToSet(cleanupJobs') /\ q = QueuedTimers'
        /\ act = active' /\ rev = revoked' /\ det2 = detached' /\ grp2 = group'
        /\ frg2 = frGroup' /\ b2 = ToSet(batch') /\ dd2 = dead'
  OBVIOUS
<1>6. Fits(kd, p, g, a, c, q, act, rev, det, grp, frg, b, dd)
  BY <1>3, <1>5 DEF Fit
<1>7. /\ det2 \subseteq det /\ grp2 \subseteq grp /\ frg2 \subseteq frg /\ b2 \subseteq b
      /\ \A i \in b \ b2 : kd[i] \in Timers => i \in rev
      /\ \A i \in dd2 \ dd : i \in (grp \ grp2) \cup (frg \ frg2) /\ i \notin b2
  BY <1>1, <1>4, <1>5
<1>8. Fits(kd, p, g, a, c, q, act, rev, det2, grp2, frg2, b2, dd2)
  BY ONLY <1>6, <1>7, FitsLess
<1> QED BY <1>3, <1>5, <1>8 DEF Fit

\* Futures and jobs leave without a call.
LEMMA LeaveFits ==
  ASSUME Fit(detached, group, frGroup, ToSet(batch), dead), UNCHANGED script,
         detached' \subseteq detached, group' \subseteq group, frGroup' \subseteq frGroup,
         ToSet(batch') \subseteq ToSet(batch),
         \A i \in ToSet(batch) \ ToSet(batch') : i \in revoked,
         \A i \in dead' \ dead :
           i \in (group \ group') \cup (frGroup \ frGroup') /\ i \notin ToSet(batch')
  PROVE  Fit(detached, group, frGroup, ToSet(batch), dead)'
<1>1. Fits(kind, ToSet(promiseJobs), ToSet(genericJobs), ToSet(asyncJobs), ToSet(cleanupJobs),
           QueuedTimers, active, revoked, detached', group', frGroup', ToSet(batch'), dead')
  BY FitsLess DEF Fit
<1> QED BY <1>1 DEF Fit, QueuedTimers, script, queues, tokens

\* clear() leaves the kinds of what was dropped, and every timer of it revoked.
LEMMA ClearFits ==
  ASSUME ScriptTypes, LoopTypes, Fit(detached, group, frGroup, ToSet(batch), dead),
         Clear, active' \subseteq active
  PROVE  Fit(detached, group, frGroup, ToSet(batch), dead)' /\ ToSet(batch)' = {}
<1>1. /\ ToSet(promiseJobs)' = {} /\ ToSet(genericJobs)' = {} /\ ToSet(asyncJobs)' = {}
      /\ ToSet(cleanupJobs)' = {} /\ ToSet(batch)' = {} /\ QueuedTimers' = {}
  BY ToSetMoves DEF Clear, QueuedTimers, ToSet
<1>2. /\ kind' = kind /\ revoked' = revoked \cup DroppedTimers /\ dead' = dead \cup Contained
      /\ detached' = {} /\ group' = {} /\ frGroup' = {}
  BY DEF Clear
<1>3. active \ revoked = {j \in QueuedTimers \cup ToSet(batch) : kind[j] \in Timers /\ j \notin revoked}
  BY DEF Fit, Fits
<1>4. active' \ revoked' = {}
  BY <1>2, <1>3 DEF DroppedTimers
<1>5. ASSUME NEW j \in Contained PROVE kind[j] # "none" /\ (kind[j] \in Timers => j \in DroppedTimers)
  BY DEF Contained, DroppedTimers, Fit, Fits, Timers
<1>6. ASSUME NEW j \in DroppedTimers PROVE kind[j] # "none"
  BY DEF DroppedTimers, Timers
<1>7. Fits(kind, {}, {}, {}, {}, {}, active', revoked', {}, {}, {}, {}, dead')
  BY <1>2, <1>4, <1>5, <1>6 DEF Fit, Fits
<1> QED BY <1>1, <1>2, <1>7 DEF Fit

\* The futures that are admitted to their groups.
LEMMA FitsAdmitted ==
  ASSUME NEW kd, NEW p, NEW g, NEW a, NEW c, NEW q, NEW act, NEW rev,
         NEW det, NEW grp, NEW frg, NEW b, NEW dd,
         Fits(kd, p, g, a, c, q, act, rev, det, grp, frg, b, dd),
         NEW a2, NEW c2, NEW det2, NEW grp2, NEW frg2,
         a2 \subseteq a, c2 \subseteq c,
         \A i \in det2 : i \in det \/ (i \in a /\ kd[i] = "detached"),
         \A i \in grp2 : (i \in grp \/ (i \in a /\ kd[i] = "contextual")) /\ i \notin a2,
         \A i \in frg2 : (i \in frg \/ i \in c) /\ i \notin c2
  PROVE  Fits(kd, p, g, a2, c2, q, act, rev, det2, grp2, frg2, b, dd)
BY DEF Fits

\* The jobs that are taken from the queues; of the timers only the revoked may
\* get lost.
LEMMA FitsTaken ==
  ASSUME NEW kd, NEW p, NEW g, NEW a, NEW c, NEW q, NEW act, NEW rev,
         NEW det, NEW grp, NEW frg, NEW dd,
         Fits(kd, p, g, a, c, q, act, rev, det, grp, frg, {}, dd),
         NEW p2, NEW g2, NEW q2, NEW b,
         p2 \subseteq p, g2 \subseteq g, q2 \subseteq q, b \subseteq p \cup g \cup q,
         \A i \in q : i \in q2 \/ i \in b \/ i \in rev
  PROVE  Fits(kd, p2, g2, a, c, q2, act, rev, det, grp, frg, b, dd)
<1>1. act \ rev = {i \in q : kd[i] \in Timers /\ i \notin rev}
  BY DEF Fits
<1>2. \A i \in b : i \in q \/ kd[i] \notin Timers
  BY DEF Fits, Timers
<1>3. act \ rev = {i \in q2 \cup b : kd[i] \in Timers /\ i \notin rev}
  BY <1>1, <1>2
<1>4. \A i \in b : kd[i] # "none"
  BY DEF Fits, Timers
<1>5. \A i \in dd : i \notin b
  BY DEF Fits
<1> QED BY <1>3, <1>4, <1>5 DEF Fits

\* A timer that was called.
LEMMA FitsSettled ==
  ASSUME NEW kd, NEW p, NEW g, NEW a, NEW c, NEW q, NEW act, NEW rev,
         NEW det, NEW grp, NEW frg, NEW b, NEW dd,
         Fits(kd, p, g, a, c, q, act, rev, det, grp, frg, b, dd),
         NEW j, NEW b2, b = b2 \cup {j}, kd[j] \in Timers,
         NEW act2, NEW rev2, NEW q2,
         \/ act2 = act \ {j} /\ rev2 = rev \cup {j} /\ q2 = q
         \/ act2 = act /\ rev2 = rev /\ q2 = q \cup {j}
  PROVE  Fits(kd, p, g, a, c, q2, act2, rev2, det, grp, frg, b2, dd)
<1>1. act \ rev = {i \in q \cup b : kd[i] \in Timers /\ i \notin rev}
  BY DEF Fits
<1>2. act2 \ rev2 = {i \in q2 \cup b2 : kd[i] \in Timers /\ i \notin rev2}
  BY <1>1
<1>3. /\ j \notin dd /\ kd[j] # "none"
      /\ \A i \in q2 : kd[i] \in Timers
  BY DEF Fits
<1> QED BY <1>2, <1>3 DEF Fits

\* The asynchronous jobs of a kind.
LEMMA OfKinds ==
  ASSUME ScriptTypes, NEW k
  PROVE  ToSet(Of(k)) = {i \in ToSet(asyncJobs) : kind[i] = k}
<1>1. asyncJobs \in Seq(Jobs) /\ ToSet(asyncJobs) \subseteq Jobs
  BY ToSetFacts DEF ScriptTypes
<1>2. PICK S, q, t : S = {j \in Jobs : kind[j] = k} /\ q = asyncJobs /\ t = Keep(q, S)
  OBVIOUS
<1>3. ToSet(t) = ToSet(q) \cap S
  BY ONLY <1>1, <1>2, KeepElements
<1>4. t = Of(k)
  BY <1>2 DEF Of
<1> QED BY <1>1, <1>2, <1>3, <1>4

\* The timers that TakeDue takes, and those that it leaves.
LEMMA DueTimers ==
  ASSUME ScriptTypes, LoopTypes, TakeDue
  PROVE  /\ QueuedTimers' \subseteq QueuedTimers
         /\ ToSet(batch') \subseteq QueuedTimers
         /\ \A i \in QueuedTimers : i \in QueuedTimers' \/ i \in ToSet(batch') \/ i \in revoked
<1>1. PICK n, ss, b : n = now /\ ss = [i \in 1..n |-> clockJobs[i - 1]] /\ b = batch'
  OBVIOUS
<1>2. /\ n \in Nat /\ (\A i \in 1..n : i - 1 \in Instants)
      /\ \A t \in Instants : t < n => t + 1 \in 1..n /\ (t + 1) - 1 = t
  BY <1>1, ExecutorAssumption DEF LoopTypes, Instants
<1>3. ss \in Seq(Seq(Jobs)) /\ Len(ss) = n
  BY <1>1, <1>2 DEF ScriptTypes
<1>4. b = FlattenSeq(ss)
  BY <1>1 DEF TakeDue
<1>5. \A x : x \in ToSet(b) <=> \E k \in 1..n : x \in ToSet(ss[k])
  BY <1>3, <1>4, FlattenElements
<1>6. ASSUME NEW x PROVE x \in ToSet(b) <=> \E t \in Instants : t < n /\ x \in ToSet(clockJobs[t])
  <2>1. ASSUME NEW k \in 1..n, x \in ToSet(ss[k])
        PROVE  \E t \in Instants : t < n /\ x \in ToSet(clockJobs[t])
    <3>1. k - 1 \in Instants /\ k - 1 < n /\ ss[k] = clockJobs[k - 1]
      BY <1>1, <1>2
    <3> QED BY <2>1, <3>1
  <2>2. ASSUME NEW t \in Instants, t < n, x \in ToSet(clockJobs[t])
        PROVE  \E k \in 1..n : x \in ToSet(ss[k])
    <3>1. t + 1 \in 1..n /\ ss[t + 1] = clockJobs[t]
      BY <1>1, <1>2, <2>2
    <3> QED BY <2>2, <3>1
  <2> QED BY <1>5, <2>1, <2>2
<1>7. ASSUME NEW t \in Instants
      PROVE  ToSet(clockJobs'[t]) = IF t < n THEN {} ELSE ToSet(clockJobs[t]) \ revoked
  <2>1. clockJobs[t] \in Seq(Jobs) /\ ToSet(clockJobs[t]) \subseteq Jobs
    BY ToSetFacts DEF ScriptTypes
  <2>5. PICK S, q, u : S = Jobs \ revoked /\ q = clockJobs[t] /\ u = Keep(q, S)
    OBVIOUS
  <2>2. ToSet(u) = ToSet(q) \cap S
    BY ONLY <2>1, <2>5, KeepElements
  <2>3. clockJobs'[t] = IF t < n THEN <<>> ELSE u
    BY <1>1, <2>5 DEF TakeDue
  <2>4. ToSet(<<>>) = {}
    BY DEF ToSet
  <2> QED BY <2>1, <2>2, <2>3, <2>4, <2>5
<1>8. /\ \A x : x \in QueuedTimers <=> \E t \in Instants : x \in ToSet(clockJobs[t])
      /\ \A x : x \in QueuedTimers' <=> \E t \in Instants : x \in ToSet(clockJobs'[t])
  BY DEF QueuedTimers
<1>9. ASSUME NEW x \in QueuedTimers' PROVE x \in QueuedTimers
  <2>1. PICK t \in Instants : x \in ToSet(clockJobs'[t])
    BY <1>8
  <2> QED BY ONLY <1>7, <1>8, <2>1
<1>10. ASSUME NEW x \in ToSet(b) PROVE x \in QueuedTimers
  BY ONLY <1>6, <1>8, x \in ToSet(b)
<1>11. ASSUME NEW x \in QueuedTimers, x \notin ToSet(b), x \notin revoked PROVE x \in QueuedTimers'
  <2>1. PICK t \in Instants : x \in ToSet(clockJobs[t])
    BY <1>8
  <2>2. ~ (t < n)
    BY <1>6, <1>11, <2>1
  <2>3. x \in ToSet(clockJobs'[t])
    BY ONLY <1>7, <1>11, <2>1, <2>2
  <2> QED BY <1>8, <2>3
<1> QED BY ONLY <1>1, <1>9, <1>10, <1>11

\* What a job's call leaves of the batch.
LEMMA RestOfBatch ==
  ASSUME LoopTypes, batch # <<>>
  PROVE  ToSet(batch) = ToSet(Tail(batch)) \cup {Head(batch)} /\ Head(batch) \in Jobs
BY ToSetMoves, HeadTailProperties DEF LoopTypes

\* An empty batch has no elements.
LEMMA EmptyBatch ==
  ASSUME LoopTypes
  PROVE  batch = <<>> <=> ToSet(batch) = {}
BY ToSetMoves DEF LoopTypes, ToSet

\* Fit and BatchFits when a job that is called throws.
LEMMA FailKeepsFit ==
  ASSUME ScriptTypes, LoopTypes, QueuesInv, Fail
  PROVE  Fit(detached, group, frGroup, ToSet(batch), dead)' /\ BatchFits'
<1>1. Clear /\ active' \subseteq active
  BY DEF Fail
<1> QED BY <1>1, ClearFits DEF QueuesInv, BatchFits

\* The same for the steps that run a job of the batch.
LEMMA BatchStepsKeepFit ==
  ASSUME ScriptTypes, LoopTypes, QueuesInv,
         SkipTimer \/ RunTimer \/ SettleTimer \/ RunPromiseJob \/ RunGenericJob
  PROVE  Fit(detached, group, frGroup, ToSet(batch), dead)' /\ BatchFits'
<1> USE DEF QueuesInv
<1>1. CASE Fail
  BY <1>1, FailKeepsFit
<1>2. CASE SkipTimer
  <2>1. /\ ToSet(batch) = ToSet(batch') \cup {Head(batch)} /\ Head(batch) \in revoked
        /\ UNCHANGED <<script, detached, group, frGroup, dead, pc>>
    BY <1>2, RestOfBatch DEF SkipTimer, run
  <2>2. BatchFits'
    BY <2>1 DEF BatchFits, BatchKinds, script
  <2> QED BY <2>1, <2>2, LeaveFits
<1>3. CASE RunTimer /\ ~ Fail
  <2>1. /\ Effect /\ pc = "clock" /\ pc' = "settle"
        /\ UNCHANGED <<detached, group, frGroup, batch, dead>>
    BY <1>3 DEF RunTimer
  <2>2. /\ Fit(detached, group, frGroup, ToSet(batch), dead)'
        /\ \A i \in Jobs : kind[i] # "none" => kind'[i] = kind[i]
    BY <2>1, CallFits
  <2>3. BatchFits'
    BY <2>1, <2>2, ToSetFacts DEF BatchFits, BatchKinds, Timers, LoopTypes
  <2> QED BY <2>2, <2>3
<1>4. CASE SettleTimer
  <2>1. batch # <<>> /\ pc = "settle" /\ pc' = "clock" /\ batch' = Tail(batch)
    BY <1>4 DEF SettleTimer, LoopTypes
  <2>2. PICK j : j = Head(batch) /\ ToSet(batch) = ToSet(batch') \cup {j} /\ j \in Jobs
    BY <2>1, RestOfBatch
  <2>3. kind[j] \in Timers
    BY <2>1, <2>2 DEF BatchFits, BatchKinds
  <2>4. UNCHANGED <<kind, promiseJobs, genericJobs, asyncJobs, cleanupJobs, detached, group,
                    frGroup, dead>>
    BY <1>4 DEF SettleTimer, run
  <2>5. \/ active' = active \ {j} /\ revoked' = revoked \cup {j} /\ QueuedTimers' = QueuedTimers
        \/ /\ active' = active /\ revoked' = revoked
           /\ QueuedTimers' = QueuedTimers \cup {j}
    <3>1. CASE kind[j] = "timeout"
      BY <1>4, <2>2, <3>1 DEF SettleTimer, QueuedTimers
    <3>2. CASE kind[j] # "timeout"
      <4>1. PICK t \in Instants : t = stamp + delay[j]
        BY <2>2, InstantsReach DEF LoopTypes, ScriptTypes
      <4>2. /\ clockJobs' = [clockJobs EXCEPT ![t] = Append(clockJobs[t], j)]
            /\ active' = active /\ revoked' = revoked
        BY <1>4, <2>2, <3>2, <4>1 DEF SettleTimer
      <4>3. ToSet(Append(clockJobs[t], j)) = ToSet(clockJobs[t]) \cup {j}
        BY <2>2, ToSetMoves DEF ScriptTypes
      <4>4. \A u \in Instants : ToSet(clockJobs'[u]) =
              IF u = t THEN ToSet(clockJobs[u]) \cup {j} ELSE ToSet(clockJobs[u])
        BY <4>2, <4>3 DEF ScriptTypes
      <4>5. QueuedTimers' = QueuedTimers \cup {j}
        BY <4>1, <4>4 DEF QueuedTimers
      <4> QED BY <4>2, <4>5
    <3> QED BY <3>1, <3>2
  <2>6. Fits(kind, ToSet(promiseJobs), ToSet(genericJobs), ToSet(asyncJobs), ToSet(cleanupJobs),
             QueuedTimers', active', revoked', detached, group, frGroup, ToSet(batch'), dead)
    BY <2>2, <2>3, <2>5, FitsSettled DEF Fit
  <2>7. BatchFits'
    BY <2>1, <2>2, <2>4 DEF BatchFits, BatchKinds
  <2> QED BY <2>4, <2>6, <2>7 DEF Fit
<1>5. CASE (RunPromiseJob \/ RunGenericJob) /\ ~ Fail
  <2>1. /\ Effect /\ pc \in {"promise", "generic"} /\ pc' = pc /\ batch # <<>>
        /\ batch' = Tail(batch) /\ UNCHANGED <<detached, group, frGroup, dead>>
    BY <1>5 DEF RunPromiseJob, RunGenericJob, run
  <2>2. ToSet(batch') \subseteq ToSet(batch) /\ ToSet(batch) \subseteq Jobs
    BY <2>1, RestOfBatch, ToSetFacts DEF LoopTypes
  <2>3. \A i \in ToSet(batch) : kind[i] \notin Timers /\ kind[i] # "none"
    BY <2>1 DEF BatchFits, BatchKinds, Timers
  <2>4. /\ Fit(detached, group, frGroup, ToSet(batch), dead)'
        /\ \A i \in Jobs : kind[i] # "none" => kind'[i] = kind[i]
    BY <2>1, <2>2, <2>3, CallFits
  <2>5. BatchFits'
    BY <2>1, <2>2, <2>3, <2>4 DEF BatchFits, BatchKinds
  <2> QED BY <2>4, <2>5
<1> QED BY <1>1, <1>2, <1>3, <1>4, <1>5

\* The same for the steps that take jobs from their queues.
LEMMA TakeStepsKeepFit ==
  ASSUME ScriptTypes, LoopTypes, QueuesInv,
         Stop \/ Admit \/ TakeDue \/ TakePromiseJobs \/ TakeGenericJobs
  PROVE  Fit(detached, group, frGroup, ToSet(batch), dead)' /\ BatchFits'
<1> USE DEF QueuesInv
<1>1. CASE Stop
  <2>1. Clear /\ active' \subseteq active
    BY <1>1 DEF Stop
  <2> QED BY <2>1, ClearFits DEF BatchFits
<1>2. CASE Admit
  <2>1. /\ ToSet(batch) = {} /\ batch' = batch
        /\ UNCHANGED <<kind, promiseJobs, genericJobs, clockJobs, active, revoked, dead>>
    BY <1>2 DEF Admit, BatchFits, BatchKinds, tokens
  <2>2. /\ ToSet(Of("detached")) = {i \in ToSet(asyncJobs) : kind[i] = "detached"}
        /\ ToSet(Of("contextual")) = {i \in ToSet(asyncJobs) : kind[i] = "contextual"}
    BY OfKinds
  <2>3. ToSet(<<>>) = {}
    BY DEF ToSet
  <2>4. /\ ToSet(asyncJobs') \subseteq ToSet(asyncJobs)
        /\ ToSet(cleanupJobs') \subseteq ToSet(cleanupJobs)
        /\ \A i \in detached' : i \in detached \/ (i \in ToSet(asyncJobs) /\ kind[i] = "detached")
        /\ \A i \in group' : /\ i \in group \/ (i \in ToSet(asyncJobs) /\ kind[i] = "contextual")
                             /\ i \notin ToSet(asyncJobs')
        /\ \A i \in frGroup' : /\ i \in frGroup \/ i \in ToSet(cleanupJobs)
                               /\ i \notin ToSet(cleanupJobs')
    <3>1. CASE mode = "stalled"
      BY <1>2, <2>2, <3>1 DEF Admit, Fit, Fits
    <3>2. CASE mode # "stalled"
      BY <1>2, <2>2, <2>3, <3>2 DEF Admit
    <3> QED BY <3>1, <3>2
  <2>5. Fits(kind, ToSet(promiseJobs), ToSet(genericJobs), ToSet(asyncJobs'), ToSet(cleanupJobs'),
             QueuedTimers, active, revoked, detached', group', frGroup', ToSet(batch), dead)
    BY <2>4, FitsAdmitted DEF Fit
  <2> QED BY <2>1, <2>5 DEF Fit, QueuedTimers, BatchFits
<1>3. CASE TakeDue
  <2>1. /\ ToSet(batch) = {}
        /\ UNCHANGED <<kind, promiseJobs, genericJobs, asyncJobs, cleanupJobs, active, revoked,
                       detached, group, frGroup, dead>>
        /\ pc' = "clock"
    BY <1>3 DEF TakeDue, BatchFits, BatchKinds, tokens, run
  <2>2. /\ QueuedTimers' \subseteq QueuedTimers
        /\ ToSet(batch') \subseteq QueuedTimers
        /\ \A i \in QueuedTimers : i \in QueuedTimers' \/ i \in ToSet(batch') \/ i \in revoked
    BY <1>3, DueTimers
  <2>3. Fits(kind, ToSet(promiseJobs), ToSet(genericJobs), ToSet(asyncJobs), ToSet(cleanupJobs),
             QueuedTimers', active, revoked, detached, group, frGroup, ToSet(batch'), dead)
    BY <2>1, <2>2, FitsTaken DEF Fit
  <2>4. BatchFits'
    BY <2>1, <2>2 DEF BatchFits, BatchKinds, Fit, Fits
  <2> QED BY <2>1, <2>3, <2>4 DEF Fit
<1>4. CASE TakePromiseJobs
  <2>1. /\ ToSet(batch) = {} /\ batch' = promiseJobs /\ ToSet(promiseJobs') = {} /\ pc' = "promise"
        /\ UNCHANGED <<kind, genericJobs, asyncJobs, cleanupJobs, clockJobs, active, revoked,
                       detached, group, frGroup, dead>>
    BY <1>4 DEF TakePromiseJobs, BatchFits, BatchKinds, tokens, run, ToSet
  <2>2. Fits(kind, ToSet(promiseJobs'), ToSet(genericJobs), ToSet(asyncJobs), ToSet(cleanupJobs),
             QueuedTimers, active, revoked, detached, group, frGroup, ToSet(batch'), dead)
    BY <2>1, FitsTaken DEF Fit
  <2>3. BatchFits'
    BY <2>1 DEF BatchFits, BatchKinds, Fit, Fits
  <2> QED BY <2>1, <2>2, <2>3 DEF Fit, QueuedTimers
<1>5. CASE TakeGenericJobs
  <2>1. /\ ToSet(batch) = {} /\ batch' = genericJobs /\ ToSet(genericJobs') = {} /\ pc' = "generic"
        /\ UNCHANGED <<kind, promiseJobs, asyncJobs, cleanupJobs, clockJobs, active, revoked,
                       detached, group, frGroup, dead>>
    BY <1>5 DEF TakeGenericJobs, tokens, run, ToSet
  <2>2. Fits(kind, ToSet(promiseJobs), ToSet(genericJobs'), ToSet(asyncJobs), ToSet(cleanupJobs),
             QueuedTimers, active, revoked, detached, group, frGroup, ToSet(batch'), dead)
    BY <2>1, FitsTaken DEF Fit
  <2>3. BatchFits'
    BY <2>1 DEF BatchFits, BatchKinds, Fit, Fits
  <2> QED BY <2>1, <2>2, <2>3 DEF Fit, QueuedTimers
<1> QED BY <1>1, <1>2, <1>3, <1>4, <1>5

\* The same for the rest of the loop: where no batch is under way, a step calls at
\* most one job, and what leaves the groups was polled or is dropped.
LEMMA PollStepsKeepFit ==
  ASSUME ScriptTypes, LoopTypes, QueuesInv,
         EndTimers \/ PollDetached \/ PollCleanup \/ Finish \/ NotIdle \/ PollGroup
           \/ EndPass \/ Unpark \/ Resume
  PROVE  Fit(detached, group, frGroup, ToSet(batch), dead)' /\ BatchFits'
<1> USE DEF QueuesInv
<1>1. ToSet(batch) = {}
  <2>1. EndTimers \/ EndPass => batch = <<>>
    BY DEF EndTimers, EndPass
  <2>2. PollDetached \/ PollCleanup \/ Finish \/ NotIdle \/ PollGroup \/ Unpark \/ Resume
          => pc \in {"detached", "idle", "group", "parked", "yielded"}
    BY DEF PollDetached, PollCleanup, Finish, NotIdle, PollGroup, Unpark, Resume, Idle
  <2> QED BY <2>1, <2>2, EmptyBatch DEF BatchFits, BatchKinds
<1>2. CASE Fail
  BY <1>2, FailKeepsFit
<1>3. ASSUME ~ Fail PROVE batch' = batch
  BY <1>3 DEF EndTimers, PollDetached, PollCleanup, Finish, NotIdle, PollGroup, EndPass, Unpark,
              Resume
<1>4. ASSUME ~ Fail PROVE BatchFits'
  BY <1>1, <1>3, <1>4 DEF BatchFits
<1>5. ASSUME ~ Fail
      PROVE  detached' \subseteq detached /\ group' \subseteq group /\ frGroup' \subseteq frGroup
  BY <1>5 DEF EndTimers, PollDetached, PollCleanup, Finish, NotIdle, PollGroup, EndPass, Unpark,
              Resume, LeaveLoop, run
<1>6. ASSUME ~ Fail PROVE \A i \in dead' \ dead : i \in (group \ group') \cup (frGroup \ frGroup')
  BY <1>6 DEF EndTimers, PollDetached, PollCleanup, Finish, NotIdle, PollGroup, EndPass, Unpark,
              Resume, LeaveLoop, run
<1>7. CASE UNCHANGED script /\ ~ Fail
  BY <1>1, <1>3, <1>4, <1>5, <1>6, <1>7, LeaveFits
<1>8. CASE Effect /\ ~ UNCHANGED script /\ ~ Fail
  <2>1. dead' = dead \/ PollCleanup
    BY <1>8 DEF EndTimers, PollDetached, Finish, NotIdle, PollGroup, EndPass, Unpark, Resume
  <2>2. \A i \in dead' \ dead : i \in frGroup \ frGroup'
    BY <1>8, <2>1 DEF PollCleanup, LeaveLoop
  <2> QED BY <1>1, <1>3, <1>4, <1>5, <1>8, <2>2, CallFits
<1>9. Effect \/ UNCHANGED script \/ Fail
  BY DEF EndTimers, PollDetached, PollCleanup, Finish, NotIdle, PollGroup, EndPass, Unpark, Resume
<1> QED BY <1>2, <1>7, <1>8, <1>9

\* The same for the embedder and the other threads.
LEMMA OutsideStepsKeepFit ==
  ASSUME ScriptTypes, LoopTypes, QueuesInv, Embedder \/ World \/ UNCHANGED vars
  PROVE  Fit(detached, group, frGroup, ToSet(batch), dead)' /\ BatchFits'
<1> USE DEF QueuesInv
<1>1. CASE Call
  <2>1. /\ Effect /\ pc' = pc /\ ToSet(batch) = {}
        /\ UNCHANGED <<detached, group, frGroup, batch, dead>>
    BY <1>1 DEF Call, BatchFits, BatchKinds, run
  <2>2. Fit(detached, group, frGroup, ToSet(batch), dead)'
    BY <2>1, CallFits
  <2> QED BY <2>1, <2>2 DEF BatchFits
<1>2. CASE DropRun
  <2>1. /\ UNCHANGED <<script, detached, batch>> /\ ToSet(batch) = {}
        /\ group' = {} /\ frGroup' = {} /\ dead' = dead \cup group \cup frGroup
    BY <1>2 DEF DropRun, BatchFits, BatchKinds
  <2> QED BY <2>1, LeaveFits DEF BatchFits
<1>3. ASSUME NEW m \in Modes, Start(m)
      PROVE  Fit(detached, group, frGroup, ToSet(batch), dead)' /\ BatchFits'
  <2>1. /\ ToSet(batch) = {}
        /\ UNCHANGED <<kind, promiseJobs, genericJobs, cleanupJobs, clockJobs, active, revoked,
                       group, frGroup, batch, dead>>
    BY <1>3 DEF Start, BatchFits, BatchKinds, tokens
  <2>2. /\ ToSet(Of("detached")) = {i \in ToSet(asyncJobs) : kind[i] = "detached"}
        /\ ToSet(Of("contextual")) = {i \in ToSet(asyncJobs) : kind[i] = "contextual"}
    BY OfKinds
  <2>3. /\ ToSet(asyncJobs') \subseteq ToSet(asyncJobs)
        /\ \A i \in detached' : i \in detached \/ (i \in ToSet(asyncJobs) /\ kind[i] = "detached")
    BY <1>3, <2>2 DEF Start
  <2>4. /\ \A i \in group : i \notin ToSet(asyncJobs')
        /\ \A i \in frGroup : i \notin ToSet(cleanupJobs)
    BY <2>3 DEF Fit, Fits
  <2>5. Fits(kind, ToSet(promiseJobs), ToSet(genericJobs), ToSet(asyncJobs'), ToSet(cleanupJobs),
             QueuedTimers, active, revoked, detached', group, frGroup, ToSet(batch), dead)
    BY <2>3, <2>4, FitsAdmitted DEF Fit
  <2> QED BY <2>1, <2>5 DEF Fit, QueuedTimers, BatchFits
<1>4. CASE World \/ UNCHANGED vars
  <2>1. UNCHANGED <<script, detached, group, frGroup, batch, dead, pc>>
    BY <1>4 DEF World, SetStop, Tick, BecomeReady, vars, run
  <2>2. Fit(detached, group, frGroup, ToSet(batch), dead)'
    BY <2>1, LeaveFits
  <2> QED BY <2>1, <2>2 DEF BatchFits, BatchKinds, script
<1> QED BY <1>1, <1>2, <1>3, <1>4 DEF Embedder

\* A run ends well only where the loop is left with nothing to do.
LEMMA EndsStep ==
  ASSUME ScriptTypes, LoopTypes, QueuesInv, [Next]_vars
  PROVE  LoopEnds'
<1> USE DEF QueuesInv
<1>1. CASE pc # "outside" /\ (outcome' = outcome \/ outcome' # "ok")
  BY <1>1 DEF LoopEnds, CompleteMeansEmpty
<1>2. CASE outcome' # "ok"
  BY <1>2 DEF LoopEnds, CompleteMeansEmpty
<1>3. CASE Finish
  BY <1>3 DEF Finish, Idle, LeaveLoop, LoopEnds, CompleteMeansEmpty, IsEmpty, QueuedEmpty,
              ImmediateEmpty, script, queues
<1>4. CASE PollCleanup /\ IsEmpty'
  BY <1>4 DEF PollCleanup, Idle, LeaveLoop, Fail, LoopEnds, CompleteMeansEmpty
<1>5. CASE World \/ UNCHANGED vars
  <2>1. UNCHANGED <<promiseJobs, genericJobs, asyncJobs, cleanupJobs, clockJobs, detached, group,
                    pc, outcome>>
    BY <1>5 DEF World, SetStop, Tick, BecomeReady, vars, run, script, queues
  <2> QED BY <2>1 DEF LoopEnds, CompleteMeansEmpty, IsEmpty, QueuedEmpty, ImmediateEmpty
<1>6. Fail => outcome' # "ok"
  BY DEF Fail
<1>7. Stop \/ Admit \/ TakeDue \/ SkipTimer \/ SettleTimer \/ EndTimers \/ NotIdle \/ EndPass
        \/ TakePromiseJobs \/ TakeGenericJobs \/ Resume
        => pc # "outside" /\ (outcome' = outcome \/ outcome' # "ok")
  BY DEF Stop, Admit, TakeDue, SkipTimer, SettleTimer, EndTimers, NotIdle, EndPass,
         TakePromiseJobs, TakeGenericJobs, Resume, Idle
<1>8. RunTimer \/ RunPromiseJob \/ RunGenericJob \/ PollDetached \/ PollGroup \/ Unpark
        => pc # "outside" /\ (outcome' = outcome \/ outcome' # "ok")
  BY <1>6 DEF RunTimer, RunPromiseJob, RunGenericJob, PollDetached, PollGroup, Unpark
<1>9. PollCleanup /\ ~ IsEmpty' => pc # "outside" /\ (outcome' = outcome \/ outcome' # "ok")
  BY <1>6 DEF PollCleanup, Idle
<1>10. Embedder => outcome' # "ok" \/ (pc # "outside" /\ outcome' = outcome)
  BY DEF Embedder, Call, DropRun, Start
<1> QED BY <1>1, <1>2, <1>3, <1>4, <1>5, <1>7, <1>8, <1>9, <1>10 DEF Next, Loop

\* Every step keeps the invariant.
LEMMA QueuesStep ==
  ASSUME ScriptTypes, LoopTypes, QueuesInv, [Next]_vars
  PROVE  QueuesInv'
<1>1. Fit(detached, group, frGroup, ToSet(batch), dead)' /\ BatchFits'
  BY BatchStepsKeepFit, TakeStepsKeepFit, PollStepsKeepFit, OutsideStepsKeepFit DEF Next, Loop
<1> QED BY <1>1, EndsStep DEF QueuesInv

\* The executor starts with nothing.
LEMMA QueuesStart ==
  ASSUME Init
  PROVE  QueuesInv
<1>1. ToSet(<<>>) = {}
  BY DEF ToSet
<1>2. QueuedTimers = {}
  BY <1>1 DEF Init, QueuedTimers
<1> QED BY <1>1, <1>2 DEF Init, QueuesInv, Fit, Fits, BatchFits, LoopEnds, CompleteMeansEmpty

\* The invariant says what was to be shown.
LEMMA QueuesInvIsExact == QueuesInv => QueuesAreExact
<1> SUFFICES ASSUME QueuesInv PROVE QueuesAreExact
  OBVIOUS
<1>1. DroppedForGood
  BY DEF QueuesInv, Fit, Fits, DroppedForGood, Contained
<1>2. CompleteMeansEmpty
  BY DEF QueuesInv, LoopEnds
<1>3. ActiveIsQueued
  BY DEF QueuesInv, Fit, Fits, ActiveIsQueued
<1> QED BY <1>1, <1>2, <1>3 DEF QueuesAreExact

\* Between any two steps what clear() or the end of a run has dropped is in no
\* container and its timers are revoked, a run that ended well has left nothing
\* to do, and the table of setTimeout names exactly the timers that are queued or
\* in the batch and not revoked.
THEOREM TheQueuesAreExact == Spec => []QueuesAreExact
<1> DEFINE Inv == (ScriptTypes /\ LoopTypes) /\ QueuesInv
<1>1. Init => Inv
  BY TypesStart, QueuesStart
<1>2. Inv /\ [Next]_vars => Inv'
  BY TypesStep, QueuesStep
<1>3. Inv => QueuesAreExact
  BY QueuesInvIsExact
<1> QED BY <1>1, <1>2, <1>3, PTL DEF Spec

------------------------------------------------------------------------------
(* Timers are called in the order of their deadlines.                        *)

\* The instants cj of clock_jobs and the batch b hold each timer once, the batch
\* in the order of the deadlines dl, all of them before h and before those that
\* are still queued.
Timely(cj, dl, b, h) ==
  /\ \A t \in Instants : IsInjective(cj[t]) /\ \A i \in 1..Len(cj[t]) : dl[cj[t][i]] = t
  /\ IsInjective(b)
  /\ \A i \in 1..Len(b) : dl[b[i]] < h
  /\ \A i, k \in 1..Len(b) : i < k => dl[b[i]] <= dl[b[k]]
  /\ \A i \in 1..Len(b), t \in Instants :
       /\ \A k \in 1..Len(cj[t]) : cj[t][k] # b[i]
       /\ cj[t] # <<>> => dl[b[i]] <= t

TimerBatch == IF pc \in {"clock", "settle"} THEN batch ELSE <<>>
Horizon == IF pc = "settle" THEN stamp ELSE now

TimersInv ==
  /\ Timely(clockJobs, deadline, TimerBatch, Horizon)
  /\ pc = "settle" => batch # <<>> /\ stamp <= now

\* Timely needs no more of clock_jobs than where each timer is.
LEMMA TimelyAt ==
  ASSUME NEW cj \in [Instants -> Seq(Jobs)], NEW dl \in [Jobs -> Instants],
         NEW b \in Seq(Jobs), NEW h \in Nat,
         \A t \in Instants : \A i, k \in 1..Len(cj[t]) : cj[t][i] = cj[t][k] => i = k,
         \A t \in Instants : \A i \in 1..Len(cj[t]) : dl[cj[t][i]] = t,
         \A i, k \in 1..Len(b) : b[i] = b[k] => i = k,
         \A i \in 1..Len(b) : dl[b[i]] < h,
         \A i, k \in 1..Len(b) : i < k => dl[b[i]] <= dl[b[k]],
         \A i \in 1..Len(b), t \in Instants :
           /\ \A k \in 1..Len(cj[t]) : cj[t][k] # b[i]
           /\ cj[t] # <<>> => dl[b[i]] <= t
  PROVE  Timely(cj, dl, b, h)
<1>1. DOMAIN b = 1..Len(b) /\ \A t \in Instants : DOMAIN cj[t] = 1..Len(cj[t])
  BY LenProperties
<1>2. IsInjective(b) /\ \A t \in Instants : IsInjective(cj[t])
  BY <1>1 DEF IsInjective
<1> QED BY <1>2 DEF Timely

\* And this is what it gives.
LEMMA TimelyIs ==
  ASSUME NEW cj \in [Instants -> Seq(Jobs)], NEW dl, NEW b \in Seq(Jobs), NEW h,
         Timely(cj, dl, b, h)
  PROVE  /\ \A t \in Instants : \A i, k \in 1..Len(cj[t]) : cj[t][i] = cj[t][k] => i = k
         /\ \A t \in Instants : \A i \in 1..Len(cj[t]) : dl[cj[t][i]] = t
         /\ \A i, k \in 1..Len(b) : b[i] = b[k] => i = k
         /\ \A i \in 1..Len(b) : dl[b[i]] < h
         /\ \A i, k \in 1..Len(b) : i < k => dl[b[i]] <= dl[b[k]]
         /\ \A i \in 1..Len(b), t \in Instants :
              /\ \A k \in 1..Len(cj[t]) : cj[t][k] # b[i]
              /\ cj[t] # <<>> => dl[b[i]] <= t
<1>1. DOMAIN b = 1..Len(b) /\ \A t \in Instants : DOMAIN cj[t] = 1..Len(cj[t])
  BY LenProperties
<1>2. IsInjective(b) /\ \A t \in Instants : IsInjective(cj[t])
  BY DEF Timely
<1>3. \A t \in Instants : \A i, k \in 1..Len(cj[t]) : cj[t][i] = cj[t][k] => i = k
  BY <1>1, <1>2 DEF IsInjective
<1>4. \A i, k \in 1..Len(b) : b[i] = b[k] => i = k
  BY <1>1, <1>2 DEF IsInjective
<1> QED BY <1>3, <1>4 DEF Timely

\* A timer that is nowhere is queued for an instant that is not before h.
LEMMA TimelyNew ==
  ASSUME NEW cj \in [Instants -> Seq(Jobs)], NEW dl \in [Jobs -> Instants],
         NEW b \in Seq(Jobs), NEW h \in Nat, Timely(cj, dl, b, h),
         NEW t \in Instants, h <= t, NEW j \in Jobs, j \notin ToSet(b),
         \A u \in Instants : j \notin ToSet(cj[u]),
         NEW cj2, cj2 = [cj EXCEPT ![t] = Append(cj[t], j)],
         NEW dl2, dl2 = [dl EXCEPT ![j] = t]
  PROVE  Timely(cj2, dl2, b, h)
<1>1. PICK l : l = Len(cj[t]) /\ l \in Nat
  BY LenProperties
<1>2. /\ cj2 \in [Instants -> Seq(Jobs)] /\ dl2 \in [Jobs -> Instants]
      /\ Len(cj2[t]) = l + 1 /\ cj2[t][l + 1] = j
      /\ \A i \in 1..l : cj2[t][i] = cj[t][i]
      /\ \A u \in Instants : u # t => cj2[u] = cj[u]
  BY <1>1, AppendProperties
<1>3. /\ \A u \in Instants : \A i \in 1..Len(cj[u]) : cj[u][i] # j /\ cj[u][i] \in Jobs
      /\ \A i \in 1..Len(b) : b[i] # j /\ b[i] \in Jobs
  <2>1. ASSUME NEW u \in Instants, NEW i \in 1..Len(cj[u]) PROVE cj[u][i] # j /\ cj[u][i] \in Jobs
    <3>1. PICK s \in Seq(Jobs) : s = cj[u]
      OBVIOUS
    <3>2. s[i] \in ToSet(s) /\ s[i] \in Jobs
      BY <2>1, <3>1, ToSetFacts, ElementOfSeq
    <3> QED BY <3>1, <3>2
  <2>2. ASSUME NEW i \in 1..Len(b) PROVE b[i] # j /\ b[i] \in Jobs
    BY ToSetFacts, ElementOfSeq
  <2> QED BY <2>1, <2>2
<1>4. \A k \in Jobs : dl2[k] = IF k = j THEN t ELSE dl[k]
  OBVIOUS
<1>5. /\ \A u \in Instants : \A i, k \in 1..Len(cj[u]) : cj[u][i] = cj[u][k] => i = k
      /\ \A u \in Instants : \A i \in 1..Len(cj[u]) : dl[cj[u][i]] = u
      /\ \A i, k \in 1..Len(b) : b[i] = b[k] => i = k
      /\ \A i \in 1..Len(b) : dl[b[i]] < h
      /\ \A i, k \in 1..Len(b) : i < k => dl[b[i]] <= dl[b[k]]
      /\ \A i \in 1..Len(b), u \in Instants :
           /\ \A k \in 1..Len(cj[u]) : cj[u][k] # b[i]
           /\ cj[u] # <<>> => dl[b[i]] <= u
  BY TimelyIs
<1>6. \A i \in 1..l + 1 : i \in 1..l \/ i = l + 1
  BY ONLY <1>1
<1>7. ASSUME NEW u \in Instants, NEW i \in 1..Len(cj2[u]), NEW k \in 1..Len(cj2[u]),
             cj2[u][i] = cj2[u][k]
      PROVE  i = k
  <2>1. CASE u # t
    BY <1>2, <1>5, <1>7, <2>1
  <2>2. CASE u = t
    <3>1. \A n \in 1..l : cj2[t][n] # j /\ n \in 1..Len(cj[t])
      BY <1>1, <1>2, <1>3
    <3>2. (i \in 1..l \/ i = l + 1) /\ (k \in 1..l \/ k = l + 1)
      BY <1>2, <1>6, <1>7, <2>2
    <3>3. CASE i \in 1..l /\ k \in 1..l
      BY ONLY <1>2, <1>5, <1>7, <2>2, <3>1, <3>3
    <3>4. CASE i = l + 1 \/ k = l + 1
      BY ONLY <1>2, <1>7, <2>2, <3>1, <3>2, <3>4
    <3> QED BY <3>2, <3>3, <3>4
  <2> QED BY <2>1, <2>2
<1>8. ASSUME NEW u \in Instants, NEW i \in 1..Len(cj2[u]) PROVE dl2[cj2[u][i]] = u
  <2>1. CASE u # t
    BY <1>2, <1>3, <1>4, <1>5, <1>8, <2>1
  <2>2. CASE u = t /\ i \in 1..l
    BY <1>1, <1>2, <1>3, <1>4, <1>5, <2>2
  <2>3. CASE u = t /\ i = l + 1
    BY <1>2, <1>4, <2>3
  <2> QED BY <1>2, <1>6, <1>8, <2>1, <2>2, <2>3
<1>9. \A i \in 1..Len(b) : dl2[b[i]] = dl[b[i]] /\ dl[b[i]] <= t
  <2>1. h \in Nat /\ t \in Nat /\ \A i \in 1..Len(b) : dl[b[i]] \in Nat
    BY <1>3, ExecutorAssumption DEF Instants
  <2> QED BY <1>3, <1>4, <1>5, <2>1
<1>10. ASSUME NEW i \in 1..Len(b), NEW u \in Instants
       PROVE  /\ \A k \in 1..Len(cj2[u]) : cj2[u][k] # b[i]
              /\ cj2[u] # <<>> => dl2[b[i]] <= u
  <2>1. CASE u # t
    BY <1>2, <1>5, <1>9, <2>1
  <2>2. CASE u = t
    <3>1. ASSUME NEW k \in 1..Len(cj2[u]) PROVE cj2[u][k] # b[i]
      <4>1. CASE k \in 1..l
        BY <1>1, <1>2, <1>5, <2>2, <4>1
      <4>2. CASE k = l + 1
        BY <1>2, <1>3, <2>2, <4>2
      <4> QED BY <1>2, <1>6, <2>2, <3>1, <4>1, <4>2
    <3> QED BY <1>9, <2>2, <3>1
  <2> QED BY <2>1, <2>2
<1>11. /\ \A i \in 1..Len(b) : dl2[b[i]] < h
       /\ \A i, k \in 1..Len(b) : i < k => dl2[b[i]] <= dl2[b[k]]
  BY <1>5, <1>9
<1> QED BY ONLY <1>2, <1>5, <1>7, <1>8, <1>10, <1>11, b \in Seq(Jobs), h \in Nat, TimelyAt

\* The head of the batch leaves it.
LEMMA TimelyTail ==
  ASSUME NEW cj \in [Instants -> Seq(Jobs)], NEW dl \in [Jobs -> Instants],
         NEW b \in Seq(Jobs), NEW h \in Nat, Timely(cj, dl, b, h), b # <<>>
  PROVE  Timely(cj, dl, Tail(b), h) /\ Head(b) \notin ToSet(Tail(b))
<1>1. PICK c : c = Tail(b)
  OBVIOUS
<1>2. /\ c \in Seq(Jobs) /\ Head(b) = b[1] /\ \A i \in 1..Len(c) : c[i] = b[i + 1]
      /\ Len(c) = Len(b) - 1
  BY <1>1, HeadTailProperties
<1>3. /\ 1 \in 1..Len(b)
      /\ \A i \in 1..Len(c) : i + 1 \in 1..Len(b) /\ i + 1 # 1
      /\ \A i, k \in 1..Len(c) : (i < k => i + 1 < k + 1) /\ (i + 1 = k + 1 => i = k)
  BY <1>2, LenProperties, EmptySeq
<1>4. /\ \A u \in Instants : \A i, k \in 1..Len(cj[u]) : cj[u][i] = cj[u][k] => i = k
      /\ \A u \in Instants : \A i \in 1..Len(cj[u]) : dl[cj[u][i]] = u
      /\ \A i, k \in 1..Len(b) : b[i] = b[k] => i = k
      /\ \A i \in 1..Len(b) : dl[b[i]] < h
      /\ \A i, k \in 1..Len(b) : i < k => dl[b[i]] <= dl[b[k]]
      /\ \A i \in 1..Len(b), u \in Instants :
           /\ \A k \in 1..Len(cj[u]) : cj[u][k] # b[i]
           /\ cj[u] # <<>> => dl[b[i]] <= u
  BY TimelyIs
<1>9. PICK m, n : m = Len(b) /\ n = Len(c)
  OBVIOUS
<1>10. ASSUME NEW i \in 1..n PROVE c[i] = b[i + 1] /\ i + 1 \in 1..m /\ dl[c[i]] < h
  BY ONLY <1>2, <1>3, <1>4, <1>9
<1>11. ASSUME NEW i \in 1..n, NEW k \in 1..n PROVE c[i] = c[k] => i = k
  <2>1. b[i + 1] = b[k + 1] => i + 1 = k + 1
    BY ONLY <1>4, <1>9, <1>10
  <2> QED BY ONLY <1>3, <1>9, <1>10, <2>1
<1>12. ASSUME NEW i \in 1..n, NEW k \in 1..n, i < k PROVE dl[c[i]] <= dl[c[k]]
  <2>1. i + 1 < k + 1
    BY <1>12
  <2>2. dl[b[i + 1]] <= dl[b[k + 1]]
    BY ONLY <1>4, <1>9, <1>10, <2>1
  <2> QED BY ONLY <1>10, <2>2
<1>5. /\ \A i, k \in 1..Len(c) : c[i] = c[k] => i = k
      /\ \A i \in 1..Len(c) : dl[c[i]] < h
      /\ \A i, k \in 1..Len(c) : i < k => dl[c[i]] <= dl[c[k]]
  BY ONLY <1>9, <1>10, <1>11, <1>12
<1>6. ASSUME NEW i \in 1..Len(c), NEW u \in Instants
      PROVE  /\ \A k \in 1..Len(cj[u]) : cj[u][k] # c[i]
             /\ cj[u] # <<>> => dl[c[i]] <= u
  <2>1. c[i] = b[i + 1] /\ i + 1 \in 1..Len(b)
    BY ONLY <1>9, <1>10, <1>6
  <2> QED BY ONLY <1>4, <1>6, <2>1
<1>7. Timely(cj, dl, c, h)
  BY <1>2, <1>4, <1>5, <1>6, TimelyAt
<1>8. Head(b) \notin ToSet(c)
  <2>1. \A x : x \in ToSet(c) <=> \E i \in 1..Len(c) : c[i] = x
    BY <1>2, ToSetFacts
  <2>2. ASSUME NEW i \in 1..n PROVE c[i] # b[1]
    <3>1. b[i + 1] = b[1] => i + 1 = 1
      BY ONLY <1>3, <1>4, <1>9, <1>10
    <3>2. i + 1 # 1
      BY <1>3, <1>9
    <3> QED BY ONLY <1>10, <3>1, <3>2
  <2> QED BY ONLY <1>2, <1>9, <2>1, <2>2
<1> QED BY <1>1, <1>7, <1>8

\* Time passes.
LEMMA TimelyLater ==
  ASSUME NEW cj \in [Instants -> Seq(Jobs)], NEW dl \in [Jobs -> Instants],
         NEW b \in Seq(Jobs), NEW h \in Nat, Timely(cj, dl, b, h), NEW n \in Nat, h <= n
  PROVE  Timely(cj, dl, b, n)
<1>1. \A i \in 1..Len(b) : dl[b[i]] \in Nat
  BY ElementOfSeq, ExecutorAssumption DEF Instants
<1>2. \A i \in 1..Len(b) : dl[b[i]] < n
  BY <1>1 DEF Timely
<1> QED BY <1>2 DEF Timely

\* The head of the batch is not queued too.
LEMMA HeadIsNotQueued ==
  ASSUME NEW cj \in [Instants -> Seq(Jobs)], NEW dl, NEW b \in Seq(Jobs), NEW h,
         Timely(cj, dl, b, h), b # <<>>, NEW t \in Instants
  PROVE  Head(b) \notin ToSet(cj[t])
<1>1. Head(b) = b[1] /\ 1 \in 1..Len(b)
  BY HeadTailProperties, LenProperties, EmptySeq
<1>2. \A k \in 1..Len(cj[t]) : cj[t][k] # b[1]
  BY <1>1 DEF Timely
<1>3. PICK s \in Seq(Jobs) : s = cj[t]
  OBVIOUS
<1> QED BY <1>1, <1>2, <1>3, ToSetFacts

\* The due timers are taken, instant by instant, and of the rest S is kept.
LEMMA TimelyTaken ==
  ASSUME NEW cj \in [Instants -> Seq(Jobs)], NEW dl \in [Jobs -> Instants],
         NEW n \in 0..MaxTime, Timely(cj, dl, <<>>, n),
         NEW b, b = FlattenSeq([i \in 1..n |-> cj[i - 1]]),
         NEW S, NEW cj2, cj2 = [t \in Instants |-> IF t < n THEN <<>> ELSE Keep(cj[t], S)]
  PROVE  Timely(cj2, dl, b, n)
<1>1. /\ n \in Nat
      /\ \A i \in 1..n : i - 1 \in Instants /\ i - 1 < n
      /\ \A t \in Instants : t \in Nat
  BY ExecutorAssumption DEF Instants
<1>2. PICK ss : ss = [i \in 1..n |-> cj[i - 1]]
  OBVIOUS
<1>3. ss \in Seq(Seq(Jobs)) /\ Len(ss) = n
  BY <1>1, <1>2
<1>4. PICK at, pos : JoinedBy(Jobs, ss, b, n, at, pos)
  <2>1. b = FlattenSeq(ss)
    BY <1>2
  <2>2. Joined(Jobs, ss, b, n)
    BY ONLY <1>3, <2>1, FlattenJoins
  <2> QED BY <2>2 DEF Joined
<1>5. PICK none : none = <<>> /\ none \in Seq(Jobs) /\ Timely(cj, dl, none, n)
  BY EmptySeq
<1>6. /\ \A u \in Instants : \A i, k \in 1..Len(cj[u]) : cj[u][i] = cj[u][k] => i = k
      /\ \A u \in Instants : \A i \in 1..Len(cj[u]) : dl[cj[u][i]] = u
  <2>1. \A u \in Instants : DOMAIN cj[u] = 1..Len(cj[u]) /\ IsInjective(cj[u])
    BY <1>5, LenProperties DEF Timely
  <2>2. \A u \in Instants : \A i \in 1..Len(cj[u]) : dl[cj[u][i]] = u
    BY <1>5 DEF Timely
  <2> QED BY ONLY <2>1, <2>2 DEF IsInjective
<1>7. PICK m : m = Len(b) /\ m \in Nat /\ b \in Seq(Jobs)
  BY <1>4, LenProperties DEF JoinedBy
<1>8. ASSUME NEW i \in 1..m
      PROVE  /\ at[i] \in 1..n /\ at[i] - 1 \in Instants /\ pos[i] \in 1..Len(cj[at[i] - 1])
             /\ b[i] = cj[at[i] - 1][pos[i]] /\ dl[b[i]] = at[i] - 1
  <2>1. at[i] \in 1..n /\ pos[i] \in 1..Len(ss[at[i]]) /\ b[i] = ss[at[i]][pos[i]]
    BY ONLY <1>4, <1>7, <1>8 DEF JoinedBy
  <2>2. ss[at[i]] = cj[at[i] - 1] /\ at[i] - 1 \in Instants
    BY ONLY <1>1, <1>2, <2>1
  <2> QED BY ONLY <1>6, <2>1, <2>2
<1>9. ASSUME NEW i \in 1..m, NEW k \in 1..m, i < k
      PROVE  at[i] < at[k] \/ (at[i] = at[k] /\ pos[i] < pos[k])
  BY ONLY <1>4, <1>7, <1>9 DEF JoinedBy
<1>10. ASSUME NEW i \in 1..m PROVE dl[b[i]] < n
  <2>1. at[i] \in 1..n /\ dl[b[i]] = at[i] - 1
    BY ONLY <1>8, <1>10
  <2> QED BY ONLY <1>1, <2>1
<1>11. ASSUME NEW i \in 1..m, NEW k \in 1..m, i < k PROVE dl[b[i]] <= dl[b[k]] /\ b[i] # b[k]
  <2>1. dl[b[i]] = at[i] - 1 /\ dl[b[k]] = at[k] - 1 /\ at[i] \in Nat /\ at[k] \in Nat
    <3>1. /\ dl[b[i]] = at[i] - 1 /\ dl[b[k]] = at[k] - 1
          /\ at[i] \in 1..n /\ at[k] \in 1..n
      BY ONLY <1>8, <1>11
    <3> QED BY ONLY <1>1, <3>1
  <2>2. CASE at[i] < at[k]
    BY <2>1, <2>2
  <2>3. CASE at[i] = at[k] /\ pos[i] < pos[k]
    <3>1. /\ pos[i] \in 1..Len(cj[at[i] - 1]) /\ pos[k] \in 1..Len(cj[at[i] - 1])
          /\ b[i] = cj[at[i] - 1][pos[i]] /\ b[k] = cj[at[i] - 1][pos[k]]
          /\ at[i] - 1 \in Instants
      BY <1>8, <2>3
    <3>2. pos[i] # pos[k]
      BY <2>3, <3>1
    <3>3. b[i] # b[k]
      BY ONLY <1>6, <3>1, <3>2
    <3> QED BY <2>1, <2>3, <3>3
  <2> QED BY <1>9, <1>11, <2>2, <2>3
<1>12. ASSUME NEW t \in Instants
       PROVE  /\ cj2[t] \in Seq(Jobs)
              /\ cj2[t] # <<>> => ~ (t < n)
              /\ \A i, k \in 1..Len(cj2[t]) : cj2[t][i] = cj2[t][k] => i = k
              /\ \A i \in 1..Len(cj2[t]) : dl[cj2[t][i]] = t
  <2>1. CASE t < n
    <3>1. cj2[t] = <<>> /\ cj2[t] \in Seq(Jobs) /\ Len(cj2[t]) = 0
      BY <2>1, EmptySeq
    <3>2. \A i : i \notin 1..Len(cj2[t])
      BY <3>1
    <3> QED BY <3>1, <3>2
  <2>2. CASE ~ (t < n)
    <3>1. PICK s, u : s = cj[t] /\ s \in Seq(Jobs) /\ u = Keep(s, S)
      OBVIOUS
    <3>2. cj2[t] = u
      BY <2>2, <3>1
    <3>3. u \in Seq(Jobs) /\ (IsInjective(s) => IsInjective(u))
      BY ONLY <3>1, KeepFacts
    <3>4. \A x : x \in ToSet(u) <=> x \in ToSet(s) /\ x \in S
      BY ONLY <3>1, KeepElements
    <3>5. IsInjective(s)
      <4>1. DOMAIN s = 1..Len(s)
        BY <3>1, LenProperties
      <4> QED BY <1>6, <3>1, <4>1 DEF IsInjective
    <3>6. \A i, k \in 1..Len(u) : u[i] = u[k] => i = k
      <4>1. DOMAIN u = 1..Len(u)
        BY <3>3, LenProperties
      <4> QED BY ONLY <3>3, <3>5, <4>1 DEF IsInjective
    <3>7. ASSUME NEW i \in 1..Len(u) PROVE dl[u[i]] = t
      <4>1. u[i] \in ToSet(u)
        BY <3>3, <3>7, ToSetFacts
      <4>2. PICK k \in 1..Len(s) : s[k] = u[i]
        BY <3>1, <3>4, <4>1, ToSetFacts
      <4> QED BY <1>6, <3>1, <4>2
    <3> QED BY <2>2, <3>2, <3>3, <3>6, <3>7
  <2> QED BY <2>1, <2>2
<1>13. cj2 \in [Instants -> Seq(Jobs)]
  BY <1>12
<1>14. ASSUME NEW i \in 1..m, NEW t \in Instants
       PROVE  /\ \A k \in 1..Len(cj2[t]) : cj2[t][k] # b[i]
              /\ cj2[t] # <<>> => dl[b[i]] <= t
  <2>1. dl[b[i]] < n /\ dl[b[i]] \in Nat
    BY <1>1, <1>8, <1>10
  <2>2. cj2[t] # <<>> => n <= t
    BY <1>1, <1>12
  <2>3. ASSUME NEW k \in 1..Len(cj2[t]) PROVE cj2[t][k] # b[i]
    <3>1. cj2[t] # <<>>
      BY <2>3, EmptySeq
    <3>2. dl[cj2[t][k]] = t
      BY ONLY <1>12, <1>14, <2>3
    <3>3. n <= t /\ t \in Nat
      BY <1>1, <2>2, <3>1
    <3> QED BY ONLY <1>1, <2>1, <3>2, <3>3
  <2>4. cj2[t] # <<>> => dl[b[i]] <= t
    BY ONLY <1>1, <1>14, <2>1, <2>2
  <2> QED BY <2>3, <2>4
<1>15. ASSUME NEW i \in 1..m, NEW k \in 1..m, b[i] = b[k] PROVE i = k
  <2>1. ~ (i < k) /\ ~ (k < i)
    BY <1>11, <1>15
  <2> QED BY <2>1
<1> QED BY ONLY <1>1, <1>7, <1>10, <1>11, <1>12, <1>13, <1>14, <1>15, TimelyAt,
           dl \in [Jobs -> Instants]

\* What a job does to the queue of timers.
LEMMA EffectTimely ==
  ASSUME ScriptTypes, LoopTypes, QueuesInv, Effect, NEW b \in Seq(Jobs),
         ToSet(b) \subseteq ToSet(batch), Timely(clockJobs, deadline, b, now)
  PROVE  Timely(clockJobs', deadline', b, now)
<1>1. ASSUME NEW j \in Jobs, NEW k \in Kinds, NEW d \in Delays \cup {0}, Enqueue(j, k, d)
      PROVE  Timely(clockJobs', deadline', b, now)
  <2>1. CASE k \notin Timers
    <3>1. UNCHANGED <<clockJobs, deadline>>
      BY <1>1, <2>1 DEF Enqueue
    <3> QED BY <3>1
  <2>2. CASE k \in Timers
    <3>1. PICK t \in Instants : t = now + d /\ now <= t /\ now \in Nat
      BY InstantsReach DEF LoopTypes
    <3>2. /\ clockJobs' = [clockJobs EXCEPT ![t] = Append(clockJobs[t], j)]
          /\ deadline' = [deadline EXCEPT ![j] = t]
      BY <1>1, <2>2, <3>1 DEF Enqueue
    <3>3. j \notin QueuedTimers /\ j \notin ToSet(batch)
      BY <1>1 DEF Enqueue, QueuesInv, Fit, Fits, Timers
    <3>4. j \notin ToSet(b) /\ \A u \in Instants : j \notin ToSet(clockJobs[u])
      BY <3>3 DEF QueuedTimers
    <3> QED BY <3>1, <3>2, <3>4, TimelyNew DEF ScriptTypes
  <2> QED BY <2>1, <2>2
<1>2. CASE UNCHANGED <<clockJobs, deadline>>
  BY <1>2
<1> QED BY <1>1, <1>2 DEF Effect, ClearTimer, ClearAll, script, queues

\* No timer is queued: nothing to order.
LEMMA TimelyNone ==
  ASSUME NEW dl, NEW cj, cj = [t \in Instants |-> <<>>], NEW b, b = <<>>, NEW h
  PROVE  Timely(cj, dl, b, h)
<1>1. IsInjective(<<>>)
  BY DEF IsInjective
<1>2. Len(<<>>) = 0 /\ \A i : i \notin 1..0
  BY EmptySeq
<1> QED BY <1>1, <1>2 DEF Timely

\* A job that throws while the loop runs leaves no timer.
LEMMA ClearKeepsTimers ==
  ASSUME Clear, pc' = "outside"
  PROVE  TimersInv'
BY TimelyNone DEF Clear, TimersInv, TimerBatch, Horizon

\* A call, or any step that changes neither the queue nor the batch of timers.
LEMMA OtherKeepsTimers ==
  ASSUME ScriptTypes, LoopTypes, QueuesInv, TimersInv, pc # "settle", pc' # "settle",
         Effect \/ UNCHANGED script, TimerBatch' = TimerBatch, now' = now
  PROVE  TimersInv'
<1>1. TimerBatch \in Seq(Jobs) /\ ToSet(TimerBatch) \subseteq ToSet(batch)
  BY EmptySeq DEF TimerBatch, LoopTypes, ToSet
<1>2. Timely(clockJobs, deadline, TimerBatch, now)
  BY DEF TimersInv, Horizon
<1>3. Timely(clockJobs', deadline', TimerBatch, now)
  <2>1. CASE Effect
    BY <1>1, <1>2, <2>1, EffectTimely
  <2>2. CASE UNCHANGED script
    BY <1>2, <2>2 DEF script, queues
  <2> QED BY <2>1, <2>2
<1> QED BY <1>3 DEF TimersInv, Horizon

\* The steps that run timers.
LEMMA ClockStepsKeepTimers ==
  ASSUME ScriptTypes, LoopTypes, QueuesInv, TimersInv,
         TakeDue \/ SkipTimer \/ RunTimer \/ SettleTimer \/ EndTimers
  PROVE  TimersInv'
<1>1. CASE TakeDue
  <2>1. /\ pc = "due" /\ pc' = "clock" /\ now' = now /\ deadline' = deadline
        /\ batch' = FlattenSeq([i \in 1..now |-> clockJobs[i - 1]])
        /\ clockJobs' = [t \in Instants |->
             IF t < now THEN <<>> ELSE Keep(clockJobs[t], Jobs \ revoked)]
    BY <1>1 DEF TakeDue, world
  <2>2. Timely(clockJobs, deadline, <<>>, now)
    BY <2>1 DEF TimersInv, TimerBatch, Horizon
  <2>3. Timely(clockJobs', deadline, batch', now)
    BY <2>1, <2>2, TimelyTaken DEF ScriptTypes, LoopTypes
  <2> QED BY <2>1, <2>3 DEF TimersInv, TimerBatch, Horizon
<1>2. CASE SkipTimer
  <2>1. /\ pc = "clock" /\ pc' = "clock" /\ batch # <<>> /\ batch' = Tail(batch)
        /\ UNCHANGED <<clockJobs, deadline, now>>
    BY <1>2 DEF SkipTimer, script, queues, world
  <2>2. Timely(clockJobs, deadline, batch, now)
    BY <2>1 DEF TimersInv, TimerBatch, Horizon
  <2>3. now \in Nat
    BY ExecutorAssumption DEF LoopTypes
  <2>4. Timely(clockJobs, deadline, Tail(batch), now)
    BY <2>1, <2>2, <2>3, TimelyTail DEF ScriptTypes, LoopTypes
  <2> QED BY <2>1, <2>4 DEF TimersInv, TimerBatch, Horizon
<1>3. CASE RunTimer
  <2>1. CASE Fail
    BY <2>1, ClearKeepsTimers DEF Fail
  <2>2. CASE ~ Fail
    <3>1. /\ Effect /\ pc = "clock" /\ pc' = "settle" /\ batch' = batch /\ batch # <<>>
          /\ now' = now /\ stamp' = now
      BY <1>3, <2>2 DEF RunTimer, world
    <3>2. Timely(clockJobs, deadline, batch, now)
      BY <3>1 DEF TimersInv, TimerBatch, Horizon
    <3>3. Timely(clockJobs', deadline', batch, now)
      BY <3>1, <3>2, EffectTimely DEF LoopTypes
    <3>4. now <= now
      BY ExecutorAssumption DEF LoopTypes
    <3> QED BY <3>1, <3>3, <3>4 DEF TimersInv, TimerBatch, Horizon
  <2> QED BY <2>1, <2>2
<1>4. CASE SettleTimer
  <2>1. PICK j : j = Head(batch)
    OBVIOUS
  <2>2. /\ pc = "settle" /\ pc' = "clock" /\ batch # <<>> /\ batch' = Tail(batch)
        /\ now' = now /\ j \in Jobs /\ Tail(batch) \in Seq(Jobs)
    BY <1>4, <2>1, HeadTailProperties DEF SettleTimer, world, LoopTypes
  <2>3. now \in Nat /\ stamp \in Nat /\ stamp <= now
    BY <2>2, ExecutorAssumption DEF LoopTypes, TimersInv
  <2>4. Timely(clockJobs, deadline, batch, stamp)
    BY <2>2 DEF TimersInv, TimerBatch, Horizon
  <2>5. Timely(clockJobs, deadline, Tail(batch), stamp) /\ j \notin ToSet(Tail(batch))
    BY <2>1, <2>2, <2>3, <2>4, TimelyTail DEF ScriptTypes, LoopTypes
  <2>6. CASE kind[j] = "timeout"
    <3>1. UNCHANGED <<clockJobs, deadline>>
      BY <1>4, <2>1, <2>6 DEF SettleTimer
    <3>2. Timely(clockJobs, deadline, Tail(batch), now)
      BY <2>2, <2>3, <2>5, TimelyLater DEF ScriptTypes
    <3> QED BY <2>2, <3>1, <3>2 DEF TimersInv, TimerBatch, Horizon
  <2>7. CASE kind[j] # "timeout"
    <3>1. PICK t \in Instants : t = stamp + delay[j] /\ stamp <= t
      <4>1. delay[j] \in Delays \cup {0} /\ stamp \in 0..MaxTime
        BY <2>2 DEF LoopTypes, ScriptTypes
      <4> QED BY <4>1, InstantsReach
    <3>2. stamp <= t
      BY <3>1
    <3>3. /\ clockJobs' = [clockJobs EXCEPT ![t] = Append(clockJobs[t], j)]
          /\ deadline' = [deadline EXCEPT ![j] = t]
      BY <1>4, <2>1, <2>7, <3>1 DEF SettleTimer
    <3>4. \A u \in Instants : j \notin ToSet(clockJobs[u])
      BY <2>1, <2>2, <2>4, HeadIsNotQueued DEF ScriptTypes, LoopTypes
    <3>5. Timely(clockJobs', deadline', Tail(batch), stamp)
      BY <2>2, <2>3, <2>5, <3>2, <3>3, <3>4, TimelyNew DEF ScriptTypes
    <3>6. clockJobs' \in [Instants -> Seq(Jobs)] /\ deadline' \in [Jobs -> Instants]
      <4>1. Append(clockJobs[t], j) \in Seq(Jobs)
        BY <2>2, AppendProperties DEF ScriptTypes
      <4> QED BY <3>3, <4>1 DEF ScriptTypes
    <3>7. Timely(clockJobs', deadline', Tail(batch), now)
      BY <2>2, <2>3, <3>5, <3>6, TimelyLater
    <3> QED BY <2>2, <3>7 DEF TimersInv, TimerBatch, Horizon
  <2> QED BY <2>6, <2>7
<1>5. CASE EndTimers
  BY <1>5, OtherKeepsTimers DEF EndTimers, TimerBatch, world
<1> QED BY <1>1, <1>2, <1>3, <1>4, <1>5

\* Every step keeps the timers in order.
LEMMA TimersStep ==
  ASSUME ScriptTypes, LoopTypes, QueuesInv, TimersInv, [Next]_vars
  PROVE  TimersInv'
<1>1. CASE TakeDue \/ SkipTimer \/ RunTimer \/ SettleTimer \/ EndTimers
  BY <1>1, ClockStepsKeepTimers
<1>2. CASE Fail \/ Stop
  BY <1>2, ClearKeepsTimers DEF Fail, Stop
<1>3. CASE World \/ UNCHANGED vars
  <2>1. UNCHANGED <<clockJobs, deadline, pc, batch, stamp>> /\ (now' = now \/ now' = now + 1)
    BY <1>3 DEF World, SetStop, Tick, BecomeReady, vars, world, run, script, queues
  <2>2. now \in Nat /\ stamp \in Nat
    BY ExecutorAssumption DEF LoopTypes
  <2>3. Horizon \in Nat /\ Horizon' \in Nat /\ Horizon <= Horizon'
    BY <2>1, <2>2 DEF Horizon
  <2>4. TimerBatch' = TimerBatch /\ TimerBatch \in Seq(Jobs)
    BY <2>1, EmptySeq DEF TimerBatch, LoopTypes
  <2>5. Timely(clockJobs, deadline, TimerBatch, Horizon')
    BY <2>3, <2>4, TimelyLater DEF TimersInv, ScriptTypes
  <2>6. pc = "settle" => stamp <= now'
    BY <2>1, <2>2 DEF TimersInv
  <2> QED BY <2>1, <2>4, <2>5, <2>6 DEF TimersInv
<1>4. CASE (PollDetached \/ PollCleanup \/ PollGroup \/ Unpark \/ RunPromiseJob \/ RunGenericJob)
           /\ ~ Fail
  <2>1. /\ Effect \/ UNCHANGED script
        /\ pc \notin {"clock", "settle"} /\ pc' \notin {"clock", "settle"} /\ now' = now
    BY <1>4 DEF PollDetached, PollCleanup, PollGroup, Unpark, RunPromiseJob, RunGenericJob, Idle,
                LeaveLoop, world
  <2> QED BY <2>1, OtherKeepsTimers DEF TimerBatch
<1>5. CASE Finish \/ NotIdle \/ EndPass \/ Resume \/ Call \/ DropRun
  <2>1. /\ Effect \/ UNCHANGED script
        /\ pc \notin {"clock", "settle"} /\ pc' \notin {"clock", "settle"} /\ now' = now
    BY <1>5 DEF Finish, NotIdle, EndPass, Resume, Call, DropRun, Idle, LeaveLoop, world
  <2> QED BY <2>1, OtherKeepsTimers DEF TimerBatch
<1>6. ASSUME \/ Admit \/ TakePromiseJobs \/ TakeGenericJobs
             \/ \E m \in Modes : Start(m)
      PROVE  TimersInv'
  <2>1. /\ UNCHANGED <<clockJobs, deadline, now>>
        /\ pc \notin {"clock", "settle"} /\ pc' \notin {"clock", "settle"}
    BY <1>6 DEF Admit, TakePromiseJobs, TakeGenericJobs, Start, world
  <2> QED BY <2>1 DEF TimersInv, TimerBatch, Horizon
<1> QED BY <1>1, <1>2, <1>3, <1>4, <1>5, <1>6 DEF Next, Loop, Embedder

\* The timer that is called has the earliest deadline of those that are queued or
\* in the batch.
LEMMA HeadIsEarliest ==
  ASSUME ScriptTypes, LoopTypes, TimersInv, pc = "clock", batch # <<>>,
         NEW i \in QueuedTimers \cup ToSet(batch)
  PROVE  deadline[Head(batch)] <= deadline[i]
<1>1. PICK b : b = batch /\ b \in Seq(Jobs)
  BY DEF LoopTypes
<1>2. /\ \A t \in Instants : \A k \in 1..Len(clockJobs[t]) : deadline[clockJobs[t][k]] = t
      /\ \A k, l \in 1..Len(b) : k < l => deadline[b[k]] <= deadline[b[l]]
      /\ \A k \in 1..Len(b), t \in Instants : clockJobs[t] # <<>> => deadline[b[k]] <= t
  BY <1>1 DEF TimersInv, TimerBatch, Timely
<1>3. /\ 1 \in 1..Len(b) /\ Head(batch) = b[1] /\ b[1] \in Jobs /\ deadline[b[1]] \in Nat
      /\ \A k \in 1..Len(b) : k = 1 \/ 1 < k
  <2>1. Len(b) \in Nat /\ Len(b) # 0
    BY <1>1, LenProperties, EmptySeq
  <2>2. Head(batch) = b[1] /\ b[1] \in Jobs
    BY <1>1, HeadTailProperties
  <2>3. deadline[b[1]] \in Nat
    BY <2>2, ExecutorAssumption DEF ScriptTypes, Instants
  <2> QED BY <2>1, <2>2, <2>3
<1>4. CASE i \in ToSet(batch)
  <2>1. PICK k \in 1..Len(b) : b[k] = i
    BY <1>1, <1>4, ToSetFacts
  <2> QED BY <1>2, <1>3, <2>1
<1>5. CASE i \in QueuedTimers
  <2>1. PICK t \in Instants : i \in ToSet(clockJobs[t])
    BY <1>5 DEF QueuedTimers
  <2>2. PICK s : s = clockJobs[t] /\ s \in Seq(Jobs)
    BY DEF ScriptTypes
  <2>3. PICK k \in 1..Len(s) : s[k] = i
    BY <2>1, <2>2, ToSetFacts
  <2>4. s # <<>>
    BY <2>3, EmptySeq
  <2> QED BY <1>2, <1>3, <2>2, <2>3, <2>4
<1> QED BY <1>4, <1>5

\* A timer is called only when no timer that is queued, taken with it or put back
\* by the calls before it, and not cancelled, has an earlier deadline, however the
\* clock runs and whatever the callbacks enqueue.
THEOREM TimersRunInOrder == Spec => TimersInOrder
<1> DEFINE Inv == (ScriptTypes /\ LoopTypes) /\ QueuesInv /\ TimersInv
<1>1. Init => Inv
  <2>1. ASSUME Init PROVE TimersInv
    BY <2>1, TimelyNone DEF Init, TimersInv, TimerBatch, Horizon
  <2> QED BY <2>1, TypesStart, QueuesStart
<1>2. Inv /\ [Next]_vars => Inv'
  BY TypesStep, QueuesStep, TimersStep
<1>3. Inv /\ [Next]_vars
        => [\A j \in Jobs : Calling(j) =>
              \A i \in (QueuedTimers \cup ToSet(batch)) \ revoked :
                kind[i] \in Timers => deadline[j] <= deadline[i]]_vars
  <2>1. ASSUME Inv, Next, NEW j \in Jobs, Calling(j),
               NEW i \in (QueuedTimers \cup ToSet(batch)) \ revoked
        PROVE  deadline[j] <= deadline[i]
    <3>1. RunTimer
      BY <2>1, CallingIsRunTimer
    <3> QED BY <2>1, <3>1, HeadIsEarliest DEF RunTimer, Calling
  <2> QED BY <2>1
<1> QED BY <1>1, <1>2, <1>3, PTL DEF Spec, TimersInOrder

==============================================================================
