----------------------------- MODULE JobExecutor -----------------------------
(****************************************************************************)
(* SimpleJobExecutor, the default event loop of a Context                   *)
(* (core/engine/src/job.rs), and the timer table setTimeout, setInterval    *)
(* and clearTimeout keep beside it (core/wintertc/src/timers/mod.rs).       *)
(*                                                                          *)
(* pc is the place of run_jobs_async_impl in its loop.  Whatever a job does *)
(* when it is called is an Effect: at most one call of the functions above, *)
(* or of enqueue_job; or else it throws.  Other threads set the stop flag   *)
(* and make futures ready, and time passes, between any two steps.          *)
(****************************************************************************)
EXTENDS Integers, Sequences, FiniteSets, SequencesExt, Filters

CONSTANTS
  Jobs,      \* names of jobs, each used once
  Kinds,     \* the kinds of jobs that are enqueued
  Modes,     \* how the embedder runs the loop
  Delays,    \* delays of timers
  MaxTime,   \* bound: the clock stops there
  MayFail    \* whether jobs may throw

AllKinds == {"promise", "generic", "contextual", "detached", "cleanup", "timeout", "interval"}
Futures == {"contextual", "detached", "cleanup"}
Timers == {"timeout", "interval"}

ASSUME ExecutorAssumption ==
  /\ Kinds \subseteq AllKinds
  /\ Modes \subseteq {"park", "stalled", "cooperative"}
  /\ MaxTime \in Nat
  /\ Delays \subseteq Nat
  /\ \A d \in Delays : d <= MaxTime
  /\ MayFail \in BOOLEAN

VARIABLES
  kind,         \* the kind of a job; "none" before it exists
  delay,        \* a timer's delay
  deadline,     \* history: the instant a timer was last queued for
  promiseJobs, genericJobs, asyncJobs, cleanupJobs,   \* the VecDeques
  clockJobs,    \* the BTreeMap from instants to the timers queued for them
  detached,     \* the futures of detached_jobs
  active,       \* IntervalInnerState.active_map
  revoked,      \* timers whose CancellationToken is revoked
  stop,         \* the stop flag
  now,          \* the clock
  ready,        \* futures whose event has happened
  pc, mode,     \* where the loop is; its AsyncWaitMode
  group, frGroup,   \* the FutureGroups of this run
  batch,        \* the jobs taken from a queue and not yet called
  stamp,        \* when the current timer was called
  deferred,     \* contextual_deferred
  outcome,      \* how the last run ended
  enqueued,     \* history: promise jobs in the order of enqueue_job
  ran,          \* history: promise jobs in the order of their calls
  cleared,      \* history: timers clearTimeout was called for
  dead          \* history: jobs that clear() dropped

queues == <<promiseJobs, genericJobs, asyncJobs, cleanupJobs, clockJobs>>
tokens == <<active, revoked>>
run == <<mode, group, frGroup, stamp, deferred>>
script == <<kind, delay, deadline, queues, tokens, cleared, enqueued>>
world == <<stop, now, ready>>
vars == <<script, detached, world, pc, run, batch, outcome, ran, dead>>

Instants == 0..(MaxTime + MaxTime)

Init ==
  /\ kind = [j \in Jobs |-> "none"]
  /\ delay = [j \in Jobs |-> 0]
  /\ deadline = [j \in Jobs |-> 0]
  /\ promiseJobs = <<>> /\ genericJobs = <<>> /\ asyncJobs = <<>> /\ cleanupJobs = <<>>
  /\ clockJobs = [t \in Instants |-> <<>>]
  /\ detached = {}
  /\ active = {} /\ revoked = {}
  /\ stop = FALSE /\ now = 0 /\ ready = {}
  /\ pc = "outside" /\ mode = "park"
  /\ group = {} /\ frGroup = {} /\ batch = <<>>
  /\ stamp = 0 /\ deferred = FALSE
  /\ outcome = "none"
  /\ enqueued = <<>> /\ ran = <<>> /\ cleared = {} /\ dead = {}

ImmediateEmpty == promiseJobs = <<>> /\ asyncJobs = <<>> /\ genericJobs = <<>>
QueuedEmpty ==
  ImmediateEmpty /\ cleanupJobs = <<>> /\ \A t \in Instants : clockJobs[t] = <<>>
IsEmpty == QueuedEmpty /\ detached = {}

QueuedTimers == UNION {ToSet(clockJobs[t]) : t \in Instants}
Contained == ToSet(promiseJobs) \cup ToSet(genericJobs) \cup ToSet(asyncJobs)
             \cup ToSet(cleanupJobs) \cup QueuedTimers
             \cup detached \cup group \cup frGroup \cup ToSet(batch)

------------------------------------------------------------------------------
(* What a job, or the embedder between two runs, does to the executor. *)

AppendIf(c, q, j) == IF c THEN Append(q, j) ELSE q

\* enqueue_job, for timers by way of setTimeout and setInterval.  next_id prunes
\* the table first.
Enqueue(j, k, d) ==
  /\ kind[j] = "none"
  /\ kind' = [kind EXCEPT ![j] = k]
  /\ promiseJobs' = AppendIf(k = "promise", promiseJobs, j)
  /\ enqueued' = AppendIf(k = "promise", enqueued, j)
  /\ genericJobs' = AppendIf(k = "generic", genericJobs, j)
  /\ asyncJobs' = AppendIf(k \in {"contextual", "detached"}, asyncJobs, j)
  /\ cleanupJobs' = AppendIf(k = "cleanup", cleanupJobs, j)
  /\ IF k \in Timers
       THEN /\ now + d < MaxTime
            /\ delay' = [delay EXCEPT ![j] = d]
            /\ deadline' = [deadline EXCEPT ![j] = now + d]
            /\ clockJobs' = [clockJobs EXCEPT ![now + d] = Append(@, j)]
            /\ active' = (active \ revoked) \cup {j}
       ELSE UNCHANGED <<delay, deadline, clockJobs, active>>
  /\ UNCHANGED <<revoked, cleared>>

\* clearTimeout and clearInterval of a timer that is in the table.
ClearTimer(j) ==
  /\ j \in active \ revoked
  /\ active' = active \ (revoked \cup {j})
  /\ revoked' = revoked \cup {j}
  /\ cleared' = cleared \cup {j}
  /\ UNCHANGED <<kind, delay, deadline, queues, enqueued>>

\* clear_all: every timer of the table is cancelled.
ClearAll ==
  /\ active \ revoked # {}
  /\ active' = {}
  /\ revoked' = revoked \cup active
  /\ cleared' = cleared \cup (active \ revoked)
  /\ UNCHANGED <<kind, delay, deadline, queues, enqueued>>

Effect ==
  \/ UNCHANGED script
  \/ \E j \in Jobs, k \in Kinds \ Timers : Enqueue(j, k, 0)
  \/ \E j \in Jobs, k \in Kinds \cap Timers, d \in Delays : Enqueue(j, k, d)
  \/ \E j \in Jobs : ClearTimer(j)
  \/ ClearAll

\* The timers that are dropped with the queues: each revokes its token.
DroppedTimers == {j \in QueuedTimers \cup ToSet(batch) : kind[j] \in Timers}

\* Mutant: clear forgets the timers.
ClearNoTimers ==
  /\ promiseJobs' = <<>> /\ genericJobs' = <<>> /\ asyncJobs' = <<>> /\ cleanupJobs' = <<>>
  /\ detached' = {}
  /\ group' = {} /\ frGroup' = {} /\ batch' = <<>>
  /\ revoked' = revoked \cup (DroppedTimers \ QueuedTimers)
  /\ enqueued' = ran
  /\ dead' = dead \cup Contained
  /\ UNCHANGED <<kind, delay, deadline, clockJobs, cleared>>

\* clear(), and what the end of the run drops: the groups and the batch.
Clear ==
  /\ promiseJobs' = <<>> /\ genericJobs' = <<>> /\ asyncJobs' = <<>> /\ cleanupJobs' = <<>>
  /\ clockJobs' = [t \in Instants |-> <<>>]
  /\ detached' = {}
  /\ group' = {} /\ frGroup' = {} /\ batch' = <<>>
  /\ revoked' = revoked \cup DroppedTimers
  /\ enqueued' = ran
  /\ dead' = dead \cup Contained
  /\ UNCHANGED <<kind, delay, deadline, cleared>>

\* The job that is called throws: the run ends with its error.  A timeout has
\* left the table by then.
Fail ==
  /\ MayFail
  /\ Clear
  /\ active' = IF pc = "clock" /\ kind[Head(batch)] = "timeout"
                 THEN active \ {Head(batch)} ELSE active
  /\ pc' = "outside"
  /\ outcome' = "error"
  /\ UNCHANGED <<mode, stamp, deferred, ran, world>>

------------------------------------------------------------------------------
(* run_jobs, run_jobs_until_stalled, run_jobs_async *)

Of(k) == Keep(asyncJobs, {j \in Jobs : kind[j] = k})

\* run_jobs_until_stalled admits the detached futures first, and blocks like
\* run_jobs when there is more.
Start(m) ==
  /\ pc = "outside"
  /\ pc' = "top"
  /\ outcome' = "none"
  /\ IF m = "stalled"
       THEN /\ detached' = detached \cup ToSet(Of("detached"))
            /\ asyncJobs' = Of("contextual")
            /\ mode' = IF Of("contextual") # <<>> \/ cleanupJobs # <<>> THEN "park" ELSE m
       ELSE /\ mode' = m
            /\ UNCHANGED <<detached, asyncJobs>>
  /\ UNCHANGED <<kind, delay, deadline, promiseJobs, genericJobs, cleanupJobs, clockJobs,
                 tokens, cleared, enqueued, group, frGroup, stamp, deferred, world, batch,
                 ran, dead>>

------------------------------------------------------------------------------
(* One pass of the loop of run_jobs_async_impl. *)

Stop ==
  /\ pc = "top" /\ stop
  /\ stop' = FALSE
  /\ Clear
  /\ pc' = "outside"
  /\ outcome' = "stopped"
  /\ UNCHANGED <<active, mode, stamp, deferred, ran, now, ready>>

\* Mutant: contextual jobs are deferred in every mode.
AdmitNoContextual ==
  /\ pc = "top" /\ ~ stop
  /\ detached' = detached \cup ToSet(Of("detached"))
  /\ asyncJobs' = Of("contextual")
  /\ frGroup' = frGroup \cup ToSet(cleanupJobs)
  /\ cleanupJobs' = <<>>
  /\ deferred' = (Of("contextual") # <<>>)
  /\ pc' = "due"
  /\ UNCHANGED <<kind, delay, deadline, promiseJobs, genericJobs, clockJobs, tokens,
                 cleared, enqueued, mode, group, stamp, world, batch, outcome, ran, dead>>

\* The new futures go to their groups; without blocking, those that borrow the
\* context have to wait.
Admit ==
  /\ pc = "top" /\ ~ stop
  /\ detached' = detached \cup ToSet(Of("detached"))
  /\ IF mode = "stalled"
       THEN /\ asyncJobs' = Of("contextual")
            /\ deferred' = (Of("contextual") # <<>> \/ cleanupJobs # <<>>)
            /\ UNCHANGED <<group, frGroup, cleanupJobs>>
       ELSE /\ asyncJobs' = <<>>
            /\ group' = group \cup ToSet(Of("contextual"))
            /\ frGroup' = frGroup \cup ToSet(cleanupJobs)
            /\ cleanupJobs' = <<>>
            /\ deferred' = FALSE
  /\ pc' = "due"
  /\ UNCHANGED <<kind, delay, deadline, promiseJobs, genericJobs, clockJobs, tokens,
                 cleared, enqueued, mode, stamp, world, batch, outcome, ran, dead>>

\* Mutant: the timers of the instants that stay are not looked at, and the due
\* ones are taken last instant first.
TakeDueBackwards ==
  /\ pc = "due"
  /\ batch' = FlattenSeq([i \in 1..now |-> clockJobs[now - i]])
  /\ clockJobs' = [t \in Instants |-> IF t < now THEN <<>> ELSE clockJobs[t]]
  /\ pc' = "clock"
  /\ UNCHANGED <<kind, delay, deadline, promiseJobs, genericJobs, asyncJobs, cleanupJobs,
                 tokens, cleared, enqueued, detached, world, run, outcome, ran, dead>>

\* split_off: the timers of the instants before now are taken, those that stay
\* and are cancelled are dropped.
TakeDue ==
  /\ pc = "due"
  /\ batch' = FlattenSeq([i \in 1..now |-> clockJobs[i - 1]])
  /\ clockJobs' = [t \in Instants |->
       IF t < now THEN <<>> ELSE Keep(clockJobs[t], Jobs \ revoked)]
  /\ pc' = "clock"
  /\ UNCHANGED <<kind, delay, deadline, promiseJobs, genericJobs, asyncJobs, cleanupJobs,
                 tokens, cleared, enqueued, detached, world, run, outcome, ran, dead>>

\* The timer was cancelled after it was taken.
SkipTimer ==
  /\ pc = "clock" /\ batch # <<>>
  /\ Head(batch) \in revoked
  /\ batch' = Tail(batch)
  /\ UNCHANGED <<script, detached, world, pc, run, outcome, ran, dead>>

\* Mutant: the batch is run as it was taken.
RunTimerAnyway ==
  /\ pc = "clock" /\ batch # <<>>
  /\ \/ Fail
     \/ /\ Effect
        /\ stamp' = now
        /\ pc' = "settle"
        /\ UNCHANGED <<detached, mode, group, frGroup, deferred, batch, outcome, world, ran,
                       dead>>

RunTimer ==
  /\ pc = "clock" /\ batch # <<>>
  /\ Head(batch) \notin revoked
  /\ \/ Fail
     \/ /\ Effect
        /\ stamp' = now
        /\ pc' = "settle"
        /\ UNCHANGED <<detached, mode, group, frGroup, deferred, batch, outcome, world, ran,
                       dead>>

\* Mutant: an interval puts back the batch it was taken with.
SettleWholeBatch ==
  /\ pc = "settle"
  /\ LET j == Head(batch)
     IN IF kind[j] = "timeout"
          THEN /\ active' = active \ {j}
               /\ revoked' = revoked \cup {j}
               /\ UNCHANGED <<clockJobs, deadline>>
          ELSE /\ clockJobs' = [clockJobs EXCEPT ![stamp + delay[j]] = Append(@, batch)]
               /\ deadline' = [deadline EXCEPT ![j] = stamp + delay[j]]
               /\ UNCHANGED <<active, revoked>>
  /\ batch' = Tail(batch)
  /\ pc' = "clock"
  /\ UNCHANGED <<kind, delay, promiseJobs, genericJobs, asyncJobs, cleanupJobs, cleared,
                 enqueued, detached, world, run, outcome, ran, dead>>

\* After its call a timeout leaves the table and revokes its token; an interval
\* is queued again, counted from before the call.
SettleTimer ==
  /\ pc = "settle"
  /\ LET j == Head(batch)
     IN IF kind[j] = "timeout"
          THEN /\ active' = active \ {j}
               /\ revoked' = revoked \cup {j}
               /\ UNCHANGED <<clockJobs, deadline>>
          ELSE /\ clockJobs' = [clockJobs EXCEPT ![stamp + delay[j]] = Append(@, j)]
               /\ deadline' = [deadline EXCEPT ![j] = stamp + delay[j]]
               /\ UNCHANGED <<active, revoked>>
  /\ batch' = Tail(batch)
  /\ pc' = "clock"
  /\ UNCHANGED <<kind, delay, promiseJobs, genericJobs, asyncJobs, cleanupJobs, cleared,
                 enqueued, detached, world, run, outcome, ran, dead>>

EndTimers ==
  /\ pc = "clock" /\ batch = <<>>
  /\ pc' = "detached"
  /\ UNCHANGED <<script, detached, world, run, batch, outcome, ran, dead>>

\* poll_once of the detached futures: the completion of one that is ready.
PollDetached ==
  /\ pc = "detached"
  /\ \/ /\ detached \cap ready = {}
        /\ pc' = "idle"
        /\ UNCHANGED <<script, detached, run, batch, outcome, world, ran, dead>>
     \/ \E j \in detached \cap ready :
          \/ Fail
          \/ /\ Effect
             /\ detached' = detached \ {j}
             /\ pc' = "idle"
             /\ UNCHANGED <<run, batch, outcome, world, ran, dead>>

\* The loop is left: the cleanups that are not done are dropped.
LeaveLoop(cleanups) ==
  /\ pc' = "outside"
  /\ outcome' = "ok"
  /\ frGroup' = {}
  /\ dead' = dead \cup cleanups

Idle == pc = "idle" /\ QueuedEmpty /\ group = {} /\ detached = {}

\* With nothing else to do one cleanup of a FinalizationRegistry is polled, and
\* the loop is left unless that enqueued something.
PollCleanup ==
  /\ Idle
  /\ \E j \in frGroup \cap ready :
       \/ Fail
       \/ /\ Effect
          /\ UNCHANGED <<detached, mode, group, stamp, deferred, batch, world, ran>>
          /\ IF IsEmpty' THEN LeaveLoop(frGroup \ {j})
             ELSE frGroup' = frGroup \ {j} /\ pc' = "group" /\ UNCHANGED <<outcome, dead>>

Finish ==
  /\ Idle
  /\ frGroup \cap ready = {}
  /\ LeaveLoop(frGroup)
  /\ UNCHANGED <<script, detached, mode, group, stamp, deferred, batch, world, ran>>

NotIdle ==
  /\ pc = "idle" /\ ~ Idle
  /\ pc' = "group"
  /\ UNCHANGED <<script, detached, world, run, batch, outcome, ran, dead>>

\* poll_once of the futures that borrow the context.
PollGroup ==
  /\ pc = "group"
  /\ \/ /\ group \cap ready = {}
        /\ pc' = "take"
        /\ UNCHANGED <<script, detached, run, batch, outcome, world, ran, dead>>
     \/ \E j \in group \cap ready :
          \/ Fail
          \/ /\ Effect
             /\ group' = group \ {j}
             /\ pc' = "take"
             /\ UNCHANGED <<detached, mode, frGroup, stamp, deferred, batch, outcome, world,
                            ran, dead>>

TakePromiseJobs ==
  /\ pc = "take"
  /\ batch' = promiseJobs
  /\ promiseJobs' = <<>>
  /\ pc' = "promise"
  /\ UNCHANGED <<kind, delay, deadline, genericJobs, asyncJobs, cleanupJobs, clockJobs,
                 tokens, cleared, enqueued, detached, world, run, outcome, ran, dead>>

\* Mutant: the batch is a stack.
RunLastPromiseJob ==
  /\ pc = "promise" /\ batch # <<>>
  /\ \/ Fail
     \/ /\ Effect
        /\ batch' = Front(batch)
        /\ ran' = Append(ran, Last(batch))
        /\ UNCHANGED <<detached, pc, run, outcome, world, dead>>

RunPromiseJob ==
  /\ pc = "promise" /\ batch # <<>>
  /\ \/ Fail
     \/ /\ Effect
        /\ batch' = Tail(batch)
        /\ ran' = Append(ran, Head(batch))
        /\ UNCHANGED <<detached, pc, run, outcome, world, dead>>

TakeGenericJobs ==
  /\ pc = "promise" /\ batch = <<>>
  /\ batch' = genericJobs
  /\ genericJobs' = <<>>
  /\ pc' = "generic"
  /\ UNCHANGED <<kind, delay, deadline, promiseJobs, asyncJobs, cleanupJobs, clockJobs,
                 tokens, cleared, enqueued, detached, world, run, outcome, ran, dead>>

RunGenericJob ==
  /\ pc = "generic" /\ batch # <<>>
  /\ \/ Fail
     \/ /\ Effect
        /\ batch' = Tail(batch)
        /\ UNCHANGED <<detached, pc, run, outcome, world, ran, dead>>

\* The end of a pass: block, give control back, or begin again.  A call that
\* may not block returns, and its future is dropped.
EndPass ==
  /\ pc = "generic" /\ batch = <<>>
  /\ \/ /\ mode = "park"
        /\ pc' = IF QueuedEmpty /\ (group # {} \/ detached # {}) THEN "parked" ELSE "top"
        /\ UNCHANGED <<outcome, group, frGroup, dead>>
     \/ /\ mode = "stalled"
        /\ IF deferred \/ ImmediateEmpty
             THEN /\ pc' = "outside" /\ outcome' = "stalled"
                  /\ group' = {} /\ frGroup' = {}
                  /\ dead' = dead \cup group \cup frGroup
             ELSE pc' = "top" /\ UNCHANGED <<outcome, group, frGroup, dead>>
     \/ /\ mode = "cooperative"
        /\ pc' = IF QueuedEmpty /\ group = {} /\ detached = {} THEN "top" ELSE "yielded"
        /\ UNCHANGED <<outcome, group, frGroup, dead>>
  /\ UNCHANGED <<script, detached, world, mode, stamp, deferred, batch, ran>>

\* The thread sleeps until one of its futures is ready.
Unpark ==
  /\ pc = "parked"
  /\ \E j \in (group \cup detached) \cap ready :
       \/ Fail
       \/ /\ Effect
          /\ group' = group \ {j}
          /\ detached' = detached \ {j}
          /\ pc' = "top"
          /\ UNCHANGED <<mode, frGroup, stamp, deferred, batch, outcome, world, ran, dead>>

Resume ==
  /\ pc = "yielded"
  /\ pc' = "top"
  /\ UNCHANGED <<script, detached, world, run, batch, outcome, ran, dead>>

------------------------------------------------------------------------------
(* The embedder and the other threads. *)

\* The embedder calls into JavaScript while the loop does not run.
Call ==
  /\ pc \in {"outside", "yielded"}
  /\ Effect
  /\ outcome' = "none"
  /\ UNCHANGED <<detached, world, pc, run, batch, ran, dead>>

\* The embedder drops the future of run_jobs_async, and with it the groups.
DropRun ==
  /\ pc = "yielded"
  /\ pc' = "outside"
  /\ group' = {} /\ frGroup' = {}
  /\ dead' = dead \cup group \cup frGroup
  /\ UNCHANGED <<script, detached, world, mode, stamp, deferred, batch, outcome, ran>>

SetStop ==
  /\ stop' = TRUE
  /\ UNCHANGED <<script, detached, now, ready, pc, run, batch, outcome, ran, dead>>

BecomeReady(j) ==
  /\ kind[j] \in Futures
  /\ ready' = ready \cup {j}
  /\ UNCHANGED <<script, detached, stop, now, pc, run, batch, outcome, ran, dead>>

Tick ==
  /\ now < MaxTime
  /\ now' = now + 1
  /\ UNCHANGED <<script, detached, stop, ready, pc, run, batch, outcome, ran, dead>>

Loop ==
  \/ Stop \/ Admit \/ TakeDue \/ SkipTimer \/ RunTimer \/ SettleTimer \/ EndTimers
  \/ PollDetached \/ PollCleanup \/ Finish \/ NotIdle \/ PollGroup \/ TakePromiseJobs
  \/ RunPromiseJob \/ TakeGenericJobs \/ RunGenericJob \/ EndPass \/ Unpark \/ Resume

Embedder == Call \/ DropRun \/ \E m \in Modes : Start(m)

World == SetStop \/ Tick \/ \E j \in Jobs : BecomeReady(j)

Next == Loop \/ Embedder \/ World

Spec == Init /\ [][Next]_vars

\* The loop runs while it can, and time passes.
FairSpec == Spec /\ WF_vars(Loop) /\ WF_vars(Tick)

\* The same when in addition every future is ready some day.
ReadySpec == FairSpec /\ \A j \in Jobs : WF_vars(BecomeReady(j))

------------------------------------------------------------------------------
(* Properties. *)

\* Every variable has the values the code's types give it.
TypeOK ==
  /\ kind \in [Jobs -> AllKinds \cup {"none"}]
  /\ delay \in [Jobs -> Delays \cup {0}]
  /\ deadline \in [Jobs -> Instants]
  /\ \A q \in {promiseJobs, genericJobs, asyncJobs, cleanupJobs, batch, enqueued, ran} :
       q \in Seq(Jobs)
  /\ clockJobs \in [Instants -> Seq(Jobs)]
  /\ \A s \in {detached, active, revoked, ready, group, frGroup, cleared, dead} :
       s \subseteq Jobs
  /\ stop \in BOOLEAN /\ deferred \in BOOLEAN
  /\ now \in 0..MaxTime /\ stamp \in 0..MaxTime
  /\ mode \in {"park", "stalled", "cooperative"}
  /\ pc \in {"outside", "top", "due", "clock", "settle", "detached", "idle", "group",
             "take", "promise", "generic", "parked", "yielded"}
  /\ outcome \in {"none", "ok", "stopped", "error", "stalled"}

\* "Jobs must run in the same order as the HostEnqueuePromiseJob invocations that
\* scheduled them", over batches, errors and runs, and none is lost but by clear.
PromiseJobsInOrder ==
  enqueued = ran \o (IF pc = "promise" THEN batch ELSE <<>>) \o promiseJobs

\* What clear or the end of a run has dropped is gone: it is in no queue where a
\* later run would find it, and a dropped timer cannot be cancelled any more.
DroppedForGood ==
  /\ dead \cap Contained = {}
  /\ \A j \in dead : kind[j] \in Timers => j \in revoked

\* A run that ends well leaves nothing to do, whatever the last job that it
\* called has enqueued.
CompleteMeansEmpty == pc = "outside" /\ outcome = "ok" => IsEmpty /\ group = {}

\* setTimeout's table and the executor agree: a timer that can be cleared is
\* queued, or the one that is being called, and the other way round.
ActiveIsQueued ==
  active \ revoked =
    {j \in QueuedTimers \cup ToSet(batch) : kind[j] \in Timers /\ j \notin revoked}

\* What the executor and the table of timers hold between any two steps is what
\* they should: nothing that was dropped, nothing less than what can be cleared,
\* and nothing at all after a run that ended well.
QueuesAreExact == DroppedForGood /\ CompleteMeansEmpty /\ ActiveIsQueued

Calling(j) == pc = "clock" /\ pc' = "settle" /\ j = Head(batch)

\* After clearTimeout the callback of a timer is not called, not even when the
\* timer had been due, and taken from the queue, before.
ClearedNeverRuns == [][\A j \in cleared : ~ Calling(j)]_vars

\* Timers are called in the order of their deadlines, whatever they enqueue.
TimersInOrder ==
  [][\A j \in Jobs : Calling(j) =>
       \A i \in (QueuedTimers \cup ToSet(batch)) \ revoked :
         kind[i] \in Timers => deadline[j] <= deadline[i]]_vars

\* run_jobs returns, when every future is ready some day and no interval is left.
RunEnds == pc # "outside" ~> pc = "outside" \/ \E j \in active \ revoked : kind[j] = "interval"

\* get_cancellation_token: "Setting the signal to `true` will exit the inner
\* event loop and stop executing any pending jobs."
StopEndsLoop == stop /\ pc # "outside" ~> pc = "outside"

==============================================================================
