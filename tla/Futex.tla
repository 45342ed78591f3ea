-------------------------------- MODULE Futex --------------------------------
(****************************************************************************)
(* Atomics.wait, Atomics.waitAsync and Atomics.notify of Boa: the agents    *)
(* (threads with a Context each) of one cluster, the shared memory, the     *)
(* global CRITICAL_SECTION mutex and the per-address lists of waiters       *)
(* (core/engine/src/builtins/atomics/futex.rs).                             *)
(*                                                                          *)
(* An agent executes one function at a time; pc[a] says where it is in it.  *)
(* A function's prologue touches no shared state, so its first action takes *)
(* the mutex.  Stores do not take it: they happen between any two steps.    *)
(* A synchronous waiter lives on its agent's stack and is named after the   *)
(* agent; an asynchronous one is an Arc and has a name of its own.          *)
(****************************************************************************)
EXTENDS Integers, Sequences, SequencesExt

CONSTANTS
  Agents,       \* threads of the agent cluster
  CanBlock,     \* those whose Context::can_block() is true
  Async,        \* names of asynchronous waiters, each used at most once
  Addr,         \* addresses of 32-bit cells in shared buffers
  Val,          \* values of a cell
  NoAgent,      \* the mutex is free
  Counts,       \* values of notify's count argument (u64::MAX is a large one)
  MaxOps,       \* bound: JS-level operations the agents start altogether
  MaxSpurious   \* bound: spurious condition-variable wakeups of a behaviour

ASSUME FutexAssumption ==
  /\ CanBlock \subseteq Agents
  /\ Agents \cap Async = {}
  /\ NoAgent \notin Agents
  /\ Addr # {} /\ Val # {}
  /\ Counts \subseteq Nat
  /\ MaxOps \in Nat
  /\ MaxSpurious \in Nat

VARIABLES
  mem,        \* [Addr -> Val]
  owes,       \* history: the addresses an agent stored to and has not since
              \* notified until no waiter was left
  lock,       \* holder of CRITICAL_SECTION
  waiters,    \* FutexWaiters.waiters; <<>> when the map has no entry
  pc,         \* where an agent is
  rec,        \* what a waiter waits for: address, checked value, timeout
  expired,    \* waiters whose timeout has elapsed
  signalled,  \* sleeping agents whose Condvar got notify_one
  count,      \* max_count of an agent's notify
  popped,     \* waiters its notify has removed; its return value afterwards
  result,     \* what an agent's last wait returned
  owner,      \* agent that created an asynchronous waiter
  chan,       \* its oneshot channel
  promise,    \* its promise
  timer,      \* its TimeoutJob in the owner's executor
  job,        \* its NativeAsyncJob in the owner's executor
  ops,        \* JS-level operations started so far
  spurious    \* spurious wakeups so far

vars == <<mem, owes, lock, waiters, pc, rec, expired, signalled, count, popped,
          result, owner, chan, promise, timer, job, ops, spurious>>
asyncVars == <<owner, chan, promise, timer, job>>

Waiters == Agents \cup Async
Outcomes == {"ok", "timed-out"}
Timeouts == {"none", "zero", "finite"}
Holding == {"load", "push", "check", "loadAsync", "pushAsync", "pop"}
Linkable == {"check", "asleep", "awake"}

\* A record no list and no function refers to yet.
NoRecord == [addr |-> CHOOSE x \in Addr : TRUE, val |-> CHOOSE v \in Val : TRUE,
             timeout |-> "none"]

\* waiter.link.is_linked()
Linked(w) == Contains(waiters[rec[w].addr], w)

\* The list without w (CursorMut::remove).
Unlink(s, w) == RemoveAt(s, CHOOSE i \in 1..Len(s) : s[i] = w)

Init ==
  /\ mem \in [Addr -> Val]
  /\ owes = [a \in Agents |-> {}]
  /\ lock = NoAgent
  /\ waiters = [x \in Addr |-> <<>>]
  /\ pc = [a \in Agents |-> "idle"]
  /\ rec = [w \in Waiters |-> NoRecord]
  /\ expired = {}
  /\ signalled = {}
  /\ count = [a \in Agents |-> 0]
  /\ popped = [a \in Agents |-> 0]
  /\ result = [a \in Agents |-> "none"]
  /\ owner = [i \in Async |-> NoAgent]
  /\ chan = [i \in Async |-> "none"]
  /\ promise = [i \in Async |-> "none"]
  /\ timer = [i \in Async |-> "none"]
  /\ job = [i \in Async |-> "none"]
  /\ ops = 0
  /\ spurious = 0

------------------------------------------------------------------------------
(* The operations a program starts. *)

StartOp(a) ==
  /\ pc[a] = "idle"
  /\ ops < MaxOps
  /\ ops' = ops + 1

Discard(a) == [rec EXCEPT ![a] = NoRecord]

\* CRITICAL_SECTION.lock()
Acquire(a) == lock = NoAgent /\ lock' = a

\* Dropping the guard and returning r to the program: what is on the stack,
\* a synchronous waiter included, ends here.
Return(a, r) ==
  /\ lock' = NoAgent
  /\ pc' = [pc EXCEPT ![a] = "idle"]
  /\ result' = [result EXCEPT ![a] = r]
  /\ expired' = expired \ {a}

\* Atomics.store and the read-modify-write operations.
Store(a, x, v) ==
  /\ StartOp(a)
  /\ mem' = [mem EXCEPT ![x] = v]
  /\ owes' = [owes EXCEPT ![a] = @ \cup {x}]
  /\ UNCHANGED <<lock, waiters, pc, rec, expired, signalled, count, popped,
                 result, asyncVars, spurious>>

\* Atomics.wait (at = "load") and Atomics.waitAsync (at = "loadAsync"), up to
\* the acquisition of the mutex.
Begin(a, at, x, v, t) ==
  /\ StartOp(a)
  /\ Acquire(a)
  /\ pc' = [pc EXCEPT ![a] = at]
  /\ rec' = [rec EXCEPT ![a] = [addr |-> x, val |-> v, timeout |-> t]]
  /\ expired' = expired \ {a}
  /\ result' = [result EXCEPT ![a] = "none"]
  /\ UNCHANGED <<mem, owes, waiters, signalled, count, popped, asyncVars, spurious>>

BeginWait(a, x, v, t) == a \in CanBlock /\ Begin(a, "load", x, v, t)

BeginWaitAsync(a, x, v, t) ==
  /\ \E i \in Async : chan[i] = "none"
  /\ Begin(a, "loadAsync", x, v, t)

\* Atomics.notify, up to the acquisition of the mutex.
BeginNotify(a, x, n) ==
  /\ StartOp(a)
  /\ Acquire(a)
  /\ pc' = [pc EXCEPT ![a] = "pop"]
  /\ rec' = [rec EXCEPT ![a].addr = x]
  /\ count' = [count EXCEPT ![a] = n]
  /\ popped' = [popped EXCEPT ![a] = 0]
  /\ UNCHANGED <<mem, owes, waiters, expired, signalled, result, asyncVars, spurious>>

------------------------------------------------------------------------------
(* futex::wait *)

\* Mutant: the mutex is released between the check and the listing.
LoadThenUnlock(a) ==
  /\ pc[a] = "load"
  /\ mem[rec[a].addr] = rec[a].val
  /\ pc' = [pc EXCEPT ![a] = "push"]
  /\ lock' = NoAgent
  /\ UNCHANGED <<mem, owes, waiters, rec, expired, signalled, count, popped,
                 result, asyncVars, ops, spurious>>

\* The cell is read with the mutex held.
Load(a) ==
  /\ pc[a] = "load"
  /\ IF mem[rec[a].addr] # rec[a].val
       THEN Return(a, "not-equal") /\ rec' = Discard(a)
       ELSE /\ pc' = [pc EXCEPT ![a] = "push"]
            /\ UNCHANGED <<lock, result, rec, expired>>
  /\ UNCHANGED <<mem, owes, waiters, signalled, count, popped, asyncVars, ops,
                 spurious>>

\* Mutant: push_front.
AddWaiterInFront(w, x) == waiters' = [waiters EXCEPT ![x] = <<w>> \o @]

AddWaiter(w, x) == waiters' = [waiters EXCEPT ![x] = Append(@, w)]

Push(a) ==
  /\ pc[a] = "push"
  /\ AddWaiter(a, rec[a].addr)
  /\ pc' = [pc EXCEPT ![a] = "check"]
  /\ UNCHANGED <<mem, owes, lock, rec, expired, signalled, count, popped, result,
                 asyncVars, ops, spurious>>

TimedOut(a) == rec[a].timeout # "none" /\ a \in expired

\* The loop head breaks with Ok: the waiter was unlinked by a notify.
CheckNotified(a) ==
  /\ pc[a] = "check"
  /\ ~ Linked(a)
  /\ Return(a, "ok")
  /\ rec' = Discard(a)
  /\ UNCHANGED <<mem, owes, waiters, signalled, count, popped, asyncVars, ops,
                 spurious>>

\* Mutant: a timed-out wait returns without remove_waiter.
LeaveLinked(a) ==
  /\ pc[a] = "check"
  /\ Linked(a)
  /\ TimedOut(a)
  /\ Return(a, "timed-out")
  /\ UNCHANGED <<mem, owes, waiters, rec, signalled, count, popped, asyncVars,
                 ops, spurious>>

\* The loop head breaks with TimedOut and the waiter removes itself.
CheckTimedOut(a) ==
  /\ pc[a] = "check"
  /\ Linked(a)
  /\ TimedOut(a)
  /\ waiters' = [waiters EXCEPT ![rec[a].addr] = Unlink(@, a)]
  /\ Return(a, "timed-out")
  /\ rec' = Discard(a)
  /\ UNCHANGED <<mem, owes, signalled, count, popped, asyncVars, ops, spurious>>

\* Condvar::wait and wait_timeout release the mutex and sleep in one step.
Sleep(a) ==
  /\ pc[a] = "check"
  /\ Linked(a)
  /\ ~ TimedOut(a)
  /\ lock' = NoAgent
  /\ pc' = [pc EXCEPT ![a] = "asleep"]
  /\ UNCHANGED <<mem, owes, waiters, rec, expired, signalled, count, popped,
                 result, asyncVars, ops, spurious>>

\* Mutant: wait instead of wait_timeout.
WakeOnSignalOnly(a) ==
  /\ pc[a] = "asleep"
  /\ a \in signalled
  /\ pc' = [pc EXCEPT ![a] = "awake"]
  /\ signalled' = signalled \ {a}
  /\ UNCHANGED <<mem, owes, lock, waiters, rec, expired, count, popped, result,
                 asyncVars, ops, spurious>>

\* The Condvar wakes its thread: a notify_one, or the timeout of wait_timeout.
Wake(a) ==
  /\ pc[a] = "asleep"
  /\ a \in signalled \/ TimedOut(a)
  /\ pc' = [pc EXCEPT ![a] = "awake"]
  /\ signalled' = signalled \ {a}
  /\ UNCHANGED <<mem, owes, lock, waiters, rec, expired, count, popped, result,
                 asyncVars, ops, spurious>>

SpuriousWake(a) ==
  /\ pc[a] = "asleep"
  /\ spurious < MaxSpurious
  /\ spurious' = spurious + 1
  /\ pc' = [pc EXCEPT ![a] = "awake"]
  /\ signalled' = signalled \ {a}
  /\ UNCHANGED <<mem, owes, lock, waiters, rec, expired, count, popped, result,
                 asyncVars, ops>>

\* The Condvar takes the mutex back before its wait returns.
Reacquire(a) ==
  /\ pc[a] = "awake"
  /\ Acquire(a)
  /\ pc' = [pc EXCEPT ![a] = "check"]
  /\ UNCHANGED <<mem, owes, waiters, rec, expired, signalled, count, popped,
                 result, asyncVars, ops, spurious>>

\* The time of a waiter that waits with a timeout runs out.
Expire(w) ==
  /\ rec[w].timeout # "none"
  /\ w \notin expired
  /\ IF w \in Agents THEN pc[w] \in Linkable ELSE timer[w] = "queued"
  /\ expired' = expired \cup {w}
  /\ UNCHANGED <<mem, owes, lock, waiters, pc, rec, signalled, count, popped,
                 result, asyncVars, ops, spurious>>

------------------------------------------------------------------------------
(* futex::wait_async and the two jobs it leaves in its agent's executor. *)

LoadAsync(a) ==
  /\ pc[a] = "loadAsync"
  /\ \/ /\ mem[rec[a].addr] # rec[a].val
        /\ Return(a, "not-equal")
        /\ rec' = Discard(a)
     \/ /\ mem[rec[a].addr] = rec[a].val
        /\ rec[a].timeout = "zero"
        /\ Return(a, "timed-out-at-once")
        /\ rec' = Discard(a)
     \/ /\ mem[rec[a].addr] = rec[a].val
        /\ rec[a].timeout # "zero"
        /\ pc' = [pc EXCEPT ![a] = "pushAsync"]
        /\ UNCHANGED <<lock, result, rec, expired>>
  /\ UNCHANGED <<mem, owes, waiters, signalled, count, popped, asyncVars, ops,
                 spurious>>

\* Mutant: the NativeAsyncJob is not enqueued.
PushAsyncNoJob(a, i) ==
  /\ pc[a] = "pushAsync"
  /\ chan[i] = "none"
  /\ AddWaiter(i, rec[a].addr)
  /\ rec' = [Discard(a) EXCEPT ![i] = rec[a]]
  /\ owner' = [owner EXCEPT ![i] = a]
  /\ chan' = [chan EXCEPT ![i] = "empty"]
  /\ promise' = [promise EXCEPT ![i] = "pending"]
  /\ timer' = [timer EXCEPT ![i] = IF rec[a].timeout = "none" THEN "none" ELSE "queued"]
  /\ Return(a, "promise")
  /\ UNCHANGED <<mem, owes, signalled, count, popped, job, ops, spurious>>

\* Links a new waiter i and enqueues its jobs before the mutex is released.
PushAsync(a, i) ==
  /\ pc[a] = "pushAsync"
  /\ chan[i] = "none"
  /\ AddWaiter(i, rec[a].addr)
  /\ rec' = [Discard(a) EXCEPT ![i] = rec[a]]
  /\ owner' = [owner EXCEPT ![i] = a]
  /\ chan' = [chan EXCEPT ![i] = "empty"]
  /\ promise' = [promise EXCEPT ![i] = "pending"]
  /\ timer' = [timer EXCEPT ![i] = IF rec[a].timeout = "none" THEN "none" ELSE "queued"]
  /\ job' = [job EXCEPT ![i] = "queued"]
  /\ Return(a, "promise")
  /\ UNCHANGED <<mem, owes, signalled, count, popped, ops, spurious>>

\* Mutant: the timeout job does not ask whether the waiter is still linked.
RunTimerBlindly(a, i) ==
  /\ pc[a] = "idle" /\ owner[i] = a /\ timer[i] = "queued" /\ i \in expired
  /\ lock = NoAgent
  /\ timer' = [timer EXCEPT ![i] = "done"]
  /\ waiters' = IF Linked(i) THEN [waiters EXCEPT ![rec[i].addr] = Unlink(@, i)]
                             ELSE waiters
  /\ chan' = [chan EXCEPT ![i] = "timed-out"]
  /\ UNCHANGED <<mem, owes, lock, pc, rec, expired, signalled, count, popped,
                 result, owner, promise, job, ops, spurious>>

\* Mutant: the timeout job unlinks the waiter and sends nothing.
RunTimerSilently(a, i) ==
  /\ pc[a] = "idle" /\ owner[i] = a /\ timer[i] = "queued" /\ i \in expired
  /\ lock = NoAgent
  /\ timer' = [timer EXCEPT ![i] = "done"]
  /\ waiters' = IF Linked(i) THEN [waiters EXCEPT ![rec[i].addr] = Unlink(@, i)]
                             ELSE waiters
  /\ UNCHANGED <<mem, owes, lock, pc, rec, expired, signalled, count, popped,
                 result, owner, chan, promise, job, ops, spurious>>

\* The TimeoutJob: its closure is one critical section.  A weak reference
\* that upgrades but is not linked, or does not upgrade, leaves all alone.
RunTimer(a, i) ==
  /\ pc[a] = "idle"
  /\ owner[i] = a
  /\ timer[i] = "queued"
  /\ i \in expired
  /\ lock = NoAgent
  /\ timer' = [timer EXCEPT ![i] = "done"]
  /\ IF Linked(i)
       THEN /\ waiters' = [waiters EXCEPT ![rec[i].addr] = Unlink(@, i)]
            /\ chan' = [chan EXCEPT ![i] = "timed-out"]
       ELSE UNCHANGED <<waiters, chan>>
  /\ UNCHANGED <<mem, owes, lock, pc, rec, expired, signalled, count, popped,
                 result, owner, promise, job, ops, spurious>>

\* Mutant: the job does not await its channel.
RunJobAtOnce(a, i) ==
  /\ pc[a] = "idle" /\ owner[i] = a /\ job[i] = "queued"
  /\ promise' = [promise EXCEPT ![i] = chan[i]]
  /\ job' = [job EXCEPT ![i] = "done"]
  /\ timer' = [timer EXCEPT ![i] = IF @ = "queued" THEN "cancelled" ELSE @]
  /\ UNCHANGED <<mem, owes, lock, waiters, pc, rec, expired, signalled, count,
                 popped, result, owner, chan, ops, spurious>>

\* The NativeAsyncJob receives the outcome without the mutex, resolves the
\* promise and cancels the timer.
RunJob(a, i) ==
  /\ pc[a] = "idle"
  /\ owner[i] = a
  /\ job[i] = "queued"
  /\ chan[i] \in Outcomes
  /\ promise' = [promise EXCEPT ![i] = chan[i]]
  /\ job' = [job EXCEPT ![i] = "done"]
  /\ timer' = [timer EXCEPT ![i] = IF @ = "queued" THEN "cancelled" ELSE @]
  /\ UNCHANGED <<mem, owes, lock, waiters, pc, rec, expired, signalled, count,
                 popped, result, owner, chan, ops, spurious>>

\* The agent's executor is cleared, by an error of some job or because its
\* Context goes away.  Its waiters stay linked.
DropJobs(a) ==
  /\ StartOp(a)
  /\ \E i \in Async : owner[i] = a /\ job[i] = "queued"
  /\ timer' = [i \in Async |->
                 IF owner[i] = a /\ timer[i] = "queued" THEN "dropped" ELSE timer[i]]
  /\ job' = [i \in Async |->
               IF owner[i] = a /\ job[i] = "queued" THEN "dropped" ELSE job[i]]
  /\ UNCHANGED <<mem, owes, lock, waiters, pc, rec, expired, signalled, count,
                 popped, result, owner, chan, promise, spurious>>

------------------------------------------------------------------------------
(* futex::notify *)

\* One iteration of notify_many: unlink the oldest waiter, then wake it.
Pop(a) ==
  LET x == rec[a].addr
      w == Head(waiters[x])
  IN /\ pc[a] = "pop"
     /\ popped[a] < count[a]
     /\ waiters[x] # <<>>
     /\ waiters' = [waiters EXCEPT ![x] = Tail(@)]
     /\ popped' = [popped EXCEPT ![a] = @ + 1]
     /\ IF w \in Agents
          THEN /\ signalled' = IF pc[w] = "asleep" THEN signalled \cup {w}
                                                   ELSE signalled
               /\ UNCHANGED chan
          ELSE /\ chan' = [chan EXCEPT ![w] = "ok"]
               /\ UNCHANGED signalled
     /\ UNCHANGED <<mem, owes, lock, pc, rec, expired, count, result, owner,
                    promise, timer, job, ops, spurious>>

\* The loop ends, by its bound or at the end of the list.  Either way popped[a]
\* is what is returned: max_count, or the number of iterations done.
EndNotify(a) ==
  LET x == rec[a].addr
  IN /\ pc[a] = "pop"
     /\ popped[a] = count[a] \/ waiters[x] = <<>>
     /\ owes' = [owes EXCEPT ![a] = IF waiters[x] = <<>> THEN @ \ {x} ELSE @]
     /\ lock' = NoAgent
     /\ pc' = [pc EXCEPT ![a] = "idle"]
     /\ rec' = Discard(a)
     /\ count' = [count EXCEPT ![a] = 0]
     /\ UNCHANGED <<mem, waiters, expired, signalled, popped, result, asyncVars,
                    ops, spurious>>

------------------------------------------------------------------------------
Program(a) ==
  \/ \E x \in Addr, v \in Val : Store(a, x, v)
  \/ \E x \in Addr, v \in Val, t \in {"none", "finite"} : BeginWait(a, x, v, t)
  \/ \E x \in Addr, v \in Val, t \in Timeouts : BeginWaitAsync(a, x, v, t)
  \/ \E x \in Addr, n \in Counts : BeginNotify(a, x, n)
  \/ DropJobs(a)

\* What an agent does by itself once it is inside a function.
Internal(a) ==
  \/ Load(a) \/ Push(a) \/ CheckNotified(a) \/ CheckTimedOut(a) \/ Sleep(a)
  \/ Wake(a) \/ Reacquire(a)
  \/ LoadAsync(a) \/ (\E i \in Async : PushAsync(a, i))
  \/ Pop(a) \/ EndNotify(a)

Jobs(a) == \E i \in Async : RunTimer(a, i) \/ RunJob(a, i)

Next ==
  \/ \E a \in Agents : Program(a) \/ Internal(a) \/ Jobs(a) \/ SpuriousWake(a)
  \/ \E w \in Waiters : Expire(w)

Spec == Init /\ [][Next]_vars

\* A thread that can run does run and time passes; nothing is said of what
\* programs start, of spurious wakeups, or of who wins the mutex.
Fairness ==
  /\ \A a \in Agents : WF_vars(Internal(a))
  /\ \A a \in Agents, i \in Async : WF_vars(RunTimer(a, i)) /\ WF_vars(RunJob(a, i))
  /\ \A w \in Waiters : WF_vars(Expire(w))

FairSpec == Spec /\ Fairness

------------------------------------------------------------------------------
(* Properties. *)

Results == {"none", "not-equal", "timed-out-at-once", "promise"} \cup Outcomes
Records == [addr : Addr, val : Val, timeout : Timeouts]
JobStates == {"none", "queued", "cancelled", "dropped", "done"}

\* Every variable has the values the code's types give it.
TypeOK ==
  /\ mem \in [Addr -> Val]
  /\ owes \in [Agents -> SUBSET Addr]
  /\ lock \in Agents \cup {NoAgent}
  /\ waiters \in [Addr -> Seq(Waiters)]
  /\ pc \in [Agents -> Holding \cup {"idle", "asleep", "awake"}]
  /\ rec \in [Waiters -> Records]
  /\ expired \subseteq Waiters
  /\ signalled \subseteq Agents
  /\ count \in [Agents -> Nat]
  /\ popped \in [Agents -> Nat]
  /\ result \in [Agents -> Results]
  /\ owner \in [Async -> Agents \cup {NoAgent}]
  /\ chan \in [Async -> {"none", "empty"} \cup Outcomes]
  /\ promise \in [Async -> {"none", "pending"} \cup Outcomes]
  /\ timer \in [Async -> JobStates]
  /\ job \in [Async -> JobStates]
  /\ ops \in Nat
  /\ spurious \in Nat

\* The mutex is held by exactly the agent that is inside a critical section.
CriticalSection == \A a \in Agents : pc[a] \in Holding <=> lock = a

\* The "# Safety" contracts of add_waiter and remove_waiter: what a list points
\* to is alive and belongs there.  A listed stack waiter's agent is still
\* inside futex::wait, a listed Arc waiter still has its sender, each is in
\* the list of its own address, and in it once.
ListsAreSound ==
  \A x \in Addr :
    /\ IsInjective(waiters[x])
    /\ \A w \in Waiters : Contains(waiters[x], w) =>
         /\ rec[w].addr = x
         /\ IF w \in Agents THEN pc[w] \in Linkable ELSE chan[w] = "empty"

\* An asynchronous waiter has not been told its outcome exactly as long as it
\* is in its list, whichever of notify and the timeout job comes first.
LinkedUntilTold == \A i \in Async : chan[i] = "empty" => Linked(i)

\* No lost wakeup: whoever waits although its cell no longer holds the value it
\* was checked for is owed a notify by an agent that stored to that cell.  This
\* needs the check and the listing to be in one critical section.
Committed(w) ==
  \/ w \in Agents /\ pc[w] \in {"push", "pushAsync"}
  \/ Linked(w)

NoLostWakeup ==
  \A w \in Waiters :
    Committed(w) /\ mem[rec[w].addr] # rec[w].val
      => \E a \in Agents : rec[w].addr \in owes[a]

\* A thread on its Condvar that was unlinked has been signalled, so it wakes up
\* without help (notify_many unlinks and notifies in one critical section).
UnlinkedIsSignalled ==
  \A a \in Agents : pc[a] = "asleep" /\ ~ Linked(a) => a \in signalled

\* A promise is settled with what the channel delivered, and both happen once:
\* the timeout job and notify never both reach the same waiter.
OutcomeIsFinal ==
  [][\A i \in Async :
       /\ chan[i] \in Outcomes => chan'[i] = chan[i]
       /\ promise'[i] # promise[i] => promise'[i] \in {"pending", chan[i]}]_vars

\* A synchronous wait that was notified or has a timeout returns.
WaitReturns ==
  \A a \in Agents :
    (pc[a] \in Linkable /\ (~ Linked(a) \/ rec[a].timeout # "none"))
      ~> (pc[a] = "idle")

\* A promise of waitAsync with an outcome due is settled, unless its agent's
\* jobs are dropped or the agent itself blocks in Atomics.wait for good.
PromiseSettles ==
  \A i \in Async :
    (chan[i] \in Outcomes \/ timer[i] = "queued")
      ~> \/ promise[i] \in Outcomes
         \/ job[i] = "dropped"
         \/ [](\E a \in Agents : owner[i] = a /\ pc[a] = "asleep")

==============================================================================
