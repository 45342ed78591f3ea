------------------------------ MODULE Promises ------------------------------
(****************************************************************************)
(* Promise objects, their resolving functions and their jobs                *)
(* (core/engine/src/builtins/promise/mod.rs).                               *)
(*                                                                          *)
(* frames is the stack of native calls that wait for JavaScript: the job    *)
(* that called a handler, the resolve function that reads `then`.  The      *)
(* JavaScript on top may create promises, call any resolving function there *)
(* is, register reactions, and return or throw into the frame below.  Jobs  *)
(* run when the stack is empty, in the order of the executor's queue.       *)
(****************************************************************************)
EXTENDS Integers, Sequences, SequencesExt, Functions

CONSTANTS
  MaxPromises,   \* bound: promises ever created
  MaxPairs,      \* bound: pairs of resolving functions ever created
  MaxThens,      \* bound: reactions ever registered
  MaxDepth       \* bound: the depth of the stack

ASSUME PromisesAssumption ==
  MaxPromises \in Nat /\ MaxPairs \in Nat /\ MaxThens \in Nat /\ MaxDepth \in Nat

Promise == 1..MaxPromises
Pair == 1..MaxPairs

Taken == 0    \* the cell of a pair one of whose functions was called
Unused == -1  \* a pair that does not exist yet

(* What resolve is called with: a promise, a value that is not an object, or *)
(* an object whose `then` is JavaScript to read and to call.                 *)
Plain == 0
Thenable == -1

(* The handler of a reaction: a function of the script, nothing, the native *)
(* functions of await, or those of a pair.                                  *)
Function == 0
NoHandler == -1
Awaiting == -2

VARIABLES
  state,        \* Promise.state; "absent" before the promise exists
  result,       \* the value of PromiseState::Fulfilled or Rejected
  handled,      \* Promise.handled
  reactions,    \* fulfill_reactions and reject_reactions, which are pushed and
                \* emptied together
  captures,     \* the Cell<Option<promise>> a pair of functions shares
  promiseQueue, \* the jobs handed to enqueue_job
  frames,       \* native calls that wait for JavaScript, the innermost last
  unhandled,    \* external: what the host's rejection tracker was told
  thens,        \* history: how many reactions were registered on a promise
  reacted       \* history: the numbers of its reactions that ran, in order

SumOf(counts) == FoldFunction(+, 0, counts)

objects == <<state, result, handled, reactions, unhandled>>
promiseVars == <<objects, captures, promiseQueue, frames, thens, reacted>>

ReactionJob(p, r, type, value) ==
  [kind |-> "reaction", promise |-> p, reaction |-> r, type |-> type, value |-> value]
ThenableJob(p, x) == [kind |-> "thenable", promise |-> p, value |-> x]

Frame(kind, id) == [kind |-> kind, id |-> id]
Top == Last(frames)

(* JavaScript runs in every frame but that of a native handler, which has   *)
(* only to return.                                                          *)
InJavaScript == frames # <<>> /\ Top.kind # "native"

FreshPromise(p) == state[p] = "absent" /\ \A q \in Promise : q < p => state[q] # "absent"
FreshPair(f) == captures[f] = Unused /\ \A g \in Pair : g < f => captures[g] # Unused

(* fulfill_promise and reject_promise: the reactions become jobs, in order, *)
(* and the host hears of a rejection nobody handles.                        *)
Settled(p, s, value, queue) ==
  /\ state' = [state EXCEPT ![p] = s]
  /\ result' = [result EXCEPT ![p] = value]
  /\ reactions' = [reactions EXCEPT ![p] = <<>>]
  /\ promiseQueue' = queue \o
       [i \in 1..Len(reactions[p]) |-> ReactionJob(p, reactions[p][i], s, value)]
  /\ unhandled' = IF s = "rejected" /\ ~handled[p] THEN unhandled \cup {p} ELSE unhandled
  /\ UNCHANGED handled

(* The body of a resolve function once it has taken its promise.            *)
Resolving(p, x, stack, queue) ==
  \/ x = p /\ Settled(p, "rejected", Plain, queue) /\ frames' = stack
  \/ x = Plain /\ Settled(p, "fulfilled", Plain, queue) /\ frames' = stack
  \/ /\ x = Thenable     \* get("then") runs JavaScript
     /\ Len(stack) < MaxDepth
     /\ frames' = Append(stack, Frame("get", p))
     /\ promiseQueue' = queue
     /\ UNCHANGED objects
  \/ /\ x \in Promise \ {p}
     /\ promiseQueue' = Append(queue, ThenableJob(p, x))
     /\ frames' = stack
     /\ UNCHANGED objects

\* Mutant: a call does not use the pair up.
CallResolveTwice(f, x, stack, queue) ==
  /\ UNCHANGED captures
  /\ IF captures[f] = Taken
     THEN promiseQueue' = queue /\ frames' = stack /\ UNCHANGED objects
     ELSE Resolving(captures[f], x, stack, queue)

(* A call of a resolve function: of a pair's two only the first call counts. *)
CallResolve(f, x, stack, queue) ==
  IF captures[f] = Taken
  THEN promiseQueue' = queue /\ frames' = stack /\ UNCHANGED <<objects, captures>>
  ELSE captures' = [captures EXCEPT ![f] = Taken] /\ Resolving(captures[f], x, stack, queue)

CallReject(f, stack, queue) ==
  /\ frames' = stack
  /\ IF captures[f] = Taken
     THEN promiseQueue' = queue /\ UNCHANGED <<objects, captures>>
     ELSE /\ captures' = [captures EXCEPT ![f] = Taken]
          /\ Settled(captures[f], "rejected", Plain, queue)

\* Mutant: a new reaction goes before the older ones.
PerformThenUnordered(q, handler, cap, queue) ==
  LET r == [number |-> thens[q] + 1, handler |-> handler, cap |-> cap] IN
  /\ SumOf(thens) < MaxThens
  /\ thens' = [thens EXCEPT ![q] = @ + 1]
  /\ reactions' = IF state[q] = "pending"
                  THEN [reactions EXCEPT ![q] = <<r>> \o @] ELSE reactions
  /\ promiseQueue' = IF state[q] = "pending"
                     THEN queue ELSE Append(queue, ReactionJob(q, r, state[q], result[q]))
  /\ unhandled' = IF handled[q] THEN unhandled ELSE unhandled \ {q}
  /\ handled' = [handled EXCEPT ![q] = TRUE]

\* Mutant: the promise is marked handled before the tracker is asked.
PerformThenForgetful(q, handler, cap, queue) ==
  LET r == [number |-> thens[q] + 1, handler |-> handler, cap |-> cap] IN
  /\ SumOf(thens) < MaxThens
  /\ thens' = [thens EXCEPT ![q] = @ + 1]
  /\ reactions' = IF state[q] = "pending"
                  THEN [reactions EXCEPT ![q] = Append(@, r)] ELSE reactions
  /\ promiseQueue' = IF state[q] = "pending"
                     THEN queue ELSE Append(queue, ReactionJob(q, r, state[q], result[q]))
  /\ handled' = [handled EXCEPT ![q] = TRUE]
  /\ unhandled' = IF handled'[q] THEN unhandled ELSE unhandled \ {q}

(* perform_promise_then: the reaction waits, or its job is queued at once.   *)
PerformThen(q, handler, cap, queue) ==
  LET r == [number |-> thens[q] + 1, handler |-> handler, cap |-> cap] IN
  /\ SumOf(thens) < MaxThens
  /\ thens' = [thens EXCEPT ![q] = @ + 1]
  /\ reactions' = IF state[q] = "pending"
                  THEN [reactions EXCEPT ![q] = Append(@, r)] ELSE reactions
  /\ promiseQueue' = IF state[q] = "pending"
                     THEN queue ELSE Append(queue, ReactionJob(q, r, state[q], result[q]))
  /\ unhandled' = IF handled[q] THEN unhandled ELSE unhandled \ {q}
  /\ handled' = [handled EXCEPT ![q] = TRUE]

----------------------------------------------------------------------------
(* What JavaScript does.                                                    *)

(* new Promise: the executor is called at once with the functions of the new *)
(* pair, and if it throws the constructor calls reject: Resolve and Reject.  *)
NewPromise ==
  \E p \in Promise, f \in Pair :
    /\ InJavaScript
    /\ FreshPromise(p) /\ FreshPair(f)
    /\ state' = [state EXCEPT ![p] = "pending"]
    /\ captures' = [captures EXCEPT ![f] = p]
    /\ UNCHANGED <<result, handled, reactions, unhandled, promiseQueue, frames, thens, reacted>>

Resolve ==
  \E f \in Pair, x \in {Plain, Thenable} \cup Promise :
    /\ InJavaScript
    /\ captures[f] \in Promise
    /\ x \in Promise => state[x] # "absent"
    /\ CallResolve(f, x, frames, promiseQueue)
    /\ UNCHANGED <<thens, reacted>>

Reject ==
  \E f \in Pair :
    /\ InJavaScript
    /\ captures[f] \in Promise
    /\ CallReject(f, frames, promiseQueue)
    /\ UNCHANGED <<thens, reacted>>

(* then, with or without a handler; the capability of the derived promise is *)
(* seen by JavaScript when the species constructor is a class of its own.    *)
Then ==
  \E q, p \in Promise, f \in Pair, handler \in {Function, NoHandler} :
    /\ InJavaScript
    /\ state[q] # "absent"
    /\ FreshPromise(p) /\ FreshPair(f)
    /\ PerformThen(q, handler, f, promiseQueue)
    /\ state' = [state EXCEPT ![p] = "pending"]
    /\ captures' = [captures EXCEPT ![f] = p]
    /\ UNCHANGED <<result, frames, reacted>>

(* await: native handlers that resume a function, and no derived promise.   *)
Await ==
  \E q \in Promise :
    /\ InJavaScript
    /\ state[q] # "absent"
    /\ PerformThen(q, Awaiting, Taken, promiseQueue)
    /\ UNCHANGED <<state, result, captures, frames, reacted>>

----------------------------------------------------------------------------
(* How JavaScript, or a native handler, comes back to the frame below it.   *)

Return ==
  \/ /\ frames # <<>> /\ Top.kind \in {"script", "await", "then"}
     /\ frames' = Front(frames)
     /\ UNCHANGED <<objects, captures, promiseQueue, thens, reacted>>
  \/ \E x \in {Plain, Thenable} \cup Promise :
       /\ frames # <<>> /\ Top.kind \in {"handler", "native"}
       /\ Top.kind = "native" => x = Plain
       /\ x \in Promise => state[x] # "absent"
       /\ CallResolve(Top.id, x, Front(frames), promiseQueue)
       /\ UNCHANGED <<thens, reacted>>
  \/ /\ frames # <<>> /\ Top.kind = "get"     \* then_action is not callable
     /\ Settled(Top.id, "fulfilled", Thenable, promiseQueue)
     /\ frames' = Front(frames)
     /\ UNCHANGED <<captures, thens, reacted>>
  \/ /\ frames # <<>> /\ Top.kind = "get"
     /\ promiseQueue' = Append(promiseQueue, ThenableJob(Top.id, Thenable))
     /\ frames' = Front(frames)
     /\ UNCHANGED <<objects, captures, thens, reacted>>

Throw ==
  \/ /\ frames # <<>> /\ Top.kind = "script"
     /\ frames' = Front(frames)
     /\ UNCHANGED <<objects, captures, promiseQueue, thens, reacted>>
  \/ /\ frames # <<>> /\ Top.kind \in {"handler", "then"}
     /\ CallReject(Top.id, Front(frames), promiseQueue)
     /\ UNCHANGED <<thens, reacted>>
  \/ /\ frames # <<>> /\ Top.kind = "get"
     /\ Settled(Top.id, "rejected", Plain, promiseQueue)
     /\ frames' = Front(frames)
     /\ UNCHANGED <<captures, thens, reacted>>

----------------------------------------------------------------------------
(* Jobs.                                                                    *)

Runs(job) == reacted' = [reacted EXCEPT ![job.promise] = Append(@, job.reaction.number)]

(* The job of new_promise_reaction_job.                                     *)
RunReaction ==
  LET job == Head(promiseQueue)
      r == job.reaction
      rest == Tail(promiseQueue)
  IN
  /\ frames = <<>> /\ promiseQueue # <<>> /\ job.kind = "reaction"
  /\ Runs(job)
  /\ UNCHANGED thens
  /\ \/ /\ r.handler \in {Function, Awaiting}
        /\ frames' = <<Frame(IF r.handler = Awaiting THEN "await" ELSE "handler", r.cap)>>
        /\ promiseQueue' = rest
        /\ UNCHANGED <<objects, captures>>
     \/ /\ r.handler = NoHandler
        /\ IF job.type = "rejected" THEN CallReject(r.cap, <<>>, rest)
                                    ELSE CallResolve(r.cap, job.value, <<>>, rest)
     \/ /\ r.handler \in Pair     \* the functions of a pair, given to then
        /\ IF job.type = "rejected"
           THEN CallReject(r.handler, <<Frame("native", r.cap)>>, rest)
           ELSE CallResolve(r.handler, job.value, <<Frame("native", r.cap)>>, rest)

(* The job of new_promise_resolve_thenable_job: `then` of the thenable is   *)
(* called with a new pair for the same promise.                             *)
RunThenable ==
  LET job == Head(promiseQueue) IN
  /\ frames = <<>> /\ promiseQueue # <<>> /\ job.kind = "thenable" /\ job.value = Thenable
  /\ \E f \in Pair :
       /\ FreshPair(f)
       /\ captures' = [captures EXCEPT ![f] = job.promise]
       /\ frames' = <<Frame("then", f)>>
       /\ promiseQueue' = Tail(promiseQueue)
       /\ UNCHANGED <<objects, thens, reacted>>

(* The same job for a promise, whose `then` is Promise.prototype.then.      *)
RunAdoption ==
  LET job == Head(promiseQueue) IN
  /\ frames = <<>> /\ promiseQueue # <<>> /\ job.kind = "thenable" /\ job.value \in Promise
  /\ \E p \in Promise, f, g \in Pair :
       /\ FreshPair(f) /\ g = f + 1 /\ FreshPromise(p)
       /\ PerformThen(job.value, f, g, Tail(promiseQueue))
       /\ state' = [state EXCEPT ![p] = "pending"]
       /\ captures' = [captures EXCEPT ![f] = job.promise, ![g] = p]
       /\ UNCHANGED <<result, frames, reacted>>

----------------------------------------------------------------------------
PromisesInit ==
  /\ state = [p \in Promise |-> "absent"]
  /\ result = [p \in Promise |-> Plain]
  /\ handled = [p \in Promise |-> FALSE]
  /\ reactions = [p \in Promise |-> <<>>]
  /\ captures = [f \in Pair |-> Unused]
  /\ promiseQueue = <<>>
  /\ frames = <<Frame("script", 0)>>
  /\ unhandled = {}
  /\ thens = [p \in Promise |-> 0]
  /\ reacted = [p \in Promise |-> <<>>]

JavaScript == NewPromise \/ Resolve \/ Reject \/ Then \/ Await
PromisesStep == Return \/ Throw \/ RunReaction \/ RunThenable \/ RunAdoption
PromisesNext == JavaScript \/ PromisesStep

PromisesSpec == PromisesInit /\ [][PromisesNext]_promiseVars

----------------------------------------------------------------------------
Outcome == {"fulfilled", "rejected"}

Reaction == [number : Nat, handler : {Function, NoHandler, Awaiting} \cup Pair,
             cap : {Taken} \cup Pair]

Job ==
  [kind : {"reaction"}, promise : Promise, reaction : Reaction, type : Outcome,
   value : {Plain, Thenable}]
  \cup [kind : {"thenable"}, promise : Promise, value : {Thenable} \cup Promise]

NativeFrame ==
  [kind : {"script", "await"}, id : {0}]
  \cup [kind : {"handler", "native", "then"}, id : Pair] \cup [kind : {"get"}, id : Promise]

PromisesTypeOK ==
  /\ state \in [Promise -> {"absent", "pending"} \cup Outcome]
  /\ result \in [Promise -> {Plain, Thenable}]
  /\ handled \in [Promise -> BOOLEAN]
  /\ reactions \in [Promise -> Seq(Reaction)]
  /\ captures \in [Pair -> Promise \cup {Taken, Unused}]
  /\ promiseQueue \in Seq(Job)
  /\ frames \in Seq(NativeFrame)
  /\ unhandled \subseteq Promise
  /\ thens \in [Promise -> Nat]
  /\ reacted \in [Promise -> Seq(Nat)]
  /\ Len(frames) <= MaxDepth \/ Len(frames) <= 1

(* What may still settle p: a pair of functions nobody called, a job that   *)
(* will call `then`, a resolve function that is reading `then`.             *)
Claims(p) ==
  {<<"pair", f>> : f \in {f \in Pair : captures[f] = p}} \cup
  {<<"job", i>> : i \in {i \in DOMAIN promiseQueue :
       promiseQueue[i].kind = "thenable" /\ promiseQueue[i].promise = p}} \cup
  {<<"frame", i>> : i \in {i \in DOMAIN frames : frames[i] = Frame("get", p)}}

(* A pending promise can be settled by exactly one of its claims, whatever  *)
(* chain of pairs, getters and jobs its resolution went through, and a      *)
(* settled one by none: the assertions of fulfill_promise and reject_promise *)
(* hold, and no resolution forgets a promise.                               *)
OneClaim ==
  \A p \in Promise :
    IF state[p] = "pending" THEN \E c \in Claims(p) : Claims(p) = {c} ELSE Claims(p) = {}

(* The jobs of p's reactions in the queue.                                  *)
QueuedReactions(p) ==
  {i \in DOMAIN promiseQueue :
     promiseQueue[i].kind = "reaction" /\ promiseQueue[i].promise = p}

(* The reactions of a promise run in the order in which they were registered, *)
(* each once, whether they were before or after the promise was settled, and *)
(* none is lost on the way from the promise through its jobs: the first have *)
(* run, the next have a job each, in order, and the last wait.              *)
ReactionsInOrder ==
  \A p \in Promise :
    LET ran == Len(reacted[p])
        left == thens[p] - Len(reactions[p])   \* have run or have a job
        numberOf(i) == promiseQueue[i].reaction.number
    IN
    /\ ran <= left
    /\ \A i \in 1..ran : reacted[p][i] = i
    /\ {numberOf(i) : i \in QueuedReactions(p)} = ran + 1..left
    /\ \A i, j \in QueuedReactions(p) : i < j => numberOf(i) < numberOf(j)
    /\ \A i \in DOMAIN reactions[p] : reactions[p][i].number = left + i
    /\ state[p] = "pending" => left = 0
    /\ state[p] # "pending" => reactions[p] = <<>>
    /\ \A i \in QueuedReactions(p) : promiseQueue[i].type = state[p]

(* The host that follows the calls of promise_rejection_tracker knows which *)
(* promises are rejected and unhandled, whenever they were handled.         *)
TrackerIsExact == unhandled = {p \in Promise : state[p] = "rejected" /\ ~handled[p]}
============================================================================
