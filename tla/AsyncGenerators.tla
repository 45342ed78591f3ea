-------------------------- MODULE AsyncGenerators --------------------------
(****************************************************************************)
(* One async generator: its request queue and the ways its frame is resumed *)
(* (core/engine/src/builtins/async_generator/mod.rs, the Await, yield and   *)
(* close instructions of core/engine/src/vm/opcode).                        *)
(*                                                                          *)
(* JavaScript may call next, return and throw whenever it runs: between     *)
(* jobs, inside the generator's own body, and inside the property reads     *)
(* that resolving a promise entails.  point says which of these it is; the  *)
(* native caller goes on when that JavaScript returns.                      *)
(****************************************************************************)
EXTENDS Integers, Sequences

CONSTANTS
  MaxRequests,  \* bound: calls of next, return and throw
  MaxAwaits     \* bound: awaits between two yields of the body

ASSUME AsyncGeneratorAssumption == MaxRequests \in Nat /\ MaxAwaits \in Nat

RequestKinds == {"normal", "return", "throw"}

VARIABLES
  genState,     \* AsyncGenerator.state
  genContext,   \* AsyncGenerator.context: none, a frame that is "live", or one
                \* that is "spent", because it ended or waits in an await
  queue,        \* AsyncGenerator.queue
  point,        \* where JavaScript runs
  resumed,      \* whether a call of GeneratorContext::resume is under way
  reaction,     \* the native reaction that waits for a promise
  awaits,       \* awaits since the last yield
  requests,     \* history: how many requests were made
  answered      \* history: how requests were answered, in order

generatorVars == <<genState, genContext, queue, point, resumed, reaction, awaits, requests, answered>>

Suspended == {"SuspendedStart", "SuspendedYield"}

AsyncGeneratorInit ==
  /\ genState = "SuspendedStart"
  /\ genContext = "live"
  /\ queue = <<>>
  /\ point = "script"
  /\ resumed = FALSE
  /\ reaction = "none"
  /\ awaits = 0
  /\ requests = 0
  /\ answered = <<>>

Request(kind) == [id |-> requests + 1, kind |-> kind]
Reply(id, how) == [id |-> id, how |-> how]

(* complete_step: the front of the queue leaves it and is answered.         *)
CompleteStep(how) ==
  /\ queue' = Tail(queue)
  /\ answered' = Append(answered, Reply(Head(queue).id, how))

(* The native code is through and JavaScript goes on outside the generator; *)
(* resume and the reactions of await put back the frame they took.          *)
LeaveGenerator(frame) ==
  /\ point' = "script"
  /\ genContext' = IF resumed THEN (IF frame = "none" THEN "spent" ELSE frame) ELSE frame
  /\ resumed' = FALSE

----------------------------------------------------------------------------
(* next, return and throw.                                                  *)

NewRequest(kind) ==
  /\ requests < MaxRequests
  /\ requests' = requests + 1

EnqueueRequest(kind) == queue' = Append(queue, Request(kind))

AnswerAtOnce(how) ==
  /\ answered' = Append(answered, Reply(requests + 1, how))
  /\ UNCHANGED <<queue, point, resumed, reaction, awaits>>

(* resume: the frame is taken out of the generator while it runs.           *)
ResumeFrame ==
  /\ genState' = "Executing"
  /\ genContext' = "none"
  /\ point' = "body"
  /\ resumed' = TRUE
  /\ UNCHANGED <<reaction, awaits, answered>>

OnlyEnqueue == UNCHANGED <<genState, genContext, point, resumed, reaction, awaits, answered>>

\* Mutant: a generator that is through is resumed as well.
InnerNextEager ==
  /\ NewRequest("normal")
  /\ EnqueueRequest("normal")
  /\ IF genState \in Suspended \cup {"Completed"} THEN ResumeFrame ELSE OnlyEnqueue

InnerNext ==
  /\ NewRequest("normal")
  /\ \/ /\ genState = "Completed"
        /\ AnswerAtOnce("done")
        /\ UNCHANGED <<genState, genContext>>
     \/ /\ genState # "Completed"
        /\ EnqueueRequest("normal")
        /\ IF genState \in Suspended THEN ResumeFrame ELSE OnlyEnqueue

InnerReturn ==
  /\ NewRequest("return")
  /\ EnqueueRequest("return")
  /\ \/ /\ genState \in {"SuspendedStart", "Completed"}
        /\ genState' = "DrainingQueue"
        /\ point' = "returning"
        /\ UNCHANGED <<genContext, resumed, reaction, awaits, answered>>
     \/ genState = "SuspendedYield" /\ ResumeFrame
     \/ genState \in {"Executing", "DrainingQueue"} /\ OnlyEnqueue

\* Mutant: a generator suspended at a yield is not resumed.
InnerThrowDropped ==
  /\ NewRequest("throw")
  /\ \/ /\ genState \in {"SuspendedStart", "Completed"}
        /\ genState' = "Completed"
        /\ genContext' = IF genState = "SuspendedStart" THEN "none" ELSE genContext
        /\ AnswerAtOnce("error")
     \/ /\ genState \notin {"SuspendedStart", "Completed"}
        /\ EnqueueRequest("throw")
        /\ OnlyEnqueue

InnerThrow ==
  /\ NewRequest("throw")
  /\ \/ /\ genState \in {"SuspendedStart", "Completed"}
        /\ genState' = "Completed"
        /\ genContext' = IF genState = "SuspendedStart" THEN "none" ELSE genContext
        /\ AnswerAtOnce("error")
     \/ /\ genState \notin {"SuspendedStart", "Completed"}
        /\ EnqueueRequest("throw")
        /\ IF genState = "SuspendedYield" THEN ResumeFrame ELSE OnlyEnqueue

----------------------------------------------------------------------------
(* The body.                                                                *)

(* Await: the frame moves into the reactions of the awaited promise.        *)
Await ==
  /\ point = "body"
  /\ awaits < MaxAwaits
  /\ awaits' = awaits + 1
  /\ reaction' = "await"
  /\ LeaveGenerator("spent")
  /\ UNCHANGED <<genState, queue, requests, answered>>

(* Its reactions, fulfilled or rejected, go on with that frame.             *)
Awaited ==
  /\ point = "script" /\ reaction = "await"
  /\ reaction' = "none"
  /\ point' = "body"
  /\ resumed' = TRUE
  /\ UNCHANGED <<genState, genContext, queue, awaits, requests, answered>>

(* AsyncGeneratorYield: the first request is answered, then the next one, if *)
(* there is one by now, is what the body goes on with.                      *)
Yield ==
  /\ point = "body"
  /\ CompleteStep("yield")
  /\ point' = "yielded"
  /\ awaits' = 0
  /\ UNCHANGED <<genState, genContext, resumed, reaction, requests>>

\* Mutant: requests that came in while the first was answered are left.
YieldedWithoutLooking ==
  /\ point = "yielded"
  /\ genState' = "SuspendedYield"
  /\ LeaveGenerator("live")
  /\ UNCHANGED <<queue, reaction, awaits, requests, answered>>

Yielded ==
  /\ point = "yielded"
  /\ IF queue # <<>>
     THEN point' = "body" /\ UNCHANGED <<genState, genContext, resumed>>
     ELSE genState' = "SuspendedYield" /\ LeaveGenerator("live")
  /\ UNCHANGED <<queue, reaction, awaits, requests, answered>>

(* AsyncGeneratorClose: the body returned or threw.                         *)
Close ==
  /\ point = "body"
  /\ genState' = "DrainingQueue"
  /\ \E how \in {"done", "error"} : CompleteStep(how)
  /\ point' = "draining"
  /\ UNCHANGED <<genContext, resumed, reaction, awaits, requests>>

----------------------------------------------------------------------------
(* The queue of a generator that is through.                                *)

(* One turn of drain_queue's loop.                                          *)
DrainQueue ==
  /\ point = "draining"
  /\ \/ /\ queue = <<>>
        /\ genState' = "Completed"
        /\ LeaveGenerator("none")
        /\ UNCHANGED <<queue, answered>>
     \/ /\ queue # <<>> /\ Head(queue).kind = "return"
        /\ point' = "returning"
        /\ UNCHANGED <<genState, genContext, resumed, queue, answered>>
     \/ /\ queue # <<>> /\ Head(queue).kind # "return"
        /\ CompleteStep(IF Head(queue).kind = "throw" THEN "error" ELSE "done")
        /\ UNCHANGED <<genState, genContext, resumed, point>>
  /\ UNCHANGED <<reaction, awaits, requests>>

(* await_return: the value is made a promise, which reads its constructor.  *)
AwaitReturn ==
  /\ point = "returning"
  /\ \/ reaction' = "awaitReturn" /\ LeaveGenerator(genContext) /\ UNCHANGED <<queue, answered>>
     \/ CompleteStep("error") /\ point' = "draining" /\ UNCHANGED <<genContext, resumed, reaction>>
  /\ UNCHANGED <<genState, awaits, requests>>

(* Its reactions.                                                           *)
ReturnAwaited ==
  /\ point = "script" /\ reaction = "awaitReturn"
  /\ reaction' = "none"
  /\ \E how \in {"done", "error"} : CompleteStep(how)
  /\ point' = "draining"
  /\ UNCHANGED <<genState, genContext, resumed, awaits, requests>>

AsyncGeneratorStep ==
  Awaited \/ Yield \/ Yielded \/ Close \/ DrainQueue \/ AwaitReturn \/ ReturnAwaited

AsyncGeneratorNext ==
  InnerNext \/ InnerReturn \/ InnerThrow \/ Await \/ AsyncGeneratorStep

AsyncGeneratorSpec == AsyncGeneratorInit /\ [][AsyncGeneratorNext]_generatorVars

(* The body goes on, awaiting only so many times before it yields or ends;  *)
(* promises that are awaited are settled and their jobs run.                *)
AsyncGeneratorFairness == WF_generatorVars(AsyncGeneratorStep)

----------------------------------------------------------------------------
AsyncGeneratorTypeOK ==
  /\ genState \in Suspended \cup {"Executing", "DrainingQueue", "Completed"}
  /\ genContext \in {"none", "live", "spent"}
  /\ queue \in Seq([id : Nat, kind : RequestKinds])
  /\ point \in {"script", "body", "yielded", "draining", "returning"}
  /\ resumed \in BOOLEAN
  /\ reaction \in {"none", "await", "awaitReturn"}
  /\ awaits \in Nat /\ requests \in Nat
  /\ answered \in Seq([id : Nat, how : {"yield", "done", "error"}])

(* Requests are answered in the order in which they were made, each once,   *)
(* wherever they came from; and once one was told that the generator is     *)
(* through, or failed, no later one is given another value of it.           *)
AnswersInOrder ==
  /\ \A i \in DOMAIN answered : answered[i].id = i
  /\ \A i \in DOMAIN queue : queue[i].id = Len(answered) + i
  /\ Len(answered) + Len(queue) = requests
  /\ \A i, j \in DOMAIN answered :
       i < j /\ answered[j].how = "yield" => answered[i].how = "yield"

(* While requests wait, the generator is not suspended and something is     *)
(* under way that comes to them: the body or a reaction that goes on with   *)
(* it, drain_queue or the reaction that goes on with that.  And whatever    *)
(* goes on finds what it expects: a frame to resume, a state that is its    *)
(* own, and a request for the completion it will report.                    *)
WaitingRequestsAreServed ==
  queue # <<>> =>
    \/ genState = "Executing" /\ (point \in {"body", "yielded"} \/ reaction = "await")
    \/ genState = "DrainingQueue" /\ (point \in {"draining", "returning"} \/ reaction = "awaitReturn")

FrameIsThere ==
  /\ genState \in Suspended =>
       genContext = "live" /\ point = "script" /\ reaction = "none" /\ queue = <<>>
  /\ point \in {"body", "returning"} \/ reaction # "none" => queue # <<>>
  /\ reaction = "await" => genState = "Executing" /\ ~resumed
  /\ reaction = "awaitReturn" => genState = "DrainingQueue"

RequestsAreServed == WaitingRequestsAreServed /\ FrameIsThere

(* Every request is answered: the queue is empty again and again.            *)
EveryRequestAnswered == []<>(queue = <<>>)
============================================================================
