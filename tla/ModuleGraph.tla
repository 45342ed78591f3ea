----------------------------- MODULE ModuleGraph -----------------------------
(****************************************************************************)
(* Linking and evaluation of source text modules, with top-level await      *)
(* (core/engine/src/module/source.rs).                                      *)
(*                                                                          *)
(* link and evaluate are depth-first searches over the requested modules,   *)
(* Tarjan's algorithm with one more thing to do per component.  The Rust    *)
(* recursion is the sequence calls; the Vec called stack in the code is     *)
(* stack.  Between two of these searches the host runs promise jobs: the    *)
(* body of an asynchronous module settles and async_module_execution_       *)
(* fulfilled or _rejected walks over the modules that waited for it.        *)
(*                                                                          *)
(* Where the code panics (unreachable!, assert!) the model has no step.     *)
(****************************************************************************)
EXTENDS Integers, Sequences, FiniteSets, SequencesExt

CONSTANTS
  Modules,          \* source text modules, all loaded
  Graphs,           \* the module graphs a behaviour may start with
  MaxCapabilities   \* bound: promise capabilities that evaluate creates

\* A module requests others, may contain top-level await (tla), may be impossible
\* to link (broken: an import that does not resolve), may throw when it runs.
ASSUME GraphAssumption ==
  /\ IsFiniteSet(Modules)
  /\ Graphs # {}
  /\ Graphs \subseteq [requests : [Modules -> Seq(Modules)], tla : SUBSET Modules,
                       broken : SUBSET Modules, throws : SUBSET Modules]
  /\ MaxCapabilities \in Nat

\* S is closed when it has, with each module, what that one requests.
Closed(g, S) == S \subseteq Modules /\ \A m \in S : ToSet(g.requests[m]) \subseteq S

\* Every cycle of the graph is in the closed set C, which can be linked: in
\* whatever is left some module requests nothing of it but itself.
CyclesIn(g, C) ==
  /\ Closed(g, C) /\ C \cap g.broken = {}
  /\ \A S \in SUBSET (Modules \ C) :
       S # {} => \E m \in S : ToSet(g.requests[m]) \cap S \subseteq {m}

\* A graph whose cycles can be linked, and what they import.
CyclesLink(g) == \E C \in SUBSET Modules : CyclesIn(g, C)

\* The closed set S has the modules of C, but none with top-level await.
SyncIn(g, C, S) == Closed(g, S) /\ C \subseteq S /\ S \cap g.tla = {}

\* A graph in which no cycle waits for anything.
CyclesRest(g) == \E C, S \in SUBSET Modules : CyclesIn(g, C) /\ SyncIn(g, C, S)

\* And in which no synchronous module that throws does, either.
Calm(g) ==
  \E C, S \in SUBSET Modules :
    CyclesIn(g, C) /\ SyncIn(g, C, S) /\ g.throws \ g.tla \subseteq S

VARIABLES
  graph,        \* the program: chosen once
  status,       \* ModuleStatus
  ancestor,     \* ancestor_index
  root,         \* cycle_root
  order,        \* async_evaluation_order; 0 is None
  pending,      \* pending_async_dependencies of an EvaluatingAsync module
  failed,       \* whether an Evaluated module has an error
  parents,      \* async_parent_modules
  capability,   \* top_level_capability, an index of promise; 0 is None
  promise,      \* the states of the promises evaluate has created
  phase,        \* what the engine is doing
  calls,        \* activations of inner_link or inner_evaluate, outermost first
  stack,        \* the stack of Tarjan's algorithm
  index,        \* the next DFS index
  counter,      \* ASYNC_EVAL_QUEUE_INDEX
  todo,         \* parents that gather or reject still has to look at
  execList,     \* the exec_list of async_module_execution_fulfilled
  running,      \* asynchronous modules whose body has not settled
  started,      \* history: modules whose body was started
  threw         \* history: modules whose body threw

search == <<calls, stack, index>>
asyncs == <<order, pending, parents, counter>>
bodies == <<running, started, threw>>
jobs == <<todo, execList>>
promises == <<capability, promise>>
vars == <<graph, status, ancestor, root, failed, phase, search, asyncs, bodies,
          jobs, promises>>

Requests(m) == graph.requests[m]

Init ==
  /\ graph \in Graphs
  /\ status = [m \in Modules |-> "unlinked"]
  /\ ancestor = [m \in Modules |-> 0]
  /\ root = [m \in Modules |-> m]
  /\ order = [m \in Modules |-> 0]
  /\ pending = [m \in Modules |-> 0]
  /\ failed = [m \in Modules |-> FALSE]
  /\ parents = [m \in Modules |-> <<>>]
  /\ capability = [m \in Modules |-> 0]
  /\ promise = <<>>
  /\ phase = "idle"
  /\ calls = <<>> /\ stack = <<>> /\ index = 0
  /\ counter = 0
  /\ todo = <<>> /\ execList = {}
  /\ running = {} /\ started = {} /\ threw = {}

------------------------------------------------------------------------------
(* The depth-first search both algorithms share. *)

Top == Last(calls)
Searching(p) == phase = p /\ calls # <<>>
HasNext == Top.next <= Len(Requests(Top.module))
Required == Requests(Top.module)[Top.next]

\* A new activation for m, which goes on the stack with status s.
Enter(m, s) ==
  /\ status' = [status EXCEPT ![m] = s]
  /\ ancestor' = [ancestor EXCEPT ![m] = index]
  /\ index' = index + 1
  /\ stack' = Append(stack, m)
  /\ calls' = Append(calls, [module |-> m, next |-> 1, index |-> index, deps |-> 0])

\* Mutant: the ancestor index is not taken over.
ForgetAncestor(m, r) == UNCHANGED ancestor

\* module.[[DFSAncestorIndex]] becomes the minimum of its own and r's.
LowerAncestor(m, r) ==
  ancestor' = [ancestor EXCEPT ![m] = IF ancestor[r] < @ THEN ancestor[r] ELSE @]

\* The loop over the requested modules moves on; deps counts what it waits for.
Advance(deps) ==
  /\ calls' = [calls EXCEPT ![Len(calls)].next = @ + 1, ![Len(calls)].deps = @ + deps]
  /\ UNCHANGED <<stack, index>>

\* Where m is on the stack, and the modules from there to its end.
Place(m) == CHOOSE i \in DOMAIN stack : stack[i] = m
Component(m) == {stack[i] : i \in Place(m)..Len(stack)}

\* The activation of m returns.  When it is the root of its component, the
\* component leaves the stack.
Leave(m) ==
  /\ calls' = Front(calls)
  /\ stack' = IF ancestor[m] = Top.index THEN SubSeq(stack, 1, Place(m) - 1) ELSE stack
  /\ index' = IF Len(calls) = 1 THEN 0 ELSE index
  /\ phase' = IF Len(calls) = 1 THEN "idle" ELSE phase

Abandon == calls' = <<>> /\ stack' = <<>> /\ index' = 0 /\ phase' = "idle"

------------------------------------------------------------------------------
(* link, inner_link *)

\* link of a module that is linked or further returns at once.
Link(m) ==
  /\ phase = "idle"
  /\ status[m] = "unlinked"
  /\ phase' = "link"
  /\ Enter(m, "linking")
  /\ UNCHANGED <<graph, root, failed, asyncs, bodies, jobs, promises>>

EnterLink ==
  /\ Searching("link") /\ HasNext
  /\ status[Required] = "unlinked"
  /\ Enter(Required, "linking")
  /\ UNCHANGED <<graph, root, failed, phase, asyncs, bodies, jobs, promises>>

VisitLink ==
  /\ Searching("link") /\ HasNext
  /\ status[Required] # "unlinked"
  /\ IF status[Required] = "linking" THEN LowerAncestor(Top.module, Required)
                                     ELSE UNCHANGED ancestor
  /\ Advance(0)
  /\ UNCHANGED <<graph, status, root, failed, phase, asyncs, bodies, jobs, promises>>

\* initialize_environment fails: link sets every module of the stack back.
FailLink ==
  /\ Searching("link") /\ ~ HasNext
  /\ Top.module \in graph.broken
  /\ \A m \in ToSet(stack) : status[m] = "linking"
  /\ status' = [m \in Modules |->
                  IF m \in ToSet(stack) THEN "unlinked" ELSE status[m]]
  /\ Abandon
  /\ UNCHANGED <<graph, ancestor, root, failed, asyncs, bodies, jobs, promises>>

\* initialize_environment succeeds: m is prelinked, and a whole component linked.
FinishLink ==
  LET m == Top.module
      isRoot == ancestor[m] = Top.index
  IN /\ Searching("link") /\ ~ HasNext
     /\ m \notin graph.broken
     /\ isRoot => \A n \in Component(m) \ {m} : status[n] = "prelinked"
     /\ status' = [n \in Modules |->
                     IF isRoot /\ n \in Component(m) THEN "linked"
                     ELSE IF n = m THEN "prelinked" ELSE status[n]]
     /\ Leave(m)
     /\ UNCHANGED <<graph, ancestor, root, failed, asyncs, bodies, jobs, promises>>

------------------------------------------------------------------------------
(* evaluate, inner_evaluate *)

\* The capabilities ps are settled to s; 0 is no capability.
Settled(ps, s) == [c \in DOMAIN promise |-> IF c \in ps THEN s ELSE promise[c]]

\* Mutant: the capability has no promise.
EvaluateWithoutPromise(m) ==
  /\ phase = "idle"
  /\ status[m] = "linked"
  /\ Len(promise) < MaxCapabilities
  /\ capability' = [capability EXCEPT ![m] = Len(promise) + 1]
  /\ phase' = "evaluate"
  /\ Enter(m, "evaluating")
  /\ UNCHANGED <<graph, root, failed, asyncs, bodies, jobs, promise>>

\* evaluate of a linked module.
Evaluate(m) ==
  /\ phase = "idle"
  /\ status[m] = "linked"
  /\ Len(promise) < MaxCapabilities
  /\ promise' = Append(promise, "pending")
  /\ capability' = [capability EXCEPT ![m] = Len(promise) + 1]
  /\ phase' = "evaluate"
  /\ Enter(m, "evaluating")
  /\ UNCHANGED <<graph, root, failed, asyncs, bodies, jobs>>

\* evaluate of a module that was reached before, and has no capability (with one
\* it returns its promise and nothing changes).  inner_evaluate of the cycle
\* root returns at once, and drops the new capability.
EvaluateAgain(m) ==
  /\ phase = "idle"
  /\ status[m] \in {"evaluating-async", "evaluated"}
  /\ capability[m] = 0
  /\ Len(promise) < MaxCapabilities
  /\ promise' = Append(promise, IF status[root[m]] = "evaluating-async" THEN "pending"
                                ELSE IF failed[root[m]] THEN "rejected"
                                ELSE "fulfilled")
  /\ UNCHANGED <<graph, status, ancestor, root, failed, phase, capability, search,
                 asyncs, bodies, jobs>>

EnterEvaluation ==
  /\ Searching("evaluate") /\ HasNext
  /\ status[Required] = "linked"
  /\ Enter(Required, "evaluating")
  /\ UNCHANGED <<graph, root, failed, phase, asyncs, bodies, jobs, promises>>

\* The search of evaluate has left m.
Reached(m) == status[m] \in {"evaluating-async", "evaluated"}

\* Whom a module waits for when it requires r: r itself inside of a cycle that
\* is still being evaluated, r's cycle root afterwards.
Target(r) == IF status[r] = "evaluating" THEN r ELSE root[r]
IsAsync(r) == IF status[r] = "evaluating" THEN order[r] # 0
                                          ELSE status[root[r]] = "evaluating-async"
HasFailed(r) == status[r] # "evaluating" /\ (failed[r] \/ failed[root[r]])

VisitEvaluation ==
  LET m == Top.module
      r == Required
  IN /\ Searching("evaluate") /\ HasNext
     /\ status[r] = "evaluating" \/ Reached(r)
     /\ ~ HasFailed(r)
     /\ IF status[r] = "evaluating" THEN LowerAncestor(m, r) ELSE UNCHANGED ancestor
     /\ Advance(IF IsAsync(r) THEN 1 ELSE 0)
     /\ parents' = IF IsAsync(r) THEN [parents EXCEPT ![Target(r)] = Append(@, m)]
                                 ELSE parents
     /\ UNCHANGED <<graph, status, root, failed, phase, order, pending, counter, bodies,
                    jobs, promises>>

\* An error ends the search: evaluate gives it to every module of the stack.
Unwind ==
  /\ status' = [m \in Modules |-> IF m \in ToSet(stack) THEN "evaluated" ELSE status[m]]
  /\ failed' = [m \in Modules |-> m \in ToSet(stack) \/ failed[m]]
  /\ promise' = Settled({capability[Head(calls).module]}, "rejected")
  /\ Abandon

\* A required module failed in an earlier evaluation.
FailEvaluation ==
  /\ Searching("evaluate") /\ HasNext
  /\ Reached(Required)
  /\ HasFailed(Required)
  /\ Unwind
  /\ UNCHANGED <<graph, ancestor, root, capability, asyncs, bodies, jobs>>

\* The end of inner_evaluate, where the modules have async orders ord: the
\* component is evaluated, or waits.  The local counter of the root is written
\* to every member.
Return(m, ord) ==
  LET done == IF ancestor[m] = Top.index THEN Component(m) ELSE {}
      waits == {n \in done : ord[n] # 0}
  IN /\ status' = [n \in Modules |-> IF n \in waits THEN "evaluating-async"
                                     ELSE IF n \in done THEN "evaluated" ELSE status[n]]
     /\ root' = [n \in Modules |-> IF n \in done THEN m ELSE root[n]]
     /\ pending' = [n \in Modules |-> IF n \in waits THEN Top.deps ELSE pending[n]]
     /\ promise' = IF Len(calls) = 1 /\ m \notin waits
                     THEN Settled({capability[m]}, "fulfilled") ELSE promise
     /\ Leave(m)

\* Nothing to wait for: the body runs at once.
ExecuteSync ==
  LET m == Top.module
  IN /\ Searching("evaluate") /\ ~ HasNext
     /\ Top.deps = 0 /\ m \notin graph.tla
     /\ started' = started \cup {m}
     /\ IF m \in graph.throws
          THEN Unwind /\ threw' = threw \cup {m} /\ UNCHANGED <<root, pending>>
          ELSE Return(m, order) /\ UNCHANGED <<threw, failed>>
     /\ UNCHANGED <<graph, ancestor, capability, order, parents, counter, running, jobs>>

\* The module gets its place in the async order; with nothing to wait for
\* execute_async starts its body.
ExecuteAsync ==
  LET m == Top.module
      ord == [order EXCEPT ![m] = counter + 1]
  IN /\ Searching("evaluate") /\ ~ HasNext
     /\ Top.deps > 0 \/ m \in graph.tla
     /\ counter' = counter + 1
     /\ order' = ord
     /\ IF Top.deps = 0
          THEN running' = running \cup {m} /\ started' = started \cup {m}
          ELSE UNCHANGED <<running, started>>
     /\ Return(m, ord)
     /\ UNCHANGED <<graph, ancestor, failed, capability, parents, threw, jobs>>

------------------------------------------------------------------------------
(* async_module_execution_fulfilled and gather_available_ancestors *)

\* m is Evaluated without an error; its capability is resolved.
Complete(m) ==
  /\ status' = [status EXCEPT ![m] = "evaluated"]
  /\ promise' = Settled({capability[m]}, "fulfilled")

\* Mutant: the parents are copied instead of taken.
FulfillKeepingParents(m) ==
  /\ phase = "idle"
  /\ m \in running \ graph.throws
  /\ running' = running \ {m}
  /\ IF status[m] = "evaluated"
       THEN UNCHANGED <<status, promise, phase, todo>>
       ELSE /\ status[m] = "evaluating-async"
            /\ Complete(m)
            /\ phase' = "gather"
            /\ todo' = parents[m]
  /\ UNCHANGED <<graph, ancestor, root, failed, capability, search, order, pending,
                 counter, started, threw, execList, parents>>

\* A body with top-level await has ended well.
Fulfill(m) ==
  /\ phase = "idle"
  /\ m \in running \ graph.throws
  /\ running' = running \ {m}
  /\ IF status[m] = "evaluated"
       THEN UNCHANGED <<status, promise, phase, todo, parents>>
       ELSE /\ status[m] = "evaluating-async"
            /\ Complete(m)
            /\ phase' = "gather"
            /\ todo' = parents[m]
            /\ parents' = [parents EXCEPT ![m] = <<>>]
  /\ UNCHANGED <<graph, ancestor, root, failed, capability, search, order, pending,
                 counter, started, threw, execList>>

\* A parent that gather_available_ancestors skips.
Skipped(p) == p \in execList \/ failed[root[p]]

Gather ==
  LET p == Head(todo)
      ready == pending[p] = 1
  IN /\ phase = "gather" /\ todo # <<>>
     /\ ~ Skipped(p)
     /\ status[p] = "evaluating-async" /\ pending[p] > 0
     /\ pending' = [pending EXCEPT ![p] = @ - 1]
     /\ execList' = IF ready THEN execList \cup {p} ELSE execList
     /\ IF ready /\ p \notin graph.tla
          THEN /\ todo' = parents[p] \o Tail(todo)
               /\ parents' = [parents EXCEPT ![p] = <<>>]
          ELSE todo' = Tail(todo) /\ UNCHANGED parents
     /\ UNCHANGED <<graph, status, ancestor, root, failed, phase, search, order, counter,
                    bodies, promises>>

SkipParent ==
  /\ phase = "gather" /\ todo # <<>>
  /\ Skipped(Head(todo))
  /\ todo' = Tail(todo)
  /\ UNCHANGED <<graph, status, ancestor, root, failed, phase, search, asyncs, execList,
                 bodies, promises>>

\* Mutant: the exec list is not sorted.
AnyReady(m) == m \in execList

\* The first of the sorted exec_list.
NextReady(m) == m \in execList /\ \A n \in execList : order[m] <= order[n]

\* One round of the loop over the sorted exec_list.  When a synchronous body
\* throws, async_module_execution_rejected is given the module that has just
\* been fulfilled, and leaves it alone.
RunReady(m) ==
  /\ phase = "gather" /\ todo = <<>>
  /\ NextReady(m)
  /\ execList' = execList \ {m}
  /\ status[m] = "evaluating-async"
  /\ started' = started \cup {m}
  /\ IF m \in graph.tla THEN running' = running \cup {m} ELSE UNCHANGED running
  /\ IF m \in graph.throws \ graph.tla
       THEN threw' = threw \cup {m} ELSE UNCHANGED threw
  /\ IF m \notin graph.tla \cup graph.throws
       THEN Complete(m) ELSE UNCHANGED <<status, promise>>
  /\ UNCHANGED <<graph, ancestor, root, failed, phase, search, asyncs, todo, capability>>

EndFulfill ==
  /\ phase = "gather" /\ todo = <<>> /\ execList = {}
  /\ phase' = "idle"
  /\ UNCHANGED <<graph, status, ancestor, root, failed, search, asyncs, bodies, jobs,
                 promises>>

------------------------------------------------------------------------------
(* async_module_execution_rejected *)

\* A body with top-level await has thrown.
Reject(m) ==
  /\ phase = "idle"
  /\ m \in running \cap graph.throws
  /\ running' = running \ {m}
  /\ threw' = threw \cup {m}
  /\ phase' = "reject"
  /\ todo' = <<m>>
  /\ UNCHANGED <<graph, status, ancestor, root, failed, search, asyncs, started,
                 execList, promises>>

\* Mutant: the error stops at the first module.
RejectAlone ==
  LET p == Head(todo)
  IN /\ phase = "reject" /\ todo # <<>>
     /\ todo' = Tail(todo)
     /\ IF status[p] = "evaluated"
          THEN UNCHANGED <<status, failed, promise, parents>>
          ELSE /\ status' = [status EXCEPT ![p] = "evaluated"]
               /\ failed' = [failed EXCEPT ![p] = TRUE]
               /\ promise' = Settled({capability[p]}, "rejected")
               /\ parents' = [parents EXCEPT ![p] = <<>>]
     /\ UNCHANGED <<graph, ancestor, root, phase, search, order, pending, counter, bodies,
                    execList, capability>>

\* The recursion over the parents of a failed module, in its order.
RejectNext ==
  LET p == Head(todo)
  IN /\ phase = "reject" /\ todo # <<>>
     /\ IF status[p] = "evaluated"
          THEN todo' = Tail(todo) /\ UNCHANGED <<status, failed, promise, parents>>
          ELSE /\ status[p] = "evaluating-async"
               /\ status' = [status EXCEPT ![p] = "evaluated"]
               /\ failed' = [failed EXCEPT ![p] = TRUE]
               /\ promise' = Settled({capability[p]}, "rejected")
               /\ todo' = parents[p] \o Tail(todo)
               /\ parents' = [parents EXCEPT ![p] = <<>>]
     /\ UNCHANGED <<graph, ancestor, root, phase, search, order, pending, counter, bodies,
                    execList, capability>>

EndReject ==
  /\ phase = "reject" /\ todo = <<>>
  /\ phase' = "idle"
  /\ UNCHANGED <<graph, status, ancestor, root, failed, search, asyncs, bodies, jobs,
                 promises>>

------------------------------------------------------------------------------
Linking == EnterLink \/ VisitLink \/ FailLink \/ FinishLink
Evaluating ==
  EnterEvaluation \/ VisitEvaluation \/ FailEvaluation \/ ExecuteSync \/ ExecuteAsync
Settling ==
  \/ Gather \/ SkipParent \/ EndFulfill \/ RejectNext \/ EndReject
  \/ \E m \in Modules : RunReady(m)

\* What the host does between two runs of the engine.
Host == \E m \in Modules :
  Link(m) \/ Evaluate(m) \/ EvaluateAgain(m) \/ Fulfill(m) \/ Reject(m)

Next == Linking \/ Evaluating \/ Settling \/ Host

Spec == Init /\ [][Next]_vars

------------------------------------------------------------------------------
(* Properties. *)

Statuses == {"unlinked", "linking", "prelinked", "linked", "evaluating",
             "evaluating-async", "evaluated"}

\* Every variable has the values the code's types give it.
TypeOK ==
  /\ graph.requests \in [Modules -> Seq(Modules)]
  /\ status \in [Modules -> Statuses]
  /\ ancestor \in [Modules -> Nat]
  /\ root \in [Modules -> Modules]
  /\ order \in [Modules -> Nat]
  /\ pending \in [Modules -> Nat]
  /\ failed \in [Modules -> BOOLEAN]
  /\ parents \in [Modules -> Seq(Modules)]
  /\ capability \in [Modules -> 0..Len(promise)]
  /\ promise \in Seq({"pending", "fulfilled", "rejected"})
  /\ phase \in {"idle", "link", "evaluate", "gather", "reject"}
  /\ calls \in Seq([module : Modules, next : Nat, index : Nat, deps : Nat])
  /\ stack \in Seq(Modules)
  /\ index \in Nat
  /\ counter \in Nat
  /\ todo \in Seq(Modules)
  /\ execList \subseteq Modules
  /\ running \subseteq Modules
  /\ started \subseteq Modules
  /\ threw \subseteq Modules

\* What each module imports, directly or not: what is in every set that has what
\* it requests, and with each module what that one requests.
Reaches ==
  LET closed == {S \in SUBSET Modules : \A m \in S : ToSet(Requests(m)) \subseteq S}
  IN [m \in Modules |->
        {d \in Modules : \A S \in closed : ToSet(Requests(m)) \subseteq S => d \in S}]

Quiet == phase = "idle" /\ running = {}

\* link, "i. Assert: m.[[Status]] is linking.": when a module cannot be linked,
\* every module link has to set back is one it can set back.
UnwindFindsLinking ==
  Searching("link") /\ ~ HasNext /\ Top.module \in graph.broken
    => \A m \in ToSet(stack) : status[m] = "linking"

\* gather_available_ancestors, "i. Assert: m.[[Status]] is evaluating-async." and
\* "iv. Assert: m.[[PendingAsyncDependencies]] > 0.": a parent that is told of a
\* finished dependency is still waiting for it.
GatherFindsWaiting ==
  phase = "gather" /\ todo # <<>> /\ ~ Skipped(Head(todo))
    => status[Head(todo)] = "evaluating-async" /\ pending[Head(todo)] > 0

\* Wherever the code asserts the status of a module, or would panic if it were
\* another, it finds what it expects.
StatusesAreExpected == TypeOK /\ UnwindFindsLinking /\ GatherFindsWaiting

\* A module's body starts only when every module it requests that does not import
\* it back, and all that is behind that one, was evaluated without an error.
DependenciesFirst ==
  LET reach == Reaches
  IN \A m \in started : \A r \in ToSet(Requests(m)) : m \notin reach[r] =>
       \A d \in reach[r] \cup {r} : status[d] = "evaluated" /\ ~ failed[d]

\* A module that waits is told once by each thing it waits for: its counter is
\* the number of entries it has in the parent lists of unfinished modules.
PendingIsExact ==
  phase = "idle" => \A m \in Modules : status[m] = "evaluating-async" =>
    pending[m] = Cardinality(UNION {{<<d, i>> : i \in {i \in DOMAIN parents[d] : parents[d][i] = m}} :
                                      d \in Modules})

\* Tarjan: after evaluation two modules have the same cycle root exactly when
\* each imports the other, directly or not.
SameCycleSameRoot ==
  LET reach == Reaches
  IN \A m, n \in Modules :
       Reached(m) /\ Reached(n) /\ ~ failed[m] /\ ~ failed[n]
         => (root[m] = root[n] <=> m = n \/ (m \in reach[n] /\ n \in reach[m]))

\* A failed link leaves nothing half linked: what a linked module imports is
\* linked as well, so evaluate never meets an unlinked module.
LinkedClosed ==
  phase = "idle" =>
    \A m \in Modules : status[m] # "unlinked" =>
      /\ status[m] \notin {"linking", "prelinked"}
      /\ \A r \in ToSet(Requests(m)) : status[r] # "unlinked"

\* What the two searches leave behind.
SearchesAreClean == SameCycleSameRoot /\ LinkedClosed

\* An error reaches whatever imports the module that had it; for a member of a
\* cycle the error of the cycle root counts, which is the one the code asks for.
ErrorsPropagate ==
  phase = "idle" =>
    \A m \in Modules : \A r \in ToSet(Requests(m)) :
      failed[r] /\ Reached(m) => failed[m] \/ failed[root[m]]

\* A module whose body has thrown is evaluated, with that error, before the host
\* gets control back.
ErrorsAreRecorded ==
  phase = "idle" => \A m \in threw : status[m] = "evaluated" /\ failed[m]

\* When no body is running any more the promise of every module that was
\* evaluated with a capability is settled, and with that module's outcome.
CapabilitiesSettle ==
  Quiet => \A m \in Modules : capability[m] # 0 =>
    promise[capability[m]] = IF failed[m] THEN "rejected" ELSE "fulfilled"

\* What became of a module is neither lost nor kept from those who ask for it.
OutcomesAreKept == ErrorsPropagate /\ ErrorsAreRecorded /\ CapabilitiesSettle

\* evaluate, "7. Set module.[[TopLevelCapability]] to capability.": when no body is
\* running any more every promise that evaluate returned is settled.
PromisesSettle == Quiet => \A c \in DOMAIN promise : promise[c] # "pending"

==============================================================================
