# A formal model of Boa's concurrent and asynchronous core

This directory is a verification development for the Boa JavaScript engine (the
Rust workspace under `src/`). It holds TLA+ modules translated from the source,
the TLC configurations that check them on small instances, and proofs, checked
by TLAPS, of theorems about them. `PROJECT.json` lists the runs, the theorems,
and for every definition the lines of code it stands for.

## 1. Inventory

Boa is an interpreter: most of it is sequential and driven by a program's syntax.
What a test suite such as Test262 reaches badly is the part where something
outlives one call: threads that share memory, jobs and timers, modules that
wait for each other, objects that are collected.

| Component | State | Operations | Interacts with |
|---|---|---|---|
| **Atomics.wait / waitAsync / notify** `core/engine/src/builtins/atomics/{mod,futex}.rs` | one process-wide mutex, FIFO lists of waiters by address, a condition variable per waiter, a oneshot channel and two jobs per asynchronous waiter | `wait`, `wait_async`, `notify`, the closures of the timeout job and of the completion job | all agents (threads) of a cluster share it; asynchronous waits leave jobs in the executor of their agent |
| **Job executor** `core/engine/src/job.rs` | queues of promise, generic, asynchronous and cleanup jobs, timers by instant, futures in groups, a stop flag | `enqueue_job`, `run_jobs`, `run_jobs_until_stalled`, `run_jobs_async`, `clear`, cancellation | every component enqueues into it; jobs call JavaScript, which enqueues more |
| **Timers** `core/wintertc/src/timers/mod.rs` | table from timer ids to cancellation tokens | `setTimeout`, `setInterval`, `clearTimeout`, `clearInterval`, `clear_all` | holds the other end of the tokens of the executor's clock jobs |
| **Modules: linking and evaluation** `core/engine/src/module/source.rs` | status of each module, Tarjan's stack and indices, parents, counters and order of asynchronous modules, promise capabilities | `link`, `evaluate`, `execute_async`, `async_module_execution_fulfilled`, `_rejected`, `gather_available_ancestors` | bodies with top-level await settle through promise jobs |
| **Modules: loading** `module/mod.rs`, `module/loader/` | loaded modules of a referrer, the state of a graph's loading, a cache | `load`, `inner_load`, `finish_loading_imported_module` | asynchronous jobs in the executor |
| **Garbage collector** `core/gc/` | list of boxes with mark bits and counts of non-root references, ephemerons, weak maps | allocation, collection: mark, finalize, mark, sweep | finalizers enqueue cleanup jobs |
| **WeakRef, FinalizationRegistry** | cells with weak targets, kept objects of a job | `register`, `unregister`, `cleanup`, `deref` | collector, executor |
| **Promises** | state, reactions, resolving functions | `then`, resolve, reject, combinators | executor |
| **Async generators** | request queue, state | `next`, `throw`, `return`, await of a return | promises |
| **Ordered maps and sets** | entries with holes, a lock count | `delete`, `insert`, iteration under a lock | collections being changed while iterated |
| **Shapes, inline caches** | tree of weak transitions, cached slot per site | property insertion, deletion, change of prototype | collector, virtual machine |
| **Shared and resizable buffers** | atomic length, storage | `grow`, `resize`, `detach` | Atomics, typed arrays |
| The rest | | | parser, compiler, virtual machine, JIT, strings, builtins, runtime extensions: see section 7 |

What is hard, and what has to be true:

* *Threads.* Stores do not take the mutex, condition variables wake spuriously,
  timeouts race notifies, a waiter on a stack dies with its function, an
  executor may disappear while its waiters are linked. **No wakeup is lost; no
  list points to what is gone; each waiter has one outcome; the lists behave as
  the FIFO lists of ECMAScript.**
* *Jobs.* Batches are taken out of the queues before they are run; any job may
  enqueue, set and clear timers, or throw; the loop runs in three modes and may
  be stopped, dropped or fail anywhere. **Promise jobs keep their order; a
  cleared timer is not called; timers are called by deadline; what was dropped
  stays dropped; a run that reports success has left nothing; every run ends.**
* *Modules.* Cycles, partial failures, repeated imports, errors that arrive
  after a module was waited for. **Bodies run after their dependencies; the
  counters of what a module waits for are exact; an error reaches all that
  depend on it; every promise handed out is settled.**
* *Promises, generators, registries.* JavaScript runs in the middle of native calls: in a
  getter of `then`, in a handler, in a cleanup callback. **A promise has one settlement and one
  pair of functions that may claim it; reactions run in order; an async generator answers its
  requests in order and all of them; a callback is called for targets that are dead, once.**
* *Structures under iteration and caching.* Indices, lengths and shapes are remembered across
  calls of JavaScript. **A walk sees what the abstract map says it has left to see; bytes are touched
  inside the view only; a cache entry names the slot a lookup would find.**
* *Collection.* Roots are whatever has more handles than the heap accounts for; a
  collection may start in any allocation, with cells borrowed; ephemerons depend on
  each other in any order; finalizers run half-way. **Nothing that is in use is freed and
  everything else is; a weak reference is cleared with its key and not before; the counts are right
  afterwards.**

Every hazard with its line is in `PROJECT.json`, with the properties that cover
it or the reason why none does yet.

## 2. Modules of this development

| Module | What it is |
|---|---|
| `WaiterLists` | abstract specification: the waiter lists of ECMAScript, one step per operation |
| `Futex` | the detailed model of `futex.rs` and its callers |
| `FutexRefinement` | the refinement mapping from `Futex` to `WaiterLists` |
| `FutexProofs` | inductive invariant of `Futex`, what follows from it, and that `Futex` implements `WaiterLists` |
| `JobExecutor` | `SimpleJobExecutor` and the timers of `wintertc` |
| `JobExecutorProofs` | the queues are exact, promise jobs and timers keep their order, cleared timers are silent |
| `ModuleGraph` | linking and evaluation of modules |
| `ModuleGraphProofs` | well formed searches that end, final outcomes, correct cycle roots, clean links; exact counters where no cycle waits; the order of evaluation and the way of errors in calm graphs |
| `ModuleLoading` | the loads of a module graph |
| `AsyncGenerators` | the request queue of an async generator |
| `FinalizationRegistries` | a registry, its cleanup job and the kept objects of `WeakRef` |
| `Promises` | promises, resolving functions, reactions, jobs, the rejection tracker |
| `PromiseCombinators` | one call of one of the six combinators |
| `AcrossJobsProofs` | generators serve in order, loads are complete and come to an end, cleanup callbacks are due |
| `PromiseProofs` | one settlement for each promise, reactions in order, an exact tracker, complete results of combinators |
| `Gc` | boxes, handles, ephemerons, weak maps and the phases of a collection |
| `GcProofs` | the invariant of the heap and of the program's steps, that of the collector, the theorems, and the end of a collection |
| `MapData` | abstract specification: what walks over a changing map visit |
| `OrderedMaps` | the ordered map with its locks, and the refinement mapping to `MapData` |
| `BufferViews` | views of buffers that are resized meanwhile |
| `InlineCaches` | one property access, its cache, and the shapes the cache goes by |
| `StructureProofs` | accesses stay in view, `OrderedMaps` implements `MapData`, cache entries stay right |
| `Filters` | the elements of a sequence that are in a set |
| `SequenceFacts` | lemmas on sequences and induction for all the proofs |
| `MCFutex`, `MCJobExecutor`, `MCModuleGraph` | symmetry sets and module graphs for TLC |
| `MCAcrossJobs`, `MCStructures` | several parts in one instance for TLC |

`MCAcrossJobs` and `MCStructures` set parts that share no state side by side. Their variable `part` says
which one runs in a behaviour; the others stand still in an initial state. Each part is explored as it would
be alone, and no interleaving of two of them is claimed: where parts do interact, the
interaction is inside the module (`Futex` has the jobs of its waiters, `JobExecutor` the table of timers,
`Promises` the queue of jobs, `FinalizationRegistries` a collector that frees what is not held).

Definitions whose comment begins with `Mutant:` are not part of a model. Each is
a plausible bug in the definition that follows it, and the property it is listed
with in `PROJECT.json` fails when it takes that definition's place.

### 2.1 Futex

An agent is a thread with its `Context`. `pc[a]` is its place in `wait`,
`wait_async` or `notify`; each action is the code between two points where
another thread can interfere. Since `Store` takes no mutex, reading the cell
(`Load`) and listing the waiter (`Push`) are separate steps even though both
happen inside the critical section. `Sleep` releases the mutex and blocks in one
step, as a condition variable does; `Wake`, `SpuriousWake` and `Reacquire` are
the three parts of its return. `Pop` is one iteration of `notify_many`.

An asynchronous waiter has a name of its own (in the code, an `Arc`), with a
channel `chan`, a `promise`, a `timer` (its `TimeoutJob`) and a `job` (its
`NativeAsyncJob`). `RunTimer` and `RunJob` are the closures of the two jobs; the
first is one critical section. `DropJobs` is what `SimpleJobExecutor::clear`
does to them: the waiters stay in their lists.

`owes` is a history variable: the addresses an agent has stored to and not
notified empty since. It states the protocol of a futex, so that "no wakeup is
lost" can be said of the code alone: whoever waits for a value that is gone is
owed a notify by somebody who changed it.

### 2.2 JobExecutor

`pc` is the place in the loop of `run_jobs_async_impl`: *top* (stop flag and
admission of futures), *due* and *clock* and *settle* (timers), *detached*,
*idle* (the test whether to leave), *group*, *take*/*promise*/*generic*
(batches), *parked*, *yielded*. A job is a name with a kind; what it does when
it is called is one `Effect`: nothing, an `enqueue_job`, a set or a clear of a
timer, `clear_all`, or a throw (`Fail`). A job that does several of those is
several jobs.

The tokens are shared between the table of `setTimeout` (`active`) and the queued
timers: `revoked` is the set of the timers whose token is empty. A token is
emptied by `cancel`, by the end of a timeout, and by the `Drop` of a timer that
is discarded with its queue. Entries whose token is empty stay in the table until
`next_id` or `clear_interval` prunes it, as in the code; `active \ revoked` is
what can still be cleared.

Futures become ready, the stop flag is set and the clock advances between any two
steps. The clock stops at `MaxTime`, so that a timer is queued only for an
instant before it.

### 2.3 ModuleGraph

Rust's recursion in `inner_link` and `inner_evaluate` is the sequence `calls` of
activations; `stack` is the stack of Tarjan's algorithm. One action handles one
required module, or the end of one activation. `gather_available_ancestors` and
`async_module_execution_rejected` are recursive too, and become a worklist `todo`
in the order the recursion visits. Where the code panics the model has no step,
and an invariant says what the assertion in the code says
(`UnwindFindsLinking`, `GatherFindsWaiting`). `StatusesAreExpected` is both, with the types; `SearchesAreClean` says that a search leaves whole components behind it, and
`OutcomesAreKept` that errors, promises and capabilities end as the modules do.

A behaviour starts with one graph out of `Graphs`: the requests of each module,
which have top-level await, which cannot be linked, which throw. `CyclesLink`, `CyclesRest` and `Calm` are no part of the model:
they are the conditions on a graph under which links are clean, counters are exact, and errors and order are right (5.7).

### 2.4 Gc

While `pc` is *mutator* the program allocates, clones, stores, loads and drops handles,
and opens and closes borrows. Each action keeps `ref` as the code does, by one; the
collector alone has to find out what those counts mean. `Collect` counts the handles inside
the heap into `nonRoot`; *strong*, *weak* and *retry* are the loops of `mark_heap`, with
`work` what a loop has still to visit and `gray` the queue of the `Tracer`; the code's vectors and queues are sets
here, from which any element may be taken next, so that what is shown does not depend on their order; `Finalize` gives up the handles of what is dead and starts the
second marking with the marks kept; `Sweep` frees; `ClearMaps` is the `retain` over the weak map
boxes. The collection runs inside one call, so no program step comes between; what it does
interleave with is an operation that allocates half-way. `WeakMap::insert` holds a mutable borrow of the map
while it allocates the entry: that is `SetBorrow`, `Collect` and `Insert`.

Every object is a `GcRefCell`, a weak map being one whose contents are ephemerons; a box
without a cell is one that is never borrowed. Handles are sets: one on the stack and one in each
box for each target. A value of an ephemeron is fixed when it is made; what should change
lies in an object.

### 2.5 Module loading

`InnerLoad` is `inner_load` with the requests it starts, by recursion in the code and by a set of visited
modules here; `FinishLoading` is the completion of a loader's job, which records the entry and continues the
walk; `FailLoading` the same with an error, which ends the load although others of its jobs are still out.
Several loads share `loadedModules`; a module that a load finds linked is not walked again. The
loader is external: it answers late, in any order, or with an error, and the same request of the same module
with the same module, which the `assert_eq` at `source.rs:533` asks for.

### 2.6 Async generators

`point` is where JavaScript runs: in a script, in the generator's body, or in the property reads that
resolving a result's promise entails while `yield` or `drain_queue` is half-way; there, too, `next`, `return` and
`throw` may be called. The frame is *live* or *spent*, so that resuming a frame twice or not having one shows
as a false `FrameIsThere`. An error that JavaScript cannot catch, for which the code has an assertion, is left out.

### 2.7 Finalization registries

One registry, targets that are held, kept for the job, or collected, and cells with their tokens. `signal` is the
channel of capacity one to the cleanup job. `CleanupCell` is one turn of `cleanup`'s loop; the callback may
register, unregister, drop and throw before `CallbackReturns`. `swap_remove` moves the last cell to the place
of a removed one, as in the code. `disturbed` records that a callback unregistered or threw: then the loop leaves a dead
cell for the next signal, so `DeadCellsAreCleaned` speaks of undisturbed cleanups.

### 2.8 Promises and combinators

`frames` is the stack of native calls that wait for JavaScript; on top of it JavaScript creates
promises, calls any function it has, registers reactions, and returns or throws. A pair of resolving functions shares
the cell `captures`, which the first call empties. The rejection tracker is what the host was told.
`PromiseCombinators` has the loop, the element functions, which may be called early, late and twice, and the
counter that starts at one.

### 2.9 Ordered maps

`entries` has keys and numbered holes; iterators and calls of `forEach` hold a lock, and the last lock
removes the holes. `MapData` is the promise of the comment at `map/mod.rs:475`: each walk has a
list of keys it will still visit. Insertions are appended to it, deletions taken out. `loose` is the one
deviation: `clear` does not reset the index of an open walk, which may pass over keys added afterwards. The comment rules
that out, so `MapData` is weaker than the comment there, and the refinement does not catch it.

### 2.10 Buffers and views

An operation has a first half that looks at the buffer (`Begin`: the length of view and buffer as it saw
them), and a second one that touches bytes; between them JavaScript or another agent resizes or detaches.
`access` is the stretch of bytes that is read, the one that is written, and the view that is written into: the operation's
own, or, for the two `slice`s, any that a species constructor may have given and the code lets pass, of this buffer or of another.
Between typed arrays of different types `slice` goes element by element through the same checks as a store (`StoreAt`), which is
not repeated. Where a slice of Rust is indexed out of its range, `panicked` is set.

### 2.11 Inline caches

A receiver and its prototype with shared or unique shapes, an access by name, and the entries of its
cache. A hit takes the first entry that matches; a miss looks up, may run a getter or setter, and then caches. A property that
`set` creates is not cached: its slot is never marked as found, and one that was found on the prototype is not cacheable. Shapes that
nobody holds are freed, and a new one may come to lie at the address of a freed one. `right` says of an entry that nothing
has changed under it since it was made in a way the design does not guard against.

## 3. Runs

| Run | Instance | Question |
|---|---|---|
| `futex_safety` | 3 threads, 1 asynchronous waiter, 1 address, 2 values, 4 operations, 1 spurious wakeup | types, sound lists, one outcome, no lost wakeup; `Futex` implements `WaiterLists` |
| `futex_live` | 2 threads, 1 asynchronous waiter, fairness | a wait that is due returns, a promise that is due is settled |
| `across_jobs` | graphs of 3 modules; 2 loads; 5 requests and 1 await of a generator; 2 targets, 1 token, 3 cells of a registry | the safety and liveness of the four parts that go on from job to job |
| `job_safety` | 3 jobs of all 7 kinds, 3 modes, 3 instants, delays 0 and 1 | order, dropping, completeness, cancellation, deadlines, table against queue |
| `job_loop_ends` | 2 jobs of all 7 kinds, 3 modes, 4 instants, fairness | types; every run ends |
| `job_stop` | 1 future under `park` | the stop flag of a parked loop (violated) |
| `structures` | heap: 2 cells, 3 ephemerons, 4 boxes, 5 handles; 3 promises, 4 pairs, 2 reactions, depth 2; 6 combinators, 3 elements, 2 calls; 3 keys, 2 walks, 3 entries; elements of 1 and 2 bytes, 4 bytes; 3 addresses of shapes, 1 name, a cache of 1 | exact collection; single settlement, order, tracker, complete results; locks and walks; bytes in view; right entries |
| `link_unwind`, `uneven_cycle`, `reimport`, `late_error` | one graph each | four assertions of the code that some graph violates |
| `stale_hit` | 4 addresses, 2 names, a cache of 2, all accesses | a hit is what a lookup finds (violated) |

**Why the bounds are enough.** The hazards of `Futex` are races of a waiter with
one notifier and one more party (a store, a timeout, another waiter); three
agents and one asynchronous waiter give every pair of roles a third, and four
operations let a waiter be notified, and its agent begin anew. The count 5 is
larger than any list and stands for `u64::MAX`. More addresses and waiters are the business of the
proof. In `JobExecutor` the longest pattern behind a property is a batch of
two with a third job that comes in while the first is called; a name is used once,
but an interval comes back for as long as the clock runs; one more instant (20 million
states) shows nothing new. Three modules are enough
for all shapes of a component and something outside of it, before or after; the
four-module graph is needed only for two dependencies outside one cycle. Two loads are enough
for one to find what another has recorded and not finished. Five requests reach every state of a generator with
requests queued behind it, and let it be drained. Three cells are what `swap_remove` needs to move one
past the loop.

In `Gc` four boxes hold a chain of three ephemerons behind one key,
which needs two rounds of the retry loop; a weak map with its box, an entry and a key that the entry's
value holds; a cycle of two objects; and a cell that is being written to with what it holds. The heap is
collected any number of times. Three promises and three pairs are a promise resolved with a thenable whose pair is called
again while another waits; the fourth pair lets a promise be resolved with a promise, since the job that adopts it takes two pairs of
its own (`RunAdoption`), and lets their native handler return (a frame `"native"`); two native frames are a `then` getter inside a handler's job. Three elements are one whose functions
have been called, one in the loop, and one to come. In `OrderedMaps` two walks are one that lets go while another goes on. Four bytes
hold a view with an offset, a tail and an element of two bytes that a resize cuts in half. A cache of one entry is
full at once and of two holds a stale entry before a fresh one.

**Which graphs `across_jobs` has.** Every graph over three modules, with at most
one fault, of which the restrictions in `MCModuleGraph!PlainGraph` exclude those
that the four violation runs stand for: cycles of two or more modules that reach a module
with top-level await or one that cannot be linked, and synchronous modules that
throw and reach a module with top-level await. `EvenCycles` puts two graphs with an asynchronous
cycle back, in which the code's counters agree by luck of the numbers. Only
capabilities are bounded (`MaxCapabilities`). What is loaded is a cycle of three and a chain whose last module imports itself.

**Deadlock.** In `Futex` all agents may be blocked in `Atomics.wait`, or the
operations be used up; in `ModuleGraph` and in the other parts of `across_jobs` a behaviour ends when nothing is left to
import, load or request; of the structures promises and combinators end, when their bounds are used up. The runs of these
say `CHECK_DEADLOCK FALSE`. The executor may always be
started again, and its runs check for deadlock.

**Fairness.** `Futex!Fairness` is weak fairness of each thread's own steps, of each
job, and of the passing of a timeout. Taking the mutex is *not* strongly fair,
since Rust's `Mutex` does not promise that; in the instances the number of
operations is bounded, so nobody holds a waiter off for ever, and `WaitReturns`
is to be read under that assumption. Jobs are weakly fair because an embedder that uses
`waitAsync` runs its loop; `PromiseSettles` excludes agents that block for good.
`JobExecutor!FairSpec` is weak fairness of the loop, which is a loop, and of the
clock. `ReadySpec` adds that every future is ready some day, without which no
event loop ends. `LoadingFairness` says that a loader answers each load, with success or not.
`AsyncGeneratorFairness` is weak fairness of what the generator itself has to do: its body goes on, awaited promises
settle, native callers continue. `RegistryFairness` lets scripts end and the cleanup job go on; starting it is strongly fair,
since other jobs come between and the executor polls it in every round. Nothing is assumed of what the embedder calls.

## 4. What the runs show

The waiter lists hold up: all safety properties, the refinement and both liveness
properties pass. In particular, the comment in `futex.rs` that spurious wakeups are
harmless and its `# Safety` contracts are confirmed, and an executor that is dropped
leaves waiters that are linked, and harmless but for one thing: a `notify` counts
them.

The executor's queues keep their promises as well, and so does the collector: its roots are
exact, its ephemeron loop computes reachability, and one collection frees all there is to free. Loads of modules, async
generators, promises and their combinators, and maps under iteration do what ECMAScript says of them,
whatever JavaScript runs in their middle. Operations on buffers touch no byte outside of their view, although some of them
panic instead. Six disagreements between the code
and its own comments, docs or assertions came up (`findings` in `PROJECT.json`):

1. `link` of a graph with a cycle whose outer member cannot be linked reaches
   `unreachable!` when it unwinds, since the inner member is already *prelinked*
   (`link_unwind`).
2. In a cycle of which only some members have asynchronous dependencies of their own,
   every member gets the count of the root, and a member is told of a dependency more
   often than that: the assertion on the counter fails (`uneven_cycle`).
3. `evaluate` of a module that an earlier evaluation has reached, and that still waits,
   returns a promise that no one keeps, and that is never settled (`reimport`).
4. When a synchronous body throws after its asynchronous dependencies are done, the
   error is reported against the module that has just been fulfilled, which is evaluated, so that
   it is lost; the module that threw stays *evaluating-async* (`late_error`).
5. Setting the stop flag does not end a loop that is parked on a future, since
   nothing wakes its thread (`job_stop`).
6. A cache entry for an inherited property goes on matching after the receiver, whose shape is unique and keeps
   its address, got a property of its own of that name (`stale_hit`).

**Observations without a run of their own.** Reading and checking also showed the following; each is a hazard in
`PROJECT.json`, or a definition that TLC refutes and no run checks.

* `for_each_native` does not advance at an empty entry and spins (`OrderedMaps!WalksGetOn`). Clearing a map under an open walk
  leaves the walk's index, against the comment at `map/mod.rs:475` (`MapData!Clear` allows for it, so that `WalksRefineMapData` passes). A set cloned under a lock inherits a lock count that nobody gives back, so that
  its holes stay. `isDisjointFrom`, `isSubsetOf` and `intersection` walk by index without a lock.
* `ArrayBuffer.prototype.slice` and the `Atomics` operations index a slice with a length from before their arguments
  were converted, and panic when the buffer shrank: TLC refutes `BufferViews!NeverPanics` for both. For `Atomics` the slice is
  `bytes_with_len`, whose doc comments (`array_buffer/mod.rs:70` and `:110`) say that it "Returns `None` if the buffer is detached or
  if the provided `len` is bigger than the allocated buffer"; lines 246-262 look at whether the buffer is detached and then index `&s[..len]`.
* A cleanup callback that unregisters moves a cell to a place the loop has passed, and one that throws ends the loop: dead
  cells wait for the next signal.
* A cache filled after a getter or setter ran goes by the shape from before; such entries are wrong at once (`right` is false), and
  `EntriesStayRight` says nothing of them.
* The second marking of a collection is meant to save what a finalizer resurrects. `run_finalizer` gives up every handle
  of a dead object while the counts of non-roots stay as they were, so that one clone made by a finalizer does not make its
  target a root. The engine's finalizers clone no handles.
* In a cycle of three with a member that cannot be linked, `inner_link` takes the second way to a *prelinked* member for one
  out of the cycle (`source.rs:983`), splits it in two, and links the half that imports the broken one. `evaluate` of that half then
  reaches the `unreachable!` at `source.rs:1261`. For this reason links are clean only where cycles can be linked.
* The break of the executor's loop skips `clear_kept_objects` (`job.rs:1330`); while only timers remain the loop
  spins (`job.rs:1381`).

## 5. What is proved

The theorems hold for every value of the constants that satisfies the assumptions named in the modules
(`FutexAssumption`, `ExecutorAssumption`, `GraphAssumption`, `AsyncGeneratorAssumption`, `LoadingAssumption`, `RegistryAssumption`,
`PromisesAssumption`, `CombinatorAssumption`, `OrderedMapAssumption`, `BufferAssumption`, `InlineCacheAssumption`,
`GcAssumption`): any number of agents, waiters, addresses, jobs, instants, promises, elements, keys, walks and cells, any
finite set of modules with any requests, any element sizes, any heap of objects and ephemerons, and any bounds. Where an
assumption says that a set is finite, something counts its elements. Nothing else is assumed.

### 5.1 Futex (`FutexProofs`)

The invariant `IInv` is the conjunction of `TypeOK`,
`CriticalSection`, `ListsAreSound`, `LinkedUntilTold`, `UnlinkedIsSignalled` and
`NoLostWakeup`. Only `CriticalSection` with the types is inductive alone. The
others need each other: that a listed stack waiter is still inside
`wait` follows from mutual exclusion; that unlinking one waiter does not disturb
another, and that the head a notify removes is linked nowhere else, needs the lists to
be injective and each waiter to be in the list of its own address; that the channel of a
popped waiter is empty needs `ListsAreSound`; and that no wakeup is lost needs all of it,
since it speaks of linked waiters only. Lemmas `AppendFacts`, `TailFacts` and `UnlinkFacts`
say what the three changes of a list do to its members; `QuietStep`, `BeginStep`,
`ReturnStep` and `RemoveStep` say what the actions have in common. From `IInv` follow
`FutexTypes`, `NoWakeupIsLost`, `ListsAreAlwaysSound`, `SleepersAndOutcomes`, and the
action property `OutcomesAreFinal`, where `LinkedUntilTold` rules out that a timeout job meets
a channel that has a result.

`FutexImplementsWaiterLists` says that every behaviour of `Futex` is one of `WaiterLists`. Where
nobody is in `notify_many`, the mapping is plain: the abstract lists are the lists, and a waiter's status is read off its
thread or channel (`PlainMapping`). `IInv` and `NoResultYet` (a wait that goes on has no result) are what makes linking, timing out and
returning map to `Add`, `TimeOut`, `Reset` or nothing. While somebody is in `notify_many`, the waiters that its loop will still
remove count as notified: taking the mutex is the abstract `Notify` (`BeginNotifyRefines`), an iteration removes the head of a
list of which the claimed part is not visible (`PopRefines`, with `DropHead` on sequences), and at the end nothing is claimed since the loop
has removed as many as it was asked to and no more (`PopsAreBounded`).

### 5.2 Job executor (`JobExecutorProofs`)

`OrderInv` is `PromiseJobsInOrder` with the types of the
three sequences in it: what was enqueued and not dropped is what was called, then
the rest of the batch, then the queue. `TokensInv` says that the token of a
cleared timer is empty; nothing fills a token, and a timer is called only when its token
is not empty, so a cleared timer is not called, in whichever batch it may be.

`TheQueuesAreExact` rests on `Fits`: which kinds of job each queue, group and batch may hold, where what was dropped is not,
and that the timers that can still be cleared are those that are queued or in the batch and have a token. Each action moves jobs from
one container to another, so that `Fits` is a predicate of the containers and each kind of move a lemma. With it come what a batch holds at each place of
the loop (`BatchKinds`), and that no run that goes on has reported success (`LoopEnds`).

`TimersRunInOrder` is an action property. `Timely` says that each queued timer stands at its deadline and in one place, and that the
batch is in the order of the deadlines, all of them before those that are still queued and before a horizon: the time, or
while a batch settles the time when it was taken, below which no callback can queue another.

### 5.3 Generators, loads and registries (`AcrossJobsProofs`)

`AnswersInOrder` is inductive given the types: requests are numbered, and answers and queue
together are the numbers in order. That whoever waits is served, and that `resume` and `complete_step` find a frame and a request,
needs to know where JavaScript may run in which state (`PointFitsState`) and that a completed or freshly started generator has an
empty queue (`WorkIsUnderWay`).

The invariant of one load, `LoadInv`, says that for each module it has visited every request is recorded, or is
one of its jobs; that a recorded one has been visited or linked unless a job is about to; and that its counter
is the number of jobs. When the last job is answered the visited modules are closed under requests, hence they contain all
that is reachable (`ReachableInClosed`), and a linked module stays complete because entries are only added. `LoadsWaitForAnswers`
adds that a pending load waits for at least one answer, and `LoadsComeToAnEnd` that each answer lets the load visit modules it had not visited, or
leaves it with one answer less to wait for, and never the other way: `LoadsSettle` without the fairness. A cycle of imports is visited once, and what
other loads record or link meanwhile only makes fewer modules to visit.

For registries every cell that was ever registered is in the list, called, or removed, and in one of the three only
(`CallbacksAreDue`): `swap_remove` moves a cell and does not copy it, and `unregister`, a loop that removes while it walks, is
a recursion of which each turn is followed (`Turned`).

`AcrossTypesHold` joins the type invariants of the three, for the specification the run checks.

### 5.4 Promises and combinators (`PromiseProofs`)

A pending promise has one claim on it: a pair whose cell is full, a thenable job, or a native frame that is reading its
resolution's `then`. A step takes a claim from one place and passes it on to another, or settles. The invariants are therefore predicates of a queue and
a stack of frames, with at most one promise *loose* in the middle of a step, whose claim is in nobody's hands; each half of a
step is a lemma. `ReactionsRunInOrder` numbers the reactions of each promise: those that ran, those with a job in the queue, and those
that wait follow each other without a gap (`InOrder`). `TheTrackerIsExact` is part of the same invariant, since a rejection is reported in the step
that settles the promise.

Of the combinators, an element's place in the result is the first answer that was collected for it, the counter is the number
of the elements that wait, and one for the loop while that runs; hence when it comes to zero all are there (`ResultsAreComplete`).

### 5.5 Ordered maps, buffers and caches (`StructureProofs`)

*Ordered maps.* The empty entries have the numbers below `empty_count`, each of them once (`EntriesFit`), so that the count
is exact, a deletion finds its number free, and the map is not larger than it may be. The lock is the number of the open walks
and what a copy has inherited (`LockFits`).

`WalksSeeWhatTheMapPromises` is the refinement of `MapData`. `Ahead(es, i)` is what a walk at `i` has before it. Lemmas say
what it becomes when a key is appended (`AheadAppended`), marked as empty (`AheadMarked`) or passed (`AheadSkips`, `AheadVisits`), and that removing
the empty entries leaves it alone when no walk is open. The invariant needs `WalksAhead`: a walk stands at most one past the end
unless a clear has overtaken it; only these may miss a key that is added. These rest on lemmas about `Filters!Keep`, a recursive
function, in `SequenceFacts`: what is kept of a sequence with one more element, of two sequences joined, and of what was kept already.

*Buffers.* `StillKnown` says what an operation's remembered length is worth after a resize: nothing for those that
look again, and for `Atomics`, that the view fitted the buffer it saw. What `slice` writes lies in the target because the target had
room for the range before it was clamped (`CopiesInView`). The rest is arithmetic over offsets, lengths and sizes; that
multiplication is monotone is a lemma by itself, since the SMT solver does not find it inside of a larger goal.

*Caches.* An entry is good when it would be right for every object that has its shapes, now and later. A change of an
object gives it a shape with a fresh address, one that is shared and already says what the change makes of it, or adds a property to a unique shape in place
(`Evolves`); and an address is not fresh while a weak reference to its shape can be upgraded. In each of these cases the
entries stay good (`EntryEvolves`). That is `EntriesStayRight`; that a *hit* is right does not follow, and is false (`stale_hit`).

`StructuresTypesHold` joins the type invariants of these three parts with those of the collector, promises and combinators, for the specification the
run checks: a step of it is a step of one part, and the others stutter (`OnePartSteps`).

### 5.6 Collector (`GcProofs`)

`Base` holds in every phase: nothing dangles, counts are exact, borrowed cells are held,
weak maps are tracked. Between collections (`MutatorStep`) it is kept since each operation changes the fields of one box,
so that the number of handles to another changes as `ref` does (`HandlesChange`). The collector needs more. `RootsInv` says that the
counting found the roots exactly, cells that are being written included. `FirstInv` is the invariant of the first marking: what a marked
object refers to is marked, queued or a root, an ephemeron is traced, ahead, or pending, and while a pass over the pending ones removes
none, it marks nothing either (`PassInv`); hence at its end the marks are closed (`FirstDone`). Together with `ReachInv`, that only
what is reachable is marked, they are the reachable boxes (`MarkedIsReachable`). The finalizers take the handles of
exactly the others (`FinalizeCounts`), so that in the second marking whatever is unmarked has a count of zero and is no
root (`SecondInv`), and `Sweep` frees it. From this follow the exactness of the sweep and that a reachable weak reference keeps its key.

`CollectionsEnd` says that a collection is never stuck (`GoesOn`) and that every step of it brings its end closer (`Closer`): in the
order of the phases left; the number of ephemerons the pass began with; those it has still to try; the boxes without a mark; and the queue. That a
pass which is not the last begins with fewer ephemerons than the one before is the comparison with `previous_len` in the code; that
it never has more before it than it began with is `PassFits`, an invariant of both markings.

### 5.7 Linking and evaluation (`ModuleGraphProofs`)

`Base` is the shape of the two searches (`SearchIsWellFormed`): the stack holds each module once, the activations follow its
order, each requests the next, and the statuses say who is on the stack. Every action does to the search one of
five things: it enters a module, visits one, leaves the top, abandons everything, or rests (`ActionKinds`); what follows is
proved of these five. `OutcomesAreFinal` has the promises with the outcomes: neither can be final without the other, since a
capability is settled where its module's status is changed.

`CyclesAreFound` is Tarjan's theorem for the code, for all graphs, with throws, failed evaluations and modules that wait. Lists of
requests are explored one by one, so that the usual argument by a finished search is not at hand; instead `Trace` describes the search at any time. `Lows`:
what a module on the stack knows of the stack below it, through all requests explored, the callee's included. `Below`: an
ancestor index below an activation's is a path to a module below. `Down` and `Up`: an activation leads to what lies above it, and each
module on the stack to the activation below it. When a component is taken off, whatever it leads to is in it or was taken off earlier: the set
`P` of the latter is closed, and modules in it have one root exactly if they lead to each other. `P` is existentially quantified,
for what a failed evaluation marks as evaluated is not in it, unless its search had finished. `Leads` says reachability by closed sets, and
needs no recursion.

`LinkIsClean` needs a condition, `CyclesLink`: there is a closed set of modules that can be linked and that contains all
cycles. Outside of it each module is a component of its own (`CalmSearch`), so that a link that fails finds no prelinked
module on its stack, and what is linked imports only what is linked (`Links`). `MCModuleGraph!ModelledCyclesLink` says that all graphs
of three modules that are checked satisfy it; section 4 has a graph that does not, and `link_unwind` another.

What concerns modules with top-level await needs more. `CyclesRest` asks that no cycle of two or more modules leads to a module
with top-level await or to one that cannot be linked. Nothing else is asked of the graph: any number of modules, chains and diamonds of
asynchronous modules of any shape, bodies that throw with and without top-level await, modules that import themselves. In such a graph
there is a largest closed set without top-level await, `Sync`, which holds all the cycles; its modules never wait, and whatever waits is its own cycle root
(`Alone`). `CountersAreExact`, `NothingPanics` and `NothingIsStuck` are proved under this condition. `uneven_cycle`
and `link_unwind` show that a cycle which does wait, or cannot be linked, may end in a panic.

In a *calm* graph (`Calm`) no synchronous module that throws leads to top-level await either. `late_error` shows that without this errors get
lost, so that `ImportsComeFirst` and `OutcomesArrive` need it. The condition is the one of `PlainGraph`, and
`MCModuleGraph!PlainGraphsAreCalm` has TLC confirm that all plain graphs meet it; `ThrowingPairRests`, that the graph of
`late_error` is one in which cycles rest and which is not calm, so that the counters are right even there.

* `Waiting` is the inductive invariant about what waits. `Ordered` and `Listed`: a parent comes later in the order of asynchronous evaluation than
  what it waits for, or has failed. `Exact`: its counter is the number of its entries in the parent lists, and in the list of those still
  to be told; while errors are handed on, only for those the error has not reached. `Ready`: with nothing left to wait for it runs, is about to run, is about to fail,
  or is a synchronous module whose body threw, which the code leaves behind (`late_error`). `Deps`:
  the local counter of an activation is that number for its module. Counting entries over all lists is done in the lemmas before (`CountChanges`): when one
  list changes, the count changes as the occurrences in that list. From this `CountersAreExact`, and with `LinkIsClean` that whatever
  the code asserts of a status or a counter is so (`NothingPanics`).
* `ImportsComeFirst`: a body starts only when everything its module imports, apart from what imports it back, was evaluated without an error. `WaitersMet`
  says it of a module that waits: each request is done, or waits with a lower order and will tell it, or an error is on its way. So the first of the sorted
  execution list has all its requests done, and it is here that the sort is needed. `SearchCovers` says it of the stack, and `DoneClosed` joins the two: what was evaluated
  without an error requests only what was. It uses that a component is complete when it leaves the stack, which is `CyclesAreFound`.
* `OutcomesArrive` says that an error reaches whatever imports its module (`WaitersMet` and `DoneClosed`), that a module that threw has
  failed when the host goes on (`Threw`), and that with no body running nothing waits: the first in the order of what waits would have an entry in the list
  of an earlier one (`NobodyWaits`). Then each capability has the outcome of its module.

`SearchesEnd` and `NothingIsStuck` are about the recursion itself. Whatever the graph, each step of `link`, `evaluate`, `gather_available_ancestors` and
`async_module_execution_rejected` lowers `Left`: for a search the modules to enter, the activations, and the requests left to the last; for a
walk the parent lists not taken, the modules to be told, and the bodies to run. `GoesOn` says that until then some step has its guard, hence that
no panic is in the way. Together: each call returns. The execution list can be worked off since `Ready` says that it holds only modules that wait for nothing, and one of them is first in
the order (`SomeReady`).

### 5.8 Induction over data (`SequenceFacts`)

The library states induction with an operator as a parameter, which the provers cannot instantiate. `SetInduction` has a
set in its place: what contains zero and with each number the next contains all numbers. What is said of a recursive definition is said of the set of
the numbers, or of the sequences (`SequenceInduction`), for which it holds. In this way the recursive functions behind `Keep` and
`FlattenSeq`, and the loop of `unregister`, are reasoned about.

## 6. What is only model-checked

* Liveness (`WaitReturns`, `PromiseSettles`, `RunEnds`, `EveryRequestAnswered`, `LoadsSettle`,
  `DeadCellsAreCleaned`): TLAPS does not reason about fairness and `ENABLED`. What can be said without them is proved for collections, for the
  searches of modules and for loads: a measure that every step lowers, and that some step has its guard.
* In `ModuleGraph` the two graphs of `EvenCycles`, in which a cycle waits and the counters agree by luck. Their cycles do not
  rest, and the theorems about counters, panics, order and errors say nothing of them.
* What becomes of errors, and of the order of bodies, in graphs whose cycles rest but that are not calm is only shown by `late_error`: one graph that loses an error.

## 7. What is not modelled, and why

In the parts above: the read-modify-write operations of `Atomics` (single
instructions, a `Store` to the waiters); poisoned mutexes (a panic inside the critical
section comes first); profiling and realms in the executor; timer ids,
which are never reused; how `initialize_environment` resolves imports; synthetic modules; in the collector
the thresholds, the overflow of a count (a panic), `new_cyclic` (an ephemeron without its key until its object
is there) and the end of the thread, when all boxes are dropped. Of loaders their caches and parsers; of
generators the synchronous ones, which have one caller and no queue; of promises species constructors, `finally` and
values; of maps the values and `groupBy`; of buffers the bytes; of caches indexed accesses, longer chains of prototypes,
templates, and the pruning of transition tables. `components` in `PROJECT.json` has the list for each part.

Beyond them: the parser, the syntax tree, the bytecode compiler, the virtual
machine and the JIT translate and interpret programs, so that an instance is a
program and Test262 is the better tool. They are most of the code's lines. Strings, the interner, ICU data,
macros, command line and bindings are data and glue. Builtins other than those of section 1
are functions of their arguments.

## 8. Plan

In this order; each module is written so that it can be proved about, without
`RECURSIVE` operators.

1. `FinalizationRegistry` composed with the phases of `Gc`, with targets between finalization and sweep and tokens that die.
2. Finalizers that clone handles, in `Gc`; the walks over sets that take no lock, in `OrderedMaps`.
3. Synthetic modules and `export` resolution; jumps out of `finally` blocks in the bytecode compiler.
