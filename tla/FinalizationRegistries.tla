------------------------ MODULE FinalizationRegistries ------------------------
(****************************************************************************)
(* One FinalizationRegistry, its cleanup job, and the objects WeakRefs keep  *)
(* alive (core/engine/src/builtins/finalization_registry, builtins/weak).   *)
(*                                                                          *)
(* JavaScript runs in a script or another job, and in the callback that     *)
(* cleanup calls inside its loop over the cells.  The collector, which runs  *)
(* at any time, frees whatever is not held (Gc shows that it does).         *)
(****************************************************************************)
EXTENDS Integers, Sequences, FiniteSets

CONSTANTS
  Targets,   \* objects that are registered
  Tokens,    \* unregister tokens, which the script holds
  NoToken,
  MaxCells   \* bound: calls of register

ASSUME RegistryAssumption == MaxCells \in Nat

VARIABLES
  held,        \* targets the script has a strong reference to
  kept,        \* Context.kept_alive
  collected,   \* targets that were collected
  registry,    \* whether the registry itself is "held", "dropped" or "dead"
  cells,       \* FinalizationRegistry.cells
  signal,      \* whether the channel of capacity one holds its message
  runner,     \* who runs: nobody, JavaScript, or the loop of cleanup
  cleanupJob,  \* "waiting" for a message, "cleaning", or "over"
  at,          \* the loop's i
  registered,  \* history: calls of register
  calledBack,  \* history: the cells the callback was called for
  removed,     \* history: the cells unregister removed
  disturbed    \* history: a callback threw, or unregistered a cell

registryVars == <<held, kept, collected, registry, cells, signal, runner, cleanupJob, at,
                  registered, calledBack, removed, disturbed>>

Cell(id, target, token) == [id |-> id, target |-> target, token |-> token]

(* Vec::swap_remove.                                                        *)
SwapRemove(s, i) ==
  SubSeq([s EXCEPT ![i] = s[Len(s)]], 1, Len(s) - 1)

RegistryInit ==
  /\ held = Targets /\ kept = {} /\ collected = {}
  /\ registry = "held"
  /\ cells = <<>> /\ signal = FALSE
  /\ runner = "none" /\ cleanupJob = "waiting" /\ at = 0
  /\ registered = 0 /\ calledBack = <<>> /\ removed = {}
  /\ disturbed = FALSE

ScriptRuns == runner \in {"script", "callback"}

----------------------------------------------------------------------------
(* JavaScript.                                                              *)

Register(t, token) ==
  /\ ScriptRuns /\ registry = "held"
  /\ t \in held /\ registered < MaxCells
  /\ registered' = registered + 1
  /\ cells' = Append(cells, Cell(registered + 1, t, token))
  /\ UNCHANGED <<held, kept, collected, registry, signal, runner, cleanupJob, at,
                 calledBack, removed, disturbed>>

\* Mutant: only the first cell of the token is removed.
UnregisteringFirst(token) ==
  IF \E i \in DOMAIN cells : cells[i].token = token
  THEN SwapRemove(cells, CHOOSE i \in DOMAIN cells : cells[i].token = token) ELSE cells

(* unregister: as many turns as there are cells, each removing the cell it  *)
(* is at or going on to the next.                                           *)
Unregistering(token) ==
  LET turn[n \in 0..Len(cells)] ==
        IF n = 0 THEN [i |-> 1, cells |-> cells]
        ELSE LET so == turn[n - 1] IN
             IF so.cells[so.i].token = token
             THEN [so EXCEPT !.cells = SwapRemove(so.cells, so.i)]
             ELSE [so EXCEPT !.i = so.i + 1]
  IN turn[Len(cells)].cells

Unregister(token) ==
  LET left == Unregistering(token)
      gone == {c.id : c \in {cells[i] : i \in {i \in DOMAIN cells : cells[i].token = token}}}
  IN
  /\ ScriptRuns /\ registry = "held"
  /\ gone # {}
  /\ cells' = left
  /\ removed' = removed \cup gone
  /\ disturbed' = (disturbed \/ runner = "callback")
  /\ UNCHANGED <<held, kept, collected, registry, signal, runner, cleanupJob, at, registered, calledBack>>

(* The script lets go of a target, or of the registry.                      *)
LetGo ==
  /\ ScriptRuns
  /\ \/ \E t \in held : held' = held \ {t} /\ UNCHANGED registry
     \/ registry = "held" /\ registry' = "dropped" /\ UNCHANGED held
  /\ UNCHANGED <<kept, collected, cells, signal, runner, cleanupJob, at,
                 registered, calledBack, removed, disturbed>>

\* Mutant: a target that is gone is handed out.
DerefUnchecked(t) ==
  /\ ScriptRuns
  /\ held' = held \cup {t}
  /\ kept' = kept \cup {t}
  /\ UNCHANGED <<collected, registry, cells, signal, runner, cleanupJob, at,
                 registered, calledBack, removed, disturbed>>

(* WeakRef.prototype.deref.                                                 *)
Deref(t) ==
  /\ ScriptRuns /\ t \notin collected
  /\ held' = held \cup {t}
  /\ kept' = kept \cup {t}
  /\ UNCHANGED <<collected, registry, cells, signal, runner, cleanupJob, at,
                 registered, calledBack, removed, disturbed>>

StartScript ==
  /\ runner = "none"
  /\ runner' = "script"
  /\ UNCHANGED <<held, kept, collected, registry, cells, signal, cleanupJob, at,
                 registered, calledBack, removed, disturbed>>

EndScript ==
  /\ runner = "script"
  /\ runner' = "none"
  /\ UNCHANGED <<held, kept, collected, registry, cells, signal, cleanupJob, at,
                 registered, calledBack, removed, disturbed>>

(* clear_kept_objects, which the executor calls after a round of jobs.      *)
ClearKeptObjects ==
  /\ runner = "none" /\ kept # {}
  /\ kept' = {}
  /\ UNCHANGED <<held, collected, registry, cells, signal, runner, cleanupJob, at,
                 registered, calledBack, removed, disturbed>>

----------------------------------------------------------------------------
(* The collector: each target that dies finalizes its cells' signalers,     *)
(* which send to the channel unless it is full.                             *)
Collect ==
  LET dying == Targets \ (held \cup kept \cup collected) IN
  /\ dying # {}
  /\ collected' = collected \cup dying
  /\ signal' = (signal \/ \E i \in DOMAIN cells : cells[i].target \in dying)
  /\ UNCHANGED <<held, kept, registry, cells, runner, cleanupJob, at,
                 registered, calledBack, removed, disturbed>>

CollectRegistry ==
  /\ registry = "dropped" /\ cleanupJob # "cleaning"
  /\ registry' = "dead"
  /\ UNCHANGED <<held, kept, collected, cells, signal, runner, cleanupJob, at,
                 registered, calledBack, removed, disturbed>>

----------------------------------------------------------------------------
(* The cleanup job.                                                         *)

(* inner_cleanup when its receiver has a message, or no sender any more.    *)
StartCleanup ==
  /\ runner = "none" /\ cleanupJob = "waiting"
  /\ signal \/ registry = "dead"
  /\ IF registry = "dead"
     THEN cleanupJob' = "over" /\ UNCHANGED <<signal, runner, at>>
     ELSE /\ cleanupJob' = "cleaning"
          /\ signal' = FALSE
          /\ runner' = "cleanup"
          /\ at' = 1
  /\ UNCHANGED <<held, kept, collected, registry, cells, registered, calledBack, removed, disturbed>>

(* One turn of the loop in cleanup.                                         *)
CleanupCell ==
  /\ runner = "cleanup" /\ at <= Len(cells)
  /\ IF cells[at].target \notin collected
     THEN at' = at + 1 /\ UNCHANGED <<cells, calledBack, runner>>
     ELSE /\ cells' = SwapRemove(cells, at)
          /\ calledBack' = Append(calledBack, cells[at].id)
          /\ runner' = "callback"
          /\ UNCHANGED at
  /\ UNCHANGED <<held, kept, collected, registry, signal, cleanupJob, registered, removed, disturbed>>

\* Mutant: the messages of targets that died meanwhile are thrown away.
EndCleanupJobDraining ==
  /\ runner' = "none" /\ cleanupJob' = "waiting" /\ at' = 0
  /\ signal' = FALSE
  /\ UNCHANGED <<held, kept, collected, registry, cells, registered, calledBack, removed>>

(* The job ends after it has enqueued the next one.                         *)
EndCleanupJob ==
  /\ runner' = "none" /\ cleanupJob' = "waiting" /\ at' = 0
  /\ UNCHANGED <<held, kept, collected, registry, cells, signal, registered, calledBack, removed>>

CallbackReturns ==
  /\ runner = "callback"
  /\ runner' = "cleanup"
  /\ UNCHANGED <<held, kept, collected, registry, cells, signal, cleanupJob, at,
                 registered, calledBack, removed, disturbed>>

CallbackThrows ==
  /\ runner = "callback"
  /\ disturbed' = TRUE
  /\ EndCleanupJob

EndCleanup ==
  /\ runner = "cleanup" /\ at > Len(cells)
  /\ EndCleanupJob
  /\ UNCHANGED disturbed

CleanupStep == StartCleanup \/ CleanupCell \/ EndCleanup \/ CallbackReturns

RegistryNext ==
  \/ \E t \in Targets, token \in Tokens \cup {NoToken} : Register(t, token)
  \/ \E token \in Tokens : Unregister(token)
  \/ \E t \in Targets : Deref(t)
  \/ LetGo \/ StartScript \/ EndScript \/ ClearKeptObjects \/ Collect \/ CollectRegistry \/ CallbackThrows
  \/ CleanupStep

RegistrySpec == RegistryInit /\ [][RegistryNext]_registryVars

(* Scripts and callbacks end, and the executor polls the job, though other  *)
(* jobs run between any two of its polls.                                   *)
RegistryFairness ==
  /\ WF_registryVars(EndScript)
  /\ SF_registryVars(StartCleanup)
  /\ WF_registryVars(CleanupCell \/ EndCleanup \/ CallbackReturns)

----------------------------------------------------------------------------
RegistryTypeOK ==
  /\ held \subseteq Targets /\ kept \subseteq Targets /\ collected \subseteq Targets
  /\ registry \in {"held", "dropped", "dead"}
  /\ signal \in BOOLEAN
  /\ runner \in {"none", "script", "callback", "cleanup"}
  /\ cleanupJob \in {"waiting", "cleaning", "over"}
  /\ (cleanupJob = "cleaning") = (runner \in {"callback", "cleanup"})
  /\ collected \cap (held \cup kept) = {}
  /\ removed \subseteq 1..registered

(* Each call of register gives rise to at most one call of the callback,    *)
(* after its target died, and to none once unregister removed its cell,     *)
(* even if the callback unregisters while cleanup goes through the cells.   *)
CallbackIsDue ==
  LET ids == {cells[i].id : i \in DOMAIN cells}
      ran == {calledBack[i] : i \in DOMAIN calledBack}
  IN
  /\ Cardinality(ids) = Len(cells) /\ Cardinality(ran) = Len(calledBack)
  /\ ran \cap removed = {} /\ ran \cap ids = {} /\ removed \cap ids = {}
  /\ ran \cup removed \cup ids = 1..registered

(* A registered target that dies gets its callback, unless the registry dies *)
(* too, or a callback threw or unregistered a cell: then a dead cell may be  *)
(* passed over, or left, with no message on its way for it.                 *)
DeadCellsAreCleaned ==
  []<>(\/ \A i \in DOMAIN cells : cells[i].target \notin collected
       \/ registry = "dead" \/ disturbed)
============================================================================
