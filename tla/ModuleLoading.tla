---------------------------- MODULE ModuleLoading ----------------------------
(****************************************************************************)
(* Loading module graphs: Module::load, the loads that dynamic imports      *)
(* start, and the asynchronous jobs of the loader (core/engine/src/module). *)
(*                                                                          *)
(* Several loads walk one graph at once and share the loaded_modules of its *)
(* modules.  The loader answers in any order, or fails; it answers the same *)
(* request of the same module with the same module each time, as it has to, *)
(* so that a request is named by the module it is for.                      *)
(****************************************************************************)
EXTENDS Integers, FiniteSets

CONSTANTS
  ModuleNames,
  Loads,      \* loads of a graph, each used once
  RequestGraphs      \* the graphs of requests that are tried

ASSUME LoadingAssumption ==
  IsFiniteSet(ModuleNames) /\ RequestGraphs \subseteq [ModuleNames -> SUBSET ModuleNames]

VARIABLES
  requested,  \* code.requested_modules
  loadedModules,  \* loaded_modules: the requests that have an entry
  linked,     \* modules whose status is no longer Unlinked
  loadRoot,       \* the module a load was started for
  loading,    \* GraphLoadingState.loading
  visited,    \* GraphLoadingState.visited
  pendingModules,    \* GraphLoadingState.pending_modules
  loadJobs,   \* the loader's jobs of a load: pairs of a module and its request
  loadOutcome \* what became of the load's promise

loadingVars ==
  <<requested, loadedModules, linked, loadRoot, loading, visited, pendingModules, loadJobs, loadOutcome>>

LoadingInit ==
  /\ requested \in RequestGraphs
  /\ loadedModules = [m \in ModuleNames |-> {}]
  /\ linked = {}
  /\ loadRoot \in [Loads -> ModuleNames]
  /\ loading = [l \in Loads |-> FALSE]
  /\ visited = [l \in Loads |-> {}]
  /\ pendingModules = [l \in Loads |-> 0]
  /\ loadJobs = [l \in Loads |-> {}]
  /\ loadOutcome = [l \in Loads |-> "none"]

(* The modules inner_load comes to from m: m itself, and through entries of *)
(* loaded_modules, those that this load has not visited and that are not    *)
(* linked yet.                                                              *)
Visits(l, m, entries) ==
  LET fresh == ModuleNames \ (visited[l] \cup linked)
      IsClosed(S) == /\ {m} \cap fresh \subseteq S
                     /\ \A s \in S : requested[s] \cap entries[s] \cap fresh \subseteq S
  IN {x \in fresh : \A S \in SUBSET fresh : IsClosed(S) => x \in S}

(* inner_load of m, whole: m was one of the pending modules, so is each that *)
(* the modules it comes to request; those whose entry is there are dealt    *)
(* with in the same call, for the others the loader gets a job.             *)
InnerLoad(l, m, entries, before, outstanding) ==
  LET visits == Visits(l, m, entries)
      jobs == {job \in visits \X ModuleNames :
                 job[2] \in requested[job[1]] \ entries[job[1]]}
      left == before - 1 + Cardinality(jobs)
  IN
  /\ visited' = [visited EXCEPT ![l] = @ \cup visits]
  /\ loadJobs' = [loadJobs EXCEPT ![l] = outstanding \cup jobs]
  /\ pendingModules' = [pendingModules EXCEPT ![l] = left]
  /\ loading' = [loading EXCEPT ![l] = left # 0]
  /\ loadOutcome' = [loadOutcome EXCEPT ![l] = IF left = 0 THEN "resolved" ELSE "pending"]

(* Module::load.                                                            *)
Load(l) ==
  /\ loadOutcome[l] = "none"
  /\ InnerLoad(l, loadRoot[l], loadedModules, 1, {})
  /\ UNCHANGED <<requested, loadedModules, linked, loadRoot>>

(* The loader answered a dynamic import of the load's root from src.        *)
ContinueDynImport(l, src) ==
  LET entries == [loadedModules EXCEPT ![src] = @ \cup {loadRoot[l]}] IN
  /\ loadOutcome[l] = "none"
  /\ loadedModules' = entries
  /\ InnerLoad(l, loadRoot[l], entries, 1, {})
  /\ UNCHANGED <<requested, linked, loadRoot>>

\* Mutant: the entry is not added to loaded_modules.
FinishLoadingUnrecorded(l, src, m) ==
  /\ <<src, m>> \in loadJobs[l]
  /\ UNCHANGED loadedModules
  /\ IF loading[l]
     THEN InnerLoad(l, m, loadedModules, pendingModules[l], loadJobs[l] \ {<<src, m>>})
     ELSE /\ loadJobs' = [loadJobs EXCEPT ![l] = @ \ {<<src, m>>}]
          /\ UNCHANGED <<loading, visited, pendingModules, loadOutcome>>
  /\ UNCHANGED <<requested, linked, loadRoot>>

(* finish_loading_imported_module_completion, with a module.                *)
FinishLoading(l, src, m) ==
  LET entries == [loadedModules EXCEPT ![src] = @ \cup {m}] IN
  /\ <<src, m>> \in loadJobs[l]
  /\ loadedModules' = entries
  /\ IF loading[l]
     THEN InnerLoad(l, m, entries, pendingModules[l], loadJobs[l] \ {<<src, m>>})
     ELSE /\ loadJobs' = [loadJobs EXCEPT ![l] = @ \ {<<src, m>>}]
          /\ UNCHANGED <<loading, visited, pendingModules, loadOutcome>>
  /\ UNCHANGED <<requested, linked, loadRoot>>

\* Mutant: the promise is not rejected.
FailLoadingSilently(l, src, m) ==
  /\ <<src, m>> \in loadJobs[l]
  /\ loadJobs' = [loadJobs EXCEPT ![l] = @ \ {<<src, m>>}]
  /\ loading' = [loading EXCEPT ![l] = FALSE]
  /\ UNCHANGED <<requested, loadedModules, linked, loadRoot, visited, pendingModules, loadOutcome>>

(* The same with an error.                                                  *)
FailLoading(l, src, m) ==
  /\ <<src, m>> \in loadJobs[l]
  /\ loadJobs' = [loadJobs EXCEPT ![l] = @ \ {<<src, m>>}]
  /\ loading' = [loading EXCEPT ![l] = FALSE]
  /\ loadOutcome' = [loadOutcome EXCEPT ![l] = IF loading[l] THEN "rejected" ELSE @]
  /\ UNCHANGED <<requested, loadedModules, linked, loadRoot, visited, pendingModules>>

(* A module links once its load is resolved (load_link_evaluate, and        *)
(* link_evaluate of a dynamic import): with all the modules it reaches.     *)
Reachable(m) ==
  {x \in ModuleNames : \A S \in SUBSET ModuleNames :
     m \in S /\ (\A s \in S : requested[s] \subseteq S) => x \in S}

LinkLoaded(l) ==
  /\ loadOutcome[l] = "resolved"
  /\ loadRoot[l] \notin linked
  /\ linked' = linked \cup Reachable(loadRoot[l])
  /\ UNCHANGED <<requested, loadedModules, loadRoot, loading, visited, pendingModules, loadJobs, loadOutcome>>

Answered(l) == \E src, m \in ModuleNames : FinishLoading(l, src, m) \/ FailLoading(l, src, m)

LoadingNext ==
  \E l \in Loads :
    \/ Load(l) \/ LinkLoaded(l) \/ Answered(l)
    \/ \E src \in ModuleNames : ContinueDynImport(l, src)

LoadingSpec == LoadingInit /\ [][LoadingNext]_loadingVars

(* The executor polls the loader's jobs, and the loader answers.            *)
LoadingFairness == \A l \in Loads : WF_loadingVars(Answered(l))

----------------------------------------------------------------------------
LoadingTypeOK ==
  /\ requested \in [ModuleNames -> SUBSET ModuleNames]
  /\ loadedModules \in [ModuleNames -> SUBSET ModuleNames]
  /\ linked \subseteq ModuleNames
  /\ loadRoot \in [Loads -> ModuleNames]
  /\ loading \in [Loads -> BOOLEAN]
  /\ visited \in [Loads -> SUBSET ModuleNames]
  /\ pendingModules \in [Loads -> Nat]
  /\ loadJobs \in [Loads -> SUBSET (ModuleNames \X ModuleNames)]
  /\ loadOutcome \in [Loads -> {"none", "pending", "resolved", "rejected"}]

(* When a load's promise is fulfilled, and from then on, every request of   *)
(* every module its root reaches has its entry, whatever other loads of the *)
(* same modules were doing or failing at meanwhile; so it is for modules    *)
(* that are linked.  This is what link relies on.                           *)
LoadedIsComplete ==
  \A m \in ModuleNames :
    m \in linked \/ (\E l \in Loads : loadOutcome[l] = "resolved" /\ loadRoot[l] = m)
      => \A s \in Reachable(m) : requested[s] \subseteq loadedModules[s]

(* A load waits for exactly the answers that are outstanding, and not       *)
(* longer: while its promise is pending some answer is.                             *)
PendingAnswers ==
  \A l \in Loads :
    /\ loading[l] => pendingModules[l] = Cardinality(loadJobs[l]) /\ pendingModules[l] > 0
    /\ loading[l] <=> loadOutcome[l] = "pending"

(* Every load that was started comes to an end.                             *)
LoadsSettle == []<>(\A l \in Loads : loadOutcome[l] # "pending")
============================================================================
