----------------------------- MODULE MCAcrossJobs -----------------------------
(****************************************************************************)
(* The parts that go on from one job to the next, side by side for TLC: in   *)
(* each behaviour one of them runs, and the others stand still in one of     *)
(* their initial states.                                                    *)
(****************************************************************************)
EXTENDS MCModuleGraph, AsyncGenerators, ModuleLoading, FinalizationRegistries

(* Graphs to load: cycles, a shared dependency, a module that imports itself. *)
Triangle == (a :> {b, c}) @@ (b :> {c}) @@ (c :> {a})
Chain    == (a :> {b}) @@ (b :> {c}) @@ (c :> {c})
LoadedGraphs == {Triangle, Chain}

VARIABLE part   \* the one that runs

allVars == <<part, vars, generatorVars, loadingVars, registryVars>>

Frozen(p) == part # p

AcrossInit ==
  /\ part \in {"graph", "loading", "generator", "registry"}
  /\ Init /\ LoadingInit /\ AsyncGeneratorInit /\ RegistryInit
  /\ Frozen("graph") => graph = CHOOSE g \in Pair : TRUE
  /\ Frozen("loading") => requested = Chain /\ loadRoot = [l \in Loads |-> a]

AcrossNext ==
  \/ /\ part = "graph" /\ Next
     /\ UNCHANGED <<part, loadingVars, generatorVars, registryVars>>
  \/ /\ part = "loading" /\ LoadingNext
     /\ UNCHANGED <<part, vars, generatorVars, registryVars>>
  \/ /\ part = "generator" /\ AsyncGeneratorNext
     /\ UNCHANGED <<part, vars, loadingVars, registryVars>>
  \/ /\ part = "registry" /\ RegistryNext
     /\ UNCHANGED <<part, vars, loadingVars, generatorVars>>

(* A part that stands still has no step its fairness would call for.         *)
AcrossSpec ==
  /\ AcrossInit /\ [][AcrossNext]_allVars
  /\ LoadingFairness /\ AsyncGeneratorFairness /\ RegistryFairness

(* Every variable of the parts that run here has the values the code's types *)
(* give it (for those of ModuleGraph see StatusesAreExpected).               *)
AcrossTypes == LoadingTypeOK /\ AsyncGeneratorTypeOK /\ RegistryTypeOK
===============================================================================
