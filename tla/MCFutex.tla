------------------------------- MODULE MCFutex -------------------------------
(* Instances of Futex for TLC. *)
EXTENDS FutexRefinement, TLC

\* Threads and asynchronous waiters are interchangeable.
Symmetry == Permutations(Agents) \cup Permutations(Async)

==============================================================================
