----------------------------- MODULE WaiterLists -----------------------------
(****************************************************************************)
(* What Atomics promises of its waiter lists: ECMAScript's AddWaiter,       *)
(* RemoveWaiters + NotifyWaiter and the timeout of a waiter, each as one    *)
(* step on a first-in first-out list.  Notifying takes the oldest waiters,  *)
(* as many as asked for or as there are, and returns their number; every    *)
(* waiter that leaves a list has one outcome.                               *)
(****************************************************************************)
EXTENDS Integers, Sequences, SequencesExt

CONSTANTS Waiters, Agents, Addr, Counts

VARIABLES
  list,       \* [Addr -> Seq(Waiters)]
  status,     \* "out" of every list, "waiting" in one, or the outcome it had
  returned    \* what an agent's last notify returned

absVars == <<list, status, returned>>

Init ==
  /\ list = [x \in Addr |-> <<>>]
  /\ status = [w \in Waiters |-> "out"]
  /\ returned = [a \in Agents |-> 0]

Add(w, x) ==
  /\ status[w] = "out"
  /\ list' = [list EXCEPT ![x] = Append(@, w)]
  /\ status' = [status EXCEPT ![w] = "waiting"]
  /\ UNCHANGED returned

Notify(a, x, n) ==
  LET taken == IF n < Len(list[x]) THEN n ELSE Len(list[x])
      oldest == ToSet(SubSeq(list[x], 1, taken))
  IN /\ list' = [list EXCEPT ![x] = SubSeq(@, taken + 1, Len(@))]
     /\ status' = [w \in Waiters |-> IF w \in oldest THEN "ok" ELSE status[w]]
     /\ returned' = [returned EXCEPT ![a] = taken]

TimeOut(w) ==
  /\ status[w] = "waiting"
  /\ status' = [status EXCEPT ![w] = "timed-out"]
  /\ \E x \in Addr : \E i \in 1..Len(list[x]) :
       list[x][i] = w /\ list' = [list EXCEPT ![x] = RemoveAt(@, i)]
  /\ UNCHANGED returned

\* The agent of a synchronous waiter has its outcome and starts anew.
Reset(w) ==
  /\ w \in Agents
  /\ status[w] \in {"ok", "timed-out"}
  /\ status' = [status EXCEPT ![w] = "out"]
  /\ UNCHANGED <<list, returned>>

Next ==
  \/ \E w \in Waiters, x \in Addr : Add(w, x)
  \/ \E a \in Agents, x \in Addr, n \in Counts : Notify(a, x, n)
  \/ \E w \in Waiters : TimeOut(w) \/ Reset(w)

Spec == Init /\ [][Next]_absVars

==============================================================================
