--------------------------- MODULE FutexRefinement ---------------------------
(****************************************************************************)
(* futex.rs implements the waiter lists of ECMAScript.  notify_many removes *)
(* and wakes one waiter at a time, and an asynchronous one can be resolved  *)
(* by its agent while the loop still runs; the abstract Notify is the step  *)
(* that takes the mutex, so a waiter the loop will reach counts as notified *)
(* from then on.                                                            *)
(****************************************************************************)
EXTENDS Futex

Notifying(x) == lock \in Agents /\ pc[lock] = "pop" /\ rec[lock].addr = x

\* How many waiters of x the running notify_many will still remove.
Claimed(x) ==
  LET left == count[lock] - popped[lock]
  IN IF ~ Notifying(x) THEN 0
     ELSE IF left < Len(waiters[x]) THEN left ELSE Len(waiters[x])

IsClaimed(w) ==
  LET x == rec[w].addr
  IN \E i \in 1..Claimed(x) : waiters[x][i] = w

StatusOf(w) ==
  LET inList == Linked(w) /\ ~ IsClaimed(w)
  IN IF w \in Agents
     THEN IF pc[w] \in Linkable THEN IF inList THEN "waiting" ELSE "ok"
          ELSE IF result[w] \in Outcomes THEN result[w] ELSE "out"
     ELSE IF chan[w] = "none" THEN "out"
          ELSE IF chan[w] = "empty" THEN IF inList THEN "waiting" ELSE "ok"
          ELSE chan[w]

\* The variables of WaiterLists, in terms of those of Futex.
AbsList == [x \in Addr |-> SubSeq(waiters[x], Claimed(x) + 1, Len(waiters[x]))]

AbsStatus == [w \in Waiters |-> StatusOf(w)]

AbsReturned ==
  [a \in Agents |->
     IF pc[a] = "pop" THEN popped[a] + Claimed(rec[a].addr) ELSE popped[a]]

Abstract ==
  INSTANCE WaiterLists WITH
    list <- AbsList, status <- AbsStatus, returned <- AbsReturned

\* Every behaviour of wait, waitAsync, notify and the timeout jobs is one of
\* the abstract lists: first in first out, exact counts, one outcome each.
ImplementsWaiterLists == Abstract!Spec

==============================================================================
