------------------------- MODULE PromiseCombinators -------------------------
(****************************************************************************)
(* One call of Promise.all, allSettled, any, race, allKeyed or              *)
(* allSettledKeyed (core/engine/src/builtins/promise/mod.rs).               *)
(*                                                                          *)
(* next, the constructor's resolve and the `then` of an element are         *)
(* JavaScript: phase says which of them runs.  While it does, and at any    *)
(* time afterwards, the functions handed to earlier elements may be called, *)
(* those of the current one too, and more than once.                        *)
(****************************************************************************)
EXTENDS Integers, Sequences, FiniteSets

CONSTANTS
  Combinators,   \* which of the six are called
  Value,         \* what elements answer with
  NoAnswer,
  MaxElements,   \* bound: elements of the iterable or keyed object
  MaxCalls       \* bound: calls of an element's functions

Status == {"fulfilled", "rejected"}
Answer == Status \X Value

ASSUME CombinatorAssumption ==
  /\ Combinators \subseteq {"all", "allSettled", "any", "race", "allKeyed", "allSettledKeyed"}
  /\ NoAnswer \notin Answer
  /\ MaxElements \in Nat /\ MaxCalls \in Nat

VARIABLES
  combinator,  \* which one this is
  phase,       \* where the loop is
  elements,    \* values, or errors: one slot for every element so far
  handed,      \* how many elements were given functions
  alreadyCalled,  \* the elements whose already_called is set
  remaining,   \* remaining_elements_count
  settled,     \* what the capability was settled with, and by what
  answers      \* history: everything an element's functions were called with

combinatorVars == <<combinator, phase, elements, handed, alreadyCalled, remaining, settled, answers>>

(* The answers a combinator collects; the others it passes on at once.      *)
Collects(status) ==
  \/ combinator \in {"all", "allKeyed"} /\ status = "fulfilled"
  \/ combinator \in {"allSettled", "allSettledKeyed"}
  \/ combinator = "any" /\ status = "rejected"

(* How the capability is settled once nothing remains.                      *)
Collected == IF combinator = "any" THEN "rejected" ELSE "fulfilled"

(* The capability's functions: the first call decides.                      *)
Pending == [status |-> "pending", by |-> "nothing", list |-> <<>>]

SettleWith(status, by, list) ==
  settled' = IF settled = Pending THEN [status |-> status, by |-> by, list |-> list] ELSE settled

CombinatorInit ==
  /\ combinator \in Combinators
  /\ phase = "next"
  /\ elements = <<>>
  /\ handed = 0
  /\ alreadyCalled = {}
  /\ remaining = 1
  /\ settled = Pending
  /\ answers = <<>>

NextElement ==
  /\ phase = "next"
  /\ Len(elements) < MaxElements
  /\ elements' = Append(elements, NoAnswer)
  /\ phase' = "resolve"
  /\ UNCHANGED <<combinator, handed, alreadyCalled, remaining, settled, answers>>

(* promise_resolve returned: the functions are made, and then is invoked.   *)
InvokeThen ==
  /\ phase = "resolve"
  /\ handed' = handed + 1
  /\ answers' = Append(answers, <<>>)
  /\ remaining' = remaining + 1
  /\ phase' = "then"
  /\ UNCHANGED <<combinator, elements, alreadyCalled, settled>>

ThenReturned ==
  /\ phase = "then"
  /\ phase' = "next"
  /\ UNCHANGED <<combinator, elements, handed, alreadyCalled, remaining, settled, answers>>

(* The iterator is done: the count the loop held for itself is given up.    *)
EndOfElements ==
  /\ phase = "next"
  /\ phase' = "done"
  /\ remaining' = remaining - 1
  /\ IF combinator # "race" /\ remaining' = 0
     THEN SettleWith(Collected, "count", elements) ELSE UNCHANGED settled
  /\ UNCHANGED <<combinator, elements, handed, alreadyCalled, answers>>

(* Something in the loop throws: an iterator is closed, in JavaScript,      *)
(* unless it was itself that threw, and the capability is rejected.         *)
HasIterator == combinator \notin {"allKeyed", "allSettledKeyed"}

FailLoop ==
  \/ /\ phase \in {"resolve", "then"} /\ HasIterator
     /\ phase' = "close"
     /\ UNCHANGED <<combinator, elements, handed, alreadyCalled, remaining, settled, answers>>
  \/ /\ \/ phase \in {"next", "close"}
        \/ phase \in {"resolve", "then"} /\ ~HasIterator
     /\ phase' = "failed"
     /\ SettleWith("rejected", "error", <<>>)
     /\ UNCHANGED <<combinator, elements, handed, alreadyCalled, remaining, answers>>

\* Mutant: already_called is not looked at.
CallFunctionAgain(i, status, v) ==
  /\ Len(answers[i]) < MaxCalls
  /\ answers' = [answers EXCEPT ![i] = Append(@, <<status, v>>)]
  /\ IF ~Collects(status)
     THEN SettleWith(status, "element", <<<<status, v>>>>) /\ UNCHANGED <<elements, alreadyCalled, remaining>>
     ELSE /\ alreadyCalled' = alreadyCalled \cup {i}
          /\ elements' = [elements EXCEPT ![i] = <<status, v>>]
          /\ remaining' = remaining - 1
          /\ IF remaining' = 0 THEN SettleWith(Collected, "count", elements') ELSE UNCHANGED settled
  /\ UNCHANGED <<combinator, phase, handed>>

(* A function handed to element i is called.                                *)
CallFunction(i, status, v) ==
  /\ Len(answers[i]) < MaxCalls
  /\ answers' = [answers EXCEPT ![i] = Append(@, <<status, v>>)]
  /\ IF ~Collects(status)
     THEN SettleWith(status, "element", <<<<status, v>>>>) /\ UNCHANGED <<elements, alreadyCalled, remaining>>
     ELSE IF i \in alreadyCalled
     THEN UNCHANGED <<elements, alreadyCalled, remaining, settled>>
     ELSE /\ alreadyCalled' = alreadyCalled \cup {i}
          /\ elements' = [elements EXCEPT ![i] = <<status, v>>]
          /\ remaining' = remaining - 1
          /\ IF remaining' = 0 THEN SettleWith(Collected, "count", elements') ELSE UNCHANGED settled
  /\ UNCHANGED <<combinator, phase, handed>>

CombinatorNext ==
  \/ NextElement \/ InvokeThen \/ ThenReturned \/ EndOfElements \/ FailLoop
  \/ \E i \in 1..handed, status \in Status, v \in Value : CallFunction(i, status, v)

CombinatorSpec == CombinatorInit /\ [][CombinatorNext]_combinatorVars

----------------------------------------------------------------------------
CombinatorTypeOK ==
  /\ combinator \in Combinators
  /\ phase \in {"next", "resolve", "then", "close", "done", "failed"}
  /\ handed \in Nat /\ alreadyCalled \subseteq 1..handed
  /\ elements \in Seq(Answer \cup {NoAnswer})
  /\ Len(elements) = handed + (IF phase = "resolve" THEN 1 ELSE 0)
     \/ phase \in {"close", "failed"}
  /\ remaining \in Nat
  /\ settled \in [status : Status \cup {"pending"}, by : {"nothing", "count", "element", "error"},
                 list : Seq(Answer \cup {NoAnswer})]

(* The count is that of the elements whose functions may still be called    *)
(* for the first time, and one more while the loop runs.                    *)
RemainingIsExact ==
  remaining = Cardinality((1..handed) \ alreadyCalled)
              + (IF phase \in {"done"} THEN 0 ELSE 1)

(* The answers among s with one of some statuses, and the first of them.    *)
CollectedIn(s, statuses) == {j \in DOMAIN s : s[j][1] \in statuses}

FirstIn(s, statuses) ==
  IF CollectedIn(s, statuses) = {} THEN NoAnswer
  ELSE s[CHOOSE j \in CollectedIn(s, statuses) : \A k \in CollectedIn(s, statuses) : j <= k]

(* The first answer of element i that its combinator collects.              *)
FirstAnswer(i) == FirstIn(answers[i], {status \in Status : Collects(status)})

(* A result made of the elements' answers is given when, and only when, the *)
(* iteration has ended and every element has answered: in it each element   *)
(* has its place and its first answer, however often and in whatever order  *)
(* elements call back, even from inside the loop; and the last one to answer *)
(* leaves no promise pending.                                               *)
ResultIsComplete ==
  /\ settled.by = "count" =>
       /\ phase = "done"
       /\ settled.list = [i \in 1..handed |-> FirstAnswer(i)]
       /\ NoAnswer \notin {settled.list[i] : i \in 1..handed}
  /\ phase = "done" /\ combinator # "race" /\ settled = Pending =>
       \E i \in 1..handed : FirstAnswer(i) = NoAnswer
============================================================================
