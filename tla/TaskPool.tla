------------------------------ MODULE TaskPool ------------------------------
(***************************************************************************)
(* What taskManager (tasks.go) promises, without its mutex, semaphores,    *)
(* contexts or history: a tool call queues for the budget of its category, *)
(* is admitted only while the budget has room, gets one verdict that never *)
(* changes, and leaves with that verdict.  TaskManager implements it.      *)
(***************************************************************************)
EXTENDS Integers, FiniteSets

CONSTANTS
  Calls,        \* tool calls, each of which becomes one task
  Category,     \* what calls contend on
  Limit         \* how many calls of a category are admitted at once

VARIABLES
  phase,        \* where each call is
  category,     \* the category of each call: it never changes
  verdict       \* what its task is reported to have come to

vars == <<phase, category, verdict>>

Phase   == {"new", "queued", "admitted", "gone"}
Verdict == {"completed", "failed", "cancelled"}

Admitted(k) == {c \in Calls : phase[c] = "admitted" /\ category[c] = k}

Init ==
  /\ phase = [c \in Calls |-> "new"]
  /\ category \in [Calls -> Category]
  /\ verdict = [c \in Calls |-> "none"]

Enter(c) ==
  /\ phase[c] = "new"
  /\ phase' = [phase EXCEPT ![c] = "queued"]
  /\ UNCHANGED <<category, verdict>>

Admit(c) ==
  /\ phase[c] = "queued"
  /\ Cardinality(Admitted(category[c])) < Limit[category[c]]
  /\ phase' = [phase EXCEPT ![c] = "admitted"]
  /\ UNCHANGED <<category, verdict>>

(* The one verdict of a call that is in the pool. *)
Decide(c, v) ==
  /\ phase[c] \in {"queued", "admitted"}
  /\ verdict[c] = "none"
  /\ verdict' = [verdict EXCEPT ![c] = v]
  /\ UNCHANGED <<phase, category>>

(* A call that was never admitted leaves failed, or as it was cancelled. *)
Reject(c) ==
  /\ phase[c] = "queued"
  /\ phase' = [phase EXCEPT ![c] = "gone"]
  /\ verdict' = [verdict EXCEPT ![c] = IF @ = "none" THEN "failed" ELSE @]
  /\ UNCHANGED category

Leave(c) ==
  /\ phase[c] = "admitted"
  /\ verdict[c] # "none"
  /\ phase' = [phase EXCEPT ![c] = "gone"]
  /\ UNCHANGED <<category, verdict>>

Next ==
  \E c \in Calls :
    \/ Enter(c)
    \/ Admit(c)
    \/ \E v \in Verdict : Decide(c, v)
    \/ Reject(c)
    \/ Leave(c)

Spec == Init /\ [][Next]_vars

(* The budget: at most Limit calls of a category are inside at once. *)
WithinBudget == \A k \in Category : Cardinality(Admitted(k)) <= Limit[k]
=============================================================================
