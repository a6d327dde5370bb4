------------------------------ MODULE RelayRpc ------------------------------
(***************************************************************************)
(* What relaying a tool call to the in-session agent promises, without the *)
(* drive, its files or the agent's loop: a call that gets a reply has been *)
(* handled by the agent; one that gets an error may have been, or may yet  *)
(* be.  The outcome of a call never changes.  DirRpc implements it.        *)
(***************************************************************************)
EXTENDS Integers

CONSTANT Calls  \* relayed tool calls

VARIABLES
  outcome,      \* what the caller of each has been told
  sent,         \* the calls that have been handed to the agent
  runs          \* how many times the agent has handled each

vars == <<outcome, sent, runs>>

Init ==
  /\ outcome = [c \in Calls |-> "none"]
  /\ sent = {}
  /\ runs = [c \in Calls |-> 0]

Send(c) ==
  /\ outcome[c] = "none"
  /\ sent' = sent \cup {c}
  /\ UNCHANGED <<outcome, runs>>

Handle(c) ==
  /\ c \in sent
  /\ runs' = [runs EXCEPT ![c] = @ + 1]
  /\ UNCHANGED <<outcome, sent>>

Reply(c) ==
  /\ runs[c] > 0
  /\ outcome[c] = "none"
  /\ outcome' = [outcome EXCEPT ![c] = "reply"]
  /\ UNCHANGED <<sent, runs>>

Fail(c) ==
  /\ outcome[c] = "none"
  /\ outcome' = [outcome EXCEPT ![c] = "error"]
  /\ UNCHANGED <<sent, runs>>

Next == \E c \in Calls : Send(c) \/ Handle(c) \/ Reply(c) \/ Fail(c)

Spec == Init /\ [][Next]_vars
=============================================================================
