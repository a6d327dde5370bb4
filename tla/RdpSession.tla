----------------------------- MODULE RdpSession -----------------------------
(***************************************************************************)
(* The controller's RDP session (rdpSession in controller_linux.go): one   *)
(* headless display, one xfreerdp client at a time that is opened on first *)
(* use and reopened after it has exited, and the tool calls and the agent  *)
(* bootstrap (controller_agent_linux.go) that share them under s.mu.       *)
(*                                                                         *)
(* One action per step another goroutine, the client process or the        *)
(* operating system can come in between: taking s.mu, one xdotool run, one *)
(* poll that ends.  A wait that ends in an error stands for its deadline   *)
(* and for the cancelled context of the call alike.                        *)
(***************************************************************************)
EXTENDS Integers, Sequences, FiniteSets

CONSTANTS
  Calls,        \* invocations of tools
  Kinds,        \* what these calls may do: a subset of Kind
  MaxClients,   \* bound: how many times xfreerdp is started
  MaxSteps,     \* bound: xdotool runs for the text of a Type or a Scroll
  HasAgent,     \* not -no-agent: there is an agentProxy
  Boot, Nobody  \* the bootstrap goroutine; no holder of s.mu

(* "Agent" is any tool that routeTool relays to the in-session agent.      *)
Kind == {"Click", "Type", "Move", "Drag", "Scroll", "Shortcut", "Snapshot", "Agent"}

ASSUME CallsAssumption  == Boot \notin Calls /\ Nobody \notin Calls /\ Boot # Nobody
ASSUME KindsAssumption  == Kinds \subseteq Kind
ASSUME BoundsAssumption == MaxClients \in Nat \ {0} /\ MaxSteps \in Nat
ASSUME AgentAssumption  == HasAgent \in BOOLEAN

VARIABLES
  mu,           \* who holds rdpSession.mu
  pc,           \* where each call is
  kind,         \* what each call does
  relaying,     \* the call has reached agentProxy.call
  todo,         \* the xdotool runs the call, or its wake, still has to do
  failed,       \* the call answers with an error
  xvfb,         \* rdpSession.xvfb # nil
  client,       \* rdpSession.client: the number of the client, 0 for nil
  proc,         \* each xfreerdp process; running() is FALSE once it is reaped
  connected,    \* rdpSession.connected
  boot,         \* the bootstrap, and agentProxy.up
  bootTodo,     \* the keystrokes of the Run dialog it still has to send
  life,         \* the controller process
  button,       \* the left mouse button of the display
  last,         \* who sent the last input to the desktop (history)
  deadAtLock    \* clients known to be gone when s.mu was taken (history)

vars == <<mu, pc, kind, relaying, todo, failed, xvfb, client, proc, connected,
          boot, bootTodo, life, button, last, deadAtLock>>
call    == <<pc, kind, relaying, todo, failed>>
session == <<xvfb, client, proc, connected>>
agent   == <<boot, bootTodo>>
desktop == <<button, last>>

Clients == 1..MaxClients

Runs(input, n) == [i \in 1..n |-> input]
Optional(inputs) == {<<>>, inputs}
Some(input) == {Runs(input, n) : n \in 0..MaxSteps}

(* The inputs of each tool, in order: its arguments choose among these.    *)
ClickInputs    == {<<"click">>}
TypeInputs     == {f \o c \o t \o e : f \in Optional(<<"focus">>),
                     c \in Optional(Runs("clear", 2)),
                     t \in Some("text"), e \in Optional(<<"enter">>)}
MoveInputs     == {<<"glide">>}
DragInputs     == {p \o <<"down", "glide", "up">> : p \in Optional(<<"place">>)}
ScrollInputs   == {a \o w : a \in Optional(<<"aim">>), w \in Some("wheel")}
ShortcutInputs == {<<"keys">>}
SnapshotInputs == {<<"capture">>}

Programs(k) ==
  CASE k = "Click"    -> ClickInputs
    [] k = "Type"     -> TypeInputs
    [] k = "Move"     -> MoveInputs
    [] k = "Drag"     -> DragInputs
    [] k = "Scroll"   -> ScrollInputs
    [] k = "Shortcut" -> ShortcutInputs
    [] k = "Snapshot" -> SnapshotInputs
    [] k = "Agent"    -> {<<>>}

(* Inputs whose error the handler drops.                                   *)
Dropped == {"clear", "enter", "aim", "wheel", "wakeClick", "wakeEnter"}
WakeKeys == <<"wakeClick", "wakeEnter">>
BootKeys == <<"run", "launch", "return">>
Input == {"click", "focus", "text", "glide", "place", "down", "up", "keys",
          "capture"} \cup Dropped

PC == {"idle", "locking", "ensure", "display", "connecting", "logon", "check",
       "killing", "settling", "waking", "acting", "midway", "leaving", "after",
       "awaiting", "calling", "done"}
(* Where a call holds s.mu.                                                *)
Critical == {"ensure", "display", "connecting", "logon", "check", "killing",
             "settling", "waking", "acting", "midway", "leaving"}

Gone(n) == proc[n] = "reaped"
Live    == {n \in Clients : proc[n] \in {"logon", "mapped", "exited"}}
Ready   == boot = "up"

TypeOK ==
  /\ mu \in Calls \cup {Boot, Nobody}
  /\ pc \in [Calls -> PC]
  /\ kind \in [Calls -> Kinds]
  /\ relaying \in [Calls -> BOOLEAN]
  /\ todo \in [Calls -> Seq(Input)]
  /\ failed \in [Calls -> BOOLEAN]
  /\ xvfb \in BOOLEAN
  /\ client \in 0..MaxClients
  /\ proc \in [Clients -> {"none", "logon", "mapped", "exited", "reaped"}]
  /\ connected \in BOOLEAN
  /\ boot \in {"off", "due", "typing", "polling", "up", "failed"}
  /\ bootTodo \in Seq({"run", "launch", "return"})
  /\ life \in {"on", "ending", "stopped"}
  /\ button \in {"up", "down", "stuck"}
  /\ last \in Calls \cup {Boot, Nobody}
  /\ deadAtLock \subseteq Clients

Init ==
  /\ mu = Nobody
  /\ pc = [c \in Calls |-> "idle"]
  /\ kind \in [Calls -> Kinds]
  /\ relaying = [c \in Calls |-> FALSE]
  /\ todo = [c \in Calls |-> <<>>]
  /\ failed = [c \in Calls |-> FALSE]
  /\ xvfb = FALSE
  /\ client = 0
  /\ proc = [n \in Clients |-> "none"]
  /\ connected = FALSE
  /\ boot = "off"
  /\ bootTodo = <<>>
  /\ life = "on"
  /\ button = "up"
  /\ last = Nobody
  /\ deadAtLock = {}

At(c, where)       == pc[c] = where
Goto(c, to)        == pc' = [pc EXCEPT ![c] = to]
Leave(c, from, to) == At(c, from) /\ Goto(c, to)
Fail(c)            == failed' = [failed EXCEPT ![c] = TRUE]
-----------------------------------------------------------------------------
(* A tool call arrives.  Without a proxy a relayed tool is refused.        *)
Call(c) ==
  /\ life = "on"
  /\ IF kind[c] = "Agent" /\ ~HasAgent
       THEN Leave(c, "idle", "done") /\ Fail(c) /\ UNCHANGED relaying
       ELSE /\ Leave(c, "idle", "locking")
            /\ relaying' = [relaying EXCEPT ![c] = kind[c] = "Agent"]
            /\ UNCHANGED failed
  /\ UNCHANGED <<mu, kind, todo, session, agent, life, desktop, deadAtLock>>

(* Mutant: the call does not take s.mu.                                    *)
LockNothing(c) ==
  /\ Leave(c, "locking", "ensure")
  /\ mu' = c
  /\ deadAtLock' = {n \in Clients : Gone(n)}
  /\ UNCHANGED <<kind, relaying, todo, failed, session, agent, life, desktop>>

Lock(c) ==
  /\ mu = Nobody
  /\ Leave(c, "locking", "ensure")
  /\ mu' = c
  /\ deadAtLock' = {n \in Clients : Gone(n)}
  /\ UNCHANGED <<kind, relaying, todo, failed, session, agent, life, desktop>>

(* The session is up: the tool's own inputs, or for a relayed call none.   *)
Act(c) ==
  \E p \in IF relaying[c] THEN {<<>>} ELSE Programs(kind[c]) :
    /\ Goto(c, IF p = <<>> THEN "leaving" ELSE "acting")
    /\ todo' = [todo EXCEPT ![c] = p]

(* Mutant: a client that was started once counts as running.               *)
RunningOnce == client # 0
(* Mutant: asks the display for the window instead of the process.         *)
RunningWindow == client # 0 /\ proc[client] = "mapped"
(* s.client # nil and rdpClient.running.                                   *)
Running == client # 0 /\ ~Gone(client)

Ensure(c) ==
  /\ At(c, "ensure")
  /\ IF Running THEN Act(c)
     ELSE Goto(c, IF xvfb THEN "connecting" ELSE "display") /\ UNCHANGED todo
  /\ UNCHANGED <<mu, kind, relaying, failed, session, agent, life, desktop, deadAtLock>>

(* startDisplay: a display that does not come up is killed.                *)
StartDisplay(c) ==
  /\ At(c, "display")
  /\ \/ Goto(c, "connecting") /\ xvfb' = TRUE /\ UNCHANGED failed
     \/ Goto(c, "leaving") /\ Fail(c) /\ UNCHANGED xvfb
  /\ UNCHANGED <<mu, kind, relaying, todo, client, proc, connected, agent, life,
                 desktop, deadAtLock>>

StartFails(c) ==
  /\ Leave(c, "connecting", "leaving")
  /\ Fail(c)
  /\ UNCHANGED <<mu, kind, relaying, todo, session, agent, life, desktop, deadAtLock>>

Started == Cardinality({n \in Clients : proc[n] # "none"})
StartClient(c) ==
  LET n == Started + 1 IN
  /\ Started < MaxClients
  /\ Leave(c, "connecting", "logon")
  /\ client' = n
  /\ proc' = [proc EXCEPT ![n] = "logon"]
  /\ UNCHANGED <<mu, kind, relaying, todo, failed, xvfb, connected, agent, life,
                 desktop, deadAtLock>>

(* The poll ends when the client has exited or its window is there.        *)
LogonEnds(c) ==
  /\ Leave(c, "logon", "check")
  /\ proc[client] \in {"mapped", "reaped"}
  /\ UNCHANGED <<mu, kind, relaying, todo, failed, session, agent, life, desktop, deadAtLock>>

(* Mutant: a logon that is given up is left running.                       *)
LogonTimeoutOnly(c) ==
  /\ Leave(c, "logon", "leaving")
  /\ Fail(c)
  /\ UNCHANGED <<mu, kind, relaying, todo, session, agent, life, desktop, deadAtLock>>
LogonTimeout(c) ==
  /\ Leave(c, "logon", "killing")
  /\ Fail(c)
  /\ UNCHANGED <<mu, kind, relaying, todo, session, agent, life, desktop, deadAtLock>>

(* Mutant: the lock screen is woken on every connect.                      *)
AfterLogonAlways == "waking"
(* A reconnect lands on a desktop in use, where wake would click.          *)
AfterLogon == IF connected THEN "settling" ELSE "waking"

Check(c) ==
  /\ At(c, "check")
  /\ IF Gone(client)
       THEN Goto(c, "killing") /\ Fail(c) /\ UNCHANGED todo
       ELSE /\ Goto(c, AfterLogon)
            /\ todo' = [todo EXCEPT ![c] = IF connected THEN <<>> ELSE WakeKeys]
            /\ UNCHANGED failed
  /\ UNCHANGED <<mu, kind, relaying, session, agent, life, desktop, deadAtLock>>

(* Mutant: the wait for the client without the kill.                       *)
KillNothing(c) == At(c, "killing") /\ FALSE
(* kill: only a client that runs is killed, and then waited for.           *)
Kill(c) ==
  /\ At(c, "killing")
  /\ proc[client] \in {"logon", "mapped"}
  /\ proc' = [proc EXCEPT ![client] = "exited"]
  /\ UNCHANGED <<mu, call, xvfb, client, connected, agent, life, desktop, deadAtLock>>

Killed(c) ==
  /\ Leave(c, "killing", "leaving")
  /\ Gone(client)
  /\ UNCHANGED <<mu, kind, relaying, todo, failed, session, agent, life, desktop, deadAtLock>>

Settle(c) ==
  /\ At(c, "settling")
  /\ Act(c)
  /\ UNCHANGED <<mu, kind, relaying, failed, session, agent, life, desktop, deadAtLock>>

(* wake, a key at a time; its errors are dropped.  After the last one the  *)
(* session is connected and onFirstConnect starts the bootstrap.           *)
Wake(c) ==
  /\ At(c, "waking")
  /\ IF Len(todo[c]) > 1
       THEN /\ todo' = [todo EXCEPT ![c] = Tail(@)]
            /\ UNCHANGED <<pc, connected, boot>>
       ELSE /\ Act(c)
            /\ connected' = TRUE
            /\ boot' = IF HasAgent THEN "due" ELSE boot
  /\ UNCHANGED <<mu, kind, relaying, failed, xvfb, client, proc, bootTodo, life,
                 desktop, deadAtLock>>
-----------------------------------------------------------------------------
(* Mutant: a drag whose move fails does not release the button.            *)
AfterErrorReturn(input, rest) == IF input \in Dropped THEN rest ELSE <<>>
(* What is still sent after a failed input: a drag releases its button.    *)
AfterError(input, rest) == IF input \in Dropped \cup {"glide"} THEN rest ELSE <<>>

Button(input, ok) ==
  IF input = "down" /\ ok THEN "down"
  ELSE IF input = "up" THEN (IF ok THEN "up" ELSE "stuck")
  ELSE button

(* One xdotool run, or the capture.  It may fail, whatever the client does *)
(* meanwhile: the display outlives the client.                             *)
Send(c) ==
  LET input == Head(todo[c])
      rest  == Tail(todo[c])
  IN
  /\ pc[c] \in {"acting", "midway"}
  /\ last' = c
  /\ \E ok \in BOOLEAN :
       /\ button' = Button(input, ok)
       /\ todo' = [todo EXCEPT ![c] = IF ok THEN rest ELSE AfterError(input, rest)]
       /\ failed' = [failed EXCEPT ![c] = @ \/ (~ok /\ input \notin Dropped)]
       /\ Goto(c, IF todo'[c] = <<>> THEN "leaving" ELSE "midway")
  /\ UNCHANGED <<mu, kind, relaying, session, agent, life, deadAtLock>>

Unlock(c) ==
  /\ Leave(c, "leaving", "after")
  /\ mu' = Nobody
  /\ deadAtLock' = {}
  /\ UNCHANGED <<kind, relaying, todo, failed, session, agent, life, desktop>>

(* What follows the critical section: the relay of the call, the element   *)
(* list a Snapshot asks a ready agent for, or the answer.  A Snapshot does *)
(* not report what went wrong with its list.                               *)
Answer(c, err) ==
  /\ Goto(c, "done")
  /\ failed' = [failed EXCEPT ![c] = err /\ ~(kind[c] = "Snapshot" /\ relaying[c])]
  /\ UNCHANGED relaying

Continue(c) ==
  /\ At(c, "after")
  /\ IF failed[c] THEN Answer(c, TRUE)
     ELSE IF relaying[c] THEN Goto(c, "awaiting") /\ UNCHANGED <<relaying, failed>>
     ELSE IF kind[c] = "Snapshot" /\ Ready
       THEN /\ Goto(c, "locking")
            /\ relaying' = [relaying EXCEPT ![c] = TRUE]
            /\ UNCHANGED failed
     ELSE Answer(c, FALSE)
  /\ UNCHANGED <<mu, kind, todo, session, agent, life, desktop, deadAtLock>>

(* The wait of at most bootstrapWait for the agent.                        *)
Await(c) ==
  /\ Ready
  /\ Leave(c, "awaiting", "calling")
  /\ UNCHANGED <<mu, kind, relaying, todo, failed, session, agent, life, desktop, deadAtLock>>

AwaitTimeout(c) ==
  /\ At(c, "awaiting")
  /\ Answer(c, TRUE)
  /\ UNCHANGED <<mu, kind, todo, session, agent, life, desktop, deadAtLock>>

(* The exchange over the redirected drive, or its timeout.                 *)
Reply(c) ==
  /\ At(c, "calling")
  /\ \E err \in BOOLEAN : Answer(c, err)
  /\ UNCHANGED <<mu, kind, todo, session, agent, life, desktop, deadAtLock>>
-----------------------------------------------------------------------------
(* doBootstrap: the agent is staged on the redirected drive, or is not.    *)
Stage ==
  /\ boot = "due"
  /\ \/ boot' = "typing" /\ bootTodo' = BootKeys
     \/ boot' = "failed" /\ UNCHANGED bootTodo
  /\ UNCHANGED <<mu, call, session, life, desktop, deadAtLock>>

(* Each key under a critical section of its own; errors are dropped.       *)
BootKey ==
  /\ boot = "typing"
  /\ mu = Nobody
  /\ last' = Boot
  /\ bootTodo' = Tail(bootTodo)
  /\ boot' = IF bootTodo' = <<>> THEN "polling" ELSE boot
  /\ UNCHANGED <<mu, call, session, life, button, deadAtLock>>

(* The agent reports ready, or does not in time; once the controller ends, *)
(* the sleeps between the keys and the poll end too.                       *)
BootEnds ==
  /\ \/ boot = "polling" /\ boot' \in {"up", "failed"}
     \/ /\ boot = "typing" /\ Len(bootTodo) < Len(BootKeys)
        /\ life # "on"
        /\ boot' = "failed"
  /\ bootTodo' = <<>>
  /\ UNCHANGED <<mu, call, session, life, desktop, deadAtLock>>
-----------------------------------------------------------------------------
(* The client maps its window, exits, and is reaped by its goroutine.      *)
MapWindow(n) ==
  /\ proc[n] = "logon"
  /\ proc' = [proc EXCEPT ![n] = "mapped"]
  /\ UNCHANGED <<mu, call, xvfb, client, connected, agent, life, desktop, deadAtLock>>

Exit(n) ==
  /\ proc[n] \in {"logon", "mapped"}
  /\ proc' = [proc EXCEPT ![n] = "exited"]
  /\ UNCHANGED <<mu, call, xvfb, client, connected, agent, life, desktop, deadAtLock>>

Reap(n) ==
  /\ proc[n] = "exited"
  /\ proc' = [proc EXCEPT ![n] = "reaped"]
  /\ UNCHANGED <<mu, call, xvfb, client, connected, agent, life, desktop, deadAtLock>>

(* A signal or the end of stdin: no new call; the server's Run returns     *)
(* when the calls in flight have, and the deferred stop follows.           *)
Shutdown ==
  /\ life = "on"
  /\ life' = "ending"
  /\ UNCHANGED <<mu, call, session, agent, desktop, deadAtLock>>

(* Mutant: stop on the signal, before the calls in flight have returned.   *)
StopAtOnce ==
  /\ life = "ending"
  /\ proc' = IF client # 0 THEN [proc EXCEPT ![client] = "reaped"] ELSE proc
  /\ xvfb' = FALSE
  /\ life' = "stopped"
  /\ UNCHANGED <<mu, call, client, connected, agent, desktop, deadAtLock>>
Stop ==
  /\ life = "ending"
  /\ \A c \in Calls : pc[c] \in {"idle", "done"}
  /\ proc' = IF client # 0 THEN [proc EXCEPT ![client] = "reaped"] ELSE proc
  /\ xvfb' = FALSE
  /\ life' = "stopped"
  /\ UNCHANGED <<mu, call, client, connected, agent, desktop, deadAtLock>>

(* Nothing is left to do.                                                  *)
Finished ==
  /\ life = "stopped"
  /\ boot \in {"off", "up", "failed"}
  /\ UNCHANGED vars

Connect(c) ==
  \/ StartDisplay(c) \/ StartFails(c) \/ StartClient(c) \/ LogonEnds(c)
  \/ LogonTimeout(c) \/ Check(c) \/ Kill(c) \/ Killed(c)
  \/ Settle(c) \/ Wake(c)
Step(c) ==
  \/ Lock(c) \/ Ensure(c) \/ Connect(c) \/ Send(c) \/ Unlock(c)
  \/ Continue(c) \/ Await(c) \/ AwaitTimeout(c) \/ Reply(c)
Bootstrap == Stage \/ BootKey \/ BootEnds
Environment(n) == MapWindow(n) \/ Exit(n) \/ Reap(n)

Next ==
  \/ \E c \in Calls : Call(c) \/ Step(c)
  \/ Bootstrap
  \/ \E n \in Clients : Environment(n)
  \/ Shutdown \/ Stop \/ Finished

Spec == Init /\ [][Next]_vars

(* The scheduler runs what can run, the deadlines of the polls pass, and a *)
(* process that has ended is reaped.  No client has to log on or to exit.  *)
Fairness ==
  /\ \A c \in Calls : WF_vars(Step(c))
  /\ \A n \in Clients : WF_vars(Reap(n))

FairSpec == Spec /\ Fairness
-----------------------------------------------------------------------------
(* Windows gives a user one session: whatever fails on the way, no client  *)
(* but the current one has a process (ensureConnected, connect, kill;      *)
(* controller_linux.go:257-261), so the controller never takes the session *)
(* from itself.                                                            *)
OneLiveClient == Live \subseteq {client}

(* No input goes into nothing: a client known to have exited when the tool *)
(* took s.mu has been replaced by the time it acts                         *)
(* (controller_linux.go:261-263).                                          *)
NoInputToDeadSession ==
  \A c \in Calls : pc[c] \in {"acting", "midway"} => client \notin deadAtLock \cup {0}

(* A logon that did not go through leaves no client behind that a later    *)
(* call would take for the session.                                        *)
NoHalfOpenSession == mu = Nobody /\ client # 0 => proc[client] # "logon"

(* wake's click and Enter only ever meet a desktop no tool has used: they  *)
(* would act on whatever it is showing (controller_linux.go:281-283).      *)
WakeOnlyUnused == \A c \in Calls : pc[c] = "waking" => last = Nobody

(* A drag that fails does not leave the button held                        *)
(* (controller_linux.go:764-767) unless the release itself failed.         *)
ButtonReleased == mu = Nobody => button # "down"

(* The inputs of one tool reach the desktop uninterrupted: from its first  *)
(* to its last, neither another tool nor the bootstrap sends any           *)
(* (controller_linux.go:251).                                              *)
InputsUninterrupted == \A c \in Calls : pc[c] = "midway" => last = c

(* When the controller has ended, no client runs on with the session.      *)
NothingLeftBehind == life = "stopped" => Live = {}

(* Every call is answered, whatever the client and the agent do.           *)
EveryCallReturns == \A c \in Calls : pc[c] = "locking" ~> pc[c] = "done"

(* "desktop input/capture is one physical device: serialise it"            *)
(* (controller_linux.go:251): what the bootstrap types goes to the Run     *)
(* dialog it has opened, with no other input in between.                   *)
RunDialogUndisturbed ==
  boot = "typing" /\ Len(bootTodo) < Len(BootKeys) => last = Boot
=============================================================================
