-------------------------- MODULE RdpSessionProofs --------------------------
(***************************************************************************)
(* Theorems about RdpSession for every set of calls and of tools, every    *)
(* number of clients and every length of text and wheel.                   *)
(***************************************************************************)
EXTENDS RdpSession, FiniteSetTheorems, SequenceTheorems, TLAPS

Quiet == Seq(Input \ {"down"})
Drags == {<<"place", "down", "glide", "up">>, <<"down", "glide", "up">>}

(* What a call still has to send: a button that goes down is released by   *)
(* the next two inputs.                                                    *)
Releasing == Quiet \cup Drags

LEMMA OneQuiet ==
  ASSUME NEW x \in Input \ {"down"}
  PROVE  <<x>> \in Quiet
BY DEF Quiet

LEMMA OptionalQuiet ==
  ASSUME NEW p \in Quiet
  PROVE  Optional(p) \in SUBSET Quiet
BY DEF Quiet, Optional

LEMMA RunsQuiet ==
  ASSUME NEW x \in Input \ {"down"}, NEW n \in Nat
  PROVE  Runs(x, n) \in Quiet
BY DEF Quiet, Runs

LEMMA SomeQuiet ==
  ASSUME NEW x \in Input \ {"down"}
  PROVE  Some(x) \in SUBSET Quiet
<1> SUFFICES ASSUME NEW p \in Some(x) PROVE p \in Quiet
  OBVIOUS
<1>1. PICK n \in 0..MaxSteps : p = Runs(x, n)
  BY DEF Some
<1>2. n \in Nat
  BY BoundsAssumption
<1>3. QED
  BY <1>1, <1>2, RunsQuiet

LEMMA ConcatQuiet ==
  ASSUME NEW p \in Quiet, NEW q \in Quiet
  PROVE  p \o q \in Quiet
BY ConcatProperties DEF Quiet

LEMMA TypeQuiet == \A p \in TypeInputs : p \in Quiet
<1> SUFFICES ASSUME NEW p \in TypeInputs PROVE p \in Quiet
  OBVIOUS
<1>1. PICK f \in Optional(<<"focus">>), c \in Optional(Runs("clear", 2)),
           t \in Some("text"), e \in Optional(<<"enter">>) : p = f \o c \o t \o e
  BY DEF TypeInputs
<1>2. {"focus", "clear", "text", "enter"} \subseteq Input \ {"down"}
  BY DEF Input, Dropped
<1>3. f \in Quiet /\ c \in Quiet /\ t \in Quiet /\ e \in Quiet
  BY <1>2, OneQuiet, RunsQuiet, OptionalQuiet, SomeQuiet
<1>4. QED
  BY <1>1, <1>3, ConcatQuiet

LEMMA ScrollQuiet == \A p \in ScrollInputs : p \in Quiet
<1> SUFFICES ASSUME NEW p \in ScrollInputs PROVE p \in Quiet
  OBVIOUS
<1>1. PICK a \in Optional(<<"aim">>), w \in Some("wheel") : p = a \o w
  BY DEF ScrollInputs
<1>2. {"aim", "wheel"} \subseteq Input \ {"down"}
  BY DEF Input, Dropped
<1>3. a \in Quiet /\ w \in Quiet
  BY <1>2, OneQuiet, OptionalQuiet, SomeQuiet
<1>4. QED
  BY <1>1, <1>3, ConcatQuiet

LEMMA DragIsDrag == \A p \in DragInputs : p \in Drags
<1> SUFFICES ASSUME NEW p \in DragInputs PROVE p \in Drags
  OBVIOUS
<1>1. \/ p = <<>> \o <<"down", "glide", "up">>
      \/ p = <<"place">> \o <<"down", "glide", "up">>
  BY DEF DragInputs, Optional
<1> DEFINE q == <<"down", "glide", "up">>
           S == {"place", "down", "glide", "up"}
<1>2. q \in Seq(S) /\ <<"place">> \in Seq(S)
  OBVIOUS
<1>3. <<>> \o q = q
  BY <1>2, ConcatEmptySeq
<1>4. /\ <<"place">> \o q \in Seq(S)
      /\ Len(<<"place">> \o q) = 4
      /\ \A i \in 1..4 : (<<"place">> \o q)[i] = IF i <= 1 THEN "place" ELSE q[i - 1]
  <2>1. Len(q) = 3 /\ Len(<<"place">>) = 1 /\ <<"place">>[1] = "place"
    OBVIOUS
  <2>2. QED
    BY <1>2, <2>1, ConcatProperties
<1> DEFINE r == <<"place">> \o q
           t == <<"place", "down", "glide", "up">>
<1>5. r = t
  <2>1. /\ t \in Seq(S) /\ Len(t) = 4
        /\ \A i \in 1..4 : t[i] = IF i <= 1 THEN "place" ELSE q[i - 1]
    OBVIOUS
  <2> HIDE DEF q, S, t, r
  <2>2. r \in Seq(S) /\ Len(r) = 4
        /\ \A i \in 1..4 : r[i] = IF i <= 1 THEN "place" ELSE q[i - 1]
    BY <1>4 DEF r
  <2>3. QED
    BY <2>1, <2>2, SeqEqual
<1>6. QED
  BY <1>1, <1>3, <1>5 DEF Drags

(* What a tool is asked to do is a sequence of inputs that lets go of the  *)
(* button it presses.                                                      *)
LEMMA ProgramsRelease == \A k \in Kind : \A p \in Programs(k) : p \in Releasing
<1> SUFFICES ASSUME NEW k \in Kind, NEW p \in Programs(k) PROVE p \in Releasing
  OBVIOUS
<1>1. CASE k \in {"Click", "Move", "Shortcut", "Snapshot"}
  <2>1. p \in {<<"click">>, <<"glide">>, <<"keys">>, <<"capture">>}
    BY <1>1 DEF Programs, ClickInputs, MoveInputs, ShortcutInputs, SnapshotInputs
  <2>2. QED
    BY <2>1, OneQuiet DEF Releasing, Input, Dropped
<1>2. CASE k = "Type"
  BY <1>2, TypeQuiet DEF Programs, Releasing
<1>3. CASE k = "Scroll"
  BY <1>3, ScrollQuiet DEF Programs, Releasing
<1>4. CASE k = "Drag"
  BY <1>4, DragIsDrag DEF Programs, Releasing
<1>5. CASE k = "Agent"
  BY <1>5 DEF Programs, Releasing, Quiet
<1>6. QED
  BY <1>1, <1>2, <1>3, <1>4, <1>5 DEF Kind

LEMMA TailReleases ==
  ASSUME NEW p \in Releasing, p # <<>>
  PROVE  /\ Head(p) \in Input
         /\ Tail(p) \in Releasing
         /\ Head(p) = "down" => Tail(p) = <<"glide", "up">>
<1>1. CASE p \in Quiet
  BY <1>1, HeadTailProperties DEF Quiet, Releasing
<1>2. CASE p = <<"place", "down", "glide", "up">>
  BY <1>2 DEF Releasing, Drags, Input, Dropped
<1>3. CASE p = <<"down", "glide", "up">>
  <2>1. Tail(p) = <<"glide", "up">>
    BY <1>3
  <2>2. Tail(p) \in Quiet
    <3>1. "glide" \in Input \ {"down"} /\ "up" \in Input \ {"down"}
      BY DEF Input, Dropped
    <3>2. <<"glide", "up">> \in Seq(Input \ {"down"})
      BY <3>1
    <3>3. QED
      BY <2>1, <3>2 DEF Quiet
  <2>3. QED
    BY <1>3, <2>1, <2>2 DEF Releasing, Input, Dropped
<1>4. QED
  BY <1>1, <1>2, <1>3 DEF Releasing, Drags

LEMMA ReleasingInputs == Releasing \subseteq Seq(Input)
<1>1. \A p \in Quiet : p \in Seq(Input)
  BY SeqMonotonic DEF Quiet
<1>2. \A p \in Drags : p \in Seq(Input)
  <2>1. {"place", "down", "glide", "up"} \subseteq Input
    BY DEF Input, Dropped
  <2>2. /\ <<"place", "down", "glide", "up">> \in Seq(Input)
        /\ <<"down", "glide", "up">> \in Seq(Input)
    BY <2>1
  <2>3. QED
    BY <2>2 DEF Drags
<1>3. QED
  BY <1>1, <1>2 DEF Releasing
-----------------------------------------------------------------------------
LEMMA StartedFinite == Started \in Nat /\ Started <= MaxClients
<1>1. IsFiniteSet(Clients) /\ Cardinality(Clients) = MaxClients
  BY BoundsAssumption, FS_Interval DEF Clients
<1>2. {n \in Clients : proc[n] # "none"} \in SUBSET Clients
  OBVIOUS
<1>3. QED
  BY <1>1, <1>2, FS_Subset, FS_CardinalityType DEF Started

(* A call that still has inputs to send has some, and so has the bootstrap. *)
TypeInv ==
  /\ TypeOK
  /\ \A c \in Calls : todo[c] \in Releasing
  /\ \A c \in Calls : pc[c] \in {"acting", "midway"} => todo[c] # <<>>
  /\ boot = "typing" => bootTodo # <<>>

LEMMA ActSteps ==
  ASSUME TypeInv, NEW c \in Calls, Act(c)
  PROVE  \E p \in Releasing :
           /\ pc' = [pc EXCEPT ![c] = IF p = <<>> THEN "leaving" ELSE "acting"]
           /\ todo' = [todo EXCEPT ![c] = p]
<1>1. kind[c] \in Kind
  BY KindsAssumption DEF TypeInv, TypeOK
<1>2. <<>> \in Releasing
  BY DEF Releasing, Quiet
<1>3. QED
  BY <1>1, <1>2, ProgramsRelease DEF Act, Goto

LEMMA TypeInvInit == Init => TypeInv
<1> SUFFICES ASSUME Init PROVE TypeInv
  OBVIOUS
<1>1. <<>> \in Releasing /\ <<>> \in Seq(Input)
  BY DEF Releasing, Quiet
<1>2. TypeOK
  <2>1. client \in 0..MaxClients /\ mu \in Calls \cup {Boot, Nobody}
    BY BoundsAssumption DEF Init
  <2>2. /\ pc \in [Calls -> PC]
        /\ kind \in [Calls -> Kinds]
        /\ relaying \in [Calls -> BOOLEAN]
        /\ todo \in [Calls -> Seq(Input)]
        /\ failed \in [Calls -> BOOLEAN]
    BY <1>1 DEF Init, PC
  <2>3. /\ xvfb \in BOOLEAN /\ connected \in BOOLEAN
        /\ proc \in [Clients -> {"none", "logon", "mapped", "exited", "reaped"}]
        /\ deadAtLock \subseteq Clients
    BY DEF Init
  <2>4. /\ boot \in {"off", "due", "typing", "polling", "up", "failed"}
        /\ bootTodo \in Seq({"run", "launch", "return"})
        /\ life \in {"on", "ending", "stopped"}
        /\ button \in {"up", "down", "stuck"}
        /\ last \in Calls \cup {Boot, Nobody}
    BY DEF Init
  <2>5. QED
    BY <2>1, <2>2, <2>3, <2>4 DEF TypeOK
<1>3. QED
  BY <1>1, <1>2 DEF Init, TypeInv

(* A call that moves on with the inputs it had.                            *)
LEMMA TypeInvKept ==
  ASSUME TypeInv, NEW c \in Calls, NEW p \in PC \ {"acting", "midway"},
         pc' = [pc EXCEPT ![c] = p],
         mu' \in Calls \cup {Boot, Nobody},
         relaying' \in [Calls -> BOOLEAN], failed' \in [Calls -> BOOLEAN],
         xvfb' \in BOOLEAN, deadAtLock' \subseteq Clients,
         UNCHANGED <<kind, todo, client, proc, connected, boot, bootTodo, life, button, last>>
  PROVE  TypeInv'
<1>1. pc' \in [Calls -> PC]
  BY DEF TypeInv, TypeOK
<1>2. TypeOK'
  BY <1>1 DEF TypeInv, TypeOK
<1>3. \A d \in Calls : pc'[d] \in {"acting", "midway"} => todo[d] # <<>>
  BY DEF TypeInv, TypeOK
<1>4. QED
  BY <1>2, <1>3 DEF TypeInv

LEMMA TypeInvNext == TypeInv /\ [Next]_vars => TypeInv'
<1> SUFFICES ASSUME TypeInv, [Next]_vars PROVE TypeInv'
  OBVIOUS
<1>t. /\ mu \in Calls \cup {Boot, Nobody} /\ deadAtLock \subseteq Clients
      /\ relaying \in [Calls -> BOOLEAN] /\ failed \in [Calls -> BOOLEAN]
      /\ xvfb \in BOOLEAN
  BY DEF TypeInv, TypeOK
<1>1. ASSUME NEW c \in Calls, Call(c) PROVE TypeInv'
  <2>1. PICK p \in {"done", "locking"} : pc' = [pc EXCEPT ![c] = p]
    BY <1>1 DEF Call, Leave, At, Goto
  <2>2. UNCHANGED <<kind, todo, client, proc, connected, boot, bootTodo, life, button, last>>
    BY <1>1 DEF Call, session, agent, desktop
  <2>3. mu' \in Calls \cup {Boot, Nobody} /\ deadAtLock' \subseteq Clients
    BY <1>1, <1>t DEF Call
  <2>4. relaying' \in [Calls -> BOOLEAN] /\ xvfb' = xvfb
    BY <1>1, <1>t DEF Call, session
  <2>5. failed' \in [Calls -> BOOLEAN]
    BY <1>1, <1>t DEF Call, Fail
  <2>6. QED
    BY <2>1, <2>2, <2>3, <2>4, <2>5, <1>t, TypeInvKept DEF PC
<1>2. ASSUME NEW c \in Calls, Lock(c) PROVE TypeInv'
  <2>1. PICK p \in {"ensure"} : pc' = [pc EXCEPT ![c] = p]
    BY <1>2 DEF Lock, Leave, At, Goto
  <2>2. UNCHANGED <<kind, todo, client, proc, connected, boot, bootTodo, life, button, last>>
    BY <1>2 DEF Lock, session, agent, desktop
  <2>3. /\ mu' \in Calls \cup {Boot, Nobody} /\ deadAtLock' \subseteq Clients
        /\ UNCHANGED <<relaying, failed, xvfb>>
    BY <1>2, <1>t DEF Lock, session
  <2>4. QED
    BY <2>1, <2>2, <2>3, <1>t, TypeInvKept DEF PC
<1>3. ASSUME NEW c \in Calls, Ensure(c) PROVE TypeInv'
  <2>1. CASE Running
    <3>1. PICK p \in Releasing :
             /\ pc' = [pc EXCEPT ![c] = IF p = <<>> THEN "leaving" ELSE "acting"]
             /\ todo' = [todo EXCEPT ![c] = p]
      BY <1>3, <2>1, ActSteps DEF Ensure, TypeInv, TypeOK, PC
    <3>2. p \in Seq(Input)
      BY ReleasingInputs DEF TypeInv, TypeOK, PC
    <3>3. QED
      BY <1>3, <3>1, <3>2 DEF Ensure, session, agent, desktop, TypeInv, TypeOK, PC
  <2>2. CASE ~Running
    <3>1. PICK p \in {"connecting", "display"} : pc' = [pc EXCEPT ![c] = p]
      BY <1>3, <2>2 DEF Ensure, Goto, TypeInv, TypeOK, PC
    <3>2. UNCHANGED <<mu, kind, relaying, todo, failed, xvfb, client, proc, connected,
                      boot, bootTodo, life, button, last, deadAtLock>>
      BY <1>3, <2>2 DEF Ensure, session, agent, desktop, TypeInv, TypeOK, PC
    <3>3. QED
      BY <3>1, <3>2 DEF TypeInv, TypeOK, PC
  <2>3. QED
    BY <2>1, <2>2 DEF TypeInv, TypeOK, PC
<1>4. ASSUME NEW c \in Calls, StartDisplay(c) PROVE TypeInv'
  <2>1. PICK p \in {"connecting", "leaving"} : pc' = [pc EXCEPT ![c] = p]
    BY <1>4 DEF StartDisplay, At, Goto
  <2>2. UNCHANGED <<kind, todo, client, proc, connected, boot, bootTodo, life, button, last>>
    BY <1>4 DEF StartDisplay, session, agent, desktop
  <2>3. mu' \in Calls \cup {Boot, Nobody} /\ deadAtLock' \subseteq Clients
    BY <1>4, <1>t DEF StartDisplay
  <2>4. failed' \in [Calls -> BOOLEAN] /\ relaying' = relaying
    BY <1>4, <1>t DEF StartDisplay, Fail
  <2>5. xvfb' \in BOOLEAN
    BY <1>4, <1>t DEF StartDisplay
  <2>6. QED
    BY <2>1, <2>2, <2>3, <2>4, <2>5, <1>t, TypeInvKept DEF PC
<1>5. ASSUME NEW c \in Calls, StartFails(c) PROVE TypeInv'
  <2>1. PICK p \in {"leaving"} : pc' = [pc EXCEPT ![c] = p]
    BY <1>5 DEF StartFails, Leave, At, Goto
  <2>2. UNCHANGED <<kind, todo, client, proc, connected, boot, bootTodo, life, button, last>>
    BY <1>5 DEF StartFails, session, agent, desktop
  <2>3. mu' \in Calls \cup {Boot, Nobody} /\ deadAtLock' \subseteq Clients
    BY <1>5, <1>t DEF StartFails
  <2>4. failed' \in [Calls -> BOOLEAN] /\ UNCHANGED <<relaying, xvfb>>
    BY <1>5, <1>t DEF StartFails, Fail, session
  <2>5. QED
    BY <2>1, <2>2, <2>3, <2>4, <1>t, TypeInvKept DEF PC
<1>6. ASSUME NEW c \in Calls, StartClient(c) PROVE TypeInv'
  <2>1. Started + 1 \in Clients /\ Started + 1 \in 0..MaxClients
    BY <1>6, StartedFinite, BoundsAssumption DEF StartClient, Clients, TypeInv, TypeOK, PC
  <2>2. QED
    BY <1>6, <2>1 DEF StartClient, Leave, At, Goto, agent, desktop, TypeInv, TypeOK, PC
<1>7. ASSUME NEW c \in Calls, LogonEnds(c) PROVE TypeInv'
  <2>1. PICK p \in {"check"} : pc' = [pc EXCEPT ![c] = p]
    BY <1>7 DEF LogonEnds, Leave, At, Goto
  <2>2. UNCHANGED <<kind, todo, client, proc, connected, boot, bootTodo, life, button, last>>
    BY <1>7 DEF LogonEnds, session, agent, desktop
  <2>3. mu' \in Calls \cup {Boot, Nobody} /\ deadAtLock' \subseteq Clients
    BY <1>7, <1>t DEF LogonEnds
  <2>4. UNCHANGED <<relaying, failed, xvfb>>
    BY <1>7, <1>t DEF LogonEnds, session
  <2>5. QED
    BY <2>1, <2>2, <2>3, <2>4, <1>t, TypeInvKept DEF PC
<1>8. ASSUME NEW c \in Calls, LogonTimeout(c) PROVE TypeInv'
  <2>1. PICK p \in {"killing"} : pc' = [pc EXCEPT ![c] = p]
    BY <1>8 DEF LogonTimeout, Leave, At, Goto
  <2>2. UNCHANGED <<kind, todo, client, proc, connected, boot, bootTodo, life, button, last>>
    BY <1>8 DEF LogonTimeout, session, agent, desktop
  <2>3. mu' \in Calls \cup {Boot, Nobody} /\ deadAtLock' \subseteq Clients
    BY <1>8, <1>t DEF LogonTimeout
  <2>4. failed' \in [Calls -> BOOLEAN] /\ UNCHANGED <<relaying, xvfb>>
    BY <1>8, <1>t DEF LogonTimeout, Fail, session
  <2>5. QED
    BY <2>1, <2>2, <2>3, <2>4, <1>t, TypeInvKept DEF PC
<1>9. ASSUME NEW c \in Calls, Check(c) PROVE TypeInv'
  <2>1. WakeKeys \in Releasing /\ WakeKeys \in Seq(Input)
    <3>1. {"wakeClick", "wakeEnter"} \subseteq Input \ {"down"}
      BY DEF Input, Dropped, TypeInv, TypeOK, PC
    <3>2. QED
      BY <3>1, ReleasingInputs DEF WakeKeys, Releasing, Quiet, TypeInv, TypeOK, PC
  <2>2. <<>> \in Releasing /\ <<>> \in Seq(Input)
    BY DEF Releasing, Quiet, TypeInv, TypeOK, PC
  <2>3. UNCHANGED <<mu, kind, relaying, xvfb, client, proc, connected, boot, bootTodo,
                    life, button, last, deadAtLock>>
    BY <1>9 DEF Check, session, agent, desktop, TypeInv, TypeOK, PC
  <2>4. PICK p \in {"killing", "settling", "waking"} : pc' = [pc EXCEPT ![c] = p]
    BY <1>9 DEF Check, Goto, AfterLogon, TypeInv, TypeOK, PC
  <2>p. /\ pc' \in [Calls -> PC]
        /\ \A d \in Calls : pc'[d] \in {"acting", "midway"} => d # c /\ pc[d] \in {"acting", "midway"}
    BY <2>4 DEF TypeInv, TypeOK, PC
  <2>5. failed' \in [Calls -> BOOLEAN]
    BY <1>9 DEF Check, Fail, TypeInv, TypeOK, PC
  <2>6. todo' = todo \/ \E t \in {<<>>, WakeKeys} : todo' = [todo EXCEPT ![c] = t]
    BY <1>9 DEF Check, TypeInv, TypeOK, PC
  <2>7. /\ todo' \in [Calls -> Seq(Input)]
        /\ \A d \in Calls : todo'[d] \in Releasing /\ (d # c => todo'[d] = todo[d])
    <3>1. CASE todo' = todo
      BY <3>1 DEF TypeInv, TypeOK, PC
    <3>2. ASSUME NEW t \in {<<>>, WakeKeys}, todo' = [todo EXCEPT ![c] = t]
          PROVE  /\ todo' \in [Calls -> Seq(Input)]
                 /\ \A d \in Calls : todo'[d] \in Releasing /\ (d # c => todo'[d] = todo[d])
      BY <2>1, <2>2, <3>2 DEF TypeInv, TypeOK, PC
    <3>3. QED
      BY <2>6, <3>1, <3>2 DEF TypeInv, TypeOK, PC
  <2>8. QED
    BY <2>3, <2>p, <2>5, <2>7 DEF TypeInv, TypeOK, PC
<1>10. ASSUME NEW c \in Calls, Kill(c) PROVE TypeInv'
  <2>1. proc' \in [Clients -> {"none", "logon", "mapped", "exited", "reaped"}]
    BY <1>10 DEF Kill, TypeInv, TypeOK, PC
  <2>2. QED
    BY <1>10, <2>1 DEF Kill, call, agent, desktop, TypeInv, TypeOK, PC
<1>11. ASSUME NEW c \in Calls, Killed(c) PROVE TypeInv'
  <2>1. PICK p \in {"leaving"} : pc' = [pc EXCEPT ![c] = p]
    BY <1>11 DEF Killed, Leave, At, Goto
  <2>2. UNCHANGED <<kind, todo, client, proc, connected, boot, bootTodo, life, button, last>>
    BY <1>11 DEF Killed, session, agent, desktop
  <2>3. mu' \in Calls \cup {Boot, Nobody} /\ deadAtLock' \subseteq Clients
    BY <1>11, <1>t DEF Killed
  <2>4. UNCHANGED <<relaying, failed, xvfb>>
    BY <1>11, <1>t DEF Killed, session
  <2>5. QED
    BY <2>1, <2>2, <2>3, <2>4, <1>t, TypeInvKept DEF PC
<1>12. ASSUME NEW c \in Calls, Settle(c) PROVE TypeInv'
  <2>1. PICK p \in Releasing :
           /\ pc' = [pc EXCEPT ![c] = IF p = <<>> THEN "leaving" ELSE "acting"]
           /\ todo' = [todo EXCEPT ![c] = p]
    BY <1>12, ActSteps DEF Settle, TypeInv, TypeOK, PC
  <2>2. p \in Seq(Input)
    BY ReleasingInputs DEF TypeInv, TypeOK, PC
  <2>3. QED
    BY <1>12, <2>1, <2>2 DEF Settle, session, agent, desktop, TypeInv, TypeOK, PC
<1>13. ASSUME NEW c \in Calls, Wake(c) PROVE TypeInv'
  <2>1. CASE Len(todo[c]) > 1
    <3>1. todo[c] # <<>>
      BY <2>1 DEF TypeInv, TypeOK, PC
    <3>2. Tail(todo[c]) \in Releasing /\ Tail(todo[c]) \in Seq(Input)
      BY <3>1, TailReleases, ReleasingInputs DEF TypeInv, TypeOK, PC
    <3>3. /\ todo' = [todo EXCEPT ![c] = Tail(todo[c])]
          /\ UNCHANGED <<mu, pc, kind, relaying, failed, xvfb, client, proc, connected,
                         boot, bootTodo, life, button, last, deadAtLock>>
      BY <1>13, <2>1 DEF Wake, desktop, TypeInv, TypeOK, PC
    <3>4. pc[c] = "waking"
      BY <1>13 DEF Wake, At, TypeInv, TypeOK, PC
    <3>5. /\ todo' \in [Calls -> Seq(Input)]
          /\ \A d \in Calls : todo'[d] \in Releasing /\ (d # c => todo'[d] = todo[d])
      BY <3>2, <3>3 DEF TypeInv, TypeOK, PC
    <3>6. QED
      BY <3>3, <3>4, <3>5 DEF TypeInv, TypeOK, PC
  <2>2. CASE ~(Len(todo[c]) > 1)
    <3>1. PICK p \in Releasing :
             /\ pc' = [pc EXCEPT ![c] = IF p = <<>> THEN "leaving" ELSE "acting"]
             /\ todo' = [todo EXCEPT ![c] = p]
      BY <1>13, <2>2, ActSteps DEF Wake, TypeInv, TypeOK, PC
    <3>2. p \in Seq(Input)
      BY ReleasingInputs DEF TypeInv, TypeOK, PC
    <3>3. boot' \in {"off", "due", "typing", "polling", "up", "failed"}
          /\ (boot' = "typing" => boot = "typing")
      BY <1>13, <2>2 DEF Wake, TypeInv, TypeOK, PC
    <3>4. QED
      BY <1>13, <2>2, <3>1, <3>2, <3>3 DEF Wake, desktop, TypeInv, TypeOK, PC
  <2>3. QED
    BY <2>1, <2>2 DEF TypeInv, TypeOK, PC
<1>14. ASSUME NEW c \in Calls, Send(c) PROVE TypeInv'
  <2>1. /\ pc[c] \in {"acting", "midway"} /\ todo[c] # <<>>
        /\ last' = c
        /\ UNCHANGED <<mu, kind, relaying, xvfb, client, proc, connected, boot,
                       bootTodo, life, deadAtLock>>
    BY <1>14 DEF Send, session, agent, TypeInv, TypeOK, PC
  <2>2. PICK ok \in BOOLEAN :
          /\ button' = Button(Head(todo[c]), ok)
          /\ todo' = [todo EXCEPT ![c] = IF ok THEN Tail(todo[c])
                                         ELSE AfterError(Head(todo[c]), Tail(todo[c]))]
          /\ failed' = [failed EXCEPT ![c] =
                           @ \/ (~ok /\ Head(todo[c]) \notin Dropped)]
          /\ pc' = [pc EXCEPT ![c] = IF todo'[c] = <<>> THEN "leaving" ELSE "midway"]
    BY <1>14 DEF Send, Goto, TypeInv, TypeOK, PC
  <2>a. <<>> \in Releasing
    BY DEF Releasing, Quiet, TypeInv, TypeOK, PC
  <2>3. Tail(todo[c]) \in Releasing /\ <<>> \in Releasing
    BY <2>1, <2>a, TailReleases DEF TypeInv, TypeOK, PC
  <2>4. todo'[c] \in Releasing /\ todo' = [todo EXCEPT ![c] = todo'[c]]
    BY <2>2, <2>3 DEF AfterError, TypeInv, TypeOK, PC
  <2>5. todo'[c] \in Seq(Input)
    BY <2>4, ReleasingInputs DEF TypeInv, TypeOK, PC
  <2>6. /\ todo' \in [Calls -> Seq(Input)]
        /\ \A d \in Calls : todo'[d] \in Releasing
    BY <2>4, <2>5 DEF TypeInv, TypeOK, PC
  <2>7. /\ pc' \in [Calls -> PC]
        /\ \A d \in Calls : pc'[d] \in {"acting", "midway"} => todo'[d] # <<>>
    BY <2>2, <2>4 DEF TypeInv, TypeOK, PC
  <2>8. failed' \in [Calls -> BOOLEAN] /\ button' \in {"up", "down", "stuck"}
    BY <2>2 DEF Button, TypeInv, TypeOK, PC
  <2>9. QED
    BY <2>1, <2>6, <2>7, <2>8 DEF TypeInv, TypeOK, PC
<1>15. ASSUME NEW c \in Calls, Unlock(c) PROVE TypeInv'
  <2>1. PICK p \in {"after"} : pc' = [pc EXCEPT ![c] = p]
    BY <1>15 DEF Unlock, Leave, At, Goto
  <2>2. UNCHANGED <<kind, todo, client, proc, connected, boot, bootTodo, life, button, last>>
    BY <1>15 DEF Unlock, session, agent, desktop
  <2>3. /\ mu' \in Calls \cup {Boot, Nobody} /\ deadAtLock' \subseteq Clients
        /\ UNCHANGED <<relaying, failed, xvfb>>
    BY <1>15, <1>t DEF Unlock, session
  <2>4. QED
    BY <2>1, <2>2, <2>3, <1>t, TypeInvKept DEF PC
<1>16. ASSUME NEW c \in Calls, Continue(c) PROVE TypeInv'
  <2>1. PICK p \in {"done", "awaiting", "locking"} : pc' = [pc EXCEPT ![c] = p]
    BY <1>16 DEF Continue, At, Goto, Answer
  <2>2. UNCHANGED <<kind, todo, client, proc, connected, boot, bootTodo, life, button, last>>
    BY <1>16 DEF Continue, session, agent, desktop
  <2>3. mu' \in Calls \cup {Boot, Nobody} /\ deadAtLock' \subseteq Clients
    BY <1>16, <1>t DEF Continue
  <2>4. relaying' \in [Calls -> BOOLEAN] /\ xvfb' = xvfb
    BY <1>16, <1>t DEF Continue, Answer, session
  <2>5. failed' \in [Calls -> BOOLEAN]
    <3>1. \A b \in BOOLEAN : (b /\ ~(kind[c] = "Snapshot" /\ relaying[c])) \in BOOLEAN
      OBVIOUS
    <3>2. QED
      BY <1>16, <1>t, <3>1 DEF Continue, Answer
  <2>6. QED
    BY <2>1, <2>2, <2>3, <2>4, <2>5, <1>t, TypeInvKept DEF PC
<1>17. ASSUME NEW c \in Calls, Await(c) PROVE TypeInv'
  <2>1. PICK p \in {"calling"} : pc' = [pc EXCEPT ![c] = p]
    BY <1>17 DEF Await, Leave, At, Goto
  <2>2. UNCHANGED <<kind, todo, client, proc, connected, boot, bootTodo, life, button, last>>
    BY <1>17 DEF Await, session, agent, desktop
  <2>3. mu' \in Calls \cup {Boot, Nobody} /\ deadAtLock' \subseteq Clients
    BY <1>17, <1>t DEF Await
  <2>4. UNCHANGED <<relaying, failed, xvfb>>
    BY <1>17, <1>t DEF Await, session
  <2>5. QED
    BY <2>1, <2>2, <2>3, <2>4, <1>t, TypeInvKept DEF PC
<1>18. ASSUME NEW c \in Calls, AwaitTimeout(c) PROVE TypeInv'
  <2>1. PICK p \in {"done"} : pc' = [pc EXCEPT ![c] = p]
    BY <1>18 DEF AwaitTimeout, At, Answer, Goto
  <2>2. UNCHANGED <<kind, todo, client, proc, connected, boot, bootTodo, life, button, last>>
    BY <1>18 DEF AwaitTimeout, session, agent, desktop
  <2>3. mu' \in Calls \cup {Boot, Nobody} /\ deadAtLock' \subseteq Clients
    BY <1>18, <1>t DEF AwaitTimeout
  <2>4. relaying' \in [Calls -> BOOLEAN] /\ xvfb' = xvfb
    BY <1>18, <1>t DEF AwaitTimeout, Answer, session
  <2>5. failed' \in [Calls -> BOOLEAN]
    <3>1. \A b \in BOOLEAN : (b /\ ~(kind[c] = "Snapshot" /\ relaying[c])) \in BOOLEAN
      OBVIOUS
    <3>2. QED
      BY <1>18, <1>t, <3>1 DEF AwaitTimeout, Answer
  <2>6. QED
    BY <2>1, <2>2, <2>3, <2>4, <2>5, <1>t, TypeInvKept DEF PC
<1>19. ASSUME NEW c \in Calls, Reply(c) PROVE TypeInv'
  <2>1. PICK p \in {"done"} : pc' = [pc EXCEPT ![c] = p]
    BY <1>19 DEF Reply, At, Answer, Goto
  <2>2. UNCHANGED <<kind, todo, client, proc, connected, boot, bootTodo, life, button, last>>
    BY <1>19 DEF Reply, session, agent, desktop
  <2>3. mu' \in Calls \cup {Boot, Nobody} /\ deadAtLock' \subseteq Clients
    BY <1>19, <1>t DEF Reply
  <2>4. relaying' \in [Calls -> BOOLEAN] /\ xvfb' = xvfb
    BY <1>19, <1>t DEF Reply, Answer, session
  <2>5. failed' \in [Calls -> BOOLEAN]
    <3>1. \A b \in BOOLEAN : (b /\ ~(kind[c] = "Snapshot" /\ relaying[c])) \in BOOLEAN
      OBVIOUS
    <3>2. QED
      BY <1>19, <1>t, <3>1 DEF Reply, Answer
  <2>6. QED
    BY <2>1, <2>2, <2>3, <2>4, <2>5, <1>t, TypeInvKept DEF PC
<1>20. ASSUME Stage PROVE TypeInv'
  <2>1. BootKeys \in Seq({"run", "launch", "return"}) /\ BootKeys # <<>>
    BY DEF BootKeys, TypeInv, TypeOK, PC
  <2>2. QED
    BY <1>20, <2>1 DEF Stage, call, session, desktop, TypeInv, TypeOK, PC
<1>21. ASSUME BootKey PROVE TypeInv'
  <2>1. Tail(bootTodo) \in Seq({"run", "launch", "return"})
    BY <1>21, HeadTailProperties DEF BootKey, TypeInv, TypeOK, PC
  <2>2. QED
    BY <1>21, <2>1 DEF BootKey, call, session, TypeInv, TypeOK, PC
<1>22. ASSUME BootEnds PROVE TypeInv'
  BY <1>22 DEF BootEnds, call, session, agent, desktop, TypeInv, TypeOK, PC
<1>23. ASSUME NEW n \in Clients, MapWindow(n) PROVE TypeInv'
  BY <1>23 DEF MapWindow, call, session, agent, desktop, TypeInv, TypeOK, PC
<1>24. ASSUME NEW n \in Clients, Exit(n) PROVE TypeInv'
  BY <1>24 DEF Exit, call, session, agent, desktop, TypeInv, TypeOK, PC
<1>25. ASSUME NEW n \in Clients, Reap(n) PROVE TypeInv'
  BY <1>25 DEF Reap, call, session, agent, desktop, TypeInv, TypeOK, PC
<1>26. ASSUME Shutdown PROVE TypeInv'
  BY <1>26 DEF Shutdown, call, session, agent, desktop, TypeInv, TypeOK, PC
<1>27. ASSUME Stop PROVE TypeInv'
  BY <1>27 DEF Stop, call, session, agent, desktop, TypeInv, TypeOK, PC
<1>28. ASSUME UNCHANGED vars PROVE TypeInv'
  BY <1>28 DEF vars, call, session, agent, desktop, TypeInv, TypeOK, PC
<1>29. QED
  BY <1>1, <1>2, <1>3, <1>4, <1>5, <1>6, <1>7, <1>8, <1>9, <1>10, <1>11, <1>12,
     <1>13, <1>14, <1>15, <1>16, <1>17, <1>18, <1>19, <1>20, <1>21, <1>22, <1>23, <1>24,
     <1>25, <1>26, <1>27, <1>28
     DEF Next, Step, Connect, Bootstrap, Environment, Finished

LEMMA TypeInvAlways == Spec => []TypeInv
BY TypeInvInit, TypeInvNext, PTL DEF Spec

(* Every variable keeps its type.                                          *)
THEOREM TypeCorrect == Spec => []TypeOK
<1>1. TypeInv => TypeOK
  BY DEF TypeInv
<1>2. QED
  BY <1>1, TypeInvAlways, PTL
-----------------------------------------------------------------------------
LEMMA ActMoves ==
  ASSUME NEW c \in Calls, Act(c)
  PROVE  \E p \in {"leaving", "acting"} : pc' = [pc EXCEPT ![c] = p]
BY DEF Act, Goto

(* Who is in the critical section holds s.mu, whoever is between two       *)
(* inputs has sent the last one, and a controller that has ended has no    *)
(* calls.                                                                  *)
LockInv ==
  /\ \A c \in Calls : pc[c] \in Critical <=> mu = c
  /\ InputsUninterrupted
  /\ life = "stopped" => \A c \in Calls : pc[c] \in {"idle", "done"}

LEMMA LockInvInit == Init => LockInv
BY CallsAssumption DEF Init, LockInv, Critical, InputsUninterrupted

(* A call that moves within its critical section, or outside it, without   *)
(* sending anything.                                                       *)
LEMMA LockInvKept ==
  ASSUME TypeInv, LockInv, NEW c \in Calls, NEW p,
         pc' = [pc EXCEPT ![c] = p], UNCHANGED <<mu, last>>, life' = life,
         p \in Critical <=> pc[c] \in Critical,
         p # "midway", pc[c] \notin {"idle", "done"}
  PROVE  LockInv'
BY DEF TypeInv, TypeOK, LockInv, InputsUninterrupted

LEMMA LockInvNext == TypeInv /\ LockInv /\ [Next]_vars => LockInv'
<1> SUFFICES ASSUME TypeInv, LockInv, [Next]_vars PROVE LockInv'
  OBVIOUS
<1>t. pc \in [Calls -> PC] /\ mu \in Calls \cup {Boot, Nobody}
  BY DEF TypeInv, TypeOK
<1> USE DEF Critical
<1>1. ASSUME NEW c \in Calls, Call(c) PROVE LockInv'
  BY <1>1, <1>t, CallsAssumption DEF Call, Leave, At, Goto, Fail, desktop, LockInv, InputsUninterrupted
<1>2. ASSUME NEW c \in Calls, Lock(c) PROVE LockInv'
  BY <1>2, <1>t, CallsAssumption DEF Lock, Leave, At, Goto, desktop, LockInv, InputsUninterrupted
<1>3. ASSUME NEW c \in Calls, Ensure(c) PROVE LockInv'
  <2>1. PICK p \in {"leaving", "acting", "connecting", "display"} : pc' = [pc EXCEPT ![c] = p]
    BY <1>3, ActMoves DEF Ensure, Goto
  <2>2. UNCHANGED <<mu, last>> /\ life' = life /\ pc[c] = "ensure"
    BY <1>3 DEF Ensure, At, desktop
  <2>3. QED
    BY <2>1, <2>2, LockInvKept
<1>4. ASSUME NEW c \in Calls, StartDisplay(c) PROVE LockInv'
  <2>1. PICK p \in {"connecting", "leaving"} : pc' = [pc EXCEPT ![c] = p]
    BY <1>4 DEF StartDisplay, Goto
  <2>2. UNCHANGED <<mu, last>> /\ life' = life /\ pc[c] = "display"
    BY <1>4 DEF StartDisplay, At, desktop
  <2>3. QED
    BY <2>1, <2>2, LockInvKept
<1>5. ASSUME NEW c \in Calls, StartFails(c) PROVE LockInv'
  <2>1. PICK p \in {"leaving"} : pc' = [pc EXCEPT ![c] = p]
    BY <1>5 DEF StartFails, Leave, Goto
  <2>2. UNCHANGED <<mu, last>> /\ life' = life /\ pc[c] = "connecting"
    BY <1>5 DEF StartFails, Leave, At, desktop
  <2>3. QED
    BY <2>1, <2>2, LockInvKept
<1>6. ASSUME NEW c \in Calls, StartClient(c) PROVE LockInv'
  <2>1. PICK p \in {"logon"} : pc' = [pc EXCEPT ![c] = p]
    BY <1>6 DEF StartClient, Leave, Goto
  <2>2. UNCHANGED <<mu, last>> /\ life' = life /\ pc[c] = "connecting"
    BY <1>6 DEF StartClient, Leave, At, desktop
  <2>3. QED
    BY <2>1, <2>2, LockInvKept
<1>7. ASSUME NEW c \in Calls, LogonEnds(c) PROVE LockInv'
  <2>1. PICK p \in {"check"} : pc' = [pc EXCEPT ![c] = p]
    BY <1>7 DEF LogonEnds, Leave, Goto
  <2>2. UNCHANGED <<mu, last>> /\ life' = life /\ pc[c] = "logon"
    BY <1>7 DEF LogonEnds, Leave, At, desktop
  <2>3. QED
    BY <2>1, <2>2, LockInvKept
<1>8. ASSUME NEW c \in Calls, LogonTimeout(c) PROVE LockInv'
  <2>1. PICK p \in {"killing"} : pc' = [pc EXCEPT ![c] = p]
    BY <1>8 DEF LogonTimeout, Leave, Goto
  <2>2. UNCHANGED <<mu, last>> /\ life' = life /\ pc[c] = "logon"
    BY <1>8 DEF LogonTimeout, Leave, At, desktop
  <2>3. QED
    BY <2>1, <2>2, LockInvKept
<1>9. ASSUME NEW c \in Calls, Check(c) PROVE LockInv'
  <2>1. PICK p \in {"killing", "settling", "waking"} : pc' = [pc EXCEPT ![c] = p]
    BY <1>9 DEF Check, Goto, AfterLogon
  <2>2. UNCHANGED <<mu, last>> /\ life' = life /\ pc[c] = "check"
    BY <1>9 DEF Check, At, desktop
  <2>3. QED
    BY <2>1, <2>2, LockInvKept
<1>10. ASSUME NEW c \in Calls, Kill(c) PROVE LockInv'
  BY <1>10 DEF Kill, At, call, session, agent, desktop, LockInv, InputsUninterrupted
<1>11. ASSUME NEW c \in Calls, Killed(c) PROVE LockInv'
  <2>1. PICK p \in {"leaving"} : pc' = [pc EXCEPT ![c] = p]
    BY <1>11 DEF Killed, Leave, Goto
  <2>2. UNCHANGED <<mu, last>> /\ life' = life /\ pc[c] = "killing"
    BY <1>11 DEF Killed, Leave, At, desktop
  <2>3. QED
    BY <2>1, <2>2, LockInvKept
<1>12. ASSUME NEW c \in Calls, Settle(c) PROVE LockInv'
  <2>1. PICK p \in {"leaving", "acting"} : pc' = [pc EXCEPT ![c] = p]
    BY <1>12, ActMoves DEF Settle, Goto
  <2>2. UNCHANGED <<mu, last>> /\ life' = life /\ pc[c] = "settling"
    BY <1>12 DEF Settle, At, desktop
  <2>3. QED
    BY <2>1, <2>2, LockInvKept
<1>13. ASSUME NEW c \in Calls, Wake(c) PROVE LockInv'
  <2>1. UNCHANGED <<mu, last>> /\ life' = life /\ pc[c] = "waking"
    BY <1>13 DEF Wake, At, desktop
  <2>2. CASE UNCHANGED pc
    BY <2>1, <2>2 DEF LockInv, InputsUninterrupted
  <2>3. CASE Act(c)
    <3>1. PICK p \in {"leaving", "acting"} : pc' = [pc EXCEPT ![c] = p]
      BY <2>3, ActMoves
    <3>2. QED
      BY <2>1, <3>1, LockInvKept
  <2>4. QED
    BY <1>13, <2>2, <2>3 DEF Wake
<1>14. ASSUME NEW c \in Calls, Send(c) PROVE LockInv'
  <2>1. PICK p \in {"leaving", "midway"} : pc' = [pc EXCEPT ![c] = p]
    BY <1>14 DEF Send, Goto
  <2>2. mu' = mu /\ life' = life /\ last' = c /\ pc[c] \in {"acting", "midway"}
    BY <1>14 DEF Send
  <2>3. mu = c
    BY <2>2 DEF LockInv
  <2>4. \A d \in Calls : d # c => pc[d] # "midway"
    BY <2>3 DEF LockInv
  <2>5. QED
    BY <1>t, <2>1, <2>2, <2>3, <2>4 DEF LockInv, InputsUninterrupted
<1>15. ASSUME NEW c \in Calls, Unlock(c) PROVE LockInv'
  BY <1>15, <1>t, CallsAssumption DEF Unlock, Leave, At, Goto, desktop, LockInv, InputsUninterrupted
<1>16. ASSUME NEW c \in Calls, Continue(c) PROVE LockInv'
  <2>1. PICK p \in {"done", "awaiting", "locking"} : pc' = [pc EXCEPT ![c] = p]
    BY <1>16 DEF Continue, Goto, Answer
  <2>2. UNCHANGED <<mu, last>> /\ life' = life /\ pc[c] = "after"
    BY <1>16 DEF Continue, At, desktop
  <2>3. QED
    BY <2>1, <2>2, LockInvKept
<1>17. ASSUME NEW c \in Calls, Await(c) PROVE LockInv'
  <2>1. PICK p \in {"calling"} : pc' = [pc EXCEPT ![c] = p]
    BY <1>17 DEF Await, Leave, Goto
  <2>2. UNCHANGED <<mu, last>> /\ life' = life /\ pc[c] = "awaiting"
    BY <1>17 DEF Await, Leave, At, desktop
  <2>3. QED
    BY <2>1, <2>2, LockInvKept
<1>18. ASSUME NEW c \in Calls, AwaitTimeout(c) PROVE LockInv'
  <2>1. PICK p \in {"done"} : pc' = [pc EXCEPT ![c] = p]
    BY <1>18 DEF AwaitTimeout, Answer, Goto
  <2>2. UNCHANGED <<mu, last>> /\ life' = life /\ pc[c] = "awaiting"
    BY <1>18 DEF AwaitTimeout, At, desktop
  <2>3. QED
    BY <2>1, <2>2, LockInvKept
<1>19. ASSUME NEW c \in Calls, Reply(c) PROVE LockInv'
  <2>1. PICK p \in {"done"} : pc' = [pc EXCEPT ![c] = p]
    BY <1>19 DEF Reply, Answer, Goto
  <2>2. UNCHANGED <<mu, last>> /\ life' = life /\ pc[c] = "calling"
    BY <1>19 DEF Reply, At, desktop
  <2>3. QED
    BY <2>1, <2>2, LockInvKept
<1>20. ASSUME Stage PROVE LockInv'
  BY <1>20 DEF Stage, call, session, agent, desktop, LockInv, InputsUninterrupted
<1>21. ASSUME BootKey PROVE LockInv'
  <2>1. UNCHANGED <<mu, pc>> /\ life' = life /\ mu = Nobody
    BY <1>21 DEF BootKey, call
  <2>2. \A d \in Calls : pc[d] # "midway"
    BY <2>1, CallsAssumption DEF LockInv
  <2>3. QED
    BY <2>1, <2>2 DEF LockInv, InputsUninterrupted
<1>22. ASSUME BootEnds PROVE LockInv'
  BY <1>22 DEF BootEnds, call, session, agent, desktop, LockInv, InputsUninterrupted
<1>23. ASSUME NEW n \in Clients, MapWindow(n) PROVE LockInv'
  BY <1>23 DEF MapWindow, call, session, agent, desktop, LockInv, InputsUninterrupted
<1>24. ASSUME NEW n \in Clients, Exit(n) PROVE LockInv'
  BY <1>24 DEF Exit, call, session, agent, desktop, LockInv, InputsUninterrupted
<1>25. ASSUME NEW n \in Clients, Reap(n) PROVE LockInv'
  BY <1>25 DEF Reap, call, session, agent, desktop, LockInv, InputsUninterrupted
<1>26. ASSUME Shutdown PROVE LockInv'
  BY <1>26 DEF Shutdown, call, session, agent, desktop, LockInv, InputsUninterrupted
<1>27. ASSUME Stop PROVE LockInv'
  BY <1>27 DEF Stop, call, session, agent, desktop, LockInv, InputsUninterrupted
<1>28. ASSUME UNCHANGED vars PROVE LockInv'
  BY <1>28 DEF vars, call, session, agent, desktop, LockInv, InputsUninterrupted
<1>29. QED
  BY <1>1, <1>2, <1>3, <1>4, <1>5, <1>6, <1>7, <1>8, <1>9, <1>10, <1>11, <1>12,
     <1>13, <1>14, <1>15, <1>16, <1>17, <1>18, <1>19, <1>20, <1>21, <1>22, <1>23, <1>24,
     <1>25, <1>26, <1>27, <1>28
     DEF Next, Step, Connect, Bootstrap, Environment, Finished

LEMMA LockInvAlways == Spec => []LockInv
BY TypeInvAlways, LockInvInit, LockInvNext, PTL DEF Spec

(* From the first input of a tool to its last, neither another tool nor    *)
(* the bootstrap sends any: all of them hold s.mu.                         *)
THEOREM Uninterrupted == Spec => []InputsUninterrupted
<1>1. LockInv => InputsUninterrupted
  BY DEF LockInv
<1>2. QED
  BY <1>1, LockInvAlways, PTL
-----------------------------------------------------------------------------
LEMMA OneInside ==
  ASSUME LockInv, NEW c \in Calls, pc[c] \in Critical
  PROVE  \A d \in Calls : d # c => pc[d] \notin Critical
BY DEF LockInv

(* Clients are numbered in the order of their starts; the last one alone   *)
(* may have a process, and is starting only while a call looks after it.   *)
ClientInv ==
  /\ \A n \in Clients : proc[n] = "none" <=> n > client
  /\ OneLiveClient
  /\ \A c \in Calls : pc[c] \in {"display", "connecting"} => ~Running
  /\ client # 0 /\ proc[client] = "logon" =>
       \E c \in Calls : pc[c] \in {"logon", "killing"}
  /\ NothingLeftBehind

LEMMA StartedIsClient ==
  ASSUME TypeInv, ClientInv
  PROVE  Started = client
<1>1. client \in 0..MaxClients /\ MaxClients \in Nat
  BY BoundsAssumption DEF TypeInv, TypeOK
<1>2. {n \in Clients : proc[n] # "none"} = 1..client
  BY <1>1 DEF ClientInv, Clients
<1>3. Cardinality(1..client) = client
  BY <1>1, FS_Interval
<1>4. QED
  BY <1>2, <1>3 DEF Started

LEMMA ClientInvInit == Init => ClientInv
<1> SUFFICES ASSUME Init PROVE ClientInv
  OBVIOUS
<1>1. \A n \in Clients : n > 0
  BY BoundsAssumption DEF Clients
<1>2. QED
  BY <1>1 DEF Init, ClientInv, OneLiveClient, Live, NothingLeftBehind, Clients

(* A call that moves on and leaves the clients alone.                      *)
LEMMA ClientInvKept ==
  ASSUME TypeInv, LockInv, ClientInv, NEW c \in Calls, NEW p,
         pc' = [pc EXCEPT ![c] = p], UNCHANGED <<client, proc>>, life' = life,
         p \in {"display", "connecting"} => ~Running,
         pc[c] \in {"logon", "killing"} =>
           p \in {"logon", "killing"} \/ proc[client] # "logon"
  PROVE  ClientInv'
<1>1. pc \in [Calls -> PC]
  BY DEF TypeInv, TypeOK
<1>2. Running' = Running
  BY DEF Running, Gone
<1>3. \A d \in Calls : pc'[d] \in {"display", "connecting"} => ~Running
  BY <1>1 DEF ClientInv
<1>4. ASSUME client # 0, proc[client] = "logon"
      PROVE  \E d \in Calls : pc'[d] \in {"logon", "killing"}
  BY <1>1, <1>4 DEF ClientInv
<1>5. OneLiveClient' /\ NothingLeftBehind'
  BY DEF ClientInv, OneLiveClient, NothingLeftBehind, Live
<1>6. QED
  BY <1>2, <1>3, <1>4, <1>5 DEF ClientInv

(* A process that moves on, but does not start.                            *)
LEMMA ClientMoves ==
  ASSUME TypeInv, ClientInv, NEW n \in Clients, NEW p \in {"mapped", "exited", "reaped"},
         proc' = [proc EXCEPT ![n] = p], UNCHANGED <<client, pc>>, life' = life,
         proc[n] \in {"logon", "mapped", "exited"}
  PROVE  ClientInv'
<1>1. proc \in [Clients -> {"none", "logon", "mapped", "exited", "reaped"}]
  BY DEF TypeInv, TypeOK
<1>2. n = client /\ life # "stopped"
  BY DEF ClientInv, OneLiveClient, NothingLeftBehind, Live
<1>3. \A m \in Clients : proc'[m] = "none" <=> m > client
  BY <1>1 DEF ClientInv
<1>4. OneLiveClient' /\ NothingLeftBehind'
  BY <1>1, <1>2 DEF ClientInv, OneLiveClient, NothingLeftBehind, Live
<1>5. \A c \in Calls : pc[c] \notin {"display", "connecting"}
  BY <1>1, <1>2 DEF ClientInv, Running, Gone, Clients
<1>6. proc'[client] # "logon"
  BY <1>1, <1>2
<1>7. QED
  BY <1>3, <1>4, <1>5, <1>6 DEF ClientInv

LEMMA ClientInvNext == TypeInv /\ LockInv /\ ClientInv /\ [Next]_vars => ClientInv'
<1> SUFFICES ASSUME TypeInv, LockInv, ClientInv, [Next]_vars PROVE ClientInv'
  OBVIOUS
<1>t. /\ pc \in [Calls -> PC]
      /\ proc \in [Clients -> {"none", "logon", "mapped", "exited", "reaped"}]
      /\ client \in 0..MaxClients /\ MaxClients \in Nat
  BY BoundsAssumption DEF TypeInv, TypeOK
<1>1. ASSUME NEW c \in Calls, Call(c) PROVE ClientInv'
  <2>1. PICK p \in {"done", "locking"} : pc' = [pc EXCEPT ![c] = p]
    BY <1>1 DEF Call, Leave, At, Goto
  <2>2. UNCHANGED <<client, proc>> /\ life' = life /\ pc[c] = "idle"
    BY <1>1 DEF Call, Leave, At, Goto, session
  <2>3. QED
    BY <2>1, <2>2, ClientInvKept
<1>2. ASSUME NEW c \in Calls, Lock(c) PROVE ClientInv'
  <2>1. PICK p \in {"ensure"} : pc' = [pc EXCEPT ![c] = p]
    BY <1>2 DEF Lock, Leave, At, Goto
  <2>2. UNCHANGED <<client, proc>> /\ life' = life /\ pc[c] = "locking"
    BY <1>2 DEF Lock, Leave, At, Goto, session
  <2>3. QED
    BY <2>1, <2>2, ClientInvKept
<1>3. ASSUME NEW c \in Calls, Ensure(c) PROVE ClientInv'
  <2>1. PICK p \in {"leaving", "acting", "connecting", "display"} : pc' = [pc EXCEPT ![c] = p] /\ (p \in {"display", "connecting"} => ~Running)
    BY <1>3, ActMoves DEF Ensure, At, Goto
  <2>2. UNCHANGED <<client, proc>> /\ life' = life /\ pc[c] = "ensure"
    BY <1>3 DEF Ensure, At, Goto, session
  <2>3. QED
    BY <2>1, <2>2, ClientInvKept
<1>4. ASSUME NEW c \in Calls, StartDisplay(c) PROVE ClientInv'
  <2>1. PICK p \in {"connecting", "leaving"} : pc' = [pc EXCEPT ![c] = p]
    BY <1>4 DEF StartDisplay, At, Goto
  <2>2. UNCHANGED <<client, proc>> /\ life' = life /\ pc[c] = "display"
    BY <1>4 DEF StartDisplay, At, Goto, session
  <2>3. ~Running
    BY <2>2 DEF ClientInv
  <2>4. QED
    BY <2>1, <2>2, <2>3, ClientInvKept
<1>5. ASSUME NEW c \in Calls, StartFails(c) PROVE ClientInv'
  <2>1. PICK p \in {"leaving"} : pc' = [pc EXCEPT ![c] = p]
    BY <1>5 DEF StartFails, Leave, At, Goto
  <2>2. UNCHANGED <<client, proc>> /\ life' = life /\ pc[c] = "connecting"
    BY <1>5 DEF StartFails, Leave, At, Goto, session
  <2>3. QED
    BY <2>1, <2>2, ClientInvKept
<1>6. ASSUME NEW c \in Calls, StartClient(c) PROVE ClientInv'
  <2>1. /\ pc[c] = "connecting" /\ pc' = [pc EXCEPT ![c] = "logon"]
        /\ client' = client + 1 /\ client < MaxClients
        /\ proc' = [proc EXCEPT ![client + 1] = "logon"]
        /\ life' = life
    BY <1>6, StartedIsClient DEF StartClient, Leave, At, Goto
  <2>2. client + 1 \in Clients
    BY <1>t, <2>1 DEF Clients
  <2>3. \A n \in Clients : proc'[n] = "none" <=> n > client'
    <3>1. SUFFICES ASSUME NEW n \in Clients PROVE proc'[n] = "none" <=> n > client'
      OBVIOUS
    <3>2. n \in Int /\ client \in Int
      BY <1>t DEF Clients
    <3>3. CASE n = client + 1
      BY <1>t, <2>1, <3>2, <3>3
    <3>4. CASE n # client + 1
      BY <1>t, <2>1, <3>2, <3>4 DEF ClientInv
    <3>5. QED
      BY <3>3, <3>4
  <2>4. Live = {}
    BY <2>1 DEF ClientInv, OneLiveClient, Live, Running, Gone, Clients
  <2>5. OneLiveClient'
    BY <1>t, <2>1, <2>2, <2>4 DEF OneLiveClient, Live
  <2>6. \A d \in Calls : pc'[d] \notin {"display", "connecting"}
    BY <1>t, <2>1, OneInside DEF Critical
  <2>7. life' # "stopped"
    BY <2>1 DEF LockInv
  <2>8. QED
    BY <1>t, <2>1, <2>3, <2>5, <2>6, <2>7 DEF ClientInv, NothingLeftBehind
<1>7. ASSUME NEW c \in Calls, LogonEnds(c) PROVE ClientInv'
  <2>1. PICK p \in {"check"} : pc' = [pc EXCEPT ![c] = p]
    BY <1>7 DEF LogonEnds, Leave, At, Goto
  <2>2. UNCHANGED <<client, proc>> /\ life' = life /\ pc[c] = "logon"
    BY <1>7 DEF LogonEnds, Leave, At, Goto, session
  <2>3. proc[client] # "logon"
    BY <1>7 DEF LogonEnds, Gone
  <2>4. QED
    BY <2>1, <2>2, <2>3, ClientInvKept
<1>8. ASSUME NEW c \in Calls, LogonTimeout(c) PROVE ClientInv'
  <2>1. PICK p \in {"killing"} : pc' = [pc EXCEPT ![c] = p]
    BY <1>8 DEF LogonTimeout, Leave, At, Goto
  <2>2. UNCHANGED <<client, proc>> /\ life' = life /\ pc[c] = "logon"
    BY <1>8 DEF LogonTimeout, Leave, At, Goto, session
  <2>3. QED
    BY <2>1, <2>2, ClientInvKept
<1>9. ASSUME NEW c \in Calls, Check(c) PROVE ClientInv'
  <2>1. PICK p \in {"killing", "settling", "waking"} : pc' = [pc EXCEPT ![c] = p]
    BY <1>9 DEF Check, At, Goto, AfterLogon
  <2>2. UNCHANGED <<client, proc>> /\ life' = life /\ pc[c] = "check"
    BY <1>9 DEF Check, At, Goto, AfterLogon, session
  <2>3. QED
    BY <2>1, <2>2, ClientInvKept
<1>10. ASSUME NEW c \in Calls, Kill(c) PROVE ClientInv'
  <2>1. /\ proc' = [proc EXCEPT ![client] = "exited"]
        /\ proc[client] \in {"logon", "mapped"}
        /\ UNCHANGED <<client, pc>> /\ life' = life
    BY <1>10 DEF Kill, call
  <2>2. CASE client = 0
    <3>1. client \notin Clients
      BY <2>2 DEF Clients
    <3>2. proc' = proc
      BY <1>t, <2>1, <3>1
    <3>3. QED
      BY <2>1, <3>2 DEF ClientInv, OneLiveClient, NothingLeftBehind, Live, Running, Gone
  <2>3. CASE client # 0
    <3>1. client \in Clients
      BY <1>t, <2>3 DEF Clients
    <3>2. QED
      BY <2>1, <3>1, ClientMoves
  <2>4. QED
    BY <2>2, <2>3
<1>11. ASSUME NEW c \in Calls, Killed(c) PROVE ClientInv'
  <2>1. PICK p \in {"leaving"} : pc' = [pc EXCEPT ![c] = p]
    BY <1>11 DEF Killed, Leave, At, Goto
  <2>2. UNCHANGED <<client, proc>> /\ life' = life /\ pc[c] = "killing"
    BY <1>11 DEF Killed, Leave, At, Goto, session
  <2>3. proc[client] # "logon"
    BY <1>11 DEF Killed, Gone
  <2>4. QED
    BY <2>1, <2>2, <2>3, ClientInvKept
<1>12. ASSUME NEW c \in Calls, Settle(c) PROVE ClientInv'
  <2>1. PICK p \in {"leaving", "acting"} : pc' = [pc EXCEPT ![c] = p]
    BY <1>12, ActMoves DEF Settle, At, Goto
  <2>2. UNCHANGED <<client, proc>> /\ life' = life /\ pc[c] = "settling"
    BY <1>12 DEF Settle, At, Goto, session
  <2>3. QED
    BY <2>1, <2>2, ClientInvKept
<1>13. ASSUME NEW c \in Calls, Wake(c) PROVE ClientInv'
  <2>1. UNCHANGED <<client, proc>> /\ life' = life /\ pc[c] = "waking"
    BY <1>13 DEF Wake, At
  <2>2. CASE UNCHANGED pc
    BY <2>1, <2>2 DEF ClientInv, OneLiveClient, NothingLeftBehind, Live, Running, Gone
  <2>3. CASE Act(c)
    <3>1. PICK p \in {"leaving", "acting"} : pc' = [pc EXCEPT ![c] = p]
      BY <2>3, ActMoves
    <3>2. QED
      BY <2>1, <3>1, ClientInvKept
  <2>4. QED
    BY <1>13, <2>2, <2>3 DEF Wake
<1>14. ASSUME NEW c \in Calls, Send(c) PROVE ClientInv'
  <2>1. PICK p \in {"leaving", "midway"} : pc' = [pc EXCEPT ![c] = p]
    BY <1>14 DEF Send, Goto
  <2>2. UNCHANGED <<client, proc>> /\ life' = life /\ pc[c] \in {"acting", "midway"}
    BY <1>14 DEF Send, session
  <2>3. QED
    BY <2>1, <2>2, ClientInvKept
<1>15. ASSUME NEW c \in Calls, Unlock(c) PROVE ClientInv'
  <2>1. PICK p \in {"after"} : pc' = [pc EXCEPT ![c] = p]
    BY <1>15 DEF Unlock, Leave, At, Goto
  <2>2. UNCHANGED <<client, proc>> /\ life' = life /\ pc[c] = "leaving"
    BY <1>15 DEF Unlock, Leave, At, Goto, session
  <2>3. QED
    BY <2>1, <2>2, ClientInvKept
<1>16. ASSUME NEW c \in Calls, Continue(c) PROVE ClientInv'
  <2>1. PICK p \in {"done", "awaiting", "locking"} : pc' = [pc EXCEPT ![c] = p]
    BY <1>16 DEF Continue, At, Goto, Answer
  <2>2. UNCHANGED <<client, proc>> /\ life' = life /\ pc[c] = "after"
    BY <1>16 DEF Continue, At, Goto, Answer, session
  <2>3. QED
    BY <2>1, <2>2, ClientInvKept
<1>17. ASSUME NEW c \in Calls, Await(c) PROVE ClientInv'
  <2>1. PICK p \in {"calling"} : pc' = [pc EXCEPT ![c] = p]
    BY <1>17 DEF Await, Leave, At, Goto
  <2>2. UNCHANGED <<client, proc>> /\ life' = life /\ pc[c] = "awaiting"
    BY <1>17 DEF Await, Leave, At, Goto, session
  <2>3. QED
    BY <2>1, <2>2, ClientInvKept
<1>18. ASSUME NEW c \in Calls, AwaitTimeout(c) PROVE ClientInv'
  <2>1. PICK p \in {"done"} : pc' = [pc EXCEPT ![c] = p]
    BY <1>18 DEF AwaitTimeout, At, Answer, Goto
  <2>2. UNCHANGED <<client, proc>> /\ life' = life /\ pc[c] = "awaiting"
    BY <1>18 DEF AwaitTimeout, At, Answer, Goto, session
  <2>3. QED
    BY <2>1, <2>2, ClientInvKept
<1>19. ASSUME NEW c \in Calls, Reply(c) PROVE ClientInv'
  <2>1. PICK p \in {"done"} : pc' = [pc EXCEPT ![c] = p]
    BY <1>19 DEF Reply, At, Answer, Goto
  <2>2. UNCHANGED <<client, proc>> /\ life' = life /\ pc[c] = "calling"
    BY <1>19 DEF Reply, At, Answer, Goto, session
  <2>3. QED
    BY <2>1, <2>2, ClientInvKept
<1>20. ASSUME Stage PROVE ClientInv'
  BY <1>20 DEF Stage, call, session, ClientInv, OneLiveClient, NothingLeftBehind, Live, Running, Gone
<1>21. ASSUME BootKey PROVE ClientInv'
  BY <1>21 DEF BootKey, call, session, ClientInv, OneLiveClient, NothingLeftBehind, Live, Running, Gone
<1>22. ASSUME BootEnds PROVE ClientInv'
  BY <1>22 DEF BootEnds, call, session, ClientInv, OneLiveClient, NothingLeftBehind, Live, Running, Gone
<1>23. ASSUME NEW n \in Clients, MapWindow(n) PROVE ClientInv'
  <2>1. /\ proc' = [proc EXCEPT ![n] = "mapped"]
        /\ proc[n] \in {"logon", "mapped", "exited"}
        /\ UNCHANGED <<client, pc>> /\ life' = life
    BY <1>23 DEF MapWindow, call
  <2>2. QED
    BY <2>1, ClientMoves
<1>24. ASSUME NEW n \in Clients, Exit(n) PROVE ClientInv'
  <2>1. /\ proc' = [proc EXCEPT ![n] = "exited"]
        /\ proc[n] \in {"logon", "mapped", "exited"}
        /\ UNCHANGED <<client, pc>> /\ life' = life
    BY <1>24 DEF Exit, call
  <2>2. QED
    BY <2>1, ClientMoves
<1>25. ASSUME NEW n \in Clients, Reap(n) PROVE ClientInv'
  <2>1. /\ proc' = [proc EXCEPT ![n] = "reaped"]
        /\ proc[n] \in {"logon", "mapped", "exited"}
        /\ UNCHANGED <<client, pc>> /\ life' = life
    BY <1>25 DEF Reap, call
  <2>2. QED
    BY <2>1, ClientMoves
<1>26. ASSUME Shutdown PROVE ClientInv'
  BY <1>26 DEF Shutdown, call, session, ClientInv, OneLiveClient, NothingLeftBehind, Live, Running, Gone
<1>27. ASSUME Stop PROVE ClientInv'
  <2>1. /\ proc' = IF client # 0 THEN [proc EXCEPT ![client] = "reaped"] ELSE proc
        /\ UNCHANGED <<client, pc>>
        /\ \A c \in Calls : pc[c] \in {"idle", "done"}
    BY <1>27 DEF Stop, call
  <2>2. \A n \in Clients : proc'[n] = IF n = client THEN "reaped" ELSE proc[n]
    BY <1>t, <2>1 DEF Clients
  <2>3. Live' = {}
    BY <2>2 DEF ClientInv, OneLiveClient, Live
  <2>4. \A n \in Clients : proc'[n] = "none" <=> n > client
    <3>1. \A n \in Clients : n = client => ~(n > client)
      BY <1>t
    <3>2. QED
      BY <2>2, <3>1 DEF ClientInv
  <2>5. client # 0 => proc'[client] # "logon"
    BY <1>t, <2>2 DEF Clients
  <2>6. QED
    BY <2>1, <2>3, <2>4, <2>5 DEF ClientInv, OneLiveClient, NothingLeftBehind
<1>28. ASSUME UNCHANGED vars PROVE ClientInv'
  BY <1>28 DEF vars, call, session, agent, desktop, ClientInv, OneLiveClient, NothingLeftBehind, Live, Running, Gone
<1>29. QED
  BY <1>1, <1>2, <1>3, <1>4, <1>5, <1>6, <1>7, <1>8, <1>9, <1>10, <1>11, <1>12,
     <1>13, <1>14, <1>15, <1>16, <1>17, <1>18, <1>19, <1>20, <1>21, <1>22, <1>23, <1>24,
     <1>25, <1>26, <1>27, <1>28
     DEF Next, Step, Connect, Bootstrap, Environment, Finished

LEMMA ClientInvAlways == Spec => []ClientInv
BY TypeInvAlways, LockInvAlways, ClientInvInit, ClientInvNext, PTL DEF Spec

(* The controller never takes the session from itself: no client but the   *)
(* current one has a process (ensureConnected, connect, kill).             *)
THEOREM OneClient == Spec => []OneLiveClient
<1>1. ClientInv => OneLiveClient
  BY DEF ClientInv
<1>2. QED
  BY <1>1, ClientInvAlways, PTL

(* No client is left starting when s.mu is free (connect kills it).        *)
THEOREM NoHalfOpen == Spec => []NoHalfOpenSession
<1>1. LockInv /\ ClientInv => NoHalfOpenSession
  BY CallsAssumption DEF LockInv, ClientInv, NoHalfOpenSession, Critical
<1>2. QED
  BY <1>1, LockInvAlways, ClientInvAlways, PTL

(* When the controller has ended, no client runs on (stop).                *)
THEOREM EndsWithItsClient == Spec => []NothingLeftBehind
<1>1. ClientInv => NothingLeftBehind
  BY DEF ClientInv
<1>2. QED
  BY <1>1, ClientInvAlways, PTL
-----------------------------------------------------------------------------
(* The session a call connects or uses is not one that was gone when the   *)
(* call took s.mu; a client that runs is connected or being looked after;  *)
(* and before the first wake has ended nothing has touched the desktop.    *)
LookedAfter == {"logon", "check", "killing", "waking"}
Connected   == {"settling", "acting", "midway"}

UseInv ==
  /\ \A n \in deadAtLock : Gone(n)
  /\ \A c \in Calls : pc[c] \in LookedAfter \cup Connected => client \notin deadAtLock \cup {0}
  /\ ~connected /\ Running => \E c \in Calls : pc[c] \in LookedAfter
  /\ \A c \in Calls : pc[c] \in Connected => connected
  /\ \A c \in Calls : pc[c] = "waking" => ~connected
  /\ last # Nobody \/ boot # "off" => connected

LEMMA UseInvInit == Init => UseInv
BY DEF Init, UseInv, Running, LookedAfter, Connected

(* A call that moves on and leaves the session alone.                      *)
LEMMA UseInvKept ==
  ASSUME TypeInv, UseInv, NEW c \in Calls, NEW p,
         pc' = [pc EXCEPT ![c] = p],
         UNCHANGED <<client, proc, connected, boot, deadAtLock>>,
         last' = last \/ connected,
         p \in LookedAfter \cup Connected =>
           pc[c] \in LookedAfter \cup Connected \/ Running,
         p \in Connected => connected,
         p = "waking" => ~connected,
         pc[c] \in LookedAfter => p \in LookedAfter \/ connected \/ ~Running
  PROVE  UseInv'
<1>1. pc \in [Calls -> PC]
  BY DEF TypeInv, TypeOK
<1>2. Running' = Running /\ \A n \in deadAtLock : Gone(n)'
  BY DEF Running, Gone, UseInv
<1>3. Running => client \notin deadAtLock \cup {0}
  BY DEF Running, UseInv
<1>4. \A d \in Calls :
        pc'[d] \in LookedAfter \cup Connected => client \notin deadAtLock \cup {0}
  BY <1>1, <1>3 DEF UseInv
<1>5. ~connected /\ Running => \E d \in Calls : pc'[d] \in LookedAfter
  BY <1>1 DEF UseInv
<1>6. \A d \in Calls : /\ pc'[d] \in Connected => connected
                       /\ pc'[d] = "waking" => ~connected
  BY <1>1 DEF UseInv
<1>7. QED
  BY <1>2, <1>4, <1>5, <1>6 DEF UseInv

(* A process that moves on, but does not start.                            *)
LEMMA UseInvMoves ==
  ASSUME TypeInv, UseInv, NEW n \in Clients, NEW p \in {"mapped", "exited", "reaped"},
         proc' = [proc EXCEPT ![n] = p], proc[n] # "reaped",
         UNCHANGED <<client, pc, connected, boot, last, deadAtLock>>
  PROVE  UseInv'
<1>1. proc \in [Clients -> {"none", "logon", "mapped", "exited", "reaped"}]
  BY DEF TypeInv, TypeOK
<1>2. \A m : m # n => Gone(m)' = Gone(m)
  BY <1>1 DEF Gone
<1>3. ~Gone(n)
  BY DEF Gone
<1>4. Running' => Running
  BY <1>2, <1>3 DEF Running
<1>5. QED
  BY <1>2, <1>3, <1>4 DEF UseInv

LEMMA UseInvNext ==
  TypeInv /\ LockInv /\ ClientInv /\ UseInv /\ [Next]_vars => UseInv'
<1> SUFFICES ASSUME TypeInv, LockInv, ClientInv, UseInv, [Next]_vars PROVE UseInv'
  OBVIOUS
<1>t. /\ pc \in [Calls -> PC]
      /\ proc \in [Clients -> {"none", "logon", "mapped", "exited", "reaped"}]
      /\ client \in 0..MaxClients /\ MaxClients \in Nat
      /\ deadAtLock \subseteq Clients
  BY BoundsAssumption DEF TypeInv, TypeOK
<1> USE DEF LookedAfter, Connected
<1>1. ASSUME NEW c \in Calls, Call(c) PROVE UseInv'
  <2>1. PICK p \in {"done", "locking"} : pc' = [pc EXCEPT ![c] = p]
    BY <1>1 DEF Call, Leave, At, Goto
  <2>2. UNCHANGED <<client, proc, connected, boot, deadAtLock>> /\ last' = last /\ pc[c] = "idle"
    BY <1>1 DEF Call, Leave, At, Goto, session, agent, desktop
  <2>3. QED
    BY <2>1, <2>2, UseInvKept
<1>2. ASSUME NEW c \in Calls, Lock(c) PROVE UseInv'
  <2>1. /\ pc[c] = "locking" /\ pc' = [pc EXCEPT ![c] = "ensure"]
        /\ deadAtLock' = {n \in Clients : Gone(n)}
        /\ UNCHANGED <<client, proc, connected, boot, last>>
        /\ mu = Nobody
    BY <1>2 DEF Lock, Leave, At, Goto, session, agent, desktop
  <2>2. \A d \in Calls : pc[d] \notin Critical /\ pc'[d] \notin LookedAfter \cup Connected
    BY <1>t, <2>1, CallsAssumption DEF LockInv, Critical
  <2>3. \A n \in deadAtLock' : Gone(n)'
    BY <2>1 DEF Gone
  <2>4. ~(~connected /\ Running)'
    BY <2>1, <2>2 DEF UseInv, Running, Gone, Critical
  <2>5. QED
    BY <2>1, <2>2, <2>3, <2>4 DEF UseInv
<1>3. ASSUME NEW c \in Calls, Ensure(c) PROVE UseInv'
  <2>1. PICK p \in {"leaving", "acting", "connecting", "display"} : pc' = [pc EXCEPT ![c] = p] /\ (p \in {"leaving", "acting"} => Running)
    BY <1>3, ActMoves DEF Ensure, At, Goto
  <2>2. UNCHANGED <<client, proc, connected, boot, deadAtLock>> /\ last' = last /\ pc[c] = "ensure"
    BY <1>3 DEF Ensure, At, Goto, session, agent, desktop
  <2>3. Running => connected
    BY <2>2, OneInside DEF UseInv, Critical
  <2>4. QED
    BY <2>1, <2>2, <2>3, UseInvKept
<1>4. ASSUME NEW c \in Calls, StartDisplay(c) PROVE UseInv'
  <2>1. PICK p \in {"connecting", "leaving"} : pc' = [pc EXCEPT ![c] = p]
    BY <1>4 DEF StartDisplay, At, Goto
  <2>2. UNCHANGED <<client, proc, connected, boot, deadAtLock>> /\ last' = last /\ pc[c] = "display"
    BY <1>4 DEF StartDisplay, At, Goto, session, agent, desktop
  <2>3. QED
    BY <2>1, <2>2, UseInvKept
<1>5. ASSUME NEW c \in Calls, StartFails(c) PROVE UseInv'
  <2>1. PICK p \in {"leaving"} : pc' = [pc EXCEPT ![c] = p]
    BY <1>5 DEF StartFails, Leave, At, Goto
  <2>2. UNCHANGED <<client, proc, connected, boot, deadAtLock>> /\ last' = last /\ pc[c] = "connecting"
    BY <1>5 DEF StartFails, Leave, At, Goto, session, agent, desktop
  <2>3. QED
    BY <2>1, <2>2, UseInvKept
<1>6. ASSUME NEW c \in Calls, StartClient(c) PROVE UseInv'
  <2>1. /\ pc[c] = "connecting" /\ pc' = [pc EXCEPT ![c] = "logon"]
        /\ client' = client + 1 /\ client < MaxClients
        /\ proc' = [proc EXCEPT ![client + 1] = "logon"]
        /\ UNCHANGED <<connected, boot, last, deadAtLock>>
    BY <1>6, StartedIsClient DEF StartClient, Leave, At, Goto, agent, desktop
  <2>2. client + 1 \in Clients /\ client + 1 # 0 /\ client + 1 > client
    BY <1>t, <2>1 DEF Clients
  <2>3. client + 1 \notin deadAtLock
    BY <2>2 DEF ClientInv, UseInv, Gone
  <2>4. \A n \in deadAtLock : Gone(n)'
    BY <1>t, <2>1, <2>3 DEF UseInv, Gone
  <2>5. pc'[c] \in LookedAfter
    BY <1>t, <2>1
  <2>6. \A d \in Calls : d # c => pc'[d] \notin LookedAfter \cup Connected
    BY <1>t, <2>1, OneInside DEF Critical
  <2>7. QED
    BY <1>t, <2>1, <2>2, <2>3, <2>4, <2>5, <2>6 DEF UseInv
<1>7. ASSUME NEW c \in Calls, LogonEnds(c) PROVE UseInv'
  <2>1. PICK p \in {"check"} : pc' = [pc EXCEPT ![c] = p]
    BY <1>7 DEF LogonEnds, Leave, At, Goto
  <2>2. UNCHANGED <<client, proc, connected, boot, deadAtLock>> /\ last' = last /\ pc[c] = "logon"
    BY <1>7 DEF LogonEnds, Leave, At, Goto, session, agent, desktop
  <2>3. QED
    BY <2>1, <2>2, UseInvKept
<1>8. ASSUME NEW c \in Calls, LogonTimeout(c) PROVE UseInv'
  <2>1. PICK p \in {"killing"} : pc' = [pc EXCEPT ![c] = p]
    BY <1>8 DEF LogonTimeout, Leave, At, Goto
  <2>2. UNCHANGED <<client, proc, connected, boot, deadAtLock>> /\ last' = last /\ pc[c] = "logon"
    BY <1>8 DEF LogonTimeout, Leave, At, Goto, session, agent, desktop
  <2>3. QED
    BY <2>1, <2>2, UseInvKept
<1>9. ASSUME NEW c \in Calls, Check(c) PROVE UseInv'
  <2>1. PICK p \in {"killing", "settling", "waking"} : pc' = [pc EXCEPT ![c] = p]
          /\ (p = "killing" => Gone(client))
          /\ (p = "settling" => connected)
          /\ (p = "waking" => ~connected)
    BY <1>9 DEF Check, At, Goto, AfterLogon
  <2>2. UNCHANGED <<client, proc, connected, boot, deadAtLock>> /\ last' = last /\ pc[c] = "check"
    BY <1>9 DEF Check, At, Goto, AfterLogon, session, agent, desktop
  <2>3. QED
    BY <2>1, <2>2, UseInvKept
<1>10. ASSUME NEW c \in Calls, Kill(c) PROVE UseInv'
  <2>1. /\ proc' = [proc EXCEPT ![client] = "exited"]
        /\ proc[client] # "reaped" /\ pc[c] = "killing"
        /\ UNCHANGED <<client, pc, connected, boot, last, deadAtLock>>
    BY <1>10 DEF Kill, At, call, agent, desktop
  <2>2. client \in Clients
    BY <1>t, <2>1 DEF UseInv, Clients
  <2>3. QED
    BY <2>1, <2>2, UseInvMoves
<1>11. ASSUME NEW c \in Calls, Killed(c) PROVE UseInv'
  <2>1. PICK p \in {"leaving"} : pc' = [pc EXCEPT ![c] = p]
    BY <1>11 DEF Killed, Leave, At, Goto
  <2>2. UNCHANGED <<client, proc, connected, boot, deadAtLock>> /\ last' = last /\ pc[c] = "killing"
    BY <1>11 DEF Killed, Leave, At, Goto, session, agent, desktop
  <2>3. ~Running
    BY <1>11 DEF Killed, Running
  <2>4. QED
    BY <2>1, <2>2, <2>3, UseInvKept
<1>12. ASSUME NEW c \in Calls, Settle(c) PROVE UseInv'
  <2>1. PICK p \in {"leaving", "acting"} : pc' = [pc EXCEPT ![c] = p]
    BY <1>12, ActMoves DEF Settle, At, Goto
  <2>2. UNCHANGED <<client, proc, connected, boot, deadAtLock>> /\ last' = last /\ pc[c] = "settling"
    BY <1>12 DEF Settle, At, Goto, session, agent, desktop
  <2>3. connected
    BY <2>2 DEF UseInv
  <2>4. QED
    BY <2>1, <2>2, <2>3, UseInvKept
<1>13. ASSUME NEW c \in Calls, Wake(c) PROVE UseInv'
  <2>1. UNCHANGED <<client, proc, last, deadAtLock>> /\ pc[c] = "waking"
    BY <1>13 DEF Wake, At, desktop
  <2>2. CASE UNCHANGED <<pc, connected, boot>>
    BY <2>1, <2>2 DEF UseInv, Running, Gone
  <2>3. CASE Act(c) /\ connected' = TRUE
    <3>1. PICK p \in {"leaving", "acting"} : pc' = [pc EXCEPT ![c] = p]
      BY <2>3, ActMoves
    <3>2. \A d \in Calls : d # c => pc'[d] \notin LookedAfter \cup Connected
      BY <1>t, <2>1, <3>1, OneInside DEF Critical
    <3>3. client \notin deadAtLock \cup {0} /\ \A n \in deadAtLock : Gone(n)'
      BY <2>1 DEF UseInv, Gone
    <3>4. pc'[c] # "waking"
      BY <1>t, <3>1
    <3>5. QED
      BY <2>1, <2>3, <3>2, <3>3, <3>4 DEF UseInv
  <2>4. QED
    BY <1>13, <2>2, <2>3 DEF Wake
<1>14. ASSUME NEW c \in Calls, Send(c) PROVE UseInv'
  <2>1. PICK p \in {"leaving", "midway"} : pc' = [pc EXCEPT ![c] = p]
    BY <1>14 DEF Send, Goto
  <2>2. UNCHANGED <<client, proc, connected, boot, deadAtLock>>
    BY <1>14 DEF Send, session, agent
  <2>3. pc[c] \in {"acting", "midway"}
    BY <1>14 DEF Send
  <2>4. connected
    BY <2>3 DEF UseInv
  <2>5. QED
    BY <2>1, <2>2, <2>3, <2>4, UseInvKept
<1>15. ASSUME NEW c \in Calls, Unlock(c) PROVE UseInv'
  <2>1. /\ pc[c] = "leaving" /\ pc' = [pc EXCEPT ![c] = "after"]
        /\ deadAtLock' = {}
        /\ UNCHANGED <<client, proc, connected, boot, last>>
    BY <1>15 DEF Unlock, Leave, At, Goto, session, agent, desktop
  <2>2. \A d \in Calls : pc'[d] \notin LookedAfter \cup Connected
    BY <1>t, <2>1, OneInside DEF Critical
  <2>3. ~(~connected /\ Running)
    BY <2>1, OneInside DEF UseInv, Critical
  <2>4. ~(~connected /\ Running)'
    BY <2>1, <2>3 DEF Running, Gone
  <2>5. QED
    BY <2>1, <2>2, <2>4 DEF UseInv
<1>16. ASSUME NEW c \in Calls, Continue(c) PROVE UseInv'
  <2>1. PICK p \in {"done", "awaiting", "locking"} : pc' = [pc EXCEPT ![c] = p]
    BY <1>16 DEF Continue, At, Goto, Answer
  <2>2. UNCHANGED <<client, proc, connected, boot, deadAtLock>> /\ last' = last /\ pc[c] = "after"
    BY <1>16 DEF Continue, At, Goto, Answer, session, agent, desktop
  <2>3. QED
    BY <2>1, <2>2, UseInvKept
<1>17. ASSUME NEW c \in Calls, Await(c) PROVE UseInv'
  <2>1. PICK p \in {"calling"} : pc' = [pc EXCEPT ![c] = p]
    BY <1>17 DEF Await, Leave, At, Goto
  <2>2. UNCHANGED <<client, proc, connected, boot, deadAtLock>> /\ last' = last /\ pc[c] = "awaiting"
    BY <1>17 DEF Await, Leave, At, Goto, session, agent, desktop
  <2>3. QED
    BY <2>1, <2>2, UseInvKept
<1>18. ASSUME NEW c \in Calls, AwaitTimeout(c) PROVE UseInv'
  <2>1. PICK p \in {"done"} : pc' = [pc EXCEPT ![c] = p]
    BY <1>18 DEF AwaitTimeout, At, Answer, Goto
  <2>2. UNCHANGED <<client, proc, connected, boot, deadAtLock>> /\ last' = last /\ pc[c] = "awaiting"
    BY <1>18 DEF AwaitTimeout, At, Answer, Goto, session, agent, desktop
  <2>3. QED
    BY <2>1, <2>2, UseInvKept
<1>19. ASSUME NEW c \in Calls, Reply(c) PROVE UseInv'
  <2>1. PICK p \in {"done"} : pc' = [pc EXCEPT ![c] = p]
    BY <1>19 DEF Reply, At, Answer, Goto
  <2>2. UNCHANGED <<client, proc, connected, boot, deadAtLock>> /\ last' = last /\ pc[c] = "calling"
    BY <1>19 DEF Reply, At, Answer, Goto, session, agent, desktop
  <2>3. QED
    BY <2>1, <2>2, UseInvKept
<1>20. ASSUME Stage PROVE UseInv'
  BY <1>20 DEF Stage, call, session, desktop, UseInv, Running, Gone
<1>21. ASSUME BootKey PROVE UseInv'
  BY <1>21 DEF BootKey, call, session, UseInv, Running, Gone
<1>22. ASSUME BootEnds PROVE UseInv'
  BY <1>22 DEF BootEnds, call, session, desktop, UseInv, Running, Gone
<1>23. ASSUME NEW n \in Clients, MapWindow(n) PROVE UseInv'
  <2>1. /\ proc' = [proc EXCEPT ![n] = "mapped"] /\ proc[n] # "reaped"
        /\ UNCHANGED <<client, pc, connected, boot, last, deadAtLock>>
    BY <1>23 DEF MapWindow, call, agent, desktop
  <2>2. QED
    BY <2>1, UseInvMoves
<1>24. ASSUME NEW n \in Clients, Exit(n) PROVE UseInv'
  <2>1. /\ proc' = [proc EXCEPT ![n] = "exited"] /\ proc[n] # "reaped"
        /\ UNCHANGED <<client, pc, connected, boot, last, deadAtLock>>
    BY <1>24 DEF Exit, call, agent, desktop
  <2>2. QED
    BY <2>1, UseInvMoves
<1>25. ASSUME NEW n \in Clients, Reap(n) PROVE UseInv'
  <2>1. /\ proc' = [proc EXCEPT ![n] = "reaped"] /\ proc[n] # "reaped"
        /\ UNCHANGED <<client, pc, connected, boot, last, deadAtLock>>
    BY <1>25 DEF Reap, call, agent, desktop
  <2>2. QED
    BY <2>1, UseInvMoves
<1>26. ASSUME Shutdown PROVE UseInv'
  BY <1>26 DEF Shutdown, call, session, agent, desktop, UseInv, Running, Gone
<1>27. ASSUME Stop PROVE UseInv'
  <2>1. /\ proc' = IF client # 0 THEN [proc EXCEPT ![client] = "reaped"] ELSE proc
        /\ UNCHANGED <<client, pc, connected, boot, last, deadAtLock>>
    BY <1>27 DEF Stop, call, agent, desktop
  <2>2. CASE client = 0 \/ proc[client] = "reaped"
    <3>1. proc' = proc
      BY <1>t, <2>1, <2>2 DEF Clients
    <3>2. QED
      BY <2>1, <3>1 DEF UseInv, Running, Gone
  <2>3. CASE client # 0 /\ proc[client] # "reaped"
    <3>1. client \in Clients
      BY <1>t, <2>3 DEF Clients
    <3>2. QED
      BY <2>1, <2>3, <3>1, UseInvMoves
  <2>4. QED
    BY <2>2, <2>3
<1>28. ASSUME UNCHANGED vars PROVE UseInv'
  BY <1>28 DEF vars, call, session, agent, desktop, UseInv, Running, Gone
<1>29. QED
  BY <1>1, <1>2, <1>3, <1>4, <1>5, <1>6, <1>7, <1>8, <1>9, <1>10, <1>11, <1>12,
     <1>13, <1>14, <1>15, <1>16, <1>17, <1>18, <1>19, <1>20, <1>21, <1>22, <1>23, <1>24,
     <1>25, <1>26, <1>27, <1>28
     DEF Next, Step, Connect, Bootstrap, Environment, Finished

LEMMA UseInvAlways == Spec => []UseInv
BY TypeInvAlways, LockInvAlways, ClientInvAlways, UseInvInit, UseInvNext, PTL DEF Spec

(* A client known to have exited when a tool took s.mu has been replaced   *)
(* by the time the tool acts (ensureConnected).                            *)
THEOREM ActsOnLiveSession == Spec => []NoInputToDeadSession
<1>1. UseInv => NoInputToDeadSession
  BY DEF UseInv, NoInputToDeadSession, Connected
<1>2. QED
  BY <1>1, UseInvAlways, PTL

(* wake's click and Enter only ever meet a desktop no tool has used        *)
(* (connect).                                                              *)
THEOREM WakesOnlyUnused == Spec => []WakeOnlyUnused
<1>1. UseInv => WakeOnlyUnused
  BY DEF UseInv, WakeOnlyUnused
<1>2. QED
  BY <1>1, UseInvAlways, PTL
-----------------------------------------------------------------------------
(* While the button is down, a drag has only its move and its release left. *)
Drops == {<<"glide", "up">>, <<"up">>}

ButtonInv ==
  button = "down" => \E c \in Calls : pc[c] = "midway" /\ todo[c] \in Drops

LEMMA DropsNext ==
  /\ Head(<<"glide", "up">>) = "glide" /\ Tail(<<"glide", "up">>) = <<"up">>
  /\ Head(<<"up">>) = "up" /\ <<"up">> # <<>>
  /\ <<"glide", "up">> # <<>>
OBVIOUS

(* A step of a call that is not between two inputs.                        *)
LEMMA ButtonInvKept ==
  ASSUME ButtonInv, NEW c \in Calls, pc[c] # "midway", button' = button,
         \A d \in Calls : d # c => pc'[d] = pc[d] /\ todo'[d] = todo[d]
  PROVE  ButtonInv'
BY DEF ButtonInv

LEMMA ButtonInvNext == TypeInv /\ LockInv /\ ButtonInv /\ [Next]_vars => ButtonInv'
<1> SUFFICES ASSUME TypeInv, LockInv, ButtonInv, [Next]_vars PROVE ButtonInv'
  OBVIOUS
<1>t. pc \in [Calls -> PC] /\ todo \in [Calls -> Seq(Input)]
  BY DEF TypeInv, TypeOK
<1>1. ASSUME NEW c \in Calls, Call(c) PROVE ButtonInv'
  <2>1. pc[c] = "idle" /\ button' = button
    BY <1>1 DEF Call, Leave, At, Goto, desktop
  <2>2. \A d \in Calls : d # c => pc'[d] = pc[d] /\ todo'[d] = todo[d]
    BY <1>1, <1>t DEF Call, Leave, At, Goto, call
  <2>3. QED
    BY <2>1, <2>2, ButtonInvKept
<1>2. ASSUME NEW c \in Calls, Lock(c) PROVE ButtonInv'
  <2>1. pc[c] = "locking" /\ button' = button
    BY <1>2 DEF Lock, Leave, At, Goto, desktop
  <2>2. \A d \in Calls : d # c => pc'[d] = pc[d] /\ todo'[d] = todo[d]
    BY <1>2, <1>t DEF Lock, Leave, At, Goto, call
  <2>3. QED
    BY <2>1, <2>2, ButtonInvKept
<1>3. ASSUME NEW c \in Calls, Ensure(c) PROVE ButtonInv'
  <2>1. pc[c] = "ensure" /\ button' = button
    BY <1>3 DEF Ensure, At, Goto, desktop
  <2>2. \A d \in Calls : d # c => pc'[d] = pc[d] /\ todo'[d] = todo[d]
    BY <1>3, <1>t DEF Ensure, At, Goto, Act, call
  <2>3. QED
    BY <2>1, <2>2, ButtonInvKept
<1>4. ASSUME NEW c \in Calls, StartDisplay(c) PROVE ButtonInv'
  <2>1. pc[c] = "display" /\ button' = button
    BY <1>4 DEF StartDisplay, At, Goto, desktop
  <2>2. \A d \in Calls : d # c => pc'[d] = pc[d] /\ todo'[d] = todo[d]
    BY <1>4, <1>t DEF StartDisplay, At, Goto, call
  <2>3. QED
    BY <2>1, <2>2, ButtonInvKept
<1>5. ASSUME NEW c \in Calls, StartFails(c) PROVE ButtonInv'
  <2>1. pc[c] = "connecting" /\ button' = button
    BY <1>5 DEF StartFails, Leave, At, Goto, desktop
  <2>2. \A d \in Calls : d # c => pc'[d] = pc[d] /\ todo'[d] = todo[d]
    BY <1>5, <1>t DEF StartFails, Leave, At, Goto, call
  <2>3. QED
    BY <2>1, <2>2, ButtonInvKept
<1>6. ASSUME NEW c \in Calls, StartClient(c) PROVE ButtonInv'
  <2>1. pc[c] = "connecting" /\ button' = button
    BY <1>6 DEF StartClient, Leave, At, Goto, desktop
  <2>2. \A d \in Calls : d # c => pc'[d] = pc[d] /\ todo'[d] = todo[d]
    BY <1>6, <1>t DEF StartClient, Leave, At, Goto, call
  <2>3. QED
    BY <2>1, <2>2, ButtonInvKept
<1>7. ASSUME NEW c \in Calls, LogonEnds(c) PROVE ButtonInv'
  <2>1. pc[c] = "logon" /\ button' = button
    BY <1>7 DEF LogonEnds, Leave, At, Goto, desktop
  <2>2. \A d \in Calls : d # c => pc'[d] = pc[d] /\ todo'[d] = todo[d]
    BY <1>7, <1>t DEF LogonEnds, Leave, At, Goto, call
  <2>3. QED
    BY <2>1, <2>2, ButtonInvKept
<1>8. ASSUME NEW c \in Calls, LogonTimeout(c) PROVE ButtonInv'
  <2>1. pc[c] = "logon" /\ button' = button
    BY <1>8 DEF LogonTimeout, Leave, At, Goto, desktop
  <2>2. \A d \in Calls : d # c => pc'[d] = pc[d] /\ todo'[d] = todo[d]
    BY <1>8, <1>t DEF LogonTimeout, Leave, At, Goto, call
  <2>3. QED
    BY <2>1, <2>2, ButtonInvKept
<1>9. ASSUME NEW c \in Calls, Check(c) PROVE ButtonInv'
  <2>1. pc[c] = "check" /\ button' = button
    BY <1>9 DEF Check, At, Goto, AfterLogon, desktop
  <2>2. \A d \in Calls : d # c => pc'[d] = pc[d] /\ todo'[d] = todo[d]
    BY <1>9, <1>t DEF Check, At, Goto, AfterLogon, call
  <2>3. QED
    BY <2>1, <2>2, ButtonInvKept
<1>10. ASSUME NEW c \in Calls, Kill(c) PROVE ButtonInv'
  <2>1. pc[c] = "killing" /\ button' = button
    BY <1>10 DEF Kill, Leave, At, Goto, desktop
  <2>2. \A d \in Calls : d # c => pc'[d] = pc[d] /\ todo'[d] = todo[d]
    BY <1>10, <1>t DEF Kill, Leave, At, Goto, call
  <2>3. QED
    BY <2>1, <2>2, ButtonInvKept
<1>11. ASSUME NEW c \in Calls, Killed(c) PROVE ButtonInv'
  <2>1. pc[c] = "killing" /\ button' = button
    BY <1>11 DEF Killed, Leave, At, Goto, desktop
  <2>2. \A d \in Calls : d # c => pc'[d] = pc[d] /\ todo'[d] = todo[d]
    BY <1>11, <1>t DEF Killed, Leave, At, Goto, call
  <2>3. QED
    BY <2>1, <2>2, ButtonInvKept
<1>12. ASSUME NEW c \in Calls, Settle(c) PROVE ButtonInv'
  <2>1. pc[c] = "settling" /\ button' = button
    BY <1>12 DEF Settle, At, Goto, desktop
  <2>2. \A d \in Calls : d # c => pc'[d] = pc[d] /\ todo'[d] = todo[d]
    BY <1>12, <1>t DEF Settle, At, Goto, Act, call
  <2>3. QED
    BY <2>1, <2>2, ButtonInvKept
<1>13. ASSUME NEW c \in Calls, Wake(c) PROVE ButtonInv'
  <2>1. pc[c] = "waking" /\ button' = button
    BY <1>13 DEF Wake, At, desktop
  <2>2. \A d \in Calls : d # c => pc'[d] = pc[d] /\ todo'[d] = todo[d]
    <3>1. CASE UNCHANGED pc /\ todo' = [todo EXCEPT ![c] = Tail(todo[c])]
      BY <1>t, <3>1
    <3>2. CASE Act(c)
      BY <1>t, <3>2 DEF Act, Goto
    <3>3. QED
      BY <1>13, <3>1, <3>2 DEF Wake
  <2>3. QED
    BY <2>1, <2>2, ButtonInvKept
<1>14. ASSUME NEW c \in Calls, Send(c) PROVE ButtonInv'
  <2>1. PICK ok \in BOOLEAN :
          /\ pc[c] \in {"acting", "midway"}
          /\ button' = Button(Head(todo[c]), ok)
          /\ todo' = [todo EXCEPT ![c] = IF ok THEN Tail(todo[c])
                                         ELSE AfterError(Head(todo[c]), Tail(todo[c]))]
          /\ pc' = [pc EXCEPT ![c] = IF todo'[c] = <<>> THEN "leaving" ELSE "midway"]
    BY <1>14 DEF Send, Goto
  <2>2. todo[c] \in Releasing /\ todo[c] # <<>>
    BY <2>1 DEF TypeInv
  <2>3. CASE Head(todo[c]) = "down" /\ ok
    <3>1. todo'[c] = <<"glide", "up">>
      BY <1>t, <2>1, <2>2, <2>3, TailReleases
    <3>2. pc'[c] = "midway"
      BY <1>t, <2>1, <3>1, DropsNext
    <3>3. QED
      BY <3>1, <3>2 DEF ButtonInv, Drops
  <2>4. CASE Head(todo[c]) = "up"
    BY <2>1, <2>4 DEF ButtonInv, Button
  <2>5. CASE Head(todo[c]) # "up" /\ ~(Head(todo[c]) = "down" /\ ok)
    <3>1. button' = button
      BY <2>1, <2>5 DEF Button
    <3>2. CASE button # "down"
      BY <3>1, <3>2 DEF ButtonInv
    <3>3. CASE button = "down"
      <4>1. todo[c] \in Drops
        <5>1. PICK d \in Calls : pc[d] = "midway" /\ todo[d] \in Drops
          BY <3>3 DEF ButtonInv
        <5>2. d = c
          BY <2>1, <5>1, OneInside DEF Critical
        <5>3. QED
          BY <5>1, <5>2
      <4>2. Head(todo[c]) = "glide" /\ Tail(todo[c]) = <<"up">>
        BY <2>5, <4>1, DropsNext DEF Drops
      <4>3. todo'[c] = <<"up">>
        BY <1>t, <2>1, <4>2 DEF AfterError
      <4>4. pc'[c] = "midway"
        BY <1>t, <2>1, <4>3, DropsNext
      <4>5. QED
        BY <4>3, <4>4 DEF ButtonInv, Drops
    <3>4. QED
      BY <3>2, <3>3
  <2>6. QED
    BY <2>3, <2>4, <2>5
<1>15. ASSUME NEW c \in Calls, Unlock(c) PROVE ButtonInv'
  <2>1. pc[c] = "leaving" /\ button' = button
    BY <1>15 DEF Unlock, Leave, At, Goto, desktop
  <2>2. \A d \in Calls : d # c => pc'[d] = pc[d] /\ todo'[d] = todo[d]
    BY <1>15, <1>t DEF Unlock, Leave, At, Goto, call
  <2>3. QED
    BY <2>1, <2>2, ButtonInvKept
<1>16. ASSUME NEW c \in Calls, Continue(c) PROVE ButtonInv'
  <2>1. pc[c] = "after" /\ button' = button
    BY <1>16 DEF Continue, At, Goto, Answer, desktop
  <2>2. \A d \in Calls : d # c => pc'[d] = pc[d] /\ todo'[d] = todo[d]
    BY <1>16, <1>t DEF Continue, At, Goto, Answer, call
  <2>3. QED
    BY <2>1, <2>2, ButtonInvKept
<1>17. ASSUME NEW c \in Calls, Await(c) PROVE ButtonInv'
  <2>1. pc[c] = "awaiting" /\ button' = button
    BY <1>17 DEF Await, Leave, At, Goto, desktop
  <2>2. \A d \in Calls : d # c => pc'[d] = pc[d] /\ todo'[d] = todo[d]
    BY <1>17, <1>t DEF Await, Leave, At, Goto, call
  <2>3. QED
    BY <2>1, <2>2, ButtonInvKept
<1>18. ASSUME NEW c \in Calls, AwaitTimeout(c) PROVE ButtonInv'
  <2>1. pc[c] = "awaiting" /\ button' = button
    BY <1>18 DEF AwaitTimeout, At, Answer, Goto, desktop
  <2>2. \A d \in Calls : d # c => pc'[d] = pc[d] /\ todo'[d] = todo[d]
    BY <1>18, <1>t DEF AwaitTimeout, At, Answer, Goto, call
  <2>3. QED
    BY <2>1, <2>2, ButtonInvKept
<1>19. ASSUME NEW c \in Calls, Reply(c) PROVE ButtonInv'
  <2>1. pc[c] = "calling" /\ button' = button
    BY <1>19 DEF Reply, At, Answer, Goto, desktop
  <2>2. \A d \in Calls : d # c => pc'[d] = pc[d] /\ todo'[d] = todo[d]
    BY <1>19, <1>t DEF Reply, At, Answer, Goto, call
  <2>3. QED
    BY <2>1, <2>2, ButtonInvKept
<1>20. ASSUME Stage PROVE ButtonInv'
  BY <1>20 DEF Stage, call, session, agent, desktop, ButtonInv
<1>21. ASSUME BootKey PROVE ButtonInv'
  BY <1>21 DEF BootKey, call, session, agent, desktop, ButtonInv
<1>22. ASSUME BootEnds PROVE ButtonInv'
  BY <1>22 DEF BootEnds, call, session, agent, desktop, ButtonInv
<1>23. ASSUME NEW n \in Clients, MapWindow(n) PROVE ButtonInv'
  BY <1>23 DEF MapWindow, call, session, agent, desktop, ButtonInv
<1>24. ASSUME NEW n \in Clients, Exit(n) PROVE ButtonInv'
  BY <1>24 DEF Exit, call, session, agent, desktop, ButtonInv
<1>25. ASSUME NEW n \in Clients, Reap(n) PROVE ButtonInv'
  BY <1>25 DEF Reap, call, session, agent, desktop, ButtonInv
<1>26. ASSUME Shutdown PROVE ButtonInv'
  BY <1>26 DEF Shutdown, call, session, agent, desktop, ButtonInv
<1>27. ASSUME Stop PROVE ButtonInv'
  BY <1>27 DEF Stop, call, session, agent, desktop, ButtonInv
<1>28. ASSUME UNCHANGED vars PROVE ButtonInv'
  BY <1>28 DEF vars, call, session, agent, desktop, ButtonInv
<1>29. QED
  BY <1>1, <1>2, <1>3, <1>4, <1>5, <1>6, <1>7, <1>8, <1>9, <1>10, <1>11, <1>12,
     <1>13, <1>14, <1>15, <1>16, <1>17, <1>18, <1>19, <1>20, <1>21, <1>22, <1>23, <1>24,
     <1>25, <1>26, <1>27, <1>28
     DEF Next, Step, Connect, Bootstrap, Environment, Finished

(* A drag that fails does not leave the button held, unless the release    *)
(* itself failed.                                                          *)
THEOREM ReleasesButton == Spec => []ButtonReleased
<1>1. Init => ButtonInv
  BY DEF Init, ButtonInv
<1>2. LockInv /\ ButtonInv => ButtonReleased
  BY CallsAssumption DEF LockInv, ButtonInv, ButtonReleased, Critical
<1>3. QED
  BY <1>1, <1>2, TypeInvAlways, LockInvAlways, ButtonInvNext, PTL DEF Spec
-----------------------------------------------------------------------------
(* What EveryCallReturns rests on.  First: whatever a call waits for, there *)
(* is somebody to bring it about.  The lock is free or held by a call in    *)
(* its critical section; the client that is awaited or killed was started,  *)
(* so its process ends in being reaped; and who is to send has something to *)
(* send.                                                                    *)
WaitsForSomebody ==
  \A c \in Calls :
    /\ pc[c] = "locking" => mu = Nobody \/ \E d \in Calls : mu = d /\ pc[d] \in Critical
    /\ pc[c] \in {"logon", "check", "killing"} => client # 0 /\ proc[client] # "none"
    /\ pc[c] \in {"acting", "midway"} => todo[c] # <<>>

(* The bootstrap gives s.mu back within each of its keystrokes.            *)
CallsHold == mu \in Calls \cup {Nobody}

LEMMA BootHoldsNothing == CallsHold /\ [Next]_vars => CallsHold'
BY DEF CallsHold, Next, Step, Connect, Bootstrap, Environment, Finished, Call, Lock, Ensure,
       StartDisplay, StartFails, StartClient, LogonEnds, LogonTimeout, Check, Kill, Killed,
       Settle, Wake, Send, Unlock, Continue, Await, AwaitTimeout, Reply, Stage, BootKey,
       BootEnds, MapWindow, Exit, Reap, Shutdown, Stop, vars

LEMMA MuHolder == Spec => []CallsHold
<1>1. Init => CallsHold
  BY DEF Init, CallsHold
<1>2. QED
  BY <1>1, BootHoldsNothing, PTL DEF Spec

(* No call on the session waits in vain: there is no deadlock over s.mu    *)
(* (controller_linux.go:251) and no wait for a client that never was.      *)
THEOREM NobodyWaitsInVain == Spec => []WaitsForSomebody
<1>1. TypeInv /\ LockInv /\ ClientInv /\ UseInv /\ CallsHold => WaitsForSomebody
  <2> SUFFICES ASSUME TypeInv, LockInv, ClientInv, UseInv, CallsHold,
                      NEW c \in Calls
               PROVE  /\ mu = Nobody \/ \E d \in Calls : mu = d /\ pc[d] \in Critical
                      /\ pc[c] \in {"logon", "check", "killing"} => client # 0 /\ proc[client] # "none"
                      /\ pc[c] \in {"acting", "midway"} => todo[c] # <<>>
    BY DEF WaitsForSomebody
  <2>1. mu = Nobody \/ \E d \in Calls : mu = d /\ pc[d] \in Critical
    BY DEF LockInv, CallsHold
  <2>2. ASSUME pc[c] \in {"logon", "check", "killing"} PROVE client # 0 /\ proc[client] # "none"
    <3>1. client # 0
      BY <2>2 DEF UseInv, LookedAfter
    <3>2. client \in Clients /\ client \in Nat
      BY <3>1, BoundsAssumption DEF TypeInv, TypeOK, Clients
    <3>3. ~(client > client)
      BY <3>2
    <3>4. QED
      BY <3>1, <3>2, <3>3 DEF ClientInv
  <2>3. pc[c] \in {"acting", "midway"} => todo[c] # <<>>
    BY DEF TypeInv
  <2>4. QED
    BY <2>1, <2>2, <2>3
<1>2. QED
  BY <1>1, MuHolder, TypeInvAlways, LockInvAlways, ClientInvAlways, UseInvAlways, PTL

(* Second: a call goes through the places of the code in one order, a      *)
(* Snapshot with an element list through most of them twice, the second    *)
(* time relaying.                                                          *)
Station(p) ==
  CASE p = "idle" -> 0
    [] p = "locking" -> 1
    [] p = "ensure" -> 2
    [] p = "display" -> 3
    [] p = "connecting" -> 4
    [] p = "logon" -> 5
    [] p = "check" -> 6
    [] p \in {"killing", "settling", "waking"} -> 7
    [] p = "acting" -> 8
    [] p = "midway" -> 9
    [] p = "leaving" -> 10
    [] p = "after" -> 11
    [] p = "awaiting" -> 12
    [] p = "calling" -> 13
    [] p = "done" -> 14

Place(c) == Station(pc[c]) + (IF relaying[c] THEN Station("after") ELSE 0)

Nearer(c) ==
  \/ Place(c)' > Place(c)
  \/ /\ Place(c)' = Place(c)
     /\ todo'[c] = todo[c] \/ Len(todo'[c]) < Len(todo[c])

(* A call that has not come relays nothing yet.                            *)
Unasked == \A c \in Calls : pc[c] = "idle" => ~relaying[c]

LEMMA UnaskedNext == TypeInv /\ Unasked /\ [Next]_vars => Unasked'
<1> SUFFICES ASSUME TypeInv, Unasked, [Next]_vars, NEW d \in Calls, pc'[d] = "idle"
             PROVE  ~relaying'[d]
  BY DEF Unasked
<1>t. pc \in [Calls -> PC] /\ relaying \in [Calls -> BOOLEAN]
  BY DEF TypeInv, TypeOK
<1>1. CASE UNCHANGED pc
  <2>1. relaying' = relaying
    BY <1>t, <1>1 DEF Next, Step, Connect, Bootstrap, Environment, Finished, Call, Lock, Ensure,
       StartDisplay, StartFails, StartClient, LogonEnds, LogonTimeout, Check, Kill, Killed,
       Settle, Wake, Send, Unlock, Continue, Await, AwaitTimeout, Reply, Answer, Stage, BootKey,
       BootEnds, MapWindow, Exit, Reap, Shutdown, Stop, call, vars, Leave, At, Goto
  <2>2. QED
    BY <1>1, <2>1 DEF Unasked
<1>2. ASSUME NEW c \in Calls, Call(c) \/ Step(c) PROVE ~relaying'[d]
  <2>1. \E p \in PC \ {"idle"} : pc' = [pc EXCEPT ![c] = p] \/ pc' = pc
    BY <1>2, ActMoves DEF Step, Connect, Call, Lock, Ensure,
       StartDisplay, StartFails, StartClient, LogonEnds, LogonTimeout, Check, Kill, Killed,
       Settle, Wake, Send, Unlock, Continue, Await, AwaitTimeout, Reply, Answer, call,
       Leave, At, Goto, AfterLogon, PC
  <2>2. d # c \/ pc' = pc
    BY <1>t, <2>1
  <2>3. pc[d] = "idle"
    BY <1>t, <2>1, <2>2
  <2>4. d # c => relaying'[d] = relaying[d]
    BY <1>2, <1>t DEF Step, Connect, Call, Lock, Ensure,
       StartDisplay, StartFails, StartClient, LogonEnds, LogonTimeout, Check, Kill, Killed,
       Settle, Wake, Send, Unlock, Continue, Await, AwaitTimeout, Reply, Answer, call
  <2>5. QED
    BY <1>1, <2>2, <2>3, <2>4 DEF Unasked
<1>3. QED
  BY <1>1, <1>2 DEF Next, Bootstrap, Environment, Finished, Stage, BootKey,
     BootEnds, MapWindow, Exit, Reap, Shutdown, Stop, call, vars

LEMMA UnaskedAlways == Spec => []Unasked
<1>1. Init => Unasked
  BY DEF Init, Unasked
<1>2. QED
  BY <1>1, UnaskedNext, TypeInvAlways, PTL DEF Spec

LEMMA Stations ==
  /\ Station("idle") = 0 /\ Station("locking") = 1 /\ Station("ensure") = 2
  /\ Station("display") = 3 /\ Station("connecting") = 4 /\ Station("logon") = 5
  /\ Station("check") = 6 /\ Station("killing") = 7 /\ Station("settling") = 7
  /\ Station("waking") = 7 /\ Station("acting") = 8 /\ Station("midway") = 9
  /\ Station("leaving") = 10 /\ Station("after") = 11 /\ Station("awaiting") = 12
  /\ Station("calling") = 13 /\ Station("done") = 14
BY DEF Station

LEMMA StationType == \A p \in PC : Station(p) \in 0..14
BY Stations DEF PC

(* A call that moves on.                                                   *)
LEMMA MovesNearer ==
  ASSUME TypeInv, NEW c \in Calls, NEW p \in PC, pc' = [pc EXCEPT ![c] = p],
         Station(p) > Station(pc[c]), relaying' = relaying,
         \A d \in Calls : d # c => todo'[d] = todo[d]
  PROVE  \A d \in Calls : Nearer(d)
<1>1. pc \in [Calls -> PC] /\ relaying \in [Calls -> BOOLEAN]
  BY DEF TypeInv, TypeOK
<1>2. SUFFICES ASSUME NEW d \in Calls PROVE Nearer(d)
  OBVIOUS
<1>3. CASE d = c
  <2>1. pc'[c] = p /\ relaying'[c] = relaying[c]
    BY <1>1
  <2>2. Station(p) \in 0..14 /\ Station(pc[c]) \in 0..14 /\ Station("after") \in 0..14
    BY <1>1, StationType DEF PC
  <2>3. Place(c)' > Place(c)
    BY <2>1, <2>2 DEF Place
  <2>4. QED
    BY <1>3, <2>3 DEF Nearer
<1>4. CASE d # c
  <2>1. pc'[d] = pc[d] /\ relaying'[d] = relaying[d] /\ todo'[d] = todo[d]
    BY <1>1, <1>4
  <2>2. Place(d)' = Place(d)
    BY <2>1 DEF Place
  <2>3. QED
    BY <2>1, <2>2 DEF Nearer
<1>5. QED
  BY <1>3, <1>4

(* What the calls are not part of.                                         *)
LEMMA StaysNear ==
  ASSUME UNCHANGED <<pc, relaying, todo>>
  PROVE  \A d \in Calls : Nearer(d)
BY DEF Nearer, Place

LEMMA TailShorter ==
  ASSUME NEW t \in Seq(Input), t # <<>>
  PROVE  Len(Tail(t)) < Len(t) /\ Len(t) > 0
BY HeadTailProperties, EmptySeq

LEMMA StepsNearer == TypeInv /\ Unasked /\ [Next]_vars => \A c \in Calls : Nearer(c)
<1> SUFFICES ASSUME TypeInv, Unasked, [Next]_vars PROVE \A c \in Calls : Nearer(c)
  OBVIOUS
<1>t. /\ pc \in [Calls -> PC] /\ relaying \in [Calls -> BOOLEAN]
      /\ todo \in [Calls -> Seq(Input)]
  BY DEF TypeInv, TypeOK
<1>1. ASSUME NEW c \in Calls, Call(c) PROVE \A d \in Calls : Nearer(d)
  <2>1. CASE kind[c] = "Agent" /\ ~HasAgent
    <3>1. PICK p \in {"done"} : pc' = [pc EXCEPT ![c] = p]
      BY <1>1, <2>1 DEF Call, Leave, At, Goto
    <3>2. pc[c] = "idle" /\ relaying' = relaying /\ todo' = todo
      BY <1>1, <2>1 DEF Call, Leave, At
    <3>3. Station(p) > Station(pc[c]) /\ p \in PC
      BY <3>1, <3>2, Stations DEF PC
    <3>4. QED
      BY <3>1, <3>2, <3>3, MovesNearer
  <2>2. CASE ~(kind[c] = "Agent" /\ ~HasAgent)
    <3>1. /\ pc' = [pc EXCEPT ![c] = "locking"] /\ pc[c] = "idle" /\ UNCHANGED todo
          /\ \A d \in Calls : d # c => relaying'[d] = relaying[d]
          /\ relaying' \in [Calls -> BOOLEAN]
      BY <1>1, <1>t, <2>2 DEF Call, Leave, At, Goto
    <3>2. relaying[c] = FALSE
      BY <3>1 DEF Unasked
    <3>3. Place(c)' > Place(c)
      BY <1>t, <3>1, <3>2, Stations DEF Place
    <3>4. ASSUME NEW d \in Calls, d # c PROVE Place(d)' = Place(d)
      BY <1>t, <3>1, <3>4 DEF Place
    <3>5. QED
      BY <3>1, <3>3, <3>4 DEF Nearer
  <2>3. QED
    BY <2>1, <2>2
<1>2. ASSUME NEW c \in Calls, Lock(c) PROVE \A d \in Calls : Nearer(d)
  <2>1. PICK p \in {"ensure"} : pc' = [pc EXCEPT ![c] = p]
    BY <1>2 DEF Lock, Leave, At, Goto
  <2>2. pc[c] = "locking" /\ relaying' = relaying /\ todo' = todo
    BY <1>2 DEF Lock, Leave, At, Goto
  <2>3. Station(p) > Station(pc[c]) /\ p \in PC
    BY <2>1, <2>2, Stations DEF PC
  <2>4. QED
    BY <2>1, <2>2, <2>3, MovesNearer
<1>3. ASSUME NEW c \in Calls, Ensure(c) PROVE \A d \in Calls : Nearer(d)
  <2>1. PICK p \in {"leaving", "acting", "connecting", "display"} : pc' = [pc EXCEPT ![c] = p]
    BY <1>3, ActMoves DEF Ensure, Goto
  <2>2. pc[c] = "ensure" /\ relaying' = relaying
    BY <1>3 DEF Ensure, At
  <2>3. \A d \in Calls : d # c => todo'[d] = todo[d]
    BY <1>3, <1>t DEF Ensure, Act
  <2>4. Station(p) > Station(pc[c]) /\ p \in PC
    BY <1>t, <2>1, <2>2, <2>3, Stations DEF PC
  <2>5. QED
    BY <1>t, <2>1, <2>2, <2>3, <2>4, MovesNearer
<1>4. ASSUME NEW c \in Calls, StartDisplay(c) PROVE \A d \in Calls : Nearer(d)
  <2>1. PICK p \in {"connecting", "leaving"} : pc' = [pc EXCEPT ![c] = p]
    BY <1>4 DEF StartDisplay, At, Goto
  <2>2. pc[c] = "display" /\ relaying' = relaying /\ todo' = todo
    BY <1>4 DEF StartDisplay, At, Goto
  <2>3. Station(p) > Station(pc[c]) /\ p \in PC
    BY <2>1, <2>2, Stations DEF PC
  <2>4. QED
    BY <2>1, <2>2, <2>3, MovesNearer
<1>5. ASSUME NEW c \in Calls, StartFails(c) PROVE \A d \in Calls : Nearer(d)
  <2>1. PICK p \in {"leaving"} : pc' = [pc EXCEPT ![c] = p]
    BY <1>5 DEF StartFails, Leave, At, Goto
  <2>2. pc[c] = "connecting" /\ relaying' = relaying /\ todo' = todo
    BY <1>5 DEF StartFails, Leave, At, Goto
  <2>3. Station(p) > Station(pc[c]) /\ p \in PC
    BY <2>1, <2>2, Stations DEF PC
  <2>4. QED
    BY <2>1, <2>2, <2>3, MovesNearer
<1>6. ASSUME NEW c \in Calls, StartClient(c) PROVE \A d \in Calls : Nearer(d)
  <2>1. PICK p \in {"logon"} : pc' = [pc EXCEPT ![c] = p]
    BY <1>6 DEF StartClient, Leave, At, Goto
  <2>2. pc[c] = "connecting" /\ relaying' = relaying /\ todo' = todo
    BY <1>6 DEF StartClient, Leave, At, Goto
  <2>3. Station(p) > Station(pc[c]) /\ p \in PC
    BY <2>1, <2>2, Stations DEF PC
  <2>4. QED
    BY <2>1, <2>2, <2>3, MovesNearer
<1>7. ASSUME NEW c \in Calls, LogonEnds(c) PROVE \A d \in Calls : Nearer(d)
  <2>1. PICK p \in {"check"} : pc' = [pc EXCEPT ![c] = p]
    BY <1>7 DEF LogonEnds, Leave, At, Goto
  <2>2. pc[c] = "logon" /\ relaying' = relaying /\ todo' = todo
    BY <1>7 DEF LogonEnds, Leave, At, Goto
  <2>3. Station(p) > Station(pc[c]) /\ p \in PC
    BY <2>1, <2>2, Stations DEF PC
  <2>4. QED
    BY <2>1, <2>2, <2>3, MovesNearer
<1>8. ASSUME NEW c \in Calls, LogonTimeout(c) PROVE \A d \in Calls : Nearer(d)
  <2>1. PICK p \in {"killing"} : pc' = [pc EXCEPT ![c] = p]
    BY <1>8 DEF LogonTimeout, Leave, At, Goto
  <2>2. pc[c] = "logon" /\ relaying' = relaying /\ todo' = todo
    BY <1>8 DEF LogonTimeout, Leave, At, Goto
  <2>3. Station(p) > Station(pc[c]) /\ p \in PC
    BY <2>1, <2>2, Stations DEF PC
  <2>4. QED
    BY <2>1, <2>2, <2>3, MovesNearer
<1>9. ASSUME NEW c \in Calls, Check(c) PROVE \A d \in Calls : Nearer(d)
  <2>1. PICK p \in {"killing", "settling", "waking"} : pc' = [pc EXCEPT ![c] = p]
    BY <1>9 DEF Check, Goto, AfterLogon
  <2>2. pc[c] = "check" /\ relaying' = relaying
    BY <1>9 DEF Check, At
  <2>3. \A d \in Calls : d # c => todo'[d] = todo[d]
    BY <1>9, <1>t DEF Check
  <2>4. Station(p) > Station(pc[c]) /\ p \in PC
    BY <1>t, <2>1, <2>2, <2>3, Stations DEF PC
  <2>5. QED
    BY <1>t, <2>1, <2>2, <2>3, <2>4, MovesNearer
<1>10. ASSUME NEW c \in Calls, Kill(c) PROVE \A d \in Calls : Nearer(d)
  BY <1>10, StaysNear DEF Kill, call
<1>11. ASSUME NEW c \in Calls, Killed(c) PROVE \A d \in Calls : Nearer(d)
  <2>1. PICK p \in {"leaving"} : pc' = [pc EXCEPT ![c] = p]
    BY <1>11 DEF Killed, Leave, At, Goto
  <2>2. pc[c] = "killing" /\ relaying' = relaying /\ todo' = todo
    BY <1>11 DEF Killed, Leave, At, Goto
  <2>3. Station(p) > Station(pc[c]) /\ p \in PC
    BY <2>1, <2>2, Stations DEF PC
  <2>4. QED
    BY <2>1, <2>2, <2>3, MovesNearer
<1>12. ASSUME NEW c \in Calls, Settle(c) PROVE \A d \in Calls : Nearer(d)
  <2>1. PICK p \in {"leaving", "acting"} : pc' = [pc EXCEPT ![c] = p]
    BY <1>12, ActMoves DEF Settle
  <2>2. pc[c] = "settling" /\ relaying' = relaying
    BY <1>12 DEF Settle, At
  <2>3. \A d \in Calls : d # c => todo'[d] = todo[d]
    BY <1>12, <1>t DEF Settle, Act
  <2>4. Station(p) > Station(pc[c]) /\ p \in PC
    BY <1>t, <2>1, <2>2, <2>3, Stations DEF PC
  <2>5. QED
    BY <1>t, <2>1, <2>2, <2>3, <2>4, MovesNearer
<1>13. ASSUME NEW c \in Calls, Wake(c) PROVE \A d \in Calls : Nearer(d)
  <2>1. CASE Len(todo[c]) > 1
    <3>1. todo' = [todo EXCEPT ![c] = Tail(todo[c])] /\ UNCHANGED <<pc, relaying>>
      BY <1>13, <2>1 DEF Wake
    <3>2. todo[c] \in Seq(Input) /\ todo[c] # <<>>
      BY <1>t, <2>1
    <3>3. Len(todo'[c]) < Len(todo[c])
      BY <1>t, <3>1, <3>2, TailShorter
    <3>4. \A d \in Calls : d # c => todo'[d] = todo[d]
      BY <1>t, <3>1
    <3>5. QED
      BY <3>1, <3>3, <3>4 DEF Nearer, Place
  <2>2. CASE ~(Len(todo[c]) > 1)
    <3>1. PICK p \in {"leaving", "acting"} : pc' = [pc EXCEPT ![c] = p]
      BY <1>13, <2>2, ActMoves DEF Wake
    <3>2. pc[c] = "waking" /\ relaying' = relaying
      BY <1>13 DEF Wake, At
    <3>3. \A d \in Calls : d # c => todo'[d] = todo[d]
      BY <1>13, <1>t, <2>2 DEF Wake, Act
    <3>4. Station(p) > Station(pc[c]) /\ p \in PC
      BY <1>t, <3>1, <3>2, <3>3, Stations DEF PC
    <3>5. QED
      BY <1>t, <3>1, <3>2, <3>3, <3>4, MovesNearer
  <2>3. QED
    BY <2>1, <2>2
<1>14. ASSUME NEW c \in Calls, Send(c) PROVE \A d \in Calls : Nearer(d)
  <2>1. /\ pc[c] \in {"acting", "midway"} /\ relaying' = relaying
        /\ todo[c] \in Seq(Input) /\ todo[c] # <<>>
    BY <1>14, <1>t DEF Send, TypeInv
  <2>2. PICK ok \in BOOLEAN :
          /\ todo' = [todo EXCEPT ![c] = IF ok THEN Tail(todo[c])
                                         ELSE AfterError(Head(todo[c]), Tail(todo[c]))]
          /\ pc' = [pc EXCEPT ![c] = IF todo'[c] = <<>> THEN "leaving" ELSE "midway"]
    BY <1>14 DEF Send, Goto
  <2>3. \A d \in Calls : d # c => todo'[d] = todo[d]
    BY <1>t, <2>2
  <2>4. Len(todo'[c]) < Len(todo[c])
    <3>1. todo'[c] \in {Tail(todo[c]), <<>>}
      BY <1>t, <2>2 DEF AfterError
    <3>2. QED
      BY <2>1, <3>1, TailShorter
  <2>5. CASE pc[c] = "midway" /\ todo'[c] # <<>>
    <3>1. pc' = pc
      BY <1>t, <2>2, <2>5
    <3>2. QED
      BY <2>1, <2>3, <2>4, <3>1 DEF Nearer, Place
  <2>6. CASE ~(pc[c] = "midway" /\ todo'[c] # <<>>)
    <3>1. CASE todo'[c] = <<>>
      <4>1. PICK p \in {"leaving"} : pc' = [pc EXCEPT ![c] = p]
        BY <2>2, <3>1
      <4>2. Station(p) > Station(pc[c]) /\ p \in PC
        BY <2>1, <4>1, Stations DEF PC
      <4>3. QED
        BY <2>1, <2>3, <4>1, <4>2, MovesNearer
    <3>2. CASE todo'[c] # <<>>
      <4>1. PICK p \in {"midway"} : pc' = [pc EXCEPT ![c] = p]
        BY <2>2, <3>2
      <4>2. pc[c] = "acting"
        BY <2>1, <2>6, <3>2
      <4>3. Station(p) > Station(pc[c]) /\ p \in PC
        BY <4>1, <4>2, Stations DEF PC
      <4>4. QED
        BY <2>1, <2>3, <4>1, <4>3, MovesNearer
    <3>3. QED
      BY <3>1, <3>2
  <2>7. QED
    BY <2>5, <2>6
<1>15. ASSUME NEW c \in Calls, Unlock(c) PROVE \A d \in Calls : Nearer(d)
  <2>1. PICK p \in {"after"} : pc' = [pc EXCEPT ![c] = p]
    BY <1>15 DEF Unlock, Leave, At, Goto
  <2>2. pc[c] = "leaving" /\ relaying' = relaying /\ todo' = todo
    BY <1>15 DEF Unlock, Leave, At, Goto
  <2>3. Station(p) > Station(pc[c]) /\ p \in PC
    BY <2>1, <2>2, Stations DEF PC
  <2>4. QED
    BY <2>1, <2>2, <2>3, MovesNearer
<1>16. ASSUME NEW c \in Calls, Continue(c) PROVE \A d \in Calls : Nearer(d)
  <2>1. pc[c] = "after" /\ todo' = todo
    BY <1>16 DEF Continue, At
  <2>2. CASE relaying' = relaying
    <3>1. PICK p \in {"done", "awaiting"} : pc' = [pc EXCEPT ![c] = p]
      BY <1>16, <1>t, <2>2 DEF Continue, Goto, Answer
    <3>2. Station(p) > Station(pc[c]) /\ p \in PC
      BY <2>1, <2>2, <3>1, Stations DEF PC
    <3>3. QED
      BY <2>1, <2>2, <3>1, <3>2, MovesNearer
  <2>3. CASE relaying' # relaying
    <3>1. /\ ~relaying[c] /\ relaying' = [relaying EXCEPT ![c] = TRUE]
          /\ pc' = [pc EXCEPT ![c] = "locking"]
      BY <1>16, <2>3 DEF Continue, Goto, Answer
    <3>2. Place(c)' > Place(c)
      BY <1>t, <2>1, <3>1, Stations DEF Place
    <3>3. ASSUME NEW d \in Calls, d # c PROVE Place(d)' = Place(d)
      BY <1>t, <3>1, <3>3 DEF Place
    <3>4. QED
      BY <2>1, <3>2, <3>3 DEF Nearer
  <2>4. QED
    BY <2>2, <2>3
<1>17. ASSUME NEW c \in Calls, Await(c) PROVE \A d \in Calls : Nearer(d)
  <2>1. PICK p \in {"calling"} : pc' = [pc EXCEPT ![c] = p]
    BY <1>17 DEF Await, Leave, At, Goto
  <2>2. pc[c] = "awaiting" /\ relaying' = relaying /\ todo' = todo
    BY <1>17 DEF Await, Leave, At, Goto
  <2>3. Station(p) > Station(pc[c]) /\ p \in PC
    BY <2>1, <2>2, Stations DEF PC
  <2>4. QED
    BY <2>1, <2>2, <2>3, MovesNearer
<1>18. ASSUME NEW c \in Calls, AwaitTimeout(c) PROVE \A d \in Calls : Nearer(d)
  <2>1. PICK p \in {"done"} : pc' = [pc EXCEPT ![c] = p]
    BY <1>18 DEF AwaitTimeout, At, Goto, Answer
  <2>2. pc[c] = "awaiting" /\ relaying' = relaying /\ todo' = todo
    BY <1>18 DEF AwaitTimeout, At, Goto, Answer
  <2>3. Station(p) > Station(pc[c]) /\ p \in PC
    BY <2>1, <2>2, Stations DEF PC
  <2>4. QED
    BY <2>1, <2>2, <2>3, MovesNearer
<1>19. ASSUME NEW c \in Calls, Reply(c) PROVE \A d \in Calls : Nearer(d)
  <2>1. PICK p \in {"done"} : pc' = [pc EXCEPT ![c] = p]
    BY <1>19 DEF Reply, At, Goto, Answer
  <2>2. pc[c] = "calling" /\ relaying' = relaying /\ todo' = todo
    BY <1>19 DEF Reply, At, Goto, Answer
  <2>3. Station(p) > Station(pc[c]) /\ p \in PC
    BY <2>1, <2>2, Stations DEF PC
  <2>4. QED
    BY <2>1, <2>2, <2>3, MovesNearer
<1>20. ASSUME Bootstrap \/ Shutdown \/ Stop \/ UNCHANGED vars PROVE \A d \in Calls : Nearer(d)
  BY <1>20, StaysNear DEF Bootstrap, Stage, BootKey, BootEnds, Shutdown, Stop, call, vars
<1>21. ASSUME NEW n \in Clients, Environment(n) PROVE \A d \in Calls : Nearer(d)
  BY <1>21, StaysNear DEF Environment, MapWindow, Exit, Reap, call
<1>22. QED
  BY <1>1, <1>2, <1>3, <1>4, <1>5, <1>6, <1>7, <1>8, <1>9, <1>10, <1>11, <1>12,
     <1>13, <1>14, <1>15, <1>16, <1>17, <1>18, <1>19, <1>20, <1>21
     DEF Next, Step, Connect, Finished

(* No call goes in circles: no step, of its own or of another, takes it to *)
(* an earlier place, and one that keeps it where it is leaves it what it   *)
(* had to send, or less.                                                   *)
THEOREM CallsNeverCircle == Spec => [][\A c \in Calls : Nearer(c)]_vars
<1>1. TypeInv /\ Unasked /\ [Next]_vars => [\A c \in Calls : Nearer(c)]_vars
  BY StepsNearer
<1>2. QED
  BY <1>1, TypeInvAlways, UnaskedAlways, PTL DEF Spec
=============================================================================
