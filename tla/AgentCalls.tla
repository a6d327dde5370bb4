----------------------------- MODULE AgentCalls -----------------------------
(***************************************************************************)
(* What the Windows agent does inside the calls of its tools: input that   *)
(* SendInput takes in batches, programs that are run and waited for, the   *)
(* session they attach to the console, screen captures retried behind such *)
(* a reconnect, and the clipboard.  Calls of one category share its slots; *)
(* the waiting for a slot is TaskManager's and is a guard here.            *)
(*                                                                         *)
(* The desktop, the sessions of its users, the programs and the processes  *)
(* that compete for the clipboard are the environment.  Every call is one task  *)
(* with its context, which its deadline or CancelTask may end.             *)
(***************************************************************************)
EXTENDS Integers, Sequences, FiniteSets

CONSTANTS
  Calls,
  Workloads,  \* which tools the calls are for: functions from Calls to Kinds
  MaxText,    \* bound: UTF-16 units of a text
  MaxMoves,   \* bound: points of a pointer's walk
  Users,      \* who may have a session on the machine
  Me,         \* whose session the agent lives in
  KnownWords  \* disconnectedStates has the word of this Windows

Inputs     == {"Click", "Type", "Move", "Drag", "Scroll", "Shortcut"}
Captures   == {"Snapshot", "AnnotatedSnapshot", "OCR"}
Reconnects == {"Reconnect", "ForceReconnect"}
Scripts    == {"Shell", "Launch", "Table", "Ping"}
Clipboards == {"GetClipboard", "SetClipboard"}
Kinds      == Inputs \cup Captures \cup Reconnects \cup Scripts \cup Clipboards

ASSUME WorkloadsAssumption == Workloads \subseteq [Calls -> Kinds]
ASSUME BoundsAssumption == MaxText \in Nat /\ MaxMoves \in Nat \ {0}

Nobody == "nobody"  \* has the clipboard open
Other  == "other"   \* a process of the desktop

ASSUME CallsAssumption ==
  IsFiniteSet(Calls) /\ Calls \cap {Nobody, Other, "nothing", "foreign"} = {}
ASSUME UsersAssumption == Me \in Users /\ Nobody \notin Users
ASSUME WordsAssumption == KnownWords \in BOOLEAN

VARIABLES
  kind,     \* the tool each call is for
  call,     \* how far each call is, what it returned, if its context is over
  input,    \* batches to be sent, what is owed whatever fails
  cmd,      \* the program the call runs
  held,     \* keys and buttons that are down
  session,  \* each user's session: on the console, remote, disconnected, none
  since,    \* the states of each since the call began, for the properties
  owner,    \* who has the clipboard open
  content,  \* what is on it
  block     \* the memory of each call: none, ours, system, freed or corrupt

inputVars     == <<input, held>>
sessionVars   == <<session, since>>
clipboardVars == <<owner, content, block>>
vars == <<kind, call, inputVars, cmd, sessionVars, clipboardVars>>

Category(k) ==
  CASE k \in Inputs \cup Captures \cup {"Launch"}        -> "desktop"
    [] k \in Reconnects \cup Clipboards \cup {"Table"}   -> "query"
    [] k = "Shell"                                       -> "shell"
    [] k = "Ping"                                        -> "network"

Limit(category) ==
  CASE category = "desktop" -> 1
    [] category = "query"   -> 10
    [] category = "shell"   -> 3
    [] category = "network" -> 5

Keys == {"left", "right", "middle", "ctrl", "a", "delete", "enter", "win", "d", "unit"}

Events == [op : {"press", "release", "touch"}, key : Keys \cup {"none"}]

NoInput == [todo |-> <<>>, owed |-> <<>>, failed |-> FALSE, cut |-> {}]

NoCommand ==
  [prog |-> "none", proc |-> "none", pipe |-> FALSE, ctx |-> "live",
   row |-> Nobody, gone |-> FALSE]

NewCall == [pc |-> "idle", result |-> "none", retried |-> FALSE, ctx |-> "live"]

Contexts == {"live", "deadline", "cancelled"}
Sessions == {"console", "remote", "gone", "none"}

Places   == {"idle", "sending", "capture", "list", "start", "running", "open", "read",
             "empty", "alloc", "lock", "store", "close", "done"}
Results  == {"none", "ok", "error"}
Programs == {"none", "query", "tscon", "tesseract", "powershell", "ping"}
Stages   == {"none", "running", "worked", "exited", "failed"}
Blocks   == {"none", "ours", "system", "freed", "corrupt"}

CallStates == [pc : Places, result : Results, retried : BOOLEAN, ctx : Contexts]

InputStates ==
  [todo : Seq(Seq(Events)), owed : Seq(Seq(Events)), failed : BOOLEAN, cut : SUBSET Keys]

\* The row is what a listing was read as, or whose session tscon is given.
Commands ==
  [prog : Programs, proc : Stages, pipe : BOOLEAN, ctx : Contexts,
   row : Users \cup {Nobody}, gone : BOOLEAN]

TypeOK ==
  /\ kind \in Workloads
  /\ call \in [Calls -> CallStates]
  /\ input \in [Calls -> InputStates]
  /\ cmd \in [Calls -> Commands]
  /\ held \subseteq Keys
  /\ session \in [Users -> Sessions]
  /\ since \in [Calls -> [Users -> SUBSET Sessions]]
  /\ owner \in Calls \cup {Nobody, Other}
  /\ content \in Calls \cup {"nothing", "foreign"}
  /\ block \in [Calls -> Blocks]

Init ==
  /\ kind \in Workloads
  /\ call = [c \in Calls |-> NewCall]
  /\ input = [c \in Calls |-> NoInput]
  /\ cmd = [c \in Calls |-> NoCommand]
  /\ held = {}
  /\ session \in [Users -> Sessions]
  /\ session[Me] # "none"
  /\ \A u, w \in Users : session[u] = "console" /\ session[w] = "console" => u = w
  /\ since = [c \in Calls |-> [u \in Users |-> {}]]
  /\ owner = Nobody /\ content = "foreign"
  /\ block = [c \in Calls |-> "none"]

-----------------------------------------------------------------------------
(* The life of a call *)

Active(c) == call[c].pc \notin {"idle", "done"}

\* One of the slots of its category is free.
Admitted(c) ==
  /\ call[c].pc = "idle"
  /\ LET category == Category(kind[c])
     IN  Cardinality({d \in Calls : Active(d) /\ Category(kind[d]) = category})
           < Limit(category)

Goes(c, pc) == call' = [call EXCEPT ![c].pc = pc]

\* Its context ends with it.
Returns(c, result) ==
  call' = [call EXCEPT ![c] = [NewCall EXCEPT !.pc = "done", !.result = result]]

\* Only handlers that are given the context look at it.
Contextual == Captures \cup Reconnects \cup Scripts

\* The deadline of the call passes, or CancelTask names it.  A program that runs
\* under the context learns of it.
CallOver(c, why) ==
  /\ Active(c)
  /\ kind[c] \in Contextual
  /\ call[c].ctx = "live"
  /\ call' = [call EXCEPT ![c].ctx = why]
  /\ cmd' = IF call[c].pc = "running" /\ cmd[c].ctx = "live"
            THEN [cmd EXCEPT ![c].ctx = why] ELSE cmd
  /\ UNCHANGED <<kind, inputVars, sessionVars, clipboardVars>>

-----------------------------------------------------------------------------
(* Input *)

Press(k)   == [op |-> "press", key |-> k]
Release(k) == [op |-> "release", key |-> k]
Touch      == [op |-> "touch", key |-> "none"]  \* pointer or wheel

Tap(k) == <<Press(k), Release(k)>>

(* Mutant: the loop that releases the keys stops before the first. *)
ChordDown(keys) ==
  [i \in DOMAIN keys |-> Press(keys[i])]
  \o [i \in 1..(Len(keys) - 1) |-> Release(keys[Len(keys) - i + 1])]

\* Every key down in order, and up in reverse.
Chord(keys) ==
  [i \in DOMAIN keys |-> Press(keys[i])]
  \o [i \in DOMAIN keys |-> Release(keys[Len(keys) - i + 1])]

Unicode(n) == [i \in 1..(2 * n) |-> IF i % 2 = 1 THEN Press("unit") ELSE Release("unit")]

Maybe(batches) == {<<>>, batches}

Moves(n) == [i \in 1..n |-> <<Touch>>]

\* The batches a handler may send, each one call of SendInput.
ClickPlans ==
  {<< <<Touch>> >>}
  \cup {<< <<Touch>> \o Tap(b) >> : b \in {"left", "right", "middle"}}
  \cup {<< <<Touch>> \o Tap(b) \o Tap(b) >> : b \in {"left", "right", "middle"}}

Focus    == << <<Touch>> \o Tap("left") >>
Clearing == <<Chord(<<"ctrl", "a">>), Chord(<<"delete">>)>>
Texts    == {<<Unicode(n)>> : n \in 0..MaxText}
Entering == <<Chord(<<"enter">>)>>

TypePlans ==
  {focus \o clear \o text \o enter :
     focus \in Maybe(Focus), clear \in Maybe(Clearing), text \in Texts, enter \in Maybe(Entering)}

MovePlans == {Moves(n) : n \in 1..MaxMoves}

Grab == << <<Press("left")>> >>

DragPlans == {to \o Grab \o walk : to \in Maybe(Moves(1)), walk \in MovePlans}

ScrollPlans == {<< <<Touch>> >>, << <<Touch, Touch>> >>}

ShortcutPlans == {<<Chord(<<"delete">>)>>, <<Chord(<<"ctrl", "a">>)>>, <<Chord(<<"win", "d">>)>>}

Plans(k) ==
  CASE k = "Click"    -> ClickPlans
    [] k = "Type"     -> TypePlans
    [] k = "Move"     -> MovePlans
    [] k = "Drag"     -> DragPlans
    [] k = "Scroll"   -> ScrollPlans
    [] k = "Shortcut" -> ShortcutPlans

\* What is down once some events have been inserted.
After(down, events) ==
  {k \in Keys :
     \/ \E i \in DOMAIN events :
          /\ events[i] = Press(k)
          /\ \A j \in DOMAIN events : j > i => events[j].key # k
     \/ k \in down /\ \A i \in DOMAIN events : events[i].key # k}

Released(events) == {k \in Keys : \E i \in DOMAIN events : events[i] = Release(k)}

StartInput(c) ==
  /\ kind[c] \in Inputs
  /\ Admitted(c)
  /\ \E plan \in Plans(kind[c]) : input' = [input EXCEPT ![c].todo = plan]
  /\ Goes(c, "sending")
  /\ UNCHANGED <<kind, cmd, held, sessionVars, clipboardVars>>

\* A button or a key with an unknown name; no key, command or name at all.
Refused(c) ==
  /\ kind[c] \in {"Click", "Shortcut", "Shell", "Launch"}
  /\ Admitted(c)
  /\ Returns(c, "error")
  /\ UNCHANGED <<kind, inputVars, cmd, sessionVars, clipboardVars>>

\* Once its button is down a drag owes the release.
Inserted(c) ==
  /\ call[c].pc = "sending"
  /\ input[c].todo # <<>>
  /\ LET batch == Head(input[c].todo)
     IN  /\ held' = After(held, batch)
         /\ input' = [input EXCEPT
              ![c].todo = Tail(@),
              ![c].owed = IF kind[c] = "Drag" /\ batch = <<Press("left")>>
                          THEN << <<Release("left")>> >> ELSE @]
  /\ UNCHANGED <<kind, call, cmd, sessionVars, clipboardVars>>

\* SendInput takes some of the events, and the handler sends nothing more but
\* what it owes.
InsertedSome(c) ==
  /\ call[c].pc = "sending"
  /\ input[c].todo # <<>>
  /\ LET batch == Head(input[c].todo)
     IN  \E n \in 0..(Len(batch) - 1) :
           /\ held' = After(held, SubSeq(batch, 1, n))
           /\ input' = [input EXCEPT
                ![c].todo = <<>>,
                ![c].failed = TRUE,
                ![c].cut = @ \cup Released(SubSeq(batch, n + 1, Len(batch)))]
  /\ UNCHANGED <<kind, call, cmd, sessionVars, clipboardVars>>

Owed(c) == input[c].owed

InputEnds(c) ==
  /\ call[c].pc = "sending"
  /\ input[c].todo = <<>>
  /\ IF Owed(c) # <<>>
     THEN /\ input' = [input EXCEPT ![c].todo = Owed(c), ![c].owed = <<>>]
          /\ UNCHANGED call
     ELSE /\ Returns(c, IF input[c].failed THEN "error" ELSE "ok")
          /\ UNCHANGED input
  /\ UNCHANGED <<kind, cmd, held, sessionVars, clipboardVars>>

-----------------------------------------------------------------------------
(* Programs: runCommand *)

\* runCommand: its context ends with the call's, and with its own timeout.
Run(c, prog) ==
  /\ cmd' = [cmd EXCEPT ![c] = [NoCommand EXCEPT !.prog = prog]]
  /\ Goes(c, "start")

Script(k) == IF k = "Ping" THEN "ping" ELSE "powershell"

StartScript(c) ==
  /\ kind[c] \in Scripts
  /\ Admitted(c)
  /\ Run(c, Script(kind[c]))
  /\ UNCHANGED <<kind, inputVars, sessionVars, clipboardVars>>

Alive(c) == cmd[c].proc \in {"running", "worked"}

Started(c) ==
  /\ call[c].pc = "start"
  /\ call[c].ctx = "live"
  /\ Goes(c, "running")
  /\ cmd' = [cmd EXCEPT ![c].proc = "running"]
  /\ UNCHANGED <<kind, inputVars, sessionVars, clipboardVars>>

(* Mutant: whatever is not on the console is taken for disconnected. *)
OffConsole(u) == session[u] # "console"

\* disconnectedStates, of what the listing says of a user's session.
Disconnected(u) == KnownWords /\ session[u] = "gone"

\* parseUserSession takes the first row with a user that it can make out, whoever
\* that is, or finds none.
ReadsSessions(c) ==
  /\ cmd[c].prog = "query"
  /\ \E row \in {u \in Users : session[u] # "none"} \cup {Nobody} :
       cmd' = [cmd EXCEPT ![c].proc = "worked", ![c].row = row,
                          ![c].gone = row # Nobody /\ Disconnected(row)]
  /\ UNCHANGED session

\* tscon puts a session on the console and leaves the one that was there with none.
Attaches(c) ==
  /\ cmd[c].prog = "tscon"
  /\ session[cmd[c].row] # "none"
  /\ session' = [u \in Users |-> IF u = cmd[c].row THEN "console"
                                 ELSE IF session[u] = "console" THEN "gone" ELSE session[u]]
  /\ cmd' = [cmd EXCEPT ![c].proc = "worked"]

\* A shell command may leave a process behind that inherited its output.
Computes(c) ==
  /\ cmd[c].prog \notin {"query", "tscon"}
  /\ \E pipe \in IF kind[c] = "Shell" THEN BOOLEAN ELSE {FALSE} :
       cmd' = [cmd EXCEPT ![c].proc = "worked", ![c].pipe = pipe]
  /\ UNCHANGED session

\* A call that looks at the sessions lives through what becomes of them.
Lived ==
  since' = [d \in Calls |->
    IF Active(d) /\ kind[d] \in Reconnects \cup Captures
    THEN [u \in Users |-> since[d][u] \cup ({session'[u]} \ {"none"})] ELSE since[d]]

\* The program does what it is run for.
Works(c) ==
  /\ cmd[c].proc = "running"
  /\ ReadsSessions(c) \/ Attaches(c) \/ Computes(c)
  /\ Lived
  /\ UNCHANGED <<kind, call, inputVars, clipboardVars>>

\* With status 0 only if it did its work.
Exits(c) ==
  /\ \/ cmd[c].proc = "worked" /\ cmd' = [cmd EXCEPT ![c].proc = "exited"]
     \/ Alive(c) /\ cmd' = [cmd EXCEPT ![c].proc = "failed"]
  /\ UNCHANGED <<kind, call, inputVars, sessionVars, clipboardVars>>

\* The timeout runs on until CombinedOutput returns.
TimesOut(c) ==
  /\ call[c].pc = "running"
  /\ cmd[c].ctx = "live"
  /\ cmd' = [cmd EXCEPT ![c].ctx = "deadline"]
  /\ UNCHANGED <<kind, call, inputVars, sessionVars, clipboardVars>>

(* Mutant: exec.Command, without the context. *)
KillNever(c) == FALSE /\ UNCHANGED vars

\* exec.CommandContext kills the program, but not what it has started.
Kill(c) ==
  /\ Alive(c)
  /\ cmd[c].ctx # "live"
  /\ cmd' = [cmd EXCEPT ![c].proc = "failed"]
  /\ UNCHANGED <<kind, call, inputVars, sessionVars, clipboardVars>>

\* The last process that holds the output of the program ends.
HolderEnds(c) ==
  /\ cmd[c].pipe
  /\ cmd' = [cmd EXCEPT ![c].pipe = FALSE]
  /\ UNCHANGED <<kind, call, inputVars, sessionVars, clipboardVars>>

\* CombinedOutput waits for the program and for everyone who holds its output.
Ended(c) == call[c].pc = "running" /\ ~Alive(c) /\ ~cmd[c].pipe

Connected(c) ==
  IF kind[c] \in Captures THEN Goes(c, "capture") ELSE Returns(c, "ok")

(* Mutant: what tscon returns is not looked at. *)
CommandErrorButTscon(c) ==
  \/ /\ cmd[c].prog = "tesseract"
     /\ Run(c, "powershell")
  \/ /\ cmd[c].prog # "tesseract"
     /\ IF cmd[c].prog = "tscon" THEN Connected(c) ELSE Returns(c, "error")
     /\ cmd' = [cmd EXCEPT ![c] = NoCommand]

\* OCR falls through to the engine of Windows.  A failure of tscon or query is
\* the call's, or leaves a capture with the error it had.
CommandError(c) ==
  \/ /\ cmd[c].prog = "tesseract"
     /\ Run(c, "powershell")
  \/ /\ cmd[c].prog # "tesseract"
     /\ Returns(c, "error")
     /\ cmd' = [cmd EXCEPT ![c] = NoCommand]

\* The program is missing, or the context is over already.
NotStarted(c) ==
  /\ call[c].pc = "start"
  /\ CommandError(c)
  /\ UNCHANGED <<kind, inputVars, sessionVars, clipboardVars>>

\* A deadline makes an error of any exit; a cancellation may, if the program is
\* not seen to have exited before it is killed.
CommandFails(c) ==
  /\ Ended(c)
  /\ cmd[c].proc # "exited" \/ cmd[c].ctx # "live"
  /\ CommandError(c)
  /\ UNCHANGED <<kind, inputVars, sessionVars, clipboardVars>>

\* What ping wrote is returned, whatever became of it.
PingFails(c) ==
  /\ Ended(c)
  /\ cmd[c].prog = "ping"
  /\ cmd[c].proc # "exited" \/ cmd[c].ctx # "live"
  /\ Returns(c, "ok")
  /\ cmd' = [cmd EXCEPT ![c] = NoCommand]
  /\ UNCHANGED <<kind, inputVars, sessionVars, clipboardVars>>

Succeeded(c) == Ended(c) /\ cmd[c].proc = "exited" /\ cmd[c].ctx # "deadline"

ScriptReturns(c) ==
  /\ Succeeded(c)
  /\ cmd[c].prog \in {"powershell", "tesseract", "ping"}
  /\ Returns(c, "ok")
  /\ cmd' = [cmd EXCEPT ![c] = NoCommand]
  /\ UNCHANGED <<kind, inputVars, sessionVars, clipboardVars>>

-----------------------------------------------------------------------------
(* The sessions: ensureSessionConnected *)

\* What becomes of the sessions outside of these calls, as long as one is to look
\* at them: a client attaches to one, or leaves it with no console; another user
\* logs on or off.
SessionMoves ==
  /\ \E c \in Calls : call[c].pc # "done" /\ kind[c] \in Reconnects \cup Captures
  /\ \E u \in Users :
       \/ session[u] # "remote" /\ session' = [session EXCEPT ![u] = "remote"]
       \/ session[u] = "remote" /\ session' = [session EXCEPT ![u] = "gone"]
       \/ u # Me /\ session[u] # "none" /\ session' = [session EXCEPT ![u] = "none"]
  /\ Lived
  /\ UNCHANGED <<kind, call, inputVars, cmd, clipboardVars>>

StartReconnect(c) ==
  /\ kind[c] \in Reconnects
  /\ Admitted(c)
  /\ Run(c, "query")
  /\ since' = [since EXCEPT ![c] = [u \in Users |-> {session[u]} \ {"none"}]]
  /\ UNCHANGED <<kind, inputVars, session, clipboardVars>>

NeedsConsole(c) == cmd[c].gone \/ kind[c] = "ForceReconnect"

\* The listing has been read; the sessions may be others by now.
Queried(c) ==
  /\ Succeeded(c)
  /\ cmd[c].prog = "query"
  /\ IF cmd[c].row # Nobody /\ NeedsConsole(c)
     THEN /\ cmd' = [cmd EXCEPT ![c] = [NoCommand EXCEPT !.prog = "tscon", !.row = cmd[c].row]]
          /\ Goes(c, "start")
     ELSE /\ IF cmd[c].row = Nobody THEN Returns(c, "error") ELSE Connected(c)
          /\ cmd' = [cmd EXCEPT ![c] = NoCommand]
  /\ UNCHANGED <<kind, inputVars, sessionVars, clipboardVars>>

TookOver(c) ==
  /\ Succeeded(c)
  /\ cmd[c].prog = "tscon"
  /\ Connected(c)
  /\ cmd' = [cmd EXCEPT ![c] = NoCommand]
  /\ UNCHANGED <<kind, inputVars, sessionVars, clipboardVars>>

-----------------------------------------------------------------------------
(* Captures: captureWithReconnect and what follows it *)

\* Snapshot may be told to go without an image.  OCR of a region has one try.
StartCapture(c) ==
  /\ kind[c] \in Captures
  /\ Admitted(c)
  /\ \/ Goes(c, "capture")
     \/ kind[c] = "Snapshot" /\ Goes(c, "list")
     \/ kind[c] = "OCR" /\ call' = [call EXCEPT ![c].pc = "capture", ![c].retried = TRUE]
  /\ since' = [since EXCEPT ![c] = [u \in Users |-> {session[u]} \ {"none"}]]
  /\ UNCHANGED <<kind, inputVars, cmd, session, clipboardVars>>

\* The image is listed with its windows, or written to a file, which may fail, and
\* given to a program that reads it: tesseract, if there is one.
Captured(c) ==
  /\ call[c].pc = "capture"
  /\ session[Me] # "gone"
  /\ \/ /\ kind[c] # "OCR"
        /\ Goes(c, "list")
        /\ UNCHANGED cmd
     \/ /\ kind[c] = "OCR"
        /\ \E prog \in {"tesseract", "powershell"} : Run(c, prog)
     \/ /\ kind[c] = "OCR"
        /\ Returns(c, "error")
        /\ UNCHANGED cmd
  /\ UNCHANGED <<kind, inputVars, sessionVars, clipboardVars>>

\* A session with no console cannot be captured, nor a monitor there is not.
\* The first time the session is looked at; its error is not reported.
CaptureFails(c) ==
  /\ call[c].pc = "capture"
  /\ \/ /\ ~call[c].retried
        /\ cmd' = [cmd EXCEPT ![c] = [NoCommand EXCEPT !.prog = "query"]]
        /\ call' = [call EXCEPT ![c].pc = "start", ![c].retried = TRUE]
     \/ /\ call[c].retried
        /\ Returns(c, "error")
        /\ UNCHANGED cmd
  /\ UNCHANGED <<kind, inputVars, sessionVars, clipboardVars>>

\* The windows must be listed; the controls are left out if they cannot be.
Lists(c) ==
  /\ call[c].pc = "list"
  /\ kind[c] = "Snapshot"
  /\ \E result \in {"ok", "error"} : Returns(c, result)
  /\ UNCHANGED <<kind, inputVars, cmd, sessionVars, clipboardVars>>

\* Here the controls are what the call is for.  With none the image is returned.
Annotates(c) ==
  /\ call[c].pc = "list"
  /\ kind[c] = "AnnotatedSnapshot"
  /\ \E result \in {"ok", "error"} : Returns(c, result)
  /\ UNCHANGED <<kind, inputVars, cmd, sessionVars, clipboardVars>>

-----------------------------------------------------------------------------
(* The clipboard *)

\* Text with a NUL in it is refused before anything is opened.
StartClipboard(c) ==
  /\ kind[c] \in Clipboards
  /\ Admitted(c)
  /\ Goes(c, "open") \/ (kind[c] = "SetClipboard" /\ Returns(c, "error"))
  /\ UNCHANGED <<kind, inputVars, cmd, sessionVars, clipboardVars>>

Opens(c) ==
  /\ call[c].pc = "open"
  /\ owner = Nobody
  /\ owner' = c
  /\ Goes(c, IF kind[c] = "GetClipboard" THEN "read" ELSE "empty")
  /\ UNCHANGED <<kind, inputVars, cmd, sessionVars, content, block>>

\* Ten tries have found it open.
GivesUp(c) ==
  /\ call[c].pc = "open"
  /\ owner # Nobody
  /\ Returns(c, "error")
  /\ UNCHANGED <<kind, inputVars, cmd, sessionVars, clipboardVars>>

Closing(c, result) ==
  call' = [call EXCEPT ![c].pc = "close", ![c].result = result]

Reads(c) ==
  /\ call[c].pc = "read"
  /\ \E result \in {"ok", "error"} : Closing(c, result)
  /\ UNCHANGED <<kind, inputVars, cmd, sessionVars, clipboardVars>>

Empties(c) ==
  /\ call[c].pc = "empty"
  /\ \/ Goes(c, "alloc") /\ content' = "nothing"
     \/ Closing(c, "error") /\ UNCHANGED content
  /\ UNCHANGED <<kind, inputVars, cmd, sessionVars, owner, block>>

Allocates(c) ==
  /\ call[c].pc = "alloc"
  /\ \/ Goes(c, "lock") /\ block' = [block EXCEPT ![c] = "ours"]
     \/ Closing(c, "error") /\ UNCHANGED block
  /\ UNCHANGED <<kind, inputVars, cmd, sessionVars, owner, content>>

\* GlobalFree of memory that is not ours to free corrupts it.
Freed(b) == IF b = "ours" THEN "freed" ELSE "corrupt"

Copies(c) ==
  /\ call[c].pc = "lock"
  /\ \/ Goes(c, "store") /\ UNCHANGED block
     \/ Closing(c, "error") /\ block' = [block EXCEPT ![c] = Freed(@)]
  /\ UNCHANGED <<kind, inputVars, cmd, sessionVars, owner, content>>

(* Mutant: the memory is freed either way. *)
AlwaysFreed(c, stored) ==
  block' = [block EXCEPT ![c] = Freed(IF stored THEN "system" ELSE @)]

\* Ownership passes to the system only if it took the memory.
HandsOver(c, stored) ==
  block' = [block EXCEPT ![c] = IF stored THEN "system" ELSE Freed(@)]

Stores(c) ==
  /\ call[c].pc = "store"
  /\ \E stored \in BOOLEAN :
       /\ HandsOver(c, stored)
       /\ content' = IF stored THEN c ELSE content
       /\ Closing(c, IF stored THEN "ok" ELSE "error")
  /\ UNCHANGED <<kind, inputVars, cmd, sessionVars, owner>>

Closes(c) ==
  /\ call[c].pc = "close"
  /\ owner' = Nobody
  /\ Returns(c, call[c].result)
  /\ UNCHANGED <<kind, inputVars, cmd, sessionVars, content, block>>

OtherOpens ==
  /\ \E c \in Calls : call[c].pc # "done" /\ kind[c] \in Clipboards
  /\ owner = Nobody
  /\ owner' = Other
  /\ UNCHANGED <<kind, call, inputVars, cmd, sessionVars, content, block>>

OtherCloses ==
  /\ owner = Other
  /\ owner' = Nobody
  /\ content' \in {content, "foreign"}
  /\ UNCHANGED <<kind, call, inputVars, cmd, sessionVars, block>>

-----------------------------------------------------------------------------
Handles(c) ==
  \/ StartInput(c) \/ Refused(c)
  \/ Inserted(c) \/ InsertedSome(c) \/ InputEnds(c)
  \/ StartScript(c) \/ Started(c) \/ NotStarted(c)
  \/ CommandFails(c) \/ PingFails(c) \/ ScriptReturns(c)
  \/ StartReconnect(c) \/ Queried(c) \/ TookOver(c)
  \/ StartCapture(c) \/ Captured(c) \/ CaptureFails(c)
  \/ Lists(c) \/ Annotates(c)
  \/ StartClipboard(c) \/ Opens(c) \/ GivesUp(c) \/ Reads(c) \/ Empties(c)
  \/ Allocates(c) \/ Copies(c) \/ Stores(c) \/ Closes(c)

Environment(c) ==
  \/ CallOver(c, "deadline") \/ CallOver(c, "cancelled")
  \/ Works(c) \/ Exits(c) \/ TimesOut(c) \/ Kill(c) \/ HolderEnds(c)

Next ==
  \/ \E c \in Calls : Handles(c) \/ Environment(c)
  \/ SessionMoves \/ OtherOpens \/ OtherCloses

Spec == Init /\ [][Next]_vars

\* What moves a call on: its handler, the timeout of its program and the kill.
Progress(c) == Handles(c) \/ TimesOut(c) \/ Kill(c)

\* Each of these steps a call can make a bounded number of times, so it is enough
\* that some of them go on happening.  Nobody must do their work, exit, or let go
\* of the clipboard or of the output of a program.
Fairness == \A c \in Calls : WF_vars(Progress(c))

FairSpec == Spec /\ Fairness
-----------------------------------------------------------------------------
(* Properties *)

\* Between calls that use the input nothing is down that no call has answered
\* for: a key or button stays down only if the system took just part of a batch
\* that was to release it, and the call of that batch returned an error.  The
\* release a drag owes is sent whatever failed before.
StuckKeysReported ==
  (\A c \in Calls : call[c].pc # "sending") =>
    \A k \in held :
      \E c \in Calls : call[c].pc = "done" /\ call[c].result = "error" /\ k \in input[c].cut

\* The memory of a text belongs to one: what is on the clipboard is memory the
\* system owns, a call that is over owns none, none is freed twice or under the
\* system, and the clipboard is open only while a call is inside.
BlockHasOneOwner ==
  \A c \in Calls :
    /\ block[c] # "corrupt"
    /\ content = c => block[c] = "system"
    /\ call[c].pc = "done" => block[c] # "ours"
    /\ call[c].pc = "done" /\ kind[c] = "SetClipboard" =>
         (call[c].result = "ok" <=> block[c] = "system")
    /\ owner = c <=>
         call[c].pc \in {"read", "empty", "alloc", "lock", "store", "close"}

\* "Session connected to console" is said, where the words of the listing are
\* known, only if some user's session was attached at some moment of the call:
\* the agent's own if nobody else had one.  Of a forced one it is said only if a
\* session was put on the console, whatever the words.
ReportedTrueIfKnown ==
  \A c \in Calls :
    call[c].pc = "done" /\ call[c].result = "ok" =>
      /\ kind[c] = "Reconnect" /\ KnownWords =>
           \E u \in Users : since[c][u] \cap {"console", "remote"} # {}
      /\ kind[c] = "ForceReconnect" => \E u \in Users : "console" \in since[c][u]

\* "The tool has to work on a non-English Windows too" (desktop.go:396-397): it
\* says that the session is connected only if the agent's own was, at some moment
\* of the call.
ReportedTrue ==
  \A c \in Calls :
    call[c].pc = "done" /\ call[c].result = "ok" /\ kind[c] \in Reconnects =>
      since[c][Me] \cap {"console", "remote"} # {}

\* A session in use is taken from its client only by force, or by a call in
\* whose time it was disconnected: never because it is merely remote.
NoNeedlessTakeover ==
  [][\A u \in Users :
       session[u] = "remote" /\ session'[u] = "console" =>
         \E c \in Calls :
           /\ cmd[c].prog = "tscon" /\ cmd[c].row = u /\ cmd'[c].proc # cmd[c].proc
           /\ kind[c] = "ForceReconnect" \/ "gone" \in since[c][u]]_vars

\* The output of the call's program is held by what the program has left behind,
\* or that of a call which has the slot this one waits for.
Held(c) ==
  \/ cmd[c].pipe
  \/ /\ call[c].pc = "idle" /\ ~Admitted(c)
     /\ \E d \in Calls : cmd[d].pipe /\ Category(kind[d]) = Category(kind[c])

\* Every call gets its slot and returns, however its program behaves and however
\* long the clipboard is held, unless an output is held for ever: programs are
\* killed in the end, tries run out.
ReturnsUnlessHeld == \A c \in Calls : <>(call[c].pc = "done") \/ <>[]Held(c)

\* The timeout is there "so one call cannot occupy a shell slot indefinitely"
\* (system.go:30-31), and another "caps one call's total wall clock"
\* (tools.go:106-107): every call returns.
TimeoutsEndCalls == \A c \in Calls : <>(call[c].pc = "done")
=============================================================================
