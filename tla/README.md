# A formal model of win-rdp-mcp

win-rdp-mcp exposes a Windows machine as MCP tools. The same binary is an
*agent* that runs on Windows (over stdio, streamable HTTP, or the `dir` file
transport) and, on Linux, a *controller* that opens an RDP session with
xfreerdp, drives its desktop with xdotool, pushes the agent into that session
and relays the other tools to it over the redirected drive.

The TLA+ modules here model the parts of it in which several things happen at
once, and the algorithms whose edges a test hardly reaches; TLC checks them on
small instances, and TLAPS proves every safety property they have for every
instance.

## Inventory

| Part | State | Operations | Talks to |
|---|---|---|---|
| Task manager (`tasks.go`, `dispatch` in `tools.go`, introspection in `system.go`) | the map of tasks with status, one semaphore channel per category, one mutex | run (register, wait for a slot, start, finish, release), cancelTask, list, pruneLocked | called by every transport; CancelTask and GetRunningTasks call back into it from inside a task |
| RDP session (`controller_linux.go`) | `xvfb`, `client`, `connected`, mutex `mu`; one xfreerdp process and the goroutine that reaps it | ensureConnected, startDisplay, connect, wake, kill, stop, the desktop tools | tools of the MCP client, the bootstrap, xfreerdp, Xvfb |
| Bootstrap and relay (`controller_agent_linux.go`) | `once`, `up`, the exchange directory | doBootstrap, call | the session (keystrokes under `mu`), the agent (files) |
| Dir transport (`dirserve.go`) | `req/`, `resp/`, `ready` on the redirected drive | serveDir's loop, handleDirRequest, writeDirResponse | the relay (files), the task manager |
| OAuth (`oauth.go`) | the maps of codes and of tokens, one mutex | authorize, token, validateToken, pruneLocked | the HTTP gate |
| HTTP gate (`security.go`, `serveHTTP` in `main.go`) | none beyond its configuration | allowlist, bearer check, fetchValidated | OAuth |
| Options, tiers, config (`main.go`, `tiers.go`, `config.go`) | none after start | parse, merge, resolve, validate | everything at start |
| Pure algorithms (typeText with typingSteps, glideArgs, logTail, fuzzy) | none, except logTail's buffer | one pass over a text, a walk, a piece of a log, two names | the desktop tools, connect's error, the window tools |
| Tool handlers of the agent (`desktop.go`, `system.go`) | none of their own: the input desktop, the session, the clipboard, the processes they start | input tools, captures with captureWithReconnect, OCR, ReconnectSession, Shell and the other tools that run a program, the clipboard tools | the task manager (slots, deadline), the Windows layer |
| Windows layer (`platform_windows.go`) | the keys that are down, the clipboard and its memory | sendInputs in batches, mouseMove, mouseDrag, pressKeys, openClipboard, setClipboard | SendInput, the clipboard API |
| Results and images, window, file, process and registry tools, npm launcher, packaging | none between calls | | Win32, the disk |

What is hard: calls of several clients interleave at every lock, select and
sleep; xfreerdp exits whenever another logon takes the session, and with it the
redirected drive goes; the agent may exit and nothing restarts it; a timeout on
the controller does not stop the work on the agent; cancellation races with the
end of a handler; the calls of one input tool are several to SendInput, each of
which may be taken in part; a session that was listed as disconnected may have a
client again when it is taken over; five system calls of `setClipboard` fail one
by one; a killed program leaves others behind. `PROJECT.json` lists these hazards line by line.

What makes each part correct:

* Task manager: slots balance however a call ends; at most the limit execute;
  a verdict is final and agrees with the answer; a cancelled task that has not
  started never starts; pruning drops only finished tasks, oldest first; every
  call is answered.
* Session: one client process; no input to a client known to have exited; no
  half-open logon left; wake only where nothing has been used; a drag releases
  its button; no mixing of inputs; nothing left at exit; every call returns.
* Relay and dir transport: whole files only; a reply is to that call and the
  agent has handled it; order in a burst; repetition only through a lost
  connection; nothing left behind; written requests are handled.
* OAuth: a code is redeemed once, by the client and with the verifier it was
  issued for; nothing expired is accepted; pruning changes no answer.
* Gate and options: no path to a tool around the allowlist and bearer check; no
  tool enabled that the tiers and lists exclude.
* Agent tools: no key left down unless the caller was told; memory handed to the
  clipboard has one owner and the clipboard is closed on every way out; a
  reconnect says what is true and takes the session from nobody; every call ends.
  (Two of these the code does not keep, see the violations below.)
* Algorithms: the strokes of a text, the points of a walk, the last lines of a
  log and the best alignment of two names are what a plain definition says.

## Modules

`TaskPool` is what the task manager promises: a call enters, is admitted while
its category has room, gets one verdict and leaves with it.

`TaskManager` is `taskManager.run` with its mutex sections as actions: `Start`
(lines 135-143), `Register` (144-147, with the pruning), `Acquire` and `GiveUp`
(the select), `FinishUnacquired`, `Begin` (the second look at the status),
the handlers `Work`, `CancelTask`, `ListRunning`/`ListPending` (two lists, two
locks), `Finish`, `Release` (the deferred receive). `Expire` is the deadline of
`dispatch` or a dropped request. A task is named by its call. `sems` is kept
apart from `pc`, so that `SlotAccounting` says something. It implements
`TaskPool` under the mapping at its end (`ImplementsPool`).

`RdpSession` is the session with everything that shares it. A call takes `mu`
(`Lock`), runs `ensureConnected` step by step (`Ensure`, `StartDisplay`,
`StartClient`, `LogonEnds`, `Check`, then `Wake` or `Settle`), sends the inputs
of its tool one xdotool run at a time (`Send`) and unlocks. A Snapshot then
asks a ready agent for its element list, which takes `mu` again; a relayed tool
waits for the agent. The bootstrap sends each of its keys when nobody holds
`mu`. `MapWindow`, `Exit` and `Reap` are the client process: `running()` is
false once it is *reaped*, a little after it has exited. Inputs are names: what
a tool sends, in order, is a sequence of names, `Dropped` those whose error the
code ignores. xdotool may fail at any input, and does not fail because the
client is gone: the display outlives it.

`DirRpc` is a relayed call from the moment the agent is ready: the request file
(written, then renamed), the agent's loop, the reply file. A file is in `reqs`
or `resps` when its final name is there, and in `cut` when that name's content
is not complete. `drive` is the redirected drive: without it each of the
agent's file operations fails, and the code's reaction to each failure is in
the action. `RelayRpc` is what this promises to a caller, and `DirRpc`
implements it.

`OAuthStore` is the token store with the gate in front of the HTTP server. A
token request takes three steps, as in `handleToken`: `Take` (or `TakeUnknown`)
removes the code under the mutex, `Verify` or `Refuse` checks the request's copy
of the entry without it, `Mint` takes the mutex again, prunes and adds the
token; other requests, `Tick` and `Restart` come in between. An entry that has
expired stays until `Authorize` or `Mint` prunes it or a request that presents
it removes it (`Validate`). A critical section reads the clock once. The
middleware chain is a predicate on requests: `Served` is `AllowlistAdmits` and
then `AuthAdmits`. `CodeGrant` is what the store promises: a code is good for
one exchange, and everything that expires is gone at once. The refinement
mapping hides the entries that are still stored but no longer good. Both use
`PartialMaps`, Go's maps as functions with a changing domain.

`ToolSelection` is how a process comes to serve its tools: `Pick`, `PickBool`,
`PickList` are the precedence chain, `Selected` and `Enabled` the tiers and
lists, `Valid` and `NetworkGate` are `validateOptions`. `Start` and
`StartRefused` are a standalone agent, `Control` a controller, and `Launch` the
agent that a controller's bootstrap starts with `tierFlags`, which reads a
config file of its own.

`AgentCalls` is what the agent does inside the calls of its tools, from the
admission that `TaskManager` models (a guard here) to the answer. `kind` says
which tool a call is for, `call` where its handler is and whether its context is
over. An input tool (`StartInput`) has a list of *batches*, each one call of
`sendInputs`; `Plans` gives the lists each handler may send, with what its
arguments choose. `Inserted` is a batch the system takes whole, `InsertedSome`
one it takes in part, after which the handler sends only what it owes: the
release of a drag (`mouseDrag` joins the two errors). `held` is what is down. A
program runs through `runCommand`: `Run`, `Started` or `NotStarted`, the program
(`Works`, `Exits`), the timeout and the kill (`TimesOut`, `Kill`), and
`CombinedOutput`, which returns when the program has ended *and* nobody holds
its output (`Ended`). `Queried` and `TookOver` are `ensureSessionConnected`,
`Captured` and `CaptureFails` are `captureWithReconnect` and what OCR makes of
the image, which it may also fail to write. A listing has one row per user who
has a session; `ReadsSessions` is `parseUserSession`, which takes whichever row
comes first and that it can make out, the agent's own or another's, or none, and
`Disconnected` is `disconnectedStates`: `KnownWords` says whether the map has
the words of this Windows. Without them every row reads as attached. `tscon`
(`Attaches`) puts the session of that row on the console, and the one it finds
there is left with none. `Opens`, `Empties`, `Allocates`, `Copies`, `Stores`, `Closes` are the
system calls of `setClipboard`, each of which may fail, with `block` the owner of
the memory. The sessions move on their own (`SessionMoves`: clients come and go,
other users log on and off), other processes open the clipboard (`OtherOpens`);
both only while a call is there to notice. A Shell command may leave a process
behind that holds its output (`Computes`), for as long as it likes. `since` is a
history, for the properties: the states each session was in during a call.

Four small modules are the algorithms, each a loop with its variables. `Glide`
is `glideArgs` and the agent's `mouseMove`: `Lengths` is what the rounded and
truncated product may come to; one axis stands for the two, which are computed
alike. `Typing` is `typeText` once it has the session: the loop of `typingSteps`
(`Break`, `Tab`, `Collect`, `Flush`) and then one xdotool per step (`Send`), each
of which may fail after it has typed some of its run (`SendFails`); the click and
the clearing before the text are left out. `LogTail` is `logTail` over a stream of
tokens (a word, the two characters of an end of line, the marks `lastError` looks
for): `Write` takes the lock and appends, `CutLine` is a turn of its loop,
`Release` drops the oldest lines and the lock; its properties are about what a
reader finds who takes that lock. `FuzzyMatch` is `partialRatio` with `lcs` cell
by cell (`Fill`), on the two rows that are swapped (`Swap`) and read at the end
of a window (`Score`). `Subsequences` says which places of a sequence are the
first, second and so on of a set. `MCSequential` runs the four, and
`ToolSelection`, one per behaviour.

The modules meet at the boundaries of the code: the `calling` state of
`RdpSession` is a `DirRpc` call, `Run` of `DirRpc` is a `TaskManager` call, the
handler (`Work`) of `TaskManager` is a call of `AgentCalls`, the surface of
`ToolSelection` is what the agent of `DirRpc` serves, a `Run` step of `Typing` is
one input of `RdpSession`. They are not composed in one specification yet.

## Runs

| Run | Instance | Shows |
|---|---|---|
| `tasks` | 3 calls of Click, CancelTask, GetRunningTasks in five mixes; 1 desktop slot, 2 query slots; history of 1; fair | the safety properties, `ImplementsPool`, `EveryCallAnswered` |
| `tasks_list` | 2 calls | violation of `ListsAllActive` |
| `session` | 2 calls of every pair of tools, 2 clients, up to 2 text or wheel steps; fair | the safety properties of the session, `EveryCallReturns`; no deadlock |
| `session_dialog` | 2 calls, 1 client | violation of `RunDialogUndisturbed` |
| `rpc_safety` | 2 calls, 2 drops of the drive, fair | the safety properties, `ImplementsRelay`, `EveryRelayReturns`, `RequestsHandled` |
| `rpc_once` | 2 calls, 1 drop | violation of `NeverReprocessed` |
| `agent_calls` | 2 calls, 14 pairs of tools that share the input, the sessions, the clipboard or a slot; texts of 1 unit, walks of 2 points; a second user; known words; fair | `StuckKeysReported`, `BlockHasOneOwner`, `ReportedTrueIfKnown`, `NoNeedlessTakeover`, `ReturnsUnlessHeld` |
| `agent_locale` | a reconnect beside an input tool, one user, unknown words | violation of `ReportedTrue` |
| `agent_held` | a Shell call beside a listing, fair | violation of `TimeoutsEndCalls` |
| `oauth_safety` | 2 grants, 2 token requests right and wrong in each field, 1 restart | the safety properties, `ImplementsGrant` |
| `selection` | the sequential parts: the tiers of `tiers.go` with some hundred files and command lines; coordinates -4 to 5 and up to 6 steps; texts of up to 4 of two letters, CR, LF and tab, with and without a Return; streams of 5 tokens in pieces of up to 3, 2 lines kept; names of up to 5 of two runes, cut at 4 | the gates and the precedence; `GlideOnTrack`, `TypedFaithfully`, `TailKeepsNewest`, `CauseReported`, `BestAlignment` |
| `selection_surface` | the tiers, files and command lines | violation of `SameSurface` |

Bounds. Three calls make one execute, one wait and one cancel or list; one
finished task of history makes pruning happen at the second. Two clients make
one reconnect, with a wake before and none after; the third start fails, as a
start may. Two calls meet each other and the bootstrap in every order at every
lock. A drop of the drive falls between any two file operations, and a second
one meets what the first has left over: a request that is handled twice and
then answered over a lost drive. Codes live
for one tick and tokens for two, on a clock that stops at 4: a code may expire
before, during and after its exchange, and a token while another is added. Two
token requests may carry one code, and each of two grants may prune the other.
The files and command lines of `selection` combine all that is said of tiers and
lists with each other, and all that is said of the network with each other.
Two calls of the agent are enough for what they share: one input desktop with
one slot, one console, one clipboard. A third only waits. A second user comes by
only where one call looks at the sessions beside an input tool: what it adds is
the other row, which each call reads by itself. A batch that is cut
and one that is owed after it need a walk of one point; a second point makes the
walk fail between two. In the algorithms every case of the code occurs within
the bounds: a distance that the steps divide and one they do not, both signs; a
run before, between and after breaks, CR LF whole and cut by letters, a failure
at the first step and at a later one; a line that
ends in a later piece, more lines than are kept, an error with a code that has
gone; a window at the start, in the middle and at the end, names that are cut.
In `tasks` and `session` safety and liveness are checked together, so there is no
symmetry; instead the mixes leave out what differs only in which call has which
tool, and beside another tool a Shortcut stands for a Click and a Move, each of
which is one input whose error counts. Symmetry over grants and exchanges is used
in a safety run only.

A run does not repeat what is proved of the same model: the type invariants,
`WithinLimit`, `VerdictIsFinal` and `FoundOnce` are theorems only.

Deadlock is checked in `session`, where the finished
controller is a state of its own. In the other specifications the calls,
requests or starts are a finite set and the system stops when they are done, so
it is not; for the tasks, the relay and the agent's calls the liveness properties
show that nothing is stuck. No OAuth request waits for another beyond a critical section.

Fairness. Every goroutine that can run does (Go's scheduler); the deadlines of
selects, polls and contexts pass; a process that has ended is reaped; a handler
returns once its context is done (`EveryCallAnswered`; for a Shell call that left
a process behind the code does not ensure it, see `TimeoutsEndCalls`). For a mutex weak fairness is
enough in these instances, since other calls are finitely many; in the program
it is Go's mutex that keeps a waiter from starving. Nothing is assumed of the
client, which need neither log on nor exit, of the agent, which need not come
up or answer, or of a reconnect. In `AgentCalls` fairness is per call: its
handler goes on, its timeouts pass, and a program whose context is over is
killed. No program must do its work or exit, and nobody must let go of the
clipboard or of the output of a program: `ReturnsUnlessHeld` says that a call
returns unless an output, its own or that of a call whose slot it waits for, is
held for ever.

Each property of a passing run has a mutant: a plausible bug in a definition,
next to it in the module, under which TLC finds the property violated.

## What the violations say

* `ListsAllActive`: GetRunningTasks reads running tasks, then pending ones,
  under two locks (`system.go:703`); a task that starts in between is missed,
  though the tool promises "all currently running and pending tasks".
* `RunDialogUndisturbed`: the bootstrap holds the session's mutex per keystroke
  (`controller_agent_linux.go:62-78`), so another tool call may send its input
  between Win+R and the command line. The call that opened the session cannot: it
  keeps the mutex until its own inputs are done (`controller_linux.go:656-662`).
* `NeverReprocessed`: `handleDirRequest` ignores the error of `os.Remove`
  (`dirserve.go:124`); if the RDP client exits just then, the request is still
  there after the reconnect and the tool runs twice.
* `SameSurface`: `tierFlags` (`controller_agent_linux.go:94`) leaves a setting
  unsaid where the default would do, and the agent then takes it from a
  `win-rdp-mcp.toml` it finds on the Windows machine. Such a file changes what
  the agent serves, and a tool the controller lists is answered with "not
  enabled on this agent". `SurfaceReproduced` is what does hold.
* `ReportedTrue`: `disconnectedStates` (`desktop.go:398`) has the English and the
  Chinese words for a disconnected session, though its comment says that "the
  tool has to work on a non-English Windows too". In any other language a session
  without a client is read as attached, no `tscon` is run, and ReconnectSession
  answers that it is connected to the console. `ReportedTrueIfKnown` is what does
  hold where the words are known.
* `TimeoutsEndCalls`: `runCommand` (`desktop.go:650`) sets no `WaitDelay`. A
  process that a Shell command leaves behind with its output keeps
  `CombinedOutput` waiting after the command was killed: neither its timeout,
  which is there "so one call cannot occupy a shell slot indefinitely"
  (`system.go:30`), nor the cap of `tools.go:106`, nor CancelTask ends the call.
  Over the exchange directory the agent handles one request at a time, so the
  whole agent waits; `DirRpc` assumes that a handler returns. What does hold is
  `ReturnsUnlessHeld`.

## What the modelling showed besides

None of these is a run: they are remarks on the code, or outside what the
repository promises.

* A command that ends just as its time runs out is reported as timed out with its
  output at hand (`desktop.go:653`).
* A Shell timeout of more than three minutes never comes into effect:
  `toolCallTimeout` ends the context first.
* `setClipboard` empties the clipboard before it has the memory for the new text:
  where the allocation fails, both are lost and the call says so.
* `parseUserSession` takes the first row with a user, whoever that is. Where two
  users have sessions, a reconnect may look at the wrong one: it may find nothing
  to do for a session that is gone, or put another user's session on the console,
  which takes the console from the agent's own. The comment promises "the
  interactive user's session" without saying which, so `ReportedTrueIfKnown` and
  `NoNeedlessTakeover` speak of whichever row was taken.
* The input tools do not look at their context: a drag that was cancelled goes on
  to its end, holding the one desktop slot.

## Proofs

The eight `...Proofs` modules prove every safety property the passing runs check
for every value of the constants. What they assume is what
the modules assume of their constants: the calls are finitely many where slots
or names are counted (`CallsAssumption`), limits are positive
(`LimitAssumption`), tools and kinds come from their sets, bounds and lifetimes
are naturals, tiers are disjoint, a missing config file says nothing
(`NoFileAssumption`), `Boot`, `Nobody`, `NoCall`, `Never` and `Unset` are none of
the values they stand beside. Each theorem follows from an inductive invariant,
proved action by action.

*Task manager.* `SlotInv` adds to `SlotAccounting` that no channel holds more
than its capacity: accounting alone does not say that `Acquire` keeps the limit,
and the limit alone says nothing about the handlers until tokens are counted by
holders. `LifeInv` says which status and answer go with each place of a call,
and that a call is not in the map before it registers: a verdict is final only
because no call starts, finishes or is cancelled from any other place.
`HistoryKeepsNewest` is inductive beside it: `PrunedAreOldest` takes the newest
of the tasks that go, whose newer ones all stay, and a task that went earlier has
either lost nobody newer or has a newer one that goes now, with those behind it.
`PoolStep` maps each action to an action of `TaskPool` or to a stutter.
`WaitersHaveHolders` is what accounting means for a call that waits: a full
channel has a holder.

*RDP session.* `LockInv`: whoever is in the critical section holds `mu`, and
whoever is between two inputs has sent the last one. `ClientInv`: clients are
numbered by their starts, only the last has a process, and it is starting only
while a call is at its logon or kills it; `ensureConnected` is at the display or
the connect only when no client runs. `UseInv`: a client that runs is connected
or some call looks after it; what is used is connected; nothing has been sent
and no bootstrap started before `connected`, which is why a wake is safe.
`ButtonInv`: while the button is down, exactly the move and the release of a
drag are still to come, which follows from the shape of the tools' programs
(`Releasing`, kept by every tail). Two theorems are the safety half of
`EveryCallReturns`: `NobodyWaitsInVain` names who brings about what a call waits
for, and `CallsNeverCircle` orders the places of a call (`Station`), a Snapshot
with an element list passing them twice: no step takes a call to an earlier place,
and one that keeps it where it is leaves it no more to send. The one step of a
call that changes neither is the kill of its own client, which is not repeated.

*Dir transport.* `AgentInv`: no name is ever half-written, and the agent holds a
request exactly while it handles one. `OrderInv`: names are distinct, and a
request the agent has listed or holds was sent. `BudgetInv` counts, per request,
the runs that have been and those that may still come (the file, or a request
read and not removed): the sum grows by a drop of the drive only. `ReplyInv`
counts the replies: being written, in `resp`, or returned, never more than runs.
The two together leave no room for a file once a reply over a drive that held
has been returned. `RequestKept`, the safety half of `RequestsHandled`: a request
leaves the drive only into the agent's hands, and from there only by being run.
`RelayStep` is the refinement of `RelayRpc`.

*OAuth.* `CodeInv`: an entry in the store is the answer its grant was given, and
its code has not been found by anybody. `HeldInv`: an exchange under way holds
the answer of the grant it named and is the only one that found that code; this
is what makes the check outside the lock safe. `TokenInv`: every stored token is
that of a granted exchange, with the instant its client was told, and those
granted and not stored have expired. `GrantStep` maps the lazy store to the
eager one: pruning and `Validate` are stutters, a `Take` of an expired code is a
`Miss`, and a `Tick` forgets in the abstract store whatever expires.

*Tool selection.* `Origin`: a process that runs was started from its file and
flags by `Options`, through `Valid`, with the environment left open. The
properties then follow from the precedence chain alone.

*Agent calls.* `PlaceInv` says which program, memory and input go with each place
of a call of each kind. `OwnerInv` ties the clipboard to the one call inside and
the memory to the last system call that succeeded. `ToldInv`, per row: one that
was read as gone was gone at some moment of the call, and one that was not, where
the words are known, was attached at some moment; that is all a reconnect may
report. The session may have moved since, and `TakenForCause` rests on the moment
it was gone lying within the call. It needs no assumption on the words: a word
that is not known errs to the other side. `InputInv`: at most one call sends (the desktop has one
slot), and a key that is down is either answered for, or will be by the call that
sends: it stands in what that call cut short, or is the button of a drag that
still owes its release. It holds because every other batch of `Plans` lets go of
all it presses, shown for each plan.

*Glide.* `TrackInv`: the pointer stands at one of the points of its step.
`LengthsGrow` compares the points of two steps, whichever way each was rounded,
and `LengthsEnd` the last with the target. Nothing is assumed but that
coordinates are integers and a walk has at least one step.

*Places.* The three text algorithms pick places out of a sequence, and their
properties name the n-th of them. A set of places in a sequence is finite, and
`Rank` counts those up to one: it grows by one at a place and nowhere else
(`RankStep`), so `Nth` is its inverse. This takes the place of an induction over
the sequence.

*Log tail.* `LogInv`, which also holds between two turns of the loop: `partial` is
what the stream has after the last end of line that was cut, line j of `lines` is
the line of the *stream* that many before that end, and there are no fewer than
`Kept` of them unless all are there. When the lock is free nothing is left to cut,
which makes the tail the newest lines (`LogInvTail`); `CauseIsReported` finds the
place of the cause among them.

*Typing.* `TypingInv`: the steps planned, laid end to end, and the run being
collected are the strokes of what the loop has seen of the joined text
(`LaidAppend` for one more step), and what was typed is the steps sent, laid end
to end, with the part a failing one got through. `OneBreakStrokes` says that the
text with its line breaks joined has the strokes of the text: the code drops the
CR of a pair, the definition does not hear its LF, and the two sets of places
have the same rank outside the pair.

*Fuzzy match.* `MatchInv`: the current row up to `column` and the previous row hold
`Common` of the prefixes they stand for, and `best` is the best of the windows
before `start`. A cell is right because of the recurrence of longest alignments
(`LongestEqual`, `LongestDifferent`), proved by moving or dropping the last pair of
an alignment, not by recursion; a table is new for each window, so its first row
and column are zeros. `PerfectIsEqual`: a window scores 100 only if it *is* the
name. Its consequence `ScanNeverEndsEarly` is a remark on the code: names that
occur were answered before the scan (`fuzzy.go:41`), so the `break` at
`fuzzy.go:49` is never reached.

TLC alone covers liveness under fairness (`EveryCallAnswered`,
`EveryCallReturns`, `ReturnsUnlessHeld`, `EveryRelayReturns`, `RequestsHandled`): the prover has no
ENABLED, and no induction over data that would add up the steps of a call. What
they rest on beside fairness is proved where it is not plain: nobody waits for
nothing, nothing goes in circles, nothing is lost.

## Plan

1. A composition `Controller` of session, relay and agent task manager, with the
   exchange directory and shutdown, so that a lost client is one event for the
   session and the drive.
2. The end of `serveHTTP` (the 5 s grace of `Shutdown`) and `fetchValidated` (the
   address that was checked is the one dialled).
3. ScreenRecord and Wait, with the deadline inside the handler; the window tools.
4. For `AgentCalls`, that a call takes boundedly many steps, as `CallsNeverCircle`
   says of the session: a walk, a retried capture and the release a drag owes each
   need a measure of their own.

## Not modelled

* Image encoding and results, the npm launcher, packaging: no control of their
  own.
* File, process, registry and window tools: one system call each and no state
  between calls; what the calls do is the system's. ScreenRecord and Wait.
* `fetchValidated`, the mux and the shutdown of `serveHTTP`, TOML and flag
  parsing, key tables, quoting.
* The callbacks of `syscall.NewCallback`, which are never released
  (`platform_windows.go:292`): a limit of the Go runtime.
* Time beyond the order of events: deadlines may pass at any point where the code
  waits on one. The two axes of a walk are one; a rounding is the error of at
  most one unit in the last place of the quotient.
* The agent's conversion of a point to the 0..65535 of SendInput
  (`platform_windows.go:432`): `GlideOnTrack` is about the points sent, not the
  pixels they come to. An error in reading a reply file that is there
  (`controller_agent_linux.go:156-160`), which ends the call as a reply does.
* The death of Xvfb, which the code never looks for. What xfreerdp and the
  Windows session do inside.
