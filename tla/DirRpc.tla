------------------------------- MODULE DirRpc -------------------------------
(***************************************************************************)
(* The file exchange between the controller and the in-session agent: the  *)
(* second half of agentProxy.call (controller_agent_linux.go) and the loop *)
(* of serveDir (dirserve.go).  A call is a request file and a response     *)
(* file on the drive that the RDP client redirects into the session.       *)
(*                                                                         *)
(* The controller works on its local directory.  The agent sees the same   *)
(* files through the drive, which is gone while no RDP client runs: each   *)
(* of its file operations then fails, and it carries on.                   *)
(***************************************************************************)
EXTENDS Integers, FiniteSets

CONSTANTS
  Calls,        \* tool calls that have found the agent ready
  MaxDrops,     \* bound: how often the RDP client goes away
  NoCall        \* what the agent handles between two requests

ASSUME CallsAssumption == IsFiniteSet(Calls) /\ NoCall \notin Calls
ASSUME DropsAssumption == MaxDrops \in Nat

VARIABLES
  pc,           \* where each call is in agentProxy.call
  id,           \* the name of its request, by rank; 0 before it has one
  answer,       \* what the call returns
  reqs,         \* the requests with a .json file in req
  resps,        \* the replies with a .json file in resp
  cut,          \* names of either whose file is not fully written
  drive,        \* the redirected drive is there
  drops,        \* how often it has gone
  agent,        \* where the agent's loop is
  batch,        \* the names it has listed and not yet handled
  cur,          \* the request it is handling
  torn,         \* it has read a request that was not fully written
  runs          \* how often runDirTool has run each request (history)

vars == <<pc, id, answer, reqs, resps, cut, drive, drops, agent, batch, cur, torn, runs>>
caller == <<pc, id, answer>>
files  == <<reqs, resps, cut>>
loop   == <<agent, batch, cur, torn>>

Ids    == 1..Cardinality(Calls)
Answer == {"none", "reply", "unsent", "timeout", "garbled"}
File(dir, c) == <<dir, c>>

TypeOK ==
  /\ pc \in [Calls -> {"idle", "named", "written", "sent", "seen", "done"}]
  /\ id \in [Calls -> Ids \cup {0}]
  /\ answer \in [Calls -> Answer]
  /\ reqs \subseteq Calls
  /\ resps \subseteq Calls
  /\ cut \subseteq {"req", "resp"} \X Calls
  /\ drive \in BOOLEAN
  /\ drops \in 0..MaxDrops
  /\ agent \in {"loop", "open", "read", "run", "write", "rename", "gone"}
  /\ batch \subseteq Calls
  /\ cur \in Calls \cup {NoCall}
  /\ torn \in BOOLEAN
  /\ runs \in [Calls -> Nat]

Init ==
  /\ pc = [c \in Calls |-> "idle"]
  /\ id = [c \in Calls |-> 0]
  /\ answer = [c \in Calls |-> "none"]
  /\ reqs = {}
  /\ resps = {}
  /\ cut = {}
  /\ drive = TRUE
  /\ drops = 0
  /\ agent = "loop"
  /\ batch = {}
  /\ cur = NoCall
  /\ torn = FALSE
  /\ runs = [c \in Calls |-> 0]

Goto(c, from, to) ==
  /\ pc[c] = from
  /\ pc' = [pc EXCEPT ![c] = to]
Return(c, from, what) ==
  /\ Goto(c, from, "done")
  /\ answer' = [answer EXCEPT ![c] = what]
-----------------------------------------------------------------------------
(* The controller.  newRPCID: the millisecond and a random suffix, so the  *)
(* ids of calls close in time come in any order.                           *)
Name(c) ==
  /\ Goto(c, "idle", "named")
  /\ \E n \in Ids : /\ \A d \in Calls : id[d] # n
                    /\ id' = [id EXCEPT ![c] = n]
  /\ UNCHANGED <<answer, files, drive, drops, loop, runs>>

(* Mutant: the request is written in place, under its final name.          *)
WriteRequestInPlace(c) ==
  /\ Goto(c, "named", "written")
  /\ reqs' = reqs \cup {c}
  /\ cut' = cut \cup {File("req", c)}
  /\ UNCHANGED <<id, answer, resps, drive, drops, loop, runs>>
(* writeAtomic: the data under a name the agent does not look at, ...      *)
WriteRequest(c) ==
  /\ Goto(c, "named", "written")
  /\ UNCHANGED <<id, answer, files, drive, drops, loop, runs>>

(* ... and the rename.                                                     *)
RenameRequest(c) ==
  /\ Goto(c, "written", "sent")
  /\ reqs' = reqs \cup {c}
  /\ cut' = cut \ {File("req", c)}
  /\ UNCHANGED <<id, answer, resps, drive, drops, loop, runs>>

(* The local disk refuses either.                                          *)
RequestFails(c) ==
  /\ \/ Return(c, "named", "unsent")
     \/ Return(c, "written", "unsent")
  /\ UNCHANGED <<id, files, drive, drops, loop, runs>>

SeeReply(c) ==
  /\ c \in resps
  /\ Goto(c, "sent", "seen")
  /\ UNCHANGED <<id, answer, files, drive, drops, loop, runs>>

(* Mutant: the reply file is left where it is.                             *)
ReadReplyOnly(c) ==
  /\ Return(c, "seen", IF File("resp", c) \in cut THEN "garbled" ELSE "reply")
  /\ UNCHANGED <<id, files, drive, drops, loop, runs>>
(* The reply is read, removed, and decoded.                                *)
ReadReply(c) ==
  /\ Return(c, "seen", IF File("resp", c) \in cut THEN "garbled" ELSE "reply")
  /\ resps' = resps \ {c}
  /\ UNCHANGED <<id, reqs, cut, drive, drops, loop, runs>>

(* Mutant: the poll has no deadline of its own.                            *)
TimeOutNever(c) == Return(c, "sent", "timeout") /\ FALSE
(* toolCallTimeout, or the context of the call.  The request stays.        *)
TimeOut(c) ==
  /\ Return(c, "sent", "timeout")
  /\ UNCHANGED <<id, files, drive, drops, loop, runs>>
-----------------------------------------------------------------------------
(* The agent, one request at a time.                                       *)
Tick ==
  /\ agent = "loop" /\ batch = {}
  /\ drive
  /\ reqs # {}
  /\ batch' = reqs
  /\ UNCHANGED <<caller, files, drive, drops, agent, cur, torn, runs>>

(* Mutant: the listing is not sorted.                                      *)
NextOfAny(B) == B
(* sort.Strings: the oldest id first.                                      *)
NextOf(B) == {c \in B : \A d \in B : id[c] <= id[d]}

Pick ==
  /\ agent = "loop"
  /\ \E c \in NextOf(batch) : cur' = c /\ batch' = batch \ {c}
  /\ agent' = "open"
  /\ UNCHANGED <<caller, files, drive, drops, torn, runs>>

(* handleDirRequest, os.ReadFile.                                          *)
ReadRequest ==
  /\ agent = "open"
  /\ IF drive /\ cur \in reqs
       THEN /\ agent' = "read"
            /\ torn' = (File("req", cur) \in cut)
            /\ UNCHANGED cur
       ELSE agent' = "loop" /\ cur' = NoCall /\ UNCHANGED torn
  /\ UNCHANGED <<caller, files, drive, drops, batch, runs>>

(* Mutant: the request is not removed.                                     *)
RemoveNothing ==
  /\ agent = "read"
  /\ agent' = "run"
  /\ UNCHANGED <<caller, files, drive, drops, batch, cur, torn, runs>>
(* Mutant: the whole directory is cleared.                                 *)
RemoveAll ==
  /\ agent = "read"
  /\ agent' = "run"
  /\ reqs' = {}
  /\ UNCHANGED <<caller, resps, cut, drive, drops, batch, cur, torn, runs>>
(* os.Remove, whose error is dropped, and the decoding: a request that is  *)
(* not all there is dropped too.                                           *)
RemoveRequest ==
  /\ agent = "read"
  /\ reqs' = IF drive THEN reqs \ {cur} ELSE reqs
  /\ IF torn THEN agent' = "loop" /\ cur' = NoCall
     ELSE agent' = "run" /\ UNCHANGED cur
  /\ UNCHANGED <<caller, resps, cut, drive, drops, batch, torn, runs>>

(* runDirTool: refused, failed or done, it makes a reply.                  *)
Run ==
  /\ agent = "run"
  /\ agent' = "write"
  /\ runs' = [runs EXCEPT ![cur] = @ + 1]
  /\ UNCHANGED <<caller, files, drive, drops, batch, cur, torn>>

(* Mutant: the reply is written in place.                                  *)
WriteReplyInPlace ==
  /\ agent = "write"
  /\ agent' = "rename"
  /\ resps' = resps \cup {cur}
  /\ cut' = cut \cup {File("resp", cur)}
  /\ UNCHANGED <<caller, reqs, drive, drops, batch, cur, torn, runs>>
(* writeDirResponse: a write that fails drops the reply.                   *)
WriteReply ==
  /\ agent = "write"
  /\ IF drive THEN agent' = "rename" /\ UNCHANGED cur
     ELSE agent' = "loop" /\ cur' = NoCall
  /\ UNCHANGED <<caller, files, drive, drops, batch, torn, runs>>

(* Mutant: the reply goes by another request's name.                       *)
RenameReplyAny ==
  /\ agent = "rename"
  /\ agent' = "loop" /\ cur' = NoCall
  /\ \E c \in Calls : resps' = IF drive THEN resps \cup {c} ELSE resps
  /\ UNCHANGED <<caller, reqs, cut, drive, drops, batch, torn, runs>>
RenameReply ==
  /\ agent = "rename"
  /\ agent' = "loop" /\ cur' = NoCall
  /\ resps' = IF drive THEN resps \cup {cur} ELSE resps
  /\ cut' = cut \ {File("resp", cur)}
  /\ UNCHANGED <<caller, reqs, drive, drops, batch, torn, runs>>
-----------------------------------------------------------------------------
(* The RDP client exits, and a later tool call reconnects it: the drive    *)
(* keeps its path.  The agent may end at any time; nothing restarts it.    *)
Drop ==
  /\ drive /\ drops < MaxDrops
  /\ drive' = FALSE
  /\ drops' = drops + 1
  /\ UNCHANGED <<caller, files, loop, runs>>

Reconnect ==
  /\ ~drive
  /\ drive' = TRUE
  /\ UNCHANGED <<caller, files, drops, loop, runs>>

AgentExits ==
  /\ agent # "gone"
  /\ agent' = "gone"
  /\ batch' = {} /\ cur' = NoCall
  /\ UNCHANGED <<caller, files, drive, drops, torn, runs>>

Relay(c) ==
  \/ WriteRequest(c) \/ RenameRequest(c) \/ RequestFails(c)
  \/ SeeReply(c) \/ ReadReply(c) \/ TimeOut(c)
Agent ==
  \/ Tick \/ Pick \/ ReadRequest \/ RemoveRequest \/ Run
  \/ WriteReply \/ RenameReply

Next ==
  \/ \E c \in Calls : Name(c) \/ Relay(c)
  \/ Agent
  \/ Drop \/ Reconnect \/ AgentExits

Spec == Init /\ [][Next]_vars

(* Both processes run, and the deadlines of calls and handlers pass.  No   *)
(* client has to reconnect: that takes another tool call.                  *)
FairSpec == Spec /\ WF_vars(Agent) /\ \A c \in Calls : WF_vars(Relay(c))
-----------------------------------------------------------------------------
(* Neither side ever reads a half-written file (writeAtomic,               *)
(* controller_agent_linux.go:194; writeDirResponse, dirserve.go:166).      *)
ReadsWholeFiles == ~torn /\ \A c \in Calls : answer[c] # "garbled"

(* A burst of requests is handled oldest id first (dirserve.go:100): what  *)
(* is still listed is younger than what is being handled.                  *)
OldestFirst == cur # NoCall => \A d \in batch : id[cur] < id[d]

(* While the client stays connected each request is handled once at most;  *)
(* every repetition takes a drop of the drive (dirserve.go:122-124).       *)
RepeatedOnlyByDrop == \A c \in Calls : runs[c] <= 1 + drops

(* A call that got its reply over a drive that held leaves nothing in the  *)
(* exchange directory (controller_agent_linux.go:157, dirserve.go:124).    *)
RepliedLeavesNoFile ==
  drops = 0 => \A c \in Calls : answer[c] = "reply" => c \notin reqs \cup resps

(* Every relayed call returns, whatever becomes of the agent.              *)
EveryRelayReturns == \A c \in Calls : pc[c] = "sent" ~> pc[c] = "done"

(* A request that has been written is handled as long as the agent and the *)
(* drive are there, whatever else is asked of the agent meanwhile, and     *)
(* also when its caller has given up on it.                                *)
RequestsHandled ==
  \A c \in Calls : c \in reqs ~> runs[c] > 0 \/ agent = "gone" \/ ~drive

(* "a malformed or duplicate file must not be reprocessed on every tick"   *)
(* (dirserve.go:122): no request is handled a second time.                 *)
NeverReprocessed == \A c \in Calls : runs[c] <= 1
-----------------------------------------------------------------------------
(* The refinement: a call is sent by the rename of its request.            *)
outcomeBar ==
  [c \in Calls |-> IF answer[c] \in {"none", "reply"} THEN answer[c] ELSE "error"]
sentBar ==
  {c \in Calls : pc[c] \in {"sent", "seen"} \/ answer[c] \notin {"none", "unsent"}}

Rpc == INSTANCE RelayRpc WITH outcome <- outcomeBar, sent <- sentBar

(* The exchange implements the relay: a reply is the reply to that call,   *)
(* which the agent has handled, and an outcome is final.                   *)
ImplementsRelay == Rpc!Spec
=============================================================================
