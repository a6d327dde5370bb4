---------------------------- MODULE DirRpcProofs ----------------------------
(***************************************************************************)
(* Theorems about DirRpc for every set of calls and every number of drops. *)
(***************************************************************************)
EXTENDS DirRpc, TLAPS

(* The agent holds a request exactly while it handles one, and nothing is  *)
(* ever seen half-written.                                                 *)
Handling == {"open", "read", "run", "write", "rename"}

AgentInv ==
  /\ TypeOK
  /\ agent \in Handling <=> cur \in Calls
  /\ cut = {}
  /\ ReadsWholeFiles

LEMMA AgentInvInit == Init => AgentInv
<1> SUFFICES ASSUME Init PROVE AgentInv
  OBVIOUS
<1>1. TypeOK
  <2>1. drops \in 0..MaxDrops
    BY DropsAssumption DEF Init
  <2>2. /\ pc \in [Calls -> {"idle", "named", "written", "sent", "seen", "done"}]
        /\ id \in [Calls -> Ids \cup {0}]
        /\ answer \in [Calls -> Answer]
        /\ runs \in [Calls -> Nat]
    BY DEF Init, Answer
  <2>3. QED
    BY <2>1, <2>2 DEF Init, TypeOK
<1>2. agent \notin Handling /\ cur \notin Calls
  BY CallsAssumption DEF Init, Handling
<1>3. cut = {} /\ ReadsWholeFiles
  BY DEF Init, ReadsWholeFiles
<1>4. QED
  BY <1>1, <1>2, <1>3 DEF AgentInv

LEMMA AgentInvNext == AgentInv /\ [Next]_vars => AgentInv'
<1> SUFFICES ASSUME AgentInv, [Next]_vars PROVE AgentInv'
  OBVIOUS
<1> USE CallsAssumption, DropsAssumption
    DEF AgentInv, TypeOK, Handling, ReadsWholeFiles, Answer
<1>1. ASSUME NEW c \in Calls, Name(c) PROVE AgentInv'
  BY <1>1 DEF Name, Goto, files, loop
<1>2. ASSUME NEW c \in Calls, WriteRequest(c) PROVE AgentInv'
  BY <1>2 DEF WriteRequest, Goto, files, loop
<1>3. ASSUME NEW c \in Calls, RenameRequest(c) PROVE AgentInv'
  BY <1>3 DEF RenameRequest, Goto, loop
<1>4. ASSUME NEW c \in Calls, RequestFails(c) PROVE AgentInv'
  BY <1>4 DEF RequestFails, Return, Goto, files, loop
<1>5. ASSUME NEW c \in Calls, SeeReply(c) PROVE AgentInv'
  BY <1>5 DEF SeeReply, Goto, files, loop
<1>6. ASSUME NEW c \in Calls, ReadReply(c) PROVE AgentInv'
  BY <1>6 DEF ReadReply, Return, Goto, loop
<1>7. ASSUME NEW c \in Calls, TimeOut(c) PROVE AgentInv'
  BY <1>7 DEF TimeOut, Return, Goto, files, loop
<1>8. ASSUME Tick PROVE AgentInv'
  BY <1>8 DEF Tick, caller, files
<1>9. ASSUME Pick PROVE AgentInv'
  BY <1>9 DEF Pick, NextOf, caller, files
<1>10. ASSUME ReadRequest PROVE AgentInv'
  BY <1>10 DEF ReadRequest, caller, files
<1>11. ASSUME RemoveRequest PROVE AgentInv'
  BY <1>11 DEF RemoveRequest, caller
<1>12. ASSUME Run PROVE AgentInv'
  BY <1>12 DEF Run, caller, files
<1>13. ASSUME WriteReply PROVE AgentInv'
  BY <1>13 DEF WriteReply, caller, files
<1>14. ASSUME RenameReply PROVE AgentInv'
  BY <1>14 DEF RenameReply, caller
<1>15. ASSUME Drop PROVE AgentInv'
  <2>1. drops \in 0..MaxDrops /\ drops < MaxDrops /\ drops' = drops + 1
    BY <1>15 DEF Drop
  <2>2. drops' \in 0..MaxDrops
    BY <2>1
  <2>3. drive' \in BOOLEAN
    BY <1>15 DEF Drop
  <2>4. UNCHANGED <<pc, id, answer, reqs, resps, cut, agent, batch, cur, torn, runs>>
    BY <1>15 DEF Drop, caller, files, loop
  <2>5. QED
    BY <2>2, <2>3, <2>4
<1>r. ASSUME Reconnect PROVE AgentInv'
  BY <1>r DEF Reconnect, caller, files, loop
<1>16. ASSUME AgentExits PROVE AgentInv'
  BY <1>16 DEF AgentExits, caller, files
<1>17. ASSUME UNCHANGED vars PROVE AgentInv'
  BY <1>17 DEF vars
<1>18. QED
  BY <1>1, <1>2, <1>3, <1>4, <1>5, <1>6, <1>7, <1>8, <1>9, <1>10, <1>11, <1>12,
     <1>13, <1>14, <1>15, <1>r, <1>16, <1>17 DEF Next, Relay, Agent

LEMMA AgentInvAlways == Spec => []AgentInv
BY AgentInvInit, AgentInvNext, PTL DEF Spec

(* Every variable keeps its type.                                          *)
THEOREM TypeCorrect == Spec => []TypeOK
<1>1. AgentInv => TypeOK
  BY DEF AgentInv
<1>2. QED
  BY <1>1, AgentInvAlways, PTL

(* Neither side ever reads a half-written file (writeAtomic,               *)
(* writeDirResponse).                                                      *)
THEOREM WholeFiles == Spec => []ReadsWholeFiles
<1>1. AgentInv => ReadsWholeFiles
  BY DEF AgentInv
<1>2. QED
  BY <1>1, AgentInvAlways, PTL
-----------------------------------------------------------------------------
(* A request the agent has listed or holds was sent by its call, under a   *)
(* name no other call has, and what is still listed comes after it.        *)
Unsent == {"idle", "named", "written"}

OrderInv ==
  /\ \A c \in Calls : pc[c] # "idle" => id[c] # 0
  /\ \A c, d \in Calls : c # d /\ id[c] # 0 => id[c] # id[d]
  /\ \A c \in Calls : c \in reqs \cup batch \cup {cur} => pc[c] \notin Unsent
  /\ cur \notin batch
  /\ OldestFirst

LEMMA OrderInvInit == Init => OrderInv
BY CallsAssumption DEF Init, OrderInv, OldestFirst

LEMMA OrderInvNext == AgentInv /\ OrderInv /\ [Next]_vars => OrderInv'
<1> SUFFICES ASSUME AgentInv, OrderInv, [Next]_vars PROVE OrderInv'
  OBVIOUS
<1>t. /\ pc \in [Calls -> {"idle", "named", "written", "sent", "seen", "done"}]
      /\ id \in [Calls -> Ids \cup {0}]
      /\ \A n \in Ids \cup {0} : n \in Int
      /\ reqs \subseteq Calls /\ batch \subseteq Calls
      /\ agent \in Handling <=> cur \in Calls
      /\ cur \in Calls \cup {NoCall}
  BY DEF AgentInv, TypeOK, Ids
<1> USE CallsAssumption DEF OrderInv, OldestFirst, Unsent
<1>1. ASSUME NEW c \in Calls, Name(c) PROVE OrderInv'
  <2>1. PICK n \in Ids : (\A d \in Calls : id[d] # n) /\ id' = [id EXCEPT ![c] = n]
    BY <1>1 DEF Name
  <2>2. n # 0
    BY DEF Ids
  <2>3. pc[c] = "idle" /\ pc' = [pc EXCEPT ![c] = "named"]
    BY <1>1 DEF Name, Goto
  <2>4. UNCHANGED <<reqs, batch, cur>>
    BY <1>1 DEF Name, files, loop
  <2>5. c \notin batch /\ c # cur
    BY <2>3
  <2>6. OldestFirst'
    BY <1>t, <2>1, <2>4, <2>5
  <2>7. QED
    BY <1>t, <2>1, <2>2, <2>3, <2>4, <2>5, <2>6
<1>2. ASSUME NEW c \in Calls, WriteRequest(c) PROVE OrderInv'
  BY <1>2, <1>t DEF WriteRequest, Goto, files, loop
<1>3. ASSUME NEW c \in Calls, RenameRequest(c) PROVE OrderInv'
  BY <1>3, <1>t DEF RenameRequest, Goto, loop
<1>4. ASSUME NEW c \in Calls, RequestFails(c) PROVE OrderInv'
  BY <1>4, <1>t DEF RequestFails, Return, Goto, files, loop
<1>5. ASSUME NEW c \in Calls, SeeReply(c) PROVE OrderInv'
  BY <1>5, <1>t DEF SeeReply, Goto, files, loop
<1>6. ASSUME NEW c \in Calls, ReadReply(c) PROVE OrderInv'
  BY <1>6, <1>t DEF ReadReply, Return, Goto, loop
<1>7. ASSUME NEW c \in Calls, TimeOut(c) PROVE OrderInv'
  BY <1>7, <1>t DEF TimeOut, Return, Goto, files, loop
<1>8. ASSUME Tick PROVE OrderInv'
  BY <1>8, <1>t DEF Tick, caller, files, Handling
<1>9. ASSUME Pick PROVE OrderInv'
  <2>1. PICK c \in NextOf(batch) : cur' = c /\ batch' = batch \ {c}
    BY <1>9 DEF Pick
  <2>2. c \in batch /\ \A d \in batch : id[c] <= id[d]
    BY <2>1 DEF NextOf
  <2>3. UNCHANGED <<pc, id, reqs>>
    BY <1>9 DEF Pick, caller, files
  <2>4. \A d \in batch \ {c} : id[c] < id[d]
    <3>1. SUFFICES ASSUME NEW d \in batch \ {c} PROVE id[c] < id[d]
      OBVIOUS
    <3>2. id[c] # id[d] /\ id[c] \in Int /\ id[d] \in Int
      BY <1>t, <2>2
    <3>3. QED
      BY <2>2, <3>2
  <2>5. QED
    BY <1>t, <2>1, <2>2, <2>3, <2>4
<1>10. ASSUME ReadRequest PROVE OrderInv'
  BY <1>10, <1>t DEF ReadRequest, caller, files
<1>11. ASSUME RemoveRequest PROVE OrderInv'
  BY <1>11, <1>t DEF RemoveRequest, caller
<1>12. ASSUME Run PROVE OrderInv'
  BY <1>12, <1>t DEF Run, caller, files
<1>13. ASSUME WriteReply PROVE OrderInv'
  BY <1>13, <1>t DEF WriteReply, caller, files
<1>14. ASSUME RenameReply PROVE OrderInv'
  BY <1>14, <1>t DEF RenameReply, caller
<1>15. ASSUME Drop PROVE OrderInv'
  BY <1>15, <1>t DEF Drop, caller, files, loop
<1>16. ASSUME Reconnect PROVE OrderInv'
  BY <1>16, <1>t DEF Reconnect, caller, files, loop
<1>17. ASSUME AgentExits PROVE OrderInv'
  BY <1>17, <1>t DEF AgentExits, caller, files
<1>18. ASSUME UNCHANGED vars PROVE OrderInv'
  BY <1>18, <1>t DEF vars
<1>19. QED
  BY <1>1, <1>2, <1>3, <1>4, <1>5, <1>6, <1>7, <1>8, <1>9, <1>10, <1>11, <1>12,
     <1>13, <1>14, <1>15, <1>16, <1>17, <1>18 DEF Next, Relay, Agent

LEMMA OrderInvAlways == Spec => []OrderInv
BY AgentInvAlways, OrderInvInit, OrderInvNext, PTL DEF Spec

(* A burst of requests is handled oldest id first (sort.Strings in         *)
(* serveDir).                                                              *)
THEOREM InOrder == Spec => []OldestFirst
<1>1. OrderInv => OldestFirst
  BY DEF OrderInv
<1>2. QED
  BY <1>1, OrderInvAlways, PTL
-----------------------------------------------------------------------------
(* What may still make the agent run a request: the request is on the      *)
(* drive or will be, ...                                                   *)
Pending(c) == IF c \in reqs \/ pc[c] \in Unsent THEN 1 ELSE 0
(* ... or the agent has read it and could not, or did, remove it.          *)
Taken(c) == IF cur = c /\ (agent = "run" \/ (agent = "read" /\ ~drive)) THEN 1 ELSE 0

BudgetInv ==
  /\ agent = "read" => cur \in reqs
  /\ \A c \in Calls : runs[c] + Pending(c) + Taken(c) <= 1 + drops

LEMMA BudgetInvInit == Init => BudgetInv
BY DEF Init, BudgetInv, Pending, Taken, Unsent

LEMMA BudgetInvNext ==
  AgentInv /\ OrderInv /\ BudgetInv /\ [Next]_vars => BudgetInv'
<1> SUFFICES ASSUME AgentInv, OrderInv, BudgetInv, [Next]_vars PROVE BudgetInv'
  OBVIOUS
<1>t. /\ pc \in [Calls -> {"idle", "named", "written", "sent", "seen", "done"}]
      /\ runs \in [Calls -> Nat] /\ drops \in Nat
      /\ agent \in Handling <=> cur \in Calls
      /\ ~torn
      /\ cur \in Calls => pc[cur] \notin Unsent
  BY DropsAssumption DEF AgentInv, TypeOK, ReadsWholeFiles, OrderInv
<1> USE CallsAssumption DEF BudgetInv, Pending, Taken, Unsent, Handling
<1>1. ASSUME NEW c \in Calls, Name(c) PROVE BudgetInv'
  BY <1>1, <1>t DEF Name, Goto, files, loop
<1>2. ASSUME NEW c \in Calls, WriteRequest(c) PROVE BudgetInv'
  BY <1>2, <1>t DEF WriteRequest, Goto, files, loop
<1>3. ASSUME NEW c \in Calls, RenameRequest(c) PROVE BudgetInv'
  BY <1>3, <1>t DEF RenameRequest, Goto, loop
<1>4. ASSUME NEW c \in Calls, RequestFails(c) PROVE BudgetInv'
  BY <1>4, <1>t DEF RequestFails, Return, Goto, files, loop
<1>5. ASSUME NEW c \in Calls, SeeReply(c) PROVE BudgetInv'
  BY <1>5, <1>t DEF SeeReply, Goto, files, loop
<1>6. ASSUME NEW c \in Calls, ReadReply(c) PROVE BudgetInv'
  BY <1>6, <1>t DEF ReadReply, Return, Goto, loop
<1>7. ASSUME NEW c \in Calls, TimeOut(c) PROVE BudgetInv'
  BY <1>7, <1>t DEF TimeOut, Return, Goto, files, loop
<1>8. ASSUME Tick PROVE BudgetInv'
  BY <1>8, <1>t DEF Tick, caller, files
<1>9. ASSUME Pick PROVE BudgetInv'
  BY <1>9, <1>t DEF Pick, caller, files
<1>10. ASSUME ReadRequest PROVE BudgetInv'
  BY <1>10, <1>t DEF ReadRequest, caller, files
<1>11. ASSUME RemoveRequest PROVE BudgetInv'
  BY <1>11, <1>t DEF RemoveRequest, caller
<1>12. ASSUME Run PROVE BudgetInv'
  BY <1>12, <1>t DEF Run, caller, files
<1>13. ASSUME WriteReply PROVE BudgetInv'
  BY <1>13, <1>t DEF WriteReply, caller, files
<1>14. ASSUME RenameReply PROVE BudgetInv'
  BY <1>14, <1>t DEF RenameReply, caller
<1>15. ASSUME Drop PROVE BudgetInv'
  BY <1>15, <1>t DEF Drop, caller, files, loop
<1>16. ASSUME Reconnect PROVE BudgetInv'
  BY <1>16, <1>t DEF Reconnect, caller, files, loop
<1>17. ASSUME AgentExits PROVE BudgetInv'
  BY <1>17, <1>t DEF AgentExits, caller, files
<1>18. ASSUME UNCHANGED vars PROVE BudgetInv'
  BY <1>18 DEF vars
<1>19. QED
  BY <1>1, <1>2, <1>3, <1>4, <1>5, <1>6, <1>7, <1>8, <1>9, <1>10, <1>11, <1>12,
     <1>13, <1>14, <1>15, <1>16, <1>17, <1>18 DEF Next, Relay, Agent

LEMMA BudgetInvAlways == Spec => []BudgetInv
BY AgentInvAlways, OrderInvAlways, BudgetInvInit, BudgetInvNext, PTL DEF Spec

(* No request is handled twice but for a drop of the drive (the os.Remove  *)
(* of handleDirRequest, whose error is dropped).                           *)
THEOREM RepeatsNeedDrops == Spec => []RepeatedOnlyByDrop
<1>1. AgentInv /\ BudgetInv => RepeatedOnlyByDrop
  <2> SUFFICES ASSUME AgentInv, BudgetInv, NEW c \in Calls PROVE runs[c] <= 1 + drops
    BY DEF RepeatedOnlyByDrop
  <2>1. runs[c] \in Nat /\ drops \in Nat /\ Pending(c) \in Nat /\ Taken(c) \in Nat
    BY DropsAssumption DEF AgentInv, TypeOK, Pending, Taken
  <2>2. QED
    BY <2>1 DEF BudgetInv
<1>2. QED
  BY <1>1, AgentInvAlways, BudgetInvAlways, PTL
-----------------------------------------------------------------------------
(* Each handling makes one reply at most: it is being written, or it is in *)
(* resp, or its caller has it.                                             *)
Written(c)  == IF cur = c /\ agent \in {"write", "rename"} THEN 1 ELSE 0
Waiting(c)  == IF c \in resps THEN 1 ELSE 0
Returned(c) == IF answer[c] = "reply" THEN 1 ELSE 0

ReplyInv ==
  /\ \A c \in Calls : Written(c) + Waiting(c) + Returned(c) <= runs[c]
  /\ \A c \in Calls : answer[c] = "none" <=> pc[c] # "done"
  /\ \A c \in Calls : pc[c] = "seen" => c \in resps
  /\ \A c \in Calls : c \in reqs \cup batch \cup {cur} => answer[c] # "unsent"

LEMMA ReplyInvInit == Init => ReplyInv
BY CallsAssumption DEF Init, ReplyInv, Written, Waiting, Returned

LEMMA ReplyInvNext ==
  AgentInv /\ OrderInv /\ ReplyInv /\ [Next]_vars => ReplyInv'
<1> SUFFICES ASSUME AgentInv, OrderInv, ReplyInv, [Next]_vars PROVE ReplyInv'
  OBVIOUS
<1>t. /\ pc \in [Calls -> {"idle", "named", "written", "sent", "seen", "done"}]
      /\ answer \in [Calls -> Answer]
      /\ runs \in [Calls -> Nat]
      /\ batch \subseteq Calls
      /\ agent \in Handling <=> cur \in Calls
      /\ cut = {}
      /\ \A c \in Calls : c \in reqs \cup batch \cup {cur} => pc[c] \notin Unsent
  BY DEF AgentInv, TypeOK, OrderInv
<1> USE CallsAssumption
    DEF ReplyInv, Written, Waiting, Returned, Handling, Answer, Unsent
<1>1. ASSUME NEW c \in Calls, Name(c) PROVE ReplyInv'
  BY <1>1, <1>t DEF Name, Goto, files, loop
<1>2. ASSUME NEW c \in Calls, WriteRequest(c) PROVE ReplyInv'
  BY <1>2, <1>t DEF WriteRequest, Goto, files, loop
<1>3. ASSUME NEW c \in Calls, RenameRequest(c) PROVE ReplyInv'
  BY <1>3, <1>t DEF RenameRequest, Goto, loop
<1>4. ASSUME NEW c \in Calls, RequestFails(c) PROVE ReplyInv'
  BY <1>4, <1>t DEF RequestFails, Return, Goto, files, loop
<1>5. ASSUME NEW c \in Calls, SeeReply(c) PROVE ReplyInv'
  BY <1>5, <1>t DEF SeeReply, Goto, files, loop
<1>6. ASSUME NEW c \in Calls, ReadReply(c) PROVE ReplyInv'
  BY <1>6, <1>t DEF ReadReply, Return, Goto, loop
<1>7. ASSUME NEW c \in Calls, TimeOut(c) PROVE ReplyInv'
  BY <1>7, <1>t DEF TimeOut, Return, Goto, files, loop
<1>8. ASSUME Tick PROVE ReplyInv'
  BY <1>8, <1>t DEF Tick, caller, files
<1>9. ASSUME Pick PROVE ReplyInv'
  BY <1>9, <1>t DEF Pick, NextOf, caller, files
<1>10. ASSUME ReadRequest PROVE ReplyInv'
  BY <1>10, <1>t DEF ReadRequest, caller, files
<1>11. ASSUME RemoveRequest PROVE ReplyInv'
  BY <1>11, <1>t DEF RemoveRequest, caller
<1>12. ASSUME Run PROVE ReplyInv'
  BY <1>12, <1>t DEF Run, caller, files
<1>13. ASSUME WriteReply PROVE ReplyInv'
  BY <1>13, <1>t DEF WriteReply, caller, files
<1>14. ASSUME RenameReply PROVE ReplyInv'
  BY <1>14, <1>t DEF RenameReply, caller
<1>15. ASSUME Drop PROVE ReplyInv'
  BY <1>15, <1>t DEF Drop, caller, files, loop
<1>16. ASSUME Reconnect PROVE ReplyInv'
  BY <1>16, <1>t DEF Reconnect, caller, files, loop
<1>17. ASSUME AgentExits PROVE ReplyInv'
  BY <1>17, <1>t DEF AgentExits, caller, files
<1>18. ASSUME UNCHANGED vars PROVE ReplyInv'
  BY <1>18 DEF vars
<1>19. QED
  BY <1>1, <1>2, <1>3, <1>4, <1>5, <1>6, <1>7, <1>8, <1>9, <1>10, <1>11, <1>12,
     <1>13, <1>14, <1>15, <1>16, <1>17, <1>18 DEF Next, Relay, Agent

LEMMA ReplyInvAlways == Spec => []ReplyInv
BY AgentInvAlways, OrderInvAlways, ReplyInvInit, ReplyInvNext, PTL DEF Spec

(* A call that got its reply over a drive that held leaves nothing in the  *)
(* exchange directory (the two os.Remove of agentProxy.call and            *)
(* handleDirRequest).                                                      *)
THEOREM NothingLeft == Spec => []RepliedLeavesNoFile
<1>1. AgentInv /\ BudgetInv /\ ReplyInv => RepliedLeavesNoFile
  <2> SUFFICES ASSUME AgentInv, BudgetInv, ReplyInv, drops = 0,
                      NEW c \in Calls, answer[c] = "reply"
               PROVE  c \notin reqs \cup resps
    BY DEF RepliedLeavesNoFile
  <2>1. runs[c] \in Nat
    BY DEF AgentInv, TypeOK
  <2>2. runs[c] >= 1 /\ (c \in resps => runs[c] >= 2)
    BY <2>1 DEF ReplyInv, Written, Waiting, Returned
  <2>3. runs[c] <= 1 /\ (c \in reqs => runs[c] <= 0)
    BY <2>1 DEF BudgetInv, Pending, Taken
  <2>4. QED
    BY <2>1, <2>2, <2>3
<1>2. QED
  BY <1>1, AgentInvAlways, BudgetInvAlways, ReplyInvAlways, PTL
-----------------------------------------------------------------------------
(* A request that was sent is never lost while the agent lives, whatever   *)
(* becomes of its caller and of the drive: it is on the drive, the agent   *)
(* has taken it off to run it, or it has been run (handleDirRequest).      *)
RequestKept ==
  \A c \in sentBar :
    c \in reqs \/ (cur = c /\ agent = "run") \/ runs[c] > 0 \/ agent = "gone"

LEMMA RequestKeptNext ==
  AgentInv /\ ReplyInv /\ RequestKept /\ [Next]_vars => RequestKept'
<1> SUFFICES ASSUME AgentInv, ReplyInv, RequestKept, [Next]_vars PROVE RequestKept'
  OBVIOUS
<1>t. /\ pc \in [Calls -> {"idle", "named", "written", "sent", "seen", "done"}]
      /\ answer \in [Calls -> Answer]
      /\ runs \in [Calls -> Nat]
      /\ agent \in Handling <=> cur \in Calls
      /\ ~torn
      /\ \A c \in Calls : answer[c] = "none" <=> pc[c] # "done"
  BY DEF AgentInv, TypeOK, ReadsWholeFiles, ReplyInv
<1> USE CallsAssumption DEF RequestKept, sentBar, Handling
<1>1. ASSUME NEW c \in Calls, Name(c) PROVE RequestKept'
  BY <1>1, <1>t DEF Name, Goto, files, loop
<1>2. ASSUME NEW c \in Calls, WriteRequest(c) PROVE RequestKept'
  BY <1>2, <1>t DEF WriteRequest, Goto, files, loop
<1>3. ASSUME NEW c \in Calls, RenameRequest(c) PROVE RequestKept'
  BY <1>3, <1>t DEF RenameRequest, Goto, loop
<1>4. ASSUME NEW c \in Calls, RequestFails(c) PROVE RequestKept'
  BY <1>4, <1>t DEF RequestFails, Return, Goto, files, loop
<1>5. ASSUME NEW c \in Calls, SeeReply(c) PROVE RequestKept'
  BY <1>5, <1>t DEF SeeReply, Goto, files, loop
<1>6. ASSUME NEW c \in Calls, ReadReply(c) PROVE RequestKept'
  BY <1>6, <1>t DEF ReadReply, Return, Goto, loop
<1>7. ASSUME NEW c \in Calls, TimeOut(c) PROVE RequestKept'
  BY <1>7, <1>t DEF TimeOut, Return, Goto, files, loop
<1>8. ASSUME Tick PROVE RequestKept'
  BY <1>8, <1>t DEF Tick, caller, files
<1>9. ASSUME Pick PROVE RequestKept'
  BY <1>9, <1>t DEF Pick, caller, files
<1>10. ASSUME ReadRequest PROVE RequestKept'
  BY <1>10, <1>t DEF ReadRequest, caller, files
<1>11. ASSUME RemoveRequest PROVE RequestKept'
  BY <1>11, <1>t DEF RemoveRequest, caller
<1>12. ASSUME Run PROVE RequestKept'
  BY <1>12, <1>t DEF Run, caller, files
<1>13. ASSUME WriteReply PROVE RequestKept'
  BY <1>13, <1>t DEF WriteReply, caller, files
<1>14. ASSUME RenameReply PROVE RequestKept'
  BY <1>14, <1>t DEF RenameReply, caller
<1>15. ASSUME Drop PROVE RequestKept'
  BY <1>15, <1>t DEF Drop, caller, files, loop
<1>16. ASSUME Reconnect PROVE RequestKept'
  BY <1>16, <1>t DEF Reconnect, caller, files, loop
<1>17. ASSUME AgentExits PROVE RequestKept'
  BY <1>17, <1>t DEF AgentExits, caller, files
<1>18. ASSUME UNCHANGED vars PROVE RequestKept'
  BY <1>18 DEF vars
<1>19. QED
  BY <1>1, <1>2, <1>3, <1>4, <1>5, <1>6, <1>7, <1>8, <1>9, <1>10, <1>11, <1>12,
     <1>13, <1>14, <1>15, <1>16, <1>17, <1>18 DEF Next, Relay, Agent

(* No request is lost: what RequestsHandled rests on.  The removal of one  *)
(* request takes no other with it, and what is read and removed is run.    *)
THEOREM NoRequestLost == Spec => []RequestKept
<1>1. Init => RequestKept
  BY DEF Init, RequestKept, sentBar
<1>2. QED
  BY <1>1, AgentInvAlways, ReplyInvAlways, RequestKeptNext, PTL DEF Spec
-----------------------------------------------------------------------------
(* The refinement.  The rename of a request sends it, running it handles   *)
(* it, and the caller's return is the outcome; every other step stutters.  *)
LEMMA RelayInit == Init => Rpc!Init
BY DEF Init, Rpc!Init, outcomeBar, sentBar

LEMMA RelayStep ==
  AgentInv /\ OrderInv /\ ReplyInv /\ [Next]_vars => [Rpc!Next]_Rpc!vars
<1> SUFFICES ASSUME AgentInv, OrderInv, ReplyInv, [Next]_vars
             PROVE  Rpc!Next \/ UNCHANGED Rpc!vars
  OBVIOUS
<1>t. /\ pc \in [Calls -> {"idle", "named", "written", "sent", "seen", "done"}]
      /\ answer \in [Calls -> Answer]
      /\ runs \in [Calls -> Nat]
      /\ batch \subseteq Calls
      /\ agent \in Handling <=> cur \in Calls
      /\ cut = {}
      /\ \A c \in Calls : c \in reqs \cup batch \cup {cur} => pc[c] \notin Unsent
      /\ \A c \in Calls : c \in reqs \cup batch \cup {cur} => answer[c] # "unsent"
      /\ \A c \in Calls : answer[c] = "none" <=> pc[c] # "done"
  BY DEF AgentInv, TypeOK, OrderInv, ReplyInv
(* Only these variables are seen through the mapping.                      *)
<1>u. ASSUME UNCHANGED runs, UNCHANGED answer, sentBar' = sentBar
      PROVE  UNCHANGED Rpc!vars
  BY <1>u DEF Rpc!vars, outcomeBar
<1>1. ASSUME NEW c \in Calls, Name(c) PROVE Rpc!Next \/ UNCHANGED Rpc!vars
  <2>1. UNCHANGED <<answer, runs>> /\ Goto(c, "idle", "named")
    BY <1>1 DEF Name, files, loop
  <2>2. sentBar' = sentBar
    BY <2>1, <1>t DEF Goto, sentBar
  <2>3. QED
    BY <2>1, <2>2, <1>u
<1>2. ASSUME NEW c \in Calls, WriteRequest(c) PROVE Rpc!Next \/ UNCHANGED Rpc!vars
  <2>1. UNCHANGED <<answer, runs>> /\ Goto(c, "named", "written")
    BY <1>2 DEF WriteRequest, files, loop
  <2>2. sentBar' = sentBar
    BY <2>1, <1>t DEF Goto, sentBar
  <2>3. QED
    BY <2>1, <2>2, <1>u
<1>3. ASSUME NEW c \in Calls, RenameRequest(c) PROVE Rpc!Next \/ UNCHANGED Rpc!vars
  <2>1. UNCHANGED <<answer, runs>> /\ Goto(c, "written", "sent")
    BY <1>3 DEF RenameRequest, loop
  <2>2. sentBar' = sentBar \cup {c} /\ outcomeBar' = outcomeBar /\ outcomeBar[c] = "none"
    BY <2>1, <1>t DEF Goto, sentBar, outcomeBar
  <2>3. Rpc!Send(c)
    BY <2>1, <2>2 DEF Rpc!Send
  <2>4. QED
    BY <2>3 DEF Rpc!Next
<1>4. ASSUME NEW c \in Calls, RequestFails(c) PROVE Rpc!Next \/ UNCHANGED Rpc!vars
  <2>1. PICK w \in {"unsent", "timeout", "garbled"} :
            /\ answer[c] = "none" /\ pc[c] # "done"
            /\ w # "unsent" <=> pc[c] \notin Unsent
            /\ answer' = [answer EXCEPT ![c] = w]
            /\ pc' = [pc EXCEPT ![c] = "done"]
            /\ runs' = runs
    BY <1>4, <1>t DEF RequestFails, Return, Goto, Unsent
  <2>2. sentBar' = sentBar
    BY <2>1, <1>t DEF sentBar, Unsent, Answer
  <2>3. outcomeBar[c] = "none" /\ outcomeBar' = [outcomeBar EXCEPT ![c] = "error"]
    BY <2>1, <1>t DEF outcomeBar
  <2>4. Rpc!Fail(c)
    BY <2>1, <2>2, <2>3 DEF Rpc!Fail
  <2>5. QED
    BY <2>4 DEF Rpc!Next
<1>5. ASSUME NEW c \in Calls, SeeReply(c) PROVE Rpc!Next \/ UNCHANGED Rpc!vars
  <2>1. UNCHANGED <<answer, runs>> /\ Goto(c, "sent", "seen")
    BY <1>5 DEF SeeReply, files, loop
  <2>2. sentBar' = sentBar
    BY <2>1, <1>t DEF Goto, sentBar
  <2>3. QED
    BY <2>1, <2>2, <1>u
<1>6. ASSUME NEW c \in Calls, ReadReply(c) PROVE Rpc!Next \/ UNCHANGED Rpc!vars
  <2>1. /\ answer[c] = "none" /\ pc[c] = "seen"
        /\ answer' = [answer EXCEPT ![c] = "reply"]
        /\ pc' = [pc EXCEPT ![c] = "done"]
        /\ runs' = runs
    BY <1>6, <1>t DEF ReadReply, Return, Goto
  <2>2. sentBar' = sentBar
    BY <2>1, <1>t DEF sentBar, Answer
  <2>3. outcomeBar[c] = "none" /\ outcomeBar' = [outcomeBar EXCEPT ![c] = "reply"]
    BY <2>1, <1>t DEF outcomeBar
  <2>4. runs[c] > 0
    BY <2>1, <1>t DEF ReplyInv, Written, Waiting, Returned
  <2>5. Rpc!Reply(c)
    BY <2>1, <2>2, <2>3, <2>4 DEF Rpc!Reply
  <2>6. QED
    BY <2>5 DEF Rpc!Next
<1>7. ASSUME NEW c \in Calls, TimeOut(c) PROVE Rpc!Next \/ UNCHANGED Rpc!vars
  <2>1. PICK w \in {"unsent", "timeout", "garbled"} :
            /\ answer[c] = "none" /\ pc[c] # "done"
            /\ w # "unsent" <=> pc[c] \notin Unsent
            /\ answer' = [answer EXCEPT ![c] = w]
            /\ pc' = [pc EXCEPT ![c] = "done"]
            /\ runs' = runs
    BY <1>7, <1>t DEF TimeOut, Return, Goto, Unsent
  <2>2. sentBar' = sentBar
    BY <2>1, <1>t DEF sentBar, Unsent, Answer
  <2>3. outcomeBar[c] = "none" /\ outcomeBar' = [outcomeBar EXCEPT ![c] = "error"]
    BY <2>1, <1>t DEF outcomeBar
  <2>4. Rpc!Fail(c)
    BY <2>1, <2>2, <2>3 DEF Rpc!Fail
  <2>5. QED
    BY <2>4 DEF Rpc!Next
<1>8. ASSUME Tick PROVE Rpc!Next \/ UNCHANGED Rpc!vars
  <2>1. UNCHANGED <<pc, answer, runs>>
    BY <1>8 DEF Tick, caller, files, loop
  <2>2. QED
    BY <2>1, <1>u DEF sentBar
<1>9. ASSUME Pick PROVE Rpc!Next \/ UNCHANGED Rpc!vars
  <2>1. UNCHANGED <<pc, answer, runs>>
    BY <1>9 DEF Pick, caller, files, loop
  <2>2. QED
    BY <2>1, <1>u DEF sentBar
<1>10. ASSUME ReadRequest PROVE Rpc!Next \/ UNCHANGED Rpc!vars
  <2>1. UNCHANGED <<pc, answer, runs>>
    BY <1>10 DEF ReadRequest, caller, files, loop
  <2>2. QED
    BY <2>1, <1>u DEF sentBar
<1>11. ASSUME RemoveRequest PROVE Rpc!Next \/ UNCHANGED Rpc!vars
  <2>1. UNCHANGED <<pc, answer, runs>>
    BY <1>11 DEF RemoveRequest, caller, files, loop
  <2>2. QED
    BY <2>1, <1>u DEF sentBar
<1>12. ASSUME Run PROVE Rpc!Next \/ UNCHANGED Rpc!vars
  <2>1. /\ cur \in Calls
        /\ UNCHANGED <<pc, answer>>
        /\ runs' = [runs EXCEPT ![cur] = @ + 1]
    BY <1>12, <1>t DEF Run, caller, Handling
  <2>2. cur \in sentBar
    BY <2>1, <1>t DEF sentBar, Unsent
  <2>3. sentBar' = sentBar /\ outcomeBar' = outcomeBar
    BY <2>1 DEF sentBar, outcomeBar
  <2>4. Rpc!Handle(cur)
    BY <2>1, <2>2, <2>3 DEF Rpc!Handle
  <2>5. QED
    BY <2>1, <2>4 DEF Rpc!Next
<1>13. ASSUME WriteReply PROVE Rpc!Next \/ UNCHANGED Rpc!vars
  <2>1. UNCHANGED <<pc, answer, runs>>
    BY <1>13 DEF WriteReply, caller, files, loop
  <2>2. QED
    BY <2>1, <1>u DEF sentBar
<1>14. ASSUME RenameReply PROVE Rpc!Next \/ UNCHANGED Rpc!vars
  <2>1. UNCHANGED <<pc, answer, runs>>
    BY <1>14 DEF RenameReply, caller, files, loop
  <2>2. QED
    BY <2>1, <1>u DEF sentBar
<1>15. ASSUME Drop PROVE Rpc!Next \/ UNCHANGED Rpc!vars
  <2>1. UNCHANGED <<pc, answer, runs>>
    BY <1>15 DEF Drop, caller, files, loop
  <2>2. QED
    BY <2>1, <1>u DEF sentBar
<1>16. ASSUME Reconnect PROVE Rpc!Next \/ UNCHANGED Rpc!vars
  <2>1. UNCHANGED <<pc, answer, runs>>
    BY <1>16 DEF Reconnect, caller, files, loop
  <2>2. QED
    BY <2>1, <1>u DEF sentBar
<1>17. ASSUME AgentExits PROVE Rpc!Next \/ UNCHANGED Rpc!vars
  <2>1. UNCHANGED <<pc, answer, runs>>
    BY <1>17 DEF AgentExits, caller, files, loop
  <2>2. QED
    BY <2>1, <1>u DEF sentBar
<1>18. ASSUME UNCHANGED vars PROVE Rpc!Next \/ UNCHANGED Rpc!vars
  BY <1>18, <1>u DEF vars, sentBar
<1>19. QED
  BY <1>1, <1>2, <1>3, <1>4, <1>5, <1>6, <1>7, <1>8, <1>9, <1>10, <1>11, <1>12,
     <1>13, <1>14, <1>15, <1>16, <1>17, <1>18 DEF Next, Relay, Agent

(* A reply is the reply to that call, which the agent has handled, and an  *)
(* outcome is final: the exchange implements the relay.                    *)
THEOREM Implementation == Spec => ImplementsRelay
BY RelayInit, RelayStep, AgentInvAlways, OrderInvAlways, ReplyInvAlways, PTL
   DEF Spec, ImplementsRelay, Rpc!Spec
=============================================================================
