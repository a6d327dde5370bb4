---------------------------- MODULE TaskManager ----------------------------
(***************************************************************************)
(* The task manager of tasks.go: every tool call becomes a task that waits *)
(* for a slot of its category, runs its handler, and leaves a verdict in a *)
(* bounded history that CancelTask and GetRunningTasks act upon.           *)
(*                                                                         *)
(* One action per atomic step of taskManager.run: a critical section of    *)
(* m.mu, the select on the semaphore, the handler, the deferred release.   *)
(* Between any two of them every other call may step.                      *)
(***************************************************************************)
EXTENDS Integers, FiniteSets

CONSTANTS
  Calls,        \* invocations of tools: the task of a call is named by it
  Tools,        \* the tools these calls may name
  Limit,        \* categoryLimits
  MaxHistory,   \* maxTaskHistory
  NoTask        \* the target of a call that cancels nothing

DesktopTools ==
  {"Snapshot", "AnnotatedSnapshot", "Click", "Type", "Scroll", "Move",
   "Shortcut", "FocusWindow", "MinimizeAll", "App", "OCR", "ScreenRecord",
   "LockScreen", "Wait"}
FileTools ==
  {"FileRead", "FileWrite", "FileList", "FileSearch", "FileDownload", "FileUpload"}
ShellTools   == {"Shell", "Scrape"}
NetworkTools == {"Ping", "PortCheck", "NetConnections"}

Category == {"desktop", "file", "query", "shell", "network"}

(* toolCategories and categoryFor: what no group names is a query, and so  *)
(* are CancelTask and GetRunningTasks, which wait for a slot themselves.   *)
CategoryFor(t) ==
  IF t \in DesktopTools THEN "desktop"
  ELSE IF t \in FileTools THEN "file"
  ELSE IF t \in ShellTools THEN "shell"
  ELSE IF t \in NetworkTools THEN "network"
  ELSE "query"

ASSUME CallsAssumption   == IsFiniteSet(Calls) /\ NoTask \notin Calls
ASSUME ToolsAssumption   == Tools # {} /\ Tools \subseteq STRING
ASSUME LimitAssumption   == Limit \in [Category -> Nat \ {0}]
ASSUME HistoryAssumption == MaxHistory \in Nat

VARIABLES
  pc,           \* how far each call has come in run
  tool,         \* the tool each call names
  target,       \* the task a CancelTask call names
  clock,        \* wall clock, for the order of createdAt
  createdAt,    \* when each task was created, 0 before
  tasks,        \* the keys of taskManager.tasks
  status,       \* taskInfo.Status, "none" before the task is created
  ctxDone,      \* the call's context is done: cancelled or past its deadline
  sems,         \* tokens in each category's channel
  result,       \* what the call answers, once that is settled
  listed,       \* GetRunningTasks: what its lists have collected, until it answers
  wasActive     \* GetRunningTasks: the tasks active at its first list (history)

vars == <<pc, tool, target, clock, createdAt, tasks, status, ctxDone, sems,
          result, listed, wasActive>>

Active    == {"pending", "running"}
Terminal  == {"completed", "failed", "cancelled"}
Status    == {"none"} \cup Active \cup Terminal
Result    == {"none", "ok", "err", "timeout", "cancelledBefore", "abandoned"}
PC        == {"idle", "created", "acquiring", "gaveUp", "acquired", "executing",
              "listing", "returned", "releasing", "done"}

(* A call holds its token from the send on sem to the deferred receive.    *)
Holding   == {"acquired", "executing", "listing", "returned", "releasing"}
Executing == {"executing", "listing"}
Waiting   == {"created", "acquiring", "gaveUp"}

Cat(c)            == CategoryFor(tool[c])
Holders(k)        == {c \in Calls : Cat(c) = k /\ pc[c] \in Holding}
WithStatus(T, S)  == {t \in T : status[t] \in S}

TypeOK ==
  /\ pc \in [Calls -> PC]
  /\ tool \in [Calls -> Tools]
  /\ target \in [Calls -> Calls \cup {NoTask}]
  /\ clock \in Nat
  /\ createdAt \in [Calls -> Nat]
  /\ tasks \subseteq Calls
  /\ status \in [Calls -> Status]
  /\ ctxDone \in [Calls -> BOOLEAN]
  /\ sems \in [Category -> Nat]
  /\ result \in [Calls -> Result]
  /\ listed \in [Calls -> SUBSET Calls]
  /\ wasActive \in [Calls -> SUBSET Calls]

Init ==
  /\ pc = [c \in Calls |-> "idle"]
  /\ tool \in [Calls -> Tools]
  /\ target = [c \in Calls |-> NoTask]
  /\ clock = 0
  /\ createdAt = [c \in Calls |-> 0]
  /\ tasks = {}
  /\ status = [c \in Calls |-> "none"]
  /\ ctxDone = [c \in Calls |-> FALSE]
  /\ sems = [k \in Category |-> 0]
  /\ result = [c \in Calls |-> "none"]
  /\ listed = [c \in Calls |-> {}]
  /\ wasActive = [c \in Calls |-> {}]

Goto(c, from, to) ==
  /\ pc[c] = from
  /\ pc' = [pc EXCEPT ![c] = to]
-----------------------------------------------------------------------------
(* The task is created, with its createdAt, before the manager is locked.  *)
(* A CancelTask names a task whose id some reply or list has told.         *)
Start(c) ==
  /\ Goto(c, "idle", "created")
  /\ clock' = clock + 1
  /\ createdAt' = [createdAt EXCEPT ![c] = clock + 1]
  /\ status' = [status EXCEPT ![c] = "pending"]
  /\ IF tool[c] = "CancelTask"
       THEN \E t \in Calls :
              /\ pc[t] \notin {"idle", "created"}
              /\ target' = [target EXCEPT ![c] = t]
       ELSE UNCHANGED target
  /\ UNCHANGED <<tool, tasks, ctxDone, sems, result, listed, wasActive>>

(* pruneLocked: of the finished tasks in T the MaxHistory newest stay.     *)
Newer(t, T) == {u \in T : createdAt[u] > createdAt[t]}
(* Mutant: prunes without looking at the status.                           *)
PrunedAnyStatus(T) == T \ {t \in T : Cardinality(Newer(t, T)) >= MaxHistory}
(* Mutant: sorts newest first and so drops the newest.                     *)
PrunedNewest(T) ==
  LET done == WithStatus(T, Terminal)
  IN  T \ {t \in done : Cardinality(done \ Newer(t, done)) > MaxHistory}
Pruned(T) ==
  LET done == WithStatus(T, Terminal)
  IN  T \ {t \in done : Cardinality(Newer(t, done)) >= MaxHistory}

Register(c) ==
  /\ Goto(c, "created", "acquiring")
  /\ tasks' = Pruned(tasks \cup {c})
  /\ UNCHANGED <<tool, target, clock, createdAt, status, ctxDone, sems, result,
                 listed, wasActive>>

(* The select: a free slot may be taken even when the context is done.     *)
Acquire(c) ==
  /\ sems[Cat(c)] < Limit[Cat(c)]
  /\ Goto(c, "acquiring", "acquired")
  /\ sems' = [sems EXCEPT ![Cat(c)] = @ + 1]
  /\ UNCHANGED <<tool, target, clock, createdAt, tasks, status, ctxDone, result,
                 listed, wasActive>>

(* acquireCtx is done: its 30 s have passed on a full channel, or the      *)
(* context of the call is done.  The answer is the same text either way.   *)
GiveUp(c) ==
  /\ Goto(c, "acquiring", "gaveUp")
  /\ \/ /\ sems[Cat(c)] >= Limit[Cat(c)]
        /\ result' = [result EXCEPT ![c] = "timeout"]
     \/ /\ ctxDone[c]
        /\ result' = [result EXCEPT ![c] = "abandoned"]
  /\ UNCHANGED <<tool, target, clock, createdAt, tasks, status, ctxDone, sems,
                 listed, wasActive>>

(* finish: a cancelled task keeps that verdict.                            *)
Finished(c, verdict) ==
  status' = [status EXCEPT ![c] = IF @ = "cancelled" THEN @ ELSE verdict]

(* Mutant: the timeout answers without calling finish.                     *)
FinishUnacquiredSilently(c) ==
  /\ Goto(c, "gaveUp", "done")
  /\ ctxDone' = [ctxDone EXCEPT ![c] = TRUE]
  /\ UNCHANGED <<tool, target, clock, createdAt, tasks, status, sems, result,
                 listed, wasActive>>

FinishUnacquired(c) ==
  /\ Goto(c, "gaveUp", "done")
  /\ Finished(c, "failed")
  /\ ctxDone' = [ctxDone EXCEPT ![c] = TRUE]
  /\ UNCHANGED <<tool, target, clock, createdAt, tasks, sems, result, listed,
                 wasActive>>

(* Mutant: the status is not read again after the wait.                    *)
BeginUnchecked(c) ==
  /\ Goto(c, "acquired", "executing")
  /\ status' = [status EXCEPT ![c] = IF @ = "cancelled" THEN @ ELSE "running"]
  /\ UNCHANGED <<tool, target, clock, createdAt, tasks, ctxDone, sems, result,
                 listed, wasActive>>

(* Under m.mu: a task cancelled while it waited does not run its handler.  *)
Begin(c) ==
  /\ pc[c] = "acquired"
  /\ IF status[c] = "cancelled"
       THEN /\ pc' = [pc EXCEPT ![c] = "releasing"]
            /\ result' = [result EXCEPT ![c] = "cancelledBefore"]
            /\ UNCHANGED status
       ELSE /\ pc' = [pc EXCEPT ![c] = "executing"]
            /\ status' = [status EXCEPT ![c] = "running"]
            /\ UNCHANGED result
  /\ UNCHANGED <<tool, target, clock, createdAt, tasks, ctxDone, sems, listed,
                 wasActive>>
-----------------------------------------------------------------------------
(* Handlers: fn(ctx).  A tool's own work succeeds or fails.                *)
Work(c) ==
  /\ tool[c] \notin {"CancelTask", "GetRunningTasks"}
  /\ Goto(c, "executing", "returned")
  /\ \E r \in {"ok", "err"} : result' = [result EXCEPT ![c] = r]
  /\ UNCHANGED <<tool, target, clock, createdAt, tasks, status, ctxDone, sems,
                 listed, wasActive>>

(* cancelTask: refused for an unknown task and for a settled one.          *)
(* Mutant: cancelTask does not look at the status.                         *)
CancellableAlways(t) == t \in tasks
Cancellable(t) == t \in tasks /\ status[t] \in Active
CancelTask(c) ==
  LET t == target[c] IN
  /\ tool[c] = "CancelTask"
  /\ Goto(c, "executing", "returned")
  /\ IF Cancellable(t)
       THEN /\ status' = [status EXCEPT ![t] = "cancelled"]
            /\ ctxDone' = [ctxDone EXCEPT ![t] = TRUE]
            /\ result' = [result EXCEPT ![c] = "ok"]
       ELSE /\ result' = [result EXCEPT ![c] = "err"]
            /\ UNCHANGED <<status, ctxDone>>
  /\ UNCHANGED <<tool, target, clock, createdAt, tasks, sems, listed, wasActive>>

(* GetRunningTasks lists the running tasks and then, under a lock of its   *)
(* own, the pending ones.                                                  *)
ListRunning(c) ==
  /\ tool[c] = "GetRunningTasks"
  /\ Goto(c, "executing", "listing")
  /\ listed' = [listed EXCEPT ![c] = WithStatus(tasks, {"running"})]
  /\ wasActive' = [wasActive EXCEPT ![c] = WithStatus(tasks, Active)]
  /\ UNCHANGED <<tool, target, clock, createdAt, tasks, status, ctxDone, sems,
                 result>>

ListPending(c) ==
  /\ Goto(c, "listing", "returned")
  /\ listed' = [listed EXCEPT ![c] = @ \cup WithStatus(tasks, {"pending"})]
  /\ wasActive' = [wasActive EXCEPT ![c] = {}]
  /\ result' = [result EXCEPT ![c] = "ok"]
  /\ UNCHANGED <<tool, target, clock, createdAt, tasks, status, ctxDone, sems>>
-----------------------------------------------------------------------------
Finish(c) ==
  /\ Goto(c, "returned", "releasing")
  /\ Finished(c, IF result[c] = "err" THEN "failed" ELSE "completed")
  /\ listed' = [listed EXCEPT ![c] = {}]
  /\ UNCHANGED <<tool, target, clock, createdAt, tasks, ctxDone, sems, result,
                 wasActive>>

(* Mutant: the slot is freed at the end of run instead of by a defer, so    *)
(* the early return of a cancelled call keeps it.                          *)
ReleaseNotDeferred(c) ==
  /\ Goto(c, "releasing", "done")
  /\ sems' = IF result[c] = "cancelledBefore"
               THEN sems ELSE [sems EXCEPT ![Cat(c)] = @ - 1]
  /\ ctxDone' = [ctxDone EXCEPT ![c] = TRUE]
  /\ UNCHANGED <<tool, target, clock, createdAt, tasks, status, result, listed,
                 wasActive>>

(* The deferred receive from sem and cancel, and the answer.               *)
Release(c) ==
  /\ Goto(c, "releasing", "done")
  /\ sems' = [sems EXCEPT ![Cat(c)] = @ - 1]
  /\ ctxDone' = [ctxDone EXCEPT ![c] = TRUE]
  /\ UNCHANGED <<tool, target, clock, createdAt, tasks, status, result, listed,
                 wasActive>>

(* Mutant: the deadline bounds the wait for a slot and not the handler.    *)
ExpireWaiting(c) ==
  /\ pc[c] \in Waiting
  /\ ~ctxDone[c]
  /\ ctxDone' = [ctxDone EXCEPT ![c] = TRUE]
  /\ UNCHANGED <<pc, tool, target, clock, createdAt, tasks, status, sems, result,
                 listed, wasActive>>

(* dispatch's toolCallTimeout passes, or the client drops the request.     *)
Expire(c) ==
  /\ pc[c] \notin {"idle", "done"}
  /\ ~ctxDone[c]
  /\ ctxDone' = [ctxDone EXCEPT ![c] = TRUE]
  /\ UNCHANGED <<pc, tool, target, clock, createdAt, tasks, status, sems, result,
                 listed, wasActive>>

Handler(c) == Work(c) \/ CancelTask(c) \/ ListRunning(c) \/ ListPending(c)
Step(c) ==
  \/ Register(c) \/ Acquire(c) \/ GiveUp(c) \/ FinishUnacquired(c) \/ Begin(c)
  \/ Finish(c) \/ Release(c)

Next == \E c \in Calls : Start(c) \/ Step(c) \/ Handler(c) \/ Expire(c)

Spec == Init /\ [][Next]_vars

(* The scheduler runs every goroutine that can run; deadlines pass; a      *)
(* handler is only relied upon to return once its context is done.         *)
Fairness ==
  \A c \in Calls :
    /\ WF_vars(Step(c))
    /\ WF_vars(Expire(c))
    /\ WF_vars(ctxDone[c] /\ Handler(c))

FairSpec == Spec /\ Fairness
-----------------------------------------------------------------------------
(* A category's channel holds one token per call between its send and its  *)
(* deferred receive (tasks.go:154-155), however the call ends: no token    *)
(* leaks on a cancel, a failure or an early return, and none is freed      *)
(* twice.                                                                  *)
SlotAccounting == \A k \in Category : sems[k] = Cardinality(Holders(k))

(* No more handlers of a category execute at once than categoryLimits      *)
(* allows, those of cancelled tasks that have not returned yet included:   *)
(* one for the desktop (tasks.go:14-16).                                   *)
WithinLimit ==
  \A k \in Category :
    Cardinality({c \in Calls : Cat(c) = k /\ pc[c] \in Executing}) <= Limit[k]

(* Pruning (tasks.go:240) drops finished tasks only, so a task that waits  *)
(* or runs can always be found, listed and cancelled.                      *)
ActiveTasksTracked ==
  \A c \in Calls : pc[c] \notin {"idle", "created"} /\ status[c] \in Active
                     => c \in tasks

(* What has been dropped from the history is older than MaxHistory         *)
(* finished tasks that are still there: GetTaskStatus loses the oldest.    *)
HistoryKeepsNewest ==
  \A c \in Calls : pc[c] \notin {"idle", "created"} /\ c \notin tasks
    => Cardinality(Newer(c, WithStatus(tasks, Terminal))) >= MaxHistory

(* What a call answers agrees with the verdict GetTaskStatus will report:  *)
(* no answered call is left pending or running, a task reported completed  *)
(* answered with a result, and one that never got a slot never completed.  *)
AnswerMatchesVerdict ==
  \A c \in Calls :
    /\ pc[c] = "done" => status[c] \in Terminal
    /\ status[c] = "completed" => result[c] = "ok"
    /\ result[c] = "cancelledBefore" => status[c] = "cancelled"

(* A verdict is final (tasks.go:187-189, 203): neither the end of a        *)
(* handler nor a second cancel overwrites it.                              *)
VerdictIsFinal ==
  [][\A c \in Calls : status[c] \in Terminal => status'[c] = status[c]]_vars

(* A task cancelled before its handler started never starts it, although   *)
(* the select may still take the slot (tasks.go:163-171).                  *)
NoStartAfterCancel ==
  [][\A c \in Calls :
       status[c] = "cancelled" /\ pc[c] \notin Executing => pc'[c] \notin Executing]_vars

(* Every call is answered: through its slot, or by giving up on it.        *)
EveryCallAnswered == \A c \in Calls : pc[c] = "created" ~> pc[c] = "done"

(* GetRunningTasks "List[s] all currently running and pending tasks"       *)
(* (tools.json:530): a task that is active at both of its lists is in the  *)
(* answer.                                                                 *)
ListsAllActive ==
  [][\A c \in Calls :
       ListPending(c) => WithStatus(wasActive[c] \cap tasks, Active) \subseteq listed'[c]]_vars
-----------------------------------------------------------------------------
(* The refinement: run's critical sections are the steps of TaskPool.      *)
PhaseOf(p) ==
  IF p \in {"idle", "created"} THEN "new"
  ELSE IF p \in {"acquiring", "gaveUp"} THEN "queued"
  ELSE IF p \in Holding THEN "admitted"
  ELSE "gone"

VerdictOf(s) == IF s \in Terminal THEN s ELSE "none"

phaseBar    == [c \in Calls |-> PhaseOf(pc[c])]
categoryBar == [c \in Calls |-> Cat(c)]
verdictBar  == [c \in Calls |-> VerdictOf(status[c])]

Pool == INSTANCE TaskPool WITH
  phase <- phaseBar, category <- categoryBar, verdict <- verdictBar

(* The manager implements the pool: admission within the budget, one       *)
(* verdict per call, and no call leaves without it.                        *)
ImplementsPool == Pool!Spec
=============================================================================
