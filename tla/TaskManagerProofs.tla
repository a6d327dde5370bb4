------------------------- MODULE TaskManagerProofs -------------------------
(***************************************************************************)
(* Theorems about TaskManager for every set of calls, every limit and      *)
(* every history size.                                                     *)
(***************************************************************************)
EXTENDS TaskManager, FiniteSetTheorems, TLAPS

LEMMA CategoryForType == \A t : CategoryFor(t) \in Category
BY DEF CategoryFor, Category

LEMMA HoldersFinite ==
  ASSUME NEW k
  PROVE  /\ IsFiniteSet(Holders(k))
         /\ Cardinality(Holders(k)) \in Nat
<1>1. Holders(k) \in SUBSET Calls
  BY DEF Holders
<1>2. QED
  BY <1>1, FS_Subset, FS_CardinalityType, CallsAssumption

(* The steps that neither take nor free a slot leave the holders alone.    *)
LEMMA HoldersUnchanged ==
  ASSUME TypeOK, NEW c \in Calls, NEW p, tool' = tool,
         pc' = [pc EXCEPT ![c] = p], p \in Holding <=> pc[c] \in Holding
  PROVE  \A k : Holders(k)' = Holders(k)
BY DEF Holders, Cat, TypeOK

LEMMA HoldersTaken ==
  ASSUME TypeOK, NEW c \in Calls, NEW p \in Holding, tool' = tool,
         pc[c] \notin Holding, pc' = [pc EXCEPT ![c] = p]
  PROVE  \A k : Holders(k)' = IF k = Cat(c) THEN Holders(k) \cup {c} ELSE Holders(k)
BY DEF Holders, Cat, TypeOK

LEMMA HoldersFreed ==
  ASSUME TypeOK, NEW c \in Calls, NEW p, p \notin Holding, tool' = tool,
         pc[c] \in Holding, pc' = [pc EXCEPT ![c] = p]
  PROVE  \A k : Holders(k)' = IF k = Cat(c) THEN Holders(k) \ {c} ELSE Holders(k)
BY DEF Holders, Cat, TypeOK

(* The inductive invariant of the slots: the tokens of a channel are its   *)
(* holders, and no channel holds more than its capacity.                   *)
SlotInv ==
  /\ TypeOK
  /\ SlotAccounting
  /\ \A k \in Category : sems[k] <= Limit[k]

LEMMA SlotInvInit == Init => SlotInv
<1> SUFFICES ASSUME Init PROVE SlotInv
  OBVIOUS
<1>1. TypeOK
  BY ToolsAssumption DEF Init, TypeOK, PC, Status, Result
<1>2. \A k : Holders(k) = {}
  BY DEF Init, Holders, Holding
<1>3. SlotAccounting
  BY <1>2, FS_EmptySet DEF Init, SlotAccounting
<1>4. \A k \in Category : sems[k] <= Limit[k]
  BY LimitAssumption DEF Init
<1>5. QED
  BY <1>1, <1>3, <1>4 DEF SlotInv

(* A step that leaves tokens and holders as they are keeps SlotInv.        *)
LEMMA SlotInvKept ==
  ASSUME SlotInv, TypeOK', sems' = sems, \A k : Holders(k)' = Holders(k)
  PROVE  SlotInv'
BY DEF SlotInv, SlotAccounting

LEMMA SlotInvNext == SlotInv /\ [Next]_vars => SlotInv'
<1> SUFFICES ASSUME SlotInv, [Next]_vars PROVE SlotInv'
  OBVIOUS
<1>t. TypeOK
  BY DEF SlotInv
<1>1. ASSUME NEW c \in Calls, Start(c) PROVE SlotInv'
  <2>1. TypeOK'
    BY <1>1, <1>t DEF Start, Goto, TypeOK, PC, Status, Active, Terminal
  <2>2. \A k : Holders(k)' = Holders(k)
    BY <1>1, <1>t, HoldersUnchanged DEF Start, Goto, Holding
  <2>3. QED
    BY <1>1, <2>1, <2>2, SlotInvKept DEF Start
<1>2. ASSUME NEW c \in Calls, Register(c) PROVE SlotInv'
  <2>1. TypeOK'
    BY <1>2, <1>t DEF Register, Pruned, Goto, TypeOK, PC
  <2>2. \A k : Holders(k)' = Holders(k)
    BY <1>2, <1>t, HoldersUnchanged DEF Register, Goto, Holding
  <2>3. QED
    BY <1>2, <2>1, <2>2, SlotInvKept DEF Register
<1>3. ASSUME NEW c \in Calls, Acquire(c) PROVE SlotInv'
  <2>k. Cat(c) \in Category
    BY CategoryForType DEF Cat
  <2>1. TypeOK'
    BY <1>3, <1>t, <2>k DEF Acquire, Goto, TypeOK, PC
  <2>2. \A k : Holders(k)' = IF k = Cat(c) THEN Holders(k) \cup {c} ELSE Holders(k)
    BY <1>3, <1>t, HoldersTaken DEF Acquire, Goto, Holding
  <2>3. c \notin Holders(Cat(c))
    BY <1>3 DEF Acquire, Goto, Holders, Holding
  <2>4. Cardinality(Holders(Cat(c)) \cup {c}) = Cardinality(Holders(Cat(c))) + 1
    BY <2>3, HoldersFinite, FS_AddElement
  <2>5. sems' = [sems EXCEPT ![Cat(c)] = sems[Cat(c)] + 1]
    BY <1>3 DEF Acquire
  <2>6. SlotAccounting'
    BY <1>t, <2>k, <2>2, <2>4, <2>5 DEF SlotInv, SlotAccounting, TypeOK
  <2>7. \A k \in Category : sems'[k] <= Limit[k]
    <3>1. sems[Cat(c)] < Limit[Cat(c)]
      BY <1>3 DEF Acquire
    <3>2. sems[Cat(c)] \in Nat /\ Limit[Cat(c)] \in Nat
      BY <1>t, <2>k, LimitAssumption DEF TypeOK
    <3>3. SUFFICES ASSUME NEW k \in Category PROVE sems'[k] <= Limit[k]
      OBVIOUS
    <3>4. CASE k = Cat(c)
      BY <1>t, <2>k, <2>5, <3>1, <3>2, <3>4 DEF TypeOK
    <3>5. CASE k # Cat(c)
      BY <1>t, <2>5, <3>5 DEF SlotInv, TypeOK
    <3>6. QED
      BY <3>4, <3>5
  <2>8. QED
    BY <2>1, <2>6, <2>7 DEF SlotInv
<1>4. ASSUME NEW c \in Calls, GiveUp(c) PROVE SlotInv'
  <2>1. TypeOK'
    BY <1>4, <1>t DEF GiveUp, Goto, TypeOK, PC, Result
  <2>2. \A k : Holders(k)' = Holders(k)
    BY <1>4, <1>t, HoldersUnchanged DEF GiveUp, Goto, Holding
  <2>3. QED
    BY <1>4, <2>1, <2>2, SlotInvKept DEF GiveUp
<1>5. ASSUME NEW c \in Calls, FinishUnacquired(c) PROVE SlotInv'
  <2>1. TypeOK'
    BY <1>5, <1>t DEF FinishUnacquired, Finished, Goto, TypeOK, PC, Status, Terminal
  <2>2. \A k : Holders(k)' = Holders(k)
    BY <1>5, <1>t, HoldersUnchanged DEF FinishUnacquired, Goto, Holding
  <2>3. QED
    BY <1>5, <2>1, <2>2, SlotInvKept DEF FinishUnacquired
<1>6. ASSUME NEW c \in Calls, Begin(c) PROVE SlotInv'
  <2>1. TypeOK'
    BY <1>6, <1>t DEF Begin, TypeOK, PC, Status, Active, Result
  <2>2. \A k : Holders(k)' = Holders(k)
    <3>1. PICK p \in {"releasing", "executing"} : pc' = [pc EXCEPT ![c] = p]
      BY <1>6 DEF Begin
    <3>2. QED
      BY <1>6, <1>t, <3>1, HoldersUnchanged DEF Begin, Holding
  <2>3. QED
    BY <1>6, <2>1, <2>2, SlotInvKept DEF Begin
<1>7. ASSUME NEW c \in Calls, Handler(c) PROVE SlotInv'
  <2>1. TypeOK'
    <3>1. CASE Work(c)
      BY <3>1, <1>t DEF Work, Goto, TypeOK, PC, Result
    <3>2. CASE CancelTask(c)
      BY <3>2, <1>t DEF CancelTask, Cancellable, Goto, TypeOK, PC, Result, Status, Terminal
    <3>3. CASE ListRunning(c)
      BY <3>3, <1>t DEF ListRunning, WithStatus, Goto, TypeOK, PC
    <3>4. CASE ListPending(c)
      BY <3>4, <1>t DEF ListPending, WithStatus, Goto, TypeOK, PC, Result
    <3>5. QED
      BY <1>7, <3>1, <3>2, <3>3, <3>4 DEF Handler
  <2>2. /\ tool' = tool
        /\ sems' = sems
        /\ pc[c] \in Executing
        /\ \E p \in {"listing", "returned"} : pc' = [pc EXCEPT ![c] = p]
    BY <1>7 DEF Handler, Work, CancelTask, ListRunning, ListPending, Goto, Executing
  <2>3. \A k : Holders(k)' = Holders(k)
    BY <2>2, <1>t, HoldersUnchanged DEF Executing, Holding
  <2>4. QED
    BY <2>1, <2>2, <2>3, SlotInvKept
<1>8. ASSUME NEW c \in Calls, Finish(c) PROVE SlotInv'
  <2>1. TypeOK'
    BY <1>8, <1>t DEF Finish, Finished, Goto, TypeOK, PC, Status, Terminal
  <2>2. \A k : Holders(k)' = Holders(k)
    BY <1>8, <1>t, HoldersUnchanged DEF Finish, Goto, Holding
  <2>3. QED
    BY <1>8, <2>1, <2>2, SlotInvKept DEF Finish
<1>9. ASSUME NEW c \in Calls, Release(c) PROVE SlotInv'
  <2>k. Cat(c) \in Category
    BY CategoryForType DEF Cat
  <2>1. c \in Holders(Cat(c))
    BY <1>9 DEF Release, Goto, Holders, Holding
  <2>2. \A k : Holders(k)' = IF k = Cat(c) THEN Holders(k) \ {c} ELSE Holders(k)
    BY <1>9, <1>t, HoldersFreed DEF Release, Goto, Holding
  <2>3. /\ Cardinality(Holders(Cat(c)) \ {c}) = Cardinality(Holders(Cat(c))) - 1
        /\ Cardinality(Holders(Cat(c)) \ {c}) \in Nat
    <3>1. Cardinality(Holders(Cat(c)) \ {c}) = Cardinality(Holders(Cat(c))) - 1
      BY <2>1, HoldersFinite, FS_RemoveElement
    <3>2. IsFiniteSet(Holders(Cat(c)) \ {c})
      BY HoldersFinite, FS_RemoveElement
    <3>3. QED
      BY <3>1, <3>2, FS_CardinalityType
  <2>4. sems' = [sems EXCEPT ![Cat(c)] = sems[Cat(c)] - 1]
    BY <1>9 DEF Release
  <2>5. sems[Cat(c)] - 1 \in Nat
    BY <2>k, <2>3 DEF SlotInv, SlotAccounting
  <2>6. TypeOK'
    BY <1>9, <1>t, <2>k, <2>4, <2>5 DEF Release, Goto, TypeOK, PC
  <2>7. SlotAccounting'
    BY <1>t, <2>k, <2>2, <2>3, <2>4 DEF SlotInv, SlotAccounting, TypeOK
  <2>8. \A k \in Category : sems'[k] <= Limit[k]
    <3>1. SUFFICES ASSUME NEW k \in Category PROVE sems'[k] <= Limit[k]
      OBVIOUS
    <3>2. sems[k] \in Nat /\ Limit[k] \in Nat /\ sems[k] <= Limit[k]
      BY <1>t, LimitAssumption DEF SlotInv, TypeOK
    <3>3. sems'[k] = IF k = Cat(c) THEN sems[k] - 1 ELSE sems[k]
      BY <1>t, <2>4 DEF TypeOK
    <3>4. QED
      BY <3>2, <3>3
  <2>9. QED
    BY <2>6, <2>7, <2>8 DEF SlotInv
<1>10. ASSUME NEW c \in Calls, Expire(c) PROVE SlotInv'
  <2>1. TypeOK'
    BY <1>10, <1>t DEF Expire, TypeOK
  <2>2. \A k : Holders(k)' = Holders(k)
    BY <1>10 DEF Expire, Holders, Cat
  <2>3. QED
    BY <1>10, <2>1, <2>2, SlotInvKept DEF Expire
<1>11. CASE UNCHANGED vars
  <2>1. TypeOK' /\ sems' = sems
    BY <1>11, <1>t DEF vars, TypeOK
  <2>2. \A k : Holders(k)' = Holders(k)
    BY <1>11 DEF vars, Holders, Cat
  <2>3. QED
    BY <2>1, <2>2, SlotInvKept
<1>12. QED
  BY <1>1, <1>2, <1>3, <1>4, <1>5, <1>6, <1>7, <1>8, <1>9, <1>10, <1>11 DEF Next, Step

LEMMA SlotInvAlways == Spec => []SlotInv
BY SlotInvInit, SlotInvNext, PTL DEF Spec

(* The variables of the manager keep their types; in particular no channel *)
(* is ever received from more often than it was sent to.                   *)
THEOREM TypeCorrect == Spec => []TypeOK
<1>1. SlotInv => TypeOK
  BY DEF SlotInv
<1>2. QED
  BY <1>1, SlotInvAlways, PTL

(* Every token of a category's channel belongs to one call between its     *)
(* send and its deferred receive (tasks.go:154-155): none leaks.           *)
THEOREM SlotsAccounted == Spec => []SlotAccounting
<1>1. SlotInv => SlotAccounting
  BY DEF SlotInv
<1>2. QED
  BY <1>1, SlotInvAlways, PTL

(* A call waits for a slot only while another call of its category has     *)
(* one: a full channel always has somebody who will empty it, since no     *)
(* token outlives its call (the select of run, tasks.go:153-161).          *)
WaitsForHolders ==
  \A c \in Calls :
    pc[c] = "acquiring" =>
      sems[Cat(c)] < Limit[Cat(c)] \/ \E d \in Calls \ {c} : d \in Holders(Cat(c))

THEOREM WaitersHaveHolders == Spec => []WaitsForHolders
<1>1. SlotInv => WaitsForHolders
  <2> SUFFICES ASSUME SlotInv, NEW c \in Calls, pc[c] = "acquiring",
                      ~(sems[Cat(c)] < Limit[Cat(c)])
               PROVE  \E d \in Calls \ {c} : d \in Holders(Cat(c))
    BY DEF WaitsForHolders
  <2>1. Cat(c) \in Category
    BY CategoryForType DEF Cat
  <2>2. sems[Cat(c)] \in Nat /\ Limit[Cat(c)] \in Nat \ {0}
    BY <2>1, LimitAssumption DEF SlotInv, TypeOK
  <2>3. Cardinality(Holders(Cat(c))) # 0
    BY <2>1, <2>2 DEF SlotInv, SlotAccounting
  <2>4. Holders(Cat(c)) # {}
    BY <2>3, FS_EmptySet
  <2>5. c \notin Holders(Cat(c)) /\ Holders(Cat(c)) \subseteq Calls
    BY DEF Holders, Holding
  <2>6. QED
    BY <2>4, <2>5
<1>2. QED
  BY <1>1, SlotInvAlways, PTL

(* No more handlers of a category run at once than categoryLimits allows   *)
(* (tasks.go:27-33), those of cancelled tasks included: with a limit of 1  *)
(* this is mutual exclusion of the desktop tools.                          *)
THEOREM HandlersWithinLimit == Spec => []WithinLimit
<1>1. SlotInv => WithinLimit
  <2> SUFFICES ASSUME SlotInv, NEW k \in Category
               PROVE  Cardinality({c \in Calls : Cat(c) = k /\ pc[c] \in Executing}) <= Limit[k]
    BY DEF WithinLimit
  <2> DEFINE Running == {c \in Calls : Cat(c) = k /\ pc[c] \in Executing}
  <2>1. Running \in SUBSET Holders(k)
    BY DEF Holders, Executing, Holding
  <2>2. Cardinality(Running) <= Cardinality(Holders(k)) /\ IsFiniteSet(Running)
    BY <2>1, HoldersFinite, FS_Subset
  <2>3. Cardinality(Running) \in Nat
    BY <2>2, FS_CardinalityType
  <2>4. Cardinality(Holders(k)) <= Limit[k] /\ Limit[k] \in Nat
    BY LimitAssumption DEF SlotInv, SlotAccounting
  <2>5. QED
    BY <2>2, <2>3, <2>4, HoldersFinite
<1>2. QED
  BY <1>1, SlotInvAlways, PTL
-----------------------------------------------------------------------------
(* The life of a task: which statuses go with which point of run, that a   *)
(* task is in the map from its registration until it has been pruned, and  *)
(* what a settled call has answered.                                       *)
StatusAt(p) ==
  IF p = "idle" THEN {"none"}
  ELSE IF p = "created" THEN {"pending"}
  ELSE IF p \in {"acquiring", "gaveUp", "acquired"} THEN {"pending", "cancelled"}
  ELSE IF p \in {"executing", "listing", "returned"} THEN {"running", "cancelled"}
  ELSE Terminal

ResultAt(p) ==
  IF p \in {"releasing", "done"} THEN Result
  ELSE IF p = "gaveUp" THEN {"timeout", "abandoned"}
  ELSE IF p = "returned" THEN {"ok", "err"}
  ELSE {"none"}

LifeInv ==
  /\ \A c \in Calls : status[c] \in StatusAt(pc[c])
  /\ \A c \in Calls : result[c] \in ResultAt(pc[c])
  /\ \A c \in Calls : pc[c] \in {"idle", "created"} => c \notin tasks
  /\ ActiveTasksTracked
  /\ AnswerMatchesVerdict

LEMMA LifeInvInit == Init => LifeInv
BY DEF Init, LifeInv, StatusAt, ResultAt, ActiveTasksTracked, AnswerMatchesVerdict

LEMMA LifeInvNext == TypeOK /\ LifeInv /\ [Next]_vars => LifeInv'
<1> SUFFICES ASSUME TypeOK, LifeInv, [Next]_vars PROVE LifeInv'
  OBVIOUS
<1> USE DEF TypeOK, LifeInv, StatusAt, ResultAt, ActiveTasksTracked,
            AnswerMatchesVerdict, Active, Terminal, Goto
<1>1. ASSUME NEW c \in Calls, Start(c) PROVE LifeInv'
  BY <1>1 DEF Start
<1>2. ASSUME NEW c \in Calls, Register(c) PROVE LifeInv'
  <2>1. \A t \in tasks \cup {c} : t \notin tasks' => status[t] \in Terminal
    BY <1>2 DEF Register, Pruned, WithStatus
  <2>2. tasks' \subseteq tasks \cup {c}
    BY <1>2 DEF Register, Pruned
  <2>3. QED
    BY <1>2, <2>1, <2>2 DEF Register
<1>3. ASSUME NEW c \in Calls, Acquire(c) PROVE LifeInv'
  BY <1>3 DEF Acquire
<1>4. ASSUME NEW c \in Calls, GiveUp(c) PROVE LifeInv'
  BY <1>4 DEF GiveUp
<1>5. ASSUME NEW c \in Calls, FinishUnacquired(c) PROVE LifeInv'
  BY <1>5 DEF FinishUnacquired, Finished, Result
<1>6. ASSUME NEW c \in Calls, Begin(c) PROVE LifeInv'
  <2>1. CASE status[c] = "cancelled"
    BY <1>6, <2>1 DEF Begin, Result
  <2>2. CASE status[c] # "cancelled"
    BY <1>6, <2>2 DEF Begin
  <2>3. QED
    BY <2>1, <2>2
<1>7. ASSUME NEW c \in Calls, Work(c) PROVE LifeInv'
  BY <1>7 DEF Work
<1>8. ASSUME NEW c \in Calls, CancelTask(c) PROVE LifeInv'
  BY <1>8 DEF CancelTask, Cancellable
<1>9. ASSUME NEW c \in Calls, ListRunning(c) PROVE LifeInv'
  BY <1>9 DEF ListRunning
<1>10. ASSUME NEW c \in Calls, ListPending(c) PROVE LifeInv'
  BY <1>10 DEF ListPending
<1>11. ASSUME NEW c \in Calls, Finish(c) PROVE LifeInv'
  BY <1>11 DEF Finish, Finished, Result
<1>12. ASSUME NEW c \in Calls, Release(c) PROVE LifeInv'
  BY <1>12 DEF Release
<1>13. ASSUME NEW c \in Calls, Expire(c) PROVE LifeInv'
  BY <1>13 DEF Expire
<1>14. CASE UNCHANGED vars
  BY <1>14 DEF vars
<1>15. QED
  BY <1>1, <1>2, <1>3, <1>4, <1>5, <1>6, <1>7, <1>8, <1>9, <1>10, <1>11, <1>12,
     <1>13, <1>14 DEF Next, Step, Handler

LEMMA LifeInvAlways == Spec => []LifeInv
BY LifeInvInit, LifeInvNext, TypeCorrect, PTL DEF Spec

(* Pruning (tasks.go:240) never takes a pending or running task out of the *)
(* map, whatever the history size: it can always be listed and cancelled.  *)
THEOREM ActiveAlwaysTracked == Spec => []ActiveTasksTracked
<1>1. LifeInv => ActiveTasksTracked
  BY DEF LifeInv
<1>2. QED
  BY <1>1, LifeInvAlways, PTL

(* What a call answered and the verdict kept for GetTaskStatus agree.      *)
THEOREM AnswersMatchVerdicts == Spec => []AnswerMatchesVerdict
<1>1. LifeInv => AnswerMatchesVerdict
  BY DEF LifeInv
<1>2. QED
  BY <1>1, LifeInvAlways, PTL

(* A verdict is final (tasks.go:187-189, 203): no end of a handler and no  *)
(* second cancel overwrites it.                                            *)
THEOREM VerdictsAreFinal == Spec => VerdictIsFinal
<1>1. TypeOK /\ LifeInv /\ [Next]_vars
        => [\A c \in Calls : status[c] \in Terminal => status'[c] = status[c]]_vars
  <2> SUFFICES ASSUME TypeOK, LifeInv, Next, NEW c \in Calls, status[c] \in Terminal
               PROVE  status'[c] = status[c]
    OBVIOUS
  <2> USE DEF TypeOK, LifeInv, StatusAt, Active, Terminal, Goto
  <2>1. PICK d \in Calls : Start(d) \/ Step(d) \/ Handler(d) \/ Expire(d)
    BY DEF Next
  <2>2. CASE Start(d)
    BY <2>2 DEF Start
  <2>3. CASE Step(d)
    BY <2>3 DEF Step, Register, Acquire, GiveUp, FinishUnacquired, Begin, Finish,
                Release, Finished
  <2>4. CASE Handler(d)
    BY <2>4 DEF Handler, Work, CancelTask, Cancellable, ListRunning, ListPending
  <2>5. CASE Expire(d)
    BY <2>5 DEF Expire
  <2>6. QED
    BY <2>1, <2>2, <2>3, <2>4, <2>5
<1>2. QED
  BY <1>1, TypeCorrect, LifeInvAlways, PTL DEF Spec, VerdictIsFinal

(* Only Begin enters a handler, and it looks at the status under the lock  *)
(* (tasks.go:162-171): a task cancelled in time never runs.                *)
THEOREM CancelledNeverStarts == Spec => NoStartAfterCancel
<1>1. TypeOK /\ LifeInv /\ [Next]_vars
        => [\A c \in Calls : status[c] = "cancelled" /\ pc[c] \notin Executing
                              => pc'[c] \notin Executing]_vars
  <2> SUFFICES ASSUME TypeOK, Next, NEW c \in Calls,
                      status[c] = "cancelled", pc[c] \notin Executing
               PROVE  pc'[c] \notin Executing
    OBVIOUS
  <2> USE DEF TypeOK, Executing, Goto
  <2>1. PICK d \in Calls : Start(d) \/ Step(d) \/ Handler(d) \/ Expire(d)
    BY DEF Next
  <2>2. CASE Start(d)
    BY <2>2 DEF Start
  <2>3. CASE Step(d)
    BY <2>3 DEF Step, Register, Acquire, GiveUp, FinishUnacquired, Begin, Finish, Release
  <2>4. CASE Handler(d)
    BY <2>4 DEF Handler, Work, CancelTask, ListRunning, ListPending
  <2>5. CASE Expire(d)
    BY <2>5 DEF Expire
  <2>6. QED
    BY <2>1, <2>2, <2>3, <2>4, <2>5
<1>2. QED
  BY <1>1, TypeCorrect, LifeInvAlways, PTL DEF Spec, NoStartAfterCancel
-----------------------------------------------------------------------------
(* Pruning: what it removes is older than MaxHistory of what it leaves.    *)
LEMMA Least ==
  ASSUME NEW S \in SUBSET Nat, S # {}
  PROVE  \E m \in S : \A n \in S : m <= n
<1>1. \E m \in S : \A n \in S : <<n, m>> \notin OpToRel(<, Nat)
  BY NatLessThanWellFounded, WFMin, Zenon
<1>2. \E m \in S : \A n \in S : ~(n < m)
  BY <1>1, Zenon DEF OpToRel
<1>3. QED
  BY <1>2

LEMMA NewerFinite ==
  ASSUME NEW c, NEW T \in SUBSET Calls
  PROVE  IsFiniteSet(Newer(c, T)) /\ Cardinality(Newer(c, T)) \in Nat
<1>1. Newer(c, T) \in SUBSET Calls
  BY DEF Newer
<1>2. QED
  BY <1>1, FS_Subset, FS_CardinalityType, CallsAssumption

LEMMA NewerGrows ==
  ASSUME NEW T \in SUBSET Calls, NEW c, NEW d, Newer(c, T) \subseteq Newer(d, T),
         NEW U \in SUBSET Calls, T \subseteq U
  PROVE  Cardinality(Newer(c, T)) <= Cardinality(Newer(d, U))
<1>1. Newer(c, T) \in SUBSET Newer(d, U)
  BY DEF Newer
<1>2. QED
  BY <1>1, NewerFinite, FS_Subset

(* The newest of the removed has MaxHistory newer ones, which all stay.    *)
LEMMA PrunedAreOldest ==
  ASSUME TypeOK, NEW done \in SUBSET Calls,
         NEW gone, gone = {t \in done : Cardinality(Newer(t, done)) >= MaxHistory},
         NEW t \in gone
  PROVE  Cardinality(Newer(t, done \ gone)) >= MaxHistory
<1> DEFINE Count(x) == Cardinality(Newer(x, done))
           Counts == {Count(x) : x \in gone}
<1>1. Counts \in SUBSET Nat /\ Counts # {}
  BY NewerFinite
<1>2. \E m \in Counts : \A n \in Counts : m <= n
  BY <1>1, Least
<1>3. PICK first \in gone : \A u \in gone : Count(first) <= Count(u)
  BY <1>2
<1>4. \A x \in Calls : createdAt[x] \in Nat
  BY DEF TypeOK
<1>5. ASSUME NEW u \in gone PROVE ~(createdAt[u] > createdAt[first])
  <2>1. SUFFICES ASSUME createdAt[u] > createdAt[first] PROVE FALSE
    OBVIOUS
  <2>2. Newer(u, done) \subseteq Newer(first, done)
    BY <1>4, <2>1 DEF Newer
  <2>3. u \in Newer(first, done) /\ u \notin Newer(u, done)
    BY <1>4, <2>1 DEF Newer
  <2>4. Count(u) <= Count(first) /\ Count(u) \in Nat /\ Count(first) \in Nat
    BY <2>2, NewerFinite, FS_Subset
  <2>5. Count(u) = Count(first)
    BY <1>3, <2>4
  <2>6. Newer(u, done) = Newer(first, done)
    BY <2>2, <2>5, NewerFinite, FS_Subset
  <2>7. QED
    BY <2>3, <2>6
<1>6. Newer(first, done) = Newer(first, done \ gone)
  BY <1>5 DEF Newer
<1>7. Newer(first, done \ gone) \subseteq Newer(t, done \ gone)
  <2>1. createdAt[t] \in Nat /\ createdAt[first] \in Nat /\ createdAt[t] <= createdAt[first]
    BY <1>4, <1>5
  <2>2. QED
    BY <1>4, <2>1 DEF Newer
<1>8. Cardinality(Newer(first, done \ gone)) >= MaxHistory
  BY <1>6
<1>9. Cardinality(Newer(first, done \ gone)) <= Cardinality(Newer(t, done \ gone))
  BY <1>7, NewerGrows
<1>10. QED
  BY <1>8, <1>9, NewerFinite, HistoryAssumption

(* A task that was pruned earlier stays behind MaxHistory others: a newer  *)
(* one that goes now leaves as many, newer than itself.                    *)
LEMMA HistoryPruned ==
  ASSUME TypeOK, LifeInv, HistoryKeepsNewest, NEW c \in Calls, Register(c)
  PROVE  HistoryKeepsNewest'
<1> DEFINE done == WithStatus(tasks, Terminal)
           gone == {t \in done : Cardinality(Newer(t, done)) >= MaxHistory}
<1>1. /\ pc[c] = "created" /\ status[c] = "pending" /\ c \notin tasks
      /\ pc' = [pc EXCEPT ![c] = "acquiring"] /\ pc \in [Calls -> PC]
      /\ status' = status /\ createdAt' = createdAt
  BY DEF Register, Goto, LifeInv, StatusAt, TypeOK
<1>2. done \in SUBSET Calls /\ gone \in SUBSET done
  BY DEF TypeOK, WithStatus
<1>3. WithStatus(tasks \cup {c}, Terminal) = done
  BY <1>1 DEF WithStatus, Terminal
<1>4. tasks' = (tasks \cup {c}) \ gone
  BY <1>3 DEF Register, Pruned
<1>5. WithStatus(tasks, Terminal)' = done \ gone
  BY <1>1, <1>3, <1>4 DEF WithStatus
<1>6. \A t : Newer(t, WithStatus(tasks, Terminal))' = Newer(t, done \ gone)
  BY <1>1, <1>5 DEF Newer
<1>7. \A t \in gone : Cardinality(Newer(t, done \ gone)) >= MaxHistory
  BY <1>2, PrunedAreOldest
<1>8. ASSUME NEW p \in Calls, pc'[p] \notin {"idle", "created"}, p \notin tasks'
      PROVE  Cardinality(Newer(p, done \ gone)) >= MaxHistory
  <2>1. CASE p \in gone
    BY <1>7, <2>1
  <2>2. CASE p \notin gone
    <3>1. p \notin tasks /\ p # c
      BY <1>4, <1>8, <2>2
    <3>2. Cardinality(Newer(p, done)) >= MaxHistory
      BY <1>1, <1>8, <3>1 DEF HistoryKeepsNewest
    <3>3. CASE Newer(p, done) \cap gone = {}
      <4>1. Newer(p, done) = Newer(p, done \ gone)
        BY <3>3 DEF Newer
      <4>2. QED
        BY <3>2, <4>1
    <3>4. CASE Newer(p, done) \cap gone # {}
      <4>1. PICK u \in gone : createdAt[u] > createdAt[p]
        BY <3>4 DEF Newer
      <4>2. \A x \in Calls : createdAt[x] \in Nat
        BY DEF TypeOK
      <4>3. Newer(u, done \ gone) \subseteq Newer(p, done \ gone)
        BY <1>2, <4>1, <4>2 DEF Newer
      <4>4. Cardinality(Newer(u, done \ gone)) <= Cardinality(Newer(p, done \ gone))
        BY <1>2, <4>3, NewerGrows
      <4>5. QED
        BY <1>2, <1>7, <4>4, NewerFinite, HistoryAssumption
    <3>5. QED
      BY <3>3, <3>4
  <2>3. QED
    BY <2>1, <2>2
<1>9. QED
  BY <1>6, <1>8 DEF HistoryKeepsNewest

(* Every other step leaves the map alone, takes no verdict back and gives  *)
(* a time to a call that is not in the map only.                           *)
LEMMA HistoryKept ==
  ASSUME TypeOK, HistoryKeepsNewest, tasks' = tasks,
         \A t \in tasks : status[t] \in Terminal => status'[t] \in Terminal,
         \A t \in tasks : createdAt'[t] = createdAt[t],
         \A p \in Calls : pc'[p] \notin {"idle", "created"}
                          => pc[p] \notin {"idle", "created"} /\ createdAt'[p] = createdAt[p]
  PROVE  HistoryKeepsNewest'
<1> DEFINE done == WithStatus(tasks, Terminal)
<1>1. SUFFICES ASSUME NEW p \in Calls, pc'[p] \notin {"idle", "created"}, p \notin tasks
               PROVE  Cardinality(Newer(p, WithStatus(tasks, Terminal))') >= MaxHistory
  BY DEF HistoryKeepsNewest
<1>2. Cardinality(Newer(p, done)) >= MaxHistory
  BY <1>1 DEF HistoryKeepsNewest
<1>3. Newer(p, done) \in SUBSET (Newer(p, WithStatus(tasks, Terminal))')
  BY <1>1 DEF Newer, WithStatus
<1>4. Newer(p, WithStatus(tasks, Terminal))' \in SUBSET Calls
  BY DEF Newer, WithStatus, TypeOK
<1>5. /\ IsFiniteSet(Newer(p, WithStatus(tasks, Terminal))')
      /\ Cardinality(Newer(p, WithStatus(tasks, Terminal))') \in Nat
  BY <1>4, FS_Subset, FS_CardinalityType, CallsAssumption
<1>6. Cardinality(Newer(p, done)) <= Cardinality(Newer(p, WithStatus(tasks, Terminal))')
  BY <1>3, <1>5, FS_Subset
<1>7. done \in SUBSET Calls
  BY DEF TypeOK, WithStatus
<1>8. QED
  BY <1>2, <1>5, <1>6, <1>7, NewerFinite, HistoryAssumption

LEMMA HistoryNext == TypeOK /\ LifeInv /\ HistoryKeepsNewest /\ [Next]_vars => HistoryKeepsNewest'
<1> SUFFICES ASSUME TypeOK, LifeInv, HistoryKeepsNewest, [Next]_vars PROVE HistoryKeepsNewest'
  OBVIOUS
<1> USE DEF TypeOK, Goto
<1>1. ASSUME NEW c \in Calls, Start(c) PROVE HistoryKeepsNewest'
  <2>1. c \notin tasks
    BY <1>1 DEF Start, LifeInv
  <2>2. QED
    BY <1>1, <2>1, HistoryKept DEF Start
<1>2. ASSUME NEW c \in Calls, Register(c) PROVE HistoryKeepsNewest'
  BY <1>2, HistoryPruned
<1>3. ASSUME NEW c \in Calls, Step(c), ~Register(c) PROVE HistoryKeepsNewest'
  <2>1. tasks' = tasks /\ createdAt' = createdAt
    BY <1>3 DEF Step, Acquire, GiveUp, FinishUnacquired, Begin, Finish, Release
  <2>2. /\ pc[c] \notin {"idle", "created"}
        /\ \A p \in Calls : p # c => pc'[p] = pc[p]
    BY <1>3 DEF Step, Acquire, GiveUp, FinishUnacquired, Begin, Finish, Release
  <2>3. \A t \in Calls : status[t] \in Terminal => status'[t] \in Terminal
    BY <1>3 DEF Step, Acquire, GiveUp, FinishUnacquired, Begin, Finish, Release, Finished,
                Terminal, LifeInv, StatusAt
  <2>4. QED
    BY <2>1, <2>2, <2>3, HistoryKept
<1>4. ASSUME NEW c \in Calls, Handler(c) PROVE HistoryKeepsNewest'
  BY <1>4, HistoryKept
     DEF Handler, Work, CancelTask, Cancellable, Active, Terminal, ListRunning, ListPending
<1>5. ASSUME NEW c \in Calls, Expire(c) PROVE HistoryKeepsNewest'
  BY <1>5, HistoryKept DEF Expire
<1>6. CASE UNCHANGED vars
  BY <1>6, HistoryKept DEF vars
<1>7. QED
  BY <1>1, <1>2, <1>3, <1>4, <1>5, <1>6 DEF Next

(* Pruning (tasks.go:240) loses the oldest: a task that GetTaskStatus no   *)
(* longer finds is older than MaxHistory finished tasks that it does find. *)
THEOREM OldestAreLost == Spec => []HistoryKeepsNewest
<1>1. Init => HistoryKeepsNewest
  BY DEF Init, HistoryKeepsNewest
<1>2. QED
  BY <1>1, HistoryNext, TypeCorrect, LifeInvAlways, PTL DEF Spec
-----------------------------------------------------------------------------
(* The refinement: the holders of tokens are the admitted calls of the     *)
(* pool, and each step of run is a step of the pool or a stutter.          *)
LEMMA PoolAdmitted == \A k : Pool!Admitted(k) = Holders(k)
BY DEF Pool!Admitted, Holders, phaseBar, categoryBar, PhaseOf, Holding

(* The pool's own instance of FiniteSets counts as ours does.              *)
LEMMA PoolCardinality == \A S : Pool!Cardinality(S) = Cardinality(S)
BY DEF Pool!Cardinality, Pool!IsFiniteSet, Cardinality, IsFiniteSet

LEMMA PoolInit == Init => Pool!Init
<1> SUFFICES ASSUME Init PROVE Pool!Init
  OBVIOUS
<1>1. phaseBar = [c \in Calls |-> "new"]
  BY DEF Init, phaseBar, PhaseOf
<1>2. categoryBar \in [Calls -> Category]
  BY CategoryForType DEF categoryBar, Cat
<1>3. verdictBar = [c \in Calls |-> "none"]
  BY DEF Init, verdictBar, VerdictOf, Terminal
<1>4. QED
  BY <1>1, <1>2, <1>3 DEF Pool!Init

LEMMA PhaseMoves ==
  ASSUME TypeOK, NEW c \in Calls, NEW p, pc' = [pc EXCEPT ![c] = p]
  PROVE  phaseBar' = [phaseBar EXCEPT ![c] = PhaseOf(p)]
BY DEF TypeOK, phaseBar

LEMMA VerdictMoves ==
  ASSUME TypeOK, NEW c \in Calls, NEW s, status' = [status EXCEPT ![c] = s]
  PROVE  verdictBar' = [verdictBar EXCEPT ![c] = VerdictOf(s)]
BY DEF TypeOK, verdictBar

LEMMA PoolStep == SlotInv /\ LifeInv /\ [Next]_vars => [Pool!Next]_(Pool!vars)
<1> SUFFICES ASSUME SlotInv, LifeInv, [Next]_vars PROVE [Pool!Next]_(Pool!vars)
  OBVIOUS
<1>t. TypeOK
  BY DEF SlotInv
<1>p. \A c \in Calls : phaseBar[c] = PhaseOf(pc[c]) /\ verdictBar[c] = VerdictOf(status[c])
  BY DEF phaseBar, verdictBar
<1>f. /\ phaseBar = [c \in Calls |-> phaseBar[c]]
      /\ verdictBar = [c \in Calls |-> verdictBar[c]]
  BY DEF phaseBar, verdictBar
<1>c. categoryBar' = categoryBar
  <2>1. tool' = tool
    BY DEF Next, Start, Step, Register, Acquire, GiveUp, FinishUnacquired, Begin,
           Finish, Release, Handler, Work, CancelTask, ListRunning, ListPending,
           Expire, vars
  <2>2. QED
    BY <2>1 DEF categoryBar, Cat
<1>s. phaseBar' = phaseBar /\ verdictBar' = verdictBar => UNCHANGED Pool!vars
  BY <1>c DEF Pool!vars
<1>1. ASSUME NEW c \in Calls, Start(c) PROVE UNCHANGED Pool!vars
  <2>1. phaseBar' = [phaseBar EXCEPT ![c] = PhaseOf("created")]
    BY <1>1, <1>t, PhaseMoves DEF Start, Goto
  <2>2. verdictBar' = [verdictBar EXCEPT ![c] = VerdictOf("pending")]
    BY <1>1, <1>t, VerdictMoves DEF Start
  <2>3. phaseBar[c] = PhaseOf("created") /\ verdictBar[c] = VerdictOf("pending")
    BY <1>1, <1>p DEF Start, Goto, PhaseOf, VerdictOf, Terminal, LifeInv, StatusAt
  <2>4. QED
    BY <1>s, <1>f, <2>1, <2>2, <2>3
<1>2. ASSUME NEW c \in Calls, Register(c) PROVE Pool!Enter(c)
  <2>1. phaseBar' = [phaseBar EXCEPT ![c] = "queued"]
    BY <1>2, <1>t, PhaseMoves DEF Register, Goto, PhaseOf
  <2>2. phaseBar[c] = "new"
    BY <1>2, <1>p DEF Register, Goto, PhaseOf
  <2>3. verdictBar' = verdictBar
    BY <1>2 DEF Register, verdictBar
  <2>4. QED
    BY <1>c, <2>1, <2>2, <2>3 DEF Pool!Enter
<1>3. ASSUME NEW c \in Calls, Acquire(c) PROVE Pool!Admit(c)
  <2>1. phaseBar' = [phaseBar EXCEPT ![c] = "admitted"]
    BY <1>3, <1>t, PhaseMoves DEF Acquire, Goto, PhaseOf, Holding
  <2>2. phaseBar[c] = "queued"
    BY <1>3, <1>p DEF Acquire, Goto, PhaseOf
  <2>3. verdictBar' = verdictBar
    BY <1>3 DEF Acquire, verdictBar
  <2>4. categoryBar[c] = Cat(c) /\ Cat(c) \in Category
    BY CategoryForType DEF categoryBar, Cat
  <2>5. Cardinality(Pool!Admitted(categoryBar[c])) < Limit[categoryBar[c]]
    BY <1>3, <2>4, PoolAdmitted DEF Acquire, SlotInv, SlotAccounting
  <2>6. QED
    BY <1>c, <2>1, <2>2, <2>3, <2>5, PoolCardinality DEF Pool!Admit
<1>4. ASSUME NEW c \in Calls, GiveUp(c) PROVE UNCHANGED Pool!vars
  <2>1. phaseBar' = [phaseBar EXCEPT ![c] = PhaseOf("gaveUp")]
    BY <1>4, <1>t, PhaseMoves DEF GiveUp, Goto
  <2>2. phaseBar[c] = PhaseOf("gaveUp")
    BY <1>4, <1>p DEF GiveUp, Goto, PhaseOf
  <2>3. verdictBar' = verdictBar
    BY <1>4 DEF GiveUp, verdictBar
  <2>4. QED
    BY <1>s, <1>f, <2>1, <2>2, <2>3
<1>5. ASSUME NEW c \in Calls, FinishUnacquired(c) PROVE Pool!Reject(c)
  <2>1. phaseBar' = [phaseBar EXCEPT ![c] = "gone"]
    BY <1>5, <1>t, PhaseMoves DEF FinishUnacquired, Goto, PhaseOf, Holding
  <2>2. phaseBar[c] = "queued" /\ status[c] \in {"pending", "cancelled"}
    BY <1>5, <1>p DEF FinishUnacquired, Goto, PhaseOf, LifeInv, StatusAt
  <2>3. status' = [status EXCEPT ![c] = IF status[c] = "cancelled" THEN status[c] ELSE "failed"]
    BY <1>5 DEF FinishUnacquired, Finished
  <2>4. verdictBar' = [verdictBar EXCEPT
                         ![c] = VerdictOf(IF status[c] = "cancelled" THEN status[c] ELSE "failed")]
    BY <1>t, <2>3, VerdictMoves
  <2>5. VerdictOf(IF status[c] = "cancelled" THEN status[c] ELSE "failed")
          = IF verdictBar[c] = "none" THEN "failed" ELSE verdictBar[c]
    BY <1>p, <2>2 DEF VerdictOf, Terminal
  <2>6. QED
    BY <1>c, <2>1, <2>2, <2>4, <2>5 DEF Pool!Reject
<1>6. ASSUME NEW c \in Calls, Begin(c) PROVE UNCHANGED Pool!vars
  <2>1. phaseBar' = phaseBar
    <3>1. PICK p \in {"releasing", "executing"} : pc' = [pc EXCEPT ![c] = p]
      BY <1>6 DEF Begin
    <3>2. phaseBar' = [phaseBar EXCEPT ![c] = PhaseOf(p)]
      BY <1>t, <3>1, PhaseMoves
    <3>3. PhaseOf(p) = phaseBar[c]
      BY <1>6, <1>p DEF Begin, PhaseOf, Holding
    <3>4. QED
      BY <1>f, <3>2, <3>3
  <2>2. verdictBar' = verdictBar
    <3>1. CASE status[c] = "cancelled"
      BY <1>6, <3>1 DEF Begin, verdictBar
    <3>2. CASE status[c] # "cancelled"
      <4>1. verdictBar' = [verdictBar EXCEPT ![c] = VerdictOf("running")]
        BY <1>6, <1>t, <3>2, VerdictMoves DEF Begin
      <4>2. status[c] = "pending"
        BY <1>6, <3>2 DEF Begin, LifeInv, StatusAt
      <4>3. VerdictOf("running") = verdictBar[c]
        BY <1>p, <4>2 DEF VerdictOf, Terminal
      <4>4. QED
        BY <1>f, <4>1, <4>3
    <3>3. QED
      BY <3>1, <3>2
  <2>3. QED
    BY <1>s, <2>1, <2>2
<1>7. ASSUME NEW c \in Calls, Handler(c) PROVE Pool!Next \/ UNCHANGED Pool!vars
  <2>1. phaseBar' = phaseBar
    <3>1. PICK p \in {"listing", "returned"} : pc' = [pc EXCEPT ![c] = p]
      BY <1>7 DEF Handler, Work, CancelTask, ListRunning, ListPending, Goto
    <3>2. phaseBar' = [phaseBar EXCEPT ![c] = PhaseOf(p)]
      BY <1>t, <3>1, PhaseMoves
    <3>3. PhaseOf(p) = phaseBar[c]
      BY <1>7, <1>p
         DEF Handler, Work, CancelTask, ListRunning, ListPending, Goto, PhaseOf, Holding
    <3>4. QED
      BY <1>f, <3>2, <3>3
  <2>2. CASE status' = status
    BY <1>s, <2>1, <2>2 DEF verdictBar
  <2>3. CASE status' # status
    <3>1. PICK t \in tasks : /\ status[t] \in Active
                            /\ status' = [status EXCEPT ![t] = "cancelled"]
      BY <1>7, <2>3 DEF Handler, Work, CancelTask, Cancellable, ListRunning, ListPending
    <3>2. t \in Calls /\ pc[t] \notin {"idle", "created"}
      BY <1>t, <3>1 DEF TypeOK, LifeInv
    <3>3. pc[t] \in {"acquiring", "gaveUp"} \cup Holding
      BY <1>t, <3>1, <3>2 DEF TypeOK, PC, Holding, LifeInv, StatusAt, Active, Terminal
    <3>4. phaseBar[t] \in {"queued", "admitted"} /\ verdictBar[t] = "none"
      BY <1>p, <3>1, <3>2, <3>3 DEF PhaseOf, Holding, VerdictOf, Active, Terminal
    <3>5. verdictBar' = [verdictBar EXCEPT ![t] = "cancelled"]
      BY <1>t, <3>1, <3>2, VerdictMoves DEF VerdictOf, Terminal
    <3>6. Pool!Decide(t, "cancelled")
      BY <1>c, <2>1, <3>4, <3>5 DEF Pool!Decide
    <3>7. QED
      BY <3>2, <3>6 DEF Pool!Next, Pool!Verdict
  <2>4. QED
    BY <2>2, <2>3
<1>8. ASSUME NEW c \in Calls, Finish(c) PROVE Pool!Next \/ UNCHANGED Pool!vars
  <2>1. phaseBar' = phaseBar
    <3>1. phaseBar' = [phaseBar EXCEPT ![c] = PhaseOf("releasing")]
      BY <1>8, <1>t, PhaseMoves DEF Finish, Goto
    <3>2. PhaseOf("releasing") = phaseBar[c]
      BY <1>8, <1>p DEF Finish, Goto, PhaseOf, Holding
    <3>3. QED
      BY <1>f, <3>1, <3>2
  <2>2. PICK v \in {"failed", "completed"} :
          status' = [status EXCEPT ![c] = IF status[c] = "cancelled" THEN status[c] ELSE v]
    BY <1>8 DEF Finish, Finished
  <2>3. CASE status[c] = "cancelled"
    <3>1. status' = status
      BY <1>t, <2>2, <2>3 DEF TypeOK
    <3>2. QED
      BY <1>s, <2>1, <3>1 DEF verdictBar
  <2>4. CASE status[c] # "cancelled"
    <3>1. status[c] = "running"
      BY <1>8, <2>4 DEF Finish, Goto, LifeInv, StatusAt
    <3>2. phaseBar[c] = "admitted" /\ verdictBar[c] = "none"
      BY <1>8, <1>p, <3>1 DEF Finish, Goto, PhaseOf, Holding, VerdictOf, Terminal
    <3>3. verdictBar' = [verdictBar EXCEPT ![c] = v]
      BY <1>t, <2>2, <2>4, VerdictMoves DEF VerdictOf, Terminal
    <3>4. Pool!Decide(c, v)
      BY <1>c, <2>1, <3>2, <3>3 DEF Pool!Decide
    <3>5. QED
      BY <3>4 DEF Pool!Next, Pool!Verdict
  <2>5. QED
    BY <2>3, <2>4
<1>9. ASSUME NEW c \in Calls, Release(c) PROVE Pool!Leave(c)
  <2>1. phaseBar' = [phaseBar EXCEPT ![c] = "gone"]
    BY <1>9, <1>t, PhaseMoves DEF Release, Goto, PhaseOf, Holding
  <2>2. status[c] \in Terminal
    BY <1>9 DEF Release, Goto, LifeInv, StatusAt
  <2>3. phaseBar[c] = "admitted" /\ verdictBar[c] # "none"
    BY <1>9, <1>p, <2>2 DEF Release, Goto, PhaseOf, Holding, VerdictOf, Terminal
  <2>4. verdictBar' = verdictBar
    BY <1>9 DEF Release, verdictBar
  <2>5. QED
    BY <1>c, <2>1, <2>3, <2>4 DEF Pool!Leave
<1>10. ASSUME NEW c \in Calls, Expire(c) PROVE UNCHANGED Pool!vars
  BY <1>10, <1>s DEF Expire, phaseBar, verdictBar
<1>11. CASE UNCHANGED vars
  BY <1>11, <1>s DEF vars, phaseBar, verdictBar
<1>12. QED
  BY <1>1, <1>2, <1>3, <1>4, <1>5, <1>6, <1>7, <1>8, <1>9, <1>10, <1>11
     DEF Next, Step, Pool!Next

(* Every behaviour of the task manager is one of the abstract pool: the    *)
(* budget, the single verdict and the way out of TaskPool hold of it, for  *)
(* any number of calls and any limits.                                     *)
THEOREM Implementation == Spec => ImplementsPool
BY PoolInit, PoolStep, SlotInvAlways, LifeInvAlways, PTL DEF Spec, ImplementsPool, Pool!Spec
=============================================================================
