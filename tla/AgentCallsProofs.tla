-------------------------- MODULE AgentCallsProofs --------------------------
(***************************************************************************)
(* Theorems about AgentCalls for every finite set of calls, whatever tools *)
(* they are for, and every length of text and of walk.                     *)
(***************************************************************************)
EXTENDS AgentCalls, FiniteSetTheorems, SequenceTheorems, TLAPS

PressLeft   == <<Press("left")>>
ReleaseLeft == <<Release("left")>>

(* Batches that release, after it, every key they press.                   *)
Letting ==
  {b \in Seq(Events) :
     \A i \in 1..Len(b) : b[i].op = "press" =>
       \E j \in 1..Len(b) : j > i /\ b[j] = Release(b[i].key)}

(* What a tool sends: only a drag leaves its button down for a while.      *)
Batches(k) == Letting \cup {b \in {PressLeft} : k = "Drag"}

LEMMA EventsType ==
  /\ Touch \in Events
  /\ \A k \in Keys : Press(k) \in Events /\ Release(k) \in Events
BY DEF Touch, Press, Release, Events, Keys

LEMMA ConcatLetting ==
  ASSUME NEW p \in Letting, NEW q \in Letting
  PROVE  p \o q \in Letting
<1>1. p \in Seq(Events) /\ q \in Seq(Events)
  BY DEF Letting
<1>2. /\ p \o q \in Seq(Events)
      /\ Len(p \o q) = Len(p) + Len(q)
      /\ \A i \in 1..Len(p) + Len(q) :
           (p \o q)[i] = IF i <= Len(p) THEN p[i] ELSE q[i - Len(p)]
  BY <1>1, ConcatProperties
<1>3. Len(p) \in Nat /\ Len(q) \in Nat
  BY <1>1, LenProperties
<1> DEFINE r == p \o q
<1>4. ASSUME NEW i \in 1..Len(r), r[i].op = "press"
      PROVE  \E j \in 1..Len(r) : j > i /\ r[j] = Release(r[i].key)
  <2>1. CASE i <= Len(p)
    <3>1. i \in 1..Len(p) /\ r[i] = p[i]
      BY <1>2, <1>3, <2>1
    <3>2. PICK j \in 1..Len(p) : j > i /\ p[j] = Release(p[i].key)
      BY <1>4, <3>1 DEF Letting
    <3>3. j \in 1..Len(r) /\ r[j] = p[j]
      BY <1>2, <1>3, <3>2
    <3>4. QED
      BY <3>1, <3>2, <3>3
  <2>2. CASE ~(i <= Len(p))
    <3>1. i - Len(p) \in 1..Len(q) /\ r[i] = q[i - Len(p)]
      BY <1>2, <1>3, <2>2
    <3>2. PICK j \in 1..Len(q) : j > i - Len(p) /\ q[j] = Release(q[i - Len(p)].key)
      BY <1>4, <3>1 DEF Letting
    <3>3. j + Len(p) \in 1..Len(r) /\ r[j + Len(p)] = q[j] /\ j + Len(p) > i
      BY <1>2, <1>3, <3>2
    <3>4. QED
      BY <3>1, <3>2, <3>3
  <2>3. QED
    BY <2>1, <2>2
<1>5. QED
  BY <1>2, <1>4 DEF Letting

LEMMA TouchLetting == <<Touch>> \in Letting /\ <<Touch, Touch>> \in Letting
BY EventsType DEF Touch, Letting

LEMMA ReleaseLetting == ReleaseLeft \in Letting
<1>1. "left" \in Keys
  BY DEF Keys
<1>2. QED
  BY <1>1, EventsType DEF ReleaseLeft, Release, Letting

LEMMA TapLetting == \A k \in Keys : Tap(k) \in Letting
<1> SUFFICES ASSUME NEW k \in Keys PROVE Tap(k) \in Letting
  OBVIOUS
<1> DEFINE b == <<Press(k), Release(k)>>
<1>1. b \in Seq(Events) /\ Len(b) = 2 /\ b[1] = Press(k) /\ b[2] = Release(k)
  BY EventsType
<1>2. Press(k).key = k /\ Release(k).op = "release"
  BY DEF Press, Release
<1> HIDE DEF b
<1>3. ASSUME NEW i \in 1..Len(b), b[i].op = "press"
      PROVE  \E j \in 1..Len(b) : j > i /\ b[j] = Release(b[i].key)
  <2>1. i = 1
    BY <1>1, <1>2, <1>3
  <2>2. QED
    BY <1>1, <1>2, <2>1
<1>4. QED
  BY <1>1, <1>3 DEF Tap, Letting, b

(* The keys of a chord come up in reverse, each after it went down.        *)
LEMMA ChordLetting ==
  ASSUME NEW keys \in Seq(Keys)
  PROVE  Chord(keys) \in Letting
<1> DEFINE n == Len(keys)
           p == [i \in DOMAIN keys |-> Press(keys[i])]
           q == [i \in DOMAIN keys |-> Release(keys[Len(keys) - i + 1])]
           r == p \o q
<1>1. n \in Nat /\ DOMAIN keys = 1..n /\ \A i \in 1..n : keys[i] \in Keys
  BY LenProperties, ElementOfSeq
<1>2. \A i \in 1..n : n - i + 1 \in 1..n
  BY <1>1
<1>3. \A i \in 1..n : p[i] = Press(keys[i]) /\ q[i] = Release(keys[n - i + 1])
  BY <1>1
<1>4. p \in Seq(Events) /\ q \in Seq(Events) /\ Len(p) = n /\ Len(q) = n
  <2>1. p \in [1..n -> Events] /\ q \in [1..n -> Events]
    BY <1>1, <1>2, EventsType
  <2> HIDE DEF p, q
  <2>2. QED
    BY <1>1, <2>1
<1> HIDE DEF p, q, n
<1>5. /\ r \in Seq(Events) /\ Len(r) = n + n
      /\ \A i \in 1..n + n : r[i] = IF i <= n THEN p[i] ELSE q[i - n]
  <2>1. /\ p \o q \in Seq(Events)
        /\ Len(p \o q) = Len(p) + Len(q)
        /\ \A i \in 1..Len(p) + Len(q) :
             (p \o q)[i] = IF i <= Len(p) THEN p[i] ELSE q[i - Len(p)]
    BY <1>4, ConcatProperties
  <2>2. QED
    BY <1>4, <2>1
<1> HIDE DEF r
<1>6. ASSUME NEW i \in 1..Len(r), r[i].op = "press"
      PROVE  \E j \in 1..Len(r) : j > i /\ r[j] = Release(r[i].key)
  <2>1. i \in 1..n
    <3>1. SUFFICES ASSUME ~(i <= n) PROVE FALSE
      BY <1>1, <1>5
    <3>2. i \in 1..n + n /\ i - n \in 1..n
      BY <1>1, <1>5, <3>1
    <3>3. r[i] = q[i - n]
      BY <1>5, <3>1, <3>2
    <3>4. r[i] = Release(keys[n - (i - n) + 1])
      BY <1>3, <3>2, <3>3
    <3>5. QED
      BY <1>6, <3>4 DEF Release
  <2>2. r[i] = Press(keys[i])
    <3>1. i \in 1..n + n /\ i <= n
      BY <1>1, <2>1
    <3>2. r[i] = p[i] /\ p[i] = Press(keys[i])
      BY <1>3, <1>5, <2>1, <3>1
    <3>3. QED
      BY <3>2
  <2>3. r[i].key = keys[i]
    BY <2>2 DEF Press
  <2> DEFINE m == n - i + 1
             j == n + m
  <2>4. /\ m \in 1..n /\ n - m + 1 = i
        /\ j \in 1..n + n /\ j > i /\ ~(j <= n) /\ j - n = m
    BY <1>1, <2>1
  <2> HIDE DEF m, j
  <2>5. r[j] = q[m] /\ q[m] = Release(keys[i])
    BY <1>3, <1>5, <2>4
  <2>6. QED
    BY <1>5, <2>3, <2>4, <2>5
<1>7. r \in Letting
  BY <1>5, <1>6 DEF Letting
<1>8. QED
  BY <1>7 DEF Chord, r, p, q

LEMMA UnicodeLetting == \A n \in Nat : Unicode(n) \in Letting
<1> SUFFICES ASSUME NEW n \in Nat PROVE Unicode(n) \in Letting
  OBVIOUS
<1> DEFINE u == [i \in 1..(2 * n) |-> IF i % 2 = 1 THEN Press("unit") ELSE Release("unit")]
<1>1. "unit" \in Keys
  BY DEF Keys
<1>2. u \in [1..(2 * n) -> Events]
  BY <1>1, EventsType
<1>3. \A i \in 1..(2 * n) : u[i] = IF i % 2 = 1 THEN Press("unit") ELSE Release("unit")
  OBVIOUS
<1> HIDE DEF u
<1>4. u \in Seq(Events) /\ Len(u) = 2 * n
  BY <1>2
<1>5. ASSUME NEW i \in 1..Len(u), u[i].op = "press"
      PROVE  \E j \in 1..Len(u) : j > i /\ u[j] = Release(u[i].key)
  <2>1. i \in 1..(2 * n) /\ i % 2 = 1
    BY <1>3, <1>4, <1>5 DEF Release
  <2>2. i + 1 \in 1..(2 * n) /\ (i + 1) % 2 # 1
    BY <2>1
  <2>3. u[i].key = "unit" /\ u[i + 1] = Release("unit")
    BY <1>3, <2>1, <2>2 DEF Press
  <2>4. QED
    BY <1>4, <2>2, <2>3
<1>6. QED
  BY <1>4, <1>5 DEF Unicode, Letting, u

LEMMA ConcatBatches ==
  ASSUME NEW S, NEW p \in Seq(S), NEW q \in Seq(S)
  PROVE  p \o q \in Seq(S)
BY ConcatProperties

LEMMA OneBatch ==
  ASSUME NEW S, NEW b \in S
  PROVE  <<b>> \in Seq(S)
OBVIOUS

LEMMA OptionalBatches ==
  ASSUME NEW S, NEW p \in Seq(S)
  PROVE  Maybe(p) \subseteq Seq(S)
BY DEF Maybe

LEMMA MovesLetting == \A n \in Nat : Moves(n) \in Seq(Letting)
BY TouchLetting DEF Moves

LEMMA ClickLetting ==
  \A b \in Keys : /\ <<Touch>> \o Tap(b) \in Letting
                  /\ <<Touch>> \o Tap(b) \o Tap(b) \in Letting
<1> SUFFICES ASSUME NEW b \in Keys
             PROVE  /\ <<Touch>> \o Tap(b) \in Letting
                    /\ <<Touch>> \o Tap(b) \o Tap(b) \in Letting
  OBVIOUS
<1>1. <<Touch>> \in Letting /\ Tap(b) \in Letting
  BY TouchLetting, TapLetting
<1>2. <<Touch>> \o Tap(b) \in Letting
  BY <1>1, ConcatLetting
<1>3. QED
  BY <1>1, <1>2, ConcatLetting

LEMMA KeysLetting ==
  /\ Chord(<<"enter">>) \in Letting /\ Chord(<<"delete">>) \in Letting
  /\ Chord(<<"ctrl", "a">>) \in Letting /\ Chord(<<"win", "d">>) \in Letting
<1>1. {"enter", "delete", "ctrl", "a", "win", "d"} \subseteq Keys
  BY DEF Keys
<1>2. /\ <<"enter">> \in Seq(Keys) /\ <<"delete">> \in Seq(Keys)
      /\ <<"ctrl", "a">> \in Seq(Keys) /\ <<"win", "d">> \in Seq(Keys)
  BY <1>1
<1>3. QED
  BY <1>2, ChordLetting

LEMMA ClickGood == \A plan \in ClickPlans : plan \in Seq(Letting)
<1> SUFFICES ASSUME NEW plan \in ClickPlans PROVE plan \in Seq(Letting)
  OBVIOUS
<1>1. {"left", "right", "middle"} \subseteq Keys
  BY DEF Keys
<1>2. PICK b \in Keys : \/ plan = << <<Touch>> >>
                        \/ plan = << <<Touch>> \o Tap(b) >>
                        \/ plan = << <<Touch>> \o Tap(b) \o Tap(b) >>
  BY <1>1 DEF ClickPlans
<1>3. QED
  BY <1>2, TouchLetting, ClickLetting, OneBatch

LEMMA TypeGood == \A plan \in TypePlans : plan \in Seq(Letting)
<1> SUFFICES ASSUME NEW plan \in TypePlans PROVE plan \in Seq(Letting)
  OBVIOUS
<1>1. PICK focus \in Maybe(Focus), clear \in Maybe(Clearing), text \in Texts,
           enter \in Maybe(Entering) : plan = focus \o clear \o text \o enter
  BY DEF TypePlans
<1>2. Focus \in Seq(Letting)
  <2>1. <<Touch>> \o Tap("left") \in Letting
    BY ClickLetting DEF Keys
  <2>2. QED
    BY <2>1, OneBatch DEF Focus
<1>3. Clearing \in Seq(Letting) /\ Entering \in Seq(Letting)
  BY KeysLetting DEF Clearing, Entering
<1>4. focus \in Seq(Letting) /\ clear \in Seq(Letting) /\ enter \in Seq(Letting)
  BY <1>2, <1>3, OptionalBatches
<1>5. text \in Seq(Letting)
  <2>1. PICK n \in 0..MaxText : text = <<Unicode(n)>>
    BY DEF Texts
  <2>2. n \in Nat
    BY BoundsAssumption
  <2>3. QED
    BY <2>1, <2>2, UnicodeLetting, OneBatch
<1>6. focus \o clear \in Seq(Letting)
  BY <1>4, ConcatBatches
<1>7. focus \o clear \o text \in Seq(Letting)
  BY <1>5, <1>6, ConcatBatches
<1>8. QED
  BY <1>1, <1>4, <1>7, ConcatBatches

LEMMA MoveGood == \A plan \in MovePlans : plan \in Seq(Letting)
<1>1. 1..MaxMoves \subseteq Nat
  BY BoundsAssumption
<1>2. QED
  BY <1>1, MovesLetting DEF MovePlans

LEMMA DragGood == \A plan \in DragPlans : plan \in Seq(Batches("Drag"))
<1> SUFFICES ASSUME NEW plan \in DragPlans PROVE plan \in Seq(Batches("Drag"))
  OBVIOUS
<1>1. PICK to \in Maybe(Moves(1)), walk \in MovePlans : plan = to \o Grab \o walk
  BY DEF DragPlans
<1>2. Moves(1) \in Seq(Letting) /\ walk \in Seq(Letting)
  BY MovesLetting, MoveGood
<1>3. Letting \subseteq Batches("Drag")
  BY DEF Batches
<1>4. Moves(1) \in Seq(Batches("Drag")) /\ walk \in Seq(Batches("Drag"))
  BY <1>2, <1>3, SeqMonotonic
<1>5. to \in Seq(Batches("Drag"))
  BY <1>4, OptionalBatches
<1>6. Grab \in Seq(Batches("Drag"))
  BY OneBatch DEF Batches, Grab, PressLeft
<1>7. to \o Grab \in Seq(Batches("Drag"))
  BY <1>5, <1>6, ConcatBatches
<1>8. QED
  BY <1>1, <1>4, <1>7, ConcatBatches

LEMMA OtherGood == \A plan \in ScrollPlans \cup ShortcutPlans : plan \in Seq(Letting)
BY TouchLetting, KeysLetting, OneBatch DEF ScrollPlans, ShortcutPlans

LEMMA PlansGood == \A k \in Inputs : Plans(k) \subseteq Seq(Batches(k))
<1> SUFFICES ASSUME NEW k \in Inputs, NEW plan \in Plans(k) PROVE plan \in Seq(Batches(k))
  OBVIOUS
<1>1. CASE k = "Drag"
  BY <1>1, DragGood DEF Plans
<1>2. CASE k # "Drag"
  <2>1. plan \in ClickPlans \cup TypePlans \cup MovePlans \cup ScrollPlans \cup ShortcutPlans
    BY <1>2 DEF Plans, Inputs
  <2>2. plan \in Seq(Letting)
    BY <2>1, ClickGood, TypeGood, MoveGood, OtherGood
  <2>3. QED
    BY <1>2, <2>2 DEF Batches
<1>3. QED
  BY <1>1, <1>2

(* Nothing is down after a batch that was not before, and after part of it *)
(* only keys that the rest of it was to release.                           *)
LEMMA LettingLetsGo ==
  ASSUME NEW down \in SUBSET Keys, NEW b \in Letting
  PROVE  After(down, b) \subseteq down
<1> SUFFICES ASSUME NEW k \in After(down, b), k \notin down PROVE FALSE
  OBVIOUS
<1>1. b \in Seq(Events) /\ DOMAIN b = 1..Len(b)
  BY LenProperties DEF Letting
<1>2. PICK i \in 1..Len(b) : b[i] = Press(k) /\ \A j \in 1..Len(b) : j > i => b[j].key # k
  BY <1>1 DEF After
<1>3. b[i].op = "press" /\ b[i].key = k
  BY <1>2 DEF Press
<1>4. PICK j \in 1..Len(b) : j > i /\ b[j] = Release(k)
  BY <1>3 DEF Letting
<1>5. QED
  BY <1>2, <1>4 DEF Release

LEMMA PartLetsGo ==
  ASSUME NEW down \in SUBSET Keys, NEW b \in Letting, NEW n \in 0..(Len(b) - 1)
  PROVE  After(down, SubSeq(b, 1, n))
           \subseteq down \cup Released(SubSeq(b, n + 1, Len(b)))
<1> DEFINE p == SubSeq(b, 1, n)
           r == SubSeq(b, n + 1, Len(b))
<1>1. b \in Seq(Events) /\ Len(b) \in Nat /\ \A i \in 1..Len(b) : b[i] \in Events
  BY LenProperties, ElementOfSeq DEF Letting
<1>2. p \in Seq(Events) /\ Len(p) = n /\ \A i \in 1..n : p[i] = b[i]
  <2>1. \A i \in 1..n : b[i] \in Events
    BY <1>1
  <2>2. /\ p \in Seq(Events) /\ Len(p) = (IF 1 <= n THEN n - 1 + 1 ELSE 0)
        /\ \A i \in 1..n - 1 + 1 : p[i] = b[1 + i - 1]
    BY <2>1, SubSeqProperties
  <2> HIDE DEF p
  <2>3. QED
    BY <1>1, <2>2
<1>3. /\ r \in Seq(Events) /\ Len(r) = Len(b) - n
      /\ \A i \in 1..(Len(b) - n) : r[i] = b[n + i]
  <2>1. \A i \in n + 1..Len(b) : b[i] \in Events
    BY <1>1
  <2>2. n + 1 <= Len(b)
    BY <1>1
  <2>3. /\ r \in Seq(Events) /\ Len(r) = (IF n + 1 <= Len(b) THEN Len(b) - (n + 1) + 1 ELSE 0)
        /\ \A i \in 1..Len(b) - (n + 1) + 1 : r[i] = b[n + 1 + i - 1]
    BY <1>1, <2>1, SubSeqProperties
  <2> HIDE DEF r
  <2>4. QED
    BY <1>1, <2>2, <2>3
<1> HIDE DEF p, r
<1>4. ASSUME NEW k \in After(down, p), k \notin down PROVE k \in Released(r)
  <2>1. DOMAIN p = 1..n /\ DOMAIN r = 1..(Len(b) - n)
    BY <1>2, <1>3, LenProperties
  <2>2. PICK i \in 1..n : p[i] = Press(k) /\ \A j \in 1..n : j > i => p[j].key # k
    BY <1>4, <2>1 DEF After
  <2>3. i \in 1..Len(b) /\ b[i].op = "press" /\ b[i].key = k
    BY <1>1, <1>2, <2>2 DEF Press
  <2>4. PICK j \in 1..Len(b) : j > i /\ b[j] = Release(k)
    BY <2>3 DEF Letting
  <2>5. ~(j <= n)
    BY <1>2, <2>2, <2>4 DEF Release
  <2>6. PICK m \in 1..(Len(b) - n) : j = n + m
    BY <1>1, <2>4, <2>5
  <2>7. r[m] = Release(k)
    BY <1>3, <2>4, <2>6
  <2>8. k \in Keys
    BY <1>4 DEF After
  <2>9. QED
    BY <2>1, <2>7, <2>8 DEF Released
<1>5. QED
  BY <1>4 DEF p, r

-----------------------------------------------------------------------------
(* Types.                                                                  *)

LEMMA KindType == TypeOK => \A c \in Calls : kind[c] \in Kinds
BY WorkloadsAssumption DEF TypeOK

LEMMA NewType ==
  /\ NewCall \in CallStates /\ NoInput \in InputStates /\ NoCommand \in Commands
<1>1. NewCall \in CallStates
  BY DEF NewCall, CallStates, Places, Results, Contexts
<1>2. NoInput \in InputStates
  BY DEF NoInput, InputStates
<1>3. NoCommand \in Commands
  BY DEF NoCommand, Commands, Programs, Stages, Contexts
<1>4. QED
  BY <1>1, <1>2, <1>3

LEMMA InitType == Init => TypeOK
BY NewType DEF Init, TypeOK, Sessions, Blocks

(* Updates of one field, or some, keep a record in its set.                *)
LEMMA CallUpdate ==
  ASSUME TypeOK, NEW c \in Calls, NEW pc \in Places
  PROVE  /\ [call EXCEPT ![c].pc = pc] \in [Calls -> CallStates]
         /\ [call EXCEPT ![c].pc = pc, ![c].retried = TRUE] \in [Calls -> CallStates]
         /\ \A result \in Results :
              [call EXCEPT ![c].pc = pc, ![c].result = result] \in [Calls -> CallStates]
         /\ \A ctx \in Contexts :
              [call EXCEPT ![c].ctx = ctx] \in [Calls -> CallStates]
BY DEF TypeOK, CallStates

LEMMA CommandUpdate ==
  ASSUME TypeOK, NEW c \in Calls
  PROVE  /\ \A proc \in Stages :
              /\ [cmd EXCEPT ![c].proc = proc] \in [Calls -> Commands]
              /\ \A row \in Users \cup {Nobody}, gone \in BOOLEAN :
                   [cmd EXCEPT ![c].proc = proc, ![c].row = row, ![c].gone = gone]
                     \in [Calls -> Commands]
              /\ \A pipe \in BOOLEAN :
                   [cmd EXCEPT ![c].proc = proc, ![c].pipe = pipe] \in [Calls -> Commands]
         /\ [cmd EXCEPT ![c].pipe = FALSE] \in [Calls -> Commands]
         /\ \A ctx \in Contexts :
              [cmd EXCEPT ![c].ctx = ctx] \in [Calls -> Commands]
<1> DEFINE R == Users \cup {Nobody}
<1>1. cmd \in [Calls -> [prog : Programs, proc : Stages, pipe : BOOLEAN, ctx : Contexts,
                          row : R, gone : BOOLEAN]]
  BY DEF TypeOK, Commands
<1> HIDE DEF R
<1>2. Commands = [prog : Programs, proc : Stages, pipe : BOOLEAN, ctx : Contexts,
                  row : R, gone : BOOLEAN]
  BY DEF Commands, R
<1>3. ASSUME NEW proc \in Stages
      PROVE  /\ [cmd EXCEPT ![c].proc = proc] \in [Calls -> Commands]
             /\ \A pipe \in BOOLEAN :
                  [cmd EXCEPT ![c].proc = proc, ![c].pipe = pipe] \in [Calls -> Commands]
  BY <1>1, <1>2
<1>4. ASSUME NEW proc \in Stages, NEW row \in R, NEW gone \in BOOLEAN
      PROVE  [cmd EXCEPT ![c].proc = proc, ![c].row = row, ![c].gone = gone]
               \in [Calls -> Commands]
  BY <1>1, <1>2
<1>5. /\ [cmd EXCEPT ![c].pipe = FALSE] \in [Calls -> Commands]
      /\ \A ctx \in Contexts : [cmd EXCEPT ![c].ctx = ctx] \in [Calls -> Commands]
  BY <1>1, <1>2
<1>6. QED
  BY <1>3, <1>4, <1>5 DEF R

LEMMA InputUpdate ==
  ASSUME TypeOK, NEW c \in Calls, NEW todo \in Seq(Seq(Events))
  PROVE  /\ [input EXCEPT ![c].todo = todo] \in [Calls -> InputStates]
         /\ \A owed \in Seq(Seq(Events)) :
              [input EXCEPT ![c].todo = todo, ![c].owed = owed] \in [Calls -> InputStates]
         /\ \A cut \in SUBSET Keys :
              [input EXCEPT ![c].todo = todo, ![c].failed = TRUE, ![c].cut = cut]
                \in [Calls -> InputStates]
<1> DEFINE B == Seq(Seq(Events))
<1>1. input \in [Calls -> [todo : B, owed : B, failed : BOOLEAN, cut : SUBSET Keys]]
  BY DEF TypeOK, InputStates
<1>2. todo \in B
  OBVIOUS
<1> HIDE DEF B
<1>3. /\ [input EXCEPT ![c].todo = todo]
           \in [Calls -> [todo : B, owed : B, failed : BOOLEAN, cut : SUBSET Keys]]
      /\ \A owed \in B :
           [input EXCEPT ![c].todo = todo, ![c].owed = owed]
             \in [Calls -> [todo : B, owed : B, failed : BOOLEAN, cut : SUBSET Keys]]
      /\ \A cut \in SUBSET Keys :
           [input EXCEPT ![c].todo = todo, ![c].failed = TRUE, ![c].cut = cut]
             \in [Calls -> [todo : B, owed : B, failed : BOOLEAN, cut : SUBSET Keys]]
  BY <1>1, <1>2
<1>4. QED
  BY <1>3 DEF B, InputStates

LEMMA GoesType ==
  ASSUME TypeOK, NEW c \in Calls, NEW pc \in Places, Goes(c, pc)
  PROVE  call' \in [Calls -> CallStates]
BY CallUpdate DEF Goes

LEMMA ReturnsType ==
  ASSUME TypeOK, NEW c \in Calls, NEW result \in Results, Returns(c, result)
  PROVE  call' \in [Calls -> CallStates]
<1>1. [NewCall EXCEPT !.pc = "done", !.result = result] \in CallStates
  <2>1. "done" \in Places
    BY DEF Places
  <2>2. QED
    BY <2>1, NewType DEF CallStates
<1>2. QED
  BY <1>1 DEF TypeOK, Returns

LEMMA EndType ==
  ASSUME TypeOK, NEW c \in Calls, cmd' = [cmd EXCEPT ![c] = NoCommand]
  PROVE  cmd' \in [Calls -> Commands]
BY NewType DEF TypeOK

LEMMA FreshType ==
  ASSUME TypeOK, NEW c \in Calls, NEW prog \in Programs,
         cmd' = [cmd EXCEPT ![c] = [NoCommand EXCEPT !.prog = prog]]
  PROVE  cmd' \in [Calls -> Commands]
<1>1. [NoCommand EXCEPT !.prog = prog] \in Commands
  BY NewType DEF Commands
<1>2. QED
  BY <1>1 DEF TypeOK

LEMMA AttachType ==
  ASSUME TypeOK, NEW c \in Calls,
         cmd' = [cmd EXCEPT ![c] = [NoCommand EXCEPT !.prog = "tscon", !.row = cmd[c].row]]
  PROVE  cmd' \in [Calls -> Commands]
<1>1. cmd[c].row \in Users \cup {Nobody}
  BY DEF TypeOK, Commands
<1>2. [NoCommand EXCEPT !.prog = "tscon", !.row = cmd[c].row] \in Commands
  BY <1>1, NewType DEF Commands, Programs
<1>3. QED
  BY <1>2 DEF TypeOK

LEMMA RunType ==
  ASSUME TypeOK, NEW c \in Calls, NEW prog \in Programs, Run(c, prog)
  PROVE  call' \in [Calls -> CallStates] /\ cmd' \in [Calls -> Commands]
<1>1. "start" \in Places
  BY DEF Places
<1>2. QED
  BY <1>1, GoesType, FreshType DEF Run

LEMMA ConnectedType ==
  ASSUME TypeOK, NEW c \in Calls, Connected(c)
  PROVE  call' \in [Calls -> CallStates]
BY GoesType, ReturnsType DEF Connected, Places, Results

LEMMA ErrorType ==
  ASSUME TypeOK, NEW c \in Calls, CommandError(c)
  PROVE  call' \in [Calls -> CallStates] /\ cmd' \in [Calls -> Commands]
BY RunType, ReturnsType, EndType DEF CommandError, Programs, Results

LEMMA SinceType ==
  ASSUME TypeOK, session' \in [Users -> Sessions], Lived
  PROVE  since' \in [Calls -> [Users -> SUBSET Sessions]]
<1>1. ASSUME NEW d \in Calls
      PROVE  [u \in Users |-> since[d][u] \cup ({session'[u]} \ {"none"})]
               \in [Users -> SUBSET Sessions]
  BY DEF TypeOK
<1>2. QED
  BY <1>1 DEF TypeOK, Lived

(* What a call sends.                                                      *)
LEMMA BatchType == \A k : Batches(k) \subseteq Seq(Events)
<1>1. "left" \in Keys
  BY DEF Keys
<1>2. PressLeft \in Seq(Events) /\ ReleaseLeft \in Seq(Events)
  BY <1>1, EventsType DEF PressLeft, ReleaseLeft
<1>3. QED
  BY <1>2 DEF Batches, Letting

LEMMA StartInputType == ASSUME TypeOK, NEW c \in Calls, StartInput(c) PROVE TypeOK'
<1>1. PICK plan \in Plans(kind[c]) : input' = [input EXCEPT ![c].todo = plan]
  BY DEF StartInput
<1>2. plan \in Seq(Seq(Events))
  <2>1. plan \in Seq(Batches(kind[c]))
    BY <1>1, PlansGood DEF StartInput
  <2>2. QED
    BY <2>1, BatchType, SeqMonotonic
<1>3. input' \in [Calls -> InputStates]
  BY <1>1, <1>2, InputUpdate
<1>4. call' \in [Calls -> CallStates]
  BY GoesType DEF StartInput, Places
<1>5. QED
  BY <1>3, <1>4 DEF TypeOK, StartInput, sessionVars, clipboardVars

LEMMA InsertedType == ASSUME TypeOK, NEW c \in Calls, Inserted(c) PROVE TypeOK'
<1>1. input[c] \in InputStates /\ input[c].todo \in Seq(Seq(Events)) /\ input[c].todo # <<>>
  BY DEF TypeOK, InputStates, Inserted
<1>2. Tail(input[c].todo) \in Seq(Seq(Events))
  BY <1>1, HeadTailProperties
<1>3. <<ReleaseLeft>> \in Seq(Seq(Events))
  BY ReleaseLetting DEF Letting
<1>4. input' \in [Calls -> InputStates]
  <2>1. input' = [input EXCEPT
                   ![c].todo = Tail(input[c].todo),
                   ![c].owed = IF kind[c] = "Drag" /\ Head(input[c].todo) = PressLeft
                               THEN <<ReleaseLeft>> ELSE input[c].owed]
    BY DEF Inserted, PressLeft, ReleaseLeft
  <2>2. (IF kind[c] = "Drag" /\ Head(input[c].todo) = PressLeft
         THEN <<ReleaseLeft>> ELSE input[c].owed) \in Seq(Seq(Events))
    BY <1>1, <1>3 DEF InputStates
  <2>3. QED
    BY <1>2, <2>1, <2>2, InputUpdate
<1>5. held' \subseteq Keys
  BY DEF Inserted, After
<1>6. QED
  BY <1>4, <1>5 DEF TypeOK, Inserted, sessionVars, clipboardVars

LEMMA InsertedSomeType == ASSUME TypeOK, NEW c \in Calls, InsertedSome(c) PROVE TypeOK'
<1> DEFINE batch == Head(input[c].todo)
<1>1. PICK n \in 0..(Len(batch) - 1) :
        /\ held' = After(held, SubSeq(batch, 1, n))
        /\ input' = [input EXCEPT
             ![c].todo = <<>>,
             ![c].failed = TRUE,
             ![c].cut = @ \cup Released(SubSeq(batch, n + 1, Len(batch)))]
  BY DEF InsertedSome
<1> DEFINE rest == Released(SubSeq(batch, n + 1, Len(batch)))
<1>2. rest \subseteq Keys
  BY DEF Released
<1>3. held' \subseteq Keys
  BY <1>1 DEF After
<1> HIDE DEF rest
<1>4. input' \in [Calls -> InputStates]
  <2>1. input' = [input EXCEPT ![c].todo = <<>>, ![c].failed = TRUE,
                               ![c].cut = input[c].cut \cup rest]
    BY <1>1 DEF rest
  <2>2. input[c].cut \cup rest \in SUBSET Keys
    BY <1>2 DEF TypeOK, InputStates
  <2>3. <<>> \in Seq(Seq(Events))
    OBVIOUS
  <2>4. QED
    BY <2>1, <2>2, <2>3, InputUpdate
<1>5. QED
  BY <1>3, <1>4 DEF TypeOK, InsertedSome, sessionVars, clipboardVars

LEMMA InputEndsType == ASSUME TypeOK, NEW c \in Calls, InputEnds(c) PROVE TypeOK'
<1>1. CASE Owed(c) # <<>>
  <2>1. input' = [input EXCEPT ![c].todo = input[c].owed, ![c].owed = <<>>]
    BY <1>1 DEF InputEnds, Owed
  <2>2. input[c].owed \in Seq(Seq(Events)) /\ <<>> \in Seq(Seq(Events))
    BY DEF TypeOK, InputStates
  <2>3. input' \in [Calls -> InputStates]
    BY <2>1, <2>2, InputUpdate
  <2>4. QED
    BY <1>1, <2>3 DEF TypeOK, InputEnds, sessionVars, clipboardVars
<1>2. CASE Owed(c) = <<>>
  <2>1. call' \in [Calls -> CallStates]
    BY <1>2, ReturnsType DEF InputEnds, Results
  <2>2. QED
    BY <1>2, <2>1 DEF TypeOK, InputEnds, sessionVars, clipboardVars
<1>3. QED
  BY <1>1, <1>2

LEMMA InputType ==
  ASSUME TypeOK, NEW c \in Calls,
         StartInput(c) \/ Refused(c) \/ Inserted(c) \/ InsertedSome(c) \/ InputEnds(c)
  PROVE  TypeOK'
<1>1. CASE Refused(c)
  <2>1. call' \in [Calls -> CallStates]
    BY <1>1, ReturnsType DEF Refused, Results
  <2>2. QED
    BY <1>1, <2>1 DEF TypeOK, Refused, inputVars, sessionVars, clipboardVars
<1>2. QED
  BY <1>1, StartInputType, InsertedType, InsertedSomeType, InputEndsType

(* What the programs of a call do.                                         *)
LEMMA ProgramType ==
  ASSUME TypeOK, NEW c \in Calls,
         \/ StartScript(c) \/ Started(c) \/ NotStarted(c)
         \/ CommandFails(c) \/ PingFails(c) \/ ScriptReturns(c)
  PROVE  TypeOK'
<1>1. call' \in [Calls -> CallStates] /\ cmd' \in [Calls -> Commands]
  <2>1. CASE StartScript(c)
    <3>1. Script(kind[c]) \in Programs
      BY DEF Script, Programs
    <3>2. QED
      BY <2>1, <3>1, RunType DEF StartScript
  <2>2. CASE Started(c)
    <3>1. call' \in [Calls -> CallStates]
      BY <2>2, GoesType DEF Started, Places
    <3>2. cmd' \in [Calls -> Commands]
      BY <2>2, CommandUpdate DEF Started, Stages
    <3>3. QED
      BY <3>1, <3>2
  <2>3. CASE NotStarted(c) \/ CommandFails(c)
    BY <2>3, ErrorType DEF NotStarted, CommandFails
  <2>4. CASE PingFails(c) \/ ScriptReturns(c)
    BY <2>4, ReturnsType, EndType DEF PingFails, ScriptReturns, Results
  <2>5. QED
    BY <2>1, <2>2, <2>3, <2>4
<1>2. UNCHANGED <<kind, inputVars, sessionVars, clipboardVars>>
  BY DEF StartScript, Started, NotStarted, CommandFails, PingFails, ScriptReturns
<1>3. QED
  BY <1>1, <1>2 DEF TypeOK, inputVars, sessionVars, clipboardVars

LEMMA SessionType ==
  ASSUME TypeOK, NEW c \in Calls,
         \/ StartReconnect(c) \/ Queried(c) \/ TookOver(c)
         \/ StartCapture(c) \/ Captured(c) \/ CaptureFails(c)
         \/ Lists(c) \/ Annotates(c)
  PROVE  TypeOK'
<1>1. call' \in [Calls -> CallStates] /\ cmd' \in [Calls -> Commands]
  <2>1. CASE StartReconnect(c)
    BY <2>1, RunType DEF StartReconnect, Programs
  <2>2. CASE Queried(c)
    <3>1. CASE cmd[c].row # Nobody /\ NeedsConsole(c)
      BY <2>2, <3>1, AttachType, GoesType DEF Queried, Places
    <3>2. CASE ~(cmd[c].row # Nobody /\ NeedsConsole(c))
      BY <2>2, <3>2, ReturnsType, ConnectedType, EndType DEF Queried, Results
    <3>3. QED
      BY <3>1, <3>2
  <2>3. CASE TookOver(c)
    BY <2>3, ConnectedType, EndType DEF TookOver
  <2>4. CASE StartCapture(c)
    <3>1. cmd' \in [Calls -> Commands]
      BY <2>4 DEF StartCapture, TypeOK
    <3>2. CASE Goes(c, "capture") \/ Goes(c, "list")
      BY <3>1, <3>2, GoesType DEF Places
    <3>3. CASE call' = [call EXCEPT ![c].pc = "capture", ![c].retried = TRUE]
      BY <3>1, <3>3, CallUpdate DEF Places
    <3>4. QED
      BY <2>4, <3>2, <3>3 DEF StartCapture
  <2>5. CASE Captured(c)
    <3>1. CASE Goes(c, "list") /\ UNCHANGED cmd
      BY <3>1, GoesType DEF TypeOK, Places
    <3>2. CASE \E prog \in {"tesseract", "powershell"} : Run(c, prog)
      BY <3>2, RunType DEF Programs
    <3>3. CASE Returns(c, "error") /\ UNCHANGED cmd
      BY <3>3, ReturnsType DEF TypeOK, Results
    <3>4. QED
      BY <2>5, <3>1, <3>2, <3>3 DEF Captured
  <2>6. CASE CaptureFails(c)
    <3>1. CASE /\ cmd' = [cmd EXCEPT ![c] = [NoCommand EXCEPT !.prog = "query"]]
               /\ call' = [call EXCEPT ![c].pc = "start", ![c].retried = TRUE]
      BY <3>1, CallUpdate, FreshType DEF Places, Programs
    <3>2. CASE Returns(c, "error") /\ UNCHANGED cmd
      BY <3>2, ReturnsType DEF TypeOK, Results
    <3>3. QED
      BY <2>6, <3>1, <3>2 DEF CaptureFails
  <2>7. CASE Lists(c) \/ Annotates(c)
    BY <2>7, ReturnsType DEF Lists, Annotates, TypeOK, Results
  <2>8. QED
    BY <2>1, <2>2, <2>3, <2>4, <2>5, <2>6, <2>7
<1>2. UNCHANGED <<kind, inputVars, session, clipboardVars>>
  BY DEF StartReconnect, Queried, TookOver, StartCapture, Captured, CaptureFails, Lists,
         Annotates, sessionVars
<1>3. since' \in [Calls -> [Users -> SUBSET Sessions]]
  <2>1. [u \in Users |-> {session[u]} \ {"none"}] \in [Users -> SUBSET Sessions]
    BY DEF TypeOK
  <2>2. \/ since' = since
        \/ since' = [since EXCEPT ![c] = [u \in Users |-> {session[u]} \ {"none"}]]
    BY DEF StartReconnect, Queried, TookOver, StartCapture, Captured, CaptureFails, Lists,
           Annotates, sessionVars
  <2>3. QED
    BY <2>1, <2>2 DEF TypeOK
<1>4. QED
  BY <1>1, <1>2, <1>3 DEF TypeOK, inputVars, clipboardVars

LEMMA ClipboardType ==
  ASSUME TypeOK, NEW c \in Calls,
         \/ StartClipboard(c) \/ Opens(c) \/ GivesUp(c) \/ Reads(c) \/ Empties(c)
         \/ Allocates(c) \/ Copies(c) \/ Stores(c) \/ Closes(c)
  PROVE  TypeOK'
<1>1. ASSUME NEW result \in {"ok", "error"}, Closing(c, result)
      PROVE  call' \in [Calls -> CallStates]
  BY <1>1, CallUpdate DEF Closing, Places, Results
<1>2. ASSUME NEW b \in Blocks, block' = [block EXCEPT ![c] = b]
      PROVE  block' \in [Calls -> Blocks]
  BY <1>2 DEF TypeOK
<1>3. Freed(block[c]) \in Blocks
  BY DEF Freed, Blocks
<1>4. UNCHANGED <<kind, inputVars, cmd, sessionVars>>
  BY DEF StartClipboard, Opens, GivesUp, Reads, Empties, Allocates, Copies, Stores, Closes
<1>5. CASE StartClipboard(c) \/ GivesUp(c)
  BY <1>4, <1>5, GoesType, ReturnsType
     DEF StartClipboard, GivesUp, Places, Results, TypeOK, inputVars, sessionVars, clipboardVars
<1>6. CASE Opens(c)
  <2>1. call' \in [Calls -> CallStates]
    BY <1>6, GoesType DEF Opens, Places
  <2>2. QED
    BY <1>4, <1>6, <2>1 DEF Opens, TypeOK, inputVars, sessionVars
<1>7. CASE Reads(c) \/ Empties(c)
  <2>1. call' \in [Calls -> CallStates]
    BY <1>1, <1>7, GoesType DEF Reads, Empties, Places
  <2>2. QED
    BY <1>4, <1>7, <2>1 DEF Reads, Empties, TypeOK, inputVars, sessionVars, clipboardVars
<1>8. CASE Allocates(c)
  <2>1. call' \in [Calls -> CallStates]
    BY <1>1, <1>8, GoesType DEF Allocates, Places
  <2>2. QED
    BY <1>2, <1>4, <1>8, <2>1 DEF Allocates, TypeOK, Blocks, inputVars, sessionVars
<1>9. CASE Copies(c)
  <2>1. call' \in [Calls -> CallStates]
    BY <1>1, <1>9, GoesType DEF Copies, Places
  <2>2. block' \in [Calls -> Blocks]
    BY <1>2, <1>3, <1>9 DEF Copies, TypeOK
  <2>3. QED
    BY <1>4, <1>9, <2>1, <2>2 DEF Copies, TypeOK, inputVars, sessionVars
<1>10. CASE Stores(c)
  <2>1. PICK stored \in BOOLEAN :
          /\ HandsOver(c, stored)
          /\ content' = IF stored THEN c ELSE content
          /\ Closing(c, IF stored THEN "ok" ELSE "error")
    BY <1>10 DEF Stores
  <2>2. call' \in [Calls -> CallStates]
    BY <1>1, <2>1
  <2>3. block' \in [Calls -> Blocks]
    BY <1>2, <1>3, <2>1 DEF HandsOver, TypeOK, Blocks
  <2>4. content' \in Calls \cup {"nothing", "foreign"}
    BY <2>1 DEF TypeOK
  <2>5. QED
    BY <1>4, <1>10, <2>2, <2>3, <2>4 DEF Stores, TypeOK, inputVars, sessionVars
<1>11. CASE Closes(c)
  <2>1. call' \in [Calls -> CallStates]
    BY <1>11, ReturnsType DEF Closes, TypeOK, CallStates
  <2>2. QED
    BY <1>4, <1>11, <2>1 DEF Closes, TypeOK, inputVars, sessionVars
<1>12. QED
  BY <1>5, <1>6, <1>7, <1>8, <1>9, <1>10, <1>11

LEMMA EnvironmentType == ASSUME TypeOK, NEW c \in Calls, Environment(c) PROVE TypeOK'
<1>1. ASSUME NEW why \in {"deadline", "cancelled"}, CallOver(c, why) PROVE TypeOK'
  <2>1. call' \in [Calls -> CallStates]
    BY <1>1, CallUpdate DEF CallOver, Places, Contexts
  <2>2. cmd' \in [Calls -> Commands]
    BY <1>1, CommandUpdate DEF CallOver, TypeOK, Contexts
  <2>3. QED
    BY <1>1, <2>1, <2>2 DEF CallOver, TypeOK, inputVars, sessionVars, clipboardVars
<1>2. CASE Works(c)
  <2> SUFFICES cmd' \in [Calls -> Commands] /\ session' \in [Users -> Sessions]
    BY <1>2, SinceType DEF Works, TypeOK, inputVars, clipboardVars
  <2>1. CASE ReadsSessions(c)
    <3>1. PICK row \in {u \in Users : session[u] # "none"} \cup {Nobody} :
            cmd' = [cmd EXCEPT ![c].proc = "worked", ![c].row = row,
                               ![c].gone = row # Nobody /\ Disconnected(row)]
      BY <2>1 DEF ReadsSessions
    <3>2. (row # Nobody /\ Disconnected(row)) \in BOOLEAN /\ "worked" \in Stages
      BY WordsAssumption DEF Disconnected, Stages
    <3>3. row \in Users \cup {Nobody} /\ session' = session
      BY <2>1 DEF ReadsSessions
    <3>4. cmd' \in [Calls -> Commands]
      BY <3>1, <3>2, <3>3, CommandUpdate
    <3>5. QED
      BY <3>3, <3>4 DEF TypeOK
  <2>2. CASE Attaches(c)
    <3>1. cmd' \in [Calls -> Commands]
      BY <2>2, CommandUpdate DEF Attaches, Stages
    <3>2. session' \in [Users -> Sessions]
      BY <2>2 DEF Attaches, TypeOK, Sessions
    <3>3. QED
      BY <3>1, <3>2
  <2>3. CASE Computes(c)
    <3>1. PICK pipe \in BOOLEAN : cmd' = [cmd EXCEPT ![c].proc = "worked", ![c].pipe = pipe]
      BY <2>3 DEF Computes
    <3>2. "worked" \in Stages
      BY DEF Stages
    <3>3. QED
      BY <2>3, <3>1, <3>2, CommandUpdate DEF Computes, TypeOK
  <2>4. QED
    BY <1>2, <2>1, <2>2, <2>3 DEF Works
<1>3. CASE Exits(c) \/ TimesOut(c) \/ Kill(c) \/ HolderEnds(c)
  <2>1. {"exited", "failed"} \subseteq Stages /\ "deadline" \in Contexts
    BY DEF Stages, Contexts
  <2>2. \/ cmd' = [cmd EXCEPT ![c].proc = "exited"]
        \/ cmd' = [cmd EXCEPT ![c].proc = "failed"]
        \/ cmd' = [cmd EXCEPT ![c].ctx = "deadline"]
        \/ cmd' = [cmd EXCEPT ![c].pipe = FALSE]
    BY <1>3 DEF Exits, TimesOut, Kill, HolderEnds
  <2>3. /\ [cmd EXCEPT ![c].proc = "exited"] \in [Calls -> Commands]
        /\ [cmd EXCEPT ![c].proc = "failed"] \in [Calls -> Commands]
        /\ [cmd EXCEPT ![c].ctx = "deadline"] \in [Calls -> Commands]
        /\ [cmd EXCEPT ![c].pipe = FALSE] \in [Calls -> Commands]
    BY <2>1, CommandUpdate
  <2>4. cmd' \in [Calls -> Commands]
    BY <2>2, <2>3
  <2>5. QED
    BY <1>3, <2>4 DEF Exits, TimesOut, Kill, HolderEnds, TypeOK, inputVars, sessionVars,
                      clipboardVars
<1>4. QED
  BY <1>1, <1>2, <1>3 DEF Environment

LEMMA TypeStep == TypeOK /\ [Next]_vars => TypeOK'
<1> SUFFICES ASSUME TypeOK, [Next]_vars PROVE TypeOK'
  OBVIOUS
<1>1. ASSUME NEW c \in Calls, Handles(c) PROVE TypeOK'
  BY <1>1, InputType, ProgramType, SessionType, ClipboardType DEF Handles
<1>2. ASSUME NEW c \in Calls, Environment(c) PROVE TypeOK'
  BY <1>2, EnvironmentType
<1>3. CASE SessionMoves
  <2>1. session' \in [Users -> Sessions]
    BY <1>3 DEF SessionMoves, Sessions, TypeOK
  <2>2. since' \in [Calls -> [Users -> SUBSET Sessions]]
    BY <1>3, <2>1, SinceType DEF SessionMoves
  <2>3. QED
    BY <1>3, <2>1, <2>2 DEF SessionMoves, TypeOK, inputVars, clipboardVars
<1>4. CASE OtherOpens \/ OtherCloses
  BY <1>4 DEF OtherOpens, OtherCloses, TypeOK, inputVars, sessionVars
<1>5. CASE UNCHANGED vars
  BY <1>5 DEF vars, TypeOK, inputVars, sessionVars, clipboardVars
<1>6. QED
  BY <1>1, <1>2, <1>3, <1>4, <1>5 DEF Next

(* Type correctness: what a call has sent, run, read and allocated stays   *)
(* within the values the code can produce.                                 *)
THEOREM TypeCorrect == Spec => []TypeOK
BY InitType, TypeStep, PTL DEF Spec

-----------------------------------------------------------------------------
(* What a step does to its call, and that it leaves the others alone.      *)

LEMMA Became ==
  ASSUME TypeOK, NEW c \in Calls
  PROVE  /\ \A pc : Goes(c, pc) =>
              /\ call'[c].pc = pc /\ call'[c].result = call[c].result
              /\ call'[c].retried = call[c].retried
              /\ \A d \in Calls : d # c => call'[d] = call[d]
         /\ \A result : Returns(c, result) =>
              /\ call'[c].pc = "done" /\ call'[c].result = result
              /\ \A d \in Calls : d # c => call'[d] = call[d]
         /\ \A result : Closing(c, result) =>
              /\ call'[c].pc = "close" /\ call'[c].result = result
              /\ \A d \in Calls : d # c => call'[d] = call[d]
<1>1. call \in [Calls -> CallStates]
  BY DEF TypeOK
<1>2. ASSUME NEW pc, Goes(c, pc)
      PROVE  /\ call'[c].pc = pc /\ call'[c].result = call[c].result
             /\ call'[c].retried = call[c].retried
             /\ \A d \in Calls : d # c => call'[d] = call[d]
  BY <1>1, <1>2 DEF CallStates, Goes
<1>3. ASSUME NEW result, Returns(c, result)
      PROVE  /\ call'[c].pc = "done" /\ call'[c].result = result
             /\ \A d \in Calls : d # c => call'[d] = call[d]
  BY <1>1, <1>3 DEF Returns, NewCall
<1>4. ASSUME NEW result, Closing(c, result)
      PROVE  /\ call'[c].pc = "close" /\ call'[c].result = result
             /\ \A d \in Calls : d # c => call'[d] = call[d]
  BY <1>1, <1>4 DEF CallStates, Closing
<1>5. QED
  BY <1>2, <1>3, <1>4

LEMMA BecameProgram ==
  ASSUME TypeOK, NEW c \in Calls
  PROVE  /\ \A prog : Run(c, prog) =>
              /\ call'[c].pc = "start" /\ call'[c].result = call[c].result
              /\ cmd'[c] = [NoCommand EXCEPT !.prog = prog]
              /\ \A d \in Calls : d # c => call'[d] = call[d] /\ cmd'[d] = cmd[d]
         /\ cmd' = [cmd EXCEPT ![c] = NoCommand] =>
              cmd'[c] = NoCommand /\ \A d \in Calls : d # c => cmd'[d] = cmd[d]
BY DEF TypeOK, CallStates, Run, Goes

LEMMA BecameAttaching ==
  ASSUME TypeOK, NEW c \in Calls,
         cmd' = [cmd EXCEPT ![c] = [NoCommand EXCEPT !.prog = "tscon", !.row = cmd[c].row]]
  PROVE  /\ cmd'[c].prog = "tscon" /\ cmd'[c].proc = "none" /\ cmd'[c].row = cmd[c].row
         /\ \A d \in Calls : d # c => cmd'[d] = cmd[d]
BY DEF TypeOK, NoCommand

LEMMA BecameWorked ==
  ASSUME TypeOK, NEW c \in Calls, Works(c)
  PROVE  /\ cmd'[c].prog = cmd[c].prog /\ cmd'[c].proc = "worked"
         /\ cmd[c].prog = "tscon" => Attaches(c) /\ cmd'[c].row = cmd[c].row
         /\ cmd[c].prog = "query" => ReadsSessions(c)
         /\ \A d \in Calls : d # c => cmd'[d] = cmd[d]
<1>1. cmd \in [Calls -> Commands]
  BY DEF TypeOK
<1>2. CASE ReadsSessions(c)
  <2>1. PICK row, gone : cmd' = [cmd EXCEPT ![c].proc = "worked", ![c].row = row,
                                            ![c].gone = gone]
    BY <1>2 DEF ReadsSessions
  <2>2. /\ cmd'[c].prog = cmd[c].prog /\ cmd'[c].proc = "worked"
        /\ \A d \in Calls : d # c => cmd'[d] = cmd[d]
    BY <1>1, <2>1 DEF Commands
  <2>3. QED
    BY <1>2, <2>2 DEF ReadsSessions
<1>3. CASE Attaches(c)
  BY <1>1, <1>3 DEF Attaches, Commands
<1>4. CASE Computes(c)
  BY <1>1, <1>4 DEF Computes, Commands
<1>5. QED
  BY <1>2, <1>3, <1>4 DEF Works

LEMMA BecameError ==
  ASSUME TypeOK, NEW c \in Calls, CommandError(c)
  PROVE  /\ \/ /\ cmd[c].prog = "tesseract" /\ call'[c].pc = "start"
               /\ call'[c].result = call[c].result
               /\ cmd'[c] = [NoCommand EXCEPT !.prog = "powershell"]
            \/ /\ cmd[c].prog # "tesseract" /\ call'[c].pc = "done"
               /\ call'[c].result = "error" /\ cmd'[c] = NoCommand
         /\ \A d \in Calls : d # c => call'[d] = call[d] /\ cmd'[d] = cmd[d]
BY Became, BecameProgram DEF CommandError

LEMMA BecameConnected ==
  ASSUME TypeOK, NEW c \in Calls, Connected(c)
  PROVE  /\ \/ /\ kind[c] \in Captures /\ call'[c].pc = "capture"
               /\ call'[c].result = call[c].result
            \/ /\ kind[c] \notin Captures /\ call'[c].pc = "done"
               /\ call'[c].result = "ok"
         /\ \A d \in Calls : d # c => call'[d] = call[d]
BY Became DEF Connected

InputStep(c) == StartInput(c) \/ Refused(c) \/ Inserted(c) \/ InsertedSome(c) \/ InputEnds(c)

ProgramStep(c) ==
  \/ StartScript(c) \/ Started(c) \/ NotStarted(c)
  \/ CommandFails(c) \/ PingFails(c) \/ ScriptReturns(c)

SessionStep(c) ==
  \/ StartReconnect(c) \/ Queried(c) \/ TookOver(c)
  \/ StartCapture(c) \/ Captured(c) \/ CaptureFails(c)
  \/ Lists(c) \/ Annotates(c)

ClipboardStep(c) ==
  \/ StartClipboard(c) \/ Opens(c) \/ GivesUp(c) \/ Reads(c) \/ Empties(c)
  \/ Allocates(c) \/ Copies(c) \/ Stores(c) \/ Closes(c)

LEMMA HandlesSplit ==
  \A c : Handles(c) <=> InputStep(c) \/ ProgramStep(c) \/ SessionStep(c) \/ ClipboardStep(c)
BY Zenon DEF Handles, InputStep, ProgramStep, SessionStep, ClipboardStep

(* Each family of steps works on its own variables.                        *)
LEMMA InputFrame ==
  ASSUME TypeOK, NEW c \in Calls, InputStep(c)
  PROVE  /\ UNCHANGED <<kind, cmd, sessionVars, clipboardVars>>
         /\ \A d \in Calls : d # c => call'[d] = call[d] /\ input'[d] = input[d]
<1>1. UNCHANGED <<kind, cmd, sessionVars, clipboardVars>>
  BY DEF InputStep, StartInput, Refused, Inserted, InsertedSome, InputEnds
<1>2. CASE StartInput(c)
  BY <1>1, <1>2, Became DEF StartInput, TypeOK
<1>3. CASE Refused(c)
  BY <1>1, <1>3, Became DEF Refused, inputVars
<1>4. CASE Inserted(c) \/ InsertedSome(c)
  BY <1>1, <1>4 DEF Inserted, InsertedSome, TypeOK
<1>5. CASE InputEnds(c)
  BY <1>1, <1>5, Became DEF InputEnds, TypeOK
<1>6. QED
  BY <1>2, <1>3, <1>4, <1>5 DEF InputStep

LEMMA ProgramFrame ==
  ASSUME TypeOK, NEW c \in Calls, ProgramStep(c)
  PROVE  /\ UNCHANGED <<kind, inputVars, sessionVars, clipboardVars>>
         /\ \A d \in Calls : d # c => call'[d] = call[d] /\ cmd'[d] = cmd[d]
<1>1. UNCHANGED <<kind, inputVars, sessionVars, clipboardVars>>
  BY DEF ProgramStep, StartScript, Started, NotStarted, CommandFails, PingFails, ScriptReturns
<1>2. CASE StartScript(c)
  BY <1>1, <1>2, BecameProgram DEF StartScript
<1>3. CASE Started(c)
  BY <1>1, <1>3, Became DEF Started, TypeOK
<1>4. CASE NotStarted(c) \/ CommandFails(c)
  BY <1>1, <1>4, BecameError DEF NotStarted, CommandFails
<1>5. CASE PingFails(c) \/ ScriptReturns(c)
  BY <1>1, <1>5, Became, BecameProgram DEF PingFails, ScriptReturns
<1>6. QED
  BY <1>2, <1>3, <1>4, <1>5 DEF ProgramStep

LEMMA SessionFrame ==
  ASSUME TypeOK, NEW c \in Calls, SessionStep(c)
  PROVE  /\ UNCHANGED <<kind, inputVars, session, clipboardVars>>
         /\ \A d \in Calls : d # c =>
              call'[d] = call[d] /\ cmd'[d] = cmd[d] /\ since'[d] = since[d]
<1>1. UNCHANGED <<kind, inputVars, session, clipboardVars>>
  BY DEF SessionStep, StartReconnect, Queried, TookOver, StartCapture, Captured, CaptureFails,
         Lists, Annotates, sessionVars
<1>2. CASE StartReconnect(c)
  BY <1>1, <1>2, BecameProgram DEF StartReconnect, TypeOK
<1>3. CASE Queried(c)
  <2>1. CASE cmd[c].row # Nobody /\ NeedsConsole(c)
    BY <1>1, <1>3, <2>1, Became, BecameAttaching DEF Queried, sessionVars
  <2>2. CASE ~(cmd[c].row # Nobody /\ NeedsConsole(c))
    BY <1>1, <1>3, <2>2, Became, BecameProgram, BecameConnected DEF Queried, sessionVars
  <2>3. QED
    BY <2>1, <2>2
<1>4. CASE TookOver(c)
  BY <1>1, <1>4, BecameProgram, BecameConnected DEF TookOver, sessionVars
<1>5. CASE StartCapture(c)
  BY <1>1, <1>5, Became DEF StartCapture, TypeOK
<1>6. CASE Captured(c)
  BY <1>1, <1>6, Became, BecameProgram DEF Captured, sessionVars
<1>7. CASE CaptureFails(c)
  BY <1>1, <1>7, Became DEF CaptureFails, TypeOK, sessionVars
<1>8. CASE Lists(c) \/ Annotates(c)
  BY <1>1, <1>8, Became DEF Lists, Annotates, sessionVars
<1>9. QED
  BY <1>2, <1>3, <1>4, <1>5, <1>6, <1>7, <1>8 DEF SessionStep

LEMMA ClipboardFrame ==
  ASSUME TypeOK, NEW c \in Calls, ClipboardStep(c)
  PROVE  /\ UNCHANGED <<kind, inputVars, cmd, sessionVars>>
         /\ \A d \in Calls : d # c => call'[d] = call[d] /\ block'[d] = block[d]
<1>1. UNCHANGED <<kind, inputVars, cmd, sessionVars>>
  BY DEF ClipboardStep, StartClipboard, Opens, GivesUp, Reads, Empties, Allocates, Copies,
         Stores, Closes
<1>2. CASE StartClipboard(c) \/ Opens(c) \/ GivesUp(c) \/ Reads(c)
  BY <1>1, <1>2, Became DEF StartClipboard, Opens, GivesUp, Reads, clipboardVars
<1>3. CASE Empties(c) \/ Allocates(c) \/ Copies(c) \/ Closes(c)
  BY <1>1, <1>3, Became DEF Empties, Allocates, Copies, Closes, TypeOK
<1>4. CASE Stores(c)
  BY <1>1, <1>4, Became DEF Stores, HandsOver, TypeOK
<1>5. QED
  BY <1>2, <1>3, <1>4 DEF ClipboardStep

(* The environment moves no call on.                                       *)
LEMMA EnvironmentFrame ==
  ASSUME TypeOK, NEW c \in Calls, Environment(c)
  PROVE  /\ UNCHANGED <<kind, inputVars, clipboardVars>>
         /\ \A d \in Calls : call'[d].pc = call[d].pc /\ call'[d].result = call[d].result
         /\ \A d \in Calls : d # c => cmd'[d] = cmd[d]
<1>1. CASE CallOver(c, "deadline") \/ CallOver(c, "cancelled")
  <2>1. PICK why : CallOver(c, why)
    BY <1>1
  <2>2. QED
    BY <2>1 DEF CallOver, TypeOK, CallStates
<1>2. CASE Works(c)
  BY <1>2, BecameWorked DEF Works
<1>3. CASE Exits(c) \/ TimesOut(c) \/ Kill(c) \/ HolderEnds(c)
  BY <1>3 DEF Exits, TimesOut, Kill, HolderEnds, TypeOK
<1>4. QED
  BY <1>1, <1>2, <1>3 DEF Environment

-----------------------------------------------------------------------------
(* Which tool a call is for goes with the place it has reached, and with   *)
(* the program it runs.  A call has a program only while it waits for one. *)
MayRun(k) ==
  IF k \in Reconnects THEN {"query", "tscon"}
  ELSE IF k = "OCR" THEN {"query", "tscon", "tesseract", "powershell"}
  ELSE IF k \in Captures THEN {"query", "tscon"}
  ELSE {Script(k)}

Placed(c) ==
  /\ call[c].pc = "sending" => kind[c] \in Inputs
  /\ call[c].pc \in {"capture", "list"} => kind[c] \in Captures
  /\ call[c].pc \in {"start", "running"} =>
       /\ kind[c] \in Captures \cup Reconnects \cup Scripts
       /\ cmd[c].prog \in MayRun(kind[c])
  /\ call[c].pc \in {"open", "close"} => kind[c] \in Clipboards
  /\ call[c].pc = "read" => kind[c] = "GetClipboard"
  /\ call[c].pc \in {"empty", "alloc", "lock", "store"} => kind[c] = "SetClipboard"
  /\ cmd[c].proc # "none" => call[c].pc = "running"
  /\ cmd[c].prog # "none" => call[c].pc \in {"start", "running"}

PlaceInv == \A c \in Calls : Placed(c)

LEMMA PlaceInit == Init => PlaceInv
BY DEF Init, PlaceInv, Placed, NewCall, NoCommand

LEMMA PlacedInput ==
  ASSUME TypeOK, PlaceInv, NEW c \in Calls, InputStep(c)
  PROVE  Placed(c)'
<1>1. UNCHANGED <<kind, cmd>> /\ Placed(c)
  BY InputFrame DEF PlaceInv
<1>2. /\ call[c].pc \in {"idle", "sending"} /\ call'[c].pc \in {"sending", "done"}
      /\ call'[c].pc = "sending" => kind[c] \in Inputs
  <2>1. CASE StartInput(c)
    BY <2>1, Became DEF StartInput, Admitted
  <2>2. CASE Refused(c)
    BY <2>2, Became DEF Refused, Admitted
  <2>3. CASE Inserted(c) \/ InsertedSome(c)
    BY <1>1, <2>3 DEF Inserted, InsertedSome, Placed
  <2>4. CASE InputEnds(c)
    BY <1>1, <2>4, Became DEF InputEnds, Placed
  <2>5. QED
    BY <2>1, <2>2, <2>3, <2>4 DEF InputStep
<1>3. QED
  BY <1>1, <1>2 DEF Placed

LEMMA PlacedProgram ==
  ASSUME TypeOK, PlaceInv, NEW c \in Calls, ProgramStep(c)
  PROVE  Placed(c)'
<1>1. UNCHANGED kind /\ Placed(c)
  BY ProgramFrame DEF PlaceInv
<1>2. CASE StartScript(c)
  <2>1. /\ call'[c].pc = "start" /\ kind[c] \in Scripts
        /\ cmd'[c] = [NoCommand EXCEPT !.prog = Script(kind[c])]
    BY <1>2, BecameProgram DEF StartScript
  <2>2. cmd'[c].prog = Script(kind[c]) /\ cmd'[c].proc = "none"
    BY <2>1 DEF NoCommand
  <2>3. Script(kind[c]) \in MayRun(kind[c])
    BY <2>1 DEF MayRun, Scripts, Reconnects, Captures
  <2>4. QED
    BY <1>1, <2>1, <2>2, <2>3 DEF Placed
<1>3. CASE Started(c)
  <2>1. /\ call[c].pc = "start" /\ call'[c].pc = "running" /\ cmd'[c].prog = cmd[c].prog
    BY <1>3, Became DEF Started, TypeOK, Commands
  <2>2. QED
    BY <1>1, <2>1 DEF Placed
<1>4. CASE NotStarted(c) \/ CommandFails(c)
  <2>1. call[c].pc \in {"start", "running"} /\ CommandError(c)
    BY <1>4 DEF NotStarted, CommandFails, Ended
  <2>2. CASE /\ cmd[c].prog = "tesseract" /\ call'[c].pc = "start"
             /\ cmd'[c] = [NoCommand EXCEPT !.prog = "powershell"]
    <3>1. kind[c] = "OCR"
      BY <1>1, <2>1, <2>2 DEF Placed, MayRun, Script
    <3>2. "powershell" \in MayRun(kind[c]) /\ kind[c] \in Captures
      BY <3>1 DEF MayRun, Reconnects, Captures
    <3>3. QED
      BY <1>1, <2>2, <3>2 DEF Placed, NoCommand
  <2>3. CASE call'[c].pc = "done" /\ cmd'[c] = NoCommand
    BY <1>1, <2>3 DEF Placed, NoCommand
  <2>4. QED
    BY <2>1, <2>2, <2>3, BecameError
<1>5. CASE PingFails(c) \/ ScriptReturns(c)
  <2>1. call'[c].pc = "done" /\ cmd'[c] = NoCommand
    BY <1>5, Became, BecameProgram DEF PingFails, ScriptReturns
  <2>2. QED
    BY <1>1, <2>1 DEF Placed, NoCommand
<1>6. QED
  BY <1>2, <1>3, <1>4, <1>5 DEF ProgramStep

LEMMA PlacedSession ==
  ASSUME TypeOK, PlaceInv, NEW c \in Calls, SessionStep(c)
  PROVE  Placed(c)'
<1>1. UNCHANGED kind /\ Placed(c)
  BY SessionFrame DEF PlaceInv
<1>2. /\ NoCommand.prog = "none" /\ NoCommand.proc = "none"
      /\ \A prog : /\ [NoCommand EXCEPT !.prog = prog].prog = prog
                   /\ [NoCommand EXCEPT !.prog = prog].proc = "none"
  BY DEF NoCommand
<1>3. kind[c] \in Reconnects \cup Captures => {"query", "tscon"} \subseteq MayRun(kind[c])
  BY DEF MayRun, Reconnects, Captures
<1>4. CASE StartReconnect(c)
  <2>1. /\ call'[c].pc = "start" /\ cmd'[c] = [NoCommand EXCEPT !.prog = "query"]
        /\ kind[c] \in Reconnects
    BY <1>4, BecameProgram DEF StartReconnect
  <2>2. QED
    BY <1>1, <1>2, <1>3, <2>1 DEF Placed
<1>5. CASE Queried(c) \/ TookOver(c)
  <2>1. kind[c] \in Reconnects \cup Captures
    <3>1. call[c].pc = "running" /\ cmd[c].prog \in {"query", "tscon"}
      BY <1>5 DEF Queried, TookOver, Succeeded, Ended
    <3>2. cmd[c].prog \in MayRun(kind[c]) /\ kind[c] \in Captures \cup Reconnects \cup Scripts
      BY <1>1, <3>1 DEF Placed
    <3>3. CASE kind[c] \in Scripts
      <4>1. MayRun(kind[c]) = {Script(kind[c])}
        BY <3>3 DEF MayRun, Scripts, Reconnects, Captures
      <4>2. QED
        BY <3>1, <3>2, <4>1 DEF Script
    <3>4. QED
      BY <3>2, <3>3
  <2>2. CASE /\ cmd' = [cmd EXCEPT ![c] = [NoCommand EXCEPT !.prog = "tscon",
                                                          !.row = cmd[c].row]]
             /\ Goes(c, "start")
    <3>1. call'[c].pc = "start" /\ cmd'[c].prog = "tscon" /\ cmd'[c].proc = "none"
      BY <2>2, Became, BecameAttaching
    <3>2. QED
      BY <1>1, <1>2, <1>3, <2>1, <3>1 DEF Placed
  <2>3. CASE Returns(c, "error") /\ cmd' = [cmd EXCEPT ![c] = NoCommand]
    <3>1. call'[c].pc = "done" /\ cmd'[c] = NoCommand
      BY <2>3, Became, BecameProgram
    <3>2. QED
      BY <1>1, <1>2, <3>1 DEF Placed
  <2>4. CASE Connected(c) /\ cmd' = [cmd EXCEPT ![c] = NoCommand]
    <3>1. /\ call'[c].pc \in {"capture", "done"} /\ cmd'[c] = NoCommand
          /\ call'[c].pc = "capture" => kind[c] \in Captures
      BY <2>4, BecameConnected, BecameProgram
    <3>2. QED
      BY <1>1, <1>2, <3>1 DEF Placed
  <2>5. QED
    BY <1>5, <2>2, <2>3, <2>4 DEF Queried, TookOver
<1>6. CASE StartCapture(c)
  <2>1. call'[c].pc \in {"capture", "list"}
    <3>1. CASE Goes(c, "capture") \/ Goes(c, "list")
      BY <3>1, Became
    <3>2. CASE call' = [call EXCEPT ![c].pc = "capture", ![c].retried = TRUE]
      BY <3>2 DEF TypeOK, CallStates
    <3>3. QED
      BY <1>6, <3>1, <3>2 DEF StartCapture
  <2>2. kind[c] \in Captures /\ UNCHANGED cmd /\ call[c].pc = "idle"
    BY <1>6 DEF StartCapture, Admitted
  <2>3. QED
    BY <1>1, <2>1, <2>2 DEF Placed
<1>7. CASE Captured(c)
  <2>1. CASE Goes(c, "list") /\ UNCHANGED cmd
    <3>1. call[c].pc = "capture" /\ call'[c].pc = "list"
      BY <1>7, <2>1, Became DEF Captured
    <3>2. QED
      BY <1>1, <2>1, <3>1 DEF Placed
  <2>2. CASE kind[c] = "OCR" /\ \E prog \in {"tesseract", "powershell"} : Run(c, prog)
    <3>1. PICK prog \in {"tesseract", "powershell"} : Run(c, prog)
      BY <2>2
    <3>2. call'[c].pc = "start" /\ cmd'[c] = [NoCommand EXCEPT !.prog = prog]
      BY <3>1, BecameProgram
    <3>3. prog \in MayRun(kind[c]) /\ kind[c] \in Captures
      BY <2>2 DEF MayRun, Reconnects, Captures
    <3>4. QED
      BY <1>1, <1>2, <3>2, <3>3 DEF Placed
  <2>3. CASE Returns(c, "error") /\ UNCHANGED cmd
    <3>1. call[c].pc = "capture" /\ call'[c].pc = "done"
      BY <1>7, <2>3, Became DEF Captured
    <3>2. QED
      BY <1>1, <2>3, <3>1 DEF Placed
  <2>4. QED
    BY <1>7, <2>1, <2>2, <2>3 DEF Captured
<1>8. CASE CaptureFails(c)
  <2>1. call[c].pc = "capture" /\ kind[c] \in Captures
    BY <1>1, <1>8 DEF CaptureFails, Placed
  <2>2. CASE Returns(c, "error") /\ UNCHANGED cmd
    <3>1. call'[c].pc = "done"
      BY <2>2, Became
    <3>2. QED
      BY <1>1, <2>1, <2>2, <3>1 DEF Placed
  <2>3. CASE /\ cmd' = [cmd EXCEPT ![c] = [NoCommand EXCEPT !.prog = "query"]]
             /\ call' = [call EXCEPT ![c].pc = "start", ![c].retried = TRUE]
    <3>1. call'[c].pc = "start" /\ cmd'[c] = [NoCommand EXCEPT !.prog = "query"]
      BY <2>3 DEF TypeOK, CallStates
    <3>2. QED
      BY <1>1, <1>2, <1>3, <2>1, <3>1 DEF Placed
  <2>4. QED
    BY <1>8, <2>2, <2>3 DEF CaptureFails
<1>9. CASE Lists(c) \/ Annotates(c)
  <2>1. call[c].pc = "list" /\ call'[c].pc = "done" /\ UNCHANGED cmd
    BY <1>9, Became DEF Lists, Annotates
  <2>2. QED
    BY <1>1, <2>1 DEF Placed
<1>10. QED
  BY <1>4, <1>5, <1>6, <1>7, <1>8, <1>9 DEF SessionStep

LEMMA PlacedClipboard ==
  ASSUME TypeOK, PlaceInv, NEW c \in Calls, ClipboardStep(c)
  PROVE  Placed(c)'
<1>1. UNCHANGED <<kind, cmd>> /\ Placed(c)
  BY ClipboardFrame DEF PlaceInv
<1>2. CASE StartClipboard(c)
  BY <1>1, <1>2, Became DEF StartClipboard, Admitted, Placed
<1>3. CASE Opens(c)
  BY <1>1, <1>3, Became DEF Opens, Placed, Clipboards
<1>4. CASE GivesUp(c) \/ Closes(c)
  BY <1>1, <1>4, Became DEF GivesUp, Closes, Placed
<1>5. CASE Reads(c)
  BY <1>1, <1>5, Became DEF Reads, Placed, Clipboards
<1>6. CASE Empties(c) \/ Allocates(c) \/ Copies(c)
  BY <1>1, <1>6, Became DEF Empties, Allocates, Copies, Placed, Clipboards
<1>7. CASE Stores(c)
  BY <1>1, <1>7, Became DEF Stores, Placed, Clipboards
<1>8. QED
  BY <1>2, <1>3, <1>4, <1>5, <1>6, <1>7 DEF ClipboardStep

LEMMA PlacedEnvironment ==
  ASSUME TypeOK, PlaceInv, NEW c \in Calls, Environment(c)
  PROVE  Placed(c)'
<1>1. UNCHANGED kind /\ Placed(c) /\ call'[c].pc = call[c].pc
  BY EnvironmentFrame DEF PlaceInv
<1>2. cmd[c] \in Commands /\ cmd \in [Calls -> Commands]
  BY DEF TypeOK
<1>3. CASE Works(c) \/ Exits(c) \/ Kill(c)
  <2>1. Alive(c)
    BY <1>3 DEF Works, Exits, Kill, Alive
  <2>2. cmd'[c].prog = cmd[c].prog
    <3>1. CASE Works(c)
      BY <3>1, BecameWorked
    <3>2. CASE Exits(c) \/ Kill(c)
      BY <1>2, <3>2 DEF Exits, Kill, Commands
    <3>3. QED
      BY <1>3, <3>1, <3>2
  <2>3. call[c].pc = "running"
    BY <1>1, <2>1 DEF Alive, Placed
  <2>4. QED
    BY <1>1, <2>2, <2>3 DEF Placed
<1>4. CASE TimesOut(c) \/ HolderEnds(c) \/ CallOver(c, "deadline") \/ CallOver(c, "cancelled")
  <2>1. cmd'[c].prog = cmd[c].prog /\ cmd'[c].proc = cmd[c].proc
    BY <1>2, <1>4 DEF TimesOut, HolderEnds, CallOver, Commands
  <2>2. QED
    BY <1>1, <2>1 DEF Placed
<1>5. QED
  BY <1>3, <1>4 DEF Environment

LEMMA PlaceStep == TypeOK /\ PlaceInv /\ [Next]_vars => PlaceInv'
<1> SUFFICES ASSUME TypeOK, PlaceInv, [Next]_vars PROVE PlaceInv'
  OBVIOUS
<1>1. ASSUME NEW d \in Calls,
             UNCHANGED kind, call'[d].pc = call[d].pc, cmd'[d] = cmd[d]
      PROVE  Placed(d)'
  BY <1>1 DEF PlaceInv, Placed
<1>2. ASSUME NEW c \in Calls, Handles(c) PROVE PlaceInv'
  <2>1. ASSUME NEW d \in Calls, d # c PROVE Placed(d)'
    BY <1>1, <1>2, <2>1, HandlesSplit, InputFrame, ProgramFrame, SessionFrame, ClipboardFrame
  <2>2. Placed(c)'
    BY <1>2, HandlesSplit, PlacedInput, PlacedProgram, PlacedSession, PlacedClipboard
  <2>3. QED
    BY <2>1, <2>2 DEF PlaceInv
<1>3. ASSUME NEW c \in Calls, Environment(c) PROVE PlaceInv'
  BY <1>1, <1>3, EnvironmentFrame, PlacedEnvironment DEF PlaceInv
<1>4. CASE SessionMoves \/ OtherOpens \/ OtherCloses \/ UNCHANGED vars
  BY <1>1, <1>4 DEF SessionMoves, OtherOpens, OtherCloses, vars, PlaceInv
<1>5. QED
  BY <1>2, <1>3, <1>4 DEF Next

-----------------------------------------------------------------------------
(* The clipboard and its memory.  A call owns memory from its allocation   *)
(* until it has copied the text and handed it over, or failed to.          *)
Inside == {"read", "empty", "alloc", "lock", "store", "close"}

Owns(c) ==
  /\ block[c] # "corrupt"
  /\ kind[c] # "SetClipboard" => block[c] = "none"
  /\ block[c] = "ours" <=> call[c].pc \in {"lock", "store"}
  /\ call[c].pc \in {"idle", "open", "empty", "alloc"} => block[c] = "none"
  /\ call[c].pc \in {"close", "done"} /\ kind[c] = "SetClipboard" =>
       (call[c].result = "ok" <=> block[c] = "system")
  /\ content = c => block[c] = "system"
  /\ owner = c <=> call[c].pc \in Inside

OwnerInv == \A c \in Calls : Owns(c)

LEMMA OwnerInit == Init => OwnerInv
<1>1. \A c \in Calls : c # Nobody /\ c # "foreign"
  BY CallsAssumption
<1>2. QED
  BY <1>1 DEF Init, OwnerInv, Owns, NewCall, Inside

LEMMA OwnerImplies == OwnerInv => BlockHasOneOwner
BY DEF OwnerInv, Owns, BlockHasOneOwner, Inside

(* Steps that have nothing to do with the clipboard.                       *)
LEMMA OwnsElsewhere ==
  ASSUME OwnerInv, NEW c \in Calls,
         UNCHANGED <<kind, clipboardVars>>,
         call'[c].pc = call[c].pc /\ call'[c].result = call[c].result
  PROVE  Owns(c)'
BY DEF OwnerInv, Owns, clipboardVars

(* A call of another tool ends, or goes on, outside the clipboard.         *)
LEMMA OwnsOtherTool ==
  ASSUME OwnerInv, NEW c \in Calls, kind[c] # "SetClipboard",
         UNCHANGED <<kind, clipboardVars>>,
         call[c].pc \notin Inside, call'[c].pc \notin Inside
  PROVE  Owns(c)'
BY DEF OwnerInv, Owns, clipboardVars, Inside

LEMMA OwnsOutside ==
  ASSUME TypeOK, PlaceInv, OwnerInv, NEW c \in Calls,
         InputStep(c) \/ ProgramStep(c) \/ SessionStep(c)
  PROVE  Owns(c)'
<1>1. UNCHANGED <<kind, clipboardVars>> /\ Placed(c) /\ Placed(c)'
  BY InputFrame, ProgramFrame, SessionFrame, PlacedInput, PlacedProgram, PlacedSession
     DEF PlaceInv
<1>2. /\ call[c].pc \in {"idle", "sending", "start", "running", "capture", "list"}
      /\ call[c].pc = "idle" => kind[c] \notin Clipboards
  <2>1. CASE InputStep(c)
    BY <2>1 DEF InputStep, StartInput, Refused, Inserted, InsertedSome, InputEnds, Admitted,
                Inputs, Clipboards
  <2>2. CASE ProgramStep(c)
    BY <2>2 DEF ProgramStep, StartScript, Started, NotStarted, CommandFails, PingFails,
                ScriptReturns, Ended, Succeeded, Admitted, Scripts, Clipboards
  <2>3. CASE SessionStep(c)
    BY <2>3 DEF SessionStep, StartReconnect, Queried, TookOver, StartCapture, Captured,
                CaptureFails, Lists, Annotates, Ended, Succeeded, Admitted, Reconnects,
                Captures, Clipboards
  <2>4. QED
    BY <2>1, <2>2, <2>3
<1>3. kind[c] \notin Clipboards
  <2>1. call[c].pc # "idle" => kind[c] \in Inputs \cup Captures \cup Reconnects \cup Scripts
    BY <1>1, <1>2 DEF Placed
  <2>2. QED
    BY <1>2, <2>1 DEF Inputs, Captures, Reconnects, Scripts, Clipboards
<1>4. call'[c].pc \notin Inside
  BY <1>1, <1>3 DEF Placed, Inside, Clipboards
<1>5. QED
  BY <1>1, <1>2, <1>3, <1>4, OwnsOtherTool DEF Inside, Clipboards

LEMMA OwnsInside ==
  ASSUME TypeOK, PlaceInv, OwnerInv, NEW c \in Calls, ClipboardStep(c)
  PROVE  Owns(c)'
<1>1. UNCHANGED kind /\ Placed(c) /\ Owns(c)
  BY ClipboardFrame DEF PlaceInv, OwnerInv
<1>2. c # Nobody /\ c # Other /\ c # "nothing" /\ c # "foreign"
  BY CallsAssumption
<1>3. block \in [Calls -> Blocks] /\ call[c].pc \in Places
  BY DEF TypeOK, CallStates
<1>4. CASE StartClipboard(c)
  <2>1. /\ call[c].pc = "idle" /\ UNCHANGED clipboardVars
        /\ \/ call'[c].pc = "open"
           \/ call'[c].pc = "done" /\ call'[c].result = "error"
    BY <1>4, Became DEF StartClipboard, Admitted
  <2>2. QED
    BY <1>1, <2>1 DEF Owns, clipboardVars, Inside
<1>5. CASE Opens(c)
  <2>1. /\ call[c].pc = "open" /\ owner' = c /\ UNCHANGED <<content, block>>
        /\ \/ kind[c] = "GetClipboard" /\ call'[c].pc = "read"
           \/ kind[c] # "GetClipboard" /\ call'[c].pc = "empty"
    BY <1>5, Became DEF Opens
  <2>2. QED
    BY <1>1, <2>1 DEF Owns, Inside
<1>6. CASE GivesUp(c)
  <2>1. /\ call[c].pc = "open" /\ UNCHANGED clipboardVars
        /\ call'[c].pc = "done" /\ call'[c].result = "error"
    BY <1>6, Became DEF GivesUp
  <2>2. QED
    BY <1>1, <2>1 DEF Owns, clipboardVars, Inside
<1>7. CASE Reads(c)
  <2>1. call[c].pc = "read" /\ UNCHANGED clipboardVars /\ call'[c].pc = "close"
    BY <1>7, Became DEF Reads
  <2>2. kind[c] = "GetClipboard"
    BY <1>1, <2>1 DEF Placed
  <2>3. QED
    BY <1>1, <2>1, <2>2 DEF Owns, clipboardVars, Inside
<1>8. CASE Empties(c)
  <2>1. /\ call[c].pc = "empty" /\ UNCHANGED <<owner, block>>
        /\ content' \in {content, "nothing"}
        /\ \/ call'[c].pc = "alloc"
           \/ call'[c].pc = "close" /\ call'[c].result = "error"
    BY <1>8, Became DEF Empties
  <2>2. QED
    BY <1>1, <1>2, <2>1 DEF Owns, Inside
<1>9. CASE Allocates(c)
  <2>1. /\ call[c].pc = "alloc" /\ UNCHANGED <<owner, content>>
        /\ \/ call'[c].pc = "lock" /\ block' = [block EXCEPT ![c] = "ours"]
           \/ call'[c].pc = "close" /\ call'[c].result = "error" /\ UNCHANGED block
    BY <1>9, Became DEF Allocates
  <2>2. kind[c] = "SetClipboard" /\ block[c] = "none" /\ owner = c /\ content # c
    BY <1>1, <2>1 DEF Placed, Owns, Inside
  <2>3. QED
    BY <1>1, <1>3, <2>1, <2>2 DEF Owns, Inside
<1>10. CASE Copies(c)
  <2>1. /\ call[c].pc = "lock" /\ UNCHANGED <<owner, content>>
        /\ \/ call'[c].pc = "store" /\ UNCHANGED block
           \/ /\ call'[c].pc = "close" /\ call'[c].result = "error"
              /\ block' = [block EXCEPT ![c] = Freed(@)]
    BY <1>10, Became DEF Copies
  <2>2. kind[c] = "SetClipboard" /\ block[c] = "ours" /\ owner = c /\ content # c
    BY <1>1, <2>1 DEF Placed, Owns, Inside
  <2>3. QED
    BY <1>1, <1>3, <2>1, <2>2 DEF Owns, Inside, Freed
<1>11. CASE Stores(c)
  <2>1. PICK stored \in BOOLEAN :
          /\ HandsOver(c, stored)
          /\ content' = IF stored THEN c ELSE content
          /\ Closing(c, IF stored THEN "ok" ELSE "error")
    BY <1>11 DEF Stores
  <2>2. /\ call[c].pc = "store" /\ UNCHANGED owner /\ call'[c].pc = "close"
        /\ call'[c].result = IF stored THEN "ok" ELSE "error"
    BY <1>11, <2>1, Became DEF Stores
  <2>3. kind[c] = "SetClipboard" /\ block[c] = "ours" /\ owner = c /\ content # c
    BY <1>1, <2>2 DEF Placed, Owns, Inside
  <2>4. block'[c] = IF stored THEN "system" ELSE "freed"
    BY <1>3, <2>1, <2>3 DEF HandsOver, Freed
  <2>5. QED
    BY <1>1, <2>1, <2>2, <2>3, <2>4 DEF Owns, Inside
<1>12. CASE Closes(c)
  <2>1. /\ call[c].pc = "close" /\ UNCHANGED <<content, block>> /\ owner' = Nobody
        /\ call'[c].pc = "done" /\ call'[c].result = call[c].result
    BY <1>12, Became DEF Closes
  <2>2. QED
    BY <1>1, <1>2, <2>1 DEF Owns, Inside
<1>13. QED
  BY <1>4, <1>5, <1>6, <1>7, <1>8, <1>9, <1>10, <1>11, <1>12 DEF ClipboardStep

(* A call of the clipboard against the others: it takes the clipboard from *)
(* nobody, lets go only of its own, and what it puts there is its own.     *)
LEMMA OwnsBeside ==
  ASSUME TypeOK, PlaceInv, OwnerInv, NEW c \in Calls, ClipboardStep(c),
         NEW d \in Calls, d # c
  PROVE  Owns(d)'
<1>1. UNCHANGED kind /\ call'[d] = call[d] /\ block'[d] = block[d] /\ Owns(c) /\ Owns(d)
  BY ClipboardFrame DEF OwnerInv
<1>2. d # Nobody /\ d # "nothing"
  BY CallsAssumption
<1>3. content' \in {content, "nothing", c}
  BY DEF ClipboardStep, StartClipboard, Opens, GivesUp, Reads, Empties, Allocates, Copies,
         Stores, Closes, clipboardVars
<1>4. \/ owner' = owner
      \/ owner = Nobody /\ owner' = c
      \/ owner = c /\ owner' = Nobody
  <2>1. CASE Closes(c)
    BY <1>1, <2>1 DEF Closes, Owns, Inside
  <2>2. CASE ~Closes(c)
    BY <2>2 DEF ClipboardStep, StartClipboard, Opens, GivesUp, Reads, Empties, Allocates,
                Copies, Stores, clipboardVars
  <2>3. QED
    BY <2>1, <2>2
<1>5. QED
  BY <1>1, <1>2, <1>3, <1>4 DEF Owns

LEMMA OwnerStep == TypeOK /\ PlaceInv /\ OwnerInv /\ [Next]_vars => OwnerInv'
<1> SUFFICES ASSUME TypeOK, PlaceInv, OwnerInv, [Next]_vars PROVE OwnerInv'
  OBVIOUS
<1>1. ASSUME NEW c \in Calls, Handles(c) PROVE OwnerInv'
  <2>1. CASE InputStep(c) \/ ProgramStep(c) \/ SessionStep(c)
    <3>1. ASSUME NEW d \in Calls, d # c PROVE Owns(d)'
      BY <2>1, <3>1, InputFrame, ProgramFrame, SessionFrame, OwnsElsewhere
    <3>2. QED
      BY <2>1, <3>1, OwnsOutside DEF OwnerInv
  <2>2. CASE ClipboardStep(c)
    BY <2>2, OwnsInside, OwnsBeside DEF OwnerInv
  <2>3. QED
    BY <1>1, <2>1, <2>2, HandlesSplit
<1>2. ASSUME NEW c \in Calls, Environment(c) PROVE OwnerInv'
  BY <1>2, EnvironmentFrame, OwnsElsewhere DEF OwnerInv
<1>3. CASE SessionMoves \/ UNCHANGED vars
  BY <1>3, OwnsElsewhere DEF SessionMoves, vars, OwnerInv
<1>4. CASE OtherOpens \/ OtherCloses
  <2>1. \A c \in Calls : c # Nobody /\ c # Other /\ c # "foreign"
    BY CallsAssumption
  <2>2. /\ UNCHANGED <<kind, call, block>> /\ owner \in {Nobody, Other}
        /\ owner' \in {Nobody, Other} /\ content' \in {content, "foreign"}
    BY <1>4 DEF OtherOpens, OtherCloses
  <2>3. QED
    BY <2>1, <2>2 DEF OwnerInv, Owns
<1>5. QED
  BY <1>1, <1>2, <1>3, <1>4 DEF Next

(* The memory of a text belongs to one: setClipboard frees it on every     *)
(* failure, and only then, and closes the clipboard it has opened.         *)
THEOREM OneOwner == Spec => []BlockHasOneOwner
BY InitType, TypeStep, PlaceInit, PlaceStep, OwnerInit, OwnerStep, OwnerImplies, PTL DEF Spec

-----------------------------------------------------------------------------
(* The sessions.  What a call has read of a row was so of that user in its *)
(* time as far as the words are known, it takes the console for a reason   *)
(* it has found or was given, and a tscon that did its work has put that   *)
(* user's session there.                                                   *)
Attached(c, u) == since[c][u] \cap {"console", "remote"} # {}

ReadRight(c, u) ==
  /\ cmd[c].gone => "gone" \in since[c][u]
  /\ KnownWords /\ ~cmd[c].gone => Attached(c, u)

Honest(c) ==
  call[c].pc = "done" /\ call[c].result = "ok" =>
    /\ kind[c] = "Reconnect" /\ KnownWords => \E u \in Users : Attached(c, u)
    /\ kind[c] = "ForceReconnect" => \E u \in Users : "console" \in since[c][u]

Told(c) ==
  /\ cmd[c].prog = "query" /\ cmd[c].proc \in {"worked", "exited"} =>
       cmd[c].row = Nobody \/ ReadRight(c, cmd[c].row)
  /\ cmd[c].prog = "tscon" =>
       /\ cmd[c].row \in Users
       /\ kind[c] = "ForceReconnect" \/ "gone" \in since[c][cmd[c].row]
       /\ cmd[c].proc \in {"worked", "exited"} => "console" \in since[c][cmd[c].row]
  /\ Honest(c)

ToldInv == \A c \in Calls : Told(c)

LEMMA ToldInit == Init => ToldInv
BY DEF Init, ToldInv, Told, Honest, NewCall, NoCommand

LEMMA ToldImplies == ToldInv => ReportedTrueIfKnown
BY DEF ToldInv, Told, Honest, Attached, ReportedTrueIfKnown

(* The states a call has lived through are not forgotten.                  *)
Remembers(c) == \A u \in Users : since[c][u] \subseteq since'[c][u]

LEMMA RememberedRow ==
  ASSUME NEW c \in Calls, Remembers(c), NEW u \in Users,
         cmd'[c].gone = cmd[c].gone, ReadRight(c, u)
  PROVE  ReadRight(c, u)'
BY DEF Remembers, ReadRight, Attached

LEMMA HonestElsewhere ==
  ASSUME NEW c \in Calls, Honest(c), UNCHANGED kind, Remembers(c),
         call'[c].pc = call[c].pc /\ call'[c].result = call[c].result
  PROVE  Honest(c)'
BY DEF Honest, Remembers, Attached

LEMMA ToldElsewhere ==
  ASSUME TypeOK, ToldInv, NEW c \in Calls, UNCHANGED kind, Remembers(c),
         call'[c].pc = call[c].pc /\ call'[c].result = call[c].result, cmd'[c] = cmd[c]
  PROVE  Told(c)'
<1>1. Told(c) /\ Honest(c) /\ cmd[c].row \in Users \cup {Nobody}
  BY DEF ToldInv, Told, TypeOK, Commands
<1>2. Honest(c)'
  BY <1>1, HonestElsewhere
<1>3. ASSUME cmd[c].prog = "query", cmd[c].proc \in {"worked", "exited"}
      PROVE  (cmd[c].row = Nobody \/ ReadRight(c, cmd[c].row))'
  <2>1. PICK u \in Users \cup {Nobody} : u = cmd[c].row
    BY <1>1
  <2>2. u = Nobody \/ ReadRight(c, u)
    BY <1>1, <1>3, <2>1 DEF Told
  <2>3. u = Nobody \/ ReadRight(c, u)'
    BY <2>1, <2>2, RememberedRow
  <2>4. QED
    BY <2>1, <2>3 DEF ReadRight, Attached
<1>4. ASSUME cmd[c].prog = "tscon"
      PROVE  /\ cmd[c].row \in Users
             /\ kind[c] = "ForceReconnect" \/ "gone" \in since'[c][cmd[c].row]
             /\ cmd[c].proc \in {"worked", "exited"} => "console" \in since'[c][cmd[c].row]
  BY <1>1, <1>4 DEF Told, Remembers
<1>5. QED
  BY <1>2, <1>3, <1>4 DEF Told

(* A call of another tool.                                                 *)
LEMMA ToldOtherTool ==
  ASSUME NEW c \in Calls, kind'[c] \notin Reconnects, cmd'[c].prog \notin {"query", "tscon"}
  PROVE  Told(c)'
BY DEF Told, Honest, Reconnects

LEMMA RunsNothing ==
  /\ NoCommand.prog = "none" /\ NoCommand.proc = "none"
  /\ \A prog : /\ [NoCommand EXCEPT !.prog = prog].prog = prog
               /\ [NoCommand EXCEPT !.prog = prog].proc = "none"
BY DEF NoCommand

LEMMA ToldInput ==
  ASSUME TypeOK, PlaceInv, ToldInv, NEW c \in Calls, InputStep(c)
  PROVE  Told(c)'
<1>1. UNCHANGED <<kind, cmd>> /\ Placed(c)
  BY InputFrame DEF PlaceInv
<1>2. call[c].pc \in {"idle", "sending"} /\ kind[c] \notin Reconnects
  BY <1>1 DEF InputStep, StartInput, Refused, Inserted, InsertedSome, InputEnds, Admitted,
              Placed, Inputs, Reconnects
<1>3. cmd[c].prog = "none"
  BY <1>1, <1>2 DEF Placed
<1>4. QED
  BY <1>1, <1>2, <1>3, ToldOtherTool

LEMMA ToldClipboard ==
  ASSUME TypeOK, PlaceInv, ToldInv, NEW c \in Calls, ClipboardStep(c)
  PROVE  Told(c)'
<1>1. UNCHANGED <<kind, cmd>> /\ Placed(c)
  BY ClipboardFrame DEF PlaceInv
<1>2. call[c].pc \in {"idle", "open"} \cup Inside /\ kind[c] \in Clipboards
  BY <1>1 DEF ClipboardStep, StartClipboard, Opens, GivesUp, Reads, Empties, Allocates, Copies,
              Stores, Closes, Admitted, Placed, Inside, Clipboards
<1>3. cmd[c].prog = "none" /\ kind[c] \notin Reconnects
  BY <1>1, <1>2 DEF Placed, Inside, Reconnects, Clipboards
<1>4. QED
  BY <1>1, <1>3, ToldOtherTool

LEMMA ToldProgram ==
  ASSUME TypeOK, PlaceInv, ToldInv, NEW c \in Calls, ProgramStep(c)
  PROVE  Told(c)'
<1>1. UNCHANGED <<kind, since>> /\ Placed(c) /\ Told(c)
  BY ProgramFrame DEF PlaceInv, ToldInv, sessionVars
<1>2. CASE StartScript(c)
  <2>1. cmd'[c] = [NoCommand EXCEPT !.prog = Script(kind[c])] /\ kind[c] \in Scripts
    BY <1>2, BecameProgram DEF StartScript
  <2>2. cmd'[c].prog \notin {"query", "tscon"} /\ kind[c] \notin Reconnects
    BY <2>1, RunsNothing DEF Script, Scripts, Reconnects
  <2>3. QED
    BY <1>1, <2>2, ToldOtherTool
<1>3. CASE Started(c)
  <2>1. call'[c].pc = "running"
    BY <1>3, Became DEF Started
  <2>2. /\ cmd'[c].prog = cmd[c].prog /\ cmd'[c].proc = "running"
        /\ cmd'[c].row = cmd[c].row
    BY <1>3 DEF Started, TypeOK, Commands
  <2>3. Honest(c)'
    BY <2>1 DEF Honest
  <2>4. QED
    BY <1>1, <2>2, <2>3 DEF Told
<1>4. CASE NotStarted(c) \/ CommandFails(c)
  <2>1. \/ cmd'[c] = NoCommand /\ call'[c].result = "error"
        \/ cmd'[c] = [NoCommand EXCEPT !.prog = "powershell"] /\ call'[c].pc = "start"
    BY <1>4, BecameError DEF NotStarted, CommandFails
  <2>2. QED
    BY <1>1, <2>1, RunsNothing DEF Told, Honest
<1>5. CASE PingFails(c) \/ ScriptReturns(c)
  <2>1. cmd'[c] = NoCommand
    BY <1>5, BecameProgram DEF PingFails, ScriptReturns
  <2>2. cmd[c].prog \in {"powershell", "tesseract", "ping"} /\ call[c].pc = "running"
    BY <1>5 DEF PingFails, ScriptReturns, Succeeded, Ended
  <2>3. kind[c] \notin Reconnects
    BY <1>1, <2>2 DEF Placed, MayRun
  <2>4. QED
    BY <1>1, <2>1, <2>3, RunsNothing, ToldOtherTool
<1>6. QED
  BY <1>2, <1>3, <1>4, <1>5 DEF ProgramStep

LEMMA ToldSession ==
  ASSUME TypeOK, PlaceInv, ToldInv, NEW c \in Calls, SessionStep(c)
  PROVE  Told(c)'
<1>1. UNCHANGED kind /\ Placed(c) /\ Told(c)
  BY SessionFrame DEF PlaceInv, ToldInv
<1>2. CASE StartReconnect(c)
  <2>1. cmd'[c] = [NoCommand EXCEPT !.prog = "query"] /\ call'[c].pc = "start"
    BY <1>2, BecameProgram DEF StartReconnect
  <2>2. QED
    BY <2>1, RunsNothing DEF Told, Honest
<1>3. CASE Queried(c)
  <2>1. /\ cmd[c].prog = "query" /\ cmd[c].proc = "exited" /\ since' = since
    BY <1>3 DEF Queried, Succeeded, sessionVars
  <2>2. PICK u \in Users \cup {Nobody} : u = cmd[c].row
    BY DEF TypeOK, Commands
  <2>3. u = Nobody \/ ReadRight(c, u)
    BY <1>1, <2>1, <2>2 DEF Told
  <2>4. CASE u # Nobody /\ NeedsConsole(c)
    <3>1. /\ cmd'[c].prog = "tscon" /\ cmd'[c].proc = "none" /\ cmd'[c].row = u
          /\ call'[c].pc = "start"
      BY <1>3, <2>2, <2>4, Became, BecameAttaching DEF Queried
    <3>2. u \in Users /\ (kind[c] = "ForceReconnect" \/ "gone" \in since[c][u])
      BY <2>3, <2>4 DEF NeedsConsole, ReadRight
    <3>3. QED
      BY <1>1, <2>1, <3>1, <3>2 DEF Told, Honest
  <2>5. CASE u = Nobody
    <3>1. cmd'[c] = NoCommand /\ call'[c].result = "error"
      BY <1>3, <2>2, <2>5, Became, BecameProgram DEF Queried
    <3>2. QED
      BY <3>1, RunsNothing DEF Told, Honest
  <2>6. CASE u # Nobody /\ ~NeedsConsole(c)
    <3>1. cmd'[c] = NoCommand
      BY <1>3, <2>2, <2>6, BecameProgram DEF Queried
    <3>2. u \in Users /\ (KnownWords => Attached(c, u)) /\ kind[c] # "ForceReconnect"
      BY <2>3, <2>6 DEF NeedsConsole, ReadRight
    <3>3. Honest(c)'
      BY <1>1, <2>1, <3>2 DEF Honest, Attached
    <3>4. QED
      BY <3>1, <3>3, RunsNothing DEF Told
  <2>7. QED
    BY <2>4, <2>5, <2>6
<1>4. CASE TookOver(c)
  <2>1. /\ cmd[c].prog = "tscon" /\ cmd[c].proc = "exited" /\ since' = since
        /\ cmd'[c] = NoCommand
    BY <1>4, BecameProgram DEF TookOver, Succeeded, sessionVars
  <2>2. PICK u \in Users : "console" \in since'[c][u]
    BY <1>1, <2>1 DEF Told
  <2>3. Honest(c)'
    BY <2>2 DEF Honest, Attached
  <2>4. QED
    BY <2>1, <2>3, RunsNothing DEF Told
<1>5. CASE StartCapture(c) \/ Captured(c) \/ CaptureFails(c) \/ Lists(c) \/ Annotates(c)
  <2>1. call[c].pc \in {"idle", "capture", "list"} /\ kind[c] \in Captures
    BY <1>1, <1>5 DEF StartCapture, Captured, CaptureFails, Lists, Annotates, Admitted, Placed,
                      Captures
  <2>2. cmd[c].prog = "none" /\ kind[c] \notin Reconnects
    BY <1>1, <2>1 DEF Placed, Captures, Reconnects
  <2>3. \/ cmd'[c] = cmd[c]
        \/ \E prog \in {"tesseract", "powershell", "query"} :
             cmd'[c] = [NoCommand EXCEPT !.prog = prog]
    <3>1. CASE Captured(c) /\ \E prog \in {"tesseract", "powershell"} : Run(c, prog)
      BY <3>1, BecameProgram
    <3>2. CASE CaptureFails(c) /\ cmd' = [cmd EXCEPT ![c] = [NoCommand EXCEPT !.prog = "query"]]
      BY <3>2 DEF TypeOK
    <3>3. CASE UNCHANGED cmd
      BY <3>3
    <3>4. QED
      BY <1>5, <3>1, <3>2, <3>3 DEF StartCapture, Captured, CaptureFails, Lists, Annotates
  <2>4. CASE cmd'[c] = cmd[c]
    BY <1>1, <2>2, <2>4, ToldOtherTool
  <2>5. CASE \E prog \in {"tesseract", "powershell", "query"} :
               cmd'[c] = [NoCommand EXCEPT !.prog = prog]
    BY <1>1, <2>2, <2>5, RunsNothing DEF Told, Honest, Reconnects
  <2>6. QED
    BY <2>3, <2>4, <2>5
<1>6. QED
  BY <1>2, <1>3, <1>4, <1>5 DEF SessionStep

LEMMA SinceGrows ==
  ASSUME TypeOK, NEW c \in Calls, Environment(c) \/ SessionMoves
  PROVE  \A d \in Calls : Remembers(d)
<1>1. CASE since' = since
  BY <1>1 DEF Remembers
<1>2. CASE Lived
  BY <1>2 DEF Lived, Remembers, TypeOK
<1>3. QED
  BY <1>1, <1>2 DEF Environment, CallOver, Works, Exits, TimesOut, Kill, HolderEnds,
                    SessionMoves, sessionVars

(* A program that lists or attaches is run by a call that looks at what    *)
(* becomes of the sessions.                                                *)
LEMMA LooksOn ==
  ASSUME TypeOK, PlaceInv, NEW c \in Calls, Works(c), cmd[c].prog \in {"query", "tscon"}
  PROVE  \A u \in Users : since'[c][u] = since[c][u] \cup ({session'[u]} \ {"none"})
<1>1. Placed(c) /\ cmd[c].proc = "running" /\ Lived
  BY DEF PlaceInv, Works
<1>2. call[c].pc = "running" /\ kind[c] \in Captures \cup Reconnects \cup Scripts
  BY <1>1 DEF Placed
<1>3. kind[c] \in Reconnects \cup Captures
  <2>1. cmd[c].prog \in MayRun(kind[c])
    BY <1>1, <1>2 DEF Placed
  <2>2. CASE kind[c] \in Scripts
    <3>1. MayRun(kind[c]) = {Script(kind[c])}
      BY <2>2 DEF MayRun, Scripts, Reconnects, Captures
    <3>2. QED
      BY <2>1, <3>1 DEF Script
  <2>3. QED
    BY <1>2, <2>2
<1>4. QED
  BY <1>1, <1>2, <1>3 DEF Lived, Active

LEMMA ReadNow ==
  ASSUME TypeOK, PlaceInv, NEW c \in Calls, Works(c), cmd[c].prog = "query"
  PROVE  (cmd[c].row = Nobody \/ ReadRight(c, cmd[c].row))'
<1>1. ReadsSessions(c) /\ session' = session
  BY BecameWorked DEF ReadsSessions
<1>2. \A u \in Users : since'[c][u] = since[c][u] \cup ({session[u]} \ {"none"})
  BY <1>1, LooksOn
<1>3. PICK row \in {u \in Users : session[u] # "none"} \cup {Nobody} :
        cmd' = [cmd EXCEPT ![c].proc = "worked", ![c].row = row,
                           ![c].gone = row # Nobody /\ Disconnected(row)]
  BY <1>1 DEF ReadsSessions
<1>4. cmd'[c].row = row /\ cmd'[c].gone = (row # Nobody /\ Disconnected(row))
  BY <1>3 DEF TypeOK, Commands
<1>5. CASE row # Nobody
  <2>1. row \in Users /\ session[row] \in {"console", "remote", "gone"}
    BY <1>5 DEF TypeOK, Sessions
  <2>2. session[row] \in since'[c][row]
    BY <1>2, <2>1
  <2>3. QED
    BY <1>4, <1>5, <2>1, <2>2 DEF ReadRight, Attached, Disconnected
<1>6. QED
  BY <1>4, <1>5

LEMMA ToldEnvironment ==
  ASSUME TypeOK, PlaceInv, ToldInv, NEW c \in Calls, Environment(c)
  PROVE  Told(c)'
<1>1. /\ UNCHANGED kind /\ Told(c) /\ Remembers(c)
      /\ call'[c].pc = call[c].pc /\ call'[c].result = call[c].result
  BY EnvironmentFrame, SinceGrows DEF ToldInv
<1>2. Honest(c)'
  BY <1>1, HonestElsewhere DEF Told
<1>3. cmd \in [Calls -> Commands]
  BY DEF TypeOK
<1>4. CASE Works(c)
  <2>1. CASE cmd[c].prog = "query"
    BY <1>2, <1>4, <2>1, BecameWorked, ReadNow DEF Told
  <2>2. CASE cmd[c].prog = "tscon"
    <3>1. Attaches(c) /\ cmd'[c].row = cmd[c].row /\ cmd'[c].prog = "tscon"
      BY <1>4, <2>2, BecameWorked
    <3>2. PICK u \in Users : u = cmd[c].row
      BY <1>1, <2>2 DEF Told
    <3>3. session'[u] = "console"
      BY <3>1, <3>2 DEF Attaches
    <3>4. "console" \in since'[c][u]
      BY <1>4, <2>2, <3>3, LooksOn
    <3>5. kind[c] = "ForceReconnect" \/ "gone" \in since'[c][u]
      BY <1>1, <2>2, <3>2 DEF Told, Remembers
    <3>6. QED
      BY <1>1, <1>2, <3>1, <3>2, <3>4, <3>5 DEF Told
  <2>3. CASE cmd[c].prog \notin {"query", "tscon"}
    BY <1>2, <1>4, <2>3, BecameWorked DEF Told
  <2>4. QED
    BY <2>1, <2>2, <2>3
<1>5. CASE ~Works(c)
  <2>1. /\ cmd'[c].prog = cmd[c].prog /\ cmd'[c].row = cmd[c].row /\ cmd'[c].gone = cmd[c].gone
        /\ cmd'[c].proc \in {"worked", "exited"} => cmd[c].proc \in {"worked", "exited"}
    <3>1. CASE Exits(c)
      BY <1>3, <3>1 DEF Exits, Commands
    <3>2. CASE TimesOut(c) \/ Kill(c) \/ HolderEnds(c)
      BY <1>3, <3>2 DEF TimesOut, Kill, HolderEnds, Commands
    <3>3. CASE CallOver(c, "deadline") \/ CallOver(c, "cancelled")
      BY <1>3, <3>3 DEF CallOver, Commands
    <3>4. QED
      BY <1>5, <3>1, <3>2, <3>3 DEF Environment
  <2>2. PICK u \in Users \cup {Nobody} : u = cmd[c].row
    BY <1>3 DEF Commands
  <2>3. CASE cmd[c].prog = "query"
    <3>1. cmd'[c].proc \in {"worked", "exited"} => u = Nobody \/ ReadRight(c, u)
      BY <1>1, <2>1, <2>2, <2>3 DEF Told
    <3>2. cmd'[c].proc \in {"worked", "exited"} => u = Nobody \/ ReadRight(c, u)'
      BY <1>1, <2>1, <3>1, RememberedRow
    <3>3. (cmd[c].row = Nobody \/ ReadRight(c, cmd[c].row))' <=> u = Nobody \/ ReadRight(c, u)'
      BY <2>1, <2>2 DEF ReadRight, Attached
    <3>4. QED
      BY <1>2, <2>1, <2>3, <3>2, <3>3 DEF Told
  <2>4. CASE cmd[c].prog = "tscon"
    <3>1. /\ u \in Users
          /\ kind[c] = "ForceReconnect" \/ "gone" \in since'[c][u]
          /\ cmd'[c].proc \in {"worked", "exited"} => "console" \in since'[c][u]
      BY <1>1, <2>1, <2>2, <2>4 DEF Told, Remembers
    <3>2. QED
      BY <1>1, <1>2, <2>1, <2>2, <2>4, <3>1 DEF Told
  <2>5. CASE cmd[c].prog \notin {"query", "tscon"}
    BY <1>2, <2>1, <2>5 DEF Told
  <2>6. QED
    BY <2>3, <2>4, <2>5
<1>6. QED
  BY <1>4, <1>5

LEMMA ToldStep == TypeOK /\ PlaceInv /\ ToldInv /\ [Next]_vars => ToldInv'
<1> SUFFICES ASSUME TypeOK, PlaceInv, ToldInv, [Next]_vars PROVE ToldInv'
  OBVIOUS
<1>1. ASSUME NEW c \in Calls, Handles(c) PROVE ToldInv'
  <2>1. ASSUME NEW d \in Calls, d # c PROVE Told(d)'
    <3>1. /\ UNCHANGED kind /\ call'[d] = call[d] /\ cmd'[d] = cmd[d]
          /\ since'[d] = since[d]
      BY <1>1, <2>1, HandlesSplit, InputFrame, ProgramFrame, SessionFrame, ClipboardFrame
         DEF sessionVars
    <3>2. QED
      BY <3>1, ToldElsewhere DEF Remembers
  <2>2. Told(c)'
    BY <1>1, HandlesSplit, ToldInput, ToldProgram, ToldSession, ToldClipboard
  <2>3. QED
    BY <2>1, <2>2 DEF ToldInv
<1>2. ASSUME NEW c \in Calls, Environment(c) PROVE ToldInv'
  BY <1>2, EnvironmentFrame, SinceGrows, ToldElsewhere, ToldEnvironment DEF ToldInv
<1>3. CASE SessionMoves
  BY <1>3, SinceGrows, ToldElsewhere DEF SessionMoves, ToldInv
<1>4. CASE OtherOpens \/ OtherCloses \/ UNCHANGED vars
  BY <1>4, ToldElsewhere DEF OtherOpens, OtherCloses, vars, sessionVars, ToldInv, Remembers
<1>5. QED
  BY <1>1, <1>2, <1>3, <1>4 DEF Next

(* Where the words of the listing are known, ReconnectSession says that    *)
(* the session is connected only if a user's session was attached in the   *)
(* time of the call; and that of a forced one was put on the console,      *)
(* whatever the words.                                                     *)
THEOREM ReportedRight == Spec => []ReportedTrueIfKnown
BY InitType, TypeStep, PlaceInit, PlaceStep, ToldInit, ToldStep, ToldImplies, PTL DEF Spec

LEMMA TakeoverStep ==
  TypeOK /\ PlaceInv /\ ToldInv /\ [Next]_vars =>
    [\A u \in Users :
       session[u] = "remote" /\ session'[u] = "console" =>
         \E c \in Calls :
           /\ cmd[c].prog = "tscon" /\ cmd[c].row = u /\ cmd'[c].proc # cmd[c].proc
           /\ kind[c] = "ForceReconnect" \/ "gone" \in since[c][u]]_vars
<1> SUFFICES ASSUME TypeOK, PlaceInv, ToldInv, [Next]_vars, NEW u \in Users,
                    session[u] = "remote", session'[u] = "console"
             PROVE  \E c \in Calls :
                      /\ cmd[c].prog = "tscon" /\ cmd[c].row = u /\ cmd'[c].proc # cmd[c].proc
                      /\ kind[c] = "ForceReconnect" \/ "gone" \in since[c][u]
  OBVIOUS
<1>1. ASSUME NEW c \in Calls, Handles(c) PROVE FALSE
  BY <1>1, HandlesSplit, InputFrame, ProgramFrame, SessionFrame, ClipboardFrame DEF sessionVars
<1>2. ~SessionMoves /\ ~OtherOpens /\ ~OtherCloses /\ ~UNCHANGED vars
  BY DEF SessionMoves, OtherOpens, OtherCloses, vars, sessionVars, TypeOK
<1>3. PICK c \in Calls : Environment(c)
  BY <1>1, <1>2 DEF Next
<1>4. Works(c)
  BY <1>3 DEF Environment, CallOver, Exits, TimesOut, Kill, HolderEnds, sessionVars
<1>5. Attaches(c)
  BY <1>4 DEF Works, ReadsSessions, Computes
<1>6. cmd[c].prog = "tscon" /\ cmd[c].row = u
  BY <1>5 DEF Attaches
<1>7. cmd'[c].proc # cmd[c].proc
  BY <1>4, BecameWorked DEF Works
<1>8. QED
  BY <1>6, <1>7 DEF ToldInv, Told

(* ensureSessionConnected takes a session from a client that uses it only  *)
(* by force, or in a call in whose time it was disconnected.               *)
THEOREM TakenForCause == Spec => NoNeedlessTakeover
<1>1. TypeOK /\ PlaceInv /\ ToldInv /\ [Next]_vars =>
        [\A u \in Users :
           session[u] = "remote" /\ session'[u] = "console" =>
             \E c \in Calls :
               /\ cmd[c].prog = "tscon" /\ cmd[c].row = u /\ cmd'[c].proc # cmd[c].proc
               /\ kind[c] = "ForceReconnect" \/ "gone" \in since[c][u]]_vars
  BY TakeoverStep
<1>2. QED
  BY <1>1, InitType, TypeStep, PlaceInit, PlaceStep, ToldInit, ToldStep, PTL
     DEF Spec, NoNeedlessTakeover

-----------------------------------------------------------------------------
(* The input.  One call at a time sends, what it still has to send lets go *)
(* of what it presses, and a key is down because that call will release it *)
(* or because the system did not take its release.                         *)
Answered(k) ==
  \E c \in Calls : call[c].pc = "done" /\ call[c].result = "error" /\ k \in input[c].cut

WillAnswer(c, k) ==
  \/ input[c].failed /\ k \in input[c].cut
  \/ k = "left" /\ (input[c].owed # <<>> \/ input[c].todo = <<ReleaseLeft>>)

OneSends == \A c, d \in Calls : call[c].pc = "sending" /\ call[d].pc = "sending" => c = d

PlansInv ==
  \A c \in Calls :
    /\ call[c].pc = "idle" => input[c] = NoInput
    /\ call[c].pc = "sending" =>
         input[c].todo \in Seq(Batches(kind[c])) /\ input[c].owed \in {<<>>, <<ReleaseLeft>>}

HeldInv ==
  \A k \in held :
    Answered(k) \/ \E c \in Calls : call[c].pc = "sending" /\ WillAnswer(c, k)

InputInv == OneSends /\ PlansInv /\ HeldInv

LEMMA InputInit == Init => InputInv
BY DEF Init, InputInv, OneSends, PlansInv, HeldInv, NewCall

LEMMA InputImplies == InputInv => StuckKeysReported
BY DEF InputInv, HeldInv, Answered, StuckKeysReported

LEMMA InputElsewhere ==
  ASSUME InputInv, UNCHANGED <<kind, input, held>>,
         \A d \in Calls : /\ call'[d].pc = "sending" <=> call[d].pc = "sending"
                          /\ call'[d].pc = "idle" => call[d].pc = "idle"
                          /\ call[d].pc = "done" =>
                               call'[d].pc = "done" /\ call'[d].result = call[d].result
  PROVE  InputInv'
<1>1. OneSends' /\ PlansInv'
  <2>1. OneSends /\ PlansInv
    BY DEF InputInv
  <2>2. QED
    BY <2>1 DEF OneSends, PlansInv
<1>2. \A k : Answered(k) => Answered(k)'
  BY DEF Answered
<1>3. \A c \in Calls, k \in held : WillAnswer(c, k) => WillAnswer(c, k)'
  BY DEF WillAnswer
<1>4. HeldInv'
  BY <1>2, <1>3 DEF InputInv, HeldInv
<1>5. QED
  BY <1>1, <1>4 DEF InputInv

(* A call that waits for the input's slot finds nobody sending.            *)
LEMMA AdmittedAlone ==
  ASSUME TypeOK, PlaceInv, NEW c \in Calls, Admitted(c), kind[c] \in Inputs,
         NEW d \in Calls
  PROVE  call[d].pc # "sending"
<1> SUFFICES ASSUME call[d].pc = "sending" PROVE FALSE
  OBVIOUS
<1> DEFINE Busy == {e \in Calls : Active(e) /\ Category(kind[e]) = "desktop"}
<1>1. /\ \A k \in Inputs : Category(k) = "desktop"
      /\ Limit("desktop") = 1
  <2>1. \A k \in Inputs : Category(k) = "desktop"
    BY DEF Category, Inputs, Captures, Reconnects, Clipboards
  <2>2. Limit("desktop") = 1
    BY DEF Limit
  <2>3. QED
    BY <2>1, <2>2
<1>2. Cardinality(Busy) < 1
  BY <1>1 DEF Admitted
<1>3. IsFiniteSet(Busy) /\ Cardinality(Busy) \in Nat
  BY CallsAssumption, FS_Subset, FS_CardinalityType
<1>4. Busy = {}
  BY <1>2, <1>3, FS_EmptySet
<1>5. d \in Busy
  <2>1. kind[d] \in Inputs
    BY DEF PlaceInv, Placed
  <2>2. QED
    BY <1>1, <2>1 DEF Active
<1>6. QED
  BY <1>4, <1>5

LEMMA ReleasedLeft ==
  ASSUME NEW down \in SUBSET Keys
  PROVE  "left" \notin After(down, ReleaseLeft)
<1>1. DOMAIN ReleaseLeft = {1} /\ ReleaseLeft[1] = Release("left")
  BY DEF ReleaseLeft
<1>2. Release("left").key = "left" /\ Release("left") # Press("left")
  BY DEF Release, Press
<1>3. QED
  BY <1>1, <1>2 DEF After

LEMMA PressedLeft ==
  ASSUME NEW down \in SUBSET Keys
  PROVE  /\ After(down, PressLeft) \subseteq down \cup {"left"}
         /\ After(down, SubSeq(PressLeft, 1, 0)) \subseteq down
<1>1. DOMAIN PressLeft = {1} /\ PressLeft[1] = Press("left")
  BY DEF PressLeft
<1>2. \A k : Press("left") = Press(k) => k = "left"
  BY DEF Press
<1>3. SubSeq(PressLeft, 1, 0) = <<>>
  BY SubSeqEmpty
<1>4. DOMAIN <<>> = {}
  OBVIOUS
<1>5. QED
  BY <1>1, <1>2, <1>3, <1>4 DEF After

(* What an input step leaves of the others, and of what was answered.      *)
LEMMA AnsweredStays ==
  ASSUME TypeOK, NEW c \in Calls, InputStep(c), NEW k, Answered(k)
  PROVE  Answered(k)'
<1>1. PICK d \in Calls : call[d].pc = "done" /\ call[d].result = "error" /\ k \in input[d].cut
  BY DEF Answered
<1>2. call[c].pc # "done"
  BY DEF InputStep, StartInput, Refused, Inserted, InsertedSome, InputEnds, Admitted
<1>3. call'[d] = call[d] /\ input'[d] = input[d]
  BY <1>1, <1>2, InputFrame
<1>4. QED
  BY <1>1, <1>3 DEF Answered

LEMMA StartInputKeeps ==
  ASSUME TypeOK, PlaceInv, InputInv, NEW c \in Calls, StartInput(c)
  PROVE  InputInv'
<1>1. \A d \in Calls : call[d].pc # "sending"
  BY AdmittedAlone DEF StartInput
<1>2. /\ call'[c].pc = "sending" /\ UNCHANGED <<kind, held>>
      /\ \A d \in Calls : d # c => call'[d] = call[d] /\ input'[d] = input[d]
  BY Became, InputFrame DEF StartInput, InputStep
<1>3. /\ input'[c].todo \in Seq(Batches(kind[c])) /\ input'[c].owed = <<>>
  <2>1. input[c] = NoInput /\ kind[c] \in Inputs
    BY DEF InputInv, PlansInv, StartInput, Admitted
  <2>2. PICK plan \in Plans(kind[c]) : input' = [input EXCEPT ![c].todo = plan]
    BY DEF StartInput
  <2>3. plan \in Seq(Batches(kind[c]))
    BY <2>1, PlansGood
  <2>4. input'[c].todo = plan /\ input'[c].owed = NoInput.owed
    BY <2>1, <2>2 DEF TypeOK, InputStates
  <2>5. QED
    BY <2>3, <2>4 DEF NoInput
<1>4. OneSends' /\ PlansInv'
  BY <1>1, <1>2, <1>3 DEF InputInv, OneSends, PlansInv
<1>5. HeldInv'
  <2>1. \A k \in held : Answered(k)
    BY <1>1 DEF InputInv, HeldInv
  <2>2. \A k \in held : Answered(k)'
    BY <2>1, AnsweredStays DEF InputStep
  <2>3. QED
    BY <1>2, <2>2 DEF HeldInv
<1>6. QED
  BY <1>4, <1>5 DEF InputInv

(* The part of the invariant that speaks of the keys follows from what the *)
(* step does to the keys of the call that sends.                           *)
LEMMA SendingKeeps ==
  ASSUME TypeOK, InputInv, NEW c \in Calls, InputStep(c),
         call[c].pc = "sending", call'[c].pc = "sending",
         \A k \in held' : \/ k \in held /\ (WillAnswer(c, k) => WillAnswer(c, k)')
                          \/ WillAnswer(c, k)'
  PROVE  HeldInv'
<1> SUFFICES ASSUME NEW k \in held'
             PROVE  Answered(k)' \/ WillAnswer(c, k)'
  BY DEF HeldInv
<1>1. CASE WillAnswer(c, k)'
  BY <1>1
<1>2. CASE k \in held /\ (WillAnswer(c, k) => WillAnswer(c, k)')
  <2>1. Answered(k) \/ WillAnswer(c, k)
    BY <1>2 DEF InputInv, HeldInv, OneSends
  <2>2. QED
    BY <1>2, <2>1, AnsweredStays
<1>3. QED
  BY <1>1, <1>2

LEMMA SendingPlans ==
  ASSUME TypeOK, InputInv, NEW c \in Calls, InputStep(c),
         call[c].pc = "sending", call'[c].pc = "sending",
         input'[c].todo \in Seq(Batches(kind[c])), input'[c].owed \in {<<>>, <<ReleaseLeft>>}
  PROVE  OneSends' /\ PlansInv'
<1>1. /\ UNCHANGED kind
      /\ \A d \in Calls : d # c => call'[d] = call[d] /\ input'[d] = input[d]
  BY InputFrame
<1>2. QED
  BY <1>1 DEF InputInv, OneSends, PlansInv

LEMMA InsertedKeeps ==
  ASSUME TypeOK, InputInv, NEW c \in Calls, Inserted(c)
  PROVE  InputInv'
<1> DEFINE batch == Head(input[c].todo)
<1>1. call[c].pc = "sending" /\ call'[c].pc = "sending" /\ InputStep(c) /\ held' = After(held, batch)
  BY DEF Inserted, InputStep
<1>2. /\ input[c].todo \in Seq(Batches(kind[c])) /\ input[c].todo # <<>>
      /\ input[c].owed \in {<<>>, <<ReleaseLeft>>}
  BY <1>1 DEF Inserted, InputInv, PlansInv
<1>3. batch \in Batches(kind[c]) /\ Tail(input[c].todo) \in Seq(Batches(kind[c]))
  BY <1>2, HeadTailProperties
<1>4. /\ input'[c].todo = Tail(input[c].todo)
      /\ input'[c].owed = IF kind[c] = "Drag" /\ batch = PressLeft
                          THEN <<ReleaseLeft>> ELSE input[c].owed
      /\ input'[c].failed = input[c].failed /\ input'[c].cut = input[c].cut
  <2>1. input \in [Calls -> InputStates]
    BY DEF TypeOK
  <2>2. QED
    BY <2>1 DEF Inserted, InputStates, PressLeft, ReleaseLeft
<1>5. OneSends' /\ PlansInv'
  BY <1>1, <1>2, <1>3, <1>4, SendingPlans
<1>6. held \in SUBSET Keys /\ <<ReleaseLeft>> # <<>>
  BY DEF TypeOK
<1>7. CASE batch \in Letting
  <2>1. held' \subseteq held
    BY <1>1, <1>6, <1>7, LettingLetsGo
  <2>2. ASSUME NEW k \in held', WillAnswer(c, k) PROVE WillAnswer(c, k)'
    <3>1. CASE input[c].failed /\ k \in input[c].cut
      BY <1>4, <3>1 DEF WillAnswer
    <3>2. CASE k = "left" /\ input[c].owed # <<>>
      BY <1>4, <1>6, <3>2 DEF WillAnswer
    <3>3. CASE k = "left" /\ input[c].todo = <<ReleaseLeft>>
      <4>1. batch = ReleaseLeft
        BY <3>3
      <4>2. QED
        BY <1>1, <1>6, <2>2, <3>3, <4>1, ReleasedLeft
    <3>4. QED
      BY <2>2, <3>1, <3>2, <3>3 DEF WillAnswer
  <2>3. QED
    BY <1>1, <1>5, <2>1, <2>2, SendingKeeps DEF InputInv
<1>8. CASE batch = PressLeft /\ kind[c] = "Drag"
  <2>1. input'[c].owed # <<>>
    BY <1>4, <1>6, <1>8
  <2>2. held' \subseteq held \cup {"left"}
    BY <1>1, <1>6, <1>8, PressedLeft
  <2>3. WillAnswer(c, "left")'
    BY <2>1 DEF WillAnswer
  <2>4. ASSUME NEW k \in held', k # "left", WillAnswer(c, k) PROVE WillAnswer(c, k)'
    BY <1>4, <2>4 DEF WillAnswer
  <2>5. QED
    BY <1>1, <1>5, <2>2, <2>3, <2>4, SendingKeeps DEF InputInv
<1>9. QED
  BY <1>3, <1>7, <1>8 DEF Batches

LEMMA InsertedSomeKeeps ==
  ASSUME TypeOK, InputInv, NEW c \in Calls, InsertedSome(c)
  PROVE  InputInv'
<1> DEFINE batch == Head(input[c].todo)
<1>1. PICK n \in 0..(Len(batch) - 1) :
        /\ held' = After(held, SubSeq(batch, 1, n))
        /\ input' = [input EXCEPT
             ![c].todo = <<>>,
             ![c].failed = TRUE,
             ![c].cut = @ \cup Released(SubSeq(batch, n + 1, Len(batch)))]
  BY DEF InsertedSome
<1> DEFINE rest == Released(SubSeq(batch, n + 1, Len(batch)))
<1>2. call[c].pc = "sending" /\ call'[c].pc = "sending" /\ InputStep(c)
  BY DEF InsertedSome, InputStep
<1>3. /\ input[c].todo \in Seq(Batches(kind[c])) /\ input[c].todo # <<>>
      /\ input[c].owed \in {<<>>, <<ReleaseLeft>>}
  BY <1>2 DEF InsertedSome, InputInv, PlansInv
<1>4. batch \in Batches(kind[c])
  BY <1>3, HeadTailProperties
<1>5. /\ input'[c].todo = <<>> /\ input'[c].owed = input[c].owed
      /\ input'[c].failed = TRUE /\ input'[c].cut = input[c].cut \cup rest
  <2>1. input \in [Calls -> InputStates]
    BY DEF TypeOK
  <2> HIDE DEF rest
  <2>2. input' = [input EXCEPT ![c].todo = <<>>, ![c].failed = TRUE, ![c].cut = @ \cup rest]
    BY <1>1 DEF rest
  <2>3. QED
    BY <2>1, <2>2 DEF InputStates
<1>6. OneSends' /\ PlansInv'
  <2>1. <<>> \in Seq(Batches(kind[c]))
    OBVIOUS
  <2>2. QED
    BY <1>2, <1>3, <1>5, <2>1, SendingPlans
<1>7. held \in SUBSET Keys
  BY DEF TypeOK
<1>8. held' \subseteq held \cup rest
  <2>1. CASE batch \in Letting
    BY <1>1, <1>7, <2>1, PartLetsGo
  <2>2. CASE batch = PressLeft
    <3>1. Len(PressLeft) = 1
      BY DEF PressLeft
    <3>2. batch = PressLeft /\ n \in 0..(Len(batch) - 1)
      BY <2>2
    <3> HIDE DEF batch
    <3>3. n = 0
      <4>1. Len(batch) = 1
        BY <3>1, <3>2
      <4>2. QED
        BY <3>2, <4>1
    <3>4. QED
      BY <1>1, <1>7, <3>2, <3>3, PressedLeft
  <2>3. QED
    BY <1>4, <2>1, <2>2 DEF Batches
<1>9. ASSUME NEW k \in held, WillAnswer(c, k) PROVE WillAnswer(c, k)'
  <2>1. CASE k \in input[c].cut \/ (k = "left" /\ input[c].owed # <<>>)
    BY <1>5, <2>1 DEF WillAnswer
  <2>2. CASE k = "left" /\ input[c].todo = <<ReleaseLeft>>
    <3>1. /\ batch = ReleaseLeft /\ Len(ReleaseLeft) = 1 /\ ReleaseLeft \in Seq(Events)
          /\ n \in 0..(Len(batch) - 1)
      BY <2>2, ReleaseLetting DEF ReleaseLeft, Letting
    <3> HIDE DEF batch
    <3>2. n = 0
      BY <3>1
    <3>3. SubSeq(batch, n + 1, Len(batch)) = ReleaseLeft
      BY <3>1, <3>2, SubSeqFull
    <3>4. "left" \in Released(ReleaseLeft)
      <4>1. 1 \in DOMAIN ReleaseLeft /\ ReleaseLeft[1] = Release("left") /\ "left" \in Keys
        BY DEF ReleaseLeft, Keys
      <4>2. QED
        BY <4>1 DEF Released
    <3>5. QED
      BY <1>5, <2>2, <3>3, <3>4 DEF WillAnswer
  <2>3. QED
    BY <1>9, <2>1, <2>2 DEF WillAnswer
<1>10. \A k \in rest : WillAnswer(c, k)'
  BY <1>5 DEF WillAnswer
<1>11. QED
  BY <1>2, <1>6, <1>8, <1>9, <1>10, SendingKeeps DEF InputInv

LEMMA InputEndsKeeps ==
  ASSUME TypeOK, InputInv, NEW c \in Calls, InputEnds(c)
  PROVE  InputInv'
<1>1. /\ call[c].pc = "sending" /\ input[c].todo = <<>> /\ InputStep(c) /\ UNCHANGED <<kind, held>>
      /\ input[c].owed \in {<<>>, <<ReleaseLeft>>}
  BY DEF InputEnds, InputStep, InputInv, PlansInv
<1>2. <<ReleaseLeft>> # <<>>
  OBVIOUS
<1>3. CASE input[c].owed # <<>>
  <2>1. input' = [input EXCEPT ![c].todo = input[c].owed, ![c].owed = <<>>] /\ UNCHANGED call
    BY <1>3 DEF InputEnds, Owed
  <2>2. input \in [Calls -> InputStates]
    BY DEF TypeOK
  <2>3. /\ input'[c].todo = <<ReleaseLeft>> /\ input'[c].owed = <<>>
        /\ input'[c].failed = input[c].failed /\ input'[c].cut = input[c].cut
    BY <1>1, <1>3, <2>1, <2>2 DEF InputStates
  <2>4. <<ReleaseLeft>> \in Seq(Batches(kind[c]))
    BY ReleaseLetting, OneBatch DEF Batches
  <2>5. OneSends' /\ PlansInv'
    BY <1>1, <2>1, <2>3, <2>4, SendingPlans
  <2>6. \A k \in held : WillAnswer(c, k) => WillAnswer(c, k)'
    BY <2>3 DEF WillAnswer
  <2>7. QED
    BY <1>1, <2>1, <2>5, <2>6, SendingKeeps DEF InputInv
<1>4. CASE input[c].owed = <<>>
  <2>1. Returns(c, IF input[c].failed THEN "error" ELSE "ok") /\ UNCHANGED input
    BY <1>4 DEF InputEnds, Owed
  <2>2. /\ call'[c].pc = "done"
        /\ input[c].failed => call'[c].result = "error"
        /\ \A d \in Calls : d # c => call'[d] = call[d]
    BY <2>1, Became
  <2>3. OneSends' /\ PlansInv'
    <3>1. \A d \in Calls : /\ call'[d].pc = "sending" => call[d].pc = "sending"
                           /\ call'[d].pc = "idle" => call[d].pc = "idle"
      BY <2>2
    <3>2. QED
      BY <1>1, <2>1, <3>1 DEF InputInv, OneSends, PlansInv
  <2>4. ASSUME NEW k \in held PROVE Answered(k)'
    <3>1. Answered(k) \/ WillAnswer(c, k)
      BY <1>1, <2>4 DEF InputInv, HeldInv, OneSends
    <3>2. CASE WillAnswer(c, k)
      <4>1. input[c].failed /\ k \in input[c].cut
        BY <1>1, <1>2, <1>4, <3>2 DEF WillAnswer
      <4>2. call'[c].pc = "done" /\ call'[c].result = "error"
        BY <2>2, <4>1
      <4>3. QED
        BY <2>1, <4>1, <4>2 DEF Answered
    <3>3. QED
      BY <1>1, <3>1, <3>2, AnsweredStays
  <2>5. QED
    BY <1>1, <2>3, <2>4 DEF InputInv, HeldInv
<1>5. QED
  BY <1>3, <1>4

LEMMA RefusedKeeps ==
  ASSUME TypeOK, InputInv, NEW c \in Calls, Refused(c)
  PROVE  InputInv'
<1>1. /\ UNCHANGED <<kind, input, held>> /\ call[c].pc = "idle" /\ call'[c].pc = "done"
      /\ \A d \in Calls : d # c => call'[d] = call[d]
  BY Became DEF Refused, Admitted, inputVars
<1>2. QED
  BY <1>1, InputElsewhere

(* The other tools send nothing.                                           *)
LEMMA OthersKeep ==
  ASSUME TypeOK, InputInv, NEW c \in Calls, ProgramStep(c) \/ SessionStep(c) \/ ClipboardStep(c)
  PROVE  InputInv'
<1>1. /\ UNCHANGED <<kind, input, held>>
      /\ \A d \in Calls : d # c => call'[d] = call[d]
  BY ProgramFrame, SessionFrame, ClipboardFrame DEF inputVars
<1>2. call[c].pc \notin {"sending", "done"}
  <2>1. CASE ProgramStep(c)
    BY <2>1 DEF ProgramStep, StartScript, Started, NotStarted, CommandFails, PingFails,
                ScriptReturns, Ended, Succeeded, Admitted
  <2>2. CASE SessionStep(c)
    BY <2>2 DEF SessionStep, StartReconnect, Queried, TookOver, StartCapture, Captured,
                CaptureFails, Lists, Annotates, Ended, Succeeded, Admitted
  <2>3. CASE ClipboardStep(c)
    BY <2>3 DEF ClipboardStep, StartClipboard, Opens, GivesUp, Reads, Empties, Allocates,
                Copies, Stores, Closes, Admitted
  <2>4. QED
    BY <2>1, <2>2, <2>3
<1>3. call'[c].pc \notin {"idle", "sending"}
  <2>1. CASE ProgramStep(c)
    <3>1. CASE StartScript(c)
      BY <3>1, BecameProgram DEF StartScript
    <3>2. CASE NotStarted(c) \/ CommandFails(c)
      BY <3>2, BecameError DEF NotStarted, CommandFails
    <3>3. CASE Started(c) \/ PingFails(c) \/ ScriptReturns(c)
      BY <3>3, Became DEF Started, PingFails, ScriptReturns
    <3>4. QED
      BY <2>1, <3>1, <3>2, <3>3 DEF ProgramStep
  <2>2. CASE SessionStep(c)
    <3>1. CASE StartReconnect(c)
      BY <3>1, BecameProgram DEF StartReconnect
    <3>2. CASE Queried(c) \/ TookOver(c)
      BY <3>2, Became, BecameProgram, BecameConnected DEF Queried, TookOver
    <3>3. CASE Captured(c) \/ Lists(c) \/ Annotates(c)
      <4>1. \/ Goes(c, "list") \/ \E prog : Run(c, prog)
            \/ Returns(c, "ok") \/ Returns(c, "error")
        BY <3>3 DEF Captured, Lists, Annotates
      <4>2. CASE Goes(c, "list")
        BY <4>2, Became
      <4>3. CASE \E prog : Run(c, prog)
        BY <4>3, BecameProgram
      <4>4. CASE Returns(c, "ok") \/ Returns(c, "error")
        BY <4>4, Became
      <4>5. QED
        BY <4>1, <4>2, <4>3, <4>4
    <3>4. CASE StartCapture(c) \/ CaptureFails(c)
      <4>1. \/ Goes(c, "capture") \/ Goes(c, "list") \/ Returns(c, "error")
            \/ call' = [call EXCEPT ![c].pc = "capture", ![c].retried = TRUE]
            \/ call' = [call EXCEPT ![c].pc = "start", ![c].retried = TRUE]
        BY <3>4 DEF StartCapture, CaptureFails
      <4>2. \A pc \in {"capture", "start"} :
              call' = [call EXCEPT ![c].pc = pc, ![c].retried = TRUE] => call'[c].pc = pc
        BY DEF TypeOK, CallStates
      <4>3. QED
        BY <4>1, <4>2, Became
    <3>5. QED
      BY <2>2, <3>1, <3>2, <3>3, <3>4 DEF SessionStep
  <2>3. CASE ClipboardStep(c)
    <3>1. CASE Stores(c)
      BY <3>1, Became DEF Stores
    <3>2. CASE ~Stores(c)
      BY <2>3, <3>2, Became DEF ClipboardStep, StartClipboard, Opens, GivesUp, Reads, Empties,
                                Allocates, Copies, Closes
    <3>3. QED
      BY <3>1, <3>2
  <2>4. QED
    BY <2>1, <2>2, <2>3
<1>4. QED
  BY <1>1, <1>2, <1>3, InputElsewhere

LEMMA InputInvStep == TypeOK /\ PlaceInv /\ InputInv /\ [Next]_vars => InputInv'
<1> SUFFICES ASSUME TypeOK, PlaceInv, InputInv, [Next]_vars PROVE InputInv'
  OBVIOUS
<1>1. ASSUME NEW c \in Calls, Handles(c) PROVE InputInv'
  BY <1>1, HandlesSplit, StartInputKeeps, RefusedKeeps, InsertedKeeps, InsertedSomeKeeps,
     InputEndsKeeps, OthersKeep DEF InputStep
<1>2. ASSUME NEW c \in Calls, Environment(c) PROVE InputInv'
  BY <1>2, EnvironmentFrame, InputElsewhere DEF inputVars
<1>3. CASE SessionMoves \/ OtherOpens \/ OtherCloses \/ UNCHANGED vars
  BY <1>3, InputElsewhere DEF SessionMoves, OtherOpens, OtherCloses, vars, inputVars
<1>4. QED
  BY <1>1, <1>2, <1>3 DEF Next

(* Between calls a key or a button is down only if the system refused its  *)
(* release, and then a call has failed for it: sendInputs checks the count *)
(* and mouseDrag releases whatever failed before.                          *)
THEOREM StuckKeysAreReported == Spec => []StuckKeysReported
BY InitType, TypeStep, PlaceInit, PlaceStep, InputInit, InputInvStep, InputImplies, PTL DEF Spec
=============================================================================
