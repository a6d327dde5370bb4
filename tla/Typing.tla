------------------------------- MODULE Typing -------------------------------
(***************************************************************************)
(* typeText with typingSteps: text is cut into runs for `xdotool type` and *)
(* key presses for `xdotool key`, one character after the other, and then  *)
(* sent to the session one xdotool call after the other.                   *)
(***************************************************************************)
EXTENDS Integers, Sequences, FiniteSets, Subsequences

CONSTANTS
  Letters,  \* characters that are typed as they are
  MaxText   \* bound: characters of a text

Breaks == {"cr", "lf"}

ASSUME LettersAssumption == Letters \cap (Breaks \cup {"tab"}) = {}

Characters == Letters \cup Breaks \cup {"tab"}

VARIABLES
  typist,  \* idle, splitting, sending, succeeded, failed
  text,    \* what the caller asked for
  enter,   \* and whether with press_enter
  left,    \* characters the loop has not seen
  run,     \* the run being collected
  plan,    \* steps: runs and keys
  sent,    \* how many of them have been sent
  typed    \* strokes the session has got

typingVars == <<typist, text, enter, left, run, plan, sent, typed>>

KeyStep(k) == [key |-> k, text |-> <<>>]
RunStep(r) == [key |-> "", text |-> r]

TypingInit ==
  /\ typist = "idle"
  /\ text = <<>> /\ enter = FALSE
  /\ left = <<>> /\ run = <<>> /\ plan = <<>>
  /\ sent = 0 /\ typed = <<>>

-----------------------------------------------------------------------------
(* Mutant: the two characters of a line break are kept. *)
AsWritten(t) == t

\* strings.ReplaceAll(text, "\r\n", "\n")
OneBreak(t) ==
  Subsequence(t, {i \in DOMAIN t : ~(t[i] = "cr" /\ i < Len(t) /\ t[i + 1] = "lf")})

Flushed == IF run = <<>> THEN plan ELSE Append(plan, RunStep(run))

Ask(t, e) ==
  /\ typist = "idle"
  /\ typist' = "splitting"
  /\ text' = t /\ enter' = e /\ left' = OneBreak(t)
  /\ UNCHANGED <<run, plan, sent, typed>>

Press(k) ==
  /\ plan' = Append(Flushed, KeyStep(k))
  /\ run' = <<>>
  /\ left' = Tail(left)
  /\ UNCHANGED <<typist, text, enter, sent, typed>>

Break == typist = "splitting" /\ left # <<>> /\ Head(left) \in Breaks /\ Press("Return")

Tab == typist = "splitting" /\ left # <<>> /\ Head(left) = "tab" /\ Press("Tab")

Collect ==
  /\ typist = "splitting"
  /\ left # <<>>
  /\ Head(left) \in Letters
  /\ run' = Append(run, Head(left))
  /\ left' = Tail(left)
  /\ UNCHANGED <<typist, text, enter, plan, sent, typed>>

Flush ==
  /\ typist = "splitting"
  /\ left = <<>>
  /\ plan' = Flushed
  /\ run' = <<>>
  /\ typist' = "sending"
  /\ UNCHANGED <<text, enter, left, sent, typed>>

\* What one xdotool call types.
StrokesOf(step) == IF step.key = "" THEN step.text ELSE <<step.key>>

Send ==
  /\ typist = "sending"
  /\ sent < Len(plan)
  /\ typed' = typed \o StrokesOf(plan[sent + 1])
  /\ sent' = sent + 1
  /\ UNCHANGED <<typist, text, enter, left, run, plan>>

\* An xdotool that fails or is killed may have typed some of its run; what was
\* to follow is not sent.
SendFails ==
  /\ typist = "sending"
  /\ sent < Len(plan)
  /\ \E m \in 0..Len(StrokesOf(plan[sent + 1])) :
       typed' = typed \o SubSeq(StrokesOf(plan[sent + 1]), 1, m)
  /\ typist' = "failed"
  /\ UNCHANGED <<text, enter, left, run, plan, sent>>

\* The Return of press_enter comes last; that it failed is not reported.
Succeed ==
  /\ typist = "sending"
  /\ sent = Len(plan)
  /\ \/ UNCHANGED typed
     \/ enter /\ typed' = Append(typed, "Return")
  /\ typist' = "succeeded"
  /\ UNCHANGED <<text, enter, left, run, plan, sent>>

Texts == UNION {[1..n -> Characters] : n \in 0..MaxText}

TypingNext ==
  \/ \E t \in Texts, e \in BOOLEAN : Ask(t, e)
  \/ Break \/ Tab \/ Collect \/ Flush
  \/ Send \/ SendFails \/ Succeed

TypingSpec == TypingInit /\ [][TypingNext]_typingVars
-----------------------------------------------------------------------------
(* Properties *)

Stroke(c) == IF c \in Breaks THEN "Return" ELSE IF c = "tab" THEN "Tab" ELSE c

\* The characters of a text that stand for a stroke: all but the second half of
\* a line break of two.
Heard(t) == {i \in DOMAIN t : ~(t[i] = "lf" /\ i > 1 /\ t[i - 1] = "cr")}

Strokes(t) == [k \in 1..Cardinality(Heard(t)) |-> Stroke(t[Nth(Heard(t), k)])]

\* What the session gets are the strokes of the text, in order, with nothing
\* lost, doubled or joined, and a Return after them only where it was asked
\* for: all of them when the call succeeds, the first few when it fails, and
\* no xdotool is started with nothing to type.
TypedFaithfully ==
  /\ LET wanted == IF enter THEN Append(Strokes(text), "Return") ELSE Strokes(text)
     IN  /\ Len(typed) <= Len(wanted)
         /\ \A i \in DOMAIN typed : typed[i] = wanted[i]
  /\ typist = "succeeded" => Len(typed) >= Len(Strokes(text))
  /\ \A i \in DOMAIN plan : StrokesOf(plan[i]) # <<>>
=============================================================================
