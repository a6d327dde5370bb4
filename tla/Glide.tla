-------------------------------- MODULE Glide --------------------------------
(***************************************************************************)
(* The walk of the pointer to its target, one point every 10 ms: glide and *)
(* glideArgs, and the agent's mouseMove, which compute the same points.    *)
(* The two axes are computed alike with the same step, so one stands for   *)
(* both.                                                                   *)
(*                                                                         *)
(* A point is int(float64(d) * (float64(step) / float64(steps))).  The     *)
(* conversion truncates toward zero.  The quotient is rounded, so where    *)
(* the exact product is an integer the computed one may lie just below it  *)
(* in size and lose a pixel; elsewhere the exact product is too far from   *)
(* an integer for the rounding to reach it.  With step = steps the         *)
(* quotient is 1 and nothing is lost.                                      *)
(***************************************************************************)
EXTENDS Integers

CONSTANTS
  Coordinates, \* where the pointer may be, and be sent
  MaxSteps     \* bound: steps of a walk

VARIABLES
  from, to,    \* of the walk going on, or of the last one
  steps, step, \* how many points it has, how many are done
  at           \* where the pointer is

glideVars == <<from, to, steps, step, at>>

GlideTypeOK ==
  /\ from \in Coordinates /\ to \in Coordinates
  /\ steps \in 1..MaxSteps /\ step \in 0..steps
  /\ at \in Int

GlideInit ==
  /\ from = 0 /\ to = 0 /\ at = 0
  /\ steps = 1 /\ step = 1

-----------------------------------------------------------------------------
Size(d) == IF d < 0 THEN -d ELSE d
Toward(d, n) == IF d < 0 THEN -n ELSE n

(* Mutant: the length of one step is truncated, and taken s times. *)
EqualStrides(d, s, n) == {Toward(d, s * (Size(d) \div n))}

\* How much of a length l is done after s of n steps: the exact share,
\* truncated, and what rounding may leave of a whole one.
Lengths(l, s, n) ==
  LET exact == (l * s) \div n
  IN  {exact} \cup IF s < n /\ l # 0 /\ (l * s) % n = 0 THEN {exact - 1} ELSE {}

\* What the floating point product may come to.
Offsets(d, s, n) == {Toward(d, p) : p \in Lengths(Size(d), s, n)}

\* A new walk, from where the pointer is.  The code reads its place.
Walk(x, n) ==
  /\ step = steps
  /\ at \in Coordinates
  /\ from' = at /\ to' = x
  /\ steps' = n /\ step' = 0
  /\ UNCHANGED at

\* A duration below one interval is a jump.
Jump(x) ==
  /\ step = steps
  /\ at \in Coordinates
  /\ from' = at /\ to' = x
  /\ steps' = 1 /\ step' = 1
  /\ at' = x

Advance ==
  /\ step < steps
  /\ step' = step + 1
  /\ at' \in {from + o : o \in Offsets(to - from, step', steps)}
  /\ UNCHANGED <<from, to, steps>>

GlideNext ==
  \/ \E x \in Coordinates, n \in 1..MaxSteps : Walk(x, n)
  \/ \E x \in Coordinates : Jump(x)
  \/ Advance

GlideSpec == GlideInit /\ [][GlideNext]_glideVars
-----------------------------------------------------------------------------
(* Properties *)

Between(a, b, c) == (a <= b /\ b <= c) \/ (c <= b /\ b <= a)

\* A walk never turns back and never passes its target, each point lies within
\* a pixel of the straight line, and the last is the target itself, for every
\* distance and number of steps.
OnTrack ==
  /\ Between(at, at', to')
  /\ Size((at' - from') * steps' - (to' - from') * step') <= steps'
  /\ step' = steps' => at' = to'

GlideOnTrack == [][OnTrack]_glideVars
=============================================================================
