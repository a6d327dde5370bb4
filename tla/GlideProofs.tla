----------------------------- MODULE GlideProofs -----------------------------
(***************************************************************************)
(* Theorems about Glide for every distance and every number of steps.  The *)
(* parameters are those of the theorem: the module assumes nothing.        *)
(***************************************************************************)
EXTENDS Glide, TLAPS

Parameters == Coordinates \subseteq Int /\ 0 \in Coordinates /\ MaxSteps \in Nat \ {0}

-----------------------------------------------------------------------------
(* Division, and what follows from it for the fraction of a length d that  *)
(* is done after s of n steps.                                             *)

LEMMA Quotient ==
  ASSUME NEW a \in Nat, NEW n \in Nat \ {0}
  PROVE  /\ a \div n \in Nat
         /\ (a \div n) * n <= a
         /\ a < (a \div n) * n + n
         /\ a % n = 0 => (a \div n) * n = a
OBVIOUS

LEMMA LessByFactor ==
  ASSUME NEW x \in Int, NEW y \in Int, NEW n \in Nat \ {0}
  PROVE  /\ x * n < y * n + n => x <= y
         /\ x * n < y * n => x < y
OBVIOUS

LEMMA LengthsClose ==
  ASSUME NEW d \in Nat, NEW n \in Nat \ {0}, NEW s \in 0..n, NEW p \in Lengths(d, s, n)
  PROVE  p \in Int /\ p * n <= d * s /\ d * s <= p * n + n
<1>1. d * s \in Nat
  OBVIOUS
<1> DEFINE a == d * s
           q == a \div n
<1>2. q \in Nat /\ q * n <= a /\ a < q * n + n /\ (a % n = 0 => q * n = a)
  BY <1>1, Quotient
<1>3. p = q \/ (p = q - 1 /\ a % n = 0)
  BY DEF Lengths
<1> HIDE DEF a, q
<1>4. (q - 1) * n = q * n - n
  BY <1>2
<1>5. p \in Int /\ p * n <= a /\ a <= p * n + n
  BY <1>1, <1>2, <1>3, <1>4 DEF a
<1>6. QED
  BY <1>5 DEF a

(* The next point is not behind this one, and not beyond the target.       *)
LEMMA LengthsGrow ==
  ASSUME NEW d \in Nat, NEW n \in Nat \ {0}, NEW s \in 0..n, s < n,
         NEW p \in Lengths(d, s, n), NEW r \in Lengths(d, s + 1, n)
  PROVE  p <= r /\ r <= d
<1> DEFINE a == d * s
           b == d * (s + 1)
           u == a \div n
           v == b \div n
<1>1. a \in Nat /\ b \in Nat /\ b = a + d /\ s + 1 \in 0..n
  OBVIOUS
<1>2. u \in Nat /\ u * n <= a /\ a < u * n + n
  BY <1>1, Quotient
<1>3. v \in Nat /\ v * n <= b /\ b < v * n + n /\ (b % n = 0 => v * n = b)
  BY <1>1, Quotient
<1>4. p = u \/ p = u - 1
  BY DEF Lengths
<1>5. r = v \/ (r = v - 1 /\ d # 0 /\ b % n = 0)
  BY DEF Lengths
<1>6. b <= d * n
  BY <1>1
<1> HIDE DEF a, b, u, v
<1>7. p <= u
  BY <1>2, <1>4
<1>8. CASE r = v
  <2>1. u * n < v * n + n
    BY <1>1, <1>2, <1>3
  <2>2. u <= v
    BY <1>2, <1>3, <2>1, LessByFactor
  <2>3. v * n < d * n + n
    BY <1>1, <1>3, <1>6
  <2>4. v <= d
    BY <1>3, <2>3, LessByFactor
  <2>5. QED
    BY <1>2, <1>3, <1>4, <1>7, <1>8, <2>2, <2>4
<1>9. CASE r = v - 1 /\ d # 0 /\ b % n = 0
  <2>1. u * n < v * n
    BY <1>1, <1>2, <1>3, <1>9
  <2>2. u < v
    BY <1>2, <1>3, <2>1, LessByFactor
  <2>3. v * n < d * n + n
    BY <1>1, <1>3, <1>6
  <2>4. v <= d
    BY <1>3, <2>3, LessByFactor
  <2>5. QED
    BY <1>2, <1>3, <1>4, <1>7, <1>9, <2>2, <2>4
<1>10. QED
  BY <1>5, <1>8, <1>9

(* Where a walk begins and ends.                                           *)
LEMMA LengthsEnd ==
  ASSUME NEW d \in Nat, NEW n \in Nat \ {0}
  PROVE  Lengths(d, n, n) = {d}
<1> DEFINE a == d * n
           q == a \div n
<1>1. a \in Nat
  OBVIOUS
<1>2. q \in Nat /\ q * n <= a /\ a < q * n + n
  BY <1>1, Quotient
<1>3. Lengths(d, n, n) = {q}
  BY DEF Lengths
<1>4. a = d * n
  OBVIOUS
<1> HIDE DEF a, q
<1>5. q <= d /\ d <= q
  <2>1. q * n < d * n + n
    BY <1>1, <1>2, <1>4
  <2>2. d * n < q * n + n
    BY <1>2, <1>4
  <2>3. QED
    BY <1>2, <2>1, <2>2, LessByFactor
<1>6. QED
  BY <1>2, <1>3, <1>5

LEMMA LengthsBegin ==
  ASSUME NEW d \in Nat, NEW n \in Nat \ {0}, NEW r \in Lengths(d, 1, n)
  PROVE  0 <= r
<1>1. r \in Int /\ d * 1 = d /\ d <= r * n + n
  BY LengthsClose
<1>2. CASE d = 0
  <2>1. d * 1 = 0 /\ 0 \div n = 0
    BY <1>2
  <2>2. r = 0
    BY <1>2, <2>1 DEF Lengths
  <2>3. QED
    BY <2>2
<1>3. CASE d # 0
  <2>1. 0 * n < r * n + n
    BY <1>1, <1>3
  <2>2. QED
    BY <1>1, <2>1, LessByFactor
<1>4. QED
  BY <1>2, <1>3

-----------------------------------------------------------------------------
(* Before its first point a walk stands where it began, then at a point of *)
(* its step.                                                               *)
TrackInv ==
  /\ from \in Int /\ to \in Int
  /\ steps \in Nat \ {0} /\ step \in 0..steps
  /\ at \in Int
  /\ step = 0 => at = from
  /\ step > 0 => \E p \in Lengths(Size(to - from), step, steps) : at = from + Toward(to - from, p)

LEMMA TrackInit == GlideInit => TrackInv
<1> SUFFICES ASSUME GlideInit PROVE TrackInv
  OBVIOUS
<1>1. 0 \in Lengths(0, 1, 1)
  BY LengthsEnd
<1>2. Size(0 - 0) = 0 /\ Toward(0 - 0, 0) = 0 /\ 0 + 0 = 0
  BY DEF Size, Toward
<1>3. from = 0 /\ to = 0 /\ at = 0 /\ steps = 1 /\ step = 1
  BY DEF GlideInit
<1>4. \E p \in Lengths(Size(to - from), step, steps) : at = from + Toward(to - from, p)
  BY <1>1, <1>2, <1>3
<1>5. QED
  BY <1>3, <1>4 DEF TrackInv

LEMMA WalkStep ==
  ASSUME Parameters, TrackInv, NEW x \in Coordinates, NEW n \in 1..MaxSteps, Walk(x, n)
  PROVE  TrackInv' /\ OnTrack
<1>1. at \in Int /\ x \in Int /\ n \in Nat \ {0}
  BY DEF Parameters, TrackInv
<1>2. from' = at /\ to' = x /\ steps' = n /\ step' = 0 /\ at' = at
  BY DEF Walk
<1>3. (at' - from') * steps' - (to' - from') * step' = 0
  BY <1>1, <1>2
<1>4. OnTrack
  BY <1>1, <1>2, <1>3 DEF OnTrack, Between, Size
<1>5. TrackInv'
  BY <1>1, <1>2 DEF TrackInv
<1>6. QED
  BY <1>4, <1>5

LEMMA JumpStep ==
  ASSUME Parameters, TrackInv, NEW x \in Coordinates, Jump(x)
  PROVE  TrackInv' /\ OnTrack
<1>1. at \in Int /\ x \in Int
  BY DEF Parameters, TrackInv
<1>2. from' = at /\ to' = x /\ steps' = 1 /\ step' = 1 /\ at' = x
  BY DEF Jump
<1> DEFINE d == x - at
<1>3. Size(d) \in Nat /\ at + Toward(d, Size(d)) = x
  BY <1>1 DEF Size, Toward
<1>4. Size(d) \in Lengths(Size(d), 1, 1)
  BY <1>3, LengthsEnd
<1>5. TrackInv'
  BY <1>1, <1>2, <1>3, <1>4 DEF TrackInv
<1>6. (at' - from') * steps' - (to' - from') * step' = 0
  BY <1>1, <1>2
<1>7. OnTrack
  BY <1>1, <1>2, <1>6 DEF OnTrack, Between, Size
<1>8. QED
  BY <1>5, <1>7

(* A point stands at some length toward the target, no less than the one   *)
(* before and no more than the whole.                                      *)
LEMMA AdvanceStep ==
  ASSUME TrackInv, Advance
  PROVE  TrackInv' /\ OnTrack
<1> DEFINE d == to - from
           l == Size(d)
           s == step + 1
<1>1. /\ from \in Int /\ to \in Int /\ d \in Int /\ l \in Nat
      /\ steps \in Nat \ {0} /\ step \in 0..steps /\ step < steps /\ s \in 1..steps
  BY DEF TrackInv, Advance, Size
<1>2. from' = from /\ to' = to /\ steps' = steps /\ step' = s
  BY DEF Advance
<1>3. PICK r \in Lengths(l, s, steps) : at' = from + Toward(d, r)
  BY <1>2 DEF Advance, Offsets
<1>4. r \in Int /\ r * steps <= l * s /\ l * s <= r * steps + steps
  BY <1>1, LengthsClose
<1>5. r <= l /\ \E p \in Int : p <= r /\ at = from + Toward(d, p)
  <2>1. CASE step = 0
    <3>1. at = from + Toward(d, 0)
      BY <1>1, <2>1 DEF TrackInv, Toward
    <3>2. 0 <= r
      BY <1>1, <2>1, LengthsBegin
    <3>3. PICK q : q \in Lengths(l, 0, steps)
      BY DEF Lengths
    <3>4. r <= l
      BY <1>1, <2>1, <3>3, LengthsGrow
    <3>5. QED
      BY <3>1, <3>2, <3>4
  <2>2. CASE step > 0
    <3>1. PICK p \in Lengths(l, step, steps) : at = from + Toward(d, p)
      BY <2>2 DEF TrackInv
    <3>2. p \in Int
      BY <1>1, LengthsClose
    <3>3. p <= r /\ r <= l
      BY <1>1, LengthsGrow
    <3>4. QED
      BY <3>1, <3>2, <3>3
  <2>3. QED
    BY <1>1, <2>1, <2>2
<1>6. PICK p \in Int : p <= r /\ at = from + Toward(d, p)
  BY <1>5
<1>7. at' \in Int
  BY <1>1, <1>3, <1>4 DEF Toward
<1>8. TrackInv'
  BY <1>1, <1>2, <1>3, <1>7 DEF TrackInv
<1>9. Between(at, at', to')
  BY <1>1, <1>2, <1>3, <1>4, <1>5, <1>6 DEF Between, Toward, Size
<1>10. Size((at' - from') * steps' - (to' - from') * step') <= steps'
  <2>1. CASE d < 0
    <3>1. at' - from = -r /\ d = -l
      BY <1>1, <1>3, <1>4, <2>1 DEF Toward, Size
    <3>2. (-r) * steps = -(r * steps) /\ (-l) * s = -(l * s)
      BY <1>1, <1>4
    <3>3. QED
      BY <1>1, <1>2, <1>4, <3>1, <3>2 DEF Size
  <2>2. CASE d >= 0
    <3>1. at' - from = r /\ d = l
      BY <1>1, <1>3, <1>4, <2>2 DEF Toward, Size
    <3>2. QED
      BY <1>1, <1>2, <1>4, <3>1 DEF Size
  <2>3. QED
    BY <1>1, <2>1, <2>2
<1>11. ASSUME step' = steps' PROVE at' = to'
  <2>1. r = l
    BY <1>1, <1>2, <1>11, LengthsEnd
  <2>2. QED
    BY <1>1, <1>2, <1>3, <2>1 DEF Toward, Size
<1>12. QED
  BY <1>8, <1>9, <1>10, <1>11 DEF OnTrack

LEMMA TrackStep ==
  ASSUME Parameters, TrackInv, [GlideNext]_glideVars
  PROVE  TrackInv' /\ [OnTrack]_glideVars
<1>1. CASE \E x \in Coordinates, n \in 1..MaxSteps : Walk(x, n)
  BY <1>1, WalkStep
<1>2. CASE \E x \in Coordinates : Jump(x)
  BY <1>2, JumpStep
<1>3. CASE Advance
  BY <1>3, AdvanceStep
<1>4. CASE UNCHANGED glideVars
  BY <1>4 DEF glideVars, TrackInv
<1>5. QED
  BY <1>1, <1>2, <1>3, <1>4 DEF GlideNext

(* glide and glideArgs: wherever the pointer is and is sent, in however    *)
(* many steps, it never turns back or passes its target, stays within a    *)
(* pixel of the straight line, and the last point is the target itself,    *)
(* although the products are rounded and truncated on the way.             *)
THEOREM WalkOnTrack == ASSUME Parameters PROVE GlideSpec => GlideOnTrack
<1>1. GlideInit => TrackInv
  BY TrackInit
<1>2. TrackInv /\ [GlideNext]_glideVars => TrackInv' /\ [OnTrack]_glideVars
  BY TrackStep
<1>3. QED
  BY <1>1, <1>2, PTL DEF GlideSpec, GlideOnTrack
=============================================================================
