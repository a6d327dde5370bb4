----------------------------- MODULE TextProofs -----------------------------
(***************************************************************************)
(* Theorems about the algorithms that work on text: Typing, LogTail and    *)
(* FuzzyMatch, for texts, streams and names of any length.                 *)
(***************************************************************************)
EXTENDS Typing, LogTail, FuzzyMatch, FiniteSetTheorems, SequenceTheorems, TLAPS

-----------------------------------------------------------------------------
(* Places: what Rank and Nth say of a finite set of them.                  *)

LEMMA Least ==
  ASSUME NEW S \in SUBSET Nat, S # {}
  PROVE  \E m \in S : \A n \in S : m <= n
<1>1. \E m \in S : \A n \in S : <<n, m>> \notin OpToRel(<, Nat)
  BY NatLessThanWellFounded, WFMin, Zenon
<1>2. \E m \in S : \A n \in S : ~(n < m)
  BY <1>1, Zenon DEF OpToRel
<1>3. QED
  BY <1>2

LEMMA RankNat ==
  ASSUME NEW P \in SUBSET Nat, IsFiniteSet(P), NEW i \in Nat
  PROVE  /\ Rank(P, i) \in Nat
         /\ Rank(P, i) <= Cardinality(P)
         /\ IsFiniteSet({p \in P : p <= i})
<1> DEFINE Q == {p \in P : p <= i}
<1>1. Q \in SUBSET P
  OBVIOUS
<1>2. IsFiniteSet(Q) /\ Cardinality(Q) <= Cardinality(P)
  BY <1>1, FS_Subset
<1>3. Cardinality(Q) \in Nat
  BY <1>2, FS_CardinalityType
<1>4. QED
  BY <1>2, <1>3 DEF Rank

LEMMA RankStep ==
  ASSUME NEW P \in SUBSET Nat, IsFiniteSet(P), NEW i \in Nat
  PROVE  Rank(P, i + 1) = IF i + 1 \in P THEN Rank(P, i) + 1 ELSE Rank(P, i)
<1> DEFINE Q == {p \in P : p <= i}
           R == {p \in P : p <= i + 1}
<1>0. \A p \in P : p \in Nat
  OBVIOUS
<1>1. IsFiniteSet(Q)
  BY RankNat
<1>2. i + 1 \notin Q
  OBVIOUS
<1>3. CASE i + 1 \in P
  <2>0. \A p \in P : p <= i + 1 <=> p <= i \/ p = i + 1
    BY <1>0
  <2>1. R = Q \cup {i + 1}
    BY <1>3, <2>0, Zenon
  <2>2. Cardinality(Q \cup {i + 1}) = Cardinality(Q) + 1
    BY <1>1, <1>2, FS_AddElement
  <2>3. QED
    BY <1>3, <2>1, <2>2 DEF Rank
<1>4. CASE i + 1 \notin P
  <2>0. \A p \in P : p <= i + 1 <=> p <= i
    BY <1>0, <1>4
  <2>1. R = Q
    BY <2>0, Zenon
  <2>2. QED
    BY <1>4, <2>1 DEF Rank
<1>5. QED
  BY <1>3, <1>4

LEMMA RankOrder ==
  ASSUME NEW P \in SUBSET Nat, IsFiniteSet(P), NEW i \in Nat, NEW j \in Nat
  PROVE  /\ i <= j => Rank(P, i) <= Rank(P, j)
         /\ i < j /\ j \in P => Rank(P, i) < Rank(P, j)
<1> DEFINE Q == {p \in P : p <= i}
           R == {p \in P : p <= j}
<1>0. \A p \in P : p \in Nat
  OBVIOUS
<1>1. /\ IsFiniteSet(Q) /\ Cardinality(Q) \in Nat
      /\ IsFiniteSet(R) /\ Cardinality(R) \in Nat
  BY RankNat DEF Rank
<1>2. ASSUME i <= j PROVE Cardinality(Q) <= Cardinality(R)
  <2>0. \A p \in P : p <= i => p <= j
    BY <1>0, <1>2
  <2>1. Q \in SUBSET R
    BY <2>0, Zenon
  <2>2. QED
    BY <1>1, <2>1, FS_Subset
<1>3. ASSUME i < j, j \in P PROVE Cardinality(Q) < Cardinality(R)
  <2>0. ~(j <= i) /\ \A p \in P : (p <= i \/ p = j) => p <= j
    BY <1>0, <1>3
  <2>1. Q \cup {j} \in SUBSET R /\ j \notin Q
    BY <1>3, <2>0, Zenon
  <2>2. Cardinality(Q \cup {j}) = Cardinality(Q) + 1
    BY <1>1, <2>1, FS_AddElement
  <2>3. Cardinality(Q \cup {j}) <= Cardinality(R)
    BY <1>1, <2>1, FS_Subset
  <2>4. QED
    BY <1>1, <2>2, <2>3
<1>4. QED
  BY <1>2, <1>3 DEF Rank

LEMMA RankEnds ==
  ASSUME NEW n \in Nat, NEW P \in SUBSET (1..n)
  PROVE  /\ IsFiniteSet(P) /\ P \in SUBSET Nat /\ Cardinality(P) \in Nat
         /\ Rank(P, 0) = 0
         /\ Rank(P, n) = Cardinality(P)
<1>1. IsFiniteSet(1..n)
  BY FS_Interval
<1>2. IsFiniteSet(P) /\ Cardinality(P) \in Nat
  BY <1>1, FS_Subset, FS_CardinalityType
<1>0. \A p \in P : ~(p <= 0) /\ p <= n
  OBVIOUS
<1>3. {p \in P : p <= 0} = {} /\ {p \in P : p <= n} = P
  BY <1>0, Zenon
<1>4. QED
  BY <1>2, <1>3, FS_EmptySet DEF Rank

(* A place is found again by its rank. *)
LEMMA NthOfRank ==
  ASSUME NEW P \in SUBSET Nat, IsFiniteSet(P), NEW i \in P
  PROVE  Nth(P, Rank(P, i)) = i
<1>1. \A p, q \in P : Rank(P, p) = Rank(P, q) => p = q
  <2>1. SUFFICES ASSUME NEW p \in P, NEW q \in P, Rank(P, p) = Rank(P, q), p # q
                 PROVE  FALSE
    OBVIOUS
  <2>2. p < q \/ q < p
    BY <2>1
  <2>3. Rank(P, p) \in Nat /\ Rank(P, q) \in Nat
    BY RankNat
  <2>4. Rank(P, p) < Rank(P, q) \/ Rank(P, q) < Rank(P, p)
    BY <2>2, RankOrder
  <2>5. QED
    BY <2>1, <2>3, <2>4
<1> DEFINE k == Rank(P, i)
<1>2. \E p \in P : Rank(P, p) = k
  OBVIOUS
<1>3. Nth(P, k) \in P /\ Rank(P, Nth(P, k)) = k
  BY <1>2 DEF Nth
<1>4. QED
  BY <1>1, <1>3

(* Every rank is that of a place. *)
LEMMA NthExists ==
  ASSUME NEW P \in SUBSET Nat, IsFiniteSet(P), 0 \notin P,
         NEW m \in Nat, NEW k \in Nat \ {0}, k <= Rank(P, m)
  PROVE  /\ Nth(P, k) \in P
         /\ Rank(P, Nth(P, k)) = k
         /\ Nth(P, k) <= m
<1> DEFINE Reached == {i \in Nat : k <= Rank(P, i)}
<1>1. PICK i \in Reached : \A j \in Reached : i <= j
  <2>1. m \in Reached /\ Reached \in SUBSET Nat
    OBVIOUS
  <2>2. QED
    BY <2>1, Least
<1>2. i \in Nat /\ k <= Rank(P, i) /\ i <= m
  BY <1>1
<1>3. i # 0
  <2>0. \A p \in P : ~(p <= 0)
    OBVIOUS
  <2>1. {p \in P : p <= 0} = {}
    BY <2>0
  <2>2. Rank(P, 0) = 0
    BY <2>1, FS_EmptySet DEF Rank
  <2>3. QED
    BY <1>2, <2>2
<1>4. i - 1 \in Nat /\ i - 1 \notin Reached
  BY <1>1, <1>2, <1>3
<1>5. Rank(P, i - 1) \in Nat /\ Rank(P, i - 1) < k
  <2>1. Rank(P, i - 1) \in Nat
    BY <1>4, RankNat
  <2>2. ~(k <= Rank(P, i - 1))
    BY <1>4
  <2>3. QED
    BY <2>1, <2>2
<1>6. Rank(P, (i - 1) + 1) = IF (i - 1) + 1 \in P THEN Rank(P, i - 1) + 1 ELSE Rank(P, i - 1)
  BY <1>4, RankStep
<1>7. (i - 1) + 1 = i
  BY <1>2
<1>8. i \in P /\ Rank(P, i) = k
  BY <1>2, <1>5, <1>6, <1>7
<1>9. Nth(P, k) = i
  BY <1>8, NthOfRank
<1>10. QED
  BY <1>2, <1>8, <1>9

LEMMA MinIn ==
  ASSUME NEW S \in SUBSET Nat, S # {}
  PROVE  Min(S) \in S /\ \A y \in S : Min(S) <= y
<1>1. \E x \in S : \A y \in S : x =< y
  BY Least
<1>2. QED
  BY <1>1, Zenon DEF Min

LEMMA MaxIn ==
  ASSUME NEW u \in Int, NEW S \in SUBSET Int, S # {}, \A x \in S : x <= u
  PROVE  Max(S) \in S /\ \A y \in S : y <= Max(S)
<1> DEFINE Below == {i \in Nat : u - i \in S}
<1>1. Below \in SUBSET Nat /\ Below # {}
  <2>1. PICK x \in S : TRUE
    OBVIOUS
  <2>2. u - x \in Nat /\ u - (u - x) = x
    BY <2>1
  <2>3. u - x \in Below
    BY <2>1, <2>2
  <2>4. QED
    BY <2>3
<1>2. PICK i \in Below : \A j \in Below : i <= j
  BY <1>1, Least
<1>3. i \in Nat /\ u - i \in S
  BY <1>2
<1>4. \A y \in S : u - i >= y
  <2>1. SUFFICES ASSUME NEW y \in S PROVE u - i >= y
    OBVIOUS
  <2>2. u - y \in Nat /\ u - (u - y) = y
    OBVIOUS
  <2>3. i <= u - y
    BY <1>2, <2>2
  <2>4. QED
    BY <1>3, <2>2, <2>3
<1>5. \E x \in S : \A y \in S : x >= y
  BY <1>3, <1>4
<1>6. Max(S) \in S /\ \A y \in S : Max(S) >= y
  BY <1>5, Zenon DEF Max
<1>7. QED
  BY <1>6

(* The greater of two, as the code's max and min compute it. *)
LEMMA MaxOfTwo ==
  ASSUME NEW x \in Int, NEW y \in Int
  PROVE  /\ Max({x, y}) = IF x >= y THEN x ELSE y
         /\ Min({x, y}) = IF x <= y THEN x ELSE y
<1>1. \E m \in {x, y} : \A z \in {x, y} : m >= z
  OBVIOUS
<1>2. Max({x, y}) \in {x, y} /\ \A z \in {x, y} : Max({x, y}) >= z
  BY <1>1, Zenon DEF Max
<1>3. \E m \in {x, y} : \A z \in {x, y} : m =< z
  OBVIOUS
<1>4. Min({x, y}) \in {x, y} /\ \A z \in {x, y} : Min({x, y}) =< z
  BY <1>3, Zenon DEF Min
<1> HIDE DEF Max, Min
<1>5. QED
  BY <1>2, <1>4

-----------------------------------------------------------------------------
(* LogTail: lines by their ends. *)

LEMMA EndsOf ==
  ASSUME NEW s \in Seq(Tokens)
  PROVE  /\ Ends(s) \in SUBSET (1..Len(s))
         /\ Ends(s) \in SUBSET Nat /\ 0 \notin Ends(s)
         /\ IsFiniteSet(Ends(s))
         /\ LinesIn(s) \in Nat
         /\ LinesIn(s) = Rank(Ends(s), Len(s))
         /\ Rank(Ends(s), 0) = 0
<1>1. Ends(s) \in SUBSET (1..Len(s)) /\ Len(s) \in Nat
  BY DEF Ends
<1>2. QED
  BY <1>1, RankEnds DEF LinesIn

(* What is appended to a stream leaves the ends before it alone. *)
LEMMA EndsPrefix ==
  ASSUME NEW s \in Seq(Tokens), NEW t \in Seq(Tokens), NEW i \in 0..Len(s)
  PROVE  /\ Rank(Ends(s \o t), i) = Rank(Ends(s), i)
         /\ i \in Ends(s \o t) <=> i \in Ends(s)
<1>1. \A p \in 1..Len(s) : p \in Ends(s \o t) <=> p \in Ends(s)
  BY DEF Ends
<1>2. \A p \in Ends(s) : p \in 1..Len(s)
  BY EndsOf
<1>3. s \o t \in Seq(Tokens)
  OBVIOUS
<1>4. \A p \in Ends(s \o t) : p \in Nat \ {0}
  BY <1>3, EndsOf
<1>5. \A p \in Ends(s \o t) : p <= i => p \in Ends(s)
  BY <1>1, <1>4
<1>6. \A p \in Ends(s) : p \in Ends(s \o t)
  BY <1>1, <1>2
<1>7. {p \in Ends(s \o t) : p <= i} = {p \in Ends(s) : p <= i}
  BY <1>5, <1>6, Zenon
<1>8. i \in Ends(s \o t) <=> i \in Ends(s)
  BY <1>5, <1>6
<1>9. QED
  BY <1>7, <1>8 DEF Rank

LEMMA NthPrefix ==
  ASSUME NEW s \in Seq(Tokens), NEW t \in Seq(Tokens), NEW k \in 1..LinesIn(s)
  PROVE  /\ Nth(Ends(s \o t), k) = Nth(Ends(s), k)
         /\ Nth(Ends(s), k) \in 1..Len(s)
<1> DEFINE e == Nth(Ends(s), k)
<1>1. k <= Rank(Ends(s), Len(s)) /\ k \in Nat \ {0} /\ Len(s) \in Nat
  BY EndsOf
<1>2. e \in Ends(s) /\ Rank(Ends(s), e) = k
  BY <1>1, EndsOf, NthExists
<1>3. e \in 1..Len(s)
  BY <1>2, EndsOf
<1>4. e \in Ends(s \o t) /\ Rank(Ends(s \o t), e) = k
  BY <1>2, <1>3, EndsPrefix
<1>5. s \o t \in Seq(Tokens)
  OBVIOUS
<1>6. Nth(Ends(s \o t), Rank(Ends(s \o t), e)) = e
  BY <1>4, <1>5, EndsOf, NthOfRank
<1>7. QED
  BY <1>3, <1>4, <1>6

LEMMA LinePrefix ==
  ASSUME NEW s \in Seq(Tokens), NEW t \in Seq(Tokens), NEW k \in 1..LinesIn(s)
  PROVE  LineOf(s \o t, k) = LineOf(s, k)
<1> DEFINE begin(u) == IF k = 1 THEN 0 ELSE Nth(Ends(u), k - 1)
           end(u) == Nth(Ends(u), k)
<1>1. LinesIn(s) \in Nat
  BY EndsOf
<1>2. end(s \o t) = end(s) /\ end(s) \in 1..Len(s)
  BY NthPrefix
<1>3. begin(s \o t) = begin(s) /\ begin(s) \in 0..Len(s)
  <2>1. CASE k = 1
    BY <2>1
  <2>2. CASE k # 1
    <3>1. k - 1 \in 1..LinesIn(s)
      BY <1>1, <2>2
    <3>2. QED
      BY <2>2, <3>1, NthPrefix
  <2>3. QED
    BY <2>1, <2>2
<1> HIDE DEF begin, end
<1>4. \A b \in 0..Len(s), e \in 1..Len(s) :
        SubSeq(s \o t, b + 1, e - 1) = SubSeq(s, b + 1, e - 1)
  OBVIOUS
<1>5. SubSeq(s \o t, begin(s \o t) + 1, end(s \o t) - 1) = SubSeq(s, begin(s) + 1, end(s) - 1)
  BY <1>2, <1>3, <1>4
<1>6. QED
  BY <1>5 DEF LineOf, begin, end

(* A line is what lies between an end, or the beginning, and the next end. *)
LEMMA LineBetween ==
  ASSUME NEW s \in Seq(Tokens), NEW c \in Nat, c = 0 \/ c \in Ends(s),
         NEW e \in Ends(s), c < e, \A i \in Ends(s) : c < i => e <= i
  PROVE  /\ Rank(Ends(s), e) = Rank(Ends(s), c) + 1
         /\ LineOf(s, Rank(Ends(s), e)) = TrimRight(SubSeq(s, c + 1, e - 1))
<1> DEFINE Q == {p \in Ends(s) : p <= c}
           n == Rank(Ends(s), c)
<1>1. e \in Nat /\ \A p \in Ends(s) : p \in Nat
  BY EndsOf
<1>2. ~(e <= c) /\ \A p \in Ends(s) : p <= e <=> p <= c \/ p = e
  BY <1>1
<1>3. {p \in Ends(s) : p <= e} = Q \cup {e} /\ e \notin Q
  BY <1>2, Zenon
<1>4. IsFiniteSet(Q) /\ n \in Nat
  BY EndsOf, RankNat
<1>5. Rank(Ends(s), e) = n + 1
  BY <1>3, <1>4, FS_AddElement DEF Rank
<1>6. Nth(Ends(s), n + 1) = e
  BY <1>5, EndsOf, NthOfRank
<1>7. (IF n + 1 = 1 THEN 0 ELSE Nth(Ends(s), (n + 1) - 1)) = c
  <2>1. CASE c = 0
    BY <2>1, EndsOf
  <2>2. CASE c \in Ends(s)
    <3>1. Nth(Ends(s), n) = c
      BY <2>2, EndsOf, NthOfRank
    <3>2. 0 < c
      BY <2>2, EndsOf
    <3>3. Rank(Ends(s), 0) < n
      BY <2>2, <3>2, EndsOf, RankOrder
    <3>4. n # 0
      BY <1>4, <3>3, EndsOf
    <3>5. QED
      BY <1>4, <3>1, <3>4
  <2>3. QED
    BY <2>1, <2>2
<1>8. QED
  BY <1>5, <1>6, <1>7 DEF LineOf

-----------------------------------------------------------------------------
(* LogTail: the tail is made of the last lines cut, and the rest waits.    *)

\* Where the rest begins in the stream, and how many lines end before it.
Cut == Len(stream) - Len(partial)
LinesCut == Rank(Ends(stream), Cut)

LogInv ==
  /\ writing \in BOOLEAN
  /\ stream \in Seq(Tokens) /\ partial \in Seq(Tokens)
  /\ lines \in Seq(Seq(Tokens))
  /\ Cut \in Nat
  /\ \A i \in 1..Len(partial) : partial[i] = stream[Cut + i]
  /\ Cut = 0 \/ Cut \in Ends(stream)
  /\ Len(lines) <= LinesCut
  /\ Len(lines) >= Kept \/ Len(lines) = LinesCut
  /\ ~writing => Len(lines) <= Kept /\ Ends(partial) = {}
  /\ \A i \in 1..Len(lines) : lines[i] = LineOf(stream, LinesCut - Len(lines) + i)

LEMMA TrimRightType ==
  ASSUME NEW line \in Seq(Tokens)
  PROVE  TrimRight(line) \in Seq(Tokens)
<1> DEFINE solid == {i \in DOMAIN line : line[i] # "cr"}
<1>1. CASE solid = {}
  BY <1>1 DEF TrimRight
<1>2. CASE solid # {}
  <2>1. solid \in SUBSET Int /\ Len(line) \in Int /\ \A x \in solid : x <= Len(line)
    OBVIOUS
  <2>2. Max(solid) \in solid
    BY <1>2, <2>1, MaxIn
  <2>3. Max(solid) \in 1..Len(line)
    BY <2>2
  <2>4. TrimRight(line) = SubSeq(line, 1, Max(solid))
    BY <1>2 DEF TrimRight
  <2> HIDE DEF solid
  <2>5. QED
    BY <2>3, <2>4
<1>3. QED
  BY <1>1, <1>2

LEMMA LogInitInv == LogInit => LogInv
<1> SUFFICES ASSUME LogInit PROVE LogInv
  OBVIOUS
<1>1. /\ writing = FALSE /\ stream = <<>> /\ partial = <<>> /\ lines = <<>>
      /\ Cut = 0
  BY DEF LogInit, Cut
<1>2. Ends(<<>>) = {}
  BY DEF Ends
<1>3. LinesCut = 0
  <2>1. <<>> \in Seq(Tokens)
    OBVIOUS
  <2>2. Rank(Ends(<<>>), 0) = 0
    BY <2>1, EndsOf
  <2>3. QED
    BY <1>1, <2>2 DEF LinesCut
<1>4. /\ writing \in BOOLEAN /\ stream \in Seq(Tokens) /\ partial \in Seq(Tokens)
      /\ lines \in Seq(Seq(Tokens)) /\ Len(lines) = 0 /\ Len(partial) = 0
  BY <1>1, EmptySeq
<1>5. Ends(partial) = {} /\ 0 <= Kept
  BY <1>1, <1>2, KeptAssumption
<1>6. QED
  BY <1>1, <1>3, <1>4, <1>5 DEF LogInv

LEMMA WriteInv ==
  ASSUME LogInv, NEW piece \in Seq(Tokens), Write(piece)
  PROVE  LogInv'
<1>1. /\ writing' = TRUE /\ lines' = lines
      /\ stream' = stream \o piece /\ partial' = partial \o piece
      /\ writing = FALSE
  BY DEF Write, LogInv
<1>2. /\ stream \in Seq(Tokens) /\ partial \in Seq(Tokens)
      /\ Cut \in Nat /\ Cut = Len(stream) - Len(partial)
  BY DEF LogInv, Cut
<1>3. /\ stream' \in Seq(Tokens) /\ partial' \in Seq(Tokens)
      /\ Len(stream') = Len(stream) + Len(piece)
      /\ Len(partial') = Len(partial) + Len(piece)
  BY <1>1, <1>2
<1>4. Cut' = Cut
  BY <1>2, <1>3 DEF Cut
<1>5. Cut \in 0..Len(stream)
  BY <1>2
<1>6. LinesCut' = LinesCut
  BY <1>1, <1>2, <1>4, <1>5, EndsPrefix DEF LinesCut
<1>7. \A i \in 1..Len(partial') : partial'[i] = stream'[Cut' + i]
  <2>1. SUFFICES ASSUME NEW i \in 1..Len(partial') PROVE partial'[i] = stream'[Cut + i]
    BY <1>4
  <2>2. CASE i <= Len(partial)
    <3>1. partial'[i] = partial[i] /\ stream'[Cut + i] = stream[Cut + i]
      BY <1>1, <1>2, <1>5, <2>2
    <3>2. QED
      BY <2>2, <3>1, <1>3 DEF LogInv
  <2>3. CASE i > Len(partial)
    <3>1. i - Len(partial) \in 1..Len(piece) /\ Cut + i - Len(stream) = i - Len(partial)
      BY <1>2, <1>3, <2>3
    <3>2. partial'[i] = piece[i - Len(partial)]
      BY <1>1, <1>2, <2>3, <1>3
    <3>3. stream'[Cut + i] = piece[Cut + i - Len(stream)]
      BY <1>1, <1>2, <3>1, <1>3
    <3>4. QED
      BY <3>1, <3>2, <3>3
  <2>4. QED
    BY <1>3, <2>2, <2>3
<1>8. Cut' = 0 \/ Cut' \in Ends(stream')
  BY <1>1, <1>2, <1>4, <1>5, EndsPrefix DEF LogInv
<1>9. \A i \in 1..Len(lines') : lines'[i] = LineOf(stream', LinesCut' - Len(lines') + i)
  <2>1. SUFFICES ASSUME NEW i \in 1..Len(lines)
                 PROVE  lines[i] = LineOf(stream \o piece, LinesCut - Len(lines) + i)
    BY <1>1, <1>6
  <2>2. LinesCut \in Nat /\ LinesCut <= LinesIn(stream)
    BY <1>2, EndsOf, RankNat DEF LinesCut, LinesIn
  <2>3. LinesCut - Len(lines) + i \in 1..LinesIn(stream)
    <3>1. Len(lines) \in Nat /\ Len(lines) <= LinesCut
      BY DEF LogInv
    <3>2. LinesIn(stream) \in Nat
      BY <1>2, EndsOf
    <3>3. QED
      BY <2>2, <3>1, <3>2
  <2>4. LineOf(stream \o piece, LinesCut - Len(lines) + i) = LineOf(stream, LinesCut - Len(lines) + i)
    BY <1>2, <2>3, LinePrefix
  <2>5. QED
    BY <2>4 DEF LogInv
<1>10. QED
  BY <1>1, <1>2, <1>3, <1>4, <1>6, <1>7, <1>8, <1>9 DEF LogInv

LEMMA CutLineInv ==
  ASSUME LogInv, CutLine
  PROVE  LogInv'
<1> DEFINE i == Min(Ends(partial))
           e == Cut + i
<1>1. /\ stream \in Seq(Tokens) /\ partial \in Seq(Tokens) /\ lines \in Seq(Seq(Tokens))
      /\ Cut \in Nat /\ Cut = Len(stream) - Len(partial)
      /\ \A j \in 1..Len(partial) : partial[j] = stream[Cut + j]
  BY DEF LogInv, Cut
<1>2. /\ writing' = TRUE /\ writing /\ stream' = stream
      /\ lines' = Append(lines, TrimRight(SubSeq(partial, 1, i - 1)))
      /\ partial' = SubSeq(partial, i + 1, Len(partial))
  BY DEF CutLine, LogInv
<1>3. i \in Ends(partial) /\ \A y \in Ends(partial) : i <= y
  <2>1. Ends(partial) # {}
    BY DEF CutLine
  <2>2. QED
    BY <1>1, <2>1, EndsOf, MinIn
<1>4. i \in 1..Len(partial) /\ partial[i] = "nl"
  BY <1>3 DEF Ends
<1> HIDE DEF i
<1>5. e \in Ends(stream) /\ Cut < e /\ e \in 1..Len(stream)
  BY <1>1, <1>4 DEF Ends
<1>6. \A x \in Ends(stream) : Cut < x => e <= x
  <2>1. SUFFICES ASSUME NEW x \in Ends(stream), Cut < x PROVE i <= x - Cut
    BY <1>1, <1>4, EndsOf
  <2>2. x \in 1..Len(stream) /\ stream[x] = "nl"
    BY DEF Ends
  <2>3. x - Cut \in 1..Len(partial) /\ Cut + (x - Cut) = x
    BY <1>1, <2>1, <2>2
  <2>4. x - Cut \in Ends(partial)
    BY <1>1, <2>2, <2>3 DEF Ends
  <2>5. QED
    BY <1>3, <2>4
<1>7. /\ partial' \in Seq(Tokens) /\ Len(partial') = Len(partial) - i
      /\ \A j \in 1..Len(partial') : partial'[j] = partial[i + j]
  BY <1>1, <1>2, <1>4
<1>8. Cut' = e
  <2>1. Cut' = Len(stream') - Len(partial')
    BY DEF Cut
  <2>2. Len(stream) \in Nat /\ Len(partial) \in Nat
    BY <1>1
  <2>3. QED
    BY <1>1, <1>2, <1>4, <1>7, <2>1, <2>2
<1>9. /\ LinesCut' = LinesCut + 1 /\ LinesCut \in Nat
      /\ LineOf(stream, LinesCut + 1) = TrimRight(SubSeq(stream, Cut + 1, e - 1))
  <2>1. Cut = 0 \/ Cut \in Ends(stream)
    BY DEF LogInv
  <2>2. /\ Rank(Ends(stream), e) = Rank(Ends(stream), Cut) + 1
        /\ LineOf(stream, Rank(Ends(stream), e)) = TrimRight(SubSeq(stream, Cut + 1, e - 1))
    BY <1>1, <1>5, <1>6, <2>1, LineBetween
  <2>3. LinesCut \in Nat
    BY <1>1, EndsOf, RankNat DEF LinesCut
  <2>4. QED
    BY <1>2, <1>8, <2>2, <2>3 DEF LinesCut
<1>10. SubSeq(partial, 1, i - 1) = SubSeq(stream, Cut + 1, e - 1)
  <2>1. i - 1 \in 0..Len(partial) /\ e - 1 = Cut + (i - 1)
    BY <1>1, <1>4
  <2>2. /\ SubSeq(partial, 1, i - 1) \in Seq(Tokens)
        /\ Len(SubSeq(partial, 1, i - 1)) = i - 1
        /\ \A j \in 1..(i - 1) : SubSeq(partial, 1, i - 1)[j] = partial[j]
    BY <1>1, <1>4
  <2>3. /\ SubSeq(stream, Cut + 1, e - 1) \in Seq(Tokens)
        /\ Len(SubSeq(stream, Cut + 1, e - 1)) = i - 1
        /\ \A j \in 1..(i - 1) : SubSeq(stream, Cut + 1, e - 1)[j] = stream[Cut + j]
    BY <1>1, <1>4, <1>5
  <2>4. \A j \in 1..(i - 1) : partial[j] = stream[Cut + j]
    BY <1>1, <1>4
  <2> HIDE DEF e
  <2>5. QED
    BY <2>2, <2>3, <2>4, SeqEqual
<1>11. /\ lines' \in Seq(Seq(Tokens)) /\ Len(lines') = Len(lines) + 1
       /\ lines'[Len(lines) + 1] = LineOf(stream, LinesCut + 1)
       /\ \A j \in 1..Len(lines) : lines'[j] = lines[j]
  <2>1. SubSeq(partial, 1, i - 1) \in Seq(Tokens)
    BY <1>1, <1>4
  <2>2. TrimRight(SubSeq(partial, 1, i - 1)) \in Seq(Tokens)
    BY <2>1, TrimRightType
  <2>3. TrimRight(SubSeq(partial, 1, i - 1)) = LineOf(stream, LinesCut + 1)
    BY <1>9, <1>10
  <2>4. QED
    BY <1>1, <1>2, <2>2, <2>3
<1>12. \A j \in 1..Len(lines') : lines'[j] = LineOf(stream', LinesCut' - Len(lines') + j)
  <2>1. SUFFICES ASSUME NEW j \in 1..Len(lines')
                 PROVE  lines'[j] = LineOf(stream, LinesCut - Len(lines) + j)
    <3>1. LinesCut' - Len(lines') = LinesCut - Len(lines)
      BY <1>1, <1>9, <1>11
    <3>2. QED
      BY <1>2, <3>1
  <2>2. CASE j \in 1..Len(lines)
    BY <1>11, <2>2 DEF LogInv
  <2>3. CASE j = Len(lines) + 1
    <3>1. LinesCut - Len(lines) + j = LinesCut + 1
      BY <1>1, <1>9, <2>3
    <3>2. QED
      BY <1>11, <2>3, <3>1
  <2>4. QED
    BY <1>1, <1>11, <2>2, <2>3
<1>13. Len(lines') <= LinesCut' /\ (Len(lines') >= Kept \/ Len(lines') = LinesCut')
  BY <1>1, <1>9, <1>11, KeptAssumption DEF LogInv
<1>14. \A j \in 1..Len(partial') : partial'[j] = stream'[Cut' + j]
  <2>1. SUFFICES ASSUME NEW j \in 1..Len(partial') PROVE partial[i + j] = stream[e + j]
    BY <1>2, <1>7, <1>8
  <2>2. i + j \in 1..Len(partial) /\ Cut + (i + j) = e + j
    BY <1>1, <1>4, <1>7
  <2>3. QED
    BY <1>1, <2>2
<1> HIDE DEF e
<1>15. Cut' \in Nat /\ Cut' \in Ends(stream')
  BY <1>2, <1>5, <1>8
<1>16. QED
  BY <1>1, <1>2, <1>7, <1>11, <1>12, <1>13, <1>14, <1>15 DEF LogInv

LEMMA ReleaseInv ==
  ASSUME LogInv, Release
  PROVE  LogInv'
<1>1. /\ writing' = FALSE /\ stream' = stream /\ partial' = partial
      /\ Ends(partial) = {}
  BY DEF Release
<1>2. Cut' = Cut /\ LinesCut' = LinesCut
  BY <1>1 DEF Cut, LinesCut
<1>3. lines \in Seq(Seq(Tokens)) /\ LinesCut \in Nat
  BY EndsOf, RankNat DEF LogInv, LinesCut
<1>4. CASE Len(lines) <= Kept
  <2>1. lines' = lines
    BY <1>3, <1>4, KeptAssumption DEF Release
  <2>2. QED
    BY <1>1, <1>2, <1>4, <2>1 DEF LogInv
<1>5. CASE Len(lines) > Kept
  <2>1. lines' = SubSeq(lines, Len(lines) - Kept + 1, Len(lines))
    BY <1>5 DEF Release
  <2>2. /\ lines' \in Seq(Seq(Tokens)) /\ Len(lines') = Kept
        /\ \A j \in 1..Kept : lines'[j] = lines[Len(lines) - Kept + j]
    <3> DEFINE n == Len(lines)
               k == n - Kept
    <3>1. n \in Nat /\ k \in Nat /\ Kept \in Nat /\ k <= n
      BY <1>3, <1>5, KeptAssumption
    <3>2. lines' = SubSeq(lines, k + 1, n)
      BY <2>1
    <3>3. lines' \in Seq(Seq(Tokens))
      BY <1>3, <3>1, <3>2
    <3> HIDE DEF k
    <3>4. Len(SubSeq(lines, k + 1, n)) = n - k
      BY <1>3, <3>1
    <3>5. \A j \in 1..(n - k) : SubSeq(lines, k + 1, n)[j] = lines[k + j]
      BY <1>3, <3>1
    <3>6. n - k = Kept
      BY <3>1 DEF k
    <3>7. Len(lines') = Kept /\ \A j \in 1..Kept : lines'[j] = lines[k + j]
      BY <3>2, <3>4, <3>5, <3>6
    <3>8. QED
      BY <3>3, <3>7 DEF k
  <2>3. \A j \in 1..Len(lines') : lines'[j] = LineOf(stream', LinesCut' - Len(lines') + j)
    <3>1. SUFFICES ASSUME NEW j \in 1..Kept
                   PROVE  lines'[j] = LineOf(stream, LinesCut - Kept + j)
      BY <1>1, <1>2, <2>2
    <3>2. Len(lines) - Kept + j \in 1..Len(lines)
      BY <1>3, <1>5, KeptAssumption
    <3>3. lines[Len(lines) - Kept + j] = LineOf(stream, LinesCut - Len(lines) + (Len(lines) - Kept + j))
      BY <3>2 DEF LogInv
    <3>4. LinesCut - Len(lines) + (Len(lines) - Kept + j) = LinesCut - Kept + j
      BY <1>3, KeptAssumption
    <3>5. QED
      BY <2>2, <3>3, <3>4
  <2>4. Len(lines') <= LinesCut' /\ Len(lines') <= Kept /\ Len(lines') >= Kept
    <3>1. Len(lines) \in Nat /\ Len(lines) <= LinesCut
      BY DEF LogInv
    <3>2. QED
      BY <1>2, <1>3, <1>5, <2>2, <3>1, KeptAssumption
  <2>5. /\ writing' \in BOOLEAN /\ stream' \in Seq(Tokens) /\ partial' \in Seq(Tokens)
        /\ Cut' \in Nat /\ Ends(partial') = {}
        /\ \A i \in 1..Len(partial') : partial'[i] = stream'[Cut' + i]
        /\ Cut' = 0 \/ Cut' \in Ends(stream')
    BY <1>1, <1>2 DEF LogInv
  <2> HIDE DEF Cut, LinesCut
  <2>6. QED
    BY <2>2, <2>3, <2>4, <2>5 DEF LogInv
<1>6. QED
  BY <1>3, <1>4, <1>5, KeptAssumption

LEMMA LogInvStep ==
  ASSUME LogInv, [LogNext]_logVars
  PROVE  LogInv'
<1>1. CASE \E piece \in Pieces : Write(piece)
  <2>1. PICK piece \in Pieces : Write(piece)
    BY <1>1
  <2>2. piece \in Seq(Tokens)
    BY DEF Pieces
  <2>3. QED
    BY <2>1, <2>2, WriteInv
<1>2. CASE UNCHANGED logVars
  BY <1>2 DEF logVars, LogInv, Cut, LinesCut
<1>3. QED
  BY <1>1, <1>2, CutLineInv, ReleaseInv DEF LogNext

LEMMA LogInvTail == LogInv => TailKeepsNewest
<1> SUFFICES ASSUME LogInv, ~writing PROVE TailKeepsNewest
  BY DEF TailKeepsNewest
<1> DEFINE n == LinesIn(stream)
<1>1. /\ stream \in Seq(Tokens) /\ partial \in Seq(Tokens) /\ lines \in Seq(Seq(Tokens))
      /\ Cut \in Nat /\ Cut = Len(stream) - Len(partial)
      /\ \A i \in 1..Len(partial) : partial[i] = stream[Cut + i]
      /\ Cut = 0 \/ Cut \in Ends(stream)
      /\ Ends(partial) = {}
  BY DEF LogInv, Cut
<1>2. \A x \in Ends(stream) : x <= Cut
  <2>1. SUFFICES ASSUME NEW x \in Ends(stream), ~(x <= Cut) PROVE FALSE
    OBVIOUS
  <2>2. x \in 1..Len(stream) /\ stream[x] = "nl"
    BY DEF Ends
  <2>3. PICK d \in 1..Len(partial) : Cut + d = x
    <3>1. x - Cut \in 1..Len(partial) /\ Cut + (x - Cut) = x
      BY <1>1, <2>1, <2>2
    <3>2. QED
      BY <3>1
  <2>4. d \in DOMAIN partial /\ partial[d] = "nl"
    <3>1. partial[d] = stream[Cut + d]
      BY <1>1, <2>3
    <3>2. stream[Cut + d] = stream[x]
      BY <2>3
    <3>3. DOMAIN partial = 1..Len(partial)
      BY <1>1
    <3>4. QED
      BY <2>2, <2>3, <3>1, <3>2, <3>3, Zenon
  <2>5. d \in Ends(partial)
    BY <2>4 DEF Ends
  <2>6. QED
    BY <1>1, <2>5
<1>3. LinesCut = n
  <2>1. {x \in Ends(stream) : x <= Cut} = Ends(stream)
    BY <1>2, Zenon
  <2>2. QED
    BY <2>1 DEF LinesCut, Rank, LinesIn
<1>4. n \in Nat /\ Len(lines) \in Nat
  BY <1>1, EndsOf
<1>5. Len(lines) = Min({n, Kept})
  <2>1. /\ Len(lines) <= n /\ Len(lines) <= Kept
        /\ Len(lines) >= Kept \/ Len(lines) = n
    BY <1>3 DEF LogInv
  <2> HIDE DEF n
  <2>2. Min({n, Kept}) = IF n <= Kept THEN n ELSE Kept
    <3>1. n \in Int /\ Kept \in Int
      BY <1>4, KeptAssumption
    <3>2. QED
      BY <3>1, MaxOfTwo, Zenon
  <2>3. QED
    BY <1>4, <2>1, <2>2, KeptAssumption
<1>6. \A k \in DOMAIN lines : lines[k] = LineOf(stream, n - Len(lines) + k)
  <2>1. DOMAIN lines = 1..Len(lines)
    BY <1>1
  <2>2. QED
    BY <1>3, <2>1 DEF LogInv
<1>7. partial = Unended(stream)
  <2>1. (IF Ends(stream) = {} THEN 0 ELSE Nth(Ends(stream), n)) = Cut
    <3>1. CASE Cut = 0
      <4>1. \A x \in Ends(stream) : x \in Nat /\ x # 0
        BY <1>1, EndsOf
      <4>2. Ends(stream) = {}
        BY <1>2, <3>1, <4>1
      <4>3. QED
        BY <3>1, <4>2
    <3>2. CASE Cut \in Ends(stream)
      <4>1. Ends(stream) \in SUBSET Nat /\ IsFiniteSet(Ends(stream)) /\ Ends(stream) # {}
        BY <1>1, <3>2, EndsOf
      <4>2. Nth(Ends(stream), LinesCut) = Cut
        BY <3>2, <4>1, NthOfRank DEF LinesCut
      <4>3. QED
        BY <1>3, <4>1, <4>2
    <3>3. QED
      BY <1>1, <3>1, <3>2
  <2>2. /\ SubSeq(stream, Cut + 1, Len(stream)) \in Seq(Tokens)
        /\ Len(SubSeq(stream, Cut + 1, Len(stream))) = Len(partial)
        /\ \A j \in 1..Len(partial) : SubSeq(stream, Cut + 1, Len(stream))[j] = stream[Cut + j]
    BY <1>1
  <2>3. partial = SubSeq(stream, Cut + 1, Len(stream))
    BY <1>1, <2>2, SeqEqual
  <2>4. QED
    BY <2>1, <2>3 DEF Unended
<1>8. QED
  BY <1>5, <1>6, <1>7 DEF TailKeepsNewest

LEMMA LogInvCause == LogInv => CauseReported
<1> SUFFICES ASSUME LogInv, ~writing,
                    NEW k \in 1..LinesIn(stream), k > LinesIn(stream) - Kept,
                    Has(LineOf(stream, k), "error"),
                    Has(Message(LineOf(stream, k)), "code")
             PROVE  Has(lastError, "code")
  BY DEF CauseReported
<1> DEFINE n == LinesIn(stream)
           i == k - (n - Len(lines))
           coded == {j \in DOMAIN lines : /\ Has(lines[j], "error")
                                          /\ Has(Message(lines[j]), "code")}
<1>1. stream \in Seq(Tokens) /\ lines \in Seq(Seq(Tokens)) /\ n \in Nat
  BY EndsOf DEF LogInv
<1>2. /\ Len(lines) = Min({n, Kept})
      /\ \A j \in DOMAIN lines : lines[j] = LineOf(stream, n - Len(lines) + j)
  BY LogInvTail DEF TailKeepsNewest
<1>3. Min({n, Kept}) = IF n <= Kept THEN n ELSE Kept
  <2>1. n \in Int /\ Kept \in Int
    BY <1>1, KeptAssumption
  <2> HIDE DEF n
  <2>2. QED
    BY <2>1, MaxOfTwo, Zenon
<1>4. i \in DOMAIN lines /\ n - Len(lines) + i = k
  <2>1. k \in 1..n /\ k > n - Kept
    OBVIOUS
  <2>2. DOMAIN lines = 1..Len(lines) /\ Len(lines) = IF n <= Kept THEN n ELSE Kept
    BY <1>1, <1>2, <1>3
  <2> HIDE DEF n
  <2>3. QED
    BY <1>1, <2>1, <2>2, KeptAssumption
<1>5. lines[i] = LineOf(stream, k)
  BY <1>2, <1>4
<1> HIDE DEF i, n
<1>6. i \in coded
  BY <1>4, <1>5
<1>7. Max(coded) \in coded
  <2>1. Len(lines) \in Int /\ coded \in SUBSET Int /\ \A x \in coded : x <= Len(lines)
    BY <1>1
  <2>2. QED
    BY <1>6, <2>1, MaxIn
<1>8. Has(Message(lines[Max(coded)]), "code")
  BY <1>7
<1>9. lastError = Message(lines[Max(coded)])
  <2>1. {j \in {j \in DOMAIN lines : Has(lines[j], "error")} : Has(Message(lines[j]), "code")} = coded
    OBVIOUS
  <2> HIDE DEF coded
  <2>2. QED
    BY <1>6, <2>1 DEF lastError
<1>10. QED
  BY <1>8, <1>9

LEMMA LogInvHolds == LogSpec => []LogInv
<1>1. LogInv /\ [LogNext]_logVars => LogInv'
  BY LogInvStep
<1>2. QED
  BY <1>1, LogInitInv, PTL DEF LogSpec

(* However the client's stderr is cut into pieces, the tail holds its last *)
(* complete lines, at most rdpLogLines of them, and what has no end yet.   *)
THEOREM TailIsNewest == LogSpec => []TailKeepsNewest
BY LogInvHolds, LogInvTail, PTL

(* An error that names its code is what lastError reports as long as its   *)
(* line is among those kept, whatever came after it.                       *)
THEOREM CauseIsReported == LogSpec => []CauseReported
BY LogInvHolds, LogInvCause, PTL

-----------------------------------------------------------------------------
(* Typing: a text with its line breaks joined has the strokes of the text. *)

\* The places whose characters ReplaceAll leaves.
Left(t) == {i \in DOMAIN t : ~(t[i] = "cr" /\ i < Len(t) /\ t[i + 1] = "lf")}

\* Place i has the first half of a line break of two.
Halved(t, i) == i \in 1..(Len(t) - 1) /\ t[i] = "cr" /\ t[i + 1] = "lf"

LEMMA PlacesOfText ==
  ASSUME NEW t \in Seq(Characters)
  PROVE  /\ Left(t) \in SUBSET (1..Len(t)) /\ Heard(t) \in SUBSET (1..Len(t))
         /\ Left(t) \in SUBSET Nat /\ Heard(t) \in SUBSET Nat
         /\ IsFiniteSet(Left(t)) /\ IsFiniteSet(Heard(t))
         /\ 0 \notin Left(t) /\ 0 \notin Heard(t)
         /\ Cardinality(Left(t)) \in Nat /\ Cardinality(Left(t)) = Rank(Left(t), Len(t))
         /\ Cardinality(Heard(t)) \in Nat /\ Cardinality(Heard(t)) = Rank(Heard(t), Len(t))
         /\ Rank(Left(t), 0) = 0 /\ Rank(Heard(t), 0) = 0
<1>1. Left(t) \in SUBSET (1..Len(t)) /\ Heard(t) \in SUBSET (1..Len(t)) /\ Len(t) \in Nat
  BY DEF Left, Heard
<1>2. QED
  BY <1>1, RankEnds

(* Up to any place as many characters are left as are heard, but for the    *)
(* first half of a line break, which is heard and not left.                 *)
LEMMA LeftAndHeard ==
  ASSUME NEW t \in Seq(Characters), NEW i \in 0..Len(t)
  PROVE  Rank(Heard(t), i) = IF Halved(t, i) THEN Rank(Left(t), i) + 1 ELSE Rank(Left(t), i)
<1> DEFINE Same(j) == Rank(Heard(t), j) =
                        IF Halved(t, j) THEN Rank(Left(t), j) + 1 ELSE Rank(Left(t), j)
           Bad == {j \in 0..Len(t) : ~Same(j)}
<1>1. SUFFICES ASSUME Bad # {} PROVE FALSE
  OBVIOUS
<1>2. PICK b \in Bad : \A j \in Bad : b <= j
  <2>1. Bad \in SUBSET Nat
    OBVIOUS
  <2> HIDE DEF Bad
  <2>2. QED
    BY <1>1, <2>1, Least
<1>3. b \in 0..Len(t) /\ ~Same(b)
  BY <1>2
<1>4. b # 0
  <2>1. ~Halved(t, 0)
    BY DEF Halved
  <2>2. Same(0)
    BY <2>1, PlacesOfText
  <2> HIDE DEF Same
  <2>3. QED
    BY <1>3, <2>2
<1>5. PICK a \in Nat : b = a + 1
  <2>1. b - 1 \in Nat /\ b = (b - 1) + 1
    BY <1>3, <1>4
  <2>2. QED
    BY <2>1
<1>6. a \in 0..Len(t) /\ a + 1 \in 1..Len(t)
  BY <1>3, <1>5
<1>7. Same(a)
  <2>1. ~(b <= a)
    BY <1>5
  <2>2. QED
    BY <1>2, <1>6, <2>1, Zenon
<1>8. a + 1 \in Heard(t) <=> ~Halved(t, a)
  BY <1>6 DEF Heard, Halved
<1>9. a + 1 \in Left(t) <=> ~Halved(t, a + 1)
  BY <1>6 DEF Left, Halved
<1>10. /\ Rank(Heard(t), a + 1) = IF a + 1 \in Heard(t) THEN Rank(Heard(t), a) + 1 ELSE Rank(Heard(t), a)
       /\ Rank(Left(t), a + 1) = IF a + 1 \in Left(t) THEN Rank(Left(t), a) + 1 ELSE Rank(Left(t), a)
  BY PlacesOfText, RankStep
<1>11. Rank(Left(t), a) \in Nat
  BY PlacesOfText, RankNat
<1>12. Same(a + 1)
  BY <1>7, <1>8, <1>9, <1>10, <1>11
<1>13. QED
  BY <1>3, <1>5, <1>12

KeyNames == Letters \cup {"Return", "Tab"}

LEMMA StrokeType ==
  /\ \A c \in Characters : Stroke(c) \in KeyNames
  /\ \A c \in Letters : Stroke(c) = c
  /\ Stroke("cr") = "Return" /\ Stroke("lf") = "Return" /\ Stroke("tab") = "Tab"
BY LettersAssumption DEF Stroke, Characters, Breaks, KeyNames

(* Joining the line breaks loses no stroke and adds none.                  *)
LEMMA OneBreakStrokes ==
  ASSUME NEW t \in Seq(Characters)
  PROVE  /\ OneBreak(t) \in Seq(Characters) /\ Strokes(t) \in Seq(KeyNames)
         /\ Len(OneBreak(t)) = Len(Strokes(t))
         /\ \A k \in 1..Len(Strokes(t)) : Stroke(OneBreak(t)[k]) = Strokes(t)[k]
<1> DEFINE n == Cardinality(Heard(t))
<1>1. n \in Nat /\ n = Cardinality(Left(t))
  <2>1. Len(t) \in 0..Len(t) /\ ~Halved(t, Len(t))
    BY DEF Halved
  <2>2. QED
    BY <2>1, LeftAndHeard, PlacesOfText
<1>2. OneBreak(t) = [k \in 1..n |-> t[Nth(Left(t), k)]]
  BY <1>1 DEF OneBreak, Subsequence, Left
<1>3. Strokes(t) = [k \in 1..n |-> Stroke(t[Nth(Heard(t), k)])]
  BY DEF Strokes
<1>4. \A k \in 1..n : Nth(Left(t), k) \in 1..Len(t) /\ Nth(Heard(t), k) \in 1..Len(t)
  <2>1. SUFFICES ASSUME NEW k \in 1..n
                 PROVE  Nth(Left(t), k) \in 1..Len(t) /\ Nth(Heard(t), k) \in 1..Len(t)
    OBVIOUS
  <2>2. k \in Nat \ {0} /\ Len(t) \in Nat /\ k <= Rank(Left(t), Len(t)) /\ k <= Rank(Heard(t), Len(t))
    BY <1>1, PlacesOfText
  <2>3. Nth(Left(t), k) \in Left(t) /\ Nth(Heard(t), k) \in Heard(t)
    BY <2>2, PlacesOfText, NthExists
  <2>4. QED
    BY <2>3, PlacesOfText
<1>5. \A k \in 1..n : Stroke(t[Nth(Left(t), k)]) = Stroke(t[Nth(Heard(t), k)])
  <2>1. SUFFICES ASSUME NEW k \in 1..n
                 PROVE  Stroke(t[Nth(Left(t), k)]) = Stroke(t[Nth(Heard(t), k)])
    OBVIOUS
  <2> DEFINE e == Nth(Heard(t), k)
  <2>2. e \in Heard(t) /\ Rank(Heard(t), e) = k /\ e \in 1..Len(t)
    <3>1. k \in Nat \ {0} /\ Len(t) \in Nat /\ k <= Rank(Heard(t), Len(t))
      BY <1>1, PlacesOfText
    <3>2. QED
      BY <1>4, <3>1, PlacesOfText, NthExists
  <2> HIDE DEF e
  <2>3. CASE ~Halved(t, e)
    <3>1. e \in Left(t)
      BY <2>2, <2>3 DEF Left, Halved
    <3>2. Rank(Left(t), e) = k
      BY <2>2, <2>3, LeftAndHeard
    <3>3. Nth(Left(t), k) = e
      BY <3>1, <3>2, PlacesOfText, NthOfRank
    <3>4. QED
      BY <3>3 DEF e
  <2>4. CASE Halved(t, e)
    <3>1. e \in Nat /\ e + 1 \in 1..Len(t) /\ t[e] = "cr" /\ t[e + 1] = "lf"
      BY <2>2, <2>4 DEF Halved
    <3>2. e + 1 \in Left(t)
      BY <3>1 DEF Left
    <3>3. Rank(Left(t), e) \in Nat /\ k = Rank(Left(t), e) + 1
      <4>1. Rank(Left(t), e) \in Nat
        BY <3>1, PlacesOfText, RankNat
      <4>2. e \in 0..Len(t)
        BY <2>2
      <4>3. Rank(Heard(t), e) = Rank(Left(t), e) + 1
        BY <2>4, <4>2, LeftAndHeard
      <4>4. QED
        BY <2>2, <4>1, <4>3
    <3>4. Rank(Left(t), e + 1) = k
      BY <3>1, <3>2, <3>3, PlacesOfText, RankStep
    <3>5. Nth(Left(t), k) = e + 1
      BY <3>2, <3>4, PlacesOfText, NthOfRank
    <3>6. QED
      BY <3>1, <3>5, StrokeType DEF e
  <2>5. QED
    BY <2>3, <2>4
<1> HIDE DEF n
<1>6. OneBreak(t) \in Seq(Characters) /\ Len(OneBreak(t)) = n
  <2>1. \A k \in 1..n : t[Nth(Left(t), k)] \in Characters
    BY <1>4
  <2>2. QED
    BY <1>1, <1>2, <2>1
<1>7. Strokes(t) \in Seq(KeyNames) /\ Len(Strokes(t)) = n
  <2>1. \A k \in 1..n : Stroke(t[Nth(Heard(t), k)]) \in KeyNames
    BY <1>4, StrokeType
  <2>2. QED
    BY <1>1, <1>3, <2>1
<1>8. QED
  BY <1>2, <1>3, <1>5, <1>6, <1>7

-----------------------------------------------------------------------------
(* Typing: the steps of a plan lie end to end in the strokes of the text.  *)

Steps == [key : {"", "Return", "Tab"}, text : Seq(Letters)]

\* ends[i] is how many strokes of S the first i steps of p make up.
Laid(p, ends, S) ==
  /\ ends \in [0..Len(p) -> 0..Len(S)]
  /\ ends[0] = 0
  /\ \A i \in 1..Len(p) :
       /\ StrokesOf(p[i]) # <<>>
       /\ ends[i] = ends[i - 1] + Len(StrokesOf(p[i]))
       /\ \A m \in 1..Len(StrokesOf(p[i])) : StrokesOf(p[i])[m] = S[ends[i - 1] + m]

\* The run lies in S after the plan, and c strokes are in either.
Collected(p, r, c, S) ==
  \E ends : /\ Laid(p, ends, S)
            /\ ends[Len(p)] + Len(r) = c
            /\ \A m \in 1..Len(r) : r[m] = S[ends[Len(p)] + m]

\* What has been sent is the first steps of the plan.
Arrived ==
  \E ends : /\ Laid(plan, ends, Strokes(text))
            /\ ends[Len(plan)] = Len(Strokes(text))
            /\ sent <= Len(plan)
            /\ Len(typed) = ends[sent]

TypingInv ==
  /\ typist \in {"idle", "splitting", "sending", "succeeded", "failed"}
  /\ text \in Seq(Characters) /\ enter \in BOOLEAN
  /\ left \in Seq(Characters) /\ run \in Seq(Letters) /\ plan \in Seq(Steps)
  /\ sent \in Nat /\ typed \in Seq(KeyNames)
  /\ Len(left) <= Len(Strokes(text))
  /\ \A i \in 1..Len(left) :
       Stroke(left[i]) = Strokes(text)[Len(Strokes(text)) - Len(left) + i]
  /\ Collected(plan, run, Len(Strokes(text)) - Len(left), Strokes(text))
  /\ typist \in {"idle", "splitting"} => sent = 0 /\ typed = <<>>
  /\ typist = "idle" => run = <<>> /\ plan = <<>>
  /\ typist = "sending" => left = <<>> /\ run = <<>> /\ Arrived
  /\ typist # "succeeded" =>
       /\ Len(typed) <= Len(Strokes(text))
       /\ \A i \in 1..Len(typed) : typed[i] = Strokes(text)[i]
  /\ typist = "succeeded" =>
       \/ typed = Strokes(text)
       \/ enter /\ typed = Append(Strokes(text), "Return")

LEMMA StrokesOfType ==
  ASSUME NEW st \in Steps
  PROVE  StrokesOf(st) \in Seq(KeyNames)
<1>1. st.text \in Seq(Letters) /\ st.key \in {"", "Return", "Tab"}
  BY DEF Steps
<1>2. Seq(Letters) \subseteq Seq(KeyNames)
  BY DEF KeyNames
<1>3. CASE st.key = ""
  BY <1>1, <1>2, <1>3 DEF StrokesOf
<1>4. CASE st.key \in {"Return", "Tab"}
  <2>1. StrokesOf(st) = <<st.key>>
    BY <1>4 DEF StrokesOf
  <2>2. st.key \in KeyNames
    BY <1>4 DEF KeyNames
  <2>3. QED
    BY <2>1, <2>2
<1>5. QED
  BY <1>1, <1>3, <1>4

(* One more step is laid after the others. *)
LEMMA LaidAppend ==
  ASSUME NEW S \in Seq(KeyNames), NEW p \in Seq(Steps), NEW ends, Laid(p, ends, S),
         NEW st \in Steps, StrokesOf(st) # <<>>,
         ends[Len(p)] + Len(StrokesOf(st)) <= Len(S),
         \A m \in 1..Len(StrokesOf(st)) : StrokesOf(st)[m] = S[ends[Len(p)] + m]
  PROVE  \E more : /\ Laid(Append(p, st), more, S)
                   /\ more[Len(p) + 1] = ends[Len(p)] + Len(StrokesOf(st))
<1> DEFINE n == Len(p)
           l == Len(StrokesOf(st))
           q == Append(p, st)
           more == [i \in 0..(n + 1) |-> IF i = n + 1 THEN ends[n] + l ELSE ends[i]]
<1>1. n \in Nat /\ l \in Nat /\ Len(S) \in Nat
  BY StrokesOfType
<1>2. /\ q \in Seq(Steps) /\ Len(q) = n + 1 /\ q[n + 1] = st
      /\ \A i \in 1..n : q[i] = p[i]
  OBVIOUS
<1>3. ends \in [0..n -> 0..Len(S)] /\ ends[0] = 0
  BY DEF Laid
<1>4. ends[n] \in 0..Len(S) /\ ends[n] + l \in 0..Len(S)
  BY <1>1, <1>3
<1> HIDE DEF n, l, q
<1>5. more \in [0..Len(q) -> 0..Len(S)]
  BY <1>1, <1>2, <1>3, <1>4
<1>6. /\ more[n + 1] = ends[n] + l
      /\ \A i \in 0..n : more[i] = ends[i]
  BY <1>1
<1> HIDE DEF more
<1>7. ASSUME NEW i \in 1..Len(q)
      PROVE  /\ StrokesOf(q[i]) # <<>>
             /\ more[i] = more[i - 1] + Len(StrokesOf(q[i]))
             /\ \A m \in 1..Len(StrokesOf(q[i])) : StrokesOf(q[i])[m] = S[more[i - 1] + m]
  <2>1. CASE i \in 1..n
    <3>1. q[i] = p[i] /\ more[i] = ends[i] /\ more[i - 1] = ends[i - 1]
      BY <1>1, <1>2, <1>6, <2>1
    <3>2. QED
      BY <2>1, <3>1 DEF Laid, n
  <2>2. CASE i = n + 1
    <3>1. q[i] = st /\ more[i] = ends[n] + l /\ more[i - 1] = ends[n]
      BY <1>1, <1>2, <1>6, <2>2
    <3>2. QED
      BY <3>1 DEF l, n
  <2>3. QED
    BY <1>1, <1>2, <2>1, <2>2
<1>8. more[0] = 0
  BY <1>1, <1>3, <1>6
<1>9. Laid(q, more, S)
  BY <1>5, <1>7, <1>8 DEF Laid
<1>10. QED
  BY <1>6, <1>9 DEF n, l, q

(* The run becomes a step of its own, or there is none. *)
LEMMA FlushedLaid ==
  ASSUME TypingInv
  PROVE  /\ Flushed \in Seq(Steps)
         /\ \E ends : /\ Laid(Flushed, ends, Strokes(text))
                      /\ ends[Len(Flushed)] = Len(Strokes(text)) - Len(left)
<1> DEFINE S == Strokes(text)
<1>1. /\ S \in Seq(KeyNames) /\ plan \in Seq(Steps) /\ run \in Seq(Letters)
      /\ left \in Seq(Characters) /\ Len(left) <= Len(S)
  BY OneBreakStrokes DEF TypingInv
<1>2. PICK ends : /\ Laid(plan, ends, S)
                  /\ ends[Len(plan)] + Len(run) = Len(S) - Len(left)
                  /\ \A m \in 1..Len(run) : run[m] = S[ends[Len(plan)] + m]
  BY DEF TypingInv, Collected
<1> HIDE DEF S
<1>3. CASE run = <<>>
  <2>1. Flushed = plan
    BY <1>3 DEF Flushed
  <2>2. ends[Len(plan)] = Len(S) - Len(left)
    <3>1. ends[Len(plan)] \in Nat
      <4>1. ends \in [0..Len(plan) -> 0..Len(S)]
        BY <1>2 DEF Laid
      <4>2. Len(plan) \in 0..Len(plan)
        BY <1>1
      <4>3. QED
        BY <4>1, <4>2
    <3>2. QED
      BY <1>2, <1>3, <3>1
  <2>3. QED
    BY <1>1, <1>2, <2>1, <2>2 DEF S
<1>4. CASE run # <<>>
  <2>1. Flushed = Append(plan, RunStep(run))
    BY <1>4 DEF Flushed
  <2>2. RunStep(run) \in Steps /\ StrokesOf(RunStep(run)) = run
    BY <1>1 DEF RunStep, Steps, StrokesOf
  <2>3. ends[Len(plan)] + Len(run) <= Len(S)
    BY <1>1, <1>2
  <2>4. PICK more : /\ Laid(Append(plan, RunStep(run)), more, S)
                    /\ more[Len(plan) + 1] = ends[Len(plan)] + Len(run)
    BY <1>1, <1>2, <1>4, <2>2, <2>3, LaidAppend
  <2>5. Flushed \in Seq(Steps) /\ Len(Flushed) = Len(plan) + 1
    BY <1>1, <2>1, <2>2
  <2>6. QED
    BY <1>2, <2>1, <2>4, <2>5 DEF S
<1>5. QED
  BY <1>3, <1>4

LEMMA TypingInitInv == TypingInit => TypingInv
<1> SUFFICES ASSUME TypingInit PROVE TypingInv
  OBVIOUS
<1>1. /\ typist = "idle" /\ text = <<>> /\ enter = FALSE /\ left = <<>> /\ run = <<>>
      /\ plan = <<>> /\ sent = 0 /\ typed = <<>>
  BY DEF TypingInit
<1>2. Strokes(<<>>) \in Seq(KeyNames) /\ Len(Strokes(<<>>)) = 0
  <2>1. Heard(<<>>) = {}
    BY DEF Heard
  <2>2. <<>> \in Seq(Characters)
    OBVIOUS
  <2>3. Cardinality({}) = 0
    BY FS_EmptySet
  <2>4. Strokes(<<>>) = [k \in 1..0 |-> Stroke(<<>>[Nth(Heard(<<>>), k)])]
    BY <2>1, <2>3 DEF Strokes
  <2>5. Len(Strokes(<<>>)) = 0
    BY <2>4
  <2>6. QED
    BY <2>2, <2>5, OneBreakStrokes
<1>3. Collected(<<>>, <<>>, 0, Strokes(<<>>))
  <2> DEFINE none == [i \in 0..0 |-> 0]
             nothing == <<>>
  <2>1. Len(nothing) = 0
    OBVIOUS
  <2>2. none \in [0..0 -> 0..0] /\ none[0] = 0
    OBVIOUS
  <2> HIDE DEF none, nothing
  <2>3. Laid(nothing, none, Strokes(<<>>))
    BY <1>2, <2>1, <2>2 DEF Laid
  <2>4. Collected(nothing, nothing, 0, Strokes(<<>>))
    BY <2>1, <2>2, <2>3 DEF Collected
  <2>5. QED
    BY <2>4 DEF nothing
<1>4. /\ text \in Seq(Characters) /\ left \in Seq(Characters) /\ run \in Seq(Letters)
      /\ plan \in Seq(Steps) /\ typed \in Seq(KeyNames)
      /\ Len(left) = 0 /\ Len(typed) = 0
  BY <1>1, EmptySeq
<1> DEFINE S == Strokes(text)
<1>5. Len(S) = 0 /\ Collected(plan, run, Len(S) - Len(left), S)
  BY <1>1, <1>2, <1>3, <1>4
<1> HIDE DEF S
<1>6. 1..Len(left) = {} /\ 1..Len(typed) = {}
  BY <1>4
<1>7. Len(left) <= Len(S) /\ Len(typed) <= Len(S) /\ sent \in Nat /\ enter \in BOOLEAN
  <2>1. Len(left) <= Len(S) /\ Len(typed) <= Len(S)
    BY <1>4, <1>5
  <2>2. sent \in Nat
    BY <1>1
  <2>3. enter \in BOOLEAN
    BY <1>1
  <2>4. QED
    BY <2>1, <2>2, <2>3
<1>8. QED
  BY <1>1, <1>4, <1>5, <1>6, <1>7, Zenon DEF TypingInv, S

LEMMA AskInv ==
  ASSUME TypingInv, NEW t \in Seq(Characters), NEW e \in BOOLEAN, Ask(t, e)
  PROVE  TypingInv'
<1>1. /\ typist = "idle" /\ typist' = "splitting" /\ text' = t /\ enter' = e
      /\ left' = OneBreak(t) /\ run' = run /\ plan' = plan /\ sent' = sent /\ typed' = typed
  BY DEF Ask
<1>2. sent = 0 /\ typed = <<>> /\ run = <<>> /\ plan = <<>>
  BY <1>1 DEF TypingInv
<1> DEFINE S == Strokes(t)
<1>3. /\ OneBreak(t) \in Seq(Characters) /\ S \in Seq(KeyNames)
      /\ Len(OneBreak(t)) = Len(S)
      /\ \A k \in 1..Len(S) : Stroke(OneBreak(t)[k]) = S[k]
  BY OneBreakStrokes
<1>4. Collected(<<>>, <<>>, 0, S)
  <2> DEFINE none == [i \in 0..0 |-> 0]
             nothing == <<>>
  <2>1. Len(nothing) = 0
    OBVIOUS
  <2>2. none \in [0..0 -> 0..Len(S)] /\ none[0] = 0
    BY <1>3
  <2> HIDE DEF none, nothing
  <2>3. Laid(nothing, none, S)
    BY <2>1, <2>2 DEF Laid
  <2>4. Collected(nothing, nothing, 0, S)
    BY <2>1, <2>2, <2>3 DEF Collected
  <2>5. QED
    BY <2>4 DEF nothing
<1>5. S = Strokes(text')
  BY <1>1
<1> HIDE DEF S
<1>6. /\ Len(left') <= Len(S)
      /\ \A i \in 1..Len(left') : Stroke(left'[i]) = S[Len(S) - Len(left') + i]
      /\ Collected(plan', run', Len(S) - Len(left'), S)
  <2>1. Len(S) - Len(left') = 0
    BY <1>1, <1>3
  <2>2. QED
    BY <1>1, <1>2, <1>3, <1>4, <2>1
<1>7. /\ Len(typed') <= Len(S)
      /\ \A i \in 1..Len(typed') : typed'[i] = S[i]
  BY <1>1, <1>2, <1>3
<1>8. /\ run' \in Seq(Letters) /\ plan' \in Seq(Steps) /\ sent' \in Nat /\ typed' \in Seq(KeyNames)
  BY <1>1 DEF TypingInv
<1>9. QED
  BY <1>1, <1>2, <1>3, <1>5, <1>6, <1>7, <1>8 DEF TypingInv

LEMMA PressInv ==
  ASSUME TypingInv, typist = "splitting", left # <<>>,
         NEW k \in {"Return", "Tab"}, Stroke(Head(left)) = k, Press(k)
  PROVE  TypingInv'
<1> DEFINE S == Strokes(text)
<1>1. /\ typist' = typist /\ text' = text /\ enter' = enter /\ sent' = sent /\ typed' = typed
      /\ plan' = Append(Flushed, KeyStep(k)) /\ run' = <<>> /\ left' = Tail(left)
  BY DEF Press
<1>2. /\ S \in Seq(KeyNames) /\ left \in Seq(Characters) /\ Len(left) <= Len(S)
      /\ \A i \in 1..Len(left) : Stroke(left[i]) = S[Len(S) - Len(left) + i]
      /\ sent = 0 /\ typed = <<>>
  BY OneBreakStrokes DEF TypingInv
<1>3. PICK ends : /\ Laid(Flushed, ends, S)
                  /\ ends[Len(Flushed)] = Len(S) - Len(left)
  BY FlushedLaid
<1>4. Flushed \in Seq(Steps)
  BY FlushedLaid
<1>5. S = Strokes(text')
  BY <1>1
<1> HIDE DEF S
<1>6. /\ Len(left) \in Nat \ {0} /\ left' \in Seq(Characters) /\ Len(left') = Len(left) - 1
      /\ \A i \in 1..Len(left') : left'[i] = left[i + 1]
      /\ Head(left) = left[1]
  BY <1>1, <1>2
<1>7. \A i \in 1..Len(left') : Stroke(left'[i]) = S[Len(S) - Len(left') + i]
  <2>1. SUFFICES ASSUME NEW i \in 1..Len(left')
                 PROVE  Stroke(left'[i]) = S[Len(S) - Len(left') + i]
    OBVIOUS
  <2>2. i + 1 \in 1..Len(left) /\ left'[i] = left[i + 1]
    BY <1>6
  <2>3. Stroke(left[i + 1]) = S[Len(S) - Len(left) + (i + 1)]
    BY <1>2, <2>2
  <2>4. Len(S) - Len(left) + (i + 1) = Len(S) - Len(left') + i
    BY <1>2, <1>6
  <2>5. QED
    BY <2>2, <2>3, <2>4
<1>8. KeyStep(k) \in Steps /\ StrokesOf(KeyStep(k)) = <<k>>
  <2>1. CASE k = "Return"
    BY <2>1, EmptySeq DEF KeyStep, Steps, StrokesOf
  <2>2. CASE k = "Tab"
    BY <2>2, EmptySeq DEF KeyStep, Steps, StrokesOf
  <2>3. QED
    BY <2>1, <2>2
<1>9. \E more : /\ Laid(plan', more, S)
                /\ more[Len(Flushed) + 1] = Len(S) - Len(left) + 1
  <2>1. Len(<<k>>) = 1 /\ <<k>> # <<>>
    OBVIOUS
  <2>2. Stroke(left[1]) = S[Len(S) - Len(left) + 1]
    BY <1>2, <1>6
  <2>3. \A m \in 1..Len(StrokesOf(KeyStep(k))) :
           StrokesOf(KeyStep(k))[m] = S[ends[Len(Flushed)] + m]
    <3>1. SUFFICES ASSUME NEW m \in 1..Len(<<k>>) PROVE <<k>>[m] = S[ends[Len(Flushed)] + m]
      BY <1>8
    <3>2. m = 1 /\ <<k>>[m] = k
      OBVIOUS
    <3>3. QED
      BY <1>3, <1>6, <2>2, <3>2
  <2>4. ends[Len(Flushed)] + Len(StrokesOf(KeyStep(k))) <= Len(S)
    BY <1>2, <1>3, <1>6, <1>8, <2>1
  <2>5. StrokesOf(KeyStep(k)) # <<>>
    BY <1>8, <2>1
  <2>6. \E more : /\ Laid(Append(Flushed, KeyStep(k)), more, S)
                  /\ more[Len(Flushed) + 1] =
                       ends[Len(Flushed)] + Len(StrokesOf(KeyStep(k)))
    <3>1. KeyStep(k) \in Steps /\ S \in Seq(KeyNames) /\ Laid(Flushed, ends, S)
      BY <1>2, <1>3, <1>8
    <3>2. QED
      BY <1>4, <2>3, <2>4, <2>5, <3>1, LaidAppend, Zenon
  <2>7. ends[Len(Flushed)] + Len(StrokesOf(KeyStep(k))) = Len(S) - Len(left) + 1
    BY <1>2, <1>3, <1>8, <2>1
  <2>8. QED
    BY <1>1, <2>6, <2>7
<1>10. plan' \in Seq(Steps) /\ Len(plan') = Len(Flushed) + 1
  BY <1>1, <1>4, <1>8
<1>11. Collected(plan', run', Len(S) - Len(left'), S)
  <2>1. PICK more : /\ Laid(plan', more, S)
                    /\ more[Len(Flushed) + 1] = Len(S) - Len(left) + 1
    BY <1>9
  <2>2. Len(run') = 0 /\ more[Len(plan')] + 0 = Len(S) - Len(left')
    BY <1>1, <1>2, <1>6, <1>10, <2>1
  <2>3. QED
    BY <2>1, <2>2 DEF Collected
<1>12. run' \in Seq(Letters)
  BY <1>1
<1>13. Len(left') <= Len(S) /\ Len(typed') = 0 /\ 0 <= Len(S)
  BY <1>1, <1>2, <1>6
<1>14. QED
  BY <1>1, <1>2, <1>5, <1>6, <1>7, <1>10, <1>11, <1>12, <1>13 DEF TypingInv

LEMMA CollectInv ==
  ASSUME TypingInv, Collect
  PROVE  TypingInv'
<1> DEFINE S == Strokes(text)
           c == Head(left)
<1>1. /\ typist = "splitting" /\ left # <<>> /\ c \in Letters
      /\ typist' = typist /\ text' = text /\ enter' = enter /\ sent' = sent /\ typed' = typed
      /\ plan' = plan /\ run' = Append(run, c) /\ left' = Tail(left)
  BY DEF Collect
<1>2. /\ S \in Seq(KeyNames) /\ left \in Seq(Characters) /\ Len(left) <= Len(S)
      /\ run \in Seq(Letters) /\ plan \in Seq(Steps)
      /\ \A i \in 1..Len(left) : Stroke(left[i]) = S[Len(S) - Len(left) + i]
      /\ sent = 0 /\ typed = <<>>
  BY <1>1, OneBreakStrokes DEF TypingInv
<1>3. PICK ends : /\ Laid(plan, ends, S)
                  /\ ends[Len(plan)] + Len(run) = Len(S) - Len(left)
                  /\ \A m \in 1..Len(run) : run[m] = S[ends[Len(plan)] + m]
  BY DEF TypingInv, Collected
<1>4. S = Strokes(text')
  BY <1>1
<1> HIDE DEF S
<1>5. /\ Len(left) \in Nat \ {0} /\ left' \in Seq(Characters) /\ Len(left') = Len(left) - 1
      /\ \A i \in 1..Len(left') : left'[i] = left[i + 1]
      /\ c = left[1]
  BY <1>1, <1>2
<1> HIDE DEF c
<1>6. \A i \in 1..Len(left') : Stroke(left'[i]) = S[Len(S) - Len(left') + i]
  <2>1. SUFFICES ASSUME NEW i \in 1..Len(left')
                 PROVE  Stroke(left'[i]) = S[Len(S) - Len(left') + i]
    OBVIOUS
  <2>2. i + 1 \in 1..Len(left) /\ left'[i] = left[i + 1]
    BY <1>5
  <2>3. Stroke(left[i + 1]) = S[Len(S) - Len(left) + (i + 1)]
    BY <1>2, <2>2
  <2>4. Len(S) - Len(left) + (i + 1) = Len(S) - Len(left') + i
    BY <1>2, <1>5
  <2>5. QED
    BY <2>2, <2>3, <2>4
<1>7. /\ run' \in Seq(Letters) /\ Len(run') = Len(run) + 1 /\ run'[Len(run) + 1] = c
      /\ \A m \in 1..Len(run) : run'[m] = run[m]
  BY <1>1, <1>2
<1>8. ends[Len(plan)] \in Nat
  <2>1. ends \in [0..Len(plan) -> 0..Len(S)] /\ Len(plan) \in 0..Len(plan)
    BY <1>2, <1>3 DEF Laid
  <2>2. QED
    BY <2>1
<1>9. Collected(plan', run', Len(S) - Len(left'), S)
  <2>1. ends[Len(plan)] + Len(run') = Len(S) - Len(left')
    BY <1>2, <1>3, <1>5, <1>7, <1>8
  <2>2. \A m \in 1..Len(run') : run'[m] = S[ends[Len(plan)] + m]
    <3>1. SUFFICES ASSUME NEW m \in 1..Len(run') PROVE run'[m] = S[ends[Len(plan)] + m]
      OBVIOUS
    <3>2. CASE m \in 1..Len(run)
      BY <1>3, <1>7, <3>2
    <3>3. CASE m = Len(run) + 1
      <4>1. ends[Len(plan)] + m = Len(S) - Len(left) + 1
        BY <1>2, <1>3, <1>8, <3>3
      <4>2. S[Len(S) - Len(left) + 1] = Stroke(c)
        BY <1>2, <1>5
      <4>3. Stroke(c) = c
        BY <1>1, StrokeType
      <4>4. QED
        BY <1>7, <3>3, <4>1, <4>2, <4>3
    <3>4. QED
      BY <1>2, <1>7, <3>2, <3>3
  <2>3. QED
    BY <1>1, <1>3, <2>1, <2>2 DEF Collected
<1>10. Len(left') <= Len(S) /\ Len(typed') = 0 /\ 0 <= Len(S)
  BY <1>1, <1>2, <1>5
<1>11. text' \in Seq(Characters) /\ enter' \in BOOLEAN
  BY <1>1 DEF TypingInv
<1>12. QED
  BY <1>1, <1>2, <1>4, <1>5, <1>6, <1>7, <1>9, <1>10, <1>11 DEF TypingInv

LEMMA FlushInv ==
  ASSUME TypingInv, Flush
  PROVE  TypingInv'
<1> DEFINE S == Strokes(text)
<1>1. /\ typist = "splitting" /\ left = <<>>
      /\ typist' = "sending" /\ text' = text /\ enter' = enter /\ sent' = sent /\ typed' = typed
      /\ plan' = Flushed /\ run' = <<>> /\ left' = left
  BY DEF Flush
<1>2. /\ S \in Seq(KeyNames) /\ text \in Seq(Characters) /\ enter \in BOOLEAN
      /\ sent = 0 /\ typed = <<>>
  BY <1>1, OneBreakStrokes DEF TypingInv
<1>3. PICK ends : Laid(Flushed, ends, S) /\ ends[Len(Flushed)] = Len(S) - Len(left)
  BY FlushedLaid
<1>4. Flushed \in Seq(Steps)
  BY FlushedLaid
<1>5. Len(<<>>) = 0
  OBVIOUS
<1>6. S = Strokes(text')
  BY <1>1
<1>7. ends[0] = 0
  BY <1>3 DEF Laid
<1> HIDE DEF S
<1>8. /\ plan' \in Seq(Steps) /\ run' \in Seq(Letters) /\ left' \in Seq(Characters)
      /\ typed' \in Seq(KeyNames)
  BY <1>1, <1>2, <1>4, EmptySeq
<1>9. Len(S) - Len(left') = ends[Len(plan')] /\ ends[Len(plan')] = Len(S)
  BY <1>1, <1>2, <1>3, <1>5
<1>10. Collected(plan', run', Len(S) - Len(left'), S)
  <2>1. ends[Len(plan')] + Len(run') = ends[Len(plan')]
    BY <1>1, <1>2, <1>5, <1>9
  <2>2. \A m \in 1..Len(run') : run'[m] = S[ends[Len(plan')] + m]
    BY <1>1, <1>5
  <2>3. Laid(plan', ends, S)
    BY <1>1, <1>3
  <2>4. QED
    BY <1>9, <2>1, <2>2, <2>3 DEF Collected
<1>11. Arrived'
  <2>1. sent' <= Len(plan') /\ Len(typed') = ends[sent']
    BY <1>1, <1>2, <1>4, <1>5, <1>7
  <2>2. Laid(plan', ends, S)
    BY <1>1, <1>3
  <2>3. QED
    BY <1>6, <1>9, <2>1, <2>2 DEF Arrived
<1>12. Len(left') = 0 /\ Len(typed') = 0 /\ 0 <= Len(S)
  BY <1>1, <1>2, <1>5
<1>13. 1..Len(left') = {} /\ 1..Len(typed') = {}
  BY <1>12
<1>14. Len(left') <= Len(S) /\ Len(typed') <= Len(S)
  BY <1>12
<1>15. sent' \in Nat
  BY <1>1, <1>2
<1>16. QED
  BY <1>1, <1>2, <1>6, <1>8, <1>10, <1>11, <1>13, <1>14, <1>15, Zenon DEF TypingInv

(* What a whole xdotool call types, or the first part of one, continues    *)
(* what the session has got.                                               *)
LEMMA SentPart ==
  ASSUME TypingInv, typist = "sending", sent < Len(plan),
         NEW m \in 0..Len(StrokesOf(plan[sent + 1])),
         NEW more, more = typed \o SubSeq(StrokesOf(plan[sent + 1]), 1, m)
  PROVE  /\ more \in Seq(KeyNames) /\ Len(more) = Len(typed) + m
         /\ Len(more) <= Len(Strokes(text))
         /\ \A i \in 1..Len(more) : more[i] = Strokes(text)[i]
<1> DEFINE S == Strokes(text)
           st == StrokesOf(plan[sent + 1])
<1>1. /\ S \in Seq(KeyNames) /\ plan \in Seq(Steps) /\ sent \in Nat /\ typed \in Seq(KeyNames)
      /\ \A i \in 1..Len(typed) : typed[i] = S[i]
  BY OneBreakStrokes DEF TypingInv
<1>2. PICK ends : /\ Laid(plan, ends, S) /\ Len(typed) = ends[sent]
  BY DEF TypingInv, Arrived
<1>3. sent + 1 \in 1..Len(plan) /\ sent + 1 \in 0..Len(plan) /\ (sent + 1) - 1 = sent
  BY <1>1
<1>4. st \in Seq(KeyNames)
  BY <1>1, <1>3, StrokesOfType
<1>5. /\ ends[sent + 1] = ends[sent] + Len(st)
      /\ \A j \in 1..Len(st) : st[j] = S[ends[sent] + j]
      /\ ends[sent + 1] \in 0..Len(S)
  BY <1>2, <1>3 DEF Laid
<1> HIDE DEF S, st
<1>6. more = typed \o SubSeq(st, 1, m) /\ m \in 0..Len(st)
  BY DEF st
<1>7. /\ SubSeq(st, 1, m) \in Seq(KeyNames) /\ Len(SubSeq(st, 1, m)) = m
      /\ \A j \in 1..m : SubSeq(st, 1, m)[j] = st[j]
  BY <1>4, <1>6
<1>8. /\ more \in Seq(KeyNames) /\ Len(more) = Len(typed) + m
      /\ \A i \in 1..Len(typed) + m :
           more[i] = IF i <= Len(typed) THEN typed[i] ELSE SubSeq(st, 1, m)[i - Len(typed)]
  <2> DEFINE piece == SubSeq(st, 1, m)
  <2>1. piece \in Seq(KeyNames) /\ Len(piece) = m /\ more = typed \o piece /\ typed \in Seq(KeyNames)
    BY <1>1, <1>6, <1>7
  <2> HIDE DEF piece
  <2>2. /\ more \in Seq(KeyNames) /\ Len(more) = Len(typed) + Len(piece)
        /\ \A i \in 1..Len(typed) + Len(piece) :
             more[i] = IF i <= Len(typed) THEN typed[i] ELSE piece[i - Len(typed)]
    BY <2>1, ConcatProperties
  <2>3. QED
    BY <2>1, <2>2 DEF piece
<1>9. Len(more) <= Len(S)
  BY <1>1, <1>2, <1>4, <1>5, <1>6, <1>8
<1>10. \A i \in 1..Len(more) : more[i] = S[i]
  <2>1. SUFFICES ASSUME NEW i \in 1..Len(more) PROVE more[i] = S[i]
    OBVIOUS
  <2>2. CASE i <= Len(typed)
    BY <1>1, <1>8, <2>2
  <2>3. CASE ~(i <= Len(typed))
    <3>1. PICK j \in 1..m : i = Len(typed) + j /\ i - Len(typed) = j
      <4>1. i - Len(typed) \in 1..m /\ i = Len(typed) + (i - Len(typed))
        BY <1>1, <1>6, <1>8, <2>3
      <4>2. QED
        BY <4>1
    <3>2. more[i] = SubSeq(st, 1, m)[j]
      BY <1>8, <2>3, <3>1
    <3>3. SubSeq(st, 1, m)[j] = st[j] /\ j \in 1..Len(st)
      BY <1>4, <1>6, <1>7
    <3>4. st[j] = S[ends[sent] + j]
      BY <1>5, <3>3
    <3>5. QED
      BY <1>2, <3>1, <3>2, <3>3, <3>4
  <2>4. QED
    BY <2>2, <2>3
<1>11. QED
  BY <1>8, <1>9, <1>10 DEF S

LEMMA SendInv ==
  ASSUME TypingInv, Send
  PROVE  TypingInv'
<1> DEFINE st == StrokesOf(plan[sent + 1])
<1>1. /\ typist = "sending" /\ sent < Len(plan)
      /\ typist' = typist /\ text' = text /\ enter' = enter /\ left' = left
      /\ run' = run /\ plan' = plan /\ sent' = sent + 1
      /\ typed' = typed \o st
  BY DEF Send
<1>2. plan \in Seq(Steps) /\ sent \in Nat /\ sent + 1 \in 1..Len(plan)
  BY <1>1 DEF TypingInv
<1>3. st \in Seq(KeyNames)
  BY <1>2, StrokesOfType
<1>4. SubSeq(st, 1, Len(st)) = st /\ Len(st) \in 0..Len(st)
  BY <1>3
<1>5. /\ typed' \in Seq(KeyNames) /\ Len(typed') = Len(typed) + Len(st)
      /\ Len(typed') <= Len(Strokes(text))
      /\ \A i \in 1..Len(typed') : typed'[i] = Strokes(text)[i]
  BY <1>1, <1>4, SentPart
<1>6. Arrived'
  <2>1. PICK ends : /\ Laid(plan, ends, Strokes(text))
                    /\ ends[Len(plan)] = Len(Strokes(text))
                    /\ Len(typed) = ends[sent]
    BY <1>1 DEF TypingInv, Arrived
  <2>2. ends[sent + 1] = ends[sent] + Len(st)
    <3>1. (sent + 1) - 1 = sent
      BY <1>2
    <3>2. QED
      BY <1>2, <2>1, <3>1 DEF Laid
  <2>3. sent' <= Len(plan') /\ Len(typed') = ends[sent']
    BY <1>1, <1>2, <1>5, <2>1, <2>2
  <2>4. QED
    BY <1>1, <2>1, <2>3 DEF Arrived
<1>7. sent' \in Nat
  BY <1>1, <1>2
<1> HIDE DEF st
<1>8. QED
  BY <1>1, <1>5, <1>6, <1>7, Zenon DEF TypingInv

LEMMA SendFailsInv ==
  ASSUME TypingInv, SendFails
  PROVE  TypingInv'
<1>1. /\ typist = "sending" /\ sent < Len(plan)
      /\ typist' = "failed" /\ text' = text /\ enter' = enter /\ left' = left
      /\ run' = run /\ plan' = plan /\ sent' = sent
  BY DEF SendFails
<1>2. PICK m \in 0..Len(StrokesOf(plan[sent + 1])) :
        typed' = typed \o SubSeq(StrokesOf(plan[sent + 1]), 1, m)
  BY DEF SendFails
<1>3. /\ typed' \in Seq(KeyNames) /\ Len(typed') <= Len(Strokes(text))
      /\ \A i \in 1..Len(typed') : typed'[i] = Strokes(text)[i]
  BY <1>1, <1>2, SentPart
<1>4. QED
  BY <1>1, <1>3, Zenon DEF TypingInv

LEMMA SucceedInv ==
  ASSUME TypingInv, Succeed
  PROVE  TypingInv'
<1> DEFINE S == Strokes(text)
<1>1. /\ typist = "sending" /\ sent = Len(plan)
      /\ typed' = typed \/ (enter /\ typed' = Append(typed, "Return"))
      /\ typist' = "succeeded" /\ text' = text /\ enter' = enter /\ left' = left
      /\ run' = run /\ plan' = plan /\ sent' = sent
  BY DEF Succeed
<1>2. /\ S \in Seq(KeyNames) /\ typed \in Seq(KeyNames)
      /\ \A i \in 1..Len(typed) : typed[i] = S[i]
  BY <1>1, OneBreakStrokes DEF TypingInv
<1>3. Len(typed) = Len(S)
  BY <1>1 DEF TypingInv, Arrived
<1> HIDE DEF S
<1>4. typed = S
  BY <1>2, <1>3, SeqEqual
<1>5. typed' = S \/ (enter /\ typed' = Append(S, "Return"))
  BY <1>1, <1>4
<1>6. typed' \in Seq(KeyNames)
  <2>1. "Return" \in KeyNames
    BY DEF KeyNames
  <2>2. Append(S, "Return") \in Seq(KeyNames)
    BY <1>2, <2>1
  <2>3. QED
    BY <1>2, <1>5, <2>2
<1>7. QED
  BY <1>1, <1>5, <1>6, Zenon DEF TypingInv, S

LEMMA TypingInvStep ==
  ASSUME TypingInv, [TypingNext]_typingVars
  PROVE  TypingInv'
<1>1. ASSUME NEW t \in Texts, NEW e \in BOOLEAN, Ask(t, e) PROVE TypingInv'
  <2>1. t \in Seq(Characters)
    BY DEF Texts
  <2>2. QED
    BY <1>1, <2>1, AskInv
<1>2. CASE Break \/ Tab
  <2>1. left # <<>> /\ typist = "splitting"
    BY <1>2 DEF Break, Tab
  <2>2. CASE Break
    BY <2>1, <2>2, StrokeType, PressInv DEF Break, Breaks
  <2>3. CASE Tab
    BY <2>1, <2>3, StrokeType, PressInv DEF Tab
  <2>4. QED
    BY <1>2, <2>2, <2>3
<1>3. CASE UNCHANGED typingVars
  BY <1>3, Zenon DEF typingVars, TypingInv, Arrived
<1>4. QED
  BY <1>1, <1>2, <1>3, CollectInv, FlushInv, SendInv, SendFailsInv, SucceedInv DEF TypingNext

LEMMA TypingInvFaithful == TypingInv => TypedFaithfully
<1> SUFFICES ASSUME TypingInv PROVE TypedFaithfully
  OBVIOUS
<1> DEFINE S == Strokes(text)
           wanted == IF enter THEN Append(S, "Return") ELSE S
<1>1. S \in Seq(KeyNames) /\ typed \in Seq(KeyNames) /\ plan \in Seq(Steps)
  BY OneBreakStrokes DEF TypingInv
<1> HIDE DEF S
<1>2. /\ Len(wanted) >= Len(S) /\ Len(S) \in Nat /\ Len(wanted) \in Nat
      /\ \A i \in 1..Len(S) : wanted[i] = S[i]
  BY <1>1
<1>3. /\ Len(typed) <= Len(wanted)
      /\ \A i \in DOMAIN typed : typed[i] = wanted[i]
  <2>1. CASE typist # "succeeded"
    <3>1. Len(typed) <= Len(S) /\ \A i \in 1..Len(typed) : typed[i] = S[i]
      BY <2>1 DEF TypingInv, S
    <3> HIDE DEF wanted
    <3>2. \A i \in 1..Len(typed) : i \in 1..Len(S)
      BY <1>1, <3>1
    <3>3. DOMAIN typed = 1..Len(typed) /\ Len(typed) <= Len(wanted)
      BY <1>1, <1>2, <3>1
    <3>4. QED
      BY <1>2, <3>1, <3>2, <3>3, Zenon
  <2>2. CASE typist = "succeeded"
    <3>1. typed = S \/ (enter /\ typed = Append(S, "Return"))
      BY <2>2 DEF TypingInv, S
    <3>2. CASE typed = S
      BY <1>1, <1>2, <3>2
    <3>3. CASE enter /\ typed = Append(S, "Return")
      BY <1>1, <3>3
    <3>4. QED
      BY <3>1, <3>2, <3>3
  <2>3. QED
    BY <2>1, <2>2
<1>4. typist = "succeeded" => Len(typed) >= Len(S)
  <2>1. SUFFICES ASSUME typist = "succeeded" PROVE Len(typed) >= Len(S)
    OBVIOUS
  <2>2. typed = S \/ typed = Append(S, "Return")
    BY <2>1 DEF TypingInv, S
  <2>3. Len(Append(S, "Return")) >= Len(S) /\ Len(S) >= Len(S)
    BY <1>1, <1>2
  <2>4. QED
    BY <2>2, <2>3
<1>5. \A i \in DOMAIN plan : StrokesOf(plan[i]) # <<>>
  <2>1. PICK ends : Laid(plan, ends, S)
    BY DEF TypingInv, Collected, S
  <2>2. DOMAIN plan = 1..Len(plan)
    BY <1>1
  <2>3. QED
    BY <2>1, <2>2 DEF Laid
<1>6. QED
  BY <1>3, <1>4, <1>5, Zenon DEF TypedFaithfully, S

(* Whatever the text, the session gets its strokes in order, none lost,    *)
(* doubled or joined: all of them, and a Return only where one was asked   *)
(* for, when the call succeeds, and the first of them when an xdotool      *)
(* fails on the way.                                                       *)
THEOREM TextIsTypedFaithfully == TypingSpec => []TypedFaithfully
<1>1. TypingInv /\ [TypingNext]_typingVars => TypingInv'
  BY TypingInvStep
<1>2. QED
  BY <1>1, TypingInitInv, TypingInvFaithful, PTL DEF TypingSpec

-----------------------------------------------------------------------------
(* FuzzyMatch: alignments of the first i places of a with the first j of b, *)
(* and the recurrence that the table computes.                              *)

InOrder(A) ==
  \A p, q \in A : \/ p = q
                  \/ p[1] < q[1] /\ p[2] < q[2]
                  \/ q[1] < p[1] /\ q[2] < p[2]

Pairs(a, b, i, j) == {p \in (1..i) \X (1..j) : a[p[1]] = b[p[2]]}

Aligned(a, b, i, j) == {A \in SUBSET Pairs(a, b, i, j) : InOrder(A)}

\* n pairs are the most.
Longest(a, b, i, j, n) ==
  /\ \E A \in Aligned(a, b, i, j) : Cardinality(A) = n
  /\ \A A \in Aligned(a, b, i, j) : Cardinality(A) <= n

LEMMA AlignedFinite ==
  ASSUME NEW a, NEW b, NEW i \in Nat, NEW j \in Nat, NEW A \in Aligned(a, b, i, j)
  PROVE  /\ IsFiniteSet(A) /\ Cardinality(A) \in 0..i
         /\ Cardinality(A) = i => \A x \in 1..i : \E p \in A : p[1] = x
         /\ Cardinality(A) = j => \A y \in 1..j : \E p \in A : p[2] = y
<1>1. A \in SUBSET ((1..i) \X (1..j)) /\ InOrder(A)
  BY DEF Aligned, Pairs
<1>2. \A p \in A : p[1] \in 1..i /\ p[2] \in 1..j
  BY <1>1
<1>3. \A p, q \in A : (p[1] = q[1] => p = q) /\ (p[2] = q[2] => p = q)
  <2>1. \A p \in A : p[1] \in Int /\ p[2] \in Int
    BY <1>2
  <2>2. QED
    BY <1>1, <2>1 DEF InOrder
<1> DEFINE f == [p \in A |-> p[1]]
           g == [p \in A |-> p[2]]
<1>4. f \in Injection(A, 1..i)
  <2>1. f \in [A -> 1..i] /\ \A p \in A : f[p] = p[1]
    BY <1>2
  <2>2. \A p, q \in A : f[p] = f[q] => p = q
    BY <1>3, <2>1, Zenon
  <2> HIDE DEF f
  <2>3. QED
    BY <2>1, <2>2, Zenon DEF Injection, IsInjective
<1>5. g \in Injection(A, 1..j)
  <2>1. g \in [A -> 1..j] /\ \A p \in A : g[p] = p[2]
    BY <1>2
  <2>2. \A p, q \in A : g[p] = g[q] => p = q
    BY <1>3, <2>1, Zenon
  <2> HIDE DEF g
  <2>3. QED
    BY <2>1, <2>2, Zenon DEF Injection, IsInjective
<1>6. \A p \in A : f[p] = p[1] /\ g[p] = p[2]
  OBVIOUS
<1> HIDE DEF f, g
<1>7. IsFiniteSet(1..i) /\ Cardinality(1..i) = i /\ IsFiniteSet(1..j) /\ Cardinality(1..j) = j
  <2>1. /\ IsFiniteSet(1..i) /\ Cardinality(1..i) = IF 1 > i THEN 0 ELSE i - 1 + 1
        /\ IsFiniteSet(1..j) /\ Cardinality(1..j) = IF 1 > j THEN 0 ELSE j - 1 + 1
    BY FS_Interval
  <2>2. QED
    BY <2>1
<1>8. /\ IsFiniteSet(A) /\ Cardinality(A) <= i
      /\ Cardinality(A) = i => f \in Surjection(A, 1..i)
  BY <1>4, <1>7, FS_Injection
<1>9. Cardinality(A) = j => g \in Surjection(A, 1..j)
  BY <1>5, <1>7, FS_Injection
<1>10. Cardinality(A) \in Nat
  BY <1>8, FS_CardinalityType
<1>11. ASSUME Cardinality(A) = i PROVE \A x \in 1..i : \E p \in A : p[1] = x
  <2>1. \A x \in 1..i : \E p \in A : f[p] = x
    BY <1>8, <1>11, Zenon DEF Surjection
  <2>2. QED
    BY <1>6, <2>1, Zenon
<1>12. ASSUME Cardinality(A) = j PROVE \A y \in 1..j : \E p \in A : p[2] = y
  <2>1. \A y \in 1..j : \E p \in A : g[p] = y
    BY <1>9, <1>12, Zenon DEF Surjection
  <2>2. QED
    BY <1>6, <2>1
<1>13. QED
  BY <1>8, <1>10, <1>11, <1>12

LEMMA LongestUnique ==
  ASSUME NEW a, NEW b, NEW i \in Nat, NEW j \in Nat,
         NEW m, Longest(a, b, i, j, m), NEW n, Longest(a, b, i, j, n)
  PROVE  m = n /\ m \in 0..i
<1>1. PICK A \in Aligned(a, b, i, j) : Cardinality(A) = m
  BY DEF Longest
<1>2. PICK B \in Aligned(a, b, i, j) : Cardinality(B) = n
  BY DEF Longest
<1>3. Cardinality(A) <= n /\ Cardinality(B) <= m
  BY DEF Longest
<1>4. m \in 0..i /\ n \in 0..i
  BY <1>1, <1>2, AlignedFinite
<1>5. QED
  BY <1>1, <1>2, <1>3, <1>4

(* Nothing aligns with nothing. *)
LEMMA LongestNone ==
  ASSUME NEW a, NEW b, NEW i \in Nat, NEW j \in Nat, i = 0 \/ j = 0
  PROVE  Longest(a, b, i, j, 0)
<1>1. Pairs(a, b, i, j) = {}
  BY DEF Pairs
<1>2. Aligned(a, b, i, j) = {{}}
  BY <1>1 DEF Aligned, InOrder
<1>3. Cardinality({}) = 0
  BY FS_EmptySet
<1>4. QED
  BY <1>2, <1>3 DEF Longest

LEMMA AlignedGrows ==
  ASSUME NEW a, NEW b, NEW i \in Nat, NEW j \in Nat, NEW A, InOrder(A)
  PROVE  /\ A \in Aligned(a, b, i, j) => A \in Aligned(a, b, i + 1, j) /\ A \in Aligned(a, b, i, j + 1)
         /\ A \in Aligned(a, b, i + 1, j) => A \in Aligned(a, b, i + 1, j + 1)
         /\ A \in Aligned(a, b, i, j + 1) => A \in Aligned(a, b, i + 1, j + 1)
<1>1. 1..i \subseteq 1..(i + 1) /\ 1..j \subseteq 1..(j + 1)
  OBVIOUS
<1>2. QED
  BY <1>1, Zenon DEF Aligned, Pairs

(* Without the pair that is last in either, an alignment is one of what    *)
(* comes before.                                                           *)
LEMMA AlignedWithout ==
  ASSUME NEW a, NEW b, NEW i \in Nat, NEW j \in Nat,
         NEW A \in Aligned(a, b, i + 1, j + 1), NEW p \in A,
         p[1] = i + 1 \/ p[2] = j + 1
  PROVE  A \ {p} \in Aligned(a, b, i, j)
<1>1. A \in SUBSET Pairs(a, b, i + 1, j + 1) /\ InOrder(A)
  BY DEF Aligned
<1>2. \A q \in A : /\ q \in (1..(i + 1)) \X (1..(j + 1)) /\ a[q[1]] = b[q[2]]
                   /\ q[1] \in 1..(i + 1) /\ q[2] \in 1..(j + 1)
  BY <1>1 DEF Pairs
<1>3. ASSUME NEW q \in A \ {p} PROVE q[1] \in 1..i /\ q[2] \in 1..j
  <2>1. (p[1] < q[1] /\ p[2] < q[2]) \/ (q[1] < p[1] /\ q[2] < p[2])
    BY <1>1, <1>3 DEF InOrder
  <2>2. /\ p[1] \in 1..(i + 1) /\ p[2] \in 1..(j + 1)
        /\ q[1] \in 1..(i + 1) /\ q[2] \in 1..(j + 1)
    BY <1>2
  <2>3. q[1] < p[1] /\ q[2] < p[2]
    BY <2>1, <2>2
  <2>4. QED
    BY <2>2, <2>3
<1>4. ASSUME NEW q \in A \ {p} PROVE q \in Pairs(a, b, i, j)
  <2>1. q = <<q[1], q[2]>> /\ a[q[1]] = b[q[2]]
    BY <1>2
  <2>2. q \in (1..i) \X (1..j)
    BY <1>3, <2>1
  <2>3. QED
    BY <2>1, <2>2 DEF Pairs
<1>5. InOrder(A \ {p})
  BY <1>1 DEF InOrder
<1>6. QED
  BY <1>4, <1>5 DEF Aligned

(* Equal runes: the diagonal cell and one. *)
LEMMA LongestEqual ==
  ASSUME NEW a, NEW b, NEW i \in Nat, NEW j \in Nat, a[i + 1] = b[j + 1],
         NEW n \in Nat, Longest(a, b, i, j, n)
  PROVE  Longest(a, b, i + 1, j + 1, n + 1)
<1> DEFINE last == <<i + 1, j + 1>>
<1>1. PICK A \in Aligned(a, b, i, j) : Cardinality(A) = n
  BY DEF Longest
<1>2. A \cup {last} \in Aligned(a, b, i + 1, j + 1)
  <2>1. InOrder(A) /\ A \in SUBSET Pairs(a, b, i, j)
    BY DEF Aligned
  <2>2. A \in SUBSET Pairs(a, b, i + 1, j + 1)
    <3>1. A \in Aligned(a, b, i + 1, j)
      BY <2>1, AlignedGrows
    <3>2. A \in Aligned(a, b, i + 1, j + 1)
      BY <2>1, <3>1, AlignedGrows
    <3>3. QED
      BY <3>2 DEF Aligned
  <2>3. last \in Pairs(a, b, i + 1, j + 1) /\ last[1] = i + 1 /\ last[2] = j + 1
    BY DEF Pairs
  <2> HIDE DEF last
  <2>4. \A p \in A : p[1] < last[1] /\ p[2] < last[2]
    <3>1. \A p \in A : p[1] \in 1..i /\ p[2] \in 1..j
      BY <2>1 DEF Pairs
    <3>2. QED
      BY <2>3, <3>1
  <2>5. InOrder(A \cup {last})
    BY <2>1, <2>4, Zenon DEF InOrder
  <2>6. QED
    BY <2>2, <2>3, <2>5 DEF Aligned
<1>3. IsFiniteSet(A) /\ last \notin A
  <2>1. IsFiniteSet(A)
    BY AlignedFinite
  <2>2. \A p \in A : p[1] \in 1..i
    BY DEF Aligned, Pairs
  <2>3. QED
    BY <2>1, <2>2
<1>4. Cardinality(A \cup {last}) = n + 1
  BY <1>1, <1>3, FS_AddElement
<1>5. ASSUME NEW B \in Aligned(a, b, i + 1, j + 1) PROVE Cardinality(B) <= n + 1
  <2>1. IsFiniteSet(B) /\ Cardinality(B) \in Nat
    BY AlignedFinite
  <2>2. CASE \E p \in B : p[1] = i + 1 \/ p[2] = j + 1
    <3>1. PICK p \in B : p[1] = i + 1 \/ p[2] = j + 1
      BY <2>2
    <3>2. B \ {p} \in Aligned(a, b, i, j)
      BY <3>1, AlignedWithout
    <3>3. Cardinality(B \ {p}) = Cardinality(B) - 1
      BY <2>1, FS_RemoveElement
    <3>4. Cardinality(B \ {p}) <= n
      BY <3>2 DEF Longest
    <3>5. QED
      BY <2>1, <3>3, <3>4
  <2>3. CASE ~ \E p \in B : p[1] = i + 1 \/ p[2] = j + 1
    <3>1. B \in Aligned(a, b, i, j)
      <4>1. \A p \in B : /\ p \in (1..(i + 1)) \X (1..(j + 1)) /\ a[p[1]] = b[p[2]]
                         /\ p[1] # i + 1 /\ p[2] # j + 1
        BY <2>3 DEF Aligned, Pairs
      <4>2. \A p \in B : p \in (1..i) \X (1..j)
        BY <4>1
      <4>3. QED
        BY <4>1, <4>2 DEF Aligned, Pairs
    <3>2. Cardinality(B) <= n
      BY <3>1 DEF Longest
    <3>3. QED
      BY <2>1, <3>2
  <2>4. QED
    BY <2>2, <2>3
<1>6. QED
  BY <1>2, <1>4, <1>5 DEF Longest

(* Different runes: the greater of the cells above and before. *)
LEMMA LongestDifferent ==
  ASSUME NEW a, NEW b, NEW i \in Nat, NEW j \in Nat, a[i + 1] # b[j + 1],
         NEW u \in Nat, Longest(a, b, i, j + 1, u),
         NEW v \in Nat, Longest(a, b, i + 1, j, v)
  PROVE  Longest(a, b, i + 1, j + 1, IF u >= v THEN u ELSE v)
<1>1. PICK A \in Aligned(a, b, i, j + 1) : Cardinality(A) = u
  BY DEF Longest
<1>2. PICK B \in Aligned(a, b, i + 1, j) : Cardinality(B) = v
  BY DEF Longest
<1>3. A \in Aligned(a, b, i + 1, j + 1) /\ B \in Aligned(a, b, i + 1, j + 1)
  <2>1. InOrder(A) /\ InOrder(B)
    BY DEF Aligned
  <2>2. QED
    BY <2>1, AlignedGrows
<1>4. ASSUME NEW C \in Aligned(a, b, i + 1, j + 1)
      PROVE  Cardinality(C) <= u \/ Cardinality(C) <= v
  <2>1. /\ InOrder(C)
        /\ \A p \in C : /\ p \in (1..(i + 1)) \X (1..(j + 1)) /\ a[p[1]] = b[p[2]]
                        /\ p[1] \in 1..(i + 1) /\ p[2] \in 1..(j + 1) /\ p = <<p[1], p[2]>>
    BY DEF Aligned, Pairs
  <2>2. CASE \A p \in C : p[1] # i + 1
    <3>1. \A p \in C : p \in (1..i) \X (1..(j + 1))
      BY <2>1, <2>2
    <3>2. C \in Aligned(a, b, i, j + 1)
      BY <2>1, <3>1 DEF Aligned, Pairs
    <3>3. QED
      BY <3>2 DEF Longest
  <2>3. CASE \E p \in C : p[1] = i + 1
    <3>1. PICK p \in C : p[1] = i + 1
      BY <2>3
    <3>2. p[2] # j + 1
      BY <2>1, <3>1
    <3>3. ASSUME NEW q \in C PROVE q[2] # j + 1
      <4>1. p[2] \in 1..(j + 1) /\ q[1] \in 1..(i + 1)
        BY <2>1
      <4>2. q = p \/ (p[1] < q[1] /\ p[2] < q[2]) \/ (q[1] < p[1] /\ q[2] < p[2])
        BY <2>1 DEF InOrder
      <4>3. QED
        BY <3>1, <3>2, <4>1, <4>2
    <3>4. \A q \in C : q \in (1..(i + 1)) \X (1..j)
      <4>1. SUFFICES ASSUME NEW q \in C PROVE q \in (1..(i + 1)) \X (1..j)
        OBVIOUS
      <4>2. q[1] \in 1..(i + 1) /\ q[2] \in 1..j /\ q = <<q[1], q[2]>>
        BY <2>1, <3>3
      <4>3. QED
        BY <4>2
    <3>5. C \in Aligned(a, b, i + 1, j)
      BY <2>1, <3>4 DEF Aligned, Pairs
    <3>6. QED
      BY <3>5 DEF Longest
  <2>4. QED
    BY <2>2, <2>3
<1> DEFINE m == IF u >= v THEN u ELSE v
<1>5. \E C \in Aligned(a, b, i + 1, j + 1) : Cardinality(C) = m
  BY <1>1, <1>2, <1>3
<1>6. ASSUME NEW C \in Aligned(a, b, i + 1, j + 1) PROVE Cardinality(C) <= m
  <2>1. Cardinality(C) \in Nat
    BY AlignedFinite
  <2>2. QED
    BY <1>4, <2>1
<1>7. QED
  BY <1>5, <1>6 DEF Longest

(* n pairs of n places with n places leave no room: each place is paired   *)
(* with itself.                                                            *)
LEMMA PerfectIsEqual ==
  ASSUME NEW a, NEW b, NEW n \in Nat, Longest(a, b, n, n, n)
  PROVE  \A x \in 1..n : a[x] = b[x]
<1>1. PICK A \in Aligned(a, b, n, n) : Cardinality(A) = n
  BY DEF Longest
<1>2. /\ \A x \in 1..n : \E p \in A : p[1] = x
      /\ \A y \in 1..n : \E p \in A : p[2] = y
  BY <1>1, AlignedFinite
<1>3. \A p \in A : p[1] \in 1..n /\ p[2] \in 1..n /\ p = <<p[1], p[2]>> /\ a[p[1]] = b[p[2]]
  BY DEF Aligned, Pairs
<1>4. InOrder(A)
  BY DEF Aligned
<1> DEFINE Bad == {x \in 1..n : <<x, x>> \notin A}
<1>5. Bad = {}
  <2>1. SUFFICES ASSUME Bad # {} PROVE FALSE
    OBVIOUS
  <2>2. PICK x \in Bad : \A z \in Bad : x <= z
    <3>1. Bad \in SUBSET Nat
      OBVIOUS
    <3> HIDE DEF Bad
    <3>2. QED
      BY <2>1, <3>1, Least
  <2>3. x \in 1..n /\ <<x, x>> \notin A
    BY <2>2
  <2>4. \A z \in 1..n : z < x => <<z, z>> \in A
    <3>1. SUFFICES ASSUME NEW z \in 1..n, z < x, z \in Bad PROVE FALSE
      OBVIOUS
    <3>2. x <= z
      BY <2>2, <3>1
    <3>3. QED
      BY <2>3, <3>1, <3>2
  <2> HIDE DEF Bad
  <2>5. PICK p \in A : p[1] = x
    BY <1>2, <2>3
  <2>6. PICK q \in A : q[2] = x
    BY <1>2, <2>3
  <2>7. p[2] \in 1..n /\ q[1] \in 1..n /\ p = <<x, p[2]>> /\ q = <<q[1], x>>
    BY <1>3, <2>5, <2>6
  <2>8. p[2] # x /\ q[1] # x
    BY <2>3, <2>7
  <2>9. ~(p[2] < x)
    <3>1. SUFFICES ASSUME p[2] < x PROVE FALSE
      OBVIOUS
    <3>2. PICK r \in A : r[1] = p[2] /\ r[2] = p[2]
      <4>1. <<p[2], p[2]>> \in A
        BY <2>4, <2>7, <3>1
      <4>2. QED
        BY <4>1
    <3>3. p = r \/ (p[1] < r[1] /\ p[2] < r[2]) \/ (r[1] < p[1] /\ r[2] < p[2])
      BY <1>4 DEF InOrder
    <3>4. QED
      BY <2>3, <2>5, <2>7, <2>8, <3>2, <3>3
  <2>10. ~(q[1] < x)
    <3>1. SUFFICES ASSUME q[1] < x PROVE FALSE
      OBVIOUS
    <3>2. PICK r \in A : r[1] = q[1] /\ r[2] = q[1]
      <4>1. <<q[1], q[1]>> \in A
        BY <2>4, <2>7, <3>1
      <4>2. QED
        BY <4>1
    <3>3. q = r \/ (q[1] < r[1] /\ q[2] < r[2]) \/ (r[1] < q[1] /\ r[2] < q[2])
      BY <1>4 DEF InOrder
    <3>4. QED
      BY <2>3, <2>6, <2>7, <2>8, <3>2, <3>3
  <2>11. x < p[2] /\ x < q[1]
    BY <2>3, <2>7, <2>8, <2>9, <2>10
  <2>12. p = q \/ (p[1] < q[1] /\ p[2] < q[2]) \/ (q[1] < p[1] /\ q[2] < p[2])
    BY <1>4 DEF InOrder
  <2>13. QED
    BY <2>3, <2>5, <2>6, <2>7, <2>11, <2>12
<1>6. SUFFICES ASSUME NEW x \in 1..n PROVE a[x] = b[x]
  OBVIOUS
<1>7. <<x, x>> \in A
  BY <1>5
<1>8. a[<<x, x>>[1]] = b[<<x, x>>[2]]
  BY <1>3, <1>7
<1>9. QED
  BY <1>8

LEMMA EqualIsPerfect ==
  ASSUME NEW a, NEW b, NEW n \in Nat, \A x \in 1..n : a[x] = b[x]
  PROVE  Longest(a, b, n, n, n)
<1> DEFINE D == {<<x, x>> : x \in 1..n}
           f == [x \in 1..n |-> <<x, x>>]
<1>1. D \in Aligned(a, b, n, n)
  <2>1. D \in SUBSET Pairs(a, b, n, n)
    BY DEF Pairs
  <2>2. InOrder(D)
    <3>1. SUFFICES ASSUME NEW p \in D, NEW q \in D
                   PROVE  p = q \/ (p[1] < q[1] /\ p[2] < q[2]) \/ (q[1] < p[1] /\ q[2] < p[2])
      BY DEF InOrder
    <3>2. PICK x \in 1..n, y \in 1..n : p = <<x, x>> /\ q = <<y, y>>
      OBVIOUS
    <3>3. x = y \/ x < y \/ y < x
      OBVIOUS
    <3>4. QED
      BY <3>2, <3>3
  <2>3. QED
    BY <2>1, <2>2 DEF Aligned
<1>2. Cardinality(D) = n
  <2>1. f \in [1..n -> D] /\ \A x \in 1..n : f[x] = <<x, x>>
    OBVIOUS
  <2>2. \A y \in D : \E x \in 1..n : f[x] = y
    OBVIOUS
  <2>3. \A x, y \in 1..n : f[x] = f[y] => x = y
    OBVIOUS
  <2> HIDE DEF f, D
  <2>4. f \in Bijection(1..n, D)
    BY <2>1, <2>2, <2>3, Zenon DEF Bijection, Injection, Surjection, IsInjective
  <2>5. IsFiniteSet(1..n) /\ Cardinality(1..n) = n
    <3>1. IsFiniteSet(1..n) /\ Cardinality(1..n) = IF 1 > n THEN 0 ELSE n - 1 + 1
      BY FS_Interval
    <3>2. QED
      BY <3>1
  <2>6. ExistsBijection(1..n, D)
    BY <2>4, Zenon DEF ExistsBijection
  <2>7. QED
    BY <2>5, <2>6, FS_Bijection
<1>3. ASSUME NEW A \in Aligned(a, b, n, n) PROVE Cardinality(A) <= n
  <2>1. Cardinality(A) \in 0..n
    BY AlignedFinite
  <2>2. QED
    BY <2>1
<1>4. QED
  BY <1>1, <1>2, <1>3 DEF Longest

(* Common is what it is meant to be: it is attained, and the most.         *)
LEMMA CommonLongest ==
  ASSUME NEW a \in Seq(Runes), NEW b \in Seq(Runes)
  PROVE  Longest(a, b, Len(a), Len(b), Common(a, b)) /\ Common(a, b) \in 0..Len(a)
<1> DEFINE All == Aligned(a, b, Len(a), Len(b))
           Sizes == {Cardinality(A) : A \in All}
<1>1. Alignments(a, b) = All
  <2>1. DOMAIN a = 1..Len(a) /\ DOMAIN b = 1..Len(b)
    OBVIOUS
  <2>2. QED
    BY <2>1, Zenon DEF Alignments, Aligned, Pairs, InOrder
<1>2. Len(a) \in Nat /\ Len(b) \in Nat
  OBVIOUS
<1>3. \A A \in All : Cardinality(A) \in 0..Len(a)
  BY <1>2, AlignedFinite
<1>4. Sizes \in SUBSET Int /\ \A m \in Sizes : m <= Len(a)
  BY <1>2, <1>3
<1>5. Sizes # {}
  <2>1. {} \in All
    BY DEF Aligned, InOrder
  <2>2. QED
    BY <2>1
<1>6. Common(a, b) = Max(Sizes)
  BY <1>1 DEF Common
<1> HIDE DEF All
<1>7. Max(Sizes) \in Sizes /\ \A m \in Sizes : m <= Max(Sizes)
  <2> HIDE DEF Sizes
  <2>1. Len(a) \in Int
    BY <1>2
  <2>2. QED
    BY <1>4, <1>5, <2>1, MaxIn
<1>8. /\ \E A \in All : Cardinality(A) = Max(Sizes)
      /\ \A A \in All : Cardinality(A) <= Max(Sizes)
  BY <1>7
<1>9. QED
  BY <1>3, <1>6, <1>8 DEF Longest, All

LEMMA MaxIs ==
  ASSUME NEW S \in SUBSET Int, NEW m \in S, \A y \in S : y <= m
  PROVE  Max(S) = m
<1>1. m \in Int
  OBVIOUS
<1>2. Max(S) \in S /\ \A y \in S : y <= Max(S)
  <2>1. S # {} /\ \A x \in S : x <= m
    OBVIOUS
  <2>2. QED
    BY <1>1, <2>1, MaxIn, Zenon
<1>3. Max(S) \in Int /\ m <= Max(S) /\ Max(S) <= m
  BY <1>2
<1>4. QED
  BY <1>1, <1>3

(* The percentage as the code computes it, twice over.                     *)
LEMMA Percentage ==
  ASSUME NEW n \in Nat \ {0}, NEW l \in 0..n
  PROVE  /\ (100 * 2 * l) \div (2 * n) = (100 * l) \div n
         /\ (100 * l) \div n \in 0..100
         /\ (100 * l) \div n = 100 <=> l = n
<1> DEFINE q == (100 * l) \div n
           r == (100 * 2 * l) \div (2 * n)
<1>1. q \in Nat /\ q * n <= 100 * l /\ 100 * l < q * n + n
  OBVIOUS
<1>2. r \in Nat /\ r * (2 * n) <= 200 * l /\ 200 * l < r * (2 * n) + 2 * n
  OBVIOUS
<1> HIDE DEF q, r
<1>3. r * (2 * n) = 2 * (r * n)
  BY <1>2
<1>4. r * n <= 100 * l /\ 100 * l < r * n + n
  BY <1>1, <1>2, <1>3
<1>5. \A x \in Int, y \in Int : x * n < y * n + n => x <= y
  OBVIOUS
<1>6. q = r
  BY <1>1, <1>2, <1>4, <1>5
<1>7. q * n <= 100 * n
  BY <1>1
<1>8. q <= 100
  BY <1>1, <1>5, <1>7
<1>9. q = 100 => l = n
  BY <1>1
<1>10. l = n => q = 100
  <2>1. SUFFICES ASSUME l = n PROVE q = 100
    OBVIOUS
  <2>2. 100 * n < q * n + n
    BY <1>1, <2>1
  <2>3. 100 <= q
    BY <1>1, <1>5, <2>2
  <2>4. QED
    BY <1>1, <1>8, <2>3
<1>11. QED
  BY <1>1, <1>6, <1>8, <1>9, <1>10 DEF q, r

-----------------------------------------------------------------------------
(* FuzzyMatch: the two rows of the table, and the scan of the windows.     *)

Window(i) == SubSeq(long, i + 1, i + Len(short))

Rows ==
  /\ row \in 0..Len(short) /\ column \in 0..Len(short)
  /\ prev \in [0..Len(short) -> Nat] /\ curr \in [0..Len(short) -> Nat]
  /\ prev[0] = 0 /\ curr[0] = 0
  /\ \A j \in 0..Len(short) : Longest(short, Window(start), row, j, prev[j])
  /\ row < Len(short) =>
       \A j \in 0..column : Longest(short, Window(start), row + 1, j, curr[j])

\* The windows before start have been scored.
BestSoFar ==
  /\ start \in 0..Windows
  /\ best \in 0..99
  /\ \A i \in 0..(start - 1) : ScoreAt(i) <= best
  /\ best = 0 \/ \E i \in 0..(start - 1) : ScoreAt(i) = best

MatchInv ==
  /\ matching \in {"idle", "comparing", "scored"}
  /\ short \in Seq(Runes) /\ long \in Seq(Runes) /\ Len(short) <= Len(long)
  /\ matching = "idle" => start = 0 /\ row = 0 /\ column = 0
  /\ matching = "comparing" =>
       short # <<>> /\ ~Within(short, long) /\ BestSoFar /\ Rows
  /\ BestAlignment

LEMMA WindowOf ==
  ASSUME short \in Seq(Runes), long \in Seq(Runes), Len(short) <= Len(long),
         NEW i \in 0..(Windows - 1)
  PROVE  /\ Window(i) \in Seq(Runes) /\ Len(Window(i)) = Len(short)
         /\ \A j \in 1..Len(short) : Window(i)[j] = long[i + j]
         /\ i \in 0..(Len(long) - Len(short))
<1>1. i \in Nat /\ i + Len(short) <= Len(long) /\ Len(short) \in Nat /\ Len(long) \in Nat
  BY DEF Windows
<1>2. /\ Window(i) \in Seq(Runes) /\ Len(Window(i)) = Len(short)
  BY <1>1 DEF Window
<1>3. \A j \in 1..Len(short) : Window(i)[j] = long[i + j]
  BY <1>1 DEF Window
<1>4. QED
  BY <1>1, <1>2, <1>3

(* A score is 100 exactly where the window is the name.                    *)
LEMMA ScoreOf ==
  ASSUME short \in Seq(Runes), long \in Seq(Runes), Len(short) <= Len(long), short # <<>>,
         NEW i \in 0..(Windows - 1)
  PROVE  /\ ScoreAt(i) \in 0..100
         /\ ScoreAt(i) = 100 <=> SubSeq(long, i + 1, i + Len(short)) = short
<1> DEFINE n == Len(short)
           w == Window(i)
           l == Common(short, w)
<1>1. /\ w \in Seq(Runes) /\ Len(w) = n /\ n \in Nat \ {0}
  BY WindowOf
<1>2. ScoreAt(i) = (100 * l) \div n
  BY DEF ScoreAt, Window
<1>3. Longest(short, w, n, n, l) /\ l \in 0..n
  BY <1>1, CommonLongest
<1>4. ScoreAt(i) \in 0..100 /\ (ScoreAt(i) = 100 <=> l = n)
  <2> HIDE DEF n, l
  <2>1. QED
    BY <1>1, <1>2, <1>3, Percentage
<1> HIDE DEF n, w, l
<1>5. l = n <=> w = short
  <2>1. ASSUME l = n PROVE w = short
    <3>1. \A x \in 1..n : short[x] = w[x]
      BY <1>1, <1>3, <2>1, PerfectIsEqual
    <3>2. QED
      BY <1>1, <3>1, SeqEqual DEF n
  <2>2. ASSUME w = short PROVE l = n
    <3>1. Longest(short, w, n, n, n)
      BY <1>1, <2>2, EqualIsPerfect
    <3>2. QED
      BY <1>1, <1>3, <3>1, LongestUnique
  <2>3. QED
    BY <2>1, <2>2
<1>6. QED
  BY <1>4, <1>5 DEF w, Window

LEMMA ScoresOf ==
  ( short \in Seq(Runes) /\ long \in Seq(Runes) /\ Len(short) <= Len(long)
      /\ short # <<>>
    => \A i \in 0..(Windows - 1) :
         /\ ScoreAt(i) \in 0..100
         /\ ScoreAt(i) = 100 <=> SubSeq(long, i + 1, i + Len(short)) = short )
BY ScoreOf

LEMMA MatchInitInv == MatchInit => MatchInv
<1> SUFFICES ASSUME MatchInit PROVE MatchInv
  OBVIOUS
<1>1. /\ matching = "idle" /\ short = <<>> /\ long = <<>>
      /\ start = 0 /\ row = 0 /\ column = 0
  BY DEF MatchInit
<1>2. short \in Seq(Runes) /\ long \in Seq(Runes) /\ Len(short) <= Len(long)
  BY <1>1
<1>3. BestAlignment
  BY <1>1 DEF BestAlignment
<1>4. QED
  BY <1>1, <1>2, <1>3, Zenon DEF MatchInv

(* A new window is compared on zeros. *)
LEMMA NewRows ==
  ASSUME Len(short) \in Nat, row = 0, column = 0, prev = Zeros, curr = Zeros
  PROVE  Rows
<1>1. /\ Zeros \in [0..Len(short) -> Nat]
      /\ \A j \in 0..Len(short) : Zeros[j] = 0
      /\ 0 \in 0..Len(short)
  BY DEF Zeros
<1>2. \A j \in 0..Len(short) : Longest(short, Window(start), 0, j, 0)
  BY LongestNone
<1>3. Longest(short, Window(start), 0 + 1, 0, 0)
  BY LongestNone
<1>4. /\ \A j \in 0..Len(short) : Longest(short, Window(start), row, j, prev[j])
      /\ \A j \in 0..column : Longest(short, Window(start), row + 1, j, curr[j])
  <2>1. \A j \in 0..column : j = 0
    OBVIOUS
  <2>2. QED
    BY <1>1, <1>2, <1>3, <2>1
<1>5. QED
  BY <1>1, <1>4 DEF Rows

LEMMA FillInv ==
  ASSUME MatchInv, Fill
  PROVE  MatchInv'
<1> DEFINE n == Len(short)
           j == column + 1
           w == Window(start)
           cell == IF short[row + 1] = long[start + j] THEN prev[j - 1] + 1
                   ELSE Max({prev[j], curr[j - 1]})
<1>1. /\ matching = "comparing" /\ start < Windows /\ row < n /\ column < n
      /\ curr' = [curr EXCEPT ![j] = cell] /\ column' = column + 1
      /\ matching' = matching /\ short' = short /\ long' = long /\ start' = start
      /\ prev' = prev /\ row' = row /\ best' = best
  BY DEF Fill, Scanning
<1>2. /\ short \in Seq(Runes) /\ long \in Seq(Runes) /\ n <= Len(long)
      /\ short # <<>> /\ ~Within(short, long) /\ BestSoFar /\ Rows
  BY <1>1 DEF MatchInv
<1>3. start \in 0..(Windows - 1)
  <2>1. start \in Nat /\ Windows \in Int
    BY <1>2 DEF BestSoFar, Windows
  <2>2. QED
    BY <1>1, <2>1
<1>4. /\ row \in Nat /\ column \in Nat /\ n \in Nat /\ j \in 1..n /\ j \in 0..n /\ j - 1 = column
      /\ column \in 0..n
  BY <1>1, <1>2 DEF Rows
<1>5. w[j] = long[start + j]
  BY <1>2, <1>3, <1>4, WindowOf
<1> HIDE DEF w
<1>6. /\ prev \in [0..n -> Nat] /\ curr \in [0..n -> Nat]
      /\ Longest(short, w, row, column, prev[column])
      /\ Longest(short, w, row, column + 1, prev[column + 1])
      /\ Longest(short, w, row + 1, column, curr[column])
  BY <1>1, <1>2, <1>4 DEF Rows, w
<1>7. /\ prev[column] \in Nat /\ prev[column + 1] \in Nat /\ curr[column] \in Nat
  BY <1>4, <1>6
<1>8. cell \in Nat /\ Longest(short, w, row + 1, column + 1, cell)
  <2>1. CASE short[row + 1] = w[column + 1]
    <3>1. cell = prev[column] + 1
      BY <1>4, <1>5, <2>1
    <3>2. QED
      BY <1>4, <1>6, <1>7, <2>1, <3>1, LongestEqual
  <2>2. CASE short[row + 1] # w[column + 1]
    <3>1. cell = Max({prev[column + 1], curr[column]})
      BY <1>4, <1>5, <2>2
    <3>2. prev[column + 1] \in Int /\ curr[column] \in Int
      BY <1>7
    <3>3. cell = IF prev[column + 1] >= curr[column] THEN prev[column + 1] ELSE curr[column]
      BY <3>1, <3>2, MaxOfTwo
    <3>4. QED
      BY <1>4, <1>6, <1>7, <2>2, <3>3, LongestDifferent
  <2>3. QED
    BY <2>1, <2>2
<1> HIDE DEF cell
<1>9. /\ curr' \in [0..n -> Nat] /\ curr'[column + 1] = cell
      /\ \A k \in 0..n : k # column + 1 => curr'[k] = curr[k]
  BY <1>1, <1>4, <1>6, <1>8
<1>10. \A k \in 0..column' : Longest(short, w, row + 1, k, curr'[k])
  <2>1. SUFFICES ASSUME NEW k \in 0..(column + 1) PROVE Longest(short, w, row + 1, k, curr'[k])
    BY <1>1
  <2>2. CASE k = column + 1
    BY <1>8, <1>9, <2>2
  <2>3. CASE k \in 0..column
    <3>1. Longest(short, w, row + 1, k, curr[k])
      BY <1>1, <1>2, <2>3 DEF Rows, w
    <3>2. curr'[k] = curr[k]
      BY <1>4, <1>9, <2>3
    <3>3. QED
      BY <3>1, <3>2
  <2>4. QED
    BY <1>4, <2>2, <2>3
<1>11. Rows'
  <2>1. w = Window(start)'
    BY <1>1 DEF w, Window
  <2>2. column' \in 0..n /\ curr'[0] = 0
    BY <1>1, <1>2, <1>4, <1>9 DEF Rows
  <2>3. \A k \in 0..n : Longest(short, w, row, k, prev[k])
    BY <1>2 DEF Rows, w
  <2>4. prev[0] = 0 /\ row \in 0..n
    BY <1>2 DEF Rows
  <2>5. QED
    BY <1>1, <1>6, <1>9, <1>10, <2>1, <2>2, <2>3, <2>4, Zenon DEF Rows
<1>12. BestSoFar'
  BY <1>1, <1>2, Zenon DEF BestSoFar, ScoreAt, Windows
<1>13. QED
  BY <1>1, <1>2, <1>11, <1>12, Zenon DEF MatchInv, BestAlignment

LEMMA SwapInv ==
  ASSUME MatchInv, Swap
  PROVE  MatchInv'
<1> DEFINE n == Len(short)
           w == Window(start)
<1>1. /\ matching = "comparing" /\ row < n /\ column = n
      /\ prev' = curr /\ curr' = prev /\ row' = row + 1 /\ column' = 0
      /\ matching' = matching /\ short' = short /\ long' = long /\ start' = start
      /\ best' = best
  BY DEF Swap, Scanning
<1>2. /\ short \in Seq(Runes) /\ long \in Seq(Runes) /\ n <= Len(long)
      /\ short # <<>> /\ ~Within(short, long) /\ BestSoFar /\ Rows
  BY <1>1 DEF MatchInv
<1>3. n \in Nat /\ row \in Nat /\ row' \in 0..n /\ column' \in 0..n
  BY <1>1, <1>2 DEF Rows
<1>4. /\ prev' \in [0..n -> Nat] /\ curr' \in [0..n -> Nat] /\ prev'[0] = 0 /\ curr'[0] = 0
      /\ \A j \in 0..n : Longest(short, w, row', j, prev'[j])
  BY <1>1, <1>2 DEF Rows
<1>5. \A j \in 0..column' : Longest(short, w, row' + 1, j, curr'[j])
  <2>1. Longest(short, w, row' + 1, 0, 0)
    BY <1>1, <1>3, LongestNone
  <2>2. \A j \in 0..column' : j = 0
    BY <1>1
  <2>3. QED
    BY <1>4, <2>1, <2>2
<1>6. Rows'
  <2>1. w = Window(start)'
    BY <1>1 DEF Window
  <2> HIDE DEF w
  <2>2. QED
    BY <1>1, <1>3, <1>4, <1>5, <2>1, Zenon DEF Rows
<1>7. BestSoFar'
  BY <1>1, <1>2, Zenon DEF BestSoFar, ScoreAt, Windows
<1>8. QED
  BY <1>1, <1>2, <1>6, <1>7, Zenon DEF MatchInv, BestAlignment

LEMMA ScoreInv ==
  ASSUME MatchInv, Score
  PROVE  MatchInv'
<1> DEFINE n == Len(short)
           new == ScoreAt(start)
<1>1. /\ matching = "comparing" /\ start < Windows /\ row = n
      /\ best' = Max({best, (100 * 2 * prev[n]) \div (2 * n)})
      /\ start' = start + 1 /\ row' = 0 /\ column' = 0
      /\ prev' = Zeros /\ curr' = Zeros
      /\ matching' = matching /\ short' = short /\ long' = long
  BY DEF Score, Scanning
<1>2. /\ short \in Seq(Runes) /\ long \in Seq(Runes) /\ n <= Len(long)
      /\ short # <<>> /\ ~Within(short, long) /\ BestSoFar /\ Rows
  BY <1>1 DEF MatchInv
<1>3. /\ n \in Nat \ {0} /\ start \in Nat /\ best \in 0..99 /\ Windows \in Int
      /\ start \in 0..(Windows - 1) /\ start + 1 \in 0..Windows
  <2>1. n \in Nat \ {0} /\ start \in Nat /\ best \in 0..99 /\ Windows \in Int
    BY <1>2 DEF BestSoFar, Windows
  <2>2. QED
    BY <1>1, <2>1
<1>4. /\ Window(start) \in Seq(Runes) /\ Len(Window(start)) = n
      /\ start \in 0..(Len(long) - Len(short))
  BY <1>2, <1>3, WindowOf
<1>5. prev[n] = Common(short, Window(start)) /\ prev[n] \in 0..n
  <2>1. Longest(short, Window(start), n, n, prev[n])
    BY <1>1, <1>2, <1>3 DEF Rows
  <2>2. Longest(short, Window(start), n, n, Common(short, Window(start)))
    BY <1>2, <1>4, CommonLongest
  <2>3. QED
    BY <1>3, <2>1, <2>2, LongestUnique
<1>6. (100 * 2 * prev[n]) \div (2 * n) = new
  <2>1. new = (100 * Common(short, Window(start))) \div n
    BY DEF ScoreAt, Window
  <2> HIDE DEF n
  <2>2. (100 * 2 * prev[n]) \div (2 * n) = (100 * prev[n]) \div n
    BY <1>3, <1>5, Percentage
  <2>3. QED
    BY <1>5, <2>1, <2>2
<1>7. new \in 0..99
  <2>1. new \in 0..100 /\ (new = 100 <=> SubSeq(long, start + 1, start + Len(short)) = short)
    BY <1>2, <1>3, ScoreOf
  <2>2. SubSeq(long, start + 1, start + Len(short)) # short
    BY <1>2, <1>4 DEF Within
  <2> HIDE DEF new
  <2>3. QED
    BY <2>1, <2>2
<1> HIDE DEF new
<1>8. best' = IF best >= new THEN best ELSE new
  <2>1. best \in Int /\ new \in Int
    BY <1>3, <1>7
  <2>2. QED
    BY <1>1, <1>6, <2>1, MaxOfTwo
<1>9. best' \in 0..99
  BY <1>3, <1>7, <1>8
<1>10. /\ \A i \in 0..start : ScoreAt(i) <= best'
       /\ best' = 0 \/ \E i \in 0..start : ScoreAt(i) = best'
  <2>1. /\ \A i \in 0..(start - 1) : ScoreAt(i) <= best
        /\ best = 0 \/ \E i \in 0..(start - 1) : ScoreAt(i) = best
    BY <1>2 DEF BestSoFar
  <2>2. \A i \in 0..start : i = start \/ i \in 0..(start - 1)
    BY <1>3
  <2>3. \A i \in 0..start : ScoreAt(i) <= best'
    <3>1. SUFFICES ASSUME NEW i \in 0..start PROVE ScoreAt(i) <= best'
      OBVIOUS
    <3>2. CASE i = start
      BY <1>3, <1>7, <1>8, <3>2 DEF new
    <3>3. CASE i \in 0..(start - 1)
      <4>1. ScoreAt(i) <= best
        BY <2>1, <3>3
      <4>2. ScoreAt(i) \in Int
        <5>1. i \in 0..(Windows - 1)
          BY <1>3, <3>3
        <5>2. ScoreAt(i) \in 0..100
          BY <1>2, <5>1, ScoreOf
        <5>3. QED
          BY <5>2
      <4>3. QED
        BY <1>3, <1>7, <1>8, <4>1, <4>2
    <3>4. QED
      BY <2>2, <3>2, <3>3
  <2>4. best' = 0 \/ \E i \in 0..start : ScoreAt(i) = best'
    <3>1. CASE best' = new
      <4>1. start \in 0..start
        BY <1>3
      <4>2. QED
        BY <3>1, <4>1 DEF new
    <3>2. CASE best' = best
      <4>1. \A i \in 0..(start - 1) : i \in 0..start
        BY <1>3
      <4>2. QED
        BY <2>1, <3>2, <4>1
    <3>3. QED
      BY <1>8, <3>1, <3>2
  <2>5. QED
    BY <2>3, <2>4
<1>11. BestSoFar'
  <2>1. start' - 1 = start /\ start' \in 0..Windows /\ Windows' = Windows
    BY <1>1, <1>3 DEF Windows
  <2>2. \A i \in 0..start : ScoreAt(i)' = ScoreAt(i)
    BY <1>1 DEF ScoreAt
  <2>3. QED
    BY <1>9, <1>10, <2>1, <2>2 DEF BestSoFar
<1>12. Rows'
  <2>1. Zeros' = Zeros /\ Len(short') \in Nat
    BY <1>1, <1>3 DEF Zeros
  <2>2. row' = 0 /\ column' = 0 /\ prev' = Zeros' /\ curr' = Zeros'
    BY <1>1, <2>1
  <2>3. (Len(short) \in Nat /\ row = 0 /\ column = 0 /\ prev = Zeros /\ curr = Zeros => Rows)'
    BY NewRows, PTL
  <2>4. QED
    BY <2>1, <2>2, <2>3
<1>13. QED
  BY <1>1, <1>2, <1>11, <1>12, Zenon DEF MatchInv, BestAlignment

LEMMA FinishInv ==
  ASSUME MatchInv, Finish
  PROVE  MatchInv'
<1> DEFINE Scores == {ScoreAt(i) : i \in 0..(Len(long) - Len(short))}
<1>1. /\ matching = "comparing" /\ ~Scanning /\ matching' = "scored"
      /\ short' = short /\ long' = long /\ start' = start /\ best' = best
  BY DEF Finish
<1>2. /\ short \in Seq(Runes) /\ long \in Seq(Runes) /\ Len(short) <= Len(long)
      /\ short # <<>> /\ ~Within(short, long) /\ BestSoFar
  BY <1>1 DEF MatchInv
<1>3. /\ best \in 0..99 /\ start \in 0..Windows
      /\ \A i \in 0..(start - 1) : ScoreAt(i) <= best
      /\ best = 0 \/ \E i \in 0..(start - 1) : ScoreAt(i) = best
  BY <1>2 DEF BestSoFar
<1>4. Len(long) - Len(short) \in Nat /\ Windows = Len(long) - Len(short) + 1
  BY <1>2 DEF Windows
<1>5. start = Windows /\ start - 1 = Len(long) - Len(short)
  BY <1>1, <1>3, <1>4 DEF Scanning
<1>6. \A i \in 0..(Len(long) - Len(short)) : ScoreAt(i) \in 0..100
  <2>1. SUFFICES ASSUME NEW i \in 0..(Len(long) - Len(short)) PROVE ScoreAt(i) \in 0..100
    OBVIOUS
  <2>2. i \in 0..(Windows - 1)
    BY <1>4
  <2>3. QED
    BY <1>2, <2>2, ScoreOf
<1>7. best \in Scores
  <2>1. CASE best = 0
    <3>1. 0 \in 0..(Len(long) - Len(short))
      BY <1>4
    <3>2. ScoreAt(0) <= 0 /\ ScoreAt(0) \in 0..100
      BY <1>3, <1>5, <1>6, <2>1, <3>1
    <3>3. ScoreAt(0) = best
      BY <2>1, <3>2
    <3>4. QED
      BY <3>1, <3>3
  <2>2. CASE \E i \in 0..(start - 1) : ScoreAt(i) = best
    BY <1>5, <2>2
  <2>3. QED
    BY <1>3, <2>1, <2>2
<1>8. \A y \in Scores : y <= best
  BY <1>3, <1>5
<1>9. Scores \in SUBSET Int
  <2>0. \A x \in 0..100 : x \in Int
    OBVIOUS
  <2>1. \A i \in 0..(Len(long) - Len(short)) : ScoreAt(i) \in Int
    BY <1>6, <2>0, Zenon
  <2>2. QED
    BY <2>1
<1>10. Max(Scores) = best
  <2> HIDE DEF Scores
  <2>1. QED
    BY <1>7, <1>8, <1>9, MaxIs
<1>11. best # 100
  BY <1>3
<1>12. /\ short # <<>> => best = Max(Scores)
       /\ best = 100 <=> Within(short, long) /\ (short = <<>> => long = <<>>)
  BY <1>2, <1>10, <1>11
<1>13. BestAlignment'
  BY <1>1, <1>12, Zenon DEF BestAlignment, ScoreAt
<1>14. QED
  BY <1>1, <1>2, <1>13, Zenon DEF MatchInv

(* What is left of a name is a name. *)
LEMMA Truncated ==
  ASSUME NEW s \in Seq(Runes)
  PROVE  truncate(s) \in Seq(Runes)
<1>1. CASE Len(s) <= fuzzyMaxLen
  BY <1>1 DEF truncate
<1>2. CASE ~(Len(s) <= fuzzyMaxLen)
  <2>1. truncate(s) = SubSeq(s, 1, fuzzyMaxLen)
    BY <1>2 DEF truncate
  <2>2. QED
    BY <1>2, <2>1, MaxLenAssumption
<1>3. QED
  BY <1>1, <1>2

LEMMA MatchBeginsInv ==
  ASSUME MatchInv, NEW a \in Seq(Runes), NEW b \in Seq(Runes), Match(a, b)
  PROVE  MatchInv'
<1> DEFINE s == short'
           l == long'
           n == Len(s)
<1>1. /\ matching = "idle" /\ start' = start /\ row' = row /\ column' = column
      /\ prev' = Zeros' /\ curr' = Zeros'
  BY DEF Match
<1>2. start = 0 /\ row = 0 /\ column = 0
  BY <1>1 DEF MatchInv
<1>3. /\ s = truncate(IF Len(truncate(a)) > Len(truncate(b)) THEN b ELSE a)
      /\ l = truncate(IF Len(truncate(a)) > Len(truncate(b)) THEN a ELSE b)
  BY DEF Match
<1>4. s \in Seq(Runes) /\ l \in Seq(Runes) /\ n <= Len(l)
  <2>1. truncate(a) \in Seq(Runes) /\ truncate(b) \in Seq(Runes)
    BY Truncated
  <2>2. Len(truncate(a)) \in Nat /\ Len(truncate(b)) \in Nat
    BY <2>1
  <2>3. CASE Len(truncate(a)) > Len(truncate(b))
    BY <1>3, <2>1, <2>2, <2>3
  <2>4. CASE ~(Len(truncate(a)) > Len(truncate(b)))
    BY <1>3, <2>1, <2>2, <2>4
  <2>5. QED
    BY <2>3, <2>4
<1>5. n \in Nat /\ (s # <<>> => n # 0) /\ Len(l) - n \in Nat
  BY <1>4
<1>6. \/ s = <<>> /\ matching' = "scored" /\ best' = IF l = <<>> THEN 100 ELSE 0
      \/ s # <<>> /\ Within(s, l) /\ matching' = "scored" /\ best' = 100
      \/ s # <<>> /\ ~Within(s, l) /\ matching' = "comparing" /\ best' = 0
  BY DEF Match
<1>7. CASE s = <<>> /\ matching' = "scored" /\ best' = IF l = <<>> THEN 100 ELSE 0
  <2>1. Within(s, l)
    <3>1. 0 \in 0..(Len(l) - Len(s)) /\ SubSeq(l, 0 + 1, 0 + Len(s)) = <<>>
      BY <1>4, <1>5, <1>7
    <3>2. QED
      BY <1>7, <3>1 DEF Within
  <2>2. best' = 100 <=> l = <<>>
    BY <1>7
  <2>3. BestAlignment'
    BY <1>7, <2>1, <2>2, Zenon DEF BestAlignment
  <2>4. QED
    BY <1>4, <1>7, <2>3, Zenon DEF MatchInv
<1>8. CASE s # <<>> /\ Within(s, l) /\ matching' = "scored" /\ best' = 100
  <2> DEFINE score(i) == (100 * Common(s, SubSeq(l, i + 1, i + n))) \div n
             Scores == {score(i) : i \in 0..(Len(l) - n)}
  <2>1. \A i \in 0..(Len(l) - n) :
           /\ score(i) \in 0..100
           /\ score(i) = 100 <=> SubSeq(l, i + 1, i + n) = s
    <3>1. ( short \in Seq(Runes) /\ long \in Seq(Runes) /\ Len(short) <= Len(long)
              /\ short # <<>>
            => \A i \in 0..(Windows - 1) :
                 /\ ScoreAt(i) \in 0..100
                 /\ ScoreAt(i) = 100 <=> SubSeq(long, i + 1, i + Len(short)) = short )'
      BY ScoresOf, PTL
    <3>2. (Windows - 1)' = Len(l) - n
      BY <1>5 DEF Windows
    <3>3. \A i \in 0..(Len(l) - n) : ScoreAt(i)' = score(i)
      BY DEF ScoreAt
    <3>4. QED
      BY <1>4, <1>8, <3>1, <3>2, <3>3
  <2>2. PICK i \in 0..(Len(l) - n) : SubSeq(l, i + 1, i + n) = s
    BY <1>8 DEF Within
  <2>3. 100 \in Scores
    BY <2>1, <2>2
  <2>4. Scores \in SUBSET Int /\ \A y \in Scores : y <= 100
    <3>0. \A x \in 0..100 : x \in Int /\ x <= 100
      OBVIOUS
    <3>1. \A j \in 0..(Len(l) - n) : score(j) \in Int /\ score(j) <= 100
      BY <2>1, <3>0, Zenon
    <3> HIDE DEF score
    <3>2. QED
      BY <3>1
  <2>5. Max(Scores) = 100
    <3> HIDE DEF Scores
    <3>1. QED
      BY <2>3, <2>4, MaxIs
  <2>6. BestAlignment'
    BY <1>8, <2>5, Zenon DEF BestAlignment, ScoreAt
  <2>7. QED
    BY <1>4, <1>8, <2>6, Zenon DEF MatchInv
<1>9. CASE s # <<>> /\ ~Within(s, l) /\ matching' = "comparing" /\ best' = 0
  <2>1. Rows'
    <3>1. (Len(short) \in Nat /\ row = 0 /\ column = 0 /\ prev = Zeros /\ curr = Zeros => Rows)'
      BY NewRows, PTL
    <3>2. QED
      BY <1>1, <1>2, <1>5, <3>1
  <2>2. BestSoFar'
    <3>1. start' \in 0..Windows'
      BY <1>1, <1>2, <1>5 DEF Windows
    <3>2. best' \in 0..99 /\ best' = 0
      BY <1>9
    <3>3. \A i \in 0..(start' - 1) : FALSE
      BY <1>1, <1>2
    <3>4. QED
      BY <3>1, <3>2, <3>3 DEF BestSoFar
  <2>3. BestAlignment'
    BY <1>9 DEF BestAlignment
  <2>4. QED
    BY <1>4, <1>9, <2>1, <2>2, <2>3, Zenon DEF MatchInv
<1>10. QED
  BY <1>6, <1>7, <1>8, <1>9

LEMMA MatchInvStep ==
  ASSUME MatchInv, [MatchNext]_matchVars
  PROVE  MatchInv'
<1>1. ASSUME NEW a \in Names, NEW b \in Names, Match(a, b) PROVE MatchInv'
  <2>1. a \in Seq(Runes) /\ b \in Seq(Runes)
    BY DEF Names
  <2>2. QED
    BY <1>1, <2>1, MatchBeginsInv
<1>2. CASE UNCHANGED matchVars
  BY <1>2, Zenon DEF matchVars, MatchInv, BestSoFar, Rows, BestAlignment, ScoreAt, Windows, Window
<1>3. QED
  BY <1>1, <1>2, FillInv, SwapInv, ScoreInv, FinishInv DEF MatchNext

(* For names of any length: partialRatio gives the best percentage of the  *)
(* shorter name that any window of the longer one has in common with it,   *)
(* and 100 exactly where the name occurs.                                  *)
THEOREM ScoreIsBestAlignment == MatchSpec => []BestAlignment
<1>1. MatchInv /\ [MatchNext]_matchVars => MatchInv'
  BY MatchInvStep
<1>2. MatchInv => BestAlignment
  BY DEF MatchInv
<1>3. QED
  BY <1>1, <1>2, MatchInitInv, PTL DEF MatchSpec

(* The scan of the windows never ends early: a name that would score 100   *)
(* has been found by the search for it before.                             *)
THEOREM ScanNeverEndsEarly == MatchSpec => [](matching = "comparing" => best < 100)
<1>1. MatchInv /\ [MatchNext]_matchVars => MatchInv'
  BY MatchInvStep
<1>2. MatchInv => (matching = "comparing" => best < 100)
  <2>1. ASSUME MatchInv, matching = "comparing" PROVE best < 100
    <3>1. best \in 0..99
      BY <2>1 DEF MatchInv, BestSoFar
    <3>2. QED
      BY <3>1
  <2>2. QED
    BY <2>1
<1>3. QED
  BY <1>1, <1>2, MatchInitInv, PTL DEF MatchSpec
=============================================================================
