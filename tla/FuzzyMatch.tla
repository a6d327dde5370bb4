----------------------------- MODULE FuzzyMatch -----------------------------
(***************************************************************************)
(* partialRatio: how well the shorter of two names fits any part of the    *)
(* longer one, 0 to 100.  FocusWindow picks the best title by it and       *)
(* ListProcesses filters by it.                                            *)
(***************************************************************************)
EXTENDS Integers, Sequences, FiniteSets, FiniteSetsExt

CONSTANTS
  Runes,
  fuzzyMaxLen,  \* what is compared of a name
  MaxName       \* bound: runes of a name

ASSUME MaxLenAssumption == fuzzyMaxLen \in Nat

VARIABLES
  matching,     \* idle, comparing, scored
  short, long,  \* the two names, the shorter one first
  start,        \* where the window being compared begins
  prev, curr,   \* two rows of the table
  row, column,  \* how much of them is done
  best          \* the best score so far

matchVars == <<matching, short, long, start, prev, curr, row, column, best>>

Names == UNION {[1..n -> Runes] : n \in 0..MaxName}

MatchInit ==
  /\ matching = "idle"
  /\ short = <<>> /\ long = <<>>
  /\ start = 0 /\ row = 0 /\ column = 0 /\ best = 0
  /\ prev = [j \in {0} |-> 0] /\ curr = prev

-----------------------------------------------------------------------------
truncate(s) == IF Len(s) <= fuzzyMaxLen THEN s ELSE SubSeq(s, 1, fuzzyMaxLen)

Within(a, b) == \E i \in 0..(Len(b) - Len(a)) : SubSeq(b, i + 1, i + Len(a)) = a

Zeros == [j \in 0..Len(short) |-> 0]

(* Mutant: the last window is not compared. *)
WindowsShort == Len(long) - Len(short)

\* How many windows there are.
Windows == Len(long) - Len(short) + 1

\* The shorter name first, both cut; what needs no scan is scored at once.
Match(a, b) ==
  /\ matching = "idle"
  /\ LET swap == Len(truncate(a)) > Len(truncate(b))
     IN  /\ short' = truncate(IF swap THEN b ELSE a)
         /\ long'  = truncate(IF swap THEN a ELSE b)
  /\ prev' = Zeros' /\ curr' = Zeros'
  /\ UNCHANGED <<start, row, column>>
  /\ \/ /\ short' = <<>>
        /\ matching' = "scored"
        /\ best' = IF long' = <<>> THEN 100 ELSE 0
     \/ /\ short' # <<>>
        /\ Within(short', long')
        /\ matching' = "scored"
        /\ best' = 100
     \/ /\ short' # <<>>
        /\ ~Within(short', long')
        /\ matching' = "comparing"
        /\ best' = 0

\* A perfect score ends the scan early.
Scanning == matching = "comparing" /\ start < Windows /\ best # 100

\* lcs of the shorter name and the window, one cell of its table after the
\* other.
Fill ==
  /\ Scanning
  /\ row < Len(short)
  /\ column < Len(short)
  /\ LET j == column + 1
     IN  curr' = [curr EXCEPT ![j] =
                    IF short[row + 1] = long[start + j] THEN prev[j - 1] + 1
                    ELSE Max({prev[j], curr[j - 1]})]
  /\ column' = column + 1
  /\ UNCHANGED <<matching, short, long, start, prev, row, best>>

\* The next row is written over the one before the last.
Swap ==
  /\ Scanning
  /\ row < Len(short)
  /\ column = Len(short)
  /\ prev' = curr /\ curr' = prev
  /\ row' = row + 1 /\ column' = 0
  /\ UNCHANGED <<matching, short, long, start, best>>

\* The window is done: its score counts if it is the best, and the next one is
\* compared on a new table.
Score ==
  /\ Scanning
  /\ row = Len(short)
  /\ best' = Max({best, (100 * 2 * prev[Len(short)]) \div (2 * Len(short))})
  /\ start' = start + 1
  /\ row' = 0 /\ column' = 0
  /\ prev' = Zeros /\ curr' = Zeros
  /\ UNCHANGED <<matching, short, long>>

Finish ==
  /\ matching = "comparing"
  /\ ~Scanning
  /\ matching' = "scored"
  /\ UNCHANGED <<short, long, start, prev, curr, row, column, best>>

MatchNext == (\E a, b \in Names : Match(a, b)) \/ Fill \/ Swap \/ Score \/ Finish

MatchSpec == MatchInit /\ [][MatchNext]_matchVars
-----------------------------------------------------------------------------
(* Properties *)

\* Ways to read a and b side by side: pairs of places with the same rune, each
\* pair after or before every other in both.
Alignments(a, b) ==
  {A \in SUBSET {p \in (DOMAIN a) \X (DOMAIN b) : a[p[1]] = b[p[2]]} :
     \A p, q \in A : \/ p = q
                     \/ p[1] < q[1] /\ p[2] < q[2]
                     \/ q[1] < p[1] /\ q[2] < p[2]}

\* The length of the longest common subsequence.
Common(a, b) == Max({Cardinality(A) : A \in Alignments(a, b)})

\* The score of the window that begins after i runes.
ScoreAt(i) == (100 * Common(short, SubSeq(long, i + 1, i + Len(short)))) \div Len(short)

\* The score is that of the best alignment of the shorter name with a window of
\* its length, by a definition of the common subsequence that uses no table, and
\* 100 exactly where the name occurs; no window is missed, the last included,
\* and no row holds what an earlier row or window left there.
BestAlignment ==
  matching = "scored" =>
    /\ short # <<>> => best = Max({ScoreAt(i) : i \in 0..(Len(long) - Len(short))})
    /\ best = 100 <=> Within(short, long) /\ (short = <<>> => long = <<>>)
=============================================================================
