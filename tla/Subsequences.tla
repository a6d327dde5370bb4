---------------------------- MODULE Subsequences ----------------------------
(* Places in a sequence, and what it has at some of them, in order.         *)
EXTENDS Integers, Sequences, FiniteSets

\* How many of the places there are up to i.
Rank(places, i) == Cardinality({p \in places : p <= i})

\* The k-th of them.
Nth(places, k) == CHOOSE p \in places : Rank(places, p) = k

Subsequence(s, places) ==
  [k \in 1..Cardinality(places) |-> s[Nth(places, k)]]
=============================================================================
