---------------------------- MODULE MCRdpSession ----------------------------
(* RdpSession on two calls and at most two runs of xfreerdp.                *)
EXTENDS RdpSession, Sequences

CONSTANTS c1, c2

TwoCalls == {c1, c2}

\* A Click, a Move and a Shortcut are each one input whose error counts, so one of
\* them stands for all beside another tool; which call has which does not matter.
Apart == <<"Shortcut", "Type", "Drag", "Scroll", "Snapshot", "Agent">>

Mixes ==
  {<<"Click", "Move">>}
  \cup {<<Apart[i], Apart[j]>> : <<i, j>> \in {p \in (1..6) \X (2..6) : p[1] <= p[2]}}

MCInit == Init /\ <<kind[c1], kind[c2]>> \in Mixes

MCSpec == MCInit /\ [][Next]_vars /\ Fairness
=============================================================================
