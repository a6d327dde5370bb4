--------------------------- MODULE MCTaskManager ---------------------------
(* TaskManager on a few calls: one desktop slot, two query slots and a     *)
(* history of one finished task.                                           *)
EXTENDS TaskManager

CONSTANTS c1, c2, c3

MCLimit == [k \in Category |-> IF k = "query" THEN 2 ELSE 1]
TwoCalls   == {c1, c2}
ThreeCalls == {c1, c2, c3}
AllKinds     == {"Click", "CancelTask", "GetRunningTasks"}
ClickAndList == {"Click", "GetRunningTasks"}

\* Which call has which tool does not matter: three for the desktop slot, two or
\* one with calls that cancel them, and three for the two query slots.
Mixes ==
  {<<"Click", "Click", "Click">>, <<"Click", "Click", "CancelTask">>,
   <<"Click", "CancelTask", "CancelTask">>, <<"Click", "CancelTask", "GetRunningTasks">>,
   <<"CancelTask", "CancelTask", "GetRunningTasks">>}

MCInit == Init /\ <<tool[c1], tool[c2], tool[c3]>> \in Mixes

MCSpec == MCInit /\ [][Next]_vars /\ Fairness
=============================================================================
