---------------------------- MODULE MCAgentCalls ----------------------------
(* AgentCalls with two calls, of tools that have something to do with each  *)
(* other: the input, the session, the clipboard or a slot.                  *)
EXTENDS AgentCalls

CONSTANTS c1, c2, me, guest

TwoCalls == {c1, c2}
TwoUsers == {me, guest}
Alone    == {me}

Pairs ==
  {<<"Click", "Type">>, <<"Move", "Shortcut">>, <<"Drag", "Drag">>, <<"Drag", "Scroll">>,
   <<"ForceReconnect", "Reconnect">>, <<"Reconnect", "Scroll">>,
   <<"Snapshot", "Shortcut">>, <<"AnnotatedSnapshot", "Scroll">>, <<"OCR", "Click">>,
   <<"Launch", "Type">>, <<"Shell", "Table">>, <<"Ping", "Shell">>,
   <<"GetClipboard", "SetClipboard">>, <<"SetClipboard", "SetClipboard">>}

Work(pairs) == {[c \in TwoCalls |-> IF c = c1 THEN p[1] ELSE p[2]] : p \in pairs}

SomeWork     == Work(Pairs)
ShellWork    == Work({<<"Shell", "Table">>})
Reconnecting == Work({<<"Reconnect", "Scroll">>})

\* Only those who look at the sessions make them matter, and a second user comes
\* by only while one of them does.
Looking == {c \in Calls : kind[c] \in Reconnects \cup Captures}
Visited == Looking # {} /\ kind[c2] = "Scroll"

MCInit ==
  /\ Init
  /\ ~Visited => session[guest] = "none"
  /\ Looking = {} => session[me] = "console"

MCNext == Next /\ (~Visited => session'[guest] = "none")

MCSpec == MCInit /\ [][MCNext]_vars /\ Fairness
=============================================================================
