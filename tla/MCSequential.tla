---------------------------- MODULE MCSequential ----------------------------
(***************************************************************************)
(* The parts of the program that run alone, one of them per behaviour: the *)
(* choice of tools, and the algorithms whose inputs are enumerated up to   *)
(* the bounds.                                                             *)
(***************************************************************************)
EXTENDS MCToolSelection, Glide, Typing, LogTail, FuzzyMatch

VARIABLE job  \* which of them

Positions == -4..5
TwoLetters == {"a", "b"}

Jobs == {"tools", "glide", "typing", "log", "match"}

allVars == <<vars, job, glideVars, typingVars, logVars, matchVars>>

MCInit ==
  /\ job \in Jobs
  /\ Init /\ GlideInit /\ TypingInit /\ LogInit /\ MatchInit

MCNext ==
  /\ UNCHANGED job
  /\ \/ job = "tools"  /\ Next       /\ UNCHANGED <<glideVars, typingVars, logVars, matchVars>>
     \/ job = "glide"  /\ GlideNext  /\ UNCHANGED <<vars, typingVars, logVars, matchVars>>
     \/ job = "typing" /\ TypingNext /\ UNCHANGED <<vars, glideVars, logVars, matchVars>>
     \/ job = "log"    /\ LogNext    /\ UNCHANGED <<vars, glideVars, typingVars, matchVars>>
     \/ job = "match"  /\ MatchNext  /\ UNCHANGED <<vars, glideVars, typingVars, logVars>>

MCSpec == MCInit /\ [][MCNext]_allVars
=============================================================================
