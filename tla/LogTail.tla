------------------------------- MODULE LogTail -------------------------------
(***************************************************************************)
(* logTail: the last lines of the client's stderr, which arrives in pieces *)
(* cut anywhere, and the one message of them an error report names.        *)
(*                                                                         *)
(* A stream is a sequence of tokens: "nl" and "cr", "error" for [ERROR],   *)
(* "dash" for the "] - " before a message, "code" for an ERRCONNECT_ or    *)
(* ERRINFO_ name, and anything else.                                       *)
(***************************************************************************)
EXTENDS Integers, Sequences, FiniteSets, FiniteSetsExt, Subsequences

CONSTANTS
  Words,      \* tokens that mean nothing to the code
  Kept,       \* lines kept (rdpLogLines)
  MaxPiece,   \* bound: tokens of one Write
  MaxStream   \* bound: tokens of the whole stream

ASSUME KeptAssumption == Kept \in Nat

Tokens == Words \cup {"nl", "cr", "error", "dash", "code"}

VARIABLES
  writing,  \* a Write holds the lock
  stream,   \* what has been written so far, for the properties
  partial,  \* the line that has not ended
  lines     \* the last complete lines

logVars == <<writing, stream, partial, lines>>

LogInit == writing = FALSE /\ stream = <<>> /\ partial = <<>> /\ lines = <<>>

-----------------------------------------------------------------------------
\* strings.TrimRight(line, "\r")
TrimRight(line) ==
  LET solid == {i \in DOMAIN line : line[i] # "cr"}
  IN  IF solid = {} THEN <<>> ELSE SubSeq(line, 1, Max(solid))

\* The ends of line in s.
Ends(s) == {i \in DOMAIN s : s[i] = "nl"}

(* Mutant: a line is begun anew with every piece. *)
WriteAnew(piece) ==
  /\ ~writing
  /\ Len(stream) + Len(piece) <= MaxStream
  /\ writing' = TRUE
  /\ stream' = stream \o piece
  /\ partial' = piece
  /\ UNCHANGED lines

\* A Write takes the lock and joins the piece to what has no end yet.
Write(piece) ==
  /\ ~writing
  /\ Len(stream) + Len(piece) <= MaxStream
  /\ writing' = TRUE
  /\ stream' = stream \o piece
  /\ partial' = partial \o piece
  /\ UNCHANGED lines

\* One turn of its loop: the first line that has ended is cut off.
CutLine ==
  /\ writing
  /\ Ends(partial) # {}
  /\ LET i == Min(Ends(partial))
     IN  /\ lines' = Append(lines, TrimRight(SubSeq(partial, 1, i - 1)))
         /\ partial' = SubSeq(partial, i + 1, Len(partial))
  /\ UNCHANGED <<writing, stream>>

\* No line is left to cut: the oldest go, and the lock with them.
Release ==
  /\ writing
  /\ Ends(partial) = {}
  /\ lines' = IF Len(lines) > Kept THEN SubSeq(lines, Len(lines) - Kept + 1, Len(lines)) ELSE lines
  /\ writing' = FALSE
  /\ UNCHANGED <<stream, partial>>

Pieces == UNION {[1..n -> Tokens] : n \in 1..MaxPiece}

LogNext == (\E piece \in Pieces : Write(piece)) \/ CutLine \/ Release

LogSpec == LogInit /\ [][LogNext]_logVars

-----------------------------------------------------------------------------
Has(line, token) == \E i \in DOMAIN line : line[i] = token

\* What follows the first "] - " of a line, or all of it.
Message(line) ==
  LET cuts == {i \in DOMAIN line : line[i] = "dash"}
  IN  IF cuts = {} THEN line ELSE SubSeq(line, Min(cuts) + 1, Len(line))

(* Mutant: the newest error is taken, whatever it names. *)
newestError ==
  LET errors == {i \in DOMAIN lines : Has(lines[i], "error")}
  IN  IF errors = {} THEN <<>> ELSE Message(lines[Max(errors)])

\* The newest error that names a code; without one, the newest error that has
\* a message.
lastError ==
  LET errors == {i \in DOMAIN lines : Has(lines[i], "error")}
      coded  == {i \in errors : Has(Message(lines[i]), "code")}
      worded == {i \in errors : Message(lines[i]) # <<>>}
  IN  IF coded # {} THEN Message(lines[Max(coded)])
      ELSE IF worded # {} THEN Message(lines[Max(worded)])
      ELSE <<>>

-----------------------------------------------------------------------------
(* Properties: what a reader finds, who takes the lock when no Write has it. *)

\* Line k of a stream, read off it as a whole: it lies between two consecutive
\* ends of line.
LineOf(s, k) ==
  LET begin == IF k = 1 THEN 0 ELSE Nth(Ends(s), k - 1)
  IN  TrimRight(SubSeq(s, begin + 1, Nth(Ends(s), k) - 1))

LinesIn(s) == Cardinality(Ends(s))

\* What follows the last of its ends.
Unended(s) ==
  SubSeq(s, (IF Ends(s) = {} THEN 0 ELSE Nth(Ends(s), LinesIn(s))) + 1, Len(s))

\* However the stream was cut into pieces, the tail is its last complete lines,
\* and what has no end yet waits for it, whole.
TailKeepsNewest ==
  ~writing =>
    LET n == LinesIn(stream)
    IN  /\ Len(lines) = Min({n, Kept})
        /\ \A k \in DOMAIN lines : lines[k] = LineOf(stream, n - Len(lines) + k)
        /\ partial = Unended(stream)

\* "FreeRDP logs the cause first and then generic failures as the connection
\* unwinds": an error that names its code is what is reported, unless so many
\* lines have followed it that it is gone.
CauseReported ==
  LET n == LinesIn(stream)
      Cause(k) == /\ Has(LineOf(stream, k), "error")
                  /\ Has(Message(LineOf(stream, k)), "code")
  IN  ~writing /\ (\E k \in 1..n : k > n - Kept /\ Cause(k)) => Has(lastError, "code")
=============================================================================
