------------------------------ MODULE MCDirRpc ------------------------------
(* DirRpc on two relayed calls and a connection that is lost up to twice.  *)
EXTENDS DirRpc

CONSTANTS c1, c2

TwoCalls == {c1, c2}
=============================================================================
