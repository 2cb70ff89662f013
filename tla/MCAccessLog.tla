---------------------------- MODULE MCAccessLog ----------------------------
(* An instance of AccessLog for TLC.                                       *)
EXTENDS AccessLog
CONSTANT r1
OneReader == {r1}
SecondLine == {2}
=============================================================================
