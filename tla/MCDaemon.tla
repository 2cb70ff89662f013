------------------------------ MODULE MCDaemon ------------------------------
(* The instance of Daemon for TLC takes its constants as they are.         *)
EXTENDS Daemon
=============================================================================
