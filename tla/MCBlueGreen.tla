---------------------------- MODULE MCBlueGreen ----------------------------
(* Instances of BlueGreen for TLC: which failures may happen.              *)
EXTENDS BlueGreen

\* Everything but a listing that loses the new containers.
AnyFault == FaultKinds \ {"vanish"}
=============================================================================
