------------------------------ MODULE MCLinear -----------------------------
(* Instances of Linear for TLC: which failures may happen.                 *)
EXTENDS Linear

\* Everything but a listing that loses the new containers.
AnyFault == FaultKinds \ {"vanish"}
=============================================================================
