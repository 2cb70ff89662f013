------------------------------ MODULE MCCanary -----------------------------
(* Instances of Canary for TLC: which failures may happen.                 *)
EXTENDS Canary

\* Everything but a listing that loses the new containers.
AnyFault == FaultKinds \ {"vanish"}
=============================================================================
