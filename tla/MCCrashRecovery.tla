-------------------------- MODULE MCCrashRecovery --------------------------
(* Instances of CrashRecovery for TLC: which failures may happen.          *)
EXTENDS CrashRecovery

\* A service without any rule and one with all of them.
NoneOrAll == {[preview |-> b, link |-> b, check |-> b, watch |-> b] : b \in BOOLEAN}

NoFault == {}

\* Everything but a container that exits, which its restart policy may bring
\* back after the configs were written, and a failed inspection, which hides a
\* container from the rollback.
SomeFault == FaultKinds \ {"exit", "inspect"}

\* What may happen any number of times without keeping the service busy: no
\* refused config, no failed save and no failed inspection.
HealthFault == {"health", "exit", "remove", "cancel"}
=============================================================================
