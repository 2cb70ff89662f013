-------------------------- MODULE MCDeployments ---------------------------
(* Instances of Deployments for TLC: a daemon and one command beside it.   *)
EXTENDS Deployments

CONSTANT c1

OneCli == {c1}

Commands == {"release", "force", "detach"}
AllCommands == Commands \cup {"rollback"}

\* What the lock may depend on: a deployment that is over does nothing more,
\* and what the proxy served when one began is history.
StillMatters(deployment) ==
    IF deployment.pc = "done" THEN [NoDeploy EXCEPT !.pc = "done"]
    ELSE [deployment EXCEPT !.found = {}]
LockView ==
    <<world, file, lock, active, calls, asked, cancelled,
      [d \in Deploy |-> StillMatters(dep[d])]>>
=============================================================================
