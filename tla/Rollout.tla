------------------------------ MODULE Rollout ------------------------------
(***************************************************************************)
(* What every release strategy of docker-release promises, without saying  *)
(* how: traffic is moved between the containers of one service, and the    *)
(* ones that no longer carry any are taken away.  Linear, Canary and       *)
(* BlueGreen are each shown to implement this specification.               *)
(***************************************************************************)

CONSTANTS
    Containers,     \* every container the release may touch
    Serving         \* the ones that carry the traffic before it starts

VARIABLES
    routed,         \* the containers the proxy may send a request to
    ready,          \* the containers seen healthy, or serving from the start
    gone            \* the containers removed from Docker

rolloutVars == <<routed, ready, gone>>

RolloutInit ==
    /\ routed = Serving
    /\ ready = Serving
    /\ gone = {}

\* A container passes its health check.
BecomeReady(c) ==
    /\ ready' = ready \cup {c}
    /\ UNCHANGED <<routed, gone>>

\* Traffic moves to S: some container, each of them ready and still there.
Route(S) ==
    /\ S # {}
    /\ S \subseteq ready \ gone
    /\ routed' = S
    /\ UNCHANGED <<ready, gone>>

\* Containers that carry no traffic are removed.
Retire(S) ==
    /\ S \cap routed = {}
    /\ gone' = gone \cup S
    /\ UNCHANGED <<routed, ready>>

RolloutNext ==
    \/ \E c \in Containers : BecomeReady(c)
    \/ \E S \in SUBSET Containers : Route(S) \/ Retire(S)

RolloutSpec == RolloutInit /\ [][RolloutNext]_rolloutVars

=============================================================================
