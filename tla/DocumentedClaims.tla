-------------------------- MODULE DocumentedClaims --------------------------
(***************************************************************************)
(* What the README and the comments of the repository say of a rolling     *)
(* update, where the code does otherwise.  Each property is checked by a   *)
(* run of its own that finds a counterexample.                             *)
(***************************************************************************)
EXTENDS RollingUpgrade

\* Execution e takes its next step from one label to another, and the process
\* does not die.
Moves(e, from, to) == exec[e].pc = from /\ exec'[e].pc \in to /\ meddled' = meddled

\* main.go, end of the loop over outdated instances: `we return here to make
\* sure that multiple old instances didn't use the same updated instances to
\* calculate resources available'.
RoomIsNotShared ==
    \A e \in Execs, g \in Groups :
        Cardinality({d \in exec[e].did : d[1] = "drain" /\ GroupOf[d[2]] = g}) =< 1

\* README.md: `Scale down outdated nodes gracefully': the drain of an outdated
\* instance is only skipped when it hosts no workload.
WorkloadIsDrained ==
    [][\A e \in Execs :
          LET i == exec[e].inst IN
          Moves(e, "check", {"terminate"}) /\ version[i] # target[GroupOf[i]] => PodsOn(i) = {}]_vars
=============================================================================
