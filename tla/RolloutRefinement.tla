------------------------- MODULE RolloutRefinement -------------------------
(***************************************************************************)
(* RollingUpgrade implements NodeLifecycle as long as nobody uncordons     *)
(* nodes: the mapping from its state to the phases of nodes.               *)
(***************************************************************************)
EXTENDS RolloutInvariant

PhaseOf(i) ==
    IF lifecycle[i] = "gone" THEN "gone"
    ELSE IF ~Exists(i) THEN "absent"
    ELSE IF i \in retired THEN "retired"
    ELSE IF nodes[i].unschedulable THEN "closed"
    ELSE "open"

Phases == [i \in Instances |-> PhaseOf(i)]

\* What a new execution finds on the API server.
OnRecord == {i \in Instances : Exists(i) /\ "drained" \in nodes[i].marks}

\* Pods run on nodes that exist.
PodsHaveNodes == \A p \in Pods : loc[p] # Unplaced => Exists(loc[p])

Lifecycle == INSTANCE NodeLifecycle WITH
    Nodes <- Instances, phase <- Phases, place <- loc, recorded <- OnRecord

\* Whatever fails, crashes, overlaps or is rolled back, the cluster only ever
\* moves as NodeLifecycle allows (README.md:11, `scale down outdated nodes
\* gracefully', and README.md:34, `the steps of each action are persisted').
LifecycleKept == Lifecycle!Spec
=============================================================================
