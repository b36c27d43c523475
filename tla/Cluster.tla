------------------------------ MODULE Cluster ------------------------------
(***************************************************************************)
(* The Kubernetes side of a rolling update: the API server's nodes, the    *)
(* pods on them, and the client of k8s/client.go with its process-wide     *)
(* cache of the node list.  An instance and its node share one name.       *)
(*                                                                         *)
(* A node in the cache is a COPY with the resource version it was listed   *)
(* at: an update sent from it is refused once the API server's node has    *)
(* changed (409).  The copies' annotation and label maps are shared by     *)
(* everyone who reads the cache, so a mark set on one stays visible in the *)
(* cache even when the update that should persist it is refused.           *)
(***************************************************************************)
EXTENDS AutoScaling

CONSTANTS
    Pods,        \* pods of the workload (DaemonSets are left out), one unit each
    Capacity,    \* units of allocatable resources of a node
    Fallible,    \* the remote calls that may fail for no reason of the model
    NoNode, NoCache, Unplaced

Node == [ready : BOOLEAN, unschedulable : BOOLEAN,
         late : BOOLEAN,     \* the NoSchedule taint was added after started-at
         marks : SUBSET {"started", "drained", "terminated", "excluded"}]

NodeList == [Instances -> Node \cup {NoNode}]

ASSUME ClusterAssumption ==
    /\ IsFiniteSet(Pods)
    /\ Capacity \in Nat
    /\ NoNode \notin Node
    /\ NoCache \notin NodeList
    /\ Unplaced \notin Instances

VARIABLES
    nodes,   \* the API server's nodes
    loc,     \* where each pod is bound; Unplaced is pending
    cache,   \* the client's cached node list, NoCache once expired
    stale    \* cached nodes whose resource version is no longer current

clusterVars == <<nodes, loc, cache, stale>>

ClusterTypeOK ==
    /\ nodes \in NodeList
    /\ loc \in [Pods -> Instances \cup {Unplaced}]
    /\ cache \in NodeList \cup {NoCache}
    /\ stale \subseteq Instances

FreshNode == [ready |-> FALSE, unschedulable |-> FALSE, late |-> FALSE, marks |-> {}]

PodsOn(i) == {p \in Pods : loc[p] = i}
Exists(i) == nodes[i] # NoNode

ClusterInit ==
    /\ nodes = [i \in Instances |-> IF i \in Initial THEN [FreshNode EXCEPT !.ready = TRUE] ELSE NoNode]
    /\ loc \in [Pods -> Initial]
    /\ \A i \in Initial : Cardinality(PodsOn(i)) =< Capacity
    /\ cache = NoCache
    /\ stale = {}

\* The API server's node i has changed: a cached copy of it is out of date.
Touch(i) == stale' = IF cache = NoCache THEN {} ELSE stale \cup {i}

-----------------------------------------------------------------------------
(* The client's view of the nodes: the cache, or a new listing that fills  *)
(* it.                                                                     *)

View == IF cache = NoCache THEN nodes ELSE cache
ViewStale == IF cache = NoCache THEN {} ELSE stale

ListingFails == cache = NoCache /\ "ListNodes" \in Fallible
NodeNotFound(i) == View[i] = NoNode

\* GetNodes: list once, serve from the cache until it expires.
GetNodes == cache' = View /\ stale' = ViewStale

CacheExpires ==
    /\ cache # NoCache
    /\ cache' = NoCache
    /\ stale' = {}
    /\ UNCHANGED <<nodes, loc>>

\* The node an update writes: the cached copy with its new mark.  The
\* kubelet owns the status, which an update of the node does not touch.
Marked(n, mark) ==
    [n EXCEPT !.marks = @ \cup {mark}, !.late = IF mark = "started" THEN FALSE ELSE @]

\* Mutant: last writer wins.
UpdateAccepted_Blindly(i) == TRUE

\* UpdateNode succeeds only from a copy that is still current.
UpdateAccepted(i) == i \notin ViewStale
UpdateRefused(i) == i \in ViewStale \/ "UpdateNode" \in Fallible

\* Write a mark on the copy, persisted or not.
WriteMark(i, mark, persisted) ==
    /\ ~NodeNotFound(i)
    /\ cache' = [View EXCEPT ![i] = Marked(@, mark)]
    /\ IF persisted
       THEN /\ UpdateAccepted(i)
            /\ nodes' = [nodes EXCEPT ![i] = [Marked(View[i], mark) EXCEPT !.ready = nodes[i].ready]]
            /\ stale' = ViewStale \cup {i}
       ELSE /\ UpdateRefused(i)
            /\ nodes' = nodes
            /\ stale' = ViewStale
    /\ loc' = loc

\* The node cannot be had: nothing is written.
MarkImpossible(i) ==
    \/ /\ NodeNotFound(i)
       /\ GetNodes
       /\ UNCHANGED <<nodes, loc>>
    \/ /\ ListingFails
       /\ UNCHANGED clusterVars

\* AnnotateNodeByAutoScalingInstance.  The value is the present time, so it
\* always differs from an earlier one and is always written.
AnnotateNode(i, mark) == WriteMark(i, mark, TRUE)
AnnotateFails(i, mark) == WriteMark(i, mark, FALSE) \/ MarkImpossible(i)

\* LabelNodeByAutoScalingInstance: no update when the label has its value.
LabelNode(i, mark) ==
    \/ /\ ~NodeNotFound(i)
       /\ mark \in View[i].marks
       /\ GetNodes
       /\ UNCHANGED <<nodes, loc>>
    \/ /\ ~NodeNotFound(i)
       /\ mark \notin View[i].marks
       /\ \E persisted \in BOOLEAN : WriteMark(i, mark, persisted)
    \/ MarkImpossible(i)

\* EDGE-0001: a node that is up to date again loses its started-at mark and
\* the taint added after it.  The taint is the node controller's shadow of
\* Spec.Unschedulable, which stays, so the controller adds it again.
Stained(updated) ==
    {i \in updated : /\ "started" \in View[i].marks
                     /\ View[i].unschedulable
                     /\ View[i].late}

\* Mutant: the clean-up uncordons the node and leaves drained-at on it.
Cleaned_Uncordons(n) == [n EXCEPT !.marks = @ \ {"started"}, !.late = FALSE, !.unschedulable = FALSE]

Cleaned(n) == [n EXCEPT !.marks = @ \ {"started"}, !.late = FALSE]

CleanUp(stained, persisted) ==
    /\ \A i \in persisted : UpdateAccepted(i)
    /\ \A i \in stained \ persisted : UpdateRefused(i)
    /\ cache' = [i \in Instances |-> IF i \in stained THEN Cleaned(View[i]) ELSE View[i]]
    /\ nodes' = [i \in Instances |-> IF i \in persisted
                                     THEN [Cleaned(View[i]) EXCEPT !.ready = nodes[i].ready]
                                     ELSE nodes[i]]
    /\ stale' = ViewStale \cup persisted
    /\ loc' = loc

\* Cordon, and the first half of Drain: both read the live node.
Cordon(i) ==
    /\ Exists(i)
    /\ IF nodes[i].unschedulable
       THEN UNCHANGED <<nodes, stale>>
       ELSE /\ nodes' = [nodes EXCEPT ![i].unschedulable = TRUE,
                                      ![i].late = "started" \in nodes[i].marks]
            /\ Touch(i)
    /\ UNCHANGED <<loc, cache>>

\* Mutant: an evicted pod is lost.
Evict_Lost(p) ==
    /\ loc' = [q \in Pods \ {p} |-> loc[q]]
    /\ UNCHANGED <<nodes, cache, stale>>

Evict(p) ==
    /\ loc' = [loc EXCEPT ![p] = Unplaced]
    /\ UNCHANGED <<nodes, cache, stale>>

\* What the listings of pods return, node by node.  They are served from the
\* API server's watch cache (resource version 0); if it lags behind, all that
\* is known of them is that they list pods.
Listings ==
    IF "PodLag" \in Fallible THEN [Instances -> SUBSET Pods]
    ELSE {[i \in Instances |-> PodsOn(i)]}

\* Mutant: what the updated nodes host already is not subtracted.
EnoughResources_TargetsEmpty(listing, old, counted) ==
    Cardinality(listing[old]) =< Capacity * Cardinality(counted)

\* CheckIfUpdatedNodesHaveEnoughResourcesToScheduleAllPodsFromOldNode, from
\* the listings of the nodes in `counted' only: a node whose pods cannot be
\* listed is skipped.  Resources looks into the sums of this check.
EnoughResources(listing, old, counted) ==
    Cardinality({c \in counted \X Pods : c[2] \in listing[c[1]]}) + Cardinality(listing[old])
        =< Capacity * Cardinality(counted)

Countable(targets) == IF "ListPods" \in Fallible THEN SUBSET targets ELSE {targets}

-----------------------------------------------------------------------------
(* What Kubernetes, AWS and operators do to the cluster.                   *)

NodeJoins(i) ==
    /\ ~Exists(i)
    /\ lifecycle[i] \in {"Pending", "InService"}
    /\ nodes' = [nodes EXCEPT ![i] = FreshNode]
    /\ Touch(i)
    /\ UNCHANGED <<loc, cache>>

NodeBecomesReady(i) ==
    /\ Exists(i)
    /\ ~nodes[i].ready
    /\ nodes' = [nodes EXCEPT ![i].ready = TRUE]
    /\ Touch(i)
    /\ UNCHANGED <<loc, cache>>

Schedulable(i) ==
    /\ Exists(i)
    /\ nodes[i].ready
    /\ ~nodes[i].unschedulable
    /\ Cardinality(PodsOn(i)) < Capacity

Schedule(p, i) ==
    /\ loc[p] = Unplaced
    /\ Schedulable(i)
    /\ loc' = [loc EXCEPT ![p] = i]
    /\ UNCHANGED <<nodes, cache, stale>>

\* The instance is gone: its node is deleted and its pods are recreated.
NodeVanishes(i) ==
    /\ nodes' = [nodes EXCEPT ![i] = NoNode]
    /\ loc' = [p \in Pods |-> IF loc[p] = i THEN Unplaced ELSE loc[p]]
    /\ Touch(i)
    /\ UNCHANGED cache

Uncordon(i) ==
    /\ Exists(i)
    /\ nodes[i].unschedulable
    /\ nodes' = [nodes EXCEPT ![i].unschedulable = FALSE, ![i].late = FALSE]
    /\ Touch(i)
    /\ UNCHANGED <<loc, cache>>
=============================================================================
