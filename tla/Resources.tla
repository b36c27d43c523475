------------------------------ MODULE Resources ------------------------------
(***************************************************************************)
(* CheckIfUpdatedNodesHaveEnoughResourcesToScheduleAllPodsFromOldNode of   *)
(* k8s/util.go: the room on the updated nodes is added up, one listing of  *)
(* pods per node, and the requests of the old node's pods taken from it.   *)
(* Pods go on being bound, ending and disappearing between two listings,   *)
(* and each listing is answered by the watch cache of some API server,     *)
(* which may be behind (resource version 0).                               *)
(*                                                                         *)
(* A pod stays where it was bound until it is gone; one that is recreated  *)
(* elsewhere is another pod.  Cluster takes this check in one step, with   *)
(* pods of one unit each.                                                  *)
(***************************************************************************)
EXTENDS Integers, FiniteSets, FiniteSetsExt

CONSTANTS
    Targets,       \* updated and ready nodes
    Old,           \* the outdated node
    Pods,
    Unplaced,      \* the place of a pod that has none
    Allocatable,   \* sizes of nodes considered
    Kinds,         \* kinds of pods considered
    ListingFails   \* listing the pods of a node may fail

Resource == {"cpu", "memory"}
Amount == [Resource -> Nat]
Kind == [requests : Amount, ends : {"Succeeded", "Failed"}, daemon : BOOLEAN]

ASSUME ResourcesAssumption ==
    /\ IsFiniteSet(Targets) /\ IsFiniteSet(Pods)
    /\ Old \notin Targets
    /\ Unplaced \notin Targets \cup {Old}
    /\ Allocatable \subseteq Amount
    /\ Kinds \subseteq Kind
    /\ ListingFails \in BOOLEAN

\* The life of a pod.  A pod that is over has succeeded or failed, as its kind
\* says, and may stay so.
Pending == 0
Running == 1
Over == 2
Gone == 3
Stage == Pending .. Gone

VARIABLES
    allocatable,   \* of each target
    kind,          \* of each pod
    loc,           \* where each pod is bound
    stage,         \* how far each pod has come
    known,         \* how far it has come in every watch cache
    pc,
    todo,          \* targets still to be listed
    available,     \* totalAvailableTargetCPU and Memory
    needed,        \* cpuNeeded and memoryNeeded
    listed,        \* history: nodes that could be listed
    counted        \* history: pods whose requests were added up

vars == <<allocatable, kind, loc, stage, known, pc, todo, available, needed, listed, counted>>
check == <<pc, todo, available, needed, listed, counted>>
surroundings == <<allocatable, kind, loc, stage, known>>

None == [r \in Resource |-> 0]

\* Every variable stays in its type; what is available may be negative.
TypeOK ==
    /\ allocatable \in [Targets -> Allocatable]
    /\ kind \in [Pods -> Kinds]
    /\ loc \in [Pods -> Targets \cup {Old, Unplaced}]
    /\ stage \in [Pods -> Stage]
    /\ known \in [Pods -> Stage]
    /\ pc \in {"targets", "old", "enough", "short"}
    /\ todo \subseteq Targets
    /\ available \in [Resource -> Int]
    /\ needed \in Amount
    /\ listed \subseteq Targets \cup {Old}
    /\ counted \subseteq Pods

\* It begins with what the slowest watch cache shows: pods may have moved on
\* before the first listing.
Init ==
    /\ allocatable \in [Targets -> Allocatable]
    /\ kind \in [Pods -> Kinds]
    /\ loc \in [Pods -> Targets \cup {Old, Unplaced}]
    /\ stage \in [Pods -> {Pending, Running, Over}]
    /\ \A p \in Pods : loc[p] = Unplaced <=> stage[p] = Pending
    /\ known = stage
    /\ pc = "targets"
    /\ todo = Targets
    /\ available = None
    /\ needed = None
    /\ listed = {}
    /\ counted = {}

-----------------------------------------------------------------------------

Requested(pods) == [r \in Resource |-> MapThenSumSet(LAMBDA p : kind[p].requests[r], pods)]

\* What a watch cache may show: each pod as it is, or as it was.
Views == {view \in [Pods -> Stage] : \A p \in Pods : known[p] =< view[p] /\ view[p] =< stage[p]}

Listing(view, n) == {p \in Pods : loc[p] = n /\ view[p] \in {Running, Over}}

\* Pods that have failed do not count; pods that have succeeded do.
Counted(view, n) == {p \in Listing(view, n) : ~(view[p] = Over /\ kind[p].ends = "Failed")}

\* Mutant: DaemonSets on the old node are counted.
Leaving_WithDaemons(view) == Counted(view, Old)

\* DaemonSets on the old node have their equals on the targets.
Leaving(view) == {p \in Counted(view, Old) : ~kind[p].daemon}

-----------------------------------------------------------------------------

ListTarget(n) ==
    /\ n \in todo
    /\ \E view \in Views :
         /\ available' = [r \in Resource |->
                            available[r] + allocatable[n][r] - Requested(Counted(view, n))[r]]
         /\ counted' = counted \cup Counted(view, n)
    /\ todo' = todo \ {n}
    /\ listed' = listed \cup {n}
    /\ UNCHANGED <<surroundings, pc, needed>>

\* Mutant: the node's allocatable resources are taken for granted.
SkipTarget_Counts(n) ==
    /\ ListingFails
    /\ n \in todo
    /\ todo' = todo \ {n}
    /\ available' = [r \in Resource |-> available[r] + allocatable[n][r]]
    /\ UNCHANGED <<surroundings, pc, needed, listed, counted>>

\* A target whose pods cannot be listed is left out.
SkipTarget(n) ==
    /\ ListingFails
    /\ n \in todo
    /\ todo' = todo \ {n}
    /\ UNCHANGED <<surroundings, pc, available, needed, listed, counted>>

EndOfTargets ==
    /\ pc = "targets"
    /\ todo = {}
    /\ pc' = "old"
    /\ UNCHANGED <<surroundings, todo, available, needed, listed, counted>>

\* Mutant: memory is not looked at.
Enough_CpuOnly(asked) == available["cpu"] - asked["cpu"] >= 0

Enough(asked) == \A r \in Resource : available[r] - asked[r] >= 0

\* Mutant: what is needed is what is left over.
ListOld_LeftOver ==
    /\ pc = "old"
    /\ \E view \in Views :
         /\ needed' = [r \in Resource |-> available[r] - Requested(Leaving(view))[r]]
         /\ counted' = counted \cup Leaving(view)
    /\ listed' = listed \cup {Old}
    /\ pc' = IF \A r \in Resource : needed'[r] >= 0 THEN "enough" ELSE "short"
    /\ UNCHANGED <<surroundings, todo, available>>

ListOld ==
    /\ pc = "old"
    /\ \E view \in Views :
         /\ needed' = Requested(Leaving(view))
         /\ counted' = counted \cup Leaving(view)
    /\ listed' = listed \cup {Old}
    /\ pc' = IF Enough(needed') THEN "enough" ELSE "short"
    /\ UNCHANGED <<surroundings, todo, available>>

\* The old node's pods cannot be listed: it is said to have enough room.
AssumeEnough ==
    /\ ListingFails
    /\ pc = "old"
    /\ pc' = "enough"
    /\ UNCHANGED <<surroundings, todo, available, needed, listed, counted>>

\* The scheduler binds a pending pod.
Arrive(p, n) ==
    /\ stage[p] = Pending
    /\ stage' = [stage EXCEPT ![p] = Running]
    /\ loc' = [loc EXCEPT ![p] = n]
    /\ UNCHANGED <<allocatable, kind, known, check>>

\* A pod ends, of itself or evicted, and is deleted.
Leave(p) ==
    /\ stage[p] \in {Running, Over}
    /\ stage' = [stage EXCEPT ![p] = @ + 1]
    /\ UNCHANGED <<allocatable, kind, loc, known, check>>

Next ==
    \/ pc = "targets" /\ \E n \in Targets : ListTarget(n) \/ SkipTarget(n)
    \/ EndOfTargets \/ ListOld \/ AssumeEnough
    \/ \E p \in Pods, n \in Targets \cup {Old} : Arrive(p, n)
    \/ \E p \in Pods : Leave(p)

Spec == Init /\ [][Next]_vars

-----------------------------------------------------------------------------
(* Properties.                                                             *)

Alive == {p \in Pods : stage[p] = Running}

\* Pods that run and that a listing may have missed.
Newcomers == {p \in Alive : known[p] = Pending}

ListedTargets == listed \ {Old}

On(n, pods) == {p \in pods : loc[p] = n}
Workload(pods) == {p \in On(Old, pods) : ~kind[p].daemon}

\* Were these the pods there are, the scheduler could put those of the old node
\* on the listed targets, one by one.
Placeable(pods) ==
    \E placement \in [Workload(pods) -> ListedTargets] :
        \A n \in ListedTargets :
            LET placed == {p \in Workload(pods) : placement[p] = n}
            IN placed # {} =>
                 \A r \in Resource : Requested(On(n, pods) \cup placed)[r] =< allocatable[n][r]

\* A target with more on it than it has weighs on the others' room.
Overcommitted(pods) ==
    \E n \in ListedTargets, r \in Resource : Requested(On(n, pods))[r] > allocatable[n][r]

\* When it says the room is short, then there is no placing the workload of the
\* old node on the targets it could list, whoever came or went meanwhile,
\* beside the pods that run and those it has counted: it asks AWS for an
\* instance that is needed unless pods it has counted are over (they completed,
\* or are gone, before their listing or since) or a target is overcommitted
\* (util.go:32, :38 and client.go:77).
ShortMeansShort ==
    pc = "short" => ~Placeable(Alive \cup counted) \/ Overcommitted(Alive \cup counted)

\* When it says there is room and has read the old node, the requests of the
\* workload fit into what the listed targets have left in total, short by no
\* more than the pods that are bound and not yet in every watch cache: a
\* target it could not list has lent nothing (util.go:27-29), and pods that
\* have left meanwhile only make more room.
RoomMeansRoom ==
    pc = "enough" /\ Old \in listed =>
        \A r \in Resource :
            Requested(Workload(Alive))[r] - Requested(Newcomers)[r]
                =< MapThenSumSet(LAMBDA n : allocatable[n][r] - Requested(On(n, Alive))[r], ListedTargets)

\* With pods that all ask for one unit of one resource, and none that a listing
\* may have missed, room in total is room for each: the check of Cluster in one
\* step is right about the pods that are bound.
UnitPodsHaveRoom ==
    /\ pc = "enough" /\ Old \in listed /\ Newcomers = {}
    /\ \A p \in Pods : /\ kind[p].requests = [None EXCEPT !["cpu"] = 1]
                       /\ ~kind[p].daemon
    => Placeable(Alive)
=============================================================================
