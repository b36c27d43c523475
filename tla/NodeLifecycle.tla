---------------------------- MODULE NodeLifecycle ----------------------------
(***************************************************************************)
(* What a rolling update promises to the workload and to whoever takes it  *)
(* over: a node is closed before the first pod is evicted from it, nothing *)
(* comes to a closed node, a node that is handed over to AWS for           *)
(* termination is closed and empty, and so is one that is on record as     *)
(* drained; the record lasts as long as the node.  Nodes may leave at any  *)
(* time without being handed over: AWS scales in by itself.                *)
(*                                                                         *)
(* This says nothing of executions, caches, updates, annotations, restarts *)
(* or failures: RolloutRefinement shows that RollingUpgrade implements it. *)
(***************************************************************************)
CONSTANTS Nodes, Pods, Unplaced

VARIABLES
    phase,      \* of each node
    place,      \* the node of each pod
    recorded    \* nodes on record as drained

vars == <<phase, place, recorded>>

Empty(n) == \A p \in Pods : place[p] # n

Init ==
    /\ phase \in [Nodes -> {"absent", "open"}]
    /\ place \in [Pods -> {n \in Nodes : phase[n] = "open"}]
    /\ recorded = {}

Move(n, from, to) ==
    /\ phase[n] = from
    /\ phase' = [phase EXCEPT ![n] = to]

Join(n) == Move(n, "absent", "open") /\ UNCHANGED <<place, recorded>>

Close(n) == Move(n, "open", "closed") /\ UNCHANGED <<place, recorded>>

Place(p, n) ==
    /\ place[p] = Unplaced
    /\ phase[n] = "open"
    /\ place' = [place EXCEPT ![p] = n]
    /\ UNCHANGED <<phase, recorded>>

Evict(p, n) ==
    /\ place[p] = n
    /\ phase[n] = "closed"
    /\ place' = [place EXCEPT ![p] = Unplaced]
    /\ UNCHANGED <<phase, recorded>>

\* One update of the handler may put several nodes on record.
Record(ns) ==
    /\ \A n \in ns : phase[n] \in {"closed", "retired"} /\ Empty(n)
    /\ recorded' = recorded \cup ns
    /\ UNCHANGED <<phase, place>>

\* The node is handed over to AWS.
Retire(n) ==
    /\ Empty(n)
    /\ Move(n, "closed", "retired")
    /\ UNCHANGED <<place, recorded>>

Leave(n) ==
    /\ phase[n] # "gone"
    /\ phase' = [phase EXCEPT ![n] = "gone"]
    /\ place' = [p \in Pods |-> IF place[p] = n THEN Unplaced ELSE place[p]]
    /\ recorded' = recorded \ {n}

Next ==
    \/ \E ns \in SUBSET Nodes : Record(ns)
    \/ \E p \in Pods, n \in Nodes : Place(p, n) \/ Evict(p, n)
    \/ \E n \in Nodes : Join(n) \/ Close(n) \/ Retire(n) \/ Leave(n)

Spec == Init /\ [][Next]_vars
=============================================================================
