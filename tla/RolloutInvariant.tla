-------------------------- MODULE RolloutInvariant --------------------------
(***************************************************************************)
(* The inductive strengthening of GracefulTermination, DrainedMarkTruthful *)
(* and TerminatedMarkTruthful.  It holds as long as nobody uncordons       *)
(* nodes; RolloutProofs proves it, the runs check it on small instances.   *)
(***************************************************************************)
EXTENDS RollingUpgrade

NobodyUncordons == "uncordon" \notin Interventions

\* Where an execution has an instance in hand.
BusyLabels == Labels \ {"idle", "group", "pick"}

\* Then it has; and it has a group from the time it has assessed one.
HandOK(x) ==
    /\ x.pc \in BusyLabels => x.inst \in Instances
    /\ x.pc \in BusyLabels \cup {"pick"} => x.group \in Groups

InHand == \A e \in Execs : HandOK(exec[e])

\* Closed to the scheduler for the rest of its life.
Closed(i) == IF Exists(i) THEN nodes[i].unschedulable ELSE lifecycle[i] = "gone"

\* Closed and emptied of workload.
Quiet(i) == Closed(i) /\ PodsOn(i) = {}

\* AWS is terminating it or has done so.
Ended(i) == lifecycle[i] \in {"Terminating", "gone"}

\* A copy that an update would be accepted from agrees with the API server.
CopiesAgree ==
    cache # NoCache =>
        \A i \in Instances \ stale :
            /\ cache[i] = NoNode <=> nodes[i] = NoNode
            /\ cache[i] # NoNode => cache[i].unschedulable = nodes[i].unschedulable

\* Nor has such a copy lost the record of a drain.
CopiesRemember ==
    cache # NoCache =>
        \A i \in Instances \ stale :
            nodes[i] # NoNode /\ "drained" \in nodes[i].marks => "drained" \in cache[i].marks

\* What a mark on a node promises, wherever the handler may read it.
Promise(i, marks) ==
    /\ "drained" \in marks => Quiet(i)
    /\ "terminated" \in marks => Ended(i)

ServerMarks == \A i \in Instances : nodes[i] # NoNode => Promise(i, nodes[i].marks)
CachedMarks == cache # NoCache => \A i \in Instances : cache[i] # NoNode => Promise(i, cache[i].marks)

\* What the place of an execution in the program promises of its instance:
\* the marks it has read hold; a node being drained takes no new pods and those
\* it has are listed; past the drain it is quiet.
HandPromise(x) ==
    /\ x.inst \in Instances => Promise(x.inst, x.seen)
    /\ x.pc = "evict" => Closed(x.inst) /\ PodsOn(x.inst) \subseteq x.victims
    /\ x.pc \in {"markDrained", "terminate", "markTerminated"} => Quiet(x.inst)
    /\ x.pc = "markTerminated" => Ended(x.inst)

HandsPromise == \A e \in Execs : HandPromise(exec[e])

RetiredQuiet == \A i \in retired : Quiet(i)

\* The node goes with its instance.
NodesHaveInstances == \A i \in Instances : lifecycle[i] = "gone" => nodes[i] = NoNode

\* What has to hold at every step of every execution for the promises of the
\* marks to be kept: the invariant that is inductive.
IInv ==
    /\ InHand
    /\ CopiesAgree
    /\ CopiesRemember
    /\ ServerMarks
    /\ CachedMarks
    /\ HandsPromise
    /\ RetiredQuiet
    /\ NodesHaveInstances
=============================================================================
