-------------------------- MODULE RefinementProofs --------------------------
(***************************************************************************)
(* RollingUpgrade implements NodeLifecycle, for every number of groups,    *)
(* instances, pods and executions, as long as nobody uncordons nodes: each *)
(* step of the handler, of AWS, of Kubernetes and of operators either      *)
(* leaves phases, pods and records alone or is a step of NodeLifecycle.    *)
(***************************************************************************)
EXTENDS RolloutRefinement, GracefulProofs

Mapped == [Lifecycle!Next]_<<Phases, loc, OnRecord>>

\* The cluster a step may leave behind without anyone noticing: no pod, node
\* or cordon has changed, and no record of a drain is lost.
ClusterKept ==
    /\ loc' = loc
    /\ \A i \in Instances :
        /\ nodes'[i] = NoNode <=> nodes[i] = NoNode
        /\ nodes[i] # NoNode =>
             /\ nodes'[i].unschedulable = nodes[i].unschedulable
             /\ "drained" \in nodes[i].marks => "drained" \in nodes'[i].marks

AwsKept ==
    /\ retired' = retired
    /\ \A i \in Instances : lifecycle'[i] = "gone" <=> lifecycle[i] = "gone"

\* What is known of a reachable state, and of the promises after a step.
Sound == WellFormed /\ Promises /\ Promises' /\ PodsHaveNodes

\* The phase of a node, case by case.
LEMMA PhaseCases ==
    ASSUME Promises, NEW i \in Instances
    PROVE  /\ Phases[i] = PhaseOf(i)
           /\ ~Exists(i) => PhaseOf(i) \in {"gone", "absent"}
           /\ ~Exists(i) /\ lifecycle[i] # "gone" => PhaseOf(i) = "absent" /\ i \notin retired
           /\ Exists(i) => lifecycle[i] # "gone"
           /\ Exists(i) /\ ~nodes[i].unschedulable => PhaseOf(i) = "open" /\ i \notin retired
           /\ Exists(i) /\ nodes[i].unschedulable => PhaseOf(i) \in {"closed", "retired"}
           /\ Exists(i) /\ nodes[i].unschedulable /\ i \notin retired => PhaseOf(i) = "closed"
           /\ i \in retired => PodsOn(i) = {}
BY DEF Promises, NodesHaveInstances, RetiredQuiet, Quiet, Closed, Phases, PhaseOf, Exists

\* A step that leaves the cluster and AWS so records some drains, or nothing.
LEMMA KeptIsMapped ==
    ASSUME Sound, ClusterKept, AwsKept
    PROVE  Mapped
<1>1. Phases' = Phases
  BY DEF ClusterKept, AwsKept, Phases, PhaseOf, Exists
<1>2. OnRecord \subseteq OnRecord'
  BY DEF ClusterKept, OnRecord, Exists
<1>3. ASSUME NEW i \in OnRecord'
      PROVE  i \in Instances /\ Phases[i] \in {"closed", "retired"} /\ Lifecycle!Empty(i)
  <2>1. i \in Instances /\ nodes'[i] # NoNode /\ "drained" \in nodes'[i].marks
    BY <1>3 DEF OnRecord, Exists
  <2>2. Quiet(i)'
    BY <2>1 DEF Sound, Promises, ServerMarks, Promise
  <2>3. Exists(i) /\ nodes[i].unschedulable /\ PodsOn(i) = {}
    BY <2>1, <2>2 DEF Quiet, Closed, Exists, PodsOn, ClusterKept
  <2> QED
    BY <2>1, <2>3, PhaseCases DEF Sound, Lifecycle!Empty, PodsOn
<1>4. OnRecord' = OnRecord \cup OnRecord'
  BY <1>2
<1>5. OnRecord' \in SUBSET Instances
  BY <1>3
<1>6. Lifecycle!Record(OnRecord')
  BY <1>1, <1>3, <1>4 DEF Lifecycle!Record, ClusterKept
<1> QED
  BY <1>5, <1>6 DEF Mapped, Lifecycle!Next

-----------------------------------------------------------------------------
(* What the operations on nodes leave alone.                               *)

\* Reading through the cache leaves the cluster alone.
LEMMA ReadKept ==
    ASSUME nodes' = nodes, loc' = loc
    PROVE  ClusterKept
BY DEF ClusterKept

\* An update from a cached copy leaves cordons alone and keeps the record of a
\* drain: it is only accepted from a copy that has both.
LEMMA WriteMarkKept ==
    ASSUME ClusterOK, NEW i \in Instances,
           NEW mark \in {"started", "drained", "terminated", "excluded"}, NEW persisted \in BOOLEAN,
           WriteMark(i, mark, persisted)
    PROVE  ClusterKept
<1>1. View \in NodeList /\ nodes \in NodeList
  BY ViewType DEF ClusterOK, ClusterTypeOK
<1>2. View[i] \in Node
  BY <1>1 DEF WriteMark, NodeNotFound, NodeList
<1>3. /\ Marked(View[i], mark) \in Node
      /\ Marked(View[i], mark).unschedulable = View[i].unschedulable
      /\ View[i].marks \subseteq Marked(View[i], mark).marks
  BY <1>2, NodeOperators DEF Marked, Node
<1>4. CASE persisted
  <2> DEFINE written == [Marked(View[i], mark) EXCEPT !.ready = nodes[i].ready]
  <2>1. i \notin ViewStale /\ nodes' = [nodes EXCEPT ![i] = written] /\ loc' = loc
    BY <1>4 DEF WriteMark, UpdateAccepted
  <2>2. /\ nodes[i] # NoNode
        /\ View[i].unschedulable = nodes[i].unschedulable
        /\ "drained" \in nodes[i].marks => "drained" \in View[i].marks
    BY <1>2, <2>1, CurrentCopy, ClusterAssumption
  <2>3. nodes[i].ready \in BOOLEAN
    BY <1>1, <2>2 DEF NodeList, Node
  <2>4. /\ written \in Node
        /\ written.unschedulable = Marked(View[i], mark).unschedulable
        /\ written.marks = Marked(View[i], mark).marks
    BY <1>3, <2>3 DEF Node
  <2>5. written # NoNode
    BY <2>4, ClusterAssumption
  <2>6. \A j \in Instances : nodes'[j] = IF j = i THEN written ELSE nodes[j]
    BY <1>1, <2>1 DEF NodeList
  <2> QED
    BY <1>3, <2>1, <2>2, <2>4, <2>5, <2>6 DEF ClusterKept
<1>5. CASE ~persisted
  BY <1>5, ReadKept DEF WriteMark
<1> QED
  BY <1>4, <1>5

\* So do annotations and labels, whatever comes of them.
LEMMA AnnotateKept ==
    ASSUME ClusterOK, NEW i \in Instances,
           NEW mark \in {"started", "drained", "terminated", "excluded"},
           AnnotateNode(i, mark) \/ AnnotateFails(i, mark) \/ LabelNode(i, mark)
    PROVE  ClusterKept
<1>1. CASE \E persisted \in BOOLEAN : WriteMark(i, mark, persisted)
  BY <1>1, WriteMarkKept
<1>2. CASE nodes' = nodes /\ loc' = loc
  BY <1>2, ReadKept
<1> QED
  BY <1>1, <1>2 DEF AnnotateNode, AnnotateFails, LabelNode, MarkImpossible, clusterVars

\* EDGE-0001 keeps the record of the drain it undoes, and the cordon.
LEMMA CleanUpKept ==
    ASSUME ClusterOK, NEW stained \in SUBSET Instances, NEW persisted \in SUBSET stained,
           \A i \in stained : View[i] # NoNode,
           CleanUp(stained, persisted)
    PROVE  ClusterKept
<1> DEFINE written(i) == [Cleaned(View[i]) EXCEPT !.ready = nodes[i].ready]
<1>1. View \in NodeList /\ nodes \in NodeList
  BY ViewType DEF ClusterOK, ClusterTypeOK
<1>2. ASSUME NEW i \in persisted
      PROVE  /\ written(i) # NoNode /\ nodes[i] # NoNode
             /\ written(i).unschedulable = nodes[i].unschedulable
             /\ "drained" \in nodes[i].marks => "drained" \in written(i).marks
  <2>1. i \in Instances /\ i \notin ViewStale
    BY DEF CleanUp, UpdateAccepted
  <2>2. /\ nodes[i] # NoNode
        /\ View[i].unschedulable = nodes[i].unschedulable
        /\ "drained" \in nodes[i].marks => "drained" \in View[i].marks
    BY <2>1, CurrentCopy
  <2>3. View[i] \in Node /\ nodes[i].ready \in BOOLEAN
    BY <1>1, <2>1, <2>2 DEF NodeList, Node
  <2>4. /\ Cleaned(View[i]) \in Node
        /\ Cleaned(View[i]).unschedulable = View[i].unschedulable
        /\ "drained" \in View[i].marks => "drained" \in Cleaned(View[i]).marks
    BY <2>3, NodeOperators DEF Cleaned, Node
  <2>5. /\ written(i) \in Node
        /\ written(i).unschedulable = Cleaned(View[i]).unschedulable
        /\ written(i).marks = Cleaned(View[i]).marks
    BY <2>3, <2>4 DEF Node
  <2> QED
    BY <2>2, <2>4, <2>5, ClusterAssumption
<1>3. \A i \in Instances : nodes'[i] = IF i \in persisted THEN written(i) ELSE nodes[i]
  BY DEF CleanUp
<1> QED
  BY <1>2, <1>3 DEF ClusterKept, CleanUp

\* A cordon closes an open node, or finds it closed.
LEMMA CordonMapped ==
    ASSUME Sound, NEW i \in Instances, Cordon(i), UNCHANGED awsVars
    PROVE  Mapped
<1>1. nodes \in NodeList /\ nodes[i] \in Node /\ nodes[i] # NoNode
  BY DEF Sound, WellFormed, TypeOK, ClusterTypeOK, Cordon, Exists, NodeList
<1>2. CASE nodes[i].unschedulable
  BY <1>2, ReadKept, KeptIsMapped DEF Cordon, AwsKept, awsVars
<1>3. CASE ~nodes[i].unschedulable
  <2>1. PICK n : n = [nodes[i] EXCEPT !.unschedulable = TRUE, !.late = "started" \in nodes[i].marks]
    OBVIOUS
  <2>2. ("started" \in nodes[i].marks) \in BOOLEAN
    OBVIOUS
  <2>3. n \in Node /\ n.unschedulable = TRUE /\ n.marks = nodes[i].marks
    BY <1>1, <2>1, <2>2 DEF Node
  <2>4. \A j \in Instances : nodes'[j] = IF j = i THEN n ELSE nodes[j]
    BY <1>1, <1>3, <2>1 DEF Cordon, NodeList, Node
  <2>5. n # NoNode
    BY <2>3, ClusterAssumption
  <2>6. loc' = loc /\ lifecycle' = lifecycle /\ retired' = retired
    BY DEF Cordon, awsVars
  <2>7. Phases[i] = "open" /\ i \notin retired /\ lifecycle[i] # "gone"
    BY <1>1, <1>3, PhaseCases DEF Sound, Exists
  <2>8. Phases' = [Phases EXCEPT ![i] = "closed"]
    BY <2>3, <2>4, <2>5, <2>6, <2>7 DEF Phases, PhaseOf, Exists
  <2>9. OnRecord' = OnRecord
    BY <1>1, <2>3, <2>4, <2>5 DEF OnRecord, Exists
  <2>10. Lifecycle!Close(i)
    BY <2>6, <2>7, <2>8, <2>9 DEF Lifecycle!Close, Lifecycle!Move
  <2> QED
    BY <2>10 DEF Mapped, Lifecycle!Next
<1> QED
  BY <1>2, <1>3

\* A termination AWS accepts retires a closed and empty node.
LEMMA TerminateMapped ==
    ASSUME Sound, NEW i \in Instances, NEW decrement \in BOOLEAN, Quiet(i),
           TerminateEc2Instance(i, decrement), UNCHANGED clusterVars
    PROVE  Mapped
<1>1. /\ \A j \in Instances : lifecycle'[j] = IF j = i THEN "Terminating" ELSE lifecycle[j]
      /\ lifecycle[i] \in {"Pending", "InService"}
      /\ retired' = retired \cup {i}
      /\ nodes' = nodes /\ loc' = loc
  BY DEF TerminateEc2Instance, TerminationAllowed, Sound, WellFormed, TypeOK, AutoScalingTypeOK, clusterVars
<1>2. OnRecord' = OnRecord
  BY <1>1 DEF OnRecord, Exists
<1>3. CASE i \in retired
  <2>1. AwsKept
    BY <1>1, <1>3 DEF AwsKept
  <2> QED
    BY <1>1, <2>1, ReadKept, KeptIsMapped
<1>4. CASE i \notin retired
  <2>1. Exists(i) /\ nodes[i].unschedulable /\ PodsOn(i) = {}
    BY <1>1 DEF Quiet, Closed
  <2>2. Phases[i] = "closed"
    BY <1>4, <2>1, PhaseCases DEF Sound
  <2>3. Phases' = [Phases EXCEPT ![i] = "retired"]
    BY <1>1, <2>1 DEF Phases, PhaseOf, Exists
  <2>4. Lifecycle!Empty(i)
    BY <2>1 DEF Lifecycle!Empty, PodsOn
  <2>5. Lifecycle!Retire(i)
    BY <1>1, <1>2, <2>2, <2>3, <2>4 DEF Lifecycle!Retire, Lifecycle!Move
  <2> QED
    BY <2>5 DEF Mapped, Lifecycle!Next
<1> QED
  BY <1>3, <1>4

-----------------------------------------------------------------------------
(* The steps of an execution.                                              *)

\* Walking over the groups changes no more than a clean-up does.
LEMMA LoopMapped ==
    ASSUME Sound, NEW e \in Execs,
           \/ Begin(e) \/ Finish(e) \/ LeaveGroup(e)
           \/ \E g \in Groups : AssessGroup(e, g) \/ SkipGroup(e, g)
    PROVE  Mapped
<1>1. CASE UNCHANGED <<awsVars, clusterVars>>
  BY <1>1, ReadKept, KeptIsMapped DEF AwsKept, awsVars, clusterVars
<1>2. ASSUME NEW g \in Groups, AssessGroup(e, g) PROVE Mapped
  <2> DEFINE s == exec[e].snap[g]
             asked == Updated(s) \cap s.serving
  <2>1. PICK unlisted \in Unlisted(asked) :
            \/ UNCHANGED clusterVars
            \/ \E persisted \in SUBSET Stained(Found(asked \ unlisted)) :
                  CleanUp(Stained(Found(asked \ unlisted)), persisted)
    BY <1>2 DEF AssessGroup
  <2>2. UNCHANGED awsVars
    BY <1>2 DEF AssessGroup, OnlyExecAndCluster
  <2>3. asked \subseteq Instances /\ ClusterOK
    BY DEF Sound, WellFormed, TypeOK, ClusterOK, Updated, Execution, Snapshot
  <2>4. \A i \in Stained(Found(asked \ unlisted)) : i \in Instances /\ View[i] # NoNode
    BY <2>3 DEF Stained, Found
  <2>5. ClusterKept
    <3>1. CASE UNCHANGED clusterVars
      BY <3>1, ReadKept DEF clusterVars
    <3>2. ASSUME NEW persisted \in SUBSET Stained(Found(asked \ unlisted)),
                 CleanUp(Stained(Found(asked \ unlisted)), persisted)
          PROVE  ClusterKept
      BY <2>3, <2>4, <3>2, CleanUpKept
    <3> QED
      BY <2>1, <3>1, <3>2
  <2> QED
    BY <2>2, <2>5, KeptIsMapped DEF AwsKept, awsVars
<1> QED
  BY <1>1, <1>2 DEF Begin, Finish, LeaveGroup, SkipGroup, OnlyExec

\* What an execution does with an instance closes, empties and retires its
\* node, in this order, and records the drain.
LEMMA InstanceMapped ==
    ASSUME Sound, NEW e \in Execs,
           \/ \E i \in Instances : PickInstance(e, i)
           \/ \E p \in Pods : EvictPod(e, p)
           \/ CordonEagerly(e) \/ MarkStarted(e) \/ CheckResources(e) \/ ExcludeNode(e)
           \/ StartDrain(e) \/ CompleteDrain(e) \/ FailDrain(e) \/ MarkDrained(e)
           \/ Terminate(e) \/ TerminateAgain(e) \/ FailTerminate(e) \/ TerminateUnanswered(e)
           \/ MarkTerminated(e) \/ DescribeLatest(e) \/ Grow(e) \/ FailGrow(e) \/ GrowUnanswered(e)
    PROVE  Mapped
<1>1. PICK x : x = exec[e]
  OBVIOUS
<1>t. x \in Execution /\ HandOK(x) /\ HandPromise(x) /\ ClusterOK /\ loc \in [Pods -> Instances \cup {Unplaced}]
  BY <1>1 DEF Sound, WellFormed, TypeOK, ClusterTypeOK, InHand, Promises, HandsPromise, ClusterOK
<1>a. UNCHANGED awsVars => AwsKept
  BY DEF AwsKept, awsVars
<1>b. {"cordon", "start", "check", "label", "drain", "evict", "markDrained", "terminate",
       "markTerminated", "describe", "grow"} = BusyLabels
  BY DEF BusyLabels, Labels
<1>h. x.pc \in BusyLabels => x.inst \in Instances
  BY <1>t DEF HandOK
<1>2. CASE UNCHANGED <<awsVars, clusterVars>>
  BY <1>2, <1>a, ReadKept, KeptIsMapped DEF clusterVars
<1>3. ASSUME NEW i \in Instances, PickInstance(e, i) PROVE Mapped
  BY <1>3, <1>a, ReadKept, KeptIsMapped DEF PickInstance, OnlyExecAndCluster
<1>4. CASE MarkStarted(e) \/ ExcludeNode(e) \/ MarkDrained(e) \/ MarkTerminated(e)
  <2>1. x.inst \in Instances /\ UNCHANGED awsVars
    BY <1>4, <1>1, <1>b, <1>h DEF MarkStarted, ExcludeNode, MarkDrained, MarkTerminated, At, OnlyExecAndCluster
  <2>2. \E mark \in {"started", "drained", "terminated", "excluded"} :
            AnnotateNode(x.inst, mark) \/ AnnotateFails(x.inst, mark) \/ LabelNode(x.inst, mark)
    BY <1>4, <1>1 DEF MarkStarted, ExcludeNode, MarkDrained, MarkTerminated
  <2> QED
    BY <1>a, <1>t, <2>1, <2>2, AnnotateKept, KeptIsMapped
<1>5. CASE CordonEagerly(e) \/ StartDrain(e)
  <2>1. x.inst \in Instances /\ UNCHANGED awsVars
    BY <1>5, <1>1, <1>b, <1>h DEF CordonEagerly, StartDrain, At, OnlyExecAndCluster
  <2>2. Cordon(x.inst) \/ UNCHANGED clusterVars
    BY <1>5, <1>1 DEF CordonEagerly, StartDrain
  <2> QED
    BY <1>2, <2>1, <2>2, CordonMapped
<1>6. CASE Terminate(e) \/ TerminateUnanswered(e)
  <2>1. x.inst \in Instances /\ Quiet(x.inst)
    BY <1>6, <1>1, <1>b, <1>h, <1>t DEF Terminate, TerminateUnanswered, At, HandPromise
  <2>2. ShouldDecrement(e) \in BOOLEAN
    BY DEF ShouldDecrement
  <2>3. TerminateEc2Instance(x.inst, ShouldDecrement(e)) /\ UNCHANGED clusterVars
    BY <1>6, <1>1 DEF Terminate, TerminateUnanswered, OnlyExecAndAws
  <2> QED
    BY <2>1, <2>2, <2>3, TerminateMapped
<1>7. CASE Grow(e) \/ GrowUnanswered(e)
  <2>1. UNCHANGED clusterVars /\ AwsKept
    BY <1>7 DEF Grow, GrowUnanswered, OnlyExecAndAws, SetDesiredCapacity, AwsKept
  <2> QED
    BY <2>1, ReadKept, KeptIsMapped DEF clusterVars
<1>8. ASSUME NEW p \in Pods, EvictPod(e, p) PROVE Mapped
  <2>1. x.inst \in Instances /\ Closed(x.inst) /\ loc[p] = x.inst
    BY <1>8, <1>1, <1>b, <1>h, <1>t DEF EvictPod, At, HandPromise
  <2>2. /\ nodes' = nodes /\ lifecycle' = lifecycle /\ retired' = retired
        /\ loc' = [loc EXCEPT ![p] = Unplaced]
    BY <1>8 DEF EvictPod, Evict, OnlyExecAndCluster, awsVars
  <2>3. Exists(x.inst) /\ nodes[x.inst].unschedulable
    BY <2>1, ClusterAssumption DEF Sound, PodsHaveNodes, Closed
  <2>4. PodsOn(x.inst) # {}
    BY <2>1 DEF PodsOn
  <2>5. Phases[x.inst] = "closed"
    BY <2>1, <2>3, <2>4, PhaseCases DEF Sound
  <2>6. Phases' = Phases /\ OnRecord' = OnRecord
    BY <2>2 DEF Phases, PhaseOf, OnRecord, Exists
  <2>7. Lifecycle!Evict(p, x.inst)
    BY <2>1, <2>2, <2>5, <2>6 DEF Lifecycle!Evict
  <2> QED
    BY <2>1, <2>7 DEF Mapped, Lifecycle!Next
<1>9. CheckResources(e) \/ CompleteDrain(e) \/ FailDrain(e) \/ TerminateAgain(e) \/ FailTerminate(e)
      \/ DescribeLatest(e) \/ FailGrow(e) => UNCHANGED <<awsVars, clusterVars>>
  BY DEF CheckResources, CompleteDrain, FailDrain, TerminateAgain, FailTerminate, DescribeLatest, FailGrow,
         OnlyExec
<1> QED
  BY <1>2, <1>3, <1>4, <1>5, <1>6, <1>7, <1>8, <1>9

-----------------------------------------------------------------------------
(* The steps of everyone else.                                             *)

\* Nodes join, pods are placed on open nodes, and nodes go with their
\* instances; nothing else anyone does is seen.
LEMMA OthersMapped ==
    ASSUME Sound, NobodyUncordons,
           \/ TimeOut \/ Crash \/ Intervene \/ Expire
           \/ \E i \in Instances : AwsStep(i) \/ InstanceGone(i) \/ NodeStep(i)
           \/ \E p \in Pods, i \in Instances : Place(p, i)
    PROVE  Mapped
<1>t. /\ nodes \in NodeList /\ loc \in [Pods -> Instances \cup {Unplaced}]
      /\ lifecycle \in [Instances -> Lifecycles]
  BY DEF Sound, WellFormed, TypeOK, ClusterTypeOK, AutoScalingTypeOK
<1>1. CASE TimeOut \/ Crash \/ Intervene \/ Expire
  <2>1. nodes' = nodes /\ loc' = loc /\ lifecycle' = lifecycle /\ retired' = retired
    BY <1>1 DEF TimeOut, Crash, Intervene, Expire, CacheExpires, SetDesiredCapacity, Retarget,
                NobodyUncordons, awsVars, clusterVars
  <2> QED
    BY <2>1, ReadKept, KeptIsMapped DEF AwsKept
<1>2. ASSUME NEW i \in Instances, AwsStep(i) PROVE Mapped
  <2>1. UNCHANGED clusterVars /\ retired' = retired
    BY <1>2 DEF AwsStep, Launch, EnterService, ScaleIn
  <2>2. /\ lifecycle[i] # "gone"
        /\ \E s \in {"Pending", "InService", "Terminating"} : lifecycle' = [lifecycle EXCEPT ![i] = s]
    BY <1>2 DEF AwsStep, Launch, EnterService, ScaleIn, Active, Members
  <2>3. AwsKept
    BY <1>t, <2>1, <2>2 DEF AwsKept
  <2> QED
    BY <2>1, <2>3, ReadKept, KeptIsMapped DEF clusterVars
<1>3. ASSUME NEW i \in Instances, InstanceGone(i) PROVE Mapped
  <2>1. /\ lifecycle[i] = "Terminating" /\ lifecycle' = [lifecycle EXCEPT ![i] = "gone"]
        /\ nodes' = [nodes EXCEPT ![i] = NoNode] /\ retired' = retired
        /\ loc' = [p \in Pods |-> IF loc[p] = i THEN Unplaced ELSE loc[p]]
    BY <1>3 DEF InstanceGone, Vanish, NodeVanishes
  <2>2. Phases[i] # "gone"
    BY <2>1 DEF Phases, PhaseOf
  <2>3. Phases' = [Phases EXCEPT ![i] = "gone"]
    BY <1>t, <2>1 DEF Phases, PhaseOf, Exists, NodeList
  <2>4. OnRecord' = OnRecord \ {i}
    BY <1>t, <2>1 DEF OnRecord, Exists, NodeList
  <2>5. Lifecycle!Leave(i)
    BY <2>1, <2>2, <2>3, <2>4 DEF Lifecycle!Leave
  <2> QED
    BY <2>5 DEF Mapped, Lifecycle!Next
<1>4. ASSUME NEW i \in Instances, NodeJoins(i), UNCHANGED awsVars PROVE Mapped
  <2>1. /\ ~Exists(i) /\ lifecycle[i] \in {"Pending", "InService"}
        /\ nodes' = [nodes EXCEPT ![i] = FreshNode]
        /\ loc' = loc /\ lifecycle' = lifecycle /\ retired' = retired
    BY <1>4 DEF NodeJoins, awsVars
  <2>2. FreshNode \in Node
    BY DEF FreshNode, Node
  <2>3. FreshNode # NoNode /\ ~FreshNode.unschedulable /\ FreshNode.marks = {}
    BY <2>2, ClusterAssumption DEF FreshNode
  <2>4. Phases[i] = "absent" /\ i \notin retired
    BY <2>1, PhaseCases DEF Sound
  <2>5. \A j \in Instances : nodes'[j] = IF j = i THEN FreshNode ELSE nodes[j]
    BY <1>t, <2>1 DEF NodeList
  <2>6. Phases' = [Phases EXCEPT ![i] = "open"]
    BY <2>1, <2>3, <2>4, <2>5 DEF Phases, PhaseOf, Exists
  <2>7. OnRecord' = OnRecord
    BY <2>1, <2>3, <2>5 DEF OnRecord, Exists
  <2>8. Lifecycle!Join(i)
    BY <2>1, <2>4, <2>6, <2>7 DEF Lifecycle!Join, Lifecycle!Move
  <2> QED
    BY <2>8 DEF Mapped, Lifecycle!Next
<1>5. ASSUME NEW i \in Instances, NodeBecomesReady(i), UNCHANGED awsVars PROVE Mapped
  <2>1. PICK n : n = [nodes[i] EXCEPT !.ready = TRUE]
    OBVIOUS
  <2>2. nodes[i] \in Node
    BY <1>t, <1>5 DEF NodeBecomesReady, Exists, NodeList
  <2>3. n \in Node /\ n.unschedulable = nodes[i].unschedulable /\ n.marks = nodes[i].marks
    BY <2>1, <2>2 DEF Node
  <2>4. n # NoNode
    BY <2>3, ClusterAssumption
  <2>5. \A j \in Instances : nodes'[j] = IF j = i THEN n ELSE nodes[j]
    BY <1>t, <1>5, <2>1 DEF NodeBecomesReady, NodeList
  <2>6. ClusterKept
    BY <1>5, <2>3, <2>4, <2>5 DEF ClusterKept, NodeBecomesReady, Exists
  <2> QED
    BY <1>5, <2>6, KeptIsMapped DEF AwsKept, awsVars
<1>6. ASSUME NEW p \in Pods, NEW i \in Instances, Place(p, i) PROVE Mapped
  <2>1. /\ loc[p] = Unplaced /\ Exists(i) /\ ~nodes[i].unschedulable
        /\ loc' = [loc EXCEPT ![p] = i] /\ nodes' = nodes
        /\ lifecycle' = lifecycle /\ retired' = retired
    BY <1>6 DEF Place, Schedule, Schedulable, awsVars
  <2>2. Phases[i] = "open"
    BY <2>1, PhaseCases DEF Sound
  <2>3. Phases' = Phases /\ OnRecord' = OnRecord
    BY <2>1 DEF Phases, PhaseOf, OnRecord, Exists
  <2>4. Lifecycle!Place(p, i)
    BY <2>1, <2>2, <2>3 DEF Lifecycle!Place
  <2> QED
    BY <2>4 DEF Mapped, Lifecycle!Next
<1> QED
  BY <1>1, <1>2, <1>3, <1>4, <1>5, <1>6 DEF NodeStep

\* The workload of NodeLifecycle stays on nodes that are there.
PlacesInPhase == \A p \in Pods : loc[p] # Unplaced => Phases[loc[p]] \notin {"absent", "gone"}

LEMMA PlacesArePods ==
    ASSUME NodesHaveInstances, loc \in [Pods -> Instances \cup {Unplaced}]
    PROVE  PodsHaveNodes <=> PlacesInPhase
<1>1. \A i \in Instances : Exists(i) <=> Phases[i] \notin {"absent", "gone"}
  BY DEF NodesHaveInstances, Phases, PhaseOf, Exists
<1> QED
  BY <1>1 DEF PodsHaveNodes, PlacesInPhase

LEMMA PlacesFollow ==
    ASSUME PlacesInPhase, Mapped, loc \in [Pods -> Instances \cup {Unplaced}]
    PROVE  PlacesInPhase'
<1>t. Phases = [i \in Instances |-> PhaseOf(i)]
  BY DEF Phases
<1>1. CASE UNCHANGED <<Phases, loc, OnRecord>>
  BY <1>1 DEF PlacesInPhase
<1>2. ASSUME NEW n \in Instances, Lifecycle!Join(n) \/ Lifecycle!Close(n) \/ Lifecycle!Retire(n)
      PROVE  PlacesInPhase'
  <2>1. PICK s \in {"open", "closed", "retired"} : Phases' = [Phases EXCEPT ![n] = s] /\ loc' = loc
    BY <1>2 DEF Lifecycle!Join, Lifecycle!Close, Lifecycle!Retire, Lifecycle!Move
  <2> QED
    BY <1>t, <2>1, ClusterAssumption DEF PlacesInPhase
<1>3. ASSUME NEW n \in Instances, Lifecycle!Leave(n) PROVE PlacesInPhase'
  <2>1. /\ Phases' = [Phases EXCEPT ![n] = "gone"]
        /\ loc' = [p \in Pods |-> IF loc[p] = n THEN Unplaced ELSE loc[p]]
    BY <1>3 DEF Lifecycle!Leave
  <2> QED
    BY <1>t, <2>1, ClusterAssumption DEF PlacesInPhase
<1>4. ASSUME NEW p \in Pods, NEW n \in Instances, Lifecycle!Place(p, n) \/ Lifecycle!Evict(p, n)
      PROVE  PlacesInPhase'
  BY <1>4 DEF PlacesInPhase, Lifecycle!Place, Lifecycle!Evict
<1>5. ASSUME NEW ns \in SUBSET Instances, Lifecycle!Record(ns) PROVE PlacesInPhase'
  BY <1>5 DEF PlacesInPhase, Lifecycle!Record
<1> QED
  BY <1>1, <1>2, <1>3, <1>4, <1>5 DEF Mapped, Lifecycle!Next

\* What is known of every reachable state.
Known == WellFormed /\ Promises /\ PodsHaveNodes

\* Every step of the handler and its surroundings is one of NodeLifecycle.
LEMMA StepMapped ==
    NobodyUncordons /\ Known /\ [Next]_vars => Mapped /\ Known'
<1> SUFFICES ASSUME NobodyUncordons, Known, [Next]_vars PROVE Mapped /\ Known'
  OBVIOUS
<1>1. WellFormed' /\ Promises'
  BY StepWellFormed, StepPromises DEF Known
<1>2. Sound
  BY <1>1 DEF Sound, Known
<1>3. Mapped
  <2>1. CASE UNCHANGED vars
    BY <1>2, <2>1, ReadKept, KeptIsMapped DEF vars, AwsKept, awsVars, clusterVars
  <2>2. CASE Next
    BY <1>2, <2>2, LoopMapped, InstanceMapped, OthersMapped DEF Next, ExecStep
  <2> QED
    BY <2>1, <2>2
<1>4. loc \in [Pods -> Instances \cup {Unplaced}] /\ loc' \in [Pods -> Instances \cup {Unplaced}]
  BY <1>1 DEF Known, WellFormed, TypeOK, ClusterTypeOK
<1>5. PlacesInPhase'
  BY <1>3, <1>4, PlacesArePods, PlacesFollow DEF Known, Promises
<1>6. PodsHaveNodes'
  <2>1. ASSUME NEW i \in Instances PROVE Exists(i)' <=> Phases'[i] \notin {"absent", "gone"}
    BY <1>1 DEF Promises, NodesHaveInstances, Phases, PhaseOf, Exists
  <2> QED
    BY <1>4, <1>5, <2>1 DEF PodsHaveNodes, PlacesInPhase
<1> QED
  BY <1>1, <1>3, <1>6 DEF Known

LEMMA InitMapped == Init => Lifecycle!Init /\ Known
<1> SUFFICES ASSUME Init PROVE Lifecycle!Init /\ Known
  OBVIOUS
<1>1. WellFormed /\ Promises
  BY InitWellFormed, InitPromises
<1>2. /\ loc \in [Pods -> Initial] /\ Initial \subseteq Instances /\ retired = {}
      /\ nodes = [i \in Instances |-> IF i \in Initial THEN [FreshNode EXCEPT !.ready = TRUE] ELSE NoNode]
      /\ lifecycle = [i \in Instances |-> IF i \in Initial THEN "InService" ELSE "none"]
  BY AutoScalingAssumption DEF Init, ClusterInit, AutoScalingInit
<1>3. PICK n : n = [FreshNode EXCEPT !.ready = TRUE]
  OBVIOUS
<1>4. n \in Node /\ ~n.unschedulable /\ n.marks = {}
  BY <1>3 DEF FreshNode, Node
<1>5. n # NoNode
  BY <1>4, ClusterAssumption
<1>6. Phases = [i \in Instances |-> IF i \in Initial THEN "open" ELSE "absent"]
  BY <1>2, <1>3, <1>4, <1>5 DEF Phases, PhaseOf, Exists
<1>7. OnRecord = {}
  BY <1>2, <1>3, <1>4, <1>5 DEF OnRecord, Exists
<1>8. PodsHaveNodes
  BY <1>2, <1>3, <1>5 DEF PodsHaveNodes, Exists
<1>9. loc \in [Pods -> {i \in Instances : Phases[i] = "open"}]
  BY <1>2, <1>6
<1> QED
  BY <1>1, <1>6, <1>7, <1>8, <1>9 DEF Lifecycle!Init, Known

-----------------------------------------------------------------------------

\* Whatever fails, crashes or overlaps, the rolling update is one of
\* NodeLifecycle: nodes are closed before they are emptied, emptied before
\* they are recorded as drained, and closed and empty when AWS is told to
\* terminate them (main.go:189-227).
THEOREM RolloutImplementsLifecycle ==
    ASSUME NobodyUncordons
    PROVE  Spec => LifecycleKept
<1>1. Init => Lifecycle!Init /\ Known
  BY InitMapped
<1>2. Known /\ [Next]_vars => Mapped /\ Known'
  BY StepMapped
<1>3. Mapped => [Lifecycle!Next]_(Lifecycle!vars)
  BY DEF Mapped, Lifecycle!vars
<1> QED
  BY <1>1, <1>2, <1>3, PTL DEF Spec, LifecycleKept, Lifecycle!Spec
=============================================================================
