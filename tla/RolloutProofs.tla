--------------------------- MODULE RolloutProofs ---------------------------
(***************************************************************************)
(* What holds of RollingUpgrade for every number of groups, instances,     *)
(* pods and executions, and every configuration.                           *)
(***************************************************************************)
EXTENDS RolloutInvariant, FiniteSetTheorems, TLAPS

-----------------------------------------------------------------------------
(* Types of the operators the actions are built from.                      *)

\* A mark added to a node, or taken from it, leaves a node.
LEMMA NodeOperators ==
    ASSUME NEW n \in Node, NEW mark \in {"started", "drained", "terminated", "excluded"}
    PROVE  /\ Marked(n, mark) \in Node
           /\ Cleaned(n) \in Node
           /\ FreshNode \in Node
BY DEF Node, Marked, Cleaned, FreshNode

\* The client's view is a list of nodes, whether it is cached or not.
LEMMA ViewType ==
    ASSUME ClusterTypeOK
    PROVE  View \in NodeList /\ ViewStale \subseteq Instances
BY DEF ClusterTypeOK, View, ViewStale

ExecutionOK(x) == x \in Execution /\ HandOK(x)

\* Leaving an instance or a group leaves an execution in order.
LEMMA ControlOK ==
    ASSUME NEW x \in Execution
    PROVE  /\ ExecutionOK(Broken(x))
           /\ x.group \in Groups => ExecutionOK(Continued(x))
           /\ x.group \in Groups /\ x.inst \in Instances => ExecutionOK(TerminateNext(x))
<1>1. Continued(x) \in Execution /\ Continued(x).pc = "pick" /\ Continued(x).group = x.group
  BY DEF Execution, Continued, Labels
<1>2. Broken(x) \in Execution /\ Broken(x).pc = "group"
  BY DEF Execution, Broken, Continued, Labels
<1>3. TerminateNext(x) \in {Continued(x), [x EXCEPT !.pc = "terminate", !.victims = {}]}
  BY DEF TerminateNext
<1>4. [x EXCEPT !.pc = "terminate", !.victims = {}] \in Execution
  BY DEF Execution, Labels
<1>5. /\ [x EXCEPT !.pc = "terminate", !.victims = {}].inst = x.inst
      /\ [x EXCEPT !.pc = "terminate", !.victims = {}].group = x.group
  BY DEF Execution
<1> QED
  BY <1>1, <1>2, <1>3, <1>4, <1>5 DEF ExecutionOK, HandOK, BusyLabels

\* Recording a deed changes nothing else.
LEMMA LogType ==
    ASSUME NEW x \in Execution, NEW kind \in Deeds, x.inst \in Instances
    PROVE  /\ Log(x, kind) \in Execution
           /\ Log(x, kind) = [x EXCEPT !.did = Log(x, kind).did]
           /\ Log(x, kind).did = x.did \cup {<<kind, x.inst>>}
           /\ Log(x, kind).inst = x.inst /\ Log(x, kind).group = x.group
           /\ Log(x, kind).pc = x.pc /\ Log(x, kind).todo = x.todo
           /\ Log(x, kind).queue = x.queue /\ Log(x, kind).snap = x.snap
<1> DEFINE did == x.did \cup {<<kind, x.inst>>}
<1>1. did \subseteq Deeds \X Instances
  BY DEF Execution
<1>2. Log(x, kind) = [x EXCEPT !.did = did]
  BY DEF Log
<1> HIDE DEF did
<1>3. /\ [x EXCEPT !.did = did] \in Execution
      /\ [x EXCEPT !.did = did].did = did
      /\ [x EXCEPT !.did = did].inst = x.inst /\ [x EXCEPT !.did = did].group = x.group
      /\ [x EXCEPT !.did = did].pc = x.pc /\ [x EXCEPT !.did = did].todo = x.todo
      /\ [x EXCEPT !.did = did].queue = x.queue /\ [x EXCEPT !.did = did].snap = x.snap
  BY <1>1 DEF Execution
<1> QED
  BY <1>2, <1>3 DEF did

\* The cluster has its types, and current copies agree with the API server and
\* remember the drains it has on record.
ClusterOK == ClusterTypeOK /\ CopiesAgree /\ CopiesRemember

\* A copy an update is accepted from stands for a node that exists.
LEMMA CurrentCopy ==
    ASSUME ClusterOK, NEW i \in Instances, i \notin ViewStale
    PROVE  /\ View[i] = NoNode <=> nodes[i] = NoNode
           /\ View[i] # NoNode => View[i].unschedulable = nodes[i].unschedulable
           /\ nodes[i] # NoNode /\ "drained" \in nodes[i].marks => "drained" \in View[i].marks
BY DEF ClusterOK, CopiesAgree, CopiesRemember, View, ViewStale

\* Writing a mark keeps the cluster well formed.
LEMMA WriteMarkOK ==
    ASSUME ClusterOK, NEW i \in Instances,
           NEW mark \in {"started", "drained", "terminated", "excluded"}, NEW persisted \in BOOLEAN,
           WriteMark(i, mark, persisted)
    PROVE  ClusterOK'
<1> DEFINE written == [Marked(View[i], mark) EXCEPT !.ready = nodes[i].ready]
<1>1. View \in NodeList /\ ViewStale \subseteq Instances
  BY ViewType DEF ClusterOK
<1>2. View[i] \in Node
  BY <1>1 DEF WriteMark, NodeNotFound, NodeList
<1>3. /\ Marked(View[i], mark) \in Node
      /\ Marked(View[i], mark).unschedulable = View[i].unschedulable
      /\ View[i].marks \subseteq Marked(View[i], mark).marks
  BY <1>2, NodeOperators DEF Marked, Node
<1>4. cache' \in NodeList /\ cache' # NoCache /\ cache' = [View EXCEPT ![i] = Marked(View[i], mark)]
  BY <1>1, <1>3, ClusterAssumption DEF WriteMark, NodeList
<1>5. CASE persisted
  <2>1. i \notin ViewStale /\ nodes' = [nodes EXCEPT ![i] = written] /\ stale' = ViewStale \cup {i}
    BY <1>5 DEF WriteMark, UpdateAccepted
  <2>2. nodes[i] # NoNode
    BY <1>2, <2>1, CurrentCopy, ClusterAssumption
  <2>3. nodes[i].ready \in BOOLEAN
    BY <2>2 DEF ClusterOK, ClusterTypeOK, NodeList, Node
  <2>4. written \in Node
    BY <1>3, <2>3 DEF Node
  <2>5. ClusterTypeOK'
    BY <1>1, <1>4, <1>5, <2>1, <2>4 DEF WriteMark, NodeList, ClusterTypeOK, ClusterOK
  <2>6. CopiesAgree'
    <3> SUFFICES ASSUME NEW j \in Instances \ stale'
                 PROVE  /\ cache'[j] = NoNode <=> nodes'[j] = NoNode
                        /\ cache'[j] # NoNode => cache'[j].unschedulable = nodes'[j].unschedulable
      BY DEF CopiesAgree
    <3>1. j # i /\ j \notin ViewStale
      BY <2>1
    <3>2. cache'[j] = View[j] /\ nodes'[j] = nodes[j]
      BY <1>1, <1>4, <2>1, <3>1 DEF NodeList, ClusterOK, ClusterTypeOK
    <3> QED
      BY <3>1, <3>2, CurrentCopy
  <2>7. CopiesRemember'
    <3> SUFFICES ASSUME NEW j \in Instances \ stale', nodes'[j] # NoNode, "drained" \in nodes'[j].marks
                 PROVE  "drained" \in cache'[j].marks
      BY DEF CopiesRemember
    <3>1. j # i /\ j \notin ViewStale
      BY <2>1
    <3>2. cache'[j] = View[j] /\ nodes'[j] = nodes[j]
      BY <1>1, <1>4, <2>1, <3>1 DEF NodeList, ClusterOK, ClusterTypeOK
    <3> QED
      BY <3>1, <3>2, CurrentCopy
  <2> QED
    BY <2>5, <2>6, <2>7 DEF ClusterOK
<1>6. CASE ~persisted
  <2>1. nodes' = nodes /\ loc' = loc /\ stale' = ViewStale
    BY <1>6 DEF WriteMark
  <2>2. ClusterTypeOK'
    BY <1>1, <1>4, <2>1 DEF ClusterTypeOK, ClusterOK
  <2>3. CopiesAgree'
    <3> SUFFICES ASSUME NEW j \in Instances \ stale'
                 PROVE  /\ cache'[j] = NoNode <=> nodes'[j] = NoNode
                        /\ cache'[j] # NoNode => cache'[j].unschedulable = nodes'[j].unschedulable
      BY DEF CopiesAgree
    <3>1. j \notin ViewStale /\ nodes'[j] = nodes[j]
      BY <2>1
    <3>2. CASE j = i
      BY <1>1, <1>2, <1>3, <1>4, <3>1, <3>2, CurrentCopy, ClusterAssumption DEF NodeList
    <3>3. CASE j # i
      BY <1>1, <1>4, <3>1, <3>3, CurrentCopy DEF NodeList
    <3> QED
      BY <3>2, <3>3
  <2>4. CopiesRemember'
    <3> SUFFICES ASSUME NEW j \in Instances \ stale', nodes'[j] # NoNode, "drained" \in nodes'[j].marks
                 PROVE  "drained" \in cache'[j].marks
      BY DEF CopiesRemember
    <3>1. "drained" \in View[j].marks
      BY <2>1, CurrentCopy
    <3>2. cache'[j] = IF j = i THEN Marked(View[i], mark) ELSE View[j]
      BY <1>1, <1>4 DEF NodeList
    <3> QED
      BY <1>3, <3>1, <3>2
  <2> QED
    BY <2>2, <2>3, <2>4 DEF ClusterOK
<1> QED
  BY <1>5, <1>6

\* So does reading through the cache.
LEMMA ReadOK ==
    ASSUME ClusterOK, nodes' = nodes, loc' = loc,
           GetNodes \/ UNCHANGED <<cache, stale>>
    PROVE  ClusterOK'
BY ViewType DEF ClusterOK, ClusterTypeOK, CopiesAgree, CopiesRemember, GetNodes, View, ViewStale

\* ... and every annotation or label, persisted or not.
LEMMA AnnotateOK ==
    ASSUME ClusterOK, NEW i \in Instances,
           NEW mark \in {"started", "drained", "terminated", "excluded"},
           AnnotateNode(i, mark) \/ AnnotateFails(i, mark) \/ LabelNode(i, mark)
    PROVE  ClusterOK'
<1>1. CASE \E persisted \in BOOLEAN : WriteMark(i, mark, persisted)
  BY <1>1, WriteMarkOK
<1>2. CASE nodes' = nodes /\ loc' = loc /\ (GetNodes \/ UNCHANGED <<cache, stale>>)
  BY <1>2, ReadOK
<1> QED
  BY <1>1, <1>2 DEF AnnotateNode, AnnotateFails, LabelNode, MarkImpossible, clusterVars

\* ... and EDGE-0001, whose nodes all have a copy.
LEMMA CleanUpOK ==
    ASSUME ClusterOK, NEW stained \in SUBSET Instances, NEW persisted \in SUBSET stained,
           \A i \in stained : View[i] # NoNode,
           CleanUp(stained, persisted)
    PROVE  ClusterOK'
<1> DEFINE written(i) == [Cleaned(View[i]) EXCEPT !.ready = nodes[i].ready]
<1>1. View \in NodeList /\ ViewStale \subseteq Instances
  BY ViewType DEF ClusterOK
<1>2. ASSUME NEW i \in stained
      PROVE  /\ Cleaned(View[i]) \in Node
             /\ Cleaned(View[i]).unschedulable = View[i].unschedulable
             /\ "drained" \in View[i].marks => "drained" \in Cleaned(View[i]).marks
  <2>1. View[i] \in Node
    BY <1>1 DEF NodeList
  <2> QED
    BY <2>1, NodeOperators DEF Cleaned, Node
<1>3. ASSUME NEW i \in persisted
      PROVE  written(i) \in Node /\ nodes[i] # NoNode
  <2>1. i \in Instances /\ i \notin ViewStale
    BY DEF CleanUp, UpdateAccepted
  <2>2. nodes[i] # NoNode
    BY <2>1, CurrentCopy
  <2>3. nodes[i].ready \in BOOLEAN
    BY <2>1, <2>2 DEF ClusterOK, ClusterTypeOK, NodeList, Node
  <2> QED
    BY <1>2, <2>2, <2>3 DEF Node
<1>4. cache' \in NodeList
  BY <1>1, <1>2 DEF CleanUp, NodeList
<1>5. nodes' \in NodeList
  BY <1>3 DEF CleanUp, NodeList, ClusterOK, ClusterTypeOK
<1>6. ClusterTypeOK'
  BY <1>1, <1>4, <1>5 DEF CleanUp, ClusterOK, ClusterTypeOK
<1>7. CopiesAgree'
  <2> SUFFICES ASSUME NEW j \in Instances \ stale'
               PROVE  /\ cache'[j] = NoNode <=> nodes'[j] = NoNode
                      /\ cache'[j] # NoNode => cache'[j].unschedulable = nodes'[j].unschedulable
    BY DEF CopiesAgree
  <2>1. j \notin ViewStale /\ j \notin persisted /\ nodes'[j] = nodes[j]
    BY DEF CleanUp
  <2>2. CASE j \in stained
    BY <1>2, <2>1, <2>2, CurrentCopy, ClusterAssumption DEF CleanUp
  <2>3. CASE j \notin stained
    BY <2>1, <2>3, CurrentCopy DEF CleanUp
  <2> QED
    BY <2>2, <2>3
<1>8. CopiesRemember'
  <2> SUFFICES ASSUME NEW j \in Instances \ stale', nodes'[j] # NoNode, "drained" \in nodes'[j].marks
               PROVE  "drained" \in cache'[j].marks
    BY DEF CopiesRemember
  <2>1. j \notin ViewStale /\ nodes'[j] = nodes[j]
    BY DEF CleanUp
  <2>2. "drained" \in View[j].marks
    BY <2>1, CurrentCopy
  <2> QED
    BY <1>2, <2>2 DEF CleanUp
<1> QED
  BY <1>6, <1>7, <1>8 DEF ClusterOK

\* ... and every change of one node on the API server that the cache learns
\* nothing of.
LEMMA ChangeOK ==
    ASSUME ClusterOK, NEW i \in Instances, NEW n \in Node \cup {NoNode},
           nodes' = [nodes EXCEPT ![i] = n],
           loc' \in [Pods -> Instances \cup {Unplaced}],
           Touch(i), cache' = cache
    PROVE  ClusterOK'
BY DEF ClusterOK, ClusterTypeOK, CopiesAgree, CopiesRemember, Touch, NodeList

\* ... whichever operation it comes from.
LEMMA ClusterStepsOK ==
    ASSUME ClusterOK, NEW i \in Instances,
           \/ Cordon(i) \/ Uncordon(i) \/ NodeJoins(i) \/ NodeBecomesReady(i) \/ NodeVanishes(i)
           \/ \E p \in Pods : Evict(p) \/ Schedule(p, i)
    PROVE  ClusterOK'
<1>t. nodes \in NodeList /\ loc \in [Pods -> Instances \cup {Unplaced}]
  BY DEF ClusterOK, ClusterTypeOK
<1>n. ASSUME nodes[i] # NoNode
      PROVE  /\ nodes[i] \in Node
             /\ [nodes[i] EXCEPT !.ready = TRUE] \in Node
             /\ [nodes[i] EXCEPT !.unschedulable = FALSE, !.late = FALSE] \in Node
             /\ [nodes[i] EXCEPT !.unschedulable = TRUE, !.late = "started" \in nodes[i].marks] \in Node
  <2>1. nodes[i] \in Node
    BY <1>t, <1>n DEF NodeList
  <2>2. [nodes[i] EXCEPT !.ready = TRUE] \in Node
    BY <2>1 DEF Node
  <2>3. [nodes[i] EXCEPT !.unschedulable = FALSE, !.late = FALSE] \in Node
    BY <2>1 DEF Node
  <2>4. ASSUME NEW b \in BOOLEAN PROVE [nodes[i] EXCEPT !.unschedulable = TRUE, !.late = b] \in Node
    BY <2>1 DEF Node
  <2>5. ("started" \in nodes[i].marks) \in BOOLEAN
    OBVIOUS
  <2> QED
    BY <2>1, <2>2, <2>3, <2>4, <2>5
<1>1. CASE Cordon(i)
  <2>1. CASE nodes[i].unschedulable
    BY <1>1, <2>1, ReadOK DEF Cordon
  <2>2. CASE ~nodes[i].unschedulable
    <3> DEFINE n == [nodes[i] EXCEPT !.unschedulable = TRUE, !.late = "started" \in nodes[i].marks]
    <3>1. n \in Node
      BY <1>1, <1>n DEF Cordon, Exists
    <3>2. nodes' = [nodes EXCEPT ![i] = n]
      BY <1>1, <1>t, <1>n, <2>2 DEF Cordon, Exists, NodeList, Node
    <3> QED
      BY <1>1, <1>t, <2>2, <3>1, <3>2, ChangeOK DEF Cordon
  <2> QED
    BY <2>1, <2>2
<1>2. CASE Uncordon(i)
  <2> DEFINE n == [nodes[i] EXCEPT !.unschedulable = FALSE, !.late = FALSE]
  <2>1. n \in Node
    BY <1>2, <1>n DEF Uncordon, Exists
  <2>2. nodes' = [nodes EXCEPT ![i] = n]
    BY <1>2, <1>t, <1>n DEF Uncordon, Exists, NodeList, Node
  <2> QED
    BY <1>2, <1>t, <2>1, <2>2, ChangeOK DEF Uncordon
<1>3. ASSUME NEW p \in Pods, Evict(p) PROVE ClusterOK'
  BY <1>3, <1>t DEF Evict, ClusterOK, ClusterTypeOK, CopiesAgree, CopiesRemember
<1>4. ASSUME NEW p \in Pods, Schedule(p, i) PROVE ClusterOK'
  BY <1>4, <1>t DEF Schedule, ClusterOK, ClusterTypeOK, CopiesAgree, CopiesRemember
<1>5. CASE NodeJoins(i)
  <2>1. FreshNode \in Node
    BY DEF FreshNode, Node
  <2> QED
    BY <1>5, <1>t, <2>1, ChangeOK DEF NodeJoins
<1>6. CASE NodeBecomesReady(i)
  <2> DEFINE n == [nodes[i] EXCEPT !.ready = TRUE]
  <2>1. n \in Node
    BY <1>6, <1>n DEF NodeBecomesReady, Exists
  <2>2. nodes' = [nodes EXCEPT ![i] = n]
    BY <1>6, <1>t DEF NodeBecomesReady
  <2> QED
    BY <1>6, <1>t, <2>1, <2>2, ChangeOK DEF NodeBecomesReady
<1>7. CASE NodeVanishes(i)
  <2>1. loc' \in [Pods -> Instances \cup {Unplaced}]
    BY <1>7, <1>t DEF NodeVanishes
  <2> QED
    BY <1>7, <2>1, ChangeOK DEF NodeVanishes
<1> QED
  BY <1>1, <1>2, <1>3, <1>4, <1>5, <1>6, <1>7

\* What AWS does keeps its types.
LEMMA AwsStepsOK ==
    ASSUME AutoScalingTypeOK,
           \/ \E i \in Instances, decrement \in BOOLEAN : TerminateEc2Instance(i, decrement)
           \/ \E g \in Groups, n \in Int : SetDesiredCapacity(g, n)
           \/ \E i \in Instances : Launch(i) \/ EnterService(i) \/ ScaleIn(i) \/ Vanish(i)
           \/ \E g \in Groups, v \in Versions : Retarget(g, v)
    PROVE  AutoScalingTypeOK'
<1>t. /\ \A i \in Instances : GroupOf[i] \in Groups
      /\ MinSize \in [Groups -> Nat] /\ MaxSize \in [Groups -> Nat]
  BY AutoScalingAssumption
<1>1. ASSUME NEW i \in Instances, NEW decrement \in BOOLEAN, TerminateEc2Instance(i, decrement)
      PROVE  AutoScalingTypeOK'
  <2>1. desired' \in [Groups -> Nat]
    <3>1. CASE decrement
      <4>1. desired[GroupOf[i]] \in Nat /\ MinSize[GroupOf[i]] \in Nat
        BY <1>t DEF AutoScalingTypeOK
      <4>2. desired[GroupOf[i]] - 1 \in Nat
        BY <1>1, <3>1, <4>1 DEF TerminateEc2Instance, TerminationAllowed
      <4> QED
        BY <1>1, <3>1, <4>2 DEF TerminateEc2Instance, AutoScalingTypeOK
    <3>2. CASE ~decrement
      BY <1>1, <3>2 DEF TerminateEc2Instance, AutoScalingTypeOK
    <3> QED
      BY <3>1, <3>2
  <2>2. lifecycle' \in [Instances -> Lifecycles] /\ retired' \subseteq Instances
    BY <1>1 DEF TerminateEc2Instance, AutoScalingTypeOK, Lifecycles
  <2>3. version' = version /\ target' = target
    BY <1>1 DEF TerminateEc2Instance
  <2> QED
    BY <2>1, <2>2, <2>3 DEF AutoScalingTypeOK
<1>2. ASSUME NEW g \in Groups, NEW n \in Int, SetDesiredCapacity(g, n) PROVE AutoScalingTypeOK'
  <2>1. n \in Nat
    BY <1>2, <1>t DEF SetDesiredCapacity
  <2> QED
    BY <1>2, <2>1 DEF SetDesiredCapacity, AutoScalingTypeOK
<1>3. ASSUME NEW i \in Instances, Launch(i) PROVE AutoScalingTypeOK'
  BY <1>3, <1>t DEF Launch, AutoScalingTypeOK, Lifecycles
<1>4. ASSUME NEW i \in Instances, EnterService(i) \/ ScaleIn(i) \/ Vanish(i) PROVE AutoScalingTypeOK'
  BY <1>4 DEF EnterService, ScaleIn, Vanish, AutoScalingTypeOK, Lifecycles
<1>5. ASSUME NEW g \in Groups, NEW v \in Versions, Retarget(g, v) PROVE AutoScalingTypeOK'
  BY <1>5 DEF Retarget, AutoScalingTypeOK
<1> QED
  BY <1>1, <1>2, <1>3, <1>4, <1>5

-----------------------------------------------------------------------------
(* Type correctness.                                                       *)

WellFormed == TypeOK /\ InHand /\ CopiesAgree /\ CopiesRemember

\* The initial states are well formed.
LEMMA InitWellFormed == Init => WellFormed
<1> SUFFICES ASSUME Init PROVE WellFormed
  OBVIOUS
<1> USE DEF Init, AutoScalingInit, ClusterInit
<1>1. AutoScalingTypeOK
  <2>1. ASSUME NEW g \in Groups PROVE GroupSize(g) \in Nat
    <3>1. IsFiniteSet({i \in Initial : GroupOf[i] = g})
      BY AutoScalingAssumption, FS_Subset
    <3> QED
      BY <3>1, FS_CardinalityType DEF GroupSize
  <2> QED
    BY <2>1, AutoScalingAssumption DEF AutoScalingTypeOK, Lifecycles
<1>2. ClusterTypeOK
  <2>1. FreshNode \in Node /\ [FreshNode EXCEPT !.ready = TRUE] \in Node
    BY DEF FreshNode, Node
  <2>2. nodes \in NodeList
    BY <2>1 DEF NodeList
  <2> QED
    BY <2>2, AutoScalingAssumption DEF ClusterTypeOK
<1>3. Idle \in Execution /\ Idle.pc = "idle"
  BY AutoScalingAssumption DEF Idle, Execution, Labels, NoSnapshot, Snapshot
<1>4. TypeOK
  BY <1>1, <1>2, <1>3, RollingUpgradeAssumption DEF TypeOK
<1>5. InHand
  BY <1>3 DEF InHand, HandOK, BusyLabels
<1>6. CopiesAgree /\ CopiesRemember
  BY DEF CopiesAgree, CopiesRemember
<1> QED
  BY <1>4, <1>5, <1>6 DEF WellFormed

\* A step that replaces one execution by one in order, and keeps AWS and the
\* cluster in order, keeps all in order.
LEMMA Compose ==
    ASSUME WellFormed, NEW e \in Execs, NEW x,
           ExecutionOK(x), Become(e, x),
           current' \in Execs \cup {NoExec}, meddled' = meddled,
           AutoScalingTypeOK', ClusterOK'
    PROVE  WellFormed'
<1>1. exec' \in [Execs -> Execution]
  BY DEF WellFormed, TypeOK, Become, ExecutionOK
<1>2. InHand'
  BY DEF WellFormed, TypeOK, InHand, Become, ExecutionOK
<1> QED
  BY <1>1, <1>2 DEF WellFormed, TypeOK, ClusterOK

\* What an execution does by itself, before it has an instance or after.
LEMMA LoopWellFormed ==
    ASSUME WellFormed, NEW e \in Execs,
           \/ Begin(e) \/ Finish(e) \/ LeaveGroup(e)
           \/ \E g \in Groups : AssessGroup(e, g) \/ SkipGroup(e, g)
    PROVE  WellFormed'
<1>t. /\ exec[e] \in Execution /\ HandOK(exec[e]) /\ ClusterOK /\ AutoScalingTypeOK
      /\ current \in Execs \cup {NoExec}
  BY DEF WellFormed, TypeOK, InHand, ClusterOK
<1>u. ASSUME UNCHANGED <<awsVars, clusterVars>> PROVE AutoScalingTypeOK' /\ ClusterOK'
  BY <1>t, <1>u, ReadOK DEF awsVars, clusterVars, AutoScalingTypeOK
<1>i. ExecutionOK(Idle)
  BY AutoScalingAssumption DEF Idle, Execution, Labels, NoSnapshot, Snapshot, ExecutionOK, HandOK, BusyLabels
<1>1. CASE Begin(e)
  <2> DEFINE x == [Idle EXCEPT !.pc = "group", !.queue = Groups,
                               !.snap = [g \in Groups |-> SnapshotOf(g)]]
  <2>1. ASSUME NEW g \in Groups PROVE SnapshotOf(g) \in Snapshot
    BY <1>t DEF SnapshotOf, Snapshot, AutoScalingTypeOK, Members
  <2>2. x \in Execution /\ x.pc = "group"
    BY <1>i, <2>1 DEF ExecutionOK, Idle, Execution, Labels
  <2>3. ExecutionOK(x)
    BY <2>2 DEF ExecutionOK, HandOK, BusyLabels
  <2>4. Become(e, x) /\ current' = e /\ meddled' = meddled /\ UNCHANGED <<awsVars, clusterVars>>
    BY <1>1 DEF Begin
  <2> QED
    BY <2>3, <2>4, <1>u, Compose
<1>2. CASE Finish(e)
  BY <1>2, <1>t, <1>u, <1>i, Compose DEF Finish
<1>3. CASE LeaveGroup(e)
  BY <1>3, <1>t, <1>u, ControlOK, Compose DEF LeaveGroup, Break, OnlyExec
<1>4. ASSUME NEW g \in Groups, SkipGroup(e, g) PROVE WellFormed'
  <2> DEFINE x == [exec[e] EXCEPT !.queue = @ \ {g}]
  <2>1. x \in Execution /\ x.pc = "group"
    BY <1>4, <1>t DEF Execution, SkipGroup, At
  <2>2. ExecutionOK(x)
    BY <2>1 DEF ExecutionOK, HandOK, BusyLabels
  <2> QED
    BY <1>4, <1>t, <1>u, <2>2, Compose DEF SkipGroup, OnlyExec
<1>5. ASSUME NEW g \in Groups, AssessGroup(e, g) PROVE WellFormed'
  <2> DEFINE s == exec[e].snap[g]
             asked == Updated(s) \cap s.serving
             here == [exec[e] EXCEPT !.queue = @ \ {g}]
             picked(ready) == [here EXCEPT !.pc = "pick", !.group = g,
                                           !.snap[g] = [NoSnapshot EXCEPT !.desired = s.desired],
                                           !.todo = Outdated(s), !.ready = ready]
  <2>1. PICK unlisted \in Unlisted(asked) :
            /\ IF asked = unlisted
               THEN UNCHANGED clusterVars
               ELSE \E persisted \in SUBSET Stained(Found(asked \ unlisted)) :
                       CleanUp(Stained(Found(asked \ unlisted)), persisted)
            /\ Become(e, IF MayProceed(s, ReadyNodes(Found(asked \ unlisted)))
                         THEN picked(ReadyNodes(Found(asked \ unlisted)))
                         ELSE Broken(here))
    BY <1>5 DEF AssessGroup
  <2>2. s \in Snapshot
    BY <1>t DEF Execution
  <2>3. asked \subseteq Instances /\ Outdated(s) \subseteq Instances
    BY <2>2 DEF Snapshot, Updated, Outdated
  <2> DEFINE found == Found(asked \ unlisted)
             ready == ReadyNodes(found)
  <2>4. found \subseteq Instances /\ ready \subseteq Instances /\ \A i \in Stained(found) : i \in Instances /\ View[i] # NoNode
    BY <2>3 DEF Found, ReadyNodes, Stained
  <2>5. ClusterOK'
    <3>1. CASE UNCHANGED clusterVars
      BY <3>1, <1>t, ReadOK DEF clusterVars
    <3>2. ASSUME NEW persisted \in SUBSET Stained(found), CleanUp(Stained(found), persisted) PROVE ClusterOK'
      BY <3>2, <2>4, <1>t, CleanUpOK
    <3> QED
      BY <2>1, <3>1, <3>2
  <2>6. here \in Execution
    BY <1>t DEF Execution
  <2>7. [NoSnapshot EXCEPT !.desired = s.desired] \in Snapshot
    BY <2>2, AutoScalingAssumption DEF NoSnapshot, Snapshot
  <2>8. picked(ready) \in Execution /\ picked(ready).pc = "pick" /\ picked(ready).group = g
    BY <2>3, <2>4, <2>6, <2>7 DEF Execution, Labels
  <2>9. ExecutionOK(picked(ready)) /\ ExecutionOK(Broken(here))
    BY <2>6, <2>8, ControlOK DEF ExecutionOK, HandOK, BusyLabels
  <2>10. AutoScalingTypeOK' /\ current' = current /\ meddled' = meddled
    BY <1>5, <1>t DEF AssessGroup, OnlyExecAndCluster, awsVars, AutoScalingTypeOK
  <2> QED
    BY <2>1, <2>5, <2>9, <2>10, <1>t, Compose
<1> QED
  BY <1>1, <1>2, <1>3, <1>4, <1>5

\* What it does with the instances of a group.
LEMMA InstanceWellFormed ==
    ASSUME WellFormed, NEW e \in Execs,
           \/ \E i \in Instances : PickInstance(e, i)
           \/ \E p \in Pods : EvictPod(e, p)
           \/ CordonEagerly(e) \/ MarkStarted(e) \/ CheckResources(e) \/ ExcludeNode(e)
           \/ StartDrain(e) \/ CompleteDrain(e) \/ FailDrain(e) \/ MarkDrained(e)
           \/ Terminate(e) \/ TerminateAgain(e) \/ FailTerminate(e) \/ TerminateUnanswered(e)
           \/ MarkTerminated(e) \/ DescribeLatest(e) \/ Grow(e) \/ FailGrow(e) \/ GrowUnanswered(e)
    PROVE  WellFormed'
<1> DEFINE x == exec[e]
<1>t. /\ x \in Execution /\ HandOK(x) /\ ClusterOK /\ AutoScalingTypeOK
      /\ current \in Execs \cup {NoExec}
  BY DEF WellFormed, TypeOK, InHand, ClusterOK
<1>u. /\ UNCHANGED awsVars => AutoScalingTypeOK'
      /\ UNCHANGED clusterVars => ClusterOK'
  BY <1>t, ReadOK DEF awsVars, clusterVars, AutoScalingTypeOK
<1>g. ASSUME NEW label \in BusyLabels, x.pc \in BusyLabels
      PROVE  ExecutionOK([x EXCEPT !.pc = label])
  <2>1. [x EXCEPT !.pc = label] \in Execution
    BY <1>t DEF Execution, BusyLabels
  <2>2. [x EXCEPT !.pc = label].inst = x.inst /\ [x EXCEPT !.pc = label].group = x.group
    BY <1>t DEF Execution
  <2> QED
    BY <1>g, <1>t, <2>1, <2>2 DEF ExecutionOK, HandOK, BusyLabels
<1>h. x.pc \in BusyLabels =>
        /\ x.inst \in Instances /\ x.group \in Groups
        /\ ExecutionOK(Continued(x)) /\ ExecutionOK(Broken(x)) /\ ExecutionOK(TerminateNext(x))
  BY <1>t, ControlOK DEF HandOK
<1>l. ASSUME NEW kind \in Deeds, x.pc \in BusyLabels
      PROVE  /\ Log(x, kind) \in Execution
             /\ Log(x, kind).inst = x.inst /\ Log(x, kind).group = x.group
  BY <1>l, <1>h, <1>t, LogType
<1>d. {"drain", "retire", "grow", "retireUnanswered", "growUnanswered"} = Deeds
  BY DEF Deeds, Answered, Unanswered
<1>b. {"cordon", "start", "check", "label", "drain", "evict", "markDrained", "terminate",
       "markTerminated", "describe", "grow"} = BusyLabels
  BY DEF BusyLabels, Labels
<1>1. ASSUME NEW i \in Instances, PickInstance(e, i) PROVE WellFormed'
  <2> DEFINE y == [x EXCEPT !.todo = @ \ {i}]
             next == IF EagerCordoning /\ ~View[i].unschedulable
                     THEN "cordon" ELSE AfterReading(View[i].marks)
             z == [y EXCEPT !.inst = i, !.seen = View[i].marks, !.pc = next]
  <2>1. y \in Execution /\ y.group = x.group /\ y.group \in Groups
    BY <1>1, <1>t DEF Execution, PickInstance, At, HandOK
  <2>2. ExecutionOK(Continued(y))
    BY <2>1, ControlOK
  <2>3. ASSUME ~NodeNotFound(i) PROVE ExecutionOK(z)
    <3>1. View[i].marks \in SUBSET {"started", "drained", "terminated", "excluded"}
      BY <1>t, <2>3, ViewType DEF ClusterOK, NodeNotFound, NodeList, Node
    <3>2. next \in Labels
      BY DEF AfterReading, Labels
    <3>3. z \in Execution
      BY <2>1, <3>1, <3>2 DEF Execution
    <3>4. z.inst = i /\ z.group = x.group
      BY <1>t DEF Execution
    <3> QED
      BY <2>1, <3>3, <3>4 DEF ExecutionOK, HandOK
  <2>4. ClusterOK' /\ AutoScalingTypeOK'
    BY <1>1, <1>t, <1>u, ReadOK DEF PickInstance, OnlyExecAndCluster
  <2>5. current' = current /\ meddled' = meddled
    BY <1>1 DEF PickInstance, OnlyExecAndCluster
  <2>6. Become(e, Continued(y)) \/ (~NodeNotFound(i) /\ Become(e, z))
    BY <1>1 DEF PickInstance, RollingUpdateTimestamps
  <2> QED
    BY <1>t, <2>2, <2>3, <2>4, <2>5, <2>6, Compose
<1>2. ASSUME NEW p \in Pods, EvictPod(e, p) PROVE WellFormed'
  <2>1. x.inst \in Instances
    BY <1>2, <1>b, <1>h DEF EvictPod, At
  <2>2. ClusterOK'
    BY <1>2, <1>t, <2>1, ClusterStepsOK DEF EvictPod
  <2> QED
    BY <1>2, <1>u, <2>2 DEF EvictPod, OnlyExecAndCluster, WellFormed, TypeOK, InHand, ClusterOK
<1>3. CASE CordonEagerly(e)
  <2>1. x.pc \in BusyLabels /\ AfterReading(x.seen) \in BusyLabels
    BY <1>3, <1>b DEF CordonEagerly, At, AfterReading
  <2>2. ClusterOK'
    BY <1>3, <1>t, <1>u, <1>h, <2>1, ClusterStepsOK DEF CordonEagerly
  <2> QED
    BY <1>3, <1>t, <1>u, <1>g, <1>h, <2>1, <2>2, Compose
    DEF CordonEagerly, OnlyExecAndCluster, Goto, Continue
<1>4. CASE MarkStarted(e)
  <2>1. x.pc \in BusyLabels
    BY <1>4, <1>b DEF MarkStarted, At
  <2>2. ClusterOK'
    BY <1>4, <1>t, <1>h, <2>1, AnnotateOK DEF MarkStarted
  <2> QED
    BY <1>4, <1>t, <1>u, <1>h, <2>1, <2>2, Compose DEF MarkStarted, OnlyExecAndCluster, Continue
<1>5. CASE CheckResources(e)
  <2>1. x.pc \in BusyLabels
    BY <1>5, <1>b DEF CheckResources, At
  <2>2. \E y : ExecutionOK(y) /\ Become(e, y)
    BY <1>5, <1>b, <1>g, <1>h, <2>1 DEF CheckResources, Goto, Continue
  <2> QED
    BY <1>5, <1>t, <1>u, <2>2, Compose DEF CheckResources, OnlyExec
<1>6. CASE ExcludeNode(e)
  <2>1. x.pc \in BusyLabels
    BY <1>6, <1>b DEF ExcludeNode, At
  <2>2. ClusterOK'
    BY <1>6, <1>t, <1>h, <2>1, AnnotateOK DEF ExcludeNode
  <2> QED
    BY <1>6, <1>t, <1>u, <1>b, <1>g, <2>1, <2>2, Compose DEF ExcludeNode, OnlyExecAndCluster, Goto
<1>7. CASE StartDrain(e)
  <2> DEFINE y == [x EXCEPT !.pc = "evict", !.victims = PodsOn(x.inst)]
  <2>1. x.pc \in BusyLabels
    BY <1>7, <1>b DEF StartDrain, At
  <2>2. y \in Execution /\ y.inst = x.inst /\ y.group = x.group
    BY <1>t DEF Execution, PodsOn, Labels
  <2>3. ExecutionOK(y)
    BY <1>h, <2>1, <2>2 DEF ExecutionOK, HandOK
  <2>4. ClusterOK'
    BY <1>7, <1>t, <1>u, <1>h, <2>1, ClusterStepsOK DEF StartDrain
  <2> QED
    BY <1>7, <1>t, <1>u, <2>3, <2>4, Compose DEF StartDrain, OnlyExecAndCluster
<1>8. CASE CompleteDrain(e)
  <2> DEFINE y == [Log(x, "drain") EXCEPT !.pc = "markDrained"]
  <2>1. x.pc \in BusyLabels
    BY <1>8, <1>b DEF CompleteDrain, At
  <2>2. Log(x, "drain") \in Execution /\ Log(x, "drain").inst = x.inst /\ Log(x, "drain").group = x.group
    BY <1>d, <1>l, <2>1
  <2>3. y \in Execution /\ y.inst = x.inst /\ y.group = x.group
    BY <2>2 DEF Execution, Labels
  <2>4. ExecutionOK(y)
    BY <1>h, <2>1, <2>3 DEF ExecutionOK, HandOK
  <2> QED
    BY <1>8, <1>t, <1>u, <2>4, Compose DEF CompleteDrain, OnlyExec
<1>9. CASE FailDrain(e) \/ FailTerminate(e) \/ FailGrow(e)
  <2>1. x.pc \in BusyLabels
    BY <1>9, <1>b DEF FailDrain, FailTerminate, FailGrow, At
  <2> QED
    BY <1>9, <1>t, <1>u, <1>h, <2>1, Compose DEF FailDrain, FailTerminate, FailGrow, Continue, OnlyExec
<1>10. CASE MarkDrained(e)
  <2>1. x.pc \in BusyLabels
    BY <1>10, <1>b DEF MarkDrained, At
  <2>2. ClusterOK'
    BY <1>10, <1>t, <1>h, <2>1, AnnotateOK DEF MarkDrained
  <2> QED
    BY <1>10, <1>t, <1>u, <1>h, <2>1, <2>2, Compose DEF MarkDrained, OnlyExecAndCluster
<1>11. CASE Terminate(e)
  <2> DEFINE y == [Log(x, "retire") EXCEPT !.pc = "markTerminated"]
  <2>1. x.pc \in BusyLabels
    BY <1>11, <1>b DEF Terminate, At
  <2>2. Log(x, "retire") \in Execution /\ Log(x, "retire").inst = x.inst /\ Log(x, "retire").group = x.group
    BY <1>d, <1>l, <2>1
  <2>3. y \in Execution /\ y.inst = x.inst /\ y.group = x.group
    BY <2>2 DEF Execution, Labels
  <2>4. ExecutionOK(y)
    BY <1>h, <2>1, <2>3 DEF ExecutionOK, HandOK
  <2>5. ShouldDecrement(e) \in BOOLEAN
    BY DEF ShouldDecrement
  <2>6. AutoScalingTypeOK'
    BY <1>11, <1>t, <1>h, <2>1, <2>5, AwsStepsOK DEF Terminate
  <2> QED
    BY <1>11, <1>t, <1>u, <2>4, <2>6, Compose DEF Terminate, OnlyExecAndAws
<1>12. CASE TerminateAgain(e)
  <2>1. x.pc \in BusyLabels
    BY <1>12, <1>b DEF TerminateAgain, At
  <2> QED
    BY <1>12, <1>t, <1>u, <1>b, <1>g, <2>1, Compose DEF TerminateAgain, Goto, OnlyExec
<1>13. CASE MarkTerminated(e)
  <2> DEFINE y == [Broken(x) EXCEPT !.queue = IF SlowMode THEN {} ELSE @]
  <2>1. x.pc \in BusyLabels
    BY <1>13, <1>b DEF MarkTerminated, At
  <2>2. y \in Execution /\ y.pc = "group"
    BY <1>t DEF Broken, Continued, Execution, Labels
  <2>3. ExecutionOK(y)
    BY <2>2 DEF ExecutionOK, HandOK, BusyLabels
  <2>4. ClusterOK'
    BY <1>13, <1>t, <1>h, <2>1, AnnotateOK DEF MarkTerminated
  <2> QED
    BY <1>13, <1>t, <1>u, <2>3, <2>4, Compose DEF MarkTerminated, OnlyExecAndCluster
<1>14. CASE DescribeLatest(e)
  <2> DEFINE n == desired[x.group] + 1
             y == [x EXCEPT !.pc = "grow", !.latest = n]
  <2>1. x.pc \in BusyLabels
    BY <1>14, <1>b DEF DescribeLatest, At
  <2>2. n \in Nat
    BY <1>t, <1>h, <2>1 DEF AutoScalingTypeOK
  <2>3. y \in Execution /\ y.inst = x.inst /\ y.group = x.group
    BY <1>t, <2>2 DEF Execution, Labels
  <2>4. ExecutionOK(y)
    BY <1>h, <2>1, <2>3 DEF ExecutionOK, HandOK
  <2>5. \/ Become(e, y)
        \/ Continue(e)
    BY <1>14 DEF DescribeLatest
  <2> QED
    BY <1>14, <1>t, <1>u, <1>h, <2>1, <2>4, <2>5, Compose DEF DescribeLatest, Continue, OnlyExec
<1>15. CASE Grow(e)
  <2> DEFINE y == Broken(Log(x, "grow"))
  <2>1. x.pc \in BusyLabels
    BY <1>15, <1>b DEF Grow, At
  <2>2. ExecutionOK(y)
    BY <1>d, <1>l, <2>1, ControlOK
  <2>3. x.latest \in Int
    BY <1>t DEF Execution
  <2>4. AutoScalingTypeOK'
    BY <1>15, <1>t, <1>h, <2>1, <2>3, AwsStepsOK DEF Grow
  <2> QED
    BY <1>15, <1>t, <1>u, <2>2, <2>4, Compose DEF Grow, OnlyExecAndAws
<1>16. CASE TerminateUnanswered(e) \/ GrowUnanswered(e)
  <2>1. x.pc \in BusyLabels
    BY <1>16, <1>b DEF TerminateUnanswered, GrowUnanswered, At
  <2>2. ShouldDecrement(e) \in BOOLEAN /\ x.latest \in Int
    BY <1>t DEF ShouldDecrement, Execution
  <2>3. AutoScalingTypeOK'
    BY <1>16, <1>t, <1>h, <2>1, <2>2, AwsStepsOK DEF TerminateUnanswered, GrowUnanswered
  <2>4. \E y : ExecutionOK(y) /\ Become(e, y)
    <3>1. PICK kind \in Deeds : Become(e, Continued(Log(x, kind)))
      BY <1>16, <1>d DEF TerminateUnanswered, GrowUnanswered
    <3>2. ExecutionOK(Continued(Log(x, kind)))
      BY <1>h, <1>l, <2>1, ControlOK
    <3> QED
      BY <3>1, <3>2
  <2> QED
    BY <1>16, <1>t, <1>u, <2>3, <2>4, Compose DEF TerminateUnanswered, GrowUnanswered, OnlyExecAndAws
<1> QED
  BY <1>1, <1>2, <1>3, <1>4, <1>5, <1>6, <1>7, <1>8, <1>9, <1>10, <1>11, <1>12, <1>13, <1>14, <1>15, <1>16

\* What the process and everyone else do.
LEMMA OthersWellFormed ==
    ASSUME WellFormed,
           \/ TimeOut \/ Crash \/ Intervene \/ Expire
           \/ \E i \in Instances : AwsStep(i) \/ InstanceGone(i) \/ NodeStep(i)
           \/ \E p \in Pods, i \in Instances : Place(p, i)
    PROVE  WellFormed'
<1>t. ClusterOK /\ AutoScalingTypeOK
  BY DEF WellFormed, TypeOK, ClusterOK
<1>u. /\ UNCHANGED awsVars => AutoScalingTypeOK'
      /\ UNCHANGED clusterVars => ClusterOK'
  BY <1>t, ReadOK DEF awsVars, clusterVars, AutoScalingTypeOK
<1>h. ASSUME UNCHANGED exec, current' \in Execs \cup {NoExec}, meddled' \in 0 .. MaxInterventions,
             AutoScalingTypeOK', ClusterOK'
      PROVE  WellFormed'
  BY <1>h DEF WellFormed, TypeOK, InHand, ClusterOK
<1>m. meddled \in 0 .. MaxInterventions /\ current \in Execs \cup {NoExec}
  BY DEF WellFormed, TypeOK
<1>n. Meddle => meddled' \in 0 .. MaxInterventions
  BY <1>m, RollingUpgradeAssumption DEF Meddle
<1>1. CASE TimeOut
  BY <1>1, <1>u, <1>h, <1>m DEF TimeOut
<1>2. CASE Crash
  <2>1. ExecutionOK(Idle)
    BY AutoScalingAssumption DEF Idle, Execution, Labels, NoSnapshot, Snapshot, ExecutionOK, HandOK, BusyLabels
  <2>2. exec' \in [Execs -> Execution] /\ InHand'
    BY <1>2, <2>1 DEF Crash, ExecutionOK, InHand
  <2>3. ClusterOK'
    BY <1>2, <1>t DEF Crash, ClusterOK, ClusterTypeOK, CopiesAgree, CopiesRemember
  <2> QED
    BY <1>2, <1>u, <1>n, <2>2, <2>3 DEF Crash, WellFormed, TypeOK, ClusterOK
<1>3. CASE Intervene
  <2>1. CASE UNCHANGED clusterVars
    <3>1. \/ \E g \in Groups : SetDesiredCapacity(g, desired[g] + 1) \/ SetDesiredCapacity(g, desired[g] - 1)
          \/ \E g \in Groups, v \in Versions : Retarget(g, v)
          \/ UNCHANGED awsVars
      BY <1>3 DEF Intervene
    <3>2. \A g \in Groups : desired[g] + 1 \in Int /\ desired[g] - 1 \in Int
      BY <1>t DEF AutoScalingTypeOK
    <3>3. AutoScalingTypeOK'
      BY <1>t, <1>u, <3>1, <3>2, AwsStepsOK
    <3> QED
      BY <1>3, <1>u, <1>h, <1>m, <1>n, <2>1, <3>3 DEF Intervene
  <2>2. CASE UNCHANGED awsVars /\ \E i \in Instances : Uncordon(i)
    <3>1. ClusterOK'
      BY <1>t, <2>2, ClusterStepsOK
    <3> QED
      BY <1>3, <1>u, <1>h, <1>m, <1>n, <2>2, <3>1 DEF Intervene
  <2> QED
    BY <1>3, <2>1, <2>2 DEF Intervene
<1>4. CASE Expire
  <2>1. ClusterOK'
    BY <1>4, <1>t DEF Expire, CacheExpires, ClusterOK, ClusterTypeOK, CopiesAgree, CopiesRemember
  <2> QED
    BY <1>4, <1>u, <1>h, <1>m, <2>1 DEF Expire, HandlerUnchanged
<1>5. ASSUME NEW i \in Instances, AwsStep(i) \/ InstanceGone(i) \/ NodeStep(i) PROVE WellFormed'
  <2>1. ClusterOK'
    BY <1>5, <1>t, <1>u, ClusterStepsOK DEF AwsStep, InstanceGone, NodeStep
  <2>2. AutoScalingTypeOK'
    BY <1>5, <1>t, <1>u, AwsStepsOK DEF AwsStep, InstanceGone, NodeStep
  <2> QED
    BY <1>5, <1>h, <1>m, <2>1, <2>2 DEF AwsStep, InstanceGone, NodeStep, HandlerUnchanged
<1>6. ASSUME NEW p \in Pods, NEW i \in Instances, Place(p, i) PROVE WellFormed'
  BY <1>6, <1>t, <1>u, <1>h, <1>m, ClusterStepsOK DEF Place, HandlerUnchanged
<1> QED
  BY <1>1, <1>2, <1>3, <1>4, <1>5, <1>6

\* Every step keeps the state well formed.
LEMMA StepWellFormed == WellFormed /\ [Next]_vars => WellFormed'
<1>1. ASSUME WellFormed, UNCHANGED vars PROVE WellFormed'
  BY <1>1 DEF vars, awsVars, clusterVars, WellFormed, TypeOK, AutoScalingTypeOK, ClusterTypeOK, InHand,
              CopiesAgree, CopiesRemember
<1>2. ASSUME WellFormed, Next PROVE WellFormed'
  BY <1>2, LoopWellFormed, InstanceWellFormed, OthersWellFormed DEF Next, ExecStep
<1> QED
  BY <1>1, <1>2

\* Every variable keeps its type, and every execution that acts on an
\* instance has one, and its group, in hand.
THEOREM WellFormedness == Spec => []WellFormed
<1>1. Init => WellFormed
  BY InitWellFormed
<1>2. WellFormed /\ [Next]_vars => WellFormed'
  BY StepWellFormed
<1> QED
  BY <1>1, <1>2, PTL DEF Spec

\* Type correctness: the type invariant the run rollout_faults checks.
THEOREM TypeCorrectness == Spec => []TypeOK
<1>1. WellFormed => TypeOK
  BY DEF WellFormed
<1> QED
  BY <1>1, WellFormedness, PTL
=============================================================================
