--------------------------- MODULE GracefulProofs ---------------------------
(***************************************************************************)
(* As long as nobody uncordons nodes, an instance the handler has retired  *)
(* never hosts workload again, and the marks it leaves on nodes can be     *)
(* trusted: by whichever execution reads them, from whichever copy, after  *)
(* crashes, refused updates, timeouts and rollbacks alike.                 *)
(***************************************************************************)
EXTENDS RolloutProofs

\* What no step may undo: a closed node stays closed and gets no new pods; an
\* instance that has ended stays so; one that is gone has no node.
Steady ==
    \A i \in Instances :
        /\ Closed(i) => Closed(i)' /\ PodsOn(i)' \subseteq PodsOn(i)
        /\ Ended(i) => Ended(i)'
        /\ (lifecycle[i] = "gone" => nodes[i] = NoNode) => (lifecycle'[i] = "gone" => nodes'[i] = NoNode)

\* Every mark found after the step keeps its promise before it.
Promised ==
    /\ \A i \in Instances : nodes'[i] # NoNode => Promise(i, nodes'[i].marks)
    /\ cache' # NoCache => \A i \in Instances : cache'[i] # NoNode => Promise(i, cache'[i].marks)

Trusted == ClusterOK /\ ServerMarks /\ CachedMarks

\* The client's view, cached or not, holds only marks that keep their promise.
LEMMA ViewPromise ==
    ASSUME Trusted, NEW i \in Instances, View[i] # NoNode
    PROVE  Promise(i, View[i].marks)
BY DEF Trusted, ServerMarks, CachedMarks, View

\* A step that leaves pods, instances and the cordons of existing nodes alone
\* is steady.
LEMMA SteadyWhenCordonsKept ==
    ASSUME loc' = loc, lifecycle' = lifecycle,
           \A i \in Instances : /\ nodes'[i] = NoNode <=> nodes[i] = NoNode
                                /\ nodes[i] # NoNode /\ nodes[i].unschedulable => nodes'[i].unschedulable
    PROVE  Steady
BY DEF Steady, Closed, Exists, PodsOn, Ended

\* Writing a mark that keeps its promise is steady, and all marks still do.
LEMMA WriteMarkPromise ==
    ASSUME Trusted, NEW i \in Instances,
           NEW mark \in {"started", "drained", "terminated", "excluded"}, NEW persisted \in BOOLEAN,
           Promise(i, {mark}), WriteMark(i, mark, persisted), lifecycle' = lifecycle
    PROVE  Steady /\ Promised
<1>1. View \in NodeList /\ nodes \in NodeList
  BY ViewType DEF Trusted, ClusterOK, ClusterTypeOK
<1>2. View[i] \in Node /\ View[i] # NoNode
  BY <1>1 DEF WriteMark, NodeNotFound, NodeList
<1>3. /\ Marked(View[i], mark).marks = View[i].marks \cup {mark}
      /\ Marked(View[i], mark).unschedulable = View[i].unschedulable
      /\ Marked(View[i], mark) \in Node
  BY <1>2, NodeOperators DEF Marked, Node
<1>4. Promise(i, View[i].marks \cup {mark})
  BY <1>2, ViewPromise DEF Promise
<1>5. \A j \in Instances : cache'[j] # NoNode => Promise(j, cache'[j].marks)
  BY <1>1, <1>3, <1>4, ViewPromise DEF WriteMark, NodeList
<1>6. CASE persisted
  <2> DEFINE written == [Marked(View[i], mark) EXCEPT !.ready = nodes[i].ready]
  <2>1. written.marks = View[i].marks \cup {mark} /\ written.unschedulable = View[i].unschedulable
    BY <1>3 DEF Node
  <2>2. nodes' = [nodes EXCEPT ![i] = written] /\ i \notin ViewStale /\ loc' = loc
    BY <1>6 DEF WriteMark, UpdateAccepted
  <2>3. nodes[i] # NoNode /\ View[i].unschedulable = nodes[i].unschedulable
    BY <1>2, <2>2, CurrentCopy DEF Trusted
  <2>4. written # NoNode
    <3>1. nodes[i].ready \in BOOLEAN
      BY <1>1, <2>3 DEF NodeList, Node
    <3>2. written \in Node
      BY <1>3, <3>1 DEF Node
    <3> QED
      BY <3>2, ClusterAssumption
  <2>5. \A j \in Instances : nodes'[j] = IF j = i THEN written ELSE nodes[j]
    BY <1>1, <2>2 DEF NodeList
  <2>6. Steady
    BY <2>1, <2>2, <2>3, <2>4, <2>5, SteadyWhenCordonsKept
  <2>7. \A j \in Instances : nodes'[j] # NoNode => Promise(j, nodes'[j].marks)
    BY <1>4, <2>1, <2>5 DEF Trusted, ServerMarks
  <2> QED
    BY <1>5, <2>6, <2>7 DEF Promised
<1>7. CASE ~persisted
  <2>1. nodes' = nodes /\ loc' = loc
    BY <1>7 DEF WriteMark
  <2> QED
    BY <1>5, <2>1, SteadyWhenCordonsKept DEF Promised, Trusted, ServerMarks
<1> QED
  BY <1>6, <1>7

\* So is reading through the cache.
LEMMA ReadPromise ==
    ASSUME Trusted, nodes' = nodes, loc' = loc, lifecycle' = lifecycle,
           GetNodes \/ UNCHANGED <<cache, stale>>
    PROVE  Steady /\ Promised
BY SteadyWhenCordonsKept, ViewPromise DEF Promised, Trusted, ServerMarks, CachedMarks, GetNodes

\* ... and annotating or labelling, whatever comes of it.
LEMMA AnnotatePromise ==
    ASSUME Trusted, NEW i \in Instances,
           NEW mark \in {"started", "drained", "terminated", "excluded"},
           Promise(i, {mark}), lifecycle' = lifecycle,
           AnnotateNode(i, mark) \/ AnnotateFails(i, mark) \/ LabelNode(i, mark)
    PROVE  Steady /\ Promised
<1>1. CASE \E persisted \in BOOLEAN : WriteMark(i, mark, persisted)
  BY <1>1, WriteMarkPromise
<1>2. CASE nodes' = nodes /\ loc' = loc /\ (GetNodes \/ UNCHANGED <<cache, stale>>)
  BY <1>2, ReadPromise
<1> QED
  BY <1>1, <1>2 DEF AnnotateNode, AnnotateFails, LabelNode, MarkImpossible, clusterVars

\* ... and EDGE-0001, which takes a mark away and leaves the cordon.
LEMMA CleanUpPromise ==
    ASSUME Trusted, NEW stained \in SUBSET Instances, NEW persisted \in SUBSET stained,
           \A i \in stained : View[i] # NoNode,
           CleanUp(stained, persisted), lifecycle' = lifecycle
    PROVE  Steady /\ Promised
<1> DEFINE written(i) == [Cleaned(View[i]) EXCEPT !.ready = nodes[i].ready]
<1>1. View \in NodeList /\ nodes \in NodeList
  BY ViewType DEF Trusted, ClusterOK, ClusterTypeOK
<1>2. ASSUME NEW i \in stained
      PROVE  /\ Cleaned(View[i]) \in Node
             /\ Cleaned(View[i]).marks \subseteq View[i].marks
             /\ Cleaned(View[i]).unschedulable = View[i].unschedulable
             /\ Promise(i, View[i].marks)
  <2>1. View[i] \in Node
    BY <1>1 DEF NodeList
  <2> QED
    BY <2>1, NodeOperators, ViewPromise DEF Cleaned, Node
<1>3. ASSUME NEW i \in persisted
      PROVE  /\ written(i) # NoNode /\ nodes[i] # NoNode
             /\ written(i).marks \subseteq View[i].marks
             /\ written(i).unschedulable = nodes[i].unschedulable
  <2>1. i \in Instances /\ i \notin ViewStale
    BY DEF CleanUp, UpdateAccepted
  <2>2. nodes[i] # NoNode /\ View[i].unschedulable = nodes[i].unschedulable
    BY <2>1, CurrentCopy DEF Trusted
  <2>3. nodes[i].ready \in BOOLEAN
    BY <1>1, <2>1, <2>2 DEF NodeList, Node
  <2>4. written(i) \in Node /\ written(i).marks = Cleaned(View[i]).marks
        /\ written(i).unschedulable = Cleaned(View[i]).unschedulable
    BY <1>2, <2>3 DEF Node
  <2> QED
    BY <1>2, <2>2, <2>4, ClusterAssumption
<1>4. \A i \in Instances : nodes'[i] = IF i \in persisted THEN written(i) ELSE nodes[i]
  BY DEF CleanUp
<1>5. \A i \in Instances : cache'[i] = IF i \in stained THEN Cleaned(View[i]) ELSE View[i]
  BY DEF CleanUp
<1>6. Steady
  <2>1. loc' = loc
    BY DEF CleanUp
  <2> QED
    BY <1>3, <1>4, <2>1, SteadyWhenCordonsKept
<1>7. \A i \in Instances : nodes'[i] # NoNode => Promise(i, nodes'[i].marks)
  BY <1>2, <1>3, <1>4 DEF Trusted, ServerMarks, Promise
<1>8. \A i \in Instances : cache'[i] # NoNode => Promise(i, cache'[i].marks)
  BY <1>2, <1>5, ViewPromise DEF Promise
<1> QED
  BY <1>6, <1>7, <1>8 DEF Promised

\* ... and cordoning, which also leaves the node closed.
LEMMA CordonPromise ==
    ASSUME Trusted, NEW i \in Instances, Cordon(i), lifecycle' = lifecycle
    PROVE  Steady /\ Promised /\ Closed(i)' /\ loc' = loc
<1>1. nodes \in NodeList /\ loc' = loc /\ cache' = cache
  BY DEF Cordon, Trusted, ClusterOK, ClusterTypeOK
<1>2. nodes[i] \in Node /\ nodes[i] # NoNode
  BY <1>1 DEF Cordon, Exists, NodeList
<1>3. CASE nodes[i].unschedulable
  <2>1. nodes' = nodes
    BY <1>3 DEF Cordon
  <2>2. Steady
    BY <1>1, <2>1, SteadyWhenCordonsKept
  <2> QED
    BY <1>1, <1>2, <1>3, <2>1, <2>2 DEF Promised, Trusted, ServerMarks, CachedMarks, Closed, Exists
<1>4. CASE ~nodes[i].unschedulable
  <2>1. /\ \A j \in Instances : j # i => nodes'[j] = nodes[j]
        /\ nodes'[i].unschedulable = TRUE
        /\ nodes'[i].marks = nodes[i].marks
    BY <1>1, <1>2, <1>4 DEF Cordon, NodeList, Node
  <2>2. nodes'[i] # NoNode
    <3>1. ASSUME NEW b \in BOOLEAN
          PROVE  [nodes[i] EXCEPT !.unschedulable = TRUE, !.late = b] \in Node
      BY <1>2 DEF Node
    <3>2. nodes'[i] = [nodes[i] EXCEPT !.unschedulable = TRUE, !.late = "started" \in nodes[i].marks]
      BY <1>1, <1>2, <1>4 DEF Cordon, NodeList, Node
    <3>3. ("started" \in nodes[i].marks) \in BOOLEAN
      OBVIOUS
    <3>4. nodes'[i] \in Node
      BY <3>1, <3>2, <3>3
    <3> QED
      BY <3>4, ClusterAssumption
  <2>3. Steady
    BY <1>1, <1>2, <2>1, <2>2, SteadyWhenCordonsKept
  <2> QED
    BY <1>1, <1>2, <2>1, <2>2, <2>3 DEF Promised, Trusted, ServerMarks, CachedMarks, Closed, Exists
<1> QED
  BY <1>3, <1>4

\* What a steady step keeps.
LEMMA SteadyKeeps ==
    ASSUME Steady
    PROVE  /\ \A i \in Instances : Quiet(i) => Quiet(i)'
           /\ \A i \in Instances : \A marks : Promise(i, marks) => Promise(i, marks)'
BY DEF Steady, Quiet, Promise

\* In particular what an execution counts on, wherever it is.
LEMMA HandKept ==
    ASSUME Steady, NEW x \in Execution, HandOK(x), HandPromise(x)
    PROVE  HandPromise(x)'
<1>1. x.pc \in {"evict", "markDrained", "terminate", "markTerminated"} => x.inst \in Instances
  BY DEF HandOK, BusyLabels, Labels
<1>2. x.inst \in Instances => Promise(x.inst, x.seen)'
  BY SteadyKeeps DEF HandPromise
<1>3. x.pc = "evict" => Closed(x.inst)' /\ PodsOn(x.inst)' \subseteq x.victims
  BY <1>1 DEF HandPromise, Steady
<1>4. x.pc \in {"markDrained", "terminate", "markTerminated"} => Quiet(x.inst)'
  BY <1>1, SteadyKeeps DEF HandPromise
<1>5. x.pc = "markTerminated" => Ended(x.inst)'
  BY <1>1 DEF HandPromise, Steady
<1> QED
  BY <1>2, <1>3, <1>4, <1>5 DEF HandPromise

\* The part of the invariant that WellFormed does not cover.
Promises == ServerMarks /\ CachedMarks /\ HandsPromise /\ RetiredQuiet /\ NodesHaveInstances

\* A steady step that changes at most one execution, to one that keeps its
\* promise, and retires only a quiet instance, keeps all promises.
LEMMA Combine ==
    ASSUME WellFormed, Promises, Steady, Promised, NEW e \in Execs, NEW x,
           Become(e, x), HandPromise(x)',
           \A i \in retired' : i \in retired \/ (i \in Instances /\ Quiet(i))
    PROVE  Promises'
<1>1. ServerMarks' /\ CachedMarks'
  BY SteadyKeeps DEF Promised, ServerMarks, CachedMarks
<1>2. RetiredQuiet'
  <2>1. \A i \in retired : i \in Instances /\ Quiet(i)
    BY DEF WellFormed, TypeOK, AutoScalingTypeOK, Promises, RetiredQuiet
  <2> QED
    BY <2>1, SteadyKeeps DEF RetiredQuiet
<1>3. HandsPromise'
  <2> SUFFICES ASSUME NEW f \in Execs PROVE HandPromise(exec[f])'
    BY DEF HandsPromise
  <2>1. PICK y : y = exec'[f]
    OBVIOUS
  <2>2. HandPromise(y)'
    <3>1. CASE f = e
      BY <2>1, <3>1 DEF Become, WellFormed, TypeOK
    <3>2. CASE f # e
      <4>1. y = exec[f]
        BY <2>1, <3>2 DEF Become, WellFormed, TypeOK
      <4>2. y \in Execution /\ HandOK(y) /\ HandPromise(y)
        BY <4>1 DEF WellFormed, TypeOK, InHand, Promises, HandsPromise
      <4> QED
        BY <4>2, HandKept
    <3> QED
      BY <3>1, <3>2
  <2> QED
    BY <2>1, <2>2 DEF HandPromise, Promise, Quiet, Closed, PodsOn, Ended, Exists
<1>4. NodesHaveInstances'
  BY DEF Promises, NodesHaveInstances, Steady
<1> QED
  BY <1>1, <1>2, <1>3, <1>4 DEF Promises

\* The same for a step that changes no execution.
LEMMA CombineOthers ==
    ASSUME WellFormed, Promises, Steady, Promised, exec' = exec, retired' = retired
    PROVE  Promises'
<1>1. ServerMarks' /\ CachedMarks'
  BY SteadyKeeps DEF Promised, ServerMarks, CachedMarks
<1>2. RetiredQuiet'
  <2>1. \A i \in retired : i \in Instances /\ Quiet(i)
    BY DEF WellFormed, TypeOK, AutoScalingTypeOK, Promises, RetiredQuiet
  <2> QED
    BY <2>1, SteadyKeeps DEF RetiredQuiet
<1>3. HandsPromise'
  <2> SUFFICES ASSUME NEW f \in Execs PROVE HandPromise(exec[f])'
    BY DEF HandsPromise
  <2>1. PICK y : y = exec[f] /\ y = exec'[f]
    OBVIOUS
  <2>2. y \in Execution /\ HandOK(y) /\ HandPromise(y)
    BY <2>1 DEF WellFormed, TypeOK, InHand, Promises, HandsPromise
  <2>3. HandPromise(y)'
    BY <2>2, HandKept
  <2> QED
    BY <2>1, <2>3 DEF HandPromise, Promise, Quiet, Closed, PodsOn, Ended, Exists
<1>4. NodesHaveInstances'
  BY DEF Promises, NodesHaveInstances, Steady
<1> QED
  BY <1>1, <1>2, <1>3, <1>4 DEF Promises

-----------------------------------------------------------------------------
(* Steps that leave the cluster or AWS alone.                              *)

\* An execution that leaves its instance counts on nothing.
LEMMA FreeHand ==
    ASSUME NEW x \in Execution
    PROVE  HandPromise(Continued(x))' /\ HandPromise(Broken(x))' /\ HandPromise(Idle)'
BY RollingUpgradeAssumption DEF HandPromise, Continued, Broken, Idle, Execution

\* One that keeps it, before the drain, counts on the marks it has read.
LEMMA KeptHand ==
    ASSUME Steady, NEW x \in Execution, HandOK(x), HandPromise(x),
           NEW y, y.inst = x.inst, y.seen = x.seen,
           y.pc \notin {"evict", "markDrained", "terminate", "markTerminated"}
    PROVE  HandPromise(y)'
BY SteadyKeeps DEF HandPromise

\* Past the drain it also counts on the node being quiet.
LEMMA QuietHand ==
    ASSUME Steady, NEW x \in Execution, HandOK(x), HandPromise(x), x.inst \in Instances,
           Quiet(x.inst),
           NEW y, y.inst = x.inst, y.seen = x.seen, y.pc \in {"markDrained", "terminate"}
    PROVE  HandPromise(y)'
BY SteadyKeeps DEF HandPromise

\* TerminateNext goes on from there, or leaves the instance.
LEMMA TerminateNextHand ==
    ASSUME Steady, NEW x \in Execution, HandOK(x), HandPromise(x), x.inst \in Instances,
           Quiet(x.inst)
    PROVE  HandPromise(TerminateNext(x))'
<1> DEFINE y == [x EXCEPT !.pc = "terminate", !.victims = {}]
<1>1. y.inst = x.inst /\ y.seen = x.seen /\ y.pc = "terminate"
  BY DEF Execution
<1>2. HandPromise(y)'
  BY <1>1, QuietHand
<1> QED
  BY <1>2, FreeHand DEF TerminateNext

\* Instances that have ended keep their state in every step of AWS that
\* leaves the cluster alone: such a step is steady.
LEMMA AwsPromise ==
    ASSUME Trusted, UNCHANGED clusterVars,
           \A i \in Instances : Ended(i) => lifecycle'[i] = lifecycle[i],
           \A i \in Instances : lifecycle'[i] = "gone" => lifecycle[i] = "gone"
    PROVE  Steady /\ Promised
BY DEF Steady, Promised, Trusted, ServerMarks, CachedMarks, clusterVars, Closed, Exists, PodsOn, Ended

\* The actions that walk over the groups keep every promise.
LEMMA LoopPromises ==
    ASSUME WellFormed, Promises, NEW e \in Execs,
           \/ Begin(e) \/ Finish(e) \/ LeaveGroup(e)
           \/ \E g \in Groups : AssessGroup(e, g) \/ SkipGroup(e, g)
    PROVE  Steady /\ Promises'
<1>1. PICK x : x = exec[e]
  OBVIOUS
<1>t. /\ x \in Execution /\ HandOK(x) /\ HandPromise(x) /\ Trusted
      /\ UNCHANGED awsVars => lifecycle' = lifecycle /\ \A i \in retired' : i \in retired
  BY <1>1 DEF WellFormed, TypeOK, InHand, Promises, HandsPromise, Trusted, ClusterOK, awsVars
<1>u. UNCHANGED <<awsVars, clusterVars>> => Steady /\ Promised
  BY <1>t, ReadPromise DEF clusterVars, awsVars
<1>2. CASE Begin(e)
  <2>1. PICK y : y = [Idle EXCEPT !.pc = "group", !.queue = Groups,
                                  !.snap = [g \in Groups |-> SnapshotOf(g)]]
    OBVIOUS
  <2>2. y.pc = "group" /\ y.inst = NoInstance
    BY <2>1 DEF Idle
  <2>3. HandPromise(y)'
    BY <2>2, RollingUpgradeAssumption DEF HandPromise
  <2> QED
    BY <1>2, <1>t, <1>u, <2>1, <2>3, Combine DEF Begin
<1>3. CASE Finish(e)
  BY <1>3, <1>t, <1>u, FreeHand, Combine DEF Finish
<1>4. CASE LeaveGroup(e)
  BY <1>4, <1>1, <1>t, <1>u, FreeHand, Combine DEF LeaveGroup, Break, OnlyExec
<1>5. ASSUME NEW g \in Groups, SkipGroup(e, g) PROVE Steady /\ Promises'
  <2>1. PICK y : y = [x EXCEPT !.queue = @ \ {g}]
    OBVIOUS
  <2>2. y.inst = x.inst /\ y.seen = x.seen /\ y.pc = "group"
    BY <1>5, <1>1, <1>t, <2>1 DEF Execution, SkipGroup, At
  <2>3. HandPromise(y)'
    BY <1>5, <1>t, <1>u, <2>2, KeptHand DEF SkipGroup, OnlyExec
  <2> QED
    BY <1>5, <1>1, <1>t, <1>u, <2>1, <2>3, Combine DEF SkipGroup, OnlyExec
<1>6. ASSUME NEW g \in Groups, AssessGroup(e, g) PROVE Steady /\ Promises'
  <2> DEFINE s == x.snap[g]
             asked == Updated(s) \cap s.serving
             here == [x EXCEPT !.queue = @ \ {g}]
             picked(ready) == [here EXCEPT !.pc = "pick", !.group = g,
                                           !.snap[g] = [NoSnapshot EXCEPT !.desired = s.desired],
                                           !.todo = Outdated(s), !.ready = ready]
  <2>1. PICK unlisted \in Unlisted(asked) :
            /\ IF asked = unlisted
               THEN UNCHANGED clusterVars
               ELSE \E persisted \in SUBSET Stained(Found(asked \ unlisted)) :
                       CleanUp(Stained(Found(asked \ unlisted)), persisted)
            /\ Become(e, IF MayProceed(s, ReadyNodes(Found(asked \ unlisted)))
                         THEN picked(ReadyNodes(Found(asked \ unlisted)))
                         ELSE Broken(here))
    BY <1>6, <1>1 DEF AssessGroup
  <2>2. UNCHANGED awsVars /\ lifecycle' = lifecycle
    BY <1>6 DEF AssessGroup, OnlyExecAndCluster, awsVars
  <2>3. asked \subseteq Instances
    BY <1>t DEF Updated, Execution, Snapshot
  <2>4. Steady /\ Promised
    <3>1. CASE UNCHANGED clusterVars
      BY <2>2, <3>1, <1>u
    <3>2. ASSUME NEW persisted \in SUBSET Stained(Found(asked \ unlisted)),
                 CleanUp(Stained(Found(asked \ unlisted)), persisted)
          PROVE  Steady /\ Promised
      <4>1. \A i \in Stained(Found(asked \ unlisted)) : i \in Instances /\ View[i] # NoNode
        BY <2>3 DEF Stained, Found
      <4> QED
        BY <1>t, <2>2, <3>2, <4>1, CleanUpPromise
    <3> QED
      BY <2>1, <3>1, <3>2
  <2>5. PICK y : y = IF MayProceed(s, ReadyNodes(Found(asked \ unlisted)))
                     THEN picked(ReadyNodes(Found(asked \ unlisted)))
                     ELSE Broken(here)
    OBVIOUS
  <2>6. HandPromise(y)'
    <3>1. CASE y = picked(ReadyNodes(Found(asked \ unlisted)))
      <4>1. y.inst = x.inst /\ y.seen = x.seen /\ y.pc = "pick"
        BY <1>t, <3>1 DEF Execution
      <4> QED
        BY <1>t, <2>4, <4>1, KeptHand
    <3>2. CASE y = Broken(here)
      <4>1. here \in Execution
        BY <1>t DEF Execution
      <4> QED
        BY <3>2, <4>1, FreeHand
    <3> QED
      BY <2>5, <3>1, <3>2
  <2> QED
    BY <1>t, <2>1, <2>2, <2>4, <2>5, <2>6, Combine
<1> QED
  BY <1>2, <1>3, <1>4, <1>5, <1>6

-----------------------------------------------------------------------------
(* Steps on an instance.                                                   *)

\* The actions on the way to the drain, and those that give an instance up,
\* keep every promise.
LEMMA ApproachPromises ==
    ASSUME WellFormed, Promises, NEW e \in Execs,
           \/ \E i \in Instances : PickInstance(e, i)
           \/ CordonEagerly(e) \/ MarkStarted(e) \/ CheckResources(e) \/ ExcludeNode(e)
           \/ FailDrain(e) \/ FailTerminate(e) \/ DescribeLatest(e)
           \/ Grow(e) \/ FailGrow(e) \/ GrowUnanswered(e)
    PROVE  Steady /\ Promises'
<1>1. PICK x : x = exec[e]
  OBVIOUS
<1>t. /\ x \in Execution /\ HandOK(x) /\ HandPromise(x) /\ Trusted
      /\ UNCHANGED awsVars => lifecycle' = lifecycle /\ \A i \in retired' : i \in retired
  BY <1>1 DEF WellFormed, TypeOK, InHand, Promises, HandsPromise, Trusted, ClusterOK, awsVars
<1>u. UNCHANGED <<awsVars, clusterVars>> => Steady /\ Promised
  BY <1>t, ReadPromise DEF clusterVars, awsVars
<1>g. ASSUME Steady, Promised, UNCHANGED awsVars,
             NEW label \in {"check", "start", "label", "drain", "describe", "grow"},
             Become(e, [x EXCEPT !.pc = label])
      PROVE  Promises'
  <2>1. PICK y : y = [x EXCEPT !.pc = label]
    OBVIOUS
  <2>2. y.inst = x.inst /\ y.seen = x.seen /\ y.pc = label
    BY <1>t, <2>1 DEF Execution
  <2>3. HandPromise(y)'
    BY <1>t, <1>g, <2>2, KeptHand
  <2> QED
    BY <1>t, <1>g, <2>1, <2>3, Combine
<1>c. ASSUME Steady, Promised, UNCHANGED awsVars, Become(e, Continued(x)) PROVE Promises'
  BY <1>c, <1>t, FreeHand, Combine
<1>b. {"cordon", "start", "check", "label", "drain", "evict", "markDrained", "terminate",
       "markTerminated", "describe", "grow"} = BusyLabels
  BY DEF BusyLabels, Labels
<1>h. x.pc \in BusyLabels => x.inst \in Instances
  BY <1>t DEF HandOK
<1>2. ASSUME NEW i \in Instances, PickInstance(e, i) PROVE Steady /\ Promises'
  <2> DEFINE y == [x EXCEPT !.todo = @ \ {i}]
             next == IF EagerCordoning /\ ~View[i].unschedulable
                     THEN "cordon" ELSE AfterReading(View[i].marks)
  <2>1. UNCHANGED awsVars /\ lifecycle' = lifecycle
    BY <1>2 DEF PickInstance, OnlyExecAndCluster, awsVars
  <2>2. Steady /\ Promised
    BY <1>2, <1>t, <2>1, ReadPromise DEF PickInstance
  <2>3. \/ Become(e, Continued(y))
        \/ ~NodeNotFound(i) /\ Become(e, [y EXCEPT !.inst = i, !.seen = View[i].marks, !.pc = next])
    BY <1>2, <1>1 DEF PickInstance, RollingUpdateTimestamps
  <2>4. y \in Execution
    BY <1>t DEF Execution
  <2>5. CASE Become(e, Continued(y))
    <3>1. HandPromise(Continued(y))'
      BY <2>4, FreeHand
    <3> QED
      BY <1>t, <2>1, <2>2, <2>5, <3>1, Combine
  <2>6. CASE ~NodeNotFound(i) /\ Become(e, [y EXCEPT !.inst = i, !.seen = View[i].marks, !.pc = next])
    <3>1. PICK z : z = [y EXCEPT !.inst = i, !.seen = View[i].marks, !.pc = next]
      OBVIOUS
    <3>2. z.inst = i /\ z.seen = View[i].marks /\ z.pc \in {"cordon", "check", "start"}
      BY <2>4, <3>1 DEF Execution, AfterReading
    <3>3. Promise(i, z.seen)
      BY <1>t, <2>6, <3>2, ViewPromise DEF NodeNotFound
    <3>4. Promise(i, z.seen)'
      BY <2>2, <3>3, SteadyKeeps
    <3>5. HandPromise(z)'
      BY <3>2, <3>4 DEF HandPromise
    <3> QED
      BY <1>t, <2>1, <2>2, <2>6, <3>1, <3>5, Combine
  <2> QED
    BY <2>3, <2>5, <2>6
<1>3. CASE CordonEagerly(e)
  <2>1. x.inst \in Instances
    BY <1>3, <1>1, <1>b, <1>h DEF CordonEagerly, At
  <2>2. UNCHANGED awsVars /\ lifecycle' = lifecycle
    BY <1>3 DEF CordonEagerly, OnlyExecAndCluster, awsVars
  <2>3. Steady /\ Promised
    BY <1>3, <1>1, <1>t, <1>u, <2>1, <2>2, CordonPromise DEF CordonEagerly
  <2> QED
    BY <1>3, <1>1, <1>c, <1>g, <2>2, <2>3 DEF CordonEagerly, Goto, Continue, AfterReading
<1>4. CASE MarkStarted(e)
  <2>1. x.inst \in Instances
    BY <1>4, <1>1, <1>b, <1>h DEF MarkStarted, At
  <2>2. UNCHANGED awsVars /\ lifecycle' = lifecycle
    BY <1>4 DEF MarkStarted, OnlyExecAndCluster, awsVars
  <2>3. Promise(x.inst, {"started"})
    BY DEF Promise
  <2>4. Steady /\ Promised
    BY <1>4, <1>1, <1>t, <2>1, <2>2, <2>3, AnnotatePromise DEF MarkStarted
  <2> QED
    BY <1>4, <1>1, <1>c, <2>2, <2>4 DEF MarkStarted, Continue
<1>5. CASE CheckResources(e)
  <2>1. x.inst \in Instances /\ x.pc = "check"
    BY <1>5, <1>1, <1>b, <1>h DEF CheckResources, At
  <2>2. UNCHANGED awsVars /\ Steady /\ Promised
    BY <1>5, <1>u DEF CheckResources, OnlyExec
  <2>3. CASE "drained" \in exec[e].seen /\ Become(e, TerminateNext(exec[e]))
    <3>1. Quiet(x.inst)
      BY <1>1, <1>t, <2>1, <2>3 DEF HandPromise, Promise
    <3>2. HandPromise(TerminateNext(x))'
      BY <1>t, <2>1, <2>2, <3>1, TerminateNextHand
    <3> QED
      BY <1>1, <1>t, <2>2, <2>3, <3>2, Combine
  <2> QED
    BY <1>5, <1>1, <1>c, <1>g, <2>2, <2>3 DEF CheckResources, Goto, Continue
<1>6. CASE ExcludeNode(e)
  <2>1. x.inst \in Instances
    BY <1>6, <1>1, <1>b, <1>h DEF ExcludeNode, At
  <2>2. UNCHANGED awsVars /\ lifecycle' = lifecycle
    BY <1>6 DEF ExcludeNode, OnlyExecAndCluster, awsVars
  <2>3. Promise(x.inst, {"excluded"})
    BY DEF Promise
  <2>4. Steady /\ Promised
    BY <1>6, <1>1, <1>t, <2>1, <2>2, <2>3, AnnotatePromise DEF ExcludeNode
  <2> QED
    BY <1>6, <1>1, <1>g, <2>2, <2>4 DEF ExcludeNode, Goto
<1>7. CASE FailDrain(e) \/ FailTerminate(e) \/ FailGrow(e)
  BY <1>7, <1>1, <1>u, <1>c DEF FailDrain, FailTerminate, FailGrow, Continue, OnlyExec
<1>8. CASE DescribeLatest(e)
  <2>1. UNCHANGED awsVars /\ Steady /\ Promised
    BY <1>8, <1>u DEF DescribeLatest, OnlyExec
  <2>2. PICK n : Become(e, [x EXCEPT !.pc = "grow", !.latest = n]) \/ Become(e, Continued(x))
    BY <1>8, <1>1 DEF DescribeLatest, Continue
  <2>3. PICK y : y = [x EXCEPT !.pc = "grow", !.latest = n]
    OBVIOUS
  <2>4. y.inst = x.inst /\ y.seen = x.seen /\ y.pc = "grow"
    BY <1>t, <2>3 DEF Execution
  <2>5. HandPromise(y)'
    BY <1>t, <2>1, <2>4, KeptHand
  <2> QED
    BY <1>c, <1>t, <2>1, <2>2, <2>3, <2>5, Combine
<1>9. CASE Grow(e)
  <2>1. UNCHANGED clusterVars /\ lifecycle' = lifecycle /\ retired' = retired
    BY <1>9 DEF Grow, OnlyExecAndAws, SetDesiredCapacity
  <2>2. Steady /\ Promised
    BY <1>t, <2>1, AwsPromise
  <2>3. Log(x, "grow") \in Execution
    <3>1. x.inst \in Instances
      BY <1>9, <1>1, <1>b, <1>h DEF Grow, At
    <3> QED
      BY <1>t, <3>1, LogType DEF Deeds, Answered
  <2>4. HandPromise(Broken(Log(x, "grow")))'
    BY <2>3, FreeHand
  <2> QED
    BY <1>9, <1>1, <2>1, <2>2, <2>4, Combine DEF Grow
<1>10. CASE GrowUnanswered(e)
  <2>1. UNCHANGED clusterVars /\ lifecycle' = lifecycle /\ retired' = retired
    BY <1>10 DEF GrowUnanswered, OnlyExecAndAws, SetDesiredCapacity
  <2>2. Steady /\ Promised
    BY <1>t, <2>1, AwsPromise
  <2>3. Log(x, "growUnanswered") \in Execution
    <3>1. x.inst \in Instances
      BY <1>10, <1>1, <1>b, <1>h DEF GrowUnanswered, At
    <3> QED
      BY <1>t, <3>1, LogType DEF Deeds, Unanswered
  <2> QED
    BY <1>10, <1>1, <2>1, <2>2, <2>3, FreeHand, Combine DEF GrowUnanswered
<1> QED
  BY <1>2, <1>3, <1>4, <1>5, <1>6, <1>7, <1>8, <1>9, <1>10

\* So do the drain, the termination and the marks that record them.
LEMMA RetirePromises ==
    ASSUME WellFormed, Promises, NEW e \in Execs,
           \/ \E p \in Pods : EvictPod(e, p)
           \/ StartDrain(e) \/ CompleteDrain(e) \/ MarkDrained(e)
           \/ Terminate(e) \/ TerminateAgain(e) \/ TerminateUnanswered(e) \/ MarkTerminated(e)
    PROVE  Steady /\ Promises'
<1>1. PICK x : x = exec[e]
  OBVIOUS
<1>t. /\ x \in Execution /\ HandOK(x) /\ HandPromise(x) /\ Trusted
      /\ UNCHANGED awsVars => lifecycle' = lifecycle /\ \A i \in retired' : i \in retired
  BY <1>1 DEF WellFormed, TypeOK, InHand, Promises, HandsPromise, Trusted, ClusterOK, awsVars
<1>u. UNCHANGED <<awsVars, clusterVars>> => Steady /\ Promised
  BY <1>t, ReadPromise DEF clusterVars, awsVars
<1>h. x.pc \in {"drain", "evict", "markDrained", "terminate", "markTerminated"} => x.inst \in Instances
  BY <1>t DEF HandOK, BusyLabels, Labels
<1>r. ASSUME x.pc = "terminate", TerminateEc2Instance(x.inst, ShouldDecrement(e)), UNCHANGED clusterVars
      PROVE  /\ x.inst \in Instances /\ Quiet(x.inst)
             /\ retired' = retired \cup {x.inst}
             /\ Steady /\ Promised
             /\ Ended(x.inst)'
  <2>1. x.inst \in Instances /\ Quiet(x.inst)
    BY <1>r, <1>h, <1>t DEF HandPromise
  <2>2. /\ lifecycle' = [lifecycle EXCEPT ![x.inst] = "Terminating"]
        /\ lifecycle[x.inst] \in {"Pending", "InService"}
        /\ retired' = retired \cup {x.inst}
    BY <1>r DEF TerminateEc2Instance, TerminationAllowed
  <2>3. \A i \in Instances : lifecycle'[i] = IF i = x.inst THEN "Terminating" ELSE lifecycle[i]
    BY <2>2 DEF WellFormed, TypeOK, AutoScalingTypeOK
  <2>4. Steady /\ Promised
    BY <1>r, <1>t, <2>2, <2>3, AwsPromise DEF Ended
  <2>5. Ended(x.inst)'
    BY <2>1, <2>3 DEF Ended
  <2> QED
    BY <2>1, <2>2, <2>4, <2>5
<1>2. ASSUME NEW p \in Pods, EvictPod(e, p) PROVE Steady /\ Promises'
  <2>1. /\ nodes' = nodes /\ cache' = cache /\ lifecycle' = lifecycle /\ exec' = exec /\ retired' = retired
        /\ loc' = [loc EXCEPT ![p] = Unplaced]
    BY <1>2 DEF EvictPod, Evict, OnlyExecAndCluster, awsVars
  <2>2. \A i \in Instances : PodsOn(i)' \subseteq PodsOn(i)
    BY <2>1, ClusterAssumption DEF PodsOn, WellFormed, TypeOK, ClusterTypeOK
  <2>3. Steady
    BY <2>1, <2>2 DEF Steady, Closed, Exists, Ended
  <2>4. Promised
    BY <1>t, <2>1 DEF Promised, Trusted, ServerMarks, CachedMarks
  <2> QED
    BY <2>1, <2>3, <2>4, CombineOthers
<1>3. CASE StartDrain(e)
  <2>1. x.inst \in Instances
    BY <1>3, <1>1, <1>h DEF StartDrain, At
  <2>2. UNCHANGED awsVars /\ lifecycle' = lifecycle
    BY <1>3 DEF StartDrain, OnlyExecAndCluster, awsVars
  <2>3. Steady /\ Promised /\ Closed(x.inst)' /\ loc' = loc
    BY <1>3, <1>1, <1>t, <2>1, <2>2, CordonPromise DEF StartDrain
  <2>4. PICK y : y = [x EXCEPT !.pc = "evict", !.victims = PodsOn(x.inst)]
    OBVIOUS
  <2>5. y.inst = x.inst /\ y.seen = x.seen /\ y.pc = "evict" /\ y.victims = PodsOn(x.inst)
    BY <1>t, <2>4 DEF Execution
  <2>6. Promise(x.inst, x.seen)'
    BY <1>t, <2>1, <2>3, SteadyKeeps DEF HandPromise
  <2>7. PodsOn(x.inst)' = PodsOn(x.inst)
    BY <2>3 DEF PodsOn
  <2>8. HandPromise(y)'
    BY <2>3, <2>5, <2>6, <2>7 DEF HandPromise
  <2> QED
    BY <1>3, <1>1, <1>t, <2>2, <2>3, <2>4, <2>8, Combine DEF StartDrain
<1>4. CASE CompleteDrain(e)
  <2>1. x.inst \in Instances /\ x.pc = "evict"
    BY <1>4, <1>1, <1>h DEF CompleteDrain, At
  <2>2. UNCHANGED awsVars /\ Steady /\ Promised
    BY <1>4, <1>u DEF CompleteDrain, OnlyExec
  <2>3. Quiet(x.inst)
    BY <1>4, <1>1, <1>t, <2>1 DEF CompleteDrain, HandPromise, Quiet, PodsOn
  <2>4. PICK y : y = [Log(x, "drain") EXCEPT !.pc = "markDrained"]
    OBVIOUS
  <2>5. y.inst = x.inst /\ y.seen = x.seen /\ y.pc = "markDrained"
    BY <1>t, <2>4 DEF Execution, Log
  <2>6. HandPromise(y)'
    BY <1>t, <2>1, <2>2, <2>3, <2>5, QuietHand
  <2> QED
    BY <1>4, <1>1, <1>t, <2>2, <2>4, <2>6, Combine DEF CompleteDrain
<1>5. CASE MarkDrained(e)
  <2>1. x.inst \in Instances /\ Quiet(x.inst)
    BY <1>5, <1>1, <1>h, <1>t DEF MarkDrained, At, HandPromise
  <2>2. UNCHANGED awsVars /\ lifecycle' = lifecycle
    BY <1>5 DEF MarkDrained, OnlyExecAndCluster, awsVars
  <2>3. Promise(x.inst, {"drained"})
    BY <2>1 DEF Promise
  <2>4. Steady /\ Promised
    BY <1>5, <1>1, <1>t, <2>1, <2>2, <2>3, AnnotatePromise DEF MarkDrained
  <2>5. HandPromise(TerminateNext(x))'
    BY <1>t, <2>1, <2>4, TerminateNextHand
  <2> QED
    BY <1>5, <1>1, <1>t, <2>2, <2>4, <2>5, Combine DEF MarkDrained
<1>6. CASE Terminate(e)
  <2>1. /\ x.inst \in Instances /\ Quiet(x.inst)
        /\ retired' = retired \cup {x.inst}
        /\ Steady /\ Promised
        /\ Ended(x.inst)'
    BY <1>6, <1>1, <1>r DEF Terminate, At, OnlyExecAndAws
  <2>2. PICK y : y = [Log(x, "retire") EXCEPT !.pc = "markTerminated"]
    OBVIOUS
  <2>3. y.inst = x.inst /\ y.seen = x.seen /\ y.pc = "markTerminated"
    BY <1>t, <2>2 DEF Execution, Log
  <2>4. Quiet(x.inst)' /\ Promise(x.inst, x.seen)'
    BY <1>t, <2>1, SteadyKeeps DEF HandPromise
  <2>5. HandPromise(y)'
    BY <2>1, <2>3, <2>4 DEF HandPromise
  <2> QED
    BY <1>6, <1>1, <2>1, <2>2, <2>5, Combine DEF Terminate
<1>7. CASE TerminateAgain(e)
  <2>1. x.inst \in Instances /\ Quiet(x.inst) /\ Ended(x.inst)
    BY <1>7, <1>1, <1>h, <1>t DEF TerminateAgain, At, HandPromise, Ended
  <2>2. UNCHANGED awsVars /\ Steady /\ Promised
    BY <1>7, <1>u DEF TerminateAgain, OnlyExec
  <2>3. PICK y : y = [x EXCEPT !.pc = "markTerminated"]
    OBVIOUS
  <2>4. y.inst = x.inst /\ y.seen = x.seen /\ y.pc = "markTerminated"
    BY <1>t, <2>3 DEF Execution
  <2>5. Quiet(x.inst)' /\ Promise(x.inst, x.seen)' /\ Ended(x.inst)'
    BY <1>t, <2>1, <2>2, SteadyKeeps DEF HandPromise, Steady
  <2>6. HandPromise(y)'
    BY <2>4, <2>5 DEF HandPromise
  <2> QED
    BY <1>7, <1>1, <1>t, <2>2, <2>3, <2>6, Combine DEF TerminateAgain, Goto
<1>8. CASE MarkTerminated(e)
  <2>1. x.inst \in Instances /\ Ended(x.inst)
    BY <1>8, <1>1, <1>h, <1>t DEF MarkTerminated, At, HandPromise
  <2>2. UNCHANGED awsVars /\ lifecycle' = lifecycle
    BY <1>8 DEF MarkTerminated, OnlyExecAndCluster, awsVars
  <2>3. Promise(x.inst, {"terminated"})
    BY <2>1 DEF Promise
  <2>4. Steady /\ Promised
    BY <1>8, <1>1, <1>t, <2>1, <2>2, <2>3, AnnotatePromise DEF MarkTerminated
  <2>5. PICK y : y = [Broken(x) EXCEPT !.queue = IF SlowMode THEN {} ELSE @]
    OBVIOUS
  <2>6. y.inst = NoInstance /\ y.pc = "group"
    BY <1>t, <2>5 DEF Broken, Continued, Execution
  <2>7. HandPromise(y)'
    BY <2>6, RollingUpgradeAssumption DEF HandPromise
  <2> QED
    BY <1>8, <1>1, <1>t, <2>2, <2>4, <2>5, <2>7, Combine DEF MarkTerminated
<1>9. CASE TerminateUnanswered(e)
  <2>1. /\ x.inst \in Instances /\ Quiet(x.inst)
        /\ retired' = retired \cup {x.inst}
        /\ Steady /\ Promised
    BY <1>9, <1>1, <1>r DEF TerminateUnanswered, At, OnlyExecAndAws
  <2>2. Log(x, "retireUnanswered") \in Execution
    BY <1>t, <2>1, LogType DEF Deeds, Unanswered
  <2> QED
    BY <1>9, <1>1, <2>1, <2>2, FreeHand, Combine DEF TerminateUnanswered
<1> QED
  BY <1>2, <1>3, <1>4, <1>5, <1>6, <1>7, <1>8, <1>9

-----------------------------------------------------------------------------
(* The process and everyone else, as long as nobody uncordons nodes.       *)

\* Steps of the process, of AWS, of Kubernetes and of operators keep every
\* promise.
LEMMA OthersPromises ==
    ASSUME WellFormed, Promises, NobodyUncordons,
           \/ TimeOut \/ Crash \/ Intervene \/ Expire
           \/ \E i \in Instances : AwsStep(i) \/ InstanceGone(i) \/ NodeStep(i)
           \/ \E p \in Pods, i \in Instances : Place(p, i)
    PROVE  Steady /\ Promises'
<1>t. /\ Trusted /\ nodes \in NodeList /\ loc \in [Pods -> Instances \cup {Unplaced}]
      /\ lifecycle \in [Instances -> Lifecycles]
      /\ UNCHANGED awsVars => lifecycle' = lifecycle /\ retired' = retired
  BY DEF WellFormed, TypeOK, Promises, Trusted, ClusterOK, ClusterTypeOK, AutoScalingTypeOK, awsVars
<1>u. UNCHANGED <<awsVars, clusterVars>> => Steady /\ Promised
  BY <1>t, ReadPromise DEF clusterVars, awsVars
<1>1. CASE TimeOut
  BY <1>1, <1>t, <1>u, CombineOthers DEF TimeOut
<1>2. CASE Crash
  <2>1. nodes' = nodes /\ loc' = loc /\ lifecycle' = lifecycle /\ retired' = retired /\ cache' = NoCache
    BY <1>2 DEF Crash, awsVars
  <2>2. Steady
    BY <2>1, SteadyWhenCordonsKept
  <2>3. ServerMarks' /\ CachedMarks' /\ NodesHaveInstances'
    BY <2>1, <2>2 DEF Promises, ServerMarks, CachedMarks, NodesHaveInstances, Promise, Quiet, Closed,
                      Exists, PodsOn, Ended
  <2>4. RetiredQuiet'
    BY <2>1 DEF Promises, RetiredQuiet, Quiet, Closed, Exists, PodsOn
  <2>5. HandsPromise'
    <3> SUFFICES ASSUME NEW f \in Execs PROVE HandPromise(exec[f])'
      BY DEF HandsPromise
    <3>1. exec'[f] = Idle
      BY <1>2 DEF Crash
    <3> QED
      BY <3>1, RollingUpgradeAssumption DEF HandPromise, Idle
  <2> QED
    BY <2>2, <2>3, <2>4, <2>5 DEF Promises
<1>3. CASE Intervene
  <2>1. UNCHANGED clusterVars /\ lifecycle' = lifecycle /\ retired' = retired /\ exec' = exec
    BY <1>3 DEF Intervene, NobodyUncordons, SetDesiredCapacity, Retarget
  <2>2. Steady /\ Promised
    BY <1>t, <2>1, AwsPromise
  <2> QED
    BY <2>1, <2>2, CombineOthers
<1>4. CASE Expire
  <2>1. /\ nodes' = nodes /\ loc' = loc /\ cache' = NoCache
        /\ lifecycle' = lifecycle /\ retired' = retired /\ exec' = exec
    BY <1>4 DEF Expire, CacheExpires, HandlerUnchanged, awsVars
  <2>2. Steady
    BY <2>1, SteadyWhenCordonsKept
  <2>3. Promised
    BY <1>t, <2>1 DEF Promised, Trusted, ServerMarks
  <2> QED
    BY <2>1, <2>2, <2>3, CombineOthers
<1>5. ASSUME NEW i \in Instances, AwsStep(i) PROVE Steady /\ Promises'
  <2>1. UNCHANGED clusterVars /\ retired' = retired /\ exec' = exec
    BY <1>5 DEF AwsStep, HandlerUnchanged, Launch, EnterService, ScaleIn
  <2>2. /\ \A j \in Instances : j # i => lifecycle'[j] = lifecycle[j]
        /\ lifecycle[i] \in {"none", "Pending", "InService"}
        /\ lifecycle'[i] # "gone"
    BY <1>5, <1>t DEF AwsStep, Launch, EnterService, ScaleIn, Active, Members
  <2>3. Steady /\ Promised
    BY <1>t, <2>1, <2>2, AwsPromise DEF Ended
  <2> QED
    BY <2>1, <2>3, CombineOthers
<1>6. ASSUME NEW i \in Instances, InstanceGone(i) PROVE Steady /\ Promises'
  <2>1. /\ \A j \in Instances : nodes'[j] = IF j = i THEN NoNode ELSE nodes[j]
        /\ \A j \in Instances : lifecycle'[j] = IF j = i THEN "gone" ELSE lifecycle[j]
        /\ loc' = [p \in Pods |-> IF loc[p] = i THEN Unplaced ELSE loc[p]]
        /\ cache' = cache /\ retired' = retired /\ exec' = exec
    BY <1>6, <1>t DEF InstanceGone, Vanish, NodeVanishes, HandlerUnchanged, NodeList
  <2>2. \A j \in Instances : PodsOn(j)' \subseteq PodsOn(j)
    BY <2>1, ClusterAssumption DEF PodsOn
  <2>3. Steady
    BY <2>1, <2>2 DEF Steady, Closed, Exists, Ended
  <2>4. Promised
    BY <1>t, <2>1 DEF Promised, Trusted, ServerMarks, CachedMarks
  <2> QED
    BY <2>1, <2>3, <2>4, CombineOthers
<1>7. ASSUME NEW i \in Instances, NodeStep(i) PROVE Steady /\ Promises'
  <2>1. loc' = loc /\ cache' = cache /\ lifecycle' = lifecycle /\ retired' = retired /\ exec' = exec
    BY <1>7 DEF NodeStep, NodeJoins, NodeBecomesReady, HandlerUnchanged, awsVars
  <2>2. CASE NodeJoins(i)
    <3>1. /\ ~Closed(i) /\ lifecycle[i] # "gone"
          /\ \A j \in Instances : nodes'[j] = IF j = i THEN FreshNode ELSE nodes[j]
      BY <1>t, <2>2 DEF NodeJoins, Closed, Exists, NodeList
    <3>2. Steady
      BY <2>1, <3>1 DEF Steady, Closed, Exists, PodsOn, Ended
    <3>3. Promise(i, FreshNode.marks)
      BY DEF FreshNode, Promise
    <3>4. Promised
      BY <1>t, <2>1, <3>1, <3>3 DEF Promised, Trusted, ServerMarks, CachedMarks
    <3> QED
      BY <2>1, <3>2, <3>4, CombineOthers
  <2>3. CASE NodeBecomesReady(i)
    <3>1. nodes[i] \in Node
      BY <1>t, <2>3 DEF NodeBecomesReady, Exists, NodeList
    <3>2. PICK n : n = [nodes[i] EXCEPT !.ready = TRUE]
      OBVIOUS
    <3>3. n \in Node /\ n.marks = nodes[i].marks /\ n.unschedulable = nodes[i].unschedulable
      BY <3>1, <3>2 DEF Node
    <3>4. \A j \in Instances : nodes'[j] = IF j = i THEN n ELSE nodes[j]
      BY <1>t, <2>3, <3>2 DEF NodeBecomesReady, NodeList
    <3>5. n # NoNode /\ nodes[i] # NoNode
      BY <3>1, <3>3, ClusterAssumption
    <3>6. Steady
      BY <2>1, <3>3, <3>4, <3>5, SteadyWhenCordonsKept
    <3>7. Promised
      BY <1>t, <2>1, <3>3, <3>4, <3>5 DEF Promised, Trusted, ServerMarks, CachedMarks
    <3> QED
      BY <2>1, <3>6, <3>7, CombineOthers
  <2> QED
    BY <1>7, <2>2, <2>3 DEF NodeStep
<1>8. ASSUME NEW p \in Pods, NEW i \in Instances, Place(p, i) PROVE Steady /\ Promises'
  <2>1. /\ nodes' = nodes /\ cache' = cache /\ lifecycle' = lifecycle /\ retired' = retired /\ exec' = exec
        /\ loc' = [loc EXCEPT ![p] = i]
        /\ ~Closed(i)
    BY <1>8 DEF Place, Schedule, Schedulable, Closed, Exists, HandlerUnchanged, awsVars
  <2>2. \A j \in Instances : j # i => PodsOn(j)' \subseteq PodsOn(j)
    BY <1>t, <2>1 DEF PodsOn
  <2>3. Steady
    BY <2>1, <2>2 DEF Steady, Closed, Exists, Ended
  <2>4. Promised
    BY <1>t, <2>1 DEF Promised, Trusted, ServerMarks, CachedMarks
  <2> QED
    BY <2>1, <2>3, <2>4, CombineOthers
<1> QED
  BY <1>1, <1>2, <1>3, <1>4, <1>5, <1>6, <1>7, <1>8

-----------------------------------------------------------------------------
(* The theorems.                                                           *)

\* Nothing is promised yet when the handler starts.
LEMMA InitPromises == Init => Promises
<1> SUFFICES ASSUME Init PROVE Promises
  OBVIOUS
<1> USE DEF Init, AutoScalingInit, ClusterInit
<1>1. \A i \in Instances : nodes[i] # NoNode => nodes[i].marks = {}
  BY DEF FreshNode
<1>2. ServerMarks /\ CachedMarks /\ RetiredQuiet /\ NodesHaveInstances
  BY <1>1 DEF ServerMarks, CachedMarks, RetiredQuiet, NodesHaveInstances, Promise
<1>3. HandsPromise
  BY RollingUpgradeAssumption DEF HandsPromise, HandPromise, Idle
<1> QED
  BY <1>2, <1>3 DEF Promises

\* Every step is steady and keeps every promise.
LEMMA StepPromises ==
    NobodyUncordons /\ WellFormed /\ Promises /\ [Next]_vars => Steady /\ Promises'
<1>1. ASSUME WellFormed, Promises, UNCHANGED vars PROVE Steady /\ Promises'
  <2>1. UNCHANGED <<awsVars, clusterVars, exec>>
    BY <1>1 DEF vars
  <2>2. Trusted /\ lifecycle' = lifecycle /\ retired' = retired
    BY <1>1, <2>1 DEF WellFormed, TypeOK, Promises, Trusted, ClusterOK, awsVars
  <2>3. Steady /\ Promised
    BY <2>1, <2>2, ReadPromise DEF clusterVars
  <2> QED
    BY <1>1, <2>1, <2>2, <2>3, CombineOthers
<1>2. ASSUME NobodyUncordons, WellFormed, Promises, Next PROVE Steady /\ Promises'
  BY <1>2, LoopPromises, ApproachPromises, RetirePromises, OthersPromises DEF Next, ExecStep
<1> QED
  BY <1>1, <1>2

\* All promises are kept, in every reachable state.
THEOREM PromisesKept ==
    ASSUME NobodyUncordons
    PROVE  Spec => [](WellFormed /\ Promises)
<1>1. Init => WellFormed /\ Promises
  BY InitWellFormed, InitPromises
<1>2. WellFormed /\ Promises /\ [Next]_vars => (WellFormed /\ Promises)'
  BY StepWellFormed, StepPromises
<1> QED
  BY <1>1, <1>2, PTL DEF Spec

\* The inductive invariant, as the run rollout_faults checks it.
THEOREM InductiveInvariant ==
    ASSUME NobodyUncordons
    PROVE  Spec => []IInv
<1>1. WellFormed /\ Promises => IInv
  BY DEF WellFormed, Promises, IInv
<1> QED
  BY <1>1, PromisesKept, PTL

\* An instance whose termination the handler obtained never hosts workload
\* again (main.go:204-227: Drain comes before TerminateEc2Instance).
THEOREM GracefulRollout ==
    ASSUME NobodyUncordons
    PROVE  Spec => []GracefulTermination
<1>1. Promises => GracefulTermination
  BY DEF Promises, RetiredQuiet, Quiet, GracefulTermination
<1> QED
  BY <1>1, PromisesKept, PTL

\* Whoever finds drained-at may skip the drain (main.go:194-196).
THEOREM DrainedMarksHold ==
    ASSUME NobodyUncordons
    PROVE  Spec => []DrainedMarkTruthful
<1>1. Promises => DrainedMarkTruthful
  BY DEF Promises, ServerMarks, Promise, Quiet, Closed, Exists, DrainedMarkTruthful
<1> QED
  BY <1>1, PromisesKept, PTL

\* Whoever finds terminated-at may skip the instance (main.go:206-208).
THEOREM TerminatedMarksHold ==
    ASSUME NobodyUncordons
    PROVE  Spec => []TerminatedMarkTruthful
<1>1. Promises => TerminatedMarkTruthful
  BY DEF Promises, ServerMarks, Promise, Ended, Exists, NodesHaveInstances, TerminatedMarkTruthful
<1> QED
  BY <1>1, PromisesKept, PTL

\* No update the handler sends from a cached copy undoes a cordon.
THEOREM CordonsLast ==
    ASSUME NobodyUncordons
    PROVE  Spec => CordonKept
<1> DEFINE A == \A i \in Instances :
                   Exists(i) /\ nodes[i].unschedulable /\ nodes'[i] # NoNode
                       => nodes'[i].unschedulable
<1>1. Steady => A
  BY DEF Steady, Closed, Exists
<1>2. WellFormed /\ Promises /\ [Next]_vars => [A]_vars
  BY <1>1, StepPromises
<1> QED
  BY <1>2, PromisesKept, PTL DEF Spec, CordonKept
=============================================================================
