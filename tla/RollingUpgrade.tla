--------------------------- MODULE RollingUpgrade ---------------------------
(***************************************************************************)
(* DoHandleRollingUpgrade of main.go: executions that walk over the groups *)
(* and, in each, over the outdated instances, one remote call per step, in *)
(* an AWS and a Kubernetes that move between any two steps.                *)
(*                                                                         *)
(* The main loop waits for one execution at a time, but HandleRollingUp-   *)
(* grade stops waiting at the timeout and leaves the execution running, so *)
(* several may be under way.  They share the client's cache.               *)
(*                                                                         *)
(* Two steps hold more than one call: StartDrain reads and cordons the     *)
(* node and lists its pods, and AssessGroup lists the nodes and writes     *)
(* back those it cleans up, which Assessment takes apart.                  *)
(***************************************************************************)
EXTENDS Cluster, Readiness

CONSTANTS
    Execs, NoExec,
    NoGroup, NoInstance,
    EagerCordoning, SlowMode, ExcludeFromExternalLoadBalancers,  \* configuration
    MayTimeOut,          \* an execution may outlast ExecutionTimeout
    MayCrash,            \* the process may die and be restarted
    Interventions,       \* what others do: subset of the four names below
    MaxInterventions     \* bound on restarts and interventions

ASSUME RollingUpgradeAssumption ==
    /\ NoExec \notin Execs
    /\ NoGroup \notin Groups
    /\ NoInstance \notin Instances
    /\ {EagerCordoning, SlowMode, ExcludeFromExternalLoadBalancers} \subseteq BOOLEAN
    /\ {MayTimeOut, MayCrash} \subseteq BOOLEAN
    /\ Interventions \subseteq {"scaleUp", "scaleDown", "retarget", "uncordon"}
    /\ MaxInterventions \in Nat

VARIABLES
    exec,       \* the executions
    current,    \* the one the main loop waits for
    meddled     \* number of restarts and interventions so far

vars == <<awsVars, clusterVars, exec, current, meddled>>

Labels == {"idle", "group", "pick", "cordon", "start", "check", "label", "drain", "evict",
           "markDrained", "terminate", "markTerminated", "describe", "grow"}

Snapshot == [desired : Nat, target : Versions, members : SUBSET Instances, serving : SUBSET Instances]
NoSnapshot == [desired |-> 0, target |-> FirstTarget, members |-> {}, serving |-> {}]

\* A deed the handler never got the answer to has taken place all the same.
Answered == {"drain", "retire", "grow"}
Unanswered == {"retireUnanswered", "growUnanswered"}
Deeds == Answered \cup Unanswered

Execution == [
    pc : Labels,
    snap : [Groups -> Snapshot],         \* autoScalingGroups, described once
    queue : SUBSET Groups,               \* groups still to be handled
    group : Groups \cup {NoGroup},       \* autoScalingGroup
    todo : SUBSET Instances,             \* outdatedInstances still to be handled
    ready : SUBSET Instances,            \* updatedReadyNodes
    inst : Instances \cup {NoInstance},  \* outdatedInstance
    seen : SUBSET {"started", "drained", "terminated", "excluded"},  \* marks on its node when it was read
    victims : SUBSET Pods,               \* pods the drain has listed
    latest : Nat,                        \* newDesiredCapacity
    did : SUBSET (Deeds \X Instances)]  \* history: what it made happen, for which instance

Idle == [pc |-> "idle", snap |-> [g \in Groups |-> NoSnapshot], queue |-> {}, group |-> NoGroup,
         todo |-> {}, ready |-> {}, inst |-> NoInstance, seen |-> {}, victims |-> {},
         latest |-> 0, did |-> {}]

\* Every variable stays in its type, in particular the sets of instances and
\* pods an execution carries from step to step.
TypeOK ==
    /\ AutoScalingTypeOK
    /\ ClusterTypeOK
    /\ exec \in [Execs -> Execution]
    /\ current \in Execs \cup {NoExec}
    /\ meddled \in 0 .. MaxInterventions

Init ==
    /\ AutoScalingInit
    /\ ClusterInit
    /\ exec = [e \in Execs |-> Idle]
    /\ current = NoExec
    /\ meddled = 0

-----------------------------------------------------------------------------
(* Control flow of an execution.                                           *)

Become(e, x) == exec' = [exec EXCEPT ![e] = x]
Goto(e, label) == Become(e, [exec[e] EXCEPT !.pc = label])

\* `continue': on to the next outdated instance.
Continued(x) == [x EXCEPT !.pc = "pick", !.inst = NoInstance, !.seen = {}, !.victims = {}, !.latest = 0]

\* `break': on to the next group.
Broken(x) == [Continued(x) EXCEPT !.pc = "group", !.group = NoGroup, !.todo = {}, !.ready = {}]

Continue(e) == Become(e, Continued(exec[e]))
Break(e) == Become(e, Broken(exec[e]))

Log(x, kind) == [x EXCEPT !.did = @ \cup {<<kind, x.inst>>}]

At(e, label) == exec[e].pc = label
OnlyExec == UNCHANGED <<awsVars, clusterVars, current, meddled>>
OnlyExecAndCluster == UNCHANGED <<awsVars, current, meddled>>
OnlyExecAndAws == UNCHANGED <<clusterVars, current, meddled>>

-----------------------------------------------------------------------------

SnapshotOf(g) == [desired |-> desired[g], target |-> target[g], members |-> Members(g),
                  serving |-> {i \in Members(g) : lifecycle[i] = "InService"}]

\* run: describe the groups and start an execution.
Begin(e) ==
    /\ current = NoExec
    /\ At(e, "idle")
    /\ current' = e
    /\ Become(e, [Idle EXCEPT !.pc = "group", !.queue = Groups,
                              !.snap = [g \in Groups |-> SnapshotOf(g)]])
    /\ UNCHANGED <<awsVars, clusterVars, meddled>>

Finish(e) ==
    /\ At(e, "group")
    /\ exec[e].queue = {}
    /\ Become(e, Idle)
    /\ current' = IF current = e THEN NoExec ELSE current
    /\ UNCHANGED <<awsVars, clusterVars, meddled>>

\* SeparateOutdatedFromUpdatedInstances
Outdated(s) == {i \in s.members : version[i] # s.target}
Updated(s) == {i \in s.members : version[i] = s.target}

\* getReadyNodesAndNumberOfNonReadyNodesOrInstances reads the node of each
\* updated instance in service; listings may fail for some of them.
Unlisted(asked) == IF ListingFails THEN SUBSET asked ELSE {{}}
Found(asked) == {i \in asked : View[i] # NoNode}
ReadyNodes(found) == {i \in found : View[i].ready}

\* Mutant: the group's size is not compared with its desired capacity.
MayProceed_AnySize(s, ready) ==
    /\ Outdated(s) # {}
    /\ HasAcceptable(Cardinality(Updated(s) \ ready), Cardinality(ready))

MayProceed(s, ready) ==
    /\ Outdated(s) # {}
    /\ Cardinality(s.members) >= s.desired
    /\ HasAcceptable(Cardinality(Updated(s) \ ready), Cardinality(ready))

\* Of the snapshot of a group only its desired capacity is used later on.
AssessGroup(e, g) ==
    /\ At(e, "group")
    /\ g \in exec[e].queue
    /\ LET s == exec[e].snap[g]
           asked == Updated(s) \cap s.serving
           here == [exec[e] EXCEPT !.queue = @ \ {g}]
       IN \E unlisted \in Unlisted(asked) :
            LET found == Found(asked \ unlisted)
                ready == ReadyNodes(found)
            IN /\ IF asked = unlisted
                  THEN UNCHANGED clusterVars
                  ELSE \E persisted \in SUBSET Stained(found) : CleanUp(Stained(found), persisted)
               /\ Become(e, IF MayProceed(s, ready)
                            THEN [here EXCEPT !.pc = "pick", !.group = g,
                                              !.snap[g] = [NoSnapshot EXCEPT !.desired = s.desired],
                                              !.todo = Outdated(s), !.ready = ready]
                            ELSE Broken(here))
    /\ OnlyExecAndCluster

\* The launch template cannot be described: the group is skipped.
SkipGroup(e, g) ==
    /\ At(e, "group")
    /\ g \in exec[e].queue
    /\ "DescribeTemplate" \in Fallible
    /\ Become(e, [exec[e] EXCEPT !.queue = @ \ {g}])
    /\ OnlyExec

-----------------------------------------------------------------------------
(* One outdated instance; they come in any order (rand.Shuffle).           *)

\* getRollingUpdateTimestampsFromNode: what counts is which marks are there; one
\* that cannot be parsed stands for 0 minutes, not for none.
RollingUpdateTimestamps(i) == View[i].marks

\* A node without started-at is marked, one with it is moved on.
AfterReading(seen) == IF "started" \in seen THEN "check" ELSE "start"

PickInstance(e, i) ==
    /\ At(e, "pick")
    /\ i \in exec[e].todo
    /\ LET x == [exec[e] EXCEPT !.todo = @ \ {i}]
       IN \/ /\ ListingFails
             /\ Become(e, Continued(x))
             /\ UNCHANGED <<cache, stale>>
          \/ /\ NodeNotFound(i)
             /\ Become(e, Continued(x))
             /\ GetNodes
          \/ /\ ~NodeNotFound(i)
             /\ GetNodes
             /\ Become(e, [x EXCEPT
                    !.inst = i,
                    !.seen = RollingUpdateTimestamps(i),
                    !.pc = IF EagerCordoning /\ ~View[i].unschedulable
                           THEN "cordon" ELSE AfterReading(RollingUpdateTimestamps(i))])
    /\ UNCHANGED <<nodes, loc>>
    /\ OnlyExecAndCluster

LeaveGroup(e) ==
    /\ At(e, "pick")
    /\ exec[e].todo = {}
    /\ Break(e)
    /\ OnlyExec

CordonEagerly(e) ==
    /\ At(e, "cordon")
    /\ \/ /\ Cordon(exec[e].inst)
          /\ Goto(e, AfterReading(exec[e].seen))
       \/ /\ ~Exists(exec[e].inst) \/ "Cordon" \in Fallible
          /\ Continue(e)
          /\ UNCHANGED clusterVars
       \/ /\ "Answers" \in Fallible
          /\ Cordon(exec[e].inst)
          /\ Continue(e)
    /\ OnlyExecAndCluster

\* started-at; whether it was persisted or not, the next instance follows.
MarkStarted(e) ==
    /\ At(e, "start")
    /\ AnnotateNode(exec[e].inst, "started") \/ AnnotateFails(exec[e].inst, "started")
    /\ Continue(e)
    /\ OnlyExecAndCluster

\* Enough room on the updated ready nodes; an unreadable old node counts as empty.
RoomFound(e) ==
    \/ \E listing \in Listings, counted \in Countable(exec[e].ready) :
         EnoughResources(listing, exec[e].inst, counted)
    \/ "ListPods" \in Fallible

RoomMissed(e) ==
    \E listing \in Listings, counted \in Countable(exec[e].ready) :
        ~EnoughResources(listing, exec[e].inst, counted)

\* Mutant: drained-at is taken for the end of the rollout.
TerminateNext_DrainedIsDone(x) ==
    IF {"terminated", "drained"} \cap x.seen # {} THEN Continued(x)
    ELSE [x EXCEPT !.pc = "terminate", !.victims = {}]

\* Past the drain: terminate unless terminated-at was read.
TerminateNext(x) ==
    IF "terminated" \in x.seen THEN Continued(x) ELSE [x EXCEPT !.pc = "terminate", !.victims = {}]

CheckResources(e) ==
    /\ At(e, "check")
    /\ \/ /\ RoomFound(e)
          /\ "drained" \notin exec[e].seen
          /\ Goto(e, IF ExcludeFromExternalLoadBalancers THEN "label" ELSE "drain")
       \/ /\ RoomFound(e)
          /\ "drained" \in exec[e].seen
          /\ Become(e, TerminateNext(exec[e]))
       \/ /\ RoomMissed(e)
          /\ {"drained", "terminated"} \cap exec[e].seen # {}
          /\ Continue(e)
       \/ /\ RoomMissed(e)
          /\ {"drained", "terminated"} \cap exec[e].seen = {}
          /\ Goto(e, "describe")
    /\ OnlyExec

\* The outcome of the label is ignored.
ExcludeNode(e) ==
    /\ At(e, "label")
    /\ LabelNode(exec[e].inst, "excluded")
    /\ Goto(e, "drain")
    /\ OnlyExecAndCluster

\* Mutant: the pods are evicted from a node left schedulable.
StartDrain_NoCordon(e) ==
    /\ At(e, "drain")
    /\ Exists(exec[e].inst)
    /\ Become(e, [exec[e] EXCEPT !.pc = "evict", !.victims = PodsOn(exec[e].inst)])
    /\ OnlyExec

\* Drain: cordon the live node, list its pods, evict them, wait for them to go.
StartDrain(e) ==
    /\ At(e, "drain")
    /\ Cordon(exec[e].inst)
    /\ Become(e, [exec[e] EXCEPT !.pc = "evict", !.victims = PodsOn(exec[e].inst)])
    /\ OnlyExecAndCluster

EvictPod(e, p) ==
    /\ At(e, "evict")
    /\ p \in exec[e].victims
    /\ loc[p] = exec[e].inst
    /\ Evict(p)
    /\ UNCHANGED exec
    /\ OnlyExecAndCluster

\* Mutant: the drain does not wait for the evicted pods to go.
CompleteDrain_NoWait(e) ==
    /\ At(e, "evict")
    /\ Become(e, [Log(exec[e], "drain") EXCEPT !.pc = "markDrained"])
    /\ OnlyExec

CompleteDrain(e) ==
    /\ At(e, "evict")
    /\ \A p \in exec[e].victims : loc[p] # exec[e].inst
    /\ Become(e, [Log(exec[e], "drain") EXCEPT !.pc = "markDrained"])
    /\ OnlyExec

\* Mutant: the error of the drain is ignored.
FailDrain_Ignored(e) ==
    /\ At(e, "drain") \/ At(e, "evict")
    /\ "Drain" \in Fallible
    /\ Goto(e, "markDrained")
    /\ OnlyExec

\* The node cannot be read, or an eviction fails or lasts over 5 minutes.
FailDrain(e) ==
    /\ \/ At(e, "drain") /\ ~Exists(exec[e].inst)
       \/ At(e, "drain") /\ "Drain" \in Fallible
       \/ At(e, "evict") /\ "Drain" \in Fallible
    /\ Continue(e)
    /\ OnlyExec

\* Mutant: the wrong annotation key.
MarkDrained_WrongKey(e) ==
    /\ At(e, "markDrained")
    /\ AnnotateNode(exec[e].inst, "terminated") \/ AnnotateFails(exec[e].inst, "terminated")
    /\ Become(e, TerminateNext(exec[e]))
    /\ OnlyExecAndCluster

\* drained-at; the outcome is ignored.
MarkDrained(e) ==
    /\ At(e, "markDrained")
    /\ AnnotateNode(exec[e].inst, "drained") \/ AnnotateFails(exec[e].inst, "drained")
    /\ Become(e, TerminateNext(exec[e]))
    /\ OnlyExecAndCluster

\* From the snapshot, not from what the group wants by now.
ShouldDecrement(e) ==
    exec[e].snap[exec[e].group].desired # MinSize[exec[e].group]

Terminate(e) ==
    /\ At(e, "terminate")
    /\ TerminateEc2Instance(exec[e].inst, ShouldDecrement(e))
    /\ Become(e, [Log(exec[e], "retire") EXCEPT !.pc = "markTerminated"])
    /\ OnlyExecAndAws

\* What AWS answers for an instance it is terminating already is left open:
\* accepted without effect, or refused.
TerminateAgain(e) ==
    /\ At(e, "terminate")
    /\ lifecycle[exec[e].inst] = "Terminating"
    /\ Goto(e, "markTerminated")
    /\ OnlyExec

\* Mutant: terminated-at is written although the call failed.
FailTerminate_Ignored(e) ==
    /\ At(e, "terminate")
    /\ ~TerminationAllowed(exec[e].inst, ShouldDecrement(e)) \/ "Terminate" \in Fallible
    /\ Goto(e, "markTerminated")
    /\ OnlyExec

FailTerminate(e) ==
    /\ At(e, "terminate")
    /\ ~TerminationAllowed(exec[e].inst, ShouldDecrement(e)) \/ "Terminate" \in Fallible
    /\ Continue(e)
    /\ OnlyExec

\* AWS terminates the instance, but its answer is lost: an error to the handler.
TerminateUnanswered(e) ==
    /\ At(e, "terminate")
    /\ "Answers" \in Fallible
    /\ TerminateEc2Instance(exec[e].inst, ShouldDecrement(e))
    /\ Become(e, Continued(Log(exec[e], "retireUnanswered")))
    /\ OnlyExecAndAws

\* Mutant: after a termination the next outdated instance follows.
MarkTerminated_NoBreak(e) ==
    /\ At(e, "markTerminated")
    /\ \/ AnnotateNode(exec[e].inst, "terminated")
       \/ AnnotateFails(exec[e].inst, "terminated")
    /\ Continue(e)
    /\ OnlyExecAndCluster

\* Mutant: slow mode moves on to the next group.
MarkTerminated_NoReturn(e) ==
    /\ At(e, "markTerminated")
    /\ \/ AnnotateNode(exec[e].inst, "terminated")
       \/ AnnotateFails(exec[e].inst, "terminated")
    /\ Break(e)
    /\ OnlyExecAndCluster

\* terminated-at; the outcome is ignored.  This ends the group, and in slow
\* mode the execution.
MarkTerminated(e) ==
    /\ At(e, "markTerminated")
    /\ \/ AnnotateNode(exec[e].inst, "terminated")
       \/ AnnotateFails(exec[e].inst, "terminated")
    /\ Become(e, [Broken(exec[e]) EXCEPT !.queue = IF SlowMode THEN {} ELSE @])
    /\ OnlyExecAndCluster

\* Mutant: the group is not described again.
DescribeLatest_FromSnapshot(e) ==
    /\ At(e, "describe")
    /\ LET n == exec[e].snap[exec[e].group].desired + 1
       IN \/ /\ n =< MaxSize[exec[e].group]
             /\ Become(e, [exec[e] EXCEPT !.pc = "grow", !.latest = n])
          \/ /\ n > MaxSize[exec[e].group] \/ "DescribeGroup" \in Fallible
             /\ Continue(e)
    /\ OnlyExec

\* IncrementAutoScalingGroupDesiredCount: describe the group again ...
DescribeLatest(e) ==
    /\ At(e, "describe")
    /\ LET n == desired[exec[e].group] + 1
       IN \/ /\ n =< MaxSize[exec[e].group]
             /\ Become(e, [exec[e] EXCEPT !.pc = "grow", !.latest = n])
          \/ /\ n > MaxSize[exec[e].group] \/ "DescribeGroup" \in Fallible
             /\ Continue(e)
    /\ OnlyExec

\* Mutant: after growing the group the next outdated instance follows.
Grow_NoBreak(e) ==
    /\ At(e, "grow")
    /\ SetDesiredCapacity(exec[e].group, exec[e].latest)
    /\ Become(e, Continued(Log(exec[e], "grow")))
    /\ OnlyExecAndAws

\* ... and set its desired capacity to one more than was described.
Grow(e) ==
    /\ At(e, "grow")
    /\ SetDesiredCapacity(exec[e].group, exec[e].latest)
    /\ Become(e, Broken(Log(exec[e], "grow")))
    /\ OnlyExecAndAws

FailGrow(e) ==
    /\ At(e, "grow")
    /\ "SetDesired" \in Fallible
    /\ Continue(e)
    /\ OnlyExec

\* AWS grows the group, but its answer is lost.
GrowUnanswered(e) ==
    /\ At(e, "grow")
    /\ "Answers" \in Fallible
    /\ SetDesiredCapacity(exec[e].group, exec[e].latest)
    /\ Become(e, Continued(Log(exec[e], "growUnanswered")))
    /\ OnlyExecAndAws

ExecStep(e) ==
    \/ Finish(e) \/ LeaveGroup(e) \/ CordonEagerly(e) \/ MarkStarted(e)
    \/ CheckResources(e) \/ ExcludeNode(e) \/ StartDrain(e) \/ CompleteDrain(e) \/ FailDrain(e)
    \/ MarkDrained(e) \/ Terminate(e) \/ TerminateAgain(e) \/ FailTerminate(e) \/ MarkTerminated(e)
    \/ TerminateUnanswered(e) \/ DescribeLatest(e) \/ Grow(e) \/ FailGrow(e) \/ GrowUnanswered(e)
    \/ \E g \in Groups : AssessGroup(e, g) \/ SkipGroup(e, g)
    \/ \E i \in Instances : PickInstance(e, i)
    \/ \E p \in Pods : EvictPod(e, p)

-----------------------------------------------------------------------------
(* The process.                                                            *)

\* HandleRollingUpgrade returns ErrTimedOut; the execution goes on unwatched.
TimeOut ==
    /\ MayTimeOut
    /\ current # NoExec
    /\ current' = NoExec
    /\ UNCHANGED <<awsVars, clusterVars, exec, meddled>>

Meddle == meddled < MaxInterventions /\ meddled' = meddled + 1

\* The process dies with all its executions and its cache, and is restarted.
Crash ==
    /\ MayCrash
    /\ Meddle
    /\ exec' = [e \in Execs |-> Idle]
    /\ current' = NoExec
    /\ cache' = NoCache
    /\ stale' = {}
    /\ UNCHANGED <<awsVars, nodes, loc>>

-----------------------------------------------------------------------------
(* Everyone else.                                                          *)

HandlerUnchanged == UNCHANGED <<exec, current, meddled>>
AwsStep(i) == (Launch(i) \/ EnterService(i) \/ ScaleIn(i)) /\ UNCHANGED clusterVars /\ HandlerUnchanged
InstanceGone(i) == Vanish(i) /\ NodeVanishes(i) /\ HandlerUnchanged
NodeStep(i) == (NodeJoins(i) \/ NodeBecomesReady(i)) /\ UNCHANGED awsVars /\ HandlerUnchanged
Place(p, i) == Schedule(p, i) /\ UNCHANGED awsVars /\ HandlerUnchanged
Expire == CacheExpires /\ UNCHANGED awsVars /\ HandlerUnchanged

\* Others resize groups, move them to another version and back, and uncordon
\* nodes that are up to date.
Intervene ==
    /\ Meddle
    /\ \/ /\ "scaleUp" \in Interventions
          /\ \E g \in Groups : SetDesiredCapacity(g, desired[g] + 1)
          /\ UNCHANGED clusterVars
       \/ /\ "scaleDown" \in Interventions
          /\ \E g \in Groups : SetDesiredCapacity(g, desired[g] - 1)
          /\ UNCHANGED clusterVars
       \/ /\ "retarget" \in Interventions
          /\ \E g \in Groups, v \in Versions : Retarget(g, v)
          /\ UNCHANGED clusterVars
       \/ /\ "uncordon" \in Interventions
          /\ \E i \in Instances : version[i] = target[GroupOf[i]] /\ Uncordon(i)
          /\ UNCHANGED awsVars
    /\ UNCHANGED <<exec, current>>

Next ==
    \/ \E e \in Execs : Begin(e) \/ ExecStep(e)
    \/ TimeOut
    \/ Crash
    \/ Intervene
    \/ Expire
    \/ \E i \in Instances : AwsStep(i) \/ InstanceGone(i) \/ NodeStep(i)
    \/ \E p \in Pods, i \in Instances : Place(p, i)

Spec == Init /\ [][Next]_vars

\* The main loop starts execution after execution, and every one that has been
\* started goes on until it ends: remote calls return.  The cache expires.  AWS
\* and Kubernetes complete what they were asked for, which is finitely many
\* steps, in any order.  The scheduler does not rest while a pod has a place.
Fairness ==
    /\ \A e \in Execs : WF_vars(Begin(e) \/ ExecStep(e))
    /\ WF_vars(Expire)
    /\ WF_vars(\E i \in Instances : AwsStep(i) \/ InstanceGone(i) \/ NodeStep(i))
    /\ WF_vars(\E p \in Pods, i \in Instances : Place(p, i))

FairSpec == Spec /\ Fairness

-----------------------------------------------------------------------------
(* Properties.                                                             *)

\* An instance whose termination the handler obtained never hosts workload
\* again: the drain before Terminate, by this execution or by the one that
\* left drained-at behind, emptied its node and nothing refilled it.
GracefulTermination == \A i \in retired : PodsOn(i) = {}

\* drained-at on the API server tells the truth: whoever finds it, also after
\* a restart or a rollback, may skip the drain (main.go `minutesSinceDrained').
DrainedMarkTruthful ==
    \A i \in Instances : Exists(i) /\ "drained" \in nodes[i].marks
        => nodes[i].unschedulable /\ PodsOn(i) = {}

\* terminated-at is only found on nodes AWS is terminating: the handler skips
\* such a node for ever (main.go `minutesSinceTerminated').
TerminatedMarkTruthful ==
    \A i \in Instances : Exists(i) /\ "terminated" \in nodes[i].marks
        => lifecycle[i] = "Terminating"

\* Updates sent from cached copies of a node never undo its cordon.
CordonKept ==
    [][\A i \in Instances :
          Exists(i) /\ nodes[i].unschedulable /\ nodes'[i] # NoNode
              => nodes'[i].unschedulable]_vars

Retirements(e) == {d \in exec[e].did : d[1] \in {"retire", "retireUnanswered"}}
Scalings(e, g) ==
    {d \in exec[e].did : /\ d[1] \in {"retire", "retireUnanswered", "grow", "growUnanswered"}
                         /\ GroupOf[d[2]] = g}

\* The handler has been told of one of them.
IsTold(deeds) == \E d \in deeds : d[1] \in Answered

\* An execution that has been told that it scaled a group makes AWS scale that
\* group no more, so that old instances do not share one calculation of the room
\* (main.go, `we return here' and `ASG was scaled up already').  What it was not
\* told of, because the answer was lost, does not hold it back: it takes that for
\* a refusal and goes on.
OneScalingPerGroup ==
    [][\A e \in Execs, g \in Groups :
          IsTold(Scalings(e, g)) => Scalings(e, g)' \subseteq Scalings(e, g)]_vars

\* In slow mode an execution that has been told of one termination makes AWS
\* terminate nothing more, in any group (main.go:233).
SlowModeStops ==
    [][\A e \in Execs :
          SlowMode /\ IsTold(Retirements(e)) => Retirements(e)' \subseteq Retirements(e)]_vars

\* An instance has arrived once its node has been ready; what is terminated has.
HasArrived(i) == lifecycle[i] \in {"Terminating", "gone"} \/ (Exists(i) /\ nodes[i].ready)
Arrived(g) == {i \in Instances : GroupOf[i] = g /\ HasArrived(i)}

\* HasAcceptable lets up to 5 lag behind, but none behind fewer than 10 ready ones.
Tolerance(g) == IF Cardinality(Arrived(g)) < 10 THEN 0 ELSE 5

\* How often one execution may ask for one more: once; but a lost answer makes it
\* go on to the next of the instances that were outdated from the start.
OutdatedFromStart(g) == {i \in Initial : GroupOf[i] = g /\ InitialVersion[i] # FirstTarget}
Requests(g) ==
    IF "Answers" \in Fallible /\ OutdatedFromStart(g) # {} THEN Cardinality(OutdatedFromStart(g)) ELSE 1

\* The handler does not ask for more instances while those it asked for are
\* being launched, start or join the cluster (main.go:144 and :148): a group
\* never wants more than have arrived, the laggards that are tolerated and what
\* one execution may ask for.  Others may add one each time.
NoRunawayGrowth ==
    \A g \in Groups : desired[g] =< Cardinality(Arrived(g)) + Tolerance(g) + Requests(g) + meddled

\* As long as it is alone, what the handler sets a group's desired capacity to
\* is one more than it is by then, although it is an absolute value that was
\* described earlier and its own lost terminations may have lowered the size
\* since the execution began (aws.go:115, `to avoid a scenario in which the ASG
\* had already been scaled up or down').
IncrementsByOne ==
    [][\A e \in Execs :
          At(e, "grow") /\ exec'[e] # exec[e]
              => \A g \in Groups : desired'[g] \in {desired[g], desired[g] + 1}]_vars

\* Every instance that was outdated from the start is replaced, and for good.
Converges == <>[](\A i \in Initial : InitialVersion[i] # FirstTarget => lifecycle[i] = "gone")

\* A node's room is only calculated when every evicted pod is back on a node:
\* pending pods are on no list.
CalculatedWhenSettled ==
    (\E e \in Execs : At(e, "check")) => \A p \in Pods : loc[p] # Unplaced

\* The check of the resources is what brings evicted pods back: provided the
\* scheduler places them before the next check, none stays pending for ever,
\* although the handler shrinks the group with each termination and nobody else
\* makes it grow again (README.md, `it will scale up enough new nodes').
EvictedPodsReturn ==
    []CalculatedWhenSettled => \A p \in Pods : []<>(loc[p] # Unplaced)
=============================================================================
