---------------------------- MODULE ScalingProofs ----------------------------
(***************************************************************************)
(* For every number of groups and executions: how much the handler makes   *)
(* AWS change.  What one execution may obtain follows from the control     *)
(* flow of the loops, the breaks and the return of slow mode, whatever     *)
(* anybody else does.  How far a group grows in all executions depends on  *)
(* there being one handler at a time, and on the arrival of instances.     *)
(***************************************************************************)
EXTENDS RolloutProofs

\* The scaling actions an execution has obtained and been told of.
Scaled(x) == {d \in x.did : d[1] \in {"retire", "grow"}}
GroupScaled(d) == GroupOf[d[2]]

\* The instances an execution has before it are of its group.
OwnInstances(x) ==
    /\ \A g \in Groups : \A i \in x.snap[g].members : GroupOf[i] = g
    /\ \A i \in x.todo : GroupOf[i] = x.group
    /\ x.inst \in Instances => GroupOf[x.inst] = x.group /\ x.pc # "group"

\* A group that was scaled is behind it: neither in the queue, nor the group it
\* is in unless it is about to leave it; and it was scaled once.
BehindIt(x) ==
    /\ x.group \notin x.queue
    /\ \A d \in Scaled(x) : /\ GroupScaled(d) \notin x.queue
                            /\ GroupScaled(d) = x.group => x.pc = "markTerminated"
    /\ \A d, f \in Scaled(x) : GroupScaled(d) = GroupScaled(f) => d = f

\* In slow mode it has nothing before it once it has retired an instance.
Slowly(x) ==
    SlowMode => \A d \in Scaled(x) : d[1] = "retire" =>
        /\ x.pc = "markTerminated" \/ (x.pc \in {"idle", "group"} /\ x.queue = {})
        /\ \A f \in Scaled(x) : f[1] = "retire" => d = f

Orderly(x) == OwnInstances(x) /\ BehindIt(x) /\ Slowly(x)

OrderKept == \A e \in Execs : Orderly(exec[e])

-----------------------------------------------------------------------------

\* What an execution did is about instances.
LEMMA DidType ==
    ASSUME NEW x \in Execution, NEW d \in Scaled(x)
    PROVE  d[2] \in Instances /\ GroupScaled(d) \in Groups /\ d = <<d[1], d[2]>>
<1>1. d \in Deeds \X Instances
  BY DEF Scaled, Execution
<1> QED
  BY <1>1, AutoScalingAssumption DEF GroupScaled

\* An execution that does nothing more than go on within its group.
LEMMA GoesOn ==
    ASSUME NEW x \in Execution, NEW y \in Execution, Orderly(x),
           x.pc \notin {"idle", "group", "markTerminated"}, y.pc # "group",
           y.snap = x.snap, y.queue = x.queue, y.group = x.group, y.todo \subseteq x.todo,
           y.inst \in Instances => y.inst = x.inst \/ y.inst \in x.todo,
           Scaled(y) = Scaled(x)
    PROVE  Orderly(y)
<1>1. OwnInstances(y)
  BY DEF Orderly, OwnInstances
<1>2. BehindIt(y)
  BY DEF Orderly, BehindIt
<1>3. Slowly(y)
  BY DEF Orderly, Slowly
<1> QED
  BY <1>1, <1>2, <1>3 DEF Orderly

\* `continue' is one such step.
LEMMA ContinuedOrderly ==
    ASSUME NEW x \in Execution, HandOK(x), Orderly(x), x.pc \in BusyLabels \cup {"pick"}, x.pc # "markTerminated"
    PROVE  Continued(x) \in Execution /\ Orderly(Continued(x))
<1>1. /\ Continued(x) \in Execution
      /\ Continued(x).snap = x.snap /\ Continued(x).queue = x.queue /\ Continued(x).group = x.group
      /\ Continued(x).todo = x.todo /\ Continued(x).inst = NoInstance /\ Continued(x).did = x.did
      /\ Continued(x).pc = "pick"
  BY DEF Continued, Execution, Labels
<1>2. NoInstance \notin Instances /\ x.pc \notin {"idle", "group", "markTerminated"}
  BY RollingUpgradeAssumption DEF BusyLabels
<1>3. Scaled(Continued(x)) = Scaled(x)
  BY <1>1 DEF Scaled
<1> QED
  BY <1>1, <1>2, <1>3, GoesOn

\* Leaving a group, with what was obtained in it: at most one action, as the
\* last thing.
LEMMA BrokenOrderly ==
    ASSUME NEW x \in Execution, OwnInstances(x), NEW q \in SUBSET x.queue,
           \A d \in Scaled(x) : GroupScaled(d) \notin q,
           \A d, f \in Scaled(x) : GroupScaled(d) = GroupScaled(f) => d = f,
           SlowMode => \A d \in Scaled(x) : d[1] = "retire" =>
                           q = {} /\ \A f \in Scaled(x) : f[1] = "retire" => d = f
    PROVE  Orderly([Broken(x) EXCEPT !.queue = q])
<1> DEFINE y == [Broken(x) EXCEPT !.queue = q]
<1>1. /\ y.snap = x.snap /\ y.queue = q /\ y.group = NoGroup /\ y.todo = {}
      /\ y.inst = NoInstance /\ y.pc = "group" /\ y.did = x.did
  BY DEF Broken, Continued, Execution
<1>2. NoInstance \notin Instances /\ NoGroup \notin Groups /\ q \subseteq Groups /\ Scaled(y) = Scaled(x)
  BY <1>1, RollingUpgradeAssumption DEF Execution, Scaled
<1>3. \A d \in Scaled(x) : GroupScaled(d) # NoGroup
  BY <1>2, DidType
<1> HIDE DEF y
<1>4. OwnInstances(y)
  BY <1>1, <1>2 DEF OwnInstances
<1>5. BehindIt(y) /\ Slowly(y)
  BY <1>1, <1>2, <1>3 DEF BehindIt, Slowly
<1> QED
  BY <1>4, <1>5 DEF Orderly, y

\* The same when the queue stays as it is.
LEMMA BrokenKeepsQueue ==
    ASSUME NEW x \in Execution
    PROVE  Broken(x) = [Broken(x) EXCEPT !.queue = x.queue]
BY DEF Broken, Continued, Execution

\* A new execution, or none, has done nothing.
LEMMA FreshOrderly ==
    /\ Orderly(Idle)
    /\ Orderly([Idle EXCEPT !.pc = "group", !.queue = Groups, !.snap = [g \in Groups |-> SnapshotOf(g)]])
<1>1. NoInstance \notin Instances /\ NoGroup \notin Groups
  BY RollingUpgradeAssumption
<1>2. Orderly(Idle)
  BY <1>1 DEF Idle, NoSnapshot, Orderly, OwnInstances, BehindIt, Slowly, Scaled
<1> DEFINE y == [Idle EXCEPT !.pc = "group", !.queue = Groups, !.snap = [g \in Groups |-> SnapshotOf(g)]]
<1>3. /\ y.queue = Groups /\ y.group = NoGroup /\ y.todo = {} /\ y.inst = NoInstance /\ y.did = {}
      /\ y.snap = [g \in Groups |-> SnapshotOf(g)]
  BY DEF Idle
<1>4. \A g \in Groups : y.snap[g].members = Members(g)
  BY <1>3 DEF SnapshotOf
<1>5. \A g \in Groups : \A i \in Members(g) : GroupOf[i] = g
  BY DEF Members
<1> HIDE DEF y
<1>6. Orderly(y)
  BY <1>1, <1>3, <1>4, <1>5 DEF Orderly, OwnInstances, BehindIt, Slowly, Scaled
<1> QED
  BY <1>2, <1>6 DEF y

\* One execution takes a step, and the others do not.
LEMMA OneMoves ==
    ASSUME WellFormed, OrderKept, NEW e \in Execs, NEW y, Become(e, y), Orderly(y)
    PROVE  OrderKept'
BY DEF WellFormed, TypeOK, OrderKept, Become

\* The loop over the groups.
LEMMA LoopOrderly ==
    ASSUME WellFormed, OrderKept, NEW e \in Execs,
           \/ Begin(e) \/ Finish(e) \/ LeaveGroup(e)
           \/ \E g \in Groups : AssessGroup(e, g) \/ SkipGroup(e, g)
    PROVE  OrderKept'
<1> DEFINE x == exec[e]
<1>t. x \in Execution /\ HandOK(x) /\ Orderly(x)
  BY DEF WellFormed, TypeOK, InHand, OrderKept
<1>1. CASE Begin(e)
  BY <1>1, FreshOrderly, OneMoves DEF Begin
<1>2. CASE Finish(e)
  BY <1>2, FreshOrderly, OneMoves DEF Finish
<1>3. CASE LeaveGroup(e)
  <2>1. x.pc = "pick" /\ Become(e, Broken(x))
    BY <1>3 DEF LeaveGroup, Break, At
  <2>2. Orderly([Broken(x) EXCEPT !.queue = x.queue])
    BY <1>t, <2>1, BrokenOrderly DEF Orderly, BehindIt, Slowly
  <2> QED
    BY <1>t, <2>1, <2>2, BrokenKeepsQueue, OneMoves
<1>4. ASSUME NEW g \in Groups, SkipGroup(e, g) PROVE OrderKept'
  <2> DEFINE y == [x EXCEPT !.queue = @ \ {g}]
  <2>1. Become(e, y) /\ x.pc = "group"
    BY <1>4 DEF SkipGroup, At
  <2>2. /\ y.queue \subseteq x.queue /\ y.snap = x.snap /\ y.group = x.group /\ y.todo = x.todo
        /\ y.inst = x.inst /\ y.pc = x.pc /\ y.did = x.did
    BY <1>t DEF Execution
  <2>3. Orderly(y)
    BY <1>t, <2>2 DEF Orderly, OwnInstances, BehindIt, Slowly, Scaled
  <2> QED
    BY <2>1, <2>3, OneMoves
<1>5. ASSUME NEW g \in Groups, AssessGroup(e, g) PROVE OrderKept'
  <2> DEFINE s == x.snap[g]
             here == [x EXCEPT !.queue = @ \ {g}]
             picked(ready) == [here EXCEPT !.pc = "pick", !.group = g,
                                           !.snap[g] = [NoSnapshot EXCEPT !.desired = s.desired],
                                           !.todo = Outdated(s), !.ready = ready]
  <2>1. \E ready : Become(e, picked(ready)) \/ Become(e, Broken(here))
    BY <1>5 DEF AssessGroup
  <2>2. PICK ready : Become(e, picked(ready)) \/ Become(e, Broken(here))
    BY <2>1
  <2>3. x.pc = "group" /\ g \in x.queue
    BY <1>5 DEF AssessGroup, At
  <2>4. /\ here \in Execution /\ here.queue = x.queue \ {g} /\ here.did = x.did /\ here.snap = x.snap
        /\ here.todo = x.todo /\ here.inst = x.inst /\ here.group = x.group
    BY <1>t DEF Execution
  <2>5. Scaled(here) = Scaled(x)
    BY <2>4 DEF Scaled
  <2>6. OwnInstances(here)
    BY <1>t, <2>4 DEF Orderly, OwnInstances
  <2>7. Orderly([Broken(here) EXCEPT !.queue = here.queue])
    <3>1. \A d \in Scaled(here) : GroupScaled(d) \notin here.queue
      BY <1>t, <2>4, <2>5 DEF Orderly, BehindIt
    <3>2. \A d, f \in Scaled(here) : GroupScaled(d) = GroupScaled(f) => d = f
      BY <1>t, <2>5 DEF Orderly, BehindIt
    <3>3. SlowMode => \A d \in Scaled(here) : d[1] # "retire"
      BY <1>t, <2>3, <2>5 DEF Orderly, Slowly
    <3> QED
      BY <2>4, <2>6, <3>1, <3>2, <3>3, BrokenOrderly
  <2>8. Orderly(Broken(here))
    BY <2>4, <2>7, BrokenKeepsQueue
  <2> DEFINE y == picked(ready)
  <2>9. /\ y.queue = x.queue \ {g} /\ y.group = g /\ y.todo = Outdated(s) /\ y.inst = x.inst
        /\ y.pc = "pick" /\ y.did = x.did
        /\ \A h \in Groups : y.snap[h] = IF h = g THEN [NoSnapshot EXCEPT !.desired = s.desired] ELSE x.snap[h]
    BY <1>t, <2>4 DEF Execution
  <2>10. s \in Snapshot /\ x.inst \notin Instances
    BY <1>t, <2>3 DEF Execution, Orderly, OwnInstances
  <2>11. OwnInstances(y)
    <3>1. \A i \in Outdated(s) : GroupOf[i] = g
      BY <1>t DEF Orderly, OwnInstances, Outdated
    <3>2. [NoSnapshot EXCEPT !.desired = s.desired].members = {}
      BY DEF NoSnapshot
    <3> QED
      BY <1>t, <2>9, <2>10, <3>1, <3>2 DEF Orderly, OwnInstances
  <2>12. Scaled(y) = Scaled(x)
    BY <2>9 DEF Scaled
  <2> HIDE DEF y
  <2>13. BehindIt(y) /\ Slowly(y)
    BY <1>t, <2>3, <2>9, <2>12 DEF Orderly, BehindIt, Slowly
  <2>14. Orderly(y)
    BY <2>11, <2>13 DEF Orderly
  <2> QED
    BY <2>2, <2>8, <2>14, OneMoves DEF y
<1> QED
  BY <1>1, <1>2, <1>3, <1>4, <1>5

\* The steps of the approach to one instance: none of them obtains anything.
LEMMA ApproachOrderly ==
    ASSUME WellFormed, OrderKept, NEW e \in Execs,
           \/ \E i \in Instances : PickInstance(e, i)
           \/ CordonEagerly(e) \/ MarkStarted(e) \/ CheckResources(e) \/ ExcludeNode(e)
           \/ StartDrain(e) \/ CompleteDrain(e) \/ FailDrain(e) \/ MarkDrained(e)
           \/ TerminateAgain(e) \/ FailTerminate(e) \/ TerminateUnanswered(e)
           \/ DescribeLatest(e) \/ FailGrow(e) \/ GrowUnanswered(e)
    PROVE  OrderKept'
<1> DEFINE x == exec[e]
<1>t. x \in Execution /\ HandOK(x) /\ Orderly(x)
  BY DEF WellFormed, TypeOK, InHand, OrderKept
<1>b. BusyLabels = Labels \ {"idle", "group", "pick"} /\ NoInstance \notin Instances
  BY RollingUpgradeAssumption DEF BusyLabels
<1>c. ASSUME Continue(e), x.pc \in BusyLabels, x.pc # "markTerminated" PROVE OrderKept'
  BY <1>c, <1>t, ContinuedOrderly, OneMoves DEF Continue
<1>g. ASSUME NEW label \in BusyLabels, Goto(e, label), x.pc \in BusyLabels, x.pc # "markTerminated"
      PROVE  OrderKept'
  <2> DEFINE y == [x EXCEPT !.pc = label]
  <2>1. /\ y \in Execution /\ y.snap = x.snap /\ y.queue = x.queue /\ y.group = x.group /\ y.todo = x.todo
        /\ y.inst = x.inst /\ y.did = x.did /\ y.pc = label /\ Become(e, y)
    BY <1>t, <1>b, <1>g DEF Execution, Goto
  <2>2. Scaled(y) = Scaled(x)
    BY <2>1 DEF Scaled
  <2>3. Orderly(y)
    BY <1>t, <1>b, <1>g, <2>1, <2>2, GoesOn
  <2> QED
    BY <2>1, <2>3, OneMoves
<1>n. ASSUME Become(e, TerminateNext(x)), x.pc \in BusyLabels, x.pc # "markTerminated" PROVE OrderKept'
  <2> DEFINE y == [x EXCEPT !.pc = "terminate", !.victims = {}]
  <2>1. /\ y \in Execution /\ y.snap = x.snap /\ y.queue = x.queue /\ y.group = x.group /\ y.todo = x.todo
        /\ y.inst = x.inst /\ y.did = x.did /\ y.pc = "terminate"
    BY <1>t DEF Execution, Labels
  <2>2. Scaled(y) = Scaled(x)
    BY <2>1 DEF Scaled
  <2>3. Orderly(y)
    BY <1>t, <1>b, <1>n, <2>1, <2>2, GoesOn
  <2>4. Orderly(Continued(x))
    BY <1>t, <1>n, ContinuedOrderly
  <2> HIDE DEF y
  <2>5. Orderly(TerminateNext(x))
    BY <2>3, <2>4 DEF TerminateNext, y
  <2> QED
    BY <1>n, <2>5, OneMoves
<1>1. ASSUME NEW i \in Instances, PickInstance(e, i) PROVE OrderKept'
  <2> DEFINE z == [x EXCEPT !.todo = @ \ {i}]
  <2>1. x.pc = "pick" /\ i \in x.todo
    BY <1>1 DEF PickInstance, At
  <2>2. /\ z \in Execution /\ z.snap = x.snap /\ z.queue = x.queue /\ z.group = x.group
        /\ z.todo = x.todo \ {i} /\ z.inst = x.inst /\ z.did = x.did /\ z.pc = "pick"
    BY <1>t, <2>1 DEF Execution
  <2>3. Scaled(z) = Scaled(x)
    BY <2>2 DEF Scaled
  <2>4. Orderly(z) /\ HandOK(z)
    BY <1>t, <1>b, <2>1, <2>2, <2>3, GoesOn DEF HandOK
  <2>5. CASE Become(e, Continued(z))
    BY <2>2, <2>4, <2>5, ContinuedOrderly, OneMoves
  <2>6. ASSUME NEW seen \in SUBSET {"started", "drained", "terminated", "excluded"},
               NEW label \in {"cordon", "start", "check"},
               Become(e, [z EXCEPT !.inst = i, !.seen = seen, !.pc = label])
        PROVE  OrderKept'
    <3> DEFINE y == [z EXCEPT !.inst = i, !.seen = seen, !.pc = label]
    <3>1. /\ y \in Execution /\ y.snap = x.snap /\ y.queue = x.queue /\ y.group = x.group
          /\ y.todo = x.todo \ {i} /\ y.inst = i /\ y.did = x.did /\ y.pc = label
      BY <2>2 DEF Execution, Labels
    <3>2. Scaled(y) = Scaled(x)
      BY <3>1 DEF Scaled
    <3>3. /\ x.pc \notin {"idle", "group", "markTerminated"} /\ y.pc # "group"
          /\ y.todo \subseteq x.todo /\ y.inst \in x.todo
      BY <2>1, <3>1
    <3> HIDE DEF y
    <3>4. Orderly(y)
      BY <1>t, <3>1, <3>2, <3>3, GoesOn
    <3> QED
      BY <2>6, <3>4, OneMoves DEF y
  <2>7. CASE ~Become(e, Continued(z))
    <3>1. View \in NodeList
      BY ViewType DEF WellFormed, TypeOK
    <3>2. ~NodeNotFound(i)
          /\ Become(e, [z EXCEPT !.inst = i, !.seen = RollingUpdateTimestamps(i),
                                 !.pc = IF EagerCordoning /\ ~View[i].unschedulable
                                        THEN "cordon" ELSE AfterReading(RollingUpdateTimestamps(i))])
      BY <1>1, <2>7 DEF PickInstance
    <3>3. RollingUpdateTimestamps(i) \subseteq {"started", "drained", "terminated", "excluded"}
      BY <3>1, <3>2 DEF RollingUpdateTimestamps, NodeNotFound, NodeList, Node
    <3>4. (IF EagerCordoning /\ ~View[i].unschedulable
           THEN "cordon" ELSE AfterReading(RollingUpdateTimestamps(i))) \in {"cordon", "start", "check"}
      BY DEF AfterReading
    <3> QED
      BY <2>6, <3>2, <3>3, <3>4
  <2> QED
    BY <2>5, <2>7
<1>2. CASE CordonEagerly(e)
  <2>1. x.pc = "cordon" /\ (Continue(e) \/ \E label \in {"start", "check"} : Goto(e, label))
    BY <1>2 DEF CordonEagerly, At, AfterReading
  <2> QED
    BY <2>1, <1>c, <1>g, <1>b DEF Labels
<1>3. CASE MarkStarted(e) \/ FailDrain(e) \/ FailTerminate(e) \/ FailGrow(e)
  <2>1. Continue(e) /\ x.pc \in {"start", "drain", "evict", "terminate", "grow"}
    BY <1>3 DEF MarkStarted, FailDrain, FailTerminate, FailGrow, At
  <2> QED
    BY <2>1, <1>c, <1>b DEF Labels
<1>4. CASE CheckResources(e)
  <2>1. /\ x.pc = "check"
        /\ \/ Continue(e)
           \/ Become(e, TerminateNext(x))
           \/ \E label \in {"label", "drain", "describe"} : Goto(e, label)
    BY <1>4 DEF CheckResources, At
  <2> QED
    BY <2>1, <1>c, <1>g, <1>n, <1>b DEF Labels
<1>5. CASE ExcludeNode(e) \/ TerminateAgain(e)
  <2>1. /\ x.pc \in {"label", "terminate"}
        /\ \E label \in {"drain", "markTerminated"} : Goto(e, label)
    BY <1>5 DEF ExcludeNode, TerminateAgain, At
  <2> QED
    BY <2>1, <1>g, <1>b DEF Labels
<1>6. CASE StartDrain(e)
  <2> DEFINE y == [x EXCEPT !.pc = "evict", !.victims = PodsOn(x.inst)]
  <2>1. x.pc = "drain" /\ Become(e, y)
    BY <1>6 DEF StartDrain, At
  <2>2. PodsOn(x.inst) \subseteq Pods
    BY DEF PodsOn
  <2>3. /\ y \in Execution /\ y.snap = x.snap /\ y.queue = x.queue /\ y.group = x.group /\ y.todo = x.todo
        /\ y.inst = x.inst /\ y.did = x.did /\ y.pc = "evict"
    BY <1>t, <2>2 DEF Execution, Labels
  <2>4. Scaled(y) = Scaled(x)
    BY <2>3 DEF Scaled
  <2>5. Orderly(y)
    BY <1>t, <2>1, <2>3, <2>4, GoesOn
  <2> QED
    BY <2>1, <2>5, OneMoves
<1>7. CASE CompleteDrain(e)
  <2> DEFINE y == [Log(x, "drain") EXCEPT !.pc = "markDrained"]
  <2>1. x.pc = "evict" /\ Become(e, y)
    BY <1>7 DEF CompleteDrain, At
  <2>2. x.inst \in Instances
    BY <1>t, <2>1 DEF HandOK, BusyLabels, Labels
  <2>3. /\ y \in Execution /\ y.snap = x.snap /\ y.queue = x.queue /\ y.group = x.group /\ y.todo = x.todo
        /\ y.inst = x.inst /\ y.did = x.did \cup {<<"drain", x.inst>>} /\ y.pc = "markDrained"
    <3>1. <<"drain", x.inst>> \in Deeds \X Instances
      BY <2>2 DEF Deeds, Answered
    <3> DEFINE did == x.did \cup {<<"drain", x.inst>>}
    <3>2. did \subseteq Deeds \X Instances
      BY <1>t, <3>1 DEF Execution
    <3>3. y = [x EXCEPT !.did = did, !.pc = "markDrained"]
      BY DEF Log
    <3> HIDE DEF did
    <3>4. [x EXCEPT !.did = did, !.pc = "markDrained"] \in Execution
      BY <1>t, <3>2 DEF Execution, Labels
    <3>5. [x EXCEPT !.did = did, !.pc = "markDrained"].did = did
      BY <1>t DEF Execution
    <3>6. y \in Execution /\ y.did = x.did \cup {<<"drain", x.inst>>}
      BY <3>3, <3>4, <3>5 DEF did
    <3> QED
      BY <1>t, <3>6 DEF Execution, Log
  <2>4. Scaled(y) = Scaled(x)
    BY <2>3 DEF Scaled
  <2>5. Orderly(y)
    BY <1>t, <2>1, <2>3, <2>4, GoesOn
  <2> QED
    BY <2>1, <2>5, OneMoves
<1>8. CASE MarkDrained(e)
  <2>1. x.pc = "markDrained" /\ Become(e, TerminateNext(x))
    BY <1>8 DEF MarkDrained, At
  <2> QED
    BY <2>1, <1>n, <1>b DEF Labels
<1>9. CASE DescribeLatest(e)
  <2> DEFINE n == desired[x.group] + 1
             y == [x EXCEPT !.pc = "grow", !.latest = n]
  <2>1. x.pc = "describe" /\ (Become(e, y) \/ Continue(e))
    BY <1>9 DEF DescribeLatest, At
  <2>2. n \in Nat
    <3>1. x.group \in Groups
      BY <1>t, <2>1 DEF HandOK, BusyLabels, Labels
    <3> QED
      BY <3>1 DEF WellFormed, TypeOK, AutoScalingTypeOK
  <2> HIDE DEF n
  <2>3. /\ y \in Execution /\ y.snap = x.snap /\ y.queue = x.queue /\ y.group = x.group /\ y.todo = x.todo
        /\ y.inst = x.inst /\ y.did = x.did /\ y.pc = "grow"
    BY <1>t, <2>2 DEF Execution, Labels
  <2>4. Scaled(y) = Scaled(x)
    BY <2>3 DEF Scaled
  <2>5. Orderly(y)
    BY <1>t, <2>1, <2>3, <2>4, GoesOn
  <2> QED
    BY <2>1, <2>5, OneMoves, <1>c, <1>b DEF Labels
<1>10. CASE TerminateUnanswered(e) \/ GrowUnanswered(e)
  <2>1. PICK kind \in Unanswered : Become(e, Continued(Log(x, kind)))
    BY <1>10 DEF TerminateUnanswered, GrowUnanswered, Unanswered
  <2> DEFINE y == Log(x, kind)
  <2>2. x.pc \in {"terminate", "grow"}
    BY <1>10 DEF TerminateUnanswered, GrowUnanswered, At
  <2>3. x.inst \in Instances
    BY <1>t, <2>2 DEF HandOK, BusyLabels, Labels
  <2>4. y \in Execution /\ HandOK(y)
    BY <1>t, <2>3, LogType DEF Deeds, HandOK
  <2>5. /\ y.snap = x.snap /\ y.queue = x.queue /\ y.group = x.group /\ y.todo = x.todo
        /\ y.inst = x.inst /\ y.did = x.did \cup {<<kind, x.inst>>} /\ y.pc = x.pc
    BY <1>t DEF Execution, Log
  <2>6. Scaled(y) = Scaled(x)
    BY <2>5 DEF Scaled, Unanswered
  <2> HIDE DEF y
  <2>7. Orderly(y)
    BY <1>t, <2>2, <2>4, <2>5, <2>6, GoesOn
  <2> QED
    BY <1>b, <2>1, <2>2, <2>4, <2>5, <2>7, ContinuedOrderly, OneMoves DEF y, Labels
<1> QED
  BY <1>1, <1>2, <1>3, <1>4, <1>5, <1>6, <1>7, <1>8, <1>9, <1>10

\* The steps that obtain a scaling action, and the one that leaves the group
\* after a termination.
LEMMA ScalingOrderly ==
    ASSUME WellFormed, OrderKept, NEW e \in Execs,
           Terminate(e) \/ MarkTerminated(e) \/ Grow(e)
    PROVE  OrderKept'
<1> DEFINE x == exec[e]
<1>t. x \in Execution /\ HandOK(x) /\ Orderly(x)
  BY DEF WellFormed, TypeOK, InHand, OrderKept
<1>b. x.pc \in {"terminate", "markTerminated", "grow"}
  BY DEF Terminate, MarkTerminated, Grow, At
<1>i. x.inst \in Instances /\ x.group \in Groups /\ GroupOf[x.inst] = x.group
  BY <1>t, <1>b DEF HandOK, BusyLabels, Labels, Orderly, OwnInstances
<1>1. CASE Terminate(e)
  <2> DEFINE y == [Log(x, "retire") EXCEPT !.pc = "markTerminated"]
             new == <<"retire", x.inst>>
  <2>1. x.pc = "terminate" /\ Become(e, y)
    BY <1>1 DEF Terminate, At
  <2>2. /\ y.snap = x.snap /\ y.queue = x.queue /\ y.group = x.group /\ y.todo = x.todo
        /\ y.inst = x.inst /\ y.did = x.did \cup {new} /\ y.pc = "markTerminated"
    BY <1>t DEF Execution, Log
  <2>3. Scaled(y) = Scaled(x) \cup {new} /\ GroupScaled(new) = x.group /\ new[1] = "retire"
    BY <1>i, <2>2 DEF Scaled, GroupScaled
  <2>4. \A d \in Scaled(x) : GroupScaled(d) # x.group /\ GroupScaled(d) \notin x.queue
    BY <1>t, <2>1 DEF Orderly, BehindIt
  <2>5. SlowMode => \A d \in Scaled(x) : d[1] # "retire"
    BY <1>t, <2>1 DEF Orderly, Slowly
  <2> HIDE DEF y, new
  <2>6. OwnInstances(y)
    BY <1>t, <2>2 DEF Orderly, OwnInstances
  <2>7. BehindIt(y)
    BY <1>t, <2>2, <2>3, <2>4 DEF Orderly, BehindIt
  <2>8. Slowly(y)
    BY <2>2, <2>3, <2>5 DEF Slowly
  <2>9. Orderly(y)
    BY <2>6, <2>7, <2>8 DEF Orderly
  <2> QED
    BY <2>1, <2>9, OneMoves DEF y
<1>2. CASE MarkTerminated(e)
  <2> DEFINE q == IF SlowMode THEN {} ELSE x.queue
             y == [Broken(x) EXCEPT !.queue = q]
  <2>1. Become(e, y)
    <3>1. Broken(x).queue = x.queue
      BY <1>t DEF Broken, Continued, Execution
    <3>2. [Broken(x) EXCEPT !.queue = IF SlowMode THEN {} ELSE @] = y
      BY <3>1
    <3> QED
      BY <1>2, <3>2 DEF MarkTerminated
  <2>2. q \in SUBSET x.queue /\ (SlowMode => q = {})
    OBVIOUS
  <2> HIDE DEF q
  <2>3. Orderly(y)
    <3>1. OwnInstances(x) /\ BehindIt(x) /\ Slowly(x) /\ x.pc = "markTerminated"
      BY <1>2, <1>t DEF MarkTerminated, At, Orderly
    <3>2. \A d \in Scaled(x) : GroupScaled(d) \notin q
      BY <2>2, <3>1 DEF BehindIt
    <3>3. \A d, f \in Scaled(x) : GroupScaled(d) = GroupScaled(f) => d = f
      BY <3>1 DEF BehindIt
    <3>4. SlowMode => \A d \in Scaled(x) : d[1] = "retire" =>
                          q = {} /\ \A f \in Scaled(x) : f[1] = "retire" => d = f
      BY <2>2, <3>1 DEF Slowly
    <3> QED
      BY <1>t, <2>2, <3>1, <3>2, <3>3, <3>4, BrokenOrderly
  <2> QED
    BY <2>1, <2>3, OneMoves
<1>3. CASE Grow(e)
  <2> DEFINE y == Log(x, "grow")
             new == <<"grow", x.inst>>
  <2>1. x.pc = "grow" /\ Become(e, Broken(y))
    BY <1>3 DEF Grow, At
  <2>2. /\ y \in Execution /\ y.snap = x.snap /\ y.queue = x.queue /\ y.group = x.group /\ y.todo = x.todo
        /\ y.inst = x.inst /\ y.did = x.did \cup {new} /\ y.pc = "grow"
    BY <1>t, <1>i, <2>1 DEF Execution, Log, Deeds, Answered
  <2>3. Scaled(y) = Scaled(x) \cup {new} /\ GroupScaled(new) = x.group /\ new[1] = "grow"
    BY <1>i, <2>2 DEF Scaled, GroupScaled
  <2>4. \A d \in Scaled(x) : GroupScaled(d) # x.group /\ GroupScaled(d) \notin x.queue
    BY <1>t, <2>1 DEF Orderly, BehindIt
  <2>5. SlowMode => \A d \in Scaled(x) : d[1] # "retire"
    BY <1>t, <2>1 DEF Orderly, Slowly
  <2>6. x.group \notin x.queue /\ \A d, f \in Scaled(x) : GroupScaled(d) = GroupScaled(f) => d = f
    BY <1>t DEF Orderly, BehindIt
  <2> HIDE DEF y, new
  <2>7. OwnInstances(y)
    BY <1>t, <2>1, <2>2 DEF Orderly, OwnInstances
  <2>8. /\ \A d \in Scaled(y) : GroupScaled(d) \notin y.queue
        /\ \A d, f \in Scaled(y) : GroupScaled(d) = GroupScaled(f) => d = f
        /\ SlowMode => \A d \in Scaled(y) : d[1] # "retire"
    BY <2>2, <2>3, <2>4, <2>5, <2>6
  <2>9. Orderly([Broken(y) EXCEPT !.queue = y.queue])
    BY <2>2, <2>7, <2>8, BrokenOrderly
  <2> QED
    BY <2>1, <2>2, <2>9, BrokenKeepsQueue, OneMoves DEF y
<1> QED
  BY <1>1, <1>2, <1>3

\* Every step keeps the order.
LEMMA StepOrderly == WellFormed /\ OrderKept /\ [Next]_vars => OrderKept'
<1> SUFFICES ASSUME WellFormed, OrderKept, [Next]_vars PROVE OrderKept'
  OBVIOUS
<1>1. ASSUME NEW e \in Execs, Begin(e) \/ ExecStep(e) PROVE OrderKept'
  <2>1. ASSUME NEW p \in Pods, EvictPod(e, p) PROVE OrderKept'
    BY <2>1 DEF EvictPod, OrderKept
  <2> QED
    BY <1>1, <2>1, LoopOrderly, ApproachOrderly, ScalingOrderly DEF ExecStep
<1>2. CASE Crash
  BY <1>2, FreshOrderly DEF Crash, OrderKept
<1>3. CASE TimeOut \/ Intervene \/ Expire
  BY <1>3 DEF TimeOut, Intervene, Expire, HandlerUnchanged, OrderKept
<1>4. ASSUME NEW i \in Instances, AwsStep(i) \/ InstanceGone(i) \/ NodeStep(i) PROVE OrderKept'
  BY <1>4 DEF AwsStep, InstanceGone, NodeStep, HandlerUnchanged, OrderKept
<1>5. ASSUME NEW p \in Pods, NEW i \in Instances, Place(p, i) PROVE OrderKept'
  BY <1>5 DEF Place, HandlerUnchanged, OrderKept
<1>6. CASE UNCHANGED vars
  BY <1>6 DEF vars, OrderKept
<1> QED
  BY <1>1, <1>2, <1>3, <1>4, <1>5, <1>6 DEF Next

\* The order holds in every reachable state.
THEOREM OrderInvariant == Spec => []OrderKept
<1>1. Init => OrderKept
  BY FreshOrderly DEF Init, OrderKept
<1> QED
  BY <1>1, StepOrderly, WellFormedness, PTL DEF Spec

\* What the helpers of the control flow leave of what has been done.
LEMMA SameDeeds ==
    ASSUME NEW x \in Execution
    PROVE  /\ Continued(x).did = x.did
           /\ Broken(x).did = x.did
           /\ TerminateNext(x).did = x.did
           /\ \A kind \in Deeds : Log(x, kind).did = x.did \cup {<<kind, x.inst>>}
<1>1. Continued(x) \in Execution /\ Continued(x).did = x.did
  BY RollingUpgradeAssumption DEF Continued, Execution, Labels
<1>2. Broken(x).did = x.did
  BY <1>1 DEF Broken, Execution
<1>3. TerminateNext(x).did = x.did
  BY <1>1 DEF TerminateNext, Execution
<1>4. \A kind \in Deeds : Log(x, kind).did = x.did \cup {<<kind, x.inst>>}
  BY DEF Log, Execution
<1> QED
  BY <1>1, <1>2, <1>3, <1>4

\* Where an execution terminates its instance and where it grows its group.
DoneWhere(x, d) ==
    /\ d[2] = x.inst
    /\ d[1] \in {"retire", "retireUnanswered"} => x.pc = "terminate"
    /\ d[1] \in {"grow", "growUnanswered"} => x.pc = "grow"

\* Nothing is done elsewhere.
LEMMA NewDeeds ==
    ASSUME WellFormed, [Next]_vars, NEW e \in Execs,
           NEW d \in exec'[e].did, d \notin exec[e].did
    PROVE  DoneWhere(exec[e], d)
<1> DEFINE x == exec[e]
<1>t. x \in Execution /\ exec \in [Execs -> Execution]
  BY DEF WellFormed, TypeOK
<1>s. exec'[e] # exec[e]
  OBVIOUS
<1>b. ASSUME NEW y, Become(e, y) PROVE d \in y.did
  BY <1>b, <1>t DEF Become
<1>c. ASSUME NEW y, Become(e, y), y.did = x.did PROVE FALSE
  BY <1>b, <1>c
<1>d. \A y : Become(e, y) => y.did # x.did
  BY <1>c
<1>1. ASSUME ExecStep(e) PROVE DoneWhere(x, d)
  <2>1. CASE Finish(e)
    BY <2>1, <1>b DEF Finish, Idle
  <2>2. CASE \/ LeaveGroup(e) \/ CordonEagerly(e) \/ MarkStarted(e) \/ ExcludeNode(e)
             \/ FailDrain(e) \/ TerminateAgain(e) \/ FailTerminate(e) \/ FailGrow(e)
    <3>1. Break(e) \/ Continue(e) \/ \E label \in Labels : Goto(e, label)
      BY <2>2 DEF LeaveGroup, CordonEagerly, MarkStarted, ExcludeNode, FailDrain, TerminateAgain,
                  FailTerminate, FailGrow, AfterReading, Labels
    <3>2. \A label \in Labels : [x EXCEPT !.pc = label].did = x.did
      BY <1>t DEF Execution
    <3> QED
      BY <3>1, <3>2, <1>t, <1>d, SameDeeds DEF Break, Continue, Goto
  <2>3. CASE CheckResources(e) \/ MarkDrained(e)
    <3>1. \/ Continue(e) \/ Become(e, TerminateNext(x)) \/ \E label \in Labels : Goto(e, label)
      BY <2>3 DEF CheckResources, MarkDrained, Labels
    <3>2. \A label \in Labels : [x EXCEPT !.pc = label].did = x.did
      BY <1>t DEF Execution
    <3> QED
      BY <3>1, <3>2, <1>t, <1>d, SameDeeds DEF Continue, Goto
  <2>4. CASE StartDrain(e)
    <3>1. [x EXCEPT !.pc = "evict", !.victims = PodsOn(x.inst)].did = x.did
      BY <1>t DEF Execution
    <3> QED
      BY <2>4, <3>1, <1>d DEF StartDrain
  <2>5. CASE CompleteDrain(e)
    <3>1. Become(e, [Log(x, "drain") EXCEPT !.pc = "markDrained"])
      BY <2>5 DEF CompleteDrain
    <3>2. [Log(x, "drain") EXCEPT !.pc = "markDrained"].did = x.did \cup {<<"drain", x.inst>>}
      BY <1>t DEF Log, Execution
    <3>3. d = <<"drain", x.inst>>
      BY <3>1, <3>2, <1>b
    <3> QED
      BY <3>3 DEF DoneWhere
  <2>6. CASE Terminate(e)
    <3>1. x.pc = "terminate" /\ Become(e, [Log(x, "retire") EXCEPT !.pc = "markTerminated"])
      BY <2>6 DEF Terminate, At
    <3>2. [Log(x, "retire") EXCEPT !.pc = "markTerminated"].did = x.did \cup {<<"retire", x.inst>>}
      BY <1>t DEF Log, Execution
    <3>3. d = <<"retire", x.inst>>
      BY <3>1, <3>2, <1>b
    <3> QED
      BY <3>1, <3>3 DEF DoneWhere
  <2>7. CASE MarkTerminated(e)
    <3>1. Broken(x) \in Execution /\ Broken(x).did = x.did
      BY <1>t, RollingUpgradeAssumption DEF Broken, Continued, Execution, Labels
    <3>2. [Broken(x) EXCEPT !.queue = IF SlowMode THEN {} ELSE @].did = x.did
      BY <3>1 DEF Execution
    <3> QED
      BY <2>7, <3>2, <1>d DEF MarkTerminated
  <2>8. CASE TerminateUnanswered(e) \/ GrowUnanswered(e) \/ Grow(e)
    <3>1. PICK kind \in {"retireUnanswered", "growUnanswered", "grow"} :
             /\ Become(e, Continued(Log(x, kind))) \/ Become(e, Broken(Log(x, kind)))
             /\ kind = "retireUnanswered" => x.pc = "terminate"
             /\ kind \in {"growUnanswered", "grow"} => x.pc = "grow"
      BY <2>8 DEF TerminateUnanswered, GrowUnanswered, Grow, At
    <3>2. kind \in Deeds
      BY <3>1 DEF Deeds, Answered, Unanswered
    <3>3. x.inst \in Instances
      BY <3>1, <1>t DEF WellFormed, InHand, HandOK, BusyLabels, Labels
    <3>4. <<kind, x.inst>> \in Deeds \X Instances
      BY <3>2, <3>3
    <3> DEFINE did == x.did \cup {<<kind, x.inst>>}
    <3>5. did \subseteq Deeds \X Instances /\ Log(x, kind) = [x EXCEPT !.did = did]
      BY <1>t, <3>4 DEF Execution, Log
    <3> HIDE DEF did
    <3>6. Log(x, kind) \in Execution /\ Log(x, kind).did = did
      BY <1>t, <3>5 DEF Execution
    <3>7. Continued(Log(x, kind)).did = did /\ Broken(Log(x, kind)).did = did
      BY <3>6, SameDeeds
    <3>8. d = <<kind, x.inst>>
      BY <3>1, <3>7, <1>b DEF did
    <3> QED
      BY <3>1, <3>8 DEF DoneWhere
  <2>9. CASE DescribeLatest(e)
    <3>1. \A n : [x EXCEPT !.pc = "grow", !.latest = n].did = x.did
      BY <1>t DEF Execution
    <3>2. Continue(e) \/ \E n : Become(e, [x EXCEPT !.pc = "grow", !.latest = n])
      BY <2>9 DEF DescribeLatest
    <3> QED
      BY <3>1, <3>2, <1>t, <1>d, SameDeeds DEF Continue
  <2>10. ASSUME NEW g \in Groups, AssessGroup(e, g) \/ SkipGroup(e, g) PROVE DoneWhere(x, d)
    <3> DEFINE here == [x EXCEPT !.queue = @ \ {g}]
    <3>1. here \in Execution /\ here.did = x.did
      BY <1>t DEF Execution
    <3>2. Broken(here).did = x.did
      BY <3>1, SameDeeds
    <3>3. \A n, s, ready : [here EXCEPT !.pc = "pick", !.group = g, !.snap[g] = n,
                                        !.todo = s, !.ready = ready].did = x.did
      BY <3>1 DEF Execution
    <3>4. CASE SkipGroup(e, g)
      BY <3>4, <3>1, <1>d DEF SkipGroup
    <3>5. CASE AssessGroup(e, g)
      <4>1. \/ Become(e, Broken(here))
            \/ \E n, s, ready : Become(e, [here EXCEPT !.pc = "pick", !.group = g, !.snap[g] = n,
                                                       !.todo = s, !.ready = ready])
        BY <3>5 DEF AssessGroup
      <4> HIDE DEF here
      <4>2. CASE Become(e, Broken(here))
        BY <4>2, <3>2, <1>c
      <4>3. ASSUME NEW n, NEW s, NEW ready,
                   Become(e, [here EXCEPT !.pc = "pick", !.group = g, !.snap[g] = n,
                                          !.todo = s, !.ready = ready])
            PROVE  FALSE
        <5> DEFINE y == [here EXCEPT !.pc = "pick", !.group = g, !.snap[g] = n,
                                     !.todo = s, !.ready = ready]
        <5>1. Become(e, y) /\ y.did = x.did
          BY <4>3, <3>3
        <5> HIDE DEF y
        <5> QED
          BY <5>1, <1>c
      <4> QED
        BY <4>1, <4>2, <4>3
    <3> QED
      BY <2>10, <3>4, <3>5
  <2>11. ASSUME NEW i \in Instances, PickInstance(e, i) PROVE DoneWhere(x, d)
    <3> DEFINE z == [x EXCEPT !.todo = @ \ {i}]
    <3>1. z \in Execution /\ z.did = x.did
      BY <1>t DEF Execution
    <3>2. Continued(z).did = x.did
      BY <3>1, SameDeeds
    <3>3. \A seen, label : [z EXCEPT !.inst = i, !.seen = seen, !.pc = label].did = x.did
      BY <3>1 DEF Execution
    <3> QED
      BY <2>11, <3>2, <3>3, <1>d DEF PickInstance
  <2>12. ASSUME NEW p \in Pods, EvictPod(e, p) PROVE DoneWhere(x, d)
    BY <2>12, <1>s DEF EvictPod
  <2> QED
    BY <1>1, <2>1, <2>2, <2>3, <2>4, <2>5, <2>6, <2>7, <2>8, <2>9, <2>10, <2>11, <2>12 DEF ExecStep
<1>2. CASE Begin(e)
  <2>1. [Idle EXCEPT !.pc = "group", !.queue = Groups, !.snap = [g \in Groups |-> SnapshotOf(g)]].did = {}
    BY DEF Idle
  <2> QED
    BY <1>2, <2>1, <1>b DEF Begin
<1>3. CASE Crash
  BY <1>3 DEF Crash, Idle
<1>4. ASSUME NEW f \in Execs, f # e, Begin(f) \/ ExecStep(f) PROVE FALSE
  <2>1. exec' = exec \/ \E y : Become(f, y)
    BY <1>4 DEF Begin, ExecStep, Finish, LeaveGroup, CordonEagerly, MarkStarted, CheckResources, ExcludeNode,
                StartDrain, CompleteDrain, FailDrain, MarkDrained, Terminate, TerminateAgain, FailTerminate,
                MarkTerminated, TerminateUnanswered, DescribeLatest, Grow, FailGrow, GrowUnanswered,
                AssessGroup, SkipGroup, PickInstance, EvictPod, Goto, Continue, Break
  <2> QED
    BY <2>1, <1>4, <1>t, <1>s DEF Become
<1>5. CASE TimeOut \/ Intervene \/ Expire \/ UNCHANGED vars
  BY <1>5, <1>s DEF TimeOut, Intervene, Expire, HandlerUnchanged, vars
<1>6. ASSUME NEW i \in Instances, AwsStep(i) \/ InstanceGone(i) \/ NodeStep(i) PROVE FALSE
  BY <1>6, <1>s DEF AwsStep, InstanceGone, NodeStep, HandlerUnchanged
<1>7. ASSUME NEW p \in Pods, NEW i \in Instances, Place(p, i) PROVE FALSE
  BY <1>7, <1>s DEF Place, HandlerUnchanged
<1> QED
  BY <1>1, <1>2, <1>3, <1>4, <1>5, <1>6, <1>7 DEF Next

\* An execution that has been told that it scaled a group makes AWS scale that
\* group no more: the group is behind it, or its instance is about to be marked.
THEOREM OneScaling == Spec => OneScalingPerGroup
<1>1. ASSUME WellFormed, OrderKept, [Next]_vars, NEW e \in Execs, NEW g \in Groups, IsTold(Scalings(e, g))
      PROVE  Scalings(e, g)' \subseteq Scalings(e, g)
  <2> SUFFICES ASSUME NEW d \in Scalings(e, g)', d \notin Scalings(e, g) PROVE FALSE
    OBVIOUS
  <2> DEFINE x == exec[e]
  <2>1. x \in Execution /\ HandOK(x) /\ Orderly(x)
    BY <1>1 DEF WellFormed, TypeOK, InHand, OrderKept
  <2>2. d \in exec'[e].did /\ d \notin x.did /\ GroupOf[d[2]] = g
        /\ d[1] \in {"retire", "retireUnanswered", "grow", "growUnanswered"}
    BY DEF Scalings
  <2>3. DoneWhere(x, d)
    BY <1>1, <2>2, NewDeeds
  <2>4. d[2] = x.inst /\ x.pc \in {"terminate", "grow"}
    BY <2>2, <2>3 DEF DoneWhere
  <2>5. x.inst \in Instances /\ GroupOf[x.inst] = x.group
    BY <2>1, <2>4 DEF HandOK, BusyLabels, Labels, Orderly, OwnInstances
  <2>6. PICK f \in Scaled(x) : GroupScaled(f) = g
    BY <1>1 DEF IsTold, Scalings, Scaled, GroupScaled, Answered
  <2>7. x.pc = "markTerminated"
    BY <2>1, <2>2, <2>4, <2>5, <2>6 DEF Orderly, BehindIt
  <2> QED
    BY <2>4, <2>7
<1>2. WellFormed /\ OrderKept /\ [Next]_vars
        => [\A e \in Execs, g \in Groups :
              IsTold(Scalings(e, g)) => Scalings(e, g)' \subseteq Scalings(e, g)]_vars
  BY <1>1
<1> QED
  BY <1>2, OrderInvariant, WellFormedness, PTL DEF Spec, OneScalingPerGroup

\* In slow mode an execution that has been told of one termination makes AWS
\* terminate nothing more in any group.
THEOREM SlowModeIsSlow == Spec => SlowModeStops
<1>1. ASSUME WellFormed, OrderKept, [Next]_vars, NEW e \in Execs, SlowMode, IsTold(Retirements(e))
      PROVE  Retirements(e)' \subseteq Retirements(e)
  <2> SUFFICES ASSUME NEW d \in Retirements(e)', d \notin Retirements(e) PROVE FALSE
    OBVIOUS
  <2> DEFINE x == exec[e]
  <2>1. Orderly(x)
    BY <1>1 DEF OrderKept
  <2>2. d \in exec'[e].did /\ d \notin x.did /\ d[1] \in {"retire", "retireUnanswered"}
    BY DEF Retirements
  <2>3. x.pc = "terminate"
    BY <1>1, <2>2, NewDeeds DEF DoneWhere
  <2>4. PICK f \in Scaled(x) : f[1] = "retire"
    BY <1>1 DEF IsTold, Retirements, Scaled, Answered
  <2> QED
    BY <1>1, <2>1, <2>3, <2>4 DEF Orderly, Slowly
<1>2. WellFormed /\ OrderKept /\ [Next]_vars
        => [\A e \in Execs :
              SlowMode /\ IsTold(Retirements(e)) => Retirements(e)' \subseteq Retirements(e)]_vars
  BY <1>1
<1> QED
  BY <1>2, OrderInvariant, WellFormedness, PTL DEF Spec, SlowModeStops

-----------------------------------------------------------------------------
(* How much all executions make a group grow.  This depends on what is     *)
(* behind a node that is up to date: instances arrive and stay arrived.    *)

\* A step on the cluster leaves ready nodes ready, and the copies it leaves in
\* the cache were ready when it found them.
KeepsReady ==
    /\ \A i \in Instances : nodes[i] # NoNode /\ nodes[i].ready => nodes'[i] # NoNode /\ nodes'[i].ready
    /\ cache' # NoCache => \A i \in Instances : cache'[i] # NoNode /\ cache'[i].ready
                                                  => View[i] # NoNode /\ View[i].ready

\* Reading leaves them as they are.
LEMMA ReadKeepsReady ==
    ASSUME nodes' = nodes, GetNodes \/ cache' = cache
    PROVE  KeepsReady
BY DEF KeepsReady, GetNodes, View

\* So do marks ...
LEMMA MarkKeepsReady ==
    ASSUME ClusterOK, NEW i \in Instances,
           NEW mark \in {"started", "drained", "terminated", "excluded"},
           AnnotateNode(i, mark) \/ AnnotateFails(i, mark) \/ LabelNode(i, mark)
    PROVE  KeepsReady
<1>t. nodes \in NodeList /\ View \in NodeList
  BY ViewType DEF ClusterOK, ClusterTypeOK
<1>1. ASSUME NEW persisted \in BOOLEAN, WriteMark(i, mark, persisted) PROVE KeepsReady
  <2>1. View[i] \in Node /\ Marked(View[i], mark) \in Node
    BY <1>1, <1>t, NodeOperators DEF WriteMark, NodeNotFound, NodeList
  <2>2. Marked(View[i], mark).ready = View[i].ready
    BY <2>1 DEF Marked, Node
  <2>3. cache' = [View EXCEPT ![i] = Marked(View[i], mark)]
    BY <1>1 DEF WriteMark
  <2>4. \A j \in Instances : cache'[j] # NoNode /\ cache'[j].ready => View[j] # NoNode /\ View[j].ready
    BY <1>t, <2>1, <2>2, <2>3, ClusterAssumption DEF NodeList
  <2> DEFINE written == [Marked(View[i], mark) EXCEPT !.ready = nodes[i].ready]
  <2>5. nodes' = nodes \/ nodes' = [nodes EXCEPT ![i] = written]
    BY <1>1 DEF WriteMark
  <2>6. nodes[i] # NoNode => written \in Node /\ written.ready = nodes[i].ready
    <3>1. nodes[i] # NoNode => nodes[i].ready \in BOOLEAN
      BY <1>t DEF NodeList, Node
    <3> QED
      BY <2>1, <3>1 DEF Node
  <2> HIDE DEF written
  <2>7. \A j \in Instances : nodes[j] # NoNode /\ nodes[j].ready => nodes'[j] # NoNode /\ nodes'[j].ready
    BY <1>t, <2>5, <2>6, ClusterAssumption DEF NodeList
  <2> QED
    BY <2>4, <2>7 DEF KeepsReady
<1>2. CASE nodes' = nodes /\ (GetNodes \/ cache' = cache)
  BY <1>2, ReadKeepsReady
<1> QED
  BY <1>1, <1>2 DEF AnnotateNode, AnnotateFails, LabelNode, MarkImpossible, clusterVars

\* ... EDGE-0001 ...
LEMMA CleanUpKeepsReady ==
    ASSUME ClusterOK, NEW stained \in SUBSET Instances, NEW persisted \in SUBSET stained,
           \A i \in stained : View[i] # NoNode,
           CleanUp(stained, persisted)
    PROVE  KeepsReady
<1>t. nodes \in NodeList /\ View \in NodeList
  BY ViewType DEF ClusterOK, ClusterTypeOK
<1>1. ASSUME NEW i \in stained PROVE Cleaned(View[i]) \in Node /\ Cleaned(View[i]).ready = View[i].ready
  <2>1. View[i] \in Node
    BY <1>t DEF NodeList
  <2> QED
    BY <2>1, NodeOperators DEF Cleaned, Node
<1>2. \A j \in Instances : cache'[j] # NoNode /\ cache'[j].ready => View[j] # NoNode /\ View[j].ready
  BY <1>1 DEF CleanUp
<1>3. ASSUME NEW j \in Instances, nodes[j] # NoNode, nodes[j].ready PROVE nodes'[j] # NoNode /\ nodes'[j].ready
  <2> DEFINE written == [Cleaned(View[j]) EXCEPT !.ready = nodes[j].ready]
  <2>1. nodes'[j] = IF j \in persisted THEN written ELSE nodes[j]
    BY DEF CleanUp
  <2>2. nodes[j].ready \in BOOLEAN
    BY <1>t, <1>3 DEF NodeList, Node
  <2>3. j \in persisted => written \in Node /\ written.ready
    BY <1>1, <1>3, <2>2 DEF Node
  <2> HIDE DEF written
  <2> QED
    BY <1>3, <2>1, <2>3, ClusterAssumption
<1> QED
  BY <1>2, <1>3 DEF KeepsReady

\* ... and cordons, evictions and what Kubernetes and operators do.
LEMMA ClusterKeepsReady ==
    ASSUME ClusterOK, NEW i \in Instances,
           \/ Cordon(i) \/ Uncordon(i) \/ NodeJoins(i) \/ NodeBecomesReady(i) \/ CacheExpires
           \/ \E p \in Pods : Evict(p) \/ Schedule(p, i)
    PROVE  KeepsReady
<1>t. nodes \in NodeList
  BY DEF ClusterOK, ClusterTypeOK
<1>c. cache' = cache \/ cache' = NoCache
  BY DEF Cordon, Uncordon, NodeJoins, NodeBecomesReady, CacheExpires, Evict, Schedule
<1>n. ASSUME nodes[i] # NoNode
      PROVE  /\ nodes[i] \in Node
             /\ [nodes[i] EXCEPT !.ready = TRUE] \in Node
             /\ \A b, c \in BOOLEAN : /\ [nodes[i] EXCEPT !.unschedulable = b, !.late = c] \in Node
                                      /\ [nodes[i] EXCEPT !.unschedulable = b, !.late = c].ready = nodes[i].ready
  BY <1>t, <1>n DEF NodeList, Node
<1>1. CASE Cordon(i) \/ Uncordon(i)
  <2>1. nodes[i] # NoNode
    BY <1>1 DEF Cordon, Uncordon, Exists
  <2>2. \/ nodes' = nodes
        \/ nodes' = [nodes EXCEPT ![i] = [nodes[i] EXCEPT !.unschedulable = TRUE, !.late = "started" \in nodes[i].marks]]
        \/ nodes' = [nodes EXCEPT ![i] = [nodes[i] EXCEPT !.unschedulable = FALSE, !.late = FALSE]]
    <3>1. nodes[i] \in Node
      BY <1>n, <2>1
    <3>2. CASE Cordon(i)
      BY <1>t, <3>1, <3>2 DEF Cordon, NodeList, Node
    <3>3. CASE Uncordon(i)
      BY <1>t, <3>1, <3>3 DEF Uncordon, NodeList, Node
    <3> QED
      BY <1>1, <3>2, <3>3
  <2>3. ("started" \in nodes[i].marks) \in BOOLEAN
    OBVIOUS
  <2>4. \E b, c \in BOOLEAN : nodes' = nodes \/ nodes' = [nodes EXCEPT ![i] = [nodes[i] EXCEPT !.unschedulable = b, !.late = c]]
    BY <2>2, <2>3
  <2>5. PICK b \in BOOLEAN, c \in BOOLEAN :
            nodes' = nodes \/ nodes' = [nodes EXCEPT ![i] = [nodes[i] EXCEPT !.unschedulable = b, !.late = c]]
    BY <2>4
  <2> DEFINE n == [nodes[i] EXCEPT !.unschedulable = b, !.late = c]
  <2>6. n \in Node /\ n.ready = nodes[i].ready
    BY <1>n, <2>1
  <2> HIDE DEF n
  <2>7. nodes' = nodes \/ nodes' = [nodes EXCEPT ![i] = n]
    BY <2>5 DEF n
  <2>8. \A j \in Instances : nodes[j] # NoNode /\ nodes[j].ready => nodes'[j] # NoNode /\ nodes'[j].ready
    BY <1>t, <2>6, <2>7, ClusterAssumption DEF NodeList
  <2> QED
    BY <1>c, <2>8 DEF KeepsReady, View
<1>2. CASE NodeJoins(i)
  <2>1. \A j \in Instances : nodes[j] # NoNode => nodes'[j] = nodes[j]
    BY <1>2, <1>t DEF NodeJoins, Exists, NodeList
  <2> QED
    BY <1>c, <2>1 DEF KeepsReady, View
<1>3. CASE NodeBecomesReady(i)
  <2> DEFINE n == [nodes[i] EXCEPT !.ready = TRUE]
  <2>1. nodes' = [nodes EXCEPT ![i] = n]
    BY <1>3, <1>t DEF NodeBecomesReady
  <2>2. n \in Node /\ n.ready
    BY <1>3, <1>t DEF NodeBecomesReady, Exists, NodeList, Node
  <2> HIDE DEF n
  <2>3. \A j \in Instances : nodes[j] # NoNode /\ nodes[j].ready => nodes'[j] # NoNode /\ nodes'[j].ready
    BY <1>t, <2>1, <2>2, ClusterAssumption DEF NodeList
  <2> QED
    BY <1>c, <2>3 DEF KeepsReady, View
<1>4. CASE nodes' = nodes
  BY <1>4, <1>c DEF KeepsReady, View
<1> QED
  BY <1>1, <1>2, <1>3, <1>4 DEF CacheExpires, Evict, Schedule

\* A copy that looks ready is that of an instance that has arrived.
CopiesArrived == cache # NoCache => \A i \in Instances : cache[i] # NoNode /\ cache[i].ready => HasArrived(i)

\* Nothing that is being terminated comes back.
LifecyclesGoOn ==
    \A i \in Instances : lifecycle[i] \in {"Terminating", "gone"} => lifecycle'[i] \in {"Terminating", "gone"}

\* The handler's own steps are of this kind.
LEMMA HandlerKeepsReady ==
    ASSUME WellFormed, NEW e \in Execs, Begin(e) \/ ExecStep(e)
    PROVE  KeepsReady /\ LifecyclesGoOn
<1> DEFINE x == exec[e]
<1>t. x \in Execution /\ HandOK(x) /\ ClusterOK /\ AutoScalingTypeOK
  BY DEF WellFormed, TypeOK, InHand, ClusterOK
<1>a. lifecycle' = lifecycle => LifecyclesGoOn
  BY DEF LifecyclesGoOn
<1>1. ASSUME NEW g \in Groups, AssessGroup(e, g) PROVE KeepsReady /\ LifecyclesGoOn
  <2> DEFINE s == x.snap[g]
             asked == Updated(s) \cap s.serving
  <2>1. PICK unlisted \in Unlisted(asked) :
            IF asked = unlisted
            THEN UNCHANGED clusterVars
            ELSE \E persisted \in SUBSET Stained(Found(asked \ unlisted)) :
                    CleanUp(Stained(Found(asked \ unlisted)), persisted)
    BY <1>1 DEF AssessGroup
  <2> DEFINE found == Found(asked \ unlisted)
  <2>2. asked \subseteq Instances
    BY <1>t DEF Execution, Snapshot, Updated
  <2>3. Stained(found) \in SUBSET Instances /\ \A i \in Stained(found) : View[i] # NoNode
    BY <2>2 DEF Found, Stained
  <2> HIDE DEF found
  <2>4. ASSUME UNCHANGED clusterVars PROVE KeepsReady
    BY <2>4, ReadKeepsReady DEF clusterVars
  <2>5. ASSUME NEW persisted \in SUBSET Stained(found), CleanUp(Stained(found), persisted) PROVE KeepsReady
    BY <2>3, <2>5, <1>t, CleanUpKeepsReady
  <2>6. KeepsReady
    BY <2>1, <2>4, <2>5 DEF found
  <2>7. lifecycle' = lifecycle
    BY <1>1 DEF AssessGroup, OnlyExecAndCluster, awsVars
  <2> QED
    BY <1>a, <2>6, <2>7
<1>2. ASSUME NEW i \in Instances, PickInstance(e, i) PROVE KeepsReady /\ LifecyclesGoOn
  <2>1. nodes' = nodes /\ lifecycle' = lifecycle /\ (GetNodes \/ cache' = cache)
    BY <1>2 DEF PickInstance, OnlyExecAndCluster, awsVars
  <2> QED
    BY <1>a, <2>1, ReadKeepsReady
<1>3. ASSUME NEW p \in Pods, EvictPod(e, p) PROVE KeepsReady /\ LifecyclesGoOn
  <2>1. Evict(p) /\ lifecycle' = lifecycle
    BY <1>3 DEF EvictPod, OnlyExecAndCluster, awsVars
  <2>2. nodes' = nodes /\ cache' = cache
    BY <2>1 DEF Evict
  <2> QED
    BY <1>a, <2>1, <2>2, ReadKeepsReady
<1>4. CASE /\ x.pc \in BusyLabels
           /\ \/ CordonEagerly(e) \/ MarkStarted(e) \/ ExcludeNode(e) \/ StartDrain(e)
              \/ MarkDrained(e) \/ MarkTerminated(e)
  <2>1. x.inst \in Instances
    BY <1>4, <1>t DEF HandOK
  <2>2. \/ Cordon(x.inst)
        \/ UNCHANGED clusterVars
        \/ \E mark \in {"started", "drained", "terminated", "excluded"} :
             AnnotateNode(x.inst, mark) \/ AnnotateFails(x.inst, mark) \/ LabelNode(x.inst, mark)
    BY <1>4 DEF CordonEagerly, MarkStarted, ExcludeNode, StartDrain, MarkDrained, MarkTerminated
  <2>3. KeepsReady
    <3>1. CASE Cordon(x.inst)
      BY <1>t, <2>1, <3>1, ClusterKeepsReady
    <3>2. CASE UNCHANGED clusterVars
      BY <3>2, ReadKeepsReady DEF clusterVars
    <3>3. ASSUME NEW mark \in {"started", "drained", "terminated", "excluded"},
                 AnnotateNode(x.inst, mark) \/ AnnotateFails(x.inst, mark) \/ LabelNode(x.inst, mark)
          PROVE  KeepsReady
      BY <1>t, <2>1, <3>3, MarkKeepsReady
    <3> QED
      BY <2>2, <3>1, <3>2, <3>3
  <2>4. lifecycle' = lifecycle
    BY <1>4 DEF CordonEagerly, MarkStarted, ExcludeNode, StartDrain, MarkDrained, MarkTerminated,
                OnlyExecAndCluster, awsVars
  <2> QED
    BY <1>a, <2>3, <2>4
<1>5. CASE Terminate(e) \/ TerminateUnanswered(e) \/ Grow(e) \/ GrowUnanswered(e)
  <2>1. KeepsReady
    BY <1>5, ReadKeepsReady DEF Terminate, TerminateUnanswered, Grow, GrowUnanswered, OnlyExecAndAws, clusterVars
  <2>2. lifecycle' = lifecycle \/ \E i : lifecycle' = [lifecycle EXCEPT ![i] = "Terminating"]
    BY <1>5 DEF Terminate, TerminateUnanswered, Grow, GrowUnanswered, TerminateEc2Instance, SetDesiredCapacity
  <2>3. LifecyclesGoOn
    BY <1>t, <2>2 DEF LifecyclesGoOn, AutoScalingTypeOK
  <2> QED
    BY <2>1, <2>3
<1>6. CASE UNCHANGED <<awsVars, clusterVars>>
  BY <1>6, <1>a, ReadKeepsReady DEF awsVars, clusterVars
<1>7. CASE \/ Begin(e) \/ Finish(e) \/ LeaveGroup(e) \/ CheckResources(e) \/ CompleteDrain(e) \/ FailDrain(e)
           \/ TerminateAgain(e) \/ FailTerminate(e) \/ DescribeLatest(e) \/ FailGrow(e)
           \/ \E g \in Groups : SkipGroup(e, g)
  <2>1. UNCHANGED <<awsVars, clusterVars>>
    BY <1>7 DEF Begin, Finish, LeaveGroup, CheckResources, CompleteDrain, FailDrain, TerminateAgain,
                    FailTerminate, DescribeLatest, FailGrow, SkipGroup, OnlyExec
  <2> QED
    BY <1>6, <2>1
<1>8. CordonEagerly(e) \/ MarkStarted(e) \/ ExcludeNode(e) \/ StartDrain(e) \/ MarkDrained(e) \/ MarkTerminated(e)
      => x.pc \in BusyLabels
  BY DEF CordonEagerly, MarkStarted, ExcludeNode, StartDrain, MarkDrained, MarkTerminated, At, BusyLabels, Labels
<1> QED
  BY <1>1, <1>2, <1>3, <1>4, <1>5, <1>7, <1>8 DEF ExecStep

\* Whatever happens, what has arrived stays so, and the copies know nothing else.
LEMMA ArrivalsLast ==
    ASSUME WellFormed, CopiesArrived, [Next]_vars
    PROVE  (\A i \in Instances : HasArrived(i) => HasArrived(i)') /\ CopiesArrived'
<1>t. ClusterOK /\ AutoScalingTypeOK
  BY DEF WellFormed, TypeOK, ClusterOK
<1>1. ASSUME KeepsReady, LifecyclesGoOn
      PROVE  (\A i \in Instances : HasArrived(i) => HasArrived(i)') /\ CopiesArrived'
  <2>1. \A i \in Instances : HasArrived(i) => HasArrived(i)'
    BY <1>1 DEF KeepsReady, LifecyclesGoOn, HasArrived, Exists
  <2>2. \A i \in Instances : View[i] # NoNode /\ View[i].ready => HasArrived(i)
    BY DEF CopiesArrived, View, HasArrived, Exists
  <2>3. CopiesArrived'
    BY <1>1, <2>1, <2>2 DEF KeepsReady, CopiesArrived
  <2> QED
    BY <2>1, <2>3
<1>2. lifecycle' = lifecycle => LifecyclesGoOn
  BY DEF LifecyclesGoOn
<1>3. ASSUME NEW e \in Execs, Begin(e) \/ ExecStep(e) PROVE KeepsReady /\ LifecyclesGoOn
  BY <1>3, HandlerKeepsReady
<1>4. CASE TimeOut \/ UNCHANGED vars
  <2>1. UNCHANGED <<awsVars, clusterVars>>
    BY <1>4 DEF TimeOut, vars
  <2>2. nodes' = nodes /\ cache' = cache /\ lifecycle' = lifecycle
    BY <2>1 DEF awsVars, clusterVars
  <2> QED
    BY <2>2, <1>1, <1>2, ReadKeepsReady
<1>5. CASE Crash \/ Expire
  <2>1. nodes' = nodes /\ cache' = NoCache /\ lifecycle' = lifecycle
    BY <1>5 DEF Crash, Expire, CacheExpires, awsVars
  <2>2. KeepsReady
    BY <2>1 DEF KeepsReady
  <2> QED
    BY <2>1, <2>2, <1>1, <1>2
<1>6. CASE Intervene
  <2>1. KeepsReady
    BY <1>6, <1>t, ReadKeepsReady, ClusterKeepsReady DEF Intervene, clusterVars
  <2>2. lifecycle' = lifecycle
    BY <1>6 DEF Intervene, SetDesiredCapacity, Retarget, awsVars
  <2> QED
    BY <1>1, <1>2, <2>1, <2>2
<1>7. ASSUME NEW i \in Instances, AwsStep(i) \/ NodeStep(i) PROVE KeepsReady /\ LifecyclesGoOn
  <2>1. KeepsReady
    BY <1>7, <1>t, ReadKeepsReady, ClusterKeepsReady DEF AwsStep, NodeStep, clusterVars
  <2>2. LifecyclesGoOn
    BY <1>7, <1>t DEF AwsStep, NodeStep, Launch, EnterService, ScaleIn, awsVars, LifecyclesGoOn, AutoScalingTypeOK
  <2> QED
    BY <2>1, <2>2
<1>8. ASSUME NEW i \in Instances, InstanceGone(i)
      PROVE  (\A j \in Instances : HasArrived(j) => HasArrived(j)') /\ CopiesArrived'
  <2>1. \A j \in Instances : HasArrived(j) => HasArrived(j)'
    BY <1>8, <1>t DEF InstanceGone, Vanish, NodeVanishes, HasArrived, Exists,
                      AutoScalingTypeOK, ClusterOK, ClusterTypeOK, NodeList
  <2>2. cache' = cache
    BY <1>8 DEF InstanceGone, NodeVanishes
  <2> QED
    BY <2>1, <2>2 DEF CopiesArrived
<1>9. ASSUME NEW p \in Pods, NEW i \in Instances, Place(p, i) PROVE KeepsReady /\ LifecyclesGoOn
  BY <1>9, <1>2, <1>t, ClusterKeepsReady DEF Place, awsVars
<1> QED
  BY <1>1, <1>3, <1>4, <1>5, <1>6, <1>7, <1>8, <1>9 DEF Next

\* There is one handler at a time: no execution outlasts its timeout, or there is
\* only one, and the next cannot begin before it ends.  Two that run at once may
\* each ask for more.
OneHandler == ~MayTimeOut \/ \A e, f \in Execs : e = f

\* Then no two executions are under way.
Alone ==
    /\ \A e, f \in Execs : exec[e].pc # "idle" /\ exec[f].pc # "idle" => e = f
    /\ ~MayTimeOut => \A e \in Execs : exec[e].pc # "idle" => current = e

\* What a step of an execution leaves alone.
LEMMA HandlerFrame ==
    ASSUME NEW e \in Execs, ExecStep(e)
    PROVE  /\ exec[e].pc # "idle" /\ meddled' = meddled
           /\ exec' = exec \/ \E y : Become(e, y)
           /\ current' = current \/ Finish(e)
           /\ UNCHANGED <<version, target>>
<1> USE DEF At, OnlyExec, OnlyExecAndCluster, OnlyExecAndAws, Goto, Continue, Break
<1>1. CASE Finish(e) \/ \E g \in Groups : SkipGroup(e, g)
  BY <1>1 DEF Finish, SkipGroup, awsVars
<1>2. CASE \E g \in Groups : AssessGroup(e, g)
  <2>1. PICK g \in Groups : AssessGroup(e, g)
    BY <1>2
  <2>2. (\E y : Become(e, y)) /\ UNCHANGED <<awsVars, current, meddled>> /\ exec[e].pc = "group"
    BY <2>1 DEF AssessGroup
  <2> QED
    BY <2>2 DEF awsVars
<1>3. CASE \E i \in Instances : PickInstance(e, i)
  BY <1>3 DEF PickInstance, awsVars
<1>4. CASE \E p \in Pods : EvictPod(e, p)
  BY <1>4 DEF EvictPod, awsVars
<1>5. CASE LeaveGroup(e) \/ CordonEagerly(e) \/ MarkStarted(e) \/ ExcludeNode(e) \/ StartDrain(e)
           \/ CompleteDrain(e) \/ FailDrain(e)
  BY <1>5 DEF LeaveGroup, CordonEagerly, MarkStarted, ExcludeNode, StartDrain, CompleteDrain, FailDrain, awsVars
<1>6. CASE MarkDrained(e) \/ TerminateAgain(e) \/ FailTerminate(e) \/ MarkTerminated(e) \/ FailGrow(e)
  BY <1>6 DEF MarkDrained, TerminateAgain, FailTerminate, MarkTerminated, FailGrow, awsVars
<1>7. CASE CheckResources(e)
  BY <1>7 DEF CheckResources, awsVars
<1>8. CASE DescribeLatest(e)
  BY <1>8 DEF DescribeLatest, awsVars
<1>9. CASE Terminate(e) \/ TerminateUnanswered(e)
  BY <1>9 DEF Terminate, TerminateUnanswered, TerminateEc2Instance
<1>10. CASE Grow(e) \/ GrowUnanswered(e)
  BY <1>10 DEF Grow, GrowUnanswered, SetDesiredCapacity
<1> QED
  BY <1>1, <1>2, <1>3, <1>4, <1>5, <1>6, <1>7, <1>8, <1>9, <1>10 DEF ExecStep

\* Every step keeps it that way.
LEMMA StepAlone ==
    ASSUME OneHandler, WellFormed, Alone, [Next]_vars
    PROVE  Alone'
<1>t. exec \in [Execs -> Execution] /\ NoExec \notin Execs
  BY RollingUpgradeAssumption DEF WellFormed, TypeOK
<1>1. ASSUME NEW e \in Execs, Begin(e) PROVE Alone'
  <2>1. current = NoExec /\ exec[e].pc = "idle" /\ current' = e
    BY <1>1 DEF Begin, At
  <2>2. \A f \in Execs : f # e => exec'[f] = exec[f]
    BY <1>1, <1>t DEF Begin, Become
  <2>3. \A f \in Execs : f # e => exec[f].pc = "idle"
    BY <1>t, <2>1 DEF Alone, OneHandler
  <2> QED
    BY <2>1, <2>2, <2>3 DEF Alone
<1>2. ASSUME NEW e \in Execs, ExecStep(e) PROVE Alone'
  <2>1. /\ exec[e].pc # "idle"
        /\ \A f \in Execs : f # e => exec'[f] = exec[f]
        /\ current' = current \/ Finish(e)
    BY <1>2, <1>t, HandlerFrame DEF Become
  <2>2. \A f \in Execs : f # e => exec[f].pc = "idle"
    BY <2>1 DEF Alone
  <2>3. Finish(e) => exec'[e].pc = "idle"
    BY <1>t DEF Finish, Become, Idle
  <2> QED
    BY <2>1, <2>2, <2>3 DEF Alone
<1>3. CASE TimeOut
  BY <1>3 DEF TimeOut, Alone
<1>4. CASE Crash
  BY <1>4 DEF Crash, Alone, Idle
<1>5. CASE UNCHANGED <<exec, current>>
  BY <1>5 DEF Alone
<1> QED
  BY <1>1, <1>2, <1>3, <1>4, <1>5 DEF Next, Intervene, Expire, AwsStep, InstanceGone, NodeStep, Place,
                                     HandlerUnchanged, vars

\* As long as nobody retargets groups, what is outdated was so from the start,
\* and has arrived.
OldHaveArrived ==
    /\ \A g \in Groups : target[g] = FirstTarget
    /\ \A i \in Instances : version[i] = FirstTarget \/ (HasArrived(i) /\ i \in OutdatedFromStart(GroupOf[i]))

\* Every step keeps that.
LEMMA StepOld ==
    ASSUME "retarget" \notin Interventions, WellFormed, OldHaveArrived, [Next]_vars,
           \A i \in Instances : HasArrived(i) => HasArrived(i)'
    PROVE  OldHaveArrived'
<1>t. version \in [Instances -> Versions] /\ target \in [Groups -> Versions] /\ GroupOf \in [Instances -> Groups]
  BY AutoScalingAssumption DEF WellFormed, TypeOK, AutoScalingTypeOK
<1>1. CASE UNCHANGED <<version, target>>
  BY <1>1 DEF OldHaveArrived
<1>2. ASSUME NEW i \in Instances, Launch(i) PROVE OldHaveArrived'
  BY <1>2, <1>t DEF Launch, OldHaveArrived
<1>3. ASSUME NEW e \in Execs, Begin(e) \/ ExecStep(e) PROVE OldHaveArrived'
  BY <1>1, <1>3, HandlerFrame DEF Begin, awsVars
<1>4. CASE Intervene
  BY <1>1, <1>4 DEF Intervene, SetDesiredCapacity, awsVars
<1>5. ASSUME NEW i \in Instances, EnterService(i) \/ ScaleIn(i) \/ InstanceGone(i) PROVE OldHaveArrived'
  BY <1>1, <1>5 DEF EnterService, ScaleIn, InstanceGone, Vanish
<1>6. CASE UNCHANGED awsVars
  BY <1>1, <1>6 DEF awsVars
<1> QED
  BY <1>2, <1>3, <1>4, <1>5, <1>6 DEF Next, TimeOut, Crash, Expire, AwsStep, NodeStep, Place, vars

\* An execution is within a group from its assessment until it leaves it, and may
\* then ask for so many more instances: for one, or if answers may be lost, for
\* one on behalf of each outdated instance it has in hand or before it.
Within(x) == x.pc \in BusyLabels \cup {"pick"}
Left(x) ==
    IF "Answers" \in Fallible THEN Cardinality(x.todo) + (IF x.pc = "pick" THEN 0 ELSE 1) ELSE 1

\* The bound of NoRunawayGrowth.
Most == [g \in Groups |-> Cardinality(Arrived(g)) + Tolerance(g) + Requests(g) + meddled]

\* What an execution knows about sizes: a group that it has yet to assess was not
\* made to grow since it was described, but by others; the one it is in is small
\* enough for all it may still ask for.
Sized(x, size, most, n) ==
    /\ x.pc # "idle" => \A g \in x.queue : x.snap[g].target = FirstTarget /\ size[g] =< x.snap[g].desired + n
    /\ Within(x) => size[x.group] + Left(x) =< most[x.group]
    /\ x.pc = "grow" => x.latest + Left(x) =< most[x.group] + 1

AllSized == \A e \in Execs : Sized(exec[e], desired, Most, meddled)

\* An execution that asks for nothing, and may not ask for more than before.
AsksNoMore(x, y) ==
    /\ y.pc # "idle" => /\ x.pc # "idle" /\ y.queue \subseteq x.queue
                        /\ \A g \in y.queue : y.snap[g] = x.snap[g]
    /\ Within(y) => Within(x) /\ y.group = x.group /\ Left(y) =< Left(x)
    /\ y.pc = "grow" => x.pc = "grow" /\ y.latest = x.latest

\* What may be asked for is a number, and not 0 with an instance in hand.
LEMMA LeftType ==
    ASSUME NEW x \in Execution
    PROVE  /\ Left(x) \in Nat /\ Cardinality(x.todo) \in Nat
           /\ x.pc # "pick" => Left(x) >= 1
<1>1. IsFiniteSet(x.todo)
  BY FS_Subset, AutoScalingAssumption DEF Execution
<1>2. Cardinality(x.todo) \in Nat
  BY <1>1, FS_CardinalityType
<1> QED
  BY <1>2 DEF Left

\* Sizes rise by no more than others count, and their bounds with them.
Follow(size, newSize, most, newMost, n, m) ==
    \A g \in Groups : /\ newSize[g] + n =< size[g] + m
                      /\ newSize[g] + most[g] =< size[g] + newMost[g]
                      /\ most[g] =< newMost[g]

\* Such an execution keeps what it knows while groups shrink, instances arrive,
\* and others count what they add.
LEMMA AsksNoMoreSized ==
    ASSUME NEW x \in Execution, NEW y \in Execution, HandOK(x), AsksNoMore(x, y),
           NEW size \in [Groups -> Nat], NEW newSize \in [Groups -> Nat],
           NEW most \in [Groups -> Nat], NEW newMost \in [Groups -> Nat],
           NEW n \in Nat, NEW m \in Nat,
           Sized(x, size, most, n),
           Follow(size, newSize, most, newMost, n, m)
    PROVE  Sized(y, newSize, newMost, m)
<1>1. Left(x) \in Nat /\ Left(y) \in Nat
  BY LeftType
<1>2. ASSUME y.pc # "idle", NEW g \in y.queue
      PROVE  y.snap[g].target = FirstTarget /\ newSize[g] =< y.snap[g].desired + m
  <2>1. x.pc # "idle" /\ g \in x.queue /\ y.snap[g] = x.snap[g] /\ g \in Groups
    BY <1>2 DEF AsksNoMore, Execution
  <2>2. x.snap[g].target = FirstTarget /\ size[g] =< x.snap[g].desired + n
    BY <2>1 DEF Sized
  <2>3. x.snap[g].desired \in Nat
    BY <2>1 DEF Execution, Snapshot
  <2>4. newSize[g] + n =< size[g] + m /\ size[g] \in Nat /\ newSize[g] \in Nat
    BY <2>1 DEF Follow
  <2>5. \A a, b, c, k, l \in Nat : a + k =< b + l /\ b =< c + k => a =< c + l
    OBVIOUS
  <2>6. newSize[g] =< x.snap[g].desired + m
    BY <2>2, <2>3, <2>4, <2>5
  <2> QED
    BY <2>1, <2>2, <2>6
<1>3. ASSUME Within(y) PROVE newSize[y.group] + Left(y) =< newMost[y.group]
  <2> DEFINE g == x.group
  <2>1. Within(x) /\ y.group = g /\ Left(y) =< Left(x) /\ g \in Groups
    BY <1>3 DEF AsksNoMore, HandOK, Within
  <2>2. size[g] + Left(x) =< most[g]
    BY <2>1 DEF Sized
  <2>3. /\ newSize[g] + most[g] =< size[g] + newMost[g]
        /\ size[g] \in Nat /\ newSize[g] \in Nat /\ most[g] \in Nat /\ newMost[g] \in Nat
    BY <2>1 DEF Follow
  <2>4. \A a, b, c, d, k, l \in Nat : a + c =< b + d /\ b + k =< c /\ l =< k => a + l =< d
    OBVIOUS
  <2>5. newSize[g] + Left(y) =< newMost[g]
    BY <1>1, <2>1, <2>2, <2>3, <2>4
  <2> QED
    BY <2>1, <2>5
<1>4. ASSUME y.pc = "grow" PROVE y.latest + Left(y) =< newMost[y.group] + 1
  <2> DEFINE g == x.group
  <2>1. x.pc = "grow" /\ y.latest = x.latest /\ Within(x) /\ Within(y)
    BY <1>4 DEF AsksNoMore, Within, BusyLabels, Labels
  <2>2. y.group = g /\ Left(y) =< Left(x) /\ g \in Groups
    BY <2>1 DEF AsksNoMore, HandOK, Within
  <2>3. x.latest + Left(x) =< most[g] + 1
    BY <2>1 DEF Sized
  <2>4. most[g] =< newMost[g] /\ most[g] \in Nat /\ newMost[g] \in Nat /\ x.latest \in Nat
    BY <2>2 DEF Execution, Follow
  <2>5. \A a, b, c, k, l \in Nat : a + k =< b + 1 /\ b =< c /\ l =< k => a + l =< c + 1
    OBVIOUS
  <2>6. x.latest + Left(y) =< newMost[g] + 1
    BY <1>1, <2>2, <2>3, <2>4, <2>5
  <2> QED
    BY <2>1, <2>2, <2>6
<1> QED
  BY <1>2, <1>3, <1>4 DEF Sized

\* What the bound is made of.
LEMMA MostType ==
    ASSUME WellFormed
    PROVE  /\ Most \in [Groups -> Nat]
           /\ \A g \in Groups : /\ IsFiniteSet(Arrived(g)) /\ Cardinality(Arrived(g)) \in Nat
                                /\ Tolerance(g) \in Nat /\ Requests(g) \in Nat \ {0}
                                /\ Most[g] = Cardinality(Arrived(g)) + Tolerance(g) + Requests(g) + meddled
<1>m. meddled \in Nat
  BY RollingUpgradeAssumption DEF WellFormed, TypeOK
<1>1. ASSUME NEW g \in Groups
      PROVE  /\ IsFiniteSet(Arrived(g)) /\ Cardinality(Arrived(g)) \in Nat
             /\ Tolerance(g) \in Nat /\ Requests(g) \in Nat \ {0}
  <2>1. IsFiniteSet(Arrived(g))
    <3>1. Arrived(g) \subseteq Instances
      BY DEF Arrived
    <3> QED
      BY <3>1, FS_Subset, AutoScalingAssumption
  <2>2. IsFiniteSet(OutdatedFromStart(g))
    <3>1. OutdatedFromStart(g) \subseteq Instances
      BY AutoScalingAssumption DEF OutdatedFromStart
    <3> QED
      BY <3>1, FS_Subset, AutoScalingAssumption
  <2>3. Cardinality(Arrived(g)) \in Nat /\ Cardinality(OutdatedFromStart(g)) \in Nat
    BY <2>1, <2>2, FS_CardinalityType
  <2>4. OutdatedFromStart(g) # {} => Cardinality(OutdatedFromStart(g)) # 0
    BY <2>2, FS_EmptySet
  <2> QED
    BY <2>1, <2>3, <2>4 DEF Tolerance, Requests
<1>2. \A g \in Groups : Most[g] = Cardinality(Arrived(g)) + Tolerance(g) + Requests(g) + meddled
  BY DEF Most
<1>3. \A g \in Groups : Cardinality(Arrived(g)) + Tolerance(g) + Requests(g) + meddled \in Nat
  BY <1>1, <1>m
<1> QED
  BY <1>1, <1>2, <1>3 DEF Most

\* It never falls, and rises with what others do.
LEMMA MostRises ==
    ASSUME WellFormed, WellFormed', \A i \in Instances : HasArrived(i) => HasArrived(i)'
    PROVE  \A g \in Groups : Most[g] + meddled' =< Most'[g] + meddled
<1> SUFFICES ASSUME NEW g \in Groups PROVE Most[g] + meddled' =< Most'[g] + meddled
  OBVIOUS
<1>m. meddled \in Nat /\ meddled' \in Nat
  BY RollingUpgradeAssumption DEF WellFormed, TypeOK
<1>1. Arrived(g) \subseteq Arrived(g)'
  BY DEF Arrived
<1>2. IsFiniteSet(Arrived(g)')
  <2>1. Arrived(g)' \subseteq Instances
    BY DEF Arrived
  <2> QED
    BY <2>1, FS_Subset, AutoScalingAssumption
<1>3. Cardinality(Arrived(g)) =< Cardinality(Arrived(g)') /\ Cardinality(Arrived(g)') \in Nat
  BY <1>1, <1>2, FS_Subset, FS_CardinalityType
<1>4. Cardinality(Arrived(g)) \in Nat /\ Tolerance(g) \in Nat /\ Requests(g) \in Nat
      /\ Most[g] = Cardinality(Arrived(g)) + Tolerance(g) + Requests(g) + meddled
  BY MostType
<1>5. Tolerance(g) =< Tolerance(g)' /\ Tolerance(g)' \in Nat
  BY <1>3, <1>4 DEF Tolerance
<1>6. Requests(g)' = Requests(g)
  BY DEF Requests, OutdatedFromStart
<1>7. Most'[g] = Cardinality(Arrived(g)') + Tolerance(g)' + Requests(g) + meddled'
  BY <1>6 DEF Most
<1>8. \A a, b, t, u, r, k, l \in Nat : a =< b /\ t =< u => (a + t + r + k) + l =< (b + u + r + l) + k
  OBVIOUS
<1> QED
  BY <1>m, <1>3, <1>4, <1>5, <1>7, <1>8

\* `continue', with a deed recorded or not, uses up what the instance in hand could
\* ask for.
LEMMA ContinuedLogAsks ==
    ASSUME NEW x \in Execution, Within(x), NEW y \in Execution,
           y.snap = x.snap, y.queue = x.queue, y.group = x.group, y.todo = x.todo
    PROVE  /\ AsksNoMore(x, Continued(y))
           /\ "Answers" \in Fallible /\ x.pc # "pick" => Left(Continued(y)) + 1 = Left(x)
<1>1. /\ Continued(y).snap = x.snap /\ Continued(y).queue = x.queue /\ Continued(y).group = x.group
      /\ Continued(y).todo = x.todo /\ Continued(y).pc = "pick"
  BY DEF Continued, Execution
<1>2. x.pc # "idle"
  BY DEF Within, BusyLabels
<1>3. Cardinality(x.todo) \in Nat
  BY LeftType
<1>4. Left(Continued(y)) =< Left(x)
  BY <1>1, <1>3 DEF Left
<1>5. "Answers" \in Fallible /\ x.pc # "pick" => Left(Continued(y)) + 1 = Left(x)
  BY <1>1, <1>3 DEF Left
<1> QED
  BY <1>1, <1>2, <1>4, <1>5 DEF AsksNoMore

LEMMA ContinuedAsks ==
    ASSUME NEW x \in Execution, Within(x)
    PROVE  AsksNoMore(x, Continued(x))
BY ContinuedLogAsks

\* Between two groups an execution asks for nothing.
LEMMA LeavingAsks ==
    ASSUME NEW x \in Execution, NEW y \in Execution, x.pc # "idle", y.pc = "group",
           y.queue \subseteq x.queue, y.snap = x.snap
    PROVE  AsksNoMore(x, y)
BY DEF AsksNoMore, Within, BusyLabels

\* Neither does it on its way with one instance.
LEMMA GoingOnAsks ==
    ASSUME NEW x \in Execution, NEW y \in Execution, x.pc \in BusyLabels,
           y.pc \in BusyLabels, y.pc # "grow",
           y.queue = x.queue, y.snap = x.snap, y.group = x.group, y.todo = x.todo
    PROVE  AsksNoMore(x, y)
<1>1. x.pc # "idle" /\ x.pc # "pick" /\ y.pc # "pick" /\ Within(x)
  BY DEF Within, BusyLabels
<1>2. Left(y) = Left(x) /\ Left(x) \in Nat
  BY <1>1, LeftType DEF Left
<1> QED
  BY <1>1, <1>2 DEF AsksNoMore

\* None of the steps but the ones of the assessment and of the two calls that
\* grow a group asks for more.
LEMMA PlainSteps ==
    ASSUME WellFormed, NEW e \in Execs,
           \/ Finish(e) \/ LeaveGroup(e) \/ CordonEagerly(e) \/ MarkStarted(e)
           \/ CheckResources(e) \/ ExcludeNode(e) \/ StartDrain(e) \/ CompleteDrain(e) \/ FailDrain(e)
           \/ MarkDrained(e) \/ Terminate(e) \/ TerminateAgain(e) \/ FailTerminate(e) \/ MarkTerminated(e)
           \/ TerminateUnanswered(e) \/ FailGrow(e)
           \/ \E g \in Groups : SkipGroup(e, g)
           \/ \E i \in Instances : PickInstance(e, i)
           \/ \E p \in Pods : EvictPod(e, p)
    PROVE  AsksNoMore(exec[e], exec'[e])
<1> DEFINE x == exec[e]
<1>t. x \in Execution /\ HandOK(x) /\ exec \in [Execs -> Execution]
  BY DEF WellFormed, TypeOK, InHand
<1>b. BusyLabels = Labels \ {"idle", "group", "pick"}
  BY DEF BusyLabels
<1>e. ASSUME NEW y, Become(e, y) PROVE exec'[e] = y
  BY <1>t, <1>e DEF Become
<1>c. ASSUME Continue(e), x.pc \in BusyLabels PROVE AsksNoMore(x, exec'[e])
  BY <1>c, <1>t, <1>e, ContinuedAsks DEF Continue, Within
<1>g. ASSUME NEW label \in BusyLabels, label # "grow", Goto(e, label), x.pc \in BusyLabels
      PROVE  AsksNoMore(x, exec'[e])
  <2> DEFINE y == [x EXCEPT !.pc = label]
  <2>1. /\ y \in Execution /\ y.snap = x.snap /\ y.queue = x.queue /\ y.group = x.group /\ y.todo = x.todo
        /\ y.pc = label
    BY <1>t, <1>b, <1>g DEF Execution
  <2>2. exec'[e] = y
    BY <1>g, <1>e DEF Goto
  <2> HIDE DEF y
  <2> QED
    BY <1>t, <1>g, <2>1, <2>2, GoingOnAsks
<1>n. ASSUME Become(e, TerminateNext(x)), x.pc \in BusyLabels PROVE AsksNoMore(x, exec'[e])
  <2> DEFINE y == [x EXCEPT !.pc = "terminate", !.victims = {}]
  <2>1. /\ y \in Execution /\ y.snap = x.snap /\ y.queue = x.queue /\ y.group = x.group /\ y.todo = x.todo
        /\ y.pc = "terminate"
    BY <1>t DEF Execution, Labels
  <2> HIDE DEF y
  <2>2. AsksNoMore(x, y)
    BY <1>t, <1>b, <1>n, <2>1, GoingOnAsks DEF Labels
  <2>3. AsksNoMore(x, Continued(x))
    BY <1>t, <1>n, ContinuedAsks DEF Within
  <2>4. exec'[e] \in {y, Continued(x)}
    BY <1>n, <1>e DEF TerminateNext, y
  <2> QED
    BY <2>2, <2>3, <2>4
<1>1. CASE Finish(e)
  <2>1. exec'[e] = Idle
    BY <1>1, <1>e DEF Finish
  <2> QED
    BY <2>1 DEF AsksNoMore, Idle, Within, BusyLabels
<1>2. CASE LeaveGroup(e)
  <2>1. x.pc = "pick" /\ exec'[e] = Broken(x)
    BY <1>2, <1>e DEF LeaveGroup, Break, At
  <2>2. Broken(x) \in Execution /\ Broken(x).pc = "group" /\ Broken(x).queue = x.queue /\ Broken(x).snap = x.snap
    BY <1>t DEF Broken, Continued, Execution, Labels
  <2> QED
    BY <1>t, <2>1, <2>2, LeavingAsks
<1>3. ASSUME NEW g \in Groups, SkipGroup(e, g) PROVE AsksNoMore(x, exec'[e])
  <2> DEFINE y == [x EXCEPT !.queue = @ \ {g}]
  <2>1. exec'[e] = y /\ x.pc = "group"
    BY <1>3, <1>e DEF SkipGroup, At
  <2>2. y \in Execution /\ y.pc = x.pc /\ y.queue \subseteq x.queue /\ y.snap = x.snap
    BY <1>t DEF Execution
  <2> QED
    BY <1>t, <2>1, <2>2, LeavingAsks
<1>4. ASSUME NEW i \in Instances, PickInstance(e, i) PROVE AsksNoMore(x, exec'[e])
  <2> DEFINE z == [x EXCEPT !.todo = @ \ {i}]
  <2>1. x.pc = "pick" /\ i \in x.todo
    BY <1>4 DEF PickInstance, At
  <2>2. /\ z \in Execution /\ z.snap = x.snap /\ z.queue = x.queue /\ z.group = x.group
        /\ z.todo = x.todo \ {i} /\ z.pc = "pick"
    BY <1>t, <2>1 DEF Execution
  <2>3. Cardinality(x.todo \ {i}) = Cardinality(x.todo) - 1 /\ Cardinality(x.todo) \in Nat
    <3>1. IsFiniteSet(x.todo)
      BY <1>t, FS_Subset, AutoScalingAssumption DEF Execution
    <3> QED
      BY <2>1, <3>1, FS_RemoveElement, FS_CardinalityType
  <2>4. \E y : /\ Become(e, y) /\ y.snap = x.snap /\ y.queue = x.queue /\ y.group = x.group
               /\ y.todo = x.todo \ {i} /\ y.pc \in {"pick", "cordon", "start", "check"}
    <3>1. CASE Become(e, Continued(z))
      <4>1. /\ Continued(z).snap = x.snap /\ Continued(z).queue = x.queue /\ Continued(z).group = x.group
            /\ Continued(z).todo = x.todo \ {i} /\ Continued(z).pc = "pick"
        BY <2>2 DEF Continued, Execution
      <4> QED
        BY <3>1, <4>1
    <3>2. ASSUME NEW seen, NEW label \in {"cordon", "start", "check"},
                 Become(e, [z EXCEPT !.inst = i, !.seen = seen, !.pc = label])
          PROVE  \E y : /\ Become(e, y) /\ y.snap = x.snap /\ y.queue = x.queue /\ y.group = x.group
                        /\ y.todo = x.todo \ {i} /\ y.pc \in {"pick", "cordon", "start", "check"}
      <4> DEFINE y == [z EXCEPT !.inst = i, !.seen = seen, !.pc = label]
      <4>1. /\ y.snap = x.snap /\ y.queue = x.queue /\ y.group = x.group
            /\ y.todo = x.todo \ {i} /\ y.pc = label
        BY <2>2 DEF Execution
      <4> QED
        BY <3>2, <4>1
    <3>3. CASE ~Become(e, Continued(z))
      <4>1. Become(e, [z EXCEPT !.inst = i, !.seen = RollingUpdateTimestamps(i),
                                !.pc = IF EagerCordoning /\ ~View[i].unschedulable
                                       THEN "cordon" ELSE AfterReading(RollingUpdateTimestamps(i))])
        BY <1>4, <3>3 DEF PickInstance
      <4>2. (IF EagerCordoning /\ ~View[i].unschedulable
             THEN "cordon" ELSE AfterReading(RollingUpdateTimestamps(i))) \in {"cordon", "start", "check"}
        BY DEF AfterReading
      <4> QED
        BY <3>2, <4>1, <4>2
    <3> QED
      BY <3>1, <3>3
  <2>5. PICK y : /\ Become(e, y) /\ y.snap = x.snap /\ y.queue = x.queue /\ y.group = x.group
                 /\ y.todo = x.todo \ {i} /\ y.pc \in {"pick", "cordon", "start", "check"}
    BY <2>4
  <2>6. exec'[e] = y
    BY <2>5, <1>e
  <2>7. Left(y) =< Left(x) /\ Within(x)
    BY <2>1, <2>3, <2>5 DEF Left, Within
  <2> QED
    BY <2>1, <2>5, <2>6, <2>7 DEF AsksNoMore
<1>5. ASSUME NEW p \in Pods, EvictPod(e, p) PROVE AsksNoMore(x, exec'[e])
  <2>1. exec'[e] = x
    BY <1>5 DEF EvictPod
  <2>2. Left(x) \in Nat
    BY <1>t, LeftType
  <2> QED
    BY <2>1, <2>2 DEF AsksNoMore
<1>6. CASE CordonEagerly(e)
  <2>1. x.pc = "cordon" /\ (Continue(e) \/ \E label \in {"start", "check"} : Goto(e, label))
    BY <1>6 DEF CordonEagerly, At, AfterReading
  <2> QED
    BY <2>1, <1>c, <1>g, <1>b DEF Labels
<1>7. CASE MarkStarted(e) \/ FailDrain(e) \/ FailTerminate(e) \/ FailGrow(e)
  <2>1. Continue(e) /\ x.pc \in {"start", "drain", "evict", "terminate", "grow"}
    BY <1>7 DEF MarkStarted, FailDrain, FailTerminate, FailGrow, At
  <2> QED
    BY <2>1, <1>c, <1>b DEF Labels
<1>13. CASE TerminateUnanswered(e)
  <2> DEFINE y == Log(x, "retireUnanswered")
  <2>1. x.pc = "terminate" /\ exec'[e] = Continued(y)
    BY <1>13, <1>e DEF TerminateUnanswered, At
  <2>2. x.pc \in BusyLabels /\ x.inst \in Instances
    BY <1>t, <1>b, <2>1 DEF HandOK, Labels
  <2>3. /\ y \in Execution /\ y.group = x.group /\ y.pc = x.pc /\ y.todo = x.todo
        /\ y.queue = x.queue /\ y.snap = x.snap
    BY <1>t, <2>2, LogType DEF Deeds, Unanswered
  <2> HIDE DEF y
  <2> QED
    BY <1>t, <2>1, <2>2, <2>3, ContinuedLogAsks DEF Within
<1>8. CASE CheckResources(e)
  <2>1. /\ x.pc = "check"
        /\ \/ Continue(e)
           \/ Become(e, TerminateNext(x))
           \/ \E label \in {"label", "drain", "describe"} : Goto(e, label)
    BY <1>8 DEF CheckResources, At
  <2> QED
    BY <2>1, <1>c, <1>g, <1>n, <1>b DEF Labels
<1>9. CASE ExcludeNode(e) \/ TerminateAgain(e)
  <2>1. /\ x.pc \in {"label", "terminate"}
        /\ \E label \in {"drain", "markTerminated"} : Goto(e, label)
    BY <1>9 DEF ExcludeNode, TerminateAgain, At
  <2> QED
    BY <2>1, <1>g, <1>b DEF Labels
<1>10. CASE StartDrain(e) \/ CompleteDrain(e) \/ Terminate(e)
  <2>1. /\ x.pc \in {"drain", "evict", "terminate"}
        /\ \/ exec'[e] = [x EXCEPT !.pc = "evict", !.victims = PodsOn(x.inst)]
           \/ exec'[e] = [Log(x, "drain") EXCEPT !.pc = "markDrained"]
           \/ exec'[e] = [Log(x, "retire") EXCEPT !.pc = "markTerminated"]
    BY <1>10, <1>e DEF StartDrain, CompleteDrain, Terminate, At
  <2>2. /\ exec'[e].snap = x.snap /\ exec'[e].queue = x.queue /\ exec'[e].group = x.group /\ exec'[e].todo = x.todo
        /\ exec'[e].pc \in {"evict", "markDrained", "markTerminated"}
    BY <1>t, <2>1 DEF Execution, Log
  <2>3. exec'[e] \in Execution
    BY <1>10, InstanceWellFormed DEF WellFormed, TypeOK
  <2> QED
    BY <1>t, <1>b, <2>1, <2>2, <2>3, GoingOnAsks DEF Labels
<1>11. CASE MarkDrained(e)
  <2>1. x.pc = "markDrained" /\ Become(e, TerminateNext(x))
    BY <1>11 DEF MarkDrained, At
  <2> QED
    BY <2>1, <1>n, <1>b DEF Labels
<1>12. CASE MarkTerminated(e)
  <2>1. x.pc = "markTerminated" /\ exec'[e] = [Broken(x) EXCEPT !.queue = IF SlowMode THEN {} ELSE @]
    BY <1>12, <1>e DEF MarkTerminated, At
  <2>2. exec'[e].pc = "group" /\ exec'[e].queue \subseteq x.queue /\ exec'[e].snap = x.snap
    BY <1>t, <2>1 DEF Broken, Continued, Execution
  <2>3. exec'[e] \in Execution
    BY <1>12, InstanceWellFormed DEF WellFormed, TypeOK
  <2> QED
    BY <1>t, <2>1, <2>2, <2>3, LeavingAsks
<1> QED
  BY <1>1, <1>2, <1>3, <1>4, <1>5, <1>6, <1>7, <1>8, <1>9, <1>10, <1>11, <1>12, <1>13

\* The assessment lets a group through only when the instances it waits for are
\* tolerated: it wants no more than have arrived and these.
LEMMA AssessmentCounts ==
    ASSUME WellFormed, OldHaveArrived, CopiesArrived, NEW g \in Groups,
           NEW s \in Snapshot, s.target = FirstTarget, \A i \in s.members : GroupOf[i] = g,
           NEW ready \in SUBSET Updated(s), \A i \in ready : View[i] # NoNode /\ View[i].ready,
           MayProceed(s, ready)
    PROVE  /\ s.desired =< Cardinality(Arrived(g)) + Tolerance(g)
           /\ OutdatedFromStart(g) # {} /\ Cardinality(Outdated(s)) =< Cardinality(OutdatedFromStart(g))
<1>1. s.members \subseteq Instances /\ s.desired \in Nat
  BY DEF Snapshot
<1>2. \A S \in SUBSET Instances : IsFiniteSet(S) /\ Cardinality(S) \in Nat
  BY FS_Subset, FS_CardinalityType, AutoScalingAssumption
<1> DEFINE lagging == Updated(s) \ ready
<1>3. ready \subseteq Arrived(g)
  <2>1. \A i \in Instances : View[i] # NoNode /\ View[i].ready => HasArrived(i)
    BY DEF CopiesArrived, View, HasArrived, Exists
  <2> QED
    BY <1>1, <2>1 DEF Updated, Arrived
<1>4. Outdated(s) \subseteq Arrived(g) \cap OutdatedFromStart(g)
  BY <1>1 DEF Outdated, OldHaveArrived, Arrived
<1>5. s.members \subseteq Arrived(g) \cup lagging
  BY <1>3, <1>4 DEF Outdated, Updated
<1>6. /\ Arrived(g) \in SUBSET Instances /\ lagging \in SUBSET Instances
      /\ ready \in SUBSET Instances /\ OutdatedFromStart(g) \in SUBSET Instances
  BY <1>1, AutoScalingAssumption DEF Arrived, Updated, OutdatedFromStart
<1> HIDE DEF lagging
<1>7. Cardinality(s.members) =< Cardinality(Arrived(g)) + Cardinality(lagging)
  <2>1. Arrived(g) \cup lagging \in SUBSET Instances
    BY <1>6
  <2>2. Cardinality(s.members) =< Cardinality(Arrived(g) \cup lagging)
    BY <1>2, <1>5, <2>1, FS_Subset
  <2>3. Cardinality(Arrived(g) \cup lagging)
          = Cardinality(Arrived(g)) + Cardinality(lagging) - Cardinality(Arrived(g) \cap lagging)
    BY <1>2, <1>6, FS_Union
  <2>4. Cardinality(Arrived(g) \cap lagging) \in Nat
    BY <1>2, <1>6
  <2>5. /\ Cardinality(Arrived(g)) \in Nat /\ Cardinality(lagging) \in Nat
        /\ Cardinality(s.members) \in Nat /\ Cardinality(Arrived(g) \cup lagging) \in Nat
    BY <1>1, <1>2, <1>6, <2>1
  <2>6. \A m, u, a, l, c \in Nat : m =< u /\ u = a + l - c => m =< a + l
    OBVIOUS
  <2> QED
    BY <2>2, <2>3, <2>4, <2>5, <2>6
<1>8. Cardinality(ready) =< Cardinality(Arrived(g))
  BY <1>2, <1>3, <1>6, FS_Subset
<1>9. Cardinality(lagging) =< Tolerance(g)
  <2>1. HasAcceptable(Cardinality(lagging), Cardinality(ready))
    BY DEF MayProceed, lagging
  <2>2. /\ Cardinality(lagging) \in Nat /\ Cardinality(ready) \in Nat /\ Cardinality(Arrived(g)) \in Nat
    BY <1>2, <1>6
  <2>3. \A l, r, a \in Nat : r =< a /\ (l = 0 \/ (r > 0 /\ l =< 5 /\ 100 * l =< 11 * r))
                               => l =< IF a < 10 THEN 0 ELSE 5
    OBVIOUS
  <2>4. Cardinality(lagging) =< IF Cardinality(Arrived(g)) < 10 THEN 0 ELSE 5
    BY <1>8, <2>1, <2>2, <2>3 DEF HasAcceptable
  <2> QED
    BY <2>4 DEF Tolerance
<1>10. s.desired =< Cardinality(Arrived(g)) + Tolerance(g)
  <2>1. s.desired =< Cardinality(s.members)
    BY <1>1, <1>2 DEF MayProceed
  <2>2. /\ Cardinality(lagging) \in Nat /\ Cardinality(s.members) \in Nat /\ Cardinality(Arrived(g)) \in Nat
        /\ Tolerance(g) \in Nat
    BY <1>1, <1>2, <1>6 DEF Tolerance
  <2>3. \A d, m, a, l, t \in Nat : d =< m /\ m =< a + l /\ l =< t => d =< a + t
    OBVIOUS
  <2> QED
    BY <1>1, <1>7, <1>9, <2>1, <2>2, <2>3
<1>11. Cardinality(Outdated(s)) =< Cardinality(OutdatedFromStart(g))
  BY <1>2, <1>4, <1>6, FS_Subset
<1> QED
  BY <1>4, <1>10, <1>11 DEF MayProceed

\* Few steps of the handler change sizes ...
LEMMA SizesStay ==
    ASSUME NEW e \in Execs, ExecStep(e), ~Grow(e), ~GrowUnanswered(e), ~Terminate(e), ~TerminateUnanswered(e)
    PROVE  desired' = desired
<1>1. ASSUME NEW g \in Groups, AssessGroup(e, g) \/ SkipGroup(e, g) PROVE desired' = desired
  BY <1>1 DEF AssessGroup, SkipGroup, OnlyExec, OnlyExecAndCluster, awsVars
<1>2. ASSUME NEW i \in Instances, PickInstance(e, i) PROVE desired' = desired
  BY <1>2 DEF PickInstance, OnlyExecAndCluster, awsVars
<1>3. ASSUME NEW p \in Pods, EvictPod(e, p) PROVE desired' = desired
  BY <1>3 DEF EvictPod, OnlyExecAndCluster, awsVars
<1>4. ASSUME \/ Finish(e) \/ LeaveGroup(e) \/ CordonEagerly(e) \/ MarkStarted(e) \/ CheckResources(e)
             \/ ExcludeNode(e) \/ StartDrain(e) \/ CompleteDrain(e) \/ FailDrain(e)
      PROVE  desired' = desired
  BY <1>4 DEF Finish, LeaveGroup, CordonEagerly, MarkStarted, CheckResources, ExcludeNode, StartDrain,
              CompleteDrain, FailDrain, OnlyExec, OnlyExecAndCluster, awsVars
<1>5. ASSUME \/ MarkDrained(e) \/ TerminateAgain(e) \/ FailTerminate(e) \/ MarkTerminated(e)
             \/ DescribeLatest(e) \/ FailGrow(e)
      PROVE  desired' = desired
  BY <1>5 DEF MarkDrained, TerminateAgain, FailTerminate, MarkTerminated, DescribeLatest, FailGrow,
              OnlyExec, OnlyExecAndCluster, awsVars
<1> QED
  BY <1>1, <1>2, <1>3, <1>4, <1>5 DEF ExecStep

\* ... and but for those that grow a group, they can only fall.
LEMMA SizesFall ==
    ASSUME WellFormed, NEW e \in Execs, ExecStep(e), ~Grow(e), ~GrowUnanswered(e)
    PROVE  \A g \in Groups : desired'[g] =< desired[g]
<1>t. desired \in [Groups -> Nat]
  BY DEF WellFormed, TypeOK, AutoScalingTypeOK
<1>1. CASE Terminate(e) \/ TerminateUnanswered(e)
  BY <1>1, <1>t DEF Terminate, TerminateUnanswered, TerminateEc2Instance
<1>2. CASE ~Terminate(e) /\ ~TerminateUnanswered(e)
  BY <1>2, <1>t, SizesStay
<1> QED
  BY <1>1, <1>2

\* What must hold for the bound to be kept, besides the order of the loops.
GrowthKept == Alone /\ OldHaveArrived /\ CopiesArrived /\ AllSized /\ NoRunawayGrowth

\* Nothing is known of an execution that is not under way.
LEMMA IdleSized ==
    ASSUME NEW x, x.pc = "idle", NEW size, NEW most, NEW n
    PROVE  Sized(x, size, most, n)
BY DEF Sized, Within, BusyLabels

\* The type of the bound, also after a step.
MostTyped ==
    /\ Most \in [Groups -> Nat]
    /\ \A g \in Groups : Most[g] = Cardinality(Arrived(g)) + Tolerance(g) + Requests(g) + meddled

LEMMA MostTypeNext == WellFormed' => MostTyped'
<1>1. WellFormed => MostTyped
  BY MostType DEF MostTyped
<1> QED
  BY <1>1, PTL

\* A step in which no execution asks for more, and sizes rise by what others add.
LEMMA QuietStep ==
    ASSUME WellFormed, WellFormed', AllSized, NoRunawayGrowth,
           \A i \in Instances : HasArrived(i) => HasArrived(i)',
           meddled =< meddled',
           \A g \in Groups : desired'[g] + meddled =< desired[g] + meddled'
    PROVE  /\ NoRunawayGrowth'
           /\ \A e \in Execs : AsksNoMore(exec[e], exec'[e])
                                 => Sized(exec'[e], desired', Most', meddled')
<1>1. /\ meddled \in Nat /\ meddled' \in Nat
      /\ desired \in [Groups -> Nat] /\ desired' \in [Groups -> Nat]
      /\ exec \in [Execs -> Execution] /\ exec' \in [Execs -> Execution]
  BY RollingUpgradeAssumption DEF WellFormed, TypeOK, AutoScalingTypeOK
<1>2. Most \in [Groups -> Nat]
  BY MostType
<1>3. Most' \in [Groups -> Nat]
      /\ \A g \in Groups : Most'[g] = (Cardinality(Arrived(g)) + Tolerance(g) + Requests(g) + meddled)'
  BY MostTypeNext DEF MostTyped
<1>4. \A g \in Groups : Most[g] + meddled' =< Most'[g] + meddled
  BY MostRises
<1>5. ASSUME NEW g \in Groups
      PROVE  desired'[g] + Most[g] =< desired[g] + Most'[g] /\ Most[g] =< Most'[g]
  <2>1. /\ desired[g] \in Nat /\ desired'[g] \in Nat /\ Most[g] \in Nat /\ Most'[g] \in Nat
    BY <1>1, <1>2, <1>3
  <2>2. \A a, b, c, d, k, l \in Nat : k =< l /\ b + k =< a + l /\ c + l =< d + k => b + c =< a + d /\ c =< d
    OBVIOUS
  <2>3. desired'[g] + meddled =< desired[g] + meddled' /\ Most[g] + meddled' =< Most'[g] + meddled
    BY <1>4
  <2> QED
    BY <1>1, <2>1, <2>2, <2>3
<1>6. NoRunawayGrowth'
  <2> SUFFICES ASSUME NEW g \in Groups PROVE desired'[g] =< Most'[g]
    BY <1>3 DEF NoRunawayGrowth
  <2>1. desired[g] =< Most[g]
    BY MostType DEF NoRunawayGrowth
  <2>2. /\ desired[g] \in Nat /\ desired'[g] \in Nat /\ Most[g] \in Nat /\ Most'[g] \in Nat
    BY <1>1, <1>2, <1>3
  <2>3. \A a, b, c, d \in Nat : a =< c /\ b + c =< a + d => b =< d
    OBVIOUS
  <2> QED
    BY <1>5, <2>1, <2>2, <2>3
<1>7. ASSUME NEW e \in Execs, AsksNoMore(exec[e], exec'[e])
      PROVE  Sized(exec'[e], desired', Most', meddled')
  <2>1. /\ exec[e] \in Execution /\ exec'[e] \in Execution /\ HandOK(exec[e])
        /\ Sized(exec[e], desired, Most, meddled)
    BY <1>1 DEF WellFormed, InHand, AllSized
  <2>2. Follow(desired, desired', Most, Most', meddled, meddled')
    BY <1>5 DEF Follow
  <2>3. Most' \in [Groups -> Nat]
    BY <1>3
  <2> QED
    BY <1>1, <1>2, <1>7, <2>1, <2>2, <2>3, AsksNoMoreSized
<1> QED
  BY <1>6, <1>7

\* Standing still is asking for no more.
LEMMA StandingStill ==
    ASSUME NEW x \in Execution
    PROVE  AsksNoMore(x, x)
BY LeftType DEF AsksNoMore

\* The steps of the handler that neither start an execution, nor find out about a
\* group, nor grow one.
LEMMA PlainGrowth ==
    ASSUME WellFormed, WellFormed', AllSized, NoRunawayGrowth,
           \A i \in Instances : HasArrived(i) => HasArrived(i)',
           NEW e \in Execs, ExecStep(e), ~Grow(e), ~GrowUnanswered(e)
    PROVE  /\ NoRunawayGrowth'
           /\ Sized(exec'[e], desired', Most', meddled') => AllSized'
           /\ AsksNoMore(exec[e], exec'[e]) => AllSized'
<1>1. /\ exec \in [Execs -> Execution] /\ meddled \in Nat /\ meddled' = meddled
      /\ desired \in [Groups -> Nat] /\ desired' \in [Groups -> Nat]
  BY HandlerFrame, RollingUpgradeAssumption DEF WellFormed, TypeOK, AutoScalingTypeOK
<1>2. \A g \in Groups : desired'[g] + meddled =< desired[g] + meddled'
  BY <1>1, SizesFall
<1>3. meddled =< meddled'
  BY <1>1
<1>4. \A f \in Execs : f # e => exec'[f] = exec[f]
  BY <1>1, HandlerFrame DEF Become
<1>5. \A f \in Execs : f # e => Sized(exec'[f], desired', Most', meddled')
  <2>1. \A f \in Execs : AsksNoMore(exec[f], exec[f])
    BY <1>1, StandingStill
  <2>2. \A f \in Execs : f # e => AsksNoMore(exec[f], exec'[f])
    BY <1>4, <2>1
  <2> QED
    BY <1>2, <1>3, <2>2, QuietStep
<1>6. Sized(exec'[e], desired', Most', meddled') => AllSized'
  BY <1>5 DEF AllSized
<1>7. AsksNoMore(exec[e], exec'[e]) => Sized(exec'[e], desired', Most', meddled')
  BY <1>2, <1>3, QuietStep
<1> QED
  BY <1>2, <1>3, <1>6, <1>7, QuietStep

\* Starting an execution: it learns all sizes.
LEMMA BeginGrowth ==
    ASSUME WellFormed, WellFormed', GrowthKept, \A i \in Instances : HasArrived(i) => HasArrived(i)',
           NEW e \in Execs, Begin(e)
    PROVE  AllSized' /\ NoRunawayGrowth'
<1> DEFINE y == [Idle EXCEPT !.pc = "group", !.queue = Groups, !.snap = [g \in Groups |-> SnapshotOf(g)]]
<1>1. /\ exec \in [Execs -> Execution] /\ meddled \in Nat /\ meddled' = meddled
      /\ desired \in [Groups -> Nat] /\ desired' = desired
  BY RollingUpgradeAssumption DEF WellFormed, TypeOK, AutoScalingTypeOK, Begin, awsVars
<1>2. exec'[e] = y /\ \A f \in Execs : f # e => exec'[f] = exec[f]
  BY <1>1 DEF Begin, Become
<1>3. AllSized /\ NoRunawayGrowth /\ \A g \in Groups : target[g] = FirstTarget
  BY DEF GrowthKept, OldHaveArrived
<1>4. /\ meddled =< meddled' /\ \A g \in Groups : desired'[g] + meddled =< desired[g] + meddled'
  BY <1>1
<1>5. NoRunawayGrowth' /\ \A f \in Execs : AsksNoMore(exec[f], exec'[f])
                                            => Sized(exec'[f], desired', Most', meddled')
  BY <1>3, <1>4, QuietStep
<1>6. \A f \in Execs : f # e => Sized(exec'[f], desired', Most', meddled')
  <2>1. \A f \in Execs : AsksNoMore(exec[f], exec[f])
    BY <1>1, StandingStill
  <2> QED
    BY <1>2, <1>5, <2>1
<1>7. Sized(y, desired', Most', meddled')
  <2>1. y.pc = "group" /\ y.snap = [g \in Groups |-> SnapshotOf(g)] /\ y.queue = Groups
    BY DEF Idle
  <2>2. \A g \in Groups : y.snap[g].target = FirstTarget /\ y.snap[g].desired = desired[g]
    BY <1>3, <2>1 DEF SnapshotOf
  <2>3. \A g \in Groups : desired'[g] =< desired[g] + meddled'
    BY <1>1
  <2> HIDE DEF y
  <2> QED
    BY <2>1, <2>2, <2>3 DEF Sized, Within, BusyLabels
<1> QED
  BY <1>2, <1>5, <1>6, <1>7 DEF AllSized

\* Finding out: about a group whose size then stays within the bound, whatever is
\* asked for it, or about its size right before it is grown.
LEMMA LearningGrowth ==
    ASSUME WellFormed, WellFormed', OrderKept, GrowthKept, \A i \in Instances : HasArrived(i) => HasArrived(i)',
           NEW e \in Execs, DescribeLatest(e) \/ \E g \in Groups : AssessGroup(e, g)
    PROVE  AllSized' /\ NoRunawayGrowth'
<1> DEFINE x == exec[e]
<1>t. /\ x \in Execution /\ HandOK(x) /\ Orderly(x) /\ Sized(x, desired, Most, meddled)
      /\ exec \in [Execs -> Execution] /\ exec' \in [Execs -> Execution]
      /\ desired \in [Groups -> Nat] /\ meddled \in Nat
  BY RollingUpgradeAssumption DEF WellFormed, TypeOK, AutoScalingTypeOK, InHand, OrderKept, GrowthKept, AllSized
<1>m. Most \in [Groups -> Nat] /\ Most' \in [Groups -> Nat]
  BY MostType, MostTypeNext DEF MostTyped
<1>g. AllSized /\ NoRunawayGrowth /\ OldHaveArrived /\ CopiesArrived
  BY DEF GrowthKept
<1>1. CASE DescribeLatest(e)
  <2>1. /\ NoRunawayGrowth' /\ (Sized(exec'[e], desired', Most', meddled') => AllSized')
        /\ AsksNoMore(x, exec'[e]) => AllSized'
    <3>1. ExecStep(e) /\ ~Grow(e) /\ ~GrowUnanswered(e)
      BY <1>1 DEF ExecStep, DescribeLatest, Grow, GrowUnanswered, At
    <3> QED
      BY <1>g, <3>1, PlainGrowth
  <2>2. x.pc = "describe" /\ Within(x) /\ x.group \in Groups /\ desired' = desired /\ meddled' = meddled
    BY <1>1, <1>t DEF DescribeLatest, At, Within, HandOK, BusyLabels, Labels, OnlyExec, awsVars
  <2>3. CASE Continue(e)
    <3>1. exec'[e] = Continued(x)
      BY <1>t, <2>3 DEF Continue, Become
    <3> QED
      BY <1>t, <2>1, <2>2, <3>1, ContinuedAsks
  <2>4. CASE Become(e, [x EXCEPT !.pc = "grow", !.latest = desired[x.group] + 1])
    <3> DEFINE y == exec'[e]
    <3>1. y = [x EXCEPT !.pc = "grow", !.latest = desired[x.group] + 1]
      BY <1>t, <2>4 DEF Become
    <3>2. /\ y.pc = "grow" /\ y.latest = desired[x.group] + 1 /\ y.group = x.group /\ y.todo = x.todo
          /\ y.queue = x.queue /\ y.snap = x.snap
      BY <1>t, <3>1 DEF Execution
    <3>3. Left(y) = Left(x) /\ Left(x) \in Nat
      BY <1>t, <2>2, <3>2, LeftType DEF Left
    <3>4. desired[x.group] + Left(x) =< Most[x.group]
      BY <1>t, <2>2 DEF Sized
    <3>5. Most[x.group] =< Most'[x.group]
      <4>1. Most[x.group] + meddled =< Most'[x.group] + meddled
        BY <2>2, MostRises
      <4>2. Most[x.group] \in Nat /\ Most'[x.group] \in Nat
        BY <1>m, <2>2
      <4>3. \A a, b, c \in Nat : a + c =< b + c => a =< b
        OBVIOUS
      <4> QED
        BY <1>t, <4>1, <4>2, <4>3
    <3>6. desired[x.group] \in Nat /\ Most[x.group] \in Nat /\ Most'[x.group] \in Nat
      BY <1>t, <1>m, <2>2
    <3> HIDE DEF y
    <3>7. desired'[y.group] + Left(y) =< Most'[y.group]
      <4>1. \A a, b, c, l \in Nat : a + l =< b /\ b =< c => a + l =< c
        OBVIOUS
      <4>2. desired[x.group] + Left(x) =< Most'[x.group]
        BY <3>3, <3>4, <3>5, <3>6, <4>1
      <4> QED
        BY <2>2, <3>2, <3>3, <4>2
    <3>8. y.latest + Left(y) =< Most'[y.group] + 1
      <4>1. \A a, b, c, l \in Nat : a + l =< b /\ b =< c => (a + 1) + l =< c + 1
        OBVIOUS
      <4>2. (desired[x.group] + 1) + Left(x) =< Most'[x.group] + 1
        BY <3>3, <3>4, <3>5, <3>6, <4>1
      <4> QED
        BY <3>2, <3>3, <4>2
    <3>9. \A g \in y.queue : y.snap[g].target = FirstTarget /\ desired'[g] =< y.snap[g].desired + meddled'
      BY <1>t, <2>2, <3>2 DEF Sized
    <3>10. Sized(y, desired', Most', meddled')
      BY <3>7, <3>8, <3>9 DEF Sized
    <3> QED
      BY <2>1, <3>10 DEF y
  <2> QED
    BY <1>1, <2>1, <2>3, <2>4 DEF DescribeLatest
<1>2. ASSUME NEW g \in Groups, AssessGroup(e, g) PROVE AllSized' /\ NoRunawayGrowth'
  <2>1. x.pc = "group" /\ g \in x.queue /\ desired' = desired /\ meddled' = meddled
    BY <1>2 DEF AssessGroup, At, OnlyExecAndCluster, awsVars
  <2>2. /\ NoRunawayGrowth' /\ (Sized(exec'[e], desired', Most', meddled') => AllSized')
        /\ AsksNoMore(x, exec'[e]) => AllSized'
    <3>1. ExecStep(e) /\ ~Grow(e) /\ ~GrowUnanswered(e)
      BY <1>2, <2>1 DEF ExecStep, Grow, GrowUnanswered, At
    <3> QED
      BY <1>g, <3>1, PlainGrowth
  <2> DEFINE s == x.snap[g]
             asked == Updated(s) \cap s.serving
             here == [x EXCEPT !.queue = @ \ {g}]
             picked(ready) == [here EXCEPT !.pc = "pick", !.group = g,
                                           !.snap[g] = [NoSnapshot EXCEPT !.desired = s.desired],
                                           !.todo = Outdated(s), !.ready = ready]
  <2>3. PICK unlisted \in Unlisted(asked) :
            Become(e, IF MayProceed(s, ReadyNodes(Found(asked \ unlisted)))
                      THEN picked(ReadyNodes(Found(asked \ unlisted)))
                      ELSE Broken(here))
    BY <1>2 DEF AssessGroup
  <2> DEFINE ready == ReadyNodes(Found(asked \ unlisted))
  <2>4. /\ here \in Execution /\ here.queue = x.queue \ {g} /\ here.snap = x.snap /\ here.pc = x.pc
        /\ here.group = x.group /\ here.todo = x.todo
    BY <1>t DEF Execution
  <2>5. s \in Snapshot /\ s.target = FirstTarget /\ s.desired \in Nat
        /\ desired[g] =< s.desired + meddled /\ \A i \in s.members : GroupOf[i] = g
    BY <1>t, <2>1 DEF Execution, Snapshot, Sized, Orderly, OwnInstances
  <2>6. ready \in SUBSET Updated(s) /\ \A i \in ready : View[i] # NoNode /\ View[i].ready
    BY DEF ReadyNodes, Found
  <2> DEFINE y == exec'[e]
  <2>7. y \in Execution
    BY <1>t
  <2>8. CASE ~MayProceed(s, ready)
    <3>1. y = Broken(here)
      BY <1>t, <2>3, <2>8 DEF Become
    <3>2. y.pc = "group" /\ y.queue \subseteq x.queue /\ y.snap = x.snap
      BY <2>4, <3>1 DEF Broken, Continued, Execution
    <3>3. AsksNoMore(x, y)
      BY <1>t, <2>1, <2>7, <3>2, LeavingAsks
    <3> QED
      BY <2>2, <3>3
  <2>9. CASE MayProceed(s, ready)
    <3>1. y = picked(ready)
      BY <1>t, <2>3, <2>9 DEF Become
    <3>2. /\ y.pc = "pick" /\ y.group = g /\ y.todo = Outdated(s) /\ y.queue = x.queue \ {g}
          /\ \A h \in Groups : h # g => y.snap[h] = x.snap[h]
      BY <1>t, <2>4, <3>1 DEF Execution
    <3> HIDE DEF s, ready, y
    <3>3. /\ s.desired =< Cardinality(Arrived(g)) + Tolerance(g)
          /\ OutdatedFromStart(g) # {} /\ Cardinality(Outdated(s)) =< Cardinality(OutdatedFromStart(g))
      BY <1>g, <2>5, <2>6, <2>9, AssessmentCounts
    <3>4. Left(y) =< Requests(g) /\ Left(y) \in Nat
      <4>1. Cardinality(y.todo) \in Nat /\ Left(y) \in Nat
        BY <2>7, LeftType
      <4>2. CASE "Answers" \in Fallible
        <5>1. Left(y) = Cardinality(y.todo)
          BY <3>2, <4>1, <4>2 DEF Left
        <5>2. Requests(g) = Cardinality(OutdatedFromStart(g))
          BY <3>3, <4>2 DEF Requests
        <5> QED
          BY <3>2, <3>3, <4>1, <5>1, <5>2
      <4>3. CASE "Answers" \notin Fallible
        BY <4>1, <4>3 DEF Left, Requests
      <4> QED
        BY <4>2, <4>3
    <3>5. desired[g] + Left(y) =< Most'[g]
      <4>1. /\ Cardinality(Arrived(g)) \in Nat /\ Tolerance(g) \in Nat /\ Requests(g) \in Nat
            /\ Most[g] = Cardinality(Arrived(g)) + Tolerance(g) + Requests(g) + meddled
        BY MostType
      <4>2. Most[g] + meddled =< Most'[g] + meddled /\ Most[g] \in Nat /\ Most'[g] \in Nat /\ desired[g] \in Nat
        BY <1>t, <1>m, <2>1, MostRises
      <4>3. \A d, s1, a, t, r, l, m, n, k \in Nat :
                d =< s1 + k /\ s1 =< a + t /\ l =< r /\ m = a + t + r + k /\ m + k =< n + k => d + l =< n
        OBVIOUS
      <4> QED
        BY <1>t, <2>5, <3>3, <3>4, <4>1, <4>2, <4>3
    <3>6. \A h \in y.queue : y.snap[h].target = FirstTarget /\ desired'[h] =< y.snap[h].desired + meddled'
      BY <1>t, <2>1, <3>2 DEF Sized, Execution
    <3>7. Sized(y, desired', Most', meddled')
      BY <2>1, <3>2, <3>5, <3>6 DEF Sized
    <3> QED
      BY <2>2, <3>7 DEF y
  <2> QED
    BY <2>8, <2>9
<1> QED
  BY <1>1, <1>2

\* Growing: what was asked for fits, and every further request was provided for.
LEMMA GrowingGrowth ==
    ASSUME WellFormed, WellFormed', OrderKept, GrowthKept, \A i \in Instances : HasArrived(i) => HasArrived(i)',
           NEW e \in Execs, Grow(e) \/ GrowUnanswered(e)
    PROVE  AllSized' /\ NoRunawayGrowth'
<1> DEFINE x == exec[e]
           g == x.group
           y == exec'[e]
<1>t. /\ x \in Execution /\ HandOK(x) /\ Orderly(x) /\ Sized(x, desired, Most, meddled)
      /\ exec \in [Execs -> Execution] /\ exec' \in [Execs -> Execution]
      /\ desired \in [Groups -> Nat] /\ meddled \in Nat
  BY RollingUpgradeAssumption DEF WellFormed, TypeOK, AutoScalingTypeOK, InHand, OrderKept, GrowthKept, AllSized
<1>m. Most \in [Groups -> Nat] /\ Most' \in [Groups -> Nat] /\ MostTyped'
  BY MostType, MostTypeNext DEF MostTyped
<1>1. x.pc = "grow" /\ Within(x) /\ g \in Groups /\ g \notin x.queue /\ x.latest \in Nat
  BY <1>t DEF Grow, GrowUnanswered, At, Within, HandOK, BusyLabels, Labels, Orderly, BehindIt, Execution
<1>2. /\ meddled' = meddled /\ desired' = [desired EXCEPT ![g] = x.latest]
      /\ \A f \in Execs : f # e => exec'[f] = exec[f]
  BY <1>t DEF Grow, GrowUnanswered, SetDesiredCapacity, OnlyExecAndAws, Become, Continue
<1>3. \A h \in Groups : Most[h] =< Most'[h]
  <2> SUFFICES ASSUME NEW h \in Groups PROVE Most[h] =< Most'[h]
    OBVIOUS
  <2>1. Most[h] + meddled =< Most'[h] + meddled
    BY <1>2, MostRises
  <2>2. Most[h] \in Nat /\ Most'[h] \in Nat
    BY <1>m
  <2>3. \A a, b, c \in Nat : a + c =< b + c => a =< b
    OBVIOUS
  <2> QED
    BY <1>t, <2>1, <2>2, <2>3
<1>4. x.latest + Left(x) =< Most[g] + 1 /\ Left(x) \in Nat /\ Left(x) >= 1
  BY <1>t, <1>1, LeftType DEF Sized
<1>5. x.latest =< Most'[g]
  <2>1. \A a, b, c, l \in Nat : a + l =< b + 1 /\ l >= 1 /\ b =< c => a =< c
    OBVIOUS
  <2>2. Most[g] \in Nat /\ Most'[g] \in Nat
    BY <1>m, <1>1
  <2> QED
    BY <1>1, <1>3, <1>4, <2>1, <2>2
<1>6. NoRunawayGrowth'
  <2>1. \A h \in Groups : desired[h] =< Most[h]
    BY MostType DEF GrowthKept, NoRunawayGrowth
  <2>2. \A h \in Groups : desired'[h] =< Most'[h]
    <3> SUFFICES ASSUME NEW h \in Groups PROVE desired'[h] =< Most'[h]
      OBVIOUS
    <3>1. CASE h = g
      BY <1>t, <1>1, <1>2, <1>5, <3>1
    <3>2. CASE h # g
      <4>1. desired'[h] = desired[h]
        BY <1>t, <1>2, <3>2
      <4>2. desired[h] \in Nat /\ Most[h] \in Nat /\ Most'[h] \in Nat
        BY <1>t, <1>m
      <4>3. \A a, b, c \in Nat : a =< b /\ b =< c => a =< c
        OBVIOUS
      <4> QED
        BY <1>3, <2>1, <4>1, <4>2, <4>3
    <3> QED
      BY <3>1, <3>2
  <2> QED
    BY <1>m, <2>2 DEF MostTyped, NoRunawayGrowth
<1>7. \A f \in Execs : f # e => Sized(exec'[f], desired', Most', meddled')
  <2>1. \A f \in Execs : f # e => exec'[f].pc = "idle"
    BY <1>1, <1>2 DEF GrowthKept, Alone
  <2> QED
    BY <2>1, IdleSized
<1>8. Sized(y, desired', Most', meddled')
  <2>1. \A h \in x.queue : x.snap[h].target = FirstTarget /\ desired'[h] =< x.snap[h].desired + meddled'
    BY <1>t, <1>1, <1>2 DEF Sized, Execution
  <2>2. CASE Grow(e)
    <3>1. y = Broken(Log(x, "grow"))
      BY <1>t, <2>2 DEF Grow, Become
    <3>2. y.pc = "group" /\ y.queue = x.queue /\ y.snap = x.snap
      BY <1>t, <3>1 DEF Broken, Continued, Log, Execution
    <3> HIDE DEF y
    <3> QED
      BY <2>1, <3>2 DEF Sized, Within, BusyLabels
  <2>3. CASE GrowUnanswered(e)
    <3> DEFINE z == Log(x, "growUnanswered")
    <3>1. y = Continued(z) /\ "Answers" \in Fallible
      BY <1>t, <2>3 DEF GrowUnanswered, Become
    <3>6. x.inst \in Instances
      BY <1>t, <1>1 DEF HandOK, BusyLabels, Labels
    <3>7. /\ z \in Execution /\ z.group = x.group /\ z.todo = x.todo
          /\ z.queue = x.queue /\ z.snap = x.snap
      BY <1>t, <3>6, LogType DEF Deeds, Unanswered
    <3> HIDE DEF z
    <3>2. y.pc = "pick" /\ y.queue = x.queue /\ y.snap = x.snap /\ y.group = g
      BY <3>1, <3>7 DEF Continued, Execution
    <3>3. Left(y) + 1 = Left(x) /\ Left(y) \in Nat
      BY <1>t, <1>1, <3>1, <3>7, ContinuedLogAsks, LeftType
    <3>4. x.latest + Left(y) =< Most'[g]
      <4>1. \A a, b, c, l, k \in Nat : a + l =< b + 1 /\ k + 1 = l /\ b =< c => a + k =< c
        OBVIOUS
      <4>2. Most[g] \in Nat /\ Most'[g] \in Nat
        BY <1>m, <1>1
      <4> QED
        BY <1>1, <1>3, <1>4, <3>3, <4>1, <4>2
    <3>5. desired'[g] = x.latest
      BY <1>t, <1>1, <1>2
    <3> HIDE DEF y
    <3> QED
      BY <2>1, <3>2, <3>4, <3>5 DEF Sized
  <2> QED
    BY <2>2, <2>3
<1> QED
  BY <1>6, <1>7, <1>8 DEF AllSized

\* Every step keeps the bound and what it rests on.
LEMMA StepGrowth ==
    OneHandler /\ "retarget" \notin Interventions
        => (WellFormed /\ WellFormed' /\ OrderKept /\ GrowthKept /\ [Next]_vars => GrowthKept')
<1> SUFFICES ASSUME OneHandler, "retarget" \notin Interventions,
                    WellFormed, WellFormed', OrderKept, GrowthKept, [Next]_vars
             PROVE  GrowthKept'
  OBVIOUS
<1>g. AllSized /\ NoRunawayGrowth /\ OldHaveArrived /\ CopiesArrived /\ Alone
  BY DEF GrowthKept
<1>t. /\ exec \in [Execs -> Execution] /\ meddled \in Nat
      /\ desired \in [Groups -> Nat] /\ desired' \in [Groups -> Nat]
  BY RollingUpgradeAssumption DEF WellFormed, TypeOK, AutoScalingTypeOK
<1>a. (\A i \in Instances : HasArrived(i) => HasArrived(i)') /\ CopiesArrived'
  BY <1>g, ArrivalsLast
<1>b. Alone' /\ OldHaveArrived'
  BY <1>a, <1>g, StepAlone, StepOld
<1>q. ASSUME exec' = exec, meddled =< meddled',
             \A g \in Groups : desired'[g] + meddled =< desired[g] + meddled'
      PROVE  AllSized' /\ NoRunawayGrowth'
  <2>1. /\ NoRunawayGrowth'
        /\ \A e \in Execs : AsksNoMore(exec[e], exec'[e]) => Sized(exec'[e], desired', Most', meddled')
    BY <1>a, <1>g, <1>q, QuietStep
  <2>2. \A e \in Execs : AsksNoMore(exec[e], exec[e])
    BY <1>t, StandingStill
  <2> QED
    BY <1>q, <2>1, <2>2 DEF AllSized
<1>u. ASSUME UNCHANGED <<desired, exec, meddled>> PROVE AllSized' /\ NoRunawayGrowth'
  BY <1>q, <1>t, <1>u
<1> SUFFICES AllSized' /\ NoRunawayGrowth'
  BY <1>a, <1>b DEF GrowthKept
<1>1. ASSUME NEW e \in Execs, Begin(e) PROVE AllSized' /\ NoRunawayGrowth'
  BY <1>1, <1>a, BeginGrowth
<1>2. ASSUME NEW e \in Execs, ExecStep(e) PROVE AllSized' /\ NoRunawayGrowth'
  <2>1. CASE DescribeLatest(e) \/ \E g \in Groups : AssessGroup(e, g)
    BY <1>a, <2>1, LearningGrowth
  <2>2. CASE Grow(e) \/ GrowUnanswered(e)
    BY <1>a, <2>2, GrowingGrowth
  <2>3. CASE /\ ~DescribeLatest(e) /\ ~Grow(e) /\ ~GrowUnanswered(e)
             /\ ~\E g \in Groups : AssessGroup(e, g)
    <3>1. AsksNoMore(exec[e], exec'[e])
      BY <1>2, <2>3, PlainSteps DEF ExecStep
    <3> QED
      BY <1>2, <1>a, <1>g, <2>3, <3>1, PlainGrowth
  <2> QED
    BY <2>1, <2>2, <2>3
<1>3. CASE TimeOut
  BY <1>3, <1>u DEF TimeOut, awsVars
<1>4. CASE Crash
  <2>1. meddled' = meddled + 1 /\ desired' = desired /\ exec' = [e \in Execs |-> Idle]
    BY <1>4 DEF Crash, Meddle, awsVars
  <2>2. meddled =< meddled' /\ \A g \in Groups : desired'[g] + meddled =< desired[g] + meddled'
    BY <1>t, <2>1
  <2>3. NoRunawayGrowth'
    BY <1>a, <1>g, <2>2, QuietStep
  <2>4. \A e \in Execs : exec'[e].pc = "idle"
    BY <2>1 DEF Idle
  <2> QED
    BY <2>3, <2>4, IdleSized DEF AllSized
<1>5. CASE Intervene
  <2>1. meddled' = meddled + 1 /\ exec' = exec
    BY <1>5 DEF Intervene, Meddle
  <2>2. \A g \in Groups : desired'[g] =< desired[g] + 1
    <3>1. CASE desired' = desired
      BY <1>t, <3>1
    <3>2. ASSUME NEW h \in Groups, SetDesiredCapacity(h, desired[h] + 1) \/ SetDesiredCapacity(h, desired[h] - 1)
          PROVE  \A g \in Groups : desired'[g] =< desired[g] + 1
      BY <1>t, <3>2 DEF SetDesiredCapacity
    <3> QED
      BY <1>5, <3>1, <3>2 DEF Intervene, Retarget, awsVars
  <2>3. meddled =< meddled' /\ \A g \in Groups : desired'[g] + meddled =< desired[g] + meddled'
    BY <1>t, <2>1, <2>2
  <2> QED
    BY <1>q, <2>1, <2>3
<1>6. CASE Expire
  BY <1>6, <1>u DEF Expire, HandlerUnchanged, awsVars
<1>7. ASSUME NEW i \in Instances, AwsStep(i) \/ InstanceGone(i) \/ NodeStep(i) PROVE AllSized' /\ NoRunawayGrowth'
  BY <1>7, <1>u DEF AwsStep, InstanceGone, NodeStep, Launch, EnterService, ScaleIn, Vanish, HandlerUnchanged, awsVars
<1>8. ASSUME NEW p \in Pods, NEW i \in Instances, Place(p, i) PROVE AllSized' /\ NoRunawayGrowth'
  BY <1>8, <1>u DEF Place, HandlerUnchanged, awsVars
<1>9. CASE UNCHANGED vars
  BY <1>9, <1>u DEF vars, awsVars
<1> QED
  BY <1>1, <1>2, <1>3, <1>4, <1>5, <1>6, <1>7, <1>8, <1>9 DEF Next

\* It holds at the start: all instances there are have arrived.
LEMMA InitGrowth == Init => GrowthKept
<1> SUFFICES ASSUME Init PROVE GrowthKept
  OBVIOUS
<1>w. WellFormed
  BY InitWellFormed
<1>1. \A e \in Execs : exec[e].pc = "idle"
  BY DEF Init, Idle
<1>2. Alone
  BY <1>1 DEF Alone
<1>3. \A i \in Initial : HasArrived(i)
  <2> SUFFICES ASSUME NEW i \in Initial PROVE HasArrived(i)
    OBVIOUS
  <2>1. nodes[i] = [FreshNode EXCEPT !.ready = TRUE]
    BY AutoScalingAssumption DEF Init, ClusterInit
  <2>2. nodes[i] \in Node /\ nodes[i].ready
    BY <2>1 DEF FreshNode, Node
  <2> QED
    BY <2>2, ClusterAssumption DEF HasArrived, Exists
<1>4. OldHaveArrived
  <2>1. \A g \in Groups : target[g] = FirstTarget
    BY DEF Init, AutoScalingInit
  <2>2. \A i \in Instances : version[i] = IF i \in Initial THEN InitialVersion[i] ELSE FirstTarget
    BY DEF Init, AutoScalingInit
  <2> QED
    BY <1>3, <2>1, <2>2 DEF OldHaveArrived, OutdatedFromStart
<1>5. CopiesArrived
  BY DEF Init, ClusterInit, CopiesArrived
<1>6. AllSized
  BY <1>1, IdleSized DEF AllSized
<1>7. NoRunawayGrowth
  <2> SUFFICES ASSUME NEW g \in Groups
               PROVE  desired[g] =< Cardinality(Arrived(g)) + Tolerance(g) + Requests(g) + meddled
    BY DEF NoRunawayGrowth
  <2>1. {i \in Initial : GroupOf[i] = g} \subseteq Arrived(g)
    BY <1>3, AutoScalingAssumption DEF Arrived
  <2>2. /\ IsFiniteSet(Arrived(g)) /\ Cardinality(Arrived(g)) \in Nat
        /\ Tolerance(g) \in Nat /\ Requests(g) \in Nat
    BY <1>w, MostType
  <2>3. GroupSize(g) =< Cardinality(Arrived(g)) /\ GroupSize(g) \in Nat
    BY <2>1, <2>2, FS_Subset, FS_CardinalityType DEF GroupSize
  <2>4. desired[g] = GroupSize(g) /\ meddled = 0
    BY DEF Init, AutoScalingInit
  <2>5. \A n, a, t, r, k \in Nat : n =< a => n =< a + t + r + k
    OBVIOUS
  <2> QED
    BY <2>2, <2>3, <2>4, <2>5
<1> QED
  BY <1>2, <1>4, <1>5, <1>6, <1>7 DEF GrowthKept

\* With one handler at a time and nobody who retargets groups, no group ever
\* wants more instances than have arrived, the laggards that are tolerated and
\* what one execution may ask for, whatever fails, is lost or crashes.
THEOREM GrowthIsBounded ==
    ASSUME OneHandler, "retarget" \notin Interventions
    PROVE  Spec => []NoRunawayGrowth
<1>1. WellFormed /\ WellFormed' /\ OrderKept /\ GrowthKept /\ [Next]_vars => GrowthKept'
  BY StepGrowth
<1>2. GrowthKept => NoRunawayGrowth
  BY DEF GrowthKept
<1>3. WellFormed /\ [Next]_vars => WellFormed'
  BY StepWellFormed
<1> QED
  BY <1>1, <1>2, <1>3, InitGrowth, WellFormedness, OrderInvariant, PTL DEF Spec

-----------------------------------------------------------------------------
(* What one request does to the size of a group.                           *)

\* What the handler is about to set is one more than the group wants by then.
AboutToAddOne == \A e \in Execs : exec[e].pc = "grow" => exec[e].latest = desired[exec[e].group] + 1

NobodyScales == {"scaleUp", "scaleDown"} \cap Interventions = {}

\* The handler's own steps between the description of the group and the request
\* leave its size alone.
LEMMA StepAboutToAddOne ==
    ASSUME OneHandler, NobodyScales, WellFormed, Alone, AboutToAddOne, [Next]_vars
    PROVE  AboutToAddOne'
<1>t. /\ exec \in [Execs -> Execution] /\ desired \in [Groups -> Nat]
  BY DEF WellFormed, TypeOK, AutoScalingTypeOK
<1>u. ASSUME UNCHANGED <<desired, exec>> PROVE AboutToAddOne'
  BY <1>u DEF AboutToAddOne
<1>1. ASSUME NEW e \in Execs, Begin(e) PROVE AboutToAddOne'
  <2>1. desired' = desired /\ exec'[e].pc = "group" /\ \A f \in Execs : f # e => exec'[f] = exec[f]
    BY <1>1, <1>t DEF Begin, Become, Idle, awsVars
  <2> QED
    BY <2>1 DEF AboutToAddOne
<1>2. ASSUME NEW e \in Execs, ExecStep(e) PROVE AboutToAddOne'
  <2>1. \A f \in Execs : f # e => exec'[f].pc = "idle"
    BY <1>2, <1>t, HandlerFrame DEF Alone, Become
  <2>2. exec'[e].pc = "grow" => exec'[e].latest = desired'[exec'[e].group] + 1
    <3>1. CASE DescribeLatest(e)
      <4>1. desired' = desired
        BY <3>1 DEF DescribeLatest, OnlyExec, awsVars
      <4>2. \/ exec'[e] = [exec[e] EXCEPT !.pc = "grow", !.latest = desired[exec[e].group] + 1]
            \/ exec'[e] = Continued(exec[e])
        BY <1>t, <3>1 DEF DescribeLatest, Continue, Become
      <4>3. exec[e] \in Execution
        BY <1>t
      <4> QED
        BY <4>1, <4>2, <4>3 DEF Continued, Execution
    <3>2. CASE Grow(e) \/ GrowUnanswered(e)
      <4>1. exec'[e] = Broken(Log(exec[e], "grow")) \/ exec'[e] = Continued(Log(exec[e], "growUnanswered"))
        BY <1>t, <3>2 DEF Grow, GrowUnanswered, Become
      <4>2. exec[e] \in Execution
        BY <1>t
      <4>3. Broken(Log(exec[e], "grow")).pc = "group" /\ Continued(Log(exec[e], "growUnanswered")).pc = "pick"
        BY <4>2 DEF Broken, Continued, Log, Execution
      <4> QED
        BY <4>1, <4>3
    <3>3. ASSUME NEW g \in Groups, AssessGroup(e, g) PROVE exec'[e].pc # "grow"
      <4> DEFINE here == [exec[e] EXCEPT !.queue = @ \ {g}]
                 s == exec[e].snap[g]
                 picked(ready) == [here EXCEPT !.pc = "pick", !.group = g,
                                               !.snap[g] = [NoSnapshot EXCEPT !.desired = s.desired],
                                               !.todo = Outdated(s), !.ready = ready]
      <4>1. \E ready : exec'[e] = picked(ready) \/ exec'[e] = Broken(here)
        BY <1>t, <3>3 DEF AssessGroup, Become
      <4>2. PICK ready : exec'[e] = picked(ready) \/ exec'[e] = Broken(here)
        BY <4>1
      <4>3. here \in Execution
        BY <1>t DEF Execution
      <4> HIDE DEF here
      <4>4. picked(ready).pc = "pick" /\ Broken(here).pc = "group"
        BY <4>3 DEF Broken, Continued, Execution
      <4> QED
        BY <4>2, <4>4
    <3>4. CASE /\ ~DescribeLatest(e) /\ ~Grow(e) /\ ~GrowUnanswered(e)
               /\ ~\E g \in Groups : AssessGroup(e, g)
      <4>1. AsksNoMore(exec[e], exec'[e])
        BY <1>2, <3>4, PlainSteps DEF ExecStep
      <4> SUFFICES ASSUME exec'[e].pc = "grow" PROVE exec'[e].latest = desired'[exec'[e].group] + 1
        OBVIOUS
      <4>2. exec[e].pc = "grow" /\ exec'[e].latest = exec[e].latest /\ exec'[e].group = exec[e].group
        BY <4>1 DEF AsksNoMore, Within, BusyLabels, Labels
      <4>3. ~Terminate(e) /\ ~TerminateUnanswered(e)
        BY <4>2 DEF Terminate, TerminateUnanswered, At
      <4>4. desired' = desired
        BY <1>2, <3>4, <4>3, SizesStay
      <4> QED
        BY <4>2, <4>4 DEF AboutToAddOne
    <3> QED
      BY <3>1, <3>2, <3>3, <3>4
  <2> QED
    BY <2>1, <2>2 DEF AboutToAddOne
<1>3. CASE TimeOut
  BY <1>3, <1>u DEF TimeOut, awsVars
<1>4. CASE Crash
  BY <1>4 DEF Crash, AboutToAddOne, Idle
<1>5. CASE Intervene
  BY <1>5, <1>u DEF Intervene, NobodyScales, Retarget, awsVars
<1>6. CASE Expire
  BY <1>6, <1>u DEF Expire, HandlerUnchanged, awsVars
<1>7. ASSUME NEW i \in Instances, AwsStep(i) \/ InstanceGone(i) \/ NodeStep(i) PROVE AboutToAddOne'
  BY <1>7, <1>u DEF AwsStep, InstanceGone, NodeStep, Launch, EnterService, ScaleIn, Vanish, HandlerUnchanged, awsVars
<1>8. ASSUME NEW p \in Pods, NEW i \in Instances, Place(p, i) PROVE AboutToAddOne'
  BY <1>8, <1>u DEF Place, HandlerUnchanged, awsVars
<1>9. CASE UNCHANGED vars
  BY <1>9, <1>u DEF vars, awsVars
<1> QED
  BY <1>1, <1>2, <1>3, <1>4, <1>5, <1>6, <1>7, <1>8, <1>9 DEF Next

\* With one handler at a time and nobody else who scales groups, a request sets a
\* group to one more than it wants by then, although the number sent is absolute.
THEOREM RequestsAddOne ==
    ASSUME OneHandler, NobodyScales
    PROVE  Spec => IncrementsByOne
<1> DEFINE A == \A e \in Execs : At(e, "grow") /\ exec'[e] # exec[e]
                    => \A g \in Groups : desired'[g] \in {desired[g], desired[g] + 1}
<1>1. Init => Alone /\ AboutToAddOne
  BY DEF Init, Idle, Alone, AboutToAddOne
<1>2. WellFormed /\ Alone /\ AboutToAddOne /\ [Next]_vars => (Alone /\ AboutToAddOne)'
  BY StepAlone, StepAboutToAddOne
<1>3. WellFormed /\ Alone /\ AboutToAddOne /\ [Next]_vars => [A]_vars
  <2> SUFFICES ASSUME WellFormed, Alone, AboutToAddOne, Next,
                      NEW e \in Execs, At(e, "grow"), exec'[e] # exec[e], NEW g \in Groups
               PROVE  desired'[g] \in {desired[g], desired[g] + 1}
    OBVIOUS
  <2>t. /\ exec \in [Execs -> Execution] /\ desired \in [Groups -> Nat]
    BY DEF WellFormed, TypeOK, AutoScalingTypeOK
  <2>1. CASE desired' = desired
    BY <2>1
  <2>2. ASSUME NEW f \in Execs, ExecStep(f) PROVE desired'[g] \in {desired[g], desired[g] + 1}
    <3>1. f = e
      BY <2>t, <2>2, HandlerFrame DEF Alone, At
    <3>2. CASE Grow(e) \/ GrowUnanswered(e)
      <4>1. desired' = [desired EXCEPT ![exec[e].group] = desired[exec[e].group] + 1]
        BY <3>2 DEF Grow, GrowUnanswered, SetDesiredCapacity, AboutToAddOne, At
      <4> QED
        BY <2>t, <4>1
    <3>3. CASE ~Grow(e) /\ ~GrowUnanswered(e)
      <4>1. ~Terminate(e) /\ ~TerminateUnanswered(e)
        BY DEF Terminate, TerminateUnanswered, At
      <4>2. desired' = desired
        BY <2>2, <3>1, <3>3, <4>1, SizesStay
      <4> QED
        BY <4>2
    <3> QED
      BY <3>2, <3>3
  <2>3. ASSUME NEW f \in Execs, Begin(f) PROVE desired' = desired
    BY <2>3 DEF Begin, awsVars
  <2>4. CASE Intervene \/ Expire \/ \E i \in Instances : AwsStep(i) \/ InstanceGone(i) \/ NodeStep(i)
    <3>1. exec' = exec
      BY <2>4 DEF Intervene, Expire, AwsStep, InstanceGone, NodeStep, HandlerUnchanged
    <3> QED
      BY <3>1
  <2> QED
    BY <2>1, <2>2, <2>3, <2>4 DEF Next, TimeOut, Crash, Place, HandlerUnchanged, awsVars
<1>4. Spec => [][A]_vars
  BY <1>1, <1>2, <1>3, WellFormedness, PTL DEF Spec
<1> QED
  BY <1>4 DEF IncrementsByOne
=============================================================================
