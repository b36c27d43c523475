# Rolling updates of EKS node groups: models and proofs

TLA+ models of `aws-eks-asg-rolling-update-handler`, the TLC runs that check
them on small instances, and the theorems TLAPS proves for every instance.
Paths and lines refer to the repository.

## The system

The handler is one process. Every interval its main loop describes the
configured auto scaling groups and walks over them. In each group it separates
the outdated instances from the updated ones and moves one outdated instance a
little further: mark it started, wait until the updated nodes have room for its
pods, drain it, terminate it. What it has done it writes as annotations on the
outdated node; nothing else survives a restart.

| component | state it keeps | operations | interacts with |
|---|---|---|---|
| main loop, timeout (`main.go:39-116`) | failure counter, one pair of goroutines and channels per turn | `main`, `run`, `HandleRollingUpgrade` | starts executions, stops waiting for them at the timeout |
| rolling update (`main.go:118-261`) | the snapshot of the groups, the loop variables | `DoHandleRollingUpgrade` | calls everything below, in order, ignoring some errors |
| assessment (`main.go:263-330`, `513-529`) | none | ready nodes, EDGE-0001 clean-up, acceptable share of nodes that are not ready | reads and writes nodes through the client |
| classification (`main.go:363-511`) | the template it compares with, carried through a loop | `SeparateOutdated...`, `compareLaunchTemplateVersions` | describes launch templates |
| Kubernetes client (`k8s/client.go`) | the node list, cached for 10 s for the whole process | list, update, cordon, drain | API server |
| node operations (`k8s/util.go`) | none; they write into the maps of cached copies | annotate, label, resource check | the client |
| AWS calls (`cloud/aws.go`) | none | describe, increment (two calls), terminate | EC2 Auto Scaling |
| discovery (`cloud/aws.go:30-83`) | the groups of the pages read so far | describe by tags, by names | called by each turn of the main loop |
| configuration (`config/config.go`) | process-wide values, set once | `Initialize` | decides how groups are discovered |
| metrics, client set | process-wide values | | |

What is hard here:

* **Nothing is atomic.** A step of the rollout is three to six remote calls, any
  of which may fail; the errors of two annotations and of the label are dropped
  (`main.go:192`, `203`, `220`). A call may also have its effect and lose its answer,
  which the handler takes for a failure.
* **The node cache.** An update is sent from a copy listed up to ten seconds ago
  and is refused when the node has changed since, which the handler's own cordon
  makes happen. The copy's maps are shared, so a mark whose update was refused is
  still seen by later readers of the same cache.
* **The timeout does not stop anything.** The execution goes on beside the next.
* **Everybody else moves**: AWS launches and scales in, the scheduler places pods,
  operators resize groups, point them to another version and back, uncordon nodes.
* **Shared slices and maps.** A node of the cache is returned as a copy of its
  struct: its annotation map and the array of its taints are shared, and the clean-up
  cuts a taint out of that array in place (`main.go:315`).
* **Old listings.** Pods are listed from the API server's watch cache
  (`k8s/client.go:77`), one node at a time, while pods are bound, end and disappear.
  Pods that are pending are on no node and so on no list.
* **Restarts** at any point, with the annotations as the only memory.

What makes it correct: no terminated instance hosts workload; a mark on a node is
true for whoever reads it, also after a restart; stale copies do not undo what
happened; the room of the updated nodes is not promised twice; slow mode stops;
a group does not grow
away; the rollout ends and evicted pods run again; the right instances are outdated; the
clean-up takes the taint it means and no other; the answer of the resource check is
worth something; an execution starts with the groups the configuration enables; the
process dies and gives up exactly when it should and leaks no goroutine. `PROJECT.json`
lists the hazards line by line with the property that watches each.

## Modules

| module | models |
|---|---|
| `NodeLifecycle` | what a rolling update promises: the abstract specification of nodes, pods and the record of drains |
| `AutoScaling` | groups, instances, the two calls of `cloud/aws.go` that change them, and what AWS does by itself |
| `Cluster` (extends it) | nodes and pods of the API server, the client with its cache, annotate, label, clean-up, cordon, eviction, pod listings, resource check |
| `Readiness` | how many updated nodes may lag behind |
| `RollingUpgrade` (extends both) | executions, the process around them, everyone else; the specification and its properties |
| `RolloutInvariant` | the inductive invariant of `RollingUpgrade` |
| `RolloutRefinement` | the mapping from `RollingUpgrade` to `NodeLifecycle` |
| `DocumentedClaims` | what the README and comments say and the code does otherwise |
| `RolloutProofs`, `GracefulProofs`, `RefinementProofs`, `ScalingProofs` | proofs about `RollingUpgrade` |
| `Assessment` (extends `Readiness`), `AssessmentProofs` | the loop over a group's updated instances on condition and taint lists, the clean-up on the shared array, the decision; and proofs |
| `Resources`, `ResourcesProofs` | the resource check, one listing at a time, from watch caches that lag, with two resources and pods of several kinds that come and go; and proofs |
| `LaunchTemplates`, `LaunchTemplatesProofs` | the classification loop, and proofs about it |
| `ExecutionLoop` | main loop, timer and execution goroutines |
| `Process` (extends it), `ProcessProofs` | configuration and discovery composed with the main loop; and proofs about both |
| `MC...` | instances for TLC |

`RollingUpgrade` takes what `Assessment`, `Resources` and `LaunchTemplates` look into
as one step each: the assessment of a group is `AssessGroup`, with one flag for a
node's readiness and one for its taint; the resource check is `CheckResources`, with
pods of one unit each (`Resources!UnitPodsHaveRoom` says that for such pods the check's
answer is right about the pods that are bound and in every watch cache); and the classification is a comparison of versions.
`Process` takes an execution of `RollingUpgrade` as something that runs and may return.

### How RollingUpgrade corresponds to the code

An execution is a record with a program counter. Each action is the code from
one remote call to the next, so that everybody else can move between any two
calls. Two actions hold more than one call. `StartDrain` reads the live node,
cordons it and lists its pods (`k8s/client.go:133`, `153`, `158`): between the
first two calls only somebody who cordons or uncordons the node could make a
difference, and after the cordon no pod can arrive. `AssessGroup` lists the nodes and sends all updates of
the clean-up (`main.go:272`, `319`); `Assessment` has these apart. The labels, in the order of the code: `group` (assess the next group),
`pick` (the loop over outdated instances, in any order because the code shuffles
them), `cordon` (eager cordoning), `start` (started-at), `check` (resources),
`label`, `drain` and `evict` (`Drain`), `markDrained`, `terminate`,
`markTerminated`, and `describe` and `grow` for the increment. `Continued` is the
code's `continue`, `Broken` its `break`. The snapshot `snap` is the description
of the groups made once per execution, from which members, serving instances,
target version and `DesiredCapacity` are read, however old they are by then. The
history `did` has what the execution made happen: the drains, terminations and
increments it was told of, and those whose answer was lost.

`Cluster.cache` is the client's cached list; `stale` holds the nodes that have
changed since it was made. `WriteMark` is `AnnotateNodeByAutoScalingInstance`: the
mark always lands in the cached copy, and on the API server only when the update
is accepted. `UpdateAccepted` is optimistic locking. The groups are taken in any
order: AWS lists them in one of its own.

Abstractions, each on purpose:

* An instance and its node share a name. Instance ids are not used again.
* An annotation is a mark that is there or not (`main.go:332-361` never looks at
  how old it is); its value always differs from an earlier one, so it is always
  written. Nodes have annotation and label maps, as every real node does.
* Pods are one unit of resources each, a node holds `Capacity` of them and DaemonSet
  pods are left out. An evicted pod becomes pending and is scheduled again anywhere.
* The resource check reads `Listings`: the pods as they are, or, with "PodLag" among
  the calls that fail, anything at all. That is more than a lagging watch cache can
  return; what must hold must hold without the check.
* With "Answers" among them, the calls that cordon, terminate and grow may have their
  effect and still return an error (`CordonEagerly`, `TerminateUnanswered`,
  `GrowUnanswered`). For updates of nodes the copy in the cache keeps the mark in both
  cases, and an update that was refused is one whose answer says so.
* The NoSchedule taint is the node controller's shadow of `Spec.Unschedulable`.
  `late` says whether it was added after started-at, the only thing the clean-up
  asks of it.
* Which instances are outdated is one comparison of versions (`Outdated`);
  `LaunchTemplates` models the real one.
* External, from how the code uses it: AWS refuses to decrement below the minimum;
  terminating an instance that is already terminating is refused or has no
  effect, and both are explored; terminating instances stay listed until they are
  gone; an instance's node disappears with it.

### How the other modules correspond

* `NodeLifecycle` knows nodes that join, close, are recorded as drained, are handed
  over (`Retire`) and leave, and pods that are placed on open nodes and evicted from
  closed ones. `RolloutRefinement` maps an instance to its phase from AWS's lifecycle,
  the API server's node and the history of obtained terminations, and the record to
  the drained-at marks on the API server, the only ones a restarted handler finds.
* `Assessment`: `k` is the loop's index, `ready` and `nonReady` its counts, `nodes` the
  API server and `cache` the copies. `Cut` is what `append(taints[:i], taints[i+1:]...)`
  leaves in the cached node, whose slice keeps its length: later taints move up and the
  last one is there twice. `Deadly` is the dereference of a missing `TimeAdded`.
  A group may have counts `before` the instances looked at, so that the
  thresholds are reached without sixty nodes. Other writers of these nodes are left
  out: an update the API server refuses for their sake is `CleanUpFails`.
* `Resources`: `ListTarget`, `SkipTarget`, `ListOld` and `AssumeEnough` are the listings
  of the two loops and their errors; `Arrive` is the scheduler between two of them, and
  `Leave` a pod that ends or is deleted. A pod that is recreated elsewhere is another pod,
  so both may be counted. A listing is answered from any of the `Views` between what the
  slowest watch cache shows when the check begins (`known`) and what is true (`stage`), pod
  by pod and anew for each listing. A pod's containers are added up; quantities are numbers.
* `Process`: `Initialize` is the precedence of CLUSTER_NAME, AUTODISCOVERY_TAGS and
  AUTO_SCALING_GROUP_NAMES and the exits of `config.Initialize`; `ReadPage` one page of
  `DescribeAutoScalingGroupsPages` with its filter; `DescribeByNames` the single call,
  which returns at most `MaxRecords` groups; `Second` the part of a tag after its first
  `=`. A description is a list of pages while operators retag groups. The turns, their
  goroutines and channels are those of `ExecutionLoop`.

## Runs

`SPECIFICATION Spec` unless the run checks liveness. The `rollout_*` runs and
`assessment` check for deadlock as well: the handler must always have something to
do. `templates`, `resources` and `process` do not, because they end or their turns are
bounded. Pods are interchangeable, and so symmetric, in runs that check safety only.

| run | states | what it shows |
|---|---|---|
| `rollout_faults` | 846k | drains, terminations and AWS calls fail or lose their answers, one group (which has to grow: a node holds one pod) is pointed elsewhere and back, the process restarts: no full node is terminated, all marks are true, drained-at across EDGE-0001 included, cordons last, an execution that was told that it scaled the group scales it no more, the group grows by one at a time and wants at most one more than have arrived, and one per intervention; `NodeLifecycle` is implemented |
| `rollout_overlap` | 987k | two executions at once, sharing the cache, node updates failing: no full node is terminated, cordons last; the inductive invariant holds |
| `rollout_slow` | 1.0M | two groups, one of which has to grow, slow mode, eager cordoning, the label, cordon and pod listings failing or lagging, answers lost: once told of a termination an execution makes AWS terminate nothing more, answered or not, in either group; no full node is terminated |
| `rollout_meddling` | 754k | all interventions, uncordoning included, and listings of nodes that fail |
| `rollout_live` | 210k | with fairness and a restart, two pods on nodes with room for one: the outdated instances go, and evicted pods return, provided they are placed before room is calculated again |
| `assessment` | 72k | pairs of nodes with up to two taints and any last conditions, cached and updated over executions without end, and groups around the thresholds |
| `resources` | 498k | two targets of two sizes and two pods of five kinds, on any of the nodes or pending, which arrive, end and go between listings that may fail or be old |
| `templates` | 1.4M | every group of two instances, policy and pair of templates, missing versions included |
| `process` | 232k | eight environments, two groups on two pages, three turns, one change of tags; a panic after two failures in a row |

Bounds, named in the modules: `MaxInterventions` (restarts and interventions
together, one or two; three in `claim_graceful`), `Turns`, `MaxRetags`, `MaxRecords`
(100 in AWS, one here), `Size`, and the instances and executions that
exist. Two outdated instances and one or two others are what sharing room takes;
two executions are what overlap takes; two interventions are there and back; two
groups are what slow mode tells apart. In `meddling` and `slow`, which ask nothing
about room, there is one pod, on a node or on its way. On nodes of room for one
(`Capacity = 1`: `faults`, `overlap`, `live`, `claim_shared_room`) no node can take
over another's pod while it hosts its own, so the group has to grow first; in `live`
the check of the resources is what decides when, for two pods that may both be
evicted, and with a check that takes the updated nodes for empty a pod stays
pending (the mutant of `EvictedPodsReturn`). A
maximum of four in `faults` leaves room to grow once too often. Two instances are a
predecessor and an heir in the classification loop. Two taints are one to take and one
to leave, in both orders; the thresholds of the decision lie at 10 and 46 ready nodes,
and the counts of `assessment` go to 60 and 6. Two targets are a node whose room
is lent to another; two pods are one that stays and one that arrives or leaves, or a pod
and its replacement; `ResourcesProofs` has any number. Two pages are one
that is read and one that fails; three turns are a failure, a success or a second
failure, and a turn beside an execution that hangs. The loop's counter is proved for
every number of turns.

### Disagreements

Each of these runs checks one sentence of the repository and ends in a
counterexample; `PROJECT.json` quotes the lines.

| run | the repository says | the code |
|---|---|---|
| `claim_shared_room` | old instances do not share one calculation of the room | after a failed termination the next one is drained on the same calculation |
| `claim_graceful` | outdated nodes are scaled down gracefully | drained-at survives a rollback; a node uncordoned and refilled in between is terminated full |
| `claim_outdated` | outdated means: differs from what the group asks for | an override's template stays the target for later instances |

Others are visible in the models without a run of their own:

* terminated-at is sent from a copy that the drain's cordon has made stale, and the
  error is dropped (`main.go:220`; `MarkTerminated`), although README.md:34 says that
  every step is persisted;
* the clean-up leaves the node unschedulable (`main.go:315-319`; `Cluster!Cleaned`);
* between the description of a group and the call that sets its size another
  execution or autoscaler may scale it, and is undone (`cloud/aws.go:128-138`;
  `DescribeLatest`, `Grow`): the comment at `cloud/aws.go:117` says this is avoided, and
  `IncrementsByOne` holds for a handler that is alone;
* when a scaling call's answer is lost the loop goes on in the same group, so that two
  old instances are handled on one calculation (`TerminateUnanswered`, `GrowUnanswered`);
* README.md:57 says that in slow mode the execution stops every time a node is terminated.
  It stops when it is told so: after a termination whose answer was lost it takes the
  `continue` of `main.go:216`, and may terminate another instance, in this group or in the
  next (`TerminateUnanswered`). `SlowModeStops` and `OneScalingPerGroup` are about what
  follows an answer;
* an outdated node is drained, terminated and the group shrunk while pods evicted before
  are still pending, because these are on no list (`k8s/util.go:51`, `RoomFound`): see
  Fairness for what this does to `EvictedPodsReturn`;
* the label may be missing when the drain begins (`main.go:192`; `ExcludeNode`);
* an execution outlasts EXECUTION_TIMEOUT, only the waiting for it ends (`TimeOut`);
* an instance whose override names a template that cannot be described is compared with
  another one (`main.go:421-423`; `unavailable`);
* `k8s/util.go:31` means to skip pods that have terminated; those that have succeeded
  count (`Resources!Counted`; `ShortMeansShort` speaks of the pods that were counted);
* a tag value with `=` in it never matches (`cloud/aws.go:59`), and groups beyond the
  first hundred names are not asked for (`cloud/aws.go:33`): `Process!Impaired`;
* a NoSchedule taint without a time on a node with started-at ends the process
  (`main.go:312`; `Assessment!Die`), a configured tag without `=` does
  (`cloud/aws.go:62`; `PanicOnTag`), on some groups and not on others;
* METRICS turns the metrics on with any value, "false" included (`config/config.go:103`;
  not modelled).

### Fairness

`RollingUpgrade.Fairness`: the main loop starts execution after execution and Go
runs those it has started (weak fairness of `Begin` and of each execution's
steps: calls return in the live run, whose `Fallible` is empty); the cache entry
expires after ten seconds; AWS and Kubernetes complete what they were asked for
(launch, put into service and remove instances, join nodes and report them ready:
finitely many steps, so one condition for all of them is enough); and the scheduler
does not rest while a pod has a place. No fairness is
assumed of crashes, timeouts or operators. Nor is it assumed that the
execution prefers any branch: `ExecStep` is fair as a whole.

`Process.ProcessFairSpec`: the main goroutine's calls return, with an answer or an
error, timers ring, and goroutines that are ready to send get to do so. It does not
assume that an execution ever returns.

`Assessment.FairSpec`: executions follow each other, and, with strong fairness, the cache
expires between two of them and an update that is tried again and again succeeds at
last: by default the interval (20 s) is longer than the cache (10 s), and conflicts
with the kubelet's status updates pass.

`EvictedPodsReturn` says that the check of the resources brings evicted pods back, on
a condition: whenever room is calculated, the scheduler has placed all pods
(`CalculatedWhenSettled`). The code does not see to that. Pods that are pending are on
no node, so the check does not count them, and without the condition the claim is
false on the instance of `rollout_live` already: o1 is drained and terminated, its
pod still pending; the next execution finds the updated node empty, takes that for the
room o2's pod needs, drains and terminates o2, and the group, smaller by two, is left
with one place for two pods. Nor would it hold after a scale-in by others. The
cluster autoscaler the README relies on is not modelled. `ShortMeansShort` and
`RoomMeansRoom` say what the check is worth for pods of other sizes.

`Converges` is checked with a group at its maximum that has one node to spare; a
group at its maximum all of whose outdated nodes are in use waits for an operator.
It needs no condition on the scheduler beyond its fairness. Liveness is checked
without eager cordoning, and nobody else scales the group.

## Proofs

All theorems hold for any groups, instances, pods, executions, sizes, failures,
restarts, timeouts and interventions, from the named assumptions on constants and the
assumptions mentioned below.

* `RolloutProofs!TypeCorrectness`: `Spec => []TypeOK`, action by action.
* `GracefulProofs`: `GracefulTermination` is not inductive: that a terminated
  instance stays empty depends on its node being closed, on no stale copy
  reopening it, and on the marks that made the handler skip the drain. The invariant `IInv`
  says what each mark promises (`Promise`: drained-at means closed and empty,
  terminated-at means AWS is at it), and says so of marks on the API server, in the cache
  and already read by an execution; what each label promises of the
  execution's instance (`HandPromise`); that copies an update would be accepted
  from agree with the API server on whether the node is closed and on whether it was
  drained; and that
  nodes go with their instances. The proof goes by who moves: steps of the loop and
  of the approach to an instance, drain and termination, everyone else.
  `GracefulRollout`, `DrainedMarksHold`, `TerminatedMarksHold` follow from the
  invariant and `CordonsLast` from the invariant and the step. They assume
  `NobodyUncordons`: an operator who uncordons a node breaks them, as
  `claim_graceful` shows.
* `RefinementProofs!RolloutImplementsLifecycle`: under the same assumption, every step
  of `RollingUpgrade` is a step of `NodeLifecycle` or leaves its state alone. Besides
  `IInv` it needs that pods run on nodes that exist (`PodsHaveNodes`). The invariant is
  what makes the steps legal: an eviction needs a closed node (the promise of `evict`),
  a termination an empty one (that of `terminate`), and the copies that an update is
  accepted from must remember a drain (`CopiesRemember`), or the update would take the
  record away.
* `ScalingProofs`: `OneScaling` (`OneScalingPerGroup`) and `SlowModeIsSlow`
  (`SlowModeStops`), without that assumption: they are about the control flow of one
  execution. The invariant `OrderKept` relates the history of an execution to its place: a
  group it knows it has scaled is neither in the queue nor the one it is in, unless it is
  about to leave it; in slow mode nothing is before it once it knows it has retired an
  instance. As an execution terminates only its instance, at `terminate`, and grows only
  its group, at `grow` (`NewDeeds`), neither can follow, whether it would be answered or
  not.
  `GrowthIsBounded` (`NoRunawayGrowth`) is about all executions. A group wants no more
  instances than have arrived (their node was ready once, or they were terminated), the
  laggards that are tolerated, and what one execution may ask for; whoever else scales
  adds one each time. That is one instance, or, if AWS' answers may be lost, one for
  each instance that was outdated from the start, since the handler goes on to the next
  after every answer it misses. The invariant `GrowthKept` has a bound for what each
  execution knows: a group still in the queue is no larger than its snapshot, the group
  it is in leaves room for everything it may still ask for (`Left`), and a request that
  is about to be sent fits. The assessment establishes it (`AssessmentCounts`): members
  are as many as the group wants, outdated ones have arrived, updated ones are ready,
  hence have arrived, or are tolerated laggards. Two assumptions enter here. Outdated
  instances have arrived only if nobody retargets the group. And no other execution grows
  the group in between only under `OneHandler`: no execution outlasts its timeout, or
  there is only one, so that the next cannot begin before it ends. Arrival lasts, and cached copies know of no other arrivals
  (`ArrivalsLast`). `RequestsAddOne` (`IncrementsByOne`) assumes `OneHandler` and that
  nobody else scales groups.
* `AssessmentProofs`: for groups, lists of conditions and lists of taints of any length.
  The invariant says that a copy with started-at is the node as it was at first and that
  a cleaned node has lost one taint; from it `CopiesSafe`, `OneTaintTaken`, `DeathIsEarned` and
  `TypeCorrect`, and with the arithmetic of `AcceptableShare` also `FewLaggards`.
* `LaunchTemplatesProofs`: the loop misjudges only instances that inherit a
  template or whose own could not be described (`OnlyHeirsMisjudged`), and so policies
  where no type or every type has a template of its own are safe
  (`UniformPoliciesJudgedByDefinition`). The invariant says where the carried template
  comes from.
* `ResourcesProofs`: `Tallied` says that the sums are those of the pods counted, and
  `Seen` that these are pods of listed nodes, among them all that run there and are in
  every watch cache; `Lives`, that no watch cache is ahead of what is true.
  So what it found available is what the listed targets have left but for
  `Newcomers`, the pods that run and are not in every watch cache: `RoomCanBeReliedUpon`.
  Pods that left, or were counted though they are over, make the answer short with room
  there, so `ShortageIsReal` is about the pods that run together with those counted
  (`Alive \cup counted`): pods placed one by one beside these fill no target beyond what
  it has, unless one is `Overcommitted` with them. `UnitPodsCanBePlaced`: pods of one unit
  can be dealt out to targets as long as the total is positive. The sums are folds over
  finite sets. What they add up to is
  shown by removing one element at a time: strict inclusion of finite sets is
  well-founded, so a set of counterexamples would have a smallest member (`ByRemoval`),
  which needs no induction over an operator.
* `ProcessProofs`: of the main loop, the counter counts the failures since the last
  success (`Counted`), hence `PanicIsEarned`. The process implements the loop (`ProcessRunsLoop`), so its panic is
  earned too; `PInv` says that of the pages read so far `found` has the enabled
  groups and no others (`Discovered`), hence `EnabledGroupsStarted`.

Every invariant the runs check is proved, but with these differences: the theorems about
marks and cordons leave out operators who uncordon, `GrowthIsBounded` leaves out moves
of a group's target and two executions at once, and `RequestsAddOne` leaves out two
executions and others who scale. `rollout_faults` checks `NoRunawayGrowth` with moves of
the target, in a group of three; in larger groups each move may make all laggards
outdated, so the bound would have to count the tolerance once per move. The strengthened
invariant `GrowthKept` was checked on an instance with two outdated nodes, lost answers
and others who scale before it was proved; there the bound is reached.

Checked by TLC only: liveness (`Converges`, `EvictedPodsReturn`, `CleanUpsComplete`,
`TurnsEnd`, `GoroutinesEnd`), which the proof system cannot do.

## Not modelled

* Metrics: counters and gauges nothing in the program reads back.
* The Kubernetes client set and the AWS sessions: pure input and output; their failures
  are `NoClient` and the failing calls.
* The parsing of numbers, flags and defaults in `config.Initialize`, beyond whether they
  can be parsed; flags are the constants of `RollingUpgrade`.
* The test doubles.
* Load balancers, and with them what the exclusion label is good for.
* Kubernetes' drain library beyond what the code asks of it: pods it refuses to evict
  (local data, no controller) are failures of the drain.

## Possible extensions

* `RollingUpgrade` has one cache per process. Two handlers with a cache each, which
  README.md and `main.go:153` allow for, would need one cache per process; the executions
  of one process that overlap cover the interleavings but not the second cache.
* That the group as a comparison of versions is what `LaunchTemplates` computes for
  uniform policies is checked there, and not composed with `RollingUpgrade`.
