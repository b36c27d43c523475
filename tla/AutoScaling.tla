---------------------------- MODULE AutoScaling ----------------------------
(***************************************************************************)
(* The AWS side of a rolling update: auto scaling groups, the instances    *)
(* they own and the two calls of cloud/aws.go that change them.  What AWS  *)
(* does by itself (launching, retiring, scaling in) is external to the     *)
(* repository and is modelled from what the handler relies on.             *)
(***************************************************************************)
EXTENDS Integers, FiniteSets

CONSTANTS
    Groups,             \* auto scaling groups the handler is configured for
    Instances,          \* every instance id that can ever exist
    GroupOf,            \* the group an instance belongs to
    MinSize, MaxSize,   \* per group
    Versions,           \* launch template versions / launch configurations
    FirstTarget,        \* what every group asks for when the handler starts
    InitialVersion      \* version of each instance that exists at the start

Initial == DOMAIN InitialVersion     \* instances that exist at the start

GroupSize(g) == Cardinality({i \in Initial : GroupOf[i] = g})

ASSUME AutoScalingAssumption ==
    /\ IsFiniteSet(Instances)
    /\ GroupOf \in [Instances -> Groups]
    /\ MinSize \in [Groups -> Nat]
    /\ MaxSize \in [Groups -> Nat]
    /\ FirstTarget \in Versions
    /\ Initial \subseteq Instances
    /\ InitialVersion \in [Initial -> Versions]

ASSUME SizesAssumption ==
    \A g \in Groups : GroupSize(g) \in MinSize[g] .. MaxSize[g]

VARIABLES
    desired,     \* desired capacity of each group
    lifecycle,   \* lifecycle state of each instance
    version,     \* launch template version an instance was launched from
    target,      \* version each group asks for
    retired      \* history: instances whose termination the handler obtained

awsVars == <<desired, lifecycle, version, target, retired>>

Lifecycles == {"none", "Pending", "InService", "Terminating", "gone"}

AutoScalingTypeOK ==
    /\ desired \in [Groups -> Nat]
    /\ lifecycle \in [Instances -> Lifecycles]
    /\ version \in [Instances -> Versions]
    /\ target \in [Groups -> Versions]
    /\ retired \subseteq Instances

AutoScalingInit ==
    /\ desired = [g \in Groups |-> GroupSize(g)]
    /\ lifecycle = [i \in Instances |-> IF i \in Initial THEN "InService" ELSE "none"]
    /\ version = [i \in Instances |-> IF i \in Initial THEN InitialVersion[i] ELSE FirstTarget]
    /\ target = [g \in Groups |-> FirstTarget]
    /\ retired = {}

\* What DescribeAutoScalingGroups lists for a group; terminating instances
\* stay listed until they are gone.
Members(g) == {i \in Instances : GroupOf[i] = g /\ lifecycle[i] \in {"Pending", "InService", "Terminating"}}
Active(g) == {i \in Members(g) : lifecycle[i] # "Terminating"}

-----------------------------------------------------------------------------
(* Calls of the handler.                                                   *)

TerminationAllowed(i, decrement) ==
    /\ lifecycle[i] \in {"Pending", "InService"}
    /\ decrement => desired[GroupOf[i]] > MinSize[GroupOf[i]]

\* TerminateInstanceInAutoScalingGroup, accepted by AWS.
TerminateEc2Instance(i, decrement) ==
    /\ TerminationAllowed(i, decrement)
    /\ lifecycle' = [lifecycle EXCEPT ![i] = "Terminating"]
    /\ desired' = IF decrement THEN [desired EXCEPT ![GroupOf[i]] = @ - 1] ELSE desired
    /\ retired' = retired \cup {i}
    /\ UNCHANGED <<version, target>>

\* SetDesiredCapacity, accepted by AWS: an absolute value, whatever it was.
\* The handler, operators and other autoscalers all use this call.
SetDesiredCapacity(g, n) ==
    /\ n \in MinSize[g] .. MaxSize[g]
    /\ desired' = [desired EXCEPT ![g] = n]
    /\ UNCHANGED <<lifecycle, version, target, retired>>

-----------------------------------------------------------------------------
(* What AWS does by itself.                                                *)

\* A group below its desired capacity launches an instance of its target.
Launch(i) ==
    LET g == GroupOf[i] IN
    /\ lifecycle[i] = "none"
    /\ Cardinality(Active(g)) < desired[g]
    /\ lifecycle' = [lifecycle EXCEPT ![i] = "Pending"]
    /\ version' = [version EXCEPT ![i] = target[g]]
    /\ UNCHANGED <<desired, target, retired>>

EnterService(i) ==
    /\ lifecycle[i] = "Pending"
    /\ lifecycle' = [lifecycle EXCEPT ![i] = "InService"]
    /\ UNCHANGED <<desired, version, target, retired>>

\* A group above its desired capacity terminates any of its instances.
ScaleIn(i) ==
    /\ i \in Active(GroupOf[i])
    /\ Cardinality(Active(GroupOf[i])) > desired[GroupOf[i]]
    /\ lifecycle' = [lifecycle EXCEPT ![i] = "Terminating"]
    /\ UNCHANGED <<desired, version, target, retired>>

Vanish(i) ==
    /\ lifecycle[i] = "Terminating"
    /\ lifecycle' = [lifecycle EXCEPT ![i] = "gone"]
    /\ UNCHANGED <<desired, version, target, retired>>

\* An operator points the group to another version, or back to an old one.
Retarget(g, v) ==
    /\ v # target[g]
    /\ target' = [target EXCEPT ![g] = v]
    /\ UNCHANGED <<desired, lifecycle, version, retired>>
=============================================================================
