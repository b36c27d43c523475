--------------------------- MODULE LaunchTemplates ---------------------------
(***************************************************************************)
(* Which instances of a group are outdated: SeparateOutdatedFromUpdated-   *)
(* Instances of main.go and the two functions it hands over to.  The loop  *)
(* goes over the instances in the order AWS lists them and carries the     *)
(* template it compares with from one instance to the next.                *)
(*                                                                         *)
(* A launch template's name and id stand and fall together here: AWS       *)
(* reports both wherever it reports a template.                            *)
(***************************************************************************)
EXTENDS Naturals

CONSTANTS
    Templates,        \* launch templates
    Numbers,          \* their version numbers
    DefaultVersion,   \* the number $Default stands for, of each template
    LatestVersion,    \* the number $Latest stands for, of each template
    Configurations,   \* launch configurations
    Nothing,          \* no launch template, no launch configuration
    Types,            \* instance types
    Policies,         \* overrides of the mixed instances policies considered
    Size,             \* number of instances of the group
    DescribeFails     \* describing a launch template may fail

\* The version may be missing ("none"): the API makes no promise of it.
Specification == [template : Templates, version : Numbers \cup {"$Default", "$Latest", "none"}]

\* Overrides by instance type: each may name a template of its own or none.
NoOverrides == [type \in {} |-> Nothing]

ASSUME LaunchTemplatesAssumption ==
    /\ {DefaultVersion, LatestVersion} \subseteq [Templates -> Numbers]
    /\ Configurations \cap Specification = {}
    /\ Nothing \notin Specification \cup Configurations
    /\ \A o \in Policies : o \in [DOMAIN o -> Specification \cup {Nothing}]
    /\ Size \in Nat
    /\ DescribeFails \in BOOLEAN

VARIABLES
    target,      \* what the group asks for
    overrides,   \* of its mixed instances policy
    instances,   \* its instances, in the order AWS lists them
    pc,
    k,           \* the instance the loop looks at
    current,     \* targetLaunchTemplate, with which it compares
    outdated,    \* oldInstances, by their positions
    unavailable  \* history: instances whose own template could not be described

input == <<target, overrides, instances>>
vars == <<input, pc, k, current, outdated, unavailable>>

Positions == 1 .. Size
Instance == [type : Types, launchedFrom : Specification \cup Configurations]

\* Every variable stays in its type: the loop compares with launch templates
\* only and never looks past the last instance.
TypeOK ==
    /\ target \in Specification \cup Configurations \cup {Nothing}
    /\ overrides \in Policies \cup {NoOverrides}
    /\ instances \in [Positions -> Instance]
    /\ pc \in {"describe", "loop", "done", "failed"}
    /\ k \in 1 .. Size + 1
    /\ current \in Specification \cup {Nothing}
    /\ outdated \subseteq Positions
    /\ unavailable \subseteq Positions

Init ==
    /\ target \in Specification \cup Configurations \cup {Nothing}
    /\ overrides \in IF target \in Specification THEN Policies \cup {NoOverrides} ELSE {NoOverrides}
    /\ instances \in [Positions -> Instance]
    /\ pc = "describe"
    /\ k = 1
    /\ current = Nothing
    /\ outdated = {}
    /\ unavailable = {}

-----------------------------------------------------------------------------

Resolved(version, template) ==
    IF version = "$Default" THEN DefaultVersion[template]
    ELSE IF version = "$Latest" THEN LatestVersion[template]
    ELSE version

\* compareLaunchTemplateVersions, of two versions of one template; a missing
\* version is the same as a missing one only, not as the default.
SameVersion(s, t) == Resolved(s.version, s.template) = Resolved(t.version, s.template)

\* isInstanceTypePartOfLaunchTemplateOverrides
PartOfOverrides(type) == type \in DOMAIN overrides

\* The template an override names for the instance's type, if it does.
OwnTemplate(type) == IF PartOfOverrides(type) THEN overrides[type] ELSE Nothing

\* What puts an instance on the list of old ones, compared with t.
Differs(instance, t) ==
    \/ instance.launchedFrom \notin Specification
    \/ instance.launchedFrom.template # t.template
    \/ ~SameVersion(t, instance.launchedFrom)
    \/ DOMAIN overrides # {} /\ ~PartOfOverrides(instance.type)

-----------------------------------------------------------------------------

\* Mutant: a launch configuration is taken for a launch template.
DescribeTarget_Any ==
    /\ pc = "describe"
    /\ target # Nothing
    /\ pc' = "loop"
    /\ current' = target
    /\ UNCHANGED <<input, k, outdated, unavailable>>

\* The group's own launch template, or its policy's, is described first.
DescribeTarget ==
    /\ pc = "describe"
    /\ target \in Specification
    /\ \/ pc' = "loop" /\ current' = target
       \/ DescribeFails /\ pc' = "failed" /\ UNCHANGED current
    /\ UNCHANGED <<input, k, outdated, unavailable>>

NoTarget ==
    /\ pc = "describe"
    /\ target = Nothing
    /\ pc' = "failed"
    /\ UNCHANGED <<input, k, current, outdated, unavailable>>

\* Mutant: the instance is compared before its own template replaces the target.
Compare_First ==
    /\ pc = "loop"
    /\ k \in Positions
    /\ outdated' = outdated \cup {i \in {k} : Differs(instances[i], current)}
    /\ LET own == OwnTemplate(instances[k].type)
       IN current' = IF own = Nothing THEN current ELSE own
    /\ k' = k + 1
    /\ UNCHANGED <<input, pc, unavailable>>

\* One turn of the loop.  A template of its own replaces the target, for this
\* instance and those after it; if it cannot be described, the target stays.
Compare ==
    /\ pc = "loop"
    /\ k \in Positions
    /\ LET own == OwnTemplate(instances[k].type)
       IN \/ own # Nothing /\ current' = own /\ UNCHANGED unavailable
          \/ own = Nothing /\ UNCHANGED <<current, unavailable>>
          \/ /\ own # Nothing /\ DescribeFails
             /\ unavailable' = unavailable \cup {k}
             /\ UNCHANGED current
    /\ outdated' = outdated \cup {i \in {k} : Differs(instances[i], current')}
    /\ k' = k + 1
    /\ UNCHANGED <<input, pc>>

\* Mutant: the last instance is left out.
Return_Early ==
    /\ pc = "loop"
    /\ k = Size
    /\ pc' = "done"
    /\ UNCHANGED <<input, k, current, outdated, unavailable>>

\* Every instance has been looked at.
Return ==
    /\ pc = "loop"
    /\ k = Size + 1
    /\ pc' = "done"
    /\ UNCHANGED <<input, k, current, outdated, unavailable>>

\* SeparateOutdatedFromUpdatedInstancesUsingLaunchConfiguration
CompareConfigurations ==
    /\ pc = "describe"
    /\ target \in Configurations
    /\ outdated' = {i \in Positions : instances[i].launchedFrom # target}
    /\ pc' = "done"
    /\ UNCHANGED <<input, k, current, unavailable>>

Next == DescribeTarget \/ NoTarget \/ Compare \/ Return \/ CompareConfigurations

Spec == Init /\ [][Next]_vars

-----------------------------------------------------------------------------
(* Properties.                                                             *)

\* What an instance should be compared with: its type's own template, or the
\* group's.
Wanted(i) == IF OwnTemplate(instances[i].type) # Nothing THEN OwnTemplate(instances[i].type) ELSE target

\* README.md:8, `nodes whose current configuration does not match its ASG's
\* current launch template version or launch configuration', and step 4 of
\* `Behavior': nor its list of instance types.
OutdatedByDefinition(i) ==
    IF target \in Configurations THEN instances[i].launchedFrom # target
    ELSE Differs(instances[i], Wanted(i))

\* The loop finds exactly the outdated instances.
SeparatesByDefinition ==
    pc = "done" => outdated = {i \in Positions : OutdatedByDefinition(i)}

\* Position i is compared with a template that is neither the group's nor
\* that of its own type: it stays from an earlier instance.
MayInherit(i) ==
    /\ OwnTemplate(instances[i].type) = Nothing
    /\ \E j \in 1 .. i - 1 : OwnTemplate(instances[j].type) # Nothing

\* The loop misjudges nothing but instances whose own template could not be
\* described and instances without one that come after one with (main.go:427-430
\* overwrite the target for the rest of the loop).
MisjudgesOnlyHeirs ==
    target \in Specification =>
        \A i \in 1 .. k - 1 :
            (i \in outdated <=> OutdatedByDefinition(i)) \/ MayInherit(i) \/ i \in unavailable

\* A policy none of whose types has a template of its own is judged by
\* definition; so is one all of whose types have, when all could be described.
UniformPoliciesAreSafe ==
    \/ \A type \in DOMAIN overrides : overrides[type] = Nothing
    \/ unavailable = {} /\ \A type \in DOMAIN overrides : overrides[type] # Nothing
    => SeparatesByDefinition
=============================================================================
