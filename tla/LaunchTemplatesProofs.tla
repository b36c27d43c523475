------------------------ MODULE LaunchTemplatesProofs ------------------------
(***************************************************************************)
(* For every group, policy and list of instances: what the loop over the   *)
(* instances may misjudge, and what it never does.                         *)
(***************************************************************************)
EXTENDS LaunchTemplates, TLAPS

\* Instance i has been looked at.
Seen(i) == i \in Positions /\ i < k

\* The template that is carried is the group's until an instance brings its own.
Carried ==
    pc = "loop" =>
        current = target \/ \E j \in Positions : Seen(j) /\ OwnTemplate(instances[j].type) # Nothing

\* What is known of an instance that has been looked at: it was judged by
\* definition or has an excuse, and a type the policy does not name was found
\* outdated without one.
Judged ==
    pc \in {"loop", "done"} /\ target \in Specification =>
        \A i \in Positions : Seen(i) =>
            /\ (i \in outdated <=> OutdatedByDefinition(i)) \/ MayInherit(i) \/ i \in unavailable
            /\ DOMAIN overrides # {} /\ ~PartOfOverrides(instances[i].type) => i \in outdated

\* Where the loop is.
Progress ==
    /\ pc \in {"loop", "done"} => target \in Specification \cup Configurations
    /\ pc = "loop" => target \in Specification /\ \A i \in outdated : i < k
    /\ pc \in {"describe", "failed"} => k = 1 /\ outdated = {}
    /\ pc = "done" /\ target \in Specification => k = Size + 1
    /\ pc = "done" /\ target \in Configurations =>
           outdated = {i \in Positions : instances[i].launchedFrom # target}
    /\ target \in Configurations => overrides = NoOverrides

\* Only a template of its own can have been impossible to describe.
Excused == \A i \in unavailable : OwnTemplate(instances[i].type) # Nothing

IInv == TypeOK /\ Excused /\ Carried /\ Judged /\ Progress

\* A template of its own is a template.
LEMMA OwnTemplateType ==
    ASSUME TypeOK, NEW i \in Positions
    PROVE  OwnTemplate(instances[i].type) \in Specification \cup {Nothing}
<1>1. CASE overrides \in Policies
  BY <1>1, LaunchTemplatesAssumption DEF OwnTemplate, PartOfOverrides
<1>2. CASE overrides = NoOverrides
  BY <1>2 DEF OwnTemplate, PartOfOverrides, NoOverrides
<1> QED
  BY <1>1, <1>2 DEF TypeOK

\* Nothing has been judged when the loop starts.
LEMMA InitInv == Init => IInv
<1> SUFFICES ASSUME Init PROVE IInv
  OBVIOUS
<1> USE DEF Init
<1>1. TypeOK
  BY LaunchTemplatesAssumption DEF TypeOK
<1>2. Progress
  BY LaunchTemplatesAssumption DEF Progress
<1> QED
  BY <1>1, <1>2 DEF IInv, Excused, Carried, Judged

\* One turn of the loop keeps the invariant.
LEMMA CompareInv ==
    ASSUME IInv, Compare
    PROVE  IInv'
<1> DEFINE own == OwnTemplate(instances[k].type)
<1>t. /\ TypeOK /\ k \in Positions /\ Size \in Nat /\ k' = k + 1 /\ pc = "loop" /\ pc' = "loop"
      /\ target' = target /\ overrides' = overrides /\ instances' = instances
      /\ target \in Specification
  BY LaunchTemplatesAssumption DEF IInv, Compare, Progress, input
<1>o. own \in Specification \cup {Nothing}
  BY <1>t, OwnTemplateType
<1>c. \/ own # Nothing /\ current' = own /\ unavailable' = unavailable
      \/ own = Nothing /\ current' = current /\ unavailable' = unavailable
      \/ own # Nothing /\ current' = current /\ unavailable' = unavailable \cup {k}
  BY DEF Compare
<1>d. /\ \A i \in Positions : i # k => (i \in outdated' <=> i \in outdated)
      /\ k \in outdated' <=> k \in outdated \/ Differs(instances[k], current')
      /\ outdated' \subseteq Positions
  BY <1>t DEF Compare, TypeOK
<1>s. \A i \in Positions : Seen(i)' <=> Seen(i) \/ i = k
  BY <1>t DEF Seen, Positions
<1>1. TypeOK'
  <2>1. k' \in 1 .. Size + 1
    BY <1>t DEF Positions
  <2>2. current' \in Specification \cup {Nothing} /\ unavailable' \subseteq Positions
    BY <1>t, <1>o, <1>c DEF TypeOK
  <2> QED
    BY <1>t, <1>d, <2>1, <2>2 DEF TypeOK
<1>2. Carried'
  BY <1>t, <1>c, <1>s DEF IInv, Carried, OwnTemplate, PartOfOverrides
<1>3. Progress'
  <2>1. \A i \in outdated' : i < k'
    BY <1>t, <1>d DEF IInv, Progress, Positions
  <2> QED
    BY <1>t, <2>1, LaunchTemplatesAssumption DEF IInv, Progress
<1>4. Judged'
  <2> SUFFICES ASSUME NEW i \in Positions, Seen(i)'
               PROVE  /\ \/ i \in outdated' <=> OutdatedByDefinition(i)
                         \/ MayInherit(i)
                         \/ i \in unavailable'
                      /\ DOMAIN overrides # {} /\ ~PartOfOverrides(instances[i].type) => i \in outdated'
    BY <1>t DEF Judged, OutdatedByDefinition, Wanted, Differs, MayInherit, OwnTemplate, PartOfOverrides
  <2>1. CASE i # k
    BY <1>t, <1>c, <1>d, <1>s, <2>1 DEF IInv, Judged
  <2>2. CASE i = k
    <3>1. DOMAIN overrides # {} /\ ~PartOfOverrides(instances[k].type) => k \in outdated'
      BY <1>d DEF Differs
    <3>2. k \in outdated' <=> Differs(instances[k], current')
      BY <1>t, <1>d DEF IInv, Progress, Positions
    <3>3. OutdatedByDefinition(k) <=> Differs(instances[k], IF own # Nothing THEN own ELSE target)
      BY <1>t, LaunchTemplatesAssumption DEF OutdatedByDefinition, Wanted
    <3>4. CASE current' = IF own # Nothing THEN own ELSE target
      BY <2>2, <3>1, <3>2, <3>3, <3>4
    <3>5. CASE own # Nothing /\ unavailable' = unavailable \cup {k}
      BY <2>2, <3>1, <3>5
    <3>6. CASE own = Nothing /\ current' # target
      <4>1. PICK j \in Positions : Seen(j) /\ OwnTemplate(instances[j].type) # Nothing
        BY <1>t, <1>c, <3>6 DEF IInv, Carried
      <4>2. j \in 1 .. k - 1
        BY <1>t, <4>1 DEF Seen, Positions
      <4>3. MayInherit(k)
        BY <3>6, <4>1, <4>2 DEF MayInherit
      <4> QED
        BY <2>2, <3>1, <4>3
    <3> QED
      BY <1>c, <3>4, <3>5, <3>6
  <2> QED
    BY <2>1, <2>2
<1>5. Excused'
  BY <1>t, <1>c DEF IInv, Excused, OwnTemplate, PartOfOverrides
<1> QED
  BY <1>1, <1>2, <1>3, <1>4, <1>5 DEF IInv

\* So does every other step.
LEMMA StepInv == IInv /\ [Next]_vars => IInv'
<1> SUFFICES ASSUME IInv, [Next]_vars PROVE IInv'
  OBVIOUS
<1> USE DEF Seen
<1>1. CASE UNCHANGED vars
  BY <1>1 DEF vars, input, IInv, TypeOK, Excused, Carried, Judged, Progress, OutdatedByDefinition, Wanted,
              Differs, MayInherit, OwnTemplate, PartOfOverrides
<1>2. CASE DescribeTarget
  BY <1>2, LaunchTemplatesAssumption
     DEF DescribeTarget, input, IInv, TypeOK, Excused, Carried, Judged, Progress, Positions,
         OwnTemplate, PartOfOverrides
<1>3. CASE NoTarget
  BY <1>3, LaunchTemplatesAssumption
     DEF NoTarget, input, IInv, TypeOK, Excused, Carried, Judged, Progress, OwnTemplate, PartOfOverrides
<1>4. CASE Compare
  BY <1>4, CompareInv
<1>5. CASE Return
  BY <1>5, LaunchTemplatesAssumption
     DEF Return, input, IInv, TypeOK, Excused, Carried, Judged, Progress, OutdatedByDefinition, Wanted,
         Differs, MayInherit, OwnTemplate, PartOfOverrides
<1>6. CASE CompareConfigurations
  BY <1>6, LaunchTemplatesAssumption
     DEF CompareConfigurations, input, IInv, TypeOK, Excused, Carried, Judged, Progress,
         OwnTemplate, PartOfOverrides
<1> QED
  BY <1>1, <1>2, <1>3, <1>4, <1>5, <1>6 DEF Next

\* The invariant holds in every reachable state.
THEOREM InvariantKept == Spec => []IInv
BY InitInv, StepInv, PTL DEF Spec

\* Type correctness.
THEOREM TypeCorrectness == Spec => []TypeOK
<1>1. IInv => TypeOK
  BY DEF IInv
<1> QED
  BY <1>1, InvariantKept, PTL

\* The loop misjudges nothing but instances whose own template could not be
\* described, and instances without one that come after one with.
THEOREM OnlyHeirsMisjudged == Spec => []MisjudgesOnlyHeirs
<1>1. IInv => MisjudgesOnlyHeirs
  <2> SUFFICES ASSUME IInv, target \in Specification, NEW i \in 1 .. k - 1
               PROVE  (i \in outdated <=> OutdatedByDefinition(i)) \/ MayInherit(i) \/ i \in unavailable
    BY DEF MisjudgesOnlyHeirs
  <2>1. i \in Positions /\ Seen(i)
    BY LaunchTemplatesAssumption DEF IInv, TypeOK, Positions, Seen
  <2>2. pc \in {"loop", "done"}
    BY DEF IInv, TypeOK, Progress
  <2> QED
    BY <2>1, <2>2 DEF IInv, Judged
<1> QED
  BY <1>1, InvariantKept, PTL

\* A policy none of whose types has a template of its own, or all of whose
\* types have one that can be described, is judged by definition.
THEOREM UniformPoliciesJudgedByDefinition == Spec => []UniformPoliciesAreSafe
<1>1. IInv => UniformPoliciesAreSafe
  <2> SUFFICES ASSUME IInv, pc = "done",
                      \/ \A type \in DOMAIN overrides : overrides[type] = Nothing
                      \/ unavailable = {} /\ \A type \in DOMAIN overrides : overrides[type] # Nothing,
                      NEW i \in Positions
               PROVE  i \in outdated <=> OutdatedByDefinition(i)
    BY DEF UniformPoliciesAreSafe, SeparatesByDefinition, IInv, TypeOK
  <2>1. CASE target \in Configurations
    BY <2>1 DEF IInv, Progress, OutdatedByDefinition
  <2>2. CASE target \in Specification
    <3>1. Seen(i)
      BY <2>2, LaunchTemplatesAssumption DEF IInv, Progress, Positions, Seen
    <3>2. /\ (i \in outdated <=> OutdatedByDefinition(i)) \/ MayInherit(i) \/ i \in unavailable
          /\ DOMAIN overrides # {} /\ ~PartOfOverrides(instances[i].type) => i \in outdated
      BY <2>2, <3>1 DEF IInv, Judged
    <3>3. CASE \A type \in DOMAIN overrides : overrides[type] = Nothing
      <4>1. \A j \in Positions : OwnTemplate(instances[j].type) = Nothing
        BY <3>3 DEF OwnTemplate, PartOfOverrides
      <4>2. \A j \in 1 .. i - 1 : j \in Positions
        BY LaunchTemplatesAssumption DEF Positions
      <4> QED
        BY <3>2, <4>1, <4>2 DEF MayInherit, IInv, Excused
    <3>4. CASE unavailable = {} /\ \A type \in DOMAIN overrides : overrides[type] # Nothing
      <4>1. CASE ~MayInherit(i)
        BY <3>2, <3>4, <4>1
      <4>2. CASE MayInherit(i)
        <5>1. DOMAIN overrides # {} /\ ~PartOfOverrides(instances[i].type)
          BY <3>4, <4>2 DEF MayInherit, OwnTemplate, PartOfOverrides
        <5>2. OutdatedByDefinition(i)
          BY <2>2, <5>1, LaunchTemplatesAssumption DEF OutdatedByDefinition, Differs
        <5> QED
          BY <3>2, <5>1, <5>2
      <4> QED
        BY <4>1, <4>2
    <3> QED
      BY <3>3, <3>4
  <2> QED
    BY <2>1, <2>2 DEF IInv, Progress
<1> QED
  BY <1>1, InvariantKept, PTL
=============================================================================
