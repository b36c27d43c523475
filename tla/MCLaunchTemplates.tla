-------------------------- MODULE MCLaunchTemplates --------------------------
(***************************************************************************)
(* Instances of LaunchTemplates for TLC: two templates of two versions     *)
(* each, of which $Default and $Latest differ, and three instance types of *)
(* which a policy names two.                                               *)
(***************************************************************************)
EXTENDS LaunchTemplates

CONSTANTS t1, t2, c1, A, B, C

First == [t \in Templates |-> "1"]
Second == [t \in Templates |-> "2"]

Named == {[template |-> t2, version |-> "$Latest"], [template |-> t1, version |-> "1"]}

\* Every policy.
AllPolicies == UNION {[s -> Named \cup {Nothing}] : s \in SUBSET {A, B}}
=============================================================================
