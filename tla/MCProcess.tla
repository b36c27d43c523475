------------------------------ MODULE MCProcess ------------------------------
(***************************************************************************)
(* Process for TLC: two groups, each on its page, and environments that    *)
(* select them in every way, right and wrong.                              *)
(***************************************************************************)
EXTENDS Process

CONSTANTS g1, g2, ours

TwoPages == [g \in AwsGroups |-> IF g = g2 THEN 2 ELSE 1]
OurKey == [c \in {ours} |-> "k8s.io/cluster-autoscaler/ours"]
SplitOnce == [v \in Values |-> IF v = "a=b" THEN "a" ELSE v]

T(key, value) == [key |-> key, value |-> value]
Env(cluster, tags, names, numbers) ==
    [clusterName |-> cluster, autodiscoveryTags |-> tags, autoScalingGroupNames |-> names, numbers |-> numbers]

SomeEnvironments == {
    Env(ours, {T("team", Missing)}, {g1}, TRUE),
    Env(Unset, {T("team", "a"), T("enabled", "true")}, {g1}, TRUE),
    Env(Unset, {T("team", Missing), T("enabled", "true")}, {}, TRUE),
    Env(Unset, {T("team", "a=b")}, {}, TRUE),
    Env(Unset, {}, {g1}, TRUE),
    Env(Unset, {}, AwsGroups, TRUE),
    Env(Unset, {}, {}, TRUE),
    Env(ours, {}, {}, FALSE)}

SomeTagSets == {Tags(ours), {T("enabled", "true")}, {T("team", "a"), T("enabled", "true")}}
=============================================================================
