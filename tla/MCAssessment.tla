---------------------------- MODULE MCAssessment ----------------------------
(***************************************************************************)
(* Instances of Assessment for TLC: every node with up to two taints in a  *)
(* group with one other, and groups of plain nodes around the thresholds   *)
(* of the decision, which lie at 10 and 46 ready nodes.                    *)
(***************************************************************************)
EXTENDS Assessment

Late == [effect |-> "NoSchedule", added |-> "after"]
Timeless == [effect |-> "NoSchedule", added |-> "never"]
Early == [effect |-> "NoSchedule", added |-> "before"]
Custom == [effect |-> "other", added |-> "never"]

ShortConditions == {<<>>, <<"Ready">>, <<"Other", "NotReady">>, <<"Ready", "Other">>}
ShortTaints == UNION {[1 .. n -> {Late, Timeless, Early, Custom}] : n \in 0 .. 2}

AllNodes == [conditions : ShortConditions, taints : ShortTaints, started : {"none", "garbled", "time"}]

Plain == [conditions |-> <<"Other", "Ready">>, taints |-> <<>>, started |-> "none"]
Stain == [conditions |-> <<"Other", "Ready">>, taints |-> <<Late, Custom>>, started |-> "time"]

Nobody == [ready |-> 0, nonReady |-> 0]

Pairs ==
    {[before |-> b, nodes |-> <<n, m>>, serving |-> s] :
        b \in {Nobody, [ready |-> 18, nonReady |-> 0]},
        n \in AllNodes, m \in {Plain, Stain, NoNode}, s \in {{1, 2}, {1}}}

Crowds ==
    {[before |-> [ready |-> r, nonReady |-> n], nodes |-> <<m>>, serving |-> {1}] :
        r \in 0 .. 60, n \in 0 .. 6, m \in {Plain, NoNode}}

PairsAndCrowds == Pairs \cup Crowds
=============================================================================
