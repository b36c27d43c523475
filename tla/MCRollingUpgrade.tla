-------------------------- MODULE MCRollingUpgrade --------------------------
(***************************************************************************)
(* Instances of RollingUpgrade for TLC.                                    *)
(***************************************************************************)
EXTENDS RolloutRefinement, DocumentedClaims, TLC

CONSTANTS o1, o2, n1, n2, old, new, g1, g2, p1, p2

\* One group, whose first instances are both outdated, or only one of them.
OneGroup == {g1}
InGroup1 == [i \in Instances |-> g1]
Min0 == [g \in Groups |-> 0]
Min1 == [g \in Groups |-> 1]
Max4 == [g \in Groups |-> 4]
Max3 == [g \in Groups |-> 3]
BothOld == (o1 :> old) @@ (o2 :> old)
HalfDone == (o1 :> old) @@ (n1 :> new)

\* Two groups of one outdated instance each; the first has an up-to-date one too,
\* the second has to grow.
TwoGroups == {g1, g2}
InTwoGroups == [i \in Instances |-> IF i \in {o1, n1} THEN g1 ELSE g2]
AllThree == (o1 :> old) @@ (o2 :> old) @@ (n1 :> new)

PodSymmetry == Permutations(Pods)
=============================================================================
