----------------------------- MODULE MCResources -----------------------------
(***************************************************************************)
(* Resources for TLC: two targets of two sizes and two pods, of kinds that *)
(* differ in what they ask for, in how they end and in whether they count. *)
(***************************************************************************)
EXTENDS Resources, TLC

Of(c, m) == [r \in Resource |-> IF r = "cpu" THEN c ELSE m]
Pod(requests, ends, daemon) == [requests |-> requests, ends |-> ends, daemon |-> daemon]

TwoSizes == {Of(1, 1), Of(2, 1)}

FiveKinds == {
    Pod(Of(1, 0), "Succeeded", FALSE),
    Pod(Of(1, 0), "Failed", FALSE),
    Pod(Of(0, 1), "Failed", FALSE),
    Pod(Of(2, 1), "Succeeded", FALSE),
    Pod(Of(1, 0), "Failed", TRUE)}

AlikePods == Permutations(Pods) \cup Permutations(Targets)
=============================================================================
