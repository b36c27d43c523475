-------------------------- MODULE AssessmentProofs --------------------------
(***************************************************************************)
(* For every group, of any size, with nodes of any conditions and taints.  *)
(***************************************************************************)
EXTENDS Assessment, SequenceTheorems, FiniteSetTheorems, WellFoundedInduction, TLAPS

\* The documented confidence in exact numbers: a rollout goes on when fewer
\* than one updated node in ten lags behind, and five at the most.
THEOREM AcceptableShare ==
    ASSUME NEW n \in Nat, NEW r \in Nat
    PROVE  HasAcceptable(n, r) <=> n = 0 \/ (n =< 5 /\ 10 * n < n + r)
BY DEF HasAcceptable

\* Arithmetic: what is counted as not ready bounds what lags behind.
LEMMA ShareBounded ==
    ASSUME NEW n \in Nat, NEW c \in Nat, NEW r \in Nat, NEW b \in Nat, NEW l \in Nat, NEW behind \in Nat,
           n + c = b + l, b + behind =< n,
           n = 0 \/ (n =< 5 /\ 10 * n < n + (r + c))
    PROVE  b + behind = 0 \/ (b + behind =< 5 /\ 10 * (b + behind) < r + b + l)
OBVIOUS

\* A set of numbers has a least one.
LEMMA Least ==
    ASSUME NEW S \in SUBSET Nat, S # {}
    PROVE  \E j \in S : \A l \in S : j =< l
<1> DEFINE R == OpToRel(<, Nat)
<1>1. IsWellFoundedOn(R, Nat)
  BY NatLessThanWellFounded, Zenon
<1>2. \A x, y \in Nat : x < y => <<x, y>> \in R
  BY Zenon DEF OpToRel
<1>3. \E x \in S : \A y \in S : ~(<<y, x>> \in R)
  BY <1>1, WFMin, Zenon
<1>4. \E x \in S : \A y \in S : ~(y < x)
  BY <1>2, <1>3, Zenon
<1> QED
  BY <1>4

-----------------------------------------------------------------------------
(* What the clean-up makes of a node.                                      *)

\* The search stops at the first taint that stops it.
LEMMA HitIsFirst ==
    ASSUME NEW n \in Node, Searched(n)
    PROVE  /\ Hit(n) \in Hits(n)
           /\ \A l \in Hits(n) : Hit(n) =< l
<1>1. Hits(n) \in SUBSET Nat /\ Hits(n) # {}
  <2>1. n.taints \in Seq(Taint)
    BY DEF Node
  <2>2. DOMAIN n.taints = 1 .. Len(n.taints) /\ Len(n.taints) \in Nat
    BY <2>1, LenProperties
  <2> QED
    BY <2>2 DEF Searched, Hits
<1>2. \E j \in Hits(n) : \A l \in Hits(n) : j =< l
  BY <1>1, Least
<1> QED
  BY <1>2 DEF Hit

\* A list without one of its taints, and with the last one twice.
LEMMA WithoutTyped ==
    ASSUME NEW taints \in Seq(Taint), NEW j \in DOMAIN taints
    PROVE  /\ Without(taints, j) \in Seq(Taint)
           /\ Append(Without(taints, j), taints[Len(taints)]) \in Seq(Taint)
<1>1. Len(taints) \in Nat /\ DOMAIN taints = 1 .. Len(taints) /\ \A l \in 1 .. Len(taints) : taints[l] \in Taint
  BY LenProperties, ElementOfSeq
<1>2. SubSeq(taints, 1, j - 1) \in Seq(Taint)
  BY <1>1, SubSeqProperties
<1>3. SubSeq(taints, j + 1, Len(taints)) \in Seq(Taint)
  BY <1>1, SubSeqProperties
<1>4. Without(taints, j) \in Seq(Taint)
  BY <1>2, <1>3, ConcatProperties DEF Without
<1>5. taints[Len(taints)] \in Taint
  BY <1>1
<1> QED
  BY <1>4, <1>5, AppendProperties

\* Both the node that is sent and the copy that is left are nodes, without
\* started-at and with the same conditions.
LEMMA CleanedTyped ==
    ASSUME NEW n \in Node, Searched(n)
    PROVE  /\ Cleaned(n) \in Node /\ Cut(n) \in Node
           /\ Cleaned(n).started = "none" /\ Cut(n).started = "none"
           /\ Cleaned(n).conditions = n.conditions /\ Cut(n).conditions = n.conditions
           /\ Cleaned(n).taints = Without(n.taints, Hit(n))
<1>1. n.taints \in Seq(Taint) /\ Hit(n) \in DOMAIN n.taints
  BY HitIsFirst DEF Node, Hits
<1>2. /\ Without(n.taints, Hit(n)) \in Seq(Taint)
      /\ Append(Without(n.taints, Hit(n)), n.taints[Len(n.taints)]) \in Seq(Taint)
  BY <1>1, WithoutTyped
<1> QED
  BY <1>2 DEF Cleaned, Cut, Node

\* A node that reports ready has a Ready condition.
LEMMA ReportedIsReady ==
    ASSUME NEW n \in Node, ReportsReady(n)
    PROVE  \E c \in DOMAIN n.conditions : n.conditions[c] = "Ready"
<1> DEFINE C == {"Ready", "NotReady", "Other"}
<1>1. n.conditions \in Seq(C)
  BY DEF Node
<1>2. n.conditions # <<>> /\ n.conditions[Len(n.conditions)] = "Ready"
  BY DEF ReportsReady
<1> HIDE DEF C
<1>3. Len(n.conditions) \in Nat \ {0} /\ DOMAIN n.conditions = 1 .. Len(n.conditions)
  BY <1>1, <1>2, EmptySeq, LenProperties
<1> QED
  BY <1>2, <1>3

-----------------------------------------------------------------------------
(* The inductive invariant.                                                *)

\* A node is as it was, or the clean-up has been there once.
NodesKept ==
    \A i \in Positions :
        LET was == input.nodes[i]
        IN nodes[i] = was \/ (was \in Node /\ Stained(was) /\ nodes[i] = Cleaned(was))

\* A copy is its node, or one without started-at that reads the same
\* conditions.
CopiesKept ==
    cache # NoCache =>
        \A i \in Positions :
            \/ cache[i] = nodes[i]
            \/ /\ cache[i] \in Node /\ nodes[i] \in Node
               /\ cache[i].started = "none"
               /\ cache[i].conditions = nodes[i].conditions

\* It dies of a node as it was at first.
DeadEarned == pc = "dead" => k \in Positions /\ input.nodes[k] \in Node /\ Deadly(input.nodes[k])

\* The instances looked at are counted once each, the ready ones rightly.
Counted ==
    pc \in {"loop", "go"} =>
        /\ \A i \in ready : i < k /\ TrulyReady(i)
        /\ nonReady + Cardinality(ready) = input.before.nonReady + (k - 1)
        /\ pc = "go" => k = Len(input.nodes) + 1
        /\ pc = "go" => HasAcceptable(nonReady, input.before.ready + Cardinality(ready))

IInv == TypeOK /\ NodesKept /\ CopiesKept /\ DeadEarned /\ Counted

\* The shape of the input.
LEMMA InputTyped ==
    ASSUME input \in Inputs
    PROVE  /\ Len(input.nodes) \in Nat
           /\ Positions = 1 .. Len(input.nodes)
           /\ input.nodes \in [Positions -> Node \cup {NoNode}]
           /\ input.before.ready \in Nat /\ input.before.nonReady \in Nat
           /\ input.serving \subseteq Positions
<1>1. /\ input.nodes \in Seq(Node \cup {NoNode})
      /\ input.before.ready \in Nat /\ input.before.nonReady \in Nat
      /\ input.serving \subseteq DOMAIN input.nodes
  BY AssessmentAssumption
<1>2. /\ Len(input.nodes) \in Nat
      /\ input.nodes \in [1 .. Len(input.nodes) -> Node \cup {NoNode}]
      /\ DOMAIN input.nodes = 1 .. Len(input.nodes)
  BY <1>1, LenProperties
<1> QED
  BY <1>1, <1>2 DEF Positions

\* The ready ones are finitely many.
LEMMA ReadyFinite ==
    ASSUME TypeOK
    PROVE  /\ IsFiniteSet(Positions) /\ Cardinality(Positions) = Len(input.nodes)
           /\ IsFiniteSet(ready) /\ Cardinality(ready) \in Nat
<1>1. /\ Len(input.nodes) \in Nat /\ Positions = 1 .. Len(input.nodes) /\ ready \in SUBSET Positions
  BY InputTyped DEF TypeOK
<1>2. IsFiniteSet(1 .. Len(input.nodes)) /\ Cardinality(1 .. Len(input.nodes)) = Len(input.nodes)
  BY <1>1, FS_Interval
<1> QED
  BY <1>1, <1>2, FS_Subset, FS_CardinalityType

\* What the loop sees of a node: the node itself whenever there is started-at,
\* and then the node as it was at first.
LEMMA Seen ==
    ASSUME IInv, NEW i \in Positions, View[i] # NoNode
    PROVE  /\ View[i] \in Node /\ nodes[i] \in Node
           /\ View[i].conditions = nodes[i].conditions
           /\ Searched(View[i]) => View[i] = nodes[i] /\ View[i] = input.nodes[i]
<1>1. View[i] \in Node /\ nodes[i] \in Node \cup {NoNode}
  BY DEF IInv, TypeOK, View
<1>2. View[i] = nodes[i] \/ (nodes[i] \in Node /\ View[i].started = "none" /\ View[i].conditions = nodes[i].conditions)
  BY DEF IInv, CopiesKept, View
<1>3. Searched(View[i]) => View[i] = nodes[i]
  BY <1>2 DEF Searched
<1>4. ASSUME Searched(View[i]) PROVE View[i] = input.nodes[i]
  <2>1. ASSUME input.nodes[i] \in Node, Stained(input.nodes[i]), nodes[i] = Cleaned(input.nodes[i]) PROVE FALSE
    <3>1. nodes[i].started = "none"
      BY <2>1, CleanedTyped DEF Stained
    <3> QED
      BY <1>3, <1>4, <3>1 DEF Searched
  <2> QED
    BY <1>3, <1>4, <2>1 DEF IInv, NodesKept
<1> QED
  BY <1>1, <1>2, <1>3, <1>4

\* A truly ready instance stays so: nothing here changes conditions.
LEMMA ReadyStays ==
    ASSUME IInv, NodesKept', nodes' \in [Positions -> Node \cup {NoNode}], input' = input,
           NEW i \in Positions
    PROVE  TrulyReady(i) => TrulyReady(i)'
<1> SUFFICES ASSUME TrulyReady(i) PROVE TrulyReady(i)'
  OBVIOUS
<1> DEFINE was == input.nodes[i]
<1>1. was \in Node /\ nodes[i] \in Node /\ nodes[i].conditions = was.conditions
  <2>1. nodes[i] \in Node /\ was \in Node \cup {NoNode}
    BY InputTyped DEF IInv, TypeOK, TrulyReady
  <2>2. CASE nodes[i] = was
    BY <2>1, <2>2
  <2>3. CASE was \in Node /\ Stained(was) /\ nodes[i] = Cleaned(was)
    BY <2>1, <2>3, CleanedTyped DEF Stained
  <2> QED
    BY <2>2, <2>3 DEF IInv, NodesKept
<1>2. nodes'[i] \in Node /\ nodes'[i].conditions = was.conditions
  <2>1. CASE nodes'[i] = was
    BY <1>1, <2>1
  <2>2. CASE Stained(was) /\ nodes'[i] = Cleaned(was)
    BY <1>1, <2>2, CleanedTyped DEF Stained
  <2>3. Positions' = Positions
    BY DEF Positions
  <2> QED
    BY <2>1, <2>2, <2>3 DEF NodesKept
<1>3. nodes'[i] # NoNode
  BY <1>2, AssessmentAssumption
<1> QED
  BY <1>1, <1>2, <1>3 DEF TrulyReady

\* The arithmetic of one more instance, ready or not.
LEMMA OneMore ==
    ASSUME NEW n \in Nat, NEW r \in Nat, NEW before \in Nat, NEW i \in Nat, n + r = before + (i - 1)
    PROVE  n + (r + 1) = before + i /\ (n + 1) + r = before + i
OBVIOUS

\* Advancing keeps the counts, if the instance was rightly found ready.
LEMMA AdvanceKeeps ==
    ASSUME IInv, NEW i \in Positions, At(i), NEW isReady \in BOOLEAN, Advance(i, isReady),
           isReady => TrulyReady(i),
           nodes' \in [Positions -> Node \cup {NoNode}], NodesKept'
    PROVE  /\ Counted' /\ DeadEarned' /\ input' = input /\ Positions' = Positions
           /\ k' \in 1 .. Len(input.nodes) + 1 /\ ready' \subseteq Positions /\ nonReady' \in Nat /\ pc' = "loop"
<1>1. /\ pc = "loop" /\ pc' = "loop" /\ k = i /\ k' = i + 1 /\ input' = input
      /\ Positions = 1 .. Len(input.nodes) /\ Len(input.nodes) \in Nat
      /\ input.before.nonReady \in Nat /\ nonReady \in Nat /\ ready \subseteq Positions
  BY InputTyped DEF IInv, TypeOK, At, Advance
<1>2. Positions' = Positions
  BY <1>1 DEF Positions
<1>3. IsFiniteSet(ready) /\ Cardinality(ready) \in Nat /\ i \notin ready
      /\ nonReady + Cardinality(ready) = input.before.nonReady + (i - 1)
  BY <1>1, ReadyFinite DEF IInv, Counted
<1>4. ready' \subseteq Positions /\ nonReady' \in Nat
      /\ nonReady' + Cardinality(ready') = input.before.nonReady + i
  <2>1. i \in Nat
    BY <1>1
  <2>2. /\ nonReady + (Cardinality(ready) + 1) = input.before.nonReady + i
        /\ (nonReady + 1) + Cardinality(ready) = input.before.nonReady + i
    <3>1. PICK c : c = Cardinality(ready)
      OBVIOUS
    <3>2. PICK before : before = input.before.nonReady
      OBVIOUS
    <3>3. c \in Nat /\ before \in Nat /\ nonReady + c = before + (i - 1)
      BY <1>1, <1>3, <3>1, <3>2
    <3>4. nonReady + (c + 1) = before + i /\ (nonReady + 1) + c = before + i
      BY <1>1, <2>1, <3>3, OneMore
    <3> QED
      BY <3>1, <3>2, <3>4, Zenon
  <2>3. CASE isReady
    <3>1. ready' = ready \cup {i} /\ nonReady' = nonReady
      BY <2>3 DEF Advance
    <3>2. Cardinality(ready') = Cardinality(ready) + 1
      BY <1>3, <3>1, FS_AddElement
    <3>3. nonReady' + Cardinality(ready') = input.before.nonReady + i
      BY <2>2, <3>1, <3>2
    <3> QED
      BY <1>1, <3>1, <3>3
  <2>4. CASE ~isReady
    <3>1. ready' = ready /\ nonReady' = nonReady + 1
      BY <2>4 DEF Advance
    <3>2. nonReady' + Cardinality(ready') = input.before.nonReady + i
      BY <2>2, <3>1
    <3> QED
      BY <1>1, <3>1, <3>2
  <2> QED
    BY <2>3, <2>4
<1>5. ASSUME NEW j \in ready' PROVE j < k' /\ TrulyReady(j)'
  <2>1. j \in Positions /\ j =< i /\ TrulyReady(j)
    <3>1. CASE j \in ready
      BY <1>1, <3>1 DEF IInv, Counted
    <3>2. CASE j \notin ready
      BY <1>1, <3>2, <1>5 DEF Advance
    <3> QED
      BY <3>1, <3>2
  <2>2. TrulyReady(j)'
    BY <1>1, <2>1, ReadyStays
  <2> QED
    BY <1>1, <2>1, <2>2
<1>6. Counted'
  BY <1>1, <1>4, <1>5 DEF Counted
<1> QED
  BY <1>1, <1>2, <1>4, <1>6 DEF DeadEarned

\* Looking at the nodes fills the cache with what is seen.
LEMMA CacheFilled ==
    ASSUME IInv, cache' = View, nodes' = nodes, input' = input
    PROVE  (cache = NoCache \/ cache \in [Positions -> Node \cup {NoNode}])' /\ CopiesKept' /\ NodesKept'
<1>1. View \in [Positions -> Node \cup {NoNode}] /\ Positions' = Positions
  BY DEF IInv, TypeOK, View, Positions
<1>2. CopiesKept'
  BY <1>1 DEF IInv, CopiesKept, View
<1> QED
  BY <1>1, <1>2 DEF IInv, NodesKept

\* An instance whose node is seen ready is truly ready.
LEMMA SeenReady ==
    ASSUME IInv, NEW i \in Positions, Found(i), ReportsReady(View[i])
    PROVE  TrulyReady(i)
<1>1. i \in input.serving /\ View[i] # NoNode
  BY DEF Found
<1>2. View[i] \in Node /\ nodes[i] \in Node /\ View[i].conditions = nodes[i].conditions
  BY <1>1, Seen
<1>3. \E c \in DOMAIN nodes[i].conditions : nodes[i].conditions[c] = "Ready"
  BY <1>2, ReportedIsReady
<1> QED
  BY <1>1, <1>2, <1>3, AssessmentAssumption DEF TrulyReady

\* The clean-up, whether the update is accepted or refused, keeps the nodes and
\* the copies as the invariant has them.
LEMMA CleaningKeeps ==
    ASSUME IInv, NEW i \in Positions, Found(i), Stained(View[i]), input' = input,
           cache' = [View EXCEPT ![i] = Cut(@)],
           nodes' = nodes \/ nodes' = [nodes EXCEPT ![i] = Cleaned(View[i])]
    PROVE  /\ nodes' \in [Positions -> Node \cup {NoNode}] /\ NodesKept'
           /\ (cache = NoCache \/ cache \in [Positions -> Node \cup {NoNode}])' /\ CopiesKept'
<1> DEFINE n == View[i]
<1>1. /\ n \in Node /\ Searched(n) /\ n = nodes[i] /\ n = input.nodes[i]
  BY Seen DEF Found, Stained
<1>2. /\ Cleaned(n) \in Node /\ Cut(n) \in Node /\ Cut(n).started = "none"
      /\ Cleaned(n).conditions = n.conditions /\ Cut(n).conditions = n.conditions
  BY <1>1, CleanedTyped
<1>3. /\ nodes \in [Positions -> Node \cup {NoNode}] /\ View \in [Positions -> Node \cup {NoNode}]
      /\ Positions' = Positions
  BY DEF IInv, TypeOK, View, Positions
<1>4. /\ nodes' \in [Positions -> Node \cup {NoNode}]
      /\ nodes'[i] = n \/ nodes'[i] = Cleaned(n)
      /\ \A j \in Positions : j # i => nodes'[j] = nodes[j]
  BY <1>1, <1>2, <1>3
<1>5. NodesKept'
  BY <1>1, <1>3, <1>4 DEF IInv, NodesKept
<1>6. /\ cache' \in [Positions -> Node \cup {NoNode}] /\ cache'[i] = Cut(n)
      /\ \A j \in Positions : j # i => cache'[j] = View[j]
  BY <1>2, <1>3
<1>7. CopiesKept'
  <2>1. nodes'[i] \in Node /\ cache'[i] \in Node /\ cache'[i].started = "none"
        /\ cache'[i].conditions = nodes'[i].conditions
    BY <1>1, <1>2, <1>4, <1>6
  <2>2. ASSUME NEW j \in Positions, j # i
        PROVE  \/ cache'[j] = nodes'[j]
               \/ /\ cache'[j] \in Node /\ nodes'[j] \in Node
                  /\ cache'[j].started = "none" /\ cache'[j].conditions = nodes'[j].conditions
    <3>1. cache'[j] = View[j] /\ nodes'[j] = nodes[j]
      BY <1>4, <1>6, <2>2
    <3> QED
      BY <3>1 DEF IInv, CopiesKept, View
  <2> QED
    BY <1>3, <2>1, <2>2 DEF CopiesKept
<1> QED
  BY <1>3, <1>4, <1>5, <1>6, <1>7

\* The invariant holds at the start.
LEMMA InitInv == Init => IInv
<1> SUFFICES ASSUME Init PROVE IInv
  OBVIOUS
<1>1. nodes \in [Positions -> Node \cup {NoNode}] /\ 1 \in 1 .. Len(input.nodes) + 1
  BY InputTyped DEF Init
<1> QED
  BY <1>1 DEF Init, IInv, TypeOK, NodesKept, CopiesKept, DeadEarned, Counted

\* Every step keeps the invariant.
LEMMA StepInv == IInv /\ [Next]_vars => IInv'
<1> SUFFICES ASSUME IInv, [Next]_vars PROVE IInv'
  OBVIOUS
<1>t. /\ TypeOK /\ nodes \in [Positions -> Node \cup {NoNode}]
      /\ Len(input.nodes) \in Nat /\ Positions = 1 .. Len(input.nodes)
      /\ input.before.ready \in Nat /\ input.before.nonReady \in Nat
  BY InputTyped DEF IInv, TypeOK
<1>1. CASE Begin
  <2>1. /\ TypeOK' /\ NodesKept' /\ CopiesKept' /\ DeadEarned'
    BY <1>1, <1>t DEF Begin, IInv, TypeOK, Positions, NodesKept, CopiesKept, DeadEarned
  <2>2. Counted'
    BY <1>1, <1>t, FS_EmptySet DEF Begin, Counted
  <2> QED
    BY <2>1, <2>2 DEF IInv
<1>2. ASSUME NEW i \in Positions, Skip(i) PROVE IInv'
  <2>1. /\ At(i) /\ Advance(i, FALSE) /\ nodes' = nodes /\ input' = input
        /\ cache' = cache \/ cache' = View
    BY <1>2 DEF Skip, Advance
  <2>2. /\ (cache = NoCache \/ cache \in [Positions -> Node \cup {NoNode}])' /\ CopiesKept' /\ NodesKept'
    <3>1. CASE cache' = cache
      BY <2>1, <3>1 DEF IInv, TypeOK, CopiesKept, NodesKept, Positions
    <3>2. CASE cache' = View
      BY <2>1, <3>2, CacheFilled
    <3> QED
      BY <2>1, <3>1, <3>2
  <2>3. /\ Counted' /\ DeadEarned' /\ input' = input /\ Positions' = Positions
        /\ k' \in 1 .. Len(input.nodes) + 1 /\ ready' \subseteq Positions /\ nonReady' \in Nat /\ pc' = "loop"
    BY <1>t, <2>1, <2>2, AdvanceKeeps
  <2> QED
    BY <1>t, <2>1, <2>2, <2>3 DEF IInv, TypeOK
<1>3. ASSUME NEW i \in Positions, Count(i) PROVE IInv'
  <2>1. /\ Found(i) /\ At(i) /\ Advance(i, ReportsReady(View[i])) /\ nodes' = nodes /\ input' = input
        /\ cache' = View
    BY <1>3 DEF Count, Found, Advance
  <2>2. /\ (cache = NoCache \/ cache \in [Positions -> Node \cup {NoNode}])' /\ CopiesKept' /\ NodesKept'
    BY <2>1, CacheFilled
  <2>3. ReportsReady(View[i]) => TrulyReady(i)
    BY <2>1, SeenReady
  <2>4. ReportsReady(View[i]) \in BOOLEAN
    BY DEF ReportsReady
  <2>5. /\ Counted' /\ DeadEarned' /\ input' = input /\ Positions' = Positions
        /\ k' \in 1 .. Len(input.nodes) + 1 /\ ready' \subseteq Positions /\ nonReady' \in Nat /\ pc' = "loop"
    BY <1>t, <2>1, <2>2, <2>3, <2>4, AdvanceKeeps
  <2> QED
    BY <1>t, <2>1, <2>2, <2>5 DEF IInv, TypeOK
<1>4. ASSUME NEW i \in Positions, CleanUp(i) \/ CleanUpFails(i) PROVE IInv'
  <2>1. /\ Found(i) /\ At(i) /\ Advance(i, ReportsReady(View[i])) /\ Stained(View[i]) /\ input' = input
        /\ cache' = [View EXCEPT ![i] = Cut(@)]
        /\ nodes' = nodes \/ nodes' = [nodes EXCEPT ![i] = Cleaned(View[i])]
    BY <1>4 DEF CleanUp, CleanUpFails, Found, Advance
  <2>2. /\ nodes' \in [Positions -> Node \cup {NoNode}] /\ NodesKept'
        /\ (cache = NoCache \/ cache \in [Positions -> Node \cup {NoNode}])' /\ CopiesKept'
    BY <2>1, CleaningKeeps
  <2>3. ReportsReady(View[i]) => TrulyReady(i)
    BY <2>1, SeenReady
  <2>4. ReportsReady(View[i]) \in BOOLEAN
    BY DEF ReportsReady
  <2>5. /\ Counted' /\ DeadEarned' /\ input' = input /\ Positions' = Positions
        /\ k' \in 1 .. Len(input.nodes) + 1 /\ ready' \subseteq Positions /\ nonReady' \in Nat /\ pc' = "loop"
    BY <2>1, <2>2, <2>3, <2>4, AdvanceKeeps
  <2> QED
    BY <1>t, <2>2, <2>5 DEF IInv, TypeOK
<1>5. ASSUME NEW i \in Positions, Die(i) PROVE IInv'
  <2>1. /\ Found(i) /\ k = i /\ Deadly(View[i]) /\ pc' = "dead"
        /\ input' = input /\ nodes' = nodes /\ cache' = cache /\ k' = k /\ ready' = ready /\ nonReady' = nonReady
    BY <1>5 DEF Die, Found, At
  <2>2. View[i] \in Node /\ View[i] = input.nodes[i]
    BY <2>1, Seen DEF Found, Deadly
  <2> QED
    BY <1>t, <2>1, <2>2 DEF IInv, TypeOK, Positions, NodesKept, CopiesKept, DeadEarned, Counted
<1>6. CASE Decide
  <2>1. /\ pc = "loop" /\ k = Len(input.nodes) + 1 /\ pc' \in {"go", "wait"}
        /\ pc' = "go" => HasAcceptable(nonReady, input.before.ready + Cardinality(ready))
        /\ UNCHANGED <<input, nodes, cache, k, ready, nonReady>>
    BY <1>6 DEF Decide, At
  <2>2. \A i \in Positions : TrulyReady(i)' <=> TrulyReady(i)
    BY <2>1 DEF TrulyReady
  <2> QED
    BY <1>t, <2>1, <2>2 DEF IInv, TypeOK, Positions, NodesKept, CopiesKept, DeadEarned, Counted
<1>7. CASE CacheExpires \/ Restart \/ UNCHANGED vars
  <2>1. /\ cache' \in {NoCache, cache} /\ pc' \in {pc, "idle"}
        /\ UNCHANGED <<input, nodes, k, ready, nonReady>>
    BY <1>7 DEF CacheExpires, Restart, vars
  <2>2. \A i \in Positions : TrulyReady(i)' <=> TrulyReady(i)
    BY <2>1 DEF TrulyReady
  <2> QED
    BY <1>t, <2>1, <2>2 DEF IInv, TypeOK, Positions, NodesKept, CopiesKept, DeadEarned, Counted
<1> QED
  BY <1>1, <1>2, <1>3, <1>4, <1>5, <1>6, <1>7 DEF Next, Turn

\* The invariant holds in every reachable state.
THEOREM InvariantKept == Spec => []IInv
BY InitInv, StepInv, PTL DEF Spec

-----------------------------------------------------------------------------

\* Every variable stays in its type, the cut copies included.
THEOREM TypeCorrect == Spec => []TypeOK
<1>1. IInv => TypeOK
  BY DEF IInv
<1> QED
  BY <1>1, InvariantKept, PTL

\* A cut copy is never cleaned from again.
THEOREM CopiesSafe == Spec => []CutCopiesAreNotCleaned
<1>1. IInv => CutCopiesAreNotCleaned
  BY DEF IInv, CopiesKept, CutCopiesAreNotCleaned
<1> QED
  BY <1>1, InvariantKept, PTL

\* The clean-up takes one NoSchedule taint of a node and no other.
THEOREM OneTaintTaken == Spec => []TakesOneTaintOnly
<1>1. ASSUME IInv PROVE TakesOneTaintOnly
  <2> SUFFICES ASSUME NEW i \in Positions, nodes[i] # input.nodes[i]
               PROVE  LET was == input.nodes[i]
                      IN \E j \in DOMAIN was.taints :
                            /\ nodes[i].taints = Without(was.taints, j)
                            /\ was.taints[j].effect = "NoSchedule"
                            /\ was.started # "none"
                            /\ was.started = "time" => was.taints[j].added = "after"
    BY DEF TakesOneTaintOnly
  <2> DEFINE was == input.nodes[i]
  <2>1. was \in Node /\ Stained(was) /\ nodes[i] = Cleaned(was)
    BY <1>1 DEF IInv, NodesKept
  <2>2. /\ Hit(was) \in DOMAIN was.taints /\ was.taints[Hit(was)].effect = "NoSchedule"
        /\ was.started = "garbled" \/ was.taints[Hit(was)].added # "before"
    BY <2>1, HitIsFirst DEF Stained, Hits
  <2>3. was.started # "none" /\ (was.started = "time" => was.taints[Hit(was)].added # "never")
    BY <2>1 DEF Stained, Searched, Deadly
  <2>4. was.taints[Hit(was)] \in Taint
    <3>1. was.taints \in Seq(Taint)
      BY <2>1 DEF Node
    <3> QED
      BY <2>2, <3>1, ElementOfSeq, LenProperties
  <2>5. was.started = "time" => was.taints[Hit(was)].added = "after"
    BY <2>2, <2>3, <2>4 DEF Taint
  <2>6. nodes[i].taints = Without(was.taints, Hit(was))
    BY <2>1, CleanedTyped DEF Stained
  <2> QED
    BY <2>2, <2>3, <2>5, <2>6
<1> QED
  BY <1>1, InvariantKept, PTL

\* The process dies of a taint without a time, before every late one.
THEOREM DeathIsEarned == Spec => []DiesOfTimelessTaintsOnly
<1>1. ASSUME IInv PROVE DiesOfTimelessTaintsOnly
  <2> SUFFICES ASSUME pc = "dead"
               PROVE  LET n == input.nodes[k]
                      IN /\ n.started = "time"
                         /\ \E j \in DOMAIN n.taints :
                              /\ n.taints[j] = [effect |-> "NoSchedule", added |-> "never"]
                              /\ \A l \in 1 .. j - 1 :
                                     n.taints[l].effect = "NoSchedule" => n.taints[l].added = "before"
    BY DEF DiesOfTimelessTaintsOnly
  <2> DEFINE n == input.nodes[k]
             j == Hit(n)
  <2>1. n \in Node /\ Searched(n) /\ n.started = "time" /\ n.taints[j].added = "never"
    BY <1>1 DEF IInv, DeadEarned, Deadly
  <2>2. /\ j \in DOMAIN n.taints /\ n.taints[j].effect = "NoSchedule"
        /\ \A l \in Hits(n) : j =< l
    BY <2>1, HitIsFirst DEF Hits
  <2>3. /\ n.taints \in Seq(Taint) /\ DOMAIN n.taints = 1 .. Len(n.taints) /\ Len(n.taints) \in Nat
    BY <2>1, LenProperties DEF Node
  <2>4. n.taints[j] = [effect |-> "NoSchedule", added |-> "never"]
    <3>1. n.taints[j] \in Taint
      BY <2>2, <2>3, ElementOfSeq
    <3> QED
      BY <2>1, <2>2, <3>1 DEF Taint
  <2>5. ASSUME NEW l \in 1 .. j - 1, n.taints[l].effect = "NoSchedule" PROVE n.taints[l].added = "before"
    <3>1. l \in DOMAIN n.taints /\ ~(j =< l)
      BY <2>2, <2>3
    <3>2. l \notin Hits(n)
      BY <2>2, <3>1
    <3> QED
      BY <2>5, <3>1, <3>2 DEF Hits
  <2> QED
    BY <2>1, <2>2, <2>4, <2>5
<1> QED
  BY <1>1, InvariantKept, PTL

\* The rollout goes on only when few updated instances lag behind in truth.
THEOREM FewLaggards == Spec => []GoesOnWithFewLaggards
<1>1. ASSUME IInv PROVE GoesOnWithFewLaggards
  <2> DEFINE behind == {i \in Positions : ~TrulyReady(i)}
             laggards == input.before.nonReady + Cardinality(behind)
             all == input.before.ready + input.before.nonReady + Len(input.nodes)
  <2> SUFFICES ASSUME pc = "go" PROVE laggards = 0 \/ (laggards =< 5 /\ 10 * laggards < all)
    BY DEF GoesOnWithFewLaggards
  <2>1. /\ IsFiniteSet(Positions) /\ Cardinality(Positions) = Len(input.nodes)
        /\ IsFiniteSet(ready) /\ Cardinality(ready) \in Nat /\ ready \subseteq Positions
        /\ Len(input.nodes) \in Nat /\ nonReady \in Nat
        /\ input.before.ready \in Nat /\ input.before.nonReady \in Nat
    BY <1>1, ReadyFinite, InputTyped DEF IInv, TypeOK
  <2>2. /\ \A i \in ready : TrulyReady(i)
        /\ nonReady + Cardinality(ready) = input.before.nonReady + Len(input.nodes)
        /\ HasAcceptable(nonReady, input.before.ready + Cardinality(ready))
    BY <1>1, <2>1 DEF IInv, Counted
  <2>3. IsFiniteSet(behind) /\ Cardinality(behind) \in Nat
    BY <2>1, FS_Subset, FS_CardinalityType
  <2>4. Cardinality(behind) + Cardinality(ready) =< Len(input.nodes)
    <3>1. behind \cap ready = {} /\ behind \cup ready \in SUBSET Positions
      BY <2>1, <2>2
    <3>2. Cardinality(behind \cup ready) = Cardinality(behind) + Cardinality(ready) - Cardinality(behind \cap ready)
      BY <2>1, <2>3, FS_Union
    <3>3. Cardinality(behind \cap ready) = 0
      BY <3>1, FS_EmptySet
    <3>4. Cardinality(behind \cup ready) =< Len(input.nodes)
      BY <2>1, <3>1, FS_Subset
    <3> HIDE DEF behind
    <3> QED
      BY <2>1, <2>3, <3>2, <3>3, <3>4
  <2> HIDE DEF behind
  <2>5. laggards =< nonReady
    BY <2>1, <2>2, <2>3, <2>4
  <2>6. nonReady = 0 \/ (nonReady =< 5 /\ 10 * nonReady < nonReady + (input.before.ready + Cardinality(ready)))
    BY <2>1, <2>2, AcceptableShare
  <2> QED
    BY <2>1, <2>2, <2>3, <2>5, <2>6, ShareBounded
<1> QED
  BY <1>1, InvariantKept, PTL
=============================================================================
