----------------------------- MODULE Assessment -----------------------------
(***************************************************************************)
(* getReadyNodesAndNumberOfNonReadyNodesOrInstances of main.go, one group: *)
(* the loop over the updated instances that counts the ready nodes and, by *)
(* the way, cleans nodes that are up to date again (EDGE-0001), and the    *)
(* decision DoHandleRollingUpgrade takes from the counts.                  *)
(*                                                                         *)
(* RollingUpgrade has one flag for a node's readiness and one for its      *)
(* taint; here they are the lists the code walks over.  The clean-up cuts  *)
(* the taint out of the cached copy IN PLACE: the copy keeps its length,   *)
(* with what came after the taint moved up and its last taint twice.       *)
(***************************************************************************)
EXTENDS Readiness, Sequences, FiniteSets

CONSTANTS
    Inputs,          \* the groups considered
    ListingFails,    \* listing the nodes may fail
    UpdateFails,     \* updating a node may fail
    NoNode, NoCache

Taint == [effect : {"NoSchedule", "other"}, added : {"before", "after", "never"}]

\* The time of a taint is relative to started-at; a taint without one was
\* "never" added.  A "garbled" started-at cannot be parsed.
Node == [
    conditions : Seq({"Ready", "NotReady", "Other"}),
    taints : Seq(Taint),
    started : {"none", "garbled", "time"}]

\* A group: the updated instances the loop looks at, after it has counted
\* `before' of them.
ASSUME AssessmentAssumption ==
    /\ NoNode \notin Node
    /\ \A i \in Inputs :
        /\ {i.before.ready, i.before.nonReady} \subseteq Nat
        /\ i.nodes \in Seq(Node \cup {NoNode})
        /\ i.serving \subseteq DOMAIN i.nodes
    /\ {ListingFails, UpdateFails} \subseteq BOOLEAN

VARIABLES
    input,      \* the group, with its nodes as they were at first
    nodes,      \* the API server's node of each instance
    cache,      \* the client's copies, NoCache once expired
    pc,
    k,          \* the instance the loop looks at
    ready,      \* updatedReadyNodes, by position
    nonReady    \* numberOfNonReadyNodesOrInstances

vars == <<input, nodes, cache, pc, k, ready, nonReady>>

Positions == DOMAIN input.nodes

\* Every variable stays in its type; the copies in the cache are nodes, cut
\* as they may be.
TypeOK ==
    /\ input \in Inputs
    /\ nodes \in [Positions -> Node \cup {NoNode}]
    /\ cache = NoCache \/ cache \in [Positions -> Node \cup {NoNode}]
    /\ pc \in {"idle", "loop", "go", "wait", "dead"}
    /\ k \in 1 .. Len(input.nodes) + 1
    /\ ready \subseteq Positions
    /\ nonReady \in Nat

Init ==
    /\ input \in Inputs
    /\ nodes = input.nodes
    /\ cache = NoCache
    /\ pc = "idle"
    /\ k = 1
    /\ ready = {}
    /\ nonReady = 0

-----------------------------------------------------------------------------
(* What the loop reads off a node.                                         *)

\* The last condition must be Ready, and true.
ReportsReady(n) == n.conditions # <<>> /\ n.conditions[Len(n.conditions)] = "Ready"

\* The NoSchedule taints that stop the search: late ones, and ones without a
\* time where a time is wanted.  Any is late for a garbled started-at.
Hits(n) ==
    {j \in DOMAIN n.taints :
        /\ n.taints[j].effect = "NoSchedule"
        /\ n.started = "garbled" \/ n.taints[j].added # "before"}

Searched(n) == n.started # "none" /\ Hits(n) # {}
Hit(n) == CHOOSE j \in Hits(n) : \A l \in Hits(n) : j =< l

\* Mutant: a garbled started-at does not spare the taint's time.
Deadly_Garbled(n) == Searched(n) /\ n.taints[Hit(n)].added = "never"

\* taint.TimeAdded is nil and dereferenced.
Deadly(n) == Searched(n) /\ n.started = "time" /\ n.taints[Hit(n)].added = "never"

Stained(n) == Searched(n) /\ ~Deadly(n)

Without(taints, j) == SubSeq(taints, 1, j - 1) \o SubSeq(taints, j + 1, Len(taints))

\* Mutant: started-at is emptied instead of removed.
Cleaned_Emptied(n) == [n EXCEPT !.taints = Without(@, Hit(n)), !.started = "empty"]

\* Mutant: started-at stays.
Cleaned_KeepsStarted(n) == [n EXCEPT !.taints = Without(@, Hit(n))]

\* The node that is sent to the API server ...
Cleaned(n) == [n EXCEPT !.taints = Without(@, Hit(n)), !.started = "none"]

\* Mutant: the copy keeps its started-at.
Cut_KeepsStarted(n) == [n EXCEPT !.taints = Append(Without(@, Hit(n)), @[Len(@)])]

\* ... and what is left in the cache.
Cut(n) == [n EXCEPT !.taints = Append(Without(@, Hit(n)), @[Len(@)]), !.started = "none"]

-----------------------------------------------------------------------------

View == IF cache = NoCache THEN nodes ELSE cache
Unlisted == cache = NoCache /\ ListingFails

Begin ==
    /\ pc \in {"idle", "go", "wait"}
    /\ pc' = "loop"
    /\ k' = 1
    /\ ready' = {}
    /\ nonReady' = input.before.nonReady
    /\ UNCHANGED <<input, nodes, cache>>

At(i) == pc = "loop" /\ k = i

Advance(i, isReady) ==
    /\ k' = i + 1
    /\ ready' = IF isReady THEN ready \cup {i} ELSE ready
    /\ nonReady' = IF isReady THEN nonReady ELSE nonReady + 1
    /\ UNCHANGED <<input, pc>>

\* Not in service, or its node cannot be had.
Skip(i) ==
    /\ At(i)
    /\ \/ i \notin input.serving /\ UNCHANGED cache
       \/ i \in input.serving /\ Unlisted /\ UNCHANGED cache
       \/ i \in input.serving /\ View[i] = NoNode /\ cache' = View
    /\ Advance(i, FALSE)
    /\ UNCHANGED nodes

Found(i) == At(i) /\ i \in input.serving /\ View[i] # NoNode

\* A node with nothing to clean.
Count(i) ==
    /\ Found(i)
    /\ ~Searched(View[i])
    /\ cache' = View
    /\ Advance(i, ReportsReady(View[i]))
    /\ UNCHANGED nodes

\* EDGE-0001; only a copy with started-at is cleaned, and the only update of
\* such a node is this one, so the copy is current.
CleanUp(i) ==
    /\ Found(i)
    /\ Stained(View[i])
    /\ nodes' = [nodes EXCEPT ![i] = Cleaned(View[i])]
    /\ cache' = [View EXCEPT ![i] = Cut(@)]
    /\ Advance(i, ReportsReady(View[i]))

\* Mutant: started-at goes by an update of its own, which is not refused.
CleanUpFails_Half(i) ==
    /\ UpdateFails
    /\ Found(i)
    /\ Stained(View[i])
    /\ nodes' = [nodes EXCEPT ![i].started = "none"]
    /\ cache' = [View EXCEPT ![i] = Cut(@)]
    /\ Advance(i, ReportsReady(View[i]))

\* The update is refused, for a conflict with the kubelet's or for any other
\* reason.
CleanUpFails(i) ==
    /\ UpdateFails
    /\ Found(i)
    /\ Stained(View[i])
    /\ cache' = [View EXCEPT ![i] = Cut(@)]
    /\ Advance(i, ReportsReady(View[i]))
    /\ UNCHANGED nodes

Die(i) ==
    /\ Found(i)
    /\ Deadly(View[i])
    /\ pc' = "dead"
    /\ UNCHANGED <<input, nodes, cache, k, ready, nonReady>>

\* The loop is over: go on with the outdated instances, or wait.
Decide ==
    /\ At(Len(input.nodes) + 1)
    /\ pc' = IF HasAcceptable(nonReady, input.before.ready + Cardinality(ready)) THEN "go" ELSE "wait"
    /\ UNCHANGED <<input, nodes, cache, k, ready, nonReady>>

CacheExpires ==
    /\ cache # NoCache
    /\ cache' = NoCache
    /\ UNCHANGED <<input, nodes, pc, k, ready, nonReady>>

\* Kubernetes restarts the process.
Restart ==
    /\ pc = "dead"
    /\ pc' = "idle"
    /\ cache' = NoCache
    /\ UNCHANGED <<input, nodes, k, ready, nonReady>>

Turn(i) == Skip(i) \/ Count(i) \/ CleanUp(i) \/ CleanUpFails(i) \/ Die(i)

Next == Begin \/ (\E i \in Positions : Turn(i)) \/ Decide \/ CacheExpires \/ Restart

Spec == Init /\ [][Next]_vars

\* Executions follow each other, an update that is tried again and again
\* succeeds, and the cache expires between executions.
FairSpec ==
    /\ Spec
    /\ WF_vars(Begin) /\ WF_vars(Decide) /\ WF_vars(Restart)
    /\ WF_vars(\E i \in Positions : Turn(i))
    /\ SF_vars(\E i \in Positions : CleanUp(i))
    /\ SF_vars(CacheExpires /\ pc # "loop")

-----------------------------------------------------------------------------
(* Properties.                                                             *)

\* In truth: an instance in service whose node says it is ready.
TrulyReady(i) ==
    /\ i \in input.serving
    /\ nodes[i] # NoNode
    /\ \E c \in DOMAIN nodes[i].conditions : nodes[i].conditions[c] = "Ready"

\* The rollout only goes on when all updated instances but at most five, and
\* fewer than a tenth of them, are in truth ready (main.go:513-516, `the more
\* nodes are ready and updated, the higher the confidence').
GoesOnWithFewLaggards ==
    LET laggards == input.before.nonReady + Cardinality({i \in Positions : ~TrulyReady(i)})
        all == input.before.ready + input.before.nonReady + Len(input.nodes)
    IN pc = "go" => laggards = 0 \/ (laggards =< 5 /\ 10 * laggards < all)

\* It dies of nothing but a NoSchedule taint without a time that comes before
\* every late one, on a node with a legible started-at (main.go:312).
DiesOfTimelessTaintsOnly ==
    pc = "dead" =>
        LET n == input.nodes[k]
        IN /\ n.started = "time"
           /\ \E j \in DOMAIN n.taints :
                /\ n.taints[j] = [effect |-> "NoSchedule", added |-> "never"]
                /\ \A l \in 1 .. j - 1 :
                       n.taints[l].effect = "NoSchedule" => n.taints[l].added = "before"

\* However often it comes by, from whatever copy, and whatever updates fail,
\* the clean-up takes one NoSchedule taint from a node and no other, and a
\* legible started-at protects those that were there before.
TakesOneTaintOnly ==
    \A i \in Positions :
        LET was == input.nodes[i]
        IN nodes[i] # was =>
             \E j \in DOMAIN was.taints :
                /\ nodes[i].taints = Without(was.taints, j)
                /\ was.taints[j].effect = "NoSchedule"
                /\ was.started # "none"
                /\ was.started = "time" => was.taints[j].added = "after"

\* A copy whose taints were cut in place is never cleaned from again: as long
\* as it has started-at its taints are those of the API server.
CutCopiesAreNotCleaned ==
    cache # NoCache =>
        \A i \in Positions : cache[i] # NoNode /\ cache[i].started # "none" => cache[i] = nodes[i]

\* A refused clean-up is made up for once the cache has expired, if only no
\* node of the group is deadly.
CleanUpsComplete ==
    (\A i \in Positions : input.nodes[i] # NoNode => ~Deadly(input.nodes[i]))
        ~> (\A i \in input.serving :
                input.nodes[i] # NoNode /\ Stained(input.nodes[i]) => nodes[i].taints # input.nodes[i].taints)
=============================================================================
