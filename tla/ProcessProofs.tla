---------------------------- MODULE ProcessProofs ----------------------------
(***************************************************************************)
(* For every number of turns and every maximum: when the process gives up. *)
(* For every set of groups, tags, pages and environments: the process runs *)
(* the loop of ExecutionLoop, and starts executions with the groups that   *)
(* the configuration enables.                                              *)
(***************************************************************************)
EXTENDS Process, FiniteSetTheorems, TLAPS

-----------------------------------------------------------------------------
(* The loop.                                                               *)

\* The last turn that has ended.
Ended == IF main = "select" THEN turn - 1 ELSE turn

\* The counter counts the failures since the last success.
Counted ==
    /\ main = "select" => turn > 0 /\ outcome[turn] = "none"
    /\ executionFailedCounter =< Ended
    /\ \A u \in Ended - executionFailedCounter + 1 .. Ended : outcome[u] = "failed"
    /\ executionFailedCounter < Ended => outcome[Ended - executionFailedCounter] = "ok"
    /\ \A u \in Turn : u > turn => outcome[u] = "none"

\* The process goes on up to the maximum, and not beyond.
Bounded ==
    /\ main = "panicked" <=> executionFailedCounter = MaximumFailedExecutionBeforePanic + 1
    /\ executionFailedCounter =< MaximumFailedExecutionBeforePanic + 1

\* So far it has not gone on after too many.
Forgiven == \A t \in 1 .. turn - 1 : ~InARow(MaximumFailedExecutionBeforePanic + 1, t)

IInv == TypeOK /\ Counted /\ Bounded /\ Forgiven

\* As long as the counter is within its bound, the turns that have ended do not
\* end in too many failures.
LEMMA NotTooMany ==
    ASSUME TypeOK, Counted, executionFailedCounter =< MaximumFailedExecutionBeforePanic
    PROVE  ~InARow(MaximumFailedExecutionBeforePanic + 1, Ended)
<1> DEFINE max == MaximumFailedExecutionBeforePanic
           c == executionFailedCounter
<1>1. max \in Nat /\ c \in Nat /\ Ended \in Nat
  BY ExecutionLoopAssumption DEF TypeOK, Counted, Ended
<1>2. SUFFICES ASSUME max + 1 =< Ended, \A u \in Ended - (max + 1) + 1 .. Ended : outcome[u] = "failed"
               PROVE  FALSE
  BY DEF InARow
<1>3. c < Ended /\ Ended - c \in Ended - (max + 1) + 1 .. Ended
  BY <1>1, <1>2
<1> QED
  BY <1>2, <1>3 DEF Counted

\* The invariant holds at the start.
LEMMA InitInv == Init => IInv
BY ExecutionLoopAssumption DEF Init, IInv, TypeOK, Counted, Bounded, Forgiven, Ended, Turn, Goroutine

\* A turn that fails is counted.
LEMMA FailedInv ==
    ASSUME IInv, NEW t \in Turn, t = Ended + 1, main # "panicked", Failed(t), turn' = t
    PROVE  Counted' /\ Bounded' /\ Forgiven'
<1> DEFINE max == MaximumFailedExecutionBeforePanic
           c == executionFailedCounter
<1>1. /\ max \in Nat /\ c \in Nat /\ Ended \in Nat /\ turn \in Nat /\ t \in Nat /\ Turns \in Nat
      /\ c =< max /\ c =< Ended /\ 1 =< t /\ t =< Turns
  BY ExecutionLoopAssumption DEF IInv, TypeOK, Counted, Bounded, Ended, Turn
<1>2. /\ c' = c + 1 /\ main' # "select" /\ Ended' = t
      /\ outcome'[t] = "failed"
      /\ \A u \in Turn : u # t => outcome'[u] = outcome[u]
  BY DEF Failed, IInv, TypeOK, Ended
<1>3. Counted'
  <2>1. \A u \in t - (c + 1) + 1 .. t : outcome'[u] = "failed"
    <3> SUFFICES ASSUME NEW u \in t - (c + 1) + 1 .. t PROVE outcome'[u] = "failed"
      OBVIOUS
    <3>1. CASE u = t
      BY <1>2, <3>1
    <3>2. CASE u # t
      <4>1. u \in Turn /\ u \in Ended - c + 1 .. Ended
        BY <1>1, <3>2 DEF Turn
      <4>2. outcome[u] = "failed"
        BY <4>1 DEF IInv, Counted
      <4> QED
        BY <1>2, <3>2, <4>1, <4>2
    <3> QED
      BY <3>1, <3>2
  <2>2. ASSUME c + 1 < t PROVE outcome'[t - (c + 1)] = "ok"
    <3>1. c < Ended /\ t - (c + 1) = Ended - c /\ Ended - c \in Turn /\ Ended - c # t
      BY <1>1, <2>2 DEF Turn
    <3> QED
      BY <1>2, <3>1 DEF IInv, Counted
  <2>3. turn =< t
    BY <1>1 DEF Ended
  <2>4. \A u \in Turn : u > t => outcome'[u] = "none"
    BY <1>1, <1>2, <2>3 DEF IInv, Counted, Turn
  <2> QED
    BY <1>1, <1>2, <2>1, <2>2, <2>4 DEF Counted
<1>4. Bounded'
  BY <1>1, <1>2 DEF Failed, Bounded
<1>5. Forgiven'
  <2>1. ~InARow(max + 1, Ended)
    BY <1>1, NotTooMany DEF IInv
  <2>2. \A u \in 1 .. Ended : ~InARow(max + 1, u)
    BY <1>1, <2>1 DEF IInv, Forgiven, Ended
  <2>3. \A u \in 1 .. t - 1 : ~InARow(max + 1, u)'
    <3> SUFFICES ASSUME NEW u \in 1 .. t - 1, InARow(max + 1, u)' PROVE FALSE
      OBVIOUS
    <3>1. \A v \in u - (max + 1) + 1 .. u : max + 1 =< u => v \in Turn /\ v # t
      BY <1>1 DEF Turn
    <3>2. InARow(max + 1, u)
      BY <1>2, <3>1 DEF InARow
    <3> QED
      BY <1>1, <2>2, <3>2
  <2> QED
    BY <2>3 DEF Forgiven
<1> QED
  BY <1>3, <1>4, <1>5

\* A turn that succeeds starts the count anew.
LEMMA SucceededInv ==
    ASSUME IInv, NEW t \in Turn, t = Ended + 1, main = "select", Succeeded(t), turn' = turn
    PROVE  Counted' /\ Bounded' /\ Forgiven'
<1> DEFINE max == MaximumFailedExecutionBeforePanic
<1>1. /\ max \in Nat /\ turn \in Nat /\ t = turn /\ Turns \in Nat /\ turn > 0
      /\ executionFailedCounter' = 0 /\ main' = "between" /\ Ended' = t
      /\ outcome'[t] = "ok"
      /\ \A u \in Turn : u # t => outcome'[u] = outcome[u]
  BY ExecutionLoopAssumption DEF Succeeded, IInv, TypeOK, Ended, Turn, Counted
<1>2. Counted' /\ Bounded'
  <2>1. \A u \in Turn : u > t => outcome'[u] = "none"
    BY <1>1 DEF IInv, Counted, Turn
  <2> QED
    BY <1>1, <2>1 DEF Counted, Bounded
<1>3. Forgiven'
  <2> SUFFICES ASSUME NEW u \in 1 .. turn - 1, InARow(max + 1, u)' PROVE FALSE
    BY <1>1 DEF Forgiven
  <2>1. \A v \in u - (max + 1) + 1 .. u : max + 1 =< u => v \in Turn /\ v # t
    BY <1>1 DEF Turn, IInv, TypeOK
  <2>2. InARow(max + 1, u)
    BY <1>1, <2>1 DEF InARow
  <2> QED
    BY <2>2 DEF IInv, Forgiven
<1> QED
  BY <1>2, <1>3

\* Every step keeps the invariant.
LEMMA StepInv == IInv /\ [Next]_vars => IInv'
<1> SUFFICES ASSUME IInv, [Next]_vars PROVE IInv'
  OBVIOUS
<1>t. /\ TypeOK /\ Turns \in Nat /\ turn \in 0 .. Turns
      /\ main = "select" => turn \in Turn /\ turn = Ended + 1
      /\ main = "between" => Ended = turn
  BY ExecutionLoopAssumption DEF IInv, TypeOK, Counted, Ended, Turn
<1>1. ASSUME NextTurn PROVE turn' \in Turn /\ turn' = turn + 1 /\ turn' = Ended + 1 /\ main = "between"
  BY <1>1, <1>t DEF NextTurn, Turn
<1>2. CASE FailEarly
  <2>1. TypeOK'
    BY <1>1, <1>2, <1>t DEF FailEarly, Failed, TypeOK, Turn
  <2>2. Counted' /\ Bounded' /\ Forgiven'
    BY <1>1, <1>2, FailedInv DEF FailEarly
  <2> QED
    BY <2>1, <2>2 DEF IInv
<1>3. CASE Start
  <2>n. turn' = turn + 1 /\ turn' \in Turn /\ turn' = Ended + 1 /\ Ended = turn
    BY <1>1, <1>3, <1>t DEF Start
  <2>1. TypeOK' /\ Ended' = Ended /\ main' = "select" /\ main = "between"
    BY <1>1, <1>3, <1>t DEF Start, TypeOK, Turn, Goroutine, Ended
  <2>2. outcome' = outcome /\ executionFailedCounter' = executionFailedCounter
    BY <1>3 DEF Start
  <2>3. outcome[turn'] = "none" /\ \A u \in Turn : u > turn' => outcome[u] = "none"
    BY <1>t, <2>n DEF IInv, Counted, Turn
  <2>4. Counted'
    BY <1>t, <2>n, <2>1, <2>2, <2>3 DEF IInv, Counted, TypeOK
  <2>5. Bounded'
    BY <2>1, <2>2 DEF IInv, Bounded
  <2>6. Forgiven'
    <3>1. executionFailedCounter =< MaximumFailedExecutionBeforePanic
      BY <1>t, <2>1, ExecutionLoopAssumption DEF IInv, Bounded, TypeOK
    <3>2. ~InARow(MaximumFailedExecutionBeforePanic + 1, turn)
      BY <1>t, <2>1, <3>1, NotTooMany DEF IInv
    <3> QED
      BY <1>t, <2>n, <2>2, <3>2 DEF IInv, Forgiven, InARow
  <2> QED
    BY <2>1, <2>4, <2>5, <2>6 DEF IInv
<1>4. CASE SelectTimeout
  <2>1. TypeOK'
    BY <1>4, <1>t DEF SelectTimeout, Failed, TypeOK
  <2>2. Counted' /\ Bounded' /\ Forgiven'
    BY <1>4, <1>t, FailedInv DEF SelectTimeout
  <2> QED
    BY <2>1, <2>2 DEF IInv
<1>5. CASE SelectResult
  <2>1. TypeOK'
    BY <1>5, <1>t DEF SelectResult, Succeeded, TypeOK
  <2>2. Counted' /\ Bounded' /\ Forgiven'
    BY <1>5, <1>t, SucceededInv DEF SelectResult
  <2> QED
    BY <2>1, <2>2 DEF IInv
<1>6. ASSUME NEW t \in Turn, ExecutionReturns(t) \/ Goroutines(t) PROVE IInv'
  <2>1. /\ UNCHANGED <<main, turn, executionFailedCounter, outcome>>
        /\ execution' \in [Turn -> Goroutine] /\ timer' \in [Turn -> Goroutine]
    BY <1>6, <1>t DEF ExecutionReturns, Goroutines, TimerRings, SendResult, SendTimeout, TypeOK, Goroutine
  <2> QED
    BY <2>1 DEF IInv, TypeOK, Counted, Bounded, Forgiven, Ended, InARow
<1>7. CASE UNCHANGED vars
  BY <1>7 DEF vars, IInv, TypeOK, Counted, Bounded, Forgiven, Ended, InARow
<1> QED
  BY <1>2, <1>3, <1>4, <1>5, <1>6, <1>7 DEF Next

\* The invariant holds in every reachable state.
THEOREM InvariantKept == Spec => []IInv
BY InitInv, StepInv, PTL DEF Spec

\* The process gives up when, and only when, the maximum number of failures has
\* been passed in a row.
THEOREM PanicIsEarned == Spec => []PanicsAfterFailuresInARow
<1>1. IInv => PanicsAfterFailuresInARow
  <2> DEFINE toomany == MaximumFailedExecutionBeforePanic + 1
  <2> SUFFICES ASSUME IInv PROVE main = "panicked" <=> InARow(toomany, turn)
    BY DEF IInv, Forgiven, PanicsAfterFailuresInARow
  <2>t. /\ toomany \in Nat /\ toomany > 0 /\ turn \in Nat
        /\ executionFailedCounter \in Nat
    BY ExecutionLoopAssumption DEF IInv, TypeOK
  <2>1. CASE main = "panicked"
    <3>1. executionFailedCounter = toomany /\ Ended = turn
      BY <2>1 DEF IInv, Bounded, Ended
    <3>2. toomany =< turn /\ \A u \in turn - toomany + 1 .. turn : outcome[u] = "failed"
      BY <3>1 DEF IInv, Counted
    <3> QED
      BY <2>1, <3>2 DEF InARow
  <2>2. CASE main = "between"
    <3>1. main # "panicked" /\ Ended = turn
      BY <2>2 DEF Ended
    <3>2. executionFailedCounter =< MaximumFailedExecutionBeforePanic
      BY <2>t, <3>1, ExecutionLoopAssumption DEF IInv, Bounded
    <3>3. ~InARow(toomany, turn)
      BY <3>1, <3>2, NotTooMany DEF IInv
    <3> QED
      BY <3>1, <3>3
  <2>3. CASE main = "select"
    <3>1. outcome[turn] # "failed" /\ turn \in turn - toomany + 1 .. turn
      BY <2>t, <2>3 DEF IInv, Counted
    <3> QED
      BY <2>3, <3>1 DEF InARow
  <2> QED
    BY <2>1, <2>2, <2>3 DEF IInv, TypeOK
<1> QED
  BY <1>1, InvariantKept, PTL

-----------------------------------------------------------------------------
(* The process around it.                                                  *)

\* Every step of the process is one of the loop, or leaves the loop alone.
LEMMA StepOfLoop == [ProcessNext]_processVars => [Next]_vars
<1> SUFFICES ASSUME [ProcessNext]_processVars PROVE [Next]_vars
  OBVIOUS
<1>1. CASE Initialize
  BY <1>1 DEF Initialize
<1>2. CASE Describe
  BY <1>2 DEF Describe, BeginDescribe, NoClient, ReadPage, PanicOnTag, DescribeByNames, DescribeFails,
              StartExecution, Next
<1>3. CASE Select
  BY <1>3 DEF Select, Next
<1>4. ASSUME NEW t \in Turn, Background(t) PROVE Next
  BY <1>4 DEF Background, Next
<1>5. ASSUME NEW g \in AwsGroups, NEW tags \in TagSets, Retag(g, tags) PROVE UNCHANGED vars
  BY <1>5 DEF Retag
<1>6. CASE UNCHANGED processVars
  BY <1>6 DEF processVars
<1> QED
  BY <1>1, <1>2, <1>3, <1>4, <1>5, <1>6 DEF ProcessNext

\* The process runs the loop, whatever its discovery does.
THEOREM ProcessRunsLoop == ProcessSpec => Spec
<1>1. ProcessInit => Init
  BY DEF ProcessInit
<1> QED
  BY <1>1, StepOfLoop, PTL DEF ProcessSpec, Spec

\* It gives up when, and only when, the maximum number of turns has failed in a
\* row, those included that fail in discovery.
THEOREM ProcessPanicIsEarned == ProcessSpec => []PanicsAfterFailuresInARow
BY ProcessRunsLoop, PanicIsEarned, PTL

-----------------------------------------------------------------------------

\* Of the pages described so far, found has the enabled groups and no others.
Discovered ==
    /\ \A g \in found : Page[g] < page
    /\ phase = "describing" =>
          \/ Impaired
          \/ \A g \in AwsGroups \ touched : Page[g] < page => (g \in found <=> Enabled(g))

PInv == ProcessTypeOK /\ Discovered

\* What the environment is made of.
LEMMA EnvironmentTyped ==
    ASSUME env \in Environments
    PROVE  /\ env.clusterName \in DOMAIN OwnedKey \cup {Unset}
           /\ env.autodiscoveryTags \subseteq [key : Keys, value : Values \cup {Missing}]
           /\ env.autoScalingGroupNames \subseteq AwsGroups
           /\ AutodiscoveryTags \subseteq [key : Keys, value : Values \cup {Missing}]
<1>1. /\ env.clusterName \in DOMAIN OwnedKey \cup {Unset}
      /\ env.autodiscoveryTags \subseteq [key : Keys, value : Values \cup {Missing}]
      /\ env.autoScalingGroupNames \subseteq AwsGroups
  BY ProcessAssumption DEF Environment
<1>2. ASSUME env.clusterName # Unset
      PROVE  Tags(env.clusterName) \subseteq [key : Keys, value : Values \cup {Missing}]
  BY <1>1, <1>2, ProcessAssumption DEF Tags
<1> QED
  BY <1>1, <1>2 DEF AutodiscoveryTags

\* Unless a value has `=' in it, a group matches when it has all the tags.
LEMMA MatchesEnabled ==
    ASSUME env \in Environments, ByTags, ~Impaired, NEW g \in AwsGroups
    PROVE  Matches(g) <=> Enabled(g)
<1>1. ASSUME NEW tag \in AutodiscoveryTags PROVE Carries(g, tag) <=> tag \in tagged[g]
  <2>1. Second(tag.value) = tag.value
    BY DEF Impaired
  <2>2. tag = [key |-> tag.key, value |-> tag.value]
    BY EnvironmentTyped
  <2> QED
    BY <2>1, <2>2 DEF Carries
<1>2. Matches(g) <=> AutodiscoveryTags \subseteq tagged[g]
  BY <1>1 DEF Matches
<1>3. Enabled(g) <=> AutodiscoveryTags \subseteq tagged[g]
  BY DEF Enabled, AutodiscoveryTags, ByTags
<1> QED
  BY <1>2, <1>3

\* By names, one page returns all of them unless they are too many.
LEMMA OnePageOfNames ==
    ASSUME env \in Environments, ~ByTags, ~Impaired, NEW named \in SUBSET env.autoScalingGroupNames,
           \/ named = env.autoScalingGroupNames /\ Cardinality(named) =< MaxRecords
           \/ Cardinality(named) = MaxRecords
    PROVE  named = env.autoScalingGroupNames
<1>1. IsFiniteSet(env.autoScalingGroupNames)
  BY EnvironmentTyped, FS_Subset, ProcessAssumption
<1>2. /\ Cardinality(named) \in Nat /\ Cardinality(env.autoScalingGroupNames) \in Nat
      /\ Cardinality(named) =< Cardinality(env.autoScalingGroupNames)
      /\ Cardinality(named) = Cardinality(env.autoScalingGroupNames) => named = env.autoScalingGroupNames
  BY <1>1, FS_Subset, FS_CardinalityType
<1>3. Cardinality(env.autoScalingGroupNames) =< MaxRecords
  BY <1>2, ProcessAssumption DEF Impaired
<1> QED
  BY <1>2, <1>3, ProcessAssumption

\* The invariant holds at the start.
LEMMA ProcessInitInv == ProcessInit => PInv
<1> SUFFICES ASSUME ProcessInit PROVE PInv
  OBVIOUS
<1>1. TypeOK
  BY InitInv DEF ProcessInit, IInv
<1>2. ProcessTypeOK
  BY <1>1, ProcessAssumption DEF ProcessInit, ProcessTypeOK
<1> QED
  BY <1>2 DEF ProcessInit, PInv, Discovered

\* What a step leaves alone when it does not touch the discovery.
LEMMA DiscoveryAlone == PInv /\ TypeOK' /\ UNCHANGED discovery => PInv'
BY DEF PInv, ProcessTypeOK, Discovered, discovery, Impaired, Enabled, ByTags,
       AutodiscoveryTags, OnPage

\* Reading a page, by tags.
LEMMA ReadPageKeeps == PInv /\ TypeOK' /\ ReadPage => PInv'
<1> SUFFICES ASSUME PInv, TypeOK', ReadPage PROVE PInv'
  OBVIOUS
<1>1. /\ phase = "describing" /\ page \in 1 .. LastPage /\ ByTags /\ page' = page + 1
      /\ found' = found \cup {g \in OnPage : Matches(g)}
      /\ env' = env /\ phase' = phase /\ tagged' = tagged /\ retags' = retags /\ touched' = touched
      /\ env \in Environments /\ found \subseteq AwsGroups
      /\ Page \in [AwsGroups -> 1 .. LastPage] /\ LastPage \in Nat
  BY ProcessAssumption DEF PInv, ProcessTypeOK, ReadPage, Describes
<1>2. ProcessTypeOK'
  BY <1>1 DEF PInv, ProcessTypeOK, OnPage
<1>3. \A g \in found' : Page[g] < page'
  BY <1>1 DEF PInv, Discovered, OnPage
<1>4. ASSUME ~Impaired, NEW g \in AwsGroups \ touched, Page[g] < page'
      PROVE  g \in found' <=> Enabled(g)
  <2>1. CASE Page[g] < page
    <3>1. g \notin OnPage
      BY <1>1, <2>1 DEF OnPage
    <3>2. g \in found <=> Enabled(g)
      BY <1>1, <1>4, <2>1 DEF PInv, Discovered
    <3> QED
      BY <1>1, <3>1, <3>2
  <2>2. CASE ~(Page[g] < page)
    <3>1. g \in OnPage
      BY <1>1, <1>4, <2>2 DEF OnPage
    <3>2. g \notin found
      BY <2>2 DEF PInv, Discovered
    <3>3. Matches(g) <=> Enabled(g)
      BY <1>1, <1>4, MatchesEnabled
    <3> QED
      BY <1>1, <3>1, <3>2, <3>3
  <2> QED
    BY <2>1, <2>2
<1>5. Impaired' <=> Impaired
  BY <1>1 DEF Impaired, ByTags, AutodiscoveryTags
<1>6. \A g \in AwsGroups : Enabled(g)' <=> Enabled(g)
  BY <1>1 DEF Enabled
<1>7. Discovered'
  BY <1>1, <1>3, <1>4, <1>5, <1>6 DEF Discovered
<1> QED
  BY <1>1, <1>2, <1>7 DEF PInv

\* Describing groups by their names.
LEMMA DescribeByNamesKeeps == PInv /\ TypeOK' /\ DescribeByNames => PInv'
<1> SUFFICES ASSUME PInv, TypeOK', DescribeByNames PROVE PInv'
  OBVIOUS
<1>1. PICK named \in SUBSET env.autoScalingGroupNames :
        /\ \/ named = env.autoScalingGroupNames /\ Cardinality(named) =< MaxRecords
           \/ Cardinality(named) = MaxRecords
        /\ found' = named
  BY DEF DescribeByNames
<1>2. /\ phase = "describing" /\ ~ByTags /\ page' = LastPage + 1
      /\ env' = env /\ phase' = phase /\ tagged' = tagged /\ retags' = retags /\ touched' = touched
      /\ env \in Environments /\ found' \subseteq AwsGroups
      /\ Page \in [AwsGroups -> 1 .. LastPage] /\ LastPage \in Nat
  BY <1>1, EnvironmentTyped, ProcessAssumption DEF PInv, ProcessTypeOK, DescribeByNames, Describes
<1>3. ProcessTypeOK'
  BY <1>2 DEF PInv, ProcessTypeOK
<1>4. \A g \in found' : Page[g] < page'
  BY <1>2
<1>5. \A g \in AwsGroups : Enabled(g)' <=> g \in env.autoScalingGroupNames
  <2>1. env.clusterName = Unset /\ env.autodiscoveryTags = {}
    BY <1>2 DEF ByTags, AutodiscoveryTags, Tags
  <2> QED
    BY <1>2, <2>1 DEF Enabled
<1>6. Impaired' <=> Impaired
  BY <1>2 DEF Impaired, ByTags, AutodiscoveryTags
<1>7. ~Impaired => found' = env.autoScalingGroupNames
  BY <1>1, <1>2, OnePageOfNames
<1>8. Discovered'
  BY <1>4, <1>5, <1>6, <1>7 DEF Discovered
<1> QED
  BY <1>2, <1>3, <1>8 DEF PInv

\* The panic touches nothing the discovery has.
LEMMA PanicOnTagKeeps == PInv /\ TypeOK' /\ PanicOnTag => PInv'
BY DEF PInv, ProcessTypeOK, Discovered, PanicOnTag

\* Retagging a group takes it out of what is promised.
LEMMA RetagKeeps ==
    ASSUME PInv, TypeOK', NEW h \in AwsGroups, NEW tags \in TagSets, Retag(h, tags)
    PROVE  PInv'
<1>1. /\ phase \in {"ready", "describing"} /\ phase' = phase /\ retags < MaxRetags /\ retags' = retags + 1
      /\ tagged' = [tagged EXCEPT ![h] = tags] /\ touched' = touched \cup {h}
      /\ env' = env /\ page' = page /\ found' = found
      /\ tagged \in [AwsGroups -> TagSets]
  BY DEF PInv, ProcessTypeOK, Retag, Runs
<1>2. ProcessTypeOK'
  BY <1>1, ProcessAssumption DEF PInv, ProcessTypeOK
<1>3. \A g \in AwsGroups : g # h => (Enabled(g)' <=> Enabled(g))
  BY <1>1 DEF Enabled
<1>4. Impaired' <=> Impaired
  BY <1>1 DEF Impaired, ByTags, AutodiscoveryTags
<1>5. Discovered'
  BY <1>1, <1>3, <1>4 DEF PInv, Discovered
<1> QED
  BY <1>1, <1>2, <1>5 DEF PInv

\* Every step keeps the invariant.
LEMMA ProcessStepInv == PInv /\ TypeOK' /\ [ProcessNext]_processVars => PInv'
<1> SUFFICES ASSUME PInv, TypeOK', [ProcessNext]_processVars PROVE PInv'
  OBVIOUS
<1>1. CASE Initialize
  BY <1>1 DEF Initialize, PInv, ProcessTypeOK, Discovered
<1>2. CASE BeginDescribe
  <2>1. ProcessTypeOK' /\ phase' = "describing" /\ page' = 1 /\ found' = {}
    BY <1>2, ProcessAssumption DEF BeginDescribe, PInv, ProcessTypeOK
  <2>2. Discovered'
    BY <2>1, ProcessAssumption DEF Discovered
  <2> QED
    BY <2>1, <2>2 DEF PInv
<1>3. CASE NoClient
  BY <1>3, DiscoveryAlone DEF NoClient
<1>4. CASE DescribeFails
  BY <1>4 DEF DescribeFails, PInv, ProcessTypeOK, Discovered
<1>5. CASE StartExecution
  BY <1>5 DEF StartExecution, PInv, ProcessTypeOK, Discovered
<1>6. CASE Select
  BY <1>6, DiscoveryAlone DEF Select
<1>7. ASSUME NEW t \in Turn, Background(t) PROVE PInv'
  BY <1>7, DiscoveryAlone DEF Background
<1>8. CASE UNCHANGED processVars
  BY <1>8, DiscoveryAlone DEF processVars
<1> QED
  BY <1>1, <1>2, <1>3, <1>4, <1>5, <1>6, <1>7, <1>8, ReadPageKeeps, PanicOnTagKeeps, DescribeByNamesKeeps,
     RetagKeeps DEF ProcessNext, Describe

\* The invariant holds in every reachable state.
THEOREM ProcessInvariant == ProcessSpec => []PInv
<1>1. IInv => TypeOK
  BY DEF IInv
<1> QED
  BY <1>1, ProcessInitInv, ProcessStepInv, ProcessRunsLoop, InvariantKept, PTL DEF ProcessSpec

\* Every variable stays in its type.
THEOREM ProcessTyped == ProcessSpec => []ProcessTypeOK
<1>1. PInv => ProcessTypeOK
  BY DEF PInv
<1> QED
  BY <1>1, ProcessInvariant, PTL

\* Every execution starts with exactly the enabled groups that were not
\* retagged meanwhile, unless the configuration is beyond discovery.
THEOREM EnabledGroupsStarted == ProcessSpec => StartsWithEnabledGroups
<1> DEFINE Right ==
      main # "select" /\ main' = "select" =>
          \/ Impaired
          \/ \A g \in AwsGroups \ touched : g \in found <=> Enabled(g)
<1>1. ASSUME PInv, [ProcessNext]_processVars PROVE [Right]_processVars
  <2> SUFFICES ASSUME main # "select", main' = "select", ~Impaired
               PROVE  \A g \in AwsGroups \ touched : g \in found <=> Enabled(g)
    OBVIOUS
  <2>1. StartExecution
    <3>1. ~Initialize /\ ~BeginDescribe /\ ~ReadPage /\ ~PanicOnTag /\ ~DescribeByNames
      BY DEF Initialize, BeginDescribe, ReadPage, PanicOnTag, DescribeByNames, vars
    <3>2. ~NoClient /\ ~DescribeFails
      BY DEF NoClient, DescribeFails, FailEarly, Failed
    <3>3. ~Select
      BY DEF Select, SelectTimeout, SelectResult
    <3>4. \A t \in Turn : ~Background(t)
      BY DEF Background, ExecutionReturns, Goroutines, TimerRings, SendResult, SendTimeout
    <3>5. \A g \in AwsGroups, tags \in TagSets : ~Retag(g, tags)
      BY DEF Retag, vars
    <3> QED
      BY <1>1, <3>1, <3>2, <3>3, <3>4, <3>5 DEF ProcessNext, Describe, processVars, vars
  <2>2. phase = "describing" /\ page = LastPage + 1
    BY <2>1 DEF StartExecution
  <2>3. \A g \in AwsGroups : Page[g] < page
    BY <2>2, ProcessAssumption
  <2> QED
    BY <1>1, <2>2, <2>3 DEF PInv, Discovered
<1> QED
  BY <1>1, ProcessInvariant, PTL DEF ProcessSpec, StartsWithEnabledGroups
=============================================================================
