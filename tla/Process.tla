------------------------------- MODULE Process -------------------------------
(***************************************************************************)
(* The process: config.Initialize picks how groups are selected, and each  *)
(* turn of ExecutionLoop first discovers the groups its execution will     *)
(* work on, by tags over pages of groups or by names in one call, while    *)
(* operators retag groups and earlier executions may still be running.     *)
(***************************************************************************)
EXTENDS ExecutionLoop, FiniteSets

CONSTANTS
    AwsGroups,
    Page,            \* the page AWS lists each group on
    LastPage,
    Keys, Values,    \* of tags
    Missing,         \* the value of a configured tag without `='
    FirstPart,       \* what is left of a value up to a second `='
    OwnedKey,        \* of each cluster: k8s.io/cluster-autoscaler/<CLUSTER_NAME>
    EnabledKey,      \* k8s.io/cluster-autoscaler/enabled
    Environments,    \* the environments considered
    TagSets,         \* the sets of tags a group may have
    Unset,           \* no CLUSTER_NAME
    MaxRecords,      \* groups a description by names may return
    MaxRetags        \* bound on changes of tags

Tag == [key : Keys, value : Values]

Tags(cluster) == {[key |-> OwnedKey[cluster], value |-> "owned"], [key |-> EnabledKey, value |-> "true"]}

\* An empty set stands for a variable that is not set.
Environment == [
    clusterName : DOMAIN OwnedKey \cup {Unset},
    autodiscoveryTags : SUBSET [key : Keys, value : Values \cup {Missing}],
    autoScalingGroupNames : SUBSET AwsGroups,
    numbers : BOOLEAN]     \* port, interval, timeout and grace period are integers

ASSUME ProcessAssumption ==
    /\ IsFiniteSet(AwsGroups)
    /\ LastPage \in Nat
    /\ Page \in [AwsGroups -> 1 .. LastPage]
    /\ Missing \notin Values
    /\ FirstPart \in [Values -> Values]
    /\ OwnedKey \in [DOMAIN OwnedKey -> Keys]
    /\ EnabledKey \in Keys
    /\ {"owned", "true"} \subseteq Values
    /\ Environments \subseteq Environment
    /\ TagSets \subseteq SUBSET Tag
    /\ Unset \notin DOMAIN OwnedKey
    /\ {MaxRecords, MaxRetags} \subseteq Nat

VARIABLES
    env,        \* the environment of the process
    phase,
    tagged,     \* the tags of each group
    page,       \* the next page of the description
    found,      \* autoScalingGroups
    retags,
    touched     \* history: groups retagged since the description began

discovery == <<env, phase, tagged, page, found, retags, touched>>
processVars == <<vars, discovery>>

\* Every variable stays in its type, those of the loop included.
ProcessTypeOK ==
    /\ TypeOK
    /\ env \in Environments
    /\ phase \in {"start", "exited", "ready", "describing", "dead"}
    /\ tagged \in [AwsGroups -> TagSets]
    /\ page \in 1 .. LastPage + 1
    /\ found \subseteq AwsGroups
    /\ retags \in 0 .. MaxRetags
    /\ touched \subseteq AwsGroups

ProcessInit ==
    /\ Init
    /\ env \in Environments
    /\ phase = "start"
    /\ tagged \in [AwsGroups -> TagSets]
    /\ page = 1
    /\ found = {}
    /\ retags = 0
    /\ touched = {}

-----------------------------------------------------------------------------
(* Configuration.                                                          *)

\* CLUSTER_NAME takes the place of AUTODISCOVERY_TAGS ...
AutodiscoveryTags ==
    IF env.clusterName # Unset THEN Tags(env.clusterName) ELSE env.autodiscoveryTags

\* ... and both that of AUTO_SCALING_GROUP_NAMES.
ByTags == AutodiscoveryTags # {}

Initialize ==
    /\ phase = "start"
    /\ phase' = IF env.numbers /\ (ByTags \/ env.autoScalingGroupNames # {}) THEN "ready" ELSE "exited"
    /\ UNCHANGED <<vars, env, tagged, page, found, retags, touched>>

-----------------------------------------------------------------------------
(* Discovery.                                                              *)

\* A tag is split at each `=' and its second part compared.
Second(value) == IF value = Missing THEN Missing ELSE FirstPart[value]

Carries(g, tag) == [key |-> tag.key, value |-> Second(tag.value)] \in tagged[g]

\* filterAutoScalingGroupsByTag
Matches(g) == \A tag \in AutodiscoveryTags : Carries(g, tag)

OnPage == {g \in AwsGroups : Page[g] = page}

\* The second part is looked at where the key matches; it may not be there.
OutOfRange ==
    \E tag \in AutodiscoveryTags, g \in OnPage :
        tag.value = Missing /\ \E t \in tagged[g] : t.key = tag.key

Runs == phase \in {"ready", "describing"}
Describes == phase = "describing" /\ page =< LastPage

BeginDescribe ==
    /\ phase = "ready"
    /\ main = "between" /\ turn < Turns
    /\ phase' = "describing"
    /\ page' = 1
    /\ found' = {}
    /\ touched' = {}
    /\ UNCHANGED <<vars, env, tagged, retags>>

\* CreateClientSet fails.
NoClient ==
    /\ phase = "ready"
    /\ FailEarly
    /\ UNCHANGED discovery

ReadPage ==
    /\ Describes
    /\ ByTags /\ ~OutOfRange
    /\ found' = found \cup {g \in OnPage : Matches(g)}
    /\ page' = page + 1
    /\ UNCHANGED <<vars, env, phase, tagged, retags, touched>>

\* The panic of the main goroutine ends the process.
PanicOnTag ==
    /\ Describes
    /\ ByTags /\ OutOfRange
    /\ phase' = "dead"
    /\ UNCHANGED <<vars, env, tagged, page, found, retags, touched>>

\* One call: what it does not return with the first page is not asked for.
DescribeByNames ==
    /\ Describes
    /\ ~ByTags
    /\ \E named \in SUBSET env.autoScalingGroupNames :
        /\ \/ named = env.autoScalingGroupNames /\ Cardinality(named) =< MaxRecords
           \/ Cardinality(named) = MaxRecords
        /\ found' = named
    /\ page' = LastPage + 1
    /\ UNCHANGED <<vars, env, phase, tagged, retags, touched>>

\* Mutant: an error ends the description, the groups found so far are kept.
DescribeFails_KeepsFound ==
    /\ Describes
    /\ page' = LastPage + 1
    /\ UNCHANGED <<vars, env, phase, tagged, found, retags, touched>>

\* A page cannot be had: the turn has failed, whatever was found before.
DescribeFails ==
    /\ Describes
    /\ FailEarly
    /\ phase' = "ready"
    /\ UNCHANGED <<env, tagged, page, found, retags, touched>>

StartExecution ==
    /\ phase = "describing"
    /\ page = LastPage + 1
    /\ Start
    /\ phase' = "ready"
    /\ UNCHANGED <<env, tagged, page, found, retags, touched>>

\* An operator changes the tags of a group.
Retag(g, tags) ==
    /\ Runs
    /\ retags < MaxRetags
    /\ retags' = retags + 1
    /\ tagged' = [tagged EXCEPT ![g] = tags]
    /\ touched' = touched \cup {g}
    /\ UNCHANGED <<vars, env, phase, page, found>>

-----------------------------------------------------------------------------

Select == Runs /\ (SelectTimeout \/ SelectResult) /\ UNCHANGED discovery
Background(t) == Runs /\ (ExecutionReturns(t) \/ Goroutines(t)) /\ UNCHANGED discovery

Describe ==
    \/ BeginDescribe \/ NoClient \/ ReadPage \/ PanicOnTag \/ DescribeByNames \/ DescribeFails
    \/ StartExecution

ProcessNext ==
    \/ Initialize \/ Describe \/ Select
    \/ \E t \in Turn : Background(t)
    \/ \E g \in AwsGroups, tags \in TagSets : Retag(g, tags)

ProcessSpec == ProcessInit /\ [][ProcessNext]_processVars

\* As for ExecutionLoop; in particular the describing calls return.
ProcessFairSpec ==
    /\ ProcessSpec
    /\ WF_processVars(Initialize) /\ WF_processVars(Describe) /\ WF_processVars(Select)
    /\ \A t \in Turn : /\ WF_processVars(Runs /\ TimerRings(t) /\ UNCHANGED discovery)
                       /\ WF_processVars(Runs /\ SendResult(t) /\ UNCHANGED discovery)
                       /\ WF_processVars(Runs /\ SendTimeout(t) /\ UNCHANGED discovery)

-----------------------------------------------------------------------------
(* Properties.                                                             *)

\* The groups the documentation enables: README.md:27, `discovered by the
\* CLUSTER_NAME, AUTODISCOVERY_TAGS environment variables or the ones defined
\* in the AUTO_SCALING_GROUP_NAMES environment variable, in that order'.
Enabled(g) ==
    IF env.clusterName # Unset THEN Tags(env.clusterName) \subseteq tagged[g]
    ELSE IF env.autodiscoveryTags # {} THEN env.autodiscoveryTags \subseteq tagged[g]
    ELSE g \in env.autoScalingGroupNames

\* What discovery cannot do: compare a value with `=' in it, or return more
\* groups by name than one page has.
Impaired ==
    \/ ByTags /\ \E tag \in AutodiscoveryTags : Second(tag.value) # tag.value
    \/ ~ByTags /\ Cardinality(env.autoScalingGroupNames) > MaxRecords

\* An execution starts with exactly the enabled groups, whatever page they are
\* on and however often descriptions failed before; only of groups that were
\* retagged while they were described nothing is said.
StartsWithEnabledGroups ==
    [][main # "select" /\ main' = "select" =>
          \/ Impaired
          \/ \A g \in AwsGroups \ touched : g \in found <=> Enabled(g)]_processVars

\* A goroutine that has its message ready, and nobody listening any more, does
\* not keep it for ever if the process lives on (the buffers of one in
\* HandleRollingUpgrade).
GoroutinesEnd ==
    LET Waiting == \E t \in Turn : "sends" \in {execution[t], timer[t]}
    IN Waiting ~> ~Waiting \/ main = "panicked" \/ phase = "dead"
=============================================================================
