---------------------------- MODULE ExecutionLoop ----------------------------
(***************************************************************************)
(* The main loop and HandleRollingUpgrade of main.go: each turn starts two *)
(* goroutines, the execution and its timer, and waits for the first of     *)
(* them to send on its own channel.  Nobody waits for the other one.       *)
(* RollingUpgrade says what an execution does; here it runs and returns.   *)
(* Process composes the loop with the discovery of the groups.             *)
(***************************************************************************)
EXTENDS Naturals

CONSTANTS
    MaximumFailedExecutionBeforePanic,
    Turns      \* bound on the number of turns of the loop

ASSUME ExecutionLoopAssumption ==
    /\ MaximumFailedExecutionBeforePanic \in Nat
    /\ Turns \in Nat

VARIABLES
    main,        \* where the main goroutine is
    turn,        \* the turn it is in or has completed
    executionFailedCounter,
    execution,   \* the goroutine of each turn that does the work
    timer,       \* the one that sleeps for ExecutionTimeout
    outcome      \* history: how each turn ended

vars == <<main, turn, executionFailedCounter, execution, timer, outcome>>

Turn == 1 .. Turns

\* A goroutine "sends" when it has its message ready, and has "sent" when it
\* could leave it in the channel and end.
Goroutine == {"none", "runs", "sends", "sent"}

\* Every variable stays in its type; the failure counter never goes below zero.
TypeOK ==
    /\ main \in {"between", "select", "panicked"}
    /\ turn \in 0 .. Turns
    /\ executionFailedCounter \in Nat
    /\ execution \in [Turn -> Goroutine]
    /\ timer \in [Turn -> Goroutine]
    /\ outcome \in [Turn -> {"none", "ok", "failed"}]

Init ==
    /\ main = "between"
    /\ turn = 0
    /\ executionFailedCounter = 0
    /\ execution = [t \in Turn |-> "none"]
    /\ timer = [t \in Turn |-> "none"]
    /\ outcome = [t \in Turn |-> "none"]

-----------------------------------------------------------------------------

\* Mutant: the counter is compared before it is incremented.
Failed_ComparedBefore(t) ==
    /\ executionFailedCounter' = executionFailedCounter + 1
    /\ main' = IF executionFailedCounter > MaximumFailedExecutionBeforePanic THEN "panicked" ELSE "between"
    /\ outcome' = [outcome EXCEPT ![t] = "failed"]

\* What main does when run returns an error, or none.  The panic ends the
\* process and with it every goroutine.
Failed(t) ==
    /\ executionFailedCounter' = executionFailedCounter + 1
    /\ main' = IF executionFailedCounter' > MaximumFailedExecutionBeforePanic THEN "panicked" ELSE "between"
    /\ outcome' = [outcome EXCEPT ![t] = "failed"]

\* Mutant: a success takes one failure back.
Succeeded_TakesOneBack(t) ==
    /\ executionFailedCounter' = executionFailedCounter - 1
    /\ main' = "between"
    /\ outcome' = [outcome EXCEPT ![t] = "ok"]

Succeeded(t) ==
    /\ executionFailedCounter' = 0
    /\ main' = "between"
    /\ outcome' = [outcome EXCEPT ![t] = "ok"]

NextTurn ==
    /\ main = "between"
    /\ turn < Turns
    /\ turn' = turn + 1

\* No client, or the groups cannot be described.
FailEarly ==
    /\ NextTurn
    /\ Failed(turn')
    /\ UNCHANGED <<execution, timer>>

Start ==
    /\ NextTurn
    /\ main' = "select"
    /\ execution' = [execution EXCEPT ![turn'] = "runs"]
    /\ timer' = [timer EXCEPT ![turn'] = "runs"]
    /\ UNCHANGED <<executionFailedCounter, outcome>>

\* DoHandleRollingUpgrade returns; it may take for ever.
ExecutionReturns(t) ==
    /\ main # "panicked"
    /\ execution[t] = "runs"
    /\ execution' = [execution EXCEPT ![t] = "sends"]
    /\ UNCHANGED <<main, turn, executionFailedCounter, timer, outcome>>

\* Mutant: the timer shares the goroutine of the execution.
TimerRings_AfterExecution(t) ==
    /\ main # "panicked"
    /\ timer[t] = "runs"
    /\ execution[t] # "runs"
    /\ timer' = [timer EXCEPT ![t] = "sends"]
    /\ UNCHANGED <<main, turn, executionFailedCounter, execution, outcome>>

TimerRings(t) ==
    /\ main # "panicked"
    /\ timer[t] = "runs"
    /\ timer' = [timer EXCEPT ![t] = "sends"]
    /\ UNCHANGED <<main, turn, executionFailedCounter, execution, outcome>>

\* Mutant: channels without a buffer, a send waits for its receiver.
Room_Unbuffered(t) == main = "select" /\ turn = t

\* Each channel holds one message and is sent to once: there is always room.
Room(t) == TRUE

SendResult(t) ==
    /\ main # "panicked"
    /\ execution[t] = "sends"
    /\ Room(t)
    /\ execution' = [execution EXCEPT ![t] = "sent"]
    /\ UNCHANGED <<main, turn, executionFailedCounter, timer, outcome>>

SendTimeout(t) ==
    /\ main # "panicked"
    /\ timer[t] = "sends"
    /\ Room(t)
    /\ timer' = [timer EXCEPT ![t] = "sent"]
    /\ UNCHANGED <<main, turn, executionFailedCounter, execution, outcome>>

\* The select takes whichever message is there, either one if both are.
SelectTimeout ==
    /\ main = "select"
    /\ timer[turn] = "sent"
    /\ Failed(turn)
    /\ UNCHANGED <<turn, execution, timer>>

SelectResult ==
    /\ main = "select"
    /\ execution[turn] = "sent"
    /\ Succeeded(turn)
    /\ UNCHANGED <<turn, execution, timer>>

Goroutines(t) == TimerRings(t) \/ SendResult(t) \/ SendTimeout(t)

Next ==
    \/ FailEarly \/ Start
    \/ SelectTimeout \/ SelectResult
    \/ \E t \in Turn : ExecutionReturns(t) \/ Goroutines(t)

Spec == Init /\ [][Next]_vars

-----------------------------------------------------------------------------
(* Properties.                                                             *)

\* Turn t and the n - 1 before it failed.
InARow(n, t) == n =< t /\ \A u \in t - n + 1 .. t : outcome[u] = "failed"

\* The process gives up when, and only when, the maximum number of failures
\* has been passed in a row (main.go:57): a success in between is forgiven, and
\* it never goes on after that many.
PanicsAfterFailuresInARow ==
    LET toomany == MaximumFailedExecutionBeforePanic + 1
    IN /\ main = "panicked" <=> InARow(toomany, turn)
       /\ \A t \in 1 .. turn - 1 : ~InARow(toomany, t)

\* An execution that hangs does not keep the loop from going on.
TurnsEnd == main = "select" ~> main # "select"
=============================================================================
