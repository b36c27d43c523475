------------------------------ MODULE Readiness ------------------------------
(***************************************************************************)
(* How many updated nodes may lag behind before a rollout waits for them:  *)
(* HasAcceptableNumberOfUpdatedNonReadyNodes of main.go.                   *)
(***************************************************************************)
EXTENDS Integers

\* Mutant: the bound is on the share of all updated nodes.
HasAcceptable_ShareOfAll(nonReady, ready) ==
    nonReady = 0 \/ (ready > 0 /\ nonReady =< 5 /\ 100 * nonReady =< 11 * (nonReady + ready))

\* At most 5, and at most 0.11 per ready one.  The code divides in floating
\* point; no quotient of a numerator up to 5 comes near enough to 0.11 for
\* rounding to matter.
HasAcceptable(nonReady, ready) ==
    nonReady = 0 \/ (ready > 0 /\ nonReady =< 5 /\ 100 * nonReady =< 11 * ready)
=============================================================================
