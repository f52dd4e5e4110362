---------------------------- MODULE MCLocalRunner ----------------------------
(***************************************************************************)
(* The local runner at its two jobs: exploring for a run, and translating  *)
(* what is pending.  They share no variable, and each is checked while the *)
(* other is at rest: no run is created, or no event is published.          *)
(***************************************************************************)
EXTENDS MCRunnerLoop, TranslationQueue

VARIABLE job

jobVars == <<job, allVars, queueVars>>

\* While translating, all events are published at first, or all but the last:
\* the other initial states are a change or two away. Texts are interchangeable,
\* so that one initial text stands for all.
JobsInit ==
    /\ job \in {"explore", "translate"}
    /\ LoopInit /\ QueueInit
    /\ \A e \in Events \ {NumEvents} : Published(e) <=> job = "translate"
    /\ Published(NumEvents) => job = "translate"
    /\ \A e \in Events : text[e] = CHOOSE t \in Texts : TRUE

\* Bound: while the last event is published too, one change or one fault.
Narrow == Published(NumEvents) => changes + queueFaults <= 1

ExploreNext == job = "explore" /\ LoopNext /\ UNCHANGED <<job, queueVars>>
TranslateNext == job = "translate" /\ QueueNext /\ Narrow' /\ UNCHANGED <<job, allVars>>

\* What fairness asks for is not enabled in a job at rest.
JobsSpec ==
    /\ JobsInit
    /\ [][ExploreNext \/ TranslateNext]_jobVars
    /\ LoopFairness /\ QueueFairness
=============================================================================
