--------------------------- MODULE MCStepsReplay ---------------------------
(* Values for the constants of StepsReplay. *)
EXTENDS StepsReplay

\* The Collatz transposer: an instant at every time, one event at each.
MCStepTime == [k \in AllSteps |-> k]
MCEmits    == [k \in AllSteps |-> 1]
=============================================================================
