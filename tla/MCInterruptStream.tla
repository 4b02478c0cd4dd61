-------------------------- MODULE MCInterruptStream --------------------------
(* Values for the constants of InterruptStream. *)
EXTENDS InterruptStream

\* Instants at 1, 2, 4, 5, 7, 8, with the one at 4 and the one at 7 silent.
MCStepTime == [k \in AllSteps |-> k + 1 + k \div 2]
MCEmits    == [k \in AllSteps |-> <<1, 1, 0, 2, 0, 1>>[k + 1]]
=============================================================================
