------------------------ MODULE MCTransposerSource ------------------------
(* Values for the constants of TransposerSource. *)
EXTENDS TransposerSource, TLC

\* Instants at 1, 2, 4, 5, 7, 8: some adjacent, some with a time in between.
MCStepTime == [k \in AllSteps |-> k + 1 + k \div 2]

MCEmits    == [k \in AllSteps |-> <<1, 1, 0, 2, 1, 1>>[k + 1]]
MCFewEmits == [k \in AllSteps |-> <<0, 0, 1, 1, 0, 1>>[k + 1]]

ChannelSymmetry == Permutations(Channels)
=============================================================================
