--------------------------- MODULE MCPatientCaller ---------------------------
(* Values for the constants of PatientCaller. *)
EXTENDS PatientCaller

\* Instants at 1, 2, 4, 5, 7.
MCStepTime == [k \in AllSteps |-> k + 1 + k \div 2]
MCEmits    == [k \in AllSteps |-> <<1, 1, 0, 2, 1>>[k + 1]]

\* The spacing of the checkpoints with the budget of the code, as basic_test
\* asserts it (steps.rs:504 and 526): the checkpoints left when the steps up to
\* `last` are saturated one after the other, from those of `kept` on.
Long == INSTANCE Steps WITH
  LastStep <- 200, StepTime <- [k \in 0..200 |-> k], Emits <- [k \in 0..200 |-> 1],
  NumCheckpoints <- 30

Checkpoints(kept, last) ==
  LET after[k \in Max(kept)..last] ==
        IF k = Max(kept) THEN kept
        ELSE LET before == [notUnsat |-> after[k - 1], numDeleted |-> 0, deletedBefore |-> Never]
             IN  (before.notUnsat \ Long!SequenceNumberToDelete(before, {}, k)) \cup {k}
  IN  after[last]

Multiples(d, a, b) == {k \in a..b : k % d = 0}

ASSUME SpacingIsThatOfTheTest ==
  /\ Checkpoints({0}, 99) = Multiples(4, 0, 84) \cup Multiples(2, 86, 98) \cup {99}
  /\ Checkpoints(Multiples(4, 28, 84) \cup Multiples(2, 86, 98) \cup {99}, 199)
       = {28} \cup Multiples(8, 32, 144) \cup Multiples(4, 148, 196) \cup {199}
=============================================================================
