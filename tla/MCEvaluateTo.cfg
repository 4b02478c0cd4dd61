SPECIFICATION Spec
CONSTANTS
  LastTime = 3
  MaxInputs = 4
  Programs <- MCPrograms
INVARIANTS
  ResultIsTheTransposers
  StatesAreFetchedOnce
PROPERTY EvaluationEnds
\* the evaluation ends
CHECK_DEADLOCK FALSE
