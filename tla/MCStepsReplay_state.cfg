SPECIFICATION StateSpec
CONSTANTS
  LastStep = 200
  StepTime <- MCStepTime
  Emits <- MCEmits
  NumCheckpoints = 30
CHECK_DEADLOCK FALSE
INVARIANTS
  AdvanceTestPasses
