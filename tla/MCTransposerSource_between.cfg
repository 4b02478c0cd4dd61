SPECIFICATION Spec
CONSTANTS
  LastStep = 3
  StepTime <- MCStepTime
  Emits <- MCEmits
  NumCheckpoints = 30
  Channels = {c1}
  EventsCaller = events
  PollTimes = {2, 3}
  EventTimes = {4}
  AdvanceTimes = {3}
  KeepsPromise = TRUE
CHECK_DEADLOCK FALSE
INVARIANTS
  AdvancedTimeStaysReachable
