SPECIFICATION Spec
CONSTANTS
  LastStep = 3
  StepTime <- MCStepTime
  Emits <- MCEmits
  NumCheckpoints = 30
  Channels = {c1}
  EventsCaller = events
  PollTimes = {4}
  EventTimes = {5}
  AdvanceTimes = {}
  KeepsPromise = TRUE
CHECK_DEADLOCK FALSE
INVARIANTS
  EventsComeBeforeTheState
