SPECIFICATION Spec
CONSTANTS
  LastStep = 2
  StepTime <- MCStepTime
  Emits <- MCEmits
  NumCheckpoints = 30
  Channels = {c1, c2}
  EventsCaller = events
  PollTimes = {2}
  EventTimes = {}
  AdvanceTimes = {}
  KeepsPromise = TRUE
CHECK_DEADLOCK FALSE
INVARIANTS
  NoLostWakeup
