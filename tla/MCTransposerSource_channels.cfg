SPECIFICATION Spec
CONSTANTS
  LastStep = 5
  StepTime <- MCStepTime
  Emits <- MCFewEmits
  NumCheckpoints = 2
  Channels = {c1, c2}
  EventsCaller = events
  PollTimes = {0, 2, 4, 8}
  EventTimes = {5, 7, 8}
  AdvanceTimes = {0, 5}
  KeepsPromise = TRUE
CHECK_DEADLOCK FALSE
INVARIANTS
  TypeOK
  CheckpointsMatchSteps
  FrontierIsRecoverable
  EventsDeliveredOnceInOrder
  CheckpointsBounded
  RepeatCountsExact
  CallsFailOnlyAsKnown
PROPERTIES
  PinnedProgressKept
  ImplementsSharedContract
SYMMETRY ChannelSymmetry
