\* Five instants, five events and a budget of three checkpoints, which the chain
\* outgrows: steps are given up, recomputed, and two neighbours given up make a
\* search loop, which ends the behaviour.  One channel: with a second one
\* NoLostWakeup fails (MCTransposerSource_lost.cfg).
SPECIFICATION CallerSpec
CONSTANTS
  LastStep = 4
  StepTime <- MCStepTime
  Emits <- MCEmits
  NumCheckpoints = 3
  Channels = {c1}
  EventsCaller = events
  PollTimes = {1, 2, 3, 4, 6, 7, 8}
  EventTimes = {}
  AdvanceTimes = {}
  KeepsPromise = TRUE
  Caller = c1
CHECK_DEADLOCK FALSE
INVARIANTS
  FailsOnlyBeyondTheBudget
  NoLostWakeup
  AnswersTheQuestion
PROPERTIES
  ImplementsContract
  WishesAreFulfilled
