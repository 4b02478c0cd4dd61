SPECIFICATION StreamSpec
CONSTANTS
  LastStep = 5
  StepTime <- MCStepTime
  Emits <- MCEmits
  NumCheckpoints = 3
  Channels = {}
  EventsCaller = events
  PollTimes = {}
  EventTimes = {0, 1, 2, 3, 4, 5, 6, 7, 8, 9}
  AdvanceTimes = {0, 1, 2, 3, 4, 5, 6, 7, 8, 9}
  KeepsPromise = TRUE
  MaxTime = 9
CHECK_DEADLOCK FALSE
INVARIANTS
  SleepsNoLongerThanTheNextEvent
  StreamHoldsOneState
  PanicsOnlyBeforeTheStart
  NeverEarly
PROPERTIES
  EventsArePlayed
