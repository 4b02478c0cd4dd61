\* Four events at three times, with up to two inputs at a time.
CONSTANTS
  StartTime = 0
  LastTime = 2
  MaxEvents = 4
  MaxInputs = 2
SPECIFICATION Spec
INVARIANTS
  TypeOK
  KeysAreFresh
  MapsInSync
  HandlesNameTheirEvents
  NothingOverdue
PROPERTY ImplementsAgenda
\* the schedule runs out
CHECK_DEADLOCK FALSE
