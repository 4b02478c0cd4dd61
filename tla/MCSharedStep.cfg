\* Every program of up to three instructions, and two callers.
SPECIFICATION SharedSpec
CONSTANTS
  MaxLength = 3
  Channels = {c1, c2}
  MaxWakes = 1
INVARIANTS
  TypeOK
  DeliveredOnceInOrder
  AwaitedIsDelivered
  PanicsOnlyUnawaited
  NoOneForgotten
PROPERTIES
  SilentOnceSaturated
  CallersAreWoken
\* the future may panic, and then nothing follows
CHECK_DEADLOCK FALSE
