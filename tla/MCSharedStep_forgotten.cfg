\* Every program of one instruction at most, and two callers.
SPECIFICATION SharedSpec
CONSTANTS
  MaxLength = 1
  Channels = {c1, c2}
  MaxWakes = 1
CHECK_DEADLOCK FALSE
INVARIANTS
  EveryCallerIsWoken
