SPECIFICATION Spec
CONSTANTS
  MaxSize = 2
  MaxAttempts = 2
  NoSub = NoSub
  MaxEvents = 4
  MaxListens = 1
INVARIANT PoisonedAfterMaxAttempts
CHECK_DEADLOCK FALSE
