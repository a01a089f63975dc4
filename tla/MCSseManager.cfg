SPECIFICATION Spec
CONSTANTS
  NoSub = NoSub
  NoQueue = NoQueue
  Conns = {c1, c2}
  Modes = {inline, stored}
  MaxSize = 2
  MaxAttempts = 2
  MaxEvents = 2
  MaxSubs = 3
  MaxQueues = 2
  MaxLinks = 2
  MaxThrows = 1
SYMMETRY Symmetric
CHECK_DEADLOCK FALSE
INVARIANTS QueuesPlaced ModeIsolation TurnoverLosesNothing BacklogIsServed
PROPERTY SuccessorIsSpared
