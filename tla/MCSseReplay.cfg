SPECIFICATION ReplaySpec
CONSTANTS
  NoSub = NoSub
  NoQueue = NoQueue
  Conns = {c1, c2}
  Modes = {inline}
  MaxSize = 2
  MaxAttempts = 2
  MaxEvents = 1
  MaxSubs = 4
  MaxQueues = 2
  MaxLinks = 1
  MaxThrows = 0
CHECK_DEADLOCK FALSE
INVARIANT ReplayReachesPhone
