SPECIFICATION FairSpec
CONSTANTS
  MaxSize = 2
  MaxAttempts = 2
  NoSub = NoSub
  MaxEvents = 5
  MaxListens = 3
INVARIANTS InOrderOnce LossIsAccounted NoLostWakeup DeliveryInv
PROPERTY BacklogDrains
CHECK_DEADLOCK FALSE
