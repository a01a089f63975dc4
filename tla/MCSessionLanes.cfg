SPECIFICATION FairSpec
CONSTANTS
  s1 = s1
  s2 = s2
  s3 = s3
  pluginA = pluginA
  Ops = {o1, o2}
  Sessions = {s1, s2, s3}
  PluginOf <- MCOnePlugin
  NoSession = NoSession
  NoOp = NoOp
  MaxDepth = 2
  MaxReparents = 1
INVARIANTS ArrivalOrder DrainCoversAccepted LaneEntryIffBusy DispatcherInv
PROPERTIES ImplementsFamilyFifo EveryOperationSettles DrainAnswers
CHECK_DEADLOCK FALSE
