SPECIFICATION FairSpec
CONSTANTS
  Ops = {o1}
  MaxGenerations = 2
  MaxFailures = 0
  MaxDisposals = 0
PROPERTY StoppedPluginSettles
CHECK_DEADLOCK FALSE
