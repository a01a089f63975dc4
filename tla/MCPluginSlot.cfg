SPECIFICATION BudgetSpec
CONSTANTS
  Ops = {o1, o2}
  First = o1
  MaxGenerations = 2
  MaxFailures = 1
  MaxDisposals = 1
INVARIANTS TransitionOwned SafeCommandSpares
PROPERTIES CommitsOutlastTakeDowns LeasesOnLiveBackends TransitionsSettle DisposeAnswers
\* a slot with every generation used up, or disposed of, stops
CHECK_DEADLOCK FALSE
