SPECIFICATION FairSpec
CONSTANT MaxHelpers = 4
INVARIANTS ResultTells ProbesRunAlone
PROPERTIES ReadinessIsFresh SessionEnds
CHECK_DEADLOCK FALSE
