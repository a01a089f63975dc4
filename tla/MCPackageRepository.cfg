SPECIFICATION FairSpec
CONSTANTS
  Archs <- MCArchs
  Builds <- MCBuilds
  KeptBuilds = 1
  MaxIssues = 2
  MaxFailures = 2
INVARIANT IndexesResolve
PROPERTIES NeverRollsBack InReleaseCommits ReleasesReachClients
CHECK_DEADLOCK FALSE
