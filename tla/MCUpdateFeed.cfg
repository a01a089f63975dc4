SPECIFICATION MCSpec
CONSTANTS
  j1 = j1
  j2 = j2
  Builds <- MCBuilds
  Platforms <- MCPlatforms
  Archs <- MCArchs
  Runs <- MCRuns
  RunBuild <- MCRunBuild
  Jobs <- MCJobs
  Evidence <- MCEvidence
  KeptBuilds = 1
  MaxFailures = 1
INVARIANTS ManifestMeansComplete OnlyQualifiedPublic FeedsResolve AppcastsResolve
CHECK_DEADLOCK FALSE
SYMMETRY JobSymmetry
