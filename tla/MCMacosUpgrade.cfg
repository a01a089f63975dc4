SPECIFICATION FairSpec
CONSTANTS
  accessToken = accessToken
  refreshToken = refreshToken
  Accounts <- MCAccounts
  MaxGenerations = 2
  MaxRotations = 1
INVARIANTS OutcomeTells
PROPERTIES ForeignStateSurvives LaunchesTheCandidateAlone QuitsWhatItQualified QualificationEnds
CHECK_DEADLOCK FALSE
