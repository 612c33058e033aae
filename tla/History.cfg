CONSTANTS
  Checks <- MCChecks
  HistorySize = 2
  MaxQuery = 2
  MaxRounds = 4
  Nobody = Nobody
  None = None
SPECIFICATION HistorySpec
INVARIANTS LastSuccessSurvives  OutageBounded QueryIsMostRecent
