SPECIFICATION FairSpec
CONSTANTS
  Urls = {u1, u2}
  MaxQueries = 2
  MaxLinks = 2
  MaxPaa = 1
  EntryTokens = {1, 3}
  QuickTokens = 2
  ThoroughTokens = 4
  MaxIterations = 3
  MaxSteps = 6
  KeepRecent = 3
INVARIANTS TypeOK ContextIsSound ContextFitsBudget
PROPERTIES WorkerEnds
CHECK_DEADLOCK FALSE
