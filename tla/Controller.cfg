CONSTANTS
  Keys = {k1}
  NoKey = NoKey
  BadKey = BadKey
  Endpoints = {1, 2}
  Workers = {w1, w2}
  NoWorker = NoWorker
  Missing = Missing
  Corrupt = Corrupt
  MaxGeneration = 2
  MaxAttempts = 2
  MaxBoots = 1
CHECK_DEADLOCK FALSE
SPECIFICATION FairSpec
INVARIANTS TypeOK OneAction UncancelledIsCurrent StatusIsTrue
INVARIANTS SubscriptionFollowsIntent RetriesBounded
PROPERTIES OldGenerationSilent ContractSpec ReplacementRuns
