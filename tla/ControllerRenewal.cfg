CONSTANTS
  Keys = {k1}
  NoKey = NoKey
  BadKey = BadKey
  Endpoints = {1, 2}
  Workers = {w1, w2}
  NoWorker = NoWorker
  Missing = Missing
  Corrupt = Corrupt
  MaxGeneration = 1
  MaxAttempts = 2
  MaxBoots = 0
CHECK_DEADLOCK FALSE
SPECIFICATION FairSpec
PROPERTIES RenewedEndpointRuns
