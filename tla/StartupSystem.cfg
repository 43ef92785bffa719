CONSTANTS
  Keys = {k1}
  NoKey = NoKey
  BadKey = BadKey
  Endpoints = {1}
  Workers = {w1}
  NoWorker = NoWorker
  Missing = Missing
  Corrupt = Corrupt
  MaxGeneration = 2
  MaxAttempts = 1
  MaxBoots = 0
  Releases = {TRUE}
  ServiceKeys = {1}
  MaxRevision = 3
  MaxObjects = 2
SPECIFICATION FairSystemSpec
CHECK_DEADLOCK FALSE
INVARIANTS EndpointAgreement SearchAgreement
PROPERTIES EndpointsAreFresh SearchFollowsIntent
