CONSTANTS
  Releases = {TRUE, FALSE}
  ServiceKeys = {1, 2}
  Endpoints = {1, 2}
  MaxUpdates = 2
  MaxRevision = 4
  MaxObjects = 3
CHECK_DEADLOCK FALSE
SPECIFICATION FairSpec
INVARIANTS ServicesAreCurrent PortIsAdvertised NoLeakedSubscription OneLiveResolve
PROPERTIES QueuedIsServed
