CONSTANTS
  Clients = {c1}
  Methods = {m1, m2}
  Requested = {{m1, m2}}
  MaxRequests = 2
CHECK_DEADLOCK FALSE
SPECIFICATION FairFlowSpec
INVARIANTS FlowTypeOK ClaimIsTrue NeverReplays AskedOnce GrantsAreBacked
PROPERTIES DecisionsAreFinal ApprovalIsWhole SavingEnds
