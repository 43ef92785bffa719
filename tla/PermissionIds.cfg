CONSTANTS
  Clients = {c1, c2}
  Methods = {m1}
  Requested = {{m1}}
  MaxRequests = 2
CHECK_DEADLOCK FALSE
SPECIFICATION FlowSpec
INVARIANTS ApprovalIsShown
