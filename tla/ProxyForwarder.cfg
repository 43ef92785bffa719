CONSTANTS
  Calls = {c1, c2}
  Valued = {c1}
  Nobody = Nobody
  MaxResponses = 3
CHECK_DEADLOCK FALSE
SPECIFICATION FairSpec
INVARIANTS TypeOK NoSendOnClosed NothingLeaks
PROPERTIES ReceiveLoopResumes PendingReleased ContractSpec
