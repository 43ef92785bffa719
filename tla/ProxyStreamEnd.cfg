CONSTANTS
  Calls = {c1, c2}
  Valued = {c1}
  Nobody = Nobody
  MaxResponses = 1
CHECK_DEADLOCK FALSE
SPECIFICATION FairSpec
PROPERTIES NoCallOutlivesStream
