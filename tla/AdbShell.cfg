SPECIFICATION Spec
CONSTANTS
  MaxOutput = 2
  MaxPayload = 3
  MaxPackets = 4
  MaxByte = 3
  MaxStream = 8
INVARIANT OutcomeIsRight
CHECK_DEADLOCK FALSE
