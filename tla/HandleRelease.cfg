CONSTANTS
  Requests = {r1, r2}
  Main = Main
  MaxRefs = 3
CHECK_DEADLOCK FALSE
SPECIFICATION Spec
INVARIANTS NoUseAfterRelease
