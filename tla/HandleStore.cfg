CONSTANTS
  Requests = {r1, r2, r3}
  Main = Main
  MaxRefs = 4
CHECK_DEADLOCK FALSE
SPECIFICATION Spec
SYMMETRY Symmetry
INVARIANTS OneOwner ServiceKeepsItsOwn
PROPERTIES HandlesAreFinal
