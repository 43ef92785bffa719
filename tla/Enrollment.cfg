CONSTANTS
  Processes = {p1, p2}
  MaxCAs = 2
  MaxKeys = 4
CHECK_DEADLOCK FALSE
SPECIFICATION Spec
SYMMETRY Symmetry
INVARIANTS OneCA EnrolledConnects
