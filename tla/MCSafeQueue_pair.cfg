CONSTANTS
  Pushers = {p1}
  Popper = c
  Nodes = {n1, n2, n3, n4}
  NULL = null
  Exclusive = FALSE
  Freeing = FALSE
  MaxItems = 5
SYMMETRY NodeSymmetry
SPECIFICATION Spec
INVARIANTS LongListSurvives
CHECK_DEADLOCK FALSE
