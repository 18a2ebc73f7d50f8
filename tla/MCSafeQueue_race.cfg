CONSTANTS
  Pushers = {p1}
  Popper = c
  Nodes = {n1, n2, n3}
  NULL = null
  Exclusive = FALSE
  Freeing = FALSE
  MaxItems = 3
SPECIFICATION Spec
INVARIANTS PushedIsQueued
CHECK_DEADLOCK FALSE
