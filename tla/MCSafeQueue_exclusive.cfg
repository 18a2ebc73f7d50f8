CONSTANTS
  Pushers = {p1, p2}
  Popper = c
  Nodes = {n1, n2, n3}
  NULL = null
  Exclusive = TRUE
  Freeing = TRUE
  MaxItems = 5
SPECIFICATION FairSpec
INVARIANTS ListIntact
PROPERTIES ImplementsChannel FreeEnds
CHECK_DEADLOCK FALSE
