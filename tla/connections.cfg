SPECIFICATION Spec
CONSTANTS
  Inputs = {runmode, hostname}
  Links = {l1, l2}
  MaxConns = 3
  Openers = {o1, o2}
  None = None
SYMMETRY Symmetry
INVARIANTS
  SDKAgreesWithTables
PROPERTIES
  ClosedForGood
  WatcherEndsAtHalfOpen
CHECK_DEADLOCK FALSE
