SPECIFICATION Spec
CONSTANTS
  Inputs = {runmode, hostname}
  Links = {l1}
  MaxConns = 2
  Openers = {o1}
  None = None
PROPERTIES
  DestroyClosesAll
CHECK_DEADLOCK FALSE
