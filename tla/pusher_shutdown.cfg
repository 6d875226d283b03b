SPECIFICATION FairSpec
CONSTANTS
  i1 = i1
  i2 = i2
  i3 = i3
  Items = {i1}
  Callers = {c1}
  Workers = {w1}
  KeyOf <- MCKeyOf
  SizeOf <- MCSizeOf
  MaxCnt = 2
  MaxBlob = 11
  MaxTry = 1
  None = None
PROPERTIES
  ShutdownTerminates
CHECK_DEADLOCK FALSE
