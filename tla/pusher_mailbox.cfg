SPECIFICATION FairSpec
CONSTANTS
  i1 = i1
  i2 = i2
  i3 = i3
  Items = {i1, i2, i3}
  Callers = {c1, c2}
  Workers = {w1}
  KeyOf <- MCKeyOf
  SizeOf <- MCSizeOf
  MaxCnt = 2
  MaxBlob = 11
  MaxTry = 2
  None = None
PROPERTIES
  ImplementsMailbox
  AcceptedSettles
CHECK_DEADLOCK FALSE
