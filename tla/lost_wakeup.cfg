SPECIFICATION FairSendSpec
CONSTANTS
  Items = {1, 2}
  Callers = {a1, a2, n1}
  Apps = {a1, a2}
  Notifiers = {n1}
  Workers = {w1}
  MaxMsgs = 2
  KeyOf <- MCKeyOf
  SizeOf <- MCSizeOf
  BytesOf <- MCBytesOf
  MaxCnt = 2
  MaxBlob = 20
  MaxTry = 1
  None = None
  MaxQBytes = 2
  HasTimeout = FALSE
CHECK_DEADLOCK FALSE
PROPERTIES
  ProvidersLearnOfEmptyQueue
