SPECIFICATION FairSendSpec
CONSTANTS
  Items = {1, 2, 3}
  Callers = {a1, a2, n1}
  Apps = {a1, a2}
  Notifiers = {n1}
  Workers = {w1}
  MaxMsgs = 3
  KeyOf <- MCKeyOf
  SizeOf <- MCSizeOf
  BytesOf <- MCBytesOf
  MaxCnt = 2
  MaxBlob = 10
  MaxTry = 1
  None = None
  MaxQBytes = 2
  HasTimeout = TRUE
INVARIANTS
  BatchWithinLimits
  OrderSurvivesFlush
  QueueIsWatched
CHECK_DEADLOCK FALSE
PROPERTIES
  MessagesLeave
