SPECIFICATION MCSpec
CONSTANTS
  a1 = a1
  a2 = a2
  a3 = a3
  Actions = {a1, a2, a3}
  Foreign = {f1, f2}
  Malformed = {f2}
  MaxTries = 2
  Capacity = 2
  MaxHashes = 1
  MaxFetches = 2
  MaxLives = 2
  Fetch = Fetch
  PipeSize = 1
  MaxIn = 3
  MaxOwed = 2
  c1 = c1
  c2 = c2
  c3 = c3
  c4 = c4
  Media = {c1, c2, c3, c4}
  Size <- MCSize
  Maximum = 4
  Header = 2
  SizeT = 16
  MaxLength = 4
  NoMedia = NoMedia
  LinkIds = {1, 2}
  MaxTime = 3
  MaxActions = 4
  NoAction = NoAction
INVARIANTS
  EachPostReadOnce
  OwnPostsAreKnown
  StatusAgrees
  AnswerIsWhole
  SegmentsFit
PROPERTIES
  ThreadAnswers
  RunReturns
  SendReturns
  FirstActionStays
CHECK_DEADLOCK FALSE
