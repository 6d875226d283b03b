SPECIFICATION FairSpec
CONSTANTS
  r1 = r1
  r2 = r2
  Kinds = {"pixelfed", "avideo", "permstore", "pixelfedSelenium", "avideoSelenium"}
  Readers = {r1, r2}
  Runs <- MCRuns
  Posts = {p1, p2}
  MaxNow = 1
  Skews <- MCSkews
  NumWords = 1
  High <- MCHigh
  None = None
INVARIANTS
  NothingPassedOver
  HandedOnce
PROPERTIES
  ReadersMoveOn
CHECK_DEADLOCK FALSE
