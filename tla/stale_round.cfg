SPECIFICATION FairSpec
CONSTANTS
  r1 = r1
  r2 = r2
  Kinds = {"pixelfed"}
  Readers = {r1}
  Runs <- MCRuns
  Posts = {p1, p2}
  MaxNow = 1
  Skews <- MCSkews
  NumWords = 2
  High <- MCHigh
  None = None
PROPERTIES
  EveryListOnce
CHECK_DEADLOCK FALSE
