SPECIFICATION FairSpec
CONSTANTS
  Packages = {"p", "q"}
  Contents <- MCContents
  Pullers = {r1, r2}
  MaxSegs = 2
  MaxReads = 3
  MaxRecvMsgHashes = 2
  None = None
INVARIANTS
  TrackersArePartial
  HandedOnce
PROPERTIES
  ImplementsDelivery
  WholeIsDelivered
CHECK_DEADLOCK FALSE
