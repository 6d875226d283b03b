SPECIFICATION Spec
CONSTANTS
  Pullers = {r1, r2}
  Videos = {v1, v2}
  Packed = 2
  MaxCalls = 2
  me = me
  w1 = w1
  w2 = w2
  p1 = p1
  sv = sv
  t1 = t1
  t2 = t2
  k1 = k1
  k2 = k2
  Hosts = {me, w1, w2, p1, sv}
  Servers = {sv}
  Me = me
  Configured = {w1, w2}
  Peers = {p1, sv}
  Addresses <- MCAddresses
  ReceiveIds = {l1, l2}
  SendIds = {k1, k2}
  Tags = {t1, t2}
  NoTag = NoTag
  NoHost = NoHost
  MaxActions = 3
  MaxPActions = 2
  MaxItems = 4
  SavePeriod = 1
  MaxPosts = 5
  Savers = {s1, s2}
  Clients = {c1, c2}
  MaxSaved = 3
  Counts = {1, 2}
  NoThread = NoThread
INVARIANTS
  MessagesComeOnceInOrder
  ResultAgrees
  OnePusherPerWhiteboard
  OneTagPerPersona
  StatesFollowCounters
  ClientsHaveAPrefix
PROPERTIES
  VideosAreUnpacked
  PullersStay
  SendersAreFound
  RateIsTracked
CHECK_DEADLOCK FALSE
