SPECIFICATION MCSpec
CONSTANTS
  i1 = i1
  i2 = i2
  i3 = i3
  Items = {i1, i2}
  Callers = {c1, c2}
  Workers = {w1, w2}
  KeyOf <- MCOneKey
  SizeOf <- MCSizeOf
  MaxCnt = 2
  MaxBlob = 10
  MaxTry = 2
  None = None
  p1 = p1
  p2 = p2
  p3 = p3
  wb1 = wb1
  wb2 = wb2
  wb3 = wb3
  b = b
  Personas = {p1, p2, p3}
  Hashes <- MCHashes
  Groups = {b}
  Channels = {1, 2}
  Specs <- MCSpecs
  PassThru = "passthru"
  Ordered = 0
  TransmitLinks <- MCTransmitLinks
  Configurations <- MCConfigurations
  NoCodec = NoCodec
  MaxPosts = 1
INVARIANTS
  CountTracksQueue
  NoSleepOnWork
  NothingVanishes
  PostedAgreesWithFate
  AddresseesHear
SYMMETRY Symmetry
CHECK_DEADLOCK FALSE
