SPECIFICATION FairSpec
CONSTANTS
  Padded <- NoPadded
  NoRetain = NoRetain
  Conns = {c1, c2}
  NoConn = NoConn
  Identities = {"i1", "i2"}
  NoIdentity = NoIdentity
  Filters <- TopicAndPlus
  Packets <- TwoClients
  MaxConnects = 1
  Overlap = FALSE
  Unsolicited = FALSE
INVARIANTS
  TypeOK
  NoWillAfterDisconnect
  OneOpenPerIdentity
  CleanedIsForgotten
  AloneIsServed
PROPERTY
  ClosedEnds
CHECK_DEADLOCK FALSE
