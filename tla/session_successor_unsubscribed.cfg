SPECIFICATION Spec
CONSTANTS
  Padded <- NoPadded
  NoRetain = NoRetain
  Conns = {c1, c2}
  NoConn = NoConn
  Identities = {"i1"}
  NoIdentity = NoIdentity
  Filters <- TopicAndPlus
  Packets <- OneClient
  MaxConnects = 1
  Overlap = FALSE
  Unsolicited = FALSE
INVARIANTS
  SuccessorIsServed
CHECK_DEADLOCK FALSE
