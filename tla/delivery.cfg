SPECIFICATION FairSpec
CONSTANTS
  n1 = n1
  n2 = n2
  pub = pub
  near = near
  other = other
  far = far
  Nodes = {n1, n2}
  Conns = {pub, near, other, far}
  NodeOf <- Place
  IdOf <- Distinct
  Filters = {"f1", "f2"}
  Programs <- AllPrograms
  NoMessage = NoMessage
  ClientRoom = 1
  LinkRoom = 4
INVARIANTS
  TypeOK
  AtMostOnce
  InOrder
  NoneMissed
  RetainedIsSent
PROPERTY
  HandlersEnd
CHECK_DEADLOCK FALSE
