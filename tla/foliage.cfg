SPECIFICATION Spec
CONSTANTS
  Procs = {p1, p2, p3}
  Pinned = {q}
  Leaves = {l0, l1, l2}
  NoLeaf = NoLeaf
  Leaf0 = l0
  MaxCount = 4
INVARIANTS
  TypeOK
  NoGhostDelivery
  NoLostSubscription
  CountedWhilePinned
SYMMETRY ConnectionsAndLeaves
CHECK_DEADLOCK FALSE
