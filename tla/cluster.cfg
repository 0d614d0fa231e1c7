SPECIFICATION Spec
CONSTANTS
  n1 = n1
  n2 = n2
  Nodes = {n1, n2}
  Dials <- EachOther
  Links = {l1, l2}
  NoEnd = NoEnd
  Clients = {c1}
  Topics = {t1}
  Budgets <- OpsOrLinks
INVARIANTS
  TypeOK
  SubscribersKnown
  EntryIsServed
SYMMETRY LinkSymmetry
CHECK_DEADLOCK FALSE
