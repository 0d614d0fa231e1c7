SPECIFICATION Spec
CONSTANTS
  n1 = n1
  n2 = n2
  Nodes = {n1, n2}
  Dials <- EachOther
  Links = {l1}
  NoEnd = NoEnd
  Clients = {c1, c2}
  Topics = {t1}
  Budgets <- OneLink
INVARIANTS
  SubscribersKnown
CHECK_DEADLOCK FALSE
