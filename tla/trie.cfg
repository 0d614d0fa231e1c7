SPECIFICATION Spec
CONSTANTS
  c1 = c1
  c2 = c2
  m1 = m1
  i1 = i1
  i2 = i2
  NoRetain = NoRetain
  Identities = {i1, i2}
  Clients = {c1}
  Packets = {m1}
  MaxDropped = 1
  Padded <- NoPadded
  Filters <- SomeFilters
  Topics <- SomeTopics
SYMMETRY Symmetry
INVARIANTS
  TypeOK
  NoSubscriberMissed
  OnlyKnownStrangers
  RetainedFound
  NoDeadBranch
  RetainCounted
PROPERTY
  ImplementsTopicStore
