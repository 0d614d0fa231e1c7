SPECIFICATION FairFlowSpec
CONSTANTS
  c1 = c1
  c2 = c2
  NoId = NoId
  Clients = {c1, c2}
  Handlers = {h1, h2, h3}
  MessageIds = {m1}
  Timers = {t1, t2}
  Qos2Timeout = 1
  maxQos2Msgs = 0
  Horizon = 2
  MaxMessages <- MCMessages
  MaxReconnects <- MCReconnects
  Overlap = TRUE
INVARIANTS
  TypeOK
  NoMessageForgotten
  AcknowledgedIsPublished
  
  RefusedForOthers
PROPERTY
  InFlightDrains
CHECK_DEADLOCK FALSE
