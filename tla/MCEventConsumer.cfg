CONSTANTS
  w1 = w1
  w2 = w2
  m1 = m1
  m2 = m2
  m3 = m3
  event1 = event1
  NoId = NoId
  None = None
  Workers <- MCWorkers
  Messages <- MCMessages
  Malformed <- MCMalformed
  EventOf <- MCEventOf
  MaxDeliver = 3
  MaxFaults = 1
SPECIFICATION FairSpec
INVARIANTS
  TypeOK
  NoAckWithoutEffect
  NothingDroppedQuietly
PROPERTIES
  ImplementsInbox
  RedeliveryEnds
CHECK_DEADLOCK FALSE
