CONSTANTS
  r1 = r1
  r2 = r2
  t1 = t1
  t2 = t2
  e1 = e1
  e2 = e2
  e3 = e3
  id1 = id1
  NoId = NoId
  Replicas <- MCReplicas
  Txns <- MCTxns
  Records <- MCRecords
  Home <- MCHome
  Staged <- MCStaged
  EventId <- MCEventId
  BatchSize = 2
  MaxFaults = 1
SPECIFICATION FairSpec
INVARIANTS
  TypeOK
  NoLostEvent
  ClaimsExclusive
PROPERTIES
  ImplementsDelivery
  OutboxDrains
  OrderUnlessSplit
CHECK_DEADLOCK FALSE
