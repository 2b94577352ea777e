CONSTANTS
  r1 = r1
  r2 = r2
  t1 = t1
  t2 = t2
  e1 = e1
  e2 = e2
  e3 = e3
  id1 = id1
  NoId = NoId
  Replicas <- MCReplicas
  Txns <- MCTxns
  Records <- ReportRecords
  Home <- MCHome
  Staged <- ReportStaged
  EventId <- ReportEventId
  BatchSize = 3
  MaxFaults = 0
SPECIFICATION Spec
INVARIANTS
  NoLostEvent
CHECK_DEADLOCK FALSE
