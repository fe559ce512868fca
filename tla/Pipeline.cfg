SPECIFICATION FairSpec
CONSTANTS
  o1 = o1
  o2 = o2
  o3 = o3
  Object = {o1, o2}
  Broken = {}
  Report <- ReportOf
  Domain <- DomainOf
  Records <- RecordsOf
  NoObject = NoObject
  MaxRetries = 1
  MaxAdverse = 1
INVARIANTS TypeOK NobodyIsStuck
PROPERTIES ImplementsIngestedReport TasksEnd
CHECK_DEADLOCK FALSE
