SPECIFICATION Spec
CONSTANTS
  o1 = o1
  o2 = o2
  o3 = o3
  Object = {o1, o3}
  Broken = {o3}
  Report <- ReportOf
  Domain <- DomainOf
  Records <- RecordsOf
  NoObject = NoObject
  MaxRetries = 1
  MaxAdverse = 1
INVARIANT MetricsAreOfReport
CHECK_DEADLOCK FALSE
