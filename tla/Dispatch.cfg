SPECIFICATION FairSpec
CONSTANTS
  s1 = s1
  s2 = s2
  p1 = p1
  Signal = {s1}
  Payload = {p1}
  Route <- DefaultRoute
  MaxRetries = 1
  MaxAdverse = 2
INVARIANTS TypeOK DispatchHasIncident NotificationsBounded OnceWithoutFailure
PROPERTIES ImplementsNotifiedAlert TasksEnd
CHECK_DEADLOCK FALSE
