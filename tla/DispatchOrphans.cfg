SPECIFICATION Spec
CONSTANTS
  s1 = s1
  s2 = s2
  p1 = p1
  Signal = {s1, s2}
  Payload = {}
  Route <- DefaultRoute
  MaxRetries = 1
  MaxAdverse = 1
INVARIANT EveryIncidentEnqueued
CHECK_DEADLOCK FALSE
