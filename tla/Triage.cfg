SPECIFICATION FairSpec
CONSTANTS
  Alert = {a1}
  Request = {r1, r2}
  Status = {"new", "investigating", "closed"}
  Person = {p1}
  Operation = {"status_update", "assign", "comment", "escalate", "close"}
  NoOne = NoOne
  Absent = Absent
  NoTarget = NoTarget
  NoRequest = NoRequest
INVARIANTS TypeOK AuditExplainsRow EventsAreCommitted
PROPERTIES ImplementsAuditedAlert RequestsEnd
CHECK_DEADLOCK FALSE
