SPECIFICATION BoardSpec
CONSTANTS
  Alert = {a1}
  Request = {r1, r2}
  Mine = {r1}
  Status = {"new", "closed"}
  Person = {p1, p2}
  Operation = {"assign", "close"}
  NoOne = NoOne
  Absent = Absent
  NoTarget = NoTarget
  NoRequest = NoRequest
  NoAnswer = NoAnswer
  MaxDispatches = 1
INVARIANTS ShowsCommittedRows BoardIsCurrent
CHECK_DEADLOCK FALSE
