---------------------------- MODULE AlertRecords ----------------------------
(***************************************************************************)
(* The rows of the tables alerts and alert_audit_logs, as far as triage    *)
(* reads or writes them (backend/app/repositories/alert_repository.py).    *)
(***************************************************************************)
EXTENDS Naturals, Sequences

CONSTANTS
  Alert,    \* ids of alerts
  Status,   \* values of the free-text column status
  Person,   \* values of the column assignee
  NoOne,    \* NULL assignee
  Absent    \* the alert has not been inserted

Severity == {"low", "medium", "high", "critical"}

ASSUME StatusAssumption == {"new", "closed"} \subseteq Status
ASSUME NoOneAssumption  == NoOne \notin Person

Row == [status: Status, assignee: Person \cup {NoOne}, severity: Severity,
        level: Nat]

ASSUME AbsentAssumption == Absent \notin Row

\* details and created_at of an audit entry.  value is the new status,
\* assignee or severity; level the escalation level an escalation wrote.
Audited == {"status_update", "assign", "comment", "escalate"}
Entry == [action: Audited,
          value: Status \cup Person \cup Severity \cup {NoOne},
          level: Nat, at: Nat]

\* AlertRepository.create and IncidentCreator insert alerts in this state.
Fresh(severity) ==
  [status |-> "new", assignee |-> NoOne, severity |-> severity, level |-> 0]

\* The row after the UPDATE whose audit entry is e: it sets only its columns.
Applied(row, e) ==
  [row EXCEPT
     !.status   = IF e.action = "status_update" THEN e.value ELSE @,
     !.assignee = IF e.action = "assign" THEN e.value ELSE @,
     !.severity = IF e.action = "escalate" THEN e.value ELSE @,
     !.level    = IF e.action = "escalate" THEN e.level ELSE @]

\* The row and the last entry of its kind tell the same; a closed incident
\* leaves no entry.
Agrees(row, e) ==
  /\ e.action = "status_update" => row.status \in {e.value, "closed"}
  /\ e.action = "assign" => row.assignee = e.value
  /\ e.action = "escalate" => row.severity = e.value /\ row.level = e.level
=============================================================================
