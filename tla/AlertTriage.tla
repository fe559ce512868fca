----------------------------- MODULE AlertTriage -----------------------------
(***************************************************************************)
(* Triage of alerts: the POST handlers of backend/app/api/v1/alerts.py and *)
(* incidents.py over AlertRepository and IncidentRepository.               *)
(*                                                                         *)
(* Requests run concurrently in the API processes.  Each of them is one    *)
(* PostgreSQL transaction at READ COMMITTED (BEGIN, UPDATE, INSERT of the  *)
(* audit entry, COMMIT); an escalation reads the alert in a transaction of *)
(* its own before that.  After the commit the handler publishes the row it *)
(* wrote; a failure to publish is swallowed.                                *)
(***************************************************************************)
EXTENDS AlertRecords, FiniteSets

CONSTANTS
  Request,   \* the requests users send, each of them once
  Operation, \* which endpoints they call
  NoTarget,  \* an escalation that names no target severity
  NoRequest  \* null value

ASSUME OperationAssumption == Operation \subseteq Audited \cup {"close"}
ASSUME RequestAssumption   == NoRequest \notin Request
ASSUME TargetAssumption    == NoTarget \notin Severity

VARIABLES
  alerts,  \* table alerts: the committed rows
  audit,   \* table alert_audit_logs: committed entries, in commit order
  lock,    \* the request whose transaction holds the alert's row lock
  clock,   \* PostgreSQL's clock, read by BEGIN
  pc,      \* control state of each request
  req,     \* what each request asks for
  seen,    \* escalate: the row it read before its transaction
  began,   \* now() in the request's transaction: the time of its BEGIN
  wrote,   \* the row the request's UPDATE returned
  channel  \* triage events published on alerts:tenant:..., oldest first

db    == <<alerts, audit, lock, clock>>
local == <<req, seen, began, wrote>>
vars  == <<db, pc, local, channel>>

\* No request yet has an alert or an argument.
Blank == [op |-> "none"]

\* The bodies the schemas of schemas/alerts.py let through.
Body(op) ==
  CASE op = "status_update" -> Status
    [] op = "assign"        -> Person
    [] op = "escalate"      -> Severity \cup {NoTarget}
    [] op \in {"comment", "close"} -> {NoOne}

Ask == UNION { [op: {op}, alert: Alert, body: Body(op)] : op \in Operation }

PC == {"unsent", "read", "begin", "update", "commit", "publish", "done"}

TypeOK ==
  /\ alerts \in [Alert -> Row \cup {Absent}]
  /\ audit \in [Alert -> Seq(Entry)]
  /\ lock \in [Alert -> Request \cup {NoRequest}]
  /\ clock \in Nat
  /\ pc \in [Request -> PC]
  /\ req \in [Request -> Ask \cup {Blank}]
  /\ seen \in [Request -> Row \cup {Absent}]
  /\ began \in [Request -> Nat]
  /\ wrote \in [Request -> Row \cup {Absent}]
  /\ channel \in Seq([alert: Alert, row: Row, entry: Entry])

Init ==
  /\ alerts = [a \in Alert |-> Absent]
  /\ audit = [a \in Alert |-> <<>>]
  /\ lock = [a \in Alert |-> NoRequest]
  /\ clock = 0
  /\ pc = [r \in Request |-> "unsent"]
  /\ req = [r \in Request |-> Blank]
  /\ seen = [r \in Request |-> Absent]
  /\ began = [r \in Request |-> 0]
  /\ wrote = [r \in Request |-> Absent]
  /\ channel = <<>>

-----------------------------------------------------------------------------

Goto(r, label) == pc' = [pc EXCEPT ![r] = label]

\* The handler returns or raises; its local variables are gone.
Return(r) ==
  /\ Goto(r, "done")
  /\ req' = [req EXCEPT ![r] = Blank]
  /\ seen' = [seen EXCEPT ![r] = Absent]
  /\ began' = [began EXCEPT ![r] = 0]
  /\ wrote' = [wrote EXCEPT ![r] = Absent]

\* Variant for the runs' mutants: no stop at the last level.
SeverityOverrun ==
  [low |-> "medium", medium |-> "high", high |-> "critical",
   critical |-> "beyond"]

\* _next_severity
NextSeverity ==
  [low |-> "medium", medium |-> "high", high |-> "critical",
   critical |-> "critical"]

\* The audit entry of the request: what its UPDATE sets and details records.
EntryOf(r) ==
  LET q == req[r] IN
  [action |-> q.op,
   value  |-> IF q.op # "escalate" THEN q.body
              ELSE IF q.body # NoTarget THEN q.body
              ELSE NextSeverity[seen[r].severity],
   level  |-> IF q.op = "escalate" THEN seen[r].level + 1 ELSE 0,
   at     |-> began[r]]

\* Variant for the runs' mutants: the escalation writes back the whole row it
\* read instead of its two columns.
WrittenWholeRow(r) ==
  LET row == alerts[req[r].alert] IN
  IF req[r].op = "close" THEN [row EXCEPT !.status = "closed"]
  ELSE IF req[r].op = "escalate" THEN Applied(seen[r], EntryOf(r))
  ELSE Applied(row, EntryOf(r))

\* The row as the request's UPDATE leaves it.
Written(r) ==
  LET row == alerts[req[r].alert] IN
  IF req[r].op = "close" THEN [row EXCEPT !.status = "closed"]
  ELSE Applied(row, EntryOf(r))

-----------------------------------------------------------------------------

\* The pipeline inserts an alert (create_incidents_with_details, create).
CreateAlert(a) ==
  /\ alerts[a] = Absent
  /\ \E s \in Severity : alerts' = [alerts EXCEPT ![a] = Fresh(s)]
  /\ UNCHANGED <<audit, lock, clock, pc, local, channel>>

\* A request arrives; only escalate reads before its transaction.
Submit(r) ==
  /\ pc[r] = "unsent"
  /\ \E q \in Ask :
       /\ req' = [req EXCEPT ![r] = q]
       /\ Goto(r, IF q.op = "escalate" THEN "read" ELSE "begin")
  /\ UNCHANGED <<db, seen, began, wrote, channel>>

\* escalate: get_by_id in a session of its own.
ReadCurrent(r) ==
  /\ pc[r] = "read" /\ alerts[req[r].alert] # Absent
  /\ seen' = [seen EXCEPT ![r] = alerts[req[r].alert]]
  /\ Goto(r, "begin")
  /\ UNCHANGED <<db, req, began, wrote, channel>>

\* The session begins its transaction: now() is fixed here.
Begin(r) ==
  /\ pc[r] = "begin"
  /\ clock' = clock + 1
  /\ began' = [began EXCEPT ![r] = clock']
  /\ Goto(r, "update")
  /\ UNCHANGED <<alerts, audit, lock, req, seen, wrote, channel>>

UpdateAutocommits(r) ==
  LET a == req[r].alert IN
  /\ pc[r] = "update" /\ lock[a] = NoRequest /\ alerts[a] # Absent
  /\ lock' = [lock EXCEPT ![a] = r]
  /\ alerts' = [alerts EXCEPT ![a] = Written(r)]
  /\ wrote' = [wrote EXCEPT ![r] = Written(r)]
  /\ Goto(r, "commit")
  /\ UNCHANGED <<audit, clock, req, seen, began, channel>>

\* UPDATE ... RETURNING waits for the row lock, then sees the newest
\* committed row.
Update(r) ==
  LET a == req[r].alert IN
  /\ pc[r] = "update" /\ lock[a] = NoRequest /\ alerts[a] # Absent
  /\ lock' = [lock EXCEPT ![a] = r]
  /\ wrote' = [wrote EXCEPT ![r] = Written(r)]
  /\ Goto(r, "commit")
  /\ UNCHANGED <<alerts, audit, clock, req, seen, began, channel>>

\* No such alert: 404 from the read of an escalation, or because the UPDATE
\* matches no row; the session is closed without a commit.
NotFound(r) ==
  /\ pc[r] \in {"read", "update"} /\ alerts[req[r].alert] = Absent
  /\ Return(r)
  /\ UNCHANGED <<db, channel>>

\* COMMIT makes the row and its audit entry visible together; closing an
\* incident writes no entry.
Commits(r) ==
  LET a == req[r].alert IN
  /\ pc[r] = "commit"
  /\ alerts' = [alerts EXCEPT ![a] = wrote[r]]
  /\ audit' = IF req[r].op = "close" THEN audit
              ELSE [audit EXCEPT ![a] = Append(@, EntryOf(r))]
  /\ lock' = [lock EXCEPT ![a] = NoRequest]
  /\ UNCHANGED <<clock, channel>>

\* incidents.py publishes nothing.
Commit(r) ==
  /\ Commits(r)
  /\ IF req[r].op = "close" THEN Return(r)
     ELSE Goto(r, "publish") /\ UNCHANGED local

\* The transaction commits but the answer is lost: the request fails with a
\* 500, and nothing is published.
CommitAnswerLost(r) == Commits(r) /\ Return(r)

FailsHoldingLock(r) ==
  /\ pc[r] \in {"read", "begin", "update", "commit"}
  /\ Return(r)
  /\ UNCHANGED <<db, channel>>

\* Any statement raises, the INSERT of the audit entry included, or the
\* process dies: the transaction is rolled back and its lock released.
Fails(r) ==
  /\ pc[r] \in {"read", "begin", "update", "commit"}
  /\ lock' = [a \in Alert |-> IF lock[a] = r THEN NoRequest ELSE lock[a]]
  /\ Return(r)
  /\ UNCHANGED <<alerts, audit, clock, channel>>

\* What _publish_realtime_event sends: the triage response.
Event(r) == [alert |-> req[r].alert, row |-> wrote[r], entry |-> EntryOf(r)]

PublishBeforeCommit(r) ==
  \/ /\ pc[r] = "publish"
     /\ Return(r)
     /\ UNCHANGED <<db, channel>>
  \/ /\ pc[r] = "commit" /\ req[r].op # "close"
     /\ channel' = Append(channel, Event(r))
     /\ Goto(r, "commit")
     /\ UNCHANGED <<db, local>>

Publish(r) ==
  /\ pc[r] = "publish"
  /\ channel' = Append(channel, Event(r))
  /\ Return(r)
  /\ UNCHANGED db

\* Redis is unreachable: the exception is swallowed.
PublishSwallowed(r) ==
  /\ pc[r] = "publish"
  /\ Return(r)
  /\ UNCHANGED <<db, channel>>

-----------------------------------------------------------------------------

Handle(r) ==
  \/ ReadCurrent(r) \/ Begin(r) \/ Update(r) \/ NotFound(r) \/ Commit(r)
  \/ Publish(r)

Next ==
  \/ \E a \in Alert : CreateAlert(a)
  \/ \E r \in Request :
       \/ Submit(r) \/ Handle(r)
       \/ CommitAnswerLost(r) \/ Fails(r) \/ PublishSwallowed(r)

Spec == Init /\ [][Next]_vars

\* The event loop keeps running every request it has started.
FairSpec == Spec /\ \A r \in Request : WF_vars(Handle(r))

-----------------------------------------------------------------------------
(* Properties                                                              *)

AuditedAlerts == INSTANCE AuditedAlert

\* Triage implements AuditedAlert: a row and its audit entry change in one
\* step, whatever fails, and only the columns of the operation change.
ImplementsAuditedAlert == AuditedAlerts!Spec

\* The audit entries of one kind.
EntriesOf(a, action) == {i \in DOMAIN audit[a] : audit[a][i].action = action}

\* Reading the audit trail in commit order gives the row back: each column
\* holds what the last entry about it says, or its initial value.
AuditExplainsRow ==
  \A a \in Alert : alerts[a] # Absent =>
    /\ \A i \in DOMAIN audit[a] :
         (\A j \in DOMAIN audit[a] :
            j > i => audit[a][j].action # audit[a][i].action)
           => Agrees(alerts[a], audit[a][i])
    /\ EntriesOf(a, "assign") = {} => alerts[a].assignee = NoOne
    /\ EntriesOf(a, "escalate") = {} => alerts[a].level = 0
    /\ EntriesOf(a, "status_update") = {} => alerts[a].status \in {"new", "closed"}

\* An event on the realtime channel tells of a committed change: its audit
\* entry is in the table, and the row it shows agrees with that entry.
EventsAreCommitted ==
  \A k \in DOMAIN channel :
    LET ev == channel[k] IN
    /\ \E i \in DOMAIN audit[ev.alert] : audit[ev.alert][i] = ev.entry
    /\ Agrees(ev.row, ev.entry)

\* Lost escalations can only lower the level: it never exceeds the number of
\* audited escalations, and an alert that was ever escalated shows it.
LevelWithinEscalations ==
  \A a \in Alert : alerts[a] # Absent =>
    /\ alerts[a].level <= Cardinality(EntriesOf(a, "escalate"))
    /\ EntriesOf(a, "escalate") # {} => alerts[a].level > 0

\* Whoever waits for a row lock waits for a request that has executed its
\* UPDATE of that row and waits for nothing any more: no chain of waiting
\* requests, and no lock whose holder is gone.
LocksAreShortlived ==
  \A a \in Alert : lock[a] # NoRequest =>
    pc[lock[a]] = "commit" /\ req[lock[a]].alert = a

\* No request waits for ever: not for a row lock, not for Redis.
RequestsEnd == \A r \in Request : (pc[r] = "begin") ~> (pc[r] = "done")

=============================================================================
