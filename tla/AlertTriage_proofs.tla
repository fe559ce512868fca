------------------------- MODULE AlertTriage_proofs -------------------------
(* What holds of alert triage for every set of requests and alerts: types, *)
(* that triage implements AuditedAlert, and what the audit trail tells.    *)
EXTENDS AlertTriage, FiniteSetTheorems, TLAPS

\* What a request may ask for.
LEMMA AskFacts ==
  ASSUME NEW q \in Ask
  PROVE  /\ q.op \in Audited \cup {"close"}
         /\ q.alert \in Alert
         /\ q.op = "status_update" => q.body \in Status
         /\ q.op = "assign" => q.body \in Person
         /\ q.op = "escalate" => q.body \in Severity \cup {NoTarget}
         /\ q.op \in {"comment", "close"} => q.body = NoOne
<1>1. PICK op \in Operation : q \in [op: {op}, alert: Alert, body: Body(op)]
  BY DEF Ask
<1>2. /\ q.op = op
      /\ q.alert \in Alert
      /\ q.body \in Body(op)
  BY <1>1
<1>3. op \in Audited \cup {"close"}
  BY OperationAssumption
<1>4. CASE op = "status_update"
  BY <1>2, <1>3, <1>4 DEF Body
<1>5. CASE op = "assign"
  BY <1>2, <1>3, <1>5 DEF Body
<1>6. CASE op = "escalate"
  BY <1>2, <1>3, <1>6 DEF Body
<1>7. CASE op \in {"comment", "close"}
  BY <1>2, <1>3, <1>7 DEF Body
<1>8. QED
  BY <1>3, <1>4, <1>5, <1>6, <1>7 DEF Audited

\* A blank request is none that was sent.
LEMMA BlankIsNoAsk == Blank \notin Ask
  BY AskFacts DEF Blank, Audited

\* Raising the severity stays within the known ones.
LEMMA NextSeverityType == \A s \in Severity : NextSeverity[s] \in Severity
  BY DEF NextSeverity, Severity

-----------------------------------------------------------------------------
(* The control invariant                                                   *)

\* A request under way has a body; past its read, an escalation has a row; only
\* audited requests publish.
RequestOK(r) ==
  /\ pc[r] \in {"read", "begin", "update", "commit", "publish"} => req[r] \in Ask
  /\ pc[r] \in {"begin", "update", "commit", "publish"} /\ req[r].op = "escalate"
       => seen[r] \in Row
  /\ pc[r] = "publish" => req[r].op # "close" /\ wrote[r] \in Row

\* A request that has executed its UPDATE holds the row lock, and the row it is
\* about to commit is the committed row with its own columns replaced.
HolderOK(r) ==
  pc[r] = "commit" =>
    LET a == req[r].alert IN
    /\ lock[a] = r
    /\ alerts[a] \in Row
    /\ wrote[r] = Written(r)

\* A request that publishes has something to publish.
PublisherOK(r) ==
  pc[r] = "publish" =>
    /\ Agrees(wrote[r], EntryOf(r))
    /\ \E i \in DOMAIN audit[req[r].alert] : audit[req[r].alert][i] = EntryOf(r)

ControlInv ==
  /\ TypeOK
  /\ \A r \in Request : RequestOK(r) /\ HolderOK(r)

\* What a request under way records in the audit trail.
LEMMA EntryType ==
  ASSUME TypeOK, NEW r \in Request, RequestOK(r),
         pc[r] \in {"begin", "update", "commit", "publish"}, req[r].op # "close"
  PROVE  LET e == EntryOf(r) IN
         /\ e \in Entry
         /\ e.action = req[r].op
         /\ e.action = "status_update" => e.value \in Status
         /\ e.action = "assign" => e.value \in Person
         /\ e.action = "escalate" => e.value \in Severity
<1>1. /\ req[r] \in Ask
      /\ req[r].op = "escalate" => seen[r] \in Row
      /\ began[r] \in Nat
  BY DEF RequestOK, TypeOK
<1>2. req[r].op = "escalate" => /\ NextSeverity[seen[r].severity] \in Severity
                                /\ seen[r].level + 1 \in Nat
  BY <1>1, NextSeverityType DEF Row
<1>3. /\ req[r].op \in Audited
      /\ req[r].op = "status_update" => req[r].body \in Status
      /\ req[r].op = "assign" => req[r].body \in Person
      /\ req[r].op = "escalate" => req[r].body \in Severity \cup {NoTarget}
      /\ req[r].op = "comment" => req[r].body = NoOne
  BY <1>1, AskFacts
<1> DEFINE e == EntryOf(r)
<1>4. e = [action |-> e.action, value |-> e.value, level |-> e.level,
           at |-> e.at]
  BY DEF EntryOf
<1>5. e.action = req[r].op /\ e.at \in Nat
  BY <1>1 DEF EntryOf
<1>6. e.level \in Nat
  BY <1>2 DEF EntryOf
<1>7. e.action = "escalate" => e.value \in Severity
  BY <1>2, <1>3 DEF EntryOf
<1>8. /\ e.action = "status_update" => e.value \in Status
      /\ e.action = "assign" => e.value \in Person
      /\ e.action = "comment" => e.value = NoOne
  BY <1>3 DEF EntryOf
<1>9. e \in Entry
  BY <1>3, <1>4, <1>5, <1>6, <1>7, <1>8 DEF Entry, Audited
<1>10. QED
  BY <1>5, <1>7, <1>8, <1>9

\* An UPDATE leaves a row, and one that agrees with its audit entry.
LEMMA WrittenType ==
  ASSUME TypeOK, NEW r \in Request, RequestOK(r),
         pc[r] \in {"update", "commit"}, alerts[req[r].alert] \in Row
  PROVE  /\ Written(r) \in Row
         /\ req[r].op # "close" => Agrees(Written(r), EntryOf(r))
<1> DEFINE row == alerts[req[r].alert]
           e == EntryOf(r)
<1>1. CASE req[r].op = "close"
  <2>1. Written(r) = [row EXCEPT !.status = "closed"]
    BY <1>1 DEF Written
  <2>2. QED
    BY <1>1, <2>1, StatusAssumption DEF Row
<1>2. CASE req[r].op # "close"
  <2>1. Written(r) = Applied(row, e)
    BY <1>2 DEF Written
  <2>2. /\ e \in Entry
        /\ e.action = "status_update" => e.value \in Status
        /\ e.action = "assign" => e.value \in Person
        /\ e.action = "escalate" => e.value \in Severity
    BY <1>2, EntryType
  <2> HIDE DEF e
  <2>3. Applied(row, e) \in Row
    BY <2>2 DEF Applied, Row, Entry
  <2>4. Agrees(Applied(row, e), e)
    BY <2>2 DEF Applied, Agrees, Row
  <2>5. QED
    BY <2>1, <2>3, <2>4 DEF e
<1>3. QED
  BY <1>1, <1>2

\* The table of requests after one of them has returned.
LEMMA ReturnFacts ==
  ASSUME TypeOK, NEW r \in Request, Return(r)
  PROVE  /\ pc' \in [Request -> PC]
         /\ req' \in [Request -> Ask \cup {Blank}]
         /\ seen' \in [Request -> Row \cup {Absent}]
         /\ began' \in [Request -> Nat]
         /\ wrote' \in [Request -> Row \cup {Absent}]
         /\ pc'[r] = "done"
         /\ \A u \in Request \ {r} :
              /\ pc'[u] = pc[u] /\ req'[u] = req[u] /\ seen'[u] = seen[u]
              /\ began'[u] = began[u] /\ wrote'[u] = wrote[u]
  BY DEF TypeOK, Return, Goto, PC

\* Every step keeps the types.
LEMMA TypeStep == ControlInv /\ [Next]_vars => TypeOK'
<1> SUFFICES ASSUME ControlInv, [Next]_vars PROVE TypeOK'
  OBVIOUS
<1> USE DEF ControlInv
<1>1. ASSUME NEW a \in Alert, CreateAlert(a) PROVE TypeOK'
  <2>1. \A s \in Severity : Fresh(s) \in Row
    BY StatusAssumption DEF Fresh, Row
  <2>2. QED
    BY <1>1, <2>1 DEF CreateAlert, TypeOK, local
<1>2. ASSUME NEW r \in Request, Submit(r) PROVE TypeOK'
  BY <1>2 DEF Submit, Goto, TypeOK, PC, db
<1>3. ASSUME NEW r \in Request, ReadCurrent(r) PROVE TypeOK'
  <2>1. req[r].alert \in Alert
    BY <1>3, AskFacts DEF ReadCurrent, RequestOK
  <2>2. QED
    BY <1>3, <2>1 DEF ReadCurrent, Goto, TypeOK, PC, db
<1>4. ASSUME NEW r \in Request, Begin(r) PROVE TypeOK'
  BY <1>4 DEF Begin, Goto, TypeOK, PC, db
<1>5. ASSUME NEW r \in Request, Update(r) PROVE TypeOK'
  <2>1. req[r].alert \in Alert
    BY <1>5, AskFacts DEF Update, RequestOK
  <2>2. Written(r) \in Row
    BY <1>5, <2>1, WrittenType DEF Update, TypeOK
  <2>3. QED
    BY <1>5, <2>1, <2>2 DEF Update, Goto, TypeOK, PC
<1>6. ASSUME NEW r \in Request, NotFound(r) PROVE TypeOK'
  BY <1>6, ReturnFacts DEF NotFound, TypeOK, db
<1>7. ASSUME NEW r \in Request, Commits(r)
      PROVE  /\ alerts' \in [Alert -> Row \cup {Absent}]
             /\ audit' \in [Alert -> Seq(Entry)]
             /\ lock' \in [Alert -> Request \cup {NoRequest}]
             /\ clock' \in Nat
             /\ channel' \in Seq([alert: Alert, row: Row, entry: Entry])
  <2>1. req[r].alert \in Alert
    BY <1>7, AskFacts DEF Commits, RequestOK
  <2>2. wrote[r] \in Row
    BY <1>7, WrittenType DEF Commits, HolderOK
  <2>3. req[r].op # "close" => EntryOf(r) \in Entry
    BY <1>7, EntryType DEF Commits
  <2>4. QED
    BY <1>7, <2>1, <2>2, <2>3 DEF Commits, TypeOK
<1>8. ASSUME NEW r \in Request, Commit(r) PROVE TypeOK'
  <2>1. CASE req[r].op = "close"
    BY <1>7, <1>8, <2>1, ReturnFacts DEF Commit, TypeOK
  <2>2. CASE req[r].op # "close"
    BY <1>7, <1>8, <2>2 DEF Commit, Goto, TypeOK, PC, local
  <2>3. QED
    BY <2>1, <2>2
<1>9. ASSUME NEW r \in Request, CommitAnswerLost(r) PROVE TypeOK'
  BY <1>7, <1>9, ReturnFacts DEF CommitAnswerLost, TypeOK
<1>10. ASSUME NEW r \in Request, Fails(r) PROVE TypeOK'
  <2>1. lock' \in [Alert -> Request \cup {NoRequest}]
    BY <1>10 DEF Fails, TypeOK
  <2>2. QED
    BY <1>10, <2>1, ReturnFacts DEF Fails, TypeOK
<1>11. ASSUME NEW r \in Request, Publish(r) PROVE TypeOK'
  <2>1. req[r].alert \in Alert
    BY <1>11, AskFacts DEF Publish, RequestOK
  <2>2. EntryOf(r) \in Entry
    BY <1>11, EntryType DEF Publish, RequestOK
  <2>3. Event(r) \in [alert: Alert, row: Row, entry: Entry]
    BY <1>11, <2>1, <2>2 DEF Event, Publish, RequestOK
  <2>4. QED
    BY <1>11, <2>3, ReturnFacts DEF Publish, TypeOK, db
<1>12. ASSUME NEW r \in Request, PublishSwallowed(r) PROVE TypeOK'
  BY <1>12, ReturnFacts DEF PublishSwallowed, TypeOK, db
<1>13. CASE UNCHANGED vars
  BY <1>13 DEF TypeOK, vars, db, local
<1>14. QED
  BY <1>1, <1>2, <1>3, <1>4, <1>5, <1>6, <1>8, <1>9, <1>10, <1>11, <1>12, <1>13
     DEF Next, Handle

\* A step of one request, or of the pipeline, leaves the others' control alone.
LEMMA OthersControl ==
  ASSUME ControlInv, TypeOK', NEW r \in Request, NEW u \in Request, u # r,
         pc'[u] = pc[u], req'[u] = req[u], seen'[u] = seen[u],
         began'[u] = began[u], wrote'[u] = wrote[u],
         \A a \in Alert : lock[a] = u => lock'[a] = u /\ alerts'[a] = alerts[a]
  PROVE  RequestOK(u)' /\ HolderOK(u)'
<1>1. RequestOK(u) /\ HolderOK(u)
  BY DEF ControlInv
<1>2. RequestOK(u)'
  BY <1>1 DEF RequestOK
<1>3. ASSUME pc[u] = "commit"
      PROVE  /\ req[u].alert \in Alert
             /\ lock[req[u].alert] = u
  BY <1>1, <1>3, AskFacts DEF RequestOK, HolderOK
<1>4. HolderOK(u)'
  BY <1>1, <1>3 DEF HolderOK, Written, EntryOf
<1>5. QED
  BY <1>2, <1>4

\* Every step keeps the control invariant.
LEMMA ControlStep == ControlInv /\ [Next]_vars => ControlInv'
<1> SUFFICES ASSUME ControlInv, [Next]_vars, TypeOK',
                    NEW u \in Request
             PROVE  RequestOK(u)' /\ HolderOK(u)'
  BY TypeStep DEF ControlInv
<1>0. TypeOK /\ RequestOK(u) /\ HolderOK(u)
  BY DEF ControlInv
<1>1. ASSUME NEW a \in Alert, CreateAlert(a) PROVE RequestOK(u)' /\ HolderOK(u)'
  <2>1. RequestOK(u)'
    BY <1>0, <1>1 DEF CreateAlert, local, RequestOK
  <2>2. pc[u] = "commit" => req[u].alert # a
    BY <1>0, <1>1, AbsentAssumption DEF CreateAlert, HolderOK
  <2>3. pc[u] = "commit" => alerts'[req[u].alert] = alerts[req[u].alert]
    BY <1>0, <1>1, <2>2, AskFacts DEF CreateAlert, RequestOK, TypeOK
  <2>4. HolderOK(u)'
    BY <1>0, <1>1, <2>3 DEF CreateAlert, local, HolderOK, Written, EntryOf
  <2>5. QED
    BY <2>1, <2>4
<1>2. ASSUME NEW r \in Request, Submit(r) PROVE RequestOK(u)' /\ HolderOK(u)'
  <2>1. CASE u = r
    <3>1. PICK q \in Ask : /\ req'[r] = q
                           /\ pc'[r] = IF q.op = "escalate" THEN "read" ELSE "begin"
      BY <1>0, <1>2 DEF Submit, Goto, TypeOK
    <3>2. QED
      BY <2>1, <3>1 DEF RequestOK, HolderOK
  <2>2. CASE u # r
    BY <1>0, <1>2, <2>2, OthersControl DEF Submit, Goto, TypeOK, db
  <2>3. QED
    BY <2>1, <2>2
<1>3. ASSUME NEW r \in Request, ReadCurrent(r) PROVE RequestOK(u)' /\ HolderOK(u)'
  <2>1. CASE u = r
    <3>1. req[r].alert \in Alert
      BY <1>0, <1>3, <2>1, AskFacts DEF ReadCurrent, RequestOK
    <3>2. seen'[r] \in Row
      BY <1>0, <1>3, <3>1 DEF ReadCurrent, TypeOK
    <3>3. QED
      BY <1>0, <1>3, <2>1, <3>2 DEF ReadCurrent, Goto, RequestOK, HolderOK, TypeOK
  <2>2. CASE u # r
    BY <1>0, <1>3, <2>2, OthersControl DEF ReadCurrent, Goto, TypeOK, db
  <2>3. QED
    BY <2>1, <2>2
<1>4. ASSUME NEW r \in Request, Begin(r) PROVE RequestOK(u)' /\ HolderOK(u)'
  <2>1. CASE u = r
    BY <1>0, <1>4, <2>1 DEF Begin, Goto, RequestOK, HolderOK, TypeOK
  <2>2. CASE u # r
    BY <1>0, <1>4, <2>2, OthersControl DEF Begin, Goto, TypeOK
  <2>3. QED
    BY <2>1, <2>2
<1>5. ASSUME NEW r \in Request, Update(r) PROVE RequestOK(u)' /\ HolderOK(u)'
  <2>1. req[r].alert \in Alert
    BY <1>5, AskFacts DEF ControlInv, Update, RequestOK
  <2>2. CASE u = r
    <3>1. RequestOK(u)'
      BY <1>0, <1>5, <2>2 DEF Update, Goto, RequestOK, TypeOK
    <3>2. /\ lock'[req[r].alert] = r
          /\ alerts[req[r].alert] \in Row
          /\ wrote'[r] = Written(r)
      BY <1>0, <1>5, <2>1 DEF Update, TypeOK
    <3>3. HolderOK(u)'
      BY <1>5, <2>2, <3>2 DEF Update, HolderOK, Written, EntryOf
    <3>4. QED
      BY <3>1, <3>3
  <2>3. CASE u # r
    <3>1. \A a \in Alert : lock[a] = u => lock'[a] = u
      BY <1>0, <1>5, <2>1, <2>3, RequestAssumption DEF Update, TypeOK
    <3>2. QED
      BY <1>0, <1>5, <2>3, <3>1, OthersControl DEF Update, Goto, TypeOK
  <2>4. QED
    BY <2>2, <2>3
<1>6. ASSUME NEW r \in Request, NotFound(r) \/ PublishSwallowed(r) \/ Publish(r)
      PROVE  RequestOK(u)' /\ HolderOK(u)'
  <2>1. Return(r) /\ UNCHANGED db
    BY <1>6 DEF NotFound, PublishSwallowed, Publish
  <2>2. CASE u = r
    BY <1>0, <2>1, <2>2, ReturnFacts DEF RequestOK, HolderOK
  <2>3. CASE u # r
    BY <1>0, <2>1, <2>3, OthersControl, ReturnFacts DEF db
  <2>4. QED
    BY <2>2, <2>3
<1>7. ASSUME NEW r \in Request, Commits(r), u # r
      PROVE  \A a \in Alert : lock[a] = u => lock'[a] = u /\ alerts'[a] = alerts[a]
  <2>1. req[r].alert \in Alert /\ lock[req[r].alert] = r
    BY <1>7, AskFacts DEF ControlInv, Commits, RequestOK, HolderOK
  <2>2. QED
    BY <1>0, <1>7, <2>1 DEF Commits, TypeOK
<1>8. ASSUME NEW r \in Request, Commit(r) PROVE RequestOK(u)' /\ HolderOK(u)'
  <2>1. CASE u = r /\ req[r].op = "close"
    BY <1>0, <1>8, <2>1, ReturnFacts DEF Commit, RequestOK, HolderOK
  <2>2. CASE u = r /\ req[r].op # "close"
    <3>1. pc[r] = "commit" /\ pc'[r] = "publish" /\ UNCHANGED local
      BY <1>0, <1>8, <2>2 DEF Commit, Commits, Goto, TypeOK
    <3>2. wrote[r] \in Row
      BY <1>0, <2>2, <3>1, WrittenType DEF HolderOK
    <3>3. QED
      BY <1>0, <2>2, <3>1, <3>2 DEF local, RequestOK, HolderOK
  <2>3. CASE u # r
    <3>1. /\ pc'[u] = pc[u] /\ req'[u] = req[u] /\ seen'[u] = seen[u]
          /\ began'[u] = began[u] /\ wrote'[u] = wrote[u]
      BY <1>0, <1>8, <2>3, ReturnFacts DEF Commit, Goto, local, TypeOK
    <3>2. QED
      BY <1>7, <1>8, <2>3, <3>1, OthersControl DEF Commit
  <2>4. QED
    BY <2>1, <2>2, <2>3
<1>9. ASSUME NEW r \in Request, CommitAnswerLost(r) PROVE RequestOK(u)' /\ HolderOK(u)'
  <2>1. CASE u = r
    BY <1>0, <1>9, <2>1, ReturnFacts DEF CommitAnswerLost, RequestOK, HolderOK
  <2>2. CASE u # r
    BY <1>0, <1>7, <1>9, <2>2, ReturnFacts, OthersControl DEF CommitAnswerLost
  <2>3. QED
    BY <2>1, <2>2
<1>10. ASSUME NEW r \in Request, Fails(r) PROVE RequestOK(u)' /\ HolderOK(u)'
  <2>1. CASE u = r
    BY <1>0, <1>10, <2>1, ReturnFacts DEF Fails, RequestOK, HolderOK
  <2>2. CASE u # r
    <3>1. \A a \in Alert : lock[a] = u => lock'[a] = u
      BY <1>10, <2>2 DEF Fails
    <3>2. QED
      BY <1>0, <1>10, <2>2, <3>1, ReturnFacts, OthersControl DEF Fails
  <2>3. QED
    BY <2>1, <2>2
<1>11. CASE UNCHANGED vars
  BY <1>0, <1>11 DEF vars, db, local, RequestOK, HolderOK, Written, EntryOf
<1>12. QED
  BY <1>1, <1>2, <1>3, <1>4, <1>5, <1>6, <1>8, <1>9, <1>10, <1>11 DEF Next, Handle

\* The control invariant holds throughout.
LEMMA ControlInvariant == Spec => []ControlInv
<1>1. Init => ControlInv
  <2> SUFFICES ASSUME Init PROVE ControlInv
    OBVIOUS
  <2>1. TypeOK
    BY DEF Init, TypeOK, PC
  <2>2. QED
    BY <2>1 DEF Init, ControlInv, RequestOK, HolderOK
<1>2. QED
  BY <1>1, ControlStep, PTL DEF Spec

\* Every variable of triage keeps its type; severities stay among the known ones
\* however often an alert is escalated.
THEOREM TypeCorrect == Spec => []TypeOK
  BY ControlInvariant, PTL DEF ControlInv

-----------------------------------------------------------------------------
(* Row locks                                                               *)

LEMMA LocksStep ==
  ControlInv /\ LocksAreShortlived /\ [Next]_vars => LocksAreShortlived'
<1> SUFFICES ASSUME ControlInv, LocksAreShortlived, [Next]_vars,
                    NEW a \in Alert, lock'[a] # NoRequest
             PROVE  (pc[lock[a]] = "commit" /\ req[lock[a]].alert = a)'
  BY DEF LocksAreShortlived
<1>0. /\ TypeOK
      /\ lock[a] # NoRequest =>
           lock[a] \in Request /\ pc[lock[a]] = "commit" /\ req[lock[a]].alert = a
  BY DEF ControlInv, TypeOK, LocksAreShortlived
\* A lock stays held by whom nothing happens to.
<1>1. ASSUME UNCHANGED <<lock, req>>, \A u \in Request : pc[u] = "commit" => pc'[u] = pc[u]
      PROVE  (pc[lock[a]] = "commit" /\ req[lock[a]].alert = a)'
  BY <1>0, <1>1
<1>2. ASSUME NEW b \in Alert, CreateAlert(b)
      PROVE  (pc[lock[a]] = "commit" /\ req[lock[a]].alert = a)'
  BY <1>1, <1>2 DEF CreateAlert, local
<1>3. ASSUME NEW r \in Request, Submit(r)
      PROVE  (pc[lock[a]] = "commit" /\ req[lock[a]].alert = a)'
  <2>1. lock[a] # r
    BY <1>0, <1>3 DEF Submit, db
  <2>2. QED
    BY <1>0, <1>3, <2>1 DEF Submit, Goto, TypeOK, db
<1>4. ASSUME NEW r \in Request, ReadCurrent(r) \/ Begin(r)
      PROVE  (pc[lock[a]] = "commit" /\ req[lock[a]].alert = a)'
  BY <1>0, <1>1, <1>4 DEF ReadCurrent, Begin, Goto, TypeOK, db
<1>5. ASSUME NEW r \in Request, Update(r)
      PROVE  (pc[lock[a]] = "commit" /\ req[lock[a]].alert = a)'
  <2>1. CASE a = req[r].alert
    BY <1>0, <1>5, <2>1 DEF Update, Goto, TypeOK
  <2>2. CASE a # req[r].alert
    BY <1>0, <1>5, <2>2 DEF Update, Goto, TypeOK
  <2>3. QED
    BY <2>1, <2>2
\* Whoever returns without having held a lock leaves the holders alone.
<1>6. ASSUME NEW r \in Request, NotFound(r) \/ Publish(r) \/ PublishSwallowed(r)
      PROVE  (pc[lock[a]] = "commit" /\ req[lock[a]].alert = a)'
  <2>1. /\ Return(r) /\ UNCHANGED db /\ pc[r] # "commit"
    BY <1>6 DEF NotFound, Publish, PublishSwallowed
  <2>2. QED
    BY <1>0, <2>1, ReturnFacts DEF db
<1>7. ASSUME NEW r \in Request, Commit(r) \/ CommitAnswerLost(r)
      PROVE  (pc[lock[a]] = "commit" /\ req[lock[a]].alert = a)'
  <2>1. /\ pc[r] = "commit" /\ lock[req[r].alert] = r
        /\ lock' = [lock EXCEPT ![req[r].alert] = NoRequest]
        /\ Return(r) \/ (Goto(r, "publish") /\ UNCHANGED local)
    BY <1>7 DEF Commit, CommitAnswerLost, Commits, ControlInv, HolderOK
  <2>2. a # req[r].alert /\ lock'[a] = lock[a] /\ lock[a] # r
    BY <1>0, <2>1 DEF TypeOK
  <2>3. pc'[lock[a]] = pc[lock[a]] /\ req'[lock[a]] = req[lock[a]]
    BY <1>0, <2>1, <2>2, ReturnFacts DEF Goto, local, TypeOK
  <2>4. QED
    BY <1>0, <2>2, <2>3
<1>8. ASSUME NEW r \in Request, Fails(r)
      PROVE  (pc[lock[a]] = "commit" /\ req[lock[a]].alert = a)'
  BY <1>0, <1>8, ReturnFacts DEF Fails
<1>9. CASE UNCHANGED vars
  BY <1>0, <1>9 DEF vars, db, local
<1>10. QED
  BY <1>2, <1>3, <1>4, <1>5, <1>6, <1>7, <1>8, <1>9 DEF Next, Handle

\* However many requests there are, the row lock an UPDATE waits for is held by
\* one that only has to commit or to fail: the handlers cannot deadlock, and
\* no lock outlives its transaction.
THEOREM NobodyWaitsInVain == Spec => []LocksAreShortlived
<1>1. Init => LocksAreShortlived
  BY DEF Init, LocksAreShortlived
<1>2. QED
  BY <1>1, ControlInvariant, LocksStep, PTL DEF Spec

-----------------------------------------------------------------------------
(* Refinement                                                              *)

\* Only the pipeline's insert and a commit touch the two tables.
LEMMA DbSteps ==
  ASSUME [Next]_vars
  PROVE  \/ \E a \in Alert : CreateAlert(a)
         \/ \E r \in Request : Commits(r)
         \/ UNCHANGED <<alerts, audit>>
  BY DEF Next, Handle, vars, db, Submit, ReadCurrent, Begin, Update, NotFound,
         Commit, CommitAnswerLost, Fails, Publish, PublishSwallowed

\* What a commit does to the two tables.
LEMMA CommitFacts ==
  ASSUME ControlInv, NEW r \in Request, Commits(r), NEW a, a = req[r].alert
  PROVE  /\ a \in Alert
         /\ alerts[a] \in Row /\ alerts[a] # Absent
         /\ Written(r) \in Row
         /\ alerts' = [alerts EXCEPT ![a] = Written(r)]
         /\ req[r].op = "close" =>
              /\ Written(r) = [alerts[a] EXCEPT !.status = "closed"]
              /\ UNCHANGED audit
         /\ req[r].op # "close" =>
              /\ Written(r) = Applied(alerts[a], EntryOf(r))
              /\ EntryOf(r) \in Entry
              /\ audit' = [audit EXCEPT ![a] = Append(@, EntryOf(r))]
<1>1. TypeOK /\ RequestOK(r) /\ HolderOK(r) /\ pc[r] = "commit"
  BY DEF ControlInv, Commits
<1>2. a \in Alert
  BY <1>1, AskFacts DEF RequestOK
<1>3. alerts[a] \in Row /\ wrote[r] = Written(r)
  BY <1>1 DEF HolderOK
<1>4. Written(r) \in Row
  BY <1>1, <1>3, WrittenType
<1>5. req[r].op # "close" => EntryOf(r) \in Entry
  BY <1>1, EntryType
<1>6. QED
  BY <1>2, <1>3, <1>4, <1>5, AbsentAssumption DEF Commits, Written

\* A commit touches the rows of one alert only.
LEMMA CommitOthers ==
  ASSUME TypeOK, NEW r \in Request, Commits(r), NEW a \in Alert, a # req[r].alert
  PROVE  alerts'[a] = alerts[a] /\ audit'[a] = audit[a]
  BY DEF Commits, TypeOK

\* Triage implements AuditedAlert: whatever statement fails, and however
\* requests interleave, a row and its audit entry change in one step, and a row
\* changes only in the columns of the operation.
THEOREM Refinement == Spec => ImplementsAuditedAlert
<1>1. Init => AuditedAlerts!Init
  BY DEF Init, AuditedAlerts!Init
<1>2. ControlInv /\ [Next]_vars => [AuditedAlerts!Next]_<<alerts, audit>>
  <2> SUFFICES ASSUME ControlInv, [Next]_vars
               PROVE  [AuditedAlerts!Next]_<<alerts, audit>>
    OBVIOUS
  <2>1. ASSUME NEW a \in Alert, CreateAlert(a) PROVE AuditedAlerts!Create(a)
    BY <2>1 DEF CreateAlert, AuditedAlerts!Create, Fresh, AuditedAlerts!Fresh,
                Severity, AuditedAlerts!Severity
  <2>2. ASSUME NEW r \in Request, Commits(r)
        PROVE  \E a \in Alert : AuditedAlerts!Triage(a) \/ AuditedAlerts!Close(a)
    <3> DEFINE a == req[r].alert
               e == EntryOf(r)
    <3>1. a \in Alert /\ alerts[a] # Absent
      BY <2>2, CommitFacts
    <3>2. CASE req[r].op = "close"
      <4>1. alerts' = [alerts EXCEPT ![a].status = "closed"] /\ UNCHANGED audit
        BY <2>2, <3>2, CommitFacts
      <4>2. QED
        BY <3>1, <4>1 DEF AuditedAlerts!Close
    <3>3. CASE req[r].op # "close"
      <4>1. /\ e \in Entry
            /\ audit' = [audit EXCEPT ![a] = Append(@, e)]
            /\ alerts' = [alerts EXCEPT ![a] = Applied(@, e)]
        BY <2>2, <3>3, CommitFacts
      <4> HIDE DEF e
      <4>2. audit[a] \in Seq(Entry) /\ audit'[a] = Append(audit[a], e)
        BY <3>1, <4>1 DEF ControlInv, TypeOK
      <4>3. /\ Len(audit'[a]) = Len(audit[a]) + 1
            /\ audit'[a][Len(audit[a]) + 1] = e
        BY <4>1, <4>2
      <4>4. AuditedAlerts!Triage(a)
        BY <3>1, <4>1, <4>3
           DEF AuditedAlerts!Triage, Applied, AuditedAlerts!Applied,
               Entry, AuditedAlerts!Entry, Audited, AuditedAlerts!Audited,
               Severity, AuditedAlerts!Severity
      <4>5. QED
        BY <3>1, <4>4
    <3>4. QED
      BY <3>2, <3>3
  <2>3. QED
    BY <2>1, <2>2, DbSteps DEF AuditedAlerts!Next
<1>3. QED
  BY <1>1, <1>2, ControlInvariant, PTL DEF Spec, ImplementsAuditedAlert, AuditedAlerts!Spec

-----------------------------------------------------------------------------
(* The audit trail                                                         *)

\* The trail of one alert explains its row.
Explains(a) ==
  alerts[a] # Absent =>
    /\ \A i \in DOMAIN audit[a] :
         (\A j \in DOMAIN audit[a] :
            j > i => audit[a][j].action # audit[a][i].action)
           => Agrees(alerts[a], audit[a][i])
    /\ EntriesOf(a, "assign") = {} => alerts[a].assignee = NoOne
    /\ EntriesOf(a, "escalate") = {} => alerts[a].level = 0
    /\ EntriesOf(a, "status_update") = {} => alerts[a].status \in {"new", "closed"}

\* An alert that does not exist yet has no audit entry.
TrailInv ==
  \A a \in Alert : Explains(a) /\ (alerts[a] = Absent => audit[a] = <<>>)

\* Every step keeps the trail invariant.
LEMMA TrailStep == ControlInv /\ TrailInv /\ [Next]_vars => TrailInv'
<1> SUFFICES ASSUME ControlInv, TrailInv, [Next]_vars, NEW a \in Alert
             PROVE  Explains(a)' /\ (alerts[a] = Absent => audit[a] = <<>>)'
  BY DEF TrailInv
<1>0. /\ Explains(a)
      /\ alerts[a] = Absent => audit[a] = <<>>
      /\ audit[a] \in Seq(Entry)
      /\ alerts \in [Alert -> Row \cup {Absent}]
      /\ audit \in [Alert -> Seq(Entry)]
  BY DEF TrailInv, ControlInv, TypeOK
<1>1. CASE UNCHANGED <<alerts[a], audit[a]>>
  BY <1>0, <1>1 DEF Explains, EntriesOf
<1>2. ASSUME NEW b \in Alert, CreateAlert(b)
      PROVE  Explains(a)' /\ (alerts[a] = Absent => audit[a] = <<>>)'
  <2>1. CASE a # b
    <3>1. UNCHANGED <<alerts[a], audit[a]>>
      BY <1>0, <1>2, <2>1 DEF CreateAlert
    <3>2. QED
      BY <1>1, <3>1
  <2>2. CASE a = b
    <3>1. PICK s \in Severity : alerts'[a] = Fresh(s)
      BY <1>0, <1>2, <2>2 DEF CreateAlert
    <3>2. audit'[a] = <<>>
      BY <1>0, <1>2, <2>2 DEF CreateAlert
    <3>3. QED
      BY <3>1, <3>2 DEF Explains, EntriesOf, Fresh
  <2>3. QED
    BY <2>1, <2>2
<1>3. ASSUME NEW r \in Request, Commits(r)
      PROVE  Explains(a)' /\ (alerts[a] = Absent => audit[a] = <<>>)'
  <2>1. CASE req[r].alert # a
    <3>1. UNCHANGED <<alerts[a], audit[a]>>
      BY <1>3, <2>1, CommitOthers DEF ControlInv
    <3>2. QED
      BY <1>1, <3>1
  <2>2. CASE req[r].alert = a /\ req[r].op = "close"
    <3>1. /\ alerts[a] \in Row /\ alerts[a] # Absent
          /\ alerts'[a] = [alerts[a] EXCEPT !.status = "closed"]
          /\ audit'[a] = audit[a]
      <4>1. /\ alerts[a] \in Row /\ alerts[a] # Absent
            /\ alerts' = [alerts EXCEPT ![a] = Written(r)]
            /\ Written(r) = [alerts[a] EXCEPT !.status = "closed"]
            /\ UNCHANGED audit
        BY <1>3, <2>2, CommitFacts
      <4>2. QED
        BY <1>0, <4>1
    <3>2. alerts'[a] # Absent
      <4>1. Written(r) \in Row /\ alerts' = [alerts EXCEPT ![a] = Written(r)]
        BY <1>3, <2>2, CommitFacts
      <4>2. QED
        BY <1>0, <4>1, AbsentAssumption
    <3>3. /\ alerts'[a].assignee = alerts[a].assignee
          /\ alerts'[a].severity = alerts[a].severity
          /\ alerts'[a].level = alerts[a].level
          /\ alerts'[a].status = "closed"
      BY <3>1 DEF Row
    <3>4. QED
      BY <1>0, <3>1, <3>2, <3>3 DEF Explains, EntriesOf, Agrees
  <2>3. CASE req[r].alert = a /\ req[r].op # "close"
    <3> DEFINE e == EntryOf(r)
               n == Len(audit[a])
    <3>1. /\ e \in Entry
          /\ alerts[a] \in Row /\ alerts[a] # Absent
          /\ Written(r) \in Row
          /\ alerts'[a] = Applied(alerts[a], e) /\ alerts'[a] = Written(r)
          /\ audit'[a] = Append(audit[a], e)
      BY <1>0, <1>3, <2>3, CommitFacts
    <3> HIDE DEF e
    <3>2. /\ n \in Nat /\ Len(audit'[a]) = n + 1
          /\ DOMAIN audit[a] = 1 .. n /\ DOMAIN audit'[a] = 1 .. n + 1
          /\ audit'[a][n + 1] = e
          /\ \A i \in 1 .. n : audit'[a][i] = audit[a][i]
      BY <1>0, <3>1
    <3>3. /\ e.action = "status_update" => alerts'[a].status = e.value
          /\ e.action # "status_update" => alerts'[a].status = alerts[a].status
          /\ e.action = "assign" => alerts'[a].assignee = e.value
          /\ e.action # "assign" => alerts'[a].assignee = alerts[a].assignee
          /\ e.action = "escalate" =>
               alerts'[a].severity = e.value /\ alerts'[a].level = e.level
          /\ e.action # "escalate" => /\ alerts'[a].severity = alerts[a].severity
                                     /\ alerts'[a].level = alerts[a].level
      BY <3>1 DEF Applied, Row
    <3>4. alerts'[a] # Absent
      BY <3>1, AbsentAssumption
    <3>5. ASSUME NEW i \in 1 .. n + 1,
                 \A j \in 1 .. n + 1 : j > i => audit'[a][j].action # audit'[a][i].action
          PROVE  Agrees(alerts'[a], audit'[a][i])
      <4>1. CASE i = n + 1
        BY <3>2, <3>3, <4>1 DEF Agrees
      <4>2. CASE i \in 1 .. n
        <5>1. e.action # audit[a][i].action
          BY <3>2, <3>5, <4>2
        <5>2. \A j \in 1 .. n : j > i => audit[a][j].action # audit[a][i].action
          BY <3>2, <3>5, <4>2, SMTT(30)
        <5>3. Agrees(alerts[a], audit[a][i])
          BY <1>0, <3>1, <3>2, <4>2, <5>2 DEF Explains
        <5>4. QED
          BY <3>2, <3>3, <4>2, <5>1, <5>3 DEF Agrees
      <4>3. QED
        BY <3>2, <4>1, <4>2
    <3>6. ASSUME NEW k, EntriesOf(a, k)' = {}
          PROVE  e.action # k /\ EntriesOf(a, k) = {}
      BY <3>2, <3>6 DEF EntriesOf
    <3>7. QED
      <4>1. EntriesOf(a, "assign")' = {} => alerts'[a].assignee = NoOne
        BY <1>0, <3>1, <3>3, <3>6 DEF Explains
      <4>2. EntriesOf(a, "escalate")' = {} => alerts'[a].level = 0
        BY <1>0, <3>1, <3>3, <3>6 DEF Explains
      <4>3. EntriesOf(a, "status_update")' = {}
              => alerts'[a].status \in {"new", "closed"}
        BY <1>0, <3>1, <3>3, <3>6 DEF Explains
      <4>4. QED
        BY <3>2, <3>4, <3>5, <4>1, <4>2, <4>3 DEF Explains
  <2>4. QED
    BY <2>1, <2>2, <2>3
<1>4. QED
  BY <1>1, <1>2, <1>3, DbSteps

\* Reading the audit trail in commit order gives the row back.
THEOREM TrailExplainsRow == Spec => []AuditExplainsRow
<1>1. Init => TrailInv
  BY DEF Init, TrailInv, Explains
<1>2. TrailInv => AuditExplainsRow
  BY DEF TrailInv, Explains, AuditExplainsRow
<1>3. QED
  BY <1>1, <1>2, TrailStep, ControlInvariant, PTL DEF Spec

-----------------------------------------------------------------------------
(* Realtime events                                                         *)

\* Entries are appended to the audit trail and never change.
LEMMA TrailGrows ==
  ASSUME ControlInv, [Next]_vars, NEW a \in Alert, NEW i \in DOMAIN audit[a]
  PROVE  i \in DOMAIN audit'[a] /\ audit'[a][i] = audit[a][i]
<1>0. audit \in [Alert -> Seq(Entry)]
  BY DEF ControlInv, TypeOK
<1>1. ASSUME NEW r \in Request, Commits(r), req[r].op # "close"
      PROVE  i \in DOMAIN audit'[a] /\ audit'[a][i] = audit[a][i]
  <2> DEFINE b == req[r].alert
             e == EntryOf(r)
  <2>1. b \in Alert /\ e \in Entry /\ audit' = [audit EXCEPT ![b] = Append(@, e)]
    BY <1>1, CommitFacts
  <2> HIDE DEF b, e
  <2>2. QED
    BY <1>0, <2>1
<1>2. ASSUME NEW r \in Request, Commits(r), req[r].op = "close"
      PROVE  audit' = audit
  BY <1>2, CommitFacts
<1>3. QED
  BY <1>1, <1>2, DbSteps DEF CreateAlert

\* An element of a sequence has the type of the elements.
LEMMA ElementType ==
  ASSUME NEW S, NEW s \in Seq(S), NEW k \in DOMAIN s
  PROVE  s[k] \in S
  OBVIOUS

EventOK(ev, trail) ==
  /\ \E i \in DOMAIN trail[ev.alert] : trail[ev.alert][i] = ev.entry
  /\ Agrees(ev.row, ev.entry)

EventInv ==
  /\ \A r \in Request : PublisherOK(r)
  /\ \A k \in DOMAIN channel : EventOK(channel[k], audit)

\* A request that has just committed may publish.
LEMMA CommitPublishes ==
  ASSUME ControlInv, ControlInv', NEW r \in Request, Commit(r)
  PROVE  PublisherOK(r)'
<1>1. CASE req[r].op = "close"
  BY <1>1, ReturnFacts DEF ControlInv, Commit, PublisherOK
<1>2. CASE req[r].op # "close"
  <2> DEFINE a == req[r].alert
             e == EntryOf(r)
  <2>1. Commits(r) /\ UNCHANGED local
    BY <1>2 DEF Commit
  <2>2. /\ a \in Alert /\ e \in Entry
        /\ audit' = [audit EXCEPT ![a] = Append(@, e)]
        /\ wrote[r] = Written(r) /\ alerts[a] \in Row
    BY <1>2, <2>1, CommitFacts DEF ControlInv, HolderOK, Commits
  <2>3. Agrees(wrote[r], e)
    BY <1>2, <2>1, <2>2, WrittenType DEF ControlInv, Commits
  <2>4. e' = e /\ req'[r].alert = a /\ wrote'[r] = wrote[r]
    BY <2>1 DEF local, EntryOf
  <2> HIDE DEF a, e
  <2>5. /\ audit[a] \in Seq(Entry)
        /\ audit'[a] = Append(audit[a], e)
    BY <2>2 DEF ControlInv, TypeOK
  <2>6. Len(audit[a]) + 1 \in DOMAIN audit'[a] /\ audit'[a][Len(audit[a]) + 1] = e
    BY <2>2, <2>5
  <2>7. /\ Agrees(wrote'[r], e')
        /\ \E i \in DOMAIN audit'[req'[r].alert] : audit'[req'[r].alert][i] = e'
    BY <2>3, <2>4, <2>6
  <2>8. QED
    BY <2>7 DEF PublisherOK, e
<1>3. QED
  BY <1>1, <1>2

\* Every step keeps the event invariant.
LEMMA EventStep == ControlInv /\ ControlInv' /\ EventInv /\ [Next]_vars => EventInv'
<1> SUFFICES ASSUME ControlInv, ControlInv', EventInv, [Next]_vars
             PROVE  EventInv'
  OBVIOUS
<1>1. ASSUME NEW ev \in [alert: Alert, row: Row, entry: Entry], EventOK(ev, audit)
      PROVE  EventOK(ev, audit')
  <2>1. ev.alert \in Alert
    OBVIOUS
  <2>2. PICK i \in DOMAIN audit[ev.alert] : audit[ev.alert][i] = ev.entry
    BY <1>1 DEF EventOK
  <2>3. i \in DOMAIN audit'[ev.alert] /\ audit'[ev.alert][i] = ev.entry
    BY <2>1, <2>2, TrailGrows
  <2>4. QED
    BY <1>1, <2>3 DEF EventOK
<1>2. ASSUME NEW u \in Request, pc[u] = "publish",
             pc'[u] = pc[u], req'[u] = req[u], seen'[u] = seen[u],
             began'[u] = began[u], wrote'[u] = wrote[u]
      PROVE  PublisherOK(u)'
  <2>1. req[u].alert \in Alert
    BY <1>2, AskFacts DEF ControlInv, RequestOK
  <2>2. PublisherOK(u) /\ EntryOf(u)' = EntryOf(u)
    BY <1>2 DEF EventInv, EntryOf
  <2>3. PICK i \in DOMAIN audit[req[u].alert] : audit[req[u].alert][i] = EntryOf(u)
    BY <1>2, <2>2 DEF PublisherOK
  <2>4. i \in DOMAIN audit'[req[u].alert] /\ audit'[req[u].alert][i] = EntryOf(u)
    BY <2>1, <2>3, TrailGrows
  <2>5. QED
    BY <1>2, <2>2, <2>4 DEF PublisherOK
<1>3. ASSUME NEW u \in Request PROVE PublisherOK(u)'
  <2>1. ASSUME NEW r \in Request, r # u, Return(r)
        PROVE  PublisherOK(u)'
    <3>1. /\ pc'[u] = pc[u] /\ req'[u] = req[u] /\ seen'[u] = seen[u]
          /\ began'[u] = began[u] /\ wrote'[u] = wrote[u]
      BY <2>1, ReturnFacts DEF ControlInv
    <3>2. QED
      BY <1>2, <3>1 DEF PublisherOK
  <2>2. ASSUME NEW r \in Request, Return(r) PROVE PublisherOK(u)'
    <3>1. CASE r = u
      BY <2>2, <3>1, ReturnFacts DEF ControlInv, PublisherOK
    <3>2. QED
      BY <2>1, <2>2, <3>1
  <2>3. ASSUME NEW r \in Request, Commit(r) PROVE PublisherOK(u)'
    <3>1. CASE r = u
      BY <2>3, <3>1, CommitPublishes
    <3>2. CASE r # u /\ ~ Return(r)
      BY <1>2, <2>3, <3>2 DEF Commit, Goto, local, ControlInv, TypeOK, PublisherOK
    <3>3. QED
      BY <2>2, <3>1, <3>2
  <2>4. ASSUME NEW r \in Request,
               Submit(r) \/ ReadCurrent(r) \/ Begin(r) \/ Update(r)
        PROVE  PublisherOK(u)'
    <3>1. pc[r] # "publish" /\ pc'[r] # "publish"
      BY <2>4 DEF Submit, ReadCurrent, Begin, Update, Goto, ControlInv, TypeOK
    <3>2. r # u => /\ pc'[u] = pc[u] /\ req'[u] = req[u] /\ seen'[u] = seen[u]
                   /\ began'[u] = began[u] /\ wrote'[u] = wrote[u]
      BY <2>4 DEF Submit, ReadCurrent, Begin, Update, Goto, ControlInv, TypeOK
    <3>3. QED
      BY <1>2, <3>1, <3>2 DEF PublisherOK
  <2>5. CASE UNCHANGED <<pc, local>>
    BY <1>2, <2>5 DEF local, PublisherOK
  <2>6. QED
    BY <2>2, <2>3, <2>4, <2>5
       DEF Next, Handle, CreateAlert, NotFound, CommitAnswerLost, Fails, Publish,
           PublishSwallowed, vars
<1>4. ASSUME channel' = channel, NEW k \in DOMAIN channel' PROVE EventOK(channel'[k], audit')
  <2>1. channel[k] \in [alert: Alert, row: Row, entry: Entry] /\ EventOK(channel[k], audit)
    <3>1. channel \in Seq([alert: Alert, row: Row, entry: Entry])
      BY DEF ControlInv, TypeOK
    <3>2. channel[k] \in [alert: Alert, row: Row, entry: Entry]
      BY <1>4, <3>1, ElementType
    <3>3. EventOK(channel[k], audit)
      BY <1>4 DEF EventInv
    <3>4. QED
      BY <3>2, <3>3
  <2>2. EventOK(channel[k], audit')
    BY <1>1, <2>1
  <2>3. QED
    BY <1>4, <2>2
<1>5. ASSUME NEW r \in Request, Publish(r), NEW k \in DOMAIN channel'
      PROVE  EventOK(channel'[k], audit')
  <2> DEFINE ev == Event(r)
  <2>1. channel \in Seq([alert: Alert, row: Row, entry: Entry])
    BY DEF ControlInv, TypeOK
  <2>2. /\ ev \in [alert: Alert, row: Row, entry: Entry]
        /\ EventOK(ev, audit)
    <3>1. /\ pc[r] = "publish" /\ req[r].op # "close" /\ wrote[r] \in Row
          /\ req[r].alert \in Alert
      BY <1>5, AskFacts DEF Publish, ControlInv, RequestOK
    <3>2. EntryOf(r) \in Entry
      BY <3>1, EntryType DEF ControlInv
    <3>3. PublisherOK(r)
      BY DEF EventInv
    <3>4. QED
      BY <3>1, <3>2, <3>3 DEF Event, EventOK, PublisherOK
  <2>3. channel' = Append(channel, ev)
    BY <1>5 DEF Publish
  <2> HIDE DEF ev
  <2>4. channel'[k] = ev \/ (k \in DOMAIN channel /\ channel'[k] = channel[k])
    BY <1>5, <2>1, <2>2, <2>3
  <2>5. k \in DOMAIN channel =>
          /\ channel[k] \in [alert: Alert, row: Row, entry: Entry]
          /\ EventOK(channel[k], audit)
    <3>1. k \in DOMAIN channel =>
            channel[k] \in [alert: Alert, row: Row, entry: Entry]
      BY <2>1, ElementType
    <3>2. k \in DOMAIN channel => EventOK(channel[k], audit)
      BY DEF EventInv
    <3>3. QED
      BY <3>1, <3>2
  <2>6. PICK x \in [alert: Alert, row: Row, entry: Entry] :
          channel'[k] = x /\ EventOK(x, audit)
    BY <2>2, <2>4, <2>5
  <2>7. EventOK(x, audit')
    BY <1>1, <2>6
  <2>8. QED
    BY <2>6, <2>7
<1>6. channel' = channel \/ \E r \in Request : Publish(r)
  BY DEF Next, Handle, vars, local, db, CreateAlert, Submit, ReadCurrent, Begin,
         Update, NotFound, Commit, CommitAnswerLost, Commits, Fails,
         PublishSwallowed
<1>7. QED
  BY <1>3, <1>4, <1>5, <1>6 DEF EventInv

\* An event on the realtime channel tells of a committed, audited change.
THEOREM EventsTellCommits == Spec => []EventsAreCommitted
<1>1. Init => EventInv
  BY DEF Init, EventInv, PublisherOK
<1>2. EventInv => EventsAreCommitted
  BY DEF EventInv, EventOK, EventsAreCommitted
<1>3. QED
  BY <1>1, <1>2, EventStep, ControlInvariant, PTL DEF Spec

-----------------------------------------------------------------------------
(* Levels                                                                  *)

\* The audited escalations of an alert, counted; the parameter is the trail.
Escalations(log) == {i \in DOMAIN log : log[i].action = "escalate"}

\* One more entry is at most one more escalation.
LEMMA EscalationsAppend ==
  ASSUME NEW log \in Seq(Entry), NEW e \in Entry
  PROVE  /\ Cardinality(Escalations(log)) \in Nat
         /\ Cardinality(Escalations(Append(log, e))) =
              IF e.action = "escalate" THEN Cardinality(Escalations(log)) + 1
              ELSE Cardinality(Escalations(log))
         /\ e.action = "escalate" => Escalations(Append(log, e)) # {}
         /\ e.action # "escalate" => (Escalations(Append(log, e)) = {} <=>
                                       Escalations(log) = {})
<1> DEFINE n == Len(log)
           S == Escalations(log)
<1>1. /\ n \in Nat /\ DOMAIN log = 1 .. n
      /\ DOMAIN Append(log, e) = 1 .. n + 1
      /\ \A i \in 1 .. n : Append(log, e)[i] = log[i]
      /\ Append(log, e)[n + 1] = e
  OBVIOUS
<1>2. IsFiniteSet(S)
  <2>1. IsFiniteSet(1 .. n)
    BY <1>1, FS_Interval
  <2>2. S \in SUBSET (1 .. n)
    BY <1>1 DEF Escalations
  <2>3. QED
    BY <2>1, <2>2, FS_Subset
<1>3. n + 1 \notin S
  BY <1>1 DEF Escalations
<1>4. Escalations(Append(log, e)) = IF e.action = "escalate" THEN S \cup {n + 1} ELSE S
  BY <1>1 DEF Escalations
<1>5. Cardinality(S) \in Nat
  BY <1>2, FS_CardinalityType
<1>6. Cardinality(S \cup {n + 1}) = Cardinality(S) + 1
  BY <1>2, <1>3, FS_AddElement
<1>7. QED
  BY <1>4, <1>5, <1>6

\* The level an escalation has read is covered by the escalations audited.
LevelOK(a) ==
  alerts[a] # Absent =>
    /\ alerts[a].level <= Cardinality(Escalations(audit[a]))
    /\ Escalations(audit[a]) # {} => alerts[a].level > 0

SeenOK(r) ==
  pc[r] \in {"begin", "update", "commit"} /\ req[r].op = "escalate"
    => seen[r].level <= Cardinality(Escalations(audit[req[r].alert]))

LevelInv ==
  /\ \A a \in Alert : LevelOK(a) /\ (alerts[a] = Absent => audit[a] = <<>>)
  /\ \A r \in Request : SeenOK(r)

\* The number of audited escalations never drops.
LEMMA EscalationsGrow ==
  ASSUME ControlInv, [Next]_vars, NEW a \in Alert
  PROVE  /\ Cardinality(Escalations(audit[a])) \in Nat
         /\ Cardinality(Escalations(audit'[a])) \in Nat
         /\ Cardinality(Escalations(audit[a])) <= Cardinality(Escalations(audit'[a]))
<1>0. audit \in [Alert -> Seq(Entry)] /\ audit[a] \in Seq(Entry)
  BY DEF ControlInv, TypeOK
<1>1. Cardinality(Escalations(audit[a])) \in Nat
  <2>1. PICK e \in Entry : e.action = "comment"
    <3>1. [action |-> "comment", value |-> NoOne, level |-> 0, at |-> 0] \in Entry
      BY DEF Entry, Audited
    <3>2. QED
      BY <3>1
  <2>2. QED
    BY <1>0, <2>1, EscalationsAppend
<1>2. ASSUME NEW r \in Request, Commits(r), req[r].op # "close", req[r].alert = a
      PROVE  \E e \in Entry : audit'[a] = Append(audit[a], e)
  <2>1. EntryOf(r) \in Entry /\ audit' = [audit EXCEPT ![a] = Append(@, EntryOf(r))]
    BY <1>2, CommitFacts
  <2>2. QED
    BY <1>0, <2>1
<1>3. ASSUME NEW r \in Request, Commits(r), req[r].op = "close" \/ req[r].alert # a
      PROVE  audit'[a] = audit[a]
  <2>1. CASE req[r].op = "close"
    BY <1>3, <2>1, CommitFacts
  <2>2. CASE req[r].op # "close" /\ req[r].alert # a
    BY <1>3, <2>2, CommitOthers DEF ControlInv
  <2>3. QED
    BY <1>3, <2>1, <2>2
<1>4. audit'[a] = audit[a] \/ \E e \in Entry : audit'[a] = Append(audit[a], e)
  BY <1>2, <1>3, DbSteps DEF CreateAlert
<1>5. CASE audit'[a] = audit[a]
  BY <1>1, <1>5
<1>6. ASSUME NEW e \in Entry, audit'[a] = Append(audit[a], e)
      PROVE  /\ Cardinality(Escalations(audit'[a])) \in Nat
             /\ Cardinality(Escalations(audit[a])) <= Cardinality(Escalations(audit'[a]))
  BY <1>0, <1>1, <1>6, EscalationsAppend
<1>7. QED
  BY <1>1, <1>4, <1>5, <1>6

\* Every step keeps the level invariant.
LEMMA LevelStep == ControlInv /\ ControlInv' /\ LevelInv /\ [Next]_vars => LevelInv'
<1> SUFFICES ASSUME ControlInv, ControlInv', LevelInv, [Next]_vars
             PROVE  LevelInv'
  OBVIOUS
<1>0. /\ alerts \in [Alert -> Row \cup {Absent}]
      /\ audit \in [Alert -> Seq(Entry)]
  BY DEF ControlInv, TypeOK
<1>1. ASSUME NEW a \in Alert
      PROVE  LevelOK(a)' /\ (alerts'[a] = Absent => audit'[a] = <<>>)
  <2>0. LevelOK(a) /\ (alerts[a] = Absent => audit[a] = <<>>)
    BY DEF LevelInv
  <2>1. CASE UNCHANGED <<alerts[a], audit[a]>>
    BY <2>0, <2>1 DEF LevelOK
  <2>2. ASSUME NEW b \in Alert, CreateAlert(b)
        PROVE  LevelOK(a)' /\ (alerts'[a] = Absent => audit'[a] = <<>>)
    <3>1. CASE a # b
      BY <1>0, <2>1, <2>2, <3>1 DEF CreateAlert
    <3>2. CASE a = b
      <4>1. PICK s \in Severity : alerts'[a] = Fresh(s)
        BY <1>0, <2>2, <3>2 DEF CreateAlert
      <4>2. audit'[a] = <<>>
        BY <2>0, <2>2, <3>2 DEF CreateAlert
      <4>3. Escalations(<<>>) = {} /\ Cardinality({}) = 0
        BY FS_EmptySet DEF Escalations
      <4>4. Cardinality(Escalations(audit'[a])) = 0 /\ Escalations(audit'[a]) = {}
        BY <4>2, <4>3
      <4>5. alerts'[a].level = 0
        BY <4>1 DEF Fresh
      <4>6. QED
        BY <4>2, <4>4, <4>5 DEF LevelOK
    <3>3. QED
      BY <3>1, <3>2
  <2>3. ASSUME NEW r \in Request, Commits(r)
        PROVE  LevelOK(a)' /\ (alerts'[a] = Absent => audit'[a] = <<>>)
    <3>1. CASE req[r].alert # a
      <4>1. UNCHANGED <<alerts[a], audit[a]>>
        BY <2>3, <3>1, CommitOthers DEF ControlInv
      <4>2. QED
        BY <2>1, <4>1
    <3>2. CASE req[r].alert = a /\ req[r].op = "close"
      <4>1. /\ alerts[a] \in Row /\ alerts[a] # Absent /\ Written(r) \in Row
            /\ alerts' = [alerts EXCEPT ![a] = Written(r)]
            /\ Written(r) = [alerts[a] EXCEPT !.status = "closed"]
            /\ audit' = audit
        BY <2>3, <3>2, CommitFacts
      <4>2. /\ alerts'[a] # Absent
            /\ alerts'[a].level = alerts[a].level
        BY <1>0, <4>1, AbsentAssumption DEF Row
      <4>3. QED
        BY <2>0, <4>1, <4>2 DEF LevelOK
    <3>3. CASE req[r].alert = a /\ req[r].op # "close"
      <4> DEFINE e == EntryOf(r)
      <4>1. /\ e \in Entry
            /\ alerts[a] \in Row /\ alerts[a] # Absent /\ Written(r) \in Row
            /\ alerts' = [alerts EXCEPT ![a] = Written(r)]
            /\ Written(r) = Applied(alerts[a], e)
            /\ audit' = [audit EXCEPT ![a] = Append(@, e)]
        BY <2>3, <3>3, CommitFacts
      <4>2. /\ e.action = "escalate" <=> req[r].op = "escalate"
            /\ e.action = "escalate" => e.level = seen[r].level + 1
        BY DEF EntryOf
      <4>3. e.action = "escalate" =>
              /\ seen[r].level \in Nat
              /\ seen[r].level <= Cardinality(Escalations(audit[a]))
        <5>1. SeenOK(r) /\ RequestOK(r) /\ pc[r] = "commit"
          BY <2>3 DEF LevelInv, ControlInv, Commits
        <5>2. QED
          BY <3>3, <4>2, <5>1 DEF SeenOK, RequestOK, Row
      <4> HIDE DEF e
      <4>4. /\ audit[a] \in Seq(Entry) /\ audit'[a] = Append(audit[a], e)
            /\ alerts'[a] = Written(r) /\ alerts'[a] # Absent
        BY <1>0, <4>1, AbsentAssumption
      <4>5. /\ e.action = "escalate" => alerts'[a].level = e.level
            /\ e.action # "escalate" => alerts'[a].level = alerts[a].level
        BY <4>1, <4>4 DEF Applied, Row
      <4>6. alerts[a].level \in Nat
        BY <4>1 DEF Row
      <4>7. LevelOK(a)'
        <5>1. CASE e.action = "escalate"
          BY <4>1, <4>2, <4>3, <4>4, <4>5, <5>1, EscalationsAppend DEF LevelOK
        <5>2. CASE e.action # "escalate"
          BY <2>0, <4>1, <4>4, <4>5, <4>6, <5>2, EscalationsAppend DEF LevelOK
        <5>3. QED
          BY <5>1, <5>2
      <4>8. QED
        BY <4>4, <4>7
    <3>4. QED
      BY <3>1, <3>2, <3>3
  <2>4. QED
    BY <2>1, <2>2, <2>3, DbSteps
<1>2. ASSUME NEW u \in Request PROVE SeenOK(u)'
  <2>1. SeenOK(u)
    BY DEF LevelInv
  <2>2. ASSUME req'[u] = req[u], seen'[u] = seen[u],
               pc[u] \in {"begin", "update", "commit"}
        PROVE  SeenOK(u)'
    <3>1. req[u].alert \in Alert
      BY <2>2, AskFacts DEF ControlInv, RequestOK
    <3>2. req[u].op = "escalate" => seen[u].level \in Nat
      BY <2>2 DEF ControlInv, RequestOK, Row
    <3>3. QED
      BY <2>1, <2>2, <3>1, <3>2, EscalationsGrow DEF SeenOK
  <2>3. ASSUME NEW r \in Request, Return(r) PROVE SeenOK(u)'
    <3>1. CASE r = u
      BY <2>3, <3>1, ReturnFacts DEF ControlInv, SeenOK
    <3>2. CASE r # u
      <4>1. pc'[u] = pc[u] /\ req'[u] = req[u] /\ seen'[u] = seen[u]
        BY <2>3, <3>2, ReturnFacts DEF ControlInv
      <4>2. QED
        BY <2>2, <4>1 DEF SeenOK
    <3>3. QED
      BY <3>1, <3>2
  <2>4. ASSUME NEW r \in Request, Submit(r) PROVE SeenOK(u)'
    <3>1. r # u => pc'[u] = pc[u] /\ req'[u] = req[u] /\ seen'[u] = seen[u]
      BY <2>4 DEF Submit, Goto, ControlInv, TypeOK
    <3>2. r = u => pc'[u] = "read" \/ (pc'[u] = "begin" /\ req'[u].op # "escalate")
      BY <2>4 DEF Submit, Goto, ControlInv, TypeOK
    <3>3. QED
      BY <2>2, <3>1, <3>2 DEF SeenOK
  <2>5. ASSUME NEW r \in Request, ReadCurrent(r) PROVE SeenOK(u)'
    <3>1. CASE r # u
      <4>1. pc'[u] = pc[u] /\ req'[u] = req[u] /\ seen'[u] = seen[u]
        BY <2>5, <3>1 DEF ReadCurrent, Goto, ControlInv, TypeOK
      <4>2. QED
        BY <2>2, <4>1 DEF SeenOK
    <3>2. CASE r = u
      <4>1. /\ req[u].alert \in Alert /\ alerts[req[u].alert] # Absent
            /\ req' = req /\ audit' = audit
            /\ seen'[u] = alerts[req[u].alert]
        BY <2>5, <3>2, AskFacts DEF ReadCurrent, ControlInv, RequestOK, TypeOK, db
      <4>2. LevelOK(req[u].alert)
        BY <4>1 DEF LevelInv
      <4>3. QED
        BY <4>1, <4>2 DEF SeenOK, LevelOK
    <3>3. QED
      BY <3>1, <3>2
  <2>6. ASSUME NEW r \in Request, Begin(r) \/ Update(r) PROVE SeenOK(u)'
    <3>1. req' = req /\ seen' = seen /\ (pc'[u] = pc[u] \/ pc[u] \in {"begin", "update"})
      BY <2>6 DEF Begin, Update, Goto, ControlInv, TypeOK
    <3>2. QED
      BY <2>2, <3>1 DEF SeenOK
  <2>7. ASSUME NEW r \in Request, Commit(r) PROVE SeenOK(u)'
    <3>1. CASE UNCHANGED local /\ Goto(r, "publish")
      <4>1. req' = req /\ seen' = seen /\ (pc'[u] = pc[u] \/ pc'[u] = "publish")
        BY <2>7, <3>1 DEF local, Goto, ControlInv, TypeOK
      <4>2. QED
        BY <2>2, <4>1 DEF SeenOK
    <3>2. QED
      BY <2>3, <2>7, <3>1 DEF Commit
  <2>8. CASE UNCHANGED <<pc, local>>
    BY <2>2, <2>8 DEF local, SeenOK
  <2>9. QED
    BY <2>3, <2>4, <2>5, <2>6, <2>7, <2>8
       DEF Next, Handle, CreateAlert, NotFound, CommitAnswerLost, Fails, Publish,
           PublishSwallowed, vars
<1>3. QED
  BY <1>1, <1>2 DEF LevelInv

\* Concurrent escalations may get lost, but the level never exceeds the number
\* of audited escalations, and an escalated alert shows a level above zero.
THEOREM LevelBounded == Spec => []LevelWithinEscalations
<1>1. Init => LevelInv
  BY DEF Init, LevelInv, LevelOK, SeenOK
<1>2. LevelInv => LevelWithinEscalations
  BY DEF LevelInv, LevelOK, LevelWithinEscalations, Escalations, EntriesOf
<1>3. QED
  BY <1>1, <1>2, LevelStep, ControlInvariant, PTL DEF Spec
=============================================================================
