------------------------- MODULE AlertBoard_proofs --------------------------
(* What the alerts page shows, for every set of alerts and requests, and    *)
(* wherever the connection, a request or a publication fails.               *)
EXTENDS AlertBoard, AlertTriage_proofs

\* A step of the server or of the page is a step of triage or leaves it alone.
LEMMA BoardSteps == [BoardNext]_boardVars => [Next]_vars
<1> SUFFICES ASSUME [BoardNext]_boardVars PROVE [Next]_vars
  OBVIOUS
<1>1. CASE Server
  BY <1>1 DEF Server, Pipeline, Created, CreatedByTask, Announce, StaysSilent,
     Dispatched, Committed, Published, Unannounced, Works, Arrives, Next, Handle
<1>2. CASE Page
  BY <1>2, MineAssumption DEF Page, ListAnswered, ListShown, ListFails, Open,
     Subscribe, Drop, Receive, Click, ActionSucceeds, ActionFails, Next
<1>3. CASE UNCHANGED boardVars
  BY <1>3 DEF boardVars
<1>4. QED
  BY <1>1, <1>2, <1>3 DEF BoardNext

\* The page, the stream and the alert worker add no step to triage that the
\* handlers of alerts.py and incidents.py could not take alone: what triage
\* guarantees, it guarantees to the page.
THEOREM BoardImplementsTriage == BoardSpec => Spec
<1>1. BoardInit => Init
  BY DEF BoardInit
<1>2. QED
  BY <1>1, BoardSteps, PTL DEF BoardSpec, Spec

\* So the table the page shows is one of audited alerts (AuditedAlert): every
\* row a user sees change has its audit entry, but for a closed incident.
THEOREM BoardShowsAuditedAlerts == BoardSpec => ImplementsAuditedAlert
  BY BoardImplementsTriage, Refinement

LEMMA BoardControl == BoardSpec => []ControlInv
  BY BoardImplementsTriage, ControlInvariant, PTL

-----------------------------------------------------------------------------
(* The steps of the server, by their effect on tables and events           *)

\* The control state of u stays.
Same(u) == pc'[u] = pc[u] /\ req'[u] = req[u] /\ wrote'[u] = wrote[u]

\* The pipeline inserts an alert.
Inserts(a) ==
  /\ a \in Alert /\ alerts[a] = Absent
  /\ \E row \in Row : alerts' = [alerts EXCEPT ![a] = row]
  /\ UNCHANGED <<pc, local>>

\* A request changes its alert.
Changes(r) ==
  /\ pc[r] = "commit" /\ req[r].alert \in Alert
  /\ wrote[r] \in Row
  /\ alerts' = [alerts EXCEPT ![req[r].alert] = wrote[r]]
  /\ \A u \in Request \ {r} : Same(u)

\* A request that has announced its change returns.
Returns(r) ==
  /\ pc[r] = "publish" /\ pc'[r] = "done"
  /\ req[r].alert \in Alert /\ wrote[r] \in Row
  /\ alerts' = alerts
  /\ \A u \in Request \ {r} : Same(u)

\* A request does something that no other request and not the page can see.
Internal(r) ==
  /\ pc[r] # "publish" /\ pc'[r] # "publish"
  /\ alerts' = alerts
  /\ \A u \in Request \ {r} : Same(u)

LEMMA FreshType == \A s \in Severity : Fresh(s) \in Row
  BY StatusAssumption DEF Fresh, Row

LEMMA CreatedEffect ==
  ASSUME NEW a \in Alert, CreateAlert(a)
  PROVE  Inserts(a)
<1>1. PICK s \in Severity : alerts' = [alerts EXCEPT ![a] = Fresh(s)]
  BY DEF CreateAlert
<1>2. QED
  BY <1>1, FreshType DEF CreateAlert, Inserts

LEMMA CommitsEffect ==
  ASSUME ControlInv, NEW r \in Request, Commits(r),
         \A u \in Request \ {r} : Same(u)
  PROVE  Changes(r)
<1>1. wrote[r] = Written(r) /\ req[r].alert \in Alert /\ Written(r) \in Row
  BY CommitFacts DEF ControlInv, HolderOK, Commits
<1>2. QED
  BY <1>1 DEF Commits, Changes

LEMMA ReturnOthers ==
  ASSUME ControlInv, NEW r \in Request, Return(r)
  PROVE  pc'[r] = "done" /\ \A u \in Request \ {r} : Same(u)
  BY ReturnFacts DEF ControlInv, Same

LEMMA CommittedEffect ==
  ASSUME ControlInv, NEW r \in Request, Commit(r)
  PROVE  /\ Changes(r)
         /\ req[r].op = "close" => pc'[r] = "done"
         /\ req[r].op # "close" =>
              pc'[r] = "publish" /\ req'[r] = req[r] /\ wrote'[r] = wrote[r]
<1>1. CASE req[r].op = "close"
  BY <1>1, ReturnOthers, CommitsEffect DEF Commit
<1>2. CASE req[r].op # "close"
  <2>1. Goto(r, "publish") /\ UNCHANGED local /\ Commits(r)
    BY <1>2 DEF Commit
  <2>2. /\ pc'[r] = "publish" /\ req' = req /\ wrote' = wrote
        /\ \A u \in Request \ {r} : pc'[u] = pc[u]
    BY <2>1 DEF Goto, local, ControlInv, TypeOK
  <2>3. \A u \in Request \ {r} : Same(u)
    BY <2>2 DEF Same
  <2>4. QED
    BY <1>2, <2>1, <2>2, <2>3, CommitsEffect
<1>3. QED
  BY <1>1, <1>2

LEMMA LostEffect ==
  ASSUME ControlInv, NEW r \in Request, CommitAnswerLost(r)
  PROVE  Changes(r) /\ pc'[r] = "done"
  BY ReturnOthers, CommitsEffect DEF CommitAnswerLost

LEMMA PublishedEffect ==
  ASSUME ControlInv, NEW r \in Request, Publish(r) \/ PublishSwallowed(r)
  PROVE  Returns(r)
<1>1. pc[r] = "publish" /\ Return(r) /\ alerts' = alerts
  BY DEF Publish, PublishSwallowed, db
<1>2. req[r].alert \in Alert /\ wrote[r] \in Row
  BY <1>1, AskFacts DEF ControlInv, RequestOK
<1>3. QED
  BY <1>1, <1>2, ReturnOthers DEF Returns

LEMMA WorksEffect ==
  ASSUME ControlInv, NEW r \in Request,
         \/ ReadCurrent(r) \/ Begin(r) \/ Update(r) \/ NotFound(r) \/ Fails(r)
         \/ Submit(r)
  PROVE  Internal(r)
<1>1. CASE NotFound(r) \/ Fails(r)
  <2>1. Return(r) /\ alerts' = alerts /\ pc[r] # "publish"
    BY <1>1 DEF NotFound, Fails, db
  <2>2. QED
    BY <2>1, ReturnOthers DEF Internal
<1>2. CASE ReadCurrent(r) \/ Begin(r) \/ Update(r) \/ Submit(r)
  BY <1>2 DEF ReadCurrent, Begin, Update, Submit, Goto, db, Same, Internal,
     ControlInv, TypeOK
<1>3. QED
  BY <1>1, <1>2

\* The server's steps, each with what it does besides.
LEMMA ServerCases ==
  ASSUME ControlInv, Server
  PROVE  \/ \E a \in Alert :
              /\ Inserts(a)
              /\ answer' = answer /\ stream' = stream
              /\ \/ /\ birth' = birth
                    /\ Disturb(IF load = "asked" THEN {} ELSE {a})
                 \/ /\ birth' = [birth EXCEPT ![a] = alerts'[a]]
                    /\ Disturb(IF load = "answered" THEN {a} ELSE {})
         \/ \E a \in Alert :
              /\ UNCHANGED <<vars, answer>>
              /\ birth[a] # Absent /\ birth' = [birth EXCEPT ![a] = Absent]
              /\ \/ stream' = stream /\ Disturb({a})
                 \/ Emit(a, birth[a]) /\ Disturb(IF Heard THEN {} ELSE {a})
         \/ \E a \in Alert :
              /\ UNCHANGED <<vars, birth, answer>>
              /\ alerts[a] # Absent /\ Emit(a, Absent)
              /\ Disturb(IF link = "subscribed" THEN {a} ELSE {})
         \/ \E r \in Request :
              /\ Changes(r) /\ UNCHANGED <<worker, answer>>
              /\ \/ pc'[r] = "done" /\ Disturb({req[r].alert})
                 \/ /\ pc'[r] = "publish" /\ req'[r] = req[r] /\ wrote'[r] = wrote[r]
                    /\ IF Behind(req[r].alert) THEN Disturb({req[r].alert})
                       ELSE MakesUp(req[r].alert)
         \/ \E r \in Request :
              /\ Returns(r) /\ Respond(r) /\ birth' = birth
              /\ \/ stream' = stream /\ Disturb({req[r].alert})
                 \/ /\ Emit(req[r].alert, wrote[r])
                    /\ Disturb(IF Heard THEN {} ELSE {req[r].alert})
         \/ \E r \in Request : Internal(r) /\ Disturb({}) /\ UNCHANGED <<worker, answer>>
<1>1. ASSUME NEW a \in Alert, Created(a) \/ CreatedByTask(a)
      PROVE  /\ Inserts(a)
             /\ answer' = answer /\ stream' = stream
             /\ \/ /\ birth' = birth
                   /\ Disturb(IF load = "asked" THEN {} ELSE {a})
                \/ /\ birth' = [birth EXCEPT ![a] = alerts'[a]]
                   /\ Disturb(IF load = "answered" THEN {a} ELSE {})
  BY <1>1, CreatedEffect DEF Created, CreatedByTask, worker
<1>2. ASSUME NEW a \in Alert, Announce(a) \/ StaysSilent(a)
      PROVE  /\ UNCHANGED <<vars, answer>>
             /\ birth[a] # Absent /\ birth' = [birth EXCEPT ![a] = Absent]
             /\ \/ stream' = stream /\ Disturb({a})
                \/ Emit(a, birth[a]) /\ Disturb(IF Heard THEN {} ELSE {a})
  BY <1>2 DEF Announce, StaysSilent
<1>3. ASSUME NEW a \in Alert, Dispatched(a)
      PROVE  /\ UNCHANGED <<vars, birth, answer>>
             /\ alerts[a] # Absent /\ Emit(a, Absent)
             /\ Disturb(IF link = "subscribed" THEN {a} ELSE {})
  BY <1>3 DEF Dispatched
<1>4. ASSUME NEW r \in Request, Committed(r)
      PROVE  /\ Changes(r) /\ UNCHANGED <<worker, answer>>
             /\ \/ pc'[r] = "done" /\ Disturb({req[r].alert})
                \/ /\ pc'[r] = "publish" /\ req'[r] = req[r] /\ wrote'[r] = wrote[r]
                   /\ IF Behind(req[r].alert) THEN Disturb({req[r].alert})
                      ELSE MakesUp(req[r].alert)
  BY <1>4, CommittedEffect DEF Committed
<1>5. ASSUME NEW r \in Request, Published(r)
      PROVE  /\ Returns(r) /\ Respond(r) /\ birth' = birth
             /\ Emit(req[r].alert, wrote[r])
             /\ Disturb(IF Heard THEN {} ELSE {req[r].alert})
  BY <1>5, PublishedEffect DEF Published
<1>6. ASSUME NEW r \in Request, Unannounced(r)
      PROVE  \/ /\ Changes(r) /\ UNCHANGED <<worker, answer>>
                /\ pc'[r] = "done" /\ Disturb({req[r].alert})
             \/ /\ Returns(r) /\ Respond(r) /\ UNCHANGED worker
                /\ Disturb({req[r].alert})
  <2>1. CASE CommitAnswerLost(r) /\ UNCHANGED answer
    BY <1>6, <2>1, LostEffect DEF Unannounced
  <2>2. CASE PublishSwallowed(r) /\ Respond(r)
    BY <1>6, <2>2, PublishedEffect DEF Unannounced
  <2>3. QED
    BY <1>6, <2>1, <2>2 DEF Unannounced
<1>7. ASSUME NEW r \in Request, Works(r) \/ Arrives(r)
      PROVE  Internal(r) /\ Disturb({}) /\ UNCHANGED <<worker, answer>>
  BY <1>7, WorksEffect DEF Works, Arrives
<1>8. CASE \E a \in Alert : Created(a) \/ CreatedByTask(a)
  BY <1>1, <1>8
<1>9. CASE \E a \in Alert : Announce(a) \/ StaysSilent(a)
  BY <1>2, <1>9
<1>10. CASE \E a \in Alert : Dispatched(a)
  BY <1>3, <1>10
<1>11. CASE \E r \in Request : Committed(r)
  BY <1>4, <1>11
<1>12. CASE \E r \in Request : Published(r)
  BY <1>5, <1>12
<1>13. CASE \E r \in Request : Unannounced(r)
  BY <1>6, <1>13 DEF worker
<1>14. CASE \E r \in Request : Works(r) \/ Arrives(r)
  BY <1>7, <1>14
<1>15. QED
  BY <1>8, <1>9, <1>10, <1>11, <1>12, <1>13, <1>14 DEF Server, Pipeline

\* Whatever the server emits is a row the alert has, or none.
LEMMA EmissionCases ==
  ASSUME ControlInv, BoardTypeOK, Server
  PROVE  \/ stream' = stream
         \/ \E a \in Alert : Emit(a, Absent) /\ alerts[a] # Absent
         \/ \E a \in Alert : Emit(a, birth[a]) /\ birth[a] # Absent
         \/ \E r \in Request : Emit(req[r].alert, wrote[r]) /\ Returns(r)
  BY ServerCases DEF worker

\* What is on the stream.
LEMMA EventType ==
  ASSUME stream \in Seq([alert: Alert, row: Row \cup {Absent}]),
         NEW k \in 1 .. Len(stream)
  PROVE  stream[k].alert \in Alert /\ stream[k].row \in Row \cup {Absent}
<1> DEFINE E == [alert: Alert, row: Row \cup {Absent}]
<1>1. stream \in Seq(E) /\ k \in DOMAIN stream
  OBVIOUS
<1>2. stream[k] \in E
  <2> HIDE DEF E
  <2>1. QED
    BY <1>1, ElementType
<1>3. QED
  BY <1>2

LEMMA EmitType ==
  ASSUME BoardTypeOK, NEW a \in Alert, NEW row \in Row \cup {Absent}, Emit(a, row)
  PROVE  /\ stream' \in Seq([alert: Alert, row: Row \cup {Absent}])
         /\ Len(stream') = Len(stream) + 1
         /\ \A k \in DOMAIN stream : k \in DOMAIN stream' /\ stream'[k] = stream[k]
<1> DEFINE E == [alert: Alert, row: Row \cup {Absent}]
           e == [alert |-> a, row |-> row]
<1>1. e \in E
  OBVIOUS
<1>2. stream \in Seq(E) /\ stream' = Append(stream, e)
  BY DEF BoardTypeOK, Emit
<1> HIDE DEF E, e
<1>3. /\ stream' \in Seq(E)
      /\ Len(stream') = Len(stream) + 1
      /\ \A k \in DOMAIN stream : k \in DOMAIN stream' /\ stream'[k] = stream[k]
  BY <1>1, <1>2
<1>4. QED
  BY <1>3 DEF E

LEMMA StreamType ==
  ASSUME ControlInv, BoardTypeOK, Server
  PROVE  /\ stream' \in Seq([alert: Alert, row: Row \cup {Absent}])
         /\ Len(stream') >= Len(stream)
         /\ \A k \in DOMAIN stream : k \in DOMAIN stream' /\ stream'[k] = stream[k]
<1>1. stream \in Seq([alert: Alert, row: Row \cup {Absent}]) /\ Len(stream) \in Nat
  BY DEF BoardTypeOK
<1>2. CASE stream' = stream
  BY <1>1, <1>2
<1>3. CASE \E a \in Alert : \E row \in Row \cup {Absent} : Emit(a, row)
  <2>1. PICK a \in Alert, row \in Row \cup {Absent} : Emit(a, row)
    BY <1>3
  <2>2. /\ stream' \in Seq([alert: Alert, row: Row \cup {Absent}])
        /\ Len(stream') = Len(stream) + 1
        /\ \A k \in DOMAIN stream : k \in DOMAIN stream' /\ stream'[k] = stream[k]
    BY <2>1, EmitType
  <2>3. Len(stream') >= Len(stream)
    BY <1>1, <2>2
  <2>4. QED
    BY <2>2, <2>3
<1>4. stream' = stream \/ \E a \in Alert : \E row \in Row \cup {Absent} : Emit(a, row)
  BY EmissionCases DEF Returns, BoardTypeOK
<1>5. QED
  BY <1>2, <1>3, <1>4

\* A response carries the row the request has committed.
LEMMA ResponseType ==
  ASSUME ControlInv, BoardTypeOK, NEW r \in Request, Returns(r), Respond(r)
  PROVE  /\ answer' \in Answer \cup {NoAnswer}
         /\ answer' # answer =>
              answer'.alert = req[r].alert /\ answer'.row = wrote[r]
  BY DEF Returns, Respond, Answer, BoardTypeOK

\* The page keeps its types; the subscription is never ahead of the stream.
THEOREM BoardTypeCorrect == BoardSpec => []BoardTypeOK
<1>1. BoardInit => BoardTypeOK
  BY DEF BoardInit, Init, BoardTypeOK, Nothing
<1>2. ControlInv /\ ControlInv' /\ BoardTypeOK /\ [BoardNext]_boardVars => BoardTypeOK'
  <2> SUFFICES ASSUME ControlInv, ControlInv', BoardTypeOK, [BoardNext]_boardVars
               PROVE  BoardTypeOK'
    OBVIOUS
  <2>0. /\ alerts \in [Alert -> Row \cup {Absent}]
        /\ alerts' \in [Alert -> Row \cup {Absent}]
        /\ stream \in Seq([alert: Alert, row: Row \cup {Absent}])
        /\ Len(stream) \in Nat
    BY DEF ControlInv, TypeOK, BoardTypeOK
  <2>1. CASE Server
    <3>1. disturbed' \subseteq Alert
      BY <2>1, ServerCases DEF Inserts, Changes, Returns, Internal, Disturb, MakesUp,
         BoardTypeOK
    <3>2. answer' \in Answer \cup {NoAnswer}
      <4>1. answer' = answer \/ \E r \in Request : Returns(r) /\ Respond(r)
        BY <2>1, ServerCases
      <4>2. QED
        BY <4>1, ResponseType DEF BoardTypeOK
    <3>3. past' \in [Alert -> SUBSET (Row \cup {Absent})]
      BY <2>0, <2>1 DEF Server, BoardTypeOK
    <3>4. /\ stream' \in Seq([alert: Alert, row: Row \cup {Absent}])
          /\ Len(stream') >= Len(stream) /\ Len(stream') \in Nat
      BY <2>1, StreamType
    <3>5. birth' \in [Alert -> Row \cup {Absent}]
      BY <2>0, <2>1, ServerCases DEF worker, BoardTypeOK
    <3>6. cursor' \in 0 .. Len(stream')
      BY <2>0, <2>1, <3>4 DEF Server, shown, BoardTypeOK
    <3>7. QED
      BY <2>1, <3>1, <3>2, <3>3, <3>4, <3>5, <3>6 DEF Server, shown, BoardTypeOK
  <2>2. CASE \/ ListAnswered \/ ListShown \/ ListFails \/ Open \/ Subscribe \/ Drop
             \/ UNCHANGED boardVars
    BY <2>0, <2>2 DEF ListAnswered, ListShown, ListFails, Open, Subscribe, Drop,
       Nothing, Disturb, BoardTypeOK, boardVars, shown, worker
  <2>3. CASE Receive
    <3> DEFINE event == stream[cursor']
    <3>1. cursor' \in 1 .. Len(stream) /\ stream' = stream
      BY <2>0, <2>3 DEF Receive, BoardTypeOK, worker
    <3>2. event.alert \in Alert /\ RowOf(event) \in Row
      BY <2>0, <3>1, EventType, FreshType DEF RowOf, Severity
    <3>3. rows' = [rows EXCEPT ![event.alert] = RowOf(event)]
      BY <2>3 DEF Receive
    <3> HIDE DEF event
    <3>4. rows' \in [Alert -> Row \cup {Absent}]
      BY <3>2, <3>3 DEF BoardTypeOK
    <3>5. QED
      BY <2>3, <3>1, <3>4 DEF Receive, BoardTypeOK, worker
  <2>4. CASE \/ \E r \in Mine : Click(r)
             \/ ActionSucceeds \/ ActionFails
    BY <2>0, <2>4 DEF Click, ActionSucceeds, ActionFails, Answer, BoardTypeOK, worker
  <2>5. QED
    BY <2>1, <2>2, <2>3, <2>4 DEF BoardNext, Page
<1>3. QED
  BY <1>1, <1>2, BoardControl, PTL DEF BoardSpec

-----------------------------------------------------------------------------
(* What is shown has been in the table                                     *)

\* The row of a committed change has been in the table, and its alert still is.
HistoryInv ==
  /\ ShowsCommittedRows
  /\ \A a \in Alert : alerts[a] \in past[a] /\ (birth[a] # Absent => alerts[a] # Absent)
  /\ \A r \in Request : pc[r] = "publish" =>
       wrote[r] \in past[req[r].alert] /\ alerts[req[r].alert] # Absent
  /\ \A k \in DOMAIN stream : alerts[stream[k].alert] # Absent
  /\ answer # NoAnswer => alerts[answer.alert] # Absent

LEMMA PublisherFacts ==
  ASSUME ControlInv, NEW r \in Request, pc[r] = "publish"
  PROVE  req[r].alert \in Alert /\ wrote[r] \in Row
  BY AskFacts DEF ControlInv, RequestOK

\* The server adds to the past, and takes no alert from the table.
LEMMA PastGrows ==
  ASSUME ControlInv, BoardTypeOK, Server, NEW a \in Alert
  PROVE  /\ past[a] \subseteq past'[a] /\ alerts'[a] \in past'[a]
         /\ alerts[a] # Absent => alerts'[a] # Absent
<1>1. past' = [b \in Alert |-> past[b] \cup {alerts'[b]}]
  BY DEF Server
<1>2. alerts \in [Alert -> Row \cup {Absent}]
  BY DEF ControlInv, TypeOK
<1>3. alerts[a] # Absent => alerts'[a] # Absent
  BY <1>2, ServerCases, AbsentAssumption DEF Inserts, Changes, Returns, Internal, vars, db
<1>4. QED
  BY <1>1, <1>3

LEMMA BirthHistory ==
  ASSUME ControlInv, ControlInv', BoardTypeOK, HistoryInv, Server, NEW a \in Alert
  PROVE  /\ birth'[a] \in past'[a] \cup {Absent}
         /\ birth'[a] # Absent => alerts'[a] # Absent
<1>1. birth'[a] \in {birth[a], alerts'[a], Absent}
  BY ServerCases DEF BoardTypeOK, worker
<1>2. QED
  BY <1>1, PastGrows DEF HistoryInv, ShowsCommittedRows

LEMMA StreamHistory ==
  ASSUME ControlInv, BoardTypeOK, HistoryInv, Server, NEW k \in DOMAIN stream'
  PROVE  /\ stream'[k].row \in past'[stream'[k].alert] \cup {Absent}
         /\ alerts'[stream'[k].alert] # Absent
<1>0. stream \in Seq([alert: Alert, row: Row \cup {Absent}])
  BY DEF BoardTypeOK
<1>1. CASE k \in DOMAIN stream
  <2>1. stream'[k] = stream[k] /\ stream[k].alert \in Alert
    BY <1>0, <1>1, StreamType, EventType
  <2>2. QED
    BY <1>1, <2>1, PastGrows DEF HistoryInv, ShowsCommittedRows
<1>2. CASE k \notin DOMAIN stream
  <2>1. PICK a \in Alert : \E row \in past[a] \cup {Absent} :
                             Emit(a, row) /\ alerts[a] # Absent
    <3>1. ASSUME NEW r \in Request, Returns(r)
          PROVE  /\ req[r].alert \in Alert /\ wrote[r] \in past[req[r].alert]
                 /\ alerts[req[r].alert] # Absent
      BY <3>1 DEF Returns, HistoryInv
    <3>2. ASSUME NEW a \in Alert, birth[a] # Absent
          PROVE  birth[a] \in past[a] /\ alerts[a] # Absent
      BY <3>2 DEF HistoryInv, ShowsCommittedRows
    <3>3. stream' # stream
      BY <1>2
    <3>4. QED
      BY <3>1, <3>2, <3>3, EmissionCases
  <2>2. PICK row \in past[a] \cup {Absent} : Emit(a, row)
    BY <2>1
  <2>3. stream'[k] = [alert |-> a, row |-> row]
    BY <1>0, <1>2, <2>2 DEF Emit
  <2>4. stream'[k].alert = a /\ stream'[k].row = row
    BY <2>3
  <2>5. QED
    BY <2>1, <2>4, PastGrows
<1>3. QED
  BY <1>1, <1>2

LEMMA HistoryServer ==
  ASSUME ControlInv, ControlInv', BoardTypeOK, BoardTypeOK', HistoryInv, Server
  PROVE  HistoryInv'
<1>1. \A a \in Alert : {listing'[a], birth'[a]} \subseteq past'[a] \cup {Absent}
  BY PastGrows, BirthHistory DEF Server, shown, HistoryInv, ShowsCommittedRows
<1>2. ASSUME NEW a \in Alert
      PROVE  \/ rows'[a] \in past'[a] \cup {Absent}
             \/ DispatchTold(a)' /\ rows'[a] = Fresh("medium")
  <2>1. DispatchTold(a) => DispatchTold(a)'
    BY StreamType DEF DispatchTold
  <2>2. rows' = rows
    BY DEF Server, shown
  <2>3. QED
    BY <2>1, <2>2, PastGrows DEF HistoryInv, ShowsCommittedRows
<1>3. ASSUME NEW r \in Request, pc[r] = "publish"
      PROVE  /\ req[r].alert \in Alert /\ wrote[r] \in Row
             /\ wrote[r] \in past'[req[r].alert]
             /\ alerts'[req[r].alert] # Absent
  BY <1>3, PublisherFacts, PastGrows DEF HistoryInv
<1>4. ASSUME NEW r \in Request, pc'[r] = "publish"
      PROVE  /\ wrote'[r] \in past'[req'[r].alert]
             /\ alerts'[req'[r].alert] # Absent
  <2>1. CASE pc[r] = "publish" /\ Same(r)
    BY <1>3, <2>1 DEF Same
  <2>2. CASE Changes(r) /\ req'[r] = req[r] /\ wrote'[r] = wrote[r]
    <3>1. req[r].alert \in Alert /\ wrote[r] \in Row
          /\ alerts' = [alerts EXCEPT ![req[r].alert] = wrote[r]]
      BY <2>2 DEF Changes
    <3>2. alerts'[req[r].alert] = wrote[r]
      BY <3>1 DEF ControlInv, TypeOK
    <3>3. QED
      BY <2>2, <3>1, <3>2, PastGrows, AbsentAssumption
  <2>3. \/ pc[r] = "publish" /\ Same(r)
        \/ Changes(r) /\ req'[r] = req[r] /\ wrote'[r] = wrote[r]
    BY <1>4, ServerCases
       DEF Inserts, Changes, Returns, Internal, Same, local, vars
  <2>4. QED
    BY <2>1, <2>2, <2>3
<1>5. ASSUME answer' # NoAnswer
      PROVE  /\ answer'.row \in past'[answer'.alert]
             /\ alerts'[answer'.alert] # Absent
  <2>1. CASE answer' = answer
    <3>1. answer.alert \in Alert
      BY <1>5, <2>1 DEF BoardTypeOK, Answer
    <3>2. QED
      BY <1>5, <2>1, <3>1, PastGrows DEF HistoryInv, ShowsCommittedRows
  <2>2. ASSUME NEW r \in Request, Returns(r), answer'.alert = req[r].alert,
               answer'.row = wrote[r]
        PROVE  /\ answer'.row \in past'[answer'.alert]
               /\ alerts'[answer'.alert] # Absent
    BY <1>3, <2>2 DEF Returns
  <2>3. answer' = answer \/ \E r \in Request : Returns(r) /\ Respond(r)
    BY ServerCases
  <2>4. QED
    BY <2>1, <2>2, <2>3, ResponseType
<1>6. QED
  BY <1>1, <1>2, <1>4, <1>5, PastGrows, BirthHistory, StreamHistory
     DEF HistoryInv, ShowsCommittedRows

LEMMA HistoryPage ==
  ASSUME ControlInv, BoardTypeOK, HistoryInv, Page \/ UNCHANGED boardVars
  PROVE  HistoryInv'
<1> USE DEF HistoryInv, ShowsCommittedRows
<1>0. stream' = stream /\ birth' = birth /\ past' = past
  BY DEF Page, ListAnswered, ListShown, ListFails, Open, Subscribe, Drop, Receive,
     Click, ActionSucceeds, ActionFails, boardVars, worker
<1>1. \A a \in Alert : DispatchTold(a)' = DispatchTold(a)
  BY <1>0 DEF DispatchTold
<1>2. CASE \/ ListAnswered \/ ListShown \/ ListFails \/ Open \/ Subscribe \/ Drop
           \/ ActionFails \/ UNCHANGED boardVars
  BY <1>0, <1>1, <1>2 DEF ListAnswered, ListShown, ListFails, Open, Subscribe, Drop,
     ActionFails, Nothing, boardVars, shown, vars, db, local, BoardTypeOK
<1>3. CASE Receive
  <2> DEFINE n == cursor + 1
             event == stream[n]
  <2>1. /\ n \in 1 .. Len(stream) /\ n \in DOMAIN stream /\ cursor' = n
        /\ stream \in Seq([alert: Alert, row: Row \cup {Absent}])
    BY <1>3 DEF Receive, BoardTypeOK
  <2>2. event.alert \in Alert /\ event.row \in past[event.alert] \cup {Absent}
    BY <2>1, EventType
  <2>3. rows' = [rows EXCEPT ![event.alert] = RowOf(event)]
    BY <1>3, <2>1 DEF Receive
  <2>4. event.row = Absent => DispatchTold(event.alert)
    <3>1. event \in [alert: Alert, row: Row \cup {Absent}]
      <4> DEFINE E == [alert: Alert, row: Row \cup {Absent}]
      <4>1. stream \in Seq(E)
        BY <2>1
      <4> HIDE DEF E
      <4>2. event \in E
        BY <2>1, <4>1, ElementType
      <4>3. QED
        BY <4>2 DEF E
    <3>2. event = [alert |-> event.alert, row |-> event.row]
      BY <3>1
    <3>3. QED
      BY <2>1, <3>2 DEF DispatchTold
  <2> HIDE DEF event, n
  <2>5. ASSUME NEW a \in Alert
        PROVE  \/ rows'[a] \in past[a] \cup {Absent}
               \/ DispatchTold(a) /\ rows'[a] = Fresh("medium")
    <3>1. rows'[a] = IF a = event.alert THEN RowOf(event) ELSE rows[a]
      BY <2>2, <2>3 DEF BoardTypeOK
    <3>2. QED
      BY <2>2, <2>4, <3>1 DEF RowOf
  <2>6. QED
    BY <1>0, <1>1, <1>3, <2>5 DEF Receive, vars, db, local
<1>4. CASE ActionSucceeds
  <2>1. answer.alert \in Alert /\ answer.row \in past[answer.alert]
    BY <1>4 DEF ActionSucceeds, BoardTypeOK, Answer
  <2>2. \A a \in Alert : rows'[a] \in past[a] \/ rows'[a] = rows[a]
    BY <1>4, <2>1 DEF ActionSucceeds, BoardTypeOK
  <2>3. QED
    BY <1>0, <1>1, <1>4, <2>2 DEF ActionSucceeds, vars, db, local
<1>5. ASSUME NEW r \in Mine, Click(r) PROVE HistoryInv'
  <2>1. Internal(r) /\ r \in Request
    BY <1>5, WorksEffect, MineAssumption DEF Click
  <2>2. ASSUME NEW u \in Request, pc'[u] = "publish"
        PROVE  pc[u] = "publish" /\ req'[u] = req[u] /\ wrote'[u] = wrote[u]
    BY <2>1, <2>2 DEF Internal, Same
  <2>3. QED
    BY <1>0, <1>1, <1>5, <2>1, <2>2 DEF Click, Internal
<1>6. QED
  BY <1>2, <1>3, <1>4, <1>5 DEF Page

LEMMA HistoryInvariant == BoardSpec => []HistoryInv
<1>1. BoardInit => HistoryInv
  BY DEF BoardInit, Init, HistoryInv, ShowsCommittedRows, Nothing
<1>2. /\ ControlInv /\ ControlInv' /\ BoardTypeOK /\ BoardTypeOK'
      /\ HistoryInv /\ [BoardNext]_boardVars
      => HistoryInv'
  BY HistoryServer, HistoryPage DEF BoardNext
<1>3. QED
  BY <1>1, <1>2, BoardControl, BoardTypeCorrect, PTL DEF BoardSpec

\* A row in a list, an event or a response has been the row in the table:
\* nothing of a transaction that was rolled back gets out.  What the page shows
\* has been there, too, or is what it makes of a dispatch event.
THEOREM OnlyCommittedRowsShown == BoardSpec => []ShowsCommittedRows
<1>1. HistoryInv => ShowsCommittedRows
  BY DEF HistoryInv
<1>2. QED
  BY <1>1, HistoryInvariant, PTL

-----------------------------------------------------------------------------
(* What is shown is current                                                *)

\* Where nothing has disturbed a, its changes are announced one at a time;
\* what is under way to the page is the row in the table, the last event if
\* there are several; and when no event is under way, the page shows that row.
Current(a) ==
  /\ \A r, u \in Announcing(a) : r = u
  /\ birth[a] # Absent => Announcing(a) = {} /\ birth[a] = alerts[a]
  /\ \A r \in Announcing(a) : wrote[r] = alerts[a]
  /\ load = "answered" => listing[a] = alerts[a]
  /\ answer # NoAnswer /\ answer.alert = a => answer.row = alerts[a]
  /\ Announced(a) =>
       \A k \in Unread(a) : (\A j \in Unread(a) : j <= k) => stream[k].row = alerts[a]
  /\ Settled(a) => rows[a] = alerts[a]

CurrentInv == \A a \in Alert \ disturbed : Current(a)

\* Requests that do not touch the publication leave the announcing ones alone.
LEMMA SameAnnouncers ==
  ASSUME NEW a, \A u \in Request : (pc[u] = "publish" \/ pc'[u] = "publish") => Same(u)
  PROVE  /\ Announcing(a)' = Announcing(a)
         /\ \A u \in Announcing(a) : wrote'[u] = wrote[u]
  BY DEF Announcing, Same

\* A step that changes neither the row of a nor what is under way about it.
LEMMA Untouched ==
  ASSUME NEW a \in Alert, Current(a), alerts'[a] = alerts[a],
         Announcing(a)' = Announcing(a),
         \A u \in Announcing(a) : wrote'[u] = wrote[u],
         load' = load, listing' = listing, rows'[a] = rows[a],
         birth'[a] = birth[a],
         Unread(a)' = Unread(a), \A k \in Unread(a) : stream'[k] = stream[k],
         answer' \in {answer, NoAnswer}
           \/ answer'.alert # a \/ answer'.row = alerts[a]
  PROVE  Current(a)'
  BY DEF Current, Settled, Announced

\* The unread events about a when one about b is emitted.
LEMMA UnreadEmit ==
  ASSUME BoardTypeOK, cursor' = cursor, link' = link,
         NEW a, NEW b, NEW row, Emit(b, row)
  PROVE  /\ \A k \in Unread(a) : stream'[k] = stream[k] /\ k < Len(stream) + 1
         /\ stream'[Len(stream) + 1].row = row
         /\ Unread(a)' = IF link = "subscribed" /\ b = a
                         THEN Unread(a) \cup {Len(stream) + 1} ELSE Unread(a)
<1> DEFINE e == [alert |-> b, row |-> row]
           n == Len(stream)
<1>1. /\ stream \in Seq([alert: Alert, row: Row \cup {Absent}])
      /\ cursor \in 0 .. Len(stream) /\ stream' = Append(stream, e)
  BY DEF BoardTypeOK, Emit
<1>2. e.alert = b /\ e.row = row
  OBVIOUS
<1> HIDE DEF e
<1>3. /\ Len(stream') = Len(stream) + 1
      /\ stream'[Len(stream) + 1] = e
      /\ \A k \in 1 .. Len(stream) : stream'[k] = stream[k]
  BY <1>1
<1>4. n \in Nat /\ cursor \in 0 .. n
  BY <1>1
<1>5. cursor + 1 .. n + 1 = (cursor + 1 .. n) \cup {n + 1}
  BY <1>4
<1>6. \A k \in cursor + 1 .. n : k \in 1 .. n /\ k < n + 1
  BY <1>4
<1>7. Unread(a)' = {k \in cursor + 1 .. n + 1 :
                      link = "subscribed" /\ stream'[k].alert = a}
  BY <1>3 DEF Unread
<1> HIDE DEF n
<1>8. QED
  BY <1>2, <1>3, <1>5, <1>6, <1>7 DEF Unread, n

\* The last announcement of a row that has not changed meanwhile.
LEMMA CurrentEmit ==
  ASSUME BoardTypeOK, NEW a \in Alert, Current(a), Emit(a, alerts[a]), Heard,
         alerts[a] # Absent, alerts' = alerts, Announced(a)',
         rows' = rows, load' = load, listing' = listing, link' = link, cursor' = cursor,
         answer' # NoAnswer /\ answer'.alert = a => answer'.row = alerts[a]
  PROVE  Current(a)'
<1>1. Announcing(a)' = {} /\ birth'[a] = Absent
  BY DEF Announced
<1>2. CASE link = "subscribed"
  <2>1. /\ \A k \in Unread(a) : stream'[k] = stream[k] /\ k < Len(stream) + 1
        /\ stream'[Len(stream) + 1].row = alerts[a]
        /\ Unread(a)' = Unread(a) \cup {Len(stream) + 1}
    BY <1>2, UnreadEmit
  <2>2. \A k \in Unread(a)' : (\A j \in Unread(a)' : j <= k) => k = Len(stream) + 1
    <3>1. \A k \in Unread(a) : k \in Int /\ Len(stream) \in Int
      BY DEF Unread, BoardTypeOK
    <3>2. QED
      BY <2>1, <3>1
  <2>3. ~ Settled(a)'
    BY <2>1 DEF Settled
  <2>4. QED
    BY <1>1, <2>1, <2>2, <2>3 DEF Current
<1>3. CASE link # "subscribed"
  <2>1. load = "asked" /\ Unread(a)' = {}
    BY <1>3 DEF Unread, Heard
  <2>2. QED
    BY <1>1, <2>1 DEF Current, Settled
<1>4. QED
  BY <1>2, <1>3

\* The stream goes on, but not about a.
LEMMA UntouchedStream ==
  ASSUME BoardTypeOK, NEW a, cursor' = cursor, link' = link,
         stream' = stream \/ \E b : \E row : Emit(b, row) /\ (b # a \/ link # "subscribed")
  PROVE  Unread(a)' = Unread(a) /\ \A k \in Unread(a) : stream'[k] = stream[k]
<1>1. CASE stream' = stream
  BY <1>1 DEF Unread
<1>2. ASSUME NEW b, NEW row, Emit(b, row), b # a \/ link # "subscribed"
      PROVE  Unread(a)' = Unread(a) /\ \A k \in Unread(a) : stream'[k] = stream[k]
  BY <1>2, UnreadEmit
<1>3. QED
  BY <1>1, <1>2

LEMMA CurrentServer ==
  ASSUME ControlInv, ControlInv', BoardTypeOK, BoardTypeOK', HistoryInv, CurrentInv,
         Server
  PROVE  CurrentInv'
<1> SUFFICES ASSUME NEW a \in Alert, a \notin disturbed' PROVE Current(a)'
  BY DEF CurrentInv
<1>1. /\ rows' = rows /\ load' = load /\ listing' = listing
      /\ link' = link /\ cursor' = cursor
  BY DEF Server, shown
<1>2. disturbed \subseteq disturbed' => Current(a)
  BY DEF CurrentInv
<1>4. /\ alerts \in [Alert -> Row \cup {Absent}]
      /\ birth \in [Alert -> Row \cup {Absent}]
  BY DEF ControlInv, TypeOK, BoardTypeOK
<1>5. ASSUME NEW b \in Alert, Inserts(b), answer' = answer, stream' = stream,
             \/ /\ birth' = birth
                /\ Disturb(IF load = "asked" THEN {} ELSE {b})
             \/ /\ birth' = [birth EXCEPT ![b] = alerts'[b]]
                /\ Disturb(IF load = "answered" THEN {b} ELSE {})
      PROVE  Current(a)'
  <2>1. /\ Announcing(a)' = Announcing(a) /\ Unread(a)' = Unread(a)
        /\ wrote' = wrote
    BY <1>1, <1>5 DEF Inserts, local, Announcing, Unread
  <2>2. CASE a = b
    <3>1. alerts[a] = Absent
      BY <1>5, <2>2 DEF Inserts
    <3>2. Announcing(a) = {} /\ birth[a] = Absent
      BY <3>1 DEF Announcing, HistoryInv
    <3>3. Unread(a) = {}
      <4>1. \A k \in cursor + 1 .. Len(stream) : k \in DOMAIN stream
        BY DEF BoardTypeOK
      <4>2. QED
        BY <3>1, <4>1 DEF Unread, HistoryInv
    <3>4. ~ (answer # NoAnswer /\ answer.alert = a)
      BY <3>1 DEF HistoryInv
    <3>5. load # "answered"
      BY <1>5, <2>2 DEF Disturb
    <3>6. CASE birth' = birth /\ Disturb(IF load = "asked" THEN {} ELSE {b})
      <4>1. load = "asked"
        BY <2>2, <3>6 DEF Disturb
      <4>2. QED
        BY <1>1, <1>5, <2>1, <3>2, <3>3, <3>4, <3>6, <4>1 DEF Current, Settled
    <3>7. CASE birth' = [birth EXCEPT ![b] = alerts'[b]]
      <4>1. birth'[a] = alerts'[a] /\ alerts'[a] # Absent
        <5>1. PICK row \in Row : alerts' = [alerts EXCEPT ![b] = row]
          BY <1>5 DEF Inserts
        <5>2. QED
          BY <1>4, <2>2, <3>7, <5>1, AbsentAssumption
      <4>2. ~ Announced(a)'
        BY <4>1 DEF Announced
      <4>3. QED
        BY <1>1, <1>5, <2>1, <3>2, <3>3, <3>4, <3>5, <4>1, <4>2 DEF Current, Settled
    <3>8. QED
      BY <1>5, <3>6, <3>7
  <2>3. CASE a # b
    <3>0. Current(a)
      BY <1>2, <1>5 DEF Disturb
    <3>1. alerts'[a] = alerts[a] /\ birth'[a] = birth[a]
      BY <1>4, <1>5, <2>3 DEF Inserts
    <3>2. QED
      BY <1>1, <1>5, <2>1, <3>0, <3>1, Untouched
  <2>4. QED
    BY <2>2, <2>3
<1>6. ASSUME NEW b \in Alert, UNCHANGED <<vars, answer>>, birth[b] # Absent,
             birth' = [birth EXCEPT ![b] = Absent],
             \/ stream' = stream /\ Disturb({b})
             \/ Emit(b, birth[b]) /\ Disturb(IF Heard THEN {} ELSE {b})
      PROVE  Current(a)'
  <2>0. Current(a)
    BY <1>2, <1>6 DEF Disturb
  <2>1. /\ Announcing(a)' = Announcing(a) /\ alerts' = alerts
        /\ wrote' = wrote /\ answer' = answer
    BY <1>6 DEF vars, db, local, Announcing
  <2>2. CASE a = b
    <3>1. Emit(a, birth[a]) /\ Heard
      BY <1>6, <2>2 DEF Disturb
    <3>2. birth[a] = alerts[a] /\ Announcing(a) = {}
      BY <2>0, <1>6, <2>2 DEF Current
    <3>3. Announced(a)'
      BY <1>4, <1>6, <2>1, <2>2, <3>2 DEF Announced
    <3>4. answer' # NoAnswer /\ answer'.alert = a => answer'.row = alerts[a]
      BY <2>0, <2>1 DEF Current
    <3>5. Emit(a, alerts[a]) /\ alerts[a] # Absent
      BY <1>6, <2>2, <3>1, <3>2
    <3>6. QED
      BY <1>1, <2>0, <2>1, <3>1, <3>3, <3>4, <3>5, CurrentEmit
  <2>3. CASE a # b
    <3>1. birth'[a] = birth[a]
      BY <1>4, <1>6, <2>3
    <3>2. Unread(a)' = Unread(a) /\ \A k \in Unread(a) : stream'[k] = stream[k]
      BY <1>1, <1>6, <2>3, UntouchedStream
    <3>3. QED
      BY <1>1, <2>0, <2>1, <3>1, <3>2, Untouched
  <2>4. QED
    BY <2>2, <2>3
<1>7. ASSUME NEW b \in Alert, UNCHANGED <<vars, birth, answer>>, Emit(b, Absent),
             Disturb(IF link = "subscribed" THEN {b} ELSE {})
      PROVE  Current(a)'
  <2>0. Current(a)
    BY <1>2, <1>7 DEF Disturb
  <2>1. /\ Announcing(a)' = Announcing(a) /\ alerts' = alerts
        /\ wrote' = wrote /\ answer' = answer /\ birth' = birth
    BY <1>7 DEF vars, db, local, Announcing
  <2>2. b # a \/ link # "subscribed"
    BY <1>7 DEF Disturb
  <2>3. Unread(a)' = Unread(a) /\ \A k \in Unread(a) : stream'[k] = stream[k]
    BY <1>1, <1>7, <2>2, UntouchedStream
  <2>4. QED
    BY <1>1, <2>0, <2>1, <2>3, Untouched
<1>8. ASSUME NEW r \in Request, Changes(r), UNCHANGED <<worker, answer>>,
             \/ pc'[r] = "done" /\ Disturb({req[r].alert})
             \/ /\ pc'[r] = "publish" /\ req'[r] = req[r] /\ wrote'[r] = wrote[r]
                /\ IF Behind(req[r].alert) THEN Disturb({req[r].alert})
                   ELSE MakesUp(req[r].alert)
      PROVE  Current(a)'
  <2>1. /\ pc[r] = "commit" /\ req[r].alert \in Alert
        /\ stream' = stream /\ birth' = birth /\ answer' = answer
        /\ alerts' = [alerts EXCEPT ![req[r].alert] = wrote[r]]
        /\ \A u \in Request \ {r} : Same(u)
    BY <1>8 DEF Changes, worker
  <2>2. Unread(a)' = Unread(a)
    BY <1>1, <2>1 DEF Unread
  <2>3. CASE a # req[r].alert
    <3>0. Current(a)
      BY <1>2, <1>8, <2>3 DEF Disturb, MakesUp, CurrentInv
    <3>1. alerts'[a] = alerts[a]
      BY <1>4, <2>1, <2>3
    <3>2. /\ Announcing(a)' = Announcing(a)
          /\ \A u \in Announcing(a) : wrote'[u] = wrote[u]
      BY <1>8, <2>1, <2>3 DEF Announcing, Same
    <3>3. QED
      BY <1>1, <2>1, <2>2, <3>0, <3>1, <3>2, Untouched
  <2>4. CASE a = req[r].alert
    <3>1. /\ pc'[r] = "publish" /\ req'[r] = req[r] /\ wrote'[r] = wrote[r]
          /\ ~ Behind(a)
      BY <1>8, <2>4 DEF Disturb, MakesUp
    <3>2. Announcing(a) = {} /\ birth[a] = Absent
      BY <3>1 DEF Behind, Announced
    <3>3. Announcing(a)' = {r}
      BY <2>1, <2>4, <3>1, <3>2 DEF Announcing, Same
    <3>4. alerts'[a] = wrote[r]
      BY <1>4, <2>1, <2>4
    <3>5. load # "answered" /\ ~ (answer # NoAnswer /\ answer.alert = a)
      BY <3>1 DEF Behind
    <3>6. ~ Announced(a)'
      BY <3>3 DEF Announced
    <3>7. QED
      BY <1>1, <2>1, <2>2, <3>1, <3>2, <3>3, <3>4, <3>5, <3>6 DEF Current, Settled
  <2>5. QED
    BY <2>3, <2>4
<1>9. ASSUME NEW r \in Request, Returns(r), Respond(r), birth' = birth,
             \/ stream' = stream /\ Disturb({req[r].alert})
             \/ /\ Emit(req[r].alert, wrote[r])
                /\ Disturb(IF Heard THEN {} ELSE {req[r].alert})
      PROVE  Current(a)'
  <2>0. Current(a)
    BY <1>2, <1>9 DEF Disturb
  <2>1. /\ alerts' = alerts /\ pc[r] = "publish" /\ pc'[r] = "done"
        /\ \A u \in Request \ {r} : Same(u)
    BY <1>9 DEF Returns
  <2>2. CASE a # req[r].alert
    <3>1. /\ Announcing(a)' = Announcing(a)
          /\ \A u \in Announcing(a) : wrote'[u] = wrote[u]
      BY <2>1, <2>2 DEF Announcing, Same
    <3>2. answer' = answer \/ answer'.alert # a
      BY <1>9, <2>2 DEF Respond
    <3>3. Unread(a)' = Unread(a) /\ \A k \in Unread(a) : stream'[k] = stream[k]
      BY <1>1, <1>9, <2>2, UntouchedStream
    <3>4. QED
      BY <1>1, <2>0, <1>9, <2>1, <3>1, <3>2, <3>3, Untouched
  <2>3. CASE a = req[r].alert
    <3>1. Emit(a, wrote[r]) /\ Heard
      BY <1>9, <2>3 DEF Disturb
    <3>2. r \in Announcing(a)
      BY <2>1, <2>3 DEF Announcing
    <3>3. /\ wrote[r] = alerts[a] /\ birth[a] = Absent
          /\ \A u \in Announcing(a) : u = r
      BY <2>0, <3>2 DEF Current
    <3>4. Announced(a)'
      BY <1>9, <2>1, <3>3 DEF Announced, Announcing, Same
    <3>5. answer' # NoAnswer /\ answer'.alert = a => answer'.row = alerts[a]
      BY <2>0, <1>9, <2>3, <3>3 DEF Respond, Current
    <3>6. Emit(a, alerts[a]) /\ alerts[a] # Absent
      BY <1>9, <3>1, <3>3, AbsentAssumption DEF Returns
    <3>7. QED
      BY <1>1, <2>0, <2>1, <3>1, <3>4, <3>5, <3>6, CurrentEmit
  <2>4. QED
    BY <2>2, <2>3
<1>10. ASSUME NEW r \in Request, Internal(r), Disturb({}), UNCHANGED <<worker, answer>>
      PROVE  Current(a)'
  <2>0. Current(a)
    BY <1>2, <1>10 DEF Disturb
  <2>1. /\ Announcing(a)' = Announcing(a)
        /\ \A u \in Announcing(a) : wrote'[u] = wrote[u]
    <3>1. \A u \in Request : (pc[u] = "publish" \/ pc'[u] = "publish") => Same(u)
      BY <1>10 DEF Internal
    <3>2. QED
      BY <3>1, SameAnnouncers
  <2>2. /\ Unread(a)' = Unread(a) /\ alerts' = alerts
        /\ stream' = stream /\ birth' = birth /\ answer' = answer
    BY <1>1, <1>10 DEF Internal, Unread, worker
  <2>3. QED
    BY <1>1, <2>0, <2>1, <2>2, Untouched
<1>11. QED
  BY <1>5, <1>6, <1>7, <1>8, <1>9, <1>10, ServerCases

LEMMA CurrentPage ==
  ASSUME ControlInv, BoardTypeOK, HistoryInv, CurrentInv, Page \/ UNCHANGED boardVars
  PROVE  CurrentInv'
<1> SUFFICES ASSUME NEW a \in Alert, a \notin disturbed' PROVE Current(a)'
  BY DEF CurrentInv
<1>1. a \notin disturbed /\ Current(a)
  <2>1. disturbed \subseteq disturbed'
    BY DEF Page, ListAnswered, ListShown, ListFails, Open, Subscribe, Drop, Receive,
       Click, ActionSucceeds, ActionFails, boardVars, Disturb
  <2>2. QED
    BY <2>1 DEF CurrentInv
<1>2. stream \in Seq([alert: Alert, row: Row \cup {Absent}])
      /\ cursor \in 0 .. Len(stream)
  BY DEF BoardTypeOK
<1>3. /\ alerts' = alerts /\ stream' = stream /\ birth' = birth
      /\ Announcing(a)' = Announcing(a) /\ (Announced(a)' <=> Announced(a))
      /\ \A u \in Announcing(a) : wrote'[u] = wrote[u]
  <2>0. stream' = stream /\ birth' = birth
    BY DEF Page, ListAnswered, ListShown, ListFails, Open, Subscribe, Drop, Receive,
       Click, ActionSucceeds, ActionFails, boardVars, worker
  <2>1. CASE \E r \in Mine : Click(r)
    <3>1. PICK r \in Mine : Submit(r)
      BY <2>1 DEF Click
    <3>2. r \in Request /\ Internal(r)
      BY <3>1, WorksEffect, MineAssumption
    <3>3. \A u \in Request : (pc[u] = "publish" \/ pc'[u] = "publish") => Same(u)
      BY <3>2 DEF Internal
    <3>4. QED
      BY <2>0, <3>2, <3>3, SameAnnouncers DEF Internal, Announced
  <2>2. CASE UNCHANGED vars
    BY <2>0, <2>2 DEF vars, db, local, Announcing, Announced
  <2>3. QED
    BY <2>1, <2>2 DEF Page, ListAnswered, ListShown, ListFails, Open, Subscribe, Drop,
       Receive, ActionSucceeds, ActionFails, boardVars
<1>4. CASE \/ \E r \in Mine : Click(r)
           \/ ActionFails \/ UNCHANGED boardVars
  <2>1. /\ load' = load /\ listing' = listing /\ rows' = rows
        /\ link' = link /\ cursor' = cursor /\ answer' \in {answer, NoAnswer}
    BY <1>4 DEF Click, ActionFails, boardVars, shown
  <2>2. Unread(a)' = Unread(a)
    BY <1>3, <2>1 DEF Unread
  <2>3. QED
    BY <1>1, <1>3, <2>1, <2>2, Untouched
<1>5. CASE ListAnswered \/ ListShown \/ ListFails
  <2>1. link' = link /\ cursor' = cursor /\ answer' = answer
    BY <1>5 DEF ListAnswered, ListShown, ListFails
  <2>2. Unread(a)' = Unread(a)
    BY <1>3, <2>1 DEF Unread
  <2>3. /\ load' = "answered" => listing'[a] = alerts[a]
        /\ load' = "shown" => rows'[a] = alerts[a]
    BY <1>1, <1>5 DEF ListAnswered, ListShown, ListFails, Current
  <2>4. QED
    BY <1>1, <1>3, <2>1, <2>2, <2>3 DEF Current, Settled
<1>6. CASE Open \/ Subscribe \/ Drop
  <2>1. /\ load' = load /\ listing' = listing /\ rows' = rows /\ answer' = answer
    BY <1>6 DEF Open, Subscribe, Drop
  <2>2. Unread(a)' = {}
    BY <1>2, <1>3, <1>6 DEF Open, Subscribe, Drop, Unread
  <2>3. load = "asked" \/ Unread(a) = {}
    BY <1>6 DEF Open, Subscribe, Drop, Disturb, Unread
  <2>4. QED
    BY <1>1, <1>3, <2>1, <2>2, <2>3 DEF Current, Settled
<1>7. CASE Receive
  <2> DEFINE n == cursor + 1
             event == stream[n]
  <2>1. /\ n \in 1 .. Len(stream) /\ cursor' = n
        /\ link = "subscribed" /\ link' = link
        /\ rows' = [rows EXCEPT ![event.alert] = RowOf(event)]
        /\ load' = load /\ listing' = listing /\ answer' = answer
    BY <1>2, <1>7 DEF Receive
  <2>2. event.alert \in Alert
    BY <1>2, <2>1, EventType
  <2>3. /\ Unread(a)' = Unread(a) \ {n}
        /\ n \in Unread(a) <=> event.alert = a
        /\ \A k \in Unread(a) : k \in Int /\ n <= k
    BY <1>2, <1>3, <2>1 DEF Unread
  <2>4. n \in Int
    BY <2>1
  <2> HIDE DEF n, event
  <2>5. rows'[a] = IF event.alert = a THEN RowOf(event) ELSE rows[a]
    BY <2>1, <2>2 DEF BoardTypeOK
  <2>6. CASE event.alert # a
    <3>1. Unread(a)' = Unread(a)
      BY <2>3, <2>6
    <3>2. QED
      BY <1>1, <1>3, <2>1, <2>5, <2>6, <3>1, Untouched
  <2>7. CASE event.alert = a
    <3>1. ASSUME Announced(a), NEW k \in Unread(a)',
                 \A j \in Unread(a)' : j <= k
          PROVE  stream[k].row = alerts[a]
      <4>1. k \in Unread(a) /\ \A j \in Unread(a) : j <= k
        BY <2>3, <3>1
      <4>2. QED
        BY <1>1, <3>1, <4>1 DEF Current
    <3>2. ASSUME Settled(a)' PROVE rows'[a] = alerts[a]
      <4>1. Announced(a) /\ Unread(a) \subseteq {n} /\ n \in Unread(a)
        BY <1>3, <2>3, <2>7, <3>2 DEF Settled
      <4>2. \A j \in Unread(a) : j <= n
        BY <2>4, <4>1
      <4>3. stream[n].row = alerts[a]
        BY <1>1, <4>1, <4>2 DEF Current
      <4>4. alerts[a] # Absent
        BY <2>1, <2>7 DEF HistoryInv, event
      <4>5. QED
        BY <2>5, <2>7, <4>3, <4>4 DEF RowOf, event
    <3>3. QED
      BY <1>1, <1>3, <2>1, <2>3, <3>1, <3>2 DEF Current
  <2>8. QED
    BY <2>6, <2>7
<1>8. CASE ActionSucceeds
  <2>1. /\ load' = load /\ listing' = listing /\ link' = link /\ cursor' = cursor
        /\ rows' = [rows EXCEPT ![answer.alert] = answer.row]
        /\ answer # NoAnswer /\ answer' = NoAnswer
    BY <1>8 DEF ActionSucceeds
  <2>2. Unread(a)' = Unread(a)
    BY <1>3, <2>1 DEF Unread
  <2>3. rows'[a] = rows[a] \/ rows'[a] = alerts[a]
    BY <1>1, <2>1 DEF Current, BoardTypeOK
  <2>4. QED
    BY <1>1, <1>3, <2>1, <2>2, <2>3 DEF Current, Settled
<1>9. QED
  BY <1>4, <1>5, <1>6, <1>7, <1>8 DEF Page

\* When no event about an alert is under way, the page shows its row as it is in
\* the table, unless one of the disturbances that BoardIsCurrent names has come
\* after its last change that travelled alone.
THEOREM PageIsCurrent == BoardSpec => []BoardIsCurrent
<1>1. BoardInit => CurrentInv
  BY DEF BoardInit, Init, CurrentInv, Current, Settled, Announcing, Announced, Unread, Nothing
<1>2. /\ ControlInv /\ ControlInv' /\ BoardTypeOK /\ BoardTypeOK'
      /\ HistoryInv /\ CurrentInv /\ [BoardNext]_boardVars
      => CurrentInv'
  BY CurrentServer, CurrentPage DEF BoardNext
<1>3. CurrentInv => BoardIsCurrent
  BY DEF CurrentInv, Current, BoardIsCurrent
<1>4. QED
  BY <1>1, <1>2, <1>3, HistoryInvariant, BoardControl, BoardTypeCorrect, PTL
     DEF BoardSpec
=============================================================================
