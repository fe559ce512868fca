----------------------------- MODULE AlertBoard -----------------------------
(***************************************************************************)
(* One visit of the alerts page of a browser (frontend/src/pages/alerts.js) *)
(* over the triage API and the WebSocket of backend/app/api/v1/alerts.py.  *)
(*                                                                         *)
(* The page asks for the list once, when it opens, and at the same time     *)
(* connects to the stream, which delivers what is published while it is    *)
(* subscribed; a lost connection is opened again after three seconds.       *)
(* Rows come from the list, from events and from the responses to the      *)
(* page's own requests, and each of them replaces what was there.  The     *)
(* alert worker (workers/tasks/alert.py) publishes on the same channel.    *)
(***************************************************************************)
EXTENDS AlertTriage

CONSTANTS
  Mine,          \* the requests sent from this page
  MaxDispatches, \* bound: dispatch events of the alert worker
  NoAnswer       \* null value

ASSUME MineAssumption   == Mine \subseteq Request
ASSUME BoundAssumption  == MaxDispatches \in Nat
Answer == [alert: Alert, row: Row]
ASSUME AnswerAssumption == NoAnswer \notin Answer

VARIABLES
  stream,    \* Redis channel: all events, with the row in their payload, if any
  birth,     \* create_and_dispatch_alert: the row it has still to announce
  rows,      \* alerts: the row shown for each alert
  load,      \* loadAlerts: "asked", "answered", "shown" or "failed"
  listing,   \* the items of its response
  link,      \* the WebSocket: "closed", "open" or "subscribed"
  cursor,    \* how much of the stream the subscription has gone past
  acting,    \* isActing: the request the page waits for
  answer,    \* its response, on the way to the page
  past,      \* history: every row an alert has had
  disturbed  \* history: alerts whose latest news may not reach the page

worker    == <<stream, birth>>
shown     == <<rows, load, listing, link, cursor, acting>>
boardVars == <<vars, worker, shown, answer, past, disturbed>>

Nothing == [a \in Alert |-> Absent]

BoardTypeOK ==
  /\ stream \in Seq([alert: Alert, row: Row \cup {Absent}])
  /\ birth \in [Alert -> Row \cup {Absent}]
  /\ rows \in [Alert -> Row \cup {Absent}]
  /\ load \in {"asked", "answered", "shown", "failed"}
  /\ listing \in [Alert -> Row \cup {Absent}]
  /\ link \in {"closed", "open", "subscribed"}
  /\ cursor \in 0 .. Len(stream)
  /\ acting \in Mine \cup {NoRequest}
  /\ answer \in Answer \cup {NoAnswer}
  /\ past \in [Alert -> SUBSET (Row \cup {Absent})]
  /\ disturbed \subseteq Alert

BoardInit ==
  /\ Init
  /\ stream = <<>>
  /\ birth = Nothing
  /\ rows = Nothing
  /\ load = "asked"
  /\ listing = Nothing
  /\ link = "closed"
  /\ cursor = 0
  /\ acting = NoRequest
  /\ answer = NoAnswer
  /\ past = [a \in Alert |-> {Absent}]
  /\ disturbed = {}

-----------------------------------------------------------------------------
(* The API and the workers                                                 *)

\* The requests between the commit of a change of a and its publication.
Announcing(a) == {r \in Request : pc[r] = "publish" /\ req[r].alert = a}

\* Nobody is about to publish a row of a.
Announced(a) == Announcing(a) = {} /\ birth[a] = Absent

\* Events about a that are published and subscribed to, but not yet received.
Unread(a) ==
  {k \in cursor + 1 .. Len(stream) : link = "subscribed" /\ stream[k].alert = a}

\* An earlier row of a is still on its way: it is not yet announced, the list
\* with it is not yet shown, or a response carries it.
Behind(a) ==
  \/ ~ Announced(a)
  \/ load = "answered"
  \/ answer # NoAnswer /\ answer.alert = a

\* The changes of the alerts in S may pass the page by.
Disturb(S) == disturbed' = disturbed \cup S

\* The news of a that is to come makes up for what the page has missed.
MakesUp(a) == disturbed' = disturbed \ {a}

\* publish_event: the payload of a triage event holds the alert, that of
\* "alert.created" the columns of one that is new, others none of them.
Emit(a, row) == stream' = Append(stream, [alert |-> a, row |-> row])

\* Redis hands an event to whoever is subscribed at that moment; a list that is
\* read later has its row anyhow.
Heard == link = "subscribed" \/ load = "asked"

\* The handler of r returns: if the page waits for it, its response leaves.
Respond(r) ==
  answer' = IF r = acting THEN [alert |-> req[r].alert, row |-> wrote[r]]
            ELSE answer

\* The correlation inserts an incident: no event says so.
Created(a) ==
  /\ CreateAlert(a)
  /\ Disturb(IF load = "asked" THEN {} ELSE {a})
  /\ UNCHANGED <<worker, answer>>

\* create_and_dispatch_alert inserts an alert, to be announced.
CreatedByTask(a) ==
  /\ CreateAlert(a)
  /\ birth' = [birth EXCEPT ![a] = alerts'[a]]
  /\ Disturb(IF load = "answered" THEN {a} ELSE {})
  /\ UNCHANGED <<stream, answer>>

\* Event "alert.created"; it may be late.
Announce(a) ==
  /\ birth[a] # Absent
  /\ Emit(a, birth[a])
  /\ birth' = [birth EXCEPT ![a] = Absent]
  /\ Disturb(IF Heard THEN {} ELSE {a})
  /\ UNCHANGED <<vars, answer>>

\* The worker dies, its audit entry fails, or Redis is unreachable.
StaysSilent(a) ==
  /\ birth[a] # Absent
  /\ birth' = [birth EXCEPT ![a] = Absent]
  /\ Disturb({a})
  /\ UNCHANGED <<vars, stream, answer>>

\* Event "alert.dispatch_channel", one per channel and run of a dispatch task.
Dispatched(a) ==
  /\ alerts[a] # Absent /\ birth[a] = Absent
  /\ Cardinality({k \in DOMAIN stream : stream[k].row = Absent}) < MaxDispatches
  /\ Emit(a, Absent)
  /\ Disturb(IF link = "subscribed" THEN {a} ELSE {})
  /\ UNCHANGED <<vars, birth, answer>>

\* Closing an incident changes its alert without an event.  The event of any other
\* change brings the row up to date, unless an earlier row may overtake it.
Committed(r) ==
  LET a == req[r].alert IN
  /\ Commit(r)
  /\ IF req[r].op = "close" \/ Behind(a) THEN Disturb({a}) ELSE MakesUp(a)
  /\ UNCHANGED <<worker, answer>>

Published(r) ==
  /\ Publish(r)
  /\ Emit(req[r].alert, wrote[r])
  /\ Disturb(IF Heard THEN {} ELSE {req[r].alert})
  /\ Respond(r)
  /\ UNCHANGED birth

\* The commit or its publication stays unknown to the page's connection.
Unannounced(r) ==
  /\ \/ CommitAnswerLost(r) /\ UNCHANGED answer
     \/ PublishSwallowed(r) /\ Respond(r)
  /\ Disturb({req[r].alert})
  /\ UNCHANGED worker

\* What else a handler does concerns neither the row nor the page.
Works(r) ==
  /\ ReadCurrent(r) \/ Begin(r) \/ Update(r) \/ NotFound(r) \/ Fails(r)
  /\ Disturb({})
  /\ UNCHANGED <<worker, answer>>

Arrives(r) ==
  /\ Submit(r)
  /\ Disturb({})
  /\ UNCHANGED <<worker, answer>>

Pipeline(a) ==
  Created(a) \/ CreatedByTask(a) \/ Announce(a) \/ StaysSilent(a) \/ Dispatched(a)

Server ==
  /\ \/ \E a \in Alert : Pipeline(a)
     \/ \E r \in Request : Committed(r) \/ Published(r) \/ Unannounced(r) \/ Works(r)
     \/ \E r \in Request \ Mine : Arrives(r)
  /\ past' = [a \in Alert |-> past[a] \cup {alerts'[a]}]
  /\ UNCHANGED shown

-----------------------------------------------------------------------------
(* loadAlerts                                                              *)

\* GET /alerts reads the table.
ListAnswered ==
  /\ load = "asked"
  /\ listing' = alerts
  /\ load' = "answered"
  /\ UNCHANGED <<vars, worker, rows, link, cursor, acting, answer, past, disturbed>>

\* setAlerts replaces whatever events have shown by then.
ListShown ==
  /\ load = "answered"
  /\ rows' = listing
  /\ listing' = Nothing
  /\ load' = "shown"
  /\ UNCHANGED <<vars, worker, link, cursor, acting, answer, past, disturbed>>

\* The page shows an error and does not ask again.
ListFails ==
  /\ load \in {"asked", "answered"}
  /\ listing' = Nothing
  /\ load' = "failed"
  /\ UNCHANGED <<vars, worker, rows, link, cursor, acting, answer, past, disturbed>>

-----------------------------------------------------------------------------
(* The WebSocket                                                           *)

\* connect, at once or after three seconds: the server accepts, and the page
\* says "connected" before the server has subscribed.
Open ==
  /\ link = "closed"
  /\ link' = "open"
  /\ UNCHANGED <<vars, worker, rows, load, listing, cursor, acting, answer, past, disturbed>>

\* stream.subscribe: from here on, nothing is missed.
Subscribe ==
  /\ link = "open"
  /\ link' = "subscribed"
  /\ cursor' = Len(stream)
  /\ UNCHANGED <<vars, worker, rows, load, listing, acting, answer, past, disturbed>>

\* The connection or the server's Redis client fails; events under way are
\* gone, and reconnecting does not reload the list.
Drop ==
  /\ link # "closed"
  /\ link' = "closed"
  /\ cursor' = 0
  /\ Disturb(IF load = "asked" THEN {} ELSE {a \in Alert : Unread(a) # {}})
  /\ UNCHANGED <<vars, worker, rows, load, listing, acting, answer, past>>

\* The row upsertAlertRow is given: without an alert in the payload, onmessage
\* fills in severity "medium", status "new", no assignee and level 0.
RowOf(event) == IF event.row = Absent THEN Fresh("medium") ELSE event.row

\* Variant for the runs' mutants: an event cannot replace a row.
ReceiveNewOnly ==
  /\ link = "subscribed" /\ cursor < Len(stream)
  /\ cursor' = cursor + 1
  /\ LET event == stream[cursor'] IN
       rows' = [rows EXCEPT ![event.alert] = IF @ = Absent THEN RowOf(event) ELSE @]
  /\ UNCHANGED <<vars, worker, load, listing, link, acting, answer, past, disturbed>>

\* onmessage.
Receive ==
  /\ link = "subscribed" /\ cursor < Len(stream)
  /\ cursor' = cursor + 1
  /\ LET event == stream[cursor'] IN rows' = [rows EXCEPT ![event.alert] = RowOf(event)]
  /\ UNCHANGED <<vars, worker, load, listing, link, acting, answer, past, disturbed>>

-----------------------------------------------------------------------------
(* runAlertAction                                                          *)

\* What the four buttons of a row send.
Offered ==
  {q \in Ask : /\ q.op # "close"
               /\ q.op = "status_update" => q.body = "investigating"
               /\ q.op = "escalate" => q.body = NoTarget}

\* The buttons are disabled while isActing.
Click(r) ==
  /\ acting = NoRequest
  /\ Submit(r)
  /\ req'[r] \in Offered /\ rows[req'[r].alert] # Absent
  /\ acting' = r
  /\ UNCHANGED <<worker, rows, load, listing, link, cursor, answer, past, disturbed>>

\* applyTriageResponse.
ActionSucceeds ==
  /\ answer # NoAnswer
  /\ rows' = [rows EXCEPT ![answer.alert] = answer.row]
  /\ acting' = NoRequest
  /\ answer' = NoAnswer
  /\ UNCHANGED <<vars, worker, load, listing, link, cursor, past, disturbed>>

\* fetch rejects, or the response is an error; the request may go on.
ActionFails ==
  /\ acting # NoRequest
  /\ acting' = NoRequest
  /\ answer' = NoAnswer
  /\ UNCHANGED <<vars, worker, rows, load, listing, link, cursor, past, disturbed>>

-----------------------------------------------------------------------------

Page ==
  \/ ListAnswered \/ ListShown \/ ListFails
  \/ Open \/ Subscribe \/ Drop \/ Receive
  \/ \E r \in Mine : Click(r)
  \/ ActionSucceeds \/ ActionFails

BoardNext == Server \/ Page

BoardSpec == BoardInit /\ [][BoardNext]_boardVars

-----------------------------------------------------------------------------
(* Properties                                                              *)

\* Some channel of a has been notified while the stream told of it.
DispatchTold(a) == \E k \in DOMAIN stream : stream[k] = [alert |-> a, row |-> Absent]

\* What is in a list, an event or a response was in the table at some time: no
\* row of a transaction that was rolled back gets out.  So was what the page
\* shows, except the row it makes of a dispatch event.
ShowsCommittedRows ==
  /\ \A a \in Alert : {listing[a], birth[a]} \subseteq past[a] \cup {Absent}
  /\ answer # NoAnswer => answer.row \in past[answer.alert]
  /\ \A k \in DOMAIN stream : stream[k].row \in past[stream[k].alert] \cup {Absent}
  /\ \A a \in Alert :
       \/ rows[a] \in past[a] \cup {Absent}
       \/ DispatchTold(a) /\ rows[a] = Fresh("medium")

\* The list is shown and no event about a is under way to the page.
Settled(a) == load = "shown" /\ Announced(a) /\ Unread(a) = {}

\* When no event is under way, the page shows the row in the table, unless one
\* of the disturbances has happened: a dispatch event came, an incident was
\* created after the list was read or closed, a change was not announced or its
\* event not heard, or two changes overlapped on their way to the page.  None of
\* them lasts: the next change whose own way is undisturbed repairs the row, the
\* default row of a dispatch event, an overtaken one and a missing one alike.
BoardIsCurrent ==
  \A a \in Alert \ disturbed : Settled(a) => rows[a] = alerts[a]

=============================================================================
