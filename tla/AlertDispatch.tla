---------------------------- MODULE AlertDispatch ----------------------------
(***************************************************************************)
(* From a report's suspicious signals to notifications: the correlation    *)
(* task (workers/tasks/correlate.py, services/correlation) writes one      *)
(* incident per signal and enqueues a dispatch task for each; the tasks of  *)
(* the alert queue (workers/tasks/alert.py) send an alert to the channels   *)
(* mapped to its severity and audit every attempt.                         *)
(*                                                                         *)
(* Every task that raises is run again from its first line.  One action is *)
(* one call on the database, the broker or a channel; a call that raises   *)
(* may have been applied with only the answer lost.  The realtime events   *)
(* of these tasks are in AlertBoard: publishing one never raises, and what *)
(* it writes no task reads.                                                *)
(***************************************************************************)
EXTENDS Naturals, Sequences

CONSTANTS
  Signal,      \* what the detector can find in the report
  Payload,     \* payloads of create_and_dispatch_alert tasks
  Route,       \* Route[s]: channels mapped to the severity of source s
  MaxRetries,  \* max_retries of the Celery tasks (5 in the code)
  MaxAdverse   \* bound on failed calls, lost answers and crashes

Source  == Signal \cup Payload
Channel == {"email", "slack", "siem"}
Attempt == 0 .. MaxRetries

\* Each run of a task inserts its alerts under fresh uuids, so the number of
\* the run and the source name the row.
Alert == Attempt \X Source

ASSUME RouteAssumption   == Route \in [Source -> Seq(Channel) \ {<<>>}]
ASSUME DistinctChannels  ==
  \A s \in Source : \A k, l \in DOMAIN Route[s] : Route[s][k] = Route[s][l] => k = l
ASSUME RetriesAssumption == MaxRetries \in Nat /\ MaxAdverse \in Nat
ASSUME SourceAssumption  == Signal \cap Payload = {}

VARIABLES
  alerts,     \* PostgreSQL: committed rows of table alerts
  created,    \* PostgreSQL: alerts with an alert_audit_logs row "created"
  confirmed,  \* ... number of "dispatch_channel" rows with delivered = true
  refused,    \* ... and with delivered = false, per alert and channel
  sent,       \* notifications that reached the channel
  correlate,  \* control state of the correlation task
  attempt,    \* its self.request.retries
  found,      \* signals its last search led to
  unsent,     \* incidents it has not enqueued a dispatch task for yet
  pc,         \* control state of the alert-queue tasks
  retries,    \* their self.request.retries
  next,       \* number of the next channel
  outcome,    \* DispatchResult.delivered of the last send
  adverse     \* adverse events so far

audits    == <<created, confirmed, refused>>
detection == <<correlate, attempt, found, unsent>>
dispatch  == <<pc, retries, next, outcome>>
vars      == <<alerts, audits, sent, detection, dispatch, adverse>>

\* A dispatch_existing_alert task is named by its alert, a
\* create_and_dispatch_alert task of payload p by <<0, p>>.
Job == (Attempt \X Signal) \cup ({0} \X Payload)

\* The alert a task works on: every run of a creating task has its own.
AlertOf(j) == IF j[2] \in Payload THEN <<retries[j], j[2]>> ELSE j
RouteOf(j) == Route[j[2]]

Running == {"created", "send", "audit", "retry"}

TypeOK ==
  /\ alerts \subseteq Alert /\ created \subseteq Alert
  /\ confirmed \in [Alert \X Channel -> Nat]
  /\ refused \in [Alert \X Channel -> Nat]
  /\ sent \in [Alert \X Channel -> Nat]
  /\ correlate \in {"search", "insert", "enqueue", "retry", "done", "failed"}
  /\ attempt \in Attempt
  /\ found \subseteq Signal
  /\ unsent \subseteq Attempt \X Signal
  /\ pc \in [Job -> {"none", "queued", "done", "failed"} \cup Running]
  /\ retries \in [Job -> Attempt]
  /\ next \in [Job -> Nat \ {0}]
  /\ outcome \in [Job -> {"delivered", "failed"}]
  /\ adverse \in 0 .. MaxAdverse

Init ==
  /\ alerts = {} /\ created = {}
  /\ confirmed = [n \in Alert \X Channel |-> 0]
  /\ refused = [n \in Alert \X Channel |-> 0]
  /\ sent = [n \in Alert \X Channel |-> 0]
  /\ correlate = "search" /\ attempt = 0 /\ found = {} /\ unsent = {}
  /\ pc = [j \in Job |-> "none"]
  /\ retries = [j \in Job |-> 0]
  /\ next = [j \in Job |-> 1]
  /\ outcome = [j \in Job |-> "failed"]
  /\ adverse = 0

Goto(j, label) == pc' = [pc EXCEPT ![j] = label]

\* An adverse event happens; MaxAdverse bounds them.
Mishap == adverse < MaxAdverse /\ adverse' = adverse + 1

\* The effect of a call that raises: none, or all of it with the answer lost.
MayHappen(x, new) == x' \in {x, new}

-----------------------------------------------------------------------------
(* detect_correlations                                                     *)

\* Search the report's indexed records and run the detector.  Records still
\* being refreshed into the index are missed: a later run may find more.
Search ==
  /\ correlate = "search"
  /\ \E S \in SUBSET Signal : found \subseteq S /\ found' = S
  /\ correlate' = "insert"
  /\ UNCHANGED <<alerts, audits, sent, attempt, unsent, dispatch, adverse>>

Incidents == {attempt} \X found

\* create_incidents_with_details: all incidents of this run in one commit.
Insert ==
  /\ correlate = "insert"
  /\ alerts' = alerts \cup Incidents
  /\ unsent' = Incidents
  /\ correlate' = "enqueue"
  /\ UNCHANGED <<audits, sent, attempt, found, dispatch, adverse>>

\* A variant of Enqueue with a slip, for a run's mutant; so are
\* SendSkipsFailed, AuditWithoutAdvance and the variants of Retry below.
EnqueueBeforeCommit ==
  /\ correlate \in {"insert", "enqueue"}
  /\ \E j \in Incidents : pc[j] = "none" /\ Goto(j, "queued") /\ unsent' = unsent \ {j}
  /\ UNCHANGED <<alerts, audits, sent, correlate, attempt, found, retries, next,
                 outcome, adverse>>

\* send_task of dispatch_existing_alert for one incident.
Enqueue ==
  /\ correlate = "enqueue"
  /\ \E j \in unsent : unsent' = unsent \ {j} /\ Goto(j, "queued")
  /\ UNCHANGED <<alerts, audits, sent, correlate, attempt, found, retries, next,
                 outcome, adverse>>

Correlated ==
  /\ correlate = "enqueue" /\ unsent = {}
  /\ correlate' = "done"
  /\ UNCHANGED <<alerts, audits, sent, attempt, found, unsent, dispatch, adverse>>

\* The search, the insert or a send_task raises.  Incidents that were
\* committed stay, with or without their dispatch task.
CorrelateFails ==
  /\ Mishap
  /\ \/ correlate = "search" /\ UNCHANGED <<alerts, pc>>
     \/ correlate = "insert" /\ MayHappen(alerts, alerts \cup Incidents) /\ UNCHANGED pc
     \/ /\ correlate = "enqueue"
        /\ \E j \in unsent : MayHappen(pc, [pc EXCEPT ![j] = "queued"])
        /\ UNCHANGED alerts
  /\ unsent' = {}
  /\ correlate' = "retry"
  /\ UNCHANGED <<audits, sent, attempt, found, retries, next, outcome>>

CorrelateRetry ==
  /\ correlate = "retry"
  /\ IF attempt < MaxRetries
       THEN correlate' = "search" /\ attempt' = attempt + 1
       ELSE correlate' = "failed" /\ UNCHANGED attempt
  /\ UNCHANGED <<alerts, audits, sent, found, unsent, dispatch, adverse>>

\* The worker dies; the task was acknowledged when it started.
CorrelateCrash ==
  /\ correlate \in {"search", "insert", "enqueue", "retry"} /\ Mishap
  /\ correlate' = "failed" /\ unsent' = {}
  /\ UNCHANGED <<alerts, audits, sent, attempt, found, dispatch>>

-----------------------------------------------------------------------------
(* create_and_dispatch_alert and dispatch_existing_alert                    *)

\* Somebody enqueues a create_and_dispatch_alert task.
Submit(j) ==
  /\ j[2] \in Payload /\ pc[j] = "none"
  /\ Goto(j, "queued")
  /\ UNCHANGED <<alerts, audits, sent, detection, retries, next, outcome, adverse>>

\* AlertRepository.create.
Create(j) ==
  /\ j[2] \in Payload /\ pc[j] = "queued"
  /\ alerts' = alerts \cup {AlertOf(j)}
  /\ Goto(j, "created")
  /\ UNCHANGED <<audits, sent, detection, retries, next, outcome, adverse>>

\* append_audit "created", a transaction of its own.
AuditCreated(j) ==
  /\ pc[j] = "created"
  /\ created' = created \cup {AlertOf(j)}
  /\ next' = [next EXCEPT ![j] = 1]
  /\ Goto(j, "send")
  /\ UNCHANGED <<alerts, confirmed, refused, sent, detection, retries, outcome,
                 adverse>>

\* get_by_id finds the incident.
Load(j) ==
  /\ j \in alerts /\ j[2] \in Signal /\ pc[j] = "queued"
  /\ next' = [next EXCEPT ![j] = 1]
  /\ Goto(j, "send")
  /\ UNCHANGED <<alerts, audits, sent, detection, retries, outcome, adverse>>

Increment(f, n) == [f EXCEPT ![n] = @ + 1]
ChannelLeft(j)  == next[j] <= Len(RouteOf(j))
Target(j)       == <<AlertOf(j), RouteOf(j)[next[j]]>>

SendSkipsFailed(j) ==
  /\ pc[j] = "send" /\ ChannelLeft(j)
  /\ \/ /\ sent' = Increment(sent, Target(j))
        /\ outcome' = [outcome EXCEPT ![j] = "delivered"]
        /\ Goto(j, "audit")
        /\ UNCHANGED next
     \/ next' = [next EXCEPT ![j] = @ + 1] /\ UNCHANGED <<sent, outcome, pc>>
  /\ UNCHANGED <<alerts, audits, detection, retries, adverse>>

\* _send_with_guard: the channel takes the notification; or it declines or is
\* not configured; or it takes it and the call raises, which counts as failed.
Send(j) ==
  /\ pc[j] = "send" /\ ChannelLeft(j)
  /\ \/ /\ sent' = Increment(sent, Target(j))
        /\ outcome' = [outcome EXCEPT ![j] = "delivered"]
        /\ UNCHANGED adverse
     \/ /\ outcome' = [outcome EXCEPT ![j] = "failed"]
        /\ UNCHANGED <<sent, adverse>>
     \/ /\ Mishap
        /\ sent' = Increment(sent, Target(j))
        /\ outcome' = [outcome EXCEPT ![j] = "failed"]
  /\ Goto(j, "audit")
  /\ UNCHANGED <<alerts, audits, detection, retries, next>>

Audited(j) ==
  IF outcome[j] = "delivered"
    THEN confirmed' = Increment(confirmed, Target(j)) /\ UNCHANGED refused
    ELSE refused' = Increment(refused, Target(j)) /\ UNCHANGED confirmed

AuditWithoutAdvance(j) ==
  /\ pc[j] = "audit"
  /\ Audited(j)
  /\ Goto(j, "send")
  /\ UNCHANGED <<alerts, created, sent, detection, retries, next, outcome, adverse>>

\* append_audit "dispatch_channel", then the next channel.
Audit(j) ==
  /\ pc[j] = "audit"
  /\ Audited(j)
  /\ next' = [next EXCEPT ![j] = @ + 1]
  /\ Goto(j, "send")
  /\ UNCHANGED <<alerts, created, sent, detection, retries, outcome, adverse>>

Dispatched(j) ==
  /\ pc[j] = "send" /\ ~ChannelLeft(j)
  /\ Goto(j, "done")
  /\ UNCHANGED <<alerts, audits, sent, detection, retries, next, outcome, adverse>>

\* A database call of the task raises.
DispatchFails(j) ==
  /\ Mishap
  /\ \/ /\ pc[j] = "queued"
        /\ IF j[2] \in Payload
             THEN MayHappen(alerts, alerts \cup {AlertOf(j)})
             ELSE UNCHANGED alerts
        /\ UNCHANGED audits
     \/ /\ pc[j] = "created"
        /\ MayHappen(created, created \cup {AlertOf(j)})
        /\ UNCHANGED <<alerts, confirmed, refused>>
     \/ /\ pc[j] = "audit"
        /\ Audited(j) \/ UNCHANGED <<confirmed, refused>>
        /\ UNCHANGED <<alerts, created>>
  /\ Goto(j, "retry")
  /\ UNCHANGED <<sent, detection, retries, next, outcome>>

RetryNeverGivesUp(j) ==
  /\ pc[j] = "retry" /\ retries[j] < MaxRetries
  /\ Goto(j, "queued")
  /\ retries' = [retries EXCEPT ![j] = @ + 1]
  /\ UNCHANGED <<alerts, audits, sent, detection, next, outcome, adverse>>

RetryUncounted(j) ==
  /\ pc[j] = "retry"
  /\ Goto(j, "queued")
  /\ UNCHANGED <<alerts, audits, sent, detection, retries, next, outcome, adverse>>

RetryOnceMore(j) ==
  /\ pc[j] = "retry"
  /\ IF retries[j] <= MaxRetries
       THEN Goto(j, "queued") /\ retries' = [retries EXCEPT ![j] = @ + 1]
       ELSE Goto(j, "failed") /\ UNCHANGED retries
  /\ UNCHANGED <<alerts, audits, sent, detection, next, outcome, adverse>>

\* self.retry: the whole task again, every channel included, or the end.
Retry(j) ==
  /\ pc[j] = "retry"
  /\ IF retries[j] < MaxRetries
       THEN Goto(j, "queued") /\ retries' = [retries EXCEPT ![j] = @ + 1]
       ELSE Goto(j, "failed") /\ UNCHANGED retries
  /\ UNCHANGED <<alerts, audits, sent, detection, next, outcome, adverse>>

Crash(j) ==
  /\ pc[j] \in Running /\ Mishap
  /\ Goto(j, "failed")
  /\ UNCHANGED <<alerts, audits, sent, detection, retries, next, outcome>>

-----------------------------------------------------------------------------

CorrelateProgress == Search \/ Insert \/ Enqueue \/ Correlated \/ CorrelateRetry

JobProgress(j) ==
  \/ Create(j) \/ AuditCreated(j) \/ Load(j) \/ Send(j) \/ Audit(j)
  \/ Dispatched(j) \/ Retry(j)

Next ==
  \/ CorrelateProgress \/ CorrelateFails \/ CorrelateCrash
  \/ \E j \in Job : Submit(j) \/ JobProgress(j) \/ DispatchFails(j) \/ Crash(j)

Spec == Init /\ [][Next]_vars

\* Live workers keep running the tasks of both queues.
FairSpec ==
  /\ Spec
  /\ WF_vars(CorrelateProgress)
  /\ \A j \in Job : WF_vars(JobProgress(j))

-----------------------------------------------------------------------------
(* Properties                                                              *)

\* A dispatch task never runs ahead of the commit of its incident, so
\* get_by_id finds it: the not_found answer of dispatch_existing_alert is
\* unreachable from the pipeline, whichever call of either task failed.
DispatchHasIncident ==
  \A j \in Job : j[2] \in Signal /\ pc[j] # "none" => j \in alerts

\* The audit trail never claims a delivery that did not happen: neither a lost
\* answer of a channel or of the database nor a retry can make "delivered"
\* entries outnumber the notifications that reached the channel.
NoPhantomDelivery ==
  \A n \in Alert \X Channel : confirmed[n] <= sent[n]

\* Somebody is notified of the same alert on the same channel at most once per
\* run of the dispatch task, and of an alert of a creating task only once.
NotificationsBounded ==
  \A j \in Job : \A c \in Channel :
    IF j[2] \in Payload
      THEN \A k \in Attempt : sent[<<<<k, j[2]>>, c>>] <= 1
      ELSE sent[<<j, c>>] <= retries[j] + 1

\* A task that reports success has an audited attempt on every channel of the
\* alert's severity, however many runs it took.
DoneIsAudited ==
  \A j \in Job : pc[j] = "done" =>
    /\ AlertOf(j) \in alerts
    /\ j[2] \in Payload => AlertOf(j) \in created
    /\ \A k \in DOMAIN RouteOf(j) :
         LET n == <<AlertOf(j), RouteOf(j)[k]>> IN confirmed[n] + refused[n] > 0

\* A correlation task that reports success has, for each signal it found, an
\* incident of its own run with a dispatch task.
CorrelatedIsEnqueued ==
  correlate = "done" => \A j \in Incidents : j \in alerts /\ pc[j] # "none"

\* As long as no call has failed, a signal has one incident and an incident
\* one notification per channel.
OnceWithoutFailure ==
  adverse = 0 =>
    /\ \A a, b \in alerts : a[2] = b[2] => a = b
    /\ \A n \in Alert \X Channel : sent[n] <= 1

JobPhase ==
  [none |-> 0, queued |-> 1, created |-> 2, send |-> 3, audit |-> 3, retry |-> 4,
   done |-> 5, failed |-> 5]
CorrelatePhase ==
  [search |-> 1, insert |-> 2, enqueue |-> 3, retry |-> 4, done |-> 5, failed |-> 5]

\* A task comes nearer to its end: by a retry, of which there are MaxRetries, by
\* a call within a run, or by one of the channels left.
JobAdvances(j) ==
  \/ retries'[j] = retries[j] + 1
  \/ /\ retries'[j] = retries[j]
     /\ \/ JobPhase[pc'[j]] > JobPhase[pc[j]]
        \/ pc[j] = "send" /\ pc'[j] = "audit" /\ next'[j] = next[j]
        \/ pc[j] = "audit" /\ next'[j] = next[j] + 1 /\ ChannelLeft(j)
JobStays(j) == pc'[j] = pc[j] /\ next'[j] = next[j] /\ retries'[j] = retries[j]

CorrelationAdvances ==
  \/ attempt' = attempt + 1
  \/ /\ attempt' = attempt
     /\ \/ CorrelatePhase[correlate'] > CorrelatePhase[correlate]
        \/ correlate' = correlate /\ unsent' \subseteq unsent /\ unsent' # unsent
CorrelationStays == correlate' = correlate /\ unsent' = unsent /\ attempt' = attempt

\* No step sets a task of the two queues back, whatever fails: a second enqueue
\* never restarts a dispatch that is under way, and within a run no channel is
\* served twice.  Every step advances a task, so none of them runs for ever.
TasksAdvance ==
  [][/\ CorrelationStays \/ CorrelationAdvances
     /\ \A j \in Job : JobStays(j) \/ JobAdvances(j)
     /\ CorrelationAdvances \/ \E j \in Job : JobAdvances(j)]_vars

\* The task that works on alert a, if one does, and where it is in its route.
JobOf(a)    == IF a[2] \in Payload THEN <<0, a[2]>> ELSE a
WorksOn(a)  == AlertOf(JobOf(a)) = a /\ pc[JobOf(a)] \in {"send", "audit"}
At(a)       == IF WorksOn(a) THEN next[JobOf(a)] ELSE 0
AnswerOf(a) ==
  IF WorksOn(a) /\ pc[JobOf(a)] = "audit" THEN outcome[JobOf(a)] ELSE "none"
Finished    == {a \in Alert : AlertOf(JobOf(a)) = a /\ pc[JobOf(a)] = "done"}

Promise == INSTANCE NotifiedAlert WITH
  Recorded <- {a \in Alert : a[2] \in Payload},
  Route    <- [a \in Alert |-> Route[a[2]]],
  at       <- [a \in Alert |-> At(a)],
  answer   <- [a \in Alert |-> AnswerOf(a)],
  done     <- Finished

\* The correlation and the tasks of the alert queue, with failures, crashes, lost
\* answers and retries, implement NotifiedAlert: whatever happens to a task, an
\* alert is taken to its channels in order, one at a time, and what a channel
\* answered is on record before the next one is tried.
ImplementsNotifiedAlert == Promise!Spec

\* Every task of the two queues comes to an end.
TasksEnd ==
  /\ <>(correlate \in {"done", "failed"})
  /\ \A j \in Job : pc[j] = "queued" ~> pc[j] \in {"done", "failed"}

\* What PIPELINE_PHYSICAL_DEMO.md:62 says of the correlate stage, "Enqueues
\* alert dispatch for created incidents": when the task has succeeded, no
\* incident it created lacks a dispatch task.
EveryIncidentEnqueued ==
  correlate = "done" => \A a \in alerts : a[2] \in Signal => pc[a] # "none"
=============================================================================
