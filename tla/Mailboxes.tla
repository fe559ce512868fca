------------------------------ MODULE Mailboxes ------------------------------
(***************************************************************************)
(* Mailbox administration and the polling of mailboxes: the write handlers *)
(* of backend/app/api/v1/mailboxes.py behind the write limiter, and        *)
(* poll_active_mailboxes, which celery beat calls every five minutes.      *)
(*                                                                         *)
(* Both enqueue collect_mailbox_reports with the settings of a row they     *)
(* have read before; the task does not look at the row again, nor do its   *)
(* retries.  What a collection does is the subject of module Collector.    *)
(* Tasks with the same arguments are one element of the queue.             *)
(***************************************************************************)
EXTENDS WriteLimiter

CONSTANTS
  Mailboxes,   \* 1 .. Mailboxes: rows that may be created, by created_at
  Settings,    \* username, password, server and folder of a row
  MaxRetries,  \* max_retries of collect_mailbox_reports (5)
  MaxAdverse,  \* bound on failed calls and crashes
  NoRow,       \* null values
  NoSettings

ASSUME CountAssumption == Mailboxes \in Nat /\ MaxRetries \in Nat /\ MaxAdverse \in Nat
Mailbox == 1 .. Mailboxes
Row == [settings: Settings, enabled: BOOLEAN]
ASSUME NullAssumption == NoRow \notin Row /\ NoSettings \notin Settings

\* The arguments of a task, and how often it may still be retried.
Task == [mailbox: Mailbox, settings: Settings, left: 0 .. MaxRetries]

VARIABLES
  rows,    \* table mailboxes
  deleted, \* history: ids of rows that were deleted
  trigger, \* trigger-collect requests between the query and delay: task or NoRow
  poll,    \* poll_active_mailboxes: "none", "queued" or "sending"
  listed,  \* the tasks it has still to send, by created_at
  queue,   \* queue "collect"
  used,    \* history: settings of the last collection of each mailbox
  adverse  \* adverse events so far

polling == <<poll, listed>>
vars    == <<limiter, rows, deleted, trigger, polling, queue, used, adverse>>

TypeOK ==
  /\ LimiterTypeOK
  /\ rows \in [Mailbox -> Row \cup {NoRow}]
  /\ deleted \subseteq Mailbox
  /\ trigger \in [Request -> Task \cup {NoRow}]
  /\ poll \in {"none", "queued", "sending"}
  /\ listed \subseteq Task
  /\ queue \subseteq Task
  /\ used \in [Mailbox -> Settings \cup {NoSettings}]
  /\ adverse \in 0 .. MaxAdverse

Init ==
  /\ LimiterInit
  /\ rows = [m \in Mailbox |-> NoRow]
  /\ deleted = {}
  /\ trigger = [r \in Request |-> NoRow]
  /\ poll = "none"
  /\ listed = {}
  /\ queue = {}
  /\ used = [m \in Mailbox |-> NoSettings]
  /\ adverse = 0

-----------------------------------------------------------------------------

\* An adverse event happens; MaxAdverse bounds them.
Mishap == adverse < MaxAdverse /\ adverse' = adverse + 1

Exists(m) == rows[m] # NoRow

\* delay: a task with the settings of row m.
TaskOf(m) == [mailbox |-> m, settings |-> rows[m].settings, left |-> MaxRetries]

\* The middleware has counted r and lets it in.
LetIn(r) == trigger[r] = NoRow /\ (CountedIn(r) \/ SetExpiry(r))

\* Redis fails, and r is let in.
LetInUncounted(r) == trigger[r] = NoRow /\ RedisFails(r) /\ Mishap

Admitted(r) ==
  \/ LetIn(r) /\ UNCHANGED adverse
  \/ LetInUncounted(r)

-----------------------------------------------------------------------------
(* The statements of the handlers                                          *)

\* INSERT: enabled, under a fresh id.
Create ==
  \E m \in Mailbox, c \in Settings :
    /\ ~Exists(m) /\ m \notin deleted
    /\ \A k \in 1 .. m - 1 : Exists(k) \/ k \in deleted
    /\ rows' = [rows EXCEPT ![m] = [settings |-> c, enabled |-> TRUE]]
    /\ UNCHANGED deleted

\* Variant for the run's mutants: a save that inserts the row again.
UpdateUpserts ==
  \E m \in Mailbox, c \in Settings, e \in BOOLEAN :
    /\ Exists(m) \/ m \in deleted
    /\ rows' = [rows EXCEPT ![m] = [settings |-> c, enabled |-> e]]
    /\ UNCHANGED deleted

\* UPDATE with COALESCE: settings, flag or both; what is not given stays.
Update ==
  \E m \in Mailbox, c \in Settings, e \in BOOLEAN :
    /\ Exists(m)
    /\ rows' = [rows EXCEPT ![m] = [settings |-> c, enabled |-> e]]
    /\ UNCHANGED deleted

\* Variant for the run's mutants: the row is left behind.
DeleteKeepsRow ==
  \E m \in Mailbox :
    /\ Exists(m)
    /\ deleted' = deleted \cup {m}
    /\ UNCHANGED rows

Delete ==
  \E m \in Mailbox :
    /\ Exists(m)
    /\ rows' = [rows EXCEPT ![m] = NoRow]
    /\ deleted' = deleted \cup {m}

\* 404, or the statement fails.
NoChange == UNCHANGED <<rows, deleted>>

\* A request is let in and its one statement runs.
Edit(r) ==
  /\ Admitted(r)
  /\ Create \/ Update \/ Delete \/ NoChange
  /\ UNCHANGED <<trigger, polling, queue, used>>

\* trigger-collect reads the row, and pings the workers.
Read(r) ==
  /\ Admitted(r)
  /\ \E m \in Mailbox : Exists(m) /\ trigger' = [trigger EXCEPT ![r] = TaskOf(m)]
  /\ UNCHANGED <<rows, deleted, polling, queue, used>>

\* delay; no worker answers the ping, or the broker fails: 503 or 500.
Queue(r) ==
  /\ trigger[r] # NoRow
  /\ trigger' = [trigger EXCEPT ![r] = NoRow]
  /\ \/ queue' = queue \cup {trigger[r]} /\ UNCHANGED adverse
     \/ UNCHANGED queue /\ Mishap
  /\ UNCHANGED <<limiter, rows, deleted, polling, used>>

\* The first request of a window, and those beyond its limit.
Arrive(r) ==
  /\ trigger[r] = NoRow
  /\ CreateKey(r) \/ TurnedAway(r)
  /\ UNCHANGED <<rows, deleted, trigger, polling, queue, used, adverse>>

-----------------------------------------------------------------------------
(* poll_active_mailboxes                                                   *)

\* celery beat.  Bound: one poll at a time.
Beat ==
  /\ poll = "none"
  /\ poll' = "queued"
  /\ UNCHANGED <<limiter, rows, deleted, trigger, listed, queue, used, adverse>>

Listed(m) == Exists(m) /\ rows[m].enabled

\* list_enabled.
List ==
  /\ poll = "queued"
  /\ poll' = "sending"
  /\ listed' = {TaskOf(m) : m \in {k \in Mailbox : Listed(k)}}
  /\ UNCHANGED <<limiter, rows, deleted, trigger, queue, used, adverse>>

\* delay, for the next mailbox.
PollQueue ==
  /\ poll = "sending"
  /\ \E t \in listed :
       /\ \A u \in listed : t.mailbox <= u.mailbox
       /\ queue' = queue \cup {t}
       /\ listed' = listed \ {t}
  /\ UNCHANGED <<limiter, rows, deleted, trigger, poll, used, adverse>>

PollEnds ==
  /\ poll = "sending" /\ listed = {}
  /\ poll' = "none"
  /\ UNCHANGED <<limiter, rows, deleted, trigger, listed, queue, used, adverse>>

\* The query or a delay raises, or the worker dies: the mailboxes that are left
\* wait for the next poll.
PollFails ==
  /\ poll # "none" /\ Mishap
  /\ poll' = "none"
  /\ listed' = {}
  /\ UNCHANGED <<limiter, rows, deleted, trigger, queue, used>>

-----------------------------------------------------------------------------
(* collect_mailbox_reports                                                 *)

\* Variant for the run's mutants: the worker keeps the settings it had before.
CollectCached(t) ==
  /\ t \in queue
  /\ used' = [used EXCEPT ![t.mailbox] = IF @ = NoSettings THEN t.settings ELSE @]
  /\ queue' = queue \ {t}
  /\ UNCHANGED <<limiter, rows, deleted, trigger, polling, adverse>>

Collect(t) ==
  /\ t \in queue
  /\ used' = [used EXCEPT ![t.mailbox] = t.settings]
  /\ queue' = queue \ {t}
  /\ UNCHANGED <<limiter, rows, deleted, trigger, polling, adverse>>

\* Mutant: a failure buys one more retry.
CollectFailsAgainAndAgain(t) ==
  /\ t \in queue /\ Mishap
  /\ used' \in {used, [used EXCEPT ![t.mailbox] = t.settings]}
  /\ queue' = (queue \ {t}) \cup {[t EXCEPT !.left = @ + 1]}
  /\ UNCHANGED <<limiter, rows, deleted, trigger, polling>>

\* It fails, before or after it has logged in, and is retried with the same
\* arguments; or it is gone: its worker died, or another run holds the mailbox.
CollectFails(t) ==
  /\ t \in queue /\ Mishap
  /\ used' \in {used, [used EXCEPT ![t.mailbox] = t.settings]}
  /\ \/ queue' = (queue \ {t}) \cup {[t EXCEPT !.left = k] : k \in {t.left - 1} \cap Nat}
     \/ queue' = queue \ {t}
  /\ UNCHANGED <<limiter, rows, deleted, trigger, polling>>

-----------------------------------------------------------------------------

Tick ==
  /\ KeyAges
  /\ UNCHANGED <<rows, deleted, trigger, polling, queue, used, adverse>>

Serve(r) == Arrive(r) \/ Edit(r) \/ Read(r) \/ Queue(r)

Next ==
  \/ Tick
  \/ \E r \in Request : Serve(r)
  \/ Beat \/ List \/ PollQueue \/ PollEnds \/ PollFails
  \/ \E t \in Task : Collect(t) \/ CollectFails(t)

Spec == Init /\ [][Next]_vars

\* Time passes, a request that was let in is served, beat is on time, and the
\* workers take every task in the end.
Fairness ==
  /\ WF_vars(Tick)
  /\ \A r \in Request : WF_vars(r \in creating /\ Serve(r)) /\ WF_vars(Queue(r))
  /\ WF_vars(Beat) /\ WF_vars(List) /\ WF_vars(PollQueue) /\ WF_vars(PollEnds)
  /\ \A t \in Task : WF_vars(Collect(t))

FairSpec == Spec /\ Fairness

-----------------------------------------------------------------------------
(* Properties                                                              *)

\* The counter goes away by itself, unless an EXPIRE failed: without a time to
\* live it is only between the INCR that creates it and the EXPIRE after that,
\* whatever other processes count meanwhile.
LimitIsTemporary ==
  count > 0 /\ ttl = NoExpiry => creating # {} \/ lasting

\* A tenant that has reached the limit is let in again, however many requests
\* it goes on sending.
LimitLifts == (count > MaxWrites) ~> (count = 0 \/ lasting)

\* The settings of an enabled mailbox that stay as they are, are used in the end
\* and from then on: polls that break off are made up for, and tasks with older
\* settings run out.
SettingsTakeEffect ==
  \A m \in Mailbox, c \in Settings :
    <>[](rows[m] = [settings |-> c, enabled |-> TRUE]) => <>[](used[m] = c)

\* The tasks that are queued or on the way to the queue.
Waiting ==
  queue \cup listed \cup {trigger[r] : r \in {q \in Request : trigger[q] # NoRow}}

\* Settings that the table no longer holds run out: a task is enqueued with the
\* settings of its row as it is, or it is a retry with fewer retries left.  No
\* poll, request or failure renews an older one.
OldSettingsRunOut ==
  [][\A t \in Waiting' :
       \/ t \in Waiting
       \/ Exists(t.mailbox) /\ t = TaskOf(t.mailbox)
       \/ \E u \in queue :
            u.mailbox = t.mailbox /\ u.settings = t.settings /\ t.left < u.left]_vars

\* Mailboxes of these tasks.
Pending == {t.mailbox : t \in Waiting}

\* Once the last task of a deleted mailbox is over, its settings are never used
\* again, although polls and requests work with rows they read long before.
ForgottenForGood ==
  [][\A m \in deleted : m \notin Pending => m \notin Pending' /\ used'[m] = used[m]]_vars

\* A window is as long as it was when it began: neither the requests that are
\* turned away nor another process that meets the key sets its time to live again.
WindowIsNotProlonged ==
  [][ttl # NoExpiry /\ ttl' # NoExpiry => ttl' <= ttl]_vars

\* Nothing brings the mailbox of a deleted row back: in the end no task is left
\* that would use its settings.
DeletedIsForgotten == \A m \in Mailbox : (m \in deleted) ~> [](m \notin Pending)
=============================================================================
