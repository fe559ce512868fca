# NextDMARC: TLA+ models and proofs

TLA+ specifications of the backend of NextDMARC, with the TLC configurations
that check them and TLAPS proofs of their safety properties. Paths in this file
are relative to the repository; `app/` stands for `src/backend/app/`.

NextDMARC polls mailboxes for DMARC aggregate reports, parses and indexes them,
scores the tenant, detects suspicious signals, opens incidents and notifies
people, who log in and triage the alerts in a web client. Its core is a chain of
Celery tasks over four stores (PostgreSQL, Redis, MinIO, Elasticsearch) and a
FastAPI server over the same stores:

    beat -> collect -> parse -> analyse -> correlate -> dispatch -> channels
                                      \-> score
                                      \-> recommend
    browser <-> API (login, mailboxes, triage, analytics, ...) <-> PostgreSQL, Redis

Tasks run in several worker processes. They share nothing but the stores and
the queues, every call on a store may fail or be applied with the answer lost,
and a failed task is run again from its first line. That is where the program
can go wrong and where unit tests, which replace the stores by fakes and run one
task at a time, do not reach.

## 1. Inventory

| Component | State | Operations | Interacts with | What is hard | What makes it correct |
|---|---|---|---|---|---|
| **Collector** `workers/tasks/collect.py`, `services/collector/*` | IMAP `\Seen` flags, Redis run key and message keys, MinIO objects | poll and trigger a mailbox, take the run key, search and fetch, claim a message, store and enqueue its parts, release | beat, API trigger, parse queue | run key without owner check and with a TTL, mails marked seen before they are stored, keys that survive a failed attempt | one run per message, one parse task per object, a processed message is complete, nothing lost |
| **Parse pipeline** `workers/tasks/parse.py`, `services/parser/*` | tables `domains`, `dmarc_reports`, `sources`; Elasticsearch index | read, parse, persist in one transaction, ensure index, index records one by one, enqueue analysis | MinIO, PostgreSQL, Elasticsearch, analysis queue | deadlock of upserts, race for the index, half-indexed reports, refresh delay | persistence atomic, analysis only after complete ingestion, tasks end |
| **Analysis** `workers/tasks/analysis.py`, `services/analysis/alignment.py` | none | search the records, compute metrics, send three tasks | Elasticsearch, three queues | stale index, failure between the three sends | stages in order, once per run; metrics of the whole report |
| **Scoring** `services/scoring/*`, `workers/tasks/score.py` | per-process dictionary of current score and history | base score, smoothing, hysteresis, append | analysis task, analytics API | rounding, jumps over several levels, a store per process | level fits score, no flapping, score converges |
| **Correlation and dispatch** `workers/tasks/correlate.py`, `workers/tasks/alert.py`, `services/correlation/*`, `services/alerting/*` | table `alerts`, `alert_audit_logs`, the outside channels | detect, insert incidents, enqueue dispatch, send per channel, audit | PostgreSQL, e-mail, Slack, SIEM | commit and enqueue are not atomic, send and audit are not atomic, retries repeat both | dispatch finds its incident, the trail never overstates, repeats bounded |
| **Triage API** `api/v1/alerts.py`, `api/v1/incidents.py`, `repositories/alert_repository.py`, `repositories/incident_repository.py` | the same two tables, Redis channel | status, assign, comment, escalate, close, publish | browser, PostgreSQL, Redis | concurrent requests on one row, read before transaction (escalate), failure between statements | row and trail agree, events tell committed facts |
| **Alerts page** `src/frontend/src/pages/alerts.js`, `services/alerting/realtime.py`, WebSocket of `api/v1/alerts.py` | rows shown, list under way, socket and subscription, request under way | load, connect, receive, act | triage API, alert worker, Redis channel | list, events and responses overtake each other; lost connections and publications; events without a row | only committed rows are shown; a settled page is current |
| **Mailbox administration and polling** `api/v1/mailboxes.py`, `repositories/mailbox_repository.py`, `poll_active_mailboxes` of `workers/tasks/collect.py` | table `mailboxes`, collect queue | create, update, delete, trigger a collection; list the enabled rows and enqueue a collection of each | write limiter, collector, beat | tasks carry the settings of a row read earlier, retries keep them; a poll breaks off half-way | the current settings win in the end, a deleted row is not collected for ever |
| **Write limiter** `core/middleware.py` | a Redis counter per tenant and address | count a request, start the window, refuse | every write handler | INCR and EXPIRE are two commands of several processes | the counter is temporary, a refused client is let in again |
| **Authentication** `api/v1/auth.py` | per process: attempts, lockouts, revoked refresh tokens; table `users` | register a tenant, login, refresh, logout | browser, PostgreSQL | handlers wait for the database between a check and its effect; a restart forgets; processes share nothing | attempts limited, lockouts last, a token exchanged once |
| **Browser session** `src/frontend/src/lib/authSession.js`, `lib/apiClient.js` | cookies, `localStorage` | save, clear, refresh on 401 | authentication, CSRF check | tabs share both stores and write them at different moments | the two copies of the CSRF token agree, the next refresh succeeds |
| Recommendations | two per-process stores | generate, list, resolve, reopen | worker, API | store per process | not modelled, see section 7 |
| Enrichment | TTL cache, request spacing | look up an address | outside services | no caller | not modelled, see section 7 |
| Stores for domains and integrations, read APIs, roles, configuration | dictionaries, none | one-step operations, queries | API | nothing that interleaves | not modelled, see section 7 |

`PROJECT.json` lists the same components with their status, and every hazard
with its line and the properties that cover it.

## 2. Modules

| Module | Role |
|---|---|
| `CollectedMail` | abstract specification: what the collector promises of a mail |
| `Collector` | mailbox collection: any number of tasks on one mailbox; implements `CollectedMail` |
| `MCCollector`, `Collector_proofs` | its instances and its proofs |
| `IngestedReport` | abstract specification: what the pipeline promises of a stored object |
| `ReportPipeline` | parse tasks, PostgreSQL locks, Elasticsearch, analysis tasks; implements `IngestedReport` |
| `MCReportPipeline`, `ReportPipeline_proofs` | its instances and its proofs |
| `RiskScore` | score engine, per-process store, score task |
| `MCRiskScore`, `RiskScore_proofs` | its instances and its proofs |
| `NotifiedAlert` | abstract specification: what the alert queue promises of an alert |
| `AlertDispatch` | a correlation task, the dispatch tasks it enqueues, directly created alerts; implements `NotifiedAlert` |
| `MCAlertDispatch`, `AlertDispatch_proofs` | its instances and its proofs |
| `AlertRecords` | rows of `alerts` and `alert_audit_logs` and the effect of an audited change |
| `AuditedAlert` | abstract specification: row and trail change together |
| `AlertTriage` | the triage handlers, transaction by transaction; implements `AuditedAlert` |
| `MCAlertTriage`, `AlertTriage_proofs` | its instances and its proofs, the refinement included |
| `AlertBoard` | one visit of the alerts page, composed with `AlertTriage` and the events of the alert worker |
| `MCAlertBoard`, `AlertBoard_proofs` | its instances and its proofs |
| `WriteLimiter` | the Redis counter of the middleware and its two commands |
| `Mailboxes` | the mailbox handlers behind `WriteLimiter`, the poll, and the collections both enqueue |
| `MCMailboxes`, `Mailboxes_proofs` | its instance and its proofs |
| `LoginThrottle` | attempts and lockouts of each API process |
| `AuthSession` | login, registration, refresh and logout over `LoginThrottle`, with a browser and its tabs |
| `MCAuthSession`, `AuthSession_proofs` | its instance and its proofs |

All modules are written in the same way. A task or request has a control state
`pc`; one action is one call on a store, one transaction statement or one
computation without calls in between. A call that raises takes an action
`...Fails`, in which its effect happens or not (`MayHappen`): an error may mean
that only the answer was lost. `Retry` is `self.retry`, `Crash` the death of the
process: `celery_app.py` leaves `acks_late` off, so a task is acknowledged when
it starts and a crash loses it. Failures, crashes and expiries count against
`MaxAdverse`. Actions and operators have the code's names where TLA+ allows;
`PROJECT.json` maps each to its lines. Operators whose comment calls them a
variant or mutant are definitions with a slip. No action uses them; they are
there to show that the properties notice it.

### Collector, CollectedMail

`mail`, `runKey`, `msgKeys`, `objects` and `parseTasks` are the stores; `uids`,
`batch`, `cur`, `pos` the locals of a run. A run takes the run key
(`AcquireRunKey`, SET NX EX 300), searches UNSEEN, fetches (which marks seen),
claims a message by its key (`Claim`, seven days, longer than any run works on
one message), stores each part and enqueues its XML parts, and deletes the run key
in the `finally` clause (`Release`). The delete does not look whose key it is:
`owner` remembers that for the properties only, as do `outlived`, `expired` and `done`. Failures take every path of the
code: early return when the key is taken, Redis errors in the acquire (outside
the `try`, so the key may stay until its TTL), errors inside, `finally` errors,
decompression errors of a corrupt part.

`CollectedMail` forgets runs, the run key, searches and the mailbox: a mail is
claimed (`Claim`), gone through part by part (`Store`, `HandOver`) and finished,
or given up at any point. The mapping reads `msgKeys` as the claims, and `at` as
the `pos` of the run whose current message the mail is, so two runs that overlap
show as one careful pass over each mail. A failed call, a crash and an error in
the `finally` clause are `GiveUp` or nothing, the expiry of a message's key is
`Lapse`, and whatever happens to the run key is invisible.

### ReportPipeline, IngestedReport

A parse task reads the object, upserts the domain, the report and the sources
one statement at a time under row locks (`lock`), commits, looks for the index,
creates it, indexes the records and enqueues an analysis. PostgreSQL aborts a
transaction in a waits-for cycle (`DeadlockDetected`). Documents go to `docs`
and become visible to searches at `Refresh`. An analysis task searches for the
report's documents, then sends `correlate`, `score` and `recommend`; it is named
by the object and the run of the parse task that enqueued it, since a lost
answer of `send_task` makes the next run enqueue another one.

External services are modelled as the code depends on them: an upsert waits for
a row that another open transaction has upserted; `indices.create` raises if the
index exists; an index request on an existing id overwrites. The `term` filter
on `tenant_id` is taken to match the tenant. The index is created without a
mapping, but the query presupposes an exact match.

`IngestedReport` forgets tasks, retries, locks and the index: an object's rows
appear in one step (`Persist`), its documents one by one after them (`Write`),
and a stage is told of the object when all of these are there and the stages
before it have been told (`Tell`). The mapping reads the committed tables as the
rows, `docs` as what is written (whether searches see it or not), and collects
what a stage has been told from the counters of all analyses of the object, those
of earlier runs included. An aborted transaction, a failed call or a crash then
changes nothing or is one of these steps.

### RiskScore

`history[p]` is the store of process `p`, cut to the last `Window` entries;
`Compute` scores a report as `ScoreEngine.compute` does (`Base`, `Smoothed`,
`NextLevel`), `Restart` empties a process's store (`lru_cache`). The correlation
and incident penalties are left out because `analyze_report_conformance` never
sends these two counts, so they are always 0. Python's rounding of a tie depends
on the binary fraction, so `Nearest` admits both neighbours.

### AlertDispatch, NotifiedAlert

One run of the detector on one report: `Search`, `Insert` (one transaction for
all incidents, uuids fresh in every run: an incident is named by run and
signal), one `Enqueue` per incident. Dispatch tasks `Load` the incident, or,
for `create_and_dispatch_alert`, `Create` it and audit it, then `Send` and
`Audit` once per channel of the severity. `sent` counts notifications that
arrived, `confirmed` and `refused` the audit rows; `_send_with_guard` turns an
exception of a channel into "failed" although the notification may have
arrived. The router's mapping is never empty for a severity, so
`dispatch_skipped` is unreachable and the empty route is excluded by
`RouteAssumption`. The detector is built without known sources, so every source
is a new one and the signals of a report do not depend on earlier reports.

`NotifiedAlert` speaks of alerts, not tasks: inserted, created on record, taken to
their channels by one pass at a time, each answer on record before the next
channel is tried. The task of an alert (`JobOf`) is its pass while it sends or
audits; `at` is its `next`, `answer` the outcome it has not audited yet. The
correlation, the queue and a retry are invisible, except that committing the
incidents is one `Insert` of all of them; failure and crash are `GiveUp`.

The route belongs to the kind of alert and never changes. In the program an
escalation between detection and dispatch, or between two attempts, changes the
severity that `get_by_id` reads again and with it the channels; then a retry
starts over on another list. The two parts are modelled apart, so this is left
out.

### AlertTriage, AuditedAlert, AlertRecords

A request is one transaction at READ COMMITTED: BEGIN (which fixes `now()`),
UPDATE under the row lock, audit INSERT, COMMIT, then a publication whose
failure is swallowed. An escalation first reads the row in a transaction of its
own and later writes `level + 1` from what it read. Closing an incident updates
the same row without an audit entry. SQL is read as PostgreSQL executes it with
bound parameters. `AuditedAlert` promises that an alert and its trail change in
one step and that only closing leaves no trace; the mapping is the identity on
`alerts` and `audit`.

### AlertBoard

`AlertBoard` EXTENDS `AlertTriage`: its server actions conjoin a triage action
with what it means for the page, so every behaviour is one of triage (theorem
`BoardImplementsTriage`). `stream` is the Redis channel with all events; an event
carries a row only when its payload has an alert, or, for `alert.created`, the
columns of a new one. `load`, `listing` and `rows` are the list request and the
table shown, `link` and `cursor` the socket and how far its subscription has gone,
`acting` and `answer` the request under way and its response. `Open` accepts the
socket, `Subscribe` is the later moment when the server has subscribed; the page
says "connected" before that. `Drop` loses what was under way, and reconnecting
does not load the list again. `birth` holds the row that
`create_and_dispatch_alert` has inserted and not yet announced.

`past` and `disturbed` are history. `disturbed` collects, where it happens, each
reason for which the page may miss a change of an alert: an incident inserted
after the list was read, an incident closed, a commit whose answer was lost, a
publication that failed or reached no subscription, an event lost with its
connection, a change while an earlier row of the same alert is still under way
(unannounced, in a list not yet shown, in a response), and any dispatch event
received, since the page makes a default row of it. An alert leaves
`disturbed` when it changes with no earlier row of it under way: the event of that
change brings the row up to date, or disturbs it again. `BoardIsCurrent` says that
there is no other reason for a stale row, and that none of them lasts: however the
page fell behind, the next change that travels undisturbed repairs it.

Left out: one visit of the page only; the list holds the newest 25 alerts, and
the model has fewer; heartbeats, raw messages and texts; the renewal of an expired
session inside a request.

### Mailboxes, WriteLimiter

`count` and `ttl` are the limiter's key. `CountedIn`, `CreateKey`, `SetExpiry`
and `TurnedAway` are the outcomes of INCR and EXPIRE; the middleware makes both
calls synchronously, so other requests come between them only from other
processes, and a request slot stands for a process with its request. A Redis
error lets the request in (`RedisFails`); `lasting` remembers that an EXPIRE was
not applied. A request that is let in runs its one statement (`Edit`) or reads
the row it will enqueue (`Read`, then `Queue` after the ping of the workers).
`rows` is the table, its rows named in the order of `created_at`; `poll` and
`listed` are the poll under way, which goes on from the rows it has read.
`queue` is a set: equal tasks are not told apart. `Collect` notes in `used` the
settings a run logs in with and nothing else of it, which is the subject of
`Collector`; `CollectFails` covers the error before or after the login, the
retry with the same arguments, the lost worker and the run key held by another
run.

Left out: listing, reading and testing a mailbox, which change nothing; the
other write handlers behind the limiter, which for the counter look like these.

### AuthSession, LoginThrottle

`attempts` and `lockout` are the dictionaries of `AuthAttemptTracker` in each
process, with time relative to now: `Tick` makes attempts older and lockouts
shorter. `granted` repeats, for the properties only, what was let through.
`revoked` is `_revoked_refresh_jti` of each process. Between two awaits a
handler runs alone in its process, so a login is two steps (the lockout check;
after the database has answered, the failure record or the reset) and a refresh
too (the revocation check; after the query of the user, the revocation and the
new pair). `Logout` and the throttling of `Register` never wait.

A login or a refresh issues a *pair*, a refresh token and a CSRF token. `jar` is
the pair in the browser's cookies, which change when the response arrives
(`Receive`), `stored` the CSRF token in `localStorage`, which changes when the
page has parsed the body (`Parse`). All tabs share both; each call belongs to
some tab. Responses are lost (`ConnectionFails`), tabs closed (`TabClosed`),
queries fail and processes are replaced (`Restart`).

`course` is history: "smooth" while no two calls have overlapped and none has
failed on the way, "rough" after that, and "mending" while a login is the only
call under way; a login that succeeds alone makes the course smooth again.
`raced` collects the refreshes that held their token together with another call.

Left out: the expiry of tokens, deactivated users, the refresh token in a request
body, the rows `register-tenant` inserts. A refresh may be sent at any time,
which covers `apiClient`'s refresh on a 401: no handler outside `/auth` answers
401 today.

## 3. Runs

Passing runs:

| Run | Instance | States | What it shows |
|---|---|---|---|
| `CollectorSafety` | 2 tasks, 2 mails (an XML and another part; no attachment), no retry, 2 adverse events, task symmetry | 1.76 million | exclusive messages, at most one parse task per object, runs overlap only after a key was outlived, without failure a seen mail is processed or in the hands of a run; refinement of `CollectedMail` (one pass at a time, stored before handed over, processed means complete) |
| `CollectorRecovery` | 2 tasks, 1 mail of an XML part and a corrupt archive, 1 retry, 2 adverse events | 209 thousand | tasks end; every unseen mail is taken up by some run; refinement of `CollectedMail` through retries and a part that cannot be read |
| `Pipeline` | 2 reports with the same senders in opposite order, 1 retry, 1 adverse event | 235 thousand | deadlock and index race included: refinement of `IngestedReport` (atomic persistence, stages told after complete ingestion and in order); waiting upserts never block one another for good, every task ends |
| `Score` | reports with 0 to 20 of 20 passing records, window 3, patience 6 | 98 thousand | level within two points of its floor, no flapping within six points, convergence to the base score within six equal reports |
| `Triage` | 2 requests of any of 5 kinds, 1 alert, any statement failing | 33 thousand | row and trail agree, events tell committed facts, refinement of `AuditedAlert`, no request waits for ever |
| `Dispatch` | 1 signal, 1 created alert with 2 channels, 1 retry, 2 adverse events | 155 thousand | incidents found, bounded repeats, nothing repeated without a failure, refinement of `NotifiedAlert` (honest trail, channels in order), tasks end |
| `Board` | 1 alert from either path, 2 users (the page and another) with a request each, 1 dispatch event, any failure | 1.04 million | only committed rows are on their way or shown; a settled page is current unless disturbed since the last change that travelled alone |
| `Mailboxes` | 2 write requests, 1 mailbox with 2 settings, limit 2, window 2 ticks, 1 retry, 1 adverse event | 78 thousand | the limiter's key is temporary and a refused client is let in again; older settings run out and settings that stay are used in the end; a deleted mailbox is forgotten, for good once its last task is over |
| `Session` | 1 process, 2 calls, 3 pairs, 2 attempts, window 1 tick, lockout 2, slot symmetry | 1.78 million | attempts limited in every window, lockouts run their time, a session without overlap or failure goes on, a token is exchanged once |

Violated by the code, each against a sentence of the repository:

| Run | What the counterexample does | Contradicts |
|---|---|---|
| `CollectorTransient` | One failure after the fetch: the retry searches UNSEEN and finds nothing, the mail is never collected | `src/backend/TODAYS_SESSION_FULL_TECHNICAL_EXPLANATION.md:296` |
| `PipelineEarlyAnalysis` | The analysis searches before the index refreshes, finds no records and sends the metrics of an empty report | `src/backend/PIPELINE_PHYSICAL_DEMO.md:56` |
| `DispatchOrphans` | `send_task` raises after the commit: the retry opens new incidents and the first ones are never dispatched | `src/backend/PIPELINE_PHYSICAL_DEMO.md:62` |

The models show some further behaviour without a run, because nothing in
the repository promises otherwise:

- a run that outlives the 300 s of its key overlaps with the next one, and
  its `finally` clause then deletes its successor's key (`collect.py`);
- two escalations of one alert may both read level 0 and both write 1; the audit
  trail then holds two entries with the same level (`alert_repository.py`), and
  `LevelBounded` says what still holds;
- a dispatch event carries no alert, so the page replaces the row by defaults, of
  medium severity whatever the alert's is (`alerts.js`), until the alert changes;
- a refresh whose query is under way while a logout or another refresh presents
  the same token still yields a new pair, and a logout is not known to the other
  processes (`auth.py`); `ExchangedOnce` therefore excepts calls that hold the
  token together and says that nothing else gets a second pair;
- calls of two tabs that overlap, or one that is cut off between the response and
  the end of its body, leave the CSRF token of one pair beside the cookie of
  another (`authSession.js`); `SessionContinues` speaks of calls one after the
  other, where nothing else may separate the two;
- a new incident is not announced on the stream: the page shows it only after its
  dispatch event, with that event's default row, after someone has changed it, or
  after a reload;
- a corrupt attachment aborts the whole run, so the readable mails fetched with
  it are marked seen and not collected (`collect.py`, the loop over messages);
- an incident closed through the incidents API leaves no audit entry;
- audit entries are listed by the time their transaction began, which may differ
  from the order in which they took effect;
- hysteresis is applied to the target level only: a score that rises from 0 to 71
  keeps the level critical, because 71 is below the upgrade limit of the target
  level and lower levels are not tried (`engine.py`, `_apply_hysteresis`);
- the score history is per process, so an API process that runs no score task
  serves an empty trend;
- the unique key of reports is tenant and report id: two reporters that use the
  same id overwrite each other's row and mix their documents.

### Bounds

*Two* tasks, requests or reports are enough for the hazards: each is a race of two
actors on one key, row, message or index. Two retries behave like one: a run
depends on earlier runs only through the stores. For the same reason
`CollectorSafety` has none: a retried run meets the stores as a run that a later
poll triggers does; `CollectorRecovery` has the retry itself, and the part that
makes every attempt fail. Two adverse events
allow a failure in a run and another one in its retry (`Dispatch`, the collector);
the pipeline has one, besides any number of deadlocks and lost races for the
index, which do not count. `Score` needs no more than three entries of history to
show a flap (there, away, back); a score of 0 to 100 moves to a new base in at
most six reports, and the theorem `SixReportsSettle` says so for any metrics.
`Pipeline` has no unreadable object, which would only retry until it fails;
`PipelineEarlyAnalysis` has one, and the proofs admit any.

`Session` has one process: processes meet only in the browser, which asks one
of them at a time in a smooth course, and the proofs hold for any number of them.
Three pairs give a login, a refresh and one more of either. Two attempts, a
window of one tick and a lockout of two let an attempt age out while another
stays, and a lockout outlive the window. `Mailboxes` has one mailbox, because the
cost of checking liveness grows too fast for two: mailboxes meet only in the loop
of the poll, and there a mailbox that the loop has not reached is in the position
of the only one before its `delay`, `PollFails` included. A limit of two tells the
request that creates the key, one that is counted in and those turned away apart.
`count` stops above the maximum. What the bounds leave out, the proofs of
section 5 cover for safety.

Deadlock is checked in the runs of `Collector`, `RiskScore`, `Mailboxes` and
`AuthSession`, which never stop. The other runs say `CHECK_DEADLOCK FALSE`: their
finitely many tasks and requests end, and the liveness properties (`TasksEnd`,
`RequestsEnd`) show that nothing stops earlier. `Board` bounds only the dispatch
events (`MaxDispatches`); its page can always connect or drop again, and its
requests end as in `Triage`.

## 4. Fairness

- `Collector`: beat triggers polls every five minutes, workers continue a task
  they run, Redis expires keys (`WF` of `Trigger`, `Progress`, `RunKeyExpires`).
  Nothing obliges mails to arrive or calls to fail or succeed after a failure.
- `AlertDispatch`: a live worker takes tasks from the queue and goes on with them
  (`WF` of the progress of the correlation and of each task).
- `ReportPipeline`: the workers together do not stand idle while a task can go on
  (one `WF` over the progress of all tasks). Nothing is said of `Refresh`.
- `AlertTriage`: the API server keeps running its coroutines (`WF` of `Handle`).
  A row lock is released by its holder's commit or rollback, so weak fairness
  suffices for the waiting request.
- `AlertBoard` states none: nothing obliges a connection to hold, and its
  properties are safety.
- `Mailboxes`: time passes (`Tick`), a request that has created the limiter's key
  goes on (`Serve`), as does a trigger after its read (`Queue`); beat enqueues a
  poll on time, a worker runs it to its end (`Beat`, `List`, `PollQueue`,
  `PollEnds`) and workers take every collection (`Collect`), all `WF`. Nothing
  obliges clients to send or calls to fail.
- `AuthSession` states none: clients owe no calls, and its properties are safety.
- `RiskScore` states none; `ScoreSettles` counts equal reports instead.

What liveness rests on is stated as safety too, and proved: no step of a task sets
it back (`RunsAdvance`, `TasksAdvance`), and a lock or a cycle of upserts does not
keep the others waiting (`LocksAreShortlived`, `NobodyIsStuck`).

Failures and crashes have no fairness anywhere.

## 5. Proofs

Each `..._proofs` module proves its theorems for every value of the constants:
any number of tasks, mails, reports, signals, requests, retries and failures,
any routes and part lists. The assumptions are the named `ASSUME`s of the
component modules (null values are not members, bounds are naturals, lists have
the right element types, a route is not empty and names no channel twice).

- **Collector.** `TypeCorrect`, `MessageExclusion`, `RunsExcludeEachOther`,
  `ParseTasksAreBacked`, `ParseAtMostOnce`, `ProcessedIsComplete`, `NothingLost`,
  `RunsOnlyAdvance`, `Refinement`. Control facts first (`ControlInv`: a run has a
  current message exactly where the code has one); then the key of the current
  message is held (`ClaimInv`), which makes messages exclusive although runs may
  overlap; the number of parse tasks of an object is bounded by the lives of the
  key, strictly while the object is still pending (`BoundInv`); the parts before
  `pos` are stored and enqueued (`PrefixInv`); and while nothing fails a claimed
  message is processed or the current message of a run, and a seen one is that or
  still in a run's batch, so that skipping a claimed message loses nothing
  (`CalmInv`). `Refinement` maps each action to a step of `CollectedMail` or a
  stutter. `ClaimInv` makes `at` well defined, since no two runs have the same
  current message; by `ControlInv` a part that is handed over is stored; and
  `PrefixInv` bounds `pos`, since what lies before it are parts of the mail.
  `RunsOnlyAdvance` compares a run before and after each action by its attempt,
  then the control state, then the messages and parts that are left.
- **ReportPipeline.** `TypeCorrect`, `PersistenceIsAtomic`, `LocksAreReleased`,
  `AnalysisFollowsIngestion`, `FanOutInOrder`, `Refinement`, `UpsertsGoOn`,
  `TasksOnlyAdvance`. `IInv` adds that past the commit the rows are there and the
  records before `pos` are indexed (`Ingestion`), that a run which has not ended
  has enqueued nothing (`Unstarted`), without which a second enqueue would reset a
  running analysis, and how the three counters compare at each position of the
  fan-out (`Counted`). `Refinement` maps each action to a step of `IngestedReport`
  or a stutter: COMMIT persists (again, after a retry), an index request writes, a
  `send_task` tells, and `IInv` supplies what these steps presuppose.
  `UpsertsGoOn` needs finitely many objects: if every task that is left waited,
  each would wait for another one (`NoLockLeaks`: a lock is held by an open
  transaction), and of a finite set that a function maps into itself the smallest
  closed part is mapped onto itself (`CycleExists`, from the library's theorem
  that strict inclusion is well-founded on finite sets). That part is a cycle,
  which PostgreSQL breaks. `TasksOnlyAdvance` uses `Unstarted`: an enqueue whose
  answer was lost never resets an analysis under way. The two together are the
  safety core of `TasksEnd`.
- **RiskScore.** `TypeCorrect`, `LevelsAreSupported`, `HysteresisWorks`. `IInv`:
  every entry supports its level, and consecutive entries are linked by the
  hysteresis rule. Flapping then follows by looking at the two ends of a stay in
  a level. `SixReportsSettle`: with `Patience` at least 6, `ScoreSettles`. Each
  report leaves at most two fifths of the distance to the base score, rounded, so
  after 1 to 6 equal reports the score is within 40, 16, 6, 2, 1 and 0 of it
  (`Settling`). Ties make this delicate: the same report may have two neighbouring
  base scores, and the distance is to one of them, not always to the same
  (`SmoothingApproaches`).
- **AlertDispatch.** `TypeCorrect`, `DispatchFindsIncident`, `TrailIsHonest`,
  `RepeatsBounded`, `SuccessIsAudited`, `SuccessIsEnqueued`, `CalmMeansOnce`,
  `TasksOnlyAdvance`, `Refinement`.
  `IInv` is the conjunction of one strengthening per theorem: unsent incidents
  are committed (`DetectionInv`); while an outcome waits to be audited as
  delivered there is one more notification than confirmations (`DeliveryInv`);
  a channel before `next` has been notified at most once more than the retries,
  and one at or after it no more than the retries (`RepeatInv`); channels before
  `next` are audited (`ServedInv`); without adverse events nothing is repeated
  (`CalmInv`). `TasksOnlyAdvance` and `Refinement` need `TypeInv`, by which a task
  that audits is within its route; `DetectionInv`, by which an incident is enqueued
  once and only when committed; and `ServedInv`, by which a task that sends has its
  alert in the table and, if created, on record.
- **AlertTriage.** `TypeCorrect`, `Refinement`, `NobodyWaitsInVain`,
  `TrailExplainsRow`, `EventsTellCommits`, `LevelBounded`. `ControlInv` says that
  a request between UPDATE and COMMIT holds the row lock and that the row it will
  write is the committed row with its own columns replaced. That makes COMMIT an
  `AuditedAlert` step and every other action a stutter of it. `NobodyWaitsInVain`
  (`LocksAreShortlived`): the holder of a row lock waits for no other lock and has
  its commit or rollback ahead.
- **AlertBoard.** `BoardImplementsTriage` (`BoardSpec => Spec`: the composition is
  a triage server with more variables) and from it `BoardShowsAuditedAlerts`
  (`BoardSpec => ImplementsAuditedAlert`); `BoardTypeCorrect`,
  `OnlyCommittedRowsShown`, `PageIsCurrent`. A lemma classifies the server's steps
  by their effect on the table and the stream (`ServerCases`), from `ControlInv`
  of triage. `HistoryInv`: rows about to be published have been in the table, and
  only alerts in the table have events. `Current`: of an undisturbed alert at most
  one change is unannounced, and it is the row in the table; the last unread
  event, a list and a response carry that row; and a settled page shows it. A COMMIT
  that finds nothing of its alert under way establishes it whatever was before.
- **Mailboxes.** `TypeCorrect`; `LimiterHolds` (`LimitIsTemporary`): a key without
  a time to live is one whose creator is still between INCR and EXPIRE, or whose
  EXPIRE failed; `WindowsEnd` (`WindowIsNotProlonged`): while a window runs nobody
  is between the two commands, and only one request ever is (`WindowInv`);
  `OldSettingsEnd` (`OldSettingsRunOut`): every new task carries its row as it is,
  or settings of a task of its mailbox that had more retries left; `DeletionIsFinal`
  (`ForgottenForGood`): without a row and without a task a mailbox gets neither.
- **AuthSession.** `TypeCorrect`, `ThrottleHolds` (`AttemptsAreLimited`),
  `LockoutsRun` (`LockoutRunsItsTime`), `ExchangesHold` (`ExchangedOnce`),
  `SessionsContinue` (`SessionContinues`). `Throttled`: what was let through is
  what is recorded, except in a lockout, which is longer than the window. `Paired`:
  of two refreshes that wait in one process with one token, both are raced.
  `Ledger`: nothing refers to a pair that is not issued, so a new pair is revoked
  nowhere. `Sessions`: while the course is not rough at most one call is under
  way, and `Underway` says how far it has brought cookies and storage.

Most theorems are of the form `Spec => []P` where `P` is an invariant of a
passing run. The three theorems named `Refinement` in the collector, the pipeline
and the dispatch are `Spec => Promise!Spec` with the abstract specification of
each, that of triage is `Spec => AuditedAlerts!Spec`. `RunsOnlyAdvance`,
`TasksOnlyAdvance`, `LockoutsRun`, `WindowsEnd`, `OldSettingsEnd` and
`DeletionIsFinal` are action properties.

Every safety property of a passing run is the subject of a theorem. Some theorems
state what no run checks:

- details of a refinement: `PersistenceIsAtomic`, `AnalysisFollowsIngestion` and
  `FanOutInOrder` of `IngestedReport`, `ProcessedIsComplete` of `CollectedMail`,
  `TrailIsHonest` of `NotifiedAlert`;
- the safety core of a liveness property that a run checks: `RunsOnlyAdvance`,
  `TasksOnlyAdvance`, `NobodyWaitsInVain`, `WindowsEnd`;
- what a reader of the code finds in one place: `LocksAreReleased`,
  `ParseTasksAreBacked`, `SuccessIsAudited`, `SuccessIsEnqueued`;
- what remains of escalations that overwrite one another: `LevelBounded` (the
  level never exceeds the audited ones, and an alert that was escalated shows it);
- the type invariants of `RiskScore`, `AuthSession` and `AlertBoard`.

Model-checked only are the liveness properties: `TaskTerminates`,
`EveryMailTakenUp`, `TasksEnd`, `RequestsEnd`, `LimitLifts`, `SettingsTakeEffect`
and `DeletedIsForgotten`. Liveness under fairness is out of the prover's reach, and so
is `ENABLED`: `CanGoOn` of the pipeline spells out when a parse task can go on,
and that this is what its actions need is for TLC to check, by `TasksEnd`.

## 6. Mutants

For each property of a passing run `PROJECT.json` names a definition and a
variant of it with a plausible slip (a guard dropped, a reset forgotten, a
counter not advanced, an answer ignored, a transaction split) under which TLC
finds the property violated in the run's own instance.

## 7. Not modelled

What the plan of this project named is done: `Collector`, `AlertTriage` with
`AuditedAlert`, `AlertDispatch`, `RiskScore`, `ReportPipeline` with
`IngestedReport`, `AlertBoard`, `AuthSession`, `Mailboxes`, in this order. Two
components it named turned out to have nothing to interleave:

- Recommendations: `recommend.py` writes dictionaries of the worker's process,
  and the API lists and resolves in its own. In a deployment the API never has a
  recommendation to resolve; what is missing is a shared store, not an order of
  steps.
- Enrichment: no code of the application calls it; only its tests build the
  service, so its cache and request spacing have no client.

The rest is without state, or without steps that could meet:

- Domains and integrations stores: dictionaries with one-step operations.
- Read APIs, pagination, analytics: queries without state. What the alert list
  returns to the page is in `AlertBoard`.
- Security headers and the audit log line of the middleware: no state. The CSRF
  check is `WriteAccepted` of `AuthSession`.
- Roles, request context, configuration, migrations, observability: tables and
  start-up code without behaviour over time. Columns and unique keys of the
  migrations are variables of the models that use them.
- Contents of mails and reports (MIME, archives, XML): a part is XML, other or
  corrupt; an object is a valid report or not; a record is its source address.
- Several tenants: every key, row and document carries its tenant, and no
  operation touches two. One tenant is modelled.
- Time: TTLs, countdowns and timeouts are events that may happen at any moment
  the code allows, not durations, except in `LoginThrottle` and `WriteLimiter`,
  whose properties are about windows: there time passes in ticks.

Worth proving next: an ingestion from mail to verdict that `CollectedMail` and
`IngestedReport` describe together, with the parse queue as interface, so that the
two refinements compose; and, for each liveness property, the invariant that says
what a waiting task waits for, as `NobodyIsStuck` does for the upserts.
