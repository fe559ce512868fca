------------------------------ MODULE Collector ------------------------------
(***************************************************************************)
(* The mailbox collector: Celery tasks that drain one IMAP mailbox into    *)
(* object storage and enqueue a parse task for every XML part              *)
(* (backend/app/workers/tasks/collect.py and services/collector).           *)
(*                                                                         *)
(* Tasks for the same mailbox run in different worker processes and meet   *)
(* only in four stores: the IMAP \Seen flags, two families of Redis keys,  *)
(* the MinIO bucket and the parse queue.  One action is one call on one of *)
(* those stores; between two actions any other task may run, and every     *)
(* call may fail, including "applied, but the answer was lost".            *)
(***************************************************************************)
EXTENDS Naturals, Sequences

CONSTANTS
  Task,        \* slots for collect_mailbox_reports tasks of this mailbox
  Message,     \* IMAP uids that may arrive in the mailbox
  Parts,       \* Parts[m]: the decompressed parts of m, in upload order
  MaxRetries,  \* max_retries of the Celery task (5 in the code)
  MaxAdverse,  \* bound on failures, crashes, re-marked mails, expired keys
  NoTask,      \* null value
  NoMessage    \* null value

\* "corrupt" stands for an attachment whose decompression raises.
PartKind == {"xml", "other", "corrupt"}

ASSUME PartsAssumption   == Parts \in [Message -> Seq(PartKind)]
ASSUME RetriesAssumption == MaxRetries \in Nat /\ MaxAdverse \in Nat
ASSUME NullAssumption    == NoTask \notin Task /\ NoMessage \notin Message

\* Object names are a function of uid and part number; number 0 is the
\* message.eml stored for a message without attachments.
Object == UNION { {m} \X (0 .. Len(Parts[m])) : m \in Message }

VARIABLES
  mail,        \* IMAP server: absent, unseen or seen, per message
  runKey,      \* Redis: key collect:run:{tenant}:{mailbox}, absent or held
  msgKeys,     \* Redis: messages whose collect:message:... key exists
  objects,     \* MinIO: stored objects
  parseTasks,  \* number of parse tasks ever enqueued, per object
  pc,          \* control state of each task
  retries,     \* self.request.retries
  uids,        \* uids found by SEARCH UNSEEN and not fetched yet
  batch,       \* messages fetched and not looked at yet
  cur,         \* the message being processed
  pos,         \* number of the next part of cur
  \* history variables
  owner,       \* the task whose SET created the present run key
  outlived,    \* tasks whose run key expired while they were still running
  expired,     \* how often the key of each message has expired
  done,        \* messages counted in processed_messages
  adverse      \* adverse events so far

redis   == <<runKey, msgKeys>>
stores  == <<mail, redis, objects, parseTasks>>
local   == <<uids, batch, cur, pos>>
history == <<outlived, expired, done>>
vars    == <<stores, pc, retries, local, owner, history, adverse>>

-----------------------------------------------------------------------------

\* Control states inside the try block of _collect_mailbox_reports_async: the
\* task believes it holds the run key and will delete it in the finally clause.
Imap   == {"search", "fetch", "logout"}
InRun  == Imap \cup {"claim", "store", "enqueue", "finish", "fail"}
PC     == {"idle", "queued", "retry"} \cup InRun

TypeOK ==
  /\ mail \in [Message -> {"absent", "unseen", "seen"}]
  /\ runKey \in {"absent", "held"}
  /\ msgKeys \subseteq Message
  /\ objects \subseteq Object
  /\ parseTasks \in [Object -> Nat]
  /\ pc \in [Task -> PC]
  /\ retries \in [Task -> 0 .. MaxRetries]
  /\ uids \in [Task -> SUBSET Message]
  /\ batch \in [Task -> SUBSET Message]
  /\ cur \in [Task -> Message \cup {NoMessage}]
  /\ pos \in [Task -> Nat \ {0}]
  /\ owner \in Task \cup {NoTask}
  /\ outlived \subseteq Task
  /\ expired \in [Message -> Nat]
  /\ done \subseteq Message
  /\ adverse \in 0 .. MaxAdverse

Init ==
  /\ mail = [m \in Message |-> "absent"]
  /\ runKey = "absent"
  /\ msgKeys = {}
  /\ objects = {}
  /\ parseTasks = [o \in Object |-> 0]
  /\ pc = [t \in Task |-> "idle"]
  /\ retries = [t \in Task |-> 0]
  /\ uids = [t \in Task |-> {}]
  /\ batch = [t \in Task |-> {}]
  /\ cur = [t \in Task |-> NoMessage]
  /\ pos = [t \in Task |-> 1]
  /\ owner = NoTask
  /\ outlived = {}
  /\ expired = [m \in Message |-> 0]
  /\ done = {}
  /\ adverse = 0

-----------------------------------------------------------------------------
(* Helpers                                                                 *)

Goto(t, label) == pc' = [pc EXCEPT ![t] = label]

\* An adverse event happens; MaxAdverse bounds them.
Mishap == adverse < MaxAdverse /\ adverse' = adverse + 1

\* The task's local variables go out of scope.
Forget(t) ==
  /\ uids' = [uids EXCEPT ![t] = {}]
  /\ batch' = [batch EXCEPT ![t] = {}]
  /\ cur' = [cur EXCEPT ![t] = NoMessage]
  /\ pos' = [pos EXCEPT ![t] = 1]

\* The effect of a store call that raises: not applied, or applied and only
\* the answer was lost.
MayHappen(x, new) == x' \in {x, new}

-----------------------------------------------------------------------------
(* Scheduling                                                              *)

\* The beat schedule or the manual-trigger endpoint enqueues a task.
Trigger(t) ==
  /\ pc[t] = "idle"
  /\ Goto(t, "queued")
  /\ retries' = [retries EXCEPT ![t] = 0]
  /\ UNCHANGED <<stores, local, owner, history, adverse>>

\* SET run_key "1" NX EX 300 succeeds.
AcquireRunKey(t) ==
  /\ pc[t] = "queued" /\ runKey = "absent"
  /\ runKey' = "held"
  /\ owner' = t
  /\ Goto(t, "search")
  /\ UNCHANGED <<mail, msgKeys, objects, parseTasks, retries, local, history,
                 adverse>>

\* Variants of AlreadyRunning with a slip, for the runs' mutants: the early
\* return moved inside the try block, and contention treated as a failure.
AlreadyRunningInsideTry(t) ==
  /\ pc[t] = "queued" /\ runKey = "held"
  /\ runKey' = "absent" /\ owner' = NoTask
  /\ Goto(t, "idle")
  /\ UNCHANGED <<mail, msgKeys, objects, parseTasks, retries, local, history,
                 adverse>>

AlreadyRunningRequeues(t) ==
  /\ pc[t] = "queued" /\ runKey = "held"
  /\ Goto(t, "queued")
  /\ UNCHANGED <<stores, retries, local, owner, history, adverse>>

\* The key is taken: the task returns already_running without touching it.
AlreadyRunning(t) ==
  /\ pc[t] = "queued" /\ runKey = "held"
  /\ Goto(t, "idle")
  /\ UNCHANGED <<stores, retries, local, owner, history, adverse>>

\* Redis fails on the SET, outside the try block: nothing deletes the key.
AcquireFails(t) ==
  /\ pc[t] = "queued" /\ Mishap
  /\ MayHappen(runKey, "held")
  /\ owner' = IF runKey = "held" THEN owner ELSE NoTask
  /\ Goto(t, "retry")
  /\ UNCHANGED <<mail, msgKeys, objects, parseTasks, retries, local, history>>

-----------------------------------------------------------------------------
(* fetch_unseen_messages                                                   *)

\* Connect, LOGIN, SELECT and UID SEARCH UNSEEN.
Search(t) ==
  /\ pc[t] = "search"
  /\ uids' = [uids EXCEPT ![t] = {m \in Message : mail[m] = "unseen"}]
  /\ Goto(t, "fetch")
  /\ UNCHANGED <<stores, retries, batch, cur, pos, owner, history, adverse>>

FetchKeepsLast(t) ==
  /\ pc[t] = "fetch"
  /\ \E m \in uids[t] :
       /\ uids' = [uids EXCEPT ![t] = @ \ {m}]
       /\ batch' = [batch EXCEPT ![t] = {m}]
       /\ mail' = [mail EXCEPT ![m] = "seen"]
  /\ UNCHANGED <<redis, objects, parseTasks, pc, retries, cur, pos, owner,
                 history, adverse>>

\* Variant: the answer to the form that is tried next is not recognised.
FetchPeeksInVain(t) ==
  /\ pc[t] = "fetch"
  /\ \E m \in uids[t] :
       /\ uids' = [uids EXCEPT ![t] = @ \ {m}]
       /\ \/ UNCHANGED <<mail, batch>>
          \/ /\ batch' = [batch EXCEPT ![t] = @ \cup {m}]
             /\ mail' = [mail EXCEPT ![m] = "seen"]
  /\ UNCHANGED <<redis, objects, parseTasks, pc, retries, cur, pos, owner,
                 history, adverse>>

\* UID FETCH of one message.  (RFC822) sets \Seen; a server that only accepts
\* the later BODY.PEEK[] form leaves the flag alone.
Fetch(t) ==
  /\ pc[t] = "fetch"
  /\ \E m \in uids[t] :
       /\ uids' = [uids EXCEPT ![t] = @ \ {m}]
       /\ batch' = [batch EXCEPT ![t] = @ \cup {m}]
       /\ mail' \in {mail, [mail EXCEPT ![m] = "seen"]}
  /\ UNCHANGED <<redis, objects, parseTasks, pc, retries, cur, pos, owner,
                 history, adverse>>

\* No fetch form yields a payload: the message is dropped from the run,
\* whatever its flag is by now.
FetchYieldsNothing(t) ==
  /\ pc[t] = "fetch" /\ Mishap
  /\ \E m \in uids[t] :
       /\ uids' = [uids EXCEPT ![t] = @ \ {m}]
       /\ mail' \in {mail, [mail EXCEPT ![m] = "seen"]}
  /\ UNCHANGED <<redis, objects, parseTasks, pc, retries, batch, cur, pos,
                 owner, history>>

FetchedAll(t) ==
  /\ pc[t] = "fetch" /\ uids[t] = {}
  /\ Goto(t, "logout")
  /\ UNCHANGED <<stores, retries, local, owner, history, adverse>>

Logout(t) ==
  /\ pc[t] = "logout"
  /\ Goto(t, "claim")
  /\ UNCHANGED <<stores, retries, local, owner, history, adverse>>

\* Any IMAP call raises, the LOGOUT after a complete fetch included: the
\* messages already fetched are forgotten with the exception.
ImapFails(t) ==
  /\ pc[t] \in Imap /\ Mishap
  /\ Goto(t, "fail")
  /\ Forget(t)
  /\ UNCHANGED <<stores, retries, owner, history>>

-----------------------------------------------------------------------------
(* The loop over the fetched messages                                      *)

\* SET collect:message:... NX EX 7d finds the key: skipped_messages += 1.
Skip(t) ==
  /\ pc[t] = "claim"
  /\ \E m \in batch[t] \cap msgKeys : batch' = [batch EXCEPT ![t] = @ \ {m}]
  /\ UNCHANGED <<stores, pc, retries, uids, cur, pos, owner, history, adverse>>

ClaimRegardless(t) ==
  /\ pc[t] = "claim"
  /\ \E m \in batch[t] :
       /\ batch' = [batch EXCEPT ![t] = @ \ {m}]
       /\ msgKeys' = msgKeys \cup {m}
       /\ cur' = [cur EXCEPT ![t] = m]
  /\ pos' = [pos EXCEPT ![t] = 1]
  /\ Goto(t, "store")
  /\ UNCHANGED <<mail, runKey, objects, parseTasks, retries, uids, owner,
                 history, adverse>>

\* The SET creates the key: the message is now this run's, before anything
\* of it has been stored.
Claim(t) ==
  /\ pc[t] = "claim"
  /\ \E m \in batch[t] \ msgKeys :
       /\ batch' = [batch EXCEPT ![t] = @ \ {m}]
       /\ msgKeys' = msgKeys \cup {m}
       /\ cur' = [cur EXCEPT ![t] = m]
  /\ pos' = [pos EXCEPT ![t] = 1]
  /\ Goto(t, "store")
  /\ UNCHANGED <<mail, runKey, objects, parseTasks, retries, uids, owner,
                 history, adverse>>

ClaimFails(t) ==
  /\ pc[t] = "claim" /\ Mishap
  /\ \E m \in batch[t] : MayHappen(msgKeys, msgKeys \cup {m})
  /\ Goto(t, "fail")
  /\ Forget(t)
  /\ UNCHANGED <<mail, runKey, objects, parseTasks, retries, owner, history>>

\* The part being uploaded; a message without attachments is stored whole.
Target(t) == <<cur[t], IF Parts[cur[t]] = <<>> THEN 0 ELSE pos[t]>>

\* True while the loop over attachments and items has an item left.
PartLeft(t) == pos[t] <= Len(Parts[cur[t]])

\* Mutant: the upload of an XML part is not awaited.
StoreInBackground(t) ==
  /\ pc[t] = "store" /\ PartLeft(t)
  /\ LET kind == Parts[cur[t]][pos[t]] IN
       /\ kind # "corrupt"
       /\ IF kind = "xml"
            THEN Goto(t, "enqueue") /\ UNCHANGED <<objects, pos>>
            ELSE /\ objects' = objects \cup {Target(t)}
                 /\ pos' = [pos EXCEPT ![t] = @ + 1]
                 /\ UNCHANGED pc
  /\ UNCHANGED <<mail, redis, parseTasks, retries, uids, batch, cur, owner,
                 history, adverse>>

\* upload_bytes of one part; only an XML part goes on to the parse queue.
Store(t) ==
  /\ pc[t] = "store" /\ PartLeft(t)
  /\ LET kind == Parts[cur[t]][pos[t]] IN
       /\ kind # "corrupt"
       /\ objects' = objects \cup {Target(t)}
       /\ IF kind = "xml"
            THEN Goto(t, "enqueue") /\ UNCHANGED pos
            ELSE pos' = [pos EXCEPT ![t] = @ + 1] /\ UNCHANGED pc
  /\ UNCHANGED <<mail, redis, parseTasks, retries, uids, batch, cur, owner,
                 history, adverse>>

\* upload_bytes raises.
StoreFails(t) ==
  /\ pc[t] = "store" /\ Mishap
  /\ \/ PartLeft(t) /\ Parts[cur[t]][pos[t]] # "corrupt"
     \/ Parts[cur[t]] = <<>>
  /\ MayHappen(objects, objects \cup {Target(t)})
  /\ Goto(t, "fail")
  /\ Forget(t)
  /\ UNCHANGED <<mail, redis, parseTasks, retries, owner, history>>

\* Variant: the part is skipped, and the message counted as processed.
DecompressSkipsPart(t) ==
  /\ pc[t] = "store" /\ PartLeft(t)
  /\ Parts[cur[t]][pos[t]] = "corrupt"
  /\ pos' = [pos EXCEPT ![t] = @ + 1]
  /\ UNCHANGED <<stores, pc, retries, uids, batch, cur, owner, history, adverse>>

\* decompress raises AttachmentDecompressionError: the whole run fails.
DecompressFails(t) ==
  /\ pc[t] = "store" /\ PartLeft(t)
  /\ Parts[cur[t]][pos[t]] = "corrupt"
  /\ Goto(t, "fail")
  /\ Forget(t)
  /\ UNCHANGED <<stores, retries, owner, history, adverse>>

EnqueueWithoutAdvance(t) ==
  /\ pc[t] = "enqueue"
  /\ parseTasks' = [parseTasks EXCEPT ![Target(t)] = @ + 1]
  /\ Goto(t, "store")
  /\ UNCHANGED <<mail, redis, objects, retries, local, owner, history, adverse>>

\* parse_report_object.delay for the object just stored.
Enqueue(t) ==
  /\ pc[t] = "enqueue"
  /\ parseTasks' = [parseTasks EXCEPT ![Target(t)] = @ + 1]
  /\ pos' = [pos EXCEPT ![t] = @ + 1]
  /\ Goto(t, "store")
  /\ UNCHANGED <<mail, redis, objects, retries, uids, batch, cur, owner,
                 history, adverse>>

\* The broker is unreachable, or took the task and the answer was lost.
EnqueueFails(t) ==
  /\ pc[t] = "enqueue" /\ Mishap
  /\ MayHappen(parseTasks, [parseTasks EXCEPT ![Target(t)] = @ + 1])
  /\ Goto(t, "fail")
  /\ Forget(t)
  /\ UNCHANGED <<mail, redis, objects, retries, owner, history>>

\* processed_messages += 1: after the last part, or after storing message.eml
\* for a message without attachments.
MessageDone(t) ==
  /\ pc[t] = "store" /\ ~PartLeft(t)
  /\ done' = done \cup {cur[t]}
  /\ objects' = IF Parts[cur[t]] = <<>> THEN objects \cup {Target(t)} ELSE objects
  /\ cur' = [cur EXCEPT ![t] = NoMessage]
  /\ Goto(t, "claim")
  /\ UNCHANGED <<mail, redis, parseTasks, retries, uids, batch, pos, owner,
                 outlived, expired, adverse>>

AllMessagesDone(t) ==
  /\ pc[t] = "claim" /\ batch[t] = {}
  /\ Goto(t, "finish")
  /\ UNCHANGED <<stores, retries, local, owner, history, adverse>>

-----------------------------------------------------------------------------
(* The finally clause and the retry                                        *)

\* DEL run_key, whoever created it, after success or failure.
Release(t) ==
  /\ pc[t] \in {"finish", "fail"}
  /\ runKey' = "absent"
  /\ owner' = NoTask
  /\ Goto(t, IF pc[t] = "finish" THEN "idle" ELSE "retry")
  /\ UNCHANGED <<mail, msgKeys, objects, parseTasks, retries, local, history,
                 adverse>>

\* The DEL raises; even a successful run is retried then.
ReleaseFails(t) ==
  /\ pc[t] \in {"finish", "fail"} /\ Mishap
  /\ MayHappen(runKey, "absent")
  /\ owner' = IF runKey' = "held" THEN owner ELSE NoTask
  /\ Goto(t, "retry")
  /\ UNCHANGED <<mail, msgKeys, objects, parseTasks, retries, local, history>>

RetryOnceMore(t) ==
  /\ pc[t] = "retry"
  /\ IF retries[t] <= MaxRetries
       THEN Goto(t, "queued") /\ retries' = [retries EXCEPT ![t] = @ + 1]
       ELSE Goto(t, "idle") /\ UNCHANGED retries
  /\ UNCHANGED <<stores, local, owner, history, adverse>>

\* self.retry: back to the queue, or the task fails for good.
Retry(t) ==
  /\ pc[t] = "retry"
  /\ IF retries[t] < MaxRetries
       THEN Goto(t, "queued") /\ retries' = [retries EXCEPT ![t] = @ + 1]
       ELSE Goto(t, "idle") /\ UNCHANGED retries
  /\ UNCHANGED <<stores, local, owner, history, adverse>>

\* The worker process dies.  Tasks are acknowledged when they start, so the
\* broker does not redeliver, and the finally clause does not run.
Crash(t) ==
  /\ pc[t] \in InRun \cup {"retry"} /\ Mishap
  /\ Goto(t, "idle")
  /\ Forget(t)
  /\ UNCHANGED <<stores, retries, owner, history>>

-----------------------------------------------------------------------------
(* The environment: Redis time-to-live, the IMAP server, the mailbox user  *)

\* RUN_LOCK_TTL_SECONDS pass.  Nothing bounds how long a run takes, so the key
\* may expire under a run that is still going.
RunKeyExpires ==
  /\ runKey = "held"
  /\ runKey' = "absent"
  /\ owner' = NoTask
  /\ outlived' = outlived \cup {t \in Task : t = owner /\ pc[t] \in InRun}
  /\ UNCHANGED <<mail, msgKeys, objects, parseTasks, pc, retries, local,
                 expired, done, adverse>>

\* MESSAGE_IDEMPOTENCY_TTL_SECONDS pass.  No run spends seven days on one message.
MessageKeyExpires(m) ==
  /\ m \in msgKeys /\ Mishap
  /\ \A t \in Task : cur[t] # m
  /\ msgKeys' = msgKeys \ {m}
  /\ expired' = [expired EXCEPT ![m] = @ + 1]
  /\ UNCHANGED <<mail, runKey, objects, parseTasks, pc, retries, local, owner,
                 outlived, done>>

MailArrives(m) ==
  /\ mail[m] = "absent"
  /\ mail' = [mail EXCEPT ![m] = "unseen"]
  /\ UNCHANGED <<redis, objects, parseTasks, pc, retries, local, owner,
                 history, adverse>>

\* Somebody marks a mail unread in another mail client.
MarkUnread(m) ==
  /\ mail[m] = "seen" /\ Mishap
  /\ mail' = [mail EXCEPT ![m] = "unseen"]
  /\ UNCHANGED <<redis, objects, parseTasks, pc, retries, local, owner, history>>

-----------------------------------------------------------------------------

\* What a running worker does when every call succeeds.
Progress(t) ==
  \/ AcquireRunKey(t) \/ AlreadyRunning(t)
  \/ Search(t) \/ Fetch(t) \/ FetchedAll(t) \/ Logout(t)
  \/ Skip(t) \/ Claim(t) \/ Store(t) \/ Enqueue(t) \/ DecompressFails(t)
  \/ MessageDone(t) \/ AllMessagesDone(t)
  \/ Release(t) \/ Retry(t)

Failure(t) ==
  \/ AcquireFails(t) \/ ImapFails(t) \/ FetchYieldsNothing(t)
  \/ ClaimFails(t) \/ StoreFails(t) \/ EnqueueFails(t) \/ ReleaseFails(t)
  \/ Crash(t)

Environment ==
  \/ RunKeyExpires
  \/ \E m \in Message : MessageKeyExpires(m) \/ MailArrives(m) \/ MarkUnread(m)

Next ==
  \/ \E t \in Task : Trigger(t) \/ Progress(t) \/ Failure(t)
  \/ Environment

Spec == Init /\ [][Next]_vars

\* Beat keeps polling, a live worker keeps working and Redis expires keys;
\* nothing obliges mails to arrive or calls to fail.
Fairness ==
  /\ \A t \in Task : WF_vars(Trigger(t)) /\ WF_vars(Progress(t))
  /\ WF_vars(RunKeyExpires)

FairSpec == Spec /\ Fairness

-----------------------------------------------------------------------------
(* Properties                                                              *)

\* Two runs are never inside the same message, even when the run key has
\* expired or was deleted by a run that did not own it: the message key is
\* what keeps them apart (_acquire_message_idempotency).
MessageExclusive ==
  \A t, u \in Task : cur[t] # NoMessage /\ cur[t] = cur[u] => t = u

\* However often a message is fetched, retried or fetched by overlapping runs,
\* an object is handed to the parse queue at most once per life of the
\* message's Redis key.
AtMostOnceParse ==
  \A o \in Object : parseTasks[o] <= 1 + expired[o[1]]

\* A parse task never names an object that is not in storage: the upload is
\* awaited before the enqueue, also when either call fails half-way.
ParseTaskHasObject ==
  \A o \in Object : parseTasks[o] > 0 => o \in objects

\* A message counted as processed is completely stored and each of its XML
\* parts reached the parse queue.
DoneIsComplete ==
  \A m \in done :
    /\ Parts[m] = <<>> => <<m, 0>> \in objects
    /\ \A k \in DOMAIN Parts[m] :
         /\ Parts[m][k] # "corrupt"
         /\ <<m, k>> \in objects
         /\ Parts[m][k] = "xml" => parseTasks[<<m, k>>] > 0

\* Runs overlap only after a run has outlived its key's time to live: no
\* failure, crash, ambiguous Redis answer or early return opens the lock.
NoOverlapUntilOutlived ==
  outlived = {} => \A t, u \in Task : pc[t] \in InRun /\ pc[u] \in InRun => t = u

\* The part of m that the run whose current message it is has come to.
At(m) ==
  IF \E t \in Task : cur[t] = m THEN pos[CHOOSE t \in Task : cur[t] = m] ELSE 0

Promise == INSTANCE CollectedMail WITH
  claimed <- msgKeys, at <- [m \in Message |-> At(m)]

\* The runs of a mailbox, with failures, crashes, overlaps and expired keys,
\* implement CollectedMail: together they are as careful with a mail as one run
\* that nobody disturbs, and a mail given up half-way is left alone until its
\* key expires.
ImplementsCollectedMail == Promise!Spec

\* Every part of every mail can be decompressed.
AllReadable ==
  \A m \in Message : \A k \in DOMAIN Parts[m] : Parts[m][k] # "corrupt"

\* As long as nothing failed, a mail that has been marked seen on the server is
\* processed or in the hands of a run, although its key says "claimed" before
\* anything is stored and runs may overlap.
NoLossWithoutFailure ==
  adverse = 0 /\ AllReadable =>
    \A m \in Message : mail[m] = "seen" =>
      m \in done \/ \E t \in Task : m \in batch[t] \cup {cur[t]}

Collected(m) ==
  /\ Parts[m] = <<>> => <<m, 0>> \in objects
  /\ \A k \in DOMAIN Parts[m] :
       /\ <<m, k>> \in objects
       /\ Parts[m][k] = "xml" => parseTasks[<<m, k>>] > 0

\* Every readable mail that arrives is eventually stored and its XML enqueued.
EveryMailCollected ==
  \A m \in Message :
    (\A k \in DOMAIN Parts[m] : Parts[m][k] # "corrupt")
      => (mail[m] = "unseen" ~> Collected(m))

RunPhase ==
  [queued |-> 1, search |-> 2, fetch |-> 3, logout |-> 4, claim |-> 5, store |-> 5,
   enqueue |-> 5, finish |-> 6, fail |-> 6, retry |-> 7, idle |-> 8]

Shrinks(S, t) == S'[t] \subseteq S[t] /\ S'[t] # S[t]

\* A task comes nearer to its end: by a retry, of which there are MaxRetries, by a
\* call within a run, by one of the messages left, or by a part of the present one.
RunAdvances(t) ==
  \/ pc[t] = "retry" /\ retries'[t] = retries[t] + 1
  \/ /\ retries'[t] = retries[t]
     /\ \/ RunPhase[pc'[t]] > RunPhase[pc[t]]
        \/ pc'[t] = "fetch" /\ pc[t] = "fetch" /\ Shrinks(uids, t)
        \/ /\ RunPhase[pc'[t]] = 5 /\ RunPhase[pc[t]] = 5
           /\ \/ Shrinks(batch, t)
              \/ /\ batch'[t] = batch[t] /\ cur[t] # NoMessage
                 /\ \/ cur'[t] = NoMessage
                    \/ /\ cur'[t] = cur[t]
                       /\ \/ pos'[t] = pos[t] + 1 /\ PartLeft(t)
                          \/ pos'[t] = pos[t] /\ pc[t] = "store" /\ pc'[t] = "enqueue"

RunStays(t) ==
  /\ pc'[t] = pc[t] /\ retries'[t] = retries[t] /\ uids'[t] = uids[t]
  /\ batch'[t] = batch[t] /\ cur'[t] = cur[t] /\ pos'[t] = pos[t]

\* No step sets a run back: not a failure, not a lost answer, not another run
\* inside the same mailbox, not mail that arrives meanwhile.  A message is left
\* only for one not looked at yet, and a new task begins only where one has ended.
RunsAdvance ==
  [][\A t \in Task :
       \/ RunStays(t) \/ RunAdvances(t)
       \/ pc[t] = "idle" /\ pc'[t] = "queued" /\ retries'[t] = 0]_vars

\* Every task that was enqueued ends: contention does not make it spin and the
\* retries run out.
TaskTerminates == \A t \in Task : pc[t] = "queued" ~> pc[t] = "idle"

\* Every mail that arrives is taken up: it is fetched and marked seen, or a run
\* claims it.  A key left behind by a crashed worker or a lost answer, a fetch that
\* yields nothing, a failing archive and contention only put that off to a later
\* poll.  What becomes of it after that is EveryMailCollected.
EveryMailTakenUp ==
  \A m \in Message : mail[m] = "unseen" ~> mail[m] = "seen" \/ m \in msgKeys
=============================================================================
