-------------------------- MODULE Collector_proofs --------------------------
(* Theorems about the mailbox collector, for every number of tasks and     *)
(* messages, every message content and every number of failures.           *)
EXTENDS Collector, TLAPS

\* What every step of a task or of the environment is: the case split that
\* the proofs below share.
LEMMA StepCases ==
  ASSUME [Next]_vars
  PROVE  \/ \E t \in Task : Trigger(t) \/ Progress(t) \/ Failure(t)
         \/ RunKeyExpires
         \/ \E m \in Message :
              MessageKeyExpires(m) \/ MailArrives(m) \/ MarkUnread(m)
         \/ UNCHANGED vars
  BY DEF Next, Environment

\* The parts of a message are a sequence of known kinds.
LEMMA PartsType ==
  ASSUME NEW m \in Message
  PROVE  /\ Parts[m] \in Seq(PartKind)
         /\ Len(Parts[m]) \in Nat
         /\ DOMAIN Parts[m] = 1 .. Len(Parts[m])
         /\ Parts[m] = <<>> <=> Len(Parts[m]) = 0
  BY PartsAssumption

\* Object names are exactly the pairs of a message and one of its part numbers.
LEMMA ObjectDef ==
  ASSUME NEW m \in Message, NEW k \in 0 .. Len(Parts[m])
  PROVE  <<m, k>> \in Object
  BY DEF Object

\* And every object name is such a pair.
LEMMA ObjectPair ==
  ASSUME NEW o \in Object
  PROVE  /\ o[1] \in Message
         /\ o[2] \in 0 .. Len(Parts[o[1]])
         /\ o = <<o[1], o[2]>>
  BY DEF Object

-----------------------------------------------------------------------------
(* The type invariant, and the control invariant it rests on               *)

\* A task has a current message exactly while it stores and enqueues parts.
CurrentOK == \A t \in Task : pc[t] \in {"store", "enqueue"} <=> cur[t] # NoMessage

\* A task about to enqueue has just stored an XML part of its message.
EnqueueOK ==
  \A t \in Task : pc[t] = "enqueue" =>
    /\ PartLeft(t)
    /\ Parts[cur[t]][pos[t]] = "xml"
    /\ Target(t) \in objects

ControlInv == TypeOK /\ CurrentOK /\ EnqueueOK

\* The object a processing task is at is an object name.
LEMMA TargetObject ==
  ASSUME TypeOK, CurrentOK, NEW t \in Task, pc[t] \in {"store", "enqueue"},
         PartLeft(t) \/ Parts[cur[t]] = <<>>
  PROVE  /\ cur[t] \in Message
         /\ Target(t) \in Object
         /\ PartLeft(t) => /\ pos[t] \in DOMAIN Parts[cur[t]]
                           /\ Target(t) = <<cur[t], pos[t]>>
<1>1. cur[t] \in Message
  BY DEF TypeOK, CurrentOK
<1>2. pos[t] \in Nat \ {0}
  BY DEF TypeOK
<1>3. CASE PartLeft(t)
  <2>1. pos[t] \in 1 .. Len(Parts[cur[t]]) /\ Parts[cur[t]] # <<>>
    BY <1>1, <1>2, <1>3, PartsType DEF PartLeft
  <2>2. Target(t) = <<cur[t], pos[t]>>
    BY <2>1 DEF Target
  <2>3. QED
    BY <1>1, <2>1, <2>2, PartsType, ObjectDef
<1>4. CASE ~PartLeft(t)
  <2>1. Target(t) = <<cur[t], 0>>
    BY <1>4 DEF Target
  <2>2. QED
    BY <1>1, <1>4, <2>1, PartsType, ObjectDef
<1>5. QED
  BY <1>3, <1>4

\* Every step keeps the types and the control invariant.
LEMMA ControlInvStep ==
  ASSUME ControlInv, [Next]_vars
  PROVE  ControlInv'
<1>0. TypeOK /\ CurrentOK /\ EnqueueOK
  BY DEF ControlInv
<1>1. TypeOK'
  <2> USE <1>0, RetriesAssumption, NullAssumption
      DEF TypeOK, PC, InRun, Imap, Goto, Mishap, MayHappen, Forget,
          stores, redis, local, history
  <2>1. ASSUME NEW t \in Task, Trigger(t) \/ AlreadyRunning(t) \/ AcquireRunKey(t)
        PROVE  TypeOK'
    BY <2>1 DEF Trigger, AlreadyRunning, AcquireRunKey
  <2>2. ASSUME NEW t \in Task, AcquireFails(t)
        PROVE  TypeOK'
    BY <2>2 DEF AcquireFails
  <2>3. ASSUME NEW t \in Task, Search(t) \/ Fetch(t) \/ FetchedAll(t) \/ Logout(t)
        PROVE  TypeOK'
    BY <2>3 DEF Search, Fetch, FetchedAll, Logout
  <2>4. ASSUME NEW t \in Task, FetchYieldsNothing(t) \/ ImapFails(t)
        PROVE  TypeOK'
    BY <2>4 DEF FetchYieldsNothing, ImapFails
  <2>5. ASSUME NEW t \in Task, Skip(t) \/ Claim(t) \/ AllMessagesDone(t)
        PROVE  TypeOK'
    BY <2>5 DEF Skip, Claim, AllMessagesDone
  <2>6. ASSUME NEW t \in Task, ClaimFails(t) \/ DecompressFails(t)
        PROVE  TypeOK'
    BY <2>6 DEF ClaimFails, DecompressFails
  <2>7. ASSUME NEW t \in Task, Store(t) PROVE TypeOK'
    <3>1. Target(t) \in Object /\ cur[t] \in Message
      BY <2>7, TargetObject DEF Store, CurrentOK
    <3>2. QED
      BY <2>7, <3>1 DEF Store
  <2>8. ASSUME NEW t \in Task, StoreFails(t) PROVE TypeOK'
    <3>1. Target(t) \in Object /\ cur[t] \in Message
      BY <2>8, TargetObject DEF StoreFails, CurrentOK
    <3>2. QED
      BY <2>8, <3>1 DEF StoreFails
  <2>9. ASSUME NEW t \in Task, Enqueue(t) PROVE TypeOK'
    <3>1. Target(t) \in Object /\ cur[t] \in Message
      BY <2>9, TargetObject DEF EnqueueOK, Enqueue, CurrentOK
    <3>2. QED
      BY <2>9, <3>1 DEF Enqueue
  <2>10. ASSUME NEW t \in Task, EnqueueFails(t) PROVE TypeOK'
    <3>1. Target(t) \in Object /\ cur[t] \in Message
      BY <2>10, TargetObject DEF EnqueueOK, EnqueueFails, CurrentOK
    <3>2. QED
      BY <2>10, <3>1 DEF EnqueueFails
  <2>11. ASSUME NEW t \in Task, MessageDone(t) PROVE TypeOK'
    <3>1. /\ Parts[cur[t]] = <<>> => Target(t) \in Object
          /\ cur[t] \in Message
      BY <2>11, TargetObject DEF MessageDone, CurrentOK, TypeOK
    <3>2. QED
      BY <2>11, <3>1 DEF MessageDone
  <2>12. ASSUME NEW t \in Task, Release(t) \/ ReleaseFails(t)
        PROVE  TypeOK'
    BY <2>12 DEF Release, ReleaseFails
  <2>13. ASSUME NEW t \in Task, Retry(t) \/ Crash(t)
        PROVE  TypeOK'
    BY <2>13 DEF Retry, Crash
  <2>14. CASE RunKeyExpires
    BY <2>14 DEF RunKeyExpires
  <2>15. ASSUME NEW m \in Message,
                MessageKeyExpires(m) \/ MailArrives(m) \/ MarkUnread(m)
         PROVE  TypeOK'
    BY <2>15 DEF MessageKeyExpires, MailArrives, MarkUnread
  <2>16. CASE UNCHANGED vars
    BY <2>16 DEF vars
  <2>17. QED
    BY StepCases, <2>1, <2>2, <2>3, <2>4, <2>5, <2>6, <2>7, <2>8, <2>9, <2>10, <2>11, <2>12, <2>13, <2>14, <2>15, <2>16
    DEF Progress, Failure
<1>2. CurrentOK'
  <2> USE <1>0, NullAssumption
      DEF TypeOK, CurrentOK, Goto, Forget, stores, redis, local, history,
          InRun, Imap
  <2>1. ASSUME NEW t \in Task, Progress(t) PROVE CurrentOK'
    BY <2>1 DEF Progress, AcquireRunKey, AlreadyRunning, Search, Fetch,
       FetchedAll, Logout, Skip, Claim, Store, Enqueue, DecompressFails,
       MessageDone, AllMessagesDone, Release, Retry
  <2>2. ASSUME NEW t \in Task, Trigger(t) \/ Failure(t) PROVE CurrentOK'
    BY <2>2 DEF Trigger, Failure, AcquireFails, ImapFails,
       FetchYieldsNothing, ClaimFails, StoreFails, EnqueueFails,
       ReleaseFails, Crash
  <2>3. ASSUME \/ RunKeyExpires
               \/ \E m \in Message :
                    MessageKeyExpires(m) \/ MailArrives(m) \/ MarkUnread(m)
               \/ UNCHANGED vars
        PROVE  CurrentOK'
    BY <2>3 DEF RunKeyExpires, MessageKeyExpires, MailArrives, MarkUnread, vars
  <2>4. QED
    BY StepCases, <2>1, <2>2, <2>3
<1>3. EnqueueOK'
  <2> USE <1>0, NullAssumption
      DEF TypeOK, CurrentOK, EnqueueOK, PartLeft, Target, Goto, Forget,
          stores, redis, local, history, InRun, Imap, MayHappen
  <2>1. ASSUME NEW t \in Task, Store(t) PROVE EnqueueOK'
    BY <2>1 DEF Store
  <2>2. ASSUME NEW t \in Task, Progress(t), ~Store(t) PROVE EnqueueOK'
    BY <2>2 DEF Progress, AcquireRunKey, AlreadyRunning, Search, Fetch,
       FetchedAll, Logout, Skip, Claim, Enqueue, DecompressFails,
       MessageDone, AllMessagesDone, Release, Retry
  <2>3. ASSUME NEW t \in Task, Trigger(t) \/ Failure(t) PROVE EnqueueOK'
    <3>1. CASE \/ Trigger(t) \/ AcquireFails(t) \/ FetchYieldsNothing(t)
               \/ ReleaseFails(t)
      BY <3>1 DEF Trigger, AcquireFails, FetchYieldsNothing, ReleaseFails
    <3>2. CASE \/ ImapFails(t) \/ ClaimFails(t) \/ StoreFails(t)
               \/ EnqueueFails(t) \/ Crash(t)
      <4>1. objects \subseteq objects'
        BY <3>2
        DEF ImapFails, ClaimFails, StoreFails, EnqueueFails, Crash
      <4>2. \A u \in Task : pc'[u] = "enqueue" =>
              /\ pc[u] = "enqueue"
              /\ cur'[u] = cur[u] /\ pos'[u] = pos[u]
        BY <3>2
        DEF ImapFails, ClaimFails, StoreFails, EnqueueFails, Crash
      <4>3. QED
        BY <4>1, <4>2
    <3>3. QED
      BY <2>3, <3>1, <3>2 DEF Failure
  <2>4. ASSUME \/ RunKeyExpires
               \/ \E m \in Message :
                    MessageKeyExpires(m) \/ MailArrives(m) \/ MarkUnread(m)
               \/ UNCHANGED vars
        PROVE  EnqueueOK'
    BY <2>4 DEF RunKeyExpires, MessageKeyExpires, MailArrives, MarkUnread, vars
  <2>5. QED
    BY StepCases, <2>1, <2>2, <2>3, <2>4
<1>4. QED
  BY <1>1, <1>2, <1>3 DEF ControlInv

\* The control invariant holds throughout.
LEMMA ControlInvInductive == Spec => []ControlInv
<1>1. Init => ControlInv
  BY RetriesAssumption DEF Init, ControlInv, TypeOK, CurrentOK, EnqueueOK, PC
<1>2. QED
  BY <1>1, ControlInvStep, PTL DEF Spec

\* Every variable keeps its type: in particular the retry counter of the
\* Celery task never passes max_retries, and every object and parse task is
\* named after a part of a message.
THEOREM TypeCorrect == Spec => []TypeOK
  BY ControlInvInductive, PTL DEF ControlInv

-----------------------------------------------------------------------------
(* A message belongs to one run                                            *)

\* A step that is neither a claim nor the expiry of a message key keeps every
\* message key; a task keeps its message and moves forward in it, or drops it.
LEMMA OnlyClaimTakesMessages ==
  ASSUME ControlInv, [Next]_vars,
         \A t \in Task : ~Claim(t), \A m \in Message : ~MessageKeyExpires(m)
  PROVE  /\ msgKeys \subseteq msgKeys'
         /\ \A u \in Task : cur'[u] # NoMessage =>
               cur'[u] = cur[u] /\ pos'[u] >= pos[u]
<1> USE DEF ControlInv, TypeOK, Goto, Forget, MayHappen,
            stores, redis, local, history
<1>1. ASSUME NEW t \in Task, Progress(t)
      PROVE  /\ msgKeys \subseteq msgKeys'
             /\ \A u \in Task : cur'[u] # NoMessage =>
                  cur'[u] = cur[u] /\ pos'[u] >= pos[u]
  <2>1. CASE Store(t)
    BY <2>1 DEF Store
  <2>2. CASE Enqueue(t)
    <3>1. pos' = [pos EXCEPT ![t] = @ + 1] /\ cur' = cur /\ msgKeys' = msgKeys
      BY <2>2 DEF Enqueue
    <3>2. QED
      BY <3>1
  <2>3. CASE \/ AcquireRunKey(t) \/ AlreadyRunning(t) \/ Search(t) \/ Fetch(t)
             \/ FetchedAll(t) \/ Logout(t) \/ Skip(t) \/ AllMessagesDone(t)
             \/ Release(t) \/ Retry(t)
    BY <2>3 DEF AcquireRunKey, AlreadyRunning, Search, Fetch, FetchedAll,
       Logout, Skip, AllMessagesDone, Release, Retry
  <2>4. CASE DecompressFails(t) \/ MessageDone(t)
    BY <2>4 DEF DecompressFails, MessageDone
  <2>5. QED
    BY <1>1, <2>1, <2>2, <2>3, <2>4 DEF Progress
<1>2. ASSUME NEW t \in Task, Trigger(t) \/ Failure(t)
      PROVE  /\ msgKeys \subseteq msgKeys'
             /\ \A u \in Task : cur'[u] # NoMessage =>
               cur'[u] = cur[u] /\ pos'[u] >= pos[u]
  <2>1. CASE Trigger(t) \/ AcquireFails(t) \/ FetchYieldsNothing(t) \/ ReleaseFails(t)
    BY <2>1 DEF Trigger, AcquireFails, FetchYieldsNothing, ReleaseFails
  <2>2. CASE ImapFails(t) \/ ClaimFails(t) \/ StoreFails(t)
    BY <2>2 DEF ImapFails, ClaimFails, StoreFails
  <2>3. CASE EnqueueFails(t) \/ Crash(t)
    BY <2>3 DEF EnqueueFails, Crash
  <2>4. QED
    BY <1>2, <2>1, <2>2, <2>3 DEF Failure
<1>3. ASSUME \/ RunKeyExpires
             \/ \E m \in Message : MailArrives(m) \/ MarkUnread(m)
             \/ UNCHANGED vars
      PROVE  /\ msgKeys \subseteq msgKeys'
             /\ \A u \in Task : cur'[u] # NoMessage =>
               cur'[u] = cur[u] /\ pos'[u] >= pos[u]
  BY <1>3 DEF RunKeyExpires, MailArrives, MarkUnread, vars
<1>4. QED
  BY StepCases, <1>1, <1>2, <1>3

\* The message a task works on has its key in Redis.
KeyedOK == \A t \in Task : cur[t] # NoMessage => cur[t] \in msgKeys

ClaimInv == KeyedOK /\ MessageExclusive

\* The claim invariant holds throughout.
LEMMA ClaimInvInductive == Spec => []ClaimInv
<1>1. Init => ClaimInv
  BY DEF Init, ClaimInv, KeyedOK, MessageExclusive
<1>2. ControlInv /\ ClaimInv /\ [Next]_vars => ClaimInv'
  <2> SUFFICES ASSUME ControlInv, ClaimInv, [Next]_vars PROVE ClaimInv'
    OBVIOUS
  <2> USE DEF ClaimInv, KeyedOK, MessageExclusive
  <2>1. ASSUME NEW t \in Task, Claim(t) PROVE ClaimInv'
    \* The claimed message had no key, so no task was working on it.
    <3>1. PICK m \in batch[t] \ msgKeys :
            msgKeys' = msgKeys \cup {m} /\ cur' = [cur EXCEPT ![t] = m]
      BY <2>1 DEF Claim
    <3>2. cur'[t] = m /\ \A u \in Task \ {t} : cur'[u] = cur[u]
      BY <3>1 DEF ControlInv, TypeOK
    <3>3. \A u \in Task : cur[u] # m \/ cur[u] = NoMessage
      BY <3>1
    <3>4. QED
      BY <3>1, <3>2, <3>3
  <2>2. ASSUME NEW m \in Message, MessageKeyExpires(m) PROVE ClaimInv'
    BY <2>2 DEF MessageKeyExpires, local
  <2>3. CASE (\A t \in Task : ~Claim(t)) /\ \A m \in Message : ~MessageKeyExpires(m)
    BY <2>3, OnlyClaimTakesMessages
  <2>4. QED
    BY <2>1, <2>2, <2>3
<1>3. QED
  BY <1>1, <1>2, ControlInvInductive, PTL DEF Spec

\* Two runs are never inside the same message, whatever happened to the run
\* key (_acquire_message_idempotency, collect.py).
THEOREM MessageExclusion == Spec => []MessageExclusive
  BY ClaimInvInductive, PTL DEF ClaimInv

-----------------------------------------------------------------------------
(* The run key excludes until a run outlives it                            *)

\* While no run has outlived its key, a task inside its critical section owns
\* the key that is in Redis.
LockInv ==
  outlived = {} => \A t \in Task : pc[t] \in InRun => runKey = "held" /\ owner = t

\* The lock invariant holds throughout.
LEMMA LockInvInductive == Spec => []LockInv
<1>1. Init => LockInv
  BY DEF Init, LockInv, InRun, Imap
<1>2. ControlInv /\ LockInv /\ [Next]_vars => LockInv'
  <2> SUFFICES ASSUME ControlInv, LockInv, [Next]_vars PROVE LockInv'
    OBVIOUS
  <2> USE NullAssumption
      DEF ControlInv, TypeOK, LockInv, InRun, Imap, Goto, stores, redis,
          local, history
  <2>1. ASSUME NEW t \in Task, Trigger(t) \/ AcquireRunKey(t) \/ AlreadyRunning(t)
        PROVE  LockInv'
    BY <2>1 DEF Trigger, AcquireRunKey, AlreadyRunning
  <2>2. ASSUME NEW t \in Task, AcquireFails(t) PROVE LockInv'
    BY <2>2 DEF AcquireFails, MayHappen
  <2>3. ASSUME NEW t \in Task, Release(t) PROVE LockInv'
    BY <2>3 DEF Release
  <2>4. ASSUME NEW t \in Task, ReleaseFails(t) PROVE LockInv'
    BY <2>4 DEF ReleaseFails, MayHappen
  <2>5. ASSUME NEW t \in Task,
               \/ Search(t) \/ Fetch(t) \/ FetchedAll(t) \/ Logout(t) \/ Skip(t)
               \/ Claim(t) \/ Store(t) \/ Enqueue(t) \/ DecompressFails(t)
               \/ MessageDone(t) \/ AllMessagesDone(t) \/ Retry(t)
        PROVE  LockInv'
    BY <2>5 DEF Search, Fetch, FetchedAll, Logout, Skip, Claim, Store, Enqueue,
       DecompressFails, MessageDone, AllMessagesDone, Retry
  <2>6. ASSUME NEW t \in Task,
               \/ ImapFails(t) \/ FetchYieldsNothing(t) \/ ClaimFails(t)
               \/ StoreFails(t) \/ EnqueueFails(t) \/ Crash(t)
        PROVE  LockInv'
    BY <2>6 DEF ImapFails, FetchYieldsNothing, ClaimFails, StoreFails,
       EnqueueFails, Crash
  <2>7. CASE RunKeyExpires
    \* If nobody has outlived a key after the expiry, its owner was not running.
    BY <2>7 DEF RunKeyExpires
  <2>8. ASSUME \/ \E m \in Message :
                    MessageKeyExpires(m) \/ MailArrives(m) \/ MarkUnread(m)
               \/ UNCHANGED vars
        PROVE  LockInv'
    BY <2>8 DEF MessageKeyExpires, MailArrives, MarkUnread, vars
  <2>9. QED
    BY StepCases, <2>1, <2>2, <2>3, <2>4, <2>5, <2>6, <2>7, <2>8
    DEF Progress, Failure
<1>3. QED
  BY <1>1, <1>2, ControlInvInductive, PTL DEF Spec

\* Runs of a mailbox overlap only after one of them has outlived the 300
\* seconds of its run key: no failure, crash or early return opens the lock.
THEOREM RunsExcludeEachOther == Spec => []NoOverlapUntilOutlived
<1>1. LockInv => NoOverlapUntilOutlived
  BY DEF LockInv, NoOverlapUntilOutlived
<1>2. QED
  BY <1>1, LockInvInductive, PTL

-----------------------------------------------------------------------------
(* Parse tasks name stored objects                                         *)

\* What any step does to the stores that only grow.
LEMMA StoresGrow ==
  ASSUME ControlInv, [Next]_vars
  PROVE  /\ objects \subseteq objects'
         /\ \A o \in Object : parseTasks'[o] >= parseTasks[o]
         /\ \A o \in Object : parseTasks'[o] > parseTasks[o] =>
              \E t \in Task : /\ pc[t] = "enqueue" /\ o = Target(t)
                              /\ Enqueue(t) \/ EnqueueFails(t)
                              /\ parseTasks'[o] = parseTasks[o] + 1
<1> USE DEF ControlInv, TypeOK, stores, redis, local, history, MayHappen
<1>1. ASSUME NEW t \in Task, Enqueue(t) \/ EnqueueFails(t)
      PROVE  /\ pc[t] = "enqueue" /\ Target(t) \in Object
             /\ objects' = objects
             /\ \/ parseTasks' = parseTasks
                \/ parseTasks' = [parseTasks EXCEPT ![Target(t)] = @ + 1]
  BY <1>1 DEF Enqueue, EnqueueFails, EnqueueOK
<1>2. ASSUME NEW t \in Task, Trigger(t) \/ Progress(t) \/ Failure(t),
             ~Enqueue(t), ~EnqueueFails(t)
      PROVE  parseTasks' = parseTasks /\ objects \subseteq objects'
  <2>1. CASE Trigger(t) \/ Failure(t)
    BY <1>2, <2>1 DEF Trigger, Failure, AcquireFails, ImapFails, FetchYieldsNothing,
       ClaimFails, StoreFails, ReleaseFails, Crash
  <2>2. CASE Progress(t)
    BY <1>2, <2>2 DEF Progress, AcquireRunKey, AlreadyRunning, Search, Fetch,
       FetchedAll, Logout, Skip, Claim, Store, DecompressFails,
       MessageDone, AllMessagesDone, Release, Retry
  <2>3. QED
    BY <1>2, <2>1, <2>2
<1>3. ASSUME \/ RunKeyExpires
             \/ \E m \in Message :
                  MessageKeyExpires(m) \/ MailArrives(m) \/ MarkUnread(m)
             \/ UNCHANGED vars
      PROVE  parseTasks' = parseTasks /\ objects' = objects
  BY <1>3 DEF RunKeyExpires, MessageKeyExpires, MailArrives, MarkUnread, vars
<1>4. CASE parseTasks' = parseTasks /\ objects \subseteq objects'
  BY <1>4
<1>5. CASE \E t \in Task : Enqueue(t) \/ EnqueueFails(t)
  <2>1. PICK t \in Task : Enqueue(t) \/ EnqueueFails(t)
    BY <1>5
  <2>2. CASE parseTasks' = parseTasks
    BY <1>1, <2>1, <2>2
  <2>3. CASE parseTasks' = [parseTasks EXCEPT ![Target(t)] = @ + 1]
    <3>1. \A o \in Object : parseTasks[o] \in Nat
      OBVIOUS
    <3>2. \A o \in Object : parseTasks'[o] =
            IF o = Target(t) THEN parseTasks[o] + 1 ELSE parseTasks[o]
      BY <1>1, <2>1, <2>3
    <3>3. QED
      BY <1>1, <2>1, <3>1, <3>2
  <2>4. QED
    BY <1>1, <2>1, <2>2, <2>3
<1>6. QED
  BY StepCases, <1>1, <1>2, <1>3, <1>4, <1>5

\* A parse task never names an object that is not in storage.
THEOREM ParseTasksAreBacked == Spec => []ParseTaskHasObject
<1>1. Init => ParseTaskHasObject
  BY DEF Init, ParseTaskHasObject
<1>2. ControlInv /\ ParseTaskHasObject /\ [Next]_vars => ParseTaskHasObject'
  <2> SUFFICES ASSUME ControlInv, ParseTaskHasObject, [Next]_vars,
                      NEW o \in Object, parseTasks'[o] > 0
               PROVE  o \in objects'
    BY DEF ParseTaskHasObject
  <2>1. parseTasks[o] \in Nat /\ objects \subseteq objects'
    BY StoresGrow DEF ControlInv, TypeOK
  <2>2. CASE parseTasks[o] > 0
    BY <2>1, <2>2 DEF ParseTaskHasObject
  <2>3. CASE parseTasks[o] = 0
    BY <2>1, <2>3, StoresGrow DEF ControlInv, EnqueueOK
  <2>4. QED
    BY <2>1, <2>2, <2>3
<1>3. QED
  BY <1>1, <1>2, ControlInvInductive, PTL DEF Spec

-----------------------------------------------------------------------------
(* At most one parse task per object and life of the message key           *)

\* A run still has to enqueue object o.
Pending(o) == \E t \in Task : cur[t] = o[1] /\ pos[t] <= o[2]

\* An object whose message has no key, or whose turn is yet to come, has used
\* up at most the earlier lives of the key.
BoundInv ==
  \A o \in Object :
    /\ parseTasks[o] <= 1 + expired[o[1]]
    /\ o[1] \notin msgKeys \/ Pending(o) => parseTasks[o] <= expired[o[1]]

\* Only the expiry of its key changes how often a message's key has expired.
LEMMA ExpiredChanges ==
  ASSUME ControlInv, [Next]_vars, \A m \in Message : ~MessageKeyExpires(m)
  PROVE  expired' = expired
<1> USE DEF stores, redis, local, history
<1>1. ASSUME NEW t \in Task, Trigger(t) \/ Failure(t) PROVE expired' = expired
  BY <1>1 DEF Trigger, Failure, AcquireFails, ImapFails, FetchYieldsNothing,
     ClaimFails, StoreFails, EnqueueFails, ReleaseFails, Crash
<1>2. ASSUME NEW t \in Task, Progress(t) PROVE expired' = expired
  BY <1>2 DEF Progress, AcquireRunKey, AlreadyRunning, Search, Fetch,
     FetchedAll, Logout, Skip, Claim, Store, Enqueue, DecompressFails,
     MessageDone, AllMessagesDone, Release, Retry
<1>3. ASSUME \/ RunKeyExpires \/ UNCHANGED vars
             \/ \E m \in Message : MailArrives(m) \/ MarkUnread(m)
      PROVE  expired' = expired
  BY <1>3 DEF RunKeyExpires, MailArrives, MarkUnread, vars
<1>4. QED
  BY StepCases, <1>1, <1>2, <1>3

\* The bound on parse tasks holds throughout.
LEMMA BoundInvInductive == Spec => []BoundInv
<1>1. Init => BoundInv
  <2> SUFFICES ASSUME Init, NEW o \in Object
               PROVE  parseTasks[o] = 0 /\ expired[o[1]] = 0
    BY DEF BoundInv
  <2>1. QED
    BY ObjectPair DEF Init
<1>2. ControlInv /\ ClaimInv /\ BoundInv /\ [Next]_vars => BoundInv'
  <2> SUFFICES ASSUME ControlInv, ClaimInv, BoundInv, [Next]_vars,
                      NEW o \in Object
               PROVE  /\ parseTasks'[o] <= 1 + expired'[o[1]]
                      /\ o[1] \notin msgKeys' \/ Pending(o)'
                           => parseTasks'[o] <= expired'[o[1]]
    BY DEF BoundInv
  <2> DEFINE m == o[1]
  <2>0. /\ m \in Message /\ o[2] \in Nat /\ o = <<m, o[2]>>
        /\ parseTasks[o] \in Nat /\ expired[m] \in Nat
        /\ \A t \in Task : pos[t] \in Nat
    BY ObjectPair, PartsType DEF ControlInv, TypeOK
  <2>1. /\ parseTasks[o] <= 1 + expired[m]
        /\ m \notin msgKeys \/ Pending(o) => parseTasks[o] <= expired[m]
    BY DEF BoundInv
  <2>2. ASSUME NEW t \in Task, o = Target(t), pc[t] = "enqueue",
               Enqueue(t) \/ EnqueueFails(t),
               parseTasks'[o] = parseTasks[o] + 1
        PROVE  /\ parseTasks'[o] <= 1 + expired'[m]
               /\ m \in msgKeys' /\ ~Pending(o)'
    <3>1. Target(t) = <<cur[t], pos[t]>> /\ cur[t] \in Message
      BY <2>2, TargetObject DEF ControlInv, EnqueueOK
    <3>2. cur[t] = m /\ pos[t] = o[2]
      BY <3>1, <2>2
    <3>3. parseTasks[o] <= expired[m]
      BY <3>2, <2>0, <2>1 DEF Pending
    <3>4. expired' = expired /\ msgKeys' = msgKeys
      BY <2>2 DEF Enqueue, EnqueueFails, history, redis
    <3>5. m \in msgKeys
      BY <3>2, <2>0, NullAssumption DEF ClaimInv, KeyedOK
    <3>6. ~Pending(o)'
      <4> SUFFICES ASSUME NEW u \in Task, cur'[u] = m, pos'[u] <= o[2]
                   PROVE  FALSE
        BY DEF Pending
      <4>1. CASE Enqueue(t)
        <5>1. cur' = cur /\ pos' = [pos EXCEPT ![t] = @ + 1]
          BY <4>1 DEF Enqueue
        <5>2. u = t
          BY <5>1, <3>2, <2>0, NullAssumption DEF ClaimInv, MessageExclusive
        <5>3. QED
          BY <5>1, <5>2, <3>2, <2>0 DEF ControlInv, TypeOK
      <4>2. CASE EnqueueFails(t)
        <5>1. cur' = [cur EXCEPT ![t] = NoMessage]
          BY <4>2 DEF EnqueueFails, Forget
        <5>2. u # t /\ cur[u] = m
          BY <5>1, <2>0, NullAssumption DEF ControlInv, TypeOK
        <5>3. QED
          BY <5>2, <3>2, <2>0, NullAssumption DEF ClaimInv, MessageExclusive
      <4>3. QED
        BY <2>2, <4>1, <4>2
    <3>7. QED
      BY <2>2, <2>0, <3>3, <3>4, <3>5, <3>6
  <2>3. ASSUME parseTasks'[o] = parseTasks[o], NEW n \in Message,
               MessageKeyExpires(n)
        PROVE  /\ parseTasks'[o] <= 1 + expired'[m]
               /\ m \notin msgKeys' \/ Pending(o)' => parseTasks'[o] <= expired'[m]
    <3>1. /\ expired' = [expired EXCEPT ![n] = @ + 1]
          /\ msgKeys' = msgKeys \ {n}
          /\ cur' = cur /\ pos' = pos
      BY <2>3 DEF MessageKeyExpires, local
    <3>2. Pending(o)' => Pending(o)
      BY <3>1 DEF Pending
    <3>3. expired'[m] = IF n = m THEN expired[m] + 1 ELSE expired[m]
      BY <3>1, <2>0 DEF ControlInv, TypeOK
    <3>4. QED
      BY <3>1, <3>2, <3>3, <2>0, <2>1, <2>3
  <2>4. ASSUME parseTasks'[o] = parseTasks[o], NEW t \in Task, Claim(t)
        PROVE  /\ parseTasks'[o] <= 1 + expired'[m]
               /\ m \notin msgKeys' \/ Pending(o)' => parseTasks'[o] <= expired'[m]
    <3>1. PICK n \in batch[t] \ msgKeys :
            msgKeys' = msgKeys \cup {n} /\ cur' = [cur EXCEPT ![t] = n]
      BY <2>4 DEF Claim
    <3>2. expired' = expired /\ pos' = [pos EXCEPT ![t] = 1]
      BY <2>4 DEF Claim, history
    <3>3. CASE n = m
      BY <3>1, <3>2, <3>3, <2>0, <2>1, <2>4
    <3>4. CASE n # m
      <4>1. Pending(o)' => Pending(o)
        BY <3>1, <3>2, <3>4 DEF Pending, ControlInv, TypeOK
      <4>2. QED
        BY <3>1, <3>2, <4>1, <2>0, <2>1, <2>4
    <3>5. QED
      BY <3>3, <3>4
  <2>5. ASSUME parseTasks'[o] = parseTasks[o],
               \A t \in Task : ~Claim(t),
               \A n \in Message : ~MessageKeyExpires(n)
        PROVE  /\ parseTasks'[o] <= 1 + expired'[m]
               /\ m \notin msgKeys' \/ Pending(o)' => parseTasks'[o] <= expired'[m]
    <3>1. expired' = expired /\ msgKeys \subseteq msgKeys'
      BY <2>5, ExpiredChanges, OnlyClaimTakesMessages
    <3>2. Pending(o)' => Pending(o)
      <4> SUFFICES ASSUME NEW u \in Task, cur'[u] = m, pos'[u] <= o[2]
                   PROVE  cur[u] = m /\ pos[u] <= o[2]
        BY DEF Pending
      <4>1. cur'[u] = cur[u] /\ pos'[u] >= pos[u]
        BY <2>5, <2>0, OnlyClaimTakesMessages, NullAssumption
      <4>2. pos'[u] \in Nat
        BY ControlInvStep DEF ControlInv, TypeOK
      <4>3. QED
        BY <4>1, <4>2, <2>0
    <3>3. QED
      BY <3>1, <3>2, <2>0, <2>1, <2>5
  <2>6. parseTasks'[o] \in Nat
    BY ControlInvStep DEF ControlInv, TypeOK
  <2>7. CASE parseTasks'[o] = parseTasks[o]
    BY <2>3, <2>4, <2>5, <2>7
  <2>8. CASE parseTasks'[o] # parseTasks[o]
    <3>1. parseTasks'[o] > parseTasks[o]
      BY <2>0, <2>6, <2>8, StoresGrow
    <3>2. QED
      BY <3>1, <2>2, StoresGrow
  <2>9. QED
    BY <2>7, <2>8
<1>3. QED
  BY <1>1, <1>2, ControlInvInductive, ClaimInvInductive, PTL DEF Spec

\* However often a message is fetched, retried or fetched by overlapping runs,
\* each of its objects reaches the parse queue at most once per life of its key.
THEOREM ParseAtMostOnce == Spec => []AtMostOnceParse
<1>1. BoundInv => AtMostOnceParse
  BY DEF BoundInv, AtMostOnceParse
<1>2. QED
  BY <1>1, BoundInvInductive, PTL

-----------------------------------------------------------------------------
(* A processed message is complete                                         *)

\* Part k of message m needs nothing more from the collector.
PartCollected(m, k) ==
  /\ k \in DOMAIN Parts[m]
  /\ Parts[m][k] # "corrupt"
  /\ <<m, k>> \in objects
  /\ Parts[m][k] = "xml" => parseTasks[<<m, k>>] > 0

\* The parts a task has passed are collected.
PrefixInv ==
  \A t \in Task : cur[t] # NoMessage =>
    \A k \in 1 .. pos[t] - 1 : PartCollected(cur[t], k)

\* A collected part stays collected.
LEMMA CollectedStays ==
  ASSUME ControlInv, [Next]_vars, NEW m \in Message,
         NEW k \in Nat, PartCollected(m, k)
  PROVE  PartCollected(m, k)'
<1>1. <<m, k>> \in Object
  BY PartsType, ObjectDef DEF PartCollected
<1>2. parseTasks'[<<m, k>>] >= parseTasks[<<m, k>>] /\ objects \subseteq objects'
  BY <1>1, StoresGrow
<1>3. parseTasks'[<<m, k>>] \in Nat /\ parseTasks[<<m, k>>] \in Nat
  BY <1>1, ControlInvStep DEF ControlInv, TypeOK
<1>4. QED
  BY <1>2, <1>3 DEF PartCollected

\* A task moves forward in its message by one part at a time, and only past a
\* part it has collected.
LEMMA AdvanceCollects ==
  ASSUME ControlInv, [Next]_vars, NEW u \in Task, cur'[u] # NoMessage,
         NEW m, m = cur[u], NEW k, k = pos[u]
  PROVE  \/ pos'[u] = 1
         \/ cur'[u] = m /\ pos'[u] = k
         \/ /\ cur'[u] = m /\ pos'[u] = k + 1
            /\ PartCollected(m, k)'
<1> USE DEF ControlInv, TypeOK, Goto, Forget, stores, redis, local, history
<1>1. ASSUME NEW t \in Task, Store(t)
      PROVE  \/ cur'[u] = m /\ pos'[u] = k
             \/ /\ cur'[u] = m /\ pos'[u] = k + 1
                /\ PartCollected(m, k)'
  <2>1. /\ pos[t] \in DOMAIN Parts[cur[t]] /\ Target(t) = <<cur[t], pos[t]>>
    BY <1>1, TargetObject DEF Store
  <2>2. CASE Parts[cur[t]][pos[t]] = "xml" \/ u # t
    BY <1>1, <2>2 DEF Store
  <2>3. CASE Parts[cur[t]][pos[t]] # "xml" /\ u = t
    BY <1>1, <2>1, <2>3 DEF Store, PartCollected
  <2>4. QED
    BY <2>2, <2>3
<1>2. ASSUME NEW t \in Task, Enqueue(t)
      PROVE  \/ cur'[u] = m /\ pos'[u] = k
             \/ /\ cur'[u] = m /\ pos'[u] = k + 1
                /\ PartCollected(m, k)'
  <2>1. /\ pos[t] \in DOMAIN Parts[cur[t]] /\ Target(t) = <<cur[t], pos[t]>>
        /\ Parts[cur[t]][pos[t]] = "xml" /\ Target(t) \in objects
        /\ Target(t) \in Object
    BY <1>2, TargetObject DEF Enqueue, EnqueueOK
  <2>2. /\ objects' = objects /\ cur' = cur
        /\ parseTasks'[Target(t)] = parseTasks[Target(t)] + 1
        /\ parseTasks[Target(t)] \in Nat
        /\ pos' = [pos EXCEPT ![t] = @ + 1]
    BY <1>2, <2>1 DEF Enqueue
  <2>3. u = t => PartCollected(m, k)'
    BY <2>1, <2>2 DEF PartCollected
  <2>4. QED
    BY <2>2, <2>3
<1>3. ASSUME NEW t \in Task, Claim(t)
      PROVE  pos'[u] = 1 \/ (cur'[u] = m /\ pos'[u] = k)
  BY <1>3 DEF Claim
<1>4. ASSUME NEW t \in Task,
             \/ AcquireRunKey(t) \/ AlreadyRunning(t) \/ Search(t) \/ Fetch(t)
             \/ FetchedAll(t) \/ Logout(t) \/ Skip(t) \/ AllMessagesDone(t)
             \/ DecompressFails(t) \/ MessageDone(t) \/ Release(t) \/ Retry(t)
      PROVE  cur'[u] = m /\ pos'[u] = k
  BY <1>4 DEF AcquireRunKey, AlreadyRunning, Search, Fetch, FetchedAll,
     DecompressFails, MessageDone, Logout, Skip, AllMessagesDone, Release, Retry
<1>5. ASSUME NEW t \in Task, Trigger(t) \/ Failure(t)
      PROVE  cur'[u] = m /\ pos'[u] = k
  BY <1>5 DEF Trigger, Failure, AcquireFails, ImapFails, FetchYieldsNothing,
     ClaimFails, StoreFails, EnqueueFails, ReleaseFails, Crash
<1>6. ASSUME \/ RunKeyExpires
             \/ \E n \in Message :
                  MessageKeyExpires(n) \/ MailArrives(n) \/ MarkUnread(n)
             \/ UNCHANGED vars
      PROVE  cur'[u] = m /\ pos'[u] = k
  BY <1>6 DEF RunKeyExpires, MessageKeyExpires, MailArrives, MarkUnread, vars
<1>7. QED
  BY StepCases, <1>1, <1>2, <1>3, <1>4, <1>5, <1>6 DEF Progress

\* Each step of [Next]_vars keeps the collected prefix of every message in hand.
LEMMA PrefixInvStep ==
  ASSUME ControlInv, PrefixInv, [Next]_vars
  PROVE  PrefixInv'
<1> SUFFICES ASSUME NEW u \in Task, cur'[u] # NoMessage,
                    NEW k \in 1 .. pos'[u] - 1
             PROVE  PartCollected(cur[u], k)' /\ cur'[u] = cur[u]
  BY DEF PrefixInv, PartCollected
<1>1. /\ pos[u] \in Nat \ {0} /\ pos'[u] \in Nat \ {0}
      /\ cur'[u] \in Message
  BY ControlInvStep DEF ControlInv, TypeOK
<1>2. /\ cur'[u] = cur[u]
      /\ \/ pos'[u] = pos[u]
         \/ pos'[u] = pos[u] + 1 /\ (k = pos[u] => PartCollected(cur[u], k)')
  BY <1>1, AdvanceCollects
<1>3. CASE k <= pos[u] - 1
  BY <1>1, <1>2, <1>3, CollectedStays DEF PrefixInv, PartCollected
<1>4. CASE k > pos[u] - 1
  BY <1>1, <1>2, <1>4
<1>5. QED
  BY <1>1, <1>3, <1>4

\* The collected-prefix invariant holds throughout.
LEMMA PrefixInvInductive == Spec => []PrefixInv
<1>1. Init => PrefixInv
  BY DEF Init, PrefixInv
<1>2. QED
  BY <1>1, PrefixInvStep, ControlInvInductive, PTL DEF Spec

\* A message counted as processed is completely stored and each of its XML
\* parts reached the parse queue.
THEOREM ProcessedIsComplete == Spec => []DoneIsComplete
<1>1. Init => PrefixInv /\ DoneIsComplete
  BY DEF Init, PrefixInv, DoneIsComplete
<1>2. ControlInv /\ PrefixInv /\ DoneIsComplete /\ [Next]_vars
        => PrefixInv' /\ DoneIsComplete'
  <2> SUFFICES ASSUME ControlInv, PrefixInv, DoneIsComplete, [Next]_vars,
                      NEW m \in done'
               PROVE  /\ Parts[m] = <<>> => <<m, 0>> \in objects'
                      /\ \A k \in DOMAIN Parts[m] : PartCollected(m, k)'
    BY PrefixInvStep DEF DoneIsComplete, PartCollected
  <2>1. CASE m \in done
    <3>1. m \in Message /\ objects \subseteq objects'
      BY <2>1, StoresGrow DEF ControlInv, TypeOK
    <3>2. \A k \in DOMAIN Parts[m] : k \in Nat
      BY <3>1, PartsType
    <3>3. \A k \in DOMAIN Parts[m] : PartCollected(m, k)
      BY <2>1 DEF DoneIsComplete, PartCollected
    <3>4. QED
      BY <2>1, <3>1, <3>2, <3>3, CollectedStays DEF DoneIsComplete
  <2>2. CASE m \notin done
    <3>1. PICK t \in Task : MessageDone(t)
      BY <2>2, StepCases
      DEF Trigger, Progress, Failure, AcquireRunKey, AlreadyRunning, Search,
          Fetch, FetchedAll, Logout, Skip, Claim, Store, Enqueue,
          DecompressFails, AllMessagesDone, Release, Retry, AcquireFails,
          ImapFails, FetchYieldsNothing, ClaimFails, StoreFails, EnqueueFails,
          ReleaseFails, Crash, RunKeyExpires, MessageKeyExpires, MailArrives,
          MarkUnread, history, vars
    <3>2. m = cur[t] /\ ~PartLeft(t) /\ pc[t] = "store" /\ m \in Message
      BY <2>2, <3>1 DEF MessageDone, ControlInv, TypeOK, CurrentOK
    <3>3. Parts[m] = <<>> => <<m, 0>> \in objects'
      BY <3>1, <3>2 DEF MessageDone, Target
    <3>4. \A k \in DOMAIN Parts[m] : k \in 1 .. pos[t] - 1
      BY <3>2, PartsType DEF PartLeft, ControlInv, TypeOK
    <3>5. \A k \in DOMAIN Parts[m] : k \in Nat /\ PartCollected(m, k)
      BY <3>2, <3>4, NullAssumption DEF PrefixInv
    <3>6. QED
      BY <3>2, <3>3, <3>5, CollectedStays
  <2>3. QED
    BY <2>1, <2>2
<1>3. QED
  BY <1>1, <1>2, ControlInvInductive, PTL DEF Spec

-----------------------------------------------------------------------------
(* Nothing is lost while nothing fails                                     *)

\* m is processed or the current message of a run.
Served(m) == m \in done \/ \E t \in Task : cur[t] = m

\* While nothing fails, a claimed message is served and a seen one is served
\* or still waits in the batch of a run.
CalmInv ==
  adverse = 0 /\ AllReadable =>
    \A m \in Message :
      /\ m \in msgKeys => Served(m)
      /\ mail[m] = "seen" => Served(m) \/ \E t \in Task : m \in batch[t]

\* A step that is neither a failure nor an adverse event of the environment.
Calm ==
  \/ \E t \in Task : Trigger(t)
  \/ \E t \in Task : Progress(t) /\ ~DecompressFails(t)
  \/ RunKeyExpires
  \/ \E m \in Message : MailArrives(m)
  \/ UNCHANGED vars

\* Where every part is readable, a step that does not count as adverse is calm.
LEMMA StepIsCalm ==
  ASSUME ControlInv, [Next]_vars, adverse' = 0, AllReadable
  PROVE  adverse = 0 /\ Calm
<1> USE DEF ControlInv, TypeOK, stores, redis, local, history
<1>1. ASSUME Mishap PROVE FALSE
  BY <1>1 DEF Mishap
<1>2. ASSUME NEW t \in Task, Failure(t) PROVE FALSE
  BY <1>1, <1>2 DEF Failure, AcquireFails, ImapFails, FetchYieldsNothing,
     ClaimFails, StoreFails, EnqueueFails, ReleaseFails, Crash
<1>3. ASSUME NEW n \in Message, MessageKeyExpires(n) \/ MarkUnread(n) PROVE FALSE
  BY <1>1, <1>3 DEF MessageKeyExpires, MarkUnread
<1>4. ASSUME NEW t \in Task, DecompressFails(t) PROVE FALSE
  BY <1>4, TargetObject DEF DecompressFails, AllReadable
<1>5. Calm
  BY StepCases, <1>2, <1>3, <1>4 DEF Calm
<1>6. adverse' = adverse
  BY <1>5 DEF Calm, Trigger, Progress, AcquireRunKey, AlreadyRunning, Search,
     Fetch, FetchedAll, Logout, Skip, Claim, Store, Enqueue, MessageDone,
     AllMessagesDone, Release, Retry, RunKeyExpires, MailArrives, vars
<1>7. QED
  BY <1>5, <1>6

\* A calm step drops no message that is being served.
LEMMA ServedStays ==
  ASSUME ControlInv, Calm, NEW m \in Message, Served(m)
  PROVE  Served(m)'
<1> USE DEF ControlInv, TypeOK, stores, redis, local, history
<1>1. ASSUME NEW t \in Task, Claim(t) PROVE Served(m)'
  <2>1. cur[t] = NoMessage /\ done' = done
    BY <1>1 DEF Claim, CurrentOK
  <2>2. \A u \in Task : u # t => cur'[u] = cur[u]
    BY <1>1 DEF Claim
  <2>3. QED
    BY <2>1, <2>2, NullAssumption DEF Served
<1>2. ASSUME NEW t \in Task, MessageDone(t) PROVE Served(m)'
  <2>1. done' = done \cup {cur[t]} /\ \A u \in Task : u # t => cur'[u] = cur[u]
    BY <1>2 DEF MessageDone
  <2>2. QED
    BY <2>1 DEF Served
<1>3. CASE done' = done /\ cur' = cur
  BY <1>3 DEF Served
<1>4. ASSUME Calm, \A t \in Task : ~Claim(t) /\ ~MessageDone(t)
      PROVE  done' = done /\ cur' = cur
  BY <1>4 DEF Calm, Trigger, Progress, AcquireRunKey, AlreadyRunning, Search,
     Fetch, FetchedAll, Logout, Skip, Store, Enqueue, AllMessagesDone,
     Release, Retry, RunKeyExpires, MailArrives, vars
<1>5. QED
  BY <1>1, <1>2, <1>3, <1>4

\* As long as no call fails and every attachment is readable, a mail that has
\* been marked seen is processed or in the hands of a run, however many runs
\* overlap after their run key has expired.
THEOREM NothingLost == Spec => []NoLossWithoutFailure
<1>1. Init => CalmInv
  BY DEF Init, CalmInv
<1>2. ControlInv /\ CalmInv /\ [Next]_vars => CalmInv'
  <2> SUFFICES ASSUME ControlInv, CalmInv, [Next]_vars,
                      adverse' = 0, AllReadable, NEW m \in Message
               PROVE  /\ m \in msgKeys' => Served(m)'
                      /\ mail'[m] = "seen" =>
                           Served(m)' \/ \E t \in Task : m \in batch'[t]
    BY DEF CalmInv, AllReadable, Served
  <2> USE DEF ControlInv, TypeOK, stores, redis, local, history
  <2>1. Calm /\ adverse = 0
    BY StepIsCalm
  <2>2. m \in msgKeys => Served(m)
    BY <2>1 DEF CalmInv
  <2>3. mail[m] = "seen" => Served(m) \/ \E t \in Task : m \in batch[t]
    BY <2>1 DEF CalmInv
  <2>4. Served(m) => Served(m)'
    BY <2>1, ServedStays
  <2>5. ASSUME NEW t \in Task, Fetch(t)
        PROVE  /\ m \in msgKeys' => Served(m)'
               /\ mail'[m] = "seen" =>
                    Served(m)' \/ \E u \in Task : m \in batch'[u]
    <3>1. PICK n \in uids[t] :
            /\ batch' = [batch EXCEPT ![t] = @ \cup {n}]
            /\ mail' \in {mail, [mail EXCEPT ![n] = "seen"]}
      BY <2>5 DEF Fetch
    <3>2. msgKeys' = msgKeys
      BY <2>5 DEF Fetch
    <3>3. CASE m = n
      BY <3>1, <3>2, <3>3, <2>2, <2>4
    <3>4. CASE m # n
      <4>1. mail'[m] = mail[m]
        BY <3>1, <3>4
      <4>2. \A u \in Task : batch[u] \subseteq batch'[u]
        BY <3>1
      <4>3. QED
        BY <4>1, <4>2, <3>2, <2>2, <2>3, <2>4
    <3>5. QED
      BY <3>3, <3>4
  <2>6. ASSUME NEW t \in Task, Skip(t) \/ Claim(t)
        PROVE  /\ m \in msgKeys' => Served(m)'
               /\ mail'[m] = "seen" =>
                    Served(m)' \/ \E u \in Task : m \in batch'[u]
    <3>1. PICK n \in batch[t] :
            /\ batch' = [batch EXCEPT ![t] = @ \ {n}]
            /\ msgKeys' \subseteq msgKeys \cup {n}
            /\ n \in msgKeys \/ cur'[t] = n
      BY <2>6 DEF Skip, Claim
    <3>2. mail' = mail
      BY <2>6 DEF Skip, Claim
    <3>3. CASE m = n
      <4>1. Served(m)'
        BY <3>1, <3>3, <2>2, <2>4 DEF Served
      <4>2. QED
        BY <4>1
    <3>4. CASE m # n
      <4>1. \A u \in Task : m \in batch[u] => m \in batch'[u]
        BY <3>1, <3>4
      <4>2. QED
        BY <4>1, <3>1, <3>2, <3>4, <2>2, <2>3, <2>4
    <3>5. QED
      BY <3>3, <3>4
  <2>7. ASSUME \A t \in Task : ~Fetch(t) /\ ~Skip(t) /\ ~Claim(t)
        PROVE  msgKeys' = msgKeys /\ batch' = batch
    BY <2>1, <2>7 DEF Calm, Trigger, Progress, AcquireRunKey, AlreadyRunning,
       Search, FetchedAll, Logout, Store, Enqueue, MessageDone,
       AllMessagesDone, Release, Retry, RunKeyExpires, MailArrives, vars
  <2>8. ASSUME \A t \in Task : ~Fetch(t) /\ ~Skip(t) /\ ~Claim(t),
               mail'[m] = "seen"
        PROVE  mail[m] = "seen"
    BY <2>1, <2>8 DEF Calm, Trigger, Progress, AcquireRunKey, AlreadyRunning,
       Search, FetchedAll, Logout, Store, Enqueue, MessageDone,
       AllMessagesDone, Release, Retry, RunKeyExpires, MailArrives, vars
  <2>9. QED
    BY <2>2, <2>3, <2>4, <2>5, <2>6, <2>7, <2>8
<1>3. CalmInv => NoLossWithoutFailure
  BY DEF CalmInv, NoLossWithoutFailure, Served
<1>4. QED
  BY <1>1, <1>2, <1>3, ControlInvInductive, PTL DEF Spec
-----------------------------------------------------------------------------
(* The refinement of CollectedMail                                         *)

\* The passes, as a function of the tasks' current messages and positions.
Passes(c, p) ==
  [m \in Message |->
    IF \E t \in Task : c[t] = m THEN p[CHOOSE t \in Task : c[t] = m] ELSE 0]

\* With one run at a message, the pass is where that run is.
LEMMA PassFacts ==
  ASSUME NEW c, NEW p, NEW m \in Message,
         \A t, u \in Task : c[t] = m /\ c[u] = m => t = u
  PROVE  /\ \A t \in Task : c[t] = m => Passes(c, p)[m] = p[t]
         /\ (\A t \in Task : c[t] # m) => Passes(c, p)[m] = 0
<1>1. ASSUME NEW t \in Task, c[t] = m PROVE Passes(c, p)[m] = p[t]
  <2>1. (CHOOSE u \in Task : c[u] = m) = t
    BY <1>1
  <2> QED
    BY <1>1, <2>1 DEF Passes
<1> QED
  BY <1>1 DEF Passes

\* A step of one task changes the pass through its message only.
LEMMA PassesChange ==
  ASSUME TypeOK, TypeOK', MessageExclusive, MessageExclusive',
         NEW t \in Task, NEW m \in Message,
         cur[t] \in {m, NoMessage}, cur'[t] \in {m, NoMessage},
         \A u \in Task : u # t => /\ cur'[u] = cur[u] /\ pos'[u] = pos[u]
                                  /\ cur[u] # m
  PROVE  Passes(cur', pos') =
           [Passes(cur, pos) EXCEPT ![m] = IF cur'[t] = m THEN pos'[t] ELSE 0]
<1> DEFINE A == Passes(cur, pos)
           B == Passes(cur', pos')
<1>1. \A n \in Message, u, v \in Task :
        /\ cur[u] = n /\ cur[v] = n => u = v
        /\ cur'[u] = n /\ cur'[v] = n => u = v
  BY NullAssumption DEF MessageExclusive
<1>2. B[m] = IF cur'[t] = m THEN pos'[t] ELSE 0
  <2>1. CASE cur'[t] = m
    BY <1>1, <2>1, PassFacts
  <2>2. CASE cur'[t] # m
    <3>1. \A u \in Task : cur'[u] # m
      BY <2>2
    <3> QED
      BY <1>1, <2>2, <3>1, PassFacts
  <2> QED
    BY <2>1, <2>2
<1>3. ASSUME NEW n \in Message, n # m PROVE B[n] = A[n]
  <2>1. CASE \E u \in Task : cur[u] = n
    <3>1. PICK u \in Task : cur[u] = n
      BY <2>1
    <3>2. u # t /\ cur'[u] = n /\ pos'[u] = pos[u]
      BY <1>3, <3>1, NullAssumption
    <3>3. A[n] = pos[u] /\ B[n] = pos'[u]
      BY <1>1, <3>1, <3>2, PassFacts
    <3> QED
      BY <3>2, <3>3
  <2>2. CASE \A u \in Task : cur[u] # n
    <3>1. \A u \in Task : cur'[u] # n
      BY <1>3, <2>2, NullAssumption
    <3> QED
      BY <1>1, <2>2, <3>1, PassFacts
  <2> QED
    BY <2>1, <2>2
<1>4. A = [n \in Message |-> A[n]] /\ B = [n \in Message |-> B[n]]
  BY DEF Passes
<1> HIDE DEF A, B
<1> QED
  BY <1>2, <1>3, <1>4 DEF A, B

\* Where nobody's message changes and no run at one moves on, no pass does.
LEMMA PassesStay ==
  ASSUME TypeOK, MessageExclusive, cur' = cur,
         \A u \in Task : cur[u] # NoMessage => pos'[u] = pos[u]
  PROVE  Passes(cur', pos') = Passes(cur, pos)
<1> DEFINE A == Passes(cur, pos)
           B == Passes(cur', pos')
<1>1. ASSUME NEW n \in Message PROVE B[n] = A[n]
  <2>1. \A u, v \in Task : cur[u] = n /\ cur[v] = n => u = v
    BY NullAssumption DEF MessageExclusive
  <2>2. CASE \E u \in Task : cur[u] = n
    <3>1. PICK u \in Task : cur[u] = n
      BY <2>2
    <3>2. A[n] = pos[u] /\ B[n] = pos'[u]
      BY <2>1, <3>1, PassFacts
    <3> QED
      BY <3>1, <3>2, NullAssumption
  <2>3. CASE \A u \in Task : cur[u] # n
    BY <2>1, <2>3, PassFacts
  <2> QED
    BY <2>2, <2>3
<1>2. A = [n \in Message |-> A[n]] /\ B = [n \in Message |-> B[n]]
  BY DEF Passes
<1> HIDE DEF A, B
<1> QED
  BY <1>1, <1>2 DEF A, B
\* The mapping reads the passes.
LEMMA Mapping ==
  /\ [m \in Message |-> At(m)] = Passes(cur, pos)
  /\ [m \in Message |-> At(m)]' = Passes(cur', pos')
BY DEF At, Passes

LEMMA PromiseInit == Init => Promise!Init
<1> SUFFICES ASSUME Init PROVE Promise!Init
  OBVIOUS
<1>1. \A m \in Message : At(m) = 0
  BY NullAssumption DEF Init, At
<1> QED
  BY <1>1 DEF Init, Promise!Init

\* A step in which a run that goes through m gives it up.
LEMMA GivenUp ==
  ASSUME ControlInv, ControlInv', MessageExclusive, MessageExclusive',
         NEW t \in Task, cur[t] # NoMessage, Forget(t),
         UNCHANGED <<msgKeys, done>>,
         \/ UNCHANGED <<objects, parseTasks>>
         \/ /\ \/ PartLeft(t) /\ Parts[cur[t]][pos[t]] # "corrupt"
               \/ Parts[cur[t]] = <<>> /\ pos[t] = 1
            /\ objects' = objects \cup {Target(t)} /\ parseTasks' = parseTasks
         \/ /\ PartLeft(t) /\ Parts[cur[t]][pos[t]] = "xml" /\ Target(t) \in objects
            /\ parseTasks' = [parseTasks EXCEPT ![Target(t)] = @ + 1]
            /\ objects' = objects
  PROVE  \E m \in Message : Promise!GiveUp(m)
<1> DEFINE m == cur[t]
           A == [n \in Message |-> At(n)]
<1>1. /\ m \in Message /\ pos[t] \in Nat \ {0} /\ cur'[t] = NoMessage
      /\ \A u \in Task : u # t => cur'[u] = cur[u] /\ pos'[u] = pos[u] /\ cur[u] # m
      /\ TypeOK /\ TypeOK'
  BY DEF ControlInv, TypeOK, Forget, MessageExclusive
<1>2. A[m] = pos[t] /\ A' = [A EXCEPT ![m] = 0]
  <2>1. Passes(cur', pos') =
          [Passes(cur, pos) EXCEPT ![m] = IF cur'[t] = m THEN pos'[t] ELSE 0]
    BY <1>1, PassesChange
  <2>2. Passes(cur, pos)[m] = pos[t]
    <3>1. \A u, v \in Task : cur[u] = m /\ cur[v] = m => u = v
      BY <1>1
    <3> QED
      BY <1>1, <3>1, PassFacts
  <2> QED
    BY <1>1, <2>1, <2>2, Mapping, NullAssumption
<1>3. Promise!Item(m) = Target(t)
  BY <1>1, <1>2 DEF Promise!Item, Target
<1>4. ASSUME PartLeft(t), Parts[m][pos[t]] # "corrupt"
      PROVE  Promise!AtPart(m, {"xml", "other"})
  BY <1>1, <1>2, <1>4, PartsType DEF Promise!AtPart, PartLeft, PartKind
<1>5. ASSUME PartLeft(t), Parts[m][pos[t]] = "xml"
      PROVE  Promise!AtPart(m, {"xml"})
  BY <1>1, <1>2, <1>5, PartsType DEF Promise!AtPart, PartLeft
<1>6. ASSUME Parts[m] = <<>>, pos[t] = 1 PROVE Promise!Whole(m)
  BY <1>1, <1>2, <1>6 DEF Promise!Whole
<1> HIDE DEF m
<1>7. Promise!GiveUp(m)
  <2>1. A[m] # 0
    BY <1>1, <1>2
  <2>2. \/ UNCHANGED <<objects, parseTasks>>
        \/ /\ Promise!AtPart(m, {"xml", "other"}) \/ Promise!Whole(m)
           /\ Promise!Stored(m) /\ UNCHANGED parseTasks
        \/ Promise!Handed(m) /\ UNCHANGED objects
    BY <1>3, <1>4, <1>5, <1>6 DEF m, Promise!Stored, Promise!Handed
  <2> QED
    BY <1>2, <2>1, <2>2 DEF Promise!GiveUp
<1> QED
  BY <1>1, <1>7 DEF m
\* A run is at most one past the last part of its message.
LEMMA PositionBound ==
  ASSUME ControlInv, PrefixInv, NEW t \in Task, cur[t] # NoMessage
  PROVE  /\ cur[t] \in Message /\ pos[t] \in 1 .. Len(Parts[cur[t]]) + 1
         /\ Parts[cur[t]] = <<>> => pos[t] = 1
<1>1. cur[t] \in Message /\ pos[t] \in Nat \ {0} /\ Len(Parts[cur[t]]) \in Nat
  BY PartsType DEF ControlInv, TypeOK
<1>2. pos[t] > 1 => pos[t] - 1 \in 1 .. Len(Parts[cur[t]])
  <2>1. ASSUME pos[t] > 1 PROVE pos[t] - 1 \in DOMAIN Parts[cur[t]]
    <3>1. pos[t] - 1 \in 1 .. pos[t] - 1
      BY <1>1, <2>1
    <3>2. PartCollected(cur[t], pos[t] - 1)
      BY <3>1 DEF PrefixInv
    <3> QED
      BY <3>2 DEF PartCollected
  <2> QED
    BY <1>1, <2>1, PartsType
<1> QED
  BY <1>1, <1>2, PartsType

\* The step of a run at message m, seen as a step of the pass through m.
LEMMA PassStep ==
  ASSUME ControlInv, ControlInv', MessageExclusive, MessageExclusive', PrefixInv,
         NEW t \in Task, cur[t] # NoMessage,
         Store(t) \/ Enqueue(t) \/ MessageDone(t)
  PROVE  \E m \in Message : Promise!Store(m) \/ Promise!HandOver(m) \/ Promise!Finish(m)
<1> DEFINE m == cur[t]
           A == [n \in Message |-> At(n)]
<1>1. /\ m \in Message /\ pos[t] \in 1 .. Len(Parts[m]) + 1 /\ Len(Parts[m]) \in Nat
      /\ m # NoMessage /\ Parts[m] = <<>> => pos[t] = 1
      /\ TypeOK /\ TypeOK'
      /\ DOMAIN Parts[m] = 1 .. Len(Parts[m]) /\ Parts[m] \in Seq(PartKind)
  BY PositionBound, PartsType DEF ControlInv
<1>2. A[m] = pos[t]
  <2>1. \A u, v \in Task : cur[u] = m /\ cur[v] = m => u = v
    BY <1>1 DEF MessageExclusive
  <2>2. Passes(cur, pos)[m] = pos[t]
    BY <1>1, <2>1, PassFacts
  <2> QED
    BY <2>2, Mapping
<1>3. Promise!Item(m) = Target(t)
  BY <1>1, <1>2 DEF Promise!Item, Target
<1>4. ASSUME cur'[t] \in {m, NoMessage},
             \A u \in Task : u # t => cur'[u] = cur[u] /\ pos'[u] = pos[u]
      PROVE  A' = [A EXCEPT ![m] = IF cur'[t] = m THEN pos'[t] ELSE 0]
  <2>1. \A u \in Task : u # t => cur[u] # m
    BY <1>1 DEF MessageExclusive
  <2>2. Passes(cur', pos') =
          [Passes(cur, pos) EXCEPT ![m] = IF cur'[t] = m THEN pos'[t] ELSE 0]
    BY <1>1, <1>4, <2>1, PassesChange
  <2> QED
    BY <2>2, Mapping
<1>5. CASE Store(t)
  <2> DEFINE kind == Parts[m][pos[t]]
  <2>1. pos[t] \in DOMAIN Parts[m] /\ kind \in {"xml", "other"}
    BY <1>1, <1>5 DEF Store, PartLeft, PartKind
  <2>2. /\ objects' = objects \cup {Target(t)}
        /\ UNCHANGED <<msgKeys, parseTasks, done, cur>>
    BY <1>5 DEF Store, redis, history
  <2>3. Promise!AtPart(m, {"xml", "other"}) /\ (Promise!AtPart(m, {"xml"}) <=> kind = "xml")
    BY <1>2, <2>1 DEF Promise!AtPart
  <2>4. A' = IF kind = "xml" THEN A ELSE [A EXCEPT ![m] = A[m] + 1]
    <3>1. CASE kind = "xml"
      <4>1. pos' = pos
        BY <1>5, <3>1 DEF Store
      <4> QED
        BY <3>1, <4>1, <2>2 DEF At
    <3>2. CASE kind # "xml"
      <4>1. pos' = [pos EXCEPT ![t] = @ + 1]
        BY <1>5, <3>2 DEF Store
      <4>2. pos'[t] = pos[t] + 1 /\ \A u \in Task : u # t => pos'[u] = pos[u]
        BY <1>1, <4>1 DEF TypeOK
      <4> QED
        BY <1>2, <1>4, <2>2, <3>2, <4>2
    <3> QED
      BY <3>1, <3>2
  <2>5. Promise!Store(m)
    <3> HIDE DEF m, kind
    <3> QED
      BY <1>3, <2>2, <2>3, <2>4 DEF Promise!Store, Promise!Stored
  <2> QED
    BY <1>1, <2>5
<1>6. CASE Enqueue(t)
  <2>1. /\ pos[t] \in DOMAIN Parts[m] /\ Parts[m][pos[t]] = "xml" /\ Target(t) \in objects
    BY <1>1, <1>6 DEF Enqueue, ControlInv, EnqueueOK, PartLeft
  <2>2. /\ parseTasks' = [parseTasks EXCEPT ![Target(t)] = @ + 1]
        /\ UNCHANGED <<msgKeys, objects, done, cur>>
        /\ pos' = [pos EXCEPT ![t] = @ + 1]
    BY <1>6 DEF Enqueue, redis, history
  <2>3. Promise!AtPart(m, {"xml"})
    BY <1>2, <2>1 DEF Promise!AtPart
  <2>4. A' = [A EXCEPT ![m] = A[m] + 1]
    <3>1. pos'[t] = pos[t] + 1 /\ \A u \in Task : u # t => pos'[u] = pos[u]
      BY <1>1, <2>2 DEF TypeOK
    <3> QED
      BY <1>2, <1>4, <2>2, <3>1
  <2>5. Promise!HandOver(m)
    <3> HIDE DEF m
    <3> QED
      BY <1>3, <2>1, <2>2, <2>3, <2>4 DEF Promise!HandOver, Promise!Handed
  <2> QED
    BY <1>1, <2>5
<1>7. CASE MessageDone(t)
  <2>1. pos[t] = Len(Parts[m]) + 1
    BY <1>1, <1>7 DEF MessageDone, PartLeft
  <2>2. /\ done' = done \cup {m} /\ UNCHANGED <<msgKeys, parseTasks, pos>>
        /\ objects' = IF Parts[m] = <<>> THEN objects \cup {Target(t)} ELSE objects
        /\ cur' = [cur EXCEPT ![t] = NoMessage]
    BY <1>7 DEF MessageDone, redis
  <2>3. Promise!Whole(m) <=> Parts[m] = <<>>
    BY <1>1, <1>2 DEF Promise!Whole
  <2>4. A' = [A EXCEPT ![m] = 0]
    <3>1. cur'[t] = NoMessage /\ \A u \in Task : u # t => cur'[u] = cur[u]
      BY <1>1, <2>2 DEF TypeOK
    <3> QED
      BY <1>1, <1>4, <2>2, <3>1
  <2>5. Promise!Finish(m)
    <3> HIDE DEF m
    <3> QED
      BY <1>2, <1>3, <2>1, <2>2, <2>3, <2>4 DEF Promise!Finish, Promise!Stored
  <2> QED
    BY <1>1, <2>5
<1> QED
  BY <1>5, <1>6, <1>7

\* Every step of the collector is a step of CollectedMail or none.
LEMMA PromiseStep ==
  ASSUME ControlInv, ControlInv', MessageExclusive, MessageExclusive', KeyedOK,
         PrefixInv, [Next]_vars
  PROVE  [Promise!Next]_Promise!vars
<1> DEFINE A == [n \in Message |-> At(n)]
<1>0. TypeOK /\ TypeOK' /\ CurrentOK
  BY DEF ControlInv
<1>1. ASSUME UNCHANGED <<msgKeys, objects, parseTasks, done, cur>>,
             \A u \in Task : cur[u] # NoMessage => pos'[u] = pos[u]
      PROVE  UNCHANGED Promise!vars
  <2>1. Passes(cur', pos') = Passes(cur, pos)
    BY <1>0, <1>1, PassesStay
  <2> QED
    BY <1>1, <2>1, Mapping DEF Promise!vars
<1>2. ASSUME NEW t \in Task, Store(t) \/ Enqueue(t) \/ MessageDone(t) PROVE Promise!Next
  <2>1. cur[t] # NoMessage
    BY <1>0, <1>2 DEF Store, Enqueue, MessageDone, CurrentOK
  <2> QED
    BY <1>2, <2>1, PassStep DEF Promise!Next
<1>3. ASSUME NEW t \in Task,
             StoreFails(t) \/ DecompressFails(t) \/ EnqueueFails(t)
      PROVE  Promise!Next
  <2>1. cur[t] # NoMessage
    BY <1>0, <1>3 DEF StoreFails, DecompressFails, EnqueueFails, CurrentOK
  <2>2. Forget(t) /\ UNCHANGED <<msgKeys, done>>
    BY <1>3 DEF StoreFails, DecompressFails, EnqueueFails, redis, history, stores
  <2>3. \/ UNCHANGED <<objects, parseTasks>>
        \/ /\ \/ PartLeft(t) /\ Parts[cur[t]][pos[t]] # "corrupt"
              \/ Parts[cur[t]] = <<>> /\ pos[t] = 1
           /\ objects' = objects \cup {Target(t)} /\ parseTasks' = parseTasks
        \/ /\ PartLeft(t) /\ Parts[cur[t]][pos[t]] = "xml" /\ Target(t) \in objects
           /\ parseTasks' = [parseTasks EXCEPT ![Target(t)] = @ + 1]
           /\ objects' = objects
    <3>1. CASE StoreFails(t)
      BY <2>1, <3>1, PositionBound DEF StoreFails, MayHappen
    <3>2. CASE DecompressFails(t)
      BY <3>2 DEF DecompressFails, stores
    <3>3. CASE EnqueueFails(t)
      BY <3>3 DEF EnqueueFails, MayHappen, ControlInv, EnqueueOK
    <3> QED
      BY <1>3, <3>1, <3>2, <3>3
  <2> QED
    BY <2>1, <2>2, <2>3, GivenUp DEF Promise!Next
<1>4. ASSUME NEW t \in Task, Crash(t) \/ ImapFails(t)
      PROVE  [Promise!Next]_Promise!vars
  <2>1. Forget(t) /\ UNCHANGED <<msgKeys, done, objects, parseTasks>>
    BY <1>4 DEF Crash, ImapFails, stores, redis, history
  <2>2. CASE cur[t] # NoMessage
    BY <2>1, <2>2, GivenUp DEF Promise!Next
  <2>3. CASE cur[t] = NoMessage
    <3>1. cur' = cur /\ \A u \in Task : u # t => pos'[u] = pos[u]
      BY <1>0, <2>1, <2>3 DEF Forget, TypeOK
    <3> QED
      BY <1>1, <2>1, <2>3, <3>1
  <2> QED
    BY <2>2, <2>3
<1>5. ASSUME NEW t \in Task, Claim(t) PROVE Promise!Next
  <2>1. PICK m \in batch[t] \ msgKeys :
          msgKeys' = msgKeys \cup {m} /\ cur' = [cur EXCEPT ![t] = m]
    BY <1>5 DEF Claim
  <2>2. /\ m \in Message /\ cur[t] = NoMessage /\ cur'[t] = m /\ pos'[t] = 1
        /\ \A u \in Task : u # t => /\ cur'[u] = cur[u] /\ pos'[u] = pos[u]
                                    /\ cur[u] # m
        /\ UNCHANGED <<objects, parseTasks, done>>
    BY <1>0, <1>5, <2>1, NullAssumption
       DEF Claim, TypeOK, CurrentOK, KeyedOK, history
  <2>3. Passes(cur', pos') = [Passes(cur, pos) EXCEPT ![m] = 1]
    BY <1>0, <2>2, PassesChange
  <2>4. Promise!Claim(m)
    BY <2>1, <2>2, <2>3, Mapping DEF Promise!Claim
  <2> QED
    BY <2>2, <2>4 DEF Promise!Next
<1>6. ASSUME NEW t \in Task, ClaimFails(t) PROVE [Promise!Next]_Promise!vars
  <2>1. PICK m \in batch[t] : MayHappen(msgKeys, msgKeys \cup {m})
    BY <1>6 DEF ClaimFails
  <2>2. /\ m \in Message /\ cur[t] = NoMessage /\ cur' = cur
        /\ \A u \in Task : u # t => pos'[u] = pos[u]
        /\ UNCHANGED <<objects, parseTasks, done>>
    BY <1>0, <1>6 DEF ClaimFails, TypeOK, CurrentOK, Forget, history
  <2>3. Passes(cur', pos') = Passes(cur, pos)
    BY <1>0, <2>2, PassesStay
  <2>4. CASE msgKeys' = msgKeys
    BY <2>2, <2>3, <2>4, Mapping DEF Promise!vars
  <2>5. CASE msgKeys' # msgKeys
    <3>1. m \notin msgKeys /\ msgKeys' = msgKeys \cup {m}
      BY <2>1, <2>5 DEF MayHappen
    <3>2. Promise!Claim(m)
      BY <2>2, <2>3, <3>1, Mapping DEF Promise!Claim
    <3> QED
      BY <2>2, <3>2 DEF Promise!Next
  <2> QED
    BY <2>4, <2>5
<1>7. ASSUME NEW m \in Message, MessageKeyExpires(m) PROVE Promise!Next
  <2>1. /\ m \in msgKeys /\ msgKeys' = msgKeys \ {m}
        /\ UNCHANGED <<objects, parseTasks, done, cur, pos>>
        /\ \A t \in Task : cur[t] # m
    BY <1>7 DEF MessageKeyExpires, local
  <2>2. A' = A /\ A[m] = 0
    BY <2>1 DEF At
  <2>3. Promise!Lapse(m)
    BY <2>1, <2>2 DEF Promise!Lapse
  <2> QED
    BY <2>3 DEF Promise!Next
<1>8. ASSUME \/ \E t \in Task :
                  \/ Trigger(t) \/ AcquireRunKey(t) \/ AlreadyRunning(t) \/ Search(t)
                  \/ Fetch(t) \/ FetchedAll(t) \/ Logout(t) \/ Skip(t)
                  \/ AllMessagesDone(t) \/ Release(t) \/ Retry(t)
                  \/ AcquireFails(t) \/ FetchYieldsNothing(t) \/ ReleaseFails(t)
             \/ RunKeyExpires
             \/ \E m \in Message : MailArrives(m) \/ MarkUnread(m)
             \/ UNCHANGED vars
      PROVE  UNCHANGED <<msgKeys, objects, parseTasks, done, cur, pos>>
  BY <1>8 DEF Trigger, AcquireRunKey, AlreadyRunning, Search, Fetch, FetchedAll, Logout,
     Skip, AllMessagesDone, Release, Retry, AcquireFails, FetchYieldsNothing,
     ReleaseFails, RunKeyExpires, MailArrives, MarkUnread, vars, stores, redis, local,
     history
<1> QED
  BY StepCases, <1>1, <1>2, <1>3, <1>4, <1>5, <1>6, <1>7, <1>8 DEF Progress, Failure

\* The collector implements CollectedMail, for any number of runs and mails, any
\* parts, corrupt ones included, any failures, crashes and expired keys.
THEOREM Refinement == Spec => ImplementsCollectedMail
<1>1. Init => Promise!Init
  BY PromiseInit
<1>2. ControlInv /\ ControlInv' /\ ClaimInv /\ ClaimInv' /\ PrefixInv /\ [Next]_vars
        => [Promise!Next]_Promise!vars
  BY PromiseStep DEF ClaimInv
<1> QED
  BY <1>1, <1>2, ControlInvInductive, ClaimInvInductive, PrefixInvInductive, PTL
     DEF Spec, ImplementsCollectedMail, Promise!Spec

-----------------------------------------------------------------------------
(* Every step brings a run nearer to its end                               *)

LEMMA RunPhases ==
  /\ RunPhase["queued"] = 1 /\ RunPhase["search"] = 2 /\ RunPhase["fetch"] = 3
  /\ RunPhase["logout"] = 4 /\ RunPhase["claim"] = 5 /\ RunPhase["store"] = 5
  /\ RunPhase["enqueue"] = 5 /\ RunPhase["finish"] = 6 /\ RunPhase["fail"] = 6
  /\ RunPhase["retry"] = 7 /\ RunPhase["idle"] = 8
BY DEF RunPhase

\* A step of one task is no step of another.
LEMMA RunsApart ==
  ASSUME TypeOK, NEW t \in Task, NEW u \in Task, u # t,
         Trigger(t) \/ Progress(t) \/ Failure(t)
  PROVE  RunStays(u)
<1> USE DEF TypeOK, RunStays, Goto, Forget, local
<1>1. CASE Trigger(t)
  BY <1>1 DEF Trigger
<1>2. CASE Progress(t)
  BY <1>2 DEF Progress, AcquireRunKey, AlreadyRunning, Search, Fetch, FetchedAll,
     Logout, Skip, Claim, Store, Enqueue, DecompressFails, MessageDone,
     AllMessagesDone, Release, Retry
<1>3. CASE Failure(t)
  BY <1>3 DEF Failure, AcquireFails, ImapFails, FetchYieldsNothing, ClaimFails,
     StoreFails, EnqueueFails, ReleaseFails, Crash
<1> QED
  BY <1>1, <1>2, <1>3

LEMMA RunForward ==
  ASSUME ControlInv, NEW t \in Task, Progress(t) \/ Failure(t)
  PROVE  RunAdvances(t)
<1>1. /\ pc \in [Task -> PC] /\ retries \in [Task -> 0 .. MaxRetries]
      /\ uids \in [Task -> SUBSET Message] /\ batch \in [Task -> SUBSET Message]
      /\ cur \in [Task -> Message \cup {NoMessage}] /\ pos \in [Task -> Nat \ {0}]
  BY DEF ControlInv, TypeOK
<1> USE RunPhases DEF RunAdvances, Goto
<1>2. CASE \/ AcquireRunKey(t) \/ AlreadyRunning(t) \/ Search(t) \/ FetchedAll(t)
           \/ Logout(t) \/ AllMessagesDone(t) \/ Release(t)
           \/ DecompressFails(t)
  BY <1>1, <1>2 DEF AcquireRunKey, AlreadyRunning, Search, FetchedAll, Logout,
     AllMessagesDone, Release, DecompressFails
<1>3. CASE Fetch(t) \/ FetchYieldsNothing(t)
  BY <1>1, <1>3 DEF Fetch, FetchYieldsNothing, Shrinks
<1>4. CASE Skip(t) \/ Claim(t)
  BY <1>1, <1>4 DEF Skip, Claim, Shrinks
<1>5. CASE Store(t) \/ Enqueue(t) \/ MessageDone(t)
  <2>1. cur[t] # NoMessage
    BY <1>5, NullAssumption DEF Store, Enqueue, MessageDone, ControlInv, CurrentOK
  <2>2. pc[t] = "enqueue" => PartLeft(t)
    BY DEF ControlInv, EnqueueOK
  <2>3. CASE Store(t)
    BY <1>1, <2>1, <2>3 DEF Store
  <2>4. CASE Enqueue(t)
    BY <1>1, <2>1, <2>2, <2>4 DEF Enqueue
  <2>5. CASE MessageDone(t)
    BY <1>1, <2>1, <2>5 DEF MessageDone
  <2> QED
    BY <1>5, <2>3, <2>4, <2>5
<1>6. CASE Retry(t)
  BY <1>1, <1>6 DEF Retry
<1>7. CASE AcquireFails(t) \/ ImapFails(t) \/ ClaimFails(t) \/ StoreFails(t) \/ EnqueueFails(t)
  BY <1>1, <1>7 DEF AcquireFails, ImapFails, ClaimFails, StoreFails, EnqueueFails, Imap
<1>8. CASE ReleaseFails(t)
  BY <1>1, <1>8 DEF ReleaseFails
<1>9. CASE Crash(t)
  BY <1>1, <1>9 DEF Crash, InRun, Imap
<1> QED
  BY <1>2, <1>3, <1>4, <1>5, <1>6, <1>7, <1>8, <1>9 DEF Progress, Failure

\* No step sets a run back, for any number of tasks, messages, parts and
\* failures.
THEOREM RunsOnlyAdvance == Spec => RunsAdvance
<1>1. ControlInv /\ [Next]_vars =>
        [\A t \in Task :
           \/ RunStays(t) \/ RunAdvances(t)
           \/ pc[t] = "idle" /\ pc'[t] = "queued" /\ retries'[t] = 0]_vars
  <2> SUFFICES ASSUME ControlInv, [Next]_vars, NEW t \in Task
               PROVE  \/ RunStays(t) \/ RunAdvances(t)
                      \/ pc[t] = "idle" /\ pc'[t] = "queued" /\ retries'[t] = 0
    OBVIOUS
  <2>1. TypeOK
    BY DEF ControlInv
  <2>2. CASE Trigger(t)
    BY <2>1, <2>2 DEF Trigger, Goto, TypeOK
  <2>3. CASE Progress(t) \/ Failure(t)
    BY <2>3, RunForward
  <2>4. ASSUME NEW u \in Task, u # t, Trigger(u) \/ Progress(u) \/ Failure(u)
        PROVE  RunStays(t)
    BY <2>1, <2>4, RunsApart
  <2>5. CASE RunKeyExpires \/ (\E m \in Message :
               MessageKeyExpires(m) \/ MailArrives(m) \/ MarkUnread(m))
    BY <2>5 DEF RunKeyExpires, MessageKeyExpires, MailArrives, MarkUnread, local, RunStays
  <2>6. CASE UNCHANGED vars
    BY <2>6 DEF vars, local, RunStays
  <2> QED
    BY <2>2, <2>3, <2>4, <2>5, <2>6, StepCases
<1> QED
  BY <1>1, ControlInvInductive, PTL DEF Spec, RunsAdvance
=============================================================================
