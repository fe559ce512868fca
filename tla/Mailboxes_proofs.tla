--------------------------- MODULE Mailboxes_proofs ---------------------------
(***************************************************************************)
(* Proofs, for any number of requests, mailboxes, settings and retries, of  *)
(* the types of mailbox administration and of what the write limiter does  *)
(* with its key.                                                           *)
(***************************************************************************)
EXTENDS Mailboxes, TLAPS

-----------------------------------------------------------------------------
(* Types                                                                   *)

\* How the limiter changes, and where requests are let in.
LEMMA LimiterChange ==
  ASSUME [Next]_vars
  PROVE  \/ UNCHANGED limiter
         \/ KeyAges
         \/ \E r \in Request :
              CreateKey(r) \/ TurnedAway(r) \/ CountedIn(r) \/ SetExpiry(r) \/ RedisFails(r)
BY DEF Next, vars, Tick, Serve, Arrive, Edit, Read, Admitted, LetIn, LetInUncounted, Queue,
       Beat, List, PollQueue, PollEnds, PollFails, Collect, CollectFails

LEMMA LimiterTypeStep == LimiterTypeOK /\ [Next]_vars => LimiterTypeOK'
<1> SUFFICES ASSUME LimiterTypeOK, [Next]_vars PROVE LimiterTypeOK'
  OBVIOUS
<1> USE LimitAssumption
<1>1. Incremented \in 0 .. MaxWrites + 1
  BY DEF Incremented, LimiterTypeOK
<1>2. CASE UNCHANGED limiter
  BY <1>2 DEF limiter, LimiterTypeOK
<1>3. CASE KeyAges
  BY <1>3 DEF KeyAges, LimiterTypeOK
<1>4. ASSUME NEW r \in Request, CreateKey(r) \/ TurnedAway(r) \/ CountedIn(r)
      PROVE  LimiterTypeOK'
  BY <1>1, <1>4 DEF CreateKey, TurnedAway, CountedIn, LimiterTypeOK
<1>5. ASSUME NEW r \in Request, SetExpiry(r) PROVE LimiterTypeOK'
  BY <1>5 DEF SetExpiry, LimiterTypeOK
<1>6. ASSUME NEW r \in Request, RedisFails(r) PROVE LimiterTypeOK'
  <2>1. lasting' \in BOOLEAN
    BY <1>6 DEF RedisFails, LimiterTypeOK
  <2>2. count' \in 0 .. MaxWrites + 1
    BY <1>1, <1>6 DEF RedisFails, LimiterTypeOK
  <2>3. ttl' \in 1 .. LimitTicks \cup {NoExpiry} /\ creating' \subseteq Request
    BY <1>6 DEF RedisFails, LimiterTypeOK
  <2> QED
    BY <2>1, <2>2, <2>3 DEF LimiterTypeOK
<1> QED
  BY LimiterChange, <1>2, <1>3, <1>4, <1>5, <1>6

LEMMA TypeInit == Init => TypeOK
<1> SUFFICES ASSUME Init PROVE TypeOK
  OBVIOUS
<1>1. LimiterTypeOK
  <2>1. 0 \in 0 .. MaxWrites + 1
    BY LimitAssumption
  <2> QED
    BY <2>1 DEF Init, LimiterInit, LimiterTypeOK
<1>2. 0 \in 0 .. MaxAdverse
  BY CountAssumption
<1> QED
  BY <1>1, <1>2 DEF Init, TypeOK

LEMMA TypeStep == TypeOK /\ [Next]_vars => TypeOK'
<1> SUFFICES ASSUME TypeOK, [Next]_vars PROVE TypeOK'
  OBVIOUS
<1>1. LimiterTypeOK'
  BY LimiterTypeStep DEF TypeOK
<1>2. /\ rows \in [Mailbox -> Row \cup {NoRow}] /\ deleted \subseteq Mailbox
      /\ trigger \in [Request -> Task \cup {NoRow}]
      /\ poll \in {"none", "queued", "sending"} /\ listed \subseteq Task
      /\ queue \subseteq Task
      /\ used \in [Mailbox -> Settings \cup {NoSettings}]
      /\ adverse \in 0 .. MaxAdverse
  BY DEF TypeOK
<1>3. \A m \in Mailbox : Exists(m) => TaskOf(m) \in Task
  BY <1>2, CountAssumption DEF Exists, TaskOf, Task, Row
<1>4. ASSUME Mishap PROVE adverse' \in 0 .. MaxAdverse
  BY <1>2, <1>4, CountAssumption DEF Mishap
<1>5. ASSUME NEW r \in Request, Admitted(r) PROVE adverse' \in 0 .. MaxAdverse
  BY <1>2, <1>4, <1>5 DEF Admitted, LetInUncounted
<1>6. CASE UNCHANGED vars \/ Tick
  <2>1. UNCHANGED <<rows, deleted, trigger, poll, listed, queue, used, adverse>>
    BY <1>6 DEF vars, Tick, polling
  <2> QED
    BY <1>1, <1>2, <2>1 DEF TypeOK
<1>7. ASSUME NEW r \in Request, Arrive(r) PROVE TypeOK'
  BY <1>1, <1>2, <1>7 DEF Arrive, polling, TypeOK
<1>8. ASSUME NEW r \in Request, Edit(r) PROVE TypeOK'
  <2>1. CASE Create
    <3>1. \A c \in Settings : [settings |-> c, enabled |-> TRUE] \in Row
      BY DEF Row
    <3>2. rows' \in [Mailbox -> Row \cup {NoRow}] /\ deleted' = deleted
      BY <1>2, <2>1, <3>1 DEF Create
    <3> QED
      BY <1>1, <1>2, <1>5, <1>8, <3>2 DEF Edit, polling, TypeOK
  <2>2. CASE Update
    <3>1. \A c \in Settings, e \in BOOLEAN : [settings |-> c, enabled |-> e] \in Row
      BY DEF Row
    <3>2. rows' \in [Mailbox -> Row \cup {NoRow}] /\ deleted' = deleted
      BY <1>2, <2>2, <3>1 DEF Update
    <3> QED
      BY <1>1, <1>2, <1>5, <1>8, <3>2 DEF Edit, polling, TypeOK
  <2>3. CASE Delete \/ NoChange
    <3>1. rows' \in [Mailbox -> Row \cup {NoRow}] /\ deleted' \subseteq Mailbox
      BY <1>2, <2>3 DEF Delete, NoChange
    <3> QED
      BY <1>1, <1>2, <1>5, <1>8, <3>1 DEF Edit, polling, TypeOK
  <2> QED
    BY <1>8, <2>1, <2>2, <2>3 DEF Edit
<1>9. ASSUME NEW r \in Request, Read(r) PROVE TypeOK'
  <2>1. trigger' \in [Request -> Task \cup {NoRow}]
    BY <1>2, <1>3, <1>9 DEF Read
  <2> QED
    BY <1>1, <1>2, <1>5, <1>9, <2>1 DEF Read, polling, TypeOK
<1>10. ASSUME NEW r \in Request, Queue(r) PROVE TypeOK'
  <2>1. /\ trigger' \in [Request -> Task \cup {NoRow}]
        /\ queue' \subseteq Task /\ adverse' \in 0 .. MaxAdverse
    BY <1>2, <1>4, <1>10 DEF Queue
  <2> QED
    BY <1>1, <1>2, <1>10, <2>1 DEF Queue, polling, TypeOK
<1>11. CASE Beat \/ List \/ PollQueue \/ PollEnds \/ PollFails
  <2>1. /\ poll' \in {"none", "queued", "sending"} /\ listed' \subseteq Task
        /\ queue' \subseteq Task /\ adverse' \in 0 .. MaxAdverse
    BY <1>2, <1>3, <1>4, <1>11 DEF Beat, List, Listed, PollQueue, PollEnds, PollFails
  <2>2. UNCHANGED <<rows, deleted, trigger, used>>
    BY <1>11 DEF Beat, List, PollQueue, PollEnds, PollFails
  <2> QED
    BY <1>1, <1>2, <2>1, <2>2 DEF TypeOK
<1>12. ASSUME NEW t \in Task, Collect(t) \/ CollectFails(t) PROVE TypeOK'
  <2>1. t.mailbox \in Mailbox /\ t.settings \in Settings /\ t.left \in 0 .. MaxRetries
    BY DEF Task
  <2>2. \A k \in {t.left - 1} \cap Nat : [t EXCEPT !.left = k] \in Task
    BY <2>1, CountAssumption DEF Task
  <2>3. /\ used' \in [Mailbox -> Settings \cup {NoSettings}] /\ queue' \subseteq Task
        /\ adverse' \in 0 .. MaxAdverse
    BY <1>2, <1>4, <1>12, <2>1, <2>2 DEF Collect, CollectFails
  <2> QED
    BY <1>1, <1>2, <1>12, <2>3 DEF Collect, CollectFails, polling, TypeOK
<1> QED
  BY <1>6, <1>7, <1>8, <1>9, <1>10, <1>11, <1>12 DEF Next, Serve

\* Types: the limiter's key, the rows and the tasks with their settings, for any
\* number of requests and mailboxes.
THEOREM TypeCorrect == Spec => []TypeOK
BY TypeInit, TypeStep, PTL DEF Spec

-----------------------------------------------------------------------------
(* The write limiter                                                       *)

\* The key is without a time to live only between INCR and EXPIRE, unless an
\* EXPIRE failed: whatever the number of requests and processes.
THEOREM LimiterHolds == Spec => []LimitIsTemporary
<1>1. Init => LimitIsTemporary
  BY DEF Init, LimiterInit, LimitIsTemporary
<1>2. TypeOK /\ LimitIsTemporary /\ [Next]_vars => LimitIsTemporary'
  <2> SUFFICES ASSUME LimiterTypeOK, LimitIsTemporary, [Next]_vars PROVE LimitIsTemporary'
    BY DEF TypeOK
  <2> USE LimitAssumption DEF LimiterTypeOK, LimitIsTemporary
  <2>1. CASE UNCHANGED limiter
    BY <2>1 DEF limiter
  <2>2. CASE KeyAges
    BY <2>2 DEF KeyAges
  <2>3. ASSUME NEW r \in Request, CreateKey(r) PROVE LimitIsTemporary'
    BY <2>3 DEF CreateKey
  <2>4. ASSUME NEW r \in Request, TurnedAway(r) \/ CountedIn(r) PROVE LimitIsTemporary'
    BY <2>4 DEF TurnedAway, CountedIn
  <2>5. ASSUME NEW r \in Request, SetExpiry(r) PROVE LimitIsTemporary'
    BY <2>5 DEF SetExpiry
  <2>6. ASSUME NEW r \in Request, RedisFails(r) PROVE LimitIsTemporary'
    <3>1. count \in Nat /\ (count = 0 => Incremented = 1) /\ LimitTicks # NoExpiry
      BY DEF Incremented
    <3>2. CASE r \notin creating /\ lasting'
      BY <3>2
    <3>3. CASE r \notin creating /\ ~lasting'
      <4>1. count' \in {count, Incremented} /\ ~lasting /\ ~(count = 0 /\ count' = 1)
        BY <2>6, <3>3 DEF RedisFails
      <4>2. UNCHANGED <<ttl, creating>>
        BY <2>6, <3>3 DEF RedisFails
      <4>3. count' > 0 => count > 0
        BY <3>1, <4>1
      <4> QED
        BY <4>1, <4>2, <4>3
    <3>4. CASE r \in creating
      <4>1. ttl' = LimitTicks \/ lasting'
        BY <2>6, <3>4 DEF RedisFails
      <4> QED
        BY <3>1, <4>1
    <3> QED
      BY <3>2, <3>3, <3>4
  <2> QED
    BY LimiterChange, <2>1, <2>2, <2>3, <2>4, <2>5, <2>6
<1> QED
  BY <1>1, <1>2, TypeCorrect, PTL DEF Spec
\* While a window runs nobody is between INCR and EXPIRE, and only one request
\* ever is.
WindowInv ==
  /\ count = 0 => creating = {} /\ ttl = NoExpiry
  /\ ttl # NoExpiry => creating = {}
  /\ \A r, q \in creating : r = q

LEMMA WindowStep == LimiterTypeOK /\ WindowInv /\ [Next]_vars => WindowInv'
<1> SUFFICES ASSUME LimiterTypeOK, WindowInv, [Next]_vars PROVE WindowInv'
  OBVIOUS
<1> USE LimitAssumption DEF LimiterTypeOK, WindowInv
<1>1. Incremented \in Nat /\ Incremented # 0
  BY DEF Incremented
<1>2. CASE UNCHANGED limiter
  BY <1>2 DEF limiter
<1>3. CASE KeyAges
  <2>1. creating' = {}
    BY <1>3 DEF KeyAges
  <2> QED
    BY <1>3, <2>1 DEF KeyAges
<1>4. ASSUME NEW r \in Request, CreateKey(r) PROVE WindowInv'
  BY <1>1, <1>4 DEF CreateKey
<1>5. ASSUME NEW r \in Request, TurnedAway(r) \/ CountedIn(r) PROVE WindowInv'
  BY <1>1, <1>5 DEF TurnedAway, CountedIn
<1>6. ASSUME NEW r \in Request, SetExpiry(r) PROVE WindowInv'
  BY <1>6 DEF SetExpiry
<1>7. ASSUME NEW r \in Request, RedisFails(r) PROVE WindowInv'
  <2>1. CASE r \in creating
    <3>1. creating' = {} /\ count' = count /\ count # 0
      BY <1>7, <2>1 DEF RedisFails
    <3> QED
      BY <3>1
  <2>2. CASE r \notin creating
    BY <1>1, <1>7, <2>2 DEF RedisFails
  <2> QED
    BY <2>1, <2>2
<1> QED
  BY LimiterChange, <1>2, <1>3, <1>4, <1>5, <1>6, <1>7

\* No request, turned away or not, and no process lengthens a window.
THEOREM WindowsEnd == Spec => WindowIsNotProlonged
<1>1. Init => WindowInv
  BY DEF Init, LimiterInit, WindowInv
<1>2. TypeOK /\ WindowInv /\ [Next]_vars => WindowInv'
  BY WindowStep DEF TypeOK
<1>3. TypeOK /\ WindowInv /\ [Next]_vars =>
        [ttl # NoExpiry /\ ttl' # NoExpiry => ttl' <= ttl]_vars
  <2> SUFFICES ASSUME LimiterTypeOK, WindowInv, [Next]_vars,
                      ttl # NoExpiry, ttl' # NoExpiry
               PROVE  ttl' <= ttl
    BY DEF TypeOK
  <2>1. ttl \in Nat /\ creating = {}
    BY DEF LimiterTypeOK, WindowInv
  <2>2. CASE KeyAges
    BY <2>1, <2>2 DEF KeyAges
  <2>3. CASE ~KeyAges
    <3>1. ttl' = ttl
      BY <2>1, <2>3, LimiterChange
         DEF limiter, CreateKey, TurnedAway, CountedIn, SetExpiry, RedisFails
    <3> QED
      BY <2>1, <3>1
  <2> QED
    BY <2>2, <2>3
<1> QED
  BY <1>1, <1>2, <1>3, TypeCorrect, PTL DEF Spec, WindowIsNotProlonged

-----------------------------------------------------------------------------
(* Tasks with settings that are out of date                                *)

\* What a step adds to the tasks that wait, and what it uses.
LEMMA WaitingStep ==
  ASSUME TypeOK, [Next]_vars
  PROVE  /\ \A t \in Waiting' :
              \/ t \in Waiting
              \/ Exists(t.mailbox) /\ t = TaskOf(t.mailbox)
              \/ \E u \in queue :
                   u.mailbox = t.mailbox /\ u.settings = t.settings /\ t.left < u.left
         /\ \A m \in Mailbox : m \notin Pending => used'[m] = used[m]
<1> DEFINE Old(t) == t \in Waiting
           Now(t) == Exists(t.mailbox) /\ t = TaskOf(t.mailbox)
           Again(t) == \E u \in queue :
             u.mailbox = t.mailbox /\ u.settings = t.settings /\ t.left < u.left
           OnWay == {trigger[r] : r \in {q \in Request : trigger[q] # NoRow}}
<1>1. /\ queue \subseteq Task /\ listed \subseteq Task
      /\ trigger \in [Request -> Task \cup {NoRow}]
      /\ used \in [Mailbox -> Settings \cup {NoSettings}]
  BY DEF TypeOK
<1>2. /\ Waiting = queue \cup listed \cup OnWay
      /\ Waiting' = queue' \cup listed' \cup OnWay'
  BY DEF Waiting
<1>3. \A m \in Mailbox : TaskOf(m).mailbox = m
  BY DEF TaskOf
<1>4. ASSUME UNCHANGED <<trigger, listed, queue, used>>
      PROVE  Waiting' = Waiting /\ used' = used
  BY <1>4 DEF Waiting
<1>5. CASE UNCHANGED vars \/ Tick \/ Beat \/ PollEnds
  BY <1>4, <1>5 DEF vars, polling, Tick, Beat, PollEnds
<1>6. ASSUME NEW r \in Request, Arrive(r) \/ Edit(r)
      PROVE  Waiting' = Waiting /\ used' = used
  BY <1>4, <1>6 DEF Arrive, Edit, polling
<1>7. ASSUME NEW r \in Request, Read(r)
      PROVE  (\A t \in Waiting' : Old(t) \/ Now(t)) /\ used' = used
  <2>1. PICK m \in Mailbox : Exists(m) /\ trigger' = [trigger EXCEPT ![r] = TaskOf(m)]
    BY <1>7 DEF Read
  <2>2. OnWay' \subseteq OnWay \cup {TaskOf(m)}
    BY <1>1, <2>1
  <2>3. UNCHANGED <<listed, queue, used>>
    BY <1>7 DEF Read, polling
  <2> HIDE DEF OnWay
  <2> QED
    BY <1>2, <1>3, <2>1, <2>2, <2>3
<1>8. ASSUME NEW r \in Request, Queue(r)
      PROVE  (\A t \in Waiting' : Old(t)) /\ used' = used
  <2>1. /\ trigger[r] # NoRow /\ queue' \subseteq queue \cup {trigger[r]}
        /\ trigger' = [trigger EXCEPT ![r] = NoRow] /\ UNCHANGED <<listed, used>>
    BY <1>8 DEF Queue, polling
  <2>2. OnWay' \subseteq OnWay /\ trigger[r] \in OnWay
    BY <1>1, <2>1
  <2> HIDE DEF OnWay
  <2> QED
    BY <1>2, <2>1, <2>2
<1>9. CASE List
  <2>1. /\ listed' = {TaskOf(m) : m \in {k \in Mailbox : Listed(k)}}
        /\ UNCHANGED <<trigger, queue, used>>
    BY <1>9 DEF List
  <2>2. \A t \in listed' : Now(t)
    BY <1>3, <2>1 DEF Listed
  <2> HIDE DEF Now
  <2>3. \A t \in Waiting' : Old(t) \/ Now(t)
    BY <1>2, <2>1, <2>2
  <2> QED
    BY <2>1, <2>3 DEF Now
<1>10. CASE PollQueue \/ PollFails
  <2>1. /\ queue' \subseteq queue \cup listed /\ listed' \subseteq listed
        /\ UNCHANGED <<trigger, used>>
    BY <1>10 DEF PollQueue, PollFails
  <2> QED
    BY <1>2, <2>1
<1>11. ASSUME NEW u \in Task, Collect(u) \/ CollectFails(u)
       PROVE  /\ \A t \in Waiting' : Old(t) \/ Again(t)
              /\ \A m \in Mailbox : m \notin Pending => used'[m] = used[m]
  <2>1. /\ u \in queue /\ UNCHANGED <<trigger, listed>>
        /\ used' \in {used, [used EXCEPT ![u.mailbox] = u.settings]}
        /\ queue' \subseteq queue \cup {[u EXCEPT !.left = k] : k \in {u.left - 1} \cap Nat}
    BY <1>11 DEF Collect, CollectFails, polling
  <2>2. u.left \in Nat
    BY CountAssumption DEF Task
  <2>3. \A k \in {u.left - 1} \cap Nat : Again([u EXCEPT !.left = k])
    <3>1. \A k : /\ [u EXCEPT !.left = k].mailbox = u.mailbox
                 /\ [u EXCEPT !.left = k].settings = u.settings
                 /\ [u EXCEPT !.left = k].left = k
      BY DEF Task
    <3> QED
      BY <2>1, <2>2, <3>1
  <2>4. u.mailbox \in Pending
    BY <2>1 DEF Pending, Waiting
  <2>5. \A m \in Mailbox : m \notin Pending => used'[m] = used[m]
    BY <1>1, <2>1, <2>4
  <2>6. \A t \in Waiting' : t \in Waiting \/ t \in queue'
    BY <1>2, <2>1
  <2> HIDE DEF Again
  <2> QED
    BY <1>2, <2>1, <2>3, <2>5, <2>6
<1> QED
  BY <1>5, <1>6, <1>7, <1>8, <1>9, <1>10, <1>11 DEF Next, Serve

\* A task is enqueued with the settings of its row as it is, or is a retry with
\* fewer retries left: older settings run out.
THEOREM OldSettingsEnd == Spec => OldSettingsRunOut
<1>1. TypeOK /\ [Next]_vars =>
        [\A t \in Waiting' :
           \/ t \in Waiting
           \/ Exists(t.mailbox) /\ t = TaskOf(t.mailbox)
           \/ \E u \in queue :
                u.mailbox = t.mailbox /\ u.settings = t.settings /\ t.left < u.left]_vars
  BY WaitingStep
<1> QED
  BY <1>1, TypeCorrect, PTL DEF Spec, OldSettingsRunOut

\* The ids of deleted rows are not in the table.
DeletedGone == \A m \in deleted : ~Exists(m)

LEMMA DeletedStep == TypeOK /\ DeletedGone /\ [Next]_vars => DeletedGone'
<1> SUFFICES ASSUME TypeOK, DeletedGone, [Next]_vars PROVE DeletedGone'
  OBVIOUS
<1> USE DEF DeletedGone, Exists
<1>1. rows \in [Mailbox -> Row \cup {NoRow}] /\ deleted \subseteq Mailbox
  BY DEF TypeOK
<1>2. ASSUME NEW r \in Request, Edit(r) PROVE DeletedGone'
  <2>1. CASE Create
    BY <1>1, <2>1 DEF Create
  <2>2. CASE Update
    BY <1>1, <2>2 DEF Update
  <2>3. CASE Delete \/ NoChange
    BY <1>1, <2>3 DEF Delete, NoChange
  <2> QED
    BY <1>2, <2>1, <2>2, <2>3 DEF Edit
<1>3. CASE UNCHANGED <<rows, deleted>>
  BY <1>3
<1> QED
  BY <1>2, <1>3
     DEF Next, vars, Tick, Serve, Arrive, Read, Queue, Beat, List, PollQueue, PollEnds,
         PollFails, Collect, CollectFails

\* A deleted mailbox without a task is never collected again.
THEOREM DeletionIsFinal == Spec => ForgottenForGood
<1>1. Init => DeletedGone
  BY DEF Init, DeletedGone
<1>2. TypeOK /\ DeletedGone /\ [Next]_vars => DeletedGone'
  BY DeletedStep
<1>3. TypeOK /\ DeletedGone /\ [Next]_vars =>
        [\A m \in deleted : m \notin Pending => m \notin Pending' /\ used'[m] = used[m]]_vars
  <2> SUFFICES ASSUME TypeOK, DeletedGone, [Next]_vars,
                      NEW m \in deleted, m \notin Pending
               PROVE  m \notin Pending' /\ used'[m] = used[m]
    OBVIOUS
  <2>1. m \in Mailbox /\ ~Exists(m)
    BY DEF TypeOK, DeletedGone
  <2>2. ASSUME NEW t \in Waiting', t.mailbox = m PROVE FALSE
    <3>1. t \notin Waiting
      BY <2>2 DEF Pending
    <3>2. \A u \in queue : u.mailbox # m
      BY DEF Pending, Waiting
    <3> QED
      BY <2>1, <2>2, <3>1, <3>2, WaitingStep
  <2> QED
    BY <2>1, <2>2, WaitingStep DEF Pending
<1> QED
  BY <1>1, <1>2, <1>3, TypeCorrect, PTL DEF Spec, ForgottenForGood
=============================================================================
