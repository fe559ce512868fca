------------------------ MODULE AlertDispatch_proofs ------------------------
(***************************************************************************)
(* Proofs, for any number of signals, payloads, channels, retries and      *)
(* failures, of the safety properties of the alert dispatch.               *)
(***************************************************************************)
EXTENDS AlertDispatch, TLAPS

-----------------------------------------------------------------------------
(* Tasks and the alerts they work on                                       *)

\* A task has a route, and with a legal retry number an alert.
LEMMA JobFacts ==
  ASSUME NEW j \in Job
  PROVE  /\ j[2] \in Source
         /\ RouteOf(j) \in Seq(Channel)
         /\ j[2] \notin Payload => j \in Alert /\ j[2] \in Signal
         /\ retries[j] \in Attempt => AlertOf(j) \in Alert
<1>1. j[1] \in Attempt /\ j[2] \in Source /\ j = <<j[1], j[2]>>
  BY RetriesAssumption DEF Job, Attempt, Source
<1>2. RouteOf(j) \in Seq(Channel)
  BY <1>1, RouteAssumption DEF RouteOf
<1>3. j[2] \notin Payload => j \in Alert /\ j[2] \in Signal
  BY <1>1 DEF Alert, Source
<1>4. retries[j] \in Attempt => AlertOf(j) \in Alert
  BY <1>1, <1>3 DEF AlertOf, Alert
<1> QED
  BY <1>1, <1>2, <1>3, <1>4

\* No two tasks ever work on the same alert.
LEMMA AlertsApart ==
  ASSUME NEW i \in Job, NEW j \in Job, AlertOf(i) = AlertOf(j)
  PROVE  i = j
<1>1. /\ i[2] \in Source /\ j[2] \in Source
      /\ i[2] \in Payload => i = <<0, i[2]>>
      /\ j[2] \in Payload => j = <<0, j[2]>>
  BY SourceAssumption DEF Job, Source
<1>2. CASE i[2] \in Payload /\ j[2] \in Payload
  <2>1. i[2] = j[2]
    BY <1>2 DEF AlertOf
  <2> QED
    BY <1>1, <1>2, <2>1
<1>3. CASE i[2] \in Payload /\ j[2] \notin Payload
  BY <1>3 DEF AlertOf
<1>4. CASE i[2] \notin Payload /\ j[2] \in Payload
  BY <1>4 DEF AlertOf
<1>5. CASE i[2] \notin Payload /\ j[2] \notin Payload
  BY <1>5 DEF AlertOf
<1> QED
  BY <1>2, <1>3, <1>4, <1>5

\* The channel a task is about to serve is one of its alert's.
LEMMA TargetType ==
  ASSUME NEW j \in Job, retries[j] \in Attempt, next[j] \in Nat \ {0}, ChannelLeft(j)
  PROVE  /\ next[j] \in DOMAIN RouteOf(j)
         /\ Target(j) \in Alert \X Channel
<1>1. /\ RouteOf(j) \in Seq(Channel) /\ AlertOf(j) \in Alert
  BY JobFacts
<1>2. next[j] \in DOMAIN RouteOf(j)
  BY <1>1 DEF ChannelLeft
<1> DEFINE r == RouteOf(j)
           k == next[j]
<1>3. r[k] \in Channel
  <2> HIDE DEF r, k
  <2> QED
    BY <1>1, <1>2 DEF r, k
<1> QED
  BY <1>1, <1>2, <1>3 DEF Target

\* Counting one more keeps a family of counters one.
LEMMA IncrementType ==
  ASSUME NEW S, NEW f \in [S -> Nat], NEW n \in S
  PROVE  /\ Increment(f, n) \in [S -> Nat]
         /\ \A m \in S : Increment(f, n)[m] = IF m = n THEN f[m] + 1 ELSE f[m]
  BY DEF Increment

-----------------------------------------------------------------------------
(* Types.  A task that is auditing has a channel left.                     *)

Auditing == \A j \in Job : pc[j] = "audit" => ChannelLeft(j)

TypeInv == TypeOK /\ Auditing

LEMMA TypeInit == Init => TypeInv
<1> SUFFICES ASSUME Init PROVE TypeInv
  OBVIOUS
<1>1. TypeOK
  BY RetriesAssumption DEF Init, TypeOK, Attempt
<1>2. Auditing
  BY DEF Init, Auditing
<1> QED
  BY <1>1, <1>2 DEF TypeInv

LEMMA TypeStep == TypeInv /\ [Next]_vars => TypeInv'
<1> SUFFICES ASSUME TypeOK, Auditing, [Next]_vars PROVE TypeOK' /\ Auditing'
  BY DEF TypeInv
<1> USE DEF TypeOK, Auditing, ChannelLeft, RouteOf, Goto, Mishap, MayHappen, Running,
        audits, detection, dispatch
<1>1. CASE Search
  BY <1>1 DEF Search
<1>2. CASE Insert
  BY <1>2 DEF Insert, Incidents, Alert, Source
<1>3. CASE Enqueue
  BY <1>3 DEF Enqueue
<1>4. CASE Correlated
  BY <1>4 DEF Correlated
<1>5. CASE CorrelateRetry
  BY <1>5, RetriesAssumption DEF CorrelateRetry, Attempt
<1>6. CASE CorrelateFails
  <2>1. adverse' \in 0 .. MaxAdverse
    BY <1>6, RetriesAssumption DEF CorrelateFails
  <2>2. Incidents \subseteq Alert
    BY DEF Incidents, Alert, Source
  <2>3. alerts' \subseteq Alert
    BY <1>6, <2>2 DEF CorrelateFails
  <2>4. /\ pc' \in [Job -> {"none", "queued", "done", "failed"} \cup Running]
        /\ \A j \in Job : pc'[j] = "audit" => pc[j] = "audit"
    BY <1>6 DEF CorrelateFails
  <2> QED
    BY <1>6, <2>1, <2>3, <2>4 DEF CorrelateFails
<1>7. CASE CorrelateCrash
  BY <1>7, RetriesAssumption DEF CorrelateCrash
<1>8. ASSUME NEW j \in Job, Submit(j) PROVE TypeOK' /\ Auditing'
  BY <1>8 DEF Submit
<1>9. ASSUME NEW j \in Job, Create(j) PROVE TypeOK' /\ Auditing'
  BY <1>9, JobFacts DEF Create
<1>10. ASSUME NEW j \in Job, AuditCreated(j) PROVE TypeOK' /\ Auditing'
  BY <1>10, JobFacts DEF AuditCreated
<1>11. ASSUME NEW j \in Job, Load(j) PROVE TypeOK' /\ Auditing'
  BY <1>11 DEF Load
<1>12. ASSUME NEW j \in Job, Send(j) PROVE TypeOK' /\ Auditing'
  <2>1. Target(j) \in Alert \X Channel
    BY <1>12, TargetType DEF Send
  <2>2. Increment(sent, Target(j)) \in [Alert \X Channel -> Nat]
    BY <2>1, IncrementType
  <2>3. adverse' \in 0 .. MaxAdverse
    BY <1>12, RetriesAssumption DEF Send
  <2>4. sent' \in [Alert \X Channel -> Nat]
    BY <1>12, <2>2 DEF Send
  <2>5. outcome' \in [Job -> {"delivered", "failed"}]
    BY <1>12 DEF Send
  <2>6. pc' \in [Job -> {"none", "queued", "done", "failed"} \cup Running]
    BY <1>12 DEF Send
  <2>7. Auditing'
    BY <1>12 DEF Send
  <2> QED
    BY <1>12, <2>3, <2>4, <2>5, <2>6, <2>7 DEF Send
<1>13. ASSUME NEW j \in Job, pc[j] = "audit", Audited(j)
       PROVE  /\ confirmed' \in [Alert \X Channel -> Nat]
              /\ refused' \in [Alert \X Channel -> Nat]
  <2>1. Target(j) \in Alert \X Channel
    BY <1>13, TargetType
  <2>2. /\ Increment(confirmed, Target(j)) \in [Alert \X Channel -> Nat]
        /\ Increment(refused, Target(j)) \in [Alert \X Channel -> Nat]
    BY <2>1, IncrementType
  <2> QED
    BY <1>13, <2>2 DEF Audited
<1>14. ASSUME NEW j \in Job, Audit(j) PROVE TypeOK' /\ Auditing'
  <2>1. /\ confirmed' \in [Alert \X Channel -> Nat]
        /\ refused' \in [Alert \X Channel -> Nat]
    BY <1>13, <1>14 DEF Audit
  <2> QED
    BY <1>14, <2>1 DEF Audit
<1>15. ASSUME NEW j \in Job, Dispatched(j) PROVE TypeOK' /\ Auditing'
  BY <1>15 DEF Dispatched
<1>16. ASSUME NEW j \in Job, DispatchFails(j) PROVE TypeOK' /\ Auditing'
  <2>1. adverse' \in 0 .. MaxAdverse
    BY <1>16, RetriesAssumption DEF DispatchFails
  <2>2. AlertOf(j) \in Alert
    BY JobFacts
  <2>3. alerts' \subseteq Alert /\ created' \subseteq Alert
    BY <1>16, <2>2 DEF DispatchFails
  <2>4. /\ confirmed' \in [Alert \X Channel -> Nat]
        /\ refused' \in [Alert \X Channel -> Nat]
    BY <1>13, <1>16 DEF DispatchFails
  <2>5. /\ pc' \in [Job -> {"none", "queued", "done", "failed"} \cup Running]
        /\ Auditing'
    BY <1>16 DEF DispatchFails
  <2> QED
    BY <1>16, <2>1, <2>3, <2>4, <2>5 DEF DispatchFails
<1>17. ASSUME NEW j \in Job, Retry(j) PROVE TypeOK' /\ Auditing'
  <2>1. retries' \in [Job -> Attempt]
    <3>1. CASE retries[j] < MaxRetries
      <4>1. retries[j] + 1 \in Attempt
        BY <3>1, RetriesAssumption DEF Attempt
      <4> QED
        BY <1>17, <3>1, <4>1 DEF Retry
    <3>2. CASE ~(retries[j] < MaxRetries)
      BY <1>17, <3>2 DEF Retry
    <3> QED
      BY <3>1, <3>2
  <2>2. \E label \in {"queued", "failed"} : pc' = [pc EXCEPT ![j] = label]
    BY <1>17 DEF Retry
  <2>3. /\ pc' \in [Job -> {"none", "queued", "done", "failed"} \cup Running]
        /\ \A i \in Job : pc'[i] = "audit" => pc[i] = "audit"
    BY <2>2
  <2> QED
    BY <1>17, <2>1, <2>3 DEF Retry
<1>18. ASSUME NEW j \in Job, Crash(j) PROVE TypeOK' /\ Auditing'
  BY <1>18, RetriesAssumption DEF Crash
<1>19. CASE UNCHANGED vars
  BY <1>19 DEF vars
<1> QED
  BY <1>1, <1>2, <1>3, <1>4, <1>5, <1>6, <1>7, <1>8, <1>9, <1>10, <1>11, <1>12,
     <1>14, <1>15, <1>16, <1>17, <1>18, <1>19
     DEF Next, CorrelateProgress, JobProgress

\* Every variable of the dispatch keeps its type.
THEOREM TypeCorrect == Spec => []TypeOK
<1>1. TypeInv => TypeOK
  BY DEF TypeInv
<1> QED
  BY <1>1, TypeInit, TypeStep, PTL DEF Spec
-----------------------------------------------------------------------------
(* What the two sides do to each other                                     *)

Correlation == CorrelateProgress \/ CorrelateFails \/ CorrelateCrash
JobStep(j)  == Submit(j) \/ JobProgress(j) \/ DispatchFails(j) \/ Crash(j)

\* The correlation task only adds alerts and only queues tasks, those of
\* incidents it has not sent yet.
LEMMA CorrelationEffect ==
  ASSUME TypeOK, Correlation
  PROVE  /\ alerts \subseteq alerts'
         /\ UNCHANGED <<audits, sent, retries, next, outcome>>
         /\ pc' = pc \/ \E j \in unsent : pc' = [pc EXCEPT ![j] = "queued"]
<1> USE DEF MayHappen, Goto, detection, dispatch
<1>1. CASE CorrelateProgress
  BY <1>1 DEF CorrelateProgress, Search, Insert, Enqueue, Correlated, CorrelateRetry
<1>2. CASE CorrelateFails
  BY <1>2 DEF CorrelateFails
<1>3. CASE CorrelateCrash
  BY <1>3 DEF CorrelateCrash
<1> QED
  BY <1>1, <1>2, <1>3 DEF Correlation

\* A task of the alert queue only adds alerts of its own, touches no other
\* task and starts only when it has been enqueued.
LEMMA JobEffect ==
  ASSUME TypeOK, NEW j \in Job, JobStep(j)
  PROVE  /\ UNCHANGED detection
         /\ alerts' = alerts \/ (j[2] \in Payload /\ alerts' = alerts \cup {AlertOf(j)})
         /\ created \subseteq created'
         /\ pc' \in [Job -> {"none", "queued", "done", "failed"} \cup Running]
         /\ \A i \in Job \ {j} : /\ pc'[i] = pc[i] /\ retries'[i] = retries[i]
                                 /\ next'[i] = next[i] /\ outcome'[i] = outcome[i]
         /\ pc[j] = "none" => j[2] \in Payload
         /\ pc'[j] # "none"
<1> USE DEF MayHappen, Goto, Running, audits, detection, TypeOK
<1>1. CASE Submit(j)
  BY <1>1 DEF Submit
<1>2. CASE Create(j)
  BY <1>2 DEF Create
<1>3. CASE AuditCreated(j)
  BY <1>3 DEF AuditCreated
<1>4. CASE Load(j)
  BY <1>4 DEF Load
<1>5. CASE Send(j)
  BY <1>5 DEF Send
<1>6. CASE Audit(j)
  BY <1>6 DEF Audit
<1>7. CASE Dispatched(j)
  BY <1>7 DEF Dispatched
<1>8. CASE Retry(j)
  BY <1>8 DEF Retry
<1>9. CASE DispatchFails(j)
  <2>1. /\ UNCHANGED <<detection, retries, next, outcome>>
        /\ pc[j] \in {"queued", "created", "audit"}
        /\ pc' = [pc EXCEPT ![j] = "retry"]
    BY <1>9 DEF DispatchFails
  <2>2. /\ alerts' = alerts \/ (j[2] \in Payload /\ alerts' = alerts \cup {AlertOf(j)})
        /\ created \subseteq created'
    BY <1>9 DEF DispatchFails
  <2> QED
    BY <2>1, <2>2
<1>10. CASE Crash(j)
  BY <1>10 DEF Crash
<1> QED
  BY <1>1, <1>2, <1>3, <1>4, <1>5, <1>6, <1>7, <1>8, <1>9, <1>10 DEF JobStep, JobProgress

-----------------------------------------------------------------------------
(* Incidents and their tasks                                               *)

\* No task runs ahead of its incident, and each run's incidents are enqueued
\* from a clean slate.
DetectionInv ==
  /\ unsent \subseteq alerts
  /\ unsent \subseteq Incidents
  /\ \A a \in alerts : a[2] \in Signal => a[1] \in 0 .. attempt
  /\ \A j \in Job : j[2] \in Signal /\ pc[j] # "none" =>
       /\ j \in alerts /\ j \notin unsent
       /\ correlate \in {"search", "insert"} => j[1] # attempt
  /\ correlate \in {"search", "insert", "retry"} => unsent = {}
  /\ correlate \in {"enqueue", "done"} =>
       \A j \in Incidents : j \in alerts /\ (j \in unsent \/ pc[j] # "none")
  /\ correlate = "done" => unsent = {}
  /\ correlate \in {"search", "insert"} =>
       \A j \in Job : j[2] \in Signal /\ j[1] = attempt => pc[j] = "none"

LEMMA DetectionInit == Init => DetectionInv
  BY DEF Init, DetectionInv, Incidents

LEMMA DetectionByCorrelation ==
  ASSUME TypeOK, DetectionInv, Correlation
  PROVE  DetectionInv'
<1> USE DEF TypeOK, DetectionInv, Incidents, MayHappen, Goto, detection, dispatch
<1>0. \A s \in Signal, k \in Attempt : <<k, s>> \in Job
  BY DEF Job
<1>1. CASE Search
  BY <1>1 DEF Search
<1>2. CASE Insert
  <2>1. \A j \in {attempt} \X found : j \in Job /\ j[1] = attempt /\ j[2] \in Signal
    BY <1>0
  <2>2. attempt \in 0 .. attempt
    BY DEF Attempt
  <2> QED
    BY <1>2, <2>1, <2>2 DEF Insert
<1>3. CASE Enqueue
  <2>1. PICK j \in unsent : unsent' = unsent \ {j} /\ pc' = [pc EXCEPT ![j] = "queued"]
    BY <1>3 DEF Enqueue
  <2>2. j \in Job /\ \A i \in Incidents : i \in Job
    BY <1>0
  <2> QED
    BY <1>3, <2>1, <2>2 DEF Enqueue
<1>4. CASE Correlated
  BY <1>4 DEF Correlated
<1>5. CASE CorrelateRetry
  <2>1. CASE attempt < MaxRetries
    <3>1. /\ attempt' = attempt + 1 /\ correlate' = "search"
          /\ UNCHANGED <<alerts, found, unsent, pc>>
      BY <1>5, <2>1 DEF CorrelateRetry
    <3>2. \A j \in Job : j[2] \in Signal /\ pc[j] # "none" => j[1] \in 0 .. attempt
      OBVIOUS
    <3>3. attempt \in Nat /\ 0 .. attempt \subseteq 0 .. (attempt + 1)
          /\ (attempt + 1) \notin 0 .. attempt
      BY DEF Attempt
    <3>4. unsent = {}
      BY <1>5 DEF CorrelateRetry
    <3> QED
      BY <3>1, <3>2, <3>3, <3>4
  <2>2. CASE ~(attempt < MaxRetries)
    BY <1>5, <2>2 DEF CorrelateRetry
  <2> QED
    BY <2>1, <2>2
<1>6. CASE CorrelateFails
  <2>1. /\ unsent' = {} /\ correlate' = "retry" /\ UNCHANGED <<attempt, found>>
    BY <1>6 DEF CorrelateFails
  <2>2. alerts' = alerts \/ alerts' = alerts \cup ({attempt} \X found)
    BY <1>6 DEF CorrelateFails
  <2>3. attempt \in 0 .. attempt
    BY DEF Attempt
  <2>4. \A a \in alerts' : a[2] \in Signal => a[1] \in 0 .. attempt
    BY <2>2, <2>3
  <2>5. pc' = pc \/ \E j \in unsent : pc' = [pc EXCEPT ![j] = "queued"]
    BY <1>6 DEF CorrelateFails
  <2>6. \A j \in unsent : j \in Job /\ j \in alerts
    BY <1>0
  <2>7. \A j \in Job : j[2] \in Signal /\ pc'[j] # "none" => j \in alerts
    BY <2>5, <2>6
  <2> QED
    BY <2>1, <2>2, <2>4, <2>7
<1>7. CASE CorrelateCrash
  BY <1>7 DEF CorrelateCrash
<1> QED
  BY <1>1, <1>2, <1>3, <1>4, <1>5, <1>6, <1>7 DEF Correlation, CorrelateProgress

LEMMA DetectionByJob ==
  ASSUME TypeOK, DetectionInv, NEW j \in Job, JobStep(j)
  PROVE  DetectionInv'
<1>1. /\ UNCHANGED <<correlate, attempt, found, unsent>>
      /\ alerts \subseteq alerts'
      /\ \A i \in Job \ {j} : pc'[i] = pc[i]
      /\ pc[j] = "none" => j[2] \in Payload
      /\ pc'[j] # "none"
  BY JobEffect DEF detection
<1>2. \A a \in alerts' : a[2] \in Signal => a \in alerts
  BY JobEffect, SourceAssumption DEF AlertOf
<1>3. Incidents \subseteq Job
  BY DEF Incidents, Job, TypeOK
<1>4. \A i \in Job : i[2] \in Signal => (pc'[i] = "none" <=> pc[i] = "none")
  BY <1>1, SourceAssumption
<1>5. Incidents' = Incidents
  BY <1>1 DEF Incidents
<1>6. \A i \in Incidents : i[2] \in Signal
  BY DEF Incidents, TypeOK
<1> QED
  BY <1>1, <1>2, <1>3, <1>4, <1>5, <1>6 DEF DetectionInv

-----------------------------------------------------------------------------
(* Counters                                                                *)

\* Tasks that are not being enqueued keep their control state.
LEMMA OnlyEnqueues ==
  ASSUME TypeOK, DetectionInv, Correlation, NEW i \in Job
  PROVE  pc'[i] = pc[i] \/ (pc[i] = "none" /\ pc'[i] = "queued")
<1>1. \A j \in unsent : j \in Job /\ j[2] \in Signal
  BY DEF TypeOK, Job
<1>2. \A j \in unsent : pc[j] = "none"
  BY <1>1 DEF DetectionInv
<1> QED
  BY <1>1, <1>2, CorrelationEffect DEF TypeOK

\* What a step of a task does to the counters: a send counts one notification,
\* an audit one attempt, and only those of the task's target.
LEMMA CounterEffect ==
  ASSUME TypeInv, NEW j \in Job, JobStep(j)
  PROVE  /\ sent' = sent \/ (Send(j) /\ sent' = Increment(sent, Target(j)))
         /\ \/ UNCHANGED <<confirmed, refused>>
            \/ pc[j] = "audit" /\ Audited(j) /\ pc'[j] \in {"send", "retry"}
<1> USE DEF audits, Goto, TypeInv, TypeOK
<1>1. CASE Submit(j)
  BY <1>1 DEF Submit
<1>2. CASE Create(j)
  BY <1>2 DEF Create
<1>3. CASE AuditCreated(j)
  BY <1>3 DEF AuditCreated
<1>4. CASE Load(j)
  BY <1>4 DEF Load
<1>5. CASE Send(j)
  BY <1>5 DEF Send
<1>6. CASE Audit(j)
  BY <1>6 DEF Audit
<1>7. CASE Dispatched(j)
  BY <1>7 DEF Dispatched
<1>8. CASE Retry(j)
  BY <1>8 DEF Retry
<1>9. CASE DispatchFails(j)
  BY <1>9 DEF DispatchFails
<1>10. CASE Crash(j)
  BY <1>10 DEF Crash
<1> QED
  BY <1>1, <1>2, <1>3, <1>4, <1>5, <1>6, <1>7, <1>8, <1>9, <1>10 DEF JobStep, JobProgress

\* Pointwise: one counter of the task's own alert grows by one, the others stay.
LEMMA CounterPoints ==
  ASSUME TypeInv, NEW j \in Job, JobStep(j)
  PROVE  /\ \A n \in Alert \X Channel :
              /\ sent[n] <= sent'[n]
              /\ confirmed[n] + refused[n] <= confirmed'[n] + refused'[n]
              /\ n[1] # AlertOf(j) =>
                   sent'[n] = sent[n] /\ confirmed'[n] = confirmed[n] /\ refused'[n] = refused[n]
         /\ ~Send(j) => sent' = sent
         /\ pc[j] # "audit" => UNCHANGED <<confirmed, refused>>
<1>0. /\ sent \in [Alert \X Channel -> Nat]
      /\ confirmed \in [Alert \X Channel -> Nat]
      /\ refused \in [Alert \X Channel -> Nat]
      /\ retries[j] \in Attempt /\ next[j] \in Nat \ {0}
  BY DEF TypeInv, TypeOK
<1>1. ASSUME ChannelLeft(j), NEW f \in [Alert \X Channel -> Nat]
      PROVE  \A n \in Alert \X Channel :
               /\ Increment(f, Target(j))[n] \in {f[n], f[n] + 1}
               /\ n[1] # AlertOf(j) => Increment(f, Target(j))[n] = f[n]
  <2>1. Target(j) \in Alert \X Channel
    BY <1>0, <1>1, TargetType
  <2> QED
    BY <2>1, <1>1 DEF Increment, Target
<1>2. \A n \in Alert \X Channel : sent[n] <= sent'[n] /\ (n[1] # AlertOf(j) => sent'[n] = sent[n])
  <2>1. CASE sent' = sent
    BY <2>1, <1>0
  <2>2. CASE Send(j) /\ sent' = Increment(sent, Target(j))
    <3>1. ChannelLeft(j)
      BY <2>2 DEF Send
    <3>2. \A n \in Alert \X Channel :
            /\ sent'[n] \in {sent[n], sent[n] + 1}
            /\ n[1] # AlertOf(j) => sent'[n] = sent[n]
      BY <2>2, <3>1, <1>0, <1>1
    <3> QED
      BY <3>2, <1>0
  <2> QED
    BY <2>1, <2>2, CounterEffect
<1>3. \A n \in Alert \X Channel :
        /\ confirmed[n] + refused[n] <= confirmed'[n] + refused'[n]
        /\ n[1] # AlertOf(j) => confirmed'[n] = confirmed[n] /\ refused'[n] = refused[n]
  <2>1. CASE UNCHANGED <<confirmed, refused>>
    BY <2>1, <1>0
  <2>2. CASE pc[j] = "audit" /\ Audited(j)
    <3>1. ChannelLeft(j)
      BY <2>2 DEF TypeInv, Auditing
    <3>2. \A n \in Alert \X Channel :
            /\ confirmed'[n] \in {confirmed[n], confirmed[n] + 1}
            /\ refused'[n] \in {refused[n], refused[n] + 1}
            /\ n[1] # AlertOf(j) => confirmed'[n] = confirmed[n] /\ refused'[n] = refused[n]
      <4>1. CASE confirmed' = Increment(confirmed, Target(j)) /\ refused' = refused
        BY <4>1, <3>1, <1>0, <1>1
      <4>2. CASE refused' = Increment(refused, Target(j)) /\ confirmed' = confirmed
        BY <4>2, <3>1, <1>0, <1>1
      <4> QED
        BY <2>2, <4>1, <4>2 DEF Audited
    <3> QED
      BY <3>2, <1>0
  <2> QED
    BY <2>1, <2>2, CounterEffect
<1> QED
  BY <1>2, <1>3, CounterEffect

-----------------------------------------------------------------------------
(* The trail never claims a delivery that did not happen                   *)

\* A task about to confirm a delivery has one that is not in the trail yet.
DeliveryInv ==
  /\ NoPhantomDelivery
  /\ \A j \in Job : pc[j] = "audit" /\ outcome[j] = "delivered" =>
       confirmed[Target(j)] < sent[Target(j)]

LEMMA DeliveryInit == Init => DeliveryInv
  BY DEF Init, DeliveryInv, NoPhantomDelivery

\* A task's target is fixed by its run and its position in the route.
LEMMA TargetKept ==
  ASSUME NEW i \in Job, retries'[i] = retries[i], next'[i] = next[i]
  PROVE  AlertOf(i)' = AlertOf(i) /\ Target(i)' = Target(i) /\ RouteOf(i)' = RouteOf(i)
  BY DEF AlertOf, Target, RouteOf

LEMMA DeliveryByJob ==
  ASSUME TypeInv, DeliveryInv, NEW j \in Job, JobStep(j)
  PROVE  DeliveryInv'
<1>0. /\ sent \in [Alert \X Channel -> Nat]
      /\ confirmed \in [Alert \X Channel -> Nat]
      /\ \A i \in Job : retries[i] \in Attempt /\ next[i] \in Nat \ {0}
      /\ pc \in [Job -> {"none", "queued", "done", "failed"} \cup Running]
      /\ outcome \in [Job -> {"delivered", "failed"}]
  BY DEF TypeInv, TypeOK
<1>1. \A i \in Job : pc[i] = "audit" => Target(i) \in Alert \X Channel
  BY <1>0, TargetType DEF TypeInv, Auditing
<1>2. \A i \in Job \ {j} : pc[i] = "audit" => Target(i)[1] # AlertOf(j)
  BY AlertsApart DEF Target
<1>3. ASSUME NEW i \in Job \ {j}, pc'[i] = "audit", outcome'[i] = "delivered"
      PROVE  confirmed'[Target(i)'] < sent'[Target(i)']
  <2>1. /\ pc[i] = "audit" /\ outcome[i] = "delivered"
        /\ retries'[i] = retries[i] /\ next'[i] = next[i]
    BY <1>3, JobEffect DEF TypeInv
  <2>2. Target(i)' = Target(i)
    BY <2>1, TargetKept
  <2> QED
    BY <2>1, <2>2, <1>1, <1>2, CounterPoints DEF DeliveryInv
<1>4. CASE Send(j)
  <2>1. /\ UNCHANGED <<confirmed, refused, next, retries>> /\ pc[j] = "send"
        /\ ChannelLeft(j) /\ pc'[j] = "audit"
    BY <1>0, <1>4 DEF Send, audits, Goto
  <2>2. Target(j) \in Alert \X Channel /\ Target(j)' = Target(j)
    BY <2>1, <1>0, TargetType, TargetKept
  <2>3. outcome'[j] = "delivered" => sent' = Increment(sent, Target(j))
    BY <1>0, <1>4 DEF Send
  <2>4. outcome'[j] = "delivered" => sent'[Target(j)] = sent[Target(j)] + 1
    BY <2>2, <2>3, <1>0 DEF Increment
  <2>5. \A n \in Alert \X Channel : sent[n] <= sent'[n] /\ confirmed'[n] = confirmed[n]
    BY <2>1, CounterPoints
  <2>6. sent' \in [Alert \X Channel -> Nat]
    <3>1. sent' = sent \/ sent' = Increment(sent, Target(j))
      BY <1>4 DEF Send
    <3> QED
      BY <3>1, <2>2, <1>0, IncrementType
  <2>7. NoPhantomDelivery'
    BY <2>5, <2>6, <1>0 DEF DeliveryInv, NoPhantomDelivery
  <2>8. outcome'[j] = "delivered" => confirmed'[Target(j)'] < sent'[Target(j)']
    BY <2>1, <2>2, <2>4, <1>0 DEF DeliveryInv, NoPhantomDelivery
  <2> QED
    BY <2>7, <2>8, <1>3 DEF DeliveryInv
<1>5. CASE ~Send(j)
  <2>1. sent' = sent
    BY <1>5, CounterPoints
  <2>2. CASE UNCHANGED <<confirmed, refused>>
    <3>1. pc'[j] # "audit" \/ (pc[j] = "audit" /\ pc'[j] = "audit" /\ outcome'[j] = outcome[j]
                               /\ retries'[j] = retries[j] /\ next'[j] = next[j])
      BY <1>0, <1>5 DEF JobStep, JobProgress, Submit, Create, AuditCreated, Load, Audit,
         Dispatched, Retry, DispatchFails, Crash, Goto
    <3>2. pc'[j] = "audit" => Target(j)' = Target(j)
      BY <3>1, TargetKept
    <3> QED
      BY <2>1, <2>2, <3>1, <3>2, <1>3 DEF DeliveryInv, NoPhantomDelivery
  <2>3. CASE pc[j] = "audit" /\ Audited(j) /\ pc'[j] \in {"send", "retry"}
    <3>1. \A n \in Alert \X Channel :
            confirmed'[n] = IF outcome[j] = "delivered" /\ n = Target(j)
                              THEN confirmed[n] + 1 ELSE confirmed[n]
      BY <2>3, <1>0, <1>1, IncrementType, SMTT(30) DEF Audited
    <3>2. NoPhantomDelivery'
      BY <2>1, <2>3, <3>1, <1>0 DEF DeliveryInv, NoPhantomDelivery
    <3> QED
      BY <2>3, <3>2, <1>3 DEF DeliveryInv
  <2> QED
    BY <2>2, <2>3, CounterEffect
<1> QED
  BY <1>4, <1>5

LEMMA DeliveryByCorrelation ==
  ASSUME TypeOK, DetectionInv, DeliveryInv, Correlation
  PROVE  DeliveryInv'
<1>1. UNCHANGED <<confirmed, refused, sent, retries, next, outcome>>
  BY CorrelationEffect DEF audits
<1>2. \A i \in Job : pc'[i] = "audit" => pc[i] = "audit"
  BY OnlyEnqueues
<1>3. \A i \in Job : Target(i)' = Target(i)
  BY <1>1, TargetKept
<1> QED
  BY <1>1, <1>2, <1>3 DEF DeliveryInv, NoPhantomDelivery

-----------------------------------------------------------------------------
(* Repeated notifications are bounded by the runs of the task              *)

\* In its present run, task j has not reached channel c.
NotYet(j, c) ==
  \/ pc[j] \in {"none", "queued", "created"}
  \/ pc[j] = "send" /\ \A k \in DOMAIN RouteOf(j) : k < next[j] => RouteOf(j)[k] # c
  \/ pc[j] = "audit" /\ \A k \in DOMAIN RouteOf(j) : k <= next[j] => RouteOf(j)[k] # c

\* A channel is notified once per run; a creating task's runs have an alert
\* each, and none has one of a run to come.
BoundOf(j, c) ==
  IF j[2] \in Payload
    THEN \A k \in Attempt :
           /\ sent[<<<<k, j[2]>>, c>>] <= 1
           /\ k > retries[j] => sent[<<<<k, j[2]>>, c>>] = 0
           /\ k = retries[j] /\ NotYet(j, c) => sent[<<<<k, j[2]>>, c>>] = 0
    ELSE /\ sent[<<j, c>>] <= retries[j] + 1
         /\ NotYet(j, c) => sent[<<j, c>>] <= retries[j]

RepeatInv == \A j \in Job : \A c \in Channel : BoundOf(j, c)

LEMMA RepeatBounds == TypeInv /\ RepeatInv => NotificationsBounded
  BY DEF RepeatInv, BoundOf, NotificationsBounded

LEMMA RepeatInit == Init => RepeatInv
<1> SUFFICES ASSUME Init, NEW j \in Job, NEW c \in Channel PROVE BoundOf(j, c)
  BY DEF RepeatInv
<1>1. j[2] \notin Payload => j \in Alert
  BY JobFacts
<1>2. j[2] \in Payload => \A k \in Attempt : <<k, j[2]>> \in Alert
  BY DEF Alert, Source
<1>3. j[2] \notin Payload => sent[<<j, c>>] = 0
  BY <1>1 DEF Init
<1>4. j[2] \in Payload => \A k \in Attempt : sent[<<<<k, j[2]>>, c>>] = 0
  BY <1>2 DEF Init
<1>5. retries[j] = 0
  BY DEF Init
<1> QED
  BY <1>3, <1>4, <1>5 DEF BoundOf

\* The bound depends on what belongs to the task and its alerts only; with
\* these unchanged it can only lose its NotYet part.
LEMMA BoundKept ==
  ASSUME TypeInv, NEW i \in Job, NEW c \in Channel, BoundOf(i, c),
         retries'[i] = retries[i], NotYet(i, c)' => NotYet(i, c),
         i[2] \in Payload => \A k \in Attempt :
           sent'[<<<<k, i[2]>>, c>>] = sent[<<<<k, i[2]>>, c>>],
         i[2] \notin Payload => sent'[<<i, c>>] = sent[<<i, c>>]
  PROVE  BoundOf(i, c)'
<1> HIDE DEF NotYet
<1> QED
  BY DEF BoundOf

LEMMA RepeatByCorrelation ==
  ASSUME TypeInv, DetectionInv, RepeatInv, Correlation
  PROVE  RepeatInv'
<1> SUFFICES ASSUME NEW i \in Job, NEW c \in Channel PROVE BoundOf(i, c)'
  BY DEF RepeatInv
<1>1. UNCHANGED <<sent, retries, next>>
  BY CorrelationEffect DEF TypeInv
<1>2. pc'[i] = pc[i] \/ (pc[i] = "none" /\ pc'[i] = "queued")
  BY OnlyEnqueues DEF TypeInv
<1>3. NotYet(i, c)' => NotYet(i, c)
  BY <1>1, <1>2 DEF NotYet, RouteOf
<1> QED
  BY <1>1, <1>3, BoundKept DEF RepeatInv

LEMMA RepeatByJob ==
  ASSUME TypeInv, RepeatInv, NEW j \in Job, JobStep(j)
  PROVE  RepeatInv'
<1>0. /\ sent \in [Alert \X Channel -> Nat]
      /\ retries \in [Job -> Attempt] /\ next \in [Job -> Nat \ {0}]
      /\ pc \in [Job -> {"none", "queued", "done", "failed"} \cup Running]
  BY DEF TypeInv, TypeOK
<1>1. ASSUME NEW i \in Job \ {j}, NEW c \in Channel PROVE BoundOf(i, c)'
  <2>1. /\ retries'[i] = retries[i] /\ next'[i] = next[i] /\ pc'[i] = pc[i]
    BY JobEffect DEF TypeInv
  <2>2. NotYet(i, c)' => NotYet(i, c)
    BY <2>1 DEF NotYet, RouteOf
  <2>3. i[2] \in Payload => \A k \in Attempt : <<k, i[2]>> \in Alert /\ <<k, i[2]>> # AlertOf(j)
    BY SourceAssumption DEF Job, AlertOf, Alert, Source
  <2>4. i[2] \notin Payload => i \in Alert /\ i # AlertOf(j)
    <3>1. AlertOf(j) = j \/ (j[2] \in Payload /\ AlertOf(j)[2] = j[2])
      BY DEF AlertOf
    <3> QED
      BY <3>1, JobFacts
  <2>5. \A n \in Alert \X Channel : n[1] # AlertOf(j) => sent'[n] = sent[n]
    BY CounterPoints
  <2>6. i[2] \in Payload => \A k \in Attempt :
          sent'[<<<<k, i[2]>>, c>>] = sent[<<<<k, i[2]>>, c>>]
    BY <2>3, <2>5
  <2>7. i[2] \notin Payload => sent'[<<i, c>>] = sent[<<i, c>>]
    BY <2>4, <2>5
  <2> QED
    BY <2>1, <2>2, <2>6, <2>7, BoundKept DEF RepeatInv
<1>2. ASSUME NEW c \in Channel PROVE BoundOf(j, c)'
  <2>0. BoundOf(j, c)
    BY DEF RepeatInv
  <2>1. CASE ~Send(j) /\ retries'[j] = retries[j]
    <3>1. sent' = sent
      BY <2>1, CounterPoints
    <3>2. NotYet(j, c)' => NotYet(j, c)
      <4> USE DEF Goto, NotYet, Running
      <4>0. retries[j] + 1 # retries[j]
        BY <1>0 DEF Attempt
      <4>1. CASE Submit(j) \/ Create(j) \/ Dispatched(j) \/ Crash(j) \/ Retry(j)
        <5>1. \/ pc[j] \in {"none", "queued"}
              \/ pc'[j] \in {"done", "failed"}
          BY <2>1, <4>0, <4>1, <1>0 DEF Submit, Create, Dispatched, Crash, Retry
        <5> QED
          BY <5>1
      <4>2. CASE AuditCreated(j) \/ Load(j)
        BY <2>1, <4>2, <1>0 DEF AuditCreated, Load
      <4>3. CASE DispatchFails(j)
        BY <2>1, <4>3, <1>0 DEF DispatchFails
      <4>4. CASE Audit(j)
        <5>1. pc[j] = "audit" /\ pc'[j] = "send" /\ next'[j] = next[j] + 1
          BY <4>4, <1>0 DEF Audit
        <5>2. \A k \in DOMAIN RouteOf(j) : k <= next[j] => k < next[j] + 1
          BY <1>0, JobFacts
        <5> QED
          BY <5>1, <5>2 DEF RouteOf
      <4> QED
        BY <2>1, <4>1, <4>2, <4>3, <4>4 DEF JobStep, JobProgress
    <3> QED
      BY <2>0, <2>1, <3>1, <3>2, BoundKept
  <2>2. CASE Retry(j) /\ retries'[j] = retries[j] + 1
    <3>1. sent' = sent
      BY <2>2, CounterPoints DEF Retry
    <3>2. j[2] \in Payload \/ (retries[j] \in Nat /\ sent[<<j, c>>] \in Nat)
      BY <1>0, JobFacts DEF Attempt
    <3>3. retries[j] \in Nat
      BY <1>0 DEF Attempt
    <3>4. CASE j[2] \in Payload
      <4>1. \A k \in Attempt : k >= retries[j] + 1 => k > retries[j]
        BY <3>3 DEF Attempt
      <4>2. \A k \in Attempt : k > retries[j] + 1 => k >= retries[j] + 1
        BY <3>3 DEF Attempt
      <4>3. \A k \in Attempt : k = retries[j] + 1 => k >= retries[j] + 1
        BY <3>3 DEF Attempt
      <4> QED
        BY <2>0, <2>2, <3>1, <3>4, <4>1, <4>2, <4>3 DEF BoundOf
    <3>5. CASE j[2] \notin Payload
      BY <2>0, <2>2, <3>1, <3>2, <3>3, <3>5 DEF BoundOf
    <3> QED
      BY <3>4, <3>5
  <2>3. CASE Send(j)
    <3>1. /\ pc[j] = "send" /\ pc'[j] = "audit" /\ ChannelLeft(j)
          /\ retries'[j] = retries[j] /\ next'[j] = next[j]
      BY <2>3, <1>0 DEF Send, Goto
    <3>2. next[j] \in DOMAIN RouteOf(j) /\ Target(j) \in Alert \X Channel
      BY <3>1, <1>0, TargetType
    <3>3. NotYet(j, c)' => NotYet(j, c)
      <4>1. \A k \in DOMAIN RouteOf(j) : k < next[j] => k <= next[j]
        BY <1>0, JobFacts
      <4> QED
        BY <3>1, <4>1 DEF NotYet, RouteOf
    <3>4. CASE sent' = sent
      BY <2>0, <3>1, <3>3, <3>4, BoundKept
    <3>5. CASE sent' = Increment(sent, Target(j)) /\ c # RouteOf(j)[next[j]]
      <4>1. \A n \in Alert \X Channel : n # Target(j) => sent'[n] = sent[n]
        BY <3>2, <3>5, <1>0, IncrementType
      <4>2. j[2] \in Payload => \A k \in Attempt :
              <<<<k, j[2]>>, c>> \in Alert \X Channel /\ <<<<k, j[2]>>, c>> # Target(j)
        BY <3>5 DEF Alert, Source, Target
      <4>3. j[2] \notin Payload => <<j, c>> \in Alert \X Channel /\ <<j, c>> # Target(j)
        BY <3>5, JobFacts DEF Target
      <4>4. j[2] \in Payload => \A k \in Attempt :
              sent'[<<<<k, j[2]>>, c>>] = sent[<<<<k, j[2]>>, c>>]
        BY <4>1, <4>2
      <4>5. j[2] \notin Payload => sent'[<<j, c>>] = sent[<<j, c>>]
        BY <4>1, <4>3
      <4> QED
        BY <2>0, <3>1, <3>3, <4>4, <4>5, BoundKept
    <3>6. CASE sent' = Increment(sent, Target(j)) /\ c = RouteOf(j)[next[j]]
      <4>1. \A k, l \in DOMAIN RouteOf(j) : RouteOf(j)[k] = RouteOf(j)[l] => k = l
        BY JobFacts, DistinctChannels DEF RouteOf
      <4>2. NotYet(j, c)
        <5>1. \A k \in DOMAIN RouteOf(j) : k < next[j] => RouteOf(j)[k] # c
          BY <3>2, <3>6, <4>1, <1>0
        <5> QED
          BY <3>1, <5>1 DEF NotYet
      <4>3. ~NotYet(j, c)'
        <5>1. next[j] <= next[j]
          BY <1>0
        <5> QED
          BY <3>1, <3>2, <3>6, <5>1 DEF NotYet, RouteOf
      <4>4. Target(j) = <<AlertOf(j), c>>
        BY <3>6 DEF Target
      <4>5. \A n \in Alert \X Channel :
              sent'[n] = IF n = <<AlertOf(j), c>> THEN sent[n] + 1 ELSE sent[n]
        BY <3>2, <3>6, <4>4, <1>0 DEF Increment
      <4>6. CASE j[2] \in Payload
        <5>1. AlertOf(j) = <<retries[j], j[2]>> /\ retries[j] \in Attempt
          BY <4>6, <1>0 DEF AlertOf
        <5>2. sent[<<<<retries[j], j[2]>>, c>>] = 0
          BY <2>0, <4>2, <4>6, <5>1 DEF BoundOf
        <5>3. \A k \in Attempt : <<<<k, j[2]>>, c>> \in Alert \X Channel
          BY <4>6 DEF Alert, Source
        <5>4. sent'[<<<<retries[j], j[2]>>, c>>] = 1
          BY <4>5, <5>1, <5>2, <5>3
        <5>5. \A k \in Attempt : k # retries[j] =>
                sent'[<<<<k, j[2]>>, c>>] = sent[<<<<k, j[2]>>, c>>]
          BY <4>5, <5>1, <5>3
        <5>6. ~(retries[j] > retries[j])
          BY <5>1 DEF Attempt
        <5>7. ASSUME NEW k \in Attempt
              PROVE  /\ sent'[<<<<k, j[2]>>, c>>] <= 1
                     /\ k > retries[j] => sent'[<<<<k, j[2]>>, c>>] = 0
          BY <2>0, <4>6, <5>4, <5>5, <5>6 DEF BoundOf
        <5> QED
          BY <3>1, <4>3, <4>6, <5>7 DEF BoundOf
      <4>7. CASE j[2] \notin Payload
        <5>1. AlertOf(j) = j /\ j \in Alert
          BY <4>7, JobFacts DEF AlertOf
        <5>2. sent'[<<j, c>>] = sent[<<j, c>>] + 1 /\ sent[<<j, c>>] \in Nat
          BY <4>5, <5>1, <1>0
        <5>3. sent[<<j, c>>] <= retries[j]
          BY <2>0, <4>2, <4>7 DEF BoundOf
        <5> QED
          BY <1>0, <3>1, <4>3, <4>7, <5>2, <5>3 DEF BoundOf, Attempt
      <4> QED
        BY <4>6, <4>7
    <3> QED
      BY <2>3, <3>4, <3>5, <3>6 DEF Send
  <2>4. ~Send(j) => \/ retries'[j] = retries[j]
                    \/ Retry(j) /\ retries'[j] = retries[j] + 1
    BY <1>0 DEF JobStep, JobProgress, Submit, Create, AuditCreated, Load, Audit,
       Dispatched, Retry, DispatchFails, Crash
  <2> QED
    BY <2>1, <2>2, <2>3, <2>4
<1> QED
  BY <1>1, <1>2 DEF RepeatInv

-----------------------------------------------------------------------------
(* Success means an audited attempt on every channel                       *)

\* Every channel task j has passed in its present run has an audited attempt.
Served(j) ==
  \A k \in DOMAIN RouteOf(j) : k < next[j] =>
    confirmed[<<AlertOf(j), RouteOf(j)[k]>>] + refused[<<AlertOf(j), RouteOf(j)[k]>>] > 0

ServedOf(j) ==
  /\ pc[j] \in {"created", "send", "audit", "done"} => AlertOf(j) \in alerts
  /\ pc[j] \in {"send", "audit", "done"} =>
       Served(j) /\ (j[2] \in Payload => AlertOf(j) \in created)
  /\ pc[j] = "done" => ~ChannelLeft(j)

ServedInv == \A j \in Job : ServedOf(j)

LEMMA ServedDone == TypeInv /\ ServedInv => DoneIsAudited
<1> SUFFICES ASSUME TypeInv, ServedInv, NEW j \in Job, pc[j] = "done"
             PROVE  /\ AlertOf(j) \in alerts
                    /\ j[2] \in Payload => AlertOf(j) \in created
                    /\ \A k \in DOMAIN RouteOf(j) : k < next[j]
  BY DEF DoneIsAudited, ServedInv, ServedOf, Served
<1>1. next[j] \in Nat /\ ~(next[j] <= Len(RouteOf(j))) /\ RouteOf(j) \in Seq(Channel)
  BY JobFacts DEF ServedInv, ServedOf, ChannelLeft, TypeInv, TypeOK
<1>2. \A k \in DOMAIN RouteOf(j) : k < next[j]
  BY <1>1
<1> QED
  BY <1>2 DEF ServedInv, ServedOf

LEMMA ServedInit == Init => ServedInv
  BY DEF Init, ServedInv, ServedOf

\* Attempts are never taken back, alerts and "created" entries neither.
LEMMA ServedKept ==
  ASSUME TypeInv, NEW i \in Job, ServedOf(i),
         alerts \subseteq alerts', created \subseteq created',
         \A n \in Alert \X Channel :
           confirmed[n] + refused[n] > 0 => confirmed'[n] + refused'[n] > 0,
         retries'[i] = retries[i], next'[i] = next[i],
         \/ pc'[i] = pc[i]
         \/ pc'[i] \in {"none", "queued", "retry", "failed"}
         \/ pc[i] = "send" /\ pc'[i] = "audit"
  PROVE  ServedOf(i)'
<1>1. AlertOf(i)' = AlertOf(i) /\ RouteOf(i)' = RouteOf(i)
  BY TargetKept
<1>2. \A k \in DOMAIN RouteOf(i) : <<AlertOf(i), RouteOf(i)[k]>> \in Alert \X Channel
  <2>1. AlertOf(i) \in Alert /\ RouteOf(i) \in Seq(Channel)
    BY JobFacts DEF TypeInv, TypeOK
  <2> DEFINE r == RouteOf(i)
  <2>2. \A k \in DOMAIN r : r[k] \in Channel
    <3> HIDE DEF r
    <3> QED
      BY <2>1 DEF r
  <2> QED
    BY <2>1, <2>2
<1>3. \A n \in Alert \X Channel :
        confirmed[n] + refused[n] > 0 => confirmed'[n] + refused'[n] > 0
  OBVIOUS
<1>4. Served(i) => Served(i)'
  BY <1>1, <1>2, <1>3 DEF Served
<1>5. ChannelLeft(i)' <=> ChannelLeft(i)
  BY <1>1 DEF ChannelLeft
<1>6. CASE pc'[i] = pc[i]
  BY <1>1, <1>4, <1>5, <1>6 DEF ServedOf
<1>7. CASE pc'[i] \in {"none", "queued", "retry", "failed"}
  BY <1>7 DEF ServedOf
<1>8. CASE pc[i] = "send" /\ pc'[i] = "audit"
  BY <1>1, <1>4, <1>8 DEF ServedOf
<1> QED
  BY <1>6, <1>7, <1>8

LEMMA ServedByCorrelation ==
  ASSUME TypeInv, DetectionInv, ServedInv, Correlation
  PROVE  ServedInv'
<1> SUFFICES ASSUME NEW i \in Job PROVE ServedOf(i)'
  BY DEF ServedInv
<1>1. /\ UNCHANGED <<confirmed, refused, created, retries, next>>
      /\ alerts \subseteq alerts'
  BY CorrelationEffect DEF TypeInv, audits
<1>2. pc'[i] = pc[i] \/ (pc[i] = "none" /\ pc'[i] = "queued")
  BY OnlyEnqueues DEF TypeInv
<1>3. \A n \in Alert \X Channel :
        confirmed[n] + refused[n] > 0 => confirmed'[n] + refused'[n] > 0
  BY <1>1
<1> QED
  BY <1>1, <1>2, <1>3, ServedKept DEF ServedInv

LEMMA ServedByJob ==
  ASSUME TypeInv, TypeOK', ServedInv, NEW j \in Job, JobStep(j)
  PROVE  ServedInv'
<1>0. /\ retries \in [Job -> Attempt] /\ next \in [Job -> Nat \ {0}]
      /\ pc \in [Job -> {"none", "queued", "done", "failed"} \cup Running]
      /\ TypeOK
  BY DEF TypeInv, TypeOK
<1>1. /\ alerts \subseteq alerts' /\ created \subseteq created'
      /\ \A n \in Alert \X Channel :
           confirmed[n] + refused[n] > 0 => confirmed'[n] + refused'[n] > 0
  <2>1. \A n \in Alert \X Channel :
          confirmed[n] + refused[n] <= confirmed'[n] + refused'[n]
    BY CounterPoints
  <2>2. \A n \in Alert \X Channel :
          confirmed[n] + refused[n] > 0 => confirmed'[n] + refused'[n] > 0
    BY <2>1 DEF TypeInv, TypeOK
  <2>3. alerts \subseteq alerts' /\ created \subseteq created'
    BY <1>0, JobEffect
  <2> QED
    BY <2>2, <2>3
<1>2. ASSUME NEW i \in Job \ {j} PROVE ServedOf(i)'
  <2>1. pc'[i] = pc[i] /\ retries'[i] = retries[i] /\ next'[i] = next[i]
    BY <1>0, JobEffect
  <2> QED
    BY <2>1, <1>1, ServedKept DEF ServedInv
<1>3. ServedOf(j)
  BY DEF ServedInv
<1>4. ServedOf(j)'
  <2> USE DEF Goto
  <2>1. CASE Submit(j) \/ Send(j) \/ Crash(j) \/ DispatchFails(j)
    <3>1. /\ retries' = retries /\ next' = next
          /\ \/ pc'[j] \in {"queued", "retry", "failed"}
             \/ pc[j] = "send" /\ pc'[j] = "audit"
      BY <2>1, <1>0 DEF Submit, Send, Crash, DispatchFails
    <3> QED
      BY <3>1, <1>1, <1>3, ServedKept
  <2>2. CASE Retry(j)
    <3>1. pc'[j] \in {"queued", "failed"}
      BY <2>2, <1>0 DEF Retry
    <3> QED
      BY <3>1 DEF ServedOf
  <2>3. CASE Create(j)
    <3>1. pc'[j] = "created" /\ retries' = retries /\ AlertOf(j) \in alerts'
      BY <2>3, <1>0 DEF Create
    <3> QED
      BY <3>1 DEF ServedOf, AlertOf
  <2>4. CASE AuditCreated(j)
    <3>1. /\ pc'[j] = "send" /\ retries' = retries /\ alerts' = alerts
          /\ AlertOf(j) \in created' /\ next'[j] = 1 /\ pc[j] = "created"
      BY <2>4, <1>0 DEF AuditCreated
    <3>2. \A k \in DOMAIN RouteOf(j) : ~(k < 1)
      BY JobFacts
    <3>3. Served(j)'
      BY <3>1, <3>2 DEF Served, RouteOf
    <3> QED
      BY <3>1, <3>3, <1>3 DEF ServedOf, AlertOf
  <2>5. CASE Load(j)
    <3>1. /\ pc'[j] = "send" /\ retries' = retries /\ alerts' = alerts
          /\ j \in alerts /\ j[2] \in Signal /\ next'[j] = 1
      BY <2>5, <1>0 DEF Load
    <3>2. \A k \in DOMAIN RouteOf(j) : ~(k < 1)
      BY JobFacts
    <3>3. Served(j)'
      BY <3>1, <3>2 DEF Served, RouteOf
    <3>4. j[2] \notin Payload
      BY <3>1, SourceAssumption
    <3> QED
      BY <3>1, <3>3, <3>4 DEF ServedOf, AlertOf
  <2>6. CASE Audit(j)
    <3>1. /\ pc[j] = "audit" /\ pc'[j] = "send" /\ Audited(j)
          /\ retries' = retries /\ next'[j] = next[j] + 1
          /\ alerts' = alerts /\ created' = created
      BY <2>6, <1>0 DEF Audit
    <3>2. AlertOf(j)' = AlertOf(j) /\ RouteOf(j)' = RouteOf(j)
      BY <3>1 DEF AlertOf, RouteOf
    <3>3. /\ next[j] \in DOMAIN RouteOf(j) /\ Target(j) \in Alert \X Channel
      BY <3>1, <1>0, TargetType DEF TypeInv, Auditing
    <3>4. confirmed'[Target(j)] + refused'[Target(j)] > 0
      <4>1. /\ confirmed \in [Alert \X Channel -> Nat]
            /\ refused \in [Alert \X Channel -> Nat]
        BY <1>0 DEF TypeOK
      <4>2. CASE confirmed' = Increment(confirmed, Target(j)) /\ refused' = refused
        BY <4>1, <4>2, <3>3 DEF Increment
      <4>3. CASE refused' = Increment(refused, Target(j)) /\ confirmed' = confirmed
        BY <4>1, <4>3, <3>3 DEF Increment
      <4> QED
        BY <3>1, <4>2, <4>3 DEF Audited
    <3>5. ASSUME NEW k \in DOMAIN RouteOf(j), k < next[j] + 1
          PROVE  confirmed'[<<AlertOf(j), RouteOf(j)[k]>>]
                   + refused'[<<AlertOf(j), RouteOf(j)[k]>>] > 0
      <4>1. CASE k = next[j]
        BY <4>1, <3>4 DEF Target
      <4>2. CASE k # next[j]
        <5>1. k < next[j]
          BY <4>2, <3>5, <1>0, JobFacts
        <5>2. <<AlertOf(j), RouteOf(j)[k]>> \in Alert \X Channel
          <6> DEFINE r == RouteOf(j)
          <6>1. r \in Seq(Channel) /\ k \in DOMAIN r
            BY JobFacts, <3>5
          <6>2. r[k] \in Channel
            <7> HIDE DEF r
            <7> QED
              BY <6>1
          <6> QED
            BY <6>2, JobFacts, <1>0
        <5>3. confirmed[<<AlertOf(j), RouteOf(j)[k]>>]
                + refused[<<AlertOf(j), RouteOf(j)[k]>>] > 0
          BY <5>1, <3>1, <3>5, <1>3 DEF ServedOf, Served
        <5>4. \A n \in Alert \X Channel :
                confirmed[n] + refused[n] > 0 => confirmed'[n] + refused'[n] > 0
          BY <1>1
        <5> QED
          BY <5>2, <5>3, <5>4
      <4> QED
        BY <4>1, <4>2
    <3>6. Served(j)'
      BY <3>1, <3>2, <3>5 DEF Served
    <3> QED
      BY <3>1, <3>2, <3>6, <1>3 DEF ServedOf
  <2>7. CASE Dispatched(j)
    <3>1. /\ pc[j] = "send" /\ pc'[j] = "done" /\ ~ChannelLeft(j)
          /\ UNCHANGED <<alerts, created, confirmed, refused, retries, next>>
      BY <2>7, <1>0 DEF Dispatched, audits
    <3> QED
      BY <3>1, <1>3 DEF ServedOf, Served, AlertOf, RouteOf, ChannelLeft
  <2> QED
    BY <2>1, <2>2, <2>3, <2>4, <2>5, <2>6, <2>7 DEF JobStep, JobProgress
<1> QED
  BY <1>2, <1>4 DEF ServedInv

-----------------------------------------------------------------------------
(* Without a failed call nothing happens twice                             *)

\* Retries have a cause: as long as no call failed, every task is in its first
\* run and so is every alert.
CalmInv ==
  adverse = 0 =>
    /\ attempt = 0 /\ correlate # "retry"
    /\ \A a \in alerts : a[1] = 0
    /\ \A j \in Job : retries[j] = 0 /\ pc[j] # "retry"

LEMMA CalmInit == Init => CalmInv
  BY DEF Init, CalmInv

LEMMA CalmByCorrelation ==
  ASSUME TypeInv, CalmInv, DetectionInv, Correlation
  PROVE  CalmInv'
<1>1. CASE CorrelateProgress
  <2>1. adverse' = adverse
    BY <1>1 DEF CorrelateProgress, Search, Insert, Enqueue, Correlated, CorrelateRetry
  <2>2. \A i \in Job : retries'[i] = retries[i] /\ (pc'[i] = "retry" => pc[i] = "retry")
    BY CorrelationEffect, OnlyEnqueues DEF TypeInv
  <2>3. alerts' = alerts \/ alerts' = alerts \cup ({attempt} \X found)
    BY <1>1 DEF CorrelateProgress, Search, Insert, Enqueue, Correlated, CorrelateRetry,
       Incidents
  <2>4. adverse = 0 => attempt' = attempt /\ correlate' # "retry"
    BY <1>1 DEF CalmInv, CorrelateProgress, Search, Insert, Enqueue, Correlated,
       CorrelateRetry
  <2> QED
    BY <2>1, <2>2, <2>3, <2>4 DEF CalmInv
<1>2. CASE CorrelateFails \/ CorrelateCrash
  <2>1. adverse' # 0
    BY <1>2, RetriesAssumption DEF CorrelateFails, CorrelateCrash, Mishap, TypeInv, TypeOK
  <2> QED
    BY <2>1 DEF CalmInv
<1> QED
  BY <1>1, <1>2 DEF Correlation

LEMMA CalmByJob ==
  ASSUME TypeInv, CalmInv, NEW j \in Job, JobStep(j)
  PROVE  CalmInv'
<1>0. /\ adverse \in 0 .. MaxAdverse /\ MaxAdverse \in Nat
      /\ retries \in [Job -> Attempt]
      /\ pc \in [Job -> {"none", "queued", "done", "failed"} \cup Running]
  BY RetriesAssumption DEF TypeInv, TypeOK
<1>1. adverse' # 0 \/ (adverse = 0 /\ adverse' = 0)
  BY <1>0 DEF JobStep, JobProgress, Submit, Create, AuditCreated, Load, Send, Audit,
     Dispatched, Retry, DispatchFails, Crash, Mishap
<1>2. CASE adverse = 0 /\ adverse' = 0
  <2>1. retries[j] = 0 /\ pc[j] # "retry"
    BY <1>2 DEF CalmInv
  <2>2. retries'[j] = 0 /\ pc'[j] # "retry"
    <3>1. ~DispatchFails(j) /\ ~Crash(j) /\ ~Retry(j)
      BY <1>2, <2>1 DEF DispatchFails, Crash, Retry, Mishap
    <3> QED
      BY <1>0, <2>1, <3>1 DEF JobStep, JobProgress, Submit, Create, AuditCreated, Load,
         Send, Audit, Dispatched, Goto
  <2>3. \A a \in alerts' : a \in alerts \/ (j[2] \in Payload /\ a = <<retries[j], j[2]>>)
    BY JobEffect DEF AlertOf, TypeInv
  <2>4. \A a \in alerts' : a[1] = 0
    BY <1>2, <2>1, <2>3 DEF CalmInv
  <2>5. attempt' = attempt /\ correlate' = correlate
    BY JobEffect DEF detection, TypeInv
  <2>6. \A i \in Job \ {j} : retries'[i] = retries[i] /\ pc'[i] = pc[i]
    BY JobEffect DEF TypeInv
  <2> QED
    BY <1>2, <2>2, <2>4, <2>5, <2>6 DEF CalmInv
<1> QED
  BY <1>1, <1>2 DEF CalmInv

-----------------------------------------------------------------------------
(* The inductive invariant                                                 *)

IInv ==
  /\ TypeInv /\ DetectionInv /\ DeliveryInv
  /\ RepeatInv /\ ServedInv /\ CalmInv

LEMMA InvInit == Init => IInv
  BY TypeInit, DetectionInit, DeliveryInit, RepeatInit, ServedInit, CalmInit DEF IInv

LEMMA InvStep == IInv /\ [Next]_vars => IInv'
<1> SUFFICES ASSUME IInv, [Next]_vars PROVE IInv'
  OBVIOUS
<1>0. /\ TypeInv /\ DetectionInv /\ DeliveryInv /\ RepeatInv /\ ServedInv /\ CalmInv
      /\ TypeOK
  BY DEF IInv, TypeInv
<1>1. TypeInv'
  BY <1>0, TypeStep
<1>2. CASE Correlation
  <2>1. DetectionInv'
    BY <1>0, <1>2, DetectionByCorrelation
  <2>2. DeliveryInv'
    BY <1>0, <1>2, DeliveryByCorrelation
  <2>3. RepeatInv'
    BY <1>0, <1>2, RepeatByCorrelation
  <2>4. ServedInv'
    BY <1>0, <1>2, ServedByCorrelation
  <2>5. CalmInv'
    BY <1>0, <1>2, CalmByCorrelation
  <2> QED
    BY <1>1, <2>1, <2>2, <2>3, <2>4, <2>5 DEF IInv
<1>3. ASSUME NEW j \in Job, JobStep(j) PROVE IInv'
  <2>1. DetectionInv'
    BY <1>0, <1>3, DetectionByJob
  <2>2. DeliveryInv'
    BY <1>0, <1>3, DeliveryByJob
  <2>3. RepeatInv'
    BY <1>0, <1>3, RepeatByJob
  <2>4. ServedInv'
    BY <1>0, <1>1, <1>3, ServedByJob DEF TypeInv
  <2>5. CalmInv'
    BY <1>0, <1>3, CalmByJob
  <2> QED
    BY <1>1, <2>1, <2>2, <2>3, <2>4, <2>5 DEF IInv
<1>4. CASE UNCHANGED vars
  <2> USE <1>4, <1>0 DEF vars, audits, detection, dispatch
  <2>1. DetectionInv'
    BY DEF DetectionInv, Incidents
  <2>2. DeliveryInv'
    BY DEF DeliveryInv, NoPhantomDelivery, Target, AlertOf, RouteOf
  <2>3. RepeatInv'
    <3> SUFFICES ASSUME NEW j \in Job, NEW c \in Channel PROVE BoundOf(j, c)'
      BY DEF RepeatInv
    <3>1. BoundOf(j, c)
      BY DEF RepeatInv
    <3>2. NotYet(j, c)' => NotYet(j, c)
      BY DEF NotYet, RouteOf
    <3> QED
      BY <3>1, <3>2, BoundKept
  <2>4. ServedInv'
    BY DEF ServedInv, ServedOf, Served, ChannelLeft, AlertOf, RouteOf
  <2>5. CalmInv'
    BY DEF CalmInv
  <2> QED
    BY <1>1, <2>1, <2>2, <2>3, <2>4, <2>5 DEF IInv
<1> QED
  BY <1>2, <1>3, <1>4 DEF Next, Correlation, JobStep

\* A dispatch task always finds the incident it was enqueued for.
THEOREM DispatchFindsIncident == Spec => []DispatchHasIncident
<1>1. IInv => DispatchHasIncident
  BY DEF IInv, DetectionInv, DispatchHasIncident
<1> QED
  BY <1>1, InvInit, InvStep, PTL DEF Spec

\* The trail never claims a delivery that did not happen.
THEOREM TrailIsHonest == Spec => []NoPhantomDelivery
<1>1. IInv => NoPhantomDelivery
  BY DEF IInv, DeliveryInv
<1> QED
  BY <1>1, InvInit, InvStep, PTL DEF Spec

\* Repeated notifications are bounded by the runs of the dispatch task.
THEOREM RepeatsBounded == Spec => []NotificationsBounded
<1>1. IInv => NotificationsBounded
  BY RepeatBounds DEF IInv
<1> QED
  BY <1>1, InvInit, InvStep, PTL DEF Spec

\* A task that reports success has audited an attempt on every channel.
THEOREM SuccessIsAudited == Spec => []DoneIsAudited
<1>1. IInv => DoneIsAudited
  BY ServedDone DEF IInv
<1> QED
  BY <1>1, InvInit, InvStep, PTL DEF Spec

\* A correlation task that reports success has enqueued its run's incidents.
THEOREM SuccessIsEnqueued == Spec => []CorrelatedIsEnqueued
<1>1. IInv => CorrelatedIsEnqueued
  BY DEF IInv, DetectionInv, CorrelatedIsEnqueued
<1> QED
  BY <1>1, InvInit, InvStep, PTL DEF Spec

\* As long as no call failed, nobody is told twice.
THEOREM CalmMeansOnce == Spec => []OnceWithoutFailure
<1>1. IInv => OnceWithoutFailure
  <2> SUFFICES ASSUME IInv, adverse = 0
               PROVE  /\ \A a, b \in alerts : a[2] = b[2] => a = b
                      /\ \A n \in Alert \X Channel : sent[n] <= 1
    BY DEF OnceWithoutFailure
  <2>1. /\ alerts \subseteq Alert
        /\ \A a \in alerts : a[1] = 0
        /\ \A j \in Job : retries[j] = 0
    BY DEF IInv, TypeInv, TypeOK, CalmInv
  <2>2. \A a, b \in alerts : a[2] = b[2] => a = b
    BY <2>1 DEF Alert
  <2>3. ASSUME NEW n \in Alert \X Channel PROVE sent[n] <= 1
    <3>1. PICK a \in Alert, c \in Channel : n = <<a, c>>
      OBVIOUS
    <3>2. PICK k \in Attempt, s \in Source : a = <<k, s>>
      BY DEF Alert
    <3>3. NotificationsBounded
      BY RepeatBounds DEF IInv
    <3>4. CASE s \in Payload
      <4>1. <<0, s>> \in Job
        BY <3>4 DEF Job
      <4>2. sent[<<<<k, s>>, c>>] <= 1
        BY <3>3, <3>4, <4>1 DEF NotificationsBounded
      <4> QED
        BY <3>1, <3>2, <4>2
    <3>5. CASE s \in Signal
      <4>1. a \in Job /\ a[2] \notin Payload
        BY <3>2, <3>5, SourceAssumption DEF Job
      <4>2. sent[<<a, c>>] <= retries[a] + 1
        BY <3>3, <4>1 DEF NotificationsBounded
      <4> QED
        BY <2>1, <3>1, <4>1, <4>2
    <3> QED
      BY <3>4, <3>5 DEF Source
  <2> QED
    BY <2>2, <2>3
<1> QED
  BY <1>1, InvInit, InvStep, PTL DEF Spec

-----------------------------------------------------------------------------
(* Every step brings a task nearer to its end                              *)

LEMMA Phases ==
  /\ JobPhase["none"] = 0 /\ JobPhase["queued"] = 1 /\ JobPhase["created"] = 2
  /\ JobPhase["send"] = 3 /\ JobPhase["audit"] = 3 /\ JobPhase["retry"] = 4
  /\ JobPhase["done"] = 5 /\ JobPhase["failed"] = 5
  /\ CorrelatePhase["search"] = 1 /\ CorrelatePhase["insert"] = 2
  /\ CorrelatePhase["enqueue"] = 3 /\ CorrelatePhase["retry"] = 4
  /\ CorrelatePhase["done"] = 5 /\ CorrelatePhase["failed"] = 5
BY DEF JobPhase, CorrelatePhase

LEMMA CorrelationForward ==
  ASSUME TypeOK, Correlation
  PROVE  CorrelationAdvances
<1> USE Phases DEF CorrelationAdvances
<1>1. attempt \in Nat
  BY RetriesAssumption DEF TypeOK, Attempt
<1>2. CASE Search \/ Insert \/ Correlated
  BY <1>2 DEF Search, Insert, Correlated
<1>3. CASE Enqueue
  BY <1>3 DEF Enqueue
<1>4. CASE CorrelateRetry
  BY <1>1, <1>4 DEF CorrelateRetry
<1>5. CASE CorrelateFails
  <2>1. /\ correlate \in {"search", "insert", "enqueue"}
        /\ correlate' = "retry" /\ attempt' = attempt
    BY <1>5 DEF CorrelateFails
  <2> QED
    BY <2>1
<1>6. CASE CorrelateCrash
  BY <1>6 DEF CorrelateCrash
<1> QED
  BY <1>2, <1>3, <1>4, <1>5, <1>6 DEF Correlation, CorrelateProgress

LEMMA JobForward ==
  ASSUME TypeInv, NEW j \in Job, JobStep(j)
  PROVE  JobAdvances(j)
<1>1. /\ pc \in [Job -> {"none", "queued", "done", "failed"} \cup Running]
      /\ next \in [Job -> Nat \ {0}] /\ retries \in [Job -> Attempt]
      /\ pc[j] = "audit" => ChannelLeft(j)
  BY DEF TypeInv, TypeOK, Auditing
<1> USE Phases DEF JobAdvances, Goto
<1>2. CASE Submit(j) \/ Create(j) \/ AuditCreated(j) \/ Load(j) \/ Dispatched(j)
  BY <1>1, <1>2 DEF Submit, Create, AuditCreated, Load, Dispatched
<1>3. CASE Send(j)
  <2>1. pc[j] = "send" /\ pc' = [pc EXCEPT ![j] = "audit"] /\ UNCHANGED <<next, retries>>
    BY <1>3 DEF Send
  <2> QED
    BY <1>1, <2>1
<1>4. CASE Audit(j)
  BY <1>1, <1>4 DEF Audit
<1>5. CASE DispatchFails(j)
  <2>1. /\ pc[j] \in {"queued", "created", "audit"}
        /\ pc' = [pc EXCEPT ![j] = "retry"] /\ UNCHANGED retries
    BY <1>5 DEF DispatchFails
  <2> QED
    BY <1>1, <2>1
<1>6. CASE Retry(j)
  BY <1>1, <1>6 DEF Retry
<1>7. CASE Crash(j)
  BY <1>1, <1>7 DEF Crash, Running
<1> QED
  BY <1>2, <1>3, <1>4, <1>5, <1>6, <1>7 DEF JobStep, JobProgress

\* No step sets a task back, for any number of tasks, channels and failures.
THEOREM TasksOnlyAdvance == Spec => TasksAdvance
<1>1. IInv /\ [Next]_vars =>
        [/\ CorrelationStays \/ CorrelationAdvances
         /\ \A j \in Job : JobStays(j) \/ JobAdvances(j)
         /\ CorrelationAdvances \/ \E j \in Job : JobAdvances(j)]_vars
  <2> SUFFICES ASSUME IInv, Next
               PROVE  /\ CorrelationStays \/ CorrelationAdvances
                      /\ \A j \in Job : JobStays(j) \/ JobAdvances(j)
                      /\ CorrelationAdvances \/ \E j \in Job : JobAdvances(j)
    OBVIOUS
  <2>1. TypeInv /\ TypeOK /\ DetectionInv
    BY DEF IInv, TypeInv
  <2>2. CASE Correlation
    <3>1. CorrelationAdvances
      BY <2>1, <2>2, CorrelationForward
    <3>2. ASSUME NEW j \in Job PROVE JobStays(j) \/ JobAdvances(j)
      BY <2>1, <2>2, OnlyEnqueues, CorrelationEffect, Phases DEF JobStays, JobAdvances
    <3> QED
      BY <3>1, <3>2
  <2>3. ASSUME NEW j \in Job, JobStep(j)
        PROVE  /\ CorrelationStays /\ JobAdvances(j)
               /\ \A i \in Job \ {j} : JobStays(i)
    BY <2>1, <2>3, JobForward, JobEffect DEF detection, CorrelationStays, JobStays
  <2> QED
    BY <2>2, <2>3 DEF Next, Correlation, JobStep
<1> QED
  BY <1>1, InvInit, InvStep, PTL DEF Spec, TasksAdvance

-----------------------------------------------------------------------------
(* Refinement: the passes of the tasks through the channels of an alert    *)

Ats     == [a \in Alert |-> At(a)]
Answers == [a \in Alert |-> AnswerOf(a)]

Passing == {"send", "audit"}

\* Every alert has one task that may work on it, and a task is that of its alert.
LEMMA JobOfFacts ==
  /\ \A a \in Alert : JobOf(a) \in Job
  /\ \A j \in Job : retries[j] \in Attempt => AlertOf(j) \in Alert /\ JobOf(AlertOf(j)) = j
<1>1. ASSUME NEW a \in Alert PROVE JobOf(a) \in Job
  <2>1. a[1] \in Attempt /\ a[2] \in Signal \cup Payload /\ a = <<a[1], a[2]>>
    BY DEF Alert, Source
  <2> QED
    BY <2>1 DEF JobOf, Job
<1>2. ASSUME NEW j \in Job, retries[j] \in Attempt
      PROVE  AlertOf(j) \in Alert /\ JobOf(AlertOf(j)) = j
  <2>1. /\ j[1] \in Attempt /\ j[2] \in Source /\ j = <<j[1], j[2]>>
        /\ j[2] \in Payload => j[1] = 0
    BY RetriesAssumption, SourceAssumption DEF Job, Attempt, Source
  <2>2. CASE j[2] \in Payload
    <3>1. AlertOf(j)[2] = j[2] /\ j = <<0, j[2]>>
      BY <2>1, <2>2 DEF AlertOf
    <3> QED
      BY <1>2, <2>2, <3>1, JobFacts DEF JobOf
  <2>3. CASE j[2] \notin Payload
    BY <1>2, <2>3, JobFacts DEF AlertOf, JobOf
  <2> QED
    BY <2>2, <2>3
<1> QED
  BY <1>1, <1>2

\* Where the pass with the alert of task j is.
PassOf(j) ==
  /\ AlertOf(j) \in Alert
  /\ Ats[AlertOf(j)] = IF pc[j] \in Passing THEN next[j] ELSE 0
  /\ Answers[AlertOf(j)] = IF pc[j] = "audit" THEN outcome[j] ELSE "none"
  /\ AlertOf(j) \in Finished <=> pc[j] = "done"
  /\ Route[AlertOf(j)[2]] = RouteOf(j)

LEMMA PassFacts == TypeInv => \A j \in Job : PassOf(j)
<1> SUFFICES ASSUME TypeInv, NEW j \in Job PROVE PassOf(j)
  OBVIOUS
<1>1. AlertOf(j) \in Alert /\ JobOf(AlertOf(j)) = j
  BY JobOfFacts DEF TypeInv, TypeOK
<1>2. AlertOf(j)[2] = j[2]
  BY DEF AlertOf
<1> QED
  BY <1>1, <1>2 DEF PassOf, Ats, Answers, At, AnswerOf, WorksOn, Finished, RouteOf, Passing

LEMMA PassFactsNext == (TypeInv => \A j \in Job : PassOf(j))'
  BY PassFacts, PTL

\* A step of a task changes the pass with its own alert only.
LEMMA PassChanges ==
  ASSUME TypeInv, TypeInv', NEW j \in Job, JobStep(j), retries' = retries
  PROVE  /\ Ats' = [Ats EXCEPT ![AlertOf(j)] = IF pc'[j] \in Passing THEN next'[j] ELSE 0]
         /\ Answers' =
              [Answers EXCEPT ![AlertOf(j)] = IF pc'[j] = "audit" THEN outcome'[j] ELSE "none"]
         /\ pc[j] # "done" =>
              Finished' = IF pc'[j] = "done" THEN Finished \cup {AlertOf(j)} ELSE Finished
<1> DEFINE b == AlertOf(j)
<1>1. /\ b \in Alert /\ b' = b
      /\ Ats'[b] = IF pc'[j] \in Passing THEN next'[j] ELSE 0
      /\ Answers'[b] = IF pc'[j] = "audit" THEN outcome'[j] ELSE "none"
      /\ b \in Finished' <=> pc'[j] = "done"
      /\ b \in Finished <=> pc[j] = "done"
  <2>1. b' = b
    BY DEF AlertOf
  <2>2. PassOf(j) /\ PassOf(j)'
    BY PassFacts, PassFactsNext
  <2> QED
    BY <2>1, <2>2 DEF PassOf
<1>2. ASSUME NEW a \in Alert, a # b
      PROVE  At(a)' = At(a) /\ AnswerOf(a)' = AnswerOf(a) /\ (a \in Finished' <=> a \in Finished)
  <2> DEFINE i == JobOf(a)
  <2>1. i \in Job
    BY JobOfFacts
  <2>2. AlertOf(i)' = AlertOf(i) /\ JobOf(a)' = i
    BY DEF AlertOf, JobOf
  <2>3. CASE i = j
    BY <1>2, <2>2, <2>3 DEF At, AnswerOf, Finished, WorksOn
  <2>4. CASE i # j
    <3>1. pc'[i] = pc[i] /\ next'[i] = next[i] /\ outcome'[i] = outcome[i]
      BY <2>1, <2>4, JobEffect DEF TypeInv
    <3> QED
      BY <2>2, <3>1 DEF At, AnswerOf, Finished, WorksOn
  <2> QED
    BY <2>3, <2>4
<1> HIDE DEF b
<1>3. Ats' = [Ats EXCEPT ![b] = IF pc'[j] \in Passing THEN next'[j] ELSE 0]
  BY <1>1, <1>2 DEF Ats
<1>4. Answers' = [Answers EXCEPT ![b] = IF pc'[j] = "audit" THEN outcome'[j] ELSE "none"]
  BY <1>1, <1>2 DEF Answers
<1>5. pc[j] # "done" => Finished' = IF pc'[j] = "done" THEN Finished \cup {b} ELSE Finished
  <2>1. Finished \subseteq Alert /\ Finished' \subseteq Alert
    BY DEF Finished
  <2> QED
    BY <1>1, <1>2, <2>1
<1> QED
  BY <1>3, <1>4, <1>5 DEF b

\* The state of NotifiedAlert that a step of a task outside a pass leaves alone.
Mapped == <<Ats, Answers, Finished>>

LEMMA NoPass ==
  ASSUME TypeInv, TypeInv', NEW j \in Job, JobStep(j),
         pc[j] \notin Passing \cup {"done"}, pc'[j] \notin Passing \cup {"done"}
  PROVE  UNCHANGED Mapped
<1>1. CASE retries' = retries
  <2> DEFINE b == AlertOf(j)
  <2>1. b \in Alert /\ Ats[b] = 0 /\ Answers[b] = "none"
    BY PassFacts DEF PassOf, Passing
  <2>2. Ats' = [Ats EXCEPT ![b] = 0] /\ Answers' = [Answers EXCEPT ![b] = "none"]
        /\ Finished' = Finished
    BY <1>1, PassChanges DEF Passing
  <2> HIDE DEF b
  <2>3. Ats' = Ats /\ Answers' = Answers
    BY <2>1, <2>2 DEF Ats, Answers
  <2> QED
    BY <2>2, <2>3 DEF Mapped
<1>2. CASE retries' # retries
  <2>1. Retry(j)
    BY <1>2 DEF JobStep, JobProgress, Submit, Create, AuditCreated, Load, Send, Audit,
       Dispatched, DispatchFails, Crash
  <2>2. ASSUME NEW a \in Alert
        PROVE  /\ At(a)' = At(a) /\ AnswerOf(a)' = AnswerOf(a)
               /\ a \in Finished' <=> a \in Finished
    <3> DEFINE k == JobOf(a)
    <3>1. k \in Job /\ JobOf(a)' = k
      BY JobOfFacts DEF JobOf
    <3>2. CASE k = j
      BY <3>1, <3>2 DEF At, AnswerOf, Finished, WorksOn, Passing
    <3>3. CASE k # j
      <4>1. pc'[k] = pc[k] /\ next'[k] = next[k] /\ outcome'[k] = outcome[k]
            /\ retries'[k] = retries[k]
        BY <3>1, <3>3, JobEffect DEF TypeInv
      <4>2. AlertOf(k)' = AlertOf(k)
        BY <4>1 DEF AlertOf
      <4> QED
        BY <3>1, <4>1, <4>2 DEF At, AnswerOf, Finished, WorksOn
    <3> QED
      BY <3>2, <3>3
  <2>3. Finished \subseteq Alert /\ Finished' \subseteq Alert
    BY DEF Finished
  <2> QED
    BY <2>2, <2>3 DEF Mapped, Ats, Answers
<1> QED
  BY <1>1, <1>2

LEMMA CorrelationInserts ==
  ASSUME TypeInv, TypeInv', DetectionInv, Correlation
  PROVE  Promise!Insert
<1>1. /\ alerts' = alerts \cup alerts' /\ alerts' \in SUBSET Alert
      /\ UNCHANGED <<audits, sent, retries, next, outcome>>
  BY CorrelationEffect DEF TypeInv, TypeOK
<1>2. ASSUME NEW a \in Alert
      PROVE  /\ At(a)' = At(a) /\ AnswerOf(a)' = AnswerOf(a)
             /\ a \in Finished' <=> a \in Finished
  <2> DEFINE k == JobOf(a)
  <2>1. k \in Job /\ JobOf(a)' = k /\ AlertOf(k)' = AlertOf(k)
    BY <1>1, JobOfFacts DEF JobOf, AlertOf
  <2>2. pc'[k] = pc[k] \/ (pc[k] = "none" /\ pc'[k] = "queued")
    BY <2>1, OnlyEnqueues DEF TypeInv
  <2> QED
    BY <1>1, <2>1, <2>2 DEF At, AnswerOf, Finished, WorksOn
<1>3. UNCHANGED Mapped
  <2>1. Finished \subseteq Alert /\ Finished' \subseteq Alert
    BY DEF Finished
  <2> QED
    BY <1>2, <2>1 DEF Mapped, Ats, Answers
<1> QED
  BY <1>1, <1>3 DEF Promise!Insert, Mapped, Ats, Answers, audits

\* A step of a task is one of the pass with its alert, or none.
LEMMA JobPromise ==
  ASSUME TypeInv, TypeInv', ServedInv, NEW j \in Job, JobStep(j)
  PROVE  [Promise!Next]_Promise!vars
<1> DEFINE b == AlertOf(j)
<1>1. /\ b \in Alert /\ Route[b[2]] = RouteOf(j)
      /\ Ats[b] = IF pc[j] \in Passing THEN next[j] ELSE 0
      /\ Answers[b] = IF pc[j] = "audit" THEN outcome[j] ELSE "none"
      /\ b[2] \in Payload <=> j[2] \in Payload
      /\ b[2] \notin Payload => b = j
      /\ RouteOf(j) \in Seq(Channel) /\ next[j] \in Nat \ {0}
      /\ outcome[j] \in {"delivered", "failed"}
      /\ pc[j] \in {"created", "send", "audit", "done"} => b \in alerts
      /\ pc[j] = "audit" => ChannelLeft(j)
  BY PassFacts, JobFacts DEF PassOf, AlertOf, ServedInv, ServedOf, TypeInv, TypeOK, Auditing
<1>2. pc \in [Job -> {"none", "queued", "done", "failed"} \cup Running]
  BY DEF TypeInv, TypeOK
<1>3. ASSUME retries' = retries
      PROVE  /\ Ats' = [Ats EXCEPT ![b] = IF pc'[j] \in Passing THEN next'[j] ELSE 0]
             /\ Answers' = [Answers EXCEPT ![b] = IF pc'[j] = "audit" THEN outcome'[j] ELSE "none"]
             /\ pc[j] # "done" =>
                  Finished' = IF pc'[j] = "done" THEN Finished \cup {b} ELSE Finished
  BY <1>3, PassChanges
<1>4. pc[j] \in Passing => Promise!Target(b) = Target(j)
  BY <1>1 DEF Promise!Target, Target, Ats
<1>5. \A f, n : Promise!Count(f, n) = Increment(f, n)
  BY DEF Promise!Count, Increment
<1> HIDE DEF b
<1>6. CASE Submit(j)
  <2>1. UNCHANGED Mapped
    BY <1>2, <1>6, NoPass DEF Submit, Goto, Passing
  <2> QED
    BY <1>6, <2>1 DEF Submit, Mapped, Ats, Answers, Promise!vars, audits
<1>7. CASE Create(j)
  <2>1. UNCHANGED Mapped
    BY <1>2, <1>7, NoPass DEF Create, Goto, Passing
  <2>2. Promise!Insert
    BY <1>1, <1>7, <2>1 DEF Create, Mapped, Ats, Answers, Promise!Insert, audits, b
  <2> QED
    BY <2>2 DEF Promise!Next
<1>8. CASE AuditCreated(j) \/ Load(j)
  <2>1. /\ retries' = retries /\ next'[j] = 1 /\ pc'[j] = "send" /\ pc[j] \in {"queued", "created"}
        /\ UNCHANGED <<alerts, sent, confirmed, refused>>
    BY <1>2, <1>8 DEF AuditCreated, Load, Goto, TypeInv, TypeOK, audits
  <2>2. Ats[b] = 0 /\ Answers[b] = "none"
    BY <1>1, <2>1 DEF Passing
  <2>3. /\ Ats' = [Ats EXCEPT ![b] = 1] /\ Answers' = Answers /\ Finished' = Finished
    <3>1. Answers' = [Answers EXCEPT ![b] = "none"]
      BY <1>3, <2>1
    <3>2. Answers' = Answers
      BY <1>1, <2>2, <3>1 DEF Answers
    <3> QED
      BY <1>3, <2>1, <3>2 DEF Passing
  <2>4. /\ b \in alerts
        /\ created' \in {created, created \cup {b}}
        /\ b[2] \in Payload => b \in created'
    <3>1. CASE AuditCreated(j)
      BY <1>1, <3>1 DEF AuditCreated, b
    <3>2. CASE Load(j)
      BY <1>1, <3>2, SourceAssumption DEF Load, audits
    <3> QED
      BY <1>8, <3>1, <3>2
  <2>5. Promise!Begin(b)
    BY <1>1, <2>1, <2>2, <2>3, <2>4 DEF Promise!Begin, Ats, Answers
  <2> QED
    BY <1>1, <2>5 DEF Promise!Next
<1>9. CASE Send(j)
  <2>1. /\ pc[j] = "send" /\ pc'[j] = "audit" /\ retries' = retries /\ next' = next
        /\ ChannelLeft(j) /\ UNCHANGED <<alerts, created, confirmed, refused>>
    BY <1>2, <1>9 DEF Send, Goto, audits
  <2>2. /\ Ats' = [Ats EXCEPT ![b] = next[j]] /\ Ats[b] = next[j]
        /\ Answers' = [Answers EXCEPT ![b] = outcome'[j]] /\ Answers[b] = "none"
        /\ Finished' = Finished
    BY <1>1, <1>3, <2>1 DEF Passing
  <2>3. Ats' = Ats
    BY <1>1, <2>2 DEF Ats
  <2>4. Ats[b] \in DOMAIN Route[b[2]]
    BY <1>1, <2>1, <2>2 DEF ChannelLeft
  <2>5. \/ sent' = Increment(sent, Target(j)) /\ outcome'[j] = "delivered"
        \/ sent' \in {sent, Increment(sent, Target(j))} /\ outcome'[j] = "failed"
    BY <1>9 DEF Send, TypeInv, TypeOK
  <2>6. Promise!Target(b) = Target(j)
    BY <1>4, <2>1 DEF Passing
  <2>7. Promise!Notify(b)
    BY <1>1, <1>5, <2>1, <2>2, <2>3, <2>4, <2>5, <2>6 DEF Promise!Notify, Ats, Answers
  <2> QED
    BY <1>1, <2>7 DEF Promise!Next
<1>10. ASSUME pc[j] = "audit", Audited(j) PROVE Promise!OnRecord(b)
  BY <1>1, <1>4, <1>5, <1>10 DEF Audited, Promise!OnRecord, Answers, Passing
<1>11. CASE Audit(j)
  <2>1. /\ pc[j] = "audit" /\ pc'[j] = "send" /\ retries' = retries
        /\ next'[j] = next[j] + 1 /\ Audited(j)
        /\ UNCHANGED <<alerts, created, sent>>
    BY <1>2, <1>11 DEF Audit, Goto, TypeInv, TypeOK
  <2>2. /\ Ats' = [Ats EXCEPT ![b] = Ats[b] + 1]
        /\ Answers' = [Answers EXCEPT ![b] = "none"] /\ Finished' = Finished
    BY <1>1, <1>3, <2>1 DEF Passing
  <2>3. Promise!Advance(b)
    BY <1>10, <2>1, <2>2 DEF Promise!Advance, Ats, Answers
  <2> QED
    BY <1>1, <2>3 DEF Promise!Next
<1>12. CASE Dispatched(j)
  <2>1. /\ pc[j] = "send" /\ pc'[j] = "done" /\ retries' = retries /\ ~ChannelLeft(j)
        /\ UNCHANGED <<alerts, audits, sent>>
    BY <1>2, <1>12 DEF Dispatched, Goto
  <2>2. /\ Ats' = [Ats EXCEPT ![b] = 0] /\ Ats[b] = next[j] /\ Answers[b] = "none"
        /\ Answers' = [Answers EXCEPT ![b] = "none"] /\ Finished' = Finished \cup {b}
    BY <1>1, <1>3, <2>1 DEF Passing
  <2>3. Answers' = Answers
    BY <1>1, <2>2 DEF Answers
  <2>4. Ats[b] > Len(Route[b[2]])
    BY <1>1, <2>1, <2>2 DEF ChannelLeft
  <2>5. Promise!Finish(b)
    BY <1>1, <2>1, <2>2, <2>3, <2>4 DEF Promise!Finish, Ats, Answers, audits
  <2> QED
    BY <1>1, <2>5 DEF Promise!Next
\* A task that fails in a pass gives it up.
<1>13. ASSUME pc[j] \in Passing, pc'[j] \in {"retry", "failed"}, retries' = retries,
              UNCHANGED <<alerts, created, sent>>,
              (pc[j] = "audit" /\ Audited(j)) \/ UNCHANGED <<confirmed, refused>>
       PROVE  Promise!GiveUp(b)
  <2>1. /\ Ats' = [Ats EXCEPT ![b] = 0] /\ Ats[b] # 0
        /\ Answers' = [Answers EXCEPT ![b] = "none"] /\ Finished' = Finished
    BY <1>1, <1>3, <1>13 DEF Passing
  <2>2. Promise!OnRecord(b) \/ UNCHANGED <<confirmed, refused>>
    BY <1>10, <1>13
  <2> QED
    BY <1>13, <2>1, <2>2 DEF Promise!GiveUp, Ats, Answers
<1>14. CASE DispatchFails(j)
  <2>1. /\ pc'[j] = "retry" /\ UNCHANGED <<sent, retries>>
    BY <1>2, <1>14 DEF DispatchFails, Goto, dispatch
  <2>2. CASE pc[j] = "queued"
    <3>1. UNCHANGED Mapped
      BY <2>1, <2>2, NoPass DEF Passing
    <3>2. /\ alerts' \in {alerts, alerts \cup {b}} /\ UNCHANGED audits
      BY <1>14, <2>2 DEF DispatchFails, MayHappen, b
    <3>3. \E S \in SUBSET Alert : alerts' = alerts \cup S
      <4>1. {} \in SUBSET Alert /\ {b} \in SUBSET Alert /\ alerts = alerts \cup {}
        BY <1>1
      <4> QED
        BY <3>2, <4>1
    <3>4. Promise!Insert
      BY <2>1, <3>1, <3>2, <3>3 DEF Mapped, Ats, Answers, Promise!Insert, audits
    <3> QED
      BY <3>4 DEF Promise!Next
  <2>3. CASE pc[j] = "created"
    <3>1. UNCHANGED Mapped
      BY <2>1, <2>3, NoPass DEF Passing
    <3>2. /\ created' \in {created, created \cup {b}}
          /\ UNCHANGED <<alerts, confirmed, refused>>
      BY <1>14, <2>3 DEF DispatchFails, MayHappen, b
    <3>3. Promise!Record(b) \/ UNCHANGED Promise!vars
      BY <1>1, <2>1, <2>3, <3>1, <3>2 DEF Mapped, Ats, Answers, Promise!Record, Promise!vars
    <3> QED
      BY <1>1, <3>3 DEF Promise!Next
  <2>4. CASE pc[j] = "audit"
    <3>1. /\ Audited(j) \/ UNCHANGED <<confirmed, refused>>
          /\ UNCHANGED <<alerts, created>>
      BY <1>14, <2>4 DEF DispatchFails
    <3>2. Promise!GiveUp(b)
      BY <1>13, <2>1, <2>4, <3>1 DEF Passing
    <3> QED
      BY <1>1, <3>2 DEF Promise!Next
  <2> QED
    BY <1>14, <2>2, <2>3, <2>4 DEF DispatchFails
<1>15. CASE Retry(j)
  <2>1. UNCHANGED Mapped
    BY <1>2, <1>15, NoPass DEF Retry, Goto, Passing
  <2> QED
    BY <1>15, <2>1 DEF Retry, Mapped, Ats, Answers, Promise!vars, audits
<1>16. CASE Crash(j)
  <2>1. /\ pc[j] \in Running /\ pc'[j] = "failed" /\ retries' = retries
        /\ UNCHANGED <<alerts, audits, sent>>
    BY <1>2, <1>16 DEF Crash, Goto
  <2>2. CASE pc[j] \in Passing
    BY <1>1, <1>13, <2>1, <2>2 DEF Promise!Next, audits
  <2>3. CASE pc[j] \notin Passing
    <3>1. UNCHANGED Mapped
      BY <2>1, <2>3, NoPass DEF Running, Passing
    <3> QED
      BY <2>1, <3>1 DEF Mapped, Ats, Answers, Promise!vars, audits
  <2> QED
    BY <2>2, <2>3
<1> QED
  BY <1>6, <1>7, <1>8, <1>9, <1>11, <1>12, <1>14, <1>15, <1>16 DEF JobStep, JobProgress

\* The correlation and the tasks of the alert queue implement NotifiedAlert, for
\* any number of signals, payloads, channels, retries and failures.
THEOREM Refinement == Spec => ImplementsNotifiedAlert
<1>1. Init => Promise!Init
  <2> SUFFICES ASSUME Init PROVE Promise!Init
    OBVIOUS
  <2>1. ASSUME NEW a \in Alert PROVE pc[JobOf(a)] = "none"
    BY JobOfFacts DEF Init
  <2>2. /\ Ats = [a \in Alert |-> 0] /\ Answers = [a \in Alert |-> "none"]
        /\ Finished = {}
    BY <2>1 DEF Ats, Answers, Finished, At, AnswerOf, WorksOn
  <2> QED
    BY <2>2 DEF Init, Promise!Init, Ats, Answers
<1>2. IInv /\ IInv' /\ [Next]_vars => [Promise!Next]_Promise!vars
  <2> SUFFICES ASSUME IInv, IInv', [Next]_vars PROVE [Promise!Next]_Promise!vars
    OBVIOUS
  <2>1. TypeInv /\ TypeInv' /\ DetectionInv /\ ServedInv
    BY DEF IInv
  <2>2. CASE Correlation
    BY <2>1, <2>2, CorrelationInserts DEF Promise!Next
  <2>3. ASSUME NEW j \in Job, JobStep(j) PROVE [Promise!Next]_Promise!vars
    BY <2>1, <2>3, JobPromise
  <2>4. CASE UNCHANGED vars
    BY <2>4 DEF vars, audits, dispatch, Promise!vars, At, AnswerOf, WorksOn, Finished,
       JobOf, AlertOf
  <2> QED
    BY <2>2, <2>3, <2>4 DEF Next, Correlation, JobStep
<1> QED
  BY <1>1, <1>2, InvInit, InvStep, PTL DEF Spec, ImplementsNotifiedAlert, Promise!Spec
=============================================================================
