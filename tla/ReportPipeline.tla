--------------------------- MODULE ReportPipeline ---------------------------
(***************************************************************************)
(* From a stored report to the tasks that judge it: parse tasks            *)
(* (workers/tasks/parse.py, services/parser) read an object, persist the    *)
(* report in one PostgreSQL transaction, index its records one by one in    *)
(* Elasticsearch and enqueue an analysis; analysis tasks                    *)
(* (workers/tasks/analysis.py) search the index for the records and call    *)
(* correlation, scoring and recommendation.                                 *)
(*                                                                         *)
(* One action is one statement or call.  A call that raises may have been   *)
(* applied with only the answer lost; the task is run again from its first  *)
(* line.  Elasticsearch shows a document to searches after a refresh, and   *)
(* PostgreSQL aborts a transaction that waits in a cycle.                   *)
(***************************************************************************)
EXTENDS Naturals, Sequences

CONSTANTS
  Object,     \* stored objects; each has a parse task
  Broken,     \* those that hold no valid report
  Report,     \* Report[o]: report_id in the object
  Domain,     \* Domain[o]: policy_domain in the object
  Records,    \* Records[o]: source addresses of its records, in order
  NoObject,   \* null value
  MaxRetries, \* max_retries of the Celery tasks (5 in the code)
  MaxAdverse  \* bound on failed calls, lost answers and crashes

ReportId == { Report[o] : o \in Object }
DomainId == { Domain[o] : o \in Object }
Address  == UNION { { Records[o][k] : k \in DOMAIN Records[o] } : o \in Object }

ASSUME BrokenAssumption  == Broken \subseteq Object
ASSUME RecordsAssumption == \A o \in Object : Records[o] \in Seq(Address)
ASSUME NullAssumption    == NoObject \notin Object
ASSUME BoundsAssumption  == MaxRetries \in Nat /\ MaxAdverse \in Nat

Attempt == 0 .. MaxRetries

\* An analysis task is named by the parse task and the run that enqueued it.
Analysis == Object \X Attempt

\* The tasks an analysis enqueues, in this order.
Stage == <<"correlate", "score", "recommend">>
StageName == {"correlate", "score", "recommend"}

\* Rows of domains, dmarc_reports and sources, by their unique keys.
Row == ({"domain"} \X DomainId) \cup ({"report"} \X ReportId) \cup ({"source"} \X Address)

VARIABLES
  rows,      \* PostgreSQL: committed rows
  lock,      \* PostgreSQL: the parse task whose transaction has upserted a row
  index,     \* Elasticsearch: whether the records index exists
  docs,      \* Elasticsearch: object that wrote each document, or NoObject
  visible,   \* Elasticsearch: the documents as searches see them
  pc,        \* control state of the parse tasks
  pos,       \* number of the next upsert or of the next record to index
  retries,   \* self.request.retries of the parse tasks
  stage,     \* control state of the analysis tasks
  sending,   \* number of the next task an analysis enqueues
  again,     \* self.request.retries of the analysis tasks
  found,     \* documents the last search of an analysis returned
  calls,     \* how often each analysis has enqueued each stage
  adverse    \* adverse events so far

postgres == <<rows, lock>>
elastic  == <<index, docs, visible>>
parsing  == <<pc, pos, retries>>
analysis == <<stage, sending, again, found, calls>>
vars     == <<postgres, elastic, parsing, analysis, adverse>>

\* doc_id: tenant, report_id, position and source address.
DocId(o, k) == <<Report[o], k, Records[o][k]>>
DocsOf(o)   == { DocId(o, k) : k \in DOMAIN Records[o] }
Doc         == UNION { DocsOf(o) : o \in Object }

\* The upserts of persist_report in order.
Upserts(o) ==
  << <<"domain", Domain[o]>>, <<"report", Report[o]>> >>
    \o [k \in DOMAIN Records[o] |-> <<"source", Records[o][k]>>]
RowsOf(o) == { Upserts(o)[k] : k \in DOMAIN Upserts(o) }

ParseLabel == {"queued", "persist", "exists", "create", "index", "retry", "done", "failed"}
AnalysisLabel == {"none", "queued", "send", "retry", "done", "failed"}

TypeOK ==
  /\ rows \subseteq Row
  /\ lock \in [Row -> Object \cup {NoObject}]
  /\ index \in {"missing", "present"}
  /\ docs \in [Doc -> Object \cup {NoObject}]
  /\ visible \in [Doc -> Object \cup {NoObject}]
  /\ pc \in [Object -> ParseLabel]
  /\ pos \in [Object -> Nat \ {0}]
  /\ retries \in [Object -> Attempt]
  /\ stage \in [Analysis -> AnalysisLabel]
  /\ sending \in [Analysis -> 1 .. 4]
  /\ again \in [Analysis -> Attempt]
  /\ found \in [Analysis -> SUBSET Doc]
  /\ calls \in [Analysis \X StageName -> Nat]
  /\ adverse \in 0 .. MaxAdverse

Init ==
  /\ rows = {}
  /\ lock = [r \in Row |-> NoObject]
  /\ index = "missing"
  /\ docs = [d \in Doc |-> NoObject]
  /\ visible = [d \in Doc |-> NoObject]
  /\ pc = [o \in Object |-> "queued"]
  /\ pos = [o \in Object |-> 1]
  /\ retries = [o \in Object |-> 0]
  /\ stage = [a \in Analysis |-> "none"]
  /\ sending = [a \in Analysis |-> 1]
  /\ again = [a \in Analysis |-> 0]
  /\ found = [a \in Analysis |-> {}]
  /\ calls = [c \in Analysis \X StageName |-> 0]
  /\ adverse = 0

-----------------------------------------------------------------------------

Goto(o, label) == pc' = [pc EXCEPT ![o] = label]

\* An adverse event happens; MaxAdverse bounds them.
Mishap == adverse < MaxAdverse /\ adverse' = adverse + 1

\* The effect of a call that raises: none, or all of it with the answer lost.
MayHappen(x, new) == x' \in {x, new}

\* The locks when the transaction of o has ended.
Unlocked(o) == [r \in Row |-> IF lock[r] = o THEN NoObject ELSE lock[r]]

-----------------------------------------------------------------------------
(* parse_report_object                                                     *)

\* DmarcParser.parse yields a report; otherwise it raises, in every run.
Parsed(o) == o \notin Broken

\* Read the object and parse it.
Read(o) ==
  /\ pc[o] = "queued"
  /\ Goto(o, IF Parsed(o) THEN "persist" ELSE "retry")
  /\ pos' = [pos EXCEPT ![o] = 1]
  /\ UNCHANGED <<postgres, elastic, retries, analysis, adverse>>

UpsertLeft(o) == pos[o] <= Len(Upserts(o))
Target(o)     == Upserts(o)[pos[o]]

\* One INSERT ... ON CONFLICT DO UPDATE; it waits for a row another transaction
\* has upserted.
Upsert(o) ==
  /\ pc[o] = "persist" /\ UpsertLeft(o)
  /\ lock[Target(o)] \in {o, NoObject}
  /\ lock' = [lock EXCEPT ![Target(o)] = o]
  /\ pos' = [pos EXCEPT ![o] = @ + 1]
  /\ UNCHANGED <<rows, elastic, pc, retries, analysis, adverse>>

\* Mutant: the session is flushed and left open.
Flush(o) ==
  /\ pc[o] = "persist" /\ ~UpsertLeft(o)
  /\ Goto(o, "exists")
  /\ UNCHANGED <<postgres, elastic, pos, retries, analysis, adverse>>

Commit(o) ==
  /\ pc[o] = "persist" /\ ~UpsertLeft(o)
  /\ rows' = rows \cup RowsOf(o)
  /\ lock' = Unlocked(o)
  /\ Goto(o, "exists")
  /\ UNCHANGED <<elastic, pos, retries, analysis, adverse>>

\* indices.exists.
FindIndex(o) ==
  /\ pc[o] = "exists"
  /\ Goto(o, IF index = "present" THEN "index" ELSE "create")
  /\ pos' = [pos EXCEPT ![o] = 1]
  /\ UNCHANGED <<postgres, elastic, retries, analysis, adverse>>

\* indices.create raises when another task has created the index meanwhile.
CreateIndex(o) ==
  /\ pc[o] = "create"
  /\ index' = "present"
  /\ Goto(o, IF index = "missing" THEN "index" ELSE "retry")
  /\ UNCHANGED <<postgres, docs, visible, pos, retries, analysis, adverse>>

\* Mutant: the last record is not indexed.
LastRecordSkipped(o) == pos[o] < Len(Records[o])

RecordLeft(o) == pos[o] <= Len(Records[o])

\* client.index overwrites a document with the same id.
Index(o) ==
  /\ pc[o] = "index" /\ RecordLeft(o)
  /\ docs' = [docs EXCEPT ![DocId(o, pos[o])] = o]
  /\ pos' = [pos EXCEPT ![o] = @ + 1]
  /\ UNCHANGED <<postgres, index, visible, pc, retries, analysis, adverse>>

\* _queue_analysis_task.
Queued(o) == [stage EXCEPT ![<<o, retries[o]>>] = "queued"]

QueueAnalysis(o) ==
  /\ pc[o] = "index" /\ ~RecordLeft(o)
  /\ stage' = Queued(o)
  /\ Goto(o, "done")
  /\ UNCHANGED <<postgres, elastic, pos, retries, sending, again, found, calls, adverse>>

\* A call of the task raises; an open transaction is rolled back.
ParseFails(o) ==
  /\ Mishap
  /\ \/ /\ pc[o] \in {"queued", "exists"}
        /\ UNCHANGED <<postgres, elastic, stage>>
     \/ /\ pc[o] = "persist"
        /\ lock' = Unlocked(o)
        /\ IF UpsertLeft(o) THEN UNCHANGED rows ELSE MayHappen(rows, rows \cup RowsOf(o))
        /\ UNCHANGED <<elastic, stage>>
     \/ /\ pc[o] = "create"
        /\ MayHappen(index, "present")
        /\ UNCHANGED <<postgres, docs, visible, stage>>
     \/ /\ pc[o] = "index" /\ RecordLeft(o)
        /\ MayHappen(docs, [docs EXCEPT ![DocId(o, pos[o])] = o])
        /\ UNCHANGED <<postgres, index, visible, stage>>
     \/ /\ pc[o] = "index" /\ ~RecordLeft(o)
        /\ MayHappen(stage, Queued(o))
        /\ UNCHANGED <<postgres, elastic>>
  /\ Goto(o, "retry")
  /\ UNCHANGED <<pos, retries, sending, again, found, calls>>

WaitsFor(o, p) ==
  pc[o] = "persist" /\ UpsertLeft(o) /\ p # o /\ lock[Target(o)] = p

\* The transaction of o is in a cycle of waiting transactions.
Deadlocked(o) ==
  \E S \in SUBSET Object :
    /\ o \in S
    /\ \A p \in S : (\E q \in S : WaitsFor(p, q)) /\ (\E q \in S : WaitsFor(q, p))

\* PostgreSQL aborts it.
DeadlockDetected(o) ==
  /\ Deadlocked(o)
  /\ lock' = Unlocked(o)
  /\ Goto(o, "retry")
  /\ UNCHANGED <<rows, elastic, pos, retries, analysis, adverse>>

\* Mutant: the retries are not counted right.
ParseRetryOnceMore(o) ==
  /\ pc[o] = "retry"
  /\ IF retries[o] <= MaxRetries
       THEN Goto(o, "queued") /\ retries' = [retries EXCEPT ![o] = @ + 1]
       ELSE Goto(o, "failed") /\ UNCHANGED retries
  /\ UNCHANGED <<postgres, elastic, pos, analysis, adverse>>

\* Mutant: max_retries=None.
ParseRetryForever(o) ==
  /\ pc[o] = "retry"
  /\ Goto(o, "queued")
  /\ UNCHANGED <<postgres, elastic, pos, retries, analysis, adverse>>

\* self.retry: back to the queue, or the task fails for good.
ParseRetry(o) ==
  /\ pc[o] = "retry"
  /\ IF retries[o] < MaxRetries
       THEN Goto(o, "queued") /\ retries' = [retries EXCEPT ![o] = @ + 1]
       ELSE Goto(o, "failed") /\ UNCHANGED retries
  /\ UNCHANGED <<postgres, elastic, pos, analysis, adverse>>

\* The worker process dies: tasks are acknowledged when they start, so the task
\* is lost, and PostgreSQL rolls its transaction back.
ParseCrash(o) ==
  /\ pc[o] \notin {"queued", "done", "failed"} /\ Mishap
  /\ lock' = Unlocked(o)
  /\ Goto(o, "failed")
  /\ UNCHANGED <<rows, elastic, pos, retries, analysis>>

-----------------------------------------------------------------------------
(* Elasticsearch                                                           *)

Refresh ==
  /\ visible' = docs
  /\ UNCHANGED <<postgres, index, docs, parsing, analysis, adverse>>

-----------------------------------------------------------------------------
(* analyze_report_conformance                                              *)

Advance(a, label) == stage' = [stage EXCEPT ![a] = label]

\* RecordRepository.search for the report's documents, then the metrics.
Search(a) ==
  /\ stage[a] = "queued"
  /\ found' = [found EXCEPT ![a] =
       { d \in Doc : d[1] = Report[a[1]] /\ visible[d] # NoObject }]
  /\ sending' = [sending EXCEPT ![a] = 1]
  /\ Advance(a, "send")
  /\ UNCHANGED <<postgres, elastic, parsing, again, calls, adverse>>

Called(a) == [calls EXCEPT ![<<a, Stage[sending[a]]>>] = @ + 1]

Send(a) ==
  /\ stage[a] = "send" /\ sending[a] <= Len(Stage)
  /\ calls' = Called(a)
  /\ sending' = [sending EXCEPT ![a] = @ + 1]
  /\ UNCHANGED <<postgres, elastic, parsing, stage, again, found, adverse>>

Analysed(a) ==
  /\ stage[a] = "send" /\ sending[a] > Len(Stage)
  /\ Advance(a, "done")
  /\ UNCHANGED <<postgres, elastic, parsing, sending, again, found, calls, adverse>>

AnalysisFails(a) ==
  /\ Mishap
  /\ \/ stage[a] = "queued" /\ UNCHANGED calls
     \/ stage[a] = "send" /\ sending[a] <= Len(Stage) /\ MayHappen(calls, Called(a))
  /\ Advance(a, "retry")
  /\ UNCHANGED <<postgres, elastic, parsing, sending, again, found>>

AnalysisRetry(a) ==
  /\ stage[a] = "retry"
  /\ IF again[a] < MaxRetries
       THEN Advance(a, "queued") /\ again' = [again EXCEPT ![a] = @ + 1]
       ELSE Advance(a, "failed") /\ UNCHANGED again
  /\ UNCHANGED <<postgres, elastic, parsing, sending, found, calls, adverse>>

AnalysisCrash(a) ==
  /\ stage[a] \in {"send", "retry"} /\ Mishap
  /\ Advance(a, "failed")
  /\ UNCHANGED <<postgres, elastic, parsing, sending, again, found, calls>>

-----------------------------------------------------------------------------

ParseProgress(o) ==
  \/ Read(o) \/ Upsert(o) \/ Commit(o) \/ FindIndex(o) \/ CreateIndex(o)
  \/ Index(o) \/ QueueAnalysis(o) \/ DeadlockDetected(o) \/ ParseRetry(o)

AnalysisProgress(a) ==
  Search(a) \/ Send(a) \/ Analysed(a) \/ AnalysisRetry(a)

Next ==
  \/ Refresh
  \/ \E o \in Object : ParseProgress(o) \/ ParseFails(o) \/ ParseCrash(o)
  \/ \E a \in Analysis : AnalysisProgress(a) \/ AnalysisFails(a) \/ AnalysisCrash(a)

Spec == Init /\ [][Next]_vars

\* The workers do not stand idle while a task, however retried, can go on.
FairSpec ==
  /\ Spec
  /\ WF_vars(\/ \E o \in Object : ParseProgress(o)
             \/ \E a \in Analysis : AnalysisProgress(a))

-----------------------------------------------------------------------------
(* Properties                                                              *)

\* persist_report is all or nothing: a report row is never without the domain
\* and all the sources of an object that carries the report, whatever raised,
\* crashed or was chosen as deadlock victim.
PersistIsAtomic ==
  \A r \in ReportId :
    <<"report", r>> \in rows => \E o \in Object : Report[o] = r /\ RowsOf(o) \subseteq rows

\* An analysis is enqueued only for a report that is persisted and whose
\* records are all in the index, whichever run of the parse task got there.
AnalysedIsIngested ==
  \A a \in Analysis : stage[a] # "none" =>
    /\ RowsOf(a[1]) \subseteq rows
    /\ \A d \in DocsOf(a[1]) : docs[d] # NoObject

\* A row lock never outlives its transaction: a task that is queued, retried or
\* over holds none, so nobody waits for it.
NoLockLeaks ==
  \A r \in Row : lock[r] # NoObject => pc[lock[r]] = "persist"

\* Correlation, scoring and recommendation are called in this order, each at
\* most once per run of the analysis, and all of them when it succeeds.
FanOutIsOrdered ==
  \A a \in Analysis :
    /\ calls[<<a, "recommend">>] <= calls[<<a, "score">>]
    /\ calls[<<a, "score">>] <= calls[<<a, "correlate">>]
    /\ calls[<<a, "correlate">>] <= again[a] + 1
    /\ stage[a] = "done" => calls[<<a, "recommend">>] > 0

\* The documents that have been written, and the stages that have been told of an
\* object by one of its analyses.
Written == { d \in Doc : docs[d] # NoObject }
Told ==
  [o \in Object |->
    { s \in StageName : \E n \in Attempt : calls[<<<<o, n>>, s>>] > 0 }]

Promise == INSTANCE IngestedReport WITH
  Valid <- Object \ Broken, Stages <- Stage,
  ObjRows <- [o \in Object |-> RowsOf(o)], ObjDocs <- [o \in Object |-> DocsOf(o)],
  written <- Written, told <- Told

\* The pipeline implements IngestedReport: through retries, lost answers, crashes
\* and deadlocks, the rows of a report appear in one step, its documents after
\* them, and correlation, scoring and recommendation are told of it in this
\* order, and only when all of that is there.
ImplementsIngestedReport == Promise!Spec

\* A parse task goes on by itself unless it is over or waits for another
\* transaction; if it waits in a cycle, PostgreSQL aborts it.
CanGoOn(o) ==
  /\ pc[o] \notin {"done", "failed"}
  /\ pc[o] = "persist" /\ UpsertLeft(o) =>
       lock[Target(o)] \in {o, NoObject} \/ Deadlocked(o)

\* The upserts of parse tasks never wait for one another for ever: while a task
\* is left, one can go on without any failure, whichever rows the reports share
\* and whoever failed, crashed or was aborted holding them.
NobodyIsStuck ==
  (\E o \in Object : pc[o] \notin {"done", "failed"}) => \E o \in Object : CanGoOn(o)

ParseRank ==
  [queued |-> 0, persist |-> 1, exists |-> 2, create |-> 3, index |-> 4, retry |-> 5,
   done |-> 6, failed |-> 6]
AnalysisRank ==
  [none |-> 0, queued |-> 1, send |-> 2, retry |-> 3, done |-> 4, failed |-> 4]

\* A task comes nearer to its end: by a retry, of which there are MaxRetries, by a
\* statement within a run, or by one of the calls of a loop.
ParseAdvances(o) ==
  \/ retries'[o] = retries[o] + 1
  \/ /\ retries'[o] = retries[o]
     /\ \/ ParseRank[pc'[o]] > ParseRank[pc[o]]
        \/ pc'[o] = pc[o] /\ pos'[o] = pos[o] + 1 /\ pos[o] <= Len(Upserts(o))
ParseStays(o) == pc'[o] = pc[o] /\ pos'[o] = pos[o] /\ retries'[o] = retries[o]

AnalysisAdvances(a) ==
  \/ again'[a] = again[a] + 1
  \/ /\ again'[a] = again[a]
     /\ \/ AnalysisRank[stage'[a]] > AnalysisRank[stage[a]]
        \/ stage'[a] = stage[a] /\ sending'[a] = sending[a] + 1
AnalysisStays(a) ==
  stage'[a] = stage[a] /\ sending'[a] = sending[a] /\ again'[a] = again[a]

\* No step sets a task back, not a failure, a lost answer, a crash or a late
\* enqueue of an analysis that is under way, and only a refresh advances none.
\* With NobodyIsStuck this is why every task ends.
TasksAdvance ==
  [][/\ \A o \in Object : ParseStays(o) \/ ParseAdvances(o)
     /\ \A a \in Analysis : AnalysisStays(a) \/ AnalysisAdvances(a)
     /\ \/ \E o \in Object : ParseAdvances(o)
        \/ \E a \in Analysis : AnalysisAdvances(a)
        \/ Refresh]_vars

\* Every parse task and every analysis it enqueued comes to an end: retries are
\* bounded and a deadlock is always broken.
TasksEnd ==
  <>(/\ \A o \in Object : pc[o] \in {"done", "failed"}
     /\ \A a \in Analysis : stage[a] \in {"none", "done", "failed"})

\* What PIPELINE_PHYSICAL_DEMO.md says of the analyze stage, "Computes SPF,
\* DKIM, and DMARC conformance metrics": the metrics are those of the report,
\* not of the records a search happens to show already.
MetricsAreOfReport ==
  \A a \in Analysis : stage[a] \in {"send", "done"} => DocsOf(a[1]) \subseteq found[a]
=============================================================================
