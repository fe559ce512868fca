------------------------ MODULE ReportPipeline_proofs -----------------------
(***************************************************************************)
(* Proofs, for any objects, retries and failures, of the safety properties *)
(* of the report pipeline.                                                 *)
(***************************************************************************)
EXTENDS ReportPipeline, SequenceTheorems, FiniteSetTheorems, WellFoundedInduction, TLAPS

-----------------------------------------------------------------------------
(* The rows and the documents of an object                                 *)

\* What persist_report upserts, in any order, and that each upsert is a row.
LEMMA RowFacts ==
  ASSUME NEW o \in Object
  PROVE  /\ RowsOf(o) = {<<"domain", Domain[o]>>, <<"report", Report[o]>>}
                          \cup { <<"source", Records[o][k]>> : k \in DOMAIN Records[o] }
         /\ RowsOf(o) \subseteq Row
         /\ Len(Upserts(o)) = Len(Records[o]) + 2
         /\ pos[o] \in Nat \ {0} /\ UpsertLeft(o) => Target(o) \in Row
<1> DEFINE s == Records[o]
           A == << <<"domain", Domain[o]>>, <<"report", Report[o]>> >>
           B == [k \in DOMAIN s |-> <<"source", s[k]>>]
<1>1. s \in Seq(Address) /\ DOMAIN s = 1 .. Len(s) /\ Len(s) \in Nat
  BY RecordsAssumption
<1>2. \A k \in DOMAIN s : s[k] \in Address
  BY DEF Address
<1>3. /\ \A k \in DOMAIN s : <<"source", s[k]>> \in Row
      /\ <<"domain", Domain[o]>> \in Row
      /\ <<"report", Report[o]>> \in Row
  BY <1>2 DEF Row, DomainId, ReportId
<1>4. A \in Seq(Row) /\ Len(A) = 2
  BY <1>3
<1>5. B \in Seq(Row) /\ Len(B) = Len(s)
  <2> HIDE DEF s
  <2>1. B \in [1 .. Len(s) -> Row]
    BY <1>1, <1>3
  <2> QED
    BY <1>1, <2>1
<1>6. /\ Upserts(o) = A \o B
      /\ DOMAIN Upserts(o) = 1 .. Len(s) + 2 /\ Len(Upserts(o)) = Len(s) + 2
      /\ \A k \in 1 .. Len(s) + 2 : Upserts(o)[k] = IF k <= 2 THEN A[k] ELSE B[k - 2]
  <2>1. Upserts(o) = A \o B
    BY DEF Upserts
  <2> HIDE DEF A, B, s
  <2>2. /\ A \o B \in Seq(Row) /\ Len(A \o B) = 2 + Len(s)
        /\ \A k \in 1 .. 2 + Len(s) : (A \o B)[k] = IF k <= 2 THEN A[k] ELSE B[k - 2]
    <3>1. /\ A \o B \in Seq(Row) /\ Len(A \o B) = Len(A) + Len(B)
          /\ \A k \in 1 .. Len(A) + Len(B) :
               (A \o B)[k] = IF k <= Len(A) THEN A[k] ELSE B[k - Len(A)]
      <4>1. A \in Seq(Row) /\ B \in Seq(Row)
        BY <1>4, <1>5
      <4> QED
        BY <4>1, ConcatProperties, Zenon
    <3> QED
      BY <3>1, <1>4, <1>5
  <2>3. 2 + Len(s) = Len(s) + 2
    BY <1>1
  <2>4. DOMAIN (A \o B) = 1 .. Len(A \o B)
    BY <2>2
  <2> QED
    BY <2>1, <2>2, <2>3, <2>4
<1>7. RowsOf(o) = {A[1], A[2]} \cup { B[k] : k \in DOMAIN s }
  <2> HIDE DEF A, B, s
  <2>1. ASSUME NEW x \in RowsOf(o) PROVE x \in {A[1], A[2]} \cup { B[k] : k \in DOMAIN s }
    <3>1. PICK k \in 1 .. Len(s) + 2 : x = IF k <= 2 THEN A[k] ELSE B[k - 2]
      BY <1>6 DEF RowsOf
    <3>2. CASE k <= 2
      <4>1. k = 1 \/ k = 2
        BY <3>2, <1>1
      <4> QED
        BY <3>1, <3>2, <4>1
    <3>3. CASE ~(k <= 2)
      <4>1. k - 2 \in DOMAIN s /\ x = B[k - 2]
        BY <3>1, <3>3, <1>1
      <4> QED
        BY <4>1
    <3> QED
      BY <3>2, <3>3
  <2>2. A[1] \in RowsOf(o) /\ A[2] \in RowsOf(o)
    <3>1. 1 \in 1 .. Len(s) + 2 /\ 2 \in 1 .. Len(s) + 2 /\ 1 <= 2 /\ 2 <= 2
      BY <1>1
    <3>2. Upserts(o)[1] = A[1] /\ Upserts(o)[2] = A[2]
      BY <3>1, <1>6
    <3>3. 1 \in DOMAIN Upserts(o) /\ 2 \in DOMAIN Upserts(o)
      BY <3>1, <1>6
    <3> QED
      BY <3>2, <3>3 DEF RowsOf
  <2>3. ASSUME NEW k \in DOMAIN s PROVE B[k] \in RowsOf(o)
    <3>1. k + 2 \in 1 .. Len(s) + 2 /\ ~(k + 2 <= 2) /\ (k + 2) - 2 = k
      BY <1>1
    <3>2. Upserts(o)[k + 2] = B[k]
      BY <3>1, <1>6
    <3>3. k + 2 \in DOMAIN Upserts(o)
      BY <3>1, <1>6
    <3> QED
      BY <3>2, <3>3 DEF RowsOf
  <2> QED
    BY <2>1, <2>2, <2>3
<1>8. RowsOf(o) = {<<"domain", Domain[o]>>, <<"report", Report[o]>>}
                    \cup { <<"source", s[k]>> : k \in DOMAIN s }
  <2>1. A[1] = <<"domain", Domain[o]>> /\ A[2] = <<"report", Report[o]>>
    OBVIOUS
  <2>2. \A k \in DOMAIN s : B[k] = <<"source", s[k]>>
    OBVIOUS
  <2> HIDE DEF A, B
  <2> QED
    BY <1>7, <2>1, <2>2, ZenonT(30)
<1>9. RowsOf(o) \subseteq Row
  BY <1>3, <1>8
<1>10. ASSUME pos[o] \in Nat \ {0}, UpsertLeft(o) PROVE Target(o) \in Row
  <2>1. pos[o] \in DOMAIN Upserts(o)
    BY <1>1, <1>6, <1>10 DEF UpsertLeft
  <2> QED
    BY <2>1, <1>9 DEF Target, RowsOf
<1> QED
  BY <1>6, <1>8, <1>9, <1>10

\* The report row is among those of an object only if it is the object's own.
LEMMA ReportRow ==
  ASSUME NEW o \in Object, NEW r, <<"report", r>> \in RowsOf(o)
  PROVE  Report[o] = r
BY RowFacts

LEMMA DocFacts ==
  ASSUME NEW o \in Object
  PROVE  /\ DOMAIN Records[o] = 1 .. Len(Records[o])
         /\ Len(Records[o]) \in Nat
         /\ \A k \in DOMAIN Records[o] : DocId(o, k) \in Doc
         /\ DocsOf(o) \subseteq Doc
BY RecordsAssumption DEF DocId, DocsOf, Doc

-----------------------------------------------------------------------------
(* Types                                                                   *)

LEMMA TypeInit == Init => TypeOK
<1> SUFFICES ASSUME Init PROVE TypeOK
  OBVIOUS
<1> QED
  BY BoundsAssumption DEF Init, TypeOK, Attempt, ParseLabel, AnalysisLabel

\* The actions of Next, of a parse task, of an analysis and of Elasticsearch.
LEMMA Steps ==
  ASSUME [Next]_vars
  PROVE  \/ UNCHANGED vars
         \/ Refresh
         \/ \E o \in Object :
              \/ Read(o) \/ Upsert(o) \/ Commit(o) \/ FindIndex(o) \/ CreateIndex(o)
              \/ Index(o) \/ QueueAnalysis(o) \/ DeadlockDetected(o) \/ ParseRetry(o)
              \/ ParseFails(o) \/ ParseCrash(o)
         \/ \E a \in Analysis :
              \/ Search(a) \/ Send(a) \/ Analysed(a) \/ AnalysisRetry(a)
              \/ AnalysisFails(a) \/ AnalysisCrash(a)
BY DEF Next, ParseProgress, AnalysisProgress

LEMMA MishapType == adverse \in 0 .. MaxAdverse /\ Mishap => adverse' \in 0 .. MaxAdverse
BY BoundsAssumption DEF Mishap

\* The name of the analysis a parse task would enqueue now.
LEMMA AnalysisName ==
  ASSUME TypeOK, NEW o \in Object
  PROVE  <<o, retries[o]>> \in Analysis
BY DEF TypeOK, Analysis

LEMMA OneMore ==
  ASSUME NEW S, NEW f \in [S -> Nat], NEW x \in S
  PROVE  /\ [f EXCEPT ![x] = f[x] + 1] \in [S -> Nat]
         /\ \A y \in S : [f EXCEPT ![x] = f[x] + 1][y] = IF y = x THEN f[y] + 1 ELSE f[y]
OBVIOUS

\* Enqueueing one more stage keeps the counters counters.
LEMMA CalledFacts ==
  ASSUME TypeOK, NEW a \in Analysis, sending[a] <= Len(Stage)
  PROVE  /\ sending[a] \in 1 .. 3 /\ Stage[sending[a]] \in StageName
         /\ Called(a) \in [Analysis \X StageName -> Nat]
         /\ \A b \in Analysis, n \in StageName :
              Called(a)[<<b, n>>] =
                IF b = a /\ n = Stage[sending[a]]
                  THEN calls[<<b, n>>] + 1 ELSE calls[<<b, n>>]
<1>1. sending[a] \in 1 .. 3
  BY DEF TypeOK, Stage
<1>2. Stage[sending[a]] \in StageName
  BY <1>1 DEF Stage, StageName
<1> DEFINE n == Stage[sending[a]]
<1> HIDE DEF n
<1> DEFINE S == Analysis \X StageName
           x == <<a, n>>
<1>3. calls \in [S -> Nat] /\ x \in S /\ Called(a) = [calls EXCEPT ![x] = calls[x] + 1]
  BY <1>2 DEF TypeOK, Called, n
<1>4. /\ Called(a) \in [S -> Nat]
      /\ \A m \in S : Called(a)[m] = IF m = x THEN calls[m] + 1 ELSE calls[m]
  <2> HIDE DEF S, x
  <2> QED
    BY <1>3, OneMore
<1>5. \A b \in Analysis, l \in StageName :
        <<b, l>> \in S /\ (<<b, l>> = x <=> b = a /\ l = n)
  OBVIOUS
<1> QED
  BY <1>1, <1>2, <1>4, <1>5 DEF n

LEMMA TypeStep == TypeOK /\ [Next]_vars => TypeOK'
<1> SUFFICES ASSUME TypeOK, [Next]_vars PROVE TypeOK'
  OBVIOUS
<1> USE DEF TypeOK, Goto, Advance, MayHappen, postgres, elastic, parsing, analysis,
        ParseLabel, AnalysisLabel
<1>1. CASE UNCHANGED vars
  BY <1>1 DEF vars
<1>2. CASE Refresh
  BY <1>2 DEF Refresh
<1>3. ASSUME NEW o \in Object, Read(o) PROVE TypeOK'
  BY <1>3 DEF Read
<1>4. ASSUME NEW o \in Object, Upsert(o) PROVE TypeOK'
  BY <1>4, RowFacts DEF Upsert
<1>5. ASSUME NEW o \in Object, Commit(o) PROVE TypeOK'
  BY <1>5, RowFacts DEF Commit, Unlocked
<1>6. ASSUME NEW o \in Object, FindIndex(o) PROVE TypeOK'
  BY <1>6 DEF FindIndex
<1>7. ASSUME NEW o \in Object, CreateIndex(o) PROVE TypeOK'
  BY <1>7 DEF CreateIndex
<1>8. ASSUME NEW o \in Object, Index(o) PROVE TypeOK'
  <2>1. docs' \in [Doc -> Object \cup {NoObject}]
    BY <1>8 DEF Index
  <2>2. pos' \in [Object -> Nat \ {0}]
    BY <1>8 DEF Index
  <2> QED
    BY <1>8, <2>1, <2>2 DEF Index
<1>9. ASSUME NEW o \in Object, QueueAnalysis(o) PROVE TypeOK'
  BY <1>9 DEF QueueAnalysis, Queued
<1>10. ASSUME NEW o \in Object, DeadlockDetected(o) PROVE TypeOK'
  BY <1>10 DEF DeadlockDetected, Unlocked
<1>11. ASSUME NEW o \in Object, ParseRetry(o) PROVE TypeOK'
  BY <1>11, BoundsAssumption DEF ParseRetry, Attempt
<1>12. ASSUME NEW o \in Object, ParseFails(o) PROVE TypeOK'
  <2>1. adverse' \in 0 .. MaxAdverse
    BY <1>12, MishapType DEF ParseFails
  <2>2. /\ rows' \subseteq Row
        /\ lock' \in [Row -> Object \cup {NoObject}]
        /\ index' \in {"missing", "present"}
    BY <1>12, RowFacts DEF ParseFails, Unlocked
  <2>3. /\ docs' \in [Doc -> Object \cup {NoObject}]
        /\ visible' \in [Doc -> Object \cup {NoObject}]
        /\ stage' \in [Analysis -> AnalysisLabel]
    BY <1>12 DEF ParseFails, Queued
  <2> QED
    BY <1>12, <2>1, <2>2, <2>3 DEF ParseFails
<1>13. ASSUME NEW o \in Object, ParseCrash(o) PROVE TypeOK'
  BY <1>13, MishapType DEF ParseCrash, Unlocked
<1>14. ASSUME NEW a \in Analysis, Search(a) PROVE TypeOK'
  BY <1>14 DEF Search
<1>15. ASSUME NEW a \in Analysis, Send(a) PROVE TypeOK'
  <2>1. sending[a] \in 1 .. 3 /\ calls' \in [Analysis \X StageName -> Nat]
    BY <1>15, CalledFacts DEF Send
  <2>2. sending' \in [Analysis -> 1 .. 4]
    BY <1>15, <2>1 DEF Send
  <2> QED
    BY <1>15, <2>1, <2>2 DEF Send
<1>16. ASSUME NEW a \in Analysis, Analysed(a) PROVE TypeOK'
  BY <1>16 DEF Analysed
<1>17. ASSUME NEW a \in Analysis, AnalysisRetry(a) PROVE TypeOK'
  BY <1>17, BoundsAssumption DEF AnalysisRetry, Attempt
<1>18. ASSUME NEW a \in Analysis, AnalysisFails(a) PROVE TypeOK'
  <2>1. calls' \in [Analysis \X StageName -> Nat]
    BY <1>18, CalledFacts DEF AnalysisFails
  <2> QED
    BY <1>18, <2>1, MishapType DEF AnalysisFails
<1>19. ASSUME NEW a \in Analysis, AnalysisCrash(a) PROVE TypeOK'
  BY <1>19, MishapType DEF AnalysisCrash
<1> HIDE DEF TypeOK
<1> QED
  BY Steps, <1>1, <1>2, <1>3, <1>4, <1>5, <1>6, <1>7, <1>8, <1>9, <1>10, <1>11, <1>12,
     <1>13, <1>14, <1>15, <1>16, <1>17, <1>18, <1>19

\* The variables keep their types.
THEOREM TypeCorrect == Spec => []TypeOK
<1>1. Init => TypeOK
  BY TypeInit
<1>2. TypeOK /\ [Next]_vars => TypeOK'
  BY TypeStep
<1> QED
  BY <1>1, <1>2, PTL DEF Spec

-----------------------------------------------------------------------------
(* Locks and rows                                                          *)

LEMMA LocksInit == Init => NoLockLeaks /\ PersistIsAtomic
BY DEF Init, NoLockLeaks, PersistIsAtomic

\* Only Upsert takes a lock, and whoever leaves "persist" releases its own.
LEMMA LocksStep == TypeOK /\ NoLockLeaks /\ [Next]_vars => NoLockLeaks'
<1> SUFFICES ASSUME TypeOK, NoLockLeaks, [Next]_vars,
                    NEW r \in Row, lock'[r] # NoObject
             PROVE  pc'[lock'[r]] = "persist"
  BY DEF NoLockLeaks
<1>1. /\ pc \in [Object -> ParseLabel]
      /\ lock \in [Row -> Object \cup {NoObject}]
      /\ lock[r] # NoObject => lock[r] \in Object /\ pc[lock[r]] = "persist"
  BY DEF TypeOK, NoLockLeaks
<1>2. CASE lock' = lock /\ pc' = pc
  BY <1>1, <1>2
<1>3. ASSUME NEW o \in Object, pc[o] # "persist", lock' = lock,
             NEW label, pc' = [pc EXCEPT ![o] = label]
      PROVE  pc'[lock'[r]] = "persist"
  BY <1>1, <1>3
<1>4. ASSUME NEW o \in Object, lock' = Unlocked(o),
             NEW label, pc' = [pc EXCEPT ![o] = label]
      PROVE  pc'[lock'[r]] = "persist"
  BY <1>1, <1>4 DEF Unlocked
<1>5. ASSUME NEW o \in Object, Upsert(o) PROVE pc'[lock'[r]] = "persist"
  BY <1>1, <1>5 DEF Upsert
<1>6. ASSUME NEW o \in Object,
             \/ Read(o) \/ FindIndex(o) \/ CreateIndex(o) \/ QueueAnalysis(o)
             \/ ParseRetry(o)
      PROVE  pc'[lock'[r]] = "persist"
  BY <1>3, <1>6
     DEF Read, FindIndex, CreateIndex, QueueAnalysis, ParseRetry, Goto, postgres
<1>7. ASSUME NEW o \in Object, Commit(o) \/ DeadlockDetected(o) \/ ParseCrash(o)
      PROVE  pc'[lock'[r]] = "persist"
  BY <1>4, <1>7 DEF Commit, DeadlockDetected, ParseCrash, Goto
<1>8. ASSUME NEW o \in Object, ParseFails(o) PROVE pc'[lock'[r]] = "persist"
  <2>1. \/ pc[o] # "persist" /\ lock' = lock
        \/ lock' = Unlocked(o)
    BY <1>8 DEF ParseFails, postgres
  <2>2. pc' = [pc EXCEPT ![o] = "retry"]
    BY <1>8 DEF ParseFails, Goto
  <2> QED
    BY <1>3, <1>4, <2>1, <2>2
<1>9. ASSUME \/ UNCHANGED vars \/ Refresh \/ \E o \in Object : Index(o)
             \/ \E a \in Analysis :
                  \/ Search(a) \/ Send(a) \/ Analysed(a) \/ AnalysisRetry(a)
                  \/ AnalysisFails(a) \/ AnalysisCrash(a)
      PROVE  pc'[lock'[r]] = "persist"
  BY <1>2, <1>9
     DEF vars, Refresh, Index, Search, Send, Analysed, AnalysisRetry, AnalysisFails,
         AnalysisCrash, postgres, parsing
<1> QED
  BY Steps, <1>5, <1>6, <1>7, <1>8, <1>9

\* Rows are added in whole transactions only.
LEMMA RowsGrow ==
  ASSUME [Next]_vars
  PROVE  rows' = rows \/ \E o \in Object : rows' = rows \cup RowsOf(o)
<1> USE DEF postgres
<1>1. ASSUME NEW o \in Object, Commit(o) PROVE rows' = rows \cup RowsOf(o)
  BY <1>1 DEF Commit
<1>2. ASSUME NEW o \in Object, ParseFails(o)
      PROVE  rows' = rows \/ rows' = rows \cup RowsOf(o)
  BY <1>2 DEF ParseFails, MayHappen
<1>3. ASSUME NEW o \in Object,
             \/ Read(o) \/ Upsert(o) \/ FindIndex(o) \/ CreateIndex(o) \/ Index(o)
             \/ QueueAnalysis(o) \/ DeadlockDetected(o) \/ ParseRetry(o) \/ ParseCrash(o)
      PROVE  rows' = rows
  BY <1>3 DEF Read, Upsert, FindIndex, CreateIndex, Index, QueueAnalysis,
              DeadlockDetected, ParseRetry, ParseCrash
<1>4. ASSUME \/ UNCHANGED vars \/ Refresh
             \/ \E a \in Analysis :
                  \/ Search(a) \/ Send(a) \/ Analysed(a) \/ AnalysisRetry(a)
                  \/ AnalysisFails(a) \/ AnalysisCrash(a)
      PROVE  rows' = rows
  BY <1>4 DEF vars, Refresh, Search, Send, Analysed, AnalysisRetry, AnalysisFails,
              AnalysisCrash
<1> QED
  BY Steps, <1>1, <1>2, <1>3, <1>4

LEMMA AtomicStep == PersistIsAtomic /\ [Next]_vars => PersistIsAtomic'
<1> SUFFICES ASSUME PersistIsAtomic, [Next]_vars,
                    NEW r \in ReportId, <<"report", r>> \in rows'
             PROVE  \E o \in Object : Report[o] = r /\ RowsOf(o) \subseteq rows'
  BY DEF PersistIsAtomic
<1>1. CASE <<"report", r>> \in rows
  BY <1>1, RowsGrow DEF PersistIsAtomic
<1>2. CASE <<"report", r>> \notin rows
  <2>1. PICK o \in Object : rows' = rows \cup RowsOf(o)
    BY <1>2, RowsGrow
  <2>2. <<"report", r>> \in RowsOf(o)
    BY <1>2, <2>1
  <2> QED
    BY <2>1, <2>2, ReportRow
<1> QED
  BY <1>1, <1>2

-----------------------------------------------------------------------------
(* Ingestion before analysis                                               *)

\* Past the commit the rows are there, and the records before pos are indexed.
Persisted ==
  \A o \in Object : pc[o] \in {"exists", "create", "index"} => RowsOf(o) \subseteq rows

Indexed ==
  \A o \in Object : pc[o] \in {"create", "index"} =>
    \A k \in DOMAIN Records[o] : k < pos[o] => docs[DocId(o, k)] # NoObject

Ingestion == Persisted /\ Indexed /\ AnalysedIsIngested

LEMMA IngestionInit == Init => Ingestion
BY DEF Init, Ingestion, Persisted, Indexed, AnalysedIsIngested

\* No document is ever removed.
LEMMA DocsGrow ==
  ASSUME TypeOK, [Next]_vars
  PROVE  \A d \in Doc : docs[d] # NoObject => docs'[d] # NoObject
<1> SUFFICES ASSUME NEW d \in Doc, docs[d] # NoObject PROVE docs'[d] # NoObject
  OBVIOUS
<1> USE DEF elastic
<1>1. docs \in [Doc -> Object \cup {NoObject}]
  BY DEF TypeOK
<1>2. ASSUME NEW o \in Object, Index(o) PROVE docs'[d] # NoObject
  BY <1>1, <1>2, NullAssumption DEF Index
<1>3. ASSUME NEW o \in Object, ParseFails(o) PROVE docs'[d] # NoObject
  <2>1. docs' = docs \/ docs' = [docs EXCEPT ![DocId(o, pos[o])] = o]
    BY <1>3 DEF ParseFails, MayHappen
  <2> QED
    BY <1>1, <2>1, NullAssumption
<1>4. ASSUME NEW o \in Object,
             \/ Read(o) \/ Upsert(o) \/ Commit(o) \/ FindIndex(o) \/ CreateIndex(o)
             \/ QueueAnalysis(o) \/ DeadlockDetected(o) \/ ParseRetry(o) \/ ParseCrash(o)
      PROVE  docs' = docs
  BY <1>4 DEF Read, Upsert, Commit, FindIndex, CreateIndex, QueueAnalysis,
              DeadlockDetected, ParseRetry, ParseCrash
<1>5. ASSUME \/ UNCHANGED vars \/ Refresh
             \/ \E a \in Analysis :
                  \/ Search(a) \/ Send(a) \/ Analysed(a) \/ AnalysisRetry(a)
                  \/ AnalysisFails(a) \/ AnalysisCrash(a)
      PROVE  docs' = docs
  BY <1>5 DEF vars, Refresh, Search, Send, Analysed, AnalysisRetry, AnalysisFails,
              AnalysisCrash
<1> QED
  BY Steps, <1>2, <1>3, <1>4, <1>5

\* How the control state of a parse task moves.
LEMMA ParseMoves ==
  ASSUME TypeOK, [Next]_vars, NEW o \in Object
  PROVE  \/ pc'[o] = pc[o] /\ pos'[o] = pos[o] /\ retries'[o] = retries[o]
         \/ Read(o) \/ Upsert(o) \/ Commit(o) \/ FindIndex(o) \/ CreateIndex(o)
         \/ Index(o) \/ QueueAnalysis(o) \/ DeadlockDetected(o) \/ ParseRetry(o)
         \/ ParseFails(o) \/ ParseCrash(o)
<1> DEFINE Still == pc'[o] = pc[o] /\ pos'[o] = pos[o] /\ retries'[o] = retries[o]
<1>1. pc \in [Object -> ParseLabel] /\ pos \in [Object -> Nat \ {0}]
      /\ retries \in [Object -> Attempt]
  BY DEF TypeOK
<1>2. ASSUME NEW p \in Object, p # o,
             \/ Read(p) \/ Upsert(p) \/ Commit(p) \/ FindIndex(p) \/ CreateIndex(p)
             \/ Index(p) \/ QueueAnalysis(p)
      PROVE  Still
  BY <1>1, <1>2 DEF Read, Upsert, Commit, FindIndex, CreateIndex, Index, QueueAnalysis, Goto
<1>3. ASSUME NEW p \in Object, p # o,
             \/ DeadlockDetected(p) \/ ParseRetry(p) \/ ParseFails(p) \/ ParseCrash(p)
      PROVE  Still
  BY <1>1, <1>3 DEF DeadlockDetected, ParseRetry, ParseFails, ParseCrash, Goto
<1>4. ASSUME \/ UNCHANGED vars \/ Refresh
             \/ \E a \in Analysis :
                  \/ Search(a) \/ Send(a) \/ Analysed(a) \/ AnalysisRetry(a)
                  \/ AnalysisFails(a) \/ AnalysisCrash(a)
      PROVE  Still
  BY <1>4 DEF vars, Refresh, Search, Send, Analysed, AnalysisRetry, AnalysisFails,
              AnalysisCrash, parsing
<1> QED
  BY Steps, <1>2, <1>3, <1>4

\* An analysis starts only at the end of an index run.
LEMMA AnalysisStarts ==
  ASSUME TypeOK, [Next]_vars, NEW a \in Analysis, stage[a] = "none", stage'[a] # "none"
  PROVE  \E o \in Object :
           /\ a = <<o, retries[o]>> /\ retries' = retries
           /\ pc[o] = "index" /\ ~RecordLeft(o)
           /\ pc'[o] \in {"done", "retry"}
           /\ rows' = rows /\ docs' = docs
<1>1. pc \in [Object -> ParseLabel] /\ stage \in [Analysis -> AnalysisLabel]
  BY DEF TypeOK
<1>2. ASSUME NEW o \in Object, stage' = Queued(o) PROVE a = <<o, retries[o]>>
  BY <1>1, <1>2 DEF Queued
<1>3. ASSUME NEW o \in Object, QueueAnalysis(o) \/ ParseFails(o) PROVE
           /\ a = <<o, retries[o]>> /\ retries' = retries
           /\ pc[o] = "index" /\ ~RecordLeft(o)
           /\ pc'[o] \in {"done", "retry"}
           /\ rows' = rows /\ docs' = docs
  <2>1. CASE QueueAnalysis(o)
    BY <1>1, <1>2, <2>1 DEF QueueAnalysis, Goto, postgres, elastic
  <2>2. CASE ParseFails(o)
    BY <1>1, <1>2, <2>2 DEF ParseFails, Goto, postgres, elastic, MayHappen
  <2> QED
    BY <1>3, <2>1, <2>2
<1>4. ASSUME NEW o \in Object,
             \/ Read(o) \/ Upsert(o) \/ Commit(o) \/ FindIndex(o) \/ CreateIndex(o)
             \/ Index(o) \/ DeadlockDetected(o) \/ ParseRetry(o) \/ ParseCrash(o)
      PROVE  FALSE
  BY <1>4 DEF Read, Upsert, Commit, FindIndex, CreateIndex, Index, DeadlockDetected,
              ParseRetry, ParseCrash, analysis
<1>5. ASSUME NEW b \in Analysis,
             \/ Search(b) \/ Send(b) \/ Analysed(b) \/ AnalysisRetry(b)
             \/ AnalysisFails(b) \/ AnalysisCrash(b)
      PROVE  FALSE
  <2>1. stage[b] # "none"
    BY <1>5 DEF Search, Send, Analysed, AnalysisRetry, AnalysisFails, AnalysisCrash
  <2>2. a # b
    BY <2>1
  <2>3. stage' = stage \/ \E label : stage' = [stage EXCEPT ![b] = label]
    BY <1>5 DEF Search, Send, Analysed, AnalysisRetry, AnalysisFails, AnalysisCrash, Advance
  <2> QED
    BY <1>1, <2>2, <2>3
<1>6. CASE UNCHANGED vars \/ Refresh
  BY <1>6 DEF vars, Refresh, analysis
<1> QED
  BY Steps, <1>3, <1>4, <1>5, <1>6

LEMMA IngestionStep == TypeOK /\ Ingestion /\ [Next]_vars => Ingestion'
<1> SUFFICES ASSUME TypeOK, Persisted, Indexed, AnalysedIsIngested, [Next]_vars
             PROVE  Persisted' /\ Indexed' /\ AnalysedIsIngested'
  BY DEF Ingestion
<1>1. pc \in [Object -> ParseLabel] /\ pos \in [Object -> Nat \ {0}]
      /\ docs \in [Doc -> Object \cup {NoObject}]
  BY DEF TypeOK
<1>2. rows \subseteq rows'
  BY RowsGrow
<1> USE DEF Goto
<1>3. ASSUME NEW o \in Object, pc'[o] \in {"exists", "create", "index"}
      PROVE  RowsOf(o) \subseteq rows'
  <2>1. CASE Commit(o)
    BY <2>1 DEF Commit
  <2>2. CASE ~Commit(o)
    <3>1. pc[o] \in {"exists", "create", "index"}
      BY <1>1, <1>3, <2>2, ParseMoves
         DEF Read, Upsert, FindIndex, CreateIndex, Index, QueueAnalysis, DeadlockDetected,
             ParseRetry, ParseFails, ParseCrash
    <3> QED
      BY <1>2, <3>1 DEF Persisted
  <2> QED
    BY <2>1, <2>2
<1>4. ASSUME NEW o \in Object, pc'[o] \in {"create", "index"},
             NEW k \in DOMAIN Records[o], k < pos'[o]
      PROVE  docs'[DocId(o, k)] # NoObject
  <2>1. DocId(o, k) \in Doc /\ k \in Nat \ {0}
    BY DocFacts
  <2>2. CASE FindIndex(o)
    BY <1>1, <1>4, <2>1, <2>2 DEF FindIndex
  <2>3. CASE Index(o)
    <3>1. /\ docs' = [docs EXCEPT ![DocId(o, pos[o])] = o]
          /\ pos'[o] = pos[o] + 1 /\ pc[o] = "index"
      BY <1>1, <2>3 DEF Index
    <3>2. CASE k = pos[o]
      BY <1>1, <2>1, <3>1, <3>2, NullAssumption
    <3>3. CASE k # pos[o]
      <4>1. k < pos[o]
        BY <1>1, <1>4, <2>1, <3>1, <3>3
      <4> QED
        BY <2>1, <3>1, <4>1, DocsGrow DEF Indexed
    <3> QED
      BY <3>2, <3>3
  <2>4. CASE ~FindIndex(o) /\ ~Index(o)
    <3>1. pc[o] \in {"create", "index"} /\ pos'[o] = pos[o]
      BY <1>1, <1>4, <2>4, ParseMoves
         DEF Read, Upsert, Commit, CreateIndex, QueueAnalysis, DeadlockDetected,
             ParseRetry, ParseFails, ParseCrash
    <3> QED
      BY <1>4, <2>1, <3>1, DocsGrow DEF Indexed
  <2> QED
    BY <2>2, <2>3, <2>4
<1>5. ASSUME NEW a \in Analysis, stage'[a] # "none"
      PROVE  /\ RowsOf(a[1]) \subseteq rows'
             /\ \A d \in DocsOf(a[1]) : docs'[d] # NoObject
  <2>1. a[1] \in Object
    BY DEF Analysis
  <2>2. CASE stage[a] # "none"
    BY <1>2, <2>1, <2>2, DocsGrow, DocFacts DEF AnalysedIsIngested
  <2>3. CASE stage[a] = "none"
    <3>1. PICK o \in Object :
            /\ a = <<o, retries[o]>> /\ pc[o] = "index" /\ ~RecordLeft(o)
            /\ rows' = rows /\ docs' = docs
      BY <1>5, <2>3, AnalysisStarts
    <3>2. a[1] = o
      BY <3>1
    <3>3. \A k \in DOMAIN Records[o] : k < pos[o]
      BY <1>1, <3>1, DocFacts DEF RecordLeft
    <3>4. \A d \in DocsOf(o) : docs[d] # NoObject
      BY <3>1, <3>3 DEF Indexed, DocsOf
    <3> QED
      BY <3>1, <3>2, <3>4 DEF Persisted
  <2> QED
    BY <2>2, <2>3
<1> QED
  BY <1>3, <1>4, <1>5 DEF Persisted, Indexed, AnalysedIsIngested

-----------------------------------------------------------------------------
(* The fan-out of an analysis                                              *)

\* A run of a parse task that has not ended has not enqueued its analysis.
Working == {"queued", "persist", "exists", "create", "index"}

Unstarted ==
  \A o \in Object, n \in Attempt :
    n > retries[o] \/ (n = retries[o] /\ pc[o] \in Working) => stage[<<o, n>>] = "none"

\* The calls of an analysis that has been run n times, and of the run going on.
Counted(a) ==
  /\ calls[<<a, "recommend">>] <= calls[<<a, "score">>]
  /\ calls[<<a, "score">>] <= calls[<<a, "correlate">>]
  /\ calls[<<a, "correlate">>] <= again[a] + 1
  /\ stage[a] \in {"none", "queued"} => calls[<<a, "correlate">>] <= again[a]
  /\ stage[a] = "send" =>
       /\ sending[a] = 1 => calls[<<a, "correlate">>] <= again[a]
       /\ sending[a] = 2 => calls[<<a, "score">>] < calls[<<a, "correlate">>]
       /\ sending[a] = 3 => calls[<<a, "recommend">>] < calls[<<a, "score">>]
       /\ sending[a] = 4 => 0 < calls[<<a, "recommend">>]
  /\ stage[a] = "done" => 0 < calls[<<a, "recommend">>]

FanOut == Unstarted /\ \A a \in Analysis : Counted(a)

LEMMA FanOutInit == Init => FanOut
<1> SUFFICES ASSUME Init PROVE Unstarted /\ \A a \in Analysis : Counted(a)
  BY DEF FanOut
<1>1. Unstarted
  BY DEF Init, Unstarted, Analysis
<1>2. ASSUME NEW a \in Analysis PROVE Counted(a)
  <2>1. /\ calls[<<a, "correlate">>] = 0
        /\ calls[<<a, "score">>] = 0
        /\ calls[<<a, "recommend">>] = 0
    BY DEF Init, StageName
  <2>2. stage[a] = "none" /\ again[a] = 0
    BY DEF Init
  <2> QED
    BY <2>1, <2>2 DEF Counted
<1> QED
  BY <1>1, <1>2

LEMMA UnstartedStep == TypeOK /\ Unstarted /\ [Next]_vars => Unstarted'
<1> SUFFICES ASSUME TypeOK, Unstarted, [Next]_vars, NEW o \in Object, NEW n \in Attempt,
                    n > retries'[o] \/ (n = retries'[o] /\ pc'[o] \in Working),
                    stage'[<<o, n>>] # "none"
             PROVE  FALSE
  BY DEF Unstarted
<1>1. /\ pc \in [Object -> ParseLabel] /\ retries \in [Object -> Attempt]
      /\ Attempt \subseteq Nat /\ <<o, n>> \in Analysis
  BY DEF TypeOK, Attempt, Analysis
<1>2. CASE stage[<<o, n>>] = "none"
  <2>1. PICK p \in Object :
          /\ <<o, n>> = <<p, retries[p]>> /\ retries' = retries
          /\ pc'[p] \in {"done", "retry"}
    BY <1>1, <1>2, AnalysisStarts
  <2>2. o = p /\ n = retries[o] /\ n = retries'[o]
    BY <2>1
  <2> QED
    BY <1>1, <2>1, <2>2 DEF Working
<1>3. CASE stage[<<o, n>>] # "none"
  <2>1. ~(n > retries[o]) /\ ~(n = retries[o] /\ pc[o] \in Working)
    BY <1>3 DEF Unstarted
  <2>2. CASE ParseRetry(o)
    <3>1. retries'[o] = retries[o] + 1 \/ (retries'[o] = retries[o] /\ pc'[o] = "failed")
      BY <1>1, <2>2 DEF ParseRetry, Goto
    <3>2. retries[o] \in Nat /\ n \in Nat
      BY <1>1
    <3>3. ASSUME retries'[o] = retries[o] + 1 PROVE n > retries[o]
      BY <3>2, <3>3
    <3>4. ASSUME retries'[o] = retries[o], pc'[o] = "failed" PROVE n > retries[o]
      BY <3>4 DEF Working
    <3> QED
      BY <2>1, <3>1, <3>3, <3>4
  <2>3. CASE ~ParseRetry(o)
    <3>1. retries'[o] = retries[o]
      BY <1>1, <2>3, ParseMoves
         DEF Read, Upsert, Commit, FindIndex, CreateIndex, Index, QueueAnalysis,
             DeadlockDetected, ParseFails, ParseCrash
    <3>2. pc'[o] \in Working => pc[o] \in Working
      BY <1>1, <2>3, ParseMoves
         DEF Read, Upsert, Commit, FindIndex, CreateIndex, Index, QueueAnalysis,
             DeadlockDetected, ParseFails, ParseCrash, Goto, Working
    <3> QED
      BY <1>1, <2>1, <3>1, <3>2
  <2> QED
    BY <2>2, <2>3
<1> QED
  BY <1>2, <1>3

\* Nothing about an analysis changes but by its own actions and its start.
LEMMA AnalysisMoves ==
  ASSUME TypeOK, Unstarted, [Next]_vars, NEW a \in Analysis
  PROVE  \/ Search(a) \/ Send(a) \/ Analysed(a) \/ AnalysisRetry(a)
         \/ AnalysisFails(a) \/ AnalysisCrash(a)
         \/ /\ again'[a] = again[a] /\ sending'[a] = sending[a]
            /\ \A l \in StageName : calls'[<<a, l>>] = calls[<<a, l>>]
            /\ \/ stage'[a] = stage[a]
               \/ stage[a] = "none" /\ stage'[a] = "queued"
<1> DEFINE Same == /\ again'[a] = again[a] /\ sending'[a] = sending[a]
                   /\ \A l \in StageName : calls'[<<a, l>>] = calls[<<a, l>>]
           Kept == stage'[a] = stage[a] \/ (stage[a] = "none" /\ stage'[a] = "queued")
<1>1. /\ stage \in [Analysis -> AnalysisLabel] /\ sending \in [Analysis -> 1 .. 4]
      /\ again \in [Analysis -> Attempt] /\ calls \in [Analysis \X StageName -> Nat]
      /\ retries \in [Object -> Attempt]
  BY DEF TypeOK
<1>2. ASSUME NEW o \in Object, QueueAnalysis(o) \/ ParseFails(o) PROVE Same /\ Kept
  <2>1. Same
    BY <1>2 DEF QueueAnalysis, ParseFails
  <2>2. stage' = stage \/ (stage' = Queued(o) /\ pc[o] = "index")
    BY <1>2 DEF QueueAnalysis, ParseFails, MayHappen
  <2>3. ASSUME stage' = Queued(o), pc[o] = "index" PROVE Kept
    <3>1. stage[<<o, retries[o]>>] = "none" /\ <<o, retries[o]>> \in Analysis
      BY <1>1, <2>3 DEF Unstarted, Working, Analysis
    <3> QED
      BY <1>1, <2>3, <3>1 DEF Queued
  <2> QED
    BY <2>1, <2>2, <2>3
<1>3. ASSUME NEW o \in Object,
             \/ Read(o) \/ Upsert(o) \/ Commit(o) \/ FindIndex(o) \/ CreateIndex(o)
             \/ Index(o) \/ DeadlockDetected(o) \/ ParseRetry(o) \/ ParseCrash(o)
      PROVE  Same /\ Kept
  BY <1>3 DEF Read, Upsert, Commit, FindIndex, CreateIndex, Index, DeadlockDetected,
              ParseRetry, ParseCrash, analysis
<1>4. ASSUME NEW b \in Analysis, b # a,
             \/ Search(b) \/ Analysed(b) \/ AnalysisRetry(b) \/ AnalysisCrash(b)
      PROVE  Same /\ Kept
  BY <1>1, <1>4 DEF Search, Analysed, AnalysisRetry, AnalysisCrash, Advance
<1>5. ASSUME NEW b \in Analysis, b # a, Send(b) \/ AnalysisFails(b)
      PROVE  Same /\ Kept
  <2>1. again'[a] = again[a] /\ sending'[a] = sending[a] /\ stage'[a] = stage[a]
    BY <1>1, <1>5 DEF Send, AnalysisFails, Advance
  <2>2. calls' = calls \/ (calls' = Called(b) /\ sending[b] <= Len(Stage))
    BY <1>5 DEF Send, AnalysisFails, MayHappen
  <2>3. \A l \in StageName : calls'[<<a, l>>] = calls[<<a, l>>]
    BY <1>5, <2>2, CalledFacts
  <2> QED
    BY <2>1, <2>3
<1>6. CASE UNCHANGED vars \/ Refresh
  BY <1>6 DEF vars, Refresh, analysis
<1> QED
  BY Steps, <1>2, <1>3, <1>4, <1>5, <1>6

LEMMA CountedStep ==
  ASSUME TypeOK, FanOut, [Next]_vars, NEW a \in Analysis
  PROVE  Counted(a)'
<1> DEFINE c == calls[<<a, "correlate">>]
           s == calls[<<a, "score">>]
           r == calls[<<a, "recommend">>]
           k == sending[a]
           n == again[a]
<1>1. /\ c \in Nat /\ s \in Nat /\ r \in Nat /\ k \in 1 .. 4 /\ n \in Nat
      /\ stage \in [Analysis -> AnalysisLabel] /\ sending \in [Analysis -> 1 .. 4]
      /\ again \in [Analysis -> Attempt]
  BY DEF TypeOK, StageName, Attempt
<1>2. /\ r <= s /\ s <= c /\ c <= n + 1
      /\ stage[a] \in {"none", "queued"} => c <= n
      /\ stage[a] = "send" => /\ k = 1 => c <= n
                              /\ k = 2 => s < c
                              /\ k = 3 => r < s
                              /\ k = 4 => 0 < r
      /\ stage[a] = "done" => 0 < r
  BY DEF FanOut, Counted
<1>3. ASSUME k <= Len(Stage)
      PROVE  /\ k \in 1 .. 3
             /\ Called(a)[<<a, "correlate">>] = IF k = 1 THEN c + 1 ELSE c
             /\ Called(a)[<<a, "score">>] = IF k = 2 THEN s + 1 ELSE s
             /\ Called(a)[<<a, "recommend">>] = IF k = 3 THEN r + 1 ELSE r
  <2>1. k \in 1 .. 3
    BY <1>3, CalledFacts
  <2>2. \A l \in StageName :
          Called(a)[<<a, l>>] =
            IF l = Stage[k] THEN calls[<<a, l>>] + 1 ELSE calls[<<a, l>>]
    BY <1>3, CalledFacts
  <2>3. /\ "correlate" = Stage[k] <=> k = 1
        /\ "score" = Stage[k] <=> k = 2
        /\ "recommend" = Stage[k] <=> k = 3
    BY <2>1 DEF Stage
  <2> QED
    BY <2>1, <2>2, <2>3 DEF StageName
<1>4. CASE Search(a)
  <2>1. /\ c' = c /\ s' = s /\ r' = r /\ n' = n /\ k' = 1
        /\ stage[a] = "queued" /\ stage'[a] = "send"
    BY <1>1, <1>4 DEF Search, Advance
  <2> QED
    BY <1>1, <1>2, <2>1 DEF Counted
<1>5. CASE Send(a)
  <2>1. k \in 1 .. 3 /\ k' = k + 1 /\ n' = n /\ stage[a] = "send" /\ stage'[a] = "send"
    BY <1>1, <1>3, <1>5 DEF Send
  <2>2. /\ c' = IF k = 1 THEN c + 1 ELSE c
        /\ s' = IF k = 2 THEN s + 1 ELSE s
        /\ r' = IF k = 3 THEN r + 1 ELSE r
    BY <1>3, <1>5 DEF Send
  <2> HIDE DEF c, s, r, k, n
  <2>3. /\ r' <= s' /\ s' <= c' /\ c' <= n' + 1
        /\ k' = 1 => c' <= n'
        /\ k' = 2 => s' < c'
        /\ k' = 3 => r' < s'
        /\ k' = 4 => 0 < r'
    BY <1>1, <1>2, <2>1, <2>2
  <2> QED
    BY <2>1, <2>3 DEF Counted, c, s, r, k, n
<1>6. CASE Analysed(a)
  <2>1. /\ c' = c /\ s' = s /\ r' = r /\ n' = n /\ k = 4
        /\ stage[a] = "send" /\ stage'[a] = "done"
    BY <1>1, <1>6 DEF Analysed, Advance, Stage
  <2> QED
    BY <1>1, <1>2, <2>1 DEF Counted
<1>7. CASE AnalysisRetry(a)
  <2>1. /\ c' = c /\ s' = s /\ r' = r
        /\ \/ stage'[a] = "queued" /\ n' = n + 1
           \/ stage'[a] = "failed" /\ n' = n
    BY <1>1, <1>7 DEF AnalysisRetry, Advance
  <2> QED
    BY <1>1, <1>2, <2>1 DEF Counted
<1>8. CASE AnalysisFails(a)
  <2>1. n' = n /\ stage'[a] = "retry"
    BY <1>1, <1>8 DEF AnalysisFails, Advance
  <2>2. \/ c' = c /\ s' = s /\ r' = r
        \/ /\ stage[a] = "send" /\ k \in 1 .. 3
           /\ c' = IF k = 1 THEN c + 1 ELSE c
           /\ s' = IF k = 2 THEN s + 1 ELSE s
           /\ r' = IF k = 3 THEN r + 1 ELSE r
    BY <1>3, <1>8 DEF AnalysisFails, MayHappen
  <2> HIDE DEF c, s, r, k, n
  <2>3. r' <= s' /\ s' <= c' /\ c' <= n' + 1
    BY <1>1, <1>2, <2>1, <2>2
  <2> QED
    BY <2>1, <2>3 DEF Counted, c, s, r, k, n
<1>9. CASE AnalysisCrash(a)
  <2>1. c' = c /\ s' = s /\ r' = r /\ n' = n /\ stage'[a] = "failed"
    BY <1>1, <1>9 DEF AnalysisCrash, Advance
  <2> QED
    BY <1>1, <1>2, <2>1 DEF Counted
<1>10. ASSUME again'[a] = again[a], sending'[a] = sending[a],
              \A l \in StageName : calls'[<<a, l>>] = calls[<<a, l>>],
              stage'[a] = stage[a] \/ (stage[a] = "none" /\ stage'[a] = "queued")
       PROVE  Counted(a)'
  <2>1. c' = c /\ s' = s /\ r' = r /\ n' = n /\ k' = k
    BY <1>10 DEF StageName
  <2> QED
    BY <1>1, <1>2, <1>10, <2>1 DEF Counted
<1> QED
  BY AnalysisMoves, <1>4, <1>5, <1>6, <1>7, <1>8, <1>9, <1>10 DEF FanOut

-----------------------------------------------------------------------------
(* The inductive invariant and its consequences                            *)

IInv == TypeOK /\ NoLockLeaks /\ PersistIsAtomic /\ Ingestion /\ FanOut

LEMMA Invariance == Spec => []IInv
<1>1. Init => IInv
  BY TypeInit, LocksInit, IngestionInit, FanOutInit DEF IInv
<1>2. IInv /\ [Next]_vars => IInv'
  <2> SUFFICES ASSUME IInv, [Next]_vars PROVE IInv'
    OBVIOUS
  <2>1. TypeOK' /\ NoLockLeaks' /\ PersistIsAtomic' /\ Ingestion'
    BY TypeStep, LocksStep, AtomicStep, IngestionStep DEF IInv
  <2>2. FanOut'
    <3>1. Unstarted'
      BY UnstartedStep DEF IInv, FanOut
    <3>2. ASSUME NEW a \in Analysis PROVE Counted(a)'
      BY CountedStep DEF IInv
    <3>3. Analysis' = Analysis
      BY DEF Analysis, Attempt
    <3> QED
      BY <3>1, <3>2, <3>3 DEF FanOut
  <2> QED
    BY <2>1, <2>2 DEF IInv
<1> QED
  BY <1>1, <1>2, PTL DEF Spec

\* Whatever raises, crashes or is aborted, a report row is never without the
\* domain and the sources of an object that carries the report.
THEOREM PersistenceIsAtomic == Spec => []PersistIsAtomic
<1>1. IInv => PersistIsAtomic
  BY DEF IInv
<1> QED
  BY <1>1, Invariance, PTL

\* No row lock survives its transaction.
THEOREM LocksAreReleased == Spec => []NoLockLeaks
<1>1. IInv => NoLockLeaks
  BY DEF IInv
<1> QED
  BY <1>1, Invariance, PTL

\* An analysis exists only for a report that is persisted and fully indexed.
THEOREM AnalysisFollowsIngestion == Spec => []AnalysedIsIngested
<1>1. IInv => AnalysedIsIngested
  BY DEF IInv, Ingestion
<1> QED
  BY <1>1, Invariance, PTL

\* Correlation, scoring and recommendation are called in order, at most once per
\* run of the analysis, and all of them when it succeeds.
THEOREM FanOutInOrder == Spec => []FanOutIsOrdered
<1>1. IInv => FanOutIsOrdered
  <2> SUFFICES ASSUME IInv, NEW a \in Analysis
               PROVE  /\ calls[<<a, "recommend">>] <= calls[<<a, "score">>]
                      /\ calls[<<a, "score">>] <= calls[<<a, "correlate">>]
                      /\ calls[<<a, "correlate">>] <= again[a] + 1
                      /\ stage[a] = "done" => calls[<<a, "recommend">>] > 0
    BY DEF FanOutIsOrdered
  <2>1. Counted(a) /\ calls[<<a, "recommend">>] \in Nat
    BY DEF IInv, FanOut, TypeOK, StageName
  <2> QED
    BY <2>1 DEF Counted
<1> QED
  BY <1>1, Invariance, PTL

-----------------------------------------------------------------------------
(* The refinement of IngestedReport                                        *)

\* What is persisted, indexed and analysed holds a report.
OnlyReports ==
  /\ \A o \in Object : pc[o] \in {"persist", "exists", "create", "index"} => o \notin Broken
  /\ \A a \in Analysis : stage[a] # "none" => a[1] \notin Broken

LEMMA OnlyReportsInit == Init => OnlyReports
BY DEF Init, OnlyReports

LEMMA OnlyReportsStep == TypeOK /\ OnlyReports /\ [Next]_vars => OnlyReports'
<1> SUFFICES ASSUME TypeOK, OnlyReports, [Next]_vars PROVE OnlyReports'
  OBVIOUS
<1>1. pc \in [Object -> ParseLabel]
  BY DEF TypeOK
<1>2. ASSUME NEW o \in Object, pc'[o] \in {"persist", "exists", "create", "index"}
      PROVE  o \notin Broken
  <2>1. CASE Read(o)
    BY <1>1, <1>2, <2>1 DEF Read, Goto, Parsed
  <2>2. CASE ~Read(o)
    <3>1. pc[o] \in {"persist", "exists", "create", "index"}
      BY <1>1, <1>2, <2>2, ParseMoves
         DEF Upsert, Commit, FindIndex, CreateIndex, Index, QueueAnalysis,
             DeadlockDetected, ParseRetry, ParseFails, ParseCrash, Goto
    <3> QED
      BY <3>1 DEF OnlyReports
  <2> QED
    BY <2>1, <2>2
<1>3. ASSUME NEW a \in Analysis, stage'[a] # "none" PROVE a[1] \notin Broken
  <2>1. CASE stage[a] # "none"
    BY <2>1 DEF OnlyReports
  <2>2. CASE stage[a] = "none"
    <3>1. PICK o \in Object : a = <<o, retries[o]>> /\ pc[o] = "index"
      BY <1>3, <2>2, AnalysisStarts
    <3> QED
      BY <3>1 DEF OnlyReports
  <2> QED
    BY <2>1, <2>2
<1>4. Analysis' = Analysis
  BY DEF Analysis, Attempt
<1> QED
  BY <1>2, <1>3, <1>4 DEF OnlyReports

\* How the documents change: an index call of o is applied, or nothing is.
LEMMA DocsChange ==
  ASSUME TypeOK, [Next]_vars
  PROVE  \/ docs' = docs
         \/ \E o \in Object :
              /\ pc[o] = "index" /\ RecordLeft(o)
              /\ docs' = [docs EXCEPT ![DocId(o, pos[o])] = o]
              /\ rows' = rows /\ calls' = calls
<1> USE DEF elastic, postgres, analysis
<1>1. ASSUME NEW o \in Object, Index(o) \/ ParseFails(o)
      PROVE  \/ docs' = docs
             \/ /\ pc[o] = "index" /\ RecordLeft(o)
                /\ docs' = [docs EXCEPT ![DocId(o, pos[o])] = o]
                /\ rows' = rows /\ calls' = calls
  BY <1>1 DEF Index, ParseFails, MayHappen
<1>2. ASSUME NEW o \in Object,
             \/ Read(o) \/ Upsert(o) \/ Commit(o) \/ FindIndex(o) \/ CreateIndex(o)
             \/ QueueAnalysis(o) \/ DeadlockDetected(o) \/ ParseRetry(o) \/ ParseCrash(o)
      PROVE  docs' = docs
  BY <1>2 DEF Read, Upsert, Commit, FindIndex, CreateIndex, QueueAnalysis,
              DeadlockDetected, ParseRetry, ParseCrash
<1>3. ASSUME \/ UNCHANGED vars \/ Refresh
             \/ \E a \in Analysis :
                  \/ Search(a) \/ Send(a) \/ Analysed(a) \/ AnalysisRetry(a)
                  \/ AnalysisFails(a) \/ AnalysisCrash(a)
      PROVE  docs' = docs
  BY <1>3 DEF vars, Refresh, Search, Send, Analysed, AnalysisRetry, AnalysisFails,
              AnalysisCrash
<1> QED
  BY Steps, <1>1, <1>2, <1>3

\* How the rows change: a transaction of a parsed object is committed.
LEMMA RowsChange ==
  ASSUME TypeOK, [Next]_vars
  PROVE  \/ rows' = rows
         \/ \E o \in Object :
              /\ pc[o] = "persist" /\ rows' = rows \cup RowsOf(o)
              /\ docs' = docs /\ calls' = calls
<1> USE DEF elastic, postgres, analysis
<1>1. ASSUME NEW o \in Object, Commit(o) \/ ParseFails(o)
      PROVE  \/ rows' = rows
             \/ /\ pc[o] = "persist" /\ rows' = rows \cup RowsOf(o)
                /\ docs' = docs /\ calls' = calls
  BY <1>1 DEF Commit, ParseFails, MayHappen
<1>2. ASSUME NEW o \in Object,
             \/ Read(o) \/ Upsert(o) \/ FindIndex(o) \/ CreateIndex(o) \/ Index(o)
             \/ QueueAnalysis(o) \/ DeadlockDetected(o) \/ ParseRetry(o) \/ ParseCrash(o)
      PROVE  rows' = rows
  BY <1>2 DEF Read, Upsert, FindIndex, CreateIndex, Index, QueueAnalysis,
              DeadlockDetected, ParseRetry, ParseCrash
<1>3. ASSUME \/ UNCHANGED vars \/ Refresh
             \/ \E a \in Analysis :
                  \/ Search(a) \/ Send(a) \/ Analysed(a) \/ AnalysisRetry(a)
                  \/ AnalysisFails(a) \/ AnalysisCrash(a)
      PROVE  rows' = rows
  BY <1>3 DEF vars, Refresh, Search, Send, Analysed, AnalysisRetry, AnalysisFails,
              AnalysisCrash
<1> QED
  BY Steps, <1>1, <1>2, <1>3

\* How the calls change: an analysis that is sending makes its next call.
LEMMA CallsChange ==
  ASSUME TypeOK, [Next]_vars
  PROVE  \/ calls' = calls
         \/ \E a \in Analysis :
              /\ stage[a] = "send" /\ sending[a] <= Len(Stage) /\ calls' = Called(a)
              /\ rows' = rows /\ docs' = docs
<1> USE DEF elastic, postgres, analysis
<1>1. ASSUME NEW a \in Analysis, Send(a) \/ AnalysisFails(a)
      PROVE  \/ calls' = calls
             \/ /\ stage[a] = "send" /\ sending[a] <= Len(Stage) /\ calls' = Called(a)
                /\ rows' = rows /\ docs' = docs
  BY <1>1 DEF Send, AnalysisFails, MayHappen
<1>2. ASSUME NEW a \in Analysis,
             Search(a) \/ Analysed(a) \/ AnalysisRetry(a) \/ AnalysisCrash(a)
      PROVE  calls' = calls
  BY <1>2 DEF Search, Analysed, AnalysisRetry, AnalysisCrash
<1>3. ASSUME \/ UNCHANGED vars \/ Refresh
             \/ \E o \in Object :
                  \/ Read(o) \/ Upsert(o) \/ Commit(o) \/ FindIndex(o) \/ CreateIndex(o)
                  \/ Index(o) \/ QueueAnalysis(o) \/ DeadlockDetected(o) \/ ParseRetry(o)
                  \/ ParseFails(o) \/ ParseCrash(o)
      PROVE  calls' = calls
  BY <1>3 DEF vars, Refresh, Read, Upsert, Commit, FindIndex, CreateIndex, Index,
              QueueAnalysis, DeadlockDetected, ParseRetry, ParseFails, ParseCrash
<1> QED
  BY Steps, <1>1, <1>2, <1>3

\* What has been told, after one more call of an analysis.
LEMMA ToldFacts ==
  ASSUME TypeOK, NEW a \in Analysis, sending[a] <= Len(Stage), calls' = Called(a)
  PROVE  Told' = [Told EXCEPT ![a[1]] = @ \cup {Stage[sending[a]]}]
<1> DEFINE l == Stage[sending[a]]
<1>1. /\ l \in StageName
      /\ \A b \in Analysis, n \in StageName :
           calls'[<<b, n>>] =
             IF b = a /\ n = l THEN calls[<<b, n>>] + 1 ELSE calls[<<b, n>>]
      /\ calls \in [Analysis \X StageName -> Nat]
  BY CalledFacts DEF TypeOK
<1> HIDE DEF l
<1>2. PICK p \in Object, m \in Attempt : a = <<p, m>>
  BY DEF Analysis
<1>3. \A o \in Object, n \in Attempt : <<o, n>> \in Analysis
  BY DEF Analysis
<1>4. ASSUME NEW o \in Object
      PROVE  { s \in StageName : \E n \in Attempt : calls'[<<<<o, n>>, s>>] > 0 }
               = Told[o] \cup (IF o = p THEN {l} ELSE {})
  <2>1. Told[o] = { s \in StageName : \E n \in Attempt : calls[<<<<o, n>>, s>>] > 0 }
    BY DEF Told
  <2>2. ASSUME NEW s \in StageName
        PROVE  (\E n \in Attempt : calls'[<<<<o, n>>, s>>] > 0)
                 <=> (\E n \in Attempt : calls[<<<<o, n>>, s>>] > 0) \/ (o = p /\ s = l)
    <3>1. ASSUME NEW n \in Attempt
          PROVE  /\ calls[<<<<o, n>>, s>>] \in Nat
                 /\ calls'[<<<<o, n>>, s>>] =
                      IF o = p /\ n = m /\ s = l
                        THEN calls[<<<<o, n>>, s>>] + 1 ELSE calls[<<<<o, n>>, s>>]
      <4>1. <<o, n>> = a <=> o = p /\ n = m
        BY <1>2
      <4>2. <<o, n>> \in Analysis
        BY <1>3
      <4> QED
        BY <1>1, <4>1, <4>2
    <3>2. ASSUME NEW n \in Attempt
          PROVE  calls'[<<<<o, n>>, s>>] > 0
                   <=> calls[<<<<o, n>>, s>>] > 0 \/ (o = p /\ n = m /\ s = l)
      BY <3>1
    <3> QED
      BY <3>2, <1>2
  <2> QED
    BY <1>1, <2>1, <2>2
<1>5. a[1] = p
  BY <1>2
<1>6. Told \in [Object -> SUBSET StageName]
  BY DEF Told
<1>7. Told' = [o \in Object |-> Told[o] \cup (IF o = p THEN {l} ELSE {})]
  BY <1>4 DEF Told, Attempt
<1>8. [Told EXCEPT ![p] = Told[p] \cup {l}]
        = [o \in Object |-> Told[o] \cup (IF o = p THEN {l} ELSE {})]
  BY <1>6
<1> QED
  BY <1>5, <1>7, <1>8 DEF l

LEMMA PromiseInit == Init => Promise!Init
<1> SUFFICES ASSUME Init PROVE Promise!Init
  OBVIOUS
<1>1. Written = {}
  BY DEF Init, Written
<1>2. Told = [o \in Object |-> {}]
  <2>1. ASSUME NEW o \in Object, NEW s \in StageName, NEW n \in Attempt
        PROVE  ~(calls[<<<<o, n>>, s>>] > 0)
    <3>1. <<<<o, n>>, s>> \in Analysis \X StageName
      BY DEF Analysis
    <3>2. calls[<<<<o, n>>, s>>] = 0
      BY <3>1 DEF Init
    <3> QED
      BY <3>2
  <2> QED
    BY <2>1 DEF Told
<1> QED
  BY <1>1, <1>2 DEF Init, Promise!Init

LEMMA PromiseStep ==
  ASSUME IInv, OnlyReports, [Next]_vars
  PROVE  [Promise!Next]_Promise!vars
<1> USE DEF Promise!vars
<1>0. TypeOK /\ Ingestion /\ FanOut
  BY DEF IInv
<1> DEFINE Valid == Object \ Broken
<1>1. CASE rows' = rows /\ docs' = docs /\ calls' = calls
  BY <1>1 DEF Written, Told, Attempt
<1>2. ASSUME NEW o \in Object, pc[o] = "persist", rows' = rows \cup RowsOf(o),
             docs' = docs, calls' = calls
      PROVE  Promise!Next
  <2>1. o \in Valid
    BY <1>2 DEF OnlyReports
  <2>2. Written' = Written /\ Told' = Told
    BY <1>2 DEF Written, Told, Attempt
  <2>3. Promise!Persist(o)
    BY <1>2, <2>2 DEF Promise!Persist
  <2> QED
    BY <2>1, <2>3 DEF Promise!Next
<1>3. ASSUME NEW o \in Object, pc[o] = "index", RecordLeft(o),
             docs' = [docs EXCEPT ![DocId(o, pos[o])] = o],
             rows' = rows, calls' = calls
      PROVE  Promise!Next
  <2> DEFINE d == DocId(o, pos[o])
  <2>1. o \in Valid
    BY <1>3 DEF OnlyReports
  <2>2. d \in DocsOf(o) /\ d \in Doc
    BY <1>0, <1>3, DocFacts DEF RecordLeft, TypeOK, DocsOf
  <2>3. docs \in [Doc -> Object \cup {NoObject}]
    BY <1>0 DEF TypeOK
  <2>4. Written' = Written \cup {d}
    <3> HIDE DEF d
    <3>1. \A e \in Doc : docs'[e] = IF e = d THEN o ELSE docs[e]
      BY <1>3, <2>2, <2>3 DEF d
    <3> QED
      BY <2>2, <3>1, NullAssumption DEF Written
  <2>5. Told' = Told
    BY <1>3 DEF Told, Attempt
  <2>6. RowsOf(o) \subseteq rows
    BY <1>0, <1>3 DEF Ingestion, Persisted
  <2>7. Promise!Write(o)
    BY <1>3, <2>2, <2>4, <2>5, <2>6 DEF Promise!Write
  <2> QED
    BY <2>1, <2>7 DEF Promise!Next
<1>4. ASSUME NEW a \in Analysis, stage[a] = "send", sending[a] <= Len(Stage),
             calls' = Called(a), rows' = rows, docs' = docs
      PROVE  Promise!Next
  <2> DEFINE o == a[1]
             k == sending[a]
  <2>1. o \in Valid
    BY <1>4 DEF OnlyReports, Analysis
  <2>2. RowsOf(o) \subseteq rows /\ DocsOf(o) \subseteq Written
    <3>1. RowsOf(o) \subseteq rows /\ \A d \in DocsOf(o) : docs[d] # NoObject
      BY <1>0, <1>4 DEF Ingestion, AnalysedIsIngested
    <3> QED
      BY <2>1, <3>1, DocFacts DEF Written
  <2>3. k \in 1 .. 3 /\ Len(Stage) = 3
    BY <1>0, <1>4, CalledFacts DEF Stage
  <2>4. Told' = [Told EXCEPT ![o] = @ \cup {Stage[k]}]
    BY <1>0, <1>4, ToldFacts
  <2>5. ASSUME NEW j \in 1 .. k - 1 PROVE Stage[j] \in Told[o]
    <3>1. Counted(a) /\ TypeOK
      BY <1>0 DEF FanOut
    <3>2. PICK n \in Attempt : a = <<o, n>>
      BY DEF Analysis
    <3>3. /\ calls[<<a, "correlate">>] \in Nat /\ calls[<<a, "score">>] \in Nat
          /\ calls[<<a, "recommend">>] \in Nat
      BY <3>1 DEF TypeOK, StageName
    <3>4. /\ k = 2 => calls[<<a, "correlate">>] > 0
          /\ k = 3 => calls[<<a, "correlate">>] > 0 /\ calls[<<a, "score">>] > 0
      BY <1>4, <3>1, <3>3 DEF Counted
    <3>5. Stage[j] \in StageName /\ calls[<<a, Stage[j]>>] > 0
      <4>1. (k = 2 /\ j = 1) \/ (k = 3 /\ j = 1) \/ (k = 3 /\ j = 2)
        BY <2>3
      <4> QED
        BY <3>4, <4>1 DEF Stage, StageName
    <3>6. calls[<<<<o, n>>, Stage[j]>>] > 0
      BY <3>2, <3>5
    <3> QED
      BY <2>1, <3>5, <3>6 DEF Told
  <2>6. Written' = Written
    BY <1>4 DEF Written
  <2>7. Promise!Tell(o, k)
    <3>1. o \in Object
      BY <2>1
    <3> QED
      BY <1>4, <2>2, <2>4, <2>5, <2>6, <3>1 DEF Promise!Tell
  <2> QED
    BY <2>1, <2>3, <2>7 DEF Promise!Next
<1> QED
  BY <1>0, <1>1, <1>2, <1>3, <1>4, RowsChange, DocsChange, CallsChange

\* The pipeline implements IngestedReport, with any number of objects, broken
\* ones among them, retries and failures.
THEOREM Refinement == Spec => ImplementsIngestedReport
<1>1. Init => Promise!Init /\ OnlyReports
  BY PromiseInit, OnlyReportsInit
<1>2. IInv /\ OnlyReports /\ [Next]_vars => OnlyReports'
  BY OnlyReportsStep DEF IInv
<1>3. IInv /\ OnlyReports /\ [Next]_vars => [Promise!Next]_Promise!vars
  BY PromiseStep
<1> QED
  BY <1>1, <1>2, <1>3, Invariance, PTL DEF Spec, ImplementsIngestedReport, Promise!Spec
-----------------------------------------------------------------------------
(* Waiting transactions                                                    *)

\* A finite set that a function maps into itself has a part that it maps onto
\* itself: the smallest that it maps into itself.
LEMMA CycleExists ==
  ASSUME NEW W, IsFiniteSet(W), W # {}, NEW f, \A w \in W : f[w] \in W
  PROVE  \E S \in SUBSET W :
           S # {} /\ \A w \in S : f[w] \in S /\ \E v \in S : f[v] = w
<1> DEFINE Closed == { T \in SUBSET W : T # {} /\ \A w \in T : f[w] \in T }
<1>1. W \in Closed
  OBVIOUS
<1>2. Closed \subseteq FiniteSubsetsOf(W)
  BY FS_FiniteSubsetsOfFinite
<1>3. PICK S \in Closed : \A T \in Closed : <<T, S>> \notin StrictSubsetOrdering(W)
  <2>1. IsWellFoundedOn(StrictSubsetOrdering(W), FiniteSubsetsOf(W))
    BY FS_StrictSubsetOrderingWellFounded
  <2> HIDE DEF Closed
  <2> QED
    BY <1>1, <1>2, <2>1, WFMin
<1> DEFINE Image == { f[w] : w \in S }
<1>4. Image \in Closed
  BY <1>3
<1>5. Image \subseteq S
  BY <1>3
<1>6. Image = S
  BY <1>3, <1>4, <1>5 DEF StrictSubsetOrdering
<1> QED
  BY <1>3, <1>6

\* Whoever waits waits for a transaction that is open, hence for one that goes on
\* or waits as well; if all of them wait, some wait in a cycle.
LEMMA SomebodyGoesOn ==
  ASSUME TypeOK, NoLockLeaks, IsFiniteSet(Object)
  PROVE  NobodyIsStuck
<1> SUFFICES ASSUME NEW o \in Object, pc[o] \notin {"done", "failed"},
                    \A p \in Object : ~CanGoOn(p)
             PROVE  FALSE
  BY DEF NobodyIsStuck
<1> DEFINE Left == { p \in Object : pc[p] \notin {"done", "failed"} }
           holder == [p \in Left |-> lock[Target(p)]]
<1>1. ASSUME NEW p \in Left
      PROVE  /\ pc[p] = "persist" /\ UpsertLeft(p) /\ ~Deadlocked(p)
             /\ holder[p] \in Left /\ WaitsFor(p, holder[p])
  <2>1. /\ pc[p] = "persist" /\ UpsertLeft(p)
        /\ lock[Target(p)] \notin {p, NoObject} /\ ~Deadlocked(p)
    BY DEF CanGoOn
  <2>2. Target(p) \in Row
    BY <2>1, RowFacts DEF TypeOK
  <2>3. lock[Target(p)] \in Object /\ pc[lock[Target(p)]] = "persist"
    BY <2>1, <2>2 DEF TypeOK, NoLockLeaks
  <2> QED
    BY <2>1, <2>3 DEF WaitsFor
<1>2. IsFiniteSet(Left) /\ Left # {} /\ Left \subseteq Object
  BY FS_Subset
<1> HIDE DEF Left, holder
<1>3. PICK S \in SUBSET Left :
             S # {} /\ \A p \in S : holder[p] \in S /\ \E q \in S : holder[q] = p
  <2>1. \A p \in Left : holder[p] \in Left
    BY <1>1
  <2> QED
    BY <1>2, <2>1, CycleExists
<1>4. ASSUME NEW p \in S
      PROVE  (\E q \in S : WaitsFor(p, q)) /\ (\E q \in S : WaitsFor(q, p))
  <2>1. holder[p] \in S /\ WaitsFor(p, holder[p])
    BY <1>1, <1>3
  <2>2. PICK q \in S : p = holder[q]
    BY <1>3
  <2>3. WaitsFor(q, p)
    BY <1>1, <2>2
  <2> QED
    BY <2>1, <2>3
<1>5. PICK p \in S : TRUE
  BY <1>3
<1>6. Deadlocked(p)
  BY <1>2, <1>4, <1>5 DEF Deadlocked
<1> QED
  BY <1>1, <1>5, <1>6

\* With finitely many objects, and any rows in common, the transactions of parse
\* tasks never wait for one another for ever.
THEOREM UpsertsGoOn == ASSUME IsFiniteSet(Object) PROVE Spec => []NobodyIsStuck
<1>1. Init => TypeOK /\ NoLockLeaks
  BY TypeInit, LocksInit
<1>2. TypeOK /\ NoLockLeaks /\ [Next]_vars => TypeOK' /\ NoLockLeaks'
  BY TypeStep, LocksStep
<1>3. TypeOK /\ NoLockLeaks => NobodyIsStuck
  BY SomebodyGoesOn
<1> QED
  BY <1>1, <1>2, <1>3, PTL DEF Spec

-----------------------------------------------------------------------------
(* Every step brings a task nearer to its end                              *)

LEMMA ParseRanks ==
  /\ ParseRank["queued"] = 0 /\ ParseRank["persist"] = 1 /\ ParseRank["exists"] = 2
  /\ ParseRank["create"] = 3 /\ ParseRank["index"] = 4 /\ ParseRank["retry"] = 5
  /\ ParseRank["done"] = 6 /\ ParseRank["failed"] = 6
BY DEF ParseRank

LEMMA AnalysisRanks ==
  /\ AnalysisRank["none"] = 0 /\ AnalysisRank["queued"] = 1 /\ AnalysisRank["send"] = 2
  /\ AnalysisRank["retry"] = 3 /\ AnalysisRank["done"] = 4 /\ AnalysisRank["failed"] = 4
BY DEF AnalysisRank

LEMMA ParseForward ==
  ASSUME TypeOK, NEW o \in Object,
         \/ Read(o) \/ Upsert(o) \/ Commit(o) \/ FindIndex(o) \/ CreateIndex(o)
         \/ Index(o) \/ QueueAnalysis(o) \/ DeadlockDetected(o) \/ ParseRetry(o)
         \/ ParseFails(o) \/ ParseCrash(o)
  PROVE  ParseAdvances(o)
<1>1. /\ pc \in [Object -> ParseLabel] /\ pos \in [Object -> Nat \ {0}]
      /\ retries \in [Object -> Attempt]
  BY DEF TypeOK
<1> USE ParseRanks DEF ParseAdvances, Goto
<1>2. CASE Read(o) \/ Commit(o) \/ FindIndex(o) \/ CreateIndex(o) \/ QueueAnalysis(o)
  BY <1>1, <1>2 DEF Read, Commit, FindIndex, CreateIndex, QueueAnalysis
<1>3. CASE Upsert(o)
  BY <1>1, <1>3 DEF Upsert, UpsertLeft
<1>4. CASE Index(o)
  <2>1. pos[o] <= Len(Upserts(o))
    BY <1>1, <1>4, RowFacts, DocFacts DEF Index, RecordLeft
  <2> QED
    BY <1>1, <1>4, <2>1 DEF Index
<1>5. CASE DeadlockDetected(o)
  <2>1. pc[o] = "persist"
    BY <1>5 DEF DeadlockDetected, Deadlocked, WaitsFor
  <2> QED
    BY <1>1, <1>5, <2>1 DEF DeadlockDetected
<1>6. CASE ParseRetry(o)
  BY <1>1, <1>6 DEF ParseRetry
<1>7. CASE ParseFails(o)
  BY <1>1, <1>7 DEF ParseFails
<1>8. CASE ParseCrash(o)
  BY <1>1, <1>8 DEF ParseCrash, ParseLabel
<1> QED
  BY <1>2, <1>3, <1>4, <1>5, <1>6, <1>7, <1>8

LEMMA AnalysisForward ==
  ASSUME TypeOK, NEW a \in Analysis,
         \/ Search(a) \/ Send(a) \/ Analysed(a) \/ AnalysisRetry(a)
         \/ AnalysisFails(a) \/ AnalysisCrash(a)
  PROVE  AnalysisAdvances(a)
<1>1. /\ stage \in [Analysis -> AnalysisLabel] /\ sending \in [Analysis -> 1 .. 4]
      /\ again \in [Analysis -> Attempt]
  BY DEF TypeOK
<1> USE AnalysisRanks DEF AnalysisAdvances, Advance
<1>2. CASE Search(a) \/ Send(a) \/ Analysed(a) \/ AnalysisRetry(a)
  BY <1>1, <1>2 DEF Search, Send, Analysed, AnalysisRetry
<1>3. CASE AnalysisFails(a) \/ AnalysisCrash(a)
  BY <1>1, <1>3 DEF AnalysisFails, AnalysisCrash
<1> QED
  BY <1>2, <1>3

LEMMA AdvanceStep ==
  ASSUME TypeOK, Unstarted, [Next]_vars
  PROVE  \/ UNCHANGED vars
         \/ /\ \A o \in Object : ParseStays(o) \/ ParseAdvances(o)
            /\ \A a \in Analysis : AnalysisStays(a) \/ AnalysisAdvances(a)
            /\ \/ \E o \in Object : ParseAdvances(o)
               \/ \E a \in Analysis : AnalysisAdvances(a)
               \/ Refresh
<1>1. ASSUME NEW o \in Object PROVE ParseStays(o) \/ ParseAdvances(o)
  BY ParseMoves, ParseForward DEF ParseStays
<1>2. ASSUME NEW a \in Analysis PROVE AnalysisStays(a) \/ AnalysisAdvances(a)
  <2>1. CASE /\ again'[a] = again[a] /\ sending'[a] = sending[a]
             /\ stage'[a] = stage[a] \/ (stage[a] = "none" /\ stage'[a] = "queued")
    BY <2>1, AnalysisRanks DEF AnalysisStays, AnalysisAdvances
  <2> QED
    BY <2>1, AnalysisMoves, AnalysisForward
<1>3. \/ UNCHANGED vars
      \/ \E o \in Object : ParseAdvances(o)
      \/ \E a \in Analysis : AnalysisAdvances(a)
      \/ Refresh
  BY Steps, ParseForward, AnalysisForward
<1> QED
  BY <1>1, <1>2, <1>3

\* No step sets a task back, and only a refresh advances none.
THEOREM TasksOnlyAdvance == Spec => TasksAdvance
<1>1. IInv /\ [Next]_vars =>
        [/\ \A o \in Object : ParseStays(o) \/ ParseAdvances(o)
         /\ \A a \in Analysis : AnalysisStays(a) \/ AnalysisAdvances(a)
         /\ \/ \E o \in Object : ParseAdvances(o)
            \/ \E a \in Analysis : AnalysisAdvances(a)
            \/ Refresh]_vars
  BY AdvanceStep DEF IInv, FanOut
<1> QED
  BY <1>1, Invariance, PTL DEF Spec, TasksAdvance
=============================================================================
