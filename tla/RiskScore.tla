------------------------------ MODULE RiskScore ------------------------------
(***************************************************************************)
(* The score of one tenant (services/scoring, workers/tasks/score.py): a   *)
(* base score from a report's conformance metrics, smoothed with the score  *)
(* before it, and a risk level that changes with hysteresis.               *)
(*                                                                         *)
(* get_score_store is a cached object of the Python process, so each       *)
(* process has a store of its own: every Celery worker, which scores, and   *)
(* the API, which serves the trend.                                        *)
(***************************************************************************)
EXTENDS Integers, Sequences

CONSTANTS
  Worker,   \* processes that run compute_score
  Api,      \* the process that serves /analytics/risk-trend
  Metrics,  \* metrics of the reports that may be analysed
  Window,   \* bound: history entries kept in the model
  Patience  \* bound: reports with the same metrics in a row that are counted

\* AlignmentMetrics; the rate is dmarc / total, which the code rounds to four
\* digits, exact when total divides 10000.
MetricsType ==
  { m \in [total : Nat, dkim : Nat, spf : Nat, dmarc : Nat] :
      m.dkim <= m.total /\ m.spf <= m.total /\ m.dmarc <= m.total }

ASSUME MetricsAssumption == Metrics \subseteq MetricsType
ASSUME WindowAssumption == Window \in Nat \ {0}
ASSUME PatienceAssumption == Patience \in Nat \ {0}
ASSUME ApiAssumption == Api \notin Worker

Process == Worker \cup {Api}

VARIABLES
  history,  \* _history of the process's store, its last Window entries
  input,    \* metrics of the last report the process scored (history variable)
  repeats   \* how many reports in a row had them, up to Patience (history variable)

vars == <<history, input, repeats>>

-----------------------------------------------------------------------------
(* The engine                                                              *)

\* RiskState: critical, high_risk, elevated, guarded, healthy.
Level == 1 .. 5

\* _state_from_score: the lowest score of each level.
Floor == <<0, 30, 50, 70, 85>>

\* minimum_for_upgrade and maximum_for_downgrade of _apply_hysteresis.
Upgrade   == <<0, 33, 53, 73, 88>>
Downgrade == <<-1, 27, 47, 67, 82>>

Score == 0 .. 100
Entry == [score : Score, level : Level]

Band(s) == CHOOSE l \in Level : Floor[l] <= s /\ \A k \in Level : Floor[k] <= s => k <= l

\* round(n / d): a tie goes either way, as the binary fraction happens to fall.
Nearest(n, d) == { x \in Score : 2 * n - d <= 2 * x * d /\ 2 * x * d <= 2 * n + d }

\* 100 minus the conformance, DKIM and SPF penalties.  The correlation and
\* incident penalties are zero: analyze_report_conformance, the only sender of
\* compute_score, passes no signals_detected and no incidents_created.
Base(m) ==
  IF m.total = 0
    THEN {10}
    ELSE Nearest(10 * m.total + 60 * m.dmarc + 15 * m.dkim + 15 * m.spf, m.total)

\* Variant for a mutant: the score is rounded up.
SmoothedUpward(b, previous) == (6 * b + 4 * previous + 9) \div 10

\* int(round(0.6 * b + 0.4 * previous)); there are no ties.
Smoothed(b, previous) == (6 * b + 4 * previous + 5) \div 10

\* Variants for mutants: no margins; the target's margin instead of the
\* previous level's on the way down.
NextLevelAtFloor(s, previous) ==
  LET target == Band(s) IN
    IF \/ target > previous /\ s >= Floor[target]
       \/ target < previous /\ s < Floor[previous]
      THEN target ELSE previous

NextLevelLazy(s, previous) ==
  LET target == Band(s) IN
    IF \/ target > previous /\ s >= Upgrade[target]
       \/ target < previous /\ s <= Downgrade[target]
      THEN target ELSE previous

\* _apply_hysteresis.
NextLevel(s, previous) ==
  LET target == Band(s) IN
    IF \/ target > previous /\ s >= Upgrade[target]
       \/ target < previous /\ s <= Downgrade[previous]
      THEN target ELSE previous

\* ScoreEngine.compute for base score b after the entries of h.
Result(b, h) ==
  IF h = <<>>
    THEN [score |-> b, level |-> Band(b)]
    ELSE LET last == h[Len(h)]
             s    == Smoothed(b, last.score)
         IN  [score |-> s, level |-> NextLevel(s, last.level)]

-----------------------------------------------------------------------------
(* The stores                                                              *)

NoMetrics == [total |-> 0, dkim |-> 0, spf |-> 0, dmarc |-> 0]

TypeOK ==
  /\ history \in [Process -> Seq(Entry)]
  /\ \A p \in Process : Len(history[p]) <= Window
  /\ input \in [Process -> MetricsType]
  /\ repeats \in [Process -> 0 .. Patience]

Init ==
  /\ history = [p \in Process |-> <<>>]
  /\ input = [p \in Process |-> NoMetrics]
  /\ repeats = [p \in Process |-> 0]

\* upsert_current_and_append_history; the current entry is the last one.  The
\* code keeps all entries for ever, the model the last Window of them.
Appended(h, e) ==
  IF Len(h) < Window THEN Append(h, e) ELSE Append(Tail(h), e)

\* compute_score of a report with metrics m in worker w.  It awaits nothing, so
\* no other task of the process runs between reading and writing the store.
Compute(w, m) ==
  /\ \E b \in Base(m) :
       history' = [history EXCEPT ![w] = Appended(@, Result(b, @))]
  /\ input' = [input EXCEPT ![w] = m]
  /\ repeats' = [repeats EXCEPT ![w] =
       IF m # input[w] THEN 1 ELSE IF @ < Patience THEN @ + 1 ELSE @]

\* The process is restarted: its store is gone.
Restart(p) ==
  /\ history' = [history EXCEPT ![p] = <<>>]
  /\ input' = [input EXCEPT ![p] = NoMetrics]
  /\ repeats' = [repeats EXCEPT ![p] = 0]

Next ==
  \/ \E w \in Worker, m \in Metrics : Compute(w, m)
  \/ \E p \in Process : Restart(p)

Spec == Init /\ [][Next]_vars

-----------------------------------------------------------------------------
(* Properties                                                              *)

\* A risk level is never much better than the score: it is kept at most two
\* points below its floor, whatever the scores before and however many levels
\* they jumped.
NeverTooRosy ==
  \A p \in Process : \A k \in DOMAIN history[p] :
    history[p][k].score >= Floor[history[p][k].level] - 2

Distance(a, b) == IF a < b THEN b - a ELSE a - b

\* What hysteresis is for: when the level leaves A for B and comes back from B
\* to A, the score has moved by at least six points in between.
NoFlapping ==
  \A p \in Process : LET h == history[p] IN
    \A i, j \in DOMAIN h :
      /\ i + 1 < j
      /\ h[i].level # h[i + 1].level
      /\ h[j].level = h[i].level
      /\ \A k \in i + 1 .. j - 1 : h[k].level = h[i + 1].level
      => Distance(h[i + 1].score, h[j].score) >= 6

\* After Patience reports with the same metrics the score is their base score:
\* smoothing neither drifts nor gets stuck on a rounding.
ScoreSettles ==
  \A p \in Process :
    repeats[p] = Patience => history[p][Len(history[p])].score \in Base(input[p])
=============================================================================
