--------------------------- MODULE RiskScore_proofs ---------------------------
(***************************************************************************)
(* What smoothing and hysteresis guarantee for any reports and any number  *)
(* of processes: a level is never much better than its score, and a level   *)
(* that is left and taken again has seen the score move by the whole gap    *)
(* between the two thresholds.                                              *)
(***************************************************************************)
EXTENDS RiskScore, TLAPS

-----------------------------------------------------------------------------
(* The engine                                                              *)

\* Every score belongs to a level whose floor it has reached (_state_from_score).
LEMMA BandFacts ==
  ASSUME NEW s \in Score
  PROVE  Band(s) \in Level /\ Floor[Band(s)] <= s
<1>1. \E l \in Level : Floor[l] <= s /\ \A k \in Level : Floor[k] <= s => k <= l
  <2>1. CASE s >= 85
    BY <2>1 DEF Level, Floor, Score
  <2>2. CASE s >= 70 /\ s < 85
    <3>1. Floor[4] <= s /\ \A k \in Level : Floor[k] <= s => k <= 4
      BY <2>2 DEF Level, Floor, Score
    <3> QED BY <3>1 DEF Level
  <2>3. CASE s >= 50 /\ s < 70
    <3>1. Floor[3] <= s /\ \A k \in Level : Floor[k] <= s => k <= 3
      BY <2>3 DEF Level, Floor, Score
    <3> QED BY <3>1 DEF Level
  <2>4. CASE s >= 30 /\ s < 50
    <3>1. Floor[2] <= s /\ \A k \in Level : Floor[k] <= s => k <= 2
      BY <2>4 DEF Level, Floor, Score
    <3> QED BY <3>1 DEF Level
  <2>5. CASE s < 30
    <3>1. Floor[1] <= s /\ \A k \in Level : Floor[k] <= s => k <= 1
      BY <2>5 DEF Level, Floor, Score
    <3> QED BY <3>1 DEF Level
  <2> QED BY <2>1, <2>2, <2>3, <2>4, <2>5 DEF Score
<1> QED BY <1>1 DEF Band

\* Smoothing stays on the scale.
LEMMA SmoothedType ==
  ASSUME NEW b \in Score, NEW previous \in Score
  PROVE  Smoothed(b, previous) \in Score
BY DEF Smoothed, Score

\* A level after hysteresis has a floor at most two points above the score.
LEMMA LevelFollowsScore ==
  ASSUME NEW s \in Score, NEW previous \in Level
  PROVE  /\ NextLevel(s, previous) \in Level
         /\ s >= Floor[NextLevel(s, previous)] - 2
<1> DEFINE target == Band(s)
<1>1. target \in Level /\ Floor[target] <= s
  BY BandFacts
<1> HIDE DEF target
<1>2. NextLevel(s, previous) =
        IF \/ target > previous /\ s >= Upgrade[target]
           \/ target < previous /\ s <= Downgrade[previous]
          THEN target ELSE previous
  BY DEF NextLevel, target
<1>3. CASE NextLevel(s, previous) = target
  BY <1>1, <1>3 DEF Level, Floor, Score
<1>4. CASE NextLevel(s, previous) # target
  <2>1. /\ NextLevel(s, previous) = previous
        /\ target > previous \/ s > Downgrade[previous]
    BY <1>1, <1>2, <1>4 DEF Level, Downgrade, Score
  <2> QED BY <1>1, <2>1 DEF Level, Floor, Downgrade, Score
<1> QED BY <1>3, <1>4

\* A level is only taken from below at its upgrade threshold and only left
\* downwards at its downgrade threshold (_apply_hysteresis).
LEMMA LevelChanges ==
  ASSUME NEW s \in Score, NEW previous \in Level,
         NextLevel(s, previous) # previous
  PROVE  \/ /\ NextLevel(s, previous) > previous
            /\ s >= Upgrade[NextLevel(s, previous)]
         \/ /\ NextLevel(s, previous) < previous
            /\ s <= Downgrade[previous]
BY DEF NextLevel

\* Six points lie between taking a level and leaving it downwards.
LEMMA HysteresisGap ==
  ASSUME NEW l \in Level, l > 1
  PROVE  Upgrade[l] - Downgrade[l] = 6
BY DEF Level, Upgrade, Downgrade

\* The limits of a level are integers.
LEMMA LevelLimits ==
  ASSUME NEW l \in Level
  PROVE  Upgrade[l] \in Int /\ Downgrade[l] \in Int
<1>1. l \in {1, 2, 3, 4, 5}
  BY DEF Level
<1>2. /\ Upgrade[1] = 0 /\ Upgrade[2] = 33 /\ Upgrade[3] = 53 /\ Upgrade[4] = 73
      /\ Upgrade[5] = 88
      /\ Downgrade[1] = -1 /\ Downgrade[2] = 27 /\ Downgrade[3] = 47
      /\ Downgrade[4] = 67 /\ Downgrade[5] = 82
  BY DEF Upgrade, Downgrade
<1> QED
  BY <1>1, <1>2

\* The result of ScoreEngine.compute for base score b after the entries of h.
LEMMA ResultFacts ==
  ASSUME NEW b \in Score, NEW h \in Seq(Entry)
  PROVE  /\ Result(b, h) \in Entry
         /\ Result(b, h).score >= Floor[Result(b, h).level] - 2
         /\ h # <<>> => Result(b, h).level = NextLevel(Result(b, h).score, h[Len(h)].level)
<1>1. CASE h = <<>>
  <2> DEFINE l == Band(b)
  <2>1. Result(b, h) = [score |-> b, level |-> l]
    BY <1>1 DEF Result
  <2>2. l \in Level /\ Floor[l] <= b
    BY BandFacts
  <2> HIDE DEF l
  <2>3. b >= Floor[l] - 2
    BY <2>2 DEF Level, Floor, Score
  <2>4. Result(b, h).score = b /\ Result(b, h).level = l /\ Result(b, h) \in Entry
    BY <2>1, <2>2 DEF Entry
  <2> QED BY <1>1, <2>3, <2>4
<1>2. CASE h # <<>>
  <2> DEFINE last == h[Len(h)]
             s == Smoothed(b, last.score)
             l == NextLevel(s, last.level)
  <2>1. last \in Entry
    BY <1>2
  <2>2. last.score \in Score /\ last.level \in Level
    BY <2>1 DEF Entry
  <2>3. s \in Score
    BY <2>2, SmoothedType
  <2>4. Result(b, h) = [score |-> s, level |-> l]
    BY <1>2 DEF Result
  <2> HIDE DEF last, s
  <2>5. l \in Level /\ s >= Floor[l] - 2
    BY <2>2, <2>3, LevelFollowsScore
  <2>6. l = NextLevel(s, last.level)
    OBVIOUS
  <2> HIDE DEF l
  <2>7. Result(b, h).score = s /\ Result(b, h).level = l /\ Result(b, h) \in Entry
    BY <2>3, <2>4, <2>5 DEF Entry
  <2>8. Result(b, h).level = NextLevel(Result(b, h).score, last.level)
    BY <2>6, <2>7
  <2> QED BY <2>5, <2>7, <2>8 DEF last
<1> QED BY <1>1, <1>2

-----------------------------------------------------------------------------
(* The inductive invariant                                                 *)

\* No level is more than two points above its score.
Supported(h) == \A k \in DOMAIN h : h[k].score >= Floor[h[k].level] - 2

\* Each level is what hysteresis makes of its score and the level before it.
Chained(h) ==
  \A k \in DOMAIN h : k > 1 => h[k].level = NextLevel(h[k].score, h[k - 1].level)

IInv == TypeOK /\ \A p \in Process : Supported(history[p]) /\ Chained(history[p])

\* Appending an entry and forgetting the oldest one keep a history in order.
LEMMA AppendedFacts ==
  ASSUME NEW h \in Seq(Entry), NEW e \in Entry, Len(h) <= Window,
         Supported(h), Chained(h),
         e.score >= Floor[e.level] - 2,
         h # <<>> => e.level = NextLevel(e.score, h[Len(h)].level)
  PROVE  /\ Appended(h, e) \in Seq(Entry)
         /\ Len(Appended(h, e)) <= Window
         /\ Supported(Appended(h, e))
         /\ Chained(Appended(h, e))
<1> USE WindowAssumption
<1>1. CASE Len(h) < Window
  <2> DEFINE g == Append(h, e)
  <2>1. Appended(h, e) = g
    BY <1>1 DEF Appended
  <2>2. g \in Seq(Entry) /\ Len(g) = Len(h) + 1
    OBVIOUS
  <2>3. \A k \in 1 .. Len(h) : g[k] = h[k]
    OBVIOUS
  <2>4. g[Len(h) + 1] = e
    OBVIOUS
  <2> HIDE DEF g
  <2>5. Supported(g)
    BY <2>2, <2>3, <2>4 DEF Supported
  <2>6. ASSUME NEW k \in DOMAIN g, k > 1
        PROVE  g[k].level = NextLevel(g[k].score, g[k - 1].level)
    <3>1. CASE k = Len(h) + 1
      <4>1. h # <<>> /\ k - 1 = Len(h) /\ k - 1 \in 1 .. Len(h)
        BY <2>2, <2>6, <3>1
      <4>2. g[k] = e /\ g[k - 1] = h[Len(h)]
        BY <2>3, <2>4, <3>1, <4>1
      <4> QED BY <4>1, <4>2
    <3>2. CASE k # Len(h) + 1
      <4>1. k \in 1 .. Len(h) /\ k - 1 \in 1 .. Len(h) /\ k \in DOMAIN h
        BY <2>2, <2>6, <3>2
      <4>2. g[k] = h[k] /\ g[k - 1] = h[k - 1]
        BY <2>3, <4>1
      <4> QED BY <2>6, <4>1, <4>2 DEF Chained
    <3> QED BY <3>1, <3>2
  <2> QED BY <1>1, <2>1, <2>2, <2>5, <2>6 DEF Chained
<1>2. CASE ~(Len(h) < Window)
  <2> DEFINE g == Append(Tail(h), e)
  <2>1. Appended(h, e) = g
    BY <1>2 DEF Appended
  <2>2. Len(h) = Window /\ h # <<>> /\ Len(h) >= 1
    BY <1>2
  <2>3. Tail(h) \in Seq(Entry) /\ Len(Tail(h)) = Len(h) - 1
    BY <2>2
  <2>4. g \in Seq(Entry) /\ Len(g) = Len(h)
    BY <2>2, <2>3
  <2>5. \A k \in 1 .. Len(h) - 1 : g[k] = h[k + 1]
    BY <2>2, <2>3
  <2>6. g[Len(h)] = e
    BY <2>2, <2>3
  <2> HIDE DEF g
  <2>7. ASSUME NEW k \in DOMAIN g
        PROVE  g[k].score >= Floor[g[k].level] - 2
    <3>1. CASE k = Len(h)
      BY <2>6, <3>1
    <3>2. CASE k # Len(h)
      <4>1. k \in 1 .. Len(h) - 1 /\ k + 1 \in DOMAIN h
        BY <2>2, <2>4, <3>2
      <4> QED BY <2>5, <4>1 DEF Supported
    <3> QED BY <3>1, <3>2
  <2>8. ASSUME NEW k \in DOMAIN g, k > 1
        PROVE  g[k].level = NextLevel(g[k].score, g[k - 1].level)
    <3>1. k - 1 \in 1 .. Len(h) - 1 /\ (k - 1) + 1 = k
      BY <2>4, <2>8
    <3>2. g[k - 1] = h[k]
      BY <2>5, <3>1
    <3>3. CASE k = Len(h)
      BY <2>2, <2>6, <3>2, <3>3
    <3>4. CASE k # Len(h)
      <4>1. k \in 1 .. Len(h) - 1 /\ k + 1 \in DOMAIN h /\ k + 1 > 1 /\ (k + 1) - 1 = k
        BY <2>2, <2>4, <2>8, <3>4
      <4>2. g[k] = h[k + 1]
        BY <2>5, <4>1
      <4>3. h[k + 1].level = NextLevel(h[k + 1].score, h[k].level)
        BY <4>1 DEF Chained
      <4> QED BY <3>2, <4>2, <4>3
    <3> QED BY <3>3, <3>4
  <2> QED BY <2>1, <2>2, <2>4, <2>7, <2>8 DEF Supported, Chained
<1> QED BY <1>1, <1>2

\* The invariant holds when all stores are empty.
LEMMA InitEstablishes == Init => IInv
<1> SUFFICES ASSUME Init PROVE IInv
  OBVIOUS
<1>1. NoMetrics \in MetricsType
  BY DEF NoMetrics, MetricsType
<1>2. TypeOK
  BY <1>1, WindowAssumption, PatienceAssumption DEF Init, TypeOK
<1>3. \A p \in Process : Supported(history[p]) /\ Chained(history[p])
  BY DEF Init, Supported, Chained
<1> QED BY <1>2, <1>3 DEF IInv

\* compute_score keeps the invariant.
LEMMA ComputeKeeps ==
  ASSUME IInv, NEW w \in Worker, NEW m \in Metrics, Compute(w, m)
  PROVE  IInv'
<1> USE DEF Process
<1>1. w \in Process /\ m \in MetricsType
  BY MetricsAssumption
<1>2. PICK b \in Base(m) : history' = [history EXCEPT ![w] = Appended(@, Result(b, @))]
  BY DEF Compute
<1>3. b \in Score
  BY <1>2 DEF Base, Nearest, Score
<1> DEFINE h == history[w]
           e == Result(b, h)
<1>4. h \in Seq(Entry) /\ Len(h) <= Window /\ Supported(h) /\ Chained(h)
  BY <1>1 DEF IInv, TypeOK
<1>5. history' = [history EXCEPT ![w] = Appended(h, e)]
  BY <1>2
<1> HIDE DEF h
<1>6. /\ e \in Entry
      /\ e.score >= Floor[e.level] - 2
      /\ h # <<>> => e.level = NextLevel(e.score, h[Len(h)].level)
  BY <1>3, <1>4, ResultFacts
<1> HIDE DEF e
<1>7. /\ Appended(h, e) \in Seq(Entry)
      /\ Len(Appended(h, e)) <= Window
      /\ Supported(Appended(h, e))
      /\ Chained(Appended(h, e))
  BY <1>4, <1>6, AppendedFacts
<1> DEFINE g == Appended(h, e)
<1> HIDE DEF g
<1>8. history' = [history EXCEPT ![w] = g]
  BY <1>5 DEF g
<1>9. g \in Seq(Entry) /\ Len(g) <= Window /\ Supported(g) /\ Chained(g)
  BY <1>7 DEF g
<1>10. \A p \in Process : history'[p] = IF p = w THEN g ELSE history[p]
  BY <1>1, <1>8 DEF IInv, TypeOK
<1>11. /\ history' \in [Process -> Seq(Entry)]
       /\ \A p \in Process : Len(history'[p]) <= Window
  BY <1>1, <1>8, <1>9, <1>10 DEF IInv, TypeOK
<1>12. input' \in [Process -> MetricsType]
  BY <1>1 DEF Compute, IInv, TypeOK
<1>13. repeats' \in [Process -> 0 .. Patience]
  BY <1>1, PatienceAssumption DEF Compute, IInv, TypeOK
<1>14. \A p \in Process : Supported(history'[p]) /\ Chained(history'[p])
  BY <1>9, <1>10 DEF IInv
<1> QED BY <1>11, <1>12, <1>13, <1>14 DEF IInv, TypeOK

\* A restart empties the store of one process.
LEMMA RestartKeeps ==
  ASSUME IInv, NEW r \in Process, Restart(r)
  PROVE  IInv'
<1>1. NoMetrics \in MetricsType
  BY DEF NoMetrics, MetricsType
<1>2. \A p \in Process : history'[p] = IF p = r THEN <<>> ELSE history[p]
  BY DEF Restart, IInv, TypeOK
<1>3. TypeOK'
  BY <1>1, <1>2, WindowAssumption, PatienceAssumption DEF Restart, IInv, TypeOK
<1>4. Supported(<<>>) /\ Chained(<<>>)
  BY DEF Supported, Chained
<1>5. \A p \in Process : Supported(history'[p]) /\ Chained(history'[p])
  BY <1>2, <1>4 DEF IInv
<1> QED BY <1>3, <1>5 DEF IInv

\* Stuttering keeps the invariant.
LEMMA StutterKeeps == IInv /\ UNCHANGED vars => IInv'
BY DEF IInv, TypeOK, vars

\* IInv is inductive.
LEMMA Inductive == Spec => []IInv
<1>1. IInv /\ [Next]_vars => IInv'
  BY ComputeKeeps, RestartKeeps, StutterKeeps DEF Next
<1> QED BY <1>1, InitEstablishes, PTL DEF Spec

-----------------------------------------------------------------------------
(* The results                                                             *)

\* Type correctness: scores and levels stay on their scales.
THEOREM TypeCorrect == Spec => []TypeOK
BY Inductive, PTL DEF IInv

\* The risk level compute_score stores is at most two points above its score,
\* for any sequence of reports.
THEOREM LevelsAreSupported == Spec => []NeverTooRosy
<1>1. IInv => NeverTooRosy
  BY DEF IInv, Supported, NeverTooRosy
<1> QED BY <1>1, Inductive, PTL

\* Two scores on the two sides of a gap of six are that far apart.
LEMMA SixApart ==
  ASSUME NEW x \in Int, NEW y \in Int, NEW u \in Int, NEW d \in Int,
         x >= u, y <= d, u - d = 6
  PROVE  Distance(x, y) >= 6 /\ Distance(y, x) >= 6
<1>1. x - y >= 6
  OBVIOUS
<1>2. y < x /\ ~(x < y)
  BY <1>1
<1> QED BY <1>1, <1>2 DEF Distance

\* Along a chained history, a level that is left and taken again has seen the
\* score move by six points.
LEMMA RoundTrip ==
  ASSUME NEW h \in Seq(Entry), Chained(h),
         NEW i \in DOMAIN h, NEW j \in DOMAIN h, i + 1 < j,
         h[i].level # h[i + 1].level,
         h[j].level = h[i].level,
         \A k \in i + 1 .. j - 1 : h[k].level = h[i + 1].level
  PROVE  Distance(h[i + 1].score, h[j].score) >= 6
<1> DEFINE A == h[i].level
           B == h[i + 1].level
           s == h[i + 1].score
           t == h[j].score
<1>1. i + 1 \in DOMAIN h /\ j - 1 \in i + 1 .. j - 1 /\ j > 1 /\ i + 1 > 1 /\ (i + 1) - 1 = i
  OBVIOUS
<1>2. h[i] \in Entry /\ h[i + 1] \in Entry /\ h[j] \in Entry
  BY <1>1
<1>3. A \in Level /\ B \in Level /\ s \in Score /\ t \in Score
  BY <1>2 DEF Entry
<1>4. B = NextLevel(s, A)
  BY <1>1 DEF Chained
<1>5. h[j - 1].level = B
  BY <1>1
<1>6. A = NextLevel(t, B)
  BY <1>1, <1>5 DEF Chained
<1>7. A # B
  OBVIOUS
<1> HIDE DEF A, B, s, t
<1>8. \/ B > A /\ s >= Upgrade[B]
      \/ B < A /\ s <= Downgrade[A]
  BY <1>3, <1>4, <1>7, LevelChanges
<1>9. \/ A > B /\ t >= Upgrade[A]
      \/ A < B /\ t <= Downgrade[B]
  BY <1>3, <1>6, <1>7, LevelChanges
<1>10. Distance(s, t) >= 6
  <2>1. CASE A < B
    <3>1. s >= Upgrade[B] /\ t <= Downgrade[B] /\ Upgrade[B] - Downgrade[B] = 6
      BY <1>3, <1>8, <1>9, <2>1, HysteresisGap DEF Level
    <3>2. Upgrade[B] \in Int /\ Downgrade[B] \in Int
      BY <1>3, LevelLimits
    <3>3. s \in Int /\ t \in Int
      BY <1>3 DEF Score
    <3> QED BY <3>1, <3>2, <3>3, SixApart
  <2>2. CASE B < A
    <3>1. t >= Upgrade[A] /\ s <= Downgrade[A] /\ Upgrade[A] - Downgrade[A] = 6
      BY <1>3, <1>8, <1>9, <2>2, HysteresisGap DEF Level
    <3>2. Upgrade[A] \in Int /\ Downgrade[A] \in Int
      BY <1>3, LevelLimits
    <3>3. s \in Int /\ t \in Int
      BY <1>3 DEF Score
    <3> QED BY <3>1, <3>2, <3>3, SixApart
  <2> QED BY <1>3, <1>7, <2>1, <2>2 DEF Level
<1> QED BY <1>10 DEF s, t

\* Hysteresis prevents flapping: a level that is left and taken again has seen
\* the score move by at least six points, for any sequence of reports and any
\* time in between.
THEOREM HysteresisWorks == Spec => []NoFlapping
<1>1. IInv => NoFlapping
  <2> SUFFICES ASSUME IInv, NEW p \in Process,
                      NEW i \in DOMAIN history[p], NEW j \in DOMAIN history[p],
                      i + 1 < j,
                      history[p][i].level # history[p][i + 1].level,
                      history[p][j].level = history[p][i].level,
                      \A k \in i + 1 .. j - 1 :
                        history[p][k].level = history[p][i + 1].level
               PROVE  Distance(history[p][i + 1].score, history[p][j].score) >= 6
    BY DEF NoFlapping
  <2>1. history[p] \in Seq(Entry) /\ Chained(history[p])
    BY DEF IInv, TypeOK
  <2> QED BY <2>1, RoundTrip
<1> QED BY <1>1, Inductive, PTL
-----------------------------------------------------------------------------
(* Settling                                                                *)

\* How far from the base score of its metrics a score may be after 1, 2, ... 6
\* equal reports: each takes away three fifths of the distance.
Slack == <<40, 16, 6, 2, 1, 0>>

\* x is within d of a base score of m.
Near(x, m, d) == \E b \in Base(m) : Distance(x, b) <= d

\* Of p's last reports k at least were equal, and its score is as near to their
\* base as that makes it.
SettledAfter(p, k) ==
  repeats[p] >= k => history[p] # <<>> /\ Near(history[p][Len(history[p])].score, input[p], Slack[k])

Settling == \A p \in Process : \A k \in 1 .. 6 : SettledAfter(p, k)

\* A report has at most two base scores, the two neighbours of a tie.
LEMMA BaseIsNarrow ==
  ASSUME NEW m \in MetricsType, NEW b \in Base(m), NEW c \in Base(m)
  PROVE  b \in Score /\ c \in Score /\ b - c <= 1
<1>1. CASE m.total = 0
  BY <1>1 DEF Base, Score
<1>2. CASE m.total # 0
  <2> DEFINE n == 10 * m.total + 60 * m.dmarc + 15 * m.dkim + 15 * m.spf
             d == m.total
  <2>1. d \in Nat \ {0} /\ n \in Int
    BY <1>2 DEF MetricsType
  <2>2. b \in Nearest(n, d) /\ c \in Nearest(n, d)
    BY <1>2 DEF Base
  <2> HIDE DEF n, d
  <2>3. /\ b \in Score /\ 2 * b * d <= 2 * n + d
        /\ c \in Score /\ 2 * n - d <= 2 * c * d
    BY <2>2 DEF Nearest
  <2>4. ASSUME b - c >= 2 PROVE FALSE
    <3>1. b \in Int /\ c \in Int /\ b >= c + 2
      BY <2>3, <2>4 DEF Score
    <3>2. 2 * b * d >= 2 * (c + 2) * d
      BY <2>1, <3>1
    <3>3. 2 * (c + 2) * d = 2 * c * d + 4 * d
      BY <2>1, <3>1
    <3> DEFINE x == 2 * b * d
               y == 2 * c * d
    <3>4. x \in Int /\ y \in Int
      BY <2>1, <3>1
    <3>5. x <= 2 * n + d /\ 2 * n - d <= y /\ x >= y + 4 * d
      BY <2>3, <3>2, <3>3
    <3> HIDE DEF x, y
    <3> QED BY <2>1, <3>4, <3>5
  <2> QED BY <2>3, <2>4 DEF Score
<1> QED BY <1>1, <1>2

\* A report whose score is at most one from c moves a score that is within d of c
\* to within two fifths of d, rounded, of its own score or of c.
LEMMA SmoothingApproaches ==
  ASSUME NEW b \in Score, NEW c \in Score, b - c <= 1, c - b <= 1,
         NEW x \in Score, NEW d \in Nat, Distance(x, c) <= d
  PROVE  \/ Distance(Smoothed(b, x), b) <= (4 * d + 5) \div 10
         \/ Distance(Smoothed(b, x), c) <= (4 * d + 5) \div 10
<1> DEFINE y == Smoothed(b, x)
           q == (4 * d + 5) \div 10
<1>1. y \in Int /\ 10 * y <= 6 * b + 4 * x + 5 /\ 6 * b + 4 * x + 5 < 10 * y + 10
  BY DEF Smoothed, Score
<1>2. q \in Int /\ 10 * q <= 4 * d + 5 /\ 4 * d + 5 < 10 * q + 10
  OBVIOUS
<1>3. x - c <= d /\ c - x <= d
  BY DEF Distance, Score
<1> HIDE DEF y, q
<1>4. CASE b = c
  <2>1. y - b <= q /\ b - y <= q
    BY <1>1, <1>2, <1>3, <1>4 DEF Score
  <2> QED BY <1>1, <2>1 DEF Distance, Score, y, q
<1>5. CASE b = c + 1
  <2>1. \/ y - b <= q /\ b - y <= q
        \/ y - c <= q /\ c - y <= q
    BY <1>1, <1>2, <1>3, <1>5 DEF Score
  <2> QED BY <1>1, <2>1 DEF Distance, Score, y, q
<1>6. CASE b = c - 1
  <2>1. \/ y - b <= q /\ b - y <= q
        \/ y - c <= q /\ c - y <= q
    BY <1>1, <1>2, <1>3, <1>6 DEF Score
  <2> QED BY <1>1, <2>1 DEF Distance, Score, y, q
<1> QED BY <1>4, <1>5, <1>6 DEF Score

\* The entry appended last is the last one.
LEMMA AppendedLast ==
  ASSUME NEW h \in Seq(Entry), NEW e \in Entry, Len(h) <= Window
  PROVE  Appended(h, e) # <<>> /\ Appended(h, e)[Len(Appended(h, e))] = e
<1>1. CASE Len(h) < Window
  <2>1. Appended(h, e) = Append(h, e)
    BY <1>1 DEF Appended
  <2> QED BY <2>1
<1>2. CASE ~(Len(h) < Window)
  <2>1. Appended(h, e) = Append(Tail(h), e)
    BY <1>2 DEF Appended
  <2>2. h # <<>>
    BY <1>2, WindowAssumption
  <2>3. Tail(h) \in Seq(Entry)
    BY <2>2
  <2> QED BY <2>1, <2>3
<1> QED BY <1>1, <1>2

\* The score of compute_score for a report with base score b is within 40 of b;
\* and if the score before was near to the base scores of these metrics, it is
\* nearer now.
LEMMA ResultApproaches ==
  ASSUME NEW m \in MetricsType, NEW b \in Base(m), NEW h \in Seq(Entry)
  PROVE  /\ Near(Result(b, h).score, m, 40)
         /\ \A d \in Nat : h # <<>> /\ Near(h[Len(h)].score, m, d)
              => Near(Result(b, h).score, m, (4 * d + 5) \div 10)
<1>1. b \in Score
  BY BaseIsNarrow
<1>2. CASE h = <<>>
  <2>1. Result(b, h).score = b
    BY <1>2 DEF Result
  <2>2. Distance(b, b) <= 40
    BY <1>1 DEF Distance, Score
  <2> QED BY <1>2, <2>1, <2>2 DEF Near
<1>3. CASE h # <<>>
  <2> DEFINE x == h[Len(h)].score
  <2>1. x \in Score
    <3>1. h[Len(h)] \in Entry
      BY <1>3
    <3> QED BY <3>1 DEF Entry
  <2>2. Result(b, h).score = Smoothed(b, x)
    BY <1>3 DEF Result
  <2> HIDE DEF x
  <2>3. Near(Smoothed(b, x), m, 40)
    <3>1. Distance(x, b) <= 100 /\ b - b <= 1 /\ (4 * 100 + 5) \div 10 = 40
      BY <1>1, <2>1 DEF Distance, Score
    <3>2. Distance(Smoothed(b, x), b) <= 40
      BY <1>1, <2>1, <3>1, SmoothingApproaches
    <3> QED BY <3>2 DEF Near
  <2>4. ASSUME NEW d \in Nat, Near(x, m, d)
        PROVE  Near(Smoothed(b, x), m, (4 * d + 5) \div 10)
    <3>1. PICK c \in Base(m) : Distance(x, c) <= d
      BY <2>4 DEF Near
    <3>2. c \in Score /\ b - c <= 1 /\ c - b <= 1
      BY BaseIsNarrow
    <3>3. \/ Distance(Smoothed(b, x), b) <= (4 * d + 5) \div 10
          \/ Distance(Smoothed(b, x), c) <= (4 * d + 5) \div 10
      BY <1>1, <2>1, <3>1, <3>2, SmoothingApproaches
    <3> QED BY <3>3 DEF Near
  <2> QED BY <1>3, <2>2, <2>3, <2>4 DEF x
<1> QED BY <1>2, <1>3

\* compute_score keeps Settling.
LEMMA ComputeSettles ==
  ASSUME IInv, Settling, NEW w \in Worker, NEW m \in Metrics, Compute(w, m)
  PROVE  Settling'
<1>1. w \in Process /\ m \in MetricsType
  BY MetricsAssumption DEF Process
<1>2. PICK b \in Base(m) : history' = [history EXCEPT ![w] = Appended(@, Result(b, @))]
  BY DEF Compute
<1> DEFINE h == history[w]
           e == Result(b, h)
<1>3. h \in Seq(Entry) /\ Len(h) <= Window
  BY <1>1 DEF IInv, TypeOK
<1>4. e \in Entry
  BY <1>1, <1>3, BaseIsNarrow, ResultFacts
<1>5. history'[w] = Appended(h, e)
  BY <1>1, <1>2 DEF IInv, TypeOK
<1>6. history'[w] # <<>> /\ history'[w][Len(history'[w])].score = e.score
  BY <1>3, <1>4, <1>5, AppendedLast
<1>7. /\ input'[w] = m
      /\ \A p \in Process : p # w =>
           history'[p] = history[p] /\ input'[p] = input[p] /\ repeats'[p] = repeats[p]
  BY <1>1, <1>2 DEF Compute, IInv, TypeOK
<1>8. repeats'[w] = IF m # input[w] THEN 1 ELSE IF repeats[w] < Patience THEN repeats[w] + 1 ELSE repeats[w]
  BY <1>1 DEF Compute, IInv, TypeOK
<1>9. repeats[w] \in Nat
  BY <1>1, PatienceAssumption DEF IInv, TypeOK
<1>10. ASSUME NEW k \in 1 .. 6, repeats'[w] >= k
       PROVE  Near(e.score, m, Slack[k])
  <2>1. CASE k = 1
    <3>1. Near(e.score, m, 40)
      BY <1>1, <1>3, ResultApproaches
    <3> QED BY <2>1, <3>1 DEF Slack
  <2>2. CASE k # 1
    <3>1. m = input[w] /\ repeats[w] >= k - 1 /\ k - 1 \in 1 .. 6
      BY <1>8, <1>9, <1>10, <2>2
    <3>2. h # <<>> /\ Near(h[Len(h)].score, m, Slack[k - 1])
      BY <1>1, <3>1 DEF Settling, SettledAfter
    <3>3. Slack[k - 1] \in Nat /\ (4 * Slack[k - 1] + 5) \div 10 = Slack[k]
      <4>1. k \in {2, 3, 4, 5, 6}
        BY <2>2
      <4> QED BY <4>1 DEF Slack
    <3>4. Near(e.score, m, (4 * Slack[k - 1] + 5) \div 10)
      BY <1>1, <1>3, <3>2, <3>3, ResultApproaches
    <3> QED BY <3>3, <3>4
  <2> QED BY <2>1, <2>2
<1>11. ASSUME NEW p \in Process, NEW k \in 1 .. 6, repeats'[p] >= k
       PROVE  history'[p] # <<>> /\ Near(history'[p][Len(history'[p])].score, input'[p], Slack[k])
  <2>1. CASE p = w
    BY <1>6, <1>7, <1>10, <1>11, <2>1
  <2>2. CASE p # w
    BY <1>7, <1>11, <2>2 DEF Settling, SettledAfter
  <2> QED BY <2>1, <2>2
<1> QED BY <1>11 DEF Settling, SettledAfter, Near

\* A restart forgets how many reports were equal.
LEMMA RestartSettles ==
  ASSUME IInv, Settling, NEW r \in Process, Restart(r)
  PROVE  Settling'
<1>1. /\ repeats'[r] = 0
      /\ \A p \in Process : p # r =>
           history'[p] = history[p] /\ input'[p] = input[p] /\ repeats'[p] = repeats[p]
  BY DEF Restart, IInv, TypeOK
<1>2. ASSUME NEW p \in Process, NEW k \in 1 .. 6, repeats'[p] >= k
      PROVE  history'[p] # <<>> /\ Near(history'[p][Len(history'[p])].score, input'[p], Slack[k])
  <2>1. p # r
    BY <1>1, <1>2
  <2> QED BY <1>1, <1>2, <2>1 DEF Settling, SettledAfter
<1> QED BY <1>2 DEF Settling, SettledAfter, Near

\* Smoothing converges: any score reaches the base score of its reports after
\* six equal ones, whatever the scores and the rounding of ties before
\* (ScoreEngine.compute), and for any metrics.
THEOREM SixReportsSettle ==
  ASSUME Patience >= 6
  PROVE  Spec => []ScoreSettles
<1>1. Init => Settling
  BY DEF Init, Settling, SettledAfter
<1>2. IInv /\ Settling /\ [Next]_vars => Settling'
  <2>1. IInv /\ Settling /\ UNCHANGED vars => Settling'
    BY DEF vars, Settling, SettledAfter, Near
  <2> QED BY <2>1, ComputeSettles, RestartSettles DEF Next
<1>3. IInv /\ Settling => ScoreSettles
  <2> SUFFICES ASSUME IInv, Settling, NEW p \in Process, repeats[p] = Patience
               PROVE  history[p][Len(history[p])].score \in Base(input[p])
    BY DEF ScoreSettles
  <2>1. history[p] # <<>> /\ Near(history[p][Len(history[p])].score, input[p], 0)
    BY PatienceAssumption DEF Settling, SettledAfter, Slack
  <2>2. PICK b \in Base(input[p]) : Distance(history[p][Len(history[p])].score, b) <= 0
    BY <2>1 DEF Near
  <2>3. history[p] \in Seq(Entry) /\ input[p] \in MetricsType
    BY DEF IInv, TypeOK
  <2>4. b \in Score
    BY <2>3, BaseIsNarrow
  <2> DEFINE last == history[p][Len(history[p])]
  <2>5. last \in Entry
    BY <2>1, <2>3
  <2>6. last.score \in Score
    BY <2>5 DEF Entry
  <2>7. Distance(last.score, b) <= 0
    BY <2>2
  <2> HIDE DEF last
  <2>8. last.score = b
    BY <2>4, <2>6, <2>7 DEF Distance, Score
  <2> QED BY <2>8 DEF last
<1> QED BY <1>1, <1>2, <1>3, Inductive, PTL DEF Spec
=============================================================================
