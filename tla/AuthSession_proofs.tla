-------------------------- MODULE AuthSession_proofs -------------------------
(***************************************************************************)
(* Proofs, for any number of processes, requests and token pairs, of the   *)
(* properties of a user's session and of the login throttle.               *)
(***************************************************************************)
EXTENDS AuthSession, FiniteSetTheorems, TLAPS

-----------------------------------------------------------------------------
(* The attempts of a scope                                                 *)

\* A tick drops attempts or makes them older, and drops all if all have left the
\* window.
LEMMA AgedFacts ==
  ASSUME NEW ages \in Seq(Nat)
  PROVE  /\ Aged(ages) \in Seq(Nat)
         /\ Len(Aged(ages)) \in 0 .. Len(ages)
         /\ \A k \in DOMAIN Aged(ages) : \E j \in DOMAIN ages : Aged(ages)[k] = ages[j] + 1
         /\ (\A k \in DOMAIN ages : ages[k] >= WindowTicks) => Aged(ages) = <<>>
<1> DEFINE Old == {k \in DOMAIN ages : ages[k] >= WindowTicks}
           e == Cardinality(Old)
           n == Len(ages)
<1>1. n \in Nat /\ DOMAIN ages = 1 .. n /\ \A k \in 1 .. n : ages[k] \in Nat
  OBVIOUS
<1>2. IsFiniteSet(1 .. n) /\ Cardinality(1 .. n) = n
  <2>1. 1 \in Int /\ n \in Int
    BY <1>1
  <2>2. /\ IsFiniteSet(1 .. n)
        /\ Cardinality(1 .. n) = IF 1 > n THEN 0 ELSE n - 1 + 1
    BY <2>1, FS_Interval
  <2>3. (IF 1 > n THEN 0 ELSE n - 1 + 1) = n
    BY <1>1
  <2> QED
    BY <2>2, <2>3
<1>3. e \in 0 .. n
  <2>1. Old \subseteq 1 .. n
    BY <1>1
  <2>2. IsFiniteSet(Old) /\ e <= n
    BY <1>2, <2>1, FS_Subset
  <2>3. e \in Nat
    BY <2>2, FS_CardinalityType
  <2> QED
    BY <1>1, <2>2, <2>3
<1>4. Aged(ages) = [k \in 1 .. n - e |-> ages[k + e] + 1]
  BY DEF Aged
<1>5. (\A k \in DOMAIN ages : ages[k] >= WindowTicks) => e = n
  <2>1. ASSUME \A k \in DOMAIN ages : ages[k] >= WindowTicks PROVE Old = 1 .. n
    BY <1>1, <2>1
  <2> QED
    BY <1>2, <2>1
<1> HIDE DEF e, n
<1>6. \A k \in 1 .. n - e : k + e \in 1 .. n /\ ages[k + e] + 1 \in Nat
  BY <1>1, <1>3
<1>7. n - e \in Nat /\ Aged(ages) \in [1 .. n - e -> Nat]
  BY <1>1, <1>3, <1>4, <1>6
<1>8. Aged(ages) \in Seq(Nat) /\ Len(Aged(ages)) = n - e /\ DOMAIN Aged(ages) = 1 .. n - e
  BY <1>7
<1>9. ASSUME e = n PROVE Aged(ages) = <<>>
  <2>1. n - e = 0
    BY <1>1, <1>9
  <2> QED
    BY <1>8, <2>1
<1>10. n - e \in 0 .. n
  BY <1>1, <1>3
<1>11. \A k \in DOMAIN Aged(ages) : \E j \in DOMAIN ages : Aged(ages)[k] = ages[j] + 1
  BY <1>1, <1>4, <1>6, <1>8
<1> QED
  BY <1>5, <1>8, <1>9, <1>10, <1>11 DEF n

LEMMA AppendFacts ==
  ASSUME NEW ages \in Seq(Nat)
  PROVE  /\ Append(ages, 0) \in Seq(Nat)
         /\ Len(Append(ages, 0)) = Len(ages) + 1
OBVIOUS

\* The update of one scope of one process.
LEMMA UpdateFacts ==
  ASSUME NEW S, NEW f \in [Process -> [Scope -> S]],
         NEW p \in Process, NEW s \in Scope, NEW v \in S
  PROVE  /\ [f EXCEPT ![p][s] = v] \in [Process -> [Scope -> S]]
         /\ \A q \in Process, t \in Scope :
              [f EXCEPT ![p][s] = v][q][t] = IF q = p /\ t = s THEN v ELSE f[q][t]
OBVIOUS

-----------------------------------------------------------------------------
(* Types                                                                   *)

\* A call that waits for the database is being worked on, a refresh with a token.
Placed ==
  \A r \in Request :
    /\ call[r].pc \in {"authenticate", "user"} => call[r].at \in Process
    /\ call[r].pc = "user" => call[r].token # NoPair

Typed == TypeOK /\ Placed

\* How the throttle changes.
LEMMA ThrottleChange ==
  ASSUME Typed, [Next]_vars
  PROVE  \/ UNCHANGED throttle
         \/ Elapse
         \/ \E p \in Process, s \in Scope : ~Locked(p, s) /\ RecordAttempt(p, s)
         \/ \E r \in Request :
              /\ call[r].at \in Process /\ Reset(call[r].at, "login")
              /\ call'[r].pc = "replied"
         \/ \E p \in Process : Forget(p) /\ revoked'[p] = {}
<1>1. CASE UNCHANGED vars \/ Tick
  BY <1>1 DEF vars, Tick
<1>2. ASSUME NEW p \in Process, Register(p)
      PROVE  \/ UNCHANGED throttle
             \/ \E s \in Scope : ~Locked(p, s) /\ RecordAttempt(p, s)
  BY <1>2, ScopeAssumption DEF Register, Record
<1>3. ASSUME NEW p \in Process, Restart(p) PROVE Forget(p) /\ revoked'[p] = {}
  BY <1>3 DEF Restart, Typed, TypeOK
<1>4. ASSUME NEW r \in Request, Authenticated(r)
      PROVE  /\ call[r].at \in Process /\ Reset(call[r].at, "login")
             /\ call'[r].pc = "replied"
  BY <1>4 DEF Authenticated, Issue, Turns, Typed, TypeOK, Placed, Call
<1>5. ASSUME NEW r \in Request, Mistyped(r)
      PROVE  \/ UNCHANGED throttle
             \/ \E p \in Process, s \in Scope : ~Locked(p, s) /\ RecordAttempt(p, s)
  <2>1. call[r].at \in Process
    BY <1>5 DEF Mistyped, Typed, Placed
  <2> QED
    BY <1>5, <2>1, ScopeAssumption DEF Mistyped, Record
<1>6. ASSUME NEW r \in Request,
             \/ \E p \in Process : Login(r, p) \/ Refresh(r, p) \/ Logout(r, p)
             \/ Exchange(r) \/ QueryFails(r) \/ Page(r)
      PROVE  UNCHANGED throttle
  BY <1>6 DEF Login, Refresh, Logout, Exchange, QueryFails, Page, Send, Receive, Parse,
              ConnectionFails, TabClosed
<1> QED
  BY <1>1, <1>2, <1>3, <1>4, <1>5, <1>6 DEF Next, Handle

LEMMA ThrottleTypeStep ==
  ASSUME Typed, [Next]_vars
  PROVE  ThrottleTypeOK'
<1>1. ThrottleTypeOK
  BY DEF Typed, TypeOK
<1> USE TimeAssumption DEF ThrottleTypeOK
<1>2. CASE UNCHANGED throttle
  BY <1>1, <1>2 DEF throttle
<1>3. CASE Elapse
  <2>1. \A p \in Process, s \in Scope :
          Aged(attempts[p][s]) \in Seq(Nat) /\ Aged(granted[p][s]) \in Seq(Nat)
    BY <1>1, AgedFacts
  <2>2. \A p \in Process, s \in Scope :
          (IF Locked(p, s) THEN lockout[p][s] - 1 ELSE 0) \in 0 .. LockoutTicks
    BY <1>1 DEF Locked
  <2> QED
    BY <1>3, <2>1, <2>2 DEF Elapse
<1>4. ASSUME NEW p \in Process, NEW s \in Scope, RecordAttempt(p, s) PROVE ThrottleTypeOK'
  <2>1. attempts[p][s] \in Seq(Nat) /\ granted[p][s] \in Seq(Nat) /\ <<>> \in Seq(Nat)
    BY <1>1
  <2>2. /\ Append(attempts[p][s], 0) \in Seq(Nat)
        /\ Append(granted[p][s], 0) \in Seq(Nat)
        /\ LockoutTicks \in 0 .. LockoutTicks
    BY <2>1, AppendFacts
  <2>3. /\ [attempts EXCEPT ![p][s] = Append(attempts[p][s], 0)]
             \in [Process -> [Scope -> Seq(Nat)]]
        /\ [attempts EXCEPT ![p][s] = <<>>] \in [Process -> [Scope -> Seq(Nat)]]
    BY <1>1, <2>1, <2>2, UpdateFacts
  <2>4. [granted EXCEPT ![p][s] = Append(granted[p][s], 0)]
          \in [Process -> [Scope -> Seq(Nat)]]
    BY <1>1, <2>1, <2>2, UpdateFacts
  <2>5. [lockout EXCEPT ![p][s] = LockoutTicks] \in [Process -> [Scope -> 0 .. LockoutTicks]]
    BY <1>1, <2>2, UpdateFacts
  <2> QED
    BY <1>1, <1>4, <2>3, <2>4, <2>5 DEF RecordAttempt
<1>5. ASSUME NEW p \in Process, Reset(p, "login") PROVE ThrottleTypeOK'
  <2>1. <<>> \in Seq(Nat) /\ 0 \in 0 .. LockoutTicks /\ "login" \in Scope
    BY ScopeAssumption
  <2> QED
    BY <1>1, <1>5, <2>1 DEF Reset
<1>6. ASSUME NEW p \in Process, Forget(p) PROVE ThrottleTypeOK'
  <2>1. Forgotten \in [Scope -> Seq(Nat)] /\ Unlocked \in [Scope -> 0 .. LockoutTicks]
    BY DEF Forgotten, Unlocked
  <2> QED
    BY <1>1, <1>6, <2>1 DEF Forget
<1> QED
  BY ThrottleChange, <1>2, <1>3, <1>4, <1>5, <1>6

LEMMA TypeInit == Init => Typed
<1> SUFFICES ASSUME Init PROVE TypeOK /\ Placed
  BY DEF Typed
<1>1. ThrottleTypeOK
  <2>1. <<>> \in Seq(Nat) /\ 0 \in 0 .. LockoutTicks
    BY TimeAssumption
  <2> QED
    BY <2>1 DEF Init, ThrottleInit, ThrottleTypeOK, Forgotten, Unlocked
<1>2. Idle \in Call /\ Idle.pc = "idle"
  BY DEF Idle, Call, Label, Kind
<1> QED
  BY <1>1, <1>2, PairsAssumption DEF Init, TypeOK, Placed

\* The calls after a step of one of them.
LEMMA Turned ==
  ASSUME Typed, NEW r \in Request, NEW c \in Call, Turns(r, c),
         c.pc \in {"authenticate", "user"} => c.at \in Process,
         c.pc = "user" => c.token # NoPair
  PROVE  /\ call' \in [Request -> Call]
         /\ \A q \in Request : call'[q] = IF q = r THEN c ELSE call[q]
         /\ Placed'
<1>1. call \in [Request -> Call]
  BY DEF Typed, TypeOK
<1>2. /\ call' \in [Request -> Call]
      /\ \A q \in Request : call'[q] = IF q = r THEN c ELSE call[q]
  BY <1>1 DEF Turns
<1> QED
  BY <1>2 DEF Placed, Typed

LEMMA TypeStep == Typed /\ [Next]_vars => Typed'
<1> SUFFICES ASSUME Typed, [Next]_vars PROVE TypeOK' /\ Placed'
  BY DEF Typed
<1>1. ThrottleTypeOK'
  BY ThrottleTypeStep
<1>2. TypeOK /\ Placed
  BY DEF Typed
<1>3. /\ issued \in 0 .. MaxPairs /\ revoked \in [Process -> SUBSET Pair]
      /\ jar \in Pair \cup {NoPair} /\ stored \in Pair \cup {NoPair}
      /\ call \in [Request -> Call] /\ course \in {"smooth", "rough", "mending"}
      /\ raced \subseteq Request
  BY <1>2 DEF TypeOK
<1>4. /\ Idle \in Call /\ Idle.pc = "idle"
      /\ \A k \in {"refresh", "logout"}, t \in Pair \cup {NoPair} :
           /\ [Idle EXCEPT !.pc = "sent", !.kind = k, !.token = t] \in Call
           /\ [Idle EXCEPT !.pc = "sent", !.kind = k, !.token = t].pc = "sent"
  BY DEF Idle, Call, Label, Kind
<1>5. Rough \in {"smooth", "rough", "mending"}
  BY <1>3 DEF Rough
<1>6. ASSUME NEW r \in Request, Refuse(r)
      PROVE  call' \in [Request -> Call] /\ Placed'
  <2> DEFINE c == [call[r] EXCEPT !.pc = "replied", !.at = NoProcess, !.reply = NoReply]
  <2>1. c \in Call /\ c.pc = "replied"
    BY <1>3 DEF Call, Label
  <2> HIDE DEF c
  <2>2. Turns(r, c)
    BY <1>6 DEF Refuse, c
  <2> QED
    BY <2>1, <2>2, Turned
<1>7. ASSUME NEW r \in Request, Issue(r)
      PROVE  issued' \in 0 .. MaxPairs /\ call' \in [Request -> Call] /\ Placed'
  <2> DEFINE c == [call[r] EXCEPT !.pc = "replied", !.at = NoProcess, !.reply = issued']
  <2>1. issued' \in 1 .. MaxPairs
    BY <1>3, <1>7, PairsAssumption DEF Issue
  <2>2. c \in Call /\ c.pc = "replied"
    BY <1>3, <2>1 DEF Pair, Call, Label
  <2> HIDE DEF c
  <2>3. Turns(r, c)
    BY <1>7 DEF Issue, c
  <2> QED
    BY <2>1, <2>2, <2>3, Turned
<1>8. ASSUME NEW r \in Request, Turns(r, Idle) PROVE call' \in [Request -> Call] /\ Placed'
  BY <1>4, <1>8, Turned
<1>9. ASSUME NEW r \in Request, NEW c, Begin(r, c) PROVE course' \in {"smooth", "rough", "mending"}
  BY <1>3, <1>9 DEF Begin
<1>10. CASE UNCHANGED vars \/ Tick
  <2>1. UNCHANGED <<server, browser, call, course, raced>>
    BY <1>10 DEF vars, Tick
  <2> QED
    BY <1>1, <1>2, <2>1 DEF TypeOK, Placed, server, browser
<1>11. ASSUME NEW p \in Process, Register(p) PROVE TypeOK' /\ Placed'
  BY <1>1, <1>2, <1>11 DEF Register, TypeOK, Placed, server, browser
<1>12. ASSUME NEW p \in Process, Restart(p) PROVE TypeOK' /\ Placed'
  <2>1. call' \in [Request -> Call] /\ Placed'
    BY <1>2, <1>3, <1>4, <1>12 DEF Restart, Placed
  <2>2. course' \in {"smooth", "rough", "mending"} /\ raced' \subseteq Request
    BY <1>3, <1>12 DEF Restart
  <2> QED
    BY <1>1, <1>3, <1>12, <2>1, <2>2 DEF Restart, TypeOK, browser
<1>13. ASSUME NEW r \in Request, NEW p \in Process, Login(r, p) PROVE TypeOK' /\ Placed'
  <2>1. PICK k \in {"login", "mistyped"} :
          Begin(r, [Idle EXCEPT !.pc = "authenticate", !.kind = k, !.at = p])
    BY <1>13 DEF Login
  <2>2. call' \in [Request -> Call] /\ Placed'
    <3> DEFINE c == [Idle EXCEPT !.pc = "authenticate", !.kind = k, !.at = p]
    <3>1. c \in Call /\ c.pc = "authenticate" /\ c.at = p
      <4>1. k \in {"login", "mistyped"} /\ p \in Process
        BY <2>1
      <4> QED
        BY <4>1 DEF Idle, Call, Label, Kind
    <3>2. Turns(r, c)
      BY <2>1 DEF Begin
    <3> HIDE DEF c
    <3> QED
      BY <3>1, <3>2, Turned
  <2>3. course' \in {"smooth", "rough", "mending"}
    BY <1>9, <2>1
  <2> QED
    BY <1>1, <1>3, <1>13, <2>2, <2>3 DEF Login, TypeOK, server, browser
<1>14. ASSUME NEW r \in Request, Authenticated(r) PROVE TypeOK' /\ Placed'
  BY <1>1, <1>3, <1>7, <1>14 DEF Authenticated, TypeOK, browser
<1>15. ASSUME NEW r \in Request, Mistyped(r) PROVE TypeOK' /\ Placed'
  BY <1>1, <1>3, <1>5, <1>8, <1>15 DEF Mistyped, TypeOK, server, browser
<1>16. ASSUME NEW r \in Request, Send(r) PROVE TypeOK' /\ Placed'
  <2>1. PICK k \in {"refresh", "logout"} :
          Begin(r, [Idle EXCEPT !.pc = "sent", !.kind = k, !.token = jar])
    BY <1>16 DEF Send
  <2>2. call' \in [Request -> Call] /\ Placed'
    BY <1>3, <1>4, <2>1, Turned DEF Begin
  <2>3. course' \in {"smooth", "rough", "mending"}
    BY <1>9, <2>1
  <2> QED
    BY <1>1, <1>3, <1>16, <2>2, <2>3 DEF Send, TypeOK, server, browser
<1>17. ASSUME NEW r \in Request, NEW p \in Process, Refresh(r, p) PROVE TypeOK' /\ Placed'
  <2>1. raced' \subseteq Request
    BY <1>3, <1>17 DEF Refresh, Rivals
  <2>2. call' \in [Request -> Call] /\ Placed'
    <3> DEFINE c == [call[r] EXCEPT !.pc = "user", !.at = p]
    <3>1. c \in Call /\ c.at = p /\ c.token = call[r].token
      BY <1>3 DEF Call, Label
    <3> HIDE DEF c
    <3>2. (Turns(r, c) /\ call[r].token # NoPair) \/ Refuse(r)
      BY <1>17 DEF Refresh, Accepts, c
    <3> QED
      BY <1>6, <3>1, <3>2, Turned
  <2> QED
    BY <1>1, <1>3, <1>17, <2>1, <2>2 DEF Refresh, TypeOK, server, browser
<1>18. ASSUME NEW r \in Request, Exchange(r) PROVE TypeOK' /\ Placed'
  <2>1. call[r].at \in Process /\ call[r].token \in Pair
    BY <1>2, <1>3, <1>18 DEF Exchange, Placed, Call
  <2>2. revoked' \in [Process -> SUBSET Pair]
    BY <1>3, <1>18, <2>1 DEF Exchange
  <2> QED
    BY <1>1, <1>3, <1>7, <1>18, <2>2 DEF Exchange, TypeOK, browser
<1>19. ASSUME NEW r \in Request, NEW p \in Process, Logout(r, p) PROVE TypeOK' /\ Placed'
  <2>1. raced' \subseteq Request
    BY <1>3, <1>19 DEF Logout, Rivals
  <2>2. revoked' \in [Process -> SUBSET Pair]
    <3>1. call[r].token \in Pair \cup {NoPair}
      BY <1>3 DEF Call
    <3> QED
      BY <1>3, <1>19, <3>1 DEF Logout
  <2>3. call' \in [Request -> Call] /\ Placed'
    <3> DEFINE c == [call[r] EXCEPT !.pc = "replied", !.reply = NoPair]
    <3>1. c \in Call /\ c.pc = "replied"
      BY <1>3 DEF Call, Label
    <3> HIDE DEF c
    <3>2. Turns(r, c) \/ Refuse(r)
      BY <1>19 DEF Logout, c
    <3> QED
      BY <1>6, <3>1, <3>2, Turned
  <2> QED
    BY <1>1, <1>3, <1>19, <2>1, <2>2, <2>3 DEF Logout, TypeOK, browser
<1>20. ASSUME NEW r \in Request, QueryFails(r) PROVE TypeOK' /\ Placed'
  <2>1. call' \in [Request -> Call] /\ Placed'
    BY <1>6, <1>8, <1>20 DEF QueryFails
  <2>2. course' \in {"smooth", "rough", "mending"} /\ raced' \subseteq Request
    BY <1>3, <1>5, <1>20 DEF QueryFails
  <2> QED
    BY <1>1, <1>3, <1>20, <2>1, <2>2 DEF QueryFails, TypeOK, server, browser
<1>21. ASSUME NEW r \in Request, Receive(r) PROVE TypeOK' /\ Placed'
  <2>1. call' \in [Request -> Call] /\ Placed'
    <3> DEFINE c == [call[r] EXCEPT !.pc = "parse"]
    <3>1. c \in Call /\ c.pc = "parse"
      BY <1>3 DEF Call, Label
    <3> HIDE DEF c
    <3>2. Turns(r, c)
      BY <1>21 DEF Receive, c
    <3> QED
      BY <3>1, <3>2, Turned
  <2>2. jar' \in Pair \cup {NoPair}
    <3>1. call[r].reply \in Pair \cup {NoPair, NoReply}
      BY <1>3 DEF Call
    <3> QED
      BY <1>3, <1>21, <3>1 DEF Receive
  <2>3. UNCHANGED <<issued, revoked, stored, course, raced>>
    BY <1>21 DEF Receive, server
  <2> QED
    BY <1>1, <1>3, <2>1, <2>2, <2>3 DEF TypeOK
<1>22. ASSUME NEW r \in Request, Parse(r) PROVE TypeOK' /\ Placed'
  <2>1. stored' \in Pair \cup {NoPair}
    BY <1>3, <1>22 DEF Parse, SavedAfter, Call
  <2>2. course' \in {"smooth", "rough", "mending"}
    BY <1>3, <1>22 DEF Parse
  <2> QED
    BY <1>1, <1>3, <1>8, <1>22, <2>1, <2>2 DEF Parse, TypeOK, server
<1>23. ASSUME NEW r \in Request, ConnectionFails(r) \/ TabClosed(r) PROVE TypeOK' /\ Placed'
  <2>1. stored' \in Pair \cup {NoPair} /\ course' \in {"smooth", "rough", "mending"}
    BY <1>3, <1>23 DEF ConnectionFails, TabClosed, browser
  <2> QED
    BY <1>1, <1>3, <1>8, <1>23, <2>1 DEF ConnectionFails, TabClosed, TypeOK, server, browser
<1> QED
  BY <1>10, <1>11, <1>12, <1>13, <1>14, <1>15, <1>16, <1>17, <1>18, <1>19, <1>20, <1>21,
     <1>22, <1>23 DEF Next, Handle, Page

\* Types: attempts, lockouts, tokens and calls, for any number of processes.
THEOREM TypeCorrect == Spec => []TypeOK
<1>1. Typed => TypeOK
  BY DEF Typed
<1> QED
  BY <1>1, TypeInit, TypeStep, PTL DEF Spec

-----------------------------------------------------------------------------
(* The throttle                                                            *)

\* Without a lockout exactly the attempts that count were let through; during
\* one, what was let through is as old as the lockout at least.
Throttled ==
  \A p \in Process, s \in Scope :
    /\ Len(attempts[p][s]) < MaxAttempts /\ Len(granted[p][s]) < MaxAttempts
    /\ lockout[p][s] = 0 => granted[p][s] = attempts[p][s]
    /\ lockout[p][s] > 0 =>
         /\ attempts[p][s] = <<>>
         /\ \A k \in DOMAIN granted[p][s] : granted[p][s][k] + lockout[p][s] >= LockoutTicks

LEMMA ThrottledInit == Init => Throttled
BY LimitAssumption, TimeAssumption
   DEF Init, ThrottleInit, Throttled, Forgotten, Unlocked

LEMMA ThrottledStep == Typed /\ Throttled /\ [Next]_vars => Throttled'
<1> SUFFICES ASSUME Typed, Throttled, [Next]_vars PROVE Throttled'
  OBVIOUS
<1>1. /\ attempts \in [Process -> [Scope -> Seq(Nat)]]
      /\ lockout \in [Process -> [Scope -> 0 .. LockoutTicks]]
      /\ granted \in [Process -> [Scope -> Seq(Nat)]]
  BY DEF Typed, TypeOK, ThrottleTypeOK
<1>2. MaxAttempts \in Nat /\ 0 < MaxAttempts /\ Len(<<>>) = 0
  BY LimitAssumption
<1>3. CASE UNCHANGED throttle
  BY <1>3 DEF throttle, Throttled
<1>4. CASE Elapse
  <2> SUFFICES ASSUME NEW p \in Process, NEW s \in Scope
               PROVE  /\ Len(attempts'[p][s]) < MaxAttempts
                      /\ Len(granted'[p][s]) < MaxAttempts
                      /\ lockout'[p][s] = 0 => granted'[p][s] = attempts'[p][s]
                      /\ lockout'[p][s] > 0 =>
                           /\ attempts'[p][s] = <<>>
                           /\ \A k \in DOMAIN granted'[p][s] :
                                granted'[p][s][k] + lockout'[p][s] >= LockoutTicks
    BY DEF Throttled
  <2> DEFINE a == attempts[p][s]
             g == granted[p][s]
             l == lockout[p][s]
  <2>1. /\ a \in Seq(Nat) /\ g \in Seq(Nat) /\ l \in 0 .. LockoutTicks
        /\ Len(a) < MaxAttempts /\ Len(g) < MaxAttempts
        /\ l = 0 => g = a
        /\ l > 0 => a = <<>> /\ \A k \in DOMAIN g : g[k] + l >= LockoutTicks
    BY <1>1 DEF Throttled
  <2>2. /\ attempts'[p][s] = Aged(a) /\ granted'[p][s] = Aged(g)
        /\ lockout'[p][s] = IF l > 0 THEN l - 1 ELSE 0
    BY <1>4 DEF Elapse, Locked
  <2> HIDE DEF a, g, l
  <2>3. /\ Len(Aged(a)) \in 0 .. Len(a) /\ Len(Aged(g)) \in 0 .. Len(g)
        /\ Len(a) \in Nat /\ Len(g) \in Nat
    BY <2>1, AgedFacts
  <2>4. Len(Aged(a)) < MaxAttempts /\ Len(Aged(g)) < MaxAttempts
    BY <1>2, <2>1, <2>3
  <2>5. CASE l = 0
    BY <2>1, <2>2, <2>4, <2>5
  <2>6. CASE l = 1
    <3>1. \A k \in DOMAIN g : g[k] \in Nat
      BY <2>1
    <3>2. \A k \in DOMAIN g : g[k] >= WindowTicks
      BY <2>1, <2>6, <3>1, TimeAssumption
    <3>3. Aged(g) = <<>>
      BY <2>1, <3>2, AgedFacts
    <3>4. a = <<>>
      BY <2>1, <2>6
    <3>5. Aged(a) = <<>>
      <4>1. \A k \in DOMAIN a : a[k] >= WindowTicks
        BY <3>4
      <4> QED
        BY <2>1, <4>1, AgedFacts
    <3> QED
      BY <2>2, <2>4, <2>6, <3>3, <3>5
  <2>7. CASE l > 1
    <3>1. a = <<>> /\ l - 1 > 0 /\ l - 1 # 0
      BY <2>1, <2>7
    <3>2. Aged(a) = <<>>
      <4>1. \A k \in DOMAIN a : a[k] >= WindowTicks
        BY <3>1
      <4> QED
        BY <2>1, <4>1, AgedFacts
    <3>3. ASSUME NEW k \in DOMAIN Aged(g) PROVE Aged(g)[k] + (l - 1) >= LockoutTicks
      <4>1. PICK j \in DOMAIN g : Aged(g)[k] = g[j] + 1
        BY <2>1, AgedFacts
      <4>2. g[j] + l >= LockoutTicks /\ g[j] \in Nat
        BY <2>1, <2>7
      <4> QED
        BY <2>1, <4>1, <4>2, TimeAssumption
    <3>4. lockout'[p][s] = l - 1
      BY <2>1, <2>2, <2>7
    <3> QED
      BY <2>2, <2>4, <3>1, <3>2, <3>3, <3>4
  <2> QED
    BY <2>1, <2>5, <2>6, <2>7
<1>5. ASSUME NEW p \in Process, NEW s \in Scope, ~Locked(p, s), RecordAttempt(p, s)
      PROVE  Throttled'
  <2> DEFINE a == attempts[p][s]
             g == granted[p][s]
  <2>1. /\ a \in Seq(Nat) /\ g = a /\ lockout[p][s] = 0 /\ Len(a) < MaxAttempts
        /\ <<>> \in Seq(Nat)
    BY <1>1, <1>5 DEF Throttled, Locked
  <2>2. Append(a, 0) \in Seq(Nat)
    BY <2>1, AppendFacts
  <2>3. CASE BelowLimit(Append(a, 0))
    <3>1. /\ attempts' = [attempts EXCEPT ![p][s] = Append(a, 0)]
          /\ granted' = [granted EXCEPT ![p][s] = Append(g, 0)]
          /\ lockout' = lockout
      BY <1>5, <2>3 DEF RecordAttempt
    <3>2. \A q \in Process, t \in Scope :
            /\ attempts'[q][t] = IF q = p /\ t = s THEN Append(a, 0) ELSE attempts[q][t]
            /\ granted'[q][t] = IF q = p /\ t = s THEN Append(a, 0) ELSE granted[q][t]
      BY <1>1, <2>1, <2>2, <3>1, UpdateFacts
    <3>3. Len(Append(a, 0)) < MaxAttempts
      BY <2>3 DEF BelowLimit
    <3> HIDE DEF a, g
    <3> QED
      BY <2>1, <3>1, <3>2, <3>3 DEF Throttled
  <2>4. CASE ~BelowLimit(Append(a, 0))
    <3>1. /\ attempts' = [attempts EXCEPT ![p][s] = <<>>]
          /\ lockout' = [lockout EXCEPT ![p][s] = LockoutTicks]
          /\ granted' = granted
      BY <1>5, <2>4 DEF RecordAttempt
    <3>2. \A q \in Process, t \in Scope :
            attempts'[q][t] = IF q = p /\ t = s THEN <<>> ELSE attempts[q][t]
      BY <1>1, <2>1, <3>1, UpdateFacts
    <3>3. \A q \in Process, t \in Scope :
            lockout'[q][t] = IF q = p /\ t = s THEN LockoutTicks ELSE lockout[q][t]
      <4>1. LockoutTicks \in 0 .. LockoutTicks
        BY TimeAssumption
      <4> QED
        BY <1>1, <3>1, <4>1, UpdateFacts
    <3>4. \A k \in DOMAIN g : g[k] + LockoutTicks >= LockoutTicks
      <4>1. \A k \in DOMAIN g : g[k] \in Nat
        BY <2>1
      <4> QED
        BY <4>1, TimeAssumption
    <3>5. LockoutTicks # 0
      BY TimeAssumption
    <3> QED
      BY <1>2, <3>1, <3>2, <3>3, <3>4, <3>5 DEF Throttled
  <2> QED
    BY <2>3, <2>4
<1>6. ASSUME NEW p \in Process, Reset(p, "login") PROVE Throttled'
  <2>1. "login" \in Scope /\ <<>> \in Seq(Nat) /\ 0 \in 0 .. LockoutTicks
    BY ScopeAssumption, TimeAssumption
  <2>2. \A q \in Process, t \in Scope :
          /\ attempts'[q][t] = IF q = p /\ t = "login" THEN <<>> ELSE attempts[q][t]
          /\ granted'[q][t] = IF q = p /\ t = "login" THEN <<>> ELSE granted[q][t]
    BY <1>1, <1>6, <2>1, UpdateFacts DEF Reset
  <2>3. \A q \in Process, t \in Scope :
          lockout'[q][t] = IF q = p /\ t = "login" THEN 0 ELSE lockout[q][t]
    BY <1>1, <1>6, <2>1, UpdateFacts DEF Reset
  <2> QED
    BY <1>2, <2>2, <2>3 DEF Throttled
<1>7. ASSUME NEW p \in Process, Forget(p) PROVE Throttled'
  <2>1. \A q \in Process, t \in Scope :
          /\ attempts'[q][t] = IF q = p THEN <<>> ELSE attempts[q][t]
          /\ granted'[q][t] = IF q = p THEN <<>> ELSE granted[q][t]
          /\ lockout'[q][t] = IF q = p THEN 0 ELSE lockout[q][t]
    BY <1>1, <1>7 DEF Forget, Forgotten, Unlocked
  <2> QED
    BY <1>2, <2>1 DEF Throttled
<1> QED
  BY ThrottleChange, <1>3, <1>4, <1>5, <1>6, <1>7

\* In any window, fewer attempts of a scope are let through than the maximum, in
\* each of any number of processes.
THEOREM ThrottleHolds == Spec => []AttemptsAreLimited
<1>1. Throttled => AttemptsAreLimited
  BY DEF Throttled, AttemptsAreLimited
<1>2. Init => Typed /\ Throttled
  BY TypeInit, ThrottledInit
<1>3. Typed /\ Throttled /\ [Next]_vars => (Typed /\ Throttled)'
  BY TypeStep, ThrottledStep
<1> QED
  BY <1>1, <1>2, <1>3, PTL DEF Spec

-----------------------------------------------------------------------------
(* Lockouts run their time                                                 *)

LEMMA LockoutStep ==
  ASSUME Typed, [Next]_vars, NEW p \in Process, NEW s \in Scope, lockout[p][s] > 0
  PROVE  \/ lockout'[p][s] \in {lockout[p][s], lockout[p][s] - 1}
         \/ /\ lockout'[p][s] = 0
            /\ \/ s = "login" /\ \E r \in Request : call[r].at = p /\ call'[r].pc = "replied"
               \/ lockout'[p] = Unlocked /\ revoked'[p] = {}
<1>1. lockout \in [Process -> [Scope -> 0 .. LockoutTicks]]
  BY DEF Typed, TypeOK, ThrottleTypeOK
<1>2. CASE UNCHANGED throttle
  BY <1>2 DEF throttle
<1>3. CASE Elapse
  BY <1>1, <1>3 DEF Elapse, Locked
<1>4. ASSUME NEW q \in Process, NEW t \in Scope, ~Locked(q, t), RecordAttempt(q, t)
      PROVE  lockout'[p][s] = lockout[p][s]
  <2>1. ~(q = p /\ t = s)
    BY <1>4 DEF Locked
  <2>2. LockoutTicks \in 0 .. LockoutTicks
    BY TimeAssumption
  <2>3. [lockout EXCEPT ![q][t] = LockoutTicks][p][s] = lockout[p][s]
    BY <1>1, <2>1, <2>2, UpdateFacts
  <2> QED
    BY <1>4, <2>3 DEF RecordAttempt
<1>5. ASSUME NEW r \in Request, call[r].at \in Process, Reset(call[r].at, "login"),
             call'[r].pc = "replied"
      PROVE  \/ lockout'[p][s] = lockout[p][s]
             \/ lockout'[p][s] = 0 /\ s = "login" /\ call[r].at = p
  <2>1. "login" \in Scope /\ 0 \in 0 .. LockoutTicks
    BY ScopeAssumption, TimeAssumption
  <2>2. lockout'[p][s] = IF p = call[r].at /\ s = "login" THEN 0 ELSE lockout[p][s]
    BY <1>1, <1>5, <2>1, UpdateFacts DEF Reset
  <2> QED
    BY <2>2
<1>6. ASSUME NEW q \in Process, Forget(q), revoked'[q] = {}
      PROVE  \/ lockout'[p][s] = lockout[p][s]
             \/ lockout'[p][s] = 0 /\ lockout'[p] = Unlocked /\ revoked'[p] = {}
  BY <1>1, <1>6 DEF Forget, Unlocked
<1> QED
  BY ThrottleChange, <1>2, <1>3, <1>4, <1>5, <1>6

\* Failures that were under way do not prolong a lockout, and only a login that
\* was, or a restart, ends it early.
THEOREM LockoutsRun == Spec => LockoutRunsItsTime
<1>1. Typed /\ [Next]_vars =>
        [\A p \in Process, s \in Scope : lockout[p][s] > 0 =>
           \/ lockout'[p][s] \in {lockout[p][s], lockout[p][s] - 1}
           \/ /\ lockout'[p][s] = 0
              /\ \/ s = "login" /\ \E r \in Request : call[r].at = p /\ call'[r].pc = "replied"
                 \/ lockout'[p] = Unlocked /\ revoked'[p] = {}]_vars
  BY LockoutStep
<1> QED
  BY <1>1, TypeInit, TypeStep, PTL DEF Spec, LockoutRunsItsTime

-----------------------------------------------------------------------------
(* Refresh tokens                                                          *)

\* How the calls that wait for their user's row change.
Waiting(r) == call[r].pc = "user"

\* Two refreshes that wait in one process with one token both count as raced.
Paired ==
  \A q, r \in Request :
    /\ q # r /\ Waiting(q) /\ Waiting(r)
    /\ call[q].at = call[r].at /\ call[q].token = call[r].token
    => q \in raced

Exchanges == ExchangedOnce /\ Paired

LEMMA ExchangesInit == Init => Exchanges
BY DEF Init, Exchanges, ExchangedOnce, Paired, Waiting, Idle

\* Only a refresh whose token is accepted begins to wait.
LEMMA OthersDoNotWait ==
  ASSUME Typed, NEW q \in Request, NEW r \in Request, call'[r].pc = "user",
         \/ \E p \in Process : Login(q, p) \/ Logout(q, p)
         \/ Refuse(q) \/ Authenticated(q) \/ Mistyped(q) \/ Exchange(q) \/ QueryFails(q)
         \/ Page(q)
  PROVE  call[r] = call'[r]
<1>1. call \in [Request -> Call]
  BY DEF Typed, TypeOK
<1>2. ASSUME NEW c, Turns(q, c), c.pc # "user" PROVE call[r] = call'[r]
  BY <1>1, <1>2 DEF Turns
<1>3. ASSUME NEW p \in Process, Login(q, p) PROVE call[r] = call'[r]
  <2>1. PICK k \in {"login", "mistyped"} :
          Turns(q, [Idle EXCEPT !.pc = "authenticate", !.kind = k, !.at = p])
    BY <1>3 DEF Login, Begin
  <2> QED
    BY <1>2, <2>1 DEF Idle
<1>4. CASE Refuse(q) \/ Issue(q) \/ Turns(q, Idle)
  BY <1>1, <1>2, <1>4 DEF Refuse, Issue, Idle, Call
<1>5. ASSUME NEW p \in Process, Logout(q, p) PROVE call[r] = call'[r]
  BY <1>1, <1>2, <1>4, <1>5 DEF Logout, Call
<1>6. CASE Receive(q)
  BY <1>1, <1>2, <1>6 DEF Receive, Call
<1>7. CASE \/ Authenticated(q) \/ Mistyped(q) \/ Exchange(q) \/ QueryFails(q)
           \/ Parse(q) \/ ConnectionFails(q) \/ TabClosed(q)
  BY <1>4, <1>7 DEF Authenticated, Mistyped, Exchange, QueryFails, Parse, ConnectionFails,
                    TabClosed
<1>8. CASE Send(q)
  <2>1. PICK k \in {"refresh", "logout"} :
          Turns(q, [Idle EXCEPT !.pc = "sent", !.kind = k, !.token = jar])
    BY <1>8 DEF Send, Begin
  <2> QED
    BY <1>2, <2>1 DEF Idle
<1> QED
  BY <1>3, <1>4, <1>5, <1>6, <1>7, <1>8 DEF Page

LEMMA ExchangesStep == Typed /\ Exchanges /\ [Next]_vars => Exchanges'
<1> SUFFICES ASSUME Typed, Exchanges, [Next]_vars PROVE ExchangedOnce' /\ Paired'
  BY DEF Exchanges
<1>1. /\ call \in [Request -> Call] /\ revoked \in [Process -> SUBSET Pair]
      /\ raced \subseteq Request
      /\ ExchangedOnce /\ Paired
  BY DEF Typed, TypeOK, Exchanges
<1>2. ASSUME UNCHANGED revoked,
             \A r \in Request : call'[r].pc = "user" =>
               call[r] = call'[r] /\ (r \in raced => r \in raced')
      PROVE  ExchangedOnce' /\ Paired'
  BY <1>1, <1>2 DEF ExchangedOnce, Paired, Waiting
<1>3. CASE UNCHANGED vars \/ Tick \/ \E p \in Process : Register(p)
  <2>1. UNCHANGED <<revoked, call, raced>>
    BY <1>3 DEF vars, Tick, Register, server
  <2> QED
    BY <1>2, <2>1
<1>4. ASSUME NEW p \in Process, Restart(p) PROVE ExchangedOnce' /\ Paired'
  <2>1. /\ revoked' = [revoked EXCEPT ![p] = {}]
        /\ \A r \in Request : call'[r] = IF call[r].at = p THEN Idle ELSE call[r]
        /\ raced' = raced \ {r \in Request : call[r].at = p}
    BY <1>1, <1>4 DEF Restart
  <2>2. \A r \in Request : call'[r].pc = "user" => call'[r] = call[r] /\ call[r].at # p
    BY <2>1 DEF Idle
  <2>3. \A q \in Process : revoked'[q] \subseteq revoked[q]
    BY <1>1, <2>1
  <2>4. \A r \in Request : call'[r].pc = "user" => call[r].at \in Process
    BY <2>2 DEF Typed, Placed
  <2> QED
    BY <1>1, <2>1, <2>2, <2>3, <2>4 DEF ExchangedOnce, Paired, Waiting
<1>5. ASSUME NEW q \in Request, NEW p \in Process, Refresh(q, p), ~Refuse(q)
      PROVE  ExchangedOnce' /\ Paired'
  <2>1. /\ Accepts(q, p) /\ revoked' = revoked
        /\ Turns(q, [call[q] EXCEPT !.pc = "user", !.at = p])
        /\ raced' = raced \cup Rivals(q, p) \cup (IF Rivals(q, p) = {} THEN {} ELSE {q})
    BY <1>5 DEF Refresh, server
  <2>2. /\ \A r \in Request \ {q} : call'[r] = call[r]
        /\ call'[q].at = p /\ call'[q].token = call[q].token
    BY <1>1, <2>1 DEF Turns, Call
  <2>3. ASSUME NEW r \in Request, call'[r].pc = "user", call'[r].token \in revoked'[call'[r].at]
        PROVE  r \in raced'
    <3>1. r # q
      BY <2>1, <2>2, <2>3 DEF Accepts
    <3> QED
      BY <1>1, <2>1, <2>2, <2>3, <3>1 DEF ExchangedOnce
  <2>4. ASSUME NEW a \in Request, NEW b \in Request, a # b,
               call'[a].pc = "user", call'[b].pc = "user",
               call'[a].at = call'[b].at, call'[a].token = call'[b].token
        PROVE  a \in raced'
    <3>1. CASE a = q
      <4>1. b \in Rivals(q, p)
        BY <2>2, <2>4, <3>1 DEF Rivals
      <4> QED
        BY <2>1, <3>1, <4>1
    <3>2. CASE b = q
      <4>1. a \in Rivals(q, p)
        BY <2>2, <2>4, <3>2 DEF Rivals
      <4> QED
        BY <2>1, <4>1
    <3>3. CASE a # q /\ b # q
      BY <1>1, <2>1, <2>2, <2>4, <3>3 DEF Paired, Waiting
    <3> QED
      BY <3>1, <3>2, <3>3
  <2> QED
    BY <2>3, <2>4 DEF ExchangedOnce, Paired, Waiting
<1>6. ASSUME NEW q \in Request, Exchange(q) PROVE ExchangedOnce' /\ Paired'
  <2>1. /\ revoked' = [revoked EXCEPT ![call[q].at] = @ \cup {call[q].token}]
        /\ Turns(q, [call[q] EXCEPT !.pc = "replied", !.at = NoProcess, !.reply = issued'])
        /\ raced' = raced \ {q} /\ Waiting(q)
    BY <1>6 DEF Exchange, Issue, Waiting
  <2>2. \A r \in Request : call'[r].pc = "user" => r # q /\ call'[r] = call[r]
    BY <1>1, <2>1 DEF Turns, Call
  <2>3. ASSUME NEW r \in Request, call'[r].pc = "user", call'[r].token \in revoked'[call'[r].at]
        PROVE  r \in raced'
    <3>1. r # q /\ call'[r] = call[r] /\ call[r].at \in Process /\ call[q].at \in Process
      BY <2>1, <2>2, <2>3 DEF Typed, Placed, Waiting
    <3>2. CASE call[r].token \in revoked[call[r].at]
      BY <1>1, <2>1, <2>3, <3>1, <3>2 DEF ExchangedOnce
    <3>3. CASE call[r].token \notin revoked[call[r].at]
      <4>1. call[r].at = call[q].at /\ call[r].token = call[q].token
        BY <1>1, <2>1, <2>3, <3>1, <3>3
      <4> QED
        BY <1>1, <2>1, <2>3, <3>1, <4>1 DEF Paired, Waiting
    <3> QED
      BY <3>2, <3>3
  <2>4. Paired'
    BY <1>1, <2>1, <2>2 DEF Paired, Waiting
  <2> QED
    BY <2>3, <2>4 DEF ExchangedOnce
<1>7. ASSUME NEW q \in Request, NEW p \in Process, Logout(q, p), ~Refuse(q)
      PROVE  ExchangedOnce' /\ Paired'
  <2>1. /\ revoked' = [revoked EXCEPT ![p] = @ \cup {call[q].token}]
        /\ Turns(q, [call[q] EXCEPT !.pc = "replied", !.reply = NoPair])
        /\ raced' = raced \cup Rivals(q, p)
    BY <1>7 DEF Logout
  <2>2. \A r \in Request : call'[r].pc = "user" => r # q /\ call'[r] = call[r]
    BY <1>1, <2>1 DEF Turns, Call
  <2>3. ASSUME NEW r \in Request, call'[r].pc = "user", call'[r].token \in revoked'[call'[r].at]
        PROVE  r \in raced'
    <3>1. r # q /\ call'[r] = call[r] /\ call[r].at \in Process
      BY <2>2, <2>3 DEF Typed, Placed
    <3>2. CASE call[r].token \in revoked[call[r].at]
      BY <1>1, <2>1, <2>3, <3>1, <3>2 DEF ExchangedOnce
    <3>3. CASE call[r].token \notin revoked[call[r].at]
      <4>1. call[r].at = p /\ call[r].token = call[q].token
        BY <1>1, <2>1, <2>3, <3>1, <3>3
      <4> QED
        BY <2>1, <2>3, <3>1, <4>1 DEF Rivals
    <3> QED
      BY <3>2, <3>3
  <2>4. Paired'
    BY <1>1, <2>1, <2>2 DEF Paired, Waiting
  <2> QED
    BY <2>3, <2>4 DEF ExchangedOnce
<1>8. ASSUME NEW q \in Request,
             \/ Refuse(q) /\ \E p \in Process : Refresh(q, p) \/ Logout(q, p)
             \/ \E p \in Process : Login(q, p)
             \/ Authenticated(q) \/ Mistyped(q) \/ QueryFails(q) \/ Page(q)
      PROVE  ExchangedOnce' /\ Paired'
  <2>1. \A r \in Request : call'[r].pc = "user" => call'[r] = call[r]
    BY <1>8, OthersDoNotWait
  <2>2. UNCHANGED revoked
    <3>1. ASSUME NEW p \in Process, Logout(q, p), Refuse(q) PROVE UNCHANGED revoked
      <4>1. call'[q].reply = NoReply /\ NoReply # NoPair
        BY <1>1, <3>1, NullAssumption DEF Refuse, Turns, Call
      <4>2. ~Turns(q, [call[q] EXCEPT !.pc = "replied", !.reply = NoPair])
        BY <1>1, <4>1 DEF Turns, Call
      <4> QED
        BY <3>1, <4>2 DEF Logout
    <3> QED
      BY <1>8, <3>1 DEF Refresh, Login, Authenticated, Mistyped, QueryFails, Page, Send,
                        Receive, Parse, ConnectionFails, TabClosed, server
  <2>3. ASSUME NEW r \in Request, r \in raced, call'[r].pc = "user" PROVE r \in raced'
    <3>1. call'[r] = call[r]
      BY <2>1, <2>3
    <3>2. CASE QueryFails(q)
      BY <1>1, <2>3, <3>1, <3>2 DEF QueryFails, Refuse, Turns, Idle, Call
    <3> QED
      BY <1>1, <1>8, <2>3, <3>1, <3>2
         DEF Refuse, Refresh, Logout, Login, Authenticated, Mistyped, Page, Send, Receive,
             Parse, ConnectionFails, TabClosed
  <2> QED
    BY <1>2, <2>1, <2>2, <2>3
<1> QED
  BY <1>3, <1>4, <1>5, <1>6, <1>7, <1>8 DEF Next, Handle

\* A process exchanges a refresh token once, unless another call held the token
\* at the same time, whatever the number of processes, calls and pairs.
THEOREM ExchangesHold == Spec => []ExchangedOnce
<1>1. Init => Typed /\ Exchanges
  BY TypeInit, ExchangesInit
<1>2. Typed /\ Exchanges /\ [Next]_vars => (Typed /\ Exchanges)'
  BY TypeStep, ExchangesStep
<1> QED
  BY <1>1, <1>2, PTL DEF Spec, Exchanges

-----------------------------------------------------------------------------
(* A session continues                                                     *)

\* Nothing refers to a pair that has not been issued.
Known(t) == t \in Pair => t <= issued

Ledger ==
  /\ \A p \in Process : \A t \in revoked[p] : Known(t)
  /\ Known(jar)
  /\ \A r \in Request : Known(call[r].token) /\ Known(call[r].reply)

Unrevoked(t) == \A p \in Process : t \notin revoked[p]

\* The browser is logged out, or its two halves agree and can be exchanged.
Whole == stored = jar /\ Unrevoked(jar)

Alone == \A q, r \in Request : call[q].pc # "idle" /\ call[r].pc # "idle" => q = r

\* What a call that alone is under way has done to the session so far.
Underway(r) ==
  /\ call[r].pc = "authenticate" /\ course = "smooth" => Whole
  /\ call[r].pc \in {"sent", "user"} => course = "smooth" /\ Whole /\ call[r].token = jar
  /\ call[r].pc = "sent" => call[r].kind \in {"refresh", "logout"}
  /\ call[r].pc = "user" => call[r].kind = "refresh"
  /\ call[r].pc = "replied" =>
       /\ SavedAfter(r) = IF call[r].reply = NoReply THEN jar ELSE call[r].reply
       /\ Unrevoked(SavedAfter(r))
  /\ call[r].pc = "parse" => jar = SavedAfter(r) /\ Unrevoked(jar)

Sessions ==
  course # "rough" =>
    /\ Alone
    /\ AtRest => course = "smooth" /\ Whole
    /\ \A r \in Request : Underway(r)

LEMMA SessionsInit == Init => Ledger /\ Sessions
<1> SUFFICES ASSUME Init PROVE Ledger /\ Sessions
  OBVIOUS
<1>1. NoPair \notin Pair /\ NoReply \notin Pair
  BY NullAssumption
<1>2. \A r \in Request :
        call[r].pc = "idle" /\ call[r].token = NoPair /\ call[r].reply = NoReply
  BY DEF Init, Idle
<1> QED
  BY <1>1, <1>2 DEF Init, Ledger, Known, Sessions, Alone, AtRest, Underway, Whole, Unrevoked

LEMMA LedgerStep == Typed /\ Ledger /\ [Next]_vars => Ledger'
<1> SUFFICES ASSUME Typed, Ledger, [Next]_vars PROVE Ledger'
  OBVIOUS
<1>1. /\ issued \in 0 .. MaxPairs /\ revoked \in [Process -> SUBSET Pair]
      /\ call \in [Request -> Call]
      /\ Placed
  BY DEF Typed, TypeOK
<1>2. /\ NoPair \notin Pair /\ NoReply \notin Pair
      /\ Idle.token = NoPair /\ Idle.reply = NoReply
  BY NullAssumption DEF Idle
<1>3. ASSUME issued' \in {issued, issued + 1},
             \A p \in Process : \A t \in revoked'[p] :
               t \in revoked[p] \/ \E r \in Request : t = call[r].token,
             jar' = jar \/ \E r \in Request : jar' = call[r].reply,
             \A r \in Request :
               /\ call'[r].token \in {call[r].token, NoPair, jar}
               /\ \/ call'[r].reply \in {call[r].reply, NoPair, NoReply}
                  \/ call'[r].reply = issued'
      PROVE  Ledger'
  <2>1. \A t : Known(t) => Known(t)'
    BY <1>1, <1>3, PairsAssumption DEF Known, Pair
  <2>2. Known(NoPair)' /\ Known(NoReply)' /\ Known(issued)'
    BY <1>1, <1>2, <1>3, PairsAssumption DEF Known, Pair
  <2> QED
    BY <1>3, <2>1, <2>2 DEF Ledger, Known
<1>4. CASE UNCHANGED vars \/ Tick \/ \E p \in Process : Register(p)
  <2>1. UNCHANGED <<issued, revoked, jar, call>>
    BY <1>4 DEF vars, Tick, Register, server, browser
  <2> QED
    BY <1>3, <2>1
<1>5. ASSUME NEW p \in Process, Restart(p) PROVE Ledger'
  <2>1. /\ UNCHANGED <<issued, jar>>
        /\ \A q \in Process : revoked'[q] \subseteq revoked[q]
        /\ \A r \in Request : call'[r] = Idle \/ call'[r] = call[r]
    BY <1>1, <1>5 DEF Restart, browser
  <2> QED
    BY <1>2, <1>3, <2>1
<1>6. ASSUME NEW r \in Request, NEW c, Turns(r, c),
             c.token \in {call[r].token, NoPair, jar},
             \/ c.reply \in {call[r].reply, NoPair, NoReply}
             \/ c.reply = issued'
      PROVE  \A q \in Request :
               /\ call'[q].token \in {call[q].token, NoPair, jar}
               /\ \/ call'[q].reply \in {call[q].reply, NoPair, NoReply}
                  \/ call'[q].reply = issued'
  BY <1>1, <1>6 DEF Turns
<1>7. ASSUME NEW r \in Request, Turns(r, Idle)
      PROVE  \A q \in Request :
               /\ call'[q].token \in {call[q].token, NoPair, jar}
               /\ \/ call'[q].reply \in {call[q].reply, NoPair, NoReply}
                  \/ call'[q].reply = issued'
  BY <1>2, <1>6, <1>7
<1>8. ASSUME NEW r \in Request, Refuse(r)
      PROVE  \A q \in Request :
               /\ call'[q].token \in {call[q].token, NoPair, jar}
               /\ \/ call'[q].reply \in {call[q].reply, NoPair, NoReply}
                  \/ call'[q].reply = issued'
  <2> DEFINE c == [call[r] EXCEPT !.pc = "replied", !.at = NoProcess, !.reply = NoReply]
  <2>1. c.token = call[r].token /\ c.reply = NoReply
    BY <1>1 DEF Call
  <2> HIDE DEF c
  <2>2. Turns(r, c)
    BY <1>8 DEF Refuse, c
  <2> QED
    BY <1>6, <2>1, <2>2
<1>9. ASSUME NEW r \in Request, Issue(r)
      PROVE  /\ issued' = issued + 1
             /\ \A q \in Request :
                  /\ call'[q].token \in {call[q].token, NoPair, jar}
                  /\ \/ call'[q].reply \in {call[q].reply, NoPair, NoReply}
                     \/ call'[q].reply = issued'
  <2> DEFINE c == [call[r] EXCEPT !.pc = "replied", !.at = NoProcess, !.reply = issued']
  <2>1. c.token = call[r].token /\ c.reply = issued'
    BY <1>1 DEF Call
  <2> HIDE DEF c
  <2>2. Turns(r, c) /\ issued' = issued + 1
    BY <1>9 DEF Issue, c
  <2> QED
    BY <1>6, <2>1, <2>2
<1>10. ASSUME NEW r \in Request, NEW p \in Process, Login(r, p) PROVE Ledger'
  <2>1. PICK k \in {"login", "mistyped"} :
          Turns(r, [Idle EXCEPT !.pc = "authenticate", !.kind = k, !.at = p])
    BY <1>10 DEF Login, Begin
  <2> DEFINE c == [Idle EXCEPT !.pc = "authenticate", !.kind = k, !.at = p]
  <2>2. c.token = NoPair /\ c.reply = NoReply
    BY DEF Idle
  <2> HIDE DEF c
  <2>3. Turns(r, c)
    BY <2>1 DEF c
  <2> QED
    BY <1>3, <1>6, <1>10, <2>2, <2>3 DEF Login, server, browser
<1>11. ASSUME NEW r \in Request, Send(r) PROVE Ledger'
  <2>1. PICK k \in {"refresh", "logout"} :
          Turns(r, [Idle EXCEPT !.pc = "sent", !.kind = k, !.token = jar])
    BY <1>11 DEF Send, Begin
  <2> DEFINE c == [Idle EXCEPT !.pc = "sent", !.kind = k, !.token = jar]
  <2>2. c.token = jar /\ c.reply = NoReply
    BY DEF Idle
  <2> HIDE DEF c
  <2>3. Turns(r, c)
    BY <2>1 DEF c
  <2> QED
    BY <1>3, <1>6, <1>11, <2>2, <2>3 DEF Send, server, browser
<1>12. ASSUME NEW r \in Request, NEW p \in Process, Refresh(r, p) PROVE Ledger'
  <2>1. CASE Refuse(r)
    BY <1>3, <1>8, <1>12, <2>1 DEF Refresh, server, browser
  <2>2. CASE ~Refuse(r)
    <3> DEFINE c == [call[r] EXCEPT !.pc = "user", !.at = p]
    <3>1. c.token = call[r].token /\ c.reply = call[r].reply
      BY <1>1 DEF Call
    <3> HIDE DEF c
    <3>2. Turns(r, c)
      BY <1>12, <2>2 DEF Refresh, c
    <3> QED
      BY <1>3, <1>6, <1>12, <3>1, <3>2 DEF Refresh, server, browser
  <2> QED
    BY <2>1, <2>2
<1>13. ASSUME NEW r \in Request, NEW p \in Process, Logout(r, p) PROVE Ledger'
  <2>1. /\ UNCHANGED <<issued, jar>>
        /\ \A q \in Process : \A t \in revoked'[q] :
             t \in revoked[q] \/ \E s \in Request : t = call[s].token
    BY <1>1, <1>13 DEF Logout, browser
  <2>2. CASE Refuse(r)
    BY <1>3, <1>8, <2>1, <2>2
  <2>3. CASE ~Refuse(r)
    <3> DEFINE c == [call[r] EXCEPT !.pc = "replied", !.reply = NoPair]
    <3>1. c.token = call[r].token /\ c.reply = NoPair
      BY <1>1 DEF Call
    <3> HIDE DEF c
    <3>2. Turns(r, c)
      BY <1>13, <2>3 DEF Logout, c
    <3> QED
      BY <1>3, <1>6, <2>1, <3>1, <3>2
  <2> QED
    BY <2>2, <2>3
<1>14. ASSUME NEW r \in Request, Exchange(r) \/ Authenticated(r) PROVE Ledger'
  <2>1. /\ Issue(r) /\ UNCHANGED jar
        /\ \A q \in Process : \A t \in revoked'[q] :
             t \in revoked[q] \/ \E s \in Request : t = call[s].token
    BY <1>1, <1>14 DEF Exchange, Authenticated, browser
  <2> QED
    BY <1>3, <1>9, <2>1
<1>15. ASSUME NEW r \in Request,
              Mistyped(r) \/ QueryFails(r) \/ Parse(r) \/ ConnectionFails(r) \/ TabClosed(r)
       PROVE  Ledger'
  <2>1. UNCHANGED <<issued, revoked, jar>> /\ (Turns(r, Idle) \/ Refuse(r))
    BY <1>15 DEF Mistyped, QueryFails, Parse, ConnectionFails, TabClosed, server, browser
  <2> QED
    BY <1>3, <1>7, <1>8, <2>1
<1>16. ASSUME NEW r \in Request, Receive(r) PROVE Ledger'
  <2> DEFINE c == [call[r] EXCEPT !.pc = "parse"]
  <2>1. c.token = call[r].token /\ c.reply = call[r].reply
    BY <1>1 DEF Call
  <2> HIDE DEF c
  <2>2. Turns(r, c)
    BY <1>16 DEF Receive, c
  <2>3. UNCHANGED <<issued, revoked>> /\ jar' \in {jar, call[r].reply}
    BY <1>16 DEF Receive, server
  <2> QED
    BY <1>3, <1>6, <2>1, <2>2, <2>3
<1> QED
  BY <1>4, <1>5, <1>10, <1>11, <1>12, <1>13, <1>14, <1>15, <1>16 DEF Next, Handle, Page

\* A step of the only call, or of the first one.
LEMMA OneTurn ==
  ASSUME Typed, Sessions, course # "rough",
         NEW r \in Request, AtRest \/ call[r].pc # "idle", NEW c, Turns(r, c)
  PROVE  /\ call'[r] = c
         /\ \A q \in Request \ {r} : call'[q].pc = "idle"
<1>1. call \in [Request -> Call] /\ Alone
  BY DEF Typed, TypeOK, Sessions
<1> QED
  BY <1>1 DEF Turns, Alone, AtRest

\* A step that leaves one call under way.
LEMMA StillUnderway ==
  ASSUME NEW r \in Request, \A q \in Request \ {r} : call'[q].pc = "idle",
         call'[r].pc # "idle", Underway(r)'
  PROVE  Sessions'
<1>1. Alone' /\ ~AtRest'
  BY DEF Alone, AtRest
<1>2. \A q \in Request : Underway(q)'
  BY DEF Underway
<1> QED
  BY <1>1, <1>2 DEF Sessions

\* A step that leaves none.
LEMMA Settled ==
  ASSUME \A q \in Request : call'[q].pc = "idle", course' = "smooth", Whole'
  PROVE  Sessions'
<1>1. Alone' /\ \A q \in Request : Underway(q)'
  BY DEF Alone, Underway
<1> QED
  BY <1>1 DEF Sessions

LEMMA SessionsStep == Typed /\ Ledger /\ Sessions /\ [Next]_vars => Sessions'
<1> SUFFICES ASSUME Typed, Ledger, Sessions, [Next]_vars, course' # "rough" PROVE Sessions'
  BY DEF Sessions
<1>1. /\ issued \in 0 .. MaxPairs /\ revoked \in [Process -> SUBSET Pair]
      /\ call \in [Request -> Call] /\ course \in {"smooth", "rough", "mending"}
      /\ Placed
  BY DEF Typed, TypeOK
<1>2. /\ NoPair \notin Pair /\ NoReply \notin Pair /\ NoPair # NoReply
      /\ Idle.pc = "idle"
  BY NullAssumption DEF Idle
<1>3. ASSUME course # "rough"
      PROVE  /\ Alone /\ (AtRest => course = "smooth" /\ Whole)
             /\ \A r \in Request : Underway(r)
  BY <1>3 DEF Sessions
<1>4. CASE UNCHANGED vars \/ Tick \/ \E p \in Process : Register(p)
  <2>1. UNCHANGED <<revoked, jar, stored, call, course>>
    BY <1>4 DEF vars, Tick, Register, server, browser
  <2>2. course # "rough"
    BY <2>1
  <2>3. \A r \in Request : Underway(r)'
    BY <1>3, <2>1, <2>2 DEF Underway, Whole, Unrevoked, SavedAfter
  <2> QED
    BY <1>3, <2>1, <2>2, <2>3 DEF Sessions, Alone, AtRest, Whole, Unrevoked
<1>5. ASSUME NEW p \in Process, Restart(p) PROVE Sessions'
  <2>1. {r \in Request : call[r].at = p} = {} /\ course' = course
    BY <1>5 DEF Restart
  <2>2. call' = call
    BY <1>1, <1>5, <2>1 DEF Restart
  <2>3. UNCHANGED <<jar, stored>> /\ \A q \in Process : revoked'[q] \subseteq revoked[q]
    BY <1>1, <1>5 DEF Restart, browser
  <2>4. \A t : Unrevoked(t) => Unrevoked(t)'
    BY <2>3 DEF Unrevoked
  <2>5. \A r \in Request : SavedAfter(r)' = SavedAfter(r)
    BY <2>2 DEF SavedAfter
  <2>6. Whole => Whole'
    BY <2>3, <2>4 DEF Whole, Unrevoked
  <2>7. \A r \in Request : Underway(r)'
    <3> TAKE r \in Request
    <3>1. Underway(r)
      BY <1>3, <2>1
    <3>2. call[r].pc = "replied" => Unrevoked(SavedAfter(r))'
      BY <2>3, <2>5, <3>1 DEF Underway, Unrevoked
    <3>3. call[r].pc = "parse" => Unrevoked(jar)'
      BY <2>3, <3>1 DEF Underway, Unrevoked
    <3> QED
      BY <2>1, <2>2, <2>3, <2>5, <2>6, <3>1, <3>2, <3>3 DEF Underway
  <2>8. (Alone => Alone') /\ (AtRest' => AtRest)
    BY <2>2 DEF Alone, AtRest
  <2> QED
    BY <1>3, <2>1, <2>6, <2>7, <2>8 DEF Sessions
<1>6. ASSUME NEW r \in Request, NEW p \in Process, Login(r, p) PROVE Sessions'
  <2>1. PICK k \in {"login", "mistyped"} :
          Begin(r, [Idle EXCEPT !.pc = "authenticate", !.kind = k, !.at = p])
    BY <1>6 DEF Login
  <2> DEFINE c == [Idle EXCEPT !.pc = "authenticate", !.kind = k, !.at = p]
  <2>2. c.pc = "authenticate"
    BY DEF Idle
  <2> HIDE DEF c
  <2>3. AtRest /\ Turns(r, c)
    BY <2>1 DEF Begin, c
  <2>4. \A q \in Request \ {r} : call'[q].pc = "idle"
    BY <1>1, <2>3 DEF Turns, AtRest
  <2>5. call'[r] = c
    BY <1>1, <2>3 DEF Turns
  <2>6. UNCHANGED <<revoked, jar, stored>>
    BY <1>6 DEF Login, server, browser
  <2>7. course' = "smooth" => course = "smooth"
    BY <2>1, <2>3 DEF Begin
  <2>8. Underway(r)'
    BY <1>3, <2>2, <2>3, <2>5, <2>6, <2>7 DEF Underway, Whole, Unrevoked
  <2> QED
    BY <2>2, <2>4, <2>5, <2>8, StillUnderway
<1>7. ASSUME NEW r \in Request, Send(r) PROVE Sessions'
  <2>1. PICK k \in {"refresh", "logout"} :
          Begin(r, [Idle EXCEPT !.pc = "sent", !.kind = k, !.token = jar])
    BY <1>7 DEF Send
  <2> DEFINE c == [Idle EXCEPT !.pc = "sent", !.kind = k, !.token = jar]
  <2>2. c.pc = "sent" /\ c.kind = k /\ c.token = jar
    BY DEF Idle
  <2> HIDE DEF c
  <2>3. AtRest /\ Turns(r, c) /\ course' = course
    BY <2>1, <2>2 DEF Begin, c
  <2>4. \A q \in Request \ {r} : call'[q].pc = "idle"
    BY <1>1, <2>3 DEF Turns, AtRest
  <2>5. call'[r] = c
    BY <1>1, <2>3 DEF Turns
  <2>6. UNCHANGED <<revoked, jar, stored>>
    BY <1>7 DEF Send, server, browser
  <2>7. course = "smooth" /\ Whole
    BY <1>3, <2>3
  <2>8. Underway(r)'
    BY <2>1, <2>2, <2>3, <2>5, <2>6, <2>7 DEF Underway, Whole, Unrevoked
  <2> QED
    BY <2>2, <2>4, <2>5, <2>8, StillUnderway
<1>8. ASSUME NEW r \in Request, NEW c, call[r].pc # "idle", Turns(r, c), course # "rough"
      PROVE  call'[r] = c /\ \A q \in Request \ {r} : call'[q].pc = "idle"
  BY <1>8, OneTurn
<1>9. ASSUME NEW r \in Request, call[r].pc # "idle", Turns(r, Idle), course # "rough"
      PROVE  \A q \in Request : call'[q].pc = "idle"
  BY <1>2, <1>8, <1>9
<1>10. ASSUME NEW r \in Request, call[r].pc # "idle", Refuse(r), course # "rough"
       PROVE  /\ call'[r].pc = "replied" /\ call'[r].kind = call[r].kind
              /\ call'[r].reply = NoReply
              /\ \A q \in Request \ {r} : call'[q].pc = "idle"
  <2> DEFINE c == [call[r] EXCEPT !.pc = "replied", !.at = NoProcess, !.reply = NoReply]
  <2>1. c.pc = "replied" /\ c.kind = call[r].kind /\ c.reply = NoReply
    BY <1>1 DEF Call
  <2> HIDE DEF c
  <2>2. Turns(r, c)
    BY <1>10 DEF Refuse, c
  <2> QED
    BY <1>8, <1>10, <2>1, <2>2
<1>11. ASSUME NEW r \in Request, call[r].pc # "idle", Issue(r), course # "rough"
       PROVE  /\ call'[r].pc = "replied" /\ call'[r].kind = call[r].kind
              /\ call'[r].reply = issued + 1 /\ issued + 1 \in Pair
              /\ \A q \in Request \ {r} : call'[q].pc = "idle"
  <2> DEFINE c == [call[r] EXCEPT !.pc = "replied", !.at = NoProcess, !.reply = issued']
  <2>1. c.pc = "replied" /\ c.kind = call[r].kind /\ c.reply = issued'
    BY <1>1 DEF Call
  <2> HIDE DEF c
  <2>2. Turns(r, c) /\ issued' = issued + 1
    BY <1>11 DEF Issue, c
  <2>3. issued + 1 \in Pair
    BY <1>1, <1>11, PairsAssumption DEF Issue, Pair
  <2> QED
    BY <1>8, <1>11, <2>1, <2>2, <2>3
<1>12. \A p \in Process : \A t \in revoked[p] : t # issued + 1
  <2> SUFFICES ASSUME NEW p \in Process, NEW t \in revoked[p] PROVE t # issued + 1
    OBVIOUS
  <2>1. t \in Pair /\ t <= issued
    BY <1>1 DEF Ledger, Known
  <2> QED
    BY <1>1, <2>1 DEF Pair
<1>13. ASSUME NEW r \in Request, Authenticated(r) PROVE Sessions'
  <2>1. /\ Issue(r) /\ call[r].pc # "idle" /\ call[r].kind = "login"
        /\ UNCHANGED <<revoked, jar, course>>
    BY <1>13 DEF Authenticated, browser
  <2>2. /\ call'[r].pc = "replied" /\ call'[r].kind = "login"
        /\ call'[r].reply = issued + 1 /\ issued + 1 \in Pair
        /\ \A q \in Request \ {r} : call'[q].pc = "idle"
    BY <1>11, <2>1
  <2>3. SavedAfter(r)' = issued + 1 /\ issued + 1 # NoReply
    BY <1>2, <2>2 DEF SavedAfter
  <2>4. Underway(r)'
    BY <1>12, <2>1, <2>2, <2>3 DEF Underway, Unrevoked
  <2> QED
    BY <2>2, <2>4, StillUnderway
<1>14. ASSUME NEW r \in Request, Mistyped(r) \/ QueryFails(r) PROVE Sessions'
  <2>1. /\ call[r].pc = "authenticate" /\ Turns(r, Idle) /\ course' = Rough
        /\ UNCHANGED <<revoked, jar, stored>>
    BY <1>14 DEF Mistyped, QueryFails, server, browser
  <2>2. course = "smooth" /\ course' = "smooth"
    BY <2>1 DEF Rough
  <2>3. \A q \in Request : call'[q].pc = "idle"
    BY <1>9, <2>1, <2>2
  <2>4. Whole'
    BY <1>3, <2>1, <2>2 DEF Underway, Whole, Unrevoked
  <2> QED
    BY <2>2, <2>3, <2>4, Settled
<1>15. ASSUME NEW r \in Request, NEW p \in Process, Refresh(r, p) PROVE Sessions'
  <2>1. /\ call[r].pc = "sent" /\ call[r].kind = "refresh"
        /\ UNCHANGED <<revoked, jar, stored, course>>
    BY <1>15 DEF Refresh, server, browser
  <2>2. course = "smooth" /\ Whole /\ call[r].token = jar
    BY <1>3, <2>1 DEF Underway
  <2>3. CASE Accepts(r, p) /\ Turns(r, [call[r] EXCEPT !.pc = "user", !.at = p])
    <3> DEFINE c == [call[r] EXCEPT !.pc = "user", !.at = p]
    <3>1. c.pc = "user" /\ c.kind = "refresh" /\ c.token = jar
      BY <1>1, <2>1, <2>2 DEF Call
    <3> HIDE DEF c
    <3>2. Turns(r, c)
      BY <2>3 DEF c
    <3>3. call'[r] = c /\ \A q \in Request \ {r} : call'[q].pc = "idle"
      BY <1>8, <2>1, <2>2, <3>2
    <3>4. Underway(r)'
      BY <2>1, <2>2, <3>1, <3>3 DEF Underway, Whole, Unrevoked
    <3> QED
      BY <3>1, <3>3, <3>4, StillUnderway
  <2>4. CASE ~Accepts(r, p) /\ Refuse(r)
    <3>1. jar = NoPair
      BY <2>2, <2>4 DEF Accepts, Whole, Unrevoked
    <3>2. /\ call'[r].pc = "replied" /\ call'[r].reply = NoReply
          /\ \A q \in Request \ {r} : call'[q].pc = "idle"
      BY <1>10, <2>1, <2>2, <2>4
    <3>3. SavedAfter(r)' = jar'
      BY <2>1, <3>1, <3>2 DEF SavedAfter
    <3>4. Underway(r)'
      BY <2>1, <2>2, <3>2, <3>3 DEF Underway, Whole, Unrevoked
    <3> QED
      BY <3>2, <3>4, StillUnderway
  <2> QED
    BY <1>15, <2>3, <2>4 DEF Refresh
<1>16. ASSUME NEW r \in Request, Exchange(r) PROVE Sessions'
  <2>1. /\ call[r].pc = "user" /\ Issue(r) /\ UNCHANGED <<jar, course>>
        /\ revoked' = [revoked EXCEPT ![call[r].at] = @ \cup {call[r].token}]
    BY <1>16 DEF Exchange, browser
  <2>2. course = "smooth" /\ call[r].kind = "refresh"
    BY <1>1, <1>3, <2>1 DEF Underway
  <2>3. /\ call'[r].pc = "replied" /\ call'[r].kind = "refresh"
        /\ call'[r].reply = issued + 1 /\ issued + 1 \in Pair
        /\ \A q \in Request \ {r} : call'[q].pc = "idle"
    BY <1>11, <2>1, <2>2
  <2>4. call[r].token # issued + 1
    BY <1>1, <2>3 DEF Ledger, Known, Pair
  <2>5. SavedAfter(r)' = issued + 1 /\ issued + 1 # NoReply
    BY <1>2, <2>3 DEF SavedAfter
  <2>6. \A p \in Process : issued + 1 \notin revoked'[p]
    BY <1>1, <1>12, <2>1, <2>4
  <2>7. Underway(r)'
    BY <2>1, <2>3, <2>5, <2>6 DEF Underway, Unrevoked
  <2> QED
    BY <2>3, <2>7, StillUnderway
<1>17. ASSUME NEW r \in Request, NEW p \in Process, Logout(r, p) PROVE Sessions'
  <2>1. /\ call[r].pc = "sent" /\ call[r].kind = "logout" /\ UNCHANGED <<jar, stored, course>>
    BY <1>17 DEF Logout, browser
  <2>2. course = "smooth" /\ Whole /\ call[r].token = jar
    BY <1>3, <2>1 DEF Underway
  <2>3. \A q \in Process : revoked'[q] \subseteq Pair
    BY <1>1, <1>17 DEF Logout, Call
  <2>4. CASE Turns(r, [call[r] EXCEPT !.pc = "replied", !.reply = NoPair])
    <3> DEFINE c == [call[r] EXCEPT !.pc = "replied", !.reply = NoPair]
    <3>1. c.pc = "replied" /\ c.kind = "logout" /\ c.reply = NoPair
      BY <1>1, <2>1 DEF Call
    <3> HIDE DEF c
    <3>2. Turns(r, c)
      BY <2>4 DEF c
    <3>3. call'[r] = c /\ \A q \in Request \ {r} : call'[q].pc = "idle"
      BY <1>8, <2>1, <2>2, <3>2
    <3>4. SavedAfter(r)' = NoPair
      BY <3>1, <3>3 DEF SavedAfter
    <3>5. Underway(r)'
      BY <1>2, <2>3, <3>1, <3>3, <3>4 DEF Underway, Unrevoked
    <3> QED
      BY <3>1, <3>3, <3>5, StillUnderway
  <2>5. CASE call[r].token = NoPair /\ Refuse(r)
    <3>1. /\ call'[r].pc = "replied" /\ call'[r].reply = NoReply
          /\ \A q \in Request \ {r} : call'[q].pc = "idle"
      BY <1>10, <2>1, <2>2, <2>5
    <3>2. SavedAfter(r)' = NoPair /\ jar' = NoPair
      BY <2>1, <2>2, <2>5, <3>1 DEF SavedAfter
    <3>3. Underway(r)'
      BY <1>2, <2>3, <3>1, <3>2 DEF Underway, Unrevoked
    <3> QED
      BY <3>1, <3>3, StillUnderway
  <2> QED
    BY <1>17, <2>4, <2>5 DEF Logout
<1>18. ASSUME NEW r \in Request, Receive(r) PROVE Sessions'
  <2>1. /\ call[r].pc = "replied" /\ Turns(r, [call[r] EXCEPT !.pc = "parse"])
        /\ jar' = IF call[r].reply = NoReply THEN jar ELSE call[r].reply
        /\ UNCHANGED <<revoked, course>>
    BY <1>18 DEF Receive, server
  <2> DEFINE c == [call[r] EXCEPT !.pc = "parse"]
  <2>2. c.pc = "parse" /\ c.kind = call[r].kind /\ c.reply = call[r].reply
    BY <1>1 DEF Call
  <2> HIDE DEF c
  <2>3. Turns(r, c)
    BY <2>1 DEF c
  <2>4. call'[r] = c /\ \A q \in Request \ {r} : call'[q].pc = "idle"
    BY <1>8, <2>1, <2>3
  <2>5. SavedAfter(r)' = SavedAfter(r)
    BY <2>2, <2>4 DEF SavedAfter
  <2>6. jar' = SavedAfter(r) /\ Unrevoked(SavedAfter(r))
    BY <1>3, <2>1 DEF Underway
  <2>7. Underway(r)'
    BY <2>1, <2>2, <2>4, <2>5, <2>6 DEF Underway, Unrevoked
  <2> QED
    BY <2>2, <2>4, <2>7, StillUnderway
<1>19. ASSUME NEW r \in Request, Parse(r) PROVE Sessions'
  <2>1. /\ call[r].pc = "parse" /\ Turns(r, Idle) /\ stored' = SavedAfter(r)
        /\ course' = IF course = "mending" THEN "smooth" ELSE course
        /\ UNCHANGED <<revoked, jar>>
    BY <1>19 DEF Parse, server
  <2>2. course # "rough" /\ course' = "smooth"
    BY <1>1, <2>1
  <2>3. jar = SavedAfter(r) /\ Unrevoked(jar)
    BY <1>3, <2>1, <2>2 DEF Underway
  <2>4. Whole'
    BY <2>1, <2>3 DEF Whole, Unrevoked
  <2>5. \A q \in Request : call'[q].pc = "idle"
    BY <1>9, <2>1, <2>2
  <2> QED
    BY <2>2, <2>4, <2>5, Settled
<1>20. ASSUME NEW r \in Request, ConnectionFails(r) \/ TabClosed(r) PROVE FALSE
  BY <1>20 DEF ConnectionFails, TabClosed
<1> QED
  BY <1>4, <1>5, <1>6, <1>7, <1>13, <1>14, <1>15, <1>16, <1>17, <1>18, <1>19, <1>20
     DEF Next, Handle, Page

\* As long as the calls do not overlap or fail, the browser at rest is logged out,
\* or its writes are accepted and its next refresh succeeds in any process.
THEOREM SessionsContinue == Spec => []SessionContinues
<1>1. Sessions => SessionContinues
  BY DEF Sessions, SessionContinues, Whole, Unrevoked, WriteAccepted
<1>2. Init => Typed /\ Ledger /\ Sessions
  BY TypeInit, SessionsInit
<1>3. Typed /\ Ledger /\ Sessions /\ [Next]_vars => (Typed /\ Ledger /\ Sessions)'
  BY TypeStep, LedgerStep, SessionsStep
<1> QED
  BY <1>1, <1>2, <1>3, PTL DEF Spec
=============================================================================
