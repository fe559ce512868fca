---------------------------- MODULE LoginThrottle ----------------------------
(***************************************************************************)
(* AuthAttemptTracker of backend/app/api/v1/auth.py: each API process       *)
(* counts failed logins and registrations in memory and locks a scope that *)
(* reaches the maximum within a window.                                    *)
(*                                                                         *)
(* A scope is an (e-mail, address) pair, with the tenant for logins.  Time  *)
(* is kept relative to now: the age of an attempt and what is left of a    *)
(* lockout, moved on by Tick.  The code drops what has aged out the next   *)
(* time it looks at a scope; nothing reads it before, so Tick drops it.    *)
(***************************************************************************)
EXTENDS Integers, FiniteSets, Sequences

CONSTANTS
  Process,      \* API processes (uvicorn)
  Scope,        \* keys of the dictionaries of one process
  MaxAttempts,  \* login_max_attempts (5)
  WindowTicks,  \* login_window_seconds (60)
  LockoutTicks  \* login_lockout_seconds (900)

ASSUME LimitAssumption == MaxAttempts \in Nat \ {0}
ASSUME TimeAssumption ==
  /\ WindowTicks \in Nat \ {0} /\ LockoutTicks \in Nat \ {0}
  /\ WindowTicks < LockoutTicks

VARIABLES
  attempts, \* _login_failures, _register_attempts: ages, oldest first
  lockout,  \* _login_lockouts, _register_lockouts: time left, 0 if none
  granted   \* history: ages of the attempts that were recorded and let through

throttle == <<attempts, lockout, granted>>

ThrottleTypeOK ==
  /\ attempts \in [Process -> [Scope -> Seq(Nat)]]
  /\ lockout \in [Process -> [Scope -> 0 .. LockoutTicks]]
  /\ granted \in [Process -> [Scope -> Seq(Nat)]]

Forgotten == [s \in Scope |-> <<>>]
Unlocked  == [s \in Scope |-> 0]

ThrottleInit ==
  /\ attempts = [p \in Process |-> Forgotten]
  /\ lockout = [p \in Process |-> Unlocked]
  /\ granted = [p \in Process |-> Forgotten]

-----------------------------------------------------------------------------

\* Variant for the run's mutants: a lockout is over one tick too early.
AlmostOver(p, s) == lockout[p][s] > 1

\* login_retry_after_seconds and register_retry_after_seconds: _consume_lockout.
Locked(p, s) == lockout[p][s] > 0

\* Variant for the run's mutants: the maximum is let through as well.
WithinLimit(active) == Len(active) <= MaxAttempts

BelowLimit(active) == Len(active) < MaxAttempts

\* _record_attempt: the attempt that reaches the maximum locks the scope and is
\* not let through.
RecordAttempt(p, s) ==
  LET active == Append(attempts[p][s], 0) IN
  IF BelowLimit(active)
    THEN /\ attempts' = [attempts EXCEPT ![p][s] = active]
         /\ granted' = [granted EXCEPT ![p][s] = Append(@, 0)]
         /\ UNCHANGED lockout
    ELSE /\ attempts' = [attempts EXCEPT ![p][s] = <<>>]
         /\ lockout' = [lockout EXCEPT ![p][s] = LockoutTicks]
         /\ UNCHANGED granted

\* record_login_failure and record_register_attempt.
Record(p, s) ==
  \/ Locked(p, s) /\ UNCHANGED throttle
  \/ ~Locked(p, s) /\ RecordAttempt(p, s)

\* reset_login_failures.
Reset(p, s) ==
  /\ attempts' = [attempts EXCEPT ![p][s] = <<>>]
  /\ lockout' = [lockout EXCEPT ![p][s] = 0]
  /\ granted' = [granted EXCEPT ![p][s] = <<>>]

\* _prune_attempts, one tick later: what leaves the window is dropped, and the
\* oldest attempts come first.
Aged(ages) ==
  LET expired == Cardinality({k \in DOMAIN ages : ages[k] >= WindowTicks}) IN
  [k \in 1 .. Len(ages) - expired |-> ages[k + expired] + 1]

\* Time passes.
Elapse ==
  /\ attempts' = [p \in Process |-> [s \in Scope |-> Aged(attempts[p][s])]]
  /\ lockout' = [p \in Process |-> [s \in Scope |-> IF Locked(p, s) THEN lockout[p][s] - 1 ELSE 0]]
  /\ granted' = [p \in Process |-> [s \in Scope |-> Aged(granted[p][s])]]

\* A new process starts with a new tracker.
Forget(p) ==
  /\ attempts' = [attempts EXCEPT ![p] = Forgotten]
  /\ lockout' = [lockout EXCEPT ![p] = Unlocked]
  /\ granted' = [granted EXCEPT ![p] = Forgotten]
=============================================================================
