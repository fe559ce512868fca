---------------------------- MODULE WriteLimiter ----------------------------
(***************************************************************************)
(* _is_rate_limited of backend/app/core/middleware.py: every write request *)
(* increments a Redis key of its tenant and address, whichever process     *)
(* gets it; the one that creates the key makes it expire.  These are two   *)
(* commands.  If Redis raises, the request is let in.                      *)
(***************************************************************************)
EXTENDS Naturals

CONSTANTS
  Request,    \* slots for the write requests
  MaxWrites,  \* WRITE_LIMIT_MAX_PER_WINDOW (120)
  LimitTicks, \* WRITE_LIMIT_WINDOW_SECONDS (60)
  NoExpiry    \* null value

ASSUME LimitAssumption ==
  /\ MaxWrites \in Nat \ {0} /\ LimitTicks \in Nat \ {0}
  /\ NoExpiry \notin Nat

VARIABLES
  count,    \* the key's value, 0 if it does not exist
  ttl,      \* its time to live, or NoExpiry
  creating, \* requests between INCR and EXPIRE
  lasting   \* history: an EXPIRE was not applied

limiter == <<count, ttl, creating, lasting>>

LimiterTypeOK ==
  /\ count \in 0 .. MaxWrites + 1
  /\ ttl \in 1 .. LimitTicks \cup {NoExpiry}
  /\ creating \subseteq Request
  /\ lasting \in BOOLEAN

LimiterInit ==
  /\ count = 0
  /\ ttl = NoExpiry
  /\ creating = {}
  /\ lasting = FALSE

-----------------------------------------------------------------------------

\* INCR.  Bound: values above the maximum are not told apart.
Incremented == IF count > MaxWrites THEN count ELSE count + 1

\* The key was there: the answer decides.
CountedIn(r) ==
  /\ r \notin creating /\ count \in 1 .. MaxWrites - 1
  /\ count' = Incremented
  /\ UNCHANGED <<ttl, creating, lasting>>

\* Variant for the run's mutants: EXPIRE after every INCR.
TurnedAwayForever(r) ==
  /\ r \notin creating /\ count >= MaxWrites
  /\ count' = Incremented
  /\ ttl' = LimitTicks
  /\ UNCHANGED <<creating, lasting>>

\* 429.
TurnedAway(r) ==
  /\ r \notin creating /\ count >= MaxWrites
  /\ count' = Incremented
  /\ UNCHANGED <<ttl, creating, lasting>>

\* Variant for the run's mutants: EXPIRE is never called.
CreateKeyForGood(r) ==
  /\ r \notin creating /\ count = 0
  /\ count' = Incremented
  /\ UNCHANGED <<ttl, creating, lasting>>

\* The answer is 1.
CreateKey(r) ==
  /\ r \notin creating /\ count = 0
  /\ count' = Incremented
  /\ creating' = creating \cup {r}
  /\ UNCHANGED <<ttl, lasting>>

\* EXPIRE.
SetExpiry(r) ==
  /\ r \in creating
  /\ ttl' = LimitTicks
  /\ creating' = creating \ {r}
  /\ UNCHANGED <<count, lasting>>

\* The request goes on without a limit, or its process dies: INCR or EXPIRE may
\* have been applied or not.
RedisFails(r) ==
  \/ /\ r \notin creating
     /\ count' \in {count, Incremented}
     /\ lasting' = (lasting \/ (count = 0 /\ count' = 1))
     /\ UNCHANGED <<ttl, creating>>
  \/ /\ r \in creating
     /\ creating' = creating \ {r}
     /\ \/ ttl' = LimitTicks /\ UNCHANGED lasting
        \/ lasting' = TRUE /\ UNCHANGED ttl
     /\ UNCHANGED count

\* Variant for the run's mutants: the key outlives its time to live.
KeyOutlives ==
  /\ ttl # NoExpiry
  /\ ttl' = IF ttl = 0 THEN NoExpiry ELSE ttl - 1
  /\ count' = IF ttl = 0 THEN 0 ELSE count
  /\ UNCHANGED <<creating, lasting>>

\* Time passes for the key.
KeyAges ==
  /\ ttl # NoExpiry
  /\ ttl' = IF ttl = 1 THEN NoExpiry ELSE ttl - 1
  /\ count' = IF ttl = 1 THEN 0 ELSE count
  /\ UNCHANGED <<creating, lasting>>
=============================================================================
