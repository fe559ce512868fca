---------------------------- MODULE NotifiedAlert ----------------------------
(***************************************************************************)
(* What the alert queue promises of the alerts in the table, whatever fails *)
(* and however often its tasks are run again: nobody is notified of an      *)
(* alert that is not committed, or whose creation should be on record and   *)
(* is not; one pass at a time takes an alert to its channels, in order;     *)
(* what a channel answered is on record before the next one is tried; and   *)
(* an alert counts as dispatched only at the end of a pass.                 *)
(***************************************************************************)
EXTENDS Naturals, Sequences

CONSTANTS
  Alert,     \* alerts that there may be
  Channel,   \* channels
  Recorded,  \* the alerts whose creation goes on record
  Route      \* Route[a]: the channels of a, in order

VARIABLES
  alerts,    \* alerts in the table
  created,   \* alerts whose creation is on record
  at,        \* at[a]: the channel the pass with a is at, 0 without a pass
  answer,    \* what that channel answered, "none" before it does
  sent,      \* notifications that reached the channel
  confirmed, \* answers on record, per alert and channel
  refused,
  done       \* alerts that count as dispatched

vars == <<alerts, created, at, answer, sent, confirmed, refused, done>>

Init ==
  /\ alerts = {} /\ created = {}
  /\ at = [a \in Alert |-> 0]
  /\ answer = [a \in Alert |-> "none"]
  /\ sent = [n \in Alert \X Channel |-> 0]
  /\ confirmed = [n \in Alert \X Channel |-> 0]
  /\ refused = [n \in Alert \X Channel |-> 0]
  /\ done = {}

Insert ==
  /\ \E S \in SUBSET Alert : alerts' = alerts \cup S
  /\ UNCHANGED <<created, at, answer, sent, confirmed, refused, done>>

\* The creation goes on record; a pass may begin with that.
Record(a) ==
  /\ a \in alerts
  /\ created' = created \cup {a}
  /\ UNCHANGED <<alerts, at, answer, sent, confirmed, refused, done>>

Begin(a) ==
  /\ a \in alerts /\ at[a] = 0
  /\ created' \in {created, created \cup {a}}
  /\ a \in Recorded => a \in created'
  /\ at' = [at EXCEPT ![a] = 1]
  /\ UNCHANGED <<alerts, answer, sent, confirmed, refused, done>>

Target(a) == <<a, Route[a][at[a]]>>
Count(f, n) == [f EXCEPT ![n] = @ + 1]

\* A notification may arrive although the channel seems to have failed.
Notify(a) ==
  /\ at[a] \in DOMAIN Route[a] /\ answer[a] = "none"
  /\ \/ sent' = Count(sent, Target(a)) /\ answer' = [answer EXCEPT ![a] = "delivered"]
     \/ sent' \in {sent, Count(sent, Target(a))} /\ answer' = [answer EXCEPT ![a] = "failed"]
  /\ UNCHANGED <<alerts, created, at, confirmed, refused, done>>

\* The answer goes on record.
OnRecord(a) ==
  \/ /\ answer[a] = "delivered"
     /\ confirmed' = Count(confirmed, Target(a)) /\ UNCHANGED refused
  \/ /\ answer[a] = "failed"
     /\ refused' = Count(refused, Target(a)) /\ UNCHANGED confirmed

Advance(a) ==
  /\ OnRecord(a)
  /\ at' = [at EXCEPT ![a] = @ + 1]
  /\ answer' = [answer EXCEPT ![a] = "none"]
  /\ UNCHANGED <<alerts, created, sent, done>>

Finish(a) ==
  /\ at[a] > Len(Route[a])
  /\ at' = [at EXCEPT ![a] = 0]
  /\ done' = done \cup {a}
  /\ UNCHANGED <<alerts, created, answer, sent, confirmed, refused>>

\* The pass fails; the answer may still have gone on record.
GiveUp(a) ==
  /\ at[a] # 0
  /\ OnRecord(a) \/ UNCHANGED <<confirmed, refused>>
  /\ at' = [at EXCEPT ![a] = 0]
  /\ answer' = [answer EXCEPT ![a] = "none"]
  /\ UNCHANGED <<alerts, created, sent, done>>

Next ==
  \/ Insert
  \/ \E a \in Alert :
       Record(a) \/ Begin(a) \/ Notify(a) \/ Advance(a) \/ Finish(a) \/ GiveUp(a)

Spec == Init /\ [][Next]_vars
=============================================================================
