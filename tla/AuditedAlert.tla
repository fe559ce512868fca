---------------------------- MODULE AuditedAlert ----------------------------
(***************************************************************************)
(* What triage promises: an alert and its audit trail change together, in  *)
(* one step, and nothing but the closing of an incident changes an alert   *)
(* without a trace.                                                         *)
(***************************************************************************)
EXTENDS AlertRecords

VARIABLES
  alerts,  \* the committed rows
  audit    \* the committed audit entries of each alert, in commit order

Init ==
  /\ alerts = [a \in Alert |-> Absent]
  /\ audit = [a \in Alert |-> <<>>]

Create(a) ==
  /\ alerts[a] = Absent
  /\ \E s \in Severity : alerts' = [alerts EXCEPT ![a] = Fresh(s)]
  /\ UNCHANGED audit

Triage(a) ==
  /\ alerts[a] # Absent
  /\ Len(audit'[a]) = Len(audit[a]) + 1
  /\ LET e == audit'[a][Len(audit[a]) + 1] IN
       /\ e \in Entry
       /\ audit' = [audit EXCEPT ![a] = Append(@, e)]
       /\ alerts' = [alerts EXCEPT ![a] = Applied(@, e)]

Close(a) ==
  /\ alerts[a] # Absent
  /\ alerts' = [alerts EXCEPT ![a].status = "closed"]
  /\ UNCHANGED audit

Next == \E a \in Alert : Create(a) \/ Triage(a) \/ Close(a)

Spec == Init /\ [][Next]_<<alerts, audit>>
=============================================================================
