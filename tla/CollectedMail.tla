---------------------------- MODULE CollectedMail ----------------------------
(***************************************************************************)
(* What the collector promises of the mails of a mailbox, whatever fails    *)
(* and however many of its runs overlap: a mail is gone through by one pass *)
(* at a time and once per life of its key, part by part in order; an XML    *)
(* part is handed to the parse queue after it has been stored, once in a    *)
(* pass; and a mail counts as processed only at the end of a pass.          *)
(***************************************************************************)
EXTENDS Naturals, Sequences

CONSTANTS
  Message,    \* mails
  Parts,      \* Parts[m]: the parts of m in order: "xml", "other" or "corrupt"
  Object      \* names of stored parts; number 0 is a mail without parts

VARIABLES
  claimed,    \* mails whose key exists
  at,         \* at[m]: the part the pass through m is at, 0 without a pass
  objects,    \* what is stored
  parseTasks, \* how often each object was handed over
  done        \* mails counted as processed

vars == <<claimed, at, objects, parseTasks, done>>

Init ==
  /\ claimed = {}
  /\ at = [m \in Message |-> 0]
  /\ objects = {}
  /\ parseTasks = [o \in Object |-> 0]
  /\ done = {}

\* A mail is claimed; if the answer is lost, nobody goes through it.
Claim(m) ==
  /\ m \notin claimed
  /\ claimed' = claimed \cup {m}
  /\ at' \in {at, [at EXCEPT ![m] = 1]}
  /\ UNCHANGED <<objects, parseTasks, done>>

AtPart(m, kinds) == at[m] \in DOMAIN Parts[m] /\ Parts[m][at[m]] \in kinds
Whole(m)         == Parts[m] = <<>> /\ at[m] = 1

\* What the pass is about to store.
Item(m) == <<m, IF Parts[m] = <<>> THEN 0 ELSE at[m]>>

Stored(m) == objects' = objects \cup {Item(m)}
Handed(m) ==
  /\ AtPart(m, {"xml"}) /\ Item(m) \in objects
  /\ parseTasks' = [parseTasks EXCEPT ![Item(m)] = @ + 1]

\* An XML part is not left behind before it is handed over.
Store(m) ==
  /\ AtPart(m, {"xml", "other"}) /\ Stored(m)
  /\ at' = IF AtPart(m, {"xml"}) THEN at ELSE [at EXCEPT ![m] = @ + 1]
  /\ UNCHANGED <<claimed, parseTasks, done>>

HandOver(m) ==
  /\ Handed(m)
  /\ at' = [at EXCEPT ![m] = @ + 1]
  /\ UNCHANGED <<claimed, objects, done>>

Finish(m) ==
  /\ at[m] = Len(Parts[m]) + 1
  /\ IF Whole(m) THEN Stored(m) ELSE UNCHANGED objects
  /\ done' = done \cup {m}
  /\ at' = [at EXCEPT ![m] = 0]
  /\ UNCHANGED <<claimed, parseTasks>>

\* The pass fails; the call it failed in may have been applied.
GiveUp(m) ==
  /\ at[m] # 0
  /\ \/ UNCHANGED <<objects, parseTasks>>
     \/ (AtPart(m, {"xml", "other"}) \/ Whole(m)) /\ Stored(m) /\ UNCHANGED parseTasks
     \/ Handed(m) /\ UNCHANGED objects
  /\ at' = [at EXCEPT ![m] = 0]
  /\ UNCHANGED <<claimed, done>>

\* The key of a mail that nobody goes through expires.
Lapse(m) ==
  /\ m \in claimed /\ at[m] = 0
  /\ claimed' = claimed \ {m}
  /\ UNCHANGED <<at, objects, parseTasks, done>>

Next ==
  \E m \in Message :
    Claim(m) \/ Store(m) \/ HandOver(m) \/ Finish(m) \/ GiveUp(m) \/ Lapse(m)

Spec == Init /\ [][Next]_vars
=============================================================================
