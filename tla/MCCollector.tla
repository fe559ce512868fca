----------------------------- MODULE MCCollector -----------------------------
(* Small instances of the collector for TLC.                               *)
EXTENDS Collector, TLC

CONSTANTS m1, m2

\* m1 carries an XML report and a second part; m2 has no attachment.
MixedParts ==
  [m \in Message |-> IF m = m1 THEN <<"xml", "other">> ELSE <<>>]

\* A malformed archive after a report.
PoisonParts == [m \in Message |-> <<"xml", "corrupt">>]

\* Two ordinary one-report mails.
PlainParts == [m \in Message |-> <<"xml">>]

\* Task slots are interchangeable in the safety properties.
TaskSymmetry == Permutations(Task)
=============================================================================
