--------------------------- MODULE IngestedReport ---------------------------
(***************************************************************************)
(* What the report pipeline promises of a stored object, whatever fails and *)
(* however often its tasks are run: its rows appear all at once, its        *)
(* documents only after them, and the stages that judge the report are told *)
(* of it in their order, when all its rows and documents are there.  An     *)
(* object that holds no report leaves no trace.                             *)
(***************************************************************************)
EXTENDS Naturals, Sequences

CONSTANTS
  Object,   \* stored objects
  Valid,    \* those that hold a report
  ObjRows,  \* ObjRows[o]: the rows of the report
  ObjDocs,  \* ObjDocs[o]: its documents
  Stages    \* the stages, in their order

VARIABLES
  rows,     \* rows that are there
  written,  \* documents that are there
  told      \* told[o]: the stages that have been told of o

vars == <<rows, written, told>>

Init ==
  /\ rows = {}
  /\ written = {}
  /\ told = [o \in Object |-> {}]

\* All rows at once.
Persist(o) ==
  /\ rows' = rows \cup ObjRows[o]
  /\ UNCHANGED <<written, told>>

\* A document, in any order.
Write(o) ==
  /\ ObjRows[o] \subseteq rows
  /\ \E d \in ObjDocs[o] : written' = written \cup {d}
  /\ UNCHANGED <<rows, told>>

\* A stage, after those before it.
Tell(o, k) ==
  /\ ObjRows[o] \subseteq rows /\ ObjDocs[o] \subseteq written
  /\ \A j \in 1 .. k - 1 : Stages[j] \in told[o]
  /\ told' = [told EXCEPT ![o] = @ \cup {Stages[k]}]
  /\ UNCHANGED <<rows, written>>

Next ==
  \E o \in Valid :
    \/ Persist(o) \/ Write(o)
    \/ \E k \in 1 .. Len(Stages) : Tell(o, k)

Spec == Init /\ [][Next]_vars
=============================================================================
