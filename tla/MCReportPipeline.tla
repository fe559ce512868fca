-------------------------- MODULE MCReportPipeline --------------------------
(* Small instances of the report pipeline for TLC.                         *)
EXTENDS ReportPipeline

CONSTANTS o1, o2, o3

\* o1 and o2 report on two domains with the same senders in opposite order; o3
\* is not a report.
ReportOf  == [o \in Object |-> CASE o = o1 -> "r1" [] o = o2 -> "r2" [] o = o3 -> "r3"]
DomainOf  == [o \in Object |-> CASE o = o1 -> "d1" [] o = o2 -> "d2" [] o = o3 -> "d1"]
RecordsOf == [o \in Object |-> CASE o = o1 -> <<"x", "y">>
                                 [] o = o2 -> <<"y", "x">>
                                 [] o = o3 -> <<"x">>]
=============================================================================
