---------------------------- MODULE MCRiskScore ----------------------------
(* Small instances of the risk score for TLC.                              *)
EXTENDS RiskScore

Uniform(k) == [total |-> 20, dkim |-> k, spf |-> k, dmarc |-> k]

\* Reports of 20 records, 0 to 20 of them passing: bases from 10 to 100.
AllRates == { Uniform(k) : k \in 0 .. 20 }
=============================================================================
