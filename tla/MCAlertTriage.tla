---------------------------- MODULE MCAlertTriage ----------------------------
(* Small instances of alert triage for TLC.                                *)
EXTENDS AlertTriage
=============================================================================
