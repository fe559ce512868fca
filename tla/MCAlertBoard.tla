---------------------------- MODULE MCAlertBoard ----------------------------
(* Small instances of the alerts page for TLC.                             *)
EXTENDS AlertBoard
=============================================================================
