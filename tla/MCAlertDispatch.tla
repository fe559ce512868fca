--------------------------- MODULE MCAlertDispatch ---------------------------
(* Small instances of the alert dispatch for TLC.                          *)
EXTENDS AlertDispatch

CONSTANTS s1, s2, p1

\* A low and a medium signal and a high payload, with the default mapping.
DefaultRoute ==
  [s \in Source |-> CASE s = s1 -> <<"siem">>
                      [] s = s2 -> <<"email">>
                      [] s = p1 -> <<"email", "slack">>]
=============================================================================
