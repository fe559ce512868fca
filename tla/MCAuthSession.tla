---------------------------- MODULE MCAuthSession ----------------------------
(* A small instance of a user's session for TLC.                           *)
EXTENDS AuthSession, TLC

\* The scopes of one user in the two dictionaries of a process.
Scopes == {"login", "register"}

\* The slots are interchangeable.
Slots == Permutations(Request)
=============================================================================
