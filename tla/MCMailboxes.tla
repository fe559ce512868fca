----------------------------- MODULE MCMailboxes -----------------------------
(* A small instance of mailbox administration for TLC.                     *)
EXTENDS Mailboxes
=============================================================================
