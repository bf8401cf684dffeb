--------------------------- MODULE MCMailboxStores ---------------------------
(* Instances of MailboxStores for TLC. *)
EXTENDS MailboxStores
=============================================================================
