----------------------- MODULE MCSessionReadyTransport -----------------------
(* Small instances of SessionReadyTransport for TLC. *)
EXTENDS SessionReadyTransport, TLC

CONSTANT w1

\* All slots belong to one worker: the hard case for the owner checks.
MCOwnerOf == [s \in Slot |-> w1]
=============================================================================
