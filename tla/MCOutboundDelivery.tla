------------------------- MODULE MCOutboundDelivery -------------------------
(* Two or three dispatchers compete for one reply. *)
EXTENDS OutboundDelivery, TLC

CONSTANTS d1, d2

Symmetry == Permutations(Dispatcher)
=============================================================================
