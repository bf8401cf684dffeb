------------------------- MODULE MCLegacyScheduler -------------------------
(* Instances of LegacyScheduler for TLC. *)
EXTENDS LegacyScheduler

=============================================================================
