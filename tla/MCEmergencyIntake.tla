-------------------------- MODULE MCEmergencyIntake --------------------------
(* Instances of EmergencyIntake for TLC. *)
EXTENDS EmergencyIntake, TLC

\* Drainers are interchangeable.
Symmetry == Permutations(Drainer)
=============================================================================
