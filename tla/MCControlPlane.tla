--------------------------- MODULE MCControlPlane ---------------------------
(* Instances of ControlPlane for TLC. *)
EXTENDS ControlPlane, TLC

Symmetry == Permutations(Client) \cup Permutations(Key) \cup Permutations(Message)

=============================================================================
