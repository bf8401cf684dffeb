------------------------ MODULE MCArtifactLifecycle ------------------------
(* Instances of ArtifactLifecycle for TLC. *)
EXTENDS ArtifactLifecycle, TLC

\* Executions are interchangeable.
Symmetry == Permutations(Exec)
=============================================================================
