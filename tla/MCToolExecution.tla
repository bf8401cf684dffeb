--------------------------- MODULE MCToolExecution ---------------------------
(* A turn with a tool that is not idempotent and one that must be confirmed. *)
EXTENDS ToolExecution, TLC

CONSTANTS lookup, pay, t1, t2, t3, k1

Symmetry == Permutations(Task)
=============================================================================
