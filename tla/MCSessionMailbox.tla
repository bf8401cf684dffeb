-------------------------- MODULE MCSessionMailbox --------------------------
(* TLC instance of SessionMailbox: two messages, two slots of one worker and *)
(* one slot of another.                                                      *)
EXTENDS SessionMailbox, TLC

CONSTANTS m1, m2, s1, s2, s3, w1, w2

MCOwnerOf == (s1 :> w1) @@ (s2 :> w1) @@ (s3 :> w2)

\* Slots s1 and s2 belong to one worker and are interchangeable, as are the
\* messages.
MCSymmetry == Permutations({m1, m2}) \cup Permutations({s1, s2})
=============================================================================
