--------------------------- MODULE MCSendLifecycle ---------------------------
(* Two instances with one lane each, one letter to two recipients.         *)
EXTENDS SendLifecycle, TLC

CONSTANTS w1, w2, s1, s2

MCHome == w1 :> s1 @@ w2 :> s2
MCNoSkew == s1 :> 0 @@ s2 :> 0

\* The clock of the second instance is 1 ahead.
MCSkew == s1 :> 0 @@ s2 :> 1

Symmetry == Permutations(Recipient)
=============================================================================
