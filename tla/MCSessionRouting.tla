--------------------------- MODULE MCSessionRouting ---------------------------
(* Instances of SessionRouting for TLC. *)
EXTENDS SessionRouting, TLC

CONSTANTS h1, h2, a, n1

HelperSymmetry == Permutations(Helpers)
=============================================================================
