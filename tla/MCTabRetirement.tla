------------------------- MODULE MCTabRetirement -------------------------
(* Model values for TLC; helpers are interchangeable in every run. *)
EXTENDS TabRetirement, TLC

HelperSymmetry == Permutations(Helpers)
=============================================================================
