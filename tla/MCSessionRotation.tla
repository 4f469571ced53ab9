------------------------- MODULE MCSessionRotation -------------------------
(* Instances of SessionRotation for TLC. *)
EXTENDS SessionRotation, TLC

CONSTANTS s1, s2, s3, c1, c2, c3
Symmetry == Permutations(Sessions) \cup Permutations(Callers)

============================================================================
