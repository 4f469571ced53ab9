--------------------------- MODULE MCEmailPolicy ---------------------------
(* Instances of EmailPolicy for TLC. *)
EXTENDS EmailPolicy, TLC

CONSTANTS c1, c2, c3
Symmetry == Permutations(Callers)

============================================================================
