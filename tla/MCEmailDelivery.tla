-------------------------- MODULE MCEmailDelivery --------------------------
(* Instances of EmailDelivery for TLC. *)
EXTENDS EmailDelivery, TLC

CONSTANTS m1, m2, w1, w2, d1, d2, a1

OneRecipient == [i \in Ids |-> "r"]
Symmetry == Permutations(Ids) \cup Permutations(QueueRuns) \cup Permutations(DigestRuns)

============================================================================
