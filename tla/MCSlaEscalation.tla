-------------------------- MODULE MCSlaEscalation --------------------------
(* Instances of SlaEscalation, with the ticket it watches, for TLC. *)
EXTENDS SlaEscalation

CONSTANTS c1, c2, r1, r2

============================================================================
