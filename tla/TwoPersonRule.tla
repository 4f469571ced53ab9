---------------------------- MODULE TwoPersonRule ----------------------------
(***************************************************************************)
(* What dual approval promises of a sensitive action, without rows, their  *)
(* columns or the order of statements: somebody asks, administrators other *)
(* than the one who asked approve, and nothing is done before two did.     *)
(***************************************************************************)
EXTENDS Naturals

CONSTANTS Admins, NoAdmin
VARIABLES
  asker,      \* who asked
  approvers,  \* who approved
  uses        \* times the action was carried out

Init == asker = NoAdmin /\ approvers = {} /\ uses = 0

Ask(a) == asker = NoAdmin /\ asker' = a /\ UNCHANGED <<approvers, uses>>

Approve(a) ==
  /\ asker \notin {NoAdmin, a}
  /\ approvers' = approvers \cup {a}
  /\ UNCHANGED <<asker, uses>>

Use ==
  /\ \E a, b \in approvers : a # b
  /\ uses' = uses + 1
  /\ UNCHANGED <<asker, approvers>>

Next == Use \/ \E a \in Admins : Ask(a) \/ Approve(a)

Spec == Init /\ [][Next]_<<asker, approvers, uses>>

============================================================================
