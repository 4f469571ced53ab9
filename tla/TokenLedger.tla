---------------------------- MODULE TokenLedger ----------------------------
(***************************************************************************)
(* What rotation promises about refresh tokens, without sessions, tables   *)
(* or requests: a token is issued once, is exchanged at most once for a    *)
(* new one, and once it is dead nothing brings it back.                    *)
(***************************************************************************)
CONSTANT Tokens
VARIABLES
  life,       \* of each token
  exchanged   \* pairs of a token and the one given for it

Init == life = [t \in Tokens |-> "unissued"] /\ exchanged = {}

\* A login hands out a new token.
Issue(t) ==
  /\ life[t] = "unissued" /\ life' = [life EXCEPT ![t] = "live"]
  /\ UNCHANGED exchanged

\* A refresh gives a new token for a live one, in one step.
Exchange(t, u) ==
  /\ life[t] = "live" /\ life[u] = "unissued"
  /\ life' = [life EXCEPT ![t] = "dead", ![u] = "live"]
  /\ exchanged' = exchanged \cup {<<t, u>>}

\* Logout, revocation, expiry, the session limit, a password reset.
Kill(D) ==
  /\ \A t \in D : life[t] = "live"
  /\ life' = [t \in Tokens |-> IF t \in D THEN "dead" ELSE life[t]]
  /\ UNCHANGED exchanged

Next ==
  \/ \E t \in Tokens : Issue(t) \/ \E u \in Tokens : Exchange(t, u)
  \/ \E D \in SUBSET Tokens : Kill(D)

Spec == Init /\ [][Next]_<<life, exchanged>>

============================================================================
