---------------------------- MODULE ReadThenWrite ----------------------------
(***************************************************************************)
(* The shape of most handlers of the backend: read a row, decide on what   *)
(* was read, write by id alone, with other requests in between.  A model   *)
(* of such a handler has a record per request that says where it is; its   *)
(* field fresh says that nobody wrote the row since the request read it.   *)
(***************************************************************************)
EXTENDS FiniteSets

CONSTANTS
  Requests,         \* requests that can be in progress at once
  Admins, NoAdmin   \* who makes those that tell people apart

ASSUME PeopleAssumption == NoAdmin \notin Admins /\ IsFiniteSet(Requests)

\* The row was written: what the requests under way have read is outdated.
Outdated(calls) == [r \in Requests |-> [calls[r] EXCEPT !.fresh = (calls[r].at = "idle")]]

\* Request r wrote the row and is at its next step.
Overwritten(calls, r, next) == [Outdated(calls) EXCEPT ![r] = next]

AtRest(calls) == \A r \in Requests : calls[r].at = "idle"

============================================================================
