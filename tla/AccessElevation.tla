--------------------------- MODULE AccessElevation ---------------------------
(***************************************************************************)
(* Access requests and just-in-time elevations (AccessGovernanceService):  *)
(* approving an AccessRequest for a permission makes an                    *)
(* AccessElevationRequest in the name of the reviewer, and approving that  *)
(* makes a TemporaryPermissionGrant.  Each review reads its row, makes     *)
(* what it approves, and writes the row by id in the end, without a        *)
(* transaction; what it made stays if it stops in between.                 *)
(*                                                                         *)
(* Access requests of the types ROLE and RELATIONSHIP, the minutes and the *)
(* scope are left out; the revocation of the user's sessions, of which an  *)
(* error is ignored, is SessionRotation's.                                 *)
(***************************************************************************)
EXTENDS ReadThenWrite, Naturals

CONSTANTS
  Elevations, NoElevation,   \* rows of AccessElevationRequest there can be
  MaxElevationFaults         \* bound: reviews that stop half way

ASSUME ElevationAssumption ==
  NoElevation \notin Elevations /\ MaxElevationFaults \in Nat

VARIABLES
  accessRequest,      \* the row: its status and the elevation made for it
  elevation,          \* the rows: status and requestedById
  grants,             \* how many TemporaryPermissionGrants each was given
  reviewing,          \* what each request has read and is going to do
  halfReviewed,       \* history: reviews that stopped after making something
  elevationOutdated   \* history: a row that others had changed was overwritten

elevationVars == <<accessRequest, elevation, grants, reviewing, halfReviewed, elevationOutdated>>

Statuses == {"absent", "PENDING", "APPROVED", "REJECTED"}
Reviewing(step, of, by, to) ==
  [at |-> step, of |-> of, made |-> NoElevation, by |-> by, to |-> to, fresh |-> TRUE]
NotReviewing == Reviewing("idle", NoElevation, NoAdmin, "PENDING")
Reviewings ==
  [at : {"idle", "elevate", "closeAccess", "grant", "closeElevation"},
   of : Elevations \cup {NoElevation}, made : Elevations \cup {NoElevation},
   by : Admins \cup {NoAdmin}, to : Statuses, fresh : BOOLEAN]

ElevationInit ==
  /\ accessRequest = [status |-> "absent", result |-> NoElevation]
  /\ elevation = [e \in Elevations |-> [status |-> "absent", requestedBy |-> NoAdmin]]
  /\ grants = [e \in Elevations |-> 0]
  /\ reviewing = [r \in Requests |-> NotReviewing]
  /\ halfReviewed = 0 /\ elevationOutdated = FALSE

CreateAccessRequest ==
  /\ accessRequest.status = "absent"
  /\ accessRequest' = [accessRequest EXCEPT !.status = "PENDING"]
  /\ UNCHANGED <<elevation, grants, reviewing, halfReviewed, elevationOutdated>>

InsertElevation(e, a) ==
  /\ elevation[e].status = "absent"
  /\ elevation' = [elevation EXCEPT ![e] = [status |-> "PENDING", requestedBy |-> a]]

RequestElevation(a) ==
  /\ \E e \in Elevations : InsertElevation(e, a)
  /\ UNCHANGED <<accessRequest, grants, reviewing, halfReviewed, elevationOutdated>>

----------------------------------------------------------------------------
(* reviewAccessRequest.                                                     *)

BeginAccessReview(r, a) ==
  /\ reviewing[r].at = "idle" /\ accessRequest.status = "PENDING"
  /\ \E step \in {<<"elevate", "APPROVED">>, <<"closeAccess", "REJECTED">>} :
       reviewing' = [reviewing EXCEPT ![r] = Reviewing(step[1], NoElevation, a, step[2])]
  /\ UNCHANGED <<accessRequest, elevation, grants, halfReviewed, elevationOutdated>>

ElevateForAccess(r) ==
  /\ reviewing[r].at = "elevate"
  /\ \E e \in Elevations :
       /\ InsertElevation(e, reviewing[r].by)
       /\ reviewing' = [reviewing EXCEPT ![r] = [@ EXCEPT !.at = "closeAccess", !.made = e]]
  /\ UNCHANGED <<accessRequest, grants, halfReviewed, elevationOutdated>>

\* A request that is over outdates those that read the same row.
Closed(r) ==
  [s \in Requests |->
    IF s = r THEN NotReviewing
    ELSE IF reviewing[s].of = reviewing[r].of THEN [reviewing[s] EXCEPT !.fresh = FALSE] ELSE reviewing[s]]

CloseAccessReview(r) ==
  /\ reviewing[r].at = "closeAccess"
  /\ accessRequest' = [status |-> reviewing[r].to, result |-> reviewing[r].made]
  /\ reviewing' = Closed(r)
  /\ elevationOutdated' = (elevationOutdated \/ ~reviewing[r].fresh)
  /\ UNCHANGED <<elevation, grants, halfReviewed>>

----------------------------------------------------------------------------
(* reviewElevation.                                                         *)

BeginElevationReview(r, a, e) ==
  /\ reviewing[r].at = "idle" /\ elevation[e].status = "PENDING" /\ elevation[e].requestedBy # a
  /\ \E step \in {<<"grant", "APPROVED">>, <<"closeElevation", "REJECTED">>} :
       reviewing' = [reviewing EXCEPT ![r] = Reviewing(step[1], e, a, step[2])]
  /\ UNCHANGED <<accessRequest, elevation, grants, halfReviewed, elevationOutdated>>

GrantPermission(r) ==
  /\ reviewing[r].at = "grant"
  /\ grants' = [grants EXCEPT ![reviewing[r].of] = @ + 1]
  /\ reviewing' = [reviewing EXCEPT ![r].at = "closeElevation"]
  /\ UNCHANGED <<accessRequest, elevation, halfReviewed, elevationOutdated>>

DecidedStatus_Wrong(r) == "REJECTED"
DecidedStatus(r) == reviewing[r].to

CloseElevationReview(r) ==
  /\ reviewing[r].at = "closeElevation"
  /\ elevation' = [elevation EXCEPT ![reviewing[r].of].status = DecidedStatus(r)]
  /\ reviewing' = Closed(r)
  /\ elevationOutdated' = (elevationOutdated \/ ~reviewing[r].fresh)
  /\ UNCHANGED <<accessRequest, grants, halfReviewed>>

\* An error or a crash after something was made: the row stays PENDING.
StopHalfReviewed(r) ==
  /\ reviewing[r].at \in {"closeAccess", "closeElevation"} /\ reviewing[r].to = "APPROVED"
  /\ halfReviewed < MaxElevationFaults
  /\ reviewing' = [reviewing EXCEPT ![r] = NotReviewing]
  /\ halfReviewed' = halfReviewed + 1
  /\ UNCHANGED <<accessRequest, elevation, grants, elevationOutdated>>

ElevationNext ==
  \/ CreateAccessRequest
  \/ \E a \in Admins : RequestElevation(a)
  \/ \E r \in Requests :
       \/ \E a \in Admins : BeginAccessReview(r, a) \/ \E e \in Elevations : BeginElevationReview(r, a, e)
       \/ ElevateForAccess(r) \/ CloseAccessReview(r)
       \/ GrantPermission(r) \/ CloseElevationReview(r) \/ StopHalfReviewed(r)

ElevationSpec == ElevationInit /\ [][ElevationNext]_elevationVars

----------------------------------------------------------------------------

\* Rows and requests hold values of their types.
ElevationTypeOK ==
  /\ accessRequest \in [status : Statuses, result : Elevations \cup {NoElevation}]
  /\ elevation \in [Elevations -> [status : Statuses, requestedBy : Admins \cup {NoAdmin}]]
  /\ grants \in [Elevations -> Nat] /\ reviewing \in [Requests -> Reviewings]
  /\ halfReviewed \in 0 .. MaxElevationFaults /\ elevationOutdated \in BOOLEAN

\* With no review in progress, an elevation has one grant if it was approved and
\* none otherwise, and an approved access request names the elevation made for
\* it, unless a review stopped half way or overwrote another's decision.
ApprovedIsGranted ==
  AtRest(reviewing) /\ halfReviewed = 0 /\ ~elevationOutdated =>
    /\ \A e \in Elevations : grants[e] = IF elevation[e].status = "APPROVED" THEN 1 ELSE 0
    /\ accessRequest.status = "APPROVED" <=> accessRequest.result # NoElevation

============================================================================
