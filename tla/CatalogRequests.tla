--------------------------- MODULE CatalogRequests ---------------------------
(***************************************************************************)
(* One row of CatalogRequest (CatalogRequestsService): approve and reject  *)
(* want it PENDING, fulfill wants it APPROVED, update writes whatever the  *)
(* DTO holds, a status and a rejection reason among it, and remove deletes *)
(* the row.  Each reads the row, decides on it and writes by id alone; an  *)
(* UPDATE of a row that is gone changes nothing.                           *)
(*                                                                         *)
(* Who may see, edit or decide a request, its other texts and the          *)
(* catalogue are left out.                                                 *)
(***************************************************************************)
EXTENDS ReadThenWrite, Naturals

CONSTANT MaxDecisions   \* bound: decisions written

ASSUME CatalogAssumption == MaxDecisions \in Nat

VARIABLES
  catalogRequest,   \* the row; whether it has an approvedById and a rejection reason
  handling,         \* what each request is going to write; fresh: the status is as it read it
  approvals, rejections,  \* history: decisions written
  statusEdited, reasonEdited,  \* history: update wrote the column
  requestOutdated   \* history: a status that others had written was overwritten

catalogVars ==
  <<catalogRequest, handling, approvals, rejections, statusEdited, reasonEdited, requestOutdated>>

CatalogStatuses == {"PENDING", "APPROVED", "REJECTED", "FULFILLED", "CANCELLED"}
CatalogRows ==
  [status : CatalogStatuses \cup {"absent", "deleted"}, decided : BOOLEAN, reason : BOOLEAN]
CatalogRow(status, decided, reason) == [status |-> status, decided |-> decided, reason |-> reason]
\* A column that a request has no value for is kept; a reason may also be null.
Reasons == {"kept", "given", "none"}
Handles(step, status, reason) == [at |-> step, status |-> status, reason |-> reason, fresh |-> TRUE]
NotHandling == Handles("idle", "kept", "kept")

CatalogInit ==
  /\ catalogRequest = CatalogRow("absent", FALSE, FALSE)
  /\ handling = [r \in Requests |-> NotHandling]
  /\ approvals = 0 /\ rejections = 0
  /\ statusEdited = FALSE /\ reasonEdited = FALSE /\ requestOutdated = FALSE

CreateRequest ==
  /\ catalogRequest.status = "absent"
  /\ catalogRequest' = CatalogRow("PENDING", FALSE, FALSE)
  /\ UNCHANGED <<handling, approvals, rejections, statusEdited, reasonEdited, requestOutdated>>

Exists == catalogRequest.status \in CatalogStatuses

BeginHandling(r, step) ==
  /\ handling[r].at = "idle" /\ Exists
  /\ handling' = [handling EXCEPT ![r] = step]
  /\ UNCHANGED <<catalogRequest, approvals, rejections, statusEdited, reasonEdited, requestOutdated>>

Decidable_Wrong == catalogRequest.status # "FULFILLED"
Decidable == catalogRequest.status = "PENDING"

FindToApprove(r) == Decidable /\ BeginHandling(r, Handles("decide", "APPROVED", "kept"))
FindToReject(r, reason) == Decidable /\ BeginHandling(r, Handles("decide", "REJECTED", reason))
FindToFulfill(r) == catalogRequest.status = "APPROVED" /\ BeginHandling(r, Handles("fulfill", "FULFILLED", "kept"))
FindToUpdate(r, status, reason) == BeginHandling(r, Handles("edit", status, reason))
FindToRemove(r) == BeginHandling(r, Handles("remove", "deleted", "kept"))

\* The UPDATE, or the DELETE, with the outdated look-ups that a new status leaves behind.
WriteRequest(r) ==
  LET h == handling[r]
      status == IF h.status = "kept" THEN catalogRequest.status ELSE h.status
      decided == catalogRequest.decided \/ h.at = "decide"
      reason == IF h.reason = "kept" THEN catalogRequest.reason ELSE h.reason = "given"
  IN
  /\ catalogRequest' = IF Exists THEN CatalogRow(status, decided, reason) ELSE catalogRequest
  /\ IF h.status = "kept" THEN handling' = [handling EXCEPT ![r] = NotHandling] /\ UNCHANGED requestOutdated
     ELSE /\ handling' = Overwritten(handling, r, NotHandling)
          /\ requestOutdated' = (requestOutdated \/ ~h.fresh)

\* approve and reject both write approvedById; only reject may write a reason.
WriteDecided(r) ==
  LET h == handling[r] IN
  /\ h.at = "decide" /\ approvals + rejections < MaxDecisions
  /\ WriteRequest(r)
  /\ approvals' = IF h.status = "APPROVED" THEN approvals + 1 ELSE approvals
  /\ rejections' = IF h.status = "REJECTED" THEN rejections + 1 ELSE rejections
  /\ UNCHANGED <<statusEdited, reasonEdited>>

WriteFulfilled(r) ==
  /\ handling[r].at = "fulfill" /\ WriteRequest(r)
  /\ UNCHANGED <<approvals, rejections, statusEdited, reasonEdited>>

WriteEdited(r) ==
  /\ handling[r].at = "edit" /\ WriteRequest(r)
  /\ statusEdited' = (statusEdited \/ handling[r].status # "kept")
  /\ reasonEdited' = (reasonEdited \/ handling[r].reason # "kept")
  /\ UNCHANGED <<approvals, rejections>>

RemoveRequest(r) ==
  /\ handling[r].at = "remove" /\ WriteRequest(r)
  /\ UNCHANGED <<approvals, rejections, statusEdited, reasonEdited>>

CatalogNext ==
  \/ CreateRequest
  \/ \E r \in Requests :
       \/ FindToApprove(r) \/ \E reason \in Reasons : FindToReject(r, reason)
       \/ \E status \in CatalogStatuses \cup {"kept"}, reason \in Reasons : FindToUpdate(r, status, reason)
       \/ FindToFulfill(r) \/ FindToRemove(r)
       \/ WriteDecided(r) \/ WriteFulfilled(r) \/ WriteEdited(r) \/ RemoveRequest(r)

CatalogSpec == CatalogInit /\ [][CatalogNext]_catalogVars

----------------------------------------------------------------------------

\* The row, the requests and the histories hold values of their types.
CatalogTypeOK ==
  /\ catalogRequest \in CatalogRows
  /\ handling \in [Requests -> [at : {"idle", "decide", "fulfill", "edit", "remove"},
                                status : CatalogStatuses \cup {"kept", "deleted"}, reason : Reasons,
                                fresh : BOOLEAN]]
  /\ approvals \in 0 .. MaxDecisions /\ rejections \in 0 .. MaxDecisions
  /\ statusEdited \in BOOLEAN /\ reasonEdited \in BOOLEAN /\ requestOutdated \in BOOLEAN

\* A request is decided once, unless update wrote a status or a request overwrote a
\* status written since it read the row: what was fulfilled was approved by somebody,
\* a rejection is not taken back, and what has a rejection reason was rejected, unless
\* update wrote the reason.
DecidedOnce ==
  ~statusEdited /\ ~requestOutdated =>
    /\ approvals + rejections <= 1
    /\ catalogRequest.status = "FULFILLED" => approvals = 1 /\ catalogRequest.decided
    /\ Exists => (catalogRequest.status = "REJECTED" <=> rejections = 1)
    /\ catalogRequest.reason /\ ~reasonEdited => rejections = 1

============================================================================
