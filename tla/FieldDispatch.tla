--------------------------- MODULE FieldDispatch ----------------------------
(***************************************************************************)
(* Field visits (FieldServiceService): a visit is made for a ticket and an *)
(* active technician; people change its status, alone or with others in a  *)
(* loop of single UPDATEs, sign it, and add photos by reading the list,    *)
(* appending, and writing it back.  Rows are never deleted and every       *)
(* UPDATE names its columns, so a look-up before one that writes no list   *)
(* decides nothing.                                                        *)
(*                                                                         *)
(* A photo stands for the pictures of one call.  Notes and arrivedAt have  *)
(* columns of their own that nothing else reads; they are left out, with   *)
(* the notices to the ticket's participants.                               *)
(***************************************************************************)
EXTENDS ReadThenWrite

CONSTANTS Visits, Photos

VARIABLES
  visits,      \* the rows of Dispatch
  visitCall    \* what each request is at

visitVars == <<visits, visitCall>>

\* "open" stands for DISPATCHED, EN_ROUTE, ON_SITE and CANCELLED: no code
\* tells them apart before it writes.
VisitRows ==
  [status : {"absent", "open", "COMPLETED"}, completedAt : BOOLEAN, signed : BOOLEAN,
   photos : SUBSET Photos]
NoVisit == [status |-> "absent", completedAt |-> FALSE, signed |-> FALSE, photos |-> {}]
VisitStep(step, todo, status, list) ==
  [at |-> step, todo |-> todo, status |-> status, list |-> list, fresh |-> TRUE]
NoVisitCall == VisitStep("idle", {}, "open", {})
VisitSteps == {"idle", "status", "photos"}
VisitCalls ==
  [at : VisitSteps, todo : SUBSET Visits, status : {"open", "COMPLETED"},
   list : SUBSET Photos, fresh : BOOLEAN]

VisitInit ==
  /\ visits = [v \in Visits |-> NoVisit]
  /\ visitCall = [r \in Requests |-> NoVisitCall]

Calls(r, next) == visitCall' = [visitCall EXCEPT ![r] = next]

----------------------------------------------------------------------------
(* dispatch.                                                                *)

\* The look-ups of the ticket and of an active technician precede the INSERT, so
\* that an account switched off in between gets the visit all the same.
CreateVisit(v) ==
  /\ visits[v].status = "absent"
  /\ visits' = [visits EXCEPT ![v] = [NoVisit EXCEPT !.status = "open"]]
  /\ UNCHANGED visitCall

----------------------------------------------------------------------------
(* updateStatus, bulkUpdateStatus, addSignature.                            *)

Made == {v \in Visits : visits[v].status # "absent"}

BeginStatus(r, todo, status) ==
  /\ visitCall[r].at = "idle" /\ todo # {} /\ todo \subseteq Made
  /\ Calls(r, VisitStep("status", todo, status, {}))
  /\ UNCHANGED visits

Completed(row, status) ==
  [row EXCEPT !.status = status, !.completedAt = @ \/ status = "COMPLETED"]

\* One visit of the list; those before it stay changed if it fails.
UpdateStatus(r) ==
  /\ visitCall[r].at = "status"
  /\ \E v \in visitCall[r].todo :
       /\ visits' = [visits EXCEPT ![v] = Completed(@, visitCall[r].status)]
       /\ Calls(r, IF visitCall[r].todo = {v} THEN NoVisitCall
                   ELSE [visitCall[r] EXCEPT !.todo = @ \ {v}])

AddSignature(v) ==
  /\ v \in Made
  /\ visits' = [visits EXCEPT ![v] = [Completed(@, "COMPLETED") EXCEPT !.signed = TRUE]]
  /\ UNCHANGED visitCall

----------------------------------------------------------------------------
(* addPhotos.                                                               *)

Appended_Wrong(v, p) == {p}
Appended(v, p) == visits[v].photos \cup {p}

BeginPhotos(r, v, p) ==
  /\ visitCall[r].at = "idle" /\ v \in Made
  /\ Calls(r, VisitStep("photos", {v}, "open", Appended(v, p)))
  /\ UNCHANGED visits

\* A list that others of the same visit have read is outdated.
ListWritten(r, v) ==
  [q \in Requests |->
     IF q = r THEN NoVisitCall
     ELSE [visitCall[q] EXCEPT !.fresh = @ /\ ~(visitCall[q].at = "photos" /\ v \in visitCall[q].todo)]]

WritePhotos(r) ==
  /\ visitCall[r].at = "photos"
  /\ \E v \in visitCall[r].todo :
       /\ visits' = [visits EXCEPT ![v].photos = visitCall[r].list]
       /\ visitCall' = ListWritten(r, v)

\* A statement fails, or the process stops.
VisitCallStops(r) ==
  /\ visitCall[r].at # "idle" /\ Calls(r, NoVisitCall)
  /\ UNCHANGED visits

VisitNext ==
  \/ \E v \in Visits : CreateVisit(v) \/ AddSignature(v)
  \/ \E r \in Requests :
       \/ \E todo \in SUBSET Visits, status \in {"open", "COMPLETED"} : BeginStatus(r, todo, status)
       \/ \E v \in Visits, p \in Photos : BeginPhotos(r, v, p)
       \/ UpdateStatus(r) \/ WritePhotos(r) \/ VisitCallStops(r)

VisitSpec == VisitInit /\ [][VisitNext]_visitVars

----------------------------------------------------------------------------

\* Visits and calls hold values of their types.
VisitTypeOK ==
  visits \in [Visits -> VisitRows] /\ visitCall \in [Requests -> VisitCalls]

\* Only a list that was read before another call wrote the visit's may drop photos.
Outrun(r, v) == visitCall[r].at = "photos" /\ visitCall[r].todo = {v} /\ ~visitCall[r].fresh

\* Whatever is done to a visit, alone or with others, its photos stay, unless a call
\* for photos of that visit was overtaken by another; and a visit that is completed or
\* signed says when it was completed, whatever becomes of its status.
KeptBetween(v) ==
  /\ visits[v].photos \subseteq visits'[v].photos \/ \E r \in Requests : Outrun(r, v)
  /\ visits[v].completedAt => visits'[v].completedAt
  /\ visits'[v].status = "COMPLETED" \/ visits'[v].signed => visits'[v].completedAt
EvidenceIsKept == [][\A v \in Visits : KeptBetween(v)]_visitVars

============================================================================
