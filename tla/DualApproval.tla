---------------------------- MODULE DualApproval ----------------------------
(***************************************************************************)
(* One row of DualApprovalRequest: requestDualApproval, the reviews of     *)
(* reviewDualApproval and the impersonation that startImpersonation        *)
(* carries out on it (AccessGovernanceService).  A review reads the row,   *)
(* decides, and writes by id alone.  A start reads the row, inserts the    *)
(* session and marks the row EXECUTED in three statements.                 *)
(*                                                                         *)
(* Tenants, reasons, the alerts and the target of the impersonation are    *)
(* left out.  The other actions that ask for an approval (break-glass,     *)
(* audit export, tenant deletion) read it and never mark it.               *)
(***************************************************************************)
EXTENDS ReadThenWrite, Naturals

CONSTANTS
  MaxStarts,        \* bound: impersonations
  MaxDualFaults     \* bound: starts that stop half way

ASSUME DualAssumption == MaxStarts \in Nat /\ MaxDualFaults \in Nat

VARIABLES
  approval,        \* the row; expired says that expiresAt has passed
  review,          \* what each request is going to write
  approvedBy,      \* history: who wrote an approval
  impersonations,  \* rows of ImpersonationSession made on it
  halfStarted,     \* history: starts that stopped before EXECUTED
  dualOutdated     \* history: a row that others had changed was overwritten

dualVars == <<approval, review, approvedBy, impersonations, halfStarted, dualOutdated>>

Resolved == {"APPROVED", "REJECTED", "EXECUTED"}
ApprovalRows ==
  [status : {"absent", "PENDING", "FIRST_APPROVED"} \cup Resolved,
   requestedBy : Admins \cup {NoAdmin}, first : Admins \cup {NoAdmin}, expired : BOOLEAN]
NoReview == [at |-> "idle", by |-> NoAdmin, fresh |-> TRUE]
ReviewSteps == {"idle", "reject", "first", "second", "start", "execute"}

DualInit ==
  /\ approval = [status |-> "absent", requestedBy |-> NoAdmin, first |-> NoAdmin, expired |-> FALSE]
  /\ review = [r \in Requests |-> NoReview]
  /\ approvedBy = {} /\ impersonations = 0 /\ halfStarted = 0 /\ dualOutdated = FALSE

RequestDualApproval(a) ==
  /\ approval.status = "absent"
  /\ approval' = [approval EXCEPT !.status = "PENDING", !.requestedBy = a]
  /\ UNCHANGED <<review, approvedBy, impersonations, halfStarted, dualOutdated>>

ApprovalExpires ==
  /\ approval.status # "absent" /\ ~approval.expired
  /\ approval' = [approval EXCEPT !.expired = TRUE]
  /\ UNCHANGED <<review, approvedBy, impersonations, halfStarted, dualOutdated>>

----------------------------------------------------------------------------
(* reviewDualApproval: what the row that was read allows, and the write.    *)

MayReview(a) ==
  /\ approval.status \in {"PENDING", "FIRST_APPROVED"} /\ ~approval.expired
  /\ approval.requestedBy # a

Approval_Wrong(a) == IF approval.first = NoAdmin THEN {"first"} ELSE {"second"}
Approval(a) == IF approval.first = NoAdmin THEN {"first"} ELSE IF approval.first # a THEN {"second"} ELSE {}

BeginReview(r, a) ==
  /\ review[r].at = "idle" /\ MayReview(a)
  /\ \E decision \in {"reject"} \cup Approval(a) :
       review' = [review EXCEPT ![r] = [at |-> decision, by |-> a, fresh |-> TRUE]]
  /\ UNCHANGED <<approval, approvedBy, impersonations, halfStarted, dualOutdated>>

\* The UPDATE of request r, which looks at nothing but the id.
WriteApproval(r, row) ==
  /\ approval' = row
  /\ review' = Overwritten(review, r, NoReview)
  /\ dualOutdated' = (dualOutdated \/ ~review[r].fresh)

Reject(r) ==
  /\ review[r].at = "reject" /\ WriteApproval(r, [approval EXCEPT !.status = "REJECTED"])
  /\ UNCHANGED <<approvedBy, impersonations, halfStarted>>

ApproveFirst(r) ==
  /\ review[r].at = "first"
  /\ WriteApproval(r, [approval EXCEPT !.status = "FIRST_APPROVED", !.first = review[r].by])
  /\ approvedBy' = approvedBy \cup {review[r].by}
  /\ UNCHANGED <<impersonations, halfStarted>>

ApproveSecond(r) ==
  /\ review[r].at = "second" /\ WriteApproval(r, [approval EXCEPT !.status = "APPROVED"])
  /\ approvedBy' = approvedBy \cup {review[r].by}
  /\ UNCHANGED <<impersonations, halfStarted>>

----------------------------------------------------------------------------
(* startImpersonation.                                                      *)

BeginImpersonation(r, a) ==
  /\ review[r].at = "idle" /\ approval.status = "APPROVED"
  /\ review' = [review EXCEPT ![r] = [at |-> "start", by |-> a, fresh |-> TRUE]]
  /\ UNCHANGED <<approval, approvedBy, impersonations, halfStarted, dualOutdated>>

InsertImpersonation(r) ==
  /\ review[r].at = "start" /\ impersonations < MaxStarts
  /\ review' = [review EXCEPT ![r].at = "execute"]
  /\ impersonations' = impersonations + 1
  /\ UNCHANGED <<approval, approvedBy, halfStarted, dualOutdated>>

MarkedExecuted_Wrong(row) == row
MarkedExecuted(row) == [row EXCEPT !.status = "EXECUTED"]

MarkExecuted(r) ==
  /\ review[r].at = "execute" /\ WriteApproval(r, MarkedExecuted(approval))
  /\ UNCHANGED <<approvedBy, impersonations, halfStarted>>

\* The process stops, or the UPDATE fails, with the session in place.
StopHalfStarted(r) ==
  /\ review[r].at = "execute" /\ halfStarted < MaxDualFaults
  /\ review' = [review EXCEPT ![r] = NoReview]
  /\ halfStarted' = halfStarted + 1
  /\ UNCHANGED <<approval, approvedBy, impersonations, dualOutdated>>

DualNext ==
  \/ ApprovalExpires
  \/ \E a \in Admins : RequestDualApproval(a)
  \/ \E r \in Requests :
       \/ \E a \in Admins : BeginReview(r, a) \/ BeginImpersonation(r, a)
       \/ Reject(r) \/ ApproveFirst(r) \/ ApproveSecond(r)
       \/ InsertImpersonation(r) \/ MarkExecuted(r) \/ StopHalfStarted(r)

DualSpec == DualInit /\ [][DualNext]_dualVars

----------------------------------------------------------------------------

\* The row, the requests and the histories hold values of their types.
DualTypeOK ==
  /\ approval \in ApprovalRows
  /\ review \in [Requests -> [at : ReviewSteps, by : Admins \cup {NoAdmin}, fresh : BOOLEAN]]
  /\ approvedBy \in SUBSET Admins /\ impersonations \in 0 .. MaxStarts
  /\ halfStarted \in 0 .. MaxDualFaults /\ dualOutdated \in BOOLEAN

Rule == INSTANCE TwoPersonRule WITH
  Admins <- Admins, NoAdmin <- NoAdmin,
  asker <- approval.requestedBy, approvers <- approvedBy, uses <- impersonations

\* Whatever reviews, rejections and starts overlap, nobody is impersonated before
\* two administrators other than the one who asked have approved.
TwoPeopleApproved == Rule!Spec

\* One approval serves for one impersonation, unless a start stopped before it
\* marked the row or a request overwrote a row it had read earlier.
ApprovalUsedOnce ==
  ~dualOutdated /\ AtRest(review) => impersonations <= 1 + halfStarted

============================================================================
