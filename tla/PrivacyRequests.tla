--------------------------- MODULE PrivacyRequests ---------------------------
(***************************************************************************)
(* One privacy request (PrivacyRequestsService): the link that verifies    *)
(* it, updates by administrators, the deletion job or the export that its  *)
(* completion makes, and the one-time download of the export.              *)
(*                                                                         *)
(* RECEIVED stands for IN_REVIEW too and DENIED for CANCELED.  Reasons,    *)
(* notes, assignment, expiry of the links, and the reminder of             *)
(* approaching deadlines are left out; a job is carried out elsewhere.     *)
(***************************************************************************)
EXTENDS ReadThenWrite, Naturals

CONSTANTS
  MaxExports,         \* bound: exports made
  MaxPrivacyFaults    \* bound: updates that stop after their UPDATE

ASSUME PrivacyAssumption == MaxExports \in Nat /\ MaxPrivacyFaults \in Nat

VARIABLES
  privacy,        \* the row; type and columns, or status "absent"
  handling,       \* what each request has read and is going to do
  jobs,           \* PrivacyActionJobs; history: the row when each was made
  exports,        \* PrivacyExportArtifacts made
  downloads,      \* how often each was handed out
  verifications,  \* how often the link was honoured
  halfHandled     \* history: updates that stopped after their UPDATE

privacyVars == <<privacy, handling, jobs, exports, downloads, verifications, halfHandled>>

PrivacyStatuses == {"absent", "VERIFYING", "RECEIVED", "COMPLETED", "DENIED"}
PrivacyRows ==
  [status : PrivacyStatuses, type : {"DELETION", "EXPORT"}, verified : BOOLEAN,
   identity : BOOLEAN, hold : BOOLEAN, approved : BOOLEAN]

\* What administrators ask for: the new status, and flags that are given or not.
Flags == {"yes", "no", "keep"}
Dto(status, identity, hold, approved) == [status |-> status, identity |-> identity, hold |-> hold, approved |-> approved]
PrivacyDtos ==
  {Dto("RECEIVED", FALSE, "yes", FALSE), Dto("RECEIVED", FALSE, "no", FALSE), Dto("RECEIVED", TRUE, "keep", FALSE),
   Dto("RECEIVED", FALSE, "keep", TRUE), Dto("COMPLETED", FALSE, "keep", FALSE), Dto("COMPLETED", TRUE, "keep", TRUE),
   Dto("DENIED", FALSE, "yes", FALSE), Dto("DENIED", FALSE, "keep", FALSE)}

NoChange == Dto("RECEIVED", FALSE, "keep", FALSE)
Handling(step, dto, completes, export) ==
  [at |-> step, dto |-> dto, completes |-> completes, export |-> export, fresh |-> TRUE]
Unhandled == Handling("idle", NoChange, FALSE, 0)
Handlings ==
  [at : {"idle", "consumeLink", "update", "make", "consumeExport"},
   dto : [status : PrivacyStatuses, identity : BOOLEAN, hold : Flags, approved : BOOLEAN],
   completes : BOOLEAN, export : 0 .. MaxExports, fresh : BOOLEAN]

PrivacyInit ==
  /\ privacy = [status |-> "absent", type |-> "EXPORT", verified |-> FALSE,
                identity |-> FALSE, hold |-> FALSE, approved |-> FALSE]
  /\ handling = [r \in Requests |-> Unhandled]
  /\ jobs = {} /\ exports = 0 /\ downloads = [x \in 1 .. MaxExports |-> 0]
  /\ verifications = 0 /\ halfHandled = 0

CreatePrivacyRequest(type) ==
  /\ privacy.status = "absent"
  /\ privacy' = [privacy EXCEPT !.status = "VERIFYING", !.type = type]
  /\ UNCHANGED <<handling, jobs, exports, downloads, verifications, halfHandled>>

Proceeds(r, step) ==
  /\ handling' = [handling EXCEPT ![r] = step]
  /\ UNCHANGED <<privacy, jobs, exports, downloads, verifications, halfHandled>>

----------------------------------------------------------------------------
(* verify: the SELECT, then the conditional UPDATE.                         *)

BeginVerify(r) ==
  /\ handling[r].at = "idle" /\ privacy.status = "VERIFYING" /\ ~privacy.verified
  /\ Proceeds(r, Handling("consumeLink", NoChange, FALSE, 0))

ConsumeLink(r) ==
  /\ handling[r].at = "consumeLink"
  /\ IF privacy.verified
     THEN Proceeds(r, Unhandled)
     ELSE /\ privacy' = [privacy EXCEPT !.status = "RECEIVED", !.verified = TRUE, !.identity = TRUE]
          /\ verifications' = verifications + 1
          /\ handling' = Overwritten(handling, r, Unhandled)
          /\ UNCHANGED <<jobs, exports, downloads, halfHandled>>

----------------------------------------------------------------------------
(* update.                                                                  *)

NoHold_Wrong(dto) == dto.hold # "yes"
NoHold(dto) == ~privacy.hold /\ dto.hold # "yes"

Acceptable(dto) ==
  dto.status = "COMPLETED" =>
    /\ privacy.identity \/ dto.identity
    /\ privacy.type = "DELETION" => NoHold(dto) /\ (privacy.approved \/ dto.approved)

BeginPrivacyUpdate(r) ==
  /\ handling[r].at = "idle" /\ privacy.status # "absent"
  /\ \E dto \in PrivacyDtos :
       /\ Acceptable(dto)
       /\ Proceeds(r, Handling("update", dto, dto.status = "COMPLETED" /\ privacy.status # "COMPLETED", 0))

\* Flags that are not given leave their column alone; only a hold can be taken back.
Updated(dto) ==
  [privacy EXCEPT !.status = dto.status, !.identity = @ \/ dto.identity, !.approved = @ \/ dto.approved,
                  !.hold = IF dto.hold = "keep" THEN @ ELSE dto.hold = "yes"]

UpdatePrivacyRequest(r) ==
  /\ handling[r].at = "update"
  /\ privacy' = Updated(handling[r].dto)
  /\ handling' = Overwritten(handling, r,
       IF handling[r].completes THEN [handling[r] EXCEPT !.at = "make"] ELSE Unhandled)
  /\ UNCHANGED <<jobs, exports, downloads, verifications, halfHandled>>

ApproveDeletion(r) ==
  /\ handling[r].at = "make" /\ privacy.type = "DELETION"
  /\ jobs' = jobs \cup {[identity |-> privacy.identity, approved |-> privacy.approved,
                         held |-> privacy.hold, fresh |-> handling[r].fresh]}
  /\ handling' = [handling EXCEPT ![r] = Unhandled]
  /\ UNCHANGED <<privacy, exports, downloads, verifications, halfHandled>>

CreateExportArtifact(r) ==
  /\ handling[r].at = "make" /\ privacy.type = "EXPORT" /\ exports < MaxExports
  /\ exports' = exports + 1
  /\ handling' = [handling EXCEPT ![r] = Unhandled]
  /\ UNCHANGED <<privacy, jobs, downloads, verifications, halfHandled>>

\* The audit row cannot be written, or the process stops: the request is
\* COMPLETED, and completing it once more makes nothing.
StopHalfHandled(r) ==
  /\ handling[r].at = "make" /\ halfHandled < MaxPrivacyFaults
  /\ halfHandled' = halfHandled + 1
  /\ handling' = [handling EXCEPT ![r] = Unhandled]
  /\ UNCHANGED <<privacy, jobs, exports, downloads, verifications>>

----------------------------------------------------------------------------
(* downloadExport: the SELECT, then the conditional UPDATE and the answer.  *)

BeginDownload(r) ==
  /\ handling[r].at = "idle"
  /\ \E x \in 1 .. exports :
       downloads[x] = 0 /\ Proceeds(r, Handling("consumeExport", NoChange, FALSE, x))

Consumable_Wrong(x) == x \in 1 .. exports
Consumable(x) == downloads[x] = 0

ConsumeExport(r) ==
  /\ handling[r].at = "consumeExport"
  /\ downloads' = IF Consumable(handling[r].export) THEN [downloads EXCEPT ![handling[r].export] = @ + 1] ELSE downloads
  /\ handling' = [handling EXCEPT ![r] = Unhandled]
  /\ UNCHANGED <<privacy, jobs, exports, verifications, halfHandled>>

PrivacyNext ==
  \/ \E type \in {"DELETION", "EXPORT"} : CreatePrivacyRequest(type)
  \/ \E r \in Requests :
       \/ BeginVerify(r) \/ ConsumeLink(r)
       \/ BeginPrivacyUpdate(r) \/ UpdatePrivacyRequest(r)
       \/ ApproveDeletion(r) \/ CreateExportArtifact(r) \/ StopHalfHandled(r)
       \/ BeginDownload(r) \/ ConsumeExport(r)

PrivacySpec == PrivacyInit /\ [][PrivacyNext]_privacyVars

----------------------------------------------------------------------------

\* The row, jobs and requests hold values of their types.
PrivacyTypeOK ==
  /\ privacy \in PrivacyRows /\ handling \in [Requests -> Handlings]
  /\ jobs \in SUBSET [identity : BOOLEAN, approved : BOOLEAN, held : BOOLEAN, fresh : BOOLEAN]
  /\ exports \in 0 .. MaxExports /\ downloads \in [1 .. MaxExports -> Nat]
  /\ verifications \in Nat /\ halfHandled \in 0 .. MaxPrivacyFaults

\* A deletion is handed on only for a request whose person is identified and
\* whose deletion is approved, whatever was written since the check, and never
\* under a legal hold unless the hold was placed while the request was completed.
DeletionJustified ==
  \A j \in jobs : j.identity /\ j.approved /\ (j.held => ~j.fresh)

\* A verification link and an export link are honoured once, however many
\* requests present them at the same time.
LinksUsedOnce == verifications <= 1 /\ \A x \in 1 .. MaxExports : downloads[x] <= 1

============================================================================
