--------------------------- MODULE EmailDelivery ---------------------------
(***************************************************************************)
(* The outgoing-mail queue of backend/src/modules/notifications: the table *)
(* EmailDelivery, the cron workers that drain it (processQueue every       *)
(* minute, processDigests every hour), administrators' requests and the    *)
(* provider's delivery events.                                             *)
(*                                                                         *)
(* No statement of the service runs in a transaction: an action is one SQL *)
(* statement or one call of the provider, and whatever lies between two    *)
(* awaits of a handler can interleave with everything else.  The backend   *)
(* runs as several replicas (infra/kubernetes), each with its own crons:   *)
(* QueueRuns and DigestRuns are the executions of the two handlers that    *)
(* can be in progress at once.  The flags processingQueue and              *)
(* processingDigests are per process: they only keep an execution from     *)
(* starting again before it is over, and processingQueue not even that     *)
(* when a delivery throws, for Promise.all does not wait for the others.   *)
(*                                                                         *)
(* A definition named ..._Wrong is a plausible mistake in the code of the  *)
(* definition after it.  No action uses it: it is there to show that some  *)
(* property would notice the mistake.                                      *)
(***************************************************************************)
EXTENDS Naturals, FiniteSets

CONSTANTS
  Ids,          \* identities of rows of EmailDelivery
  QueueRuns, DigestRuns,
  Admins,       \* administrators' requests that can overlap
  RecipientOf,  \* the recipient of each row: digests are grouped by it
  MaxAttempts,  \* column maxAttempts: 5 in the code
  BatchLimit,   \* LIMIT of the queue worker's SELECT: 25 in the code
  DigestLimit,  \* LIMIT of the digest worker's SELECT: 500 in the code
  MaxFaults,    \* bound: lost answers, failed statements and crashes
  MaxRequests   \* bound: administrators' requests

ASSUME ConstantsAssumption ==
  /\ MaxAttempts \in Nat \ {0} /\ BatchLimit \in Nat \ {0} /\ DigestLimit \in Nat \ {0}
  /\ MaxFaults \in Nat /\ MaxRequests \in Nat
  /\ IsFiniteSet(Ids) /\ IsFiniteSet(QueueRuns) /\ IsFiniteSet(DigestRuns)

VARIABLES
  status, attempts,      \* the table EmailDelivery
  due,                   \* nextAttemptAt has passed; for a digest row, its hour
  notified,              \* failureNotifiedAt is set
  messageId,             \* providerMessageId: the set of rows the mail carried
  polling, step, seen,   \* runs of processQueue, and their delivery of each row
  phase, batch, group,   \* runs of processDigests, their rows and current group
  paused,                \* EmailQueueControl
  admin,                 \* requests between their read and their write
  requests, faults,
  accepted,              \* history: how often the provider accepted the row,
  alerts,                \*   administrators were alerted about it,
  resets,                \*   retryAll cleared its failureNotifiedAt,
  repeats,               \*   something happened that may have it sent once more;
  orphaned               \*   rows whose sender died before recording the outcome

rows    == <<status, attempts, due, notified, messageId>>
queue   == <<polling, step, seen>>
digest  == <<phase, batch, group>>
control == <<paused, admin, requests, faults>>
history == <<accepted, alerts, resets, repeats, orphaned>>
vars    == <<rows, queue, digest, control, history>>

Absent == "ABSENT"  \* no such row yet
DeliveryStatuses ==
  {"QUEUED", "DIGEST_PENDING", "SENDING", "SENT", "DELIVERED", "FAILED",
   "BOUNCED", "COMPLAINED", "SUPPRESSED", "CANCELLED"}
Steps == {"idle", "selected", "sending", "accepted", "refused", "alerting", "notifying"}
Phases == {"idle", "selected", "sending", "accepted", "refused"}
Requests == [op : {"cancel", "retry", "resend"}, id : Ids]
NoRequest == [op |-> "none"]

\* f with value v, or counted up, at every row of S
Put(f, S, v) == [i \in Ids |-> IF i \in S THEN v ELSE f[i]]
Count(f, S) == [i \in Ids |-> IF i \in S THEN f[i] + 1 ELSE f[i]]

\* What SELECT ... LIMIT n can return of the rows T
Pages(T, n) == {S \in SUBSET T : Cardinality(S) <= n /\ (S = T \/ Cardinality(S) = n)}

Init ==
  /\ status = [i \in Ids |-> Absent] /\ attempts = [i \in Ids |-> 0]
  /\ due = [i \in Ids |-> FALSE] /\ notified = [i \in Ids |-> FALSE]
  /\ messageId = [i \in Ids |-> {}]
  /\ polling = [w \in QueueRuns |-> FALSE]
  /\ step = [w \in QueueRuns |-> [i \in Ids |-> "idle"]]
  /\ seen = [w \in QueueRuns |-> [i \in Ids |-> 0]]
  /\ phase = [d \in DigestRuns |-> "idle"]
  /\ batch = [d \in DigestRuns |-> {}] /\ group = [d \in DigestRuns |-> {}]
  /\ paused = FALSE /\ admin = [a \in Admins |-> NoRequest]
  /\ requests = 0 /\ faults = 0
  /\ accepted = [i \in Ids |-> 0] /\ alerts = [i \in Ids |-> 0]
  /\ resets = [i \in Ids |-> 0] /\ repeats = [i \in Ids |-> 0]
  /\ orphaned = {}

----------------------------------------------------------------------------
(* New rows, and time.                                                      *)

\* Suppressions and preferences choose among these: see EmailPolicy.
NewStatuses == {"QUEUED", "DIGEST_PENDING", "SUPPRESSED"}

InsertRow(i, s) ==
  /\ status[i] = Absent
  /\ status' = [status EXCEPT ![i] = s]
  /\ due' = [due EXCEPT ![i] = s # "DIGEST_PENDING"]

Enqueue(i) ==
  /\ \E s \in NewStatuses : InsertRow(i, s)
  /\ UNCHANGED <<attempts, notified, messageId, queue, digest, control, history>>

BecomesDue(i) ==
  /\ status[i] \in {"QUEUED", "FAILED", "DIGEST_PENDING"} /\ ~due[i]
  /\ due' = [due EXCEPT ![i] = TRUE]
  /\ UNCHANGED <<status, attempts, notified, messageId, queue, digest, control, history>>

----------------------------------------------------------------------------
(* processQueue and deliver.  A run reads the pause flag, selects a batch   *)
(* and delivers all its rows concurrently (Promise.all), working from the   *)
(* rows as they were when it selected them.                                 *)

StartRun(w) ==
  /\ ~polling[w] /\ ~paused
  /\ \A i \in Ids : step[w][i] = "idle"
  /\ polling' = [polling EXCEPT ![w] = TRUE]
  /\ UNCHANGED <<rows, step, seen, digest, control, history>>

Claimable_Wrong == DeliveryStatuses
Claimable == {"QUEUED", "FAILED"}

Selectable_Wrong == {i \in Ids : status[i] \in Claimable /\ due[i]}
Selectable_WrongNoRetry == {i \in Ids : status[i] = "QUEUED" /\ attempts[i] < MaxAttempts /\ due[i]}
Selectable == {i \in Ids : status[i] \in Claimable /\ attempts[i] < MaxAttempts /\ due[i]}

SelectRows(w) ==
  /\ polling[w]
  /\ polling' = [polling EXCEPT ![w] = FALSE]
  /\ \E S \in Pages(Selectable, BatchLimit) :
       /\ step' = [step EXCEPT ![w] = Put(@, S, "selected")]
       /\ seen' = [seen EXCEPT ![w] = [i \in Ids |-> IF i \in S THEN attempts[i] ELSE 0]]
  /\ UNCHANGED <<rows, digest, control, history>>

\* The delivery of row i goes on at s; one that is over forgets the row.
Goto(w, i, s) ==
  /\ step' = [step EXCEPT ![w][i] = s]
  /\ seen' = [seen EXCEPT ![w][i] = IF s = "idle" THEN 0 ELSE @]

\* The claim does not look at attempts again, nor at the pause flag.
Claim(w, i) ==
  /\ step[w][i] = "selected"
  /\ IF status[i] \in Claimable
     THEN /\ status' = [status EXCEPT ![i] = "SENDING"]
          /\ attempts' = [attempts EXCEPT ![i] = @ + 1]
          /\ Goto(w, i, "sending")
     ELSE UNCHANGED <<status, attempts>> /\ Goto(w, i, "idle")
  /\ UNCHANGED <<due, notified, messageId, polling, digest, control, history>>

\* sendMail resolves, or it rejects: see AnswerIsLost for its other reason.
ProviderAnswers(w, i) ==
  /\ step[w][i] = "sending"
  /\ \/ Goto(w, i, "accepted") /\ accepted' = [accepted EXCEPT ![i] = @ + 1]
     \/ Goto(w, i, "refused") /\ UNCHANGED accepted
  /\ UNCHANGED <<rows, polling, digest, control, alerts, resets, repeats, orphaned>>

RecordSent(w, i) ==
  /\ step[w][i] = "accepted"
  /\ status' = [status EXCEPT ![i] = "SENT"]
  /\ messageId' = [messageId EXCEPT ![i] = {i}]
  /\ Goto(w, i, "idle")
  /\ UNCHANGED <<attempts, due, notified, polling, digest, control, history>>

\* Judged from the row as it was selected.
LastAttempt_Wrong(w, i) == seen[w][i] >= MaxAttempts
LastAttempt(w, i) == seen[w][i] + 1 >= MaxAttempts

RecordFailed(w, i) ==
  /\ step[w][i] = "refused"
  /\ status' = [status EXCEPT ![i] = "FAILED"]
  /\ due' = [due EXCEPT ![i] = FALSE]
  /\ Goto(w, i, IF LastAttempt(w, i) THEN "alerting" ELSE "idle")
  /\ UNCHANGED <<attempts, notified, messageId, polling, digest, control, history>>

\* Only the run that sets failureNotifiedAt writes the notifications.
ClaimAlert_Wrong(w, i) ==
  /\ step[w][i] = "alerting" /\ Goto(w, i, "notifying")
  /\ notified' = [notified EXCEPT ![i] = TRUE]
  /\ UNCHANGED <<status, attempts, due, messageId, polling, digest, control, history>>

ClaimAlert(w, i) ==
  /\ step[w][i] = "alerting"
  /\ notified' = [notified EXCEPT ![i] = TRUE]
  /\ Goto(w, i, IF notified[i] THEN "idle" ELSE "notifying")
  /\ UNCHANGED <<status, attempts, due, messageId, polling, digest, control, history>>

NotifyAdmins(w, i) ==
  /\ step[w][i] = "notifying" /\ Goto(w, i, "idle")
  /\ alerts' = [alerts EXCEPT ![i] = @ + 1]
  /\ UNCHANGED <<rows, polling, digest, control, accepted, resets, repeats, orphaned>>

InFlight == {"sending", "accepted", "refused"}
Fault == faults < MaxFaults /\ faults' = faults + 1 /\ UNCHANGED <<paused, admin, requests>>

\* The provider has accepted the mail, but the connection breaks or times out
\* before its answer: sendMail rejects, and deliver goes on as if refused.
AnswerIsLost(w, i) ==
  /\ Fault
  /\ step[w][i] = "sending" /\ Goto(w, i, "refused")
  /\ accepted' = [accepted EXCEPT ![i] = @ + 1]
  /\ repeats' = [repeats EXCEPT ![i] = @ + 1]
  /\ UNCHANGED <<rows, polling, digest, alerts, resets, orphaned>>

\* A statement of a delivery throws.  The one that records SENT stands in the
\* try block: its failure is handled like a refusal by the provider.
StatementFails(w, i) ==
  /\ Fault
  /\ \/ /\ step[w][i] = "accepted" /\ Goto(w, i, "refused")
        /\ repeats' = [repeats EXCEPT ![i] = @ + 1] /\ UNCHANGED orphaned
     \/ /\ step[w][i] \in {"selected", "refused", "alerting", "notifying"}
        /\ Goto(w, i, "idle") /\ UNCHANGED repeats
        /\ orphaned' = IF step[w][i] = "refused" THEN orphaned \cup {i} ELSE orphaned
  /\ UNCHANGED <<rows, polling, digest, accepted, alerts, resets>>

\* The process stops.  Nothing at start-up looks for rows it left in SENDING.
Crash(w) ==
  /\ Fault
  /\ polling' = [polling EXCEPT ![w] = FALSE]
  /\ step' = [step EXCEPT ![w] = [i \in Ids |-> "idle"]]
  /\ seen' = [seen EXCEPT ![w] = [i \in Ids |-> 0]]
  /\ orphaned' = orphaned \cup {i \in Ids : step[w][i] \in InFlight}
  /\ UNCHANGED <<rows, digest, accepted, alerts, resets, repeats>>

----------------------------------------------------------------------------
(* processDigests and deliverDigest.  A run selects the digest rows whose  *)
(* hour has come and delivers the recipients' groups one after the other.   *)
(* It does not look at the pause flag.                                      *)

DigestSelectable == {i \in Ids : status[i] = "DIGEST_PENDING" /\ attempts[i] < MaxAttempts}

\* The LIMIT applies before the recipients' digest hours are looked at.
SelectDigests(d) ==
  /\ phase[d] = "idle"
  /\ phase' = [phase EXCEPT ![d] = "selected"]
  /\ \E S \in Pages(DigestSelectable, DigestLimit) :
       batch' = [batch EXCEPT ![d] = {i \in S : due[i]}]
  /\ UNCHANGED <<rows, queue, group, control, history>>

StillPending_Wrong(g) == g
StillPending(g) == {i \in g : status[i] = "DIGEST_PENDING"}

\* One UPDATE claims the rows of the group that are still pending; if there
\* is any, the digest carries the whole group.
ClaimDigest(d) ==
  /\ phase[d] = "selected"
  /\ \E r \in {RecipientOf[i] : i \in batch[d]} :
       LET g == {i \in batch[d] : RecipientOf[i] = r}
           claimed == StillPending(g)
       IN  /\ batch' = [batch EXCEPT ![d] = @ \ g]
           /\ status' = Put(status, claimed, "SENDING")
           /\ attempts' = Count(attempts, claimed)
           /\ IF claimed # {}
              THEN /\ phase' = [phase EXCEPT ![d] = "sending"]
                   /\ group' = [group EXCEPT ![d] = g]
                   /\ repeats' = Count(repeats, g \ claimed)
              ELSE UNCHANGED <<phase, group, repeats>>
  /\ UNCHANGED <<due, notified, messageId, queue, control, accepted, alerts, resets, orphaned>>

DigestProviderAnswers(d) ==
  /\ phase[d] = "sending"
  /\ \/ phase' = [phase EXCEPT ![d] = "accepted"] /\ accepted' = Count(accepted, group[d])
     \/ phase' = [phase EXCEPT ![d] = "refused"] /\ UNCHANGED accepted
  /\ UNCHANGED <<rows, queue, batch, group, control, alerts, resets, repeats, orphaned>>

\* On to the next group, or to the end of the run.
NextGroup(d, s) == phase' = [phase EXCEPT ![d] = s] /\ group' = [group EXCEPT ![d] = {}]

RecordDigestSent(d) ==
  /\ phase[d] = "accepted" /\ NextGroup(d, "selected")
  /\ status' = Put(status, group[d], "SENT")
  /\ messageId' = Put(messageId, group[d], group[d])
  /\ UNCHANGED <<attempts, due, notified, queue, batch, control, history>>

AfterRefusal_Wrong(i) == IF attempts[i] >= MaxAttempts THEN status[i] ELSE "DIGEST_PENDING"
AfterRefusal(i) == IF attempts[i] >= MaxAttempts THEN "FAILED" ELSE "DIGEST_PENDING"

RecordDigestFailed(d) ==
  /\ phase[d] = "refused" /\ NextGroup(d, "selected")
  /\ status' = [i \in Ids |-> IF i \in group[d] THEN AfterRefusal(i) ELSE status[i]]
  /\ due' = Put(due, group[d], FALSE)
  /\ UNCHANGED <<attempts, notified, messageId, queue, batch, control, history>>

EndDigestRun(d) ==
  /\ phase[d] = "selected" /\ batch[d] = {} /\ NextGroup(d, "idle")
  /\ UNCHANGED <<rows, queue, batch, control, history>>

\* A crash, or a statement outside the try block throws.
StopDigestRun(d) ==
  /\ Fault
  /\ phase[d] # "idle" /\ NextGroup(d, "idle")
  /\ batch' = [batch EXCEPT ![d] = {}]
  /\ orphaned' = orphaned \cup group[d]
  /\ UNCHANGED <<rows, queue, accepted, alerts, resets, repeats>>

\* As for a single mail, for all the rows that the digest carries.
DigestAnswerIsLost(d) ==
  /\ Fault
  /\ phase[d] = "sending" /\ phase' = [phase EXCEPT ![d] = "refused"]
  /\ accepted' = Count(accepted, group[d])
  /\ repeats' = Count(repeats, group[d])
  /\ UNCHANGED <<rows, queue, batch, group, alerts, resets, orphaned>>

DigestSentFails(d) ==
  /\ Fault
  /\ phase[d] = "accepted" /\ phase' = [phase EXCEPT ![d] = "refused"]
  /\ repeats' = Count(repeats, group[d])
  /\ UNCHANGED <<rows, queue, batch, group, accepted, alerts, resets, orphaned>>

----------------------------------------------------------------------------
(* Administrators.  cancel, retry and resend read the row, check its        *)
(* status, and then write without checking it again.                        *)

Request == requests < MaxRequests /\ requests' = requests + 1 /\ UNCHANGED faults

Cancellable == {"QUEUED", "DIGEST_PENDING", "FAILED"}
Allowed(op) ==
  CASE op = "cancel" -> Cancellable
    [] op = "retry"  -> {"FAILED"}
    [] op = "resend" -> DeliveryStatuses \ {"QUEUED", "DIGEST_PENDING", "SENDING"}

ReadForRequest(a, r) ==
  /\ Request
  /\ admin[a] = NoRequest /\ status[r.id] \in Allowed(r.op)
  /\ admin' = [admin EXCEPT ![a] = r]
  /\ UNCHANGED <<rows, queue, digest, paused, history>>

Answer(a) == admin' = [admin EXCEPT ![a] = NoRequest] /\ UNCHANGED <<paused, requests, faults>>

CancelWrite(a) ==
  /\ admin[a].op = "cancel" /\ Answer(a)
  /\ status' = [status EXCEPT ![admin[a].id] = "CANCELLED"]
  /\ UNCHANGED <<attempts, due, notified, messageId, queue, digest, history>>

\* Gives the row all its attempts again; failureNotifiedAt stays as it is.
RetryWrite(a) ==
  /\ admin[a].op = "retry" /\ Answer(a)
  /\ LET i == admin[a].id
     IN  /\ status' = [status EXCEPT ![i] = "QUEUED"]
         /\ attempts' = [attempts EXCEPT ![i] = 0]
         /\ due' = [due EXCEPT ![i] = TRUE]
         /\ repeats' = Count(repeats, {i} \ {j \in Ids : status[j] = "FAILED"})
  /\ UNCHANGED <<notified, messageId, queue, digest, accepted, alerts, resets, orphaned>>

\* A new row with the content of the old one.
ResendWrite(a) ==
  /\ admin[a].op = "resend" /\ Answer(a)
  /\ \E i \in Ids : RecipientOf[i] = RecipientOf[admin[a].id] /\ InsertRow(i, "QUEUED")
  /\ UNCHANGED <<attempts, notified, messageId, queue, digest, history>>

Failed_Wrong == {i \in Ids : status[i] # Absent}
Failed == {i \in Ids : status[i] = "FAILED"}

RetryAll ==
  /\ Request
  /\ status' = Put(status, Failed, "QUEUED")
  /\ attempts' = Put(attempts, Failed, 0)
  /\ due' = Put(due, Failed, TRUE)
  /\ notified' = Put(notified, Failed, FALSE)
  /\ resets' = Count(resets, Failed)
  /\ UNCHANGED <<messageId, queue, digest, paused, admin, accepted, alerts, repeats, orphaned>>

PauseQueue ==
  /\ Request /\ paused' = TRUE
  /\ UNCHANGED <<rows, queue, digest, admin, history>>

ResumeQueue ==
  /\ paused' = FALSE
  /\ UNCHANGED <<rows, queue, digest, admin, requests, faults, history>>

----------------------------------------------------------------------------
(* recordProviderEvent: the event names one row (by deliveryId, or by the   *)
(* address: the newest row), or every row of a message.  The SELECT of its  *)
(* rows is one action with the UPDATE: a row it finds stays a row.          *)

EventTargets ==
  {{i} : i \in {j \in Ids : status[j] # Absent}}
  \cup {{j \in Ids : messageId[j] = messageId[i]} : i \in {k \in Ids : messageId[k] # {}}}

HandedOver_Wrong == {i \in Ids : status[i] # Absent}
HandedOver == {i \in Ids : status[i] \in {"SENT", "DELIVERED"}}

RecordDelivered ==
  /\ \E S \in EventTargets : status' = Put(status, S \cap HandedOver, "DELIVERED")
  /\ UNCHANGED <<attempts, due, notified, messageId, queue, digest, control, history>>

\* Whatever the status; the suppression that comes with it is in EmailPolicy.
RecordBounce ==
  /\ \E S \in EventTargets, s \in {"BOUNCED", "COMPLAINED"} : status' = Put(status, S, s)
  /\ UNCHANGED <<attempts, due, notified, messageId, queue, digest, control, history>>

----------------------------------------------------------------------------

DeliverStep(w, i) ==
  \/ Claim(w, i) \/ ProviderAnswers(w, i) \/ RecordSent(w, i) \/ RecordFailed(w, i)
  \/ ClaimAlert(w, i) \/ NotifyAdmins(w, i)

DigestStep(d) ==
  \/ SelectDigests(d) \/ ClaimDigest(d) \/ DigestProviderAnswers(d)
  \/ RecordDigestSent(d) \/ RecordDigestFailed(d) \/ EndDigestRun(d)

AdminWrite(a) == CancelWrite(a) \/ RetryWrite(a) \/ ResendWrite(a)

Next ==
  \/ \E i \in Ids : Enqueue(i) \/ BecomesDue(i)
  \/ \E w \in QueueRuns : \/ StartRun(w) \/ SelectRows(w) \/ Crash(w)
                          \/ \E i \in Ids : DeliverStep(w, i) \/ AnswerIsLost(w, i) \/ StatementFails(w, i)
  \/ \E d \in DigestRuns : \/ DigestStep(d) \/ StopDigestRun(d)
                           \/ DigestAnswerIsLost(d) \/ DigestSentFails(d)
  \/ \E a \in Admins : AdminWrite(a) \/ \E r \in Requests : ReadForRequest(a, r)
  \/ RetryAll \/ PauseQueue \/ ResumeQueue
  \/ RecordDelivered \/ RecordBounce

Spec == Init /\ [][Next]_vars

\* The crons of every process keep firing, statements and the provider's
\* calls end (the SMTP transport times out), and the clock goes on.  Nothing
\* is assumed of administrators.
FairSpec ==
  /\ Spec
  /\ \A i \in Ids : WF_vars(BecomesDue(i))
  /\ \A w \in QueueRuns : /\ WF_vars(StartRun(w)) /\ WF_vars(SelectRows(w))
                          /\ \A i \in Ids : WF_vars(DeliverStep(w, i))
  /\ \A d \in DigestRuns : WF_vars(DigestStep(d))

----------------------------------------------------------------------------
(* Properties.                                                              *)

\* Every column and every run of a worker holds a value the code can store.
TypeOK ==
  /\ status \in [Ids -> DeliveryStatuses \cup {Absent}] /\ attempts \in [Ids -> Nat]
  /\ due \in [Ids -> BOOLEAN] /\ notified \in [Ids -> BOOLEAN]
  /\ messageId \in [Ids -> SUBSET Ids]
  /\ polling \in [QueueRuns -> BOOLEAN]
  /\ step \in [QueueRuns -> [Ids -> Steps]] /\ seen \in [QueueRuns -> [Ids -> Nat]]
  /\ phase \in [DigestRuns -> Phases]
  /\ batch \in [DigestRuns -> SUBSET Ids] /\ group \in [DigestRuns -> SUBSET Ids]
  /\ paused \in BOOLEAN /\ admin \in [Admins -> Requests \cup {NoRequest}]
  /\ requests \in Nat /\ faults \in Nat
  /\ accepted \in [Ids -> Nat] /\ alerts \in [Ids -> Nat]
  /\ resets \in [Ids -> Nat] /\ repeats \in [Ids -> Nat]
  /\ orphaned \subseteq Ids

Owned(i) ==
  \/ \E w \in QueueRuns : step[w][i] \in InFlight
  \/ \E d \in DigestRuns : i \in group[d]
  \/ i \in orphaned

\* A row in SENDING has a run that is still going to record its outcome,
\* unless that run died: nothing else strands a mail, whatever requests,
\* events and other runs do to the row meanwhile.  (deliver, deliverDigest)
SendingIsOwned == \A i \in Ids : status[i] = "SENDING" => Owned(i)

\* The provider accepts a row again only after one of four things:
\* its answer was lost after it had accepted, the statement that records SENT
\* failed, a retry was written to a row that was no longer FAILED, or a digest
\* carried a row it had not claimed.  Overlapping runs, refusals, retries and
\* bounces alone never duplicate a mail.
NoUnexplainedDuplicate == \A i \in Ids : accepted[i] <= 1 + repeats[i]

\* A stale batch can take a row beyond maxAttempts, by at most one attempt
\* for every run of processQueue that can overlap.  (processQueue selects on
\* attempts, the claims of deliver and deliverDigest do not look at it again)
AttemptsBounded ==
  \A i \in Ids : attempts[i] <= MaxAttempts + Cardinality(QueueRuns)

\* However many runs see the last attempt fail, administrators get one alert
\* about a row, and one more each time retryAll clears failureNotifiedAt.
AlertsBounded == \A i \in Ids : alerts[i] <= 1 + resets[i]

\* A row that reads SENT or DELIVERED was handed over to the provider: no
\* request or event puts a mail there that was never sent.
SentWasAccepted ==
  \A i \in Ids : status[i] \in {"SENT", "DELIVERED"} => accepted[i] > 0

\* Administrators are told of a permanent failure: a row whose attempts are
\* used up, and that no run is working on, has failureNotifiedAt set.
PermanentFailureNotified ==
  \A i \in Ids :
    /\ status[i] = "FAILED" /\ attempts[i] >= MaxAttempts
    /\ \A w \in QueueRuns : step[w][i] \notin {"refused", "alerting"}
    /\ \A d \in DigestRuns : i \notin group[d]
    => notified[i]

\* The provider's verdict is not undone by the service itself: while a row has
\* had no second delivery, only a later event, or a cancel that had read the
\* row before, moves it out of DELIVERED.
DeliveredIsKept ==
  [][\A i \in Ids :
       /\ status[i] = "DELIVERED" /\ repeats'[i] = 0
       /\ \A a \in Admins : admin[a] # [op |-> "cancel", id |-> i]
       => status'[i] \in {"DELIVERED", "BOUNCED", "COMPLAINED"}]_vars

\* Only queued, digest-pending or failed mail is cancelled.
OnlyPendingIsCancelled ==
  [][\A i \in Ids :
       status[i] # "CANCELLED" /\ status'[i] = "CANCELLED" => status[i] \in Cancellable]_vars

\* A mail that waits is, in the end, sent or given up: no interleaving of
\* runs leaves it waiting for ever, unless an administrator pauses the queue.
Waiting(i) ==
  \/ status[i] \in {"QUEUED", "SENDING", "DIGEST_PENDING"}
  \/ status[i] = "FAILED" /\ attempts[i] < MaxAttempts
EveryMailIsSettled == \A i \in Ids : Waiting(i) ~> (~Waiting(i) \/ paused)

============================================================================
