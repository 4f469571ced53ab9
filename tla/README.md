# A verification development of FieldserviceIT

FieldserviceIT is a multi-tenant service-management application: a NestJS
backend (`src/backend`) over MySQL, run as several replicas
(`infra/kubernetes`), and a Next.js frontend. This directory holds TLA+ models
of the parts of the backend where requests, cron jobs and external events
interleave, the TLC configurations that check them on small instances, and
proofs, checked by TLAPS, that their main properties hold for any number of
rows, requests and replicas.

Nearly no code of the backend uses a transaction. A handler is a series of
single SQL statements with an `await` between any two of them, so in the models
**an action is one statement or one call of an external service**, and whatever
lies between two awaits interleaves with everything else. The statements
themselves are atomic; MySQL guarantees that much for single-row updates.

The typical handler reads a row, checks what it read, and writes by id alone.
Many sentences one would like to be true are therefore true only while no such
write hits a row that changed since it was read. The properties say so: they
hold for every interleaving, and what excuses a violation is recorded by a
history variable (`...Outdated`, `half...`, `fresh`) that names the cause. Where
the code protects itself (a condition in the UPDATE, a unique key, a lock), the
property has no excuse.

## Inventory

### Modelled

| Component | State | Operations | What is hard |
| --- | --- | --- | --- |
| Email delivery queue (`notifications/services/email-delivery.service.ts`) | table `EmailDelivery`, pause flag `EmailQueueControl`, per-process flags | `processQueue` each minute, `processDigests` each hour, cancel / retry / resend / retryAll / pause / resume, provider events | replicas select overlapping batches; the rows worked from are those selected; crash between a claim and its outcome; a provider whose answer is lost; a digest claims part of a group; unconditional writes of administrators; events before the record of SENT |
| Email policy (same file) | `EmailSuppression`, `NotificationPreference` | `enqueue`, `updatePreferences`, `unsubscribe`, `resubscribe`, bounces and complaints | two tables, written by two statements and read by two others; a whole row written back as read |
| Sessions (`auth/services/auth.service.ts`, `database/repositories/session.repository.ts`) | `Session`, `SessionRefreshHistory` | login, refresh, reuse detection, trimming, logout, revocations, password reset, expiry | one token presented twice at once; revocation during a refresh; rotation and its history, which expires, are two statements; trimming of rows read earlier |
| Second factor and its reset (`auth/services/mfa.service.ts`, `mfa-reset.service.ts`) | the MFA columns of `User`, `MfaResetRequest` | setup, confirmation, codes, disabling, new recovery codes, reset | the list of recovery codes is written back whole |
| Authorisation guards (`common/guards`, `auth/strategies`) | rows of `Session`, `User`, `Company`, `ImpersonationSession`, permissions, grants, policies, plan | one request through `JwtStrategy.validate` and six guards | each guard reads at another moment, some for the user impersonated |
| Dual approval and impersonation (`admin/services/access-governance.service.ts`) | `DualApprovalRequest`, `ImpersonationSession` | `requestDualApproval`, `reviewDualApproval`, `startImpersonation` | reviews overlap; a start is three statements |
| Access requests and elevation (same service) | `AccessRequest`, `AccessElevationRequest`, `TemporaryPermissionGrant` | request and review of both | what is granted is made before the row that says so |
| Privacy requests (`privacy-requests`) | `PrivacyRequest`, action jobs, export artifacts | create, verify, update, download | checks on a row read earlier; one-time links presented twice |
| Tickets (`tickets`, `maintenance`) | columns `status`, `resolvedAt`, `assignedToId`, `deletedAt` of `Ticket` | `update`, `assign`, `resolve`, `remove`, assignment by a maintenance plan | decided on a row read earlier, written by id alone |
| Ticket numbers and usage (`tickets`, `ai-agent`, `cmdb`, `rmm-integration`, `usage.service.ts`) | `Ticket.ticketNumber`, `UsageRecord` | creation in four places, `incrementUsage` | a number is looked up and inserted later; a counter read and written back |
| SLA escalation (`email-delivery.service.ts`) | `TicketEmailEscalation` | the five-minute cron on every replica | replicas overlap; a row is inserted before its mails; the cron goes by `resolvedAt` |
| Maintenance plans (`maintenance`) | `MaintenancePlan`, `MaintenanceRun` | `createPlan`, `updatePlan`, `generateTicket`, `completePlan` | the ticket before its run, the run before the plan's date; two completions find the same run |
| Catalogue requests (`catalog-requests`) | `CatalogRequest` | create, update, remove, approve, reject, fulfill | `update` writes any status and rejection reason; the others write by id |
| Field visits (`field-service`) | `Dispatch` | dispatch, status alone and in bulk, signature, photos | a list written back as read |
| Billing events (`billing`) | `BillingEvent`, `CompanyPlan` | `handleWebhook`, `applyEvent`, checkout | repeated, overlapping and failed deliveries |
| Inventory (`inventory`) | `InventoryPart`, `InventoryTransaction` | `createPart`, `updatePart`, `createMovement` | availability checked on a read, stock changed later, log last |
| Quotes and invoices (`quotes-invoices`) | `ServiceQuote`, `ServiceInvoice` and their lines | `updateQuote`, `convertQuoteToInvoice` | lines deleted and inserted one by one; a conversion in five statements |
| Managed devices (`cmdb`, `endpoint-operations`, `asset.repository.ts`) | `Asset`, `MdmEnrollmentToken`, `MdmCommand`, `PatchJob` | enrolment, retire, restore, purge, patch jobs | a purge decides before it deletes; a token is used before it is marked |
| Network device actions (`cmdb`) | `NetworkDeviceAction` | queue, approve / reject, execute | the vendor's answer is awaited between read and write |
| Network alerts (`cmdb`) | `NetworkAlertEvent`, their tickets | `evaluateAlertRules`, people | evaluations overlap; the ticket is made before the alert |
| Remote monitoring sync (`rmm-integration`) | `Asset` by serial number, a MySQL lock by name | `runSyncWithRetry`, webhooks | retries over half-done work; a lost connection gives the lock back |
| Schema migrations at start (`database/migrations`) | `_migrations`, `_migration_failures`, the schema | `runMigrations` on every replica | no lock between replicas; stops between statements; errors swallowed; a start given up half way leaves the replica up |

How they interact: the SLA cron reads the ticket that requests change, and
enqueues mail; `enqueue` asks the policy tables which status a new mail gets;
from then on the mail is a row of the queue and the policy is not asked again;
a bounce changes both a row of the queue and the policy. A maintenance plan
assigns the ticket it opens; an alert and a sync open tickets, whose numbers
come from the same series; an approved reset, a deactivated user and a granted
elevation revoke sessions. `SlaEscalation` composes with `TicketLifecycle` as
one state machine. The others share no table that both write, or meet in one
statement each: `EmailPolicy` and `EmailDelivery` in the status of a new row
(`NewStatuses`, which EmailDelivery takes in any order) and in a bounce, whose
two effects are a statement in each; a revocation of sessions, whoever causes
it, is an action of `SessionRotation`.

What makes each correct, in one sentence: no mail is lost in the queue, or sent
twice, except for named causes; no optional mail follows an unsubscribe; a
refresh token is exchanged once and what is revoked stays revoked; a used
recovery code stays used; what a guard admits had every fact it needs; nobody is
impersonated, and nothing deleted, before those who must have approved; a
ticket's status and `resolvedAt` agree and follow the transition table; numbers
have no gap; each level of an overdue ticket is escalated, and once; an event of
the payment provider counts once; stock covers its reservations; an invoice has
the lines and the total of its quote; no device is deleted ahead of time; a
vendor is called after an approval, and once; a recorded migration is in the
schema, but for indexes that could not be made.

### Not modelled

PROJECT.json lists each with its files and the reason. They fall in four groups.

- *Serialised by the database*: a tenant invitation is one transaction with
  `SELECT ... FOR UPDATE`; the rate limit is one upsert.
- *Records and queries*: administration, settings, the configuration database,
  knowledge base, search, reporting, security centre, topology, audit log,
  health, workflow templates, ticket approvals (entries of the timeline). One
  statement changes a record and nothing waits for it.
- *Outside the repository*: the mail and billing providers, identity providers,
  the AI model, monitoring vendors, endpoint agents, the malware scanner. Only
  the outcomes of a call are modelled, where a modelled component makes it.
- *Presentation*: the frontend, two fifths of the code, which renders what the
  API answers; its one protocol, a refresh shared by the requests of a tab, is
  an input of `SessionRotation`. Data definitions, DTOs and the SQL generator
  `database.service.ts` have no protocol either: the models use the atomicity of
  its statements and the unique keys of the tables.

Two known limits of the email queue are not reached by the instances: `LIMIT
500` is applied to the digest's rows before the recipients' hours
(`email-delivery.service.ts:717`), and `LIMIT 250` of the escalation has no
ORDER BY (`email-delivery.service.ts:757`), so that with more rows than that some
may wait for long; a bounce is forgotten by an unsubscribe and a resubscribe
(`email-delivery.service.ts:273`, see the disagreements below).

## Modules

| Module | What it is |
| --- | --- |
| `EmailDelivery` | the queue, its workers, requests and events |
| `EmailDeliveryProofs`, `EmailDeliveryBounds` | its proofs: what rows mean; how often things happen |
| `EmailPolicy`, `EmailPolicyProofs` | suppression and preferences, and the proof that an unsubscribe holds |
| `TokenLedger` | abstract specification of refresh tokens |
| `SessionRotation`, `SessionRotationProofs` | sessions statement by statement, and the proofs that they implement the ledger and keep to the limit |
| `TicketLifecycle` | one ticket and the requests that write it |
| `SlaEscalation`, `SlaEscalationProofs` | the escalation cron over that ticket, and the proofs of both |
| `ReadThenWrite` | the shape of the handlers below: requests, people, `Outdated` |
| `TwoPersonRule`, `DualApproval` | what dual approval promises; the handlers that implement it |
| `AccessElevation`, `PrivacyRequests`, `BillingEvents`, `Stock`, `Documents`, `TicketNumbering`, `SecondFactor`, `ManagedDevices` | a component of the office each |
| `RmmSync`, `Migrations`, `DeviceActions`, `NetworkAlerts`, `RequestGuards`, `FieldDispatch`, `CatalogRequests`, `MaintenancePlans` | a component of the platform each |
| `OfficeProofs` | proofs of dual approval, privacy requests, billing, quotes, and of the office as a whole |
| `RecordsProofs` | proofs of stock, numbering, elevation, second factor, devices |
| `PlatformProofs` | proofs of the eight modules of the platform, and of it as a whole |
| `MC...` | the instances for TLC |

A definition `X_Wrong` (or another name that says what is wrong) is a plausible
mistake in the code of `X`. No action uses it; with it in place of `X`, TLC finds
a named property violated (PROJECT.json, `mutants`). It shows that the property
can fail.

### EmailDelivery

`status`, `attempts`, `due` (`nextAttemptAt` has passed), `notified`
(`failureNotifiedAt`) and `messageId` are columns. `step[w][i]` and `seen[w][i]`
are the progress of run `w` of `processQueue` on row `i` and the `attempts` it
read: `Promise.all` delivers all rows of a batch at once, so a run has a position
per row. `phase`, `batch` and `group` belong to a run of `processDigests`, which
delivers one recipient after the other. `admin` is what a request has read
before it writes. `Claim` is the conditional UPDATE of `deliver`, which does not
look at `attempts` again; `ClaimDigest` claims the rows that are still pending
and then carries the whole group, as the code does. `StatementFails`, `Crash`,
`StopDigestRun` and `DigestSentFails` are what can go wrong between statements;
`AnswerIsLost` and `DigestAnswerIsLost` are a mail that the provider accepts
while `sendMail` rejects (a timeout or a broken connection after DATA), which
the code takes for a refusal and sends again: a cause of duplicates like the
others, counted in `repeats`;
a failure of the statement that records SENT is handled by the code like a
refusal, and so it is here. Histories (`accepted`, `alerts`, `resets`, `repeats`,
`orphaned`) are written and never read by an action.

Abstracted: the text of a mail, headers, open and click tracking, the backoff's
length (`BecomesDue` may happen at any time).

### EmailPolicy

One address, and the user it belongs to. A request `request[c]` is at statement
`pc[c]`; `At(c, op, n)` names the statement. The eight optional categories have
one switch each in `settings.events`; one switch stands for all, for a mail looks
at one. `owed[c]` records when a request begins whether the recipient's
unsubscribe held at that moment and no resubscribe has begun since; the row
that `enqueue` inserts carries it.

### SessionRotation and TokenLedger

Tokens are numbers, in order of issue. `call[c]` is a request: the statement it
is at, the token presented, the session it found, the sessions it read as beyond
the limit. `Rotate` is the UPDATE whose condition (`Rotatable`) names the token,
`revokedAt IS NULL` and the expiry; the code's UPDATE also clears `revokedAt`,
and so does the action. A history row has the expiry the session had when it
was rotated, and `findReusedToken` wants it unexpired: `LapseHistory` lets the
rows of a session's earlier rotations expire in any order, for the lifetime of a
session is a setting, and `Expire` ends the row of its last rotation
(`LastRotated`) together with the session. The ledger has a function from tokens
to unissued, live and dead, and the pairs exchanged, so that it tells an exchange
from a login; a token is live while an active, unexpired session holds it.

### TicketLifecycle and SlaEscalation

`Read(c)` is `findOne` and the decision of `update`, `assign`, `resolve` or
`remove`; what it is going to write is a patch (`UpdatePatch` and the others,
"keep" for columns left out of the UPDATE). `Write(c)` applies it to the row as
it is by then. `call[c].fresh`, `plan` and `raced` are histories: whether the
row was written since it was read, and whether an outdated patch ever changed
something. An empty `status` in a request is falsy in every condition of
`update` and is written all the same, unless an assignment makes an OPEN ticket
ASSIGNED; the model says so with `Blank`.

A run of the cron selects the ticket (with its assignee), computes the levels
from the ticket's age a statement later, and for each level looks for
recipients, inserts the level's row (`INSERT IGNORE`, `Inserted`) and queues the
mails. The ticket's texts, `onHoldReason` among them, are left out; an update to
ON_HOLD stands for one that gives a reason. The batch is one ticket: `LIMIT 250`
is not reached. A failed run before the insertion leaves nothing behind, so
failures are modelled between the row and its mails only. The manager of the SLA
is taken to have an address.

### The shape of the other modules

`ReadThenWrite` has what they share: a record per request in progress, with the
step it is at (`at`) and whether the row was written since the request read it
(`fresh`). `BeginReview` and its likes are the SELECT with every check of the
handler; the next action is the UPDATE, by id alone unless the code names a
condition, and it makes the readings of the others outdated. When the row
written was outdated itself, a history says so (`dualOutdated`, `docOutdated`
and so on). A statement that fails, or a process that stops, between two
statements is an action too (`StopHalfStarted`, `Halt` and so on), counted by a
history and bounded by a constant.

*Dual approval.* `approval` is the row, `review[r]` what a request is going to
write. A start reads an APPROVED row, inserts the session (`InsertImpersonation`)
and marks the row (`MarkExecuted`). `TwoPersonRule` forgets rows and statements:
somebody asks, others approve, something is done once two did. The refinement
maps its `uses` to the sessions inserted.

*Elevation.* A review of an access request inserts an elevation in the
reviewer's name, then closes the request; a review of an elevation inserts a
grant, then closes the elevation. `grants` counts per elevation.

*Privacy requests.* `BeginPrivacyUpdate` has the checks of `update` on the row
and the DTO together; the UPDATE and then the deletion's job or the export
follow. A job keeps, as a history, how the row was when it was made.
The DTOs are those that tell the checks apart.

*Billing.* `sent` is what the provider has sent; a delivery inserts or finds
the event's row, reads the plan, applies, and records the outcome. An event
found PROCESSED or IGNORED is answered at once. A checkout overlaps them.

*Stock.* `ChangeStock` is the relative UPDATE with its `GREATEST(0, ...)`; the
log is kept as its sum.

*Documents.* A set of lines is a version. `updateQuote` deletes the lines,
inserts them one by one, and writes the total; the conversion reads the row,
then the lines, takes the number after the count, inserts, copies, and links.

*Ticket numbers.* `Begin...` counts, `Probe` asks for one candidate at a time,
`InsertTicket` succeeds if the number is still free (unique key). The two places
that take the number after the count without a search are the same with no
probe. Usage is counted afterwards, detached.

*Second factor.* A list of recovery codes is a number of issue and a set;
`WriteSpent` writes the list as read less the code.

*Managed devices.* A row goes from absent to active, retired, due (its retention
has passed) and purged; `early` records on what reading a device went ahead of
that.

*Remote monitoring.* One provider: the lock's name has the provider in it, so
that two providers of one company, which may report the same serial number, do
not exclude each other, and what is said of the lock is said per provider.
`syncLock` is the request whose connection holds the lock.
An attempt looks each serial number up and writes it; a failed attempt starts
again; `LoseConnection` gives the lock back while the sync goes on.

*Migrations.* Each replica goes through the migrations in order; `executed` is
what the schema has, of which a second execution is ignored as the code ignores
duplicate columns. An index statement (`IndexStatements`) may find no column or
no room for an index, which the code takes for success: `swallowed` records it.
A statement that fails may have taken effect first (`Fails`). One that fails
outside the `try`, a look-up or the record of a failure, ends the run, and the
replica is up all the same (`StartupFails`, "incomplete").

*Device actions.* As dual approval with one approver; the call to the vendor
stands between the reading and the write of the outcome.

*Network alerts.* Numbers of active and resolved alerts, open and done tickets
of one rule. An evaluation looks for an alert, then for a ticket, then makes what
is missing.

*Guards.* What a guard asks of a row is a fact, a pair of whose and which;
`held` are the facts that hold now. A request goes through the guards its kind
of endpoint has, one SELECT after the other, while administrators add and take
away facts and change roles; `seen` collects every fact that held since it came.
When the SELECT of the policies fails, the guard applies none
(`PoliciesUnread`, permissions.guard.ts:148): the property says so, and asks for
no `unblocked` then.

*Field visits.* `WriteNextStatus` is one turn of the bulk loop. CANCELLED and
the statuses before completion are one ("open"): no code tells them apart before
it writes.

*Catalogue requests.* Every handler reads, decides and writes by id; `update`
writes the DTO's status and rejection reason, either or both or neither, and
`reject` the reason if the body has one ("kept" for columns left out of the
UPDATE). An update without a status overwrites nobody's decision, and so neither
outdates a reading nor counts as outdated. Who decides is not told apart.

*Maintenance plans.* `runs` in order of insertion, each with its ticket. Any
pending run may be the one that `completePlan` picks, since dates are left out.

## Runs

| Run | Instance | Question |
| --- | --- | --- |
| `email_overlap` | 1 mail, 2 queue runs, 1 digest run, 2 attempts, 1 fault, 2 requests | do claims, attempts, alerts and provider events hold up when runs overlap and statements fail? |
| `email_digest` | 2 mails of one recipient, 2 digest runs, 1 queue run, 1 fault, 1 request | a digest that could claim part of its group only |
| `email_settles` | 2 mails, batches of 1, 1 request, fair crons | is every waiting mail settled in the end? |
| `policy_opt_out` | 2 concurrent requests of 4, any provider events | does an unsubscribe hold? |
| `session_tokens` | 3 sessions, 2 requests, limit 1, 3 tokens, 1 fault | does rotation implement the ledger, does the limit hold? |
| `tickets_sla` | 1 request at a time beside a maintenance plan, 2 replicas, 3 levels, 1 failure | are status and `resolvedAt` kept together, is each level mailed once, is an open ticket escalated? |
| `office` | 9 components, 2 overlapping requests, a stop each | 14 properties, below |
| `platform` | 8 components, 2 overlapping requests or replicas, stops | 9 properties, below |
| `email_digest_alert` | violation | a digest that fails for good alerts nobody |
| `email_cancel` | violation | a cancel hits a mail that is being sent |
| `session_reuse` | violation | a reuse between the rotation and its history row revokes nothing |
| `tickets_status` | violation | an update with an empty status is written |

`office` and `platform` each check several modules, which share no state: a
behaviour is about one of them, the `area` it starts in, so that their state
spaces add up instead of multiplying.

| Property | What holds, whatever overlaps |
| --- | --- |
| `TwoPeopleApproved` | dual approval implements `TwoPersonRule` (no excuse) |
| `ApprovalUsedOnce` | an approval serves once, but for half starts and outdated writes |
| `ApprovedIsGranted` | an elevation at rest has a grant exactly if approved, but for those |
| `DeletionJustified`, `LinksUsedOnce` | a deletion's job follows identification and approval; a hold fails to stop it only if placed in between; a link serves once (no excuse) |
| `AppliedOnce` | an event changes the plan once, and once more per delivery that overlapped or failed |
| `LogExplainsStock`, `ReservedIsCovered` | the log explains the stock; stock covers reservations but for outdated checks and edits |
| `InvoicesAreWhole` | an invoice has the lines and the total of one version of its quote, but for overlaps and stops; the invoice a quote names has lines (no excuse) |
| `NumbersWithoutGap`, `UsageIsFair` | ticket numbers run from 1 without a gap; what the usage counter counts |
| `FactorIsWhole` | used and withdrawn recovery codes do not come back, but for outdated lists |
| `DevicesAccounted` | no device is deleted ahead of time, but for an outdated reading; a token enrols one |
| `OneAssetPerSerial`, `LockIsReleased` | one asset per serial number while the lock holds; the lock is given back |
| `MigrationsAccounted` | a recorded migration is in the schema, but for swallowed indexes; a replica that is up has all recorded, unless it gave up its start, and then those before |
| `VendorCalledWhenApproved` | the vendor is called after another's approval, and once but for named causes |
| `OneTicketPerAlert` | one open ticket per rule, but for overlapping look-ups and reopened tickets |
| `AdmittedWhenEntitled` | an admitted request had every fact it needs (of the policies only if they were read); one refused while nothing changed lacked one |
| `EvidenceIsKept` | photos are lost only to a call that was overtaken, completion dates never |
| `DecidedOnce` | a catalogue request is decided once, but for statuses from `update` and outdated writes; a rejection reason means a rejection, unless `update` wrote it |
| `WorkIsRecorded` | tickets, runs and dates of a plan agree, but for what stopped or overlapped |

The violation runs each refute one sentence of a document or of an error message
of the code; PROJECT.json quotes it under `findings`.

Deadlock is not checked: every model may stop when its bounds (requests, tokens,
faults, attempts) are used up, and the real system may be idle.

### Bounds, and why they are enough

- `QueueRuns`, `DigestRuns`, `Callers`, `Requests`, `Replicas`: two of what
  races. Every property that two can break is stated per row or token, and the
  hazards are all of one write between a read and a write. In `tickets_sla` the
  second writer is the maintenance plan; two full requests and two replicas do
  not fit in one run, and the theorems cover any number of either. Alerts,
  starts, calls and runs may follow one another (`MaxStarts` 3, `MaxCalls` 3,
  `MaxAlerts` 4), so that a second use can follow a stopped one.
- `Admins` 3: who asks, and two who approve.
- `MaxAttempts` 2 (5 in the code) gives a first, a last and an excess attempt;
  `SyncAttempts` 2 a retry. `BatchLimit` 1 with two mails makes a batch leave a
  row behind.
- Faults (`MaxFaults`, `MaxHalts`, `Max...Faults`, `MaxStops`, `MaxStopped`,
  `MaxLost`): one, before, between or after everything else; histories such as
  `repeats` count causes, so that several would only add up. Migrations have
  three, so that both replicas may stop and one start again.
- A SQL statement that fails is taken to have had no effect, except in
  `Migrations`; a provider's answer that is lost after an acceptance is modelled
  for mails and digests.
- `IndexStatements` is one of the four statements of two migrations, the last of
  the first: a swallowed index is recorded, and one that is not is told apart.
- Sessions 3 over a limit of 1 let a trim revoke two; 3 tokens let one token be
  rotated twice in a row.
- Ages: `AtRiskAge` 0, breach and manager escalation at 1, `MaxAge` 1. All three
  levels occur, and a ticket passes from one to the next between `Select` and
  `FindLevels`.
- `MaxProbes` 2 (100 in the code): the search succeeds at once, later, or never.
  `MaxTickets` 5 lets the count lag behind by more than the probes.
- `LineCount` 2, `MaxVersions` 3: lines of two versions may be mixed while a
  third is written. `MaxInvoices` 2: a second conversion.
- `MaxIssues` 2, `Codes` 2: an old list can overwrite a new one, and a list may
  be used twice. `Devices` 2: a token can enrol a second device. One token, and
  one patch job per device, are bounds of the module.
- `Serials` 2, `Visits` 2: a loop over several rows that is overtaken half way.
  `Photos` 2: a call loses those of another.
- `MaxChanges` 1 for the guards: one change of a fact or a role, at any moment
  of the request, from any initial facts; the theorem has no bound.
- `MaxQuantity` 2, `MaxOnHand` 2, `MaxEdits` 1: a movement that takes all, two
  that take too much together, and an edit between.
- Symmetry is used where no liveness is checked: over requests and
  administrators in `office`, over sessions, callers and rows elsewhere.

### Fairness

`EmailDelivery!FairSpec`: crons fire for ever on a running replica, statements
and provider calls end (the transport has timeouts), the clock goes on. Nothing
is assumed of administrators, and crashes are excluded by `MaxFaults = 0` in that
run: a row left in SENDING by a crash stays there, which `SendingIsOwned` says
(`orphaned`). `SlaEscalation!FairSpec`: time passes and each replica's cron
goes on; nobody has to touch the ticket. `PlatformSpec`: a sync that has begun
goes on, for Node runs what it has begun and the provider's answer, or the end
of its connection, comes. All are weak fairness on the handler's own steps.

`BreachIsEscalated` excepts three states, each a hazard of its own: a race that
left `resolvedAt` on an open ticket, an emptied status after RESOLVED, and a
failure between the escalation's row and its mails.

## Proofs

All theorems hold for any values of the constants that satisfy the named
assumptions (`ConstantsAssumption`, `PolicyAssumption`, `RotationAssumption`,
`SlaAssumption`, `PeopleAssumption` and one per module: bounds are numbers, sets
of rows and of requests finite where they are counted, a null is no member).
They speak of each module's own specification, with any number of requests.
`OfficeRunsItsModules` and `PlatformRunsItsModules` add that the instances TLC
checks as a whole implement the specification of every module they are made of.
Every invariant and every safety property of a passing run is the conclusion of
a theorem.

- **EmailDeliveryProofs.** `TypeCorrect`; `SendingOwned`: inductive once it is
  known that a digest run between two groups holds no rows; `SentIsAccepted`: a
  run with an acceptance in hand has been counted, and counts do not go down.
- **EmailDeliveryBounds.** `AttemptsAreBounded`, `AlertsAreBounded`,
  `DuplicatesExplained`. None of the bounds is inductive. Each is proved through
  a measure that no step raises: what has happened to the row, plus the runs
  about to make it happen, plus what the row still allows.
  `VerdictIsKept`, an action property: as long as a row was sent at most once, a
  single run has it in hand, and has not recorded it yet (`HandInv`). So
  nobody else is left who could record an outcome over the provider's.
- **EmailPolicyProofs.** `UnsubscribeHolds`. Between the statements of `enqueue`
  only a resubscribe empties the suppression; as long as none has begun since,
  what `enqueue` read still says "suppressed" (`NoneBegun`, `StaysSuppressed`).
- **SessionRotationProofs.** `TokensAreExchangedOnce`, `RevokedIsFinal` and
  `ImplementsLedger` from one invariant: no two sessions hold a token, only
  issued tokens are held (`Held`), and an exchanged one is held by nobody
  (`Spent`), so that the condition of a second UPDATE matches no row. Of
  `RecordedReuseIsRevoked`: what is recorded was exchanged (`RecordedIsSpent`), so no
  lookup finds it held, and the rest of the refresh can only revoke, as long as
  the record has not expired before `findReusedToken` looks for it. The
  refinement maps each statement to a step of the ledger or to a stutter.
  `LimitIsKept`: `lastSeenAt` orders the sessions without ties (`InOrder`); when
  nobody is about to read for a trim, the sessions that no trim under way is
  going to revoke are at most the limit and one (`Trimmed`).
- **SlaEscalationProofs.** `ResolvedAtIsRight` and `TransitionsHold`: a patch
  that is up to date was decided on the row as it is (`UpToDate`), and
  every decision on a row keeps status and `resolvedAt` together
  (`DecisionIsSound`). `LevelsEscalateOnce`: a level is in one run's hands, and
  not yet mailed, or mailed once, and in both cases its row exists (`InHand`).
- **OfficeProofs.** `TwoPeopleHaveApproved` is the refinement of `TwoPersonRule`.
  Its invariant (`TwoInv`) says who may be about to write: a request at its
  second approval is not by the asker, and another has approved before. An outdated
  write can bring an old status back, but never one that two have not approved.
  `ApprovalIsUsedOnce` counts impersonations, starts about to mark, and the row
  (`OnceInv`). `DeletionIsJustified`: the flags that were checked are never taken
  back, hold excepted. `EventsAreAppliedOnce`: as the bounds of the mail queue, a
  measure (applications, deliveries still able to apply, and whether the row
  still lets one in) that only excuses raise (`BillingInv`). `InvoicesStayWhole`: a
  request between two of its writes leaves the documents half done; either
  another has written since, and it is going to write on an outdated reading
  (`Doomed`), or it is the only one and what it has left to write completes them
  (`Whole`).
- **RecordsProofs.** `ReservedStaysCovered`: a movement whose reading is current
  leaves the stock covering (`PermittedCovers`). `NumbersHaveNoGap`: the number a request
  looks at is at most one past the last (`Follows`).
  `ApprovalsAreGranted`: grants of an elevation are its approval and the reviews
  about to close it, counted by `Cardinality`. `FactorStaysWhole`: what a current
  request read still fits the row (`Fitting`). `DevicesStayAccounted`: a purge
  holds a device that was due, or an outdated reading (`Holds`); one request
  at most has the token in hand (`OneEnrols`). Two invariants are sums, over
  requests and over the usage rows of a month: "the sum is n" says that some
  function sums every subset and gives n for the whole (`TotalIs`). That the sum
  follows a change of one element, or is unique, is shown by the smallest
  subset that is a counterexample, since the induction theorems are out of the
  provers' reach.
  `MovementsAreKept`: the stock on hand is the log, the edits, and the movements
  not yet logged (`Explained`). `UsageStaysFair`: to each row belongs the number
  of increments written to it, which it never exceeds, and falls short of only
  after an outdated write (`Tracks`). `CountedIsTotal` ties the fold over the
  sequence to that sum.
- **PlatformProofs.** `OneAssetPerSerialHolds`: while nobody worked without the
  lock, a request that has looked a serial number up works alone (`Alone`).
  `MigrationsAreAccounted`: a replica has what it passed behind it (`Passed`), and
  no statement, effective or lost, takes back what others rely on (`Grows`).
  `VendorIsCalledWhenApproved`: an approved or needless approval stays so, and
  calls are counted with the executions about to write. `OneTicketPerAlertHolds`.
  `AdmittedOnlyWhenEntitled`: facts shown are never forgotten, so that each guard
  passed leaves its fact in `seen`; and while nothing has changed a failed guard
  names a fact that is missing. `EvidenceIsAlwaysKept`, an action property: a
  current list is what the row has. `CatalogDecidedOnce`: a decision read on a
  status that is still the row's finds it undecided (`StillDecidable`, `Counted`).
  `WorkIsAlwaysRecorded`.

Only model-checked is liveness (`EveryMailIsSettled`, `BreachIsEscalated`,
`LockIsReleased`), since liveness under fairness and ENABLED are not in TLAPS's
reach. The sentences that runs refute have no theorem.

Type invariants of the mail, session, ticket and platform modules are proved as
part of the inductive invariants and are in no run; those of the office are
checked together (`OfficeTypeOK`) and proved together (`OfficeTypesHold`).

## Known disagreements that no run keeps

Mail and sessions:

- An unsubscribe replaces the reason of a bounced address, and a resubscribe
  deletes it: the bounce is forgotten, though docs/EMAIL_OPERATIONS.md:42 says it
  suppresses future optional mail. Two calls in sequence show it.
- The session limit can be exceeded by one, the caller's own session
  (docs/PLATFORM_SECURITY_OPERATIONS.md:8); `LimitHolds` states what holds.
- Two replicas can each miss that theirs was the last attempt, because it is
  judged from the row as it was selected. `email_digest_alert` refutes the same
  sentence by a shorter behaviour.
- Two recovery codes used at once restore each other (mfa.service.ts:90).

Approvals and requests:

- "A different administrator must provide the second approval"
  (access-governance.service.ts:166) compares with the row as it was read. A row can end up with the
  same administrator in both columns, when an overlapping first approval of the
  second administrator is written last. Two did approve (`TwoPeopleApproved`).
- "Only pending requests can be approved" (catalog-requests.service.ts:170) is
  true of `approve`; `update` writes any status the DTO holds.
- A network action that was executed goes back to QUEUED when an approval decided
  earlier is written late, and can be executed again.

Tickets, documents, devices:

- docs/DATA_MODEL.md:79 draws statuses PENDING and ESCALATED; the code has
  ON_HOLD and neither of them.
- The plan's limit of tickets is enforced nowhere: `FeatureGuard` and
  `CheckTicketLimit` are attached to no handler. The middlewares for rate limits
  and deduplication and the permission cache are used nowhere either.
- Public tickets made from mail are numbered by the count of their creator
  (tickets.controller.ts:438) although the key is unique over all.
- `updateInvoice` with status PAID and amountPaid 0 leaves a PAID invoice whose
  balance is its total (quotes-invoices.service.ts:239).
- "Converted quotes cannot have line items changed"
  (quotes-invoices.service.ts:125): `updateQuote` may take the status away from
  CONVERTED first. Taxes or discounts changed without lines leave the totals.
- An online device with a matching latency rule resolves and makes its alert
  again at every poll (cmdb.service.ts:1194).
- "Retired assets remain recoverable for ${minimumAgeDays} days"
  (asset.repository.ts:60): a device restored and retired again during a purge is
  deleted at once.
- `nextDueDate` adds a month to the 31st by `setMonth` and so skips a month
  (maintenance.service.ts:406), and a process whose `ensureSchema` failed once
  fails for good, since the promise is kept.
- The comment of `findMany` documents `{ status: { in: [...] } }`
  (database.service.ts:1454); only conditions within AND understand `in`.

## What is left

1. Abstract specifications for more components, as `TwoPersonRule` and
   `TokenLedger` are for theirs, with the refinement proved.
2. The composition of `SlaEscalation` with `EmailPolicy`: a breach is mailed to a
   recipient who unsubscribed, since the category is critical.
3. The other readers of an approval (break-glass, audit export, tenant deletion)
   beside `DualApproval`; delegation and certification beside `AccessElevation`.
4. Answers of agents to commands and expiry of commands in `ManagedDevices`;
   payments of invoices in `Documents`; tenant invitations.
