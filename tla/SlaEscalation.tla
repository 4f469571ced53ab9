--------------------------- MODULE SlaEscalation ---------------------------
(***************************************************************************)
(* The escalation cron of EmailDeliveryService, on every replica of the    *)
(* backend, over the ticket of TicketLifecycle.  The table                 *)
(* TicketEmailEscalation has one row per ticket and level and makes the    *)
(* replicas escalate once; a row is inserted before the mails are queued.  *)
(* The batch is the one ticket: LIMIT 250 is not reached.                  *)
(***************************************************************************)
EXTENDS TicketLifecycle, Sequences

CONSTANTS
  Replicas,
  HasAdmin,      \* the tenant has an administrator with a mail address
  AtRiskAge, BreachAge, EscalateAge,  \* when each level is reached
  MaxAge,        \* bound: the age of the ticket
  MaxFaults      \* bound: escalations that fail half way

ASSUME SlaAssumption ==
  /\ HasAdmin \in BOOLEAN /\ MaxFaults \in Nat
  /\ AtRiskAge \in Nat /\ BreachAge \in Nat /\ EscalateAge \in Nat /\ MaxAge \in Nat

VARIABLES
  age,        \* of the ticket, from createdAt
  escalated,  \* TicketEmailEscalation: the levels that have a row
  run,        \* what each replica is doing
  mails,      \* times the recipients of a level were written to
  faults

slaVars == <<age, escalated, run, mails, faults>>
vars == <<ticketVars, slaVars>>

Levels == {"AT_RISK", "BREACHED", "MANAGER_ESCALATION"}
Resting == [at |-> "idle", levels |-> <<>>, assigned |-> FALSE]

SlaInit ==
  /\ age = 0 /\ escalated = {} /\ faults = 0
  /\ run = [r \in Replicas |-> Resting] /\ mails = [l \in Levels |-> 0]

Overdue_Wrong(t) ==
  ~t.deleted /\ ~t.resolvedAt /\ t.status \notin {"RESOLVED", "CLOSED", "ON_HOLD"} /\ age >= AtRiskAge
Overdue(t) == ~t.deleted /\ ~t.resolvedAt /\ t.status \notin {"RESOLVED", "CLOSED"} /\ age >= AtRiskAge

Select(r) ==
  /\ run[r].at = "idle" /\ Overdue(ticket)
  /\ run' = [run EXCEPT ![r] = [Resting EXCEPT !.at = "levels", !.assigned = ticket.assigned]]
  /\ UNCHANGED <<age, escalated, mails, faults>>

LevelsAt(a) ==
  <<IF a >= BreachAge THEN "BREACHED" ELSE "AT_RISK">>
    \o (IF a >= EscalateAge THEN <<"MANAGER_ESCALATION">> ELSE <<>>)

FindLevels(r) ==
  /\ run[r].at = "levels"
  /\ run' = [run EXCEPT ![r].at = "insert", ![r].levels = LevelsAt(age)]
  /\ UNCHANGED <<age, escalated, mails, faults>>

\* The ticket's assignee as it was selected, the manager, the administrators.
HasRecipients(r, level) == run[r].assigned \/ HasAdmin \/ level = "MANAGER_ESCALATION"

Remaining(r) ==
  IF Len(run[r].levels) > 1 THEN [run[r] EXCEPT !.at = "insert", !.levels = Tail(@)] ELSE Resting

Inserted_Wrong(level) == TRUE
Inserted(level) == level \notin escalated

\* INSERT IGNORE: the level is this run's if the row is new.
InsertEscalation(r) ==
  LET level == Head(run[r].levels) IN
  /\ run[r].at = "insert"
  /\ IF HasRecipients(r, level) /\ Inserted(level)
     THEN run' = [run EXCEPT ![r].at = "mail"] /\ escalated' = escalated \cup {level}
     ELSE run' = [run EXCEPT ![r] = Remaining(r)] /\ UNCHANGED escalated
  /\ UNCHANGED <<age, mails, faults>>

EnqueueMails(r) ==
  /\ run[r].at = "mail"
  /\ mails' = [mails EXCEPT ![Head(run[r].levels)] = @ + 1]
  /\ run' = [run EXCEPT ![r] = Remaining(r)]
  /\ UNCHANGED <<age, escalated, faults>>

\* A statement fails or the replica stops: the rest of the batch is dropped.
\* Before a row is inserted that leaves nothing behind; the next run starts over.
FailRun(r) ==
  /\ run[r].at = "mail" /\ run' = [run EXCEPT ![r] = Resting]
  /\ faults < MaxFaults /\ faults' = faults + 1
  /\ UNCHANGED <<age, escalated, mails>>

Tick == age < MaxAge /\ age' = age + 1 /\ UNCHANGED <<escalated, run, mails, faults>>

RunStep(r) == Select(r) \/ FindLevels(r) \/ InsertEscalation(r) \/ EnqueueMails(r)

SlaNext == Tick \/ \E r \in Replicas : RunStep(r) \/ FailRun(r)

Init == TicketInit /\ SlaInit

Next ==
  \/ TicketNext /\ UNCHANGED slaVars
  \/ SlaNext /\ UNCHANGED ticketVars

Spec == Init /\ [][Next]_vars

\* Cron fires on every replica, and time passes.  Nobody has to touch the ticket.
FairSpec ==
  /\ Spec /\ WF_vars(Tick /\ UNCHANGED ticketVars)
  /\ \A r \in Replicas : WF_vars(RunStep(r) /\ UNCHANGED ticketVars)

----------------------------------------------------------------------------

\* Runs and rows hold values of their types.
SlaTypeOK ==
  /\ age \in 0 .. MaxAge /\ faults \in 0 .. MaxFaults
  /\ escalated \in SUBSET Levels /\ mails \in [Levels -> Nat]
  /\ run \in [Replicas -> [at : {"idle", "levels", "insert", "mail"}, levels : Seq(Levels), assigned : BOOLEAN]]

\* The ticket's row and the writes in progress, too (update, assign, resolve).
TypeOK == TicketTypeOK /\ SlaTypeOK

\* The recipients of a level are written to at most once, whatever replicas overlap.
EscalatedOnce == \A l \in Levels : mails[l] <= 1

\* A ticket that stays open past its resolution target is escalated, unless a
\* race left it with a resolvedAt, its status was emptied, or the escalation
\* itself failed half way.
Open == ~ticket.deleted /\ ticket.status \in Statuses \ {"RESOLVED", "CLOSED"} /\ (HasAdmin \/ ticket.assigned)
BreachIsEscalated ==
  <>[](Open /\ ~raced /\ faults = 0) => <>(mails["BREACHED"] > 0)

============================================================================
