-------------------------- MODULE TicketLifecycle --------------------------
(***************************************************************************)
(* One ticket of a tenant: TicketsService.update, assign, resolve and      *)
(* remove, and the assignment of a maintenance plan.  Every request reads  *)
(* the ticket, decides what to write, and writes it by the ticket's id,    *)
(* with no condition and no transaction; several run at once.              *)
(*                                                                         *)
(* Left out: the texts of a ticket (onHoldReason, resolution and others),  *)
(* the timeline entries, notifications and mails that follow the write,    *)
(* and who may see or be assigned the ticket: a refused request changes    *)
(* nothing.                                                                *)
(***************************************************************************)
EXTENDS Naturals

CONSTANTS Callers  \* requests that can be in progress at once

VARIABLES
  ticket,  \* the row
  call,    \* per caller: what it is about to write, and whether that is up to date
  plan,    \* the assignment that a maintenance plan still has to write
  raced    \* history: something was written that had been decided on an old row

ticketVars == <<ticket, call, plan, raced>>

Statuses == {"OPEN", "ASSIGNED", "IN_PROGRESS", "ON_HOLD", "RESOLVED", "CLOSED"}
validTransitions(s) ==
  CASE s = "OPEN" -> {"ASSIGNED", "IN_PROGRESS", "RESOLVED"}
    [] s = "ASSIGNED" -> {"IN_PROGRESS", "RESOLVED", "OPEN", "ON_HOLD"}
    [] s = "IN_PROGRESS" -> {"RESOLVED", "ASSIGNED", "OPEN", "ON_HOLD"}
    [] s = "ON_HOLD" -> {"ASSIGNED", "IN_PROGRESS", "RESOLVED", "OPEN"}
    [] s = "RESOLVED" -> {"CLOSED", "OPEN"}
    [] s = "CLOSED" -> {"OPEN"}
    [] OTHER -> {}
Allowed(from, to) == to = from \/ to \in validTransitions(from)

\* The column takes any text, and the DTO lets an empty one pass.
Blank == ""

\* resolvedAt and deletedAt are null or not; someone is assigned or not.
Rows == [status : Statuses \cup {Blank}, resolvedAt : BOOLEAN, assigned : BOOLEAN, deleted : BOOLEAN]

\* The columns a request does not write are kept.
Marks == {"set", "null", "keep"}
Patches == [status : Statuses \cup {Blank, "keep"}, resolvedAt : Marks, assigned : Marks, deleted : BOOLEAN]
NoPatch == [status |-> "keep", resolvedAt |-> "keep", assigned |-> "keep", deleted |-> FALSE]
Idle == [at |-> "idle", patch |-> NoPatch, fresh |-> TRUE]

\* What a client sends to update: a status or "none", and someone to assign, null or nothing.
Updates == [status : Statuses \cup {Blank, "none"}, assignedToId : Marks]

\* A ticket is created OPEN, by a maintenance plan with an assignee or not.
TicketInit ==
  /\ ticket = [status |-> "OPEN", resolvedAt |-> FALSE, assigned |-> FALSE, deleted |-> FALSE]
  /\ call = [c \in Callers |-> Idle]
  /\ plan \in {"none", "fresh"} /\ raced = FALSE

----------------------------------------------------------------------------
(* What a request decides to write, from the row t it has read.             *)

\* An empty status counts as none in the conditions, and is written.
NewStatus(u) == IF u.status = Blank THEN "none" ELSE u.status

LegalUpdate_Wrong(t, u) == TRUE
LegalUpdate(t, u) == NewStatus(u) = "none" \/ Allowed(t.status, u.status)

LeavesResolved_Wrong(t, u) == t.status = "RESOLVED" /\ u.status = "OPEN"
LeavesResolved(t, u) == t.status = "RESOLVED" /\ NewStatus(u) \notin {"none", "RESOLVED"}

UpdatePatch(t, u) == [
  status |-> IF NewStatus(u) = "none" /\ u.assignedToId = "set" /\ t.status = "OPEN" THEN "ASSIGNED"
             ELSE IF u.status = "none" THEN "keep" ELSE u.status,
  resolvedAt |-> IF u.status = "RESOLVED" /\ t.status # "RESOLVED" THEN "set"
                 ELSE IF LeavesResolved(t, u) THEN "null" ELSE "keep",
  assigned |-> u.assignedToId,
  deleted |-> FALSE]

AssignPatch == [NoPatch EXCEPT !.status = "ASSIGNED", !.assigned = "set"]
ResolvePatch == [NoPatch EXCEPT !.status = "RESOLVED", !.resolvedAt = "set"]
RemovePatch == [NoPatch EXCEPT !.deleted = TRUE]

Decided(t) ==
  {UpdatePatch(t, u) : u \in {v \in Updates : LegalUpdate(t, v)}}
  \cup (IF Allowed(t.status, "ASSIGNED") THEN {AssignPatch} ELSE {})
  \cup (IF Allowed(t.status, "RESOLVED") THEN {ResolvePatch} ELSE {})
  \cup {RemovePatch}

\* findOne does not find deleted tickets.
Read(c) ==
  /\ call[c].at = "idle" /\ ~ticket.deleted
  /\ \E p \in Decided(ticket) : call' = [call EXCEPT ![c] = [at |-> "write", patch |-> p, fresh |-> TRUE]]
  /\ UNCHANGED <<ticket, plan, raced>>

----------------------------------------------------------------------------

Marked(old, mark) == mark = "set" \/ (mark = "keep" /\ old)

Patched(t, p) == [
  status |-> IF p.status = "keep" THEN t.status ELSE p.status,
  resolvedAt |-> Marked(t.resolvedAt, p.resolvedAt),
  assigned |-> Marked(t.assigned, p.assigned),
  deleted |-> t.deleted \/ p.deleted]

\* Whoever has read the row before this write decides on an old one.
Outdated(calls) == [d \in Callers |-> [calls[d] EXCEPT !.fresh = calls[d].at = "idle"]]

Write(c) ==
  /\ call[c].at = "write"
  /\ ticket' = Patched(ticket, call[c].patch)
  /\ call' = Outdated([call EXCEPT ![c] = Idle])
  /\ plan' = IF plan = "none" THEN "none" ELSE "stale"
  /\ raced' = (raced \/ (~call[c].fresh /\ ticket' # ticket))

\* generateTicket assigns the ticket it has just created.
MaintenanceAssigns ==
  /\ plan # "none" /\ plan' = "none"
  /\ ticket' = Patched(ticket, AssignPatch)
  /\ call' = Outdated(call)
  /\ raced' = (raced \/ (plan = "stale" /\ ticket' # ticket))

\* The request stops before it writes.
Abandon(c) ==
  /\ call[c].at = "write" /\ call' = [call EXCEPT ![c] = Idle]
  /\ UNCHANGED <<ticket, plan, raced>>

TicketNext == (\E c \in Callers : Read(c) \/ Write(c) \/ Abandon(c)) \/ MaintenanceAssigns

TicketSpec == TicketInit /\ [][TicketNext]_ticketVars

----------------------------------------------------------------------------

\* The row and the pending writes hold values of their columns.
TicketTypeOK ==
  /\ ticket \in Rows
  /\ call \in [Callers -> [at : {"idle", "write"}, patch : Patches, fresh : BOOLEAN]]
  /\ plan \in {"none", "fresh", "stale"} /\ raced \in BOOLEAN

\* resolvedAt is set exactly while the ticket is RESOLVED (SLA and reports go
\* by it), unless a request wrote over a row that had changed since it was read.
ResolvedAtAgrees ==
  ~raced /\ ticket.status # Blank => (ticket.resolvedAt <=> ticket.status = "RESOLVED")

\* Status changes follow validTransitions, with the same exception, but for an
\* empty status, which a ticket then never leaves.
TransitionsAreValid ==
  [][~raced' => Allowed(ticket.status, ticket'.status) \/ ticket'.status = Blank]_ticketVars

\* A ticket's status is one of the statuses of the enumeration.
StatusIsKnown == ticket.status \in Statuses

============================================================================
