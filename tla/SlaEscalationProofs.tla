------------------------ MODULE SlaEscalationProofs ------------------------
(***************************************************************************)
(* Proofs about TicketLifecycle and SlaEscalation, for any requests and    *)
(* replicas.  Of the ticket: a write that is not outdated was decided on   *)
(* the row it changes, and every such decision keeps status and resolvedAt *)
(* together.  Of the escalation: a level is in somebody's hands, or has    *)
(* been mailed, only once its row exists, and the row is inserted once.    *)
(***************************************************************************)
EXTENDS SlaEscalation, SequenceTheorems, TLAPS

----------------------------------------------------------------------------
(* The ticket.                                                              *)

\* Everything a request may decide is a patch.
LEMMA DecidedType == ASSUME NEW t \in Rows PROVE Decided(t) \subseteq Patches
<1>1. ASSUME NEW u \in Updates PROVE UpdatePatch(t, u) \in Patches
  BY <1>1 DEF Updates, UpdatePatch, Patches, Marks, Statuses
<1>2. {AssignPatch, ResolvePatch, RemovePatch} \subseteq Patches
  BY DEF AssignPatch, ResolvePatch, RemovePatch, NoPatch, Patches, Marks, Statuses
<1> QED BY <1>1, <1>2 DEF Decided

\* A patched row is a row.
LEMMA PatchedType == ASSUME NEW t \in Rows, NEW p \in Patches PROVE Patched(t, p) \in Rows
BY DEF Patched, Marked, Rows, Patches, Marks

Agrees(t) == t.status # Blank => (t.resolvedAt <=> t.status = "RESOLVED")

\* What update decides on a row, written to that row.
LEMMA UpdateIsSound ==
  ASSUME NEW t \in Rows, NEW u \in Updates, LegalUpdate(t, u), Agrees(t)
  PROVE  /\ Agrees(Patched(t, UpdatePatch(t, u)))
         /\ Allowed(t.status, Patched(t, UpdatePatch(t, u)).status)
            \/ Patched(t, UpdatePatch(t, u)).status = Blank
<1> DEFINE p == UpdatePatch(t, u)
           n == Patched(t, p)
<1>1. CASE u.status = "none"
  <2>1. p.resolvedAt = "keep" /\ p.status = (IF u.assignedToId = "set" /\ t.status = "OPEN" THEN "ASSIGNED" ELSE "keep")
    BY <1>1 DEF UpdatePatch, LeavesResolved, NewStatus, Blank
  <2>2. n.resolvedAt = t.resolvedAt /\ (n.status = t.status \/ (t.status = "OPEN" /\ n.status = "ASSIGNED"))
    BY <2>1 DEF Patched, Marked, Rows
  <2> QED BY <2>2 DEF Agrees, Allowed, validTransitions, Blank
<1>2. CASE u.status = Blank
  <2>1. p.resolvedAt = "keep" /\ p.status = (IF u.assignedToId = "set" /\ t.status = "OPEN" THEN "ASSIGNED" ELSE Blank)
    BY <1>2 DEF UpdatePatch, LeavesResolved, NewStatus, Blank
  <2>2. n.resolvedAt = t.resolvedAt /\ (n.status = Blank \/ (t.status = "OPEN" /\ n.status = "ASSIGNED"))
    BY <2>1 DEF Patched, Marked, Rows, Blank
  <2> QED BY <2>2 DEF Agrees, Allowed, validTransitions, Blank
<1>3. CASE u.status \in Statuses
  <2>1. p.status = u.status /\ n.status = u.status /\ Allowed(t.status, u.status) /\ t.status # Blank
    BY <1>3 DEF UpdatePatch, Patched, LegalUpdate, NewStatus, Allowed, validTransitions, Statuses, Blank
  <2>2. n.resolvedAt = (\/ u.status = "RESOLVED" /\ t.status # "RESOLVED"
                        \/ ~LeavesResolved(t, u) /\ t.resolvedAt)
    BY <1>3 DEF UpdatePatch, Patched, Marked, LeavesResolved, Rows, Statuses, Blank
  <2>3. LeavesResolved(t, u) <=> t.status = "RESOLVED" /\ u.status # "RESOLVED"
    BY <1>3 DEF LeavesResolved, NewStatus, Statuses, Blank
  <2>4. n.resolvedAt <=> n.status = "RESOLVED"
    BY <2>1, <2>2, <2>3 DEF Agrees
  <2> QED BY <2>1, <2>4 DEF Agrees
<1> QED BY <1>1, <1>2, <1>3 DEF Updates

\* What any request decides on a row, written to that row.
LEMMA DecisionIsSound ==
  ASSUME NEW t \in Rows, NEW p \in Decided(t), Agrees(t)
  PROVE  /\ Agrees(Patched(t, p))
         /\ Allowed(t.status, Patched(t, p).status) \/ Patched(t, p).status = Blank
<1>1. CASE \E u \in Updates : LegalUpdate(t, u) /\ p = UpdatePatch(t, u)
  BY <1>1, UpdateIsSound
<1>2. CASE p = AssignPatch /\ Allowed(t.status, "ASSIGNED")
  <2>1. Patched(t, p).status = "ASSIGNED" /\ Patched(t, p).resolvedAt = t.resolvedAt
    BY <1>2 DEF AssignPatch, NoPatch, Patched, Marked, Rows
  <2>2. t.status # "RESOLVED" /\ t.status # Blank
    BY <1>2 DEF Allowed, validTransitions, Blank
  <2> QED BY <1>2, <2>1, <2>2 DEF Agrees
<1>3. CASE p = ResolvePatch /\ Allowed(t.status, "RESOLVED")
  BY <1>3 DEF ResolvePatch, NoPatch, Patched, Marked, Agrees
<1>4. CASE p = RemovePatch
  <2>1. Patched(t, p).status = t.status /\ Patched(t, p).resolvedAt = t.resolvedAt
    BY <1>4 DEF RemovePatch, NoPatch, Patched, Marked, Rows
  <2> QED BY <2>1 DEF Agrees, Allowed
<1> QED BY <1>1, <1>2, <1>3, <1>4 DEF Decided

----------------------------------------------------------------------------

\* What is up to date was decided on the row as it is.
UpToDate ==
  /\ \A c \in Callers : call[c].at = "write" /\ call[c].fresh => call[c].patch \in Decided(ticket)
  /\ plan = "fresh" => ticket.status = "OPEN" /\ ~ticket.resolvedAt

TicketInv == TicketTypeOK /\ UpToDate /\ ResolvedAtAgrees

LEMMA TicketInitial == TicketInit => TicketInv
<1> SUFFICES ASSUME TicketInit PROVE TicketInv
  OBVIOUS
<1>1. TicketTypeOK
  BY DEF TicketInit, TicketTypeOK, Rows, Patches, Marks, NoPatch, Idle, Statuses
<1>2. UpToDate
  BY DEF TicketInit, UpToDate, Idle
<1>3. ResolvedAtAgrees
  BY DEF TicketInit, ResolvedAtAgrees
<1> QED BY <1>1, <1>2, <1>3 DEF TicketInv

\* What a step may do to the status, as TransitionsAreValid puts it.
ValidStep == ~raced' => Allowed(ticket.status, ticket'.status) \/ ticket'.status = Blank

LEMMA OutdatedType ==
  ASSUME NEW calls \in [Callers -> [at : {"idle", "write"}, patch : Patches, fresh : BOOLEAN]]
  PROVE  /\ Outdated(calls) \in [Callers -> [at : {"idle", "write"}, patch : Patches, fresh : BOOLEAN]]
         /\ \A c \in Callers : ~(Outdated(calls)[c].at = "write" /\ Outdated(calls)[c].fresh)
<1>1. ASSUME NEW c \in Callers
      PROVE  /\ Outdated(calls)[c] \in [at : {"idle", "write"}, patch : Patches, fresh : BOOLEAN]
             /\ Outdated(calls)[c].at = calls[c].at /\ Outdated(calls)[c].fresh = (calls[c].at = "idle")
  BY DEF Outdated
<1> QED BY <1>1 DEF Outdated

LEMMA ReadStep ==
  ASSUME TicketInv, NEW c \in Callers, Read(c) PROVE TicketInv' /\ ValidStep
<1>1. PICK p \in Decided(ticket) : call' = [call EXCEPT ![c] = [at |-> "write", patch |-> p, fresh |-> TRUE]]
  BY DEF Read
<1>2. UNCHANGED <<ticket, plan, raced>>
  BY DEF Read
<1>3. p \in Patches
  BY DecidedType DEF TicketInv, TicketTypeOK
<1>4. TicketTypeOK'
  BY <1>1, <1>2, <1>3 DEF TicketInv, TicketTypeOK
<1>5. UpToDate'
  BY <1>1, <1>2 DEF TicketInv, TicketTypeOK, UpToDate
<1> QED BY <1>2, <1>4, <1>5 DEF TicketInv, ResolvedAtAgrees, ValidStep, Allowed

LEMMA WriteStep ==
  ASSUME TicketInv, NEW c \in Callers, Write(c) PROVE TicketInv' /\ ValidStep
<1> DEFINE p == call[c].patch
           calls == [call EXCEPT ![c] = Idle]
<1> USE DEF TicketInv
<1>1. call[c].at = "write" /\ ticket' = Patched(ticket, p) /\ call' = Outdated(calls)
      /\ plan' = (IF plan = "none" THEN "none" ELSE "stale") /\ raced' = (raced \/ (~call[c].fresh /\ ticket' # ticket))
  BY DEF Write
<1>2. p \in Patches /\ ticket \in Rows
  BY DEF TicketTypeOK
<1>3. calls \in [Callers -> [at : {"idle", "write"}, patch : Patches, fresh : BOOLEAN]]
  BY DEF TicketTypeOK, Idle, NoPatch, Patches, Marks
<1>4. TicketTypeOK'
  <2>1. ticket' \in Rows
    BY <1>1, <1>2, PatchedType
  <2>2. call' \in [Callers -> [at : {"idle", "write"}, patch : Patches, fresh : BOOLEAN]]
    BY <1>1, <1>3, OutdatedType
  <2>3. plan' \in {"none", "fresh", "stale"} /\ raced' \in BOOLEAN
    BY <1>1 DEF TicketTypeOK
  <2> QED BY <2>1, <2>2, <2>3 DEF TicketTypeOK
<1>5. UpToDate'
  BY <1>1, <1>3, OutdatedType DEF UpToDate
<1>6. ~raced' => Agrees(ticket') /\ (Allowed(ticket.status, ticket'.status) \/ ticket'.status = Blank)
  <2> SUFFICES ASSUME ~raced' PROVE Agrees(ticket') /\ (Allowed(ticket.status, ticket'.status) \/ ticket'.status = Blank)
    OBVIOUS
  <2>1. ~raced /\ (call[c].fresh \/ ticket' = ticket)
    BY <1>1
  <2>2. Agrees(ticket)
    BY <2>1 DEF ResolvedAtAgrees, Agrees
  <2>3. CASE call[c].fresh
    <3>1. p \in Decided(ticket)
      BY <1>1, <2>3 DEF UpToDate
    <3> QED BY <1>1, <1>2, <2>2, <3>1, DecisionIsSound
  <2>4. CASE ticket' = ticket
    BY <2>2, <2>4 DEF Allowed
  <2> QED BY <2>1, <2>3, <2>4
<1> QED BY <1>4, <1>5, <1>6 DEF ResolvedAtAgrees, Agrees, ValidStep

LEMMA MaintenanceStep ==
  ASSUME TicketInv, MaintenanceAssigns PROVE TicketInv' /\ ValidStep
<1> USE DEF TicketInv
<1>1. plan # "none" /\ plan' = "none" /\ ticket' = Patched(ticket, AssignPatch) /\ call' = Outdated(call)
      /\ raced' = (raced \/ (plan = "stale" /\ ticket' # ticket))
  BY DEF MaintenanceAssigns
<1>2. AssignPatch \in Patches /\ ticket \in Rows
  BY DEF TicketTypeOK, AssignPatch, NoPatch, Patches, Marks, Statuses
<1>3. call \in [Callers -> [at : {"idle", "write"}, patch : Patches, fresh : BOOLEAN]]
  BY DEF TicketTypeOK
<1>4. TicketTypeOK'
  <2>1. ticket' \in Rows
    BY <1>1, <1>2, PatchedType
  <2>2. call' \in [Callers -> [at : {"idle", "write"}, patch : Patches, fresh : BOOLEAN]]
    BY <1>1, <1>3, OutdatedType
  <2>3. plan' \in {"none", "fresh", "stale"} /\ raced' \in BOOLEAN
    BY <1>1 DEF TicketTypeOK
  <2> QED BY <2>1, <2>2, <2>3 DEF TicketTypeOK
<1>5. UpToDate'
  BY <1>1, <1>3, OutdatedType DEF UpToDate
<1>6. ~raced' => Agrees(ticket') /\ Allowed(ticket.status, ticket'.status)
  <2> SUFFICES ASSUME ~raced' PROVE Agrees(ticket') /\ Allowed(ticket.status, ticket'.status)
    OBVIOUS
  <2>1. ~raced /\ (plan = "fresh" \/ ticket' = ticket)
    BY <1>1 DEF TicketTypeOK
  <2>2. CASE plan = "fresh"
    <3>1. ticket.status = "OPEN" /\ ~ticket.resolvedAt
      BY <2>2 DEF UpToDate
    <3>2. ticket'.status = "ASSIGNED" /\ ticket'.resolvedAt = ticket.resolvedAt
      BY <1>1, <1>2 DEF AssignPatch, NoPatch, Patched, Marked, Rows
    <3> QED BY <3>1, <3>2 DEF Agrees, Allowed, validTransitions
  <2>3. CASE ticket' = ticket
    BY <2>1, <2>3 DEF ResolvedAtAgrees, Agrees, Allowed
  <2> QED BY <2>1, <2>2, <2>3
<1> QED BY <1>4, <1>5, <1>6 DEF ResolvedAtAgrees, Agrees, ValidStep

LEMMA AbandonStep ==
  ASSUME TicketInv, NEW c \in Callers, Abandon(c) PROVE TicketInv' /\ ValidStep
<1>1. call' = [call EXCEPT ![c] = Idle] /\ UNCHANGED <<ticket, plan, raced>>
  BY DEF Abandon
<1>2. TicketTypeOK'
  BY <1>1 DEF TicketInv, TicketTypeOK, Idle, NoPatch, Patches, Marks
<1>3. UpToDate'
  BY <1>1 DEF TicketInv, TicketTypeOK, UpToDate, Idle
<1> QED BY <1>1, <1>2, <1>3 DEF TicketInv, ResolvedAtAgrees, ValidStep, Allowed

LEMMA TicketStep ==
  ASSUME TicketInv, [TicketNext]_ticketVars PROVE TicketInv' /\ ValidStep
<1>1. CASE TicketNext
  BY <1>1, ReadStep, WriteStep, AbandonStep, MaintenanceStep DEF TicketNext
<1>2. CASE UNCHANGED ticketVars
  BY <1>2 DEF ticketVars, TicketInv, TicketTypeOK, UpToDate, ResolvedAtAgrees, ValidStep, Allowed
<1> QED BY <1>1, <1>2

LEMMA TicketInvariant == TicketSpec => []TicketInv
BY TicketInitial, TicketStep, PTL DEF TicketSpec

\* Nothing the escalation does touches the ticket.
THEOREM ImplementsTicket == Spec => TicketSpec
<1>1. [Next]_vars => [TicketNext]_ticketVars
  BY DEF Next, vars
<1> QED BY <1>1, PTL DEF Spec, Init, TicketSpec

\* The row and the pending writes hold values of their columns.
THEOREM TicketTypeCorrect == Spec => []TicketTypeOK
<1>1. TicketInv => TicketTypeOK
  BY DEF TicketInv
<1> QED BY <1>1, ImplementsTicket, TicketInvariant, PTL

\* resolvedAt and RESOLVED go together until an outdated write.
THEOREM ResolvedAtIsRight == Spec => []ResolvedAtAgrees
<1>1. TicketInv => ResolvedAtAgrees
  BY DEF TicketInv
<1> QED BY <1>1, ImplementsTicket, TicketInvariant, PTL

\* Until an outdated write, statuses change as validTransitions says.
THEOREM TransitionsHold == Spec => TransitionsAreValid
<1>1. ASSUME TicketInv, [TicketNext]_ticketVars
      PROVE  [~raced' => Allowed(ticket.status, ticket'.status) \/ ticket'.status = Blank]_ticketVars
  BY <1>1, TicketStep DEF ValidStep
<1> QED BY <1>1, ImplementsTicket, TicketInvariant, PTL DEF TicketSpec, TransitionsAreValid

----------------------------------------------------------------------------
(* The escalation.                                                          *)

Runs == [at : {"idle", "levels", "insert", "mail"}, levels : Seq(Levels), assigned : BOOLEAN]

HasLevel(x) == x.at \in {"insert", "mail"} => x.levels # <<>>
Mailing(r, l) == run[r].at = "mail" /\ Head(run[r].levels) = l

\* A level is mailed by one run, after its row was inserted.
InHand ==
  \A l \in Levels :
    /\ mails[l] > 0 => l \in escalated /\ mails[l] = 1
    /\ \A r \in Replicas : Mailing(r, l) =>
          l \in escalated /\ mails[l] = 0 /\ \A q \in Replicas : Mailing(q, l) => q = r

SlaInv == SlaTypeOK /\ InHand /\ \A r \in Replicas : HasLevel(run[r])

LEMMA SlaInitial == SlaInit => SlaInv
<1> SUFFICES ASSUME SlaInit PROVE SlaInv
  OBVIOUS
<1>1. Resting \in Runs /\ HasLevel(Resting) /\ Resting.at # "mail"
  BY DEF Resting, Runs, HasLevel
<1>2. SlaTypeOK
  BY <1>1, SlaAssumption DEF SlaInit, SlaTypeOK, Runs
<1>3. InHand
  BY <1>1 DEF SlaInit, InHand, Mailing
<1> QED BY <1>1, <1>2, <1>3 DEF SlaInv, SlaInit

\* A run that moves on without a level in hand disturbs nothing.
LEMMA RunMoves ==
  ASSUME SlaInv, NEW r \in Replicas, NEW x \in Runs, HasLevel(x), x.at # "mail",
         run' = [run EXCEPT ![r] = x], UNCHANGED <<age, escalated, mails>>, faults' \in 0 .. MaxFaults
  PROVE  SlaInv'
<1> USE DEF SlaInv
<1>1. SlaTypeOK'
  BY DEF SlaTypeOK, Runs
<1>2. run'[r] = x /\ \A q \in Replicas \ {r} : run'[q] = run[q]
  BY DEF SlaTypeOK
<1>3. \A q \in Replicas : HasLevel(run'[q])
  BY <1>2
<1>4. \A q \in Replicas, l \in Levels : Mailing(q, l)' => Mailing(q, l)
  BY <1>2 DEF Mailing
<1>5. InHand'
  BY <1>4 DEF InHand
<1> QED BY <1>1, <1>3, <1>5 DEF HasLevel

LEMMA LevelsType == ASSUME NEW a \in Nat PROVE LevelsAt(a) \in Seq(Levels) /\ LevelsAt(a) # <<>>
<1>1. <<IF a >= BreachAge THEN "BREACHED" ELSE "AT_RISK">> \in Seq(Levels)
      /\ Len(<<IF a >= BreachAge THEN "BREACHED" ELSE "AT_RISK">>) = 1
  BY DEF Levels
<1>2. (IF a >= EscalateAge THEN <<"MANAGER_ESCALATION">> ELSE <<>>) \in Seq(Levels)
  <2>1. <<"MANAGER_ESCALATION">> \in Seq(Levels)
    BY DEF Levels
  <2> QED BY <2>1, EmptySeq
<1> QED BY <1>1, <1>2 DEF LevelsAt

LEMMA TailType ==
  ASSUME NEW S, NEW s \in Seq(S), Len(s) > 1 PROVE Tail(s) \in Seq(S) /\ Tail(s) # <<>>
<1>1. Len(<<>>) = 0
  BY EmptySeq
<1>2. s # <<>> /\ Len(s) \in Nat
  BY <1>1, LenProperties
<1>3. Tail(s) \in Seq(S) /\ Len(Tail(s)) = Len(s) - 1
  BY <1>2, HeadTailProperties
<1>4. Len(s) - 1 # 0
  <2>1. \A n \in Nat : n > 1 => n - 1 # 0
    OBVIOUS
  <2> QED BY <1>2, <2>1, Zenon
<1>5. ASSUME Tail(s) = <<>> PROVE FALSE
  BY <1>1, <1>3, <1>4, <1>5, Zenon
<1> QED BY <1>3, <1>5, Zenon

LEMMA RemainingType ==
  ASSUME SlaInv, NEW r \in Replicas
  PROVE  Remaining(r) \in Runs /\ HasLevel(Remaining(r)) /\ Remaining(r).at # "mail"
<1>1. run[r] \in Runs
  BY DEF SlaInv, SlaTypeOK, Runs
<1>2. CASE Len(run[r].levels) > 1
  <2>1. Tail(run[r].levels) \in Seq(Levels) /\ Tail(run[r].levels) # <<>>
    BY <1>1, <1>2, TailType DEF Runs
  <2>2. Remaining(r) = [run[r] EXCEPT !.at = "insert", !.levels = Tail(@)]
    BY <1>2 DEF Remaining
  <2> QED BY <1>1, <2>1, <2>2 DEF Runs, HasLevel
<1>3. CASE ~(Len(run[r].levels) > 1)
  BY <1>3 DEF Remaining, Resting, Runs, HasLevel
<1> QED BY <1>2, <1>3

LEMMA SlaSelect == ASSUME SlaInv, TicketTypeOK, NEW r \in Replicas, Select(r) PROVE SlaInv'
<1> DEFINE x == [Resting EXCEPT !.at = "levels", !.assigned = ticket.assigned]
<1>1. x \in Runs /\ HasLevel(x) /\ x.at # "mail"
  BY EmptySeq DEF TicketTypeOK, Rows, Resting, Runs, HasLevel
<1>2. run' = [run EXCEPT ![r] = x] /\ UNCHANGED <<age, escalated, mails>> /\ faults' \in 0 .. MaxFaults
  BY DEF Select, SlaInv, SlaTypeOK
<1> HIDE DEF x
<1> QED BY <1>1, <1>2, RunMoves

LEMMA SlaFindLevels == ASSUME SlaInv, NEW r \in Replicas, FindLevels(r) PROVE SlaInv'
<1> DEFINE x == [run[r] EXCEPT !.at = "insert", !.levels = LevelsAt(age)]
<1>1. run[r] \in Runs /\ age \in Nat
  BY DEF SlaInv, SlaTypeOK, Runs
<1>2. x \in Runs /\ HasLevel(x) /\ x.at # "mail"
  BY <1>1, LevelsType DEF Runs, HasLevel
<1>3. run' = [run EXCEPT ![r] = x] /\ UNCHANGED <<age, escalated, mails>> /\ faults' \in 0 .. MaxFaults
  BY DEF FindLevels, SlaInv, SlaTypeOK
<1> HIDE DEF x
<1> QED BY <1>2, <1>3, RunMoves

LEMMA SlaInsert == ASSUME SlaInv, NEW r \in Replicas, InsertEscalation(r) PROVE SlaInv'
<1> DEFINE level == Head(run[r].levels)
<1> USE DEF SlaInv
<1>1. run[r] \in Runs /\ run[r].at = "insert" /\ level \in Levels
  BY DEF InsertEscalation, SlaTypeOK, Runs, HasLevel
<1>2. CASE HasRecipients(r, level) /\ Inserted(level)
  <2>1. run' = [run EXCEPT ![r].at = "mail"] /\ escalated' = escalated \cup {level}
        /\ UNCHANGED <<age, mails, faults>> /\ level \notin escalated
    BY <1>2 DEF InsertEscalation, Inserted
  <2>2. run'[r] = [run[r] EXCEPT !.at = "mail"] /\ \A q \in Replicas \ {r} : run'[q] = run[q]
    BY <2>1 DEF SlaTypeOK
  <2>3. run'[r] \in Runs /\ run'[r].at = "mail" /\ run'[r].levels = run[r].levels
    BY <1>1, <2>2 DEF Runs
  <2>4. SlaTypeOK'
    BY <1>1, <2>1, <2>2, <2>3 DEF SlaTypeOK, Runs
  <2>5. \A q \in Replicas : HasLevel(run'[q])
    BY <1>1, <2>2, <2>3 DEF HasLevel
  <2>6. \A q \in Replicas, l \in Levels : Mailing(q, l)' <=> IF q = r THEN l = level ELSE Mailing(q, l)
    BY <2>2, <2>3 DEF Mailing
  <2>7. mails[level] = 0 /\ \A q \in Replicas : ~Mailing(q, level)
    BY <1>1, <2>1 DEF InHand, SlaTypeOK
  <2>8. InHand'
    BY <2>1, <2>6, <2>7 DEF InHand
  <2> QED BY <2>4, <2>5, <2>8 DEF HasLevel
<1>3. CASE ~(HasRecipients(r, level) /\ Inserted(level))
  <2>1. run' = [run EXCEPT ![r] = Remaining(r)] /\ UNCHANGED <<age, escalated, mails>> /\ faults' \in 0 .. MaxFaults
    BY <1>3 DEF InsertEscalation, SlaTypeOK
  <2> QED BY <2>1, RemainingType, RunMoves
<1> QED BY <1>2, <1>3

LEMMA SlaEnqueue == ASSUME SlaInv, NEW r \in Replicas, EnqueueMails(r) PROVE SlaInv'
<1> DEFINE level == Head(run[r].levels)
<1> USE DEF SlaInv
<1>1. run[r] \in Runs /\ level \in Levels /\ Mailing(r, level)
  BY DEF EnqueueMails, SlaTypeOK, Runs, HasLevel, Mailing
<1>2. mails' = [mails EXCEPT ![level] = mails[level] + 1] /\ run' = [run EXCEPT ![r] = Remaining(r)]
      /\ UNCHANGED <<age, escalated, faults>>
  BY DEF EnqueueMails
<1>3. Remaining(r) \in Runs /\ HasLevel(Remaining(r)) /\ Remaining(r).at # "mail"
  BY RemainingType
<1>4. run'[r] = Remaining(r) /\ \A q \in Replicas \ {r} : run'[q] = run[q]
  BY <1>2 DEF SlaTypeOK
<1>5. SlaTypeOK'
  BY <1>1, <1>2, <1>3, <1>4 DEF SlaTypeOK, Runs
<1>6. \A q \in Replicas : HasLevel(run'[q])
  BY <1>3, <1>4
<1>7. \A q \in Replicas, l \in Levels : Mailing(q, l)' => q # r /\ Mailing(q, l)
  BY <1>3, <1>4 DEF Mailing
<1>8. level \in escalated /\ mails[level] = 0 /\ \A q \in Replicas : Mailing(q, level) => q = r
  BY <1>1 DEF InHand
<1>9. mails'[level] = 1 /\ \A l \in Levels \ {level} : mails'[l] = mails[l]
  BY <1>1, <1>2, <1>8 DEF SlaTypeOK
<1>10. InHand'
  BY <1>2, <1>7, <1>8, <1>9 DEF InHand
<1> QED BY <1>5, <1>6, <1>10 DEF HasLevel

LEMMA SlaFail == ASSUME SlaInv, NEW r \in Replicas, FailRun(r) PROVE SlaInv'
<1>1. Resting \in Runs /\ HasLevel(Resting) /\ Resting.at # "mail"
  BY DEF Resting, Runs, HasLevel
<1>2. run' = [run EXCEPT ![r] = Resting] /\ UNCHANGED <<age, escalated, mails>> /\ faults' \in 0 .. MaxFaults
  BY SlaAssumption DEF FailRun, SlaInv, SlaTypeOK
<1> QED BY <1>1, <1>2, RunMoves

LEMMA SlaStep == ASSUME SlaInv, TicketTypeOK, [Next]_vars PROVE SlaInv'
<1>1. CASE Tick
  BY <1>1, SlaAssumption DEF Tick, SlaInv, SlaTypeOK, InHand, HasLevel, Mailing
<1>2. ASSUME NEW r \in Replicas, RunStep(r) \/ FailRun(r) PROVE SlaInv'
  BY <1>2, SlaSelect, SlaFindLevels, SlaInsert, SlaEnqueue, SlaFail DEF RunStep
<1>3. CASE UNCHANGED slaVars
  BY <1>3 DEF slaVars, SlaInv, SlaTypeOK, InHand, HasLevel, Mailing
<1> QED BY <1>1, <1>2, <1>3 DEF Next, SlaNext, vars

LEMMA SlaInvariant == Spec => []SlaInv
<1>1. Spec => SlaInit /\ [][Next]_vars
  BY DEF Spec, Init
<1> QED BY <1>1, SlaInitial, SlaStep, TicketTypeCorrect, PTL

\* Runs and escalation rows keep their types.
THEOREM SlaTypeCorrect == Spec => []SlaTypeOK
<1>1. SlaInv => SlaTypeOK
  BY DEF SlaInv
<1> QED BY <1>1, SlaInvariant, PTL

\* The ticket and the escalation keep their types together.
THEOREM TypeCorrect == Spec => []TypeOK
<1>1. TicketTypeOK /\ SlaTypeOK => TypeOK
  BY DEF TypeOK
<1> QED BY <1>1, TicketTypeCorrect, SlaTypeCorrect, PTL

\* However many replicas run the cron, a level is mailed at most once.
THEOREM LevelsEscalateOnce == Spec => []EscalatedOnce
<1>1. ASSUME SlaInv PROVE EscalatedOnce
  <2>1. ASSUME NEW l \in Levels PROVE mails[l] <= 1
    BY <1>1, <2>1 DEF SlaInv, SlaTypeOK, InHand
  <2> QED BY <2>1 DEF EscalatedOnce
<1> QED BY <1>1, SlaInvariant, PTL

============================================================================
