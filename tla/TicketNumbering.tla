--------------------------- MODULE TicketNumbering ---------------------------
(***************************************************************************)
(* The ticket numbers of one company and its usage counter.  Four places   *)
(* create tickets in a company.  TicketsService.create and the AI agent    *)
(* count the tickets and look for the first free number after the count,   *)
(* one SELECT per candidate (nextTicketNumber); a network alert and an RMM *)
(* alert take the number after the count.  The INSERT comes later, under   *)
(* the unique key of ticketNumber.  create alone then counts the ticket in *)
(* UsageRecord (incrementUsage), which it does not wait for and which      *)
(* reads a row of the month and writes it back.                            *)
(*                                                                         *)
(* Tickets are deleted by a mark, so the count never falls.  Requesters    *)
(* without a company, companies whose ids start alike, the seeded tickets  *)
(* and the change of month are left out.                                   *)
(***************************************************************************)
EXTENDS ReadThenWrite, Naturals, SequencesExt

CONSTANTS
  MaxProbes,        \* candidates looked up before the number is made of the time
  MaxTickets,       \* bound: tickets of the company
  MaxUsageFaults    \* bound: increments that fail or stop half way

ASSUME NumberingAssumption ==
  MaxProbes \in Nat \ {0} /\ MaxTickets \in Nat /\ MaxUsageFaults \in Nat

VARIABLES
  numbered,         \* numbers taken in the series of the company
  dated,            \* tickets whose number is made of the time
  usage,            \* counts of the month's UsageRecord rows
  creation,         \* what each request is at and has read
  created,          \* history: tickets made by create
  uncounted,        \* history: increments that failed
  usageOutdated     \* history: increments written on an outdated read

numberingVars == <<numbered, dated, usage, creation, created, uncounted, usageOutdated>>

Makers == {"create", "agent", "alert"}
CreationSteps == {"idle", "probe", "insert", "find", "newRecord", "count"}
Creations ==
  [at : CreationSteps, maker : Makers, number : Nat, probes : Nat, row : Nat, read : Nat, fresh : BOOLEAN]

\* A request on its way to a number, and one that counts its ticket.
Numbering(step, maker, number, probes) ==
  [at |-> step, maker |-> maker, number |-> number, probes |-> probes, row |-> 0, read |-> 0, fresh |-> TRUE]
Counting(step, row, read) ==
  [at |-> step, maker |-> "create", number |-> 0, probes |-> 0, row |-> row, read |-> read, fresh |-> TRUE]
NoCreation == Counting("idle", 0, 0)

NumberingInit ==
  /\ numbered = {} /\ dated = 0 /\ usage = <<>>
  /\ creation = [r \in Requests |-> NoCreation]
  /\ created = 0 /\ uncounted = 0 /\ usageOutdated = FALSE

Count == Cardinality(numbered) + dated
Creates(r, step) == creation' = [creation EXCEPT ![r] = step]

BeginCreate(r, maker) ==
  /\ creation[r].at = "idle" /\ Count < MaxTickets
  /\ Creates(r, Numbering(IF maker = "alert" THEN "insert" ELSE "probe", maker, Count + 1, 0))
  /\ UNCHANGED <<numbered, dated, usage, created, uncounted, usageOutdated>>

\* One turn of the loop in nextTicketNumber; number 0 stands for the time.
Candidate_Wrong(step) == step.number + 1
Candidate(step) == step.number

Probe(r) ==
  LET step == creation[r] IN
  /\ step.at = "probe"
  /\ Creates(r,
       IF Candidate(step) \notin numbered
       THEN Numbering("insert", step.maker, Candidate(step), 0)
       ELSE IF step.probes + 1 < MaxProbes
       THEN Numbering("probe", step.maker, step.number + 1, step.probes + 1)
       ELSE Numbering("insert", step.maker, 0, 0))
  /\ UNCHANGED <<numbered, dated, usage, created, uncounted, usageOutdated>>

InsertTicket(r) ==
  LET step == creation[r] IN
  /\ step.at = "insert" /\ Count < MaxTickets /\ step.number \notin numbered
  /\ IF step.number = 0 THEN dated' = dated + 1 /\ UNCHANGED numbered
     ELSE numbered' = numbered \cup {step.number} /\ UNCHANGED dated
  /\ IF step.maker = "create"
     THEN Creates(r, Counting("find", 0, 0)) /\ created' = created + 1
     ELSE Creates(r, NoCreation) /\ UNCHANGED created
  /\ UNCHANGED <<usage, uncounted, usageOutdated>>

\* The unique key refuses a number that was taken meanwhile.
NumberTaken(r) ==
  /\ creation[r].at = "insert" /\ creation[r].number \in numbered
  /\ Creates(r, NoCreation)
  /\ UNCHANGED <<numbered, dated, usage, created, uncounted, usageOutdated>>

----------------------------------------------------------------------------
(* incrementUsage.  No unique key keeps two rows of a month apart.          *)

FindUsage(r) ==
  /\ creation[r].at = "find"
  /\ IF usage = <<>> THEN Creates(r, Counting("newRecord", 0, 0))
     ELSE \E i \in DOMAIN usage : Creates(r, Counting("count", i, usage[i]))
  /\ UNCHANGED <<numbered, dated, usage, created, uncounted, usageOutdated>>

CreateUsage(r) ==
  /\ creation[r].at = "newRecord"
  /\ usage' = Append(usage, 0)
  /\ Creates(r, Counting("count", Len(usage) + 1, 0))
  /\ UNCHANGED <<numbered, dated, created, uncounted, usageOutdated>>

NextCount_Wrong(step) == step.row
NextCount(step) == step.read + 1

CountUsage(r) ==
  LET step == creation[r] IN
  /\ step.at = "count"
  /\ usage' = [usage EXCEPT ![step.row] = NextCount(step)]
  /\ usageOutdated' = (usageOutdated \/ ~step.fresh)
  /\ creation' = [s \in Requests |->
       IF s = r THEN NoCreation
       ELSE [creation[s] EXCEPT !.fresh = @ /\ ~(creation[s].at = "count" /\ creation[s].row = step.row)]]
  /\ UNCHANGED <<numbered, dated, created, uncounted>>

\* The error is logged, or the process stops.
UsageFails(r) ==
  /\ creation[r].at \in {"find", "newRecord", "count"} /\ uncounted < MaxUsageFaults
  /\ uncounted' = uncounted + 1
  /\ Creates(r, NoCreation)
  /\ UNCHANGED <<numbered, dated, usage, created, usageOutdated>>

NumberingNext == \E r \in Requests :
  \/ \E maker \in Makers : BeginCreate(r, maker)
  \/ Probe(r) \/ InsertTicket(r) \/ NumberTaken(r)
  \/ FindUsage(r) \/ CreateUsage(r) \/ CountUsage(r) \/ UsageFails(r)

NumberingSpec == NumberingInit /\ [][NumberingNext]_numberingVars

----------------------------------------------------------------------------

\* Numbers and counts are numbers, and requests hold values of their types.
NumberingTypeOK ==
  /\ numbered \in SUBSET Nat /\ IsFiniteSet(numbered) /\ dated \in Nat
  /\ usage \in Seq(Nat)
  /\ creation \in [Requests -> Creations]
  /\ created \in Nat /\ uncounted \in 0 .. MaxUsageFaults /\ usageOutdated \in BOOLEAN

\* Whatever counts, look-ups and insertions overlap, the company's numbers are
\* those from 1 on without a gap, as long as no number had to be made of the time.
NumbersWithoutGap == dated = 0 => numbered = 1 .. Cardinality(numbered)

\* The usage rows together never count more tickets than create made, and count
\* each of them once no increment is under way, failed or was overwritten.
Counted == FoldSeq(LAMBDA n, sum : n + sum, 0, usage)
UsageIsFair ==
  /\ Counted <= created
  /\ AtRest(creation) /\ uncounted = 0 /\ ~usageOutdated => Counted = created

============================================================================
