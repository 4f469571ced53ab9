-------------------------- MODULE MaintenancePlans --------------------------
(***************************************************************************)
(* A recurring maintenance plan and its runs (MaintenanceService).         *)
(* generateTicket opens a ticket and then inserts the run that refers to   *)
(* it; completePlan completes the run it is told, or the first one pending,*)
(* or inserts one completed, and then dates the plan.  Each statement is   *)
(* an action; a process may stop between any two.                          *)
(*                                                                         *)
(* Due dates are left out: any pending run may be the first.  The ticket's *)
(* assignment is an action of TicketLifecycle.  Plans and runs are never   *)
(* deleted.  A failed CREATE TABLE, which a process remembers for good, is *)
(* left out.                                                               *)
(***************************************************************************)
EXTENDS ReadThenWrite, Naturals

CONSTANTS
  MaxRuns,          \* bound: runs of the plan, and tickets opened for it
  MaxCompletions,   \* bound: completions of a run
  MaxStops          \* bound: calls that stop half way

ASSUME MaintenanceAssumption == {MaxRuns, MaxCompletions, MaxStops} \subseteq Nat

VARIABLES
  planStatus,     \* MaintenancePlan.status
  dated,          \* lastCompletedAt is set
  runs,           \* the rows of MaintenanceRun: status, and its ticket or 0
  planTickets,    \* tickets opened for the plan
  upkeep,         \* what each request is at
  times,          \* history: how often each run was completed
  stops,          \* history: calls that stopped half way
  orphans,        \* history: tickets whose run was never inserted
  runOutdated,    \* history: runs completed twice by calls that overlapped
  asTold          \* history: runs completed because the caller named them

maintenanceVars ==
  <<planStatus, dated, runs, planTickets, upkeep, times, stops, orphans, runOutdated, asTold>>

Runs == 1 .. MaxRuns
PlanTickets == 1 .. MaxRuns
NoRun == [status |-> "none", ticket |-> 0]
UpkeepSteps == {"idle", "ticket", "insert", "complete", "insertDone", "date"}
UpkeepRow(step, run, ticket) == [at |-> step, run |-> run, ticket |-> ticket, fresh |-> TRUE]
NoUpkeep == UpkeepRow("idle", 0, 0)

MaintenanceInit ==
  /\ planStatus = "absent" /\ dated = FALSE
  /\ runs = [n \in Runs |-> NoRun] /\ planTickets = 0
  /\ upkeep = [r \in Requests |-> NoUpkeep]
  /\ times = [n \in Runs |-> 0] /\ stops = 0 /\ orphans = {}
  /\ runOutdated = {} /\ asTold = {}

Upkeeps(r, row) == upkeep' = [upkeep EXCEPT ![r] = row]

\* createPlan and updatePlan; both may write any status.
WritePlan(status) ==
  /\ planStatus' = status
  /\ UNCHANGED <<dated, runs, planTickets, upkeep, times, stops, orphans, runOutdated, asTold>>

----------------------------------------------------------------------------
(* generateTicket.                                                          *)

FindPlan(r) ==
  /\ upkeep[r].at = "idle" /\ planStatus = "ACTIVE"
  /\ Upkeeps(r, UpkeepRow("ticket", 0, 0))
  /\ UNCHANGED <<planStatus, dated, runs, planTickets, times, stops, orphans, runOutdated, asTold>>

OpenPlanTicket(r) ==
  /\ upkeep[r].at = "ticket" /\ planTickets < MaxRuns
  /\ planTickets' = planTickets + 1
  /\ Upkeeps(r, UpkeepRow("insert", 0, planTickets'))
  /\ UNCHANGED <<planStatus, dated, runs, times, stops, orphans, runOutdated, asTold>>

InsertRun(r) ==
  /\ upkeep[r].at = "insert"
  /\ \E n \in Runs :
       /\ runs[n].status = "none"
       /\ runs' = [runs EXCEPT ![n] = [status |-> "SCHEDULED", ticket |-> upkeep[r].ticket]]
  /\ Upkeeps(r, NoUpkeep)
  /\ UNCHANGED <<planStatus, dated, planTickets, times, stops, orphans, runOutdated, asTold>>

----------------------------------------------------------------------------
(* completePlan.                                                            *)

Pending_Wrong == {n \in Runs : runs[n].status # "none"}
Pending == {n \in Runs : runs[n].status = "SCHEDULED"}

\* Without a run named by the caller, the first one pending or a new one.
FindPending(r) ==
  /\ upkeep[r].at = "idle" /\ planStatus # "absent"
  /\ \/ \E n \in Pending : Upkeeps(r, UpkeepRow("complete", n, 0))
     \/ Pending = {} /\ Upkeeps(r, UpkeepRow("insertDone", 0, 0))
  /\ UNCHANGED <<planStatus, dated, runs, planTickets, times, stops, orphans, runOutdated, asTold>>

\* assertRunAccess asks whose the run is, not whether it is pending.
FindNamed(r, n) ==
  /\ upkeep[r].at = "idle" /\ runs[n].status # "none"
  /\ Upkeeps(r, UpkeepRow("complete", n, 0)) /\ asTold' = asTold \cup {n}
  /\ UNCHANGED <<planStatus, dated, runs, planTickets, times, stops, orphans, runOutdated>>

\* Run n was completed: others that were going to complete it are outdated.
Completes(r, n) ==
  /\ times[n] < MaxCompletions
  /\ times' = [times EXCEPT ![n] = @ + 1]
  /\ upkeep' = [q \in Requests |->
       IF q = r THEN UpkeepRow("date", 0, 0)
       ELSE [upkeep[q] EXCEPT !.fresh = @ /\ ~(upkeep[q].at = "complete" /\ upkeep[q].run = n)]]

CompleteRun(r) ==
  LET n == upkeep[r].run IN
  /\ upkeep[r].at = "complete"
  /\ runs' = [runs EXCEPT ![n].status = "COMPLETED"]
  /\ Completes(r, n)
  /\ runOutdated' = IF upkeep[r].fresh THEN runOutdated ELSE runOutdated \cup {n}
  /\ UNCHANGED <<planStatus, dated, planTickets, stops, orphans, asTold>>

InsertCompleted(r) ==
  /\ upkeep[r].at = "insertDone"
  /\ \E n \in Runs :
       /\ runs[n].status = "none"
       /\ runs' = [runs EXCEPT ![n] = [status |-> "COMPLETED", ticket |-> 0]]
       /\ Completes(r, n)
  /\ UNCHANGED <<planStatus, dated, planTickets, stops, orphans, runOutdated, asTold>>

DatePlan(r) ==
  /\ upkeep[r].at = "date"
  /\ dated' = TRUE
  /\ Upkeeps(r, NoUpkeep)
  /\ UNCHANGED <<planStatus, runs, planTickets, times, stops, orphans, runOutdated, asTold>>

\* A statement or the notice to the participants fails, or the process stops.
UpkeepStops(r) ==
  /\ upkeep[r].at # "idle" /\ stops < MaxStops
  /\ stops' = stops + 1
  /\ orphans' = IF upkeep[r].at = "insert" THEN orphans \cup {upkeep[r].ticket} ELSE orphans
  /\ Upkeeps(r, NoUpkeep)
  /\ UNCHANGED <<planStatus, dated, runs, planTickets, times, runOutdated, asTold>>

MaintenanceNext ==
  \/ \E status \in {"ACTIVE", "PAUSED", "ARCHIVED"} : WritePlan(status)
  \/ \E r \in Requests :
       \/ FindPlan(r) \/ OpenPlanTicket(r) \/ InsertRun(r)
       \/ FindPending(r) \/ CompleteRun(r) \/ InsertCompleted(r) \/ DatePlan(r)
       \/ \E n \in Runs : FindNamed(r, n)
       \/ UpkeepStops(r)

MaintenanceSpec == MaintenanceInit /\ [][MaintenanceNext]_maintenanceVars

----------------------------------------------------------------------------

\* The plan, its runs, requests and histories hold values of their types.
MaintenanceTypeOK ==
  /\ planStatus \in {"absent", "ACTIVE", "PAUSED", "ARCHIVED"} /\ dated \in BOOLEAN
  /\ runs \in [Runs -> [status : {"none", "SCHEDULED", "COMPLETED"}, ticket : 0 .. MaxRuns]]
  /\ planTickets \in 0 .. MaxRuns
  /\ upkeep \in [Requests -> [at : UpkeepSteps, run : 0 .. MaxRuns, ticket : 0 .. MaxRuns, fresh : BOOLEAN]]
  /\ times \in [Runs -> 0 .. MaxCompletions] /\ stops \in 0 .. MaxStops /\ orphans \in SUBSET PlanTickets
  /\ runOutdated \in SUBSET Runs /\ asTold \in SUBSET Runs

\* The runs of a plan account for the work on it.  Each ticket opened for the plan
\* has its run, or a call is about to insert it, or the call stopped there.  A run
\* is completed once, unless the caller named it or two calls found it pending at
\* once.  And a plan with a completed run is dated, unless a call has that still to
\* do or stopped before it.
WorkIsRecorded ==
  /\ \A t \in 1 .. planTickets :
       \/ \E n \in Runs : runs[n].status # "none" /\ runs[n].ticket = t
       \/ \E r \in Requests : upkeep[r].at = "insert" /\ upkeep[r].ticket = t
       \/ t \in orphans
  /\ \A n \in Runs \ (runOutdated \cup asTold) :
       times[n] = IF runs[n].status = "COMPLETED" THEN 1 ELSE 0
  /\ (\E n \in Runs : runs[n].status = "COMPLETED") =>
       dated \/ stops > 0 \/ \E r \in Requests : upkeep[r].at = "date"

============================================================================
