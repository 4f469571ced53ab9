---------------------------- MODULE NetworkAlerts ----------------------------
(***************************************************************************)
(* The alerts and tickets of one rule of one network device (CmdbService): *)
(* every ping, SNMP poll and vendor sync evaluates the rules, resolves the *)
(* alerts of a device that answers, and otherwise opens a ticket and an    *)
(* alert that refers to it, unless there are some.  Polls of the cron and  *)
(* of people overlap; each look-up and each INSERT is a statement.         *)
(*                                                                         *)
(* The ticket's number may be taken, and a company may have nobody to open *)
(* a ticket for.  Notifications, escalations and other rules are left out. *)
(***************************************************************************)
EXTENDS ReadThenWrite, Naturals

CONSTANTS
  MaxAlerts,     \* bound: alerts of the rule
  MaxReopened    \* bound: tickets opened again

ASSUME AlertAssumption == MaxAlerts \in Nat /\ MaxReopened \in Nat

VARIABLES
  activeAlerts,   \* NetworkAlertEvents ACTIVE or ACKNOWLEDGED
  doneAlerts,     \* those RESOLVED
  openTickets,    \* tickets of the device and rule neither RESOLVED nor CLOSED
  doneTickets,    \* the others
  evaluation,     \* what each evaluation is at
  reopened,       \* history: tickets opened again
  alertOutdated   \* history: a ticket was made on an outdated look-up

alertVars == <<activeAlerts, doneAlerts, openTickets, doneTickets, evaluation, reopened, alertOutdated>>

EvaluationSteps == {"idle", "findAlert", "findTicket", "ticket", "alert"}
EvaluationAt(step) == [at |-> step, fresh |-> TRUE]

AlertInit ==
  /\ activeAlerts = 0 /\ doneAlerts = 0 /\ openTickets = 0 /\ doneTickets = 0
  /\ evaluation = [r \in Requests |-> EvaluationAt("idle")]
  /\ reopened = 0 /\ alertOutdated = FALSE

Evaluates(r, step) == evaluation' = [evaluation EXCEPT ![r] = EvaluationAt(step)]

\* Alerts are resolved when the device is online, whether or not a rule matches.
EvaluateRules(r, online, matching) ==
  /\ evaluation[r].at = "idle"
  /\ IF online THEN activeAlerts' = 0 /\ doneAlerts' = doneAlerts + activeAlerts
     ELSE UNCHANGED <<activeAlerts, doneAlerts>>
  /\ Evaluates(r, IF matching THEN "findAlert" ELSE "idle")
  /\ UNCHANGED <<openTickets, doneTickets, reopened, alertOutdated>>

FindAlert(r) ==
  /\ evaluation[r].at = "findAlert"
  /\ Evaluates(r, IF activeAlerts > 0 THEN "idle" ELSE "findTicket")
  /\ UNCHANGED <<activeAlerts, doneAlerts, openTickets, doneTickets, reopened, alertOutdated>>

TicketFound_Wrong == FALSE
TicketFound == openTickets > 0

\* Without somebody to open a ticket for, the alert is made without one.
FindTicket(r) ==
  /\ evaluation[r].at = "findTicket"
  /\ \E creator \in BOOLEAN : Evaluates(r, IF TicketFound \/ ~creator THEN "alert" ELSE "ticket")
  /\ UNCHANGED <<activeAlerts, doneAlerts, openTickets, doneTickets, reopened, alertOutdated>>

CreateAlertTicket(r) ==
  /\ evaluation[r].at = "ticket" /\ openTickets + doneTickets < MaxAlerts
  /\ openTickets' = openTickets + 1
  /\ evaluation' = Overwritten(evaluation, r, EvaluationAt("alert"))
  /\ alertOutdated' = (alertOutdated \/ ~evaluation[r].fresh)
  /\ UNCHANGED <<activeAlerts, doneAlerts, doneTickets, reopened>>

InsertAlert(r) ==
  /\ evaluation[r].at = "alert" /\ activeAlerts + doneAlerts < MaxAlerts
  /\ activeAlerts' = activeAlerts + 1
  /\ Evaluates(r, "idle")
  /\ UNCHANGED <<doneAlerts, openTickets, doneTickets, reopened, alertOutdated>>

\* The number was taken, a statement fails or the process stops.
EvaluationStops(r) ==
  /\ evaluation[r].at # "idle" /\ Evaluates(r, "idle")
  /\ UNCHANGED <<activeAlerts, doneAlerts, openTickets, doneTickets, reopened, alertOutdated>>

\* updateNetworkAlertEvent takes any status at any time.
ResolveAlert ==
  /\ activeAlerts > 0
  /\ activeAlerts' = activeAlerts - 1 /\ doneAlerts' = doneAlerts + 1
  /\ UNCHANGED <<openTickets, doneTickets, evaluation, reopened, alertOutdated>>

ReactivateAlert ==
  /\ doneAlerts > 0
  /\ activeAlerts' = activeAlerts + 1 /\ doneAlerts' = doneAlerts - 1
  /\ UNCHANGED <<openTickets, doneTickets, evaluation, reopened, alertOutdated>>

\* People resolve and reopen tickets (TicketLifecycle).
CloseTicket ==
  /\ openTickets > 0
  /\ openTickets' = openTickets - 1 /\ doneTickets' = doneTickets + 1
  /\ UNCHANGED <<activeAlerts, doneAlerts, evaluation, reopened, alertOutdated>>

ReopenTicket ==
  /\ doneTickets > 0 /\ reopened < MaxReopened
  /\ openTickets' = openTickets + 1 /\ doneTickets' = doneTickets - 1 /\ reopened' = reopened + 1
  /\ UNCHANGED <<activeAlerts, doneAlerts, evaluation, alertOutdated>>

AlertNext ==
  \/ ResolveAlert \/ ReactivateAlert \/ CloseTicket \/ ReopenTicket
  \/ \E r \in Requests :
       \/ \E online, matching \in BOOLEAN : EvaluateRules(r, online, matching)
       \/ FindAlert(r) \/ FindTicket(r) \/ CreateAlertTicket(r) \/ InsertAlert(r) \/ EvaluationStops(r)

AlertSpec == AlertInit /\ [][AlertNext]_alertVars

----------------------------------------------------------------------------

\* Alerts and tickets are counted, and evaluations are at one of their steps.
AlertTypeOK ==
  /\ activeAlerts \in Nat /\ doneAlerts \in Nat /\ openTickets \in Nat /\ doneTickets \in Nat
  /\ evaluation \in [Requests -> [at : EvaluationSteps, fresh : BOOLEAN]]
  /\ reopened \in 0 .. MaxReopened /\ alertOutdated \in BOOLEAN

\* However often the device fails and answers, and wherever evaluations stop, the
\* rule has one open ticket, unless two evaluations looked for it at once or people
\* opened an older one again.
OneTicketPerAlert == ~alertOutdated => openTickets <= 1 + reopened

============================================================================
