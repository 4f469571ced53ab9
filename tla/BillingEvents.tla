---------------------------- MODULE BillingEvents ----------------------------
(***************************************************************************)
(* Webhooks of the payment provider and the plan of one company            *)
(* (BillingService.handleWebhook, applyEvent, createCheckoutSession).  The *)
(* provider delivers an event until it is answered, in any order, and two  *)
(* deliveries of one event may overlap.  BillingEvent remembers what was   *)
(* processed; the plan is read and written back by separate statements.    *)
(*                                                                         *)
(* Of the plan the status is kept.  An event names the plan or leaves it   *)
(* to the row (kind unaddressed, a payment); periods, seats and the grace  *)
(* period are left out, and so are other companies.                        *)
(***************************************************************************)
EXTENDS ReadThenWrite, Naturals, Sequences

CONSTANTS
  MaxEvents,         \* bound: events the provider sends
  MaxOverlaps,       \* bound: overlapping deliveries and faults of an event
  MaxBillingFaults   \* bound: statements that fail, deliveries that stop

ASSUME BillingAssumption ==
  MaxEvents \in Nat /\ MaxOverlaps \in Nat /\ MaxBillingFaults \in Nat

VARIABLES
  sent,            \* kinds of the provider's events, oldest first
  billingEvent,    \* status of each event's row
  companyPlan,     \* status of the CompanyPlan, "none" while there is no row
  delivery,        \* what each request is at and has read
  applied,         \* history: how often each event changed the plan
  excuses,         \* history: faults and overlaps of its deliveries
  billingFaults

billingVars == <<sent, billingEvent, companyPlan, delivery, applied, excuses, billingFaults>>

Events == 1 .. MaxEvents
EventStatuses == {"none", "RECEIVED", "PROCESSED", "IGNORED", "FAILED"}
Kinds == {"paid", "failedPayment", "canceled", "unaddressed", "unrelated"}
PlanStatuses == {"none", "INCOMPLETE", "ACTIVE", "PAST_DUE", "CANCELED"}
NoDelivery == [at |-> "idle", event |-> 0]
Deliveries ==
  [at : {"idle", "insert", "find", "apply", "record", "recordFailure", "checkout"}, event : 0 .. MaxEvents]

BillingInit ==
  /\ sent = <<>> /\ billingEvent = [e \in Events |-> "none"]
  /\ companyPlan = "none"
  /\ delivery = [r \in Requests |-> NoDelivery]
  /\ applied = [e \in Events |-> 0] /\ excuses = [e \in Events |-> 0] /\ billingFaults = 0

ProviderSends ==
  /\ Len(sent) < MaxEvents
  /\ \E kind \in Kinds : sent' = Append(sent, kind)
  /\ UNCHANGED <<billingEvent, companyPlan, delivery, applied, excuses, billingFaults>>

Moves(r, step) == delivery' = [delivery EXCEPT ![r] = step]

----------------------------------------------------------------------------
(* handleWebhook.                                                           *)

Duplicate_Wrong(e) == billingEvent[e] = "IGNORED"
Duplicate(e) == billingEvent[e] \in {"PROCESSED", "IGNORED"}

UnderWay(e) == \E r \in Requests : delivery[r].event = e

Excused(e) == excuses[e] < MaxOverlaps /\ excuses' = [excuses EXCEPT ![e] = @ + 1]

BeginDelivery(r, e) ==
  /\ delivery[r].at = "idle" /\ ~Duplicate(e)
  /\ Moves(r, [at |-> IF billingEvent[e] = "none" THEN "insert" ELSE "find", event |-> e])
  /\ IF UnderWay(e) THEN Excused(e) ELSE UNCHANGED excuses
  /\ UNCHANGED <<sent, billingEvent, companyPlan, applied, billingFaults>>

\* The unique key of the provider's id refuses a second row.
InsertEvent(r) ==
  /\ delivery[r].at = "insert"
  /\ IF billingEvent[delivery[r].event] = "none"
     THEN /\ billingEvent' = [billingEvent EXCEPT ![delivery[r].event] = "RECEIVED"]
          /\ Moves(r, [delivery[r] EXCEPT !.at = "find"])
     ELSE Moves(r, NoDelivery) /\ UNCHANGED billingEvent
  /\ UNCHANGED <<sent, companyPlan, applied, excuses, billingFaults>>

----------------------------------------------------------------------------
(* applyEvent.                                                              *)

FindCompanyPlan(r) ==
  LET kind == sent[delivery[r].event] IN
  /\ delivery[r].at = "find"
  /\ Moves(r, [delivery[r] EXCEPT !.at =
       IF kind = "unrelated" THEN "record"
       ELSE IF kind = "unaddressed" /\ companyPlan = "none" THEN "recordFailure" ELSE "apply"])
  /\ UNCHANGED <<sent, billingEvent, companyPlan, applied, excuses, billingFaults>>

\* A failed payment updates the row if there is one; the others write one.
PlanAfter(kind) ==
  CASE kind = "failedPayment" -> (IF companyPlan = "none" THEN "none" ELSE "PAST_DUE")
    [] kind = "canceled" -> "CANCELED"
    [] OTHER -> "ACTIVE"

ApplyEvent(r) ==
  /\ delivery[r].at = "apply"
  /\ companyPlan' = PlanAfter(sent[delivery[r].event])
  /\ applied' = [applied EXCEPT ![delivery[r].event] = @ + 1]
  /\ Moves(r, [delivery[r] EXCEPT !.at = "record"])
  /\ UNCHANGED <<sent, billingEvent, excuses, billingFaults>>

RecordOutcome(r) ==
  LET e == delivery[r].event IN
  /\ delivery[r].at \in {"record", "recordFailure"}
  /\ billingEvent' = [billingEvent EXCEPT ![e] =
       IF delivery[r].at = "recordFailure" THEN "FAILED"
       ELSE IF sent[e] = "unrelated" THEN "IGNORED" ELSE "PROCESSED"]
  /\ Moves(r, NoDelivery)
  /\ UNCHANGED <<sent, companyPlan, applied, excuses, billingFaults>>

\* A statement in the try block fails, or the process stops.
DeliveryFault(r, step) ==
  /\ billingFaults < MaxBillingFaults /\ billingFaults' = billingFaults + 1
  /\ Excused(delivery[r].event)
  /\ Moves(r, step)
  /\ UNCHANGED <<sent, billingEvent, companyPlan, applied>>

StatementFails(r) ==
  delivery[r].at \in {"find", "apply", "record"} /\ DeliveryFault(r, [delivery[r] EXCEPT !.at = "recordFailure"])
DeliveryStops(r) ==
  delivery[r].at \in {"insert", "find", "apply", "record", "recordFailure"} /\ DeliveryFault(r, NoDelivery)

----------------------------------------------------------------------------
(* createCheckoutSession: the provider's answer is awaited, and the plan    *)
(* becomes INCOMPLETE whatever it has become meanwhile.                     *)

BeginCheckout(r) ==
  /\ delivery[r].at = "idle"
  /\ Moves(r, [at |-> "checkout", event |-> 0])
  /\ UNCHANGED <<sent, billingEvent, companyPlan, applied, excuses, billingFaults>>

FinishCheckout(r) ==
  /\ delivery[r].at = "checkout"
  /\ companyPlan' = "INCOMPLETE"
  /\ Moves(r, NoDelivery)
  /\ UNCHANGED <<sent, billingEvent, applied, excuses, billingFaults>>

BillingNext ==
  \/ ProviderSends
  \/ \E r \in Requests :
       \/ \E e \in 1 .. Len(sent) : BeginDelivery(r, e)
       \/ InsertEvent(r) \/ FindCompanyPlan(r) \/ ApplyEvent(r) \/ RecordOutcome(r)
       \/ StatementFails(r) \/ DeliveryStops(r)
       \/ BeginCheckout(r) \/ FinishCheckout(r)

BillingSpec == BillingInit /\ [][BillingNext]_billingVars

----------------------------------------------------------------------------

\* Events, the plan and requests hold values of their types.
BillingTypeOK ==
  /\ sent \in Seq(Kinds) /\ Len(sent) <= MaxEvents
  /\ billingEvent \in [Events -> EventStatuses]
  /\ companyPlan \in PlanStatuses
  /\ delivery \in [Requests -> Deliveries]
  /\ applied \in [Events -> Nat] /\ excuses \in [Events -> 0 .. MaxOverlaps]
  /\ billingFaults \in 0 .. MaxBillingFaults

\* However often an event is delivered, it changes the plan once, and once more
\* for each delivery that overlapped another of it or failed after it began.
AppliedOnce == \A e \in Events : applied[e] <= 1 + excuses[e]

============================================================================
