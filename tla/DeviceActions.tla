--------------------------- MODULE DeviceActions ----------------------------
(***************************************************************************)
(* One row of NetworkDeviceAction: queueDeviceAction makes it, and asks    *)
(* for an approval if the action is disruptive and the policy says so;     *)
(* decideNetworkAction approves or rejects; executeDeviceAction calls the  *)
(* vendor and writes the outcome.  Each reads the row, decides, and writes *)
(* by id alone; the vendor's answer is awaited in between.                 *)
(*                                                                         *)
(* Tenants, payloads, notes and the audit log are left out, and so is the  *)
(* twin of queueDeviceAction in TopologyService.                           *)
(***************************************************************************)
EXTENDS ReadThenWrite, Naturals

CONSTANTS
  MaxCalls,      \* bound: calls to the vendor
  MaxStopped     \* bound: executions that stop half way

ASSUME ActionAssumption == MaxCalls \in Nat /\ MaxStopped \in Nat

VARIABLES
  netAction,       \* the row
  acting,          \* what each request is going to do
  actionApprovers, \* history: who wrote an approval
  vendorCalls,     \* calls to the vendor
  stopped,         \* history: executions that stopped half way
  actionOutdated   \* history: a row that others had changed was overwritten

actionVars == <<netAction, acting, actionApprovers, vendorCalls, stopped, actionOutdated>>

ActionRows ==
  [status : {"absent", "PENDING_APPROVAL", "QUEUED", "REJECTED", "COMPLETED", "FAILED"},
   approval : {"NOT_REQUIRED", "PENDING", "APPROVED", "REJECTED"},
   requestedBy : Admins \cup {NoAdmin}]
NotActing == [at |-> "idle", by |-> NoAdmin, fresh |-> TRUE]
ActionSteps == {"idle", "approve", "reject", "call", "finish"}

ActionInit ==
  /\ netAction = [status |-> "absent", approval |-> "NOT_REQUIRED", requestedBy |-> NoAdmin]
  /\ acting = [r \in Requests |-> NotActing]
  /\ actionApprovers = {} /\ vendorCalls = 0 /\ stopped = 0 /\ actionOutdated = FALSE

QueueDeviceAction(a, approvalRequired) ==
  /\ netAction.status = "absent"
  /\ netAction' =
       [status |-> IF approvalRequired THEN "PENDING_APPROVAL" ELSE "QUEUED",
        approval |-> IF approvalRequired THEN "PENDING" ELSE "NOT_REQUIRED", requestedBy |-> a]
  /\ UNCHANGED <<acting, actionApprovers, vendorCalls, stopped, actionOutdated>>

WriteAction(r, row) ==
  /\ netAction' = row
  /\ acting' = Overwritten(acting, r, NotActing)
  /\ actionOutdated' = (actionOutdated \/ ~acting[r].fresh)

----------------------------------------------------------------------------
(* decideNetworkAction.                                                     *)

MayDecide(a) == netAction.requestedBy # a /\ netAction.approval = "PENDING"

BeginDecide(r, a, decision) ==
  /\ acting[r].at = "idle" /\ netAction.status # "absent" /\ MayDecide(a)
  /\ acting' = [acting EXCEPT ![r] = [at |-> decision, by |-> a, fresh |-> TRUE]]
  /\ UNCHANGED <<netAction, actionApprovers, vendorCalls, stopped, actionOutdated>>

WriteDecision(r) ==
  /\ \/ /\ acting[r].at = "approve"
        /\ WriteAction(r, [netAction EXCEPT !.approval = "APPROVED", !.status = "QUEUED"])
        /\ actionApprovers' = actionApprovers \cup {acting[r].by}
     \/ /\ acting[r].at = "reject"
        /\ WriteAction(r, [netAction EXCEPT !.approval = "REJECTED", !.status = "REJECTED"])
        /\ UNCHANGED actionApprovers
  /\ UNCHANGED <<vendorCalls, stopped>>

----------------------------------------------------------------------------
(* executeDeviceAction.                                                     *)

Executable_Wrong == netAction.status # "absent" /\ netAction.approval \notin {"PENDING", "REJECTED"}
Executable == netAction.status = "QUEUED" /\ netAction.approval \notin {"PENDING", "REJECTED"}

BeginExecute(r) ==
  /\ acting[r].at = "idle" /\ Executable
  /\ acting' = [acting EXCEPT ![r] = [at |-> "call", by |-> NoAdmin, fresh |-> TRUE]]
  /\ UNCHANGED <<netAction, actionApprovers, vendorCalls, stopped, actionOutdated>>

\* A vendor without a call for the action is not asked.
CallVendor(r) ==
  /\ acting[r].at = "call" /\ vendorCalls < MaxCalls
  /\ vendorCalls' \in {vendorCalls, vendorCalls + 1}
  /\ acting' = [acting EXCEPT ![r].at = "finish"]
  /\ UNCHANGED <<netAction, actionApprovers, stopped, actionOutdated>>

FinishAction(r) ==
  /\ acting[r].at = "finish"
  /\ \E outcome \in {"COMPLETED", "FAILED"} : WriteAction(r, [netAction EXCEPT !.status = outcome])
  /\ UNCHANGED <<actionApprovers, vendorCalls, stopped>>

StopExecution(r) ==
  /\ acting[r].at = "finish" /\ stopped < MaxStopped
  /\ stopped' = stopped + 1
  /\ acting' = [acting EXCEPT ![r] = NotActing]
  /\ UNCHANGED <<netAction, actionApprovers, vendorCalls, actionOutdated>>

ActionNext ==
  \/ \E a \in Admins, approvalRequired \in BOOLEAN : QueueDeviceAction(a, approvalRequired)
  \/ \E r \in Requests :
       \/ \E a \in Admins, decision \in {"approve", "reject"} : BeginDecide(r, a, decision)
       \/ WriteDecision(r) \/ BeginExecute(r) \/ CallVendor(r) \/ FinishAction(r) \/ StopExecution(r)

ActionSpec == ActionInit /\ [][ActionNext]_actionVars

----------------------------------------------------------------------------

\* The row, the requests and the histories hold values of their types.
ActionTypeOK ==
  /\ netAction \in ActionRows
  /\ acting \in [Requests -> [at : ActionSteps, by : Admins \cup {NoAdmin}, fresh : BOOLEAN]]
  /\ actionApprovers \in SUBSET Admins /\ vendorCalls \in 0 .. MaxCalls
  /\ stopped \in 0 .. MaxStopped /\ actionOutdated \in BOOLEAN

\* Whatever decisions and executions overlap, the vendor is not called on an action
\* that needs an approval before an administrator other than the one who asked has
\* given it; and it is called once, unless an execution stopped before it wrote the
\* outcome or a request overwrote a row that had changed.
VendorCalledWhenApproved ==
  /\ vendorCalls > 0 /\ netAction.approval # "NOT_REQUIRED" =>
       \E a \in actionApprovers : a # netAction.requestedBy
  /\ ~actionOutdated /\ stopped = 0 /\ AtRest(acting) => vendorCalls <= 1

============================================================================
