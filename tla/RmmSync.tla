------------------------------- MODULE RmmSync -------------------------------
(***************************************************************************)
(* The assets of one company that a remote monitoring provider reports.    *)
(* RmmSyncService.runSyncWithRetry takes a MySQL lock by name, on a        *)
(* connection of its own, tries syncProviderAssets a few times and gives   *)
(* the lock back; syncProviderAssets looks each serial number up and then  *)
(* creates or updates the asset.  RmmIntegrationService.syncAsset, which a *)
(* webhook calls, looks up and creates without the lock.                   *)
(*                                                                         *)
(* There is one provider.  The lock's name has the provider in it, so that *)
(* the syncs of two providers of a company run beside each other, as if    *)
(* one of them had lost its lock.                                          *)
(*                                                                         *)
(* The server gives the lock back when the connection is lost, while the   *)
(* sync goes on over other connections.  The rows of RmmSyncRun, assets    *)
(* without a serial number and their deletion are left out, and so is a    *)
(* RELEASE_LOCK that fails while its connection stays open.                *)
(***************************************************************************)
EXTENDS ReadThenWrite, Naturals

CONSTANTS
  Serials,         \* serial numbers the provider reports
  SyncAttempts,    \* maxAttempts
  MaxLost          \* bound: connections lost and processes stopped

ASSUME SyncAssumption ==
  IsFiniteSet(Serials) /\ SyncAttempts \in Nat \ {0} /\ MaxLost \in Nat

VARIABLES
  syncLock,      \* the request whose connection holds the lock, as a set
  sync,          \* what each request is at
  assetRows,     \* live assets of each serial number
  lost,          \* history: connections lost and processes stopped
  unlocked       \* history: a request worked beside another without the lock

syncVars == <<syncLock, sync, assetRows, lost, unlocked>>

SyncSteps == {"idle", "validate", "fetch", "find", "write", "finish", "release", "webhook"}
SyncRows == [at : SyncSteps, attempt : 0 .. SyncAttempts, left : SUBSET Serials, found : BOOLEAN]
SyncRow(step, attempt, left, found) == [at |-> step, attempt |-> attempt, left |-> left, found |-> found]
AtStep(step, attempt) == SyncRow(step, attempt, {}, FALSE)
NoSync == AtStep("idle", 0)

SyncInit ==
  /\ syncLock = {} /\ sync = [r \in Requests |-> NoSync]
  /\ assetRows = [s \in Serials |-> 0] /\ lost = 0 /\ unlocked = FALSE

Busy(r) == sync[r].at # "idle"
Syncs(r, step) == sync' = [sync EXCEPT ![r] = step]

Free_Wrong == TRUE
Free == syncLock = {}

\* GET_LOCK with no time to wait: a sync that does not get it is refused.
GetLock(r) ==
  /\ ~Busy(r) /\ Free
  /\ syncLock' = {r}
  /\ Syncs(r, AtStep("validate", 1))
  /\ unlocked' = (unlocked \/ \E s \in Requests : sync[s].at = "webhook")
  /\ UNCHANGED <<assetRows, lost>>

\* Credentials that the provider refuses end the sync without another attempt.
Validate(r) ==
  /\ sync[r].at = "validate"
  /\ \E next \in {"fetch", "finish"} : Syncs(r, AtStep(next, sync[r].attempt))
  /\ UNCHANGED <<syncLock, assetRows, lost, unlocked>>

NextAsset(r, left) == SyncRow(IF left = {} THEN "finish" ELSE "find", sync[r].attempt, left, FALSE)

Fetch(r) ==
  /\ sync[r].at = "fetch"
  /\ \E reported \in SUBSET Serials :
       Syncs(r, NextAsset(r, reported))
  /\ UNCHANGED <<syncLock, assetRows, lost, unlocked>>

\* The provider's list has an order; no property depends on it.
Current(r) == CHOOSE s \in sync[r].left : TRUE

FindAsset(r) ==
  /\ sync[r].at = "find"
  /\ Syncs(r, SyncRow("write", sync[r].attempt, sync[r].left, assetRows[Current(r)] > 0))
  /\ UNCHANGED <<syncLock, assetRows, lost, unlocked>>

Written(r) == IF sync[r].found THEN assetRows ELSE [assetRows EXCEPT ![Current(r)] = @ + 1]

WriteAsset(r) ==
  /\ sync[r].at = "write"
  /\ assetRows' = Written(r)
  /\ Syncs(r, NextAsset(r, sync[r].left \ {Current(r)}))
  /\ UNCHANGED <<syncLock, lost, unlocked>>

FinishRun(r) ==
  /\ sync[r].at = "finish"
  /\ Syncs(r, AtStep("release", 0))
  /\ UNCHANGED <<syncLock, assetRows, lost, unlocked>>

\* Whatever is thrown is caught, and after the last attempt thrown again.
AfterFailure_Wrong(step) ==
  IF step.attempt < SyncAttempts
  THEN AtStep("validate", step.attempt + 1) ELSE NoSync
AfterFailure(step) ==
  IF step.attempt < SyncAttempts
  THEN AtStep("validate", step.attempt + 1)
  ELSE AtStep("release", 0)

AttemptFails(r) ==
  /\ sync[r].at \in {"validate", "fetch", "find", "write", "finish"}
  /\ Syncs(r, AfterFailure(sync[r]))
  /\ UNCHANGED <<syncLock, assetRows, lost, unlocked>>

ReleaseLock(r) ==
  /\ sync[r].at = "release"
  /\ syncLock' = syncLock \ {r}
  /\ Syncs(r, NoSync)
  /\ UNCHANGED <<assetRows, lost, unlocked>>

\* The server closes the connection of the lock: the sync goes on, or is gone.
LoseConnection(r) ==
  /\ r \in syncLock /\ lost < MaxLost
  /\ syncLock' = {} /\ lost' = lost + 1
  /\ \/ unlocked' = TRUE /\ UNCHANGED sync
     \/ Syncs(r, NoSync) /\ UNCHANGED unlocked
  /\ UNCHANGED assetRows

----------------------------------------------------------------------------
(* syncAsset, for one asset of a webhook.                                   *)

BeginWebhook(r, s) ==
  /\ ~Busy(r)
  /\ Syncs(r, SyncRow("webhook", 0, {s}, assetRows[s] > 0))
  /\ unlocked' = (unlocked \/ \E other \in Requests : Busy(other))
  /\ UNCHANGED <<syncLock, assetRows, lost>>

EndWebhook(r) ==
  /\ sync[r].at = "webhook"
  /\ assetRows' = Written(r)
  /\ Syncs(r, NoSync)
  /\ UNCHANGED <<syncLock, lost, unlocked>>

SyncStep(r) ==
  \/ Validate(r) \/ Fetch(r) \/ FindAsset(r) \/ WriteAsset(r)
  \/ FinishRun(r) \/ AttemptFails(r) \/ ReleaseLock(r)

SyncNext == \E r \in Requests :
  \/ GetLock(r) \/ SyncStep(r) \/ LoseConnection(r) \/ EndWebhook(r)
  \/ \E s \in Serials : BeginWebhook(r, s)

SyncSpec == SyncInit /\ [][SyncNext]_syncVars

----------------------------------------------------------------------------

\* The lock, the requests and the assets hold values of their types.
SyncTypeOK ==
  /\ syncLock \in SUBSET Requests
  /\ sync \in [Requests -> SyncRows]
  /\ assetRows \in [Serials -> Nat] /\ lost \in 0 .. MaxLost /\ unlocked \in BOOLEAN

\* A serial number has one asset, however often syncs are tried and however many
\* are started at once, as long as no webhook worked beside another request and
\* no sync lost its lock.
OneAssetPerSerial == ~unlocked => \A s \in Serials : assetRows[s] <= 1

\* A lock that was taken is given back: failures, retries and refused credentials
\* all end in the finally block, as long as the process and the provider go on.
LockIsReleased == \A r \in Requests : r \in syncLock ~> r \notin syncLock

============================================================================
