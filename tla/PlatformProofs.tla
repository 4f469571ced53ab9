--------------------------- MODULE PlatformProofs ---------------------------
(***************************************************************************)
(* Proofs about the synchronisation of assets, schema migrations, device   *)
(* actions, network alerts, the guards of a request, field visits,         *)
(* catalogue requests and maintenance plans, for any numbers of requests,  *)
(* replicas, serial numbers, migrations, changes, visits, runs and stops;  *)
(* and that what TLC runs as the platform is a run of each of them.        *)
(***************************************************************************)
EXTENDS MCPlatform, FiniteSetTheorems, TLAPS

----------------------------------------------------------------------------
(* Synchronisation.  Until a request works beside another without the lock *)
(* at most one request is busy, and what it has looked up stays true.      *)

Alone ==
  ~unlocked =>
    /\ \A q, r \in Requests : Busy(q) /\ Busy(r) => q = r
    /\ \A r \in Requests : Busy(r) /\ sync[r].at # "webhook" => syncLock = {r}

LookedUp(r) ==
  /\ sync[r].at \in {"find", "write", "webhook"} => sync[r].left # {}
  /\ sync[r].at \in {"write", "webhook"} /\ ~sync[r].found => assetRows[Current(r)] = 0

SyncInv ==
  /\ SyncTypeOK /\ Alone /\ OneAssetPerSerial
  /\ ~unlocked => \A r \in Requests : LookedUp(r)

LEMMA SyncInitial == SyncInit => SyncInv
<1> SUFFICES ASSUME SyncInit PROVE SyncInv
  OBVIOUS
<1>1. SyncTypeOK
  <2>1. NoSync \in SyncRows
    BY SyncAssumption DEF SyncRows, AtStep, SyncRow, NoSync, SyncSteps
  <2>2. sync \in [Requests -> SyncRows] /\ lost \in 0 .. MaxLost
    BY <2>1, SyncAssumption DEF SyncInit
  <2> QED BY <2>2 DEF SyncInit, SyncTypeOK
<1>2. \A r \in Requests : ~Busy(r) /\ LookedUp(r)
  BY DEF SyncInit, LookedUp, NoSync, AtStep, SyncRow, Busy
<1>3. OneAssetPerSerial
  BY DEF SyncInit, OneAssetPerSerial
<1> QED BY <1>1, <1>2, <1>3 DEF SyncInv, Alone

\* A step of one request that leaves the assets alone.
LEMMA SyncMoves ==
  ASSUME SyncInv, NEW r \in Requests, NEW row \in SyncRows, Syncs(r, row),
         syncLock' \in SUBSET Requests, lost' \in 0 .. MaxLost, unlocked' \in BOOLEAN,
         UNCHANGED assetRows, unlocked => unlocked', Alone', LookedUp(r)'
  PROVE  SyncInv'
<1>1. SyncTypeOK'
  BY DEF SyncInv, SyncTypeOK, Syncs
<1>2. OneAssetPerSerial'
  BY DEF SyncInv, OneAssetPerSerial
<1>3. ASSUME ~unlocked', NEW q \in Requests PROVE LookedUp(q)'
  <2>1. CASE q # r
    BY <1>3, <2>1 DEF SyncInv, SyncTypeOK, LookedUp, Current, Syncs
  <2> QED BY <2>1
<1> QED BY <1>1, <1>2, <1>3 DEF SyncInv

\* A request that was busy beside the lock still is, or is at rest.
LEMMA StaysAlone ==
  ASSUME SyncInv, NEW r \in Requests, NEW row \in SyncRows, Syncs(r, row),
         UNCHANGED <<syncLock, unlocked>>, Busy(r), sync[r].at # "webhook", row.at # "webhook"
  PROVE  Alone'
BY DEF SyncInv, SyncTypeOK, Syncs, Alone, Busy

LEMMA RowTypes ==
  ASSUME NEW step \in SyncSteps, NEW n \in 0 .. SyncAttempts, NEW left \in SUBSET Serials, NEW found \in BOOLEAN
  PROVE  SyncRow(step, n, left, found) \in SyncRows /\ AtStep(step, n) \in SyncRows
BY DEF AtStep, SyncRow, SyncRows

LEMMA SyncGetLock == ASSUME SyncInv, NEW r \in Requests, GetLock(r) PROVE SyncInv'
<1> USE DEF GetLock
<1>1. AtStep("validate", 1) \in SyncRows
  <2>1. 1 \in 0 .. SyncAttempts /\ "validate" \in SyncSteps
    BY SyncAssumption DEF SyncSteps
  <2> QED BY <2>1, RowTypes
<1>2. LookedUp(r)'
  BY DEF LookedUp, Syncs, AtStep, SyncRow, SyncInv, SyncTypeOK
<1>3. Alone'
  BY DEF SyncInv, SyncTypeOK, Alone, Busy, Free, Syncs
<1>4. syncLock' \in SUBSET Requests /\ lost' \in 0 .. MaxLost /\ unlocked' \in BOOLEAN
  BY DEF SyncInv, SyncTypeOK
<1> QED BY <1>1, <1>2, <1>3, <1>4, SyncMoves

\* A step of a busy sync that neither writes nor touches the lock.
LEMMA SyncGoesOn ==
  ASSUME SyncInv, NEW r \in Requests, NEW row \in SyncRows, Syncs(r, row),
         UNCHANGED <<syncLock, assetRows, lost, unlocked>>, Busy(r), sync[r].at # "webhook", row.at # "webhook",
         row.at \in {"find", "write"} => row.left # {},
         row.at = "write" /\ ~row.found => assetRows[CHOOSE s \in row.left : TRUE] = 0
  PROVE  SyncInv'
<1>1. LookedUp(r)'
  BY DEF LookedUp, Current, Syncs, SyncInv, SyncTypeOK
<1>2. syncLock' \in SUBSET Requests /\ lost' \in 0 .. MaxLost /\ unlocked' \in BOOLEAN
  BY DEF SyncInv, SyncTypeOK
<1> QED BY <1>1, <1>2, StaysAlone, SyncMoves

LEMMA SyncValidate == ASSUME SyncInv, NEW r \in Requests, Validate(r) PROVE SyncInv'
<1>1. PICK next \in {"fetch", "finish"} : Syncs(r, AtStep(next, sync[r].attempt))
  BY DEF Validate
<1>2. AtStep(next, sync[r].attempt) \in SyncRows
  BY RowTypes DEF SyncInv, SyncTypeOK, SyncRows, SyncSteps
<1> QED BY <1>1, <1>2, SyncGoesOn DEF Validate, Busy, AtStep, SyncRow

LEMMA NextAssetType ==
  ASSUME SyncInv, NEW r \in Requests, NEW left \in SUBSET Serials
  PROVE  NextAsset(r, left) \in SyncRows
<1>1. sync[r].attempt \in 0 .. SyncAttempts
  BY DEF SyncInv, SyncTypeOK, SyncRows
<1> QED BY <1>1, RowTypes DEF NextAsset, SyncSteps

LEMMA SyncFetch == ASSUME SyncInv, NEW r \in Requests, Fetch(r) PROVE SyncInv'
<1>1. PICK reported \in SUBSET Serials : Syncs(r, NextAsset(r, reported))
  BY DEF Fetch
<1>2. NextAsset(r, reported) \in SyncRows
  BY NextAssetType
<1> QED BY <1>1, <1>2, SyncGoesOn DEF Fetch, Busy, NextAsset, SyncRow

LEMMA SyncFindAsset == ASSUME SyncInv, NEW r \in Requests, FindAsset(r) PROVE SyncInv'
<1> DEFINE row == SyncRow("write", sync[r].attempt, sync[r].left, assetRows[Current(r)] > 0)
<1>1. sync[r].attempt \in 0 .. SyncAttempts /\ sync[r].left \in SUBSET Serials
  BY DEF SyncInv, SyncTypeOK, SyncRows
<1>2. row \in SyncRows
  <2>1. "write" \in SyncSteps /\ (assetRows[Current(r)] > 0) \in BOOLEAN
    BY DEF SyncSteps
  <2> QED BY <1>1, <2>1, RowTypes, Zenon
<1>3. row.at = "write" /\ row.left = sync[r].left /\ row.found = (assetRows[Current(r)] > 0)
  BY DEF SyncRow
<1>4. CASE unlocked
  <2>1. LookedUp(r)' \/ unlocked'
    BY <1>4 DEF FindAsset
  <2>2. SyncTypeOK'
    BY <1>2 DEF FindAsset, Syncs, SyncInv, SyncTypeOK
  <2> QED BY <1>4, <2>2 DEF FindAsset, SyncInv, Alone, OneAssetPerSerial
<1>5. CASE ~unlocked
  <2>1. sync[r].left # {}
    BY <1>5 DEF SyncInv, LookedUp, FindAsset
  <2>2. Current(r) \in Serials
    BY <1>1, <2>1 DEF Current
  <2>3. assetRows[Current(r)] \in Nat
    BY <2>2 DEF SyncInv, SyncTypeOK
  <2>4. ~row.found => assetRows[CHOOSE s \in row.left : TRUE] = 0
    <3>1. ~(assetRows[Current(r)] > 0) => assetRows[Current(r)] = 0
      BY <2>3
    <3> HIDE DEF row
    <3> QED BY <1>3, <3>1, Zenon DEF Current
  <2>5. Syncs(r, row) /\ UNCHANGED <<syncLock, assetRows, lost, unlocked>> /\ Busy(r) /\ sync[r].at # "webhook"
    BY DEF FindAsset, Busy
  <2>6. row.left # {} /\ row.at # "webhook"
    BY <1>3, <2>1
  <2> HIDE DEF row
  <2> QED BY <1>2, <2>4, <2>5, <2>6, SyncGoesOn
<1> QED BY <1>4, <1>5

LEMMA SyncFinishRun == ASSUME SyncInv, NEW r \in Requests, FinishRun(r) PROVE SyncInv'
<1>1. AtStep("release", 0) \in SyncRows
  <2>1. 0 \in 0 .. SyncAttempts /\ "release" \in SyncSteps
    BY SyncAssumption DEF SyncSteps
  <2> QED BY <2>1, RowTypes
<1> QED BY <1>1, SyncGoesOn DEF FinishRun, Busy, AtStep, SyncRow

LEMMA SyncAttemptFails == ASSUME SyncInv, NEW r \in Requests, AttemptFails(r) PROVE SyncInv'
<1>1. sync[r].attempt \in 0 .. SyncAttempts
  BY DEF SyncInv, SyncTypeOK, SyncRows
<1>2. CASE sync[r].attempt < SyncAttempts
  <2>1. sync[r].attempt + 1 \in 0 .. SyncAttempts /\ "validate" \in SyncSteps
    BY <1>1, <1>2, SyncAssumption DEF SyncSteps
  <2>2. AtStep("validate", sync[r].attempt + 1) \in SyncRows
    BY <2>1, RowTypes
  <2> QED BY <1>2, <2>2, SyncGoesOn DEF AttemptFails, AfterFailure, Busy, AtStep, SyncRow
<1>3. CASE ~(sync[r].attempt < SyncAttempts)
  <2>1. 0 \in 0 .. SyncAttempts /\ "release" \in SyncSteps
    BY SyncAssumption DEF SyncSteps
  <2>2. AtStep("release", 0) \in SyncRows
    BY <2>1, RowTypes
  <2> QED BY <1>3, <2>2, SyncGoesOn DEF AttemptFails, AfterFailure, Busy, AtStep, SyncRow
<1> QED BY <1>2, <1>3

LEMMA AtRestType == NoSync \in SyncRows
<1>1. 0 \in 0 .. SyncAttempts /\ "idle" \in SyncSteps
  BY SyncAssumption DEF SyncSteps
<1> QED BY <1>1, RowTypes DEF NoSync

LEMMA SyncReleaseLock == ASSUME SyncInv, NEW r \in Requests, ReleaseLock(r) PROVE SyncInv'
<1>1. LookedUp(r)'
  BY DEF ReleaseLock, LookedUp, Syncs, NoSync, AtStep, SyncRow, SyncInv, SyncTypeOK
<1>2. Alone'
  BY DEF ReleaseLock, SyncInv, SyncTypeOK, Alone, Busy, Syncs, NoSync, AtStep, SyncRow
<1>3. syncLock' \in SUBSET Requests /\ lost' \in 0 .. MaxLost /\ unlocked' \in BOOLEAN
  BY DEF ReleaseLock, SyncInv, SyncTypeOK
<1> QED BY <1>1, <1>2, <1>3, AtRestType, SyncMoves DEF ReleaseLock

LEMMA SyncLoseConnection == ASSUME SyncInv, NEW r \in Requests, LoseConnection(r) PROVE SyncInv'
<1>1. syncLock' \in SUBSET Requests /\ lost' \in 0 .. MaxLost
  BY SyncAssumption DEF LoseConnection, SyncInv, SyncTypeOK
<1>2. CASE unlocked' = TRUE /\ UNCHANGED sync
  <2>1. SyncTypeOK' /\ unlocked'
    BY <1>1, <1>2 DEF LoseConnection, SyncInv, SyncTypeOK
  <2> QED BY <2>1 DEF SyncInv, Alone, OneAssetPerSerial
<1>3. CASE Syncs(r, NoSync) /\ UNCHANGED unlocked
  <2>1. LookedUp(r)'
    BY <1>3 DEF LookedUp, Syncs, NoSync, AtStep, SyncRow, SyncInv, SyncTypeOK
  <2>2. Alone'
    BY <1>3 DEF LoseConnection, SyncInv, SyncTypeOK, Alone, Busy, Syncs, NoSync, AtStep, SyncRow
  <2>3. unlocked' \in BOOLEAN
    BY <1>3 DEF SyncInv, SyncTypeOK
  <2> QED BY <1>1, <1>3, <2>1, <2>2, <2>3, AtRestType, SyncMoves DEF LoseConnection
<1> QED BY <1>2, <1>3 DEF LoseConnection

LEMMA SyncBeginWebhook ==
  ASSUME SyncInv, NEW r \in Requests, NEW s \in Serials, BeginWebhook(r, s)
  PROVE  SyncInv'
<1> DEFINE row == SyncRow("webhook", 0, {s}, assetRows[s] > 0)
<1>1. row \in SyncRows
  <2>1. 0 \in 0 .. SyncAttempts /\ "webhook" \in SyncSteps /\ (assetRows[s] > 0) \in BOOLEAN
    BY SyncAssumption DEF SyncSteps
  <2> QED BY <2>1, RowTypes, Zenon
<1>2. row.at = "webhook" /\ row.left = {s} /\ row.found = (assetRows[s] > 0)
  BY DEF SyncRow
<1>3. ~(assetRows[s] > 0) => assetRows[s] = 0
  BY DEF SyncInv, SyncTypeOK
<1>4. Syncs(r, row)
  BY DEF BeginWebhook
<1> HIDE DEF row
<1>5. sync'[r] = row
  BY <1>4 DEF Syncs, SyncInv, SyncTypeOK
<1>6. LookedUp(r)'
  <2>1. Current(r)' = s
    BY <1>2, <1>5 DEF Current
  <2>2. sync'[r].left # {} /\ (~sync'[r].found => assetRows'[s] = 0)
    BY <1>2, <1>3, <1>5, Zenon DEF BeginWebhook
  <2> QED BY <2>1, <2>2 DEF LookedUp
<1>7. Alone'
  BY <1>2, <1>4 DEF BeginWebhook, SyncInv, SyncTypeOK, Alone, Busy, Syncs
<1>8. syncLock' \in SUBSET Requests /\ lost' \in 0 .. MaxLost /\ unlocked' \in BOOLEAN
  BY DEF BeginWebhook, SyncInv, SyncTypeOK
<1> QED BY <1>1, <1>4, <1>6, <1>7, <1>8, SyncMoves DEF BeginWebhook

\* What is written is what was missing, as long as nobody else is busy.
LEMMA SyncWrites ==
  ASSUME SyncInv, NEW r \in Requests, NEW row \in SyncRows, Syncs(r, row), sync[r].at \in {"write", "webhook"},
         assetRows' = Written(r), UNCHANGED <<syncLock, lost, unlocked>>,
         row.at \in {"idle", "find", "finish"}, row.at = "find" => row.left # {},
         row.at # "idle" => sync[r].at # "webhook"
  PROVE  SyncInv'
<1>1. SyncTypeOK'
  <2>1. assetRows' \in [Serials -> Nat]
    <3> DEFINE s == Current(r)
    <3>1. assetRows' = assetRows \/ assetRows' = [assetRows EXCEPT ![s] = @ + 1]
      BY DEF Written
    <3>2. assetRows \in [Serials -> Nat]
      BY DEF SyncInv, SyncTypeOK
    <3> HIDE DEF s
    <3>3. [assetRows EXCEPT ![s] = @ + 1] = [x \in Serials |-> IF x = s THEN assetRows[x] + 1 ELSE assetRows[x]]
      BY <3>2
    <3> QED BY <3>1, <3>2, <3>3
  <2> QED BY <2>1 DEF SyncInv, SyncTypeOK, Syncs
<1>2. Alone'
  BY DEF SyncInv, SyncTypeOK, Syncs, Alone, Busy
<1>3. OneAssetPerSerial'
  BY DEF SyncInv, SyncTypeOK, LookedUp, Written, OneAssetPerSerial
<1>4. ASSUME ~unlocked', NEW q \in Requests PROVE LookedUp(q)'
  BY <1>4 DEF SyncInv, SyncTypeOK, Alone, Busy, LookedUp, Syncs
<1> QED BY <1>1, <1>2, <1>3, <1>4 DEF SyncInv

LEMMA SyncWriteAsset == ASSUME SyncInv, NEW r \in Requests, WriteAsset(r) PROVE SyncInv'
<1> DEFINE left == sync[r].left \ {Current(r)}
<1>1. left \in SUBSET Serials
  BY DEF SyncInv, SyncTypeOK, SyncRows
<1> HIDE DEF left
<1>2. NextAsset(r, left) \in SyncRows
  BY <1>1, NextAssetType
<1>3. Syncs(r, NextAsset(r, left))
  BY DEF WriteAsset, left
<1> QED BY <1>2, <1>3, SyncWrites DEF WriteAsset, NextAsset, SyncRow

LEMMA SyncEndWebhook == ASSUME SyncInv, NEW r \in Requests, EndWebhook(r) PROVE SyncInv'
BY AtRestType, SyncWrites DEF EndWebhook, NoSync, AtStep, SyncRow

\* While no webhook works beside another request and no sync loses its lock, a
\* serial number has one asset, whatever is started at once, fails and is tried again.
THEOREM OneAssetPerSerialHolds == SyncSpec => []OneAssetPerSerial
<1>1. SyncInit => SyncInv
  BY SyncInitial
<1>2. SyncInv /\ [SyncNext]_syncVars => SyncInv'
  <2> SUFFICES ASSUME SyncInv, [SyncNext]_syncVars PROVE SyncInv'
    OBVIOUS
  <2>1. CASE UNCHANGED syncVars
    BY <2>1 DEF syncVars, SyncInv, SyncTypeOK, Alone, OneAssetPerSerial, LookedUp, Current, Busy
  <2>2. CASE SyncNext
    <3>1. PICK r \in Requests : \/ GetLock(r) \/ SyncStep(r) \/ LoseConnection(r) \/ EndWebhook(r)
                                \/ \E s \in Serials : BeginWebhook(r, s)
      BY <2>2 DEF SyncNext
    <3>2. CASE SyncStep(r)
      BY <3>2, SyncValidate, SyncFetch, SyncFindAsset, SyncWriteAsset, SyncFinishRun, SyncAttemptFails,
         SyncReleaseLock DEF SyncStep
    <3> QED BY <3>1, <3>2, SyncGetLock, SyncLoseConnection, SyncBeginWebhook, SyncEndWebhook
  <2> QED BY <2>1, <2>2
<1>3. SyncInv => OneAssetPerSerial
  BY DEF SyncInv
<1> QED BY <1>1, <1>2, <1>3, PTL DEF SyncSpec

----------------------------------------------------------------------------
(* Migrations.  What a replica has passed is recorded, and what it is about *)
(* to record is in the schema; neither is ever taken back.                  *)

Done(m, s) == s \in executed[m] \/ <<m, s>> \in swallowed
AllDone(m) == \A s \in Statements : Done(m, s)

Passed(p) ==
  LET step == startup[p] IN
  /\ step.at = "down" => step.migration = 1
  /\ step.at \in {"down", "look"} => step.statement = 1
  /\ \A m \in 1 .. step.migration - 1 : m \in applied \cup failures
  /\ step.at \in {"execute", "record", "clear", "recordFailure"} => step.migration \in MigrationIds
  /\ step.at = "execute" => \A s \in 1 .. step.statement - 1 : Done(step.migration, s)
  /\ step.at \in {"record", "clear"} => AllDone(step.migration)
  /\ step.at = "clear" => step.migration \in applied
  /\ step.at = "up" => step.migration = MigrationCount + 1

MigrationsInv ==
  /\ MigrationsTypeOK
  /\ \A m \in applied : AllDone(m)
  /\ \A p \in Replicas : Passed(p)

LEMMA MigrationsInitial == MigrationsInit => MigrationsInv
<1> SUFFICES ASSUME MigrationsInit PROVE MigrationsInv
  OBVIOUS
<1>1. Down \in StartupRows
  BY MigrationAssumption DEF Down, StartupRows, StartupSteps, Statements
<1>2. MigrationsTypeOK
  BY <1>1, MigrationAssumption DEF MigrationsInit, MigrationsTypeOK
<1>3. \A p \in Replicas : Passed(p)
  BY DEF MigrationsInit, Passed, Down
<1> QED BY <1>2, <1>3 DEF MigrationsInit, MigrationsInv

\* A step of one replica that takes back nothing.
LEMMA MigrationsMoves ==
  ASSUME MigrationsInv, NEW p \in Replicas, NEW row \in StartupRows, startup' = [startup EXCEPT ![p] = row],
         applied \subseteq applied', applied' \in SUBSET MigrationIds, failures' \in SUBSET MigrationIds,
         applied \cup failures \subseteq applied' \cup failures',
         executed' \in [MigrationIds -> SUBSET Statements], \A m \in MigrationIds : executed[m] \subseteq executed'[m],
         swallowed \subseteq swallowed', swallowed' \in SUBSET IndexStatements,
         \A m \in applied' : AllDone(m)', migrationFaults' \in 0 .. MaxMigrationFaults,
         Passed(p)'
  PROVE  MigrationsInv'
<1>1. MigrationsTypeOK'
  BY DEF MigrationsInv, MigrationsTypeOK
<1>2. ASSUME NEW q \in Replicas, q # p PROVE Passed(q)'
  <2>1. Passed(q) /\ startup'[q] = startup[q] /\ startup[q] \in StartupRows
    BY <1>2 DEF MigrationsInv, MigrationsTypeOK
  <2>2. \A m \in MigrationIds, s \in Nat : Done(m, s) => Done(m, s)'
    BY DEF Done
  <2>3. \A m \in MigrationIds : AllDone(m) => AllDone(m)'
    BY <2>2, MigrationAssumption DEF AllDone, Statements
  <2>4. startup[q].at = "execute" => \A s \in 1 .. startup[q].statement - 1 : Done(startup[q].migration, s)'
    <3>1. startup[q].statement \in Nat
      BY <2>1, MigrationAssumption DEF StartupRows, Statements
    <3> QED BY <2>1, <2>2, <3>1 DEF Passed
  <2>5. startup[q].at \in {"record", "clear"} => AllDone(startup[q].migration)'
    BY <2>1, <2>3 DEF Passed
  <2> QED BY <2>1, <2>4, <2>5 DEF Passed
<1> QED BY <1>1, <1>2 DEF MigrationsInv

\* Steps that write neither the schema nor the tables.
LEMMA MigrationsGoesOn ==
  ASSUME MigrationsInv, NEW p \in Replicas, NEW row \in StartupRows, startup' = [startup EXCEPT ![p] = row],
         UNCHANGED <<applied, failures, executed, swallowed>>, migrationFaults' \in 0 .. MaxMigrationFaults, Passed(p)'
  PROVE  MigrationsInv'
<1>1. applied' \in SUBSET MigrationIds /\ failures' \in SUBSET MigrationIds /\ executed' \in [MigrationIds -> SUBSET Statements]
  BY DEF MigrationsInv, MigrationsTypeOK
<1>2. \A m \in applied' : AllDone(m)'
  BY DEF MigrationsInv, AllDone, Done
<1> QED BY <1>1, <1>2, MigrationsMoves DEF MigrationsInv, MigrationsTypeOK

LEMMA MigrationsStartReplica ==
  ASSUME MigrationsInv, NEW p \in Replicas, StartReplica(p)
  PROVE  MigrationsInv'
<1>1. [startup[p] EXCEPT !.at = "look"] \in StartupRows /\ migrationFaults' \in 0 .. MaxMigrationFaults
  BY DEF StartReplica, MigrationsInv, MigrationsTypeOK, StartupRows, StartupSteps
<1>2. Passed(p)'
  BY DEF StartReplica, At, Starts, MigrationsInv, MigrationsTypeOK, Passed, StartupRows
<1> QED BY <1>1, <1>2, MigrationsGoesOn DEF StartReplica, Starts

\* The next migration, once this one is recorded one way or the other.
LEMMA MigrationsNextRow ==
  ASSUME MigrationsInv, NEW p \in Replicas, NextMigration(p), startup[p].migration \in MigrationIds,
         startup[p].migration \in applied' \cup failures', applied \cup failures \subseteq applied' \cup failures'
  PROVE  /\ [at |-> "look", migration |-> startup[p].migration + 1, statement |-> 1] \in StartupRows
         /\ Passed(p)'
<1>1. startup[p].migration + 1 \in 1 .. MigrationCount + 1 /\ 1 \in Statements /\ "look" \in StartupSteps
  BY MigrationAssumption DEF MigrationIds, Statements, StartupSteps
<1>2. startup'[p] = [at |-> "look", migration |-> startup[p].migration + 1, statement |-> 1]
  BY DEF NextMigration, MigrationsInv, MigrationsTypeOK
<1>3. \A m \in 1 .. startup[p].migration - 1 : m \in applied \cup failures
  BY DEF MigrationsInv, Passed
<1>4. \A m \in 1 .. (startup[p].migration + 1) - 1 : m \in applied' \cup failures'
  BY <1>3 DEF MigrationIds
<1>5. Passed(p)'
  BY <1>2, <1>4 DEF Passed
<1> QED BY <1>1, <1>5 DEF StartupRows

LEMMA MigrationsLookUp == ASSUME MigrationsInv, NEW p \in Replicas, LookUp(p) PROVE MigrationsInv'
<1>1. migrationFaults' \in 0 .. MaxMigrationFaults
  BY DEF LookUp, MigrationsInv, MigrationsTypeOK
<1>2. startup[p] \in StartupRows
  BY DEF MigrationsInv, MigrationsTypeOK
<1>3. CASE startup[p].migration > MigrationCount
  <2>1. [startup[p] EXCEPT !.at = "up"] \in StartupRows
    BY <1>2 DEF StartupRows, StartupSteps
  <2>2. startup' = [startup EXCEPT ![p] = [startup[p] EXCEPT !.at = "up"]]
    BY <1>3 DEF LookUp, Starts
  <2>3. Passed(p)'
    BY <1>2, <1>3, <2>2, MigrationAssumption DEF LookUp, MigrationsInv, MigrationsTypeOK, Passed, StartupRows
  <2> QED BY <1>1, <2>1, <2>2, <2>3, MigrationsGoesOn DEF LookUp
<1>4. CASE ~(startup[p].migration > MigrationCount) /\ startup[p].migration \in applied
  <2>1. startup[p].migration \in MigrationIds /\ NextMigration(p)
    BY <1>4 DEF LookUp, MigrationsInv, MigrationsTypeOK
  <2> QED BY <1>1, <1>4, <2>1, MigrationsNextRow, MigrationsGoesOn DEF LookUp, NextMigration
<1>5. CASE ~(startup[p].migration > MigrationCount) /\ startup[p].migration \notin applied
  <2>1. [startup[p] EXCEPT !.at = "execute"] \in StartupRows
    BY <1>2 DEF StartupRows, StartupSteps
  <2>2. startup' = [startup EXCEPT ![p] = [startup[p] EXCEPT !.at = "execute"]]
    BY <1>5 DEF LookUp, Starts
  <2>3. startup[p].migration \in MigrationIds
    BY <1>2, <1>5, MigrationAssumption DEF StartupRows, MigrationIds
  <2>4. Passed(p)'
    BY <1>2, <2>2, <2>3 DEF LookUp, At, MigrationsInv, MigrationsTypeOK, Passed, StartupRows
  <2> QED BY <1>1, <2>1, <2>2, <2>4, MigrationsGoesOn DEF LookUp
<1> QED BY <1>3, <1>4, <1>5

\* What a statement does to the schema and to the tables takes nothing back.
Grows ==
  /\ applied \subseteq applied' /\ applied' \in SUBSET MigrationIds /\ failures' \in SUBSET MigrationIds
  /\ applied \cup failures \subseteq applied' \cup failures'
  /\ executed' \in [MigrationIds -> SUBSET Statements] /\ \A m \in MigrationIds : executed[m] \subseteq executed'[m]
  /\ swallowed \subseteq swallowed' /\ swallowed' \in SUBSET IndexStatements
  /\ \A m \in applied' : AllDone(m)'

LEMMA MigrationsUnchanged ==
  ASSUME MigrationsInv, UNCHANGED <<applied, failures, executed, swallowed>>
  PROVE  Grows
BY DEF MigrationsInv, MigrationsTypeOK, Grows, AllDone, Done

LEMMA MigrationsExecutes ==
  ASSUME MigrationsInv, NEW p \in Replicas, startup[p].migration \in MigrationIds, Executes(p), UNCHANGED swallowed
  PROVE  Grows /\ startup[p].statement \in executed'[startup[p].migration]
<1>1. startup[p].statement \in Statements
  BY DEF MigrationsInv, MigrationsTypeOK, StartupRows
<1>2. /\ executed' \in [MigrationIds -> SUBSET Statements] /\ \A m \in MigrationIds : executed[m] \subseteq executed'[m]
      /\ startup[p].statement \in executed'[startup[p].migration]
  BY <1>1 DEF Executes, MigrationsInv, MigrationsTypeOK
<1>3. \A m \in applied' : AllDone(m)'
  BY <1>2 DEF Executes, MigrationsInv, MigrationsTypeOK, AllDone, Done
<1> QED BY <1>2, <1>3 DEF Executes, MigrationsInv, MigrationsTypeOK, Grows

LEMMA MigrationsSwallows ==
  ASSUME MigrationsInv, NEW pair \in IndexStatements, swallowed' = swallowed \cup {pair},
         UNCHANGED <<applied, failures, executed>>
  PROVE  Grows
<1>1. \A m \in applied' : AllDone(m)'
  BY DEF MigrationsInv, AllDone, Done
<1> QED BY <1>1 DEF MigrationsInv, MigrationsTypeOK, Grows

LEMMA MigrationsRecords ==
  ASSUME MigrationsInv, NEW p \in Replicas, startup[p].at = "record", Records(p), UNCHANGED swallowed
  PROVE  Grows
<1>1. startup[p].migration \in MigrationIds /\ AllDone(startup[p].migration)
  BY DEF MigrationsInv, Passed
<1>2. \A m \in applied' : AllDone(m)'
  BY <1>1 DEF Records, MigrationsInv, AllDone, Done
<1> QED BY <1>1, <1>2 DEF Records, MigrationsInv, MigrationsTypeOK, Grows

LEMMA MigrationsClears ==
  ASSUME MigrationsInv, NEW p \in Replicas, startup[p].at = "clear", Clears(p), UNCHANGED swallowed
  PROVE  Grows
<1>1. startup[p].migration \in applied
  BY DEF MigrationsInv, Passed
<1>2. \A m \in applied' : AllDone(m)'
  BY DEF Clears, MigrationsInv, AllDone, Done
<1> QED BY <1>1, <1>2 DEF Clears, MigrationsInv, MigrationsTypeOK, Grows

LEMMA MigrationsRecordsFailure ==
  ASSUME MigrationsInv, NEW p \in Replicas, startup[p].at = "recordFailure", RecordsFailure(p), UNCHANGED swallowed
  PROVE  Grows
<1>1. startup[p].migration \in MigrationIds
  BY DEF MigrationsInv, Passed
<1>2. \A m \in applied' : AllDone(m)'
  BY DEF RecordsFailure, MigrationsInv, AllDone, Done
<1> QED BY <1>1, <1>2 DEF RecordsFailure, MigrationsInv, MigrationsTypeOK, Grows

LEMMA MigrationsFails ==
  ASSUME MigrationsInv, NEW p \in Replicas, Fails(p)
  PROVE  Grows /\ migrationFaults' \in 0 .. MaxMigrationFaults
<1>1. migrationFaults' \in 0 .. MaxMigrationFaults
  BY MigrationAssumption DEF Fails, Faulty, MigrationsInv, MigrationsTypeOK
<1>2. startup[p].at = "execute" => startup[p].migration \in MigrationIds
  BY DEF MigrationsInv, Passed
<1> QED BY <1>1, <1>2, MigrationsUnchanged, MigrationsExecutes, MigrationsRecords, MigrationsClears,
        MigrationsRecordsFailure DEF Fails, At

LEMMA MigrationsExecute == ASSUME MigrationsInv, NEW p \in Replicas, Execute(p) PROVE MigrationsInv'
<1> DEFINE step == startup[p]
<1>1. step \in StartupRows /\ step.migration \in MigrationIds /\ step.at = "execute" /\ Passed(p)
  BY DEF Execute, At, MigrationsInv, MigrationsTypeOK, Passed
<1>2. PICK m \in MigrationIds, s \in Statements : step.migration = m /\ step.statement = s
  BY <1>1 DEF StartupRows
<1>3. Grows /\ Done(m, s)'
  <2>1. CASE Executes(p) /\ UNCHANGED swallowed
    BY <1>2, <2>1, MigrationsExecutes DEF Done
  <2>2. CASE <<m, s>> \in IndexStatements /\ swallowed' = swallowed \cup {<<m, s>>} /\ UNCHANGED <<applied, failures, executed>>
    BY <2>2, MigrationsSwallows DEF Done
  <2> QED BY <1>2, <2>1, <2>2 DEF Execute
<1>4. \A n \in 1 .. s - 1 : Done(m, n)'
  <2>1. \A n \in 1 .. s - 1 : Done(m, n)
    BY <1>1, <1>2 DEF Passed
  <2> QED BY <1>3, <2>1 DEF Grows, Done
<1>5. \A n \in 1 .. s : Done(m, n)'
  <2> SUFFICES ASSUME NEW n \in 1 .. s PROVE Done(m, n)'
    OBVIOUS
  <2>1. n = s \/ n \in 1 .. s - 1
    BY DEF Statements
  <2> QED BY <1>3, <1>4, <2>1
<1>6. \A n \in 1 .. m - 1 : n \in applied' \cup failures'
  BY <1>1, <1>2, <1>3 DEF Passed, Grows
<1>7. migrationFaults' \in 0 .. MaxMigrationFaults /\ startup \in [Replicas -> StartupRows]
  BY DEF Execute, MigrationsInv, MigrationsTypeOK
<1>8. CASE s = StatementCount
  <2> DEFINE row == [step EXCEPT !.at = "record"]
  <2>1. startup' = [startup EXCEPT ![p] = row] /\ row \in StartupRows
    BY <1>1, <1>2, <1>8 DEF Execute, LastStatement, Starts, StartupRows, StartupSteps
  <2>2. startup'[p].at = "record" /\ startup'[p].migration = m
    BY <1>2, <1>7, <2>1 DEF StartupRows
  <2>3. AllDone(m)'
    BY <1>5, <1>8 DEF AllDone, Statements
  <2>4. Passed(p)'
    BY <1>6, <2>2, <2>3 DEF Passed
  <2> HIDE DEF row
  <2> QED BY <1>3, <1>7, <2>1, <2>4, MigrationsMoves DEF Grows
<1>9. CASE s # StatementCount
  <2> DEFINE row == [step EXCEPT !.statement = s + 1]
  <2>1. s + 1 \in Statements
    BY <1>9, MigrationAssumption DEF Statements
  <2>2. startup' = [startup EXCEPT ![p] = row] /\ row \in StartupRows
    BY <1>1, <1>2, <1>9, <2>1 DEF Execute, LastStatement, StartupRows
  <2>3. startup'[p].at = "execute" /\ startup'[p].migration = m /\ startup'[p].statement = s + 1
    BY <1>1, <1>2, <1>7, <2>2 DEF StartupRows
  <2>4. 1 .. (s + 1) - 1 = 1 .. s
    BY DEF Statements
  <2>5. Passed(p)'
    BY <1>5, <1>6, <2>3, <2>4 DEF Passed
  <2> HIDE DEF row
  <2> QED BY <1>3, <1>7, <2>2, <2>5, MigrationsMoves DEF Grows
<1> QED BY <1>8, <1>9

LEMMA MigrationsRecordApplied ==
  ASSUME MigrationsInv, NEW p \in Replicas, RecordApplied(p)
  PROVE  MigrationsInv'
<1> DEFINE row == [startup[p] EXCEPT !.at = "clear"]
<1>1. PICK m \in MigrationIds : startup[p].migration = m /\ AllDone(m)
  BY DEF RecordApplied, At, MigrationsInv, MigrationsTypeOK, Passed
<1>2. Grows /\ m \in applied' /\ migrationFaults' \in 0 .. MaxMigrationFaults /\ startup \in [Replicas -> StartupRows]
  BY <1>1, MigrationsRecords DEF RecordApplied, At, Records, MigrationsInv, MigrationsTypeOK
<1>3. row \in StartupRows /\ startup' = [startup EXCEPT ![p] = row]
  BY <1>2 DEF RecordApplied, Starts, StartupRows, StartupSteps
<1>4. startup'[p].at = "clear" /\ startup'[p].migration = m
  BY <1>1, <1>2, <1>3 DEF StartupRows
<1>5. \A n \in 1 .. m - 1 : n \in applied' \cup failures'
  BY <1>1, <1>2 DEF MigrationsInv, Passed, Grows
<1>6. Passed(p)'
  BY <1>2, <1>4, <1>5 DEF Passed, Grows
<1> HIDE DEF row
<1> QED BY <1>2, <1>3, <1>6, MigrationsMoves DEF Grows

LEMMA MigrationsClearFailure ==
  ASSUME MigrationsInv, NEW p \in Replicas, ClearFailure(p)
  PROVE  MigrationsInv'
<1>1. startup[p].migration \in MigrationIds /\ startup[p].migration \in applied'
  BY DEF ClearFailure, Clears, At, MigrationsInv, Passed
<1>2. Grows
  BY MigrationsClears DEF ClearFailure, At
<1> QED BY <1>1, <1>2, MigrationsNextRow, MigrationsMoves DEF ClearFailure, NextMigration, Grows, MigrationsInv,
           MigrationsTypeOK

LEMMA MigrationsRecordFailure ==
  ASSUME MigrationsInv, NEW p \in Replicas, RecordFailure(p)
  PROVE  MigrationsInv'
<1>1. startup[p].migration \in MigrationIds /\ startup[p].migration \in failures'
  BY DEF RecordFailure, RecordsFailure, At, MigrationsInv, MigrationsTypeOK, Passed
<1>2. Grows
  BY MigrationsRecordsFailure DEF RecordFailure, At
<1> QED BY <1>1, <1>2, MigrationsNextRow, MigrationsMoves DEF RecordFailure, NextMigration, Grows, MigrationsInv,
           MigrationsTypeOK

\* What fails goes on to the record of the failure, or gives up the start.
LEMMA MigrationsGivesUp ==
  ASSUME MigrationsInv, NEW p \in Replicas, NEW at \in {"recordFailure", "incomplete"}, Fails(p), Starts(p, at),
         at = "recordFailure" => startup[p].migration \in MigrationIds, startup[p].at # "down"
  PROVE  MigrationsInv'
<1> DEFINE row == [startup[p] EXCEPT !.at = at]
<1>1. Grows /\ migrationFaults' \in 0 .. MaxMigrationFaults
  BY MigrationsFails
<1>2. startup \in [Replicas -> StartupRows]
  BY DEF MigrationsInv, MigrationsTypeOK
<1>3. row \in StartupRows /\ startup' = [startup EXCEPT ![p] = row]
  BY <1>2 DEF Starts, StartupRows, StartupSteps
<1>4. startup'[p].at = at /\ startup'[p].migration = startup[p].migration
  BY <1>2, <1>3 DEF StartupRows
<1>5. \A n \in 1 .. startup[p].migration - 1 : n \in applied' \cup failures'
  BY <1>1 DEF MigrationsInv, Passed, Grows
<1>6. Passed(p)'
  BY <1>4, <1>5 DEF Passed
<1> HIDE DEF row
<1> QED BY <1>1, <1>3, <1>6, MigrationsMoves DEF Grows

LEMMA MigrationsFailures ==
  ASSUME MigrationsInv, NEW p \in Replicas, StatementFails(p) \/ StartupFails(p)
  PROVE  MigrationsInv'
<1>1. startup[p].at \in {"execute", "record", "clear"} => startup[p].migration \in MigrationIds
  BY DEF MigrationsInv, Passed
<1>2. CASE StatementFails(p)
  BY <1>1, <1>2, MigrationsGivesUp DEF StatementFails
<1>3. CASE StartupFails(p)
  BY <1>3, MigrationsGivesUp DEF StartupFails
<1> QED BY <1>2, <1>3

LEMMA MigrationsStopReplica ==
  ASSUME MigrationsInv, NEW p \in Replicas, StopReplica(p)
  PROVE  MigrationsInv'
<1>1. Down \in StartupRows
  BY MigrationAssumption DEF Down, StartupRows, StartupSteps, Statements
<1>2. Passed(p)'
  BY DEF StopReplica, MigrationsInv, MigrationsTypeOK, Passed, Down
<1>3. migrationFaults' \in 0 .. MaxMigrationFaults
  BY MigrationAssumption DEF StopReplica, Faulty, MigrationsInv, MigrationsTypeOK
<1> QED BY <1>1, <1>2, <1>3, MigrationsGoesOn DEF StopReplica

\* Whichever replicas start at once, fail and stop between statements, a recorded
\* migration is in the schema but for indexes whose error was swallowed, a replica
\* that is up has every one recorded, and one that gave up those before it gave up.
THEOREM MigrationsAreAccounted == MigrationsSpec => []MigrationsAccounted
<1>1. MigrationsInv /\ [MigrationsNext]_migrationVars => MigrationsInv'
  <2> SUFFICES ASSUME MigrationsInv, [MigrationsNext]_migrationVars PROVE MigrationsInv'
    OBVIOUS
  <2>1. CASE UNCHANGED migrationVars
    BY <2>1 DEF migrationVars, MigrationsInv, MigrationsTypeOK, Passed, AllDone, Done
  <2>2. CASE MigrationsNext
    BY <2>2, MigrationsStartReplica, MigrationsLookUp, MigrationsExecute, MigrationsRecordApplied,
       MigrationsClearFailure, MigrationsFailures, MigrationsRecordFailure, MigrationsStopReplica
       DEF MigrationsNext
  <2> QED BY <2>1, <2>2
<1>2. MigrationsInv => MigrationsAccounted
  <2> SUFFICES ASSUME MigrationsInv PROVE MigrationsAccounted
    OBVIOUS
  <2>1. \A m \in applied : Missing(m) = {}
    BY DEF MigrationsInv, AllDone, Done, Missing
  <2>2. ASSUME NEW p \in Replicas
        PROVE  /\ At(p, "up") => MigrationIds \subseteq applied \cup failures
               /\ At(p, "incomplete") => 1 .. startup[p].migration - 1 \subseteq applied \cup failures
    <3>1. Passed(p)
      BY DEF MigrationsInv
    <3> QED BY <3>1, MigrationAssumption DEF Passed, At, MigrationIds
  <2> QED BY <2>1, <2>2 DEF MigrationsAccounted
<1> QED BY <1>1, <1>2, MigrationsInitial, PTL DEF MigrationsSpec

----------------------------------------------------------------------------
(* Device actions.                                                          *)

\* What is decided about needs an approval, and what runs has one.
Decides(r) ==
  acting[r].at \in {"approve", "reject"} =>
    /\ netAction.status # "absent" /\ netAction.approval # "NOT_REQUIRED"
    /\ acting[r].by \in Admins /\ acting[r].by # netAction.requestedBy

MayRun == netAction.status # "absent" /\ (netAction.approval = "NOT_REQUIRED" \/ actionApprovers # {})

ApprovalInv ==
  /\ \A a \in actionApprovers : a # netAction.requestedBy
  /\ netAction.approval = "APPROVED" => actionApprovers # {}
  /\ netAction.status = "absent" => actionApprovers = {}
  /\ \A r \in Requests : Decides(r) /\ (acting[r].at \in {"call", "finish"} => MayRun)
  /\ vendorCalls > 0 => MayRun

\* A call that was made belongs to an execution that stopped, one that is about
\* to write its outcome, or the outcome in the row; a request that read the row
\* as it is knows its status.
Finishing == {r \in Requests : acting[r].at = "finish"}
Concluded == IF netAction.status \in {"COMPLETED", "FAILED"} THEN 1 ELSE 0
Knows(r) ==
  acting[r].fresh =>
    /\ acting[r].at \in {"call", "finish"} => netAction.status = "QUEUED" /\ netAction.approval # "PENDING"
    /\ acting[r].at \in {"approve", "reject"} => netAction.status = "PENDING_APPROVAL"

CallsInv ==
  ~actionOutdated =>
    /\ vendorCalls <= stopped + Cardinality(Finishing) + Concluded
    /\ netAction.approval = "PENDING" => netAction.status = "PENDING_APPROVAL"
    /\ \A r \in Requests : Knows(r)

ActionInv == ActionTypeOK /\ ApprovalInv /\ CallsInv

\* The numbers of requests at a step.
LEMMA RequestSets ==
  ASSUME NEW S \in SUBSET Requests, NEW r \in Requests
  PROVE  /\ Cardinality(S) \in Nat
         /\ r \notin S => Cardinality(S \cup {r}) = Cardinality(S) + 1
         /\ r \in S => Cardinality(S \ {r}) = Cardinality(S) - 1
BY PeopleAssumption, FS_Subset, FS_CardinalityType, FS_AddElement, FS_RemoveElement

LEMMA ActionInitial == ActionInit => ActionInv
<1> SUFFICES ASSUME ActionInit PROVE ActionInv
  OBVIOUS
<1>1. ActionTypeOK
  <2>1. 0 \in 0 .. MaxCalls /\ 0 \in 0 .. MaxStopped
    BY ActionAssumption
  <2>2. netAction \in ActionRows
    BY DEF ActionInit, ActionRows
  <2>3. acting \in [Requests -> [at : ActionSteps, by : Admins \cup {NoAdmin}, fresh : BOOLEAN]]
    BY DEF ActionInit, NotActing, ActionSteps
  <2> QED BY <2>1, <2>2, <2>3 DEF ActionInit, ActionTypeOK
<1>2. ApprovalInv
  BY DEF ActionInit, ApprovalInv, Decides, NotActing
<1>3. CallsInv
  <2>1. Finishing = {}
    BY DEF ActionInit, Finishing, NotActing
  <2> QED BY <2>1, FS_EmptySet DEF ActionInit, CallsInv, Knows, NotActing, Concluded
<1> QED BY <1>1, <1>2, <1>3 DEF ActionInv

LEMMA ActionQueue ==
  ASSUME ActionInv, NEW a \in Admins, NEW required \in BOOLEAN, QueueDeviceAction(a, required)
  PROVE  ActionInv'
<1>1. ActionTypeOK'
  BY DEF QueueDeviceAction, ActionInv, ActionTypeOK, ActionRows
<1>2. ApprovalInv'
  BY DEF QueueDeviceAction, ActionInv, ActionTypeOK, ApprovalInv, Decides, MayRun
<1>3. CallsInv'
  <2>1. Finishing' = Finishing /\ Concluded' = 0 /\ Concluded = 0
    BY DEF QueueDeviceAction, Finishing, Concluded
  <2> QED BY <2>1 DEF QueueDeviceAction, ActionInv, CallsInv, Knows, ApprovalInv, Decides, MayRun
<1> QED BY <1>1, <1>2, <1>3 DEF ActionInv

LEMMA ActionBeginDecide ==
  ASSUME ActionInv, NEW r \in Requests, NEW a \in Admins, NEW decision \in {"approve", "reject"},
         BeginDecide(r, a, decision)
  PROVE  ActionInv'
<1>1. ActionTypeOK'
  BY DEF BeginDecide, ActionInv, ActionTypeOK, ActionSteps
<1>2. ApprovalInv'
  BY DEF BeginDecide, MayDecide, ActionInv, ActionTypeOK, ApprovalInv, Decides, MayRun
<1>3. CallsInv'
  <2>1. Finishing' = Finishing /\ Concluded' = Concluded
    BY DEF BeginDecide, ActionInv, ActionTypeOK, Finishing, Concluded
  <2> QED BY <2>1 DEF BeginDecide, MayDecide, ActionInv, ActionTypeOK, CallsInv, Knows
<1> QED BY <1>1, <1>2, <1>3 DEF ActionInv

\* After a write the requests are where they were, and know that it happened.
LEMMA ActionWritten ==
  ASSUME ActionTypeOK, NEW r \in Requests, NEW row \in ActionRows, WriteAction(r, row)
  PROVE  /\ netAction' \in ActionRows /\ actionOutdated' \in BOOLEAN
         /\ acting' \in [Requests -> [at : ActionSteps, by : Admins \cup {NoAdmin}, fresh : BOOLEAN]]
         /\ acting'[r] = NotActing
         /\ \A q \in Requests : q # r =>
              /\ acting'[q].at = acting[q].at /\ acting'[q].by = acting[q].by
              /\ acting'[q].fresh => acting[q].at = "idle"
         /\ ~actionOutdated' => ~actionOutdated /\ acting[r].fresh
<1>1. NotActing \in [at : ActionSteps, by : Admins \cup {NoAdmin}, fresh : BOOLEAN]
  BY DEF NotActing, ActionSteps
<1>2. \A q \in Requests : Outdated(acting)[q] \in [at : ActionSteps, by : Admins \cup {NoAdmin}, fresh : BOOLEAN]
  BY DEF ActionTypeOK, Outdated
<1> QED BY <1>1, <1>2 DEF WriteAction, Overwritten, Outdated, ActionTypeOK

LEMMA ActionWriteDecision == ASSUME ActionInv, NEW r \in Requests, WriteDecision(r) PROVE ActionInv'
<1>1. ActionTypeOK /\ netAction \in ActionRows
  BY DEF ActionInv, ActionTypeOK
<1>2. PICK row \in ActionRows :
        /\ WriteAction(r, row)
        /\ row.requestedBy = netAction.requestedBy
        /\ \/ /\ acting[r].at = "approve" /\ row.approval = "APPROVED" /\ row.status = "QUEUED"
              /\ actionApprovers' = actionApprovers \cup {acting[r].by}
           \/ /\ acting[r].at = "reject" /\ row.approval = "REJECTED" /\ row.status = "REJECTED"
              /\ UNCHANGED actionApprovers
  <2>1. CASE acting[r].at = "approve"
    <3>1. [netAction EXCEPT !.approval = "APPROVED", !.status = "QUEUED"] \in ActionRows
      BY <1>1 DEF ActionRows
    <3> QED BY <1>1, <2>1, <3>1 DEF WriteDecision, ActionRows
  <2>2. CASE acting[r].at = "reject"
    <3>1. [netAction EXCEPT !.approval = "REJECTED", !.status = "REJECTED"] \in ActionRows
      BY <1>1 DEF ActionRows
    <3> QED BY <1>1, <2>2, <3>1 DEF WriteDecision, ActionRows
  <2> QED BY <2>1, <2>2 DEF WriteDecision
<1>3. netAction' = row
  BY <1>2 DEF WriteAction
<1>4. Decides(r) /\ acting[r].at \in {"approve", "reject"}
  BY <1>2 DEF ActionInv, ApprovalInv
<1>5. actionApprovers \subseteq actionApprovers' /\ actionApprovers' \in SUBSET Admins
  BY <1>2, <1>4 DEF Decides, ActionInv, ActionTypeOK
<1>6. ActionTypeOK'
  BY <1>1, <1>2, <1>5, ActionWritten DEF WriteDecision, ActionTypeOK
<1>7. MayRun => MayRun'
  BY <1>2, <1>3, <1>4, <1>5 DEF MayRun, Decides
<1>8. ApprovalInv'
  <2>1. ASSUME NEW q \in Requests
        PROVE  Decides(q)' /\ (acting'[q].at \in {"call", "finish"} => MayRun')
    <3>1. CASE q = r
      BY <1>1, <1>2, <3>1, ActionWritten DEF Decides, NotActing
    <3>2. CASE q # r
      <4>1. acting'[q].at = acting[q].at /\ acting'[q].by = acting[q].by
        BY <1>1, <1>2, <3>2, ActionWritten
      <4> QED BY <1>2, <1>3, <1>7, <4>1 DEF ActionInv, ApprovalInv, Decides
    <3> QED BY <3>1, <3>2
  <2>2. vendorCalls' > 0 => MayRun'
    BY <1>7 DEF WriteDecision, ActionInv, ApprovalInv
  <2> QED BY <1>2, <1>3, <1>4, <2>1, <2>2 DEF ActionInv, ApprovalInv, Decides
<1>9. CallsInv'
  <2> SUFFICES ASSUME ~actionOutdated' PROVE CallsInv'
    BY DEF CallsInv
  <2>1. ~actionOutdated /\ acting[r].fresh
    BY <1>1, <1>2, ActionWritten
  <2>2. Finishing' = Finishing
    BY <1>1, <1>2, ActionWritten DEF Finishing, NotActing
  <2>3. Concluded = 0 /\ Concluded' = 0
    BY <1>2, <1>3, <2>1 DEF Concluded, ActionInv, CallsInv, Knows
  <2>4. \A q \in Requests : Knows(q)'
    BY <1>1, <1>2, ActionWritten DEF Knows, NotActing
  <2> QED BY <1>2, <1>3, <2>1, <2>2, <2>3, <2>4 DEF CallsInv, WriteDecision, ActionInv
<1> QED BY <1>6, <1>8, <1>9 DEF ActionInv

LEMMA ActionBeginExecute == ASSUME ActionInv, NEW r \in Requests, BeginExecute(r) PROVE ActionInv'
<1> DEFINE row == [at |-> "call", by |-> NoAdmin, fresh |-> TRUE]
<1>1. acting' = [acting EXCEPT ![r] = row]
  BY DEF BeginExecute
<1>2. ActionTypeOK'
  BY <1>1 DEF BeginExecute, ActionInv, ActionTypeOK, ActionSteps
<1>3. MayRun
  BY DEF BeginExecute, Executable, MayRun, ActionInv, ActionTypeOK, ActionRows, ApprovalInv
<1>4. ApprovalInv'
  BY <1>1, <1>3 DEF BeginExecute, ActionInv, ActionTypeOK, ApprovalInv, Decides, MayRun
<1>5. CallsInv'
  <2>1. Finishing' = Finishing /\ Concluded' = Concluded
    BY <1>1 DEF BeginExecute, ActionInv, ActionTypeOK, Finishing, Concluded
  <2> QED BY <1>1, <2>1 DEF BeginExecute, Executable, ActionInv, ActionTypeOK, CallsInv, Knows
<1> QED BY <1>2, <1>4, <1>5 DEF ActionInv

LEMMA ActionCallVendor == ASSUME ActionInv, NEW r \in Requests, CallVendor(r) PROVE ActionInv'
<1>1. ActionTypeOK'
  BY ActionAssumption DEF CallVendor, ActionInv, ActionTypeOK, ActionSteps
<1>2. ApprovalInv'
  BY DEF CallVendor, ActionInv, ActionTypeOK, ApprovalInv, Decides, MayRun
<1>3. CallsInv'
  <2>1. Finishing' = Finishing \cup {r} /\ r \notin Finishing /\ Finishing \in SUBSET Requests
    BY DEF CallVendor, ActionInv, ActionTypeOK, Finishing
  <2>2. Cardinality(Finishing') = Cardinality(Finishing) + 1 /\ Cardinality(Finishing) \in Nat
    BY <2>1, RequestSets
  <2>3. Concluded' = Concluded
    BY DEF CallVendor, Concluded
  <2>4. vendorCalls' <= vendorCalls + 1
    BY DEF CallVendor, ActionInv, ActionTypeOK
  <2>5. \A q \in Requests : Knows(q) => Knows(q)'
    BY DEF CallVendor, ActionInv, ActionTypeOK, Knows
  <2>6. stopped \in Nat /\ vendorCalls \in Nat /\ vendorCalls' \in Nat /\ Concluded \in Nat
    BY ActionAssumption DEF CallVendor, ActionInv, ActionTypeOK, Concluded
  <2>7. ~actionOutdated => vendorCalls' <= stopped + Cardinality(Finishing') + Concluded
    BY <2>2, <2>4, <2>6 DEF ActionInv, CallsInv
  <2> QED BY <2>3, <2>5, <2>7 DEF CallVendor, ActionInv, CallsInv
<1> QED BY <1>1, <1>2, <1>3 DEF ActionInv

LEMMA ActionFinish == ASSUME ActionInv, NEW r \in Requests, FinishAction(r) PROVE ActionInv'
<1>1. ActionTypeOK /\ netAction \in ActionRows
  BY DEF ActionInv, ActionTypeOK
<1>2. PICK outcome \in {"COMPLETED", "FAILED"} : WriteAction(r, [netAction EXCEPT !.status = outcome])
  BY DEF FinishAction
<1>3. [netAction EXCEPT !.status = outcome] \in ActionRows
  BY <1>1 DEF ActionRows
<1>4. netAction' = [netAction EXCEPT !.status = outcome]
  BY <1>2 DEF WriteAction
<1>5. ActionTypeOK'
  BY <1>1, <1>2, <1>3, ActionWritten DEF FinishAction, ActionTypeOK
<1>6. MayRun /\ MayRun'
  BY <1>1, <1>4 DEF FinishAction, ActionInv, ApprovalInv, MayRun, ActionRows
<1>7. ApprovalInv'
  <2>1. ASSUME NEW q \in Requests PROVE Decides(q)'
    <3>1. CASE q = r
      BY <1>1, <1>2, <1>3, <3>1, ActionWritten DEF Decides, NotActing
    <3>2. CASE q # r
      <4>1. acting'[q].at = acting[q].at /\ acting'[q].by = acting[q].by
        BY <1>1, <1>2, <1>3, <3>2, ActionWritten
      <4> QED BY <1>1, <1>4, <4>1 DEF ActionInv, ApprovalInv, Decides, ActionRows
    <3> QED BY <3>1, <3>2
  <2> QED BY <1>1, <1>4, <1>6, <2>1 DEF FinishAction, ActionInv, ApprovalInv, ActionRows
<1>8. CallsInv'
  <2> SUFFICES ASSUME ~actionOutdated' PROVE CallsInv'
    BY DEF CallsInv
  <2>1. ~actionOutdated /\ acting[r].fresh
    BY <1>1, <1>2, <1>3, ActionWritten
  <2>2. Finishing' = Finishing \ {r}
    BY <1>1, <1>2, <1>3, ActionWritten DEF Finishing, NotActing
  <2>3. r \in Finishing /\ Finishing \in SUBSET Requests
    BY DEF FinishAction, Finishing
  <2>4. Cardinality(Finishing') = Cardinality(Finishing) - 1 /\ Cardinality(Finishing) \in Nat
    BY <2>2, <2>3, RequestSets
  <2>5. Concluded = 0 /\ Concluded' = 1
    BY <1>1, <1>4, <2>1 DEF FinishAction, Concluded, ActionInv, CallsInv, Knows, ActionRows
  <2>6. stopped \in Nat /\ vendorCalls \in Nat
    BY ActionAssumption DEF ActionInv, ActionTypeOK
  <2>7. vendorCalls' <= stopped' + Cardinality(Finishing') + Concluded'
    BY <2>1, <2>4, <2>5, <2>6 DEF FinishAction, ActionInv, CallsInv
  <2>8. \A q \in Requests : Knows(q)'
    BY <1>1, <1>2, <1>3, ActionWritten DEF Knows, NotActing
  <2>9. netAction'.approval # "PENDING"
    BY <1>1, <1>4, <2>1 DEF FinishAction, ActionInv, CallsInv, Knows, ActionRows
  <2> QED BY <2>7, <2>8, <2>9 DEF CallsInv
<1> QED BY <1>5, <1>7, <1>8 DEF ActionInv

LEMMA ActionStopExecution ==
  ASSUME ActionInv, NEW r \in Requests, StopExecution(r)
  PROVE  ActionInv'
<1>1. ActionTypeOK'
  BY ActionAssumption DEF StopExecution, ActionInv, ActionTypeOK, ActionSteps, NotActing
<1>2. ApprovalInv'
  BY DEF StopExecution, NotActing, ActionInv, ActionTypeOK, ApprovalInv, Decides, MayRun
<1>3. CallsInv'
  <2>1. Finishing' = Finishing \ {r} /\ r \in Finishing /\ Finishing \in SUBSET Requests
    BY DEF StopExecution, NotActing, ActionInv, ActionTypeOK, Finishing
  <2>2. Cardinality(Finishing') = Cardinality(Finishing) - 1 /\ Cardinality(Finishing) \in Nat
    BY <2>1, RequestSets
  <2>3. Concluded' = Concluded /\ Concluded \in Nat
    BY DEF StopExecution, Concluded
  <2>4. stopped \in Nat /\ vendorCalls \in Nat
    BY ActionAssumption DEF ActionInv, ActionTypeOK
  <2>5. ~actionOutdated => vendorCalls' <= stopped' + Cardinality(Finishing') + Concluded'
    BY <2>2, <2>3, <2>4 DEF StopExecution, ActionInv, CallsInv
  <2>6. \A q \in Requests : Knows(q) => Knows(q)'
    BY DEF StopExecution, NotActing, ActionInv, ActionTypeOK, Knows
  <2> QED BY <2>5, <2>6 DEF StopExecution, ActionInv, CallsInv
<1> QED BY <1>1, <1>2, <1>3 DEF ActionInv

LEMMA ActionAnswer == ActionInv => VendorCalledWhenApproved
<1> SUFFICES ASSUME ActionInv PROVE VendorCalledWhenApproved
  OBVIOUS
<1>1. vendorCalls > 0 /\ netAction.approval # "NOT_REQUIRED" => \E a \in actionApprovers : a # netAction.requestedBy
  BY DEF ActionInv, ApprovalInv, MayRun
<1>2. ASSUME ~actionOutdated, stopped = 0, AtRest(acting) PROVE vendorCalls <= 1
  <2>1. Finishing = {}
    BY <1>2 DEF AtRest, Finishing
  <2>2. vendorCalls \in Nat /\ Concluded \in {0, 1}
    BY ActionAssumption DEF ActionInv, ActionTypeOK, Concluded
  <2> QED BY <1>2, <2>1, <2>2, FS_EmptySet DEF ActionInv, CallsInv
<1> QED BY <1>1, <1>2 DEF VendorCalledWhenApproved

\* Whatever decisions and executions overlap, the vendor is not called before a
\* second administrator approves; and once, unless an execution stopped half way
\* or a changed row was overwritten.
THEOREM VendorIsCalledWhenApproved == ActionSpec => []VendorCalledWhenApproved
<1>1. ActionInv /\ [ActionNext]_actionVars => ActionInv'
  <2> SUFFICES ASSUME ActionInv, [ActionNext]_actionVars PROVE ActionInv'
    OBVIOUS
  <2>1. CASE UNCHANGED actionVars
    BY <2>1 DEF actionVars, ActionInv, ActionTypeOK, ApprovalInv, Decides, MayRun, CallsInv, Knows,
       Finishing, Concluded
  <2>2. CASE ActionNext
    BY <2>2, ActionQueue, ActionBeginDecide, ActionWriteDecision, ActionBeginExecute, ActionCallVendor,
       ActionFinish, ActionStopExecution DEF ActionNext
  <2> QED BY <2>1, <2>2
<1> QED BY <1>1, ActionInitial, ActionAnswer, PTL DEF ActionSpec

----------------------------------------------------------------------------
(* Network alerts: an evaluation that still knows what it found makes a     *)
(* ticket only if all open ones are some that people opened again.          *)

AlertInv ==
  /\ AlertTypeOK
  /\ ~alertOutdated =>
       /\ openTickets <= 1 + reopened
       /\ \A r \in Requests : evaluation[r].at = "ticket" /\ evaluation[r].fresh => openTickets <= reopened

LEMMA AlertInitial == AlertInit => AlertInv
<1> SUFFICES ASSUME AlertInit PROVE AlertInv
  OBVIOUS
<1>1. EvaluationAt("idle") \in [at : EvaluationSteps, fresh : BOOLEAN] /\ EvaluationAt("idle").at # "ticket"
  BY DEF EvaluationAt, EvaluationSteps
<1>2. AlertTypeOK
  <2>1. 0 \in 0 .. MaxReopened
    BY AlertAssumption
  <2>2. evaluation \in [Requests -> [at : EvaluationSteps, fresh : BOOLEAN]]
    BY <1>1 DEF AlertInit
  <2> QED BY <2>1, <2>2 DEF AlertInit, AlertTypeOK
<1> QED BY <1>1, <1>2 DEF AlertInit, AlertInv

\* One evaluation moves, not towards a ticket.
LEMMA AlertGoesOn ==
  ASSUME AlertInv, NEW r \in Requests, NEW step \in EvaluationSteps, Evaluates(r, step),
         step = "ticket" => openTickets = 0,
         activeAlerts' \in Nat, doneAlerts' \in Nat, UNCHANGED <<openTickets, doneTickets, reopened, alertOutdated>>
  PROVE  AlertInv'
<1>1. reopened \in Nat
  BY AlertAssumption DEF AlertInv, AlertTypeOK
<1> QED BY <1>1 DEF AlertInv, AlertTypeOK, Evaluates, EvaluationAt

LEMMA AlertCreateTicket ==
  ASSUME AlertInv, NEW r \in Requests, CreateAlertTicket(r)
  PROVE  AlertInv'
<1>1. reopened \in Nat
  BY AlertAssumption DEF AlertInv, AlertTypeOK
<1>2. evaluation' \in [Requests -> [at : EvaluationSteps, fresh : BOOLEAN]]
  <2>1. EvaluationAt("alert") \in [at : EvaluationSteps, fresh : BOOLEAN]
    BY DEF EvaluationAt, EvaluationSteps
  <2>2. \A q \in Requests : Outdated(evaluation)[q] \in [at : EvaluationSteps, fresh : BOOLEAN]
    BY DEF Outdated, AlertInv, AlertTypeOK
  <2> QED BY <2>1, <2>2 DEF CreateAlertTicket, Overwritten, Outdated
<1>3. \A q \in Requests : ~(evaluation'[q].at = "ticket" /\ evaluation'[q].fresh)
  BY DEF CreateAlertTicket, Overwritten, Outdated, EvaluationAt, AlertInv, AlertTypeOK
<1>4. AlertTypeOK'
  BY <1>2 DEF CreateAlertTicket, AlertInv, AlertTypeOK
<1>5. ~alertOutdated' => ~alertOutdated /\ evaluation[r].fresh
  BY DEF CreateAlertTicket, AlertInv, AlertTypeOK
<1>6. ~alertOutdated' => openTickets' <= 1 + reopened'
  BY <1>1, <1>5 DEF CreateAlertTicket, AlertInv, AlertTypeOK
<1> QED BY <1>3, <1>4, <1>6 DEF AlertInv

LEMMA AlertStep == AlertInv /\ AlertNext => AlertInv'
<1> SUFFICES ASSUME AlertInv, AlertNext PROVE AlertInv'
  OBVIOUS
<1>1. CASE ResolveAlert \/ ReactivateAlert \/ CloseTicket \/ ReopenTicket
  <2>1. reopened \in Nat
    BY AlertAssumption DEF AlertInv, AlertTypeOK
  <2>2. AlertTypeOK'
    BY <1>1, AlertAssumption DEF ResolveAlert, ReactivateAlert, CloseTicket, ReopenTicket, AlertInv, AlertTypeOK
  <2>3. openTickets \in Nat /\ UNCHANGED <<evaluation, alertOutdated>>
    BY <1>1 DEF ResolveAlert, ReactivateAlert, CloseTicket, ReopenTicket, AlertInv, AlertTypeOK
  <2>4. \/ UNCHANGED <<openTickets, reopened>>
        \/ openTickets' = openTickets - 1 /\ reopened' = reopened
        \/ openTickets' = openTickets + 1 /\ reopened' = reopened + 1
    BY <1>1 DEF ResolveAlert, ReactivateAlert, CloseTicket, ReopenTicket
  <2>5. openTickets <= reopened => openTickets' <= reopened'
    BY <2>1, <2>3, <2>4
  <2>6. openTickets <= 1 + reopened => openTickets' <= 1 + reopened'
    BY <2>1, <2>3, <2>4
  <2> QED BY <2>2, <2>3, <2>5, <2>6 DEF AlertInv
<1>2. CASE \E r \in Requests, online, matching \in BOOLEAN : EvaluateRules(r, online, matching)
  <2>1. PICK r \in Requests, online \in BOOLEAN, matching \in BOOLEAN : EvaluateRules(r, online, matching)
    BY <1>2
  <2>2. activeAlerts' \in Nat /\ doneAlerts' \in Nat
    BY <2>1 DEF EvaluateRules, AlertInv, AlertTypeOK
  <2>3. PICK step \in EvaluationSteps : Evaluates(r, step) /\ step # "ticket"
    BY <2>1 DEF EvaluateRules, EvaluationSteps
  <2>4. UNCHANGED <<openTickets, doneTickets, reopened, alertOutdated>>
    BY <2>1 DEF EvaluateRules
  <2> QED BY <2>2, <2>3, <2>4, AlertGoesOn
<1>3. ASSUME NEW r \in Requests, FindAlert(r) \/ FindTicket(r) \/ InsertAlert(r) \/ EvaluationStops(r)
      PROVE  AlertInv'
  <2>1. activeAlerts' \in Nat /\ doneAlerts' \in Nat /\ UNCHANGED <<openTickets, doneTickets, reopened, alertOutdated>>
    BY <1>3 DEF FindAlert, FindTicket, InsertAlert, EvaluationStops, AlertInv, AlertTypeOK
  <2>2. PICK step \in EvaluationSteps : Evaluates(r, step) /\ (step = "ticket" => openTickets = 0)
    BY <1>3 DEF FindAlert, FindTicket, TicketFound, InsertAlert, EvaluationStops, AlertInv, AlertTypeOK,
       EvaluationSteps
  <2> QED BY <2>1, <2>2, AlertGoesOn, Zenon
<1> QED BY <1>1, <1>2, <1>3, AlertCreateTicket DEF AlertNext

\* Unless two evaluations looked for a ticket at once or people opened an older
\* one again, a rule has one open ticket, wherever evaluations stop.
THEOREM OneTicketPerAlertHolds == AlertSpec => []OneTicketPerAlert
<1>1. AlertInv /\ [AlertNext]_alertVars => AlertInv'
  BY AlertStep DEF alertVars, AlertInv, AlertTypeOK
<1>2. AlertInv => OneTicketPerAlert
  BY DEF AlertInv, OneTicketPerAlert
<1> QED BY <1>1, <1>2, AlertInitial, PTL DEF AlertSpec

----------------------------------------------------------------------------
(* Guards: what a request i has shown by the step it is at.  Of facts that  *)
(* were seen none is forgotten, so that a later change does not undo it.    *)

PastFeature == {"permissions", "grants", "policies", "stepUp", "admitted"}
PastTenant == {"businessOnly", "feature", "plan", "roles"} \cup PastFeature
PastAccount == {"impersonation", "tenant"} \cup PastTenant
PastSession == {"account"} \cup PastAccount

HasPermission(i) == <<i.user, "permission">> \in seen \/ <<i.user, "grant">> \in seen

ShownWho(i) ==
  /\ i.at \in PastSession => <<"actor", "session">> \in seen
  /\ i.at \in PastAccount =>
       /\ <<"actor", "account">> \in seen /\ <<i.user, i.role>> \in seen
       /\ i.user = "target" =>
            <<"actor", "impersonation">> \in seen /\ \E admin \in AdminRoles : <<"actor", admin>> \in seen

ShownWhere(i) ==
  /\ i.at \in PastAccount =>
       /\ i.company \in {"none", "context", i.user}
       /\ i.company = i.user => <<i.user, "company">> \in seen
       /\ i.company = "context" => i.role = "SUPER_ADMIN" /\ <<"context", "active">> \in seen
  /\ i.at = "impersonation" => i.user = "actor"
  /\ i.at \in PastTenant /\ i.role \in {"TENANT_ADMIN", "TECHNICIAN"} =>
       i.company # "none" /\ "otherCompany" \notin i.headers

ShownWhat(i) ==
  /\ i.at \in {"businessOnly", "feature", "plan"} => i.endpoint = "business"
  /\ i.at \in {"roles", "stepUp"} => i.endpoint = "admin"
  /\ i.at \in {"feature", "plan"} \cup PastFeature /\ i.endpoint = "business" => i.role # "PUBLIC"
  /\ i.at = "plan" => i.company # "none" /\ <<i.company, "feature">> \in seen
  /\ i.at \in PastFeature =>
       /\ i.endpoint = "business" =>
            i.company = "none" \/ (<<i.company, "feature">> \in seen /\ <<i.company, "plan">> \in seen)
       /\ i.endpoint = "admin" => i.role \in AdminRoles
  /\ i.at \in {"grants", "policies"} => i.role # "SUPER_ADMIN"
  /\ i.at = "policies" => HasPermission(i)
  /\ i.at \in {"stepUp", "admitted"} =>
       \/ i.role = "SUPER_ADMIN"
       \/ HasPermission(i) /\ (i.unread \/ <<i.user, "unblocked">> \in seen)
  /\ i.at = "admitted" /\ i.endpoint = "admin" => i.user = "actor" /\ <<"actor", "verified">> \in seen

Shown(i) == ShownWho(i) /\ ShownWhere(i) /\ ShownWhat(i)

\* While nothing changes, what a request knows is so, and a refusal was due.
KnowsWhom(i) ==
  /\ i.at \in PastAccount => i.role = role[i.user]
  /\ i.at = "impersonation" => i.company = CompanyOf(i.user)
  /\ i.at \in {"tenant"} \cup PastTenant => i.user = Who
  /\ i.at = "tenant" => i.company = CompanyOf(i.user)
  /\ i.at \in PastTenant => i.company = Where
  /\ i.at = "grants" => <<i.user, "permission">> \notin held

GuardInv ==
  /\ GuardTypeOK /\ Shown(incoming)
  /\ incoming.at # "idle" => FactsNow \subseteq seen
  /\ incoming.at # "idle" /\ steady /\ ~incoming.unread =>
       /\ seen = FactsNow
       /\ IF incoming.at = "refused" THEN ~Entitled(seen, Who, Where) ELSE KnowsWhom(incoming)

LEMMA FactsAre ==
  ASSUME GuardTypeOK
  PROVE  /\ \A f \in RowFacts : f \in FactsNow <=> f \in held
         /\ \A u \in Users, r \in Roles : <<u, r>> \in FactsNow <=> r = role[u]
<1>1. \A u \in Users : role[u] \in Roles
  BY DEF GuardTypeOK
<1>2. \A u \in Users, r \in Roles : <<u, r>> \notin RowFacts
  BY DEF RowFacts, Users, Roles
<1>3. held \subseteq RowFacts
  BY DEF GuardTypeOK
<1>4. \A u, v \in Users, r, s \in Roles : <<u, r>> = <<v, s>> => u = v /\ r = s
  OBVIOUS
<1>5. \A f \in RowFacts : f \in FactsNow <=> f \in held
  BY <1>1, <1>2 DEF FactsNow
<1>6. \A u \in Users, r \in Roles : <<u, r>> \in FactsNow <=> r = role[u]
  BY <1>1, <1>2, <1>3, <1>4 DEF FactsNow
<1> QED BY <1>5, <1>6

LEMMA GuardInitial == GuardInit => GuardInv
<1> SUFFICES ASSUME GuardInit PROVE GuardInv
  OBVIOUS
<1>1. NoRequest \in IncomingRows /\ NoRequest.at = "idle"
  BY DEF NoRequest, IncomingRows, GuardSteps, Endpoints, Headers, Users, Roles
<1>2. GuardTypeOK
  BY <1>1, GuardAssumption DEF GuardInit, GuardTypeOK
<1>3. Shown(incoming)
  BY <1>1 DEF GuardInit, Shown, ShownWho, ShownWhere, ShownWhat, PastSession, PastAccount, PastTenant,
     PastFeature
<1> QED BY <1>1, <1>2, <1>3 DEF GuardInit, GuardInv

\* What was shown stays shown when more is seen.
LEMMA ShownStays ==
  ASSUME NEW i \in IncomingRows, Shown(i), seen \subseteq seen' PROVE Shown(i)'
<1>1. ShownWho(i)'
  BY DEF Shown, ShownWho
<1>2. ShownWhere(i)'
  BY DEF Shown, ShownWhere
<1>3. ShownWhat(i)'
  BY DEF Shown, ShownWhat, HasPermission
<1> QED BY <1>1, <1>2, <1>3 DEF Shown

LEMMA GuardChange ==
  ASSUME GuardInv, NEW heldNext \in SUBSET RowFacts, NEW roleNext \in [Users -> Roles], Change(heldNext, roleNext)
  PROVE  GuardInv'
<1>1. FactsNow' = heldNext \cup {<<u, roleNext[u]>> : u \in Users}
  BY DEF Change, FactsNow
<1>2. FactsNow' \subseteq Facts
  BY <1>1 DEF Facts
<1>3. changes' \in 0 .. MaxChanges /\ steady' \in BOOLEAN
  BY GuardAssumption DEF Change, GuardInv, GuardTypeOK
<1>4. CASE incoming.at = "idle"
  <2>1. GuardTypeOK'
    BY <1>3, <1>4 DEF Change, GuardInv, GuardTypeOK
  <2>2. Shown(incoming)'
    BY <1>4 DEF Change, Shown, ShownWho, ShownWhere, ShownWhat, PastSession, PastAccount, PastTenant,
       PastFeature
  <2> QED BY <1>4, <2>1, <2>2 DEF Change, GuardInv
<1>5. CASE incoming.at # "idle"
  <2>1. seen' = seen \cup FactsNow' /\ ~steady' /\ incoming' = incoming
    BY <1>1, <1>5 DEF Change
  <2>2. GuardTypeOK'
    BY <1>2, <1>3, <2>1 DEF Change, GuardInv, GuardTypeOK
  <2>3. Shown(incoming)'
    BY <2>1, ShownStays DEF GuardInv, GuardTypeOK
  <2> QED BY <2>1, <2>2, <2>3 DEF GuardInv
<1> QED BY <1>4, <1>5

\* The request moves on: from here on one has to say what it has shown and what it
\* knows at its next step.
LEMMA GuardReaches ==
  ASSUME GuardInv, incoming.at \notin {"idle", "refused"}, NEW next \in IncomingRows, Reaches(next), next.at # "idle",
         next.headers = incoming.headers, next.endpoint = incoming.endpoint, incoming.unread => next.unread,
         Shown(next),
         steady /\ ~next.unread /\ next.at = "refused" => ~Entitled(FactsNow, Who, Where),
         steady /\ ~next.unread /\ next.at # "refused" => KnowsWhom(next)
  PROVE  GuardInv'
<1>1. incoming' = next /\ UNCHANGED <<held, role, seen, steady, changes>>
  BY DEF Reaches
<1>2. GuardTypeOK'
  BY <1>1 DEF GuardInv, GuardTypeOK
<1>3. FactsNow' = FactsNow
  BY <1>1 DEF FactsNow
<1>4. Shown(incoming)'
  BY <1>1 DEF Shown, ShownWho, ShownWhere, ShownWhat, HasPermission
<1>5. Who' = Who /\ Where' = Where
  BY <1>1 DEF Who, Where, CompanyOf
<1>6. ASSUME steady, ~next.unread
      PROVE  seen = FactsNow /\ IF next.at = "refused" THEN ~Entitled(seen, Who, Where)' ELSE KnowsWhom(incoming)'
  <2>1. seen = FactsNow
    BY <1>6 DEF GuardInv
  <2>2. CASE next.at = "refused"
    <3>1. next.unread = FALSE /\ incoming.unread = FALSE
      BY <1>6 DEF GuardInv, GuardTypeOK, IncomingRows
    <3>2. ~Entitled(seen, Who, Where)
      BY <1>6, <2>1, <2>2
    <3>3. /\ Authentic(seen, Who)' <=> Authentic(seen, Who)
          /\ InsideTenant(seen, Who, Where)' <=> InsideTenant(seen, Who, Where)
          /\ Allowed(seen, Who, Where)' <=> Allowed(seen, Who, Where)
      BY <1>1, <1>5, <3>1 DEF Authentic, InsideTenant, Allowed
    <3> QED BY <2>1, <2>2, <3>2, <3>3 DEF Entitled
  <2>3. CASE next.at # "refused"
    <3>1. KnowsWhom(next)
      BY <1>6, <2>3
    <3>2. KnowsWhom(incoming)'
      BY <1>1, <1>5, <3>1 DEF KnowsWhom, CompanyOf
    <3> QED BY <2>1, <2>3, <3>2
  <2> QED BY <2>2, <2>3
<1> QED BY <1>1, <1>2, <1>3, <1>4, <1>6 DEF GuardInv

\* The same for a request of which only the step changes, or that is refused.
LEMMA StepRow ==
  ASSUME incoming \in IncomingRows, NEW step \in GuardSteps
  PROVE  LET next == [incoming EXCEPT !.at = step] IN
         /\ next \in IncomingRows /\ next.at = step
         /\ next.endpoint = incoming.endpoint /\ next.headers = incoming.headers /\ next.user = incoming.user
         /\ next.role = incoming.role /\ next.company = incoming.company /\ next.unread = incoming.unread
BY DEF IncomingRows

LEMMA GuardPasses ==
  ASSUME GuardInv, incoming.at \notin {"idle", "refused"}, NEW condition \in BOOLEAN, NEW step \in GuardSteps \ {"idle", "refused"},
         Passes(condition, step),
         condition => Shown([incoming EXCEPT !.at = step]),
         condition /\ steady /\ ~incoming.unread => KnowsWhom([incoming EXCEPT !.at = step]),
         ~condition /\ steady /\ ~incoming.unread => ~Entitled(FactsNow, Who, Where)
  PROVE  GuardInv'
<1>1. incoming \in IncomingRows
  BY DEF GuardInv, GuardTypeOK
<1>2. CASE condition
  <2>1. Reaches([incoming EXCEPT !.at = step])
    BY <1>2 DEF Passes
  <2> QED BY <1>1, <1>2, <2>1, StepRow, GuardReaches
<1>3. CASE ~condition
  <2>1. Reaches([incoming EXCEPT !.at = "refused"])
    BY <1>3 DEF Passes
  <2>2. "refused" \in GuardSteps
    BY DEF GuardSteps
  <2>3. Shown([incoming EXCEPT !.at = "refused"])
    BY <1>1, <2>2, StepRow DEF Shown, ShownWho, ShownWhere, ShownWhat, PastSession, PastAccount, PastTenant,
       PastFeature
  <2> QED BY <1>1, <1>3, <2>1, <2>2, <2>3, StepRow, GuardReaches
<1> QED BY <1>2, <1>3

\* What each refusal rests on: a fact that does not hold.
LEMMA Lacking ==
  ASSUME GuardTypeOK,
         \/ <<"actor", "session">> \notin held \/ <<"actor", "account">> \notin held
         \/ Who = "target" /\ <<"actor", "impersonation">> \notin held
         \/ Where = "context" /\ <<"context", "active">> \notin held
         \/ role[Who] \in {"TENANT_ADMIN", "TECHNICIAN"} /\ (Where = "none" \/ "otherCompany" \in incoming.headers)
         \/ /\ incoming.endpoint = "business"
            /\ \/ role[Who] = "PUBLIC"
               \/ Where # "none" /\ (<<Where, "feature">> \notin held \/ <<Where, "plan">> \notin held)
         \/ /\ incoming.endpoint = "admin"
            /\ role[Who] \notin AdminRoles \/ Who # "actor" \/ <<"actor", "verified">> \notin held
         \/ /\ role[Who] # "SUPER_ADMIN"
            /\ \/ <<Who, "permission">> \notin held /\ <<Who, "grant">> \notin held
               \/ ~incoming.unread /\ <<Who, "unblocked">> \notin held
  PROVE  ~Entitled(FactsNow, Who, Where)
<1>1. /\ {<<"actor", "session">>, <<"actor", "account">>, <<"actor", "impersonation">>, <<"actor", "verified">>} \subseteq RowFacts
      /\ <<"context", "active">> \in RowFacts
      /\ \A u \in Users : {<<u, "permission">>, <<u, "grant">>, <<u, "unblocked">>, <<u, "company">>} \subseteq RowFacts
      /\ \A u \in Users \cup {"context"} : <<u, "feature">> \in RowFacts /\ <<u, "plan">> \in RowFacts
  BY DEF RowFacts, Users
<1>2. Who \in Users /\ Where \in Users \cup {"context", "none"}
  BY DEF Who, Where, CompanyOf, Users
<1>3. role[Who] \in Roles
  BY <1>2 DEF GuardTypeOK
<1>4. CASE <<"actor", "session">> \notin held \/ <<"actor", "account">> \notin held
  BY <1>1, <1>4, FactsAre DEF Entitled, Authentic
<1>5. CASE Who = "target" /\ <<"actor", "impersonation">> \notin held
  BY <1>1, <1>5, FactsAre DEF Entitled, Authentic
<1>6. CASE Where = "context" /\ <<"context", "active">> \notin held
  BY <1>1, <1>2, <1>6, FactsAre DEF Entitled, InsideTenant, Users
<1>7. CASE role[Who] \in {"TENANT_ADMIN", "TECHNICIAN"} /\ (Where = "none" \/ "otherCompany" \in incoming.headers)
  BY <1>2, <1>3, <1>7, FactsAre DEF Entitled, InsideTenant, Users, Roles
<1>8. CASE incoming.endpoint = "business" /\ role[Who] = "PUBLIC"
  BY <1>2, <1>3, <1>8, FactsAre DEF Entitled, Allowed
<1>9. CASE incoming.endpoint = "business" /\ Where # "none" /\ (<<Where, "feature">> \notin held \/ <<Where, "plan">> \notin held)
  BY <1>1, <1>2, <1>9, FactsAre DEF Entitled, Allowed
<1>10. CASE incoming.endpoint = "admin" /\ role[Who] \notin AdminRoles
  BY <1>2, <1>3, <1>10, FactsAre DEF Entitled, Allowed, AdminRoles, Roles
<1>11. CASE incoming.endpoint = "admin" /\ (Who # "actor" \/ <<"actor", "verified">> \notin held)
  BY <1>1, <1>11, FactsAre DEF Entitled, Allowed
<1>12. CASE role[Who] # "SUPER_ADMIN" /\ <<Who, "permission">> \notin held /\ <<Who, "grant">> \notin held
  BY <1>1, <1>2, <1>3, <1>12, FactsAre DEF Entitled, Allowed, Roles
<1>13. CASE role[Who] # "SUPER_ADMIN" /\ ~incoming.unread /\ <<Who, "unblocked">> \notin held
  BY <1>1, <1>2, <1>3, <1>13, FactsAre DEF Entitled, Allowed, Roles
<1> QED
  BY <1>4, <1>5, <1>6, <1>7, <1>8, <1>9, <1>10, <1>11, <1>12, <1>13

\* What a guard finds to hold was seen.
LEMMA HeldIsSeen ==
  ASSUME GuardInv, incoming.at # "idle"
  PROVE  held \subseteq seen /\ \A u \in Users : <<u, role[u]>> \in seen
BY DEF GuardInv, FactsNow

LEMMA GuardComes ==
  ASSUME GuardInv, NEW endpoint \in Endpoints, NEW headers \in SUBSET Headers, RequestComes(endpoint, headers)
  PROVE  GuardInv'
<1>1. PICK next \in IncomingRows : incoming' = next /\ next.at = "session" /\ ~next.unread
  <2>1. [NoRequest EXCEPT !.at = "session", !.endpoint = endpoint, !.headers = headers] \in IncomingRows
    BY DEF NoRequest, IncomingRows, GuardSteps, Endpoints, Users, Roles
  <2> QED BY <2>1 DEF RequestComes, NoRequest
<1>2. UNCHANGED <<held, role, steady, changes>> /\ seen' = FactsNow /\ FactsNow' = FactsNow
  BY DEF RequestComes, FactsNow
<1>3. FactsNow \subseteq Facts
  BY DEF FactsNow, Facts, GuardInv, GuardTypeOK
<1>4. GuardTypeOK'
  BY <1>1, <1>2, <1>3 DEF GuardInv, GuardTypeOK
<1>5. Shown(incoming)' /\ KnowsWhom(incoming)'
  BY <1>1 DEF Shown, ShownWho, ShownWhere, ShownWhat, KnowsWhom, PastSession, PastAccount, PastTenant,
     PastFeature
<1> QED BY <1>1, <1>2, <1>4, <1>5 DEF GuardInv

LEMMA GuardFindSession == ASSUME GuardInv, FindSession PROVE GuardInv'
<1> DEFINE found == <<"actor", "session">> \in held
           next == [incoming EXCEPT !.at = "account"]
<1>1. incoming \in IncomingRows /\ "account" \in GuardSteps \ {"idle", "refused"}
  BY DEF GuardInv, GuardTypeOK, GuardSteps
<1>2. next.at = "account"
  BY <1>1, StepRow
<1>3. found => Shown(next)
  BY <1>1, <1>2, HeldIsSeen DEF FindSession, Shown, ShownWho, ShownWhere, ShownWhat, PastSession,
     PastAccount, PastTenant, PastFeature
<1>4. KnowsWhom(next)
  BY <1>2 DEF KnowsWhom, PastAccount, PastTenant, PastFeature
<1>5. ~found => ~Entitled(FactsNow, Who, Where)
  BY Lacking DEF GuardInv
<1>6. found \in BOOLEAN /\ Passes(found, "account") /\ incoming.at = "session"
  BY DEF FindSession
<1> HIDE DEF found
<1> QED BY <1>1, <1>3, <1>4, <1>5, <1>6, GuardPasses

\* A step for which the rest is told by the row it reaches.
LEMMA GuardFindUser == ASSUME GuardInv, FindUser PROVE GuardInv'
<1>1. incoming \in IncomingRows /\ incoming.at = "account" /\ "actor" \in Users /\ role["actor"] \in Roles
  BY DEF FindUser, GuardInv, GuardTypeOK, Users
<1>2. CASE <<"actor", "account">> \in held
  <2>1. PICK next \in IncomingRows :
          /\ Reaches(next) /\ next.at = "impersonation" /\ next.user = "actor" /\ next.role = role["actor"]
          /\ next.company = CompanyOf("actor") /\ next.endpoint = incoming.endpoint
          /\ next.headers = incoming.headers /\ next.unread = incoming.unread
    <3>1. LET next == [incoming EXCEPT !.at = "impersonation", !.user = "actor", !.role = role["actor"],
                                       !.company = CompanyOf("actor")] IN
          /\ next \in IncomingRows /\ next.at = "impersonation" /\ next.user = "actor" /\ next.role = role["actor"]
          /\ next.company = CompanyOf("actor") /\ next.endpoint = incoming.endpoint
          /\ next.headers = incoming.headers /\ next.unread = incoming.unread
      BY <1>1 DEF IncomingRows, GuardSteps, CompanyOf
    <3> QED BY <1>2, <3>1 DEF FindUser
  <2>2. Shown(next)
    BY <1>1, <1>2, <2>1, HeldIsSeen DEF GuardInv, CompanyOf, Shown, ShownWho, ShownWhere, ShownWhat,
       HasPermission, PastSession, PastAccount, PastTenant, PastFeature
  <2>3. KnowsWhom(next)
    BY <2>1 DEF KnowsWhom, PastAccount, PastTenant, PastFeature
  <2> QED BY <1>1, <2>1, <2>2, <2>3, GuardReaches
<1>3. CASE <<"actor", "account">> \notin held
  <2>1. Passes(FALSE, "impersonation")
    BY <1>3 DEF FindUser, Passes
  <2>2. ~Entitled(FactsNow, Who, Where)
    BY <1>3, Lacking DEF GuardInv
  <2> QED BY <1>1, <2>1, <2>2, GuardPasses DEF GuardSteps
<1> QED BY <1>2, <1>3

LEMMA GuardFindImpersonation == ASSUME GuardInv, FindImpersonation PROVE GuardInv'
<1>1. /\ incoming \in IncomingRows /\ incoming.at = "impersonation" /\ incoming.user = "actor"
      /\ "target" \in Users /\ role["target"] \in Roles
  BY DEF FindImpersonation, GuardInv, GuardTypeOK, Users, Shown, ShownWhere
<1>2. "tenant" \in GuardSteps \ {"idle", "refused"}
  BY DEF GuardSteps
<1>3. steady /\ ~incoming.unread => incoming.role = role["actor"] /\ incoming.company = CompanyOf("actor")
  BY <1>1 DEF GuardInv, KnowsWhom, PastAccount, PastTenant, PastFeature
<1>4. steady /\ ~incoming.unread => Who = IF Impersonates THEN "target" ELSE "actor"
  BY <1>3 DEF Who, Impersonates
<1>5. CASE ~Impersonates
  <2>1. Passes(TRUE, "tenant")
    BY <1>5 DEF FindImpersonation
  <2>2. Shown([incoming EXCEPT !.at = "tenant"])
    BY <1>1, <1>2, StepRow DEF GuardInv, Shown, ShownWho, ShownWhere, ShownWhat, HasPermission, PastSession,
       PastAccount, PastTenant, PastFeature
  <2>3. steady /\ ~incoming.unread => KnowsWhom([incoming EXCEPT !.at = "tenant"])
    BY <1>1, <1>2, <1>3, <1>4, <1>5, StepRow DEF KnowsWhom, PastAccount, PastTenant, PastFeature
  <2> QED BY <1>1, <1>2, <2>1, <2>2, <2>3, GuardPasses
<1>6. CASE Impersonates /\ <<"actor", "impersonation">> \in held
  <2>1. PICK next \in IncomingRows :
          /\ Reaches(next) /\ next.at = "tenant" /\ next.user = "target" /\ next.role = role["target"]
          /\ next.company = CompanyOf("target") /\ next.endpoint = incoming.endpoint
          /\ next.headers = incoming.headers /\ next.unread = incoming.unread
    <3>1. LET next == [incoming EXCEPT !.at = "tenant", !.user = "target", !.role = role["target"],
                                       !.company = CompanyOf("target")] IN
          /\ next \in IncomingRows /\ next.at = "tenant" /\ next.user = "target" /\ next.role = role["target"]
          /\ next.company = CompanyOf("target") /\ next.endpoint = incoming.endpoint
          /\ next.headers = incoming.headers /\ next.unread = incoming.unread
      BY <1>1 DEF IncomingRows, GuardSteps, CompanyOf
    <3> QED BY <1>6, <3>1 DEF FindImpersonation
  <2>2. incoming.role \in AdminRoles /\ <<"actor", incoming.role>> \in seen
    BY <1>1, <1>6 DEF Impersonates, GuardInv, Shown, ShownWho, ShownWhere, ShownWhat, HasPermission,
       PastSession, PastAccount, PastTenant, PastFeature
  <2>3. ShownWho(next)
    BY <1>1, <1>6, <2>1, <2>2, HeldIsSeen DEF GuardInv, Shown, ShownWho, ShownWhere, ShownWhat,
       HasPermission, PastSession, PastAccount, PastTenant, PastFeature
  <2>4. ShownWhere(next) /\ ShownWhat(next)
    BY <1>1, <2>1, HeldIsSeen DEF CompanyOf, Shown, ShownWho, ShownWhere, ShownWhat, HasPermission,
       PastSession, PastAccount, PastTenant, PastFeature
  <2>5. steady /\ ~next.unread => KnowsWhom(next)
    BY <1>4, <1>6, <2>1 DEF KnowsWhom, PastAccount, PastTenant, PastFeature
  <2> QED BY <1>1, <2>1, <2>3, <2>4, <2>5, GuardReaches DEF Shown
<1>7. CASE Impersonates /\ <<"actor", "impersonation">> \notin held
  <2>1. Passes(FALSE, "tenant")
    BY <1>7 DEF FindImpersonation, Passes
  <2>2. steady /\ ~incoming.unread => ~Entitled(FactsNow, Who, Where)
    BY <1>4, <1>7, Lacking DEF GuardInv
  <2> QED BY <1>1, <1>2, <2>1, <2>2, GuardPasses
<1> QED BY <1>5, <1>6, <1>7

LEMMA GuardCheckTenant == ASSUME GuardInv, CheckTenant PROVE GuardInv'
<1>1. incoming \in IncomingRows /\ incoming.at = "tenant" /\ incoming.role \in Roles /\ incoming.user \in Users
  BY DEF CheckTenant, GuardInv, GuardTypeOK, IncomingRows
<1>2. /\ AfterTenant \in {"businessOnly", "roles"} /\ AfterTenant \in GuardSteps \ {"idle", "refused"}
      /\ AfterTenant = "businessOnly" <=> incoming.endpoint = "business"
      /\ AfterTenant = "roles" <=> incoming.endpoint = "admin"
  BY <1>1 DEF AfterTenant, GuardSteps, IncomingRows, Endpoints
<1>3. steady /\ ~incoming.unread =>
        /\ incoming.user = Who /\ incoming.role = role[Who] /\ incoming.company = CompanyOf(Who)
        /\ Where = IF incoming.role = "SUPER_ADMIN" /\ "context" \in incoming.headers THEN "context" ELSE incoming.company
  BY <1>1 DEF GuardInv, Where, KnowsWhom, PastAccount, PastTenant, PastFeature
<1>4. CASE incoming.role = "SUPER_ADMIN" /\ "context" \in incoming.headers
  <2>1. CASE <<"context", "active">> \in held
    <3>1. PICK next \in IncomingRows :
            /\ Reaches(next) /\ next.at = AfterTenant /\ next.user = incoming.user /\ next.role = incoming.role
            /\ next.company = "context" /\ next.endpoint = incoming.endpoint
            /\ next.headers = incoming.headers /\ next.unread = incoming.unread
      <4>1. LET next == [incoming EXCEPT !.at = AfterTenant, !.company = "context"] IN
            /\ next \in IncomingRows /\ next.at = AfterTenant /\ next.user = incoming.user /\ next.role = incoming.role
            /\ next.company = "context" /\ next.endpoint = incoming.endpoint
            /\ next.headers = incoming.headers /\ next.unread = incoming.unread
        BY <1>1, <1>2 DEF IncomingRows
      <4> QED BY <1>1, <1>4, <2>1, <4>1 DEF CheckTenant
    <3>2. Shown(next)
      BY <1>1, <1>2, <1>4, <2>1, <3>1, HeldIsSeen DEF GuardInv, Users, Shown, ShownWho, ShownWhere,
         ShownWhat, HasPermission, PastSession, PastAccount, PastTenant, PastFeature
    <3>3. steady /\ ~next.unread => KnowsWhom(next)
      BY <1>2, <1>3, <1>4, <3>1 DEF KnowsWhom, PastAccount, PastTenant, PastFeature
    <3> QED BY <1>1, <1>2, <3>1, <3>2, <3>3, GuardReaches
  <2>2. CASE <<"context", "active">> \notin held
    <3>1. Passes(FALSE, AfterTenant)
      BY <1>1, <1>4, <2>2 DEF CheckTenant, Passes
    <3>2. steady /\ ~incoming.unread => ~Entitled(FactsNow, Who, Where)
      BY <1>3, <1>4, <2>2, Lacking DEF GuardInv
    <3> QED BY <1>1, <1>2, <3>1, <3>2, GuardPasses
  <2> QED BY <2>1, <2>2
<1>5. CASE ~(incoming.role = "SUPER_ADMIN" /\ "context" \in incoming.headers)
  <2> DEFINE passes == incoming.role \in {"TENANT_ADMIN", "TECHNICIAN"} => TenantAllows
             next == [incoming EXCEPT !.at = AfterTenant]
  <2>1. Passes(passes, AfterTenant)
    BY <1>1, <1>5 DEF CheckTenant, Roles, Passes
  <2>2. /\ next.at = AfterTenant /\ next.user = incoming.user /\ next.role = incoming.role
        /\ next.company = incoming.company /\ next.endpoint = incoming.endpoint
        /\ next.headers = incoming.headers /\ next.unread = incoming.unread
    BY <1>1, <1>2, StepRow
  <2>3. passes => Shown(next)
    <3> HIDE DEF next
    <3> QED BY <1>1, <1>2, <2>2 DEF GuardInv, TenantAllows, Shown, ShownWho, ShownWhere, ShownWhat,
               HasPermission, PastSession, PastAccount, PastTenant, PastFeature
  <2>4. steady /\ ~incoming.unread => KnowsWhom(next)
    <3> HIDE DEF next
    <3> QED BY <1>2, <1>3, <1>5, <2>2 DEF KnowsWhom, PastAccount, PastTenant, PastFeature
  <2>5. ~passes /\ steady /\ ~incoming.unread => ~Entitled(FactsNow, Who, Where)
    BY <1>3, <1>5, Lacking DEF GuardInv, TenantAllows
  <2>6. passes \in BOOLEAN
    OBVIOUS
  <2> HIDE DEF passes
  <2> QED BY <1>1, <1>2, <2>1, <2>3, <2>4, <2>5, <2>6, GuardPasses
<1> QED BY <1>4, <1>5

LEMMA GuardCheckBusiness == ASSUME GuardInv, CheckBusiness PROVE GuardInv'
<1> DEFINE passes == incoming.role # "PUBLIC"
           next == [incoming EXCEPT !.at = "feature"]
<1>1. incoming \in IncomingRows /\ incoming.at = "businessOnly" /\ "feature" \in GuardSteps \ {"idle", "refused"}
  BY DEF CheckBusiness, GuardInv, GuardTypeOK, GuardSteps, IncomingRows, Endpoints
<1>2. /\ next.at = "feature" /\ next.user = incoming.user /\ next.role = incoming.role
      /\ next.company = incoming.company /\ next.endpoint = incoming.endpoint
      /\ next.headers = incoming.headers /\ next.unread = incoming.unread
  BY <1>1, StepRow
<1>3. steady /\ ~incoming.unread =>
        /\ incoming.user = Who /\ incoming.role = role[Who] /\ incoming.company = Where
  BY <1>1 DEF GuardInv, KnowsWhom, PastAccount, PastTenant, PastFeature
<1>4. passes => Shown(next)
  <2> HIDE DEF next
  <2> QED BY <1>1, <1>2, HeldIsSeen DEF GuardInv, Shown, ShownWho, ShownWhere, ShownWhat, HasPermission,
             PastSession, PastAccount, PastTenant, PastFeature
<1>5. steady /\ ~incoming.unread => KnowsWhom(next)
  <2> HIDE DEF next
  <2> QED BY <1>1, <1>2, <1>3 DEF KnowsWhom, PastAccount, PastTenant, PastFeature
<1>6. ~passes /\ steady /\ ~incoming.unread => ~Entitled(FactsNow, Who, Where)
  BY <1>1, <1>3, Lacking DEF GuardInv, ShownWhat, Shown
<1>7. passes \in BOOLEAN /\ Passes(passes, "feature")
  BY <1>1 DEF CheckBusiness
<1> HIDE DEF passes
<1> QED BY <1>1, <1>2, <1>4, <1>5, <1>6, <1>7, GuardPasses

LEMMA GuardFindCompanyPlan == ASSUME GuardInv, FindCompanyPlan PROVE GuardInv'
<1> DEFINE passes == <<incoming.company, "plan">> \in held
           next == [incoming EXCEPT !.at = "permissions"]
<1>1. incoming \in IncomingRows /\ incoming.at = "plan" /\ "permissions" \in GuardSteps \ {"idle", "refused"}
  BY DEF FindCompanyPlan, GuardInv, GuardTypeOK, GuardSteps, IncomingRows, Endpoints
<1>2. /\ next.at = "permissions" /\ next.user = incoming.user /\ next.role = incoming.role
      /\ next.company = incoming.company /\ next.endpoint = incoming.endpoint
      /\ next.headers = incoming.headers /\ next.unread = incoming.unread
  BY <1>1, StepRow
<1>3. steady /\ ~incoming.unread =>
        /\ incoming.user = Who /\ incoming.role = role[Who] /\ incoming.company = Where
  BY <1>1 DEF GuardInv, KnowsWhom, PastAccount, PastTenant, PastFeature
<1>4. passes => Shown(next)
  <2> HIDE DEF next
  <2> QED BY <1>1, <1>2, HeldIsSeen DEF GuardInv, Shown, ShownWho, ShownWhere, ShownWhat, HasPermission,
             PastSession, PastAccount, PastTenant, PastFeature
<1>5. steady /\ ~incoming.unread => KnowsWhom(next)
  <2> HIDE DEF next
  <2> QED BY <1>1, <1>2, <1>3 DEF KnowsWhom, PastAccount, PastTenant, PastFeature
<1>6. ~passes /\ steady /\ ~incoming.unread => ~Entitled(FactsNow, Who, Where)
  BY <1>1, <1>3, Lacking DEF GuardInv, ShownWhat, Shown
<1>7. passes \in BOOLEAN /\ Passes(passes, "permissions")
  BY <1>1 DEF FindCompanyPlan
<1> HIDE DEF passes
<1> QED BY <1>1, <1>2, <1>4, <1>5, <1>6, <1>7, GuardPasses

LEMMA GuardCheckRoles == ASSUME GuardInv, CheckRoles PROVE GuardInv'
<1> DEFINE passes == incoming.role \in AdminRoles
           next == [incoming EXCEPT !.at = "permissions"]
<1>1. incoming \in IncomingRows /\ incoming.at = "roles" /\ "permissions" \in GuardSteps \ {"idle", "refused"}
  BY DEF CheckRoles, GuardInv, GuardTypeOK, GuardSteps, IncomingRows, Endpoints
<1>2. /\ next.at = "permissions" /\ next.user = incoming.user /\ next.role = incoming.role
      /\ next.company = incoming.company /\ next.endpoint = incoming.endpoint
      /\ next.headers = incoming.headers /\ next.unread = incoming.unread
  BY <1>1, StepRow
<1>3. steady /\ ~incoming.unread =>
        /\ incoming.user = Who /\ incoming.role = role[Who] /\ incoming.company = Where
  BY <1>1 DEF GuardInv, KnowsWhom, PastAccount, PastTenant, PastFeature
<1>4. passes => Shown(next)
  <2> HIDE DEF next
  <2> QED BY <1>1, <1>2, HeldIsSeen DEF GuardInv, Shown, ShownWho, ShownWhere, ShownWhat, HasPermission,
             PastSession, PastAccount, PastTenant, PastFeature
<1>5. steady /\ ~incoming.unread => KnowsWhom(next)
  <2> HIDE DEF next
  <2> QED BY <1>1, <1>2, <1>3 DEF KnowsWhom, PastAccount, PastTenant, PastFeature
<1>6. ~passes /\ steady /\ ~incoming.unread => ~Entitled(FactsNow, Who, Where)
  BY <1>1, <1>3, Lacking DEF GuardInv, ShownWhat, Shown
<1>7. passes \in BOOLEAN /\ Passes(passes, "permissions")
  BY <1>1 DEF CheckRoles
<1> HIDE DEF passes
<1> QED BY <1>1, <1>2, <1>4, <1>5, <1>6, <1>7, GuardPasses

LEMMA GuardFindGrants == ASSUME GuardInv, FindGrants PROVE GuardInv'
<1> DEFINE passes == <<incoming.user, "grant">> \in held
           next == [incoming EXCEPT !.at = "policies"]
<1>1. incoming \in IncomingRows /\ incoming.at = "grants" /\ "policies" \in GuardSteps \ {"idle", "refused"} /\ incoming.role # "SUPER_ADMIN"
  BY DEF FindGrants, GuardInv, GuardTypeOK, GuardSteps, IncomingRows, Endpoints, Shown, ShownWhat
<1>2. /\ next.at = "policies" /\ next.user = incoming.user /\ next.role = incoming.role
      /\ next.company = incoming.company /\ next.endpoint = incoming.endpoint
      /\ next.headers = incoming.headers /\ next.unread = incoming.unread
  BY <1>1, StepRow
<1>3. steady /\ ~incoming.unread =>
        /\ incoming.user = Who /\ incoming.role = role[Who] /\ incoming.company = Where
        /\ <<incoming.user, "permission">> \notin held
  BY <1>1 DEF GuardInv, KnowsWhom, PastAccount, PastTenant, PastFeature
<1>4. passes => Shown(next)
  <2> HIDE DEF next
  <2> QED BY <1>1, <1>2, HeldIsSeen DEF GuardInv, Shown, ShownWho, ShownWhere, ShownWhat, HasPermission,
             PastSession, PastAccount, PastTenant, PastFeature
<1>5. steady /\ ~incoming.unread => KnowsWhom(next)
  <2> HIDE DEF next
  <2> QED BY <1>1, <1>2, <1>3 DEF KnowsWhom, PastAccount, PastTenant, PastFeature
<1>6. ~passes /\ steady /\ ~incoming.unread => ~Entitled(FactsNow, Who, Where)
  BY <1>1, <1>3, Lacking DEF GuardInv, ShownWhat, Shown
<1>7. passes \in BOOLEAN /\ Passes(passes, "policies")
  BY <1>1 DEF FindGrants
<1> HIDE DEF passes
<1> QED BY <1>1, <1>2, <1>4, <1>5, <1>6, <1>7, GuardPasses

LEMMA GuardCheckStepUp == ASSUME GuardInv, CheckStepUp PROVE GuardInv'
<1> DEFINE passes == incoming.user = "actor" /\ <<"actor", "verified">> \in held
           next == [incoming EXCEPT !.at = "admitted"]
<1>1. incoming \in IncomingRows /\ incoming.at = "stepUp" /\ "admitted" \in GuardSteps \ {"idle", "refused"}
  BY DEF CheckStepUp, GuardInv, GuardTypeOK, GuardSteps, IncomingRows, Endpoints
<1>2. /\ next.at = "admitted" /\ next.user = incoming.user /\ next.role = incoming.role
      /\ next.company = incoming.company /\ next.endpoint = incoming.endpoint
      /\ next.headers = incoming.headers /\ next.unread = incoming.unread
  BY <1>1, StepRow
<1>3. steady /\ ~incoming.unread =>
        /\ incoming.user = Who /\ incoming.role = role[Who] /\ incoming.company = Where
  BY <1>1 DEF GuardInv, KnowsWhom, PastAccount, PastTenant, PastFeature
<1>4. passes => Shown(next)
  <2> HIDE DEF next
  <2> QED BY <1>1, <1>2, HeldIsSeen DEF GuardInv, Shown, ShownWho, ShownWhere, ShownWhat, HasPermission,
             PastSession, PastAccount, PastTenant, PastFeature
<1>5. steady /\ ~incoming.unread => KnowsWhom(next)
  <2> HIDE DEF next
  <2> QED BY <1>1, <1>2, <1>3 DEF KnowsWhom, PastAccount, PastTenant, PastFeature
<1>6. ~passes /\ steady /\ ~incoming.unread => ~Entitled(FactsNow, Who, Where)
  BY <1>1, <1>3, Lacking DEF GuardInv, ShownWhat, Shown
<1>7. passes \in BOOLEAN /\ Passes(passes, "admitted")
  BY <1>1 DEF CheckStepUp
<1> HIDE DEF passes
<1> QED BY <1>1, <1>2, <1>4, <1>5, <1>6, <1>7, GuardPasses

LEMMA GuardCheckPolicies == ASSUME GuardInv, CheckPolicies PROVE GuardInv'
<1> DEFINE passes == <<incoming.user, "unblocked">> \in held
           next == [incoming EXCEPT !.at = AfterPermissions]
<1>1. /\ incoming \in IncomingRows /\ incoming.at = "policies" /\ AfterPermissions \in GuardSteps \ {"idle", "refused"}
      /\ incoming.endpoint \in {"business", "admin"} /\ incoming.role # "SUPER_ADMIN" /\ incoming.unread \in BOOLEAN
  BY DEF CheckPolicies, GuardInv, GuardTypeOK, GuardSteps, IncomingRows, Endpoints, AfterPermissions, Shown,
     ShownWhat
<1>2. /\ next.at = AfterPermissions /\ next.user = incoming.user /\ next.role = incoming.role
      /\ next.company = incoming.company /\ next.endpoint = incoming.endpoint
      /\ next.headers = incoming.headers /\ next.unread = incoming.unread
  BY <1>1, StepRow
<1>3. steady /\ ~incoming.unread =>
        /\ incoming.user = Who /\ incoming.role = role[Who] /\ incoming.company = Where
  BY <1>1 DEF GuardInv, KnowsWhom, PastAccount, PastTenant, PastFeature
<1>4. passes => Shown(next)
  <2> HIDE DEF next
  <2> QED BY <1>1, <1>2, HeldIsSeen DEF GuardInv, Shown, ShownWho, ShownWhere, ShownWhat, HasPermission,
             PastSession, PastAccount, PastTenant, PastFeature, AfterPermissions
<1>5. steady /\ ~incoming.unread => KnowsWhom(next)
  <2> HIDE DEF next
  <2> QED BY <1>1, <1>2, <1>3 DEF KnowsWhom, PastAccount, PastTenant, PastFeature, AfterPermissions
<1>6. ~passes /\ steady /\ ~incoming.unread => ~Entitled(FactsNow, Who, Where)
  BY <1>1, <1>3, Lacking DEF GuardInv, ShownWhat, Shown, AfterPermissions
<1>7. passes \in BOOLEAN /\ Passes(passes, AfterPermissions)
  BY <1>1 DEF CheckPolicies
<1> HIDE DEF passes
<1> QED BY <1>1, <1>2, <1>4, <1>5, <1>6, <1>7, GuardPasses

LEMMA GuardFindOverrides == ASSUME GuardInv, FindOverrides PROVE GuardInv'
<1> DEFINE step == IF incoming.company = "none" THEN "permissions" ELSE "plan"
           passes == incoming.company # "none" => <<incoming.company, "feature">> \in held
           next == [incoming EXCEPT !.at = step]
<1>1. /\ incoming \in IncomingRows /\ incoming.at = "feature" /\ step \in GuardSteps \ {"idle", "refused"}
      /\ step = "permissions" => incoming.company = "none"
      /\ step \in {"permissions", "plan"}
  BY DEF FindOverrides, GuardInv, GuardTypeOK, GuardSteps
<1>2. /\ next.at = step /\ next.user = incoming.user /\ next.role = incoming.role
      /\ next.company = incoming.company /\ next.endpoint = incoming.endpoint
      /\ next.headers = incoming.headers /\ next.unread = incoming.unread
  BY <1>1, StepRow
<1>3. steady /\ ~incoming.unread =>
        /\ incoming.user = Who /\ incoming.role = role[Who] /\ incoming.company = Where
  BY <1>1 DEF GuardInv, KnowsWhom, PastAccount, PastTenant, PastFeature
<1>4. passes => Shown(next)
  <2>1. passes /\ step = "plan" => incoming.company # "none" /\ <<incoming.company, "feature">> \in held
    OBVIOUS
  <2> HIDE DEF next, passes, step
  <2> QED BY <1>1, <1>2, <2>1, HeldIsSeen DEF GuardInv, Shown, ShownWho, ShownWhere, ShownWhat,
             HasPermission, PastSession, PastAccount, PastTenant, PastFeature
<1>5. steady /\ ~incoming.unread => KnowsWhom(next)
  <2> HIDE DEF next, passes, step
  <2> QED BY <1>1, <1>2, <1>3 DEF KnowsWhom, PastAccount, PastTenant, PastFeature
<1>6. ~passes /\ steady /\ ~incoming.unread => ~Entitled(FactsNow, Who, Where)
  BY <1>1, <1>3, Lacking DEF GuardInv, ShownWhat, Shown
<1>7. passes \in BOOLEAN /\ Passes(passes, step)
  BY <1>1 DEF FindOverrides, Passes
<1> HIDE DEF passes, step
<1> QED BY <1>1, <1>2, <1>4, <1>5, <1>6, <1>7, GuardPasses

LEMMA GuardFindRolePermissions == ASSUME GuardInv, FindRolePermissions PROVE GuardInv'
<1>1. PICK step \in GuardSteps \ {"idle", "refused"} :
        /\ Passes(TRUE, step)
        /\ \/ step = AfterPermissions /\ incoming.role = "SUPER_ADMIN"
           \/ step = "policies" /\ Permitted /\ incoming.role # "SUPER_ADMIN"
           \/ step = "grants" /\ ~Permitted /\ incoming.role # "SUPER_ADMIN"
  BY DEF FindRolePermissions, Passes, AfterPermissions, GuardSteps
<1>2. /\ incoming \in IncomingRows /\ incoming.at = "permissions" /\ incoming.endpoint \in {"business", "admin"}
  BY DEF FindRolePermissions, GuardInv, GuardTypeOK, IncomingRows, Endpoints
<1> DEFINE next == [incoming EXCEPT !.at = step]
<1>3. /\ next.at = step /\ next.user = incoming.user /\ next.role = incoming.role
      /\ next.company = incoming.company /\ next.endpoint = incoming.endpoint
      /\ next.headers = incoming.headers /\ next.unread = incoming.unread
  BY <1>1, <1>2, StepRow
<1>4. steady /\ ~incoming.unread =>
        /\ incoming.user = Who /\ incoming.role = role[Who] /\ incoming.company = Where
  BY <1>2 DEF GuardInv, KnowsWhom, PastAccount, PastTenant, PastFeature
<1>5. Shown(next)
  <2> HIDE DEF next
  <2> QED BY <1>1, <1>2, <1>3, HeldIsSeen DEF GuardInv, AfterPermissions, Permitted, Shown, ShownWho,
             ShownWhere, ShownWhat, HasPermission, PastSession, PastAccount, PastTenant, PastFeature
<1>6. steady /\ ~incoming.unread => KnowsWhom(next)
  <2> HIDE DEF next
  <2> QED BY <1>1, <1>2, <1>3, <1>4 DEF AfterPermissions, Permitted, KnowsWhom, PastAccount, PastTenant,
             PastFeature
<1> QED BY <1>1, <1>2, <1>5, <1>6, GuardPasses

\* A request whose answer was not read: nothing is said of its refusal.
LEMMA GuardUnread == ASSUME GuardInv, PermissionsUnread \/ PoliciesUnread \/ SelectFails PROVE GuardInv'
<1>1. incoming \in IncomingRows /\ incoming.endpoint \in {"business", "admin"} /\ incoming.at \notin {"idle", "refused"}
  BY DEF PermissionsUnread, PoliciesUnread, SelectFails, GuardInv, GuardTypeOK, IncomingRows, Endpoints
<1>2. PICK step \in GuardSteps \ {"idle"} :
        /\ Reaches([incoming EXCEPT !.at = step, !.unread = TRUE])
        /\ \/ step = "refused"
           \/ step = "grants" /\ incoming.at = "permissions" /\ incoming.role # "SUPER_ADMIN"
           \/ step = AfterPermissions /\ incoming.at = "policies"
  BY DEF PermissionsUnread, PoliciesUnread, SelectFails, AfterPermissions, GuardSteps
<1> DEFINE next == [incoming EXCEPT !.at = step, !.unread = TRUE]
<1>3. /\ next \in IncomingRows /\ next.at = step /\ next.user = incoming.user /\ next.role = incoming.role
      /\ next.company = incoming.company /\ next.endpoint = incoming.endpoint
      /\ next.headers = incoming.headers /\ next.unread
  BY <1>1 DEF IncomingRows
<1>4. Shown(next)
  <2> HIDE DEF next
  <2> QED BY <1>1, <1>2, <1>3 DEF GuardInv, AfterPermissions, Shown, ShownWho, ShownWhere, ShownWhat,
             HasPermission, PastSession, PastAccount, PastTenant, PastFeature
<1> HIDE DEF next
<1> QED BY <1>1, <1>2, <1>3, <1>4, GuardReaches DEF next

LEMMA GuardStep == GuardInv /\ GuardNext => GuardInv'
<1> SUFFICES ASSUME GuardInv, GuardNext PROVE GuardInv'
  OBVIOUS
<1>1. held \in SUBSET RowFacts /\ role \in [Users -> Roles]
  BY DEF GuardInv, GuardTypeOK
<1>2. ASSUME NEW f \in RowFacts, ChangeFact(f) PROVE GuardInv'
  BY <1>1, <1>2, GuardChange DEF ChangeFact
<1>3. ASSUME NEW u \in Users, NEW next \in Roles, ChangeRole(u, next) PROVE GuardInv'
  BY <1>1, <1>3, GuardChange DEF ChangeRole
<1> QED
  BY <1>2, <1>3, GuardComes, GuardFindSession, GuardFindUser, GuardFindImpersonation, GuardCheckTenant,
     GuardCheckBusiness, GuardFindOverrides, GuardFindCompanyPlan, GuardCheckRoles, GuardFindRolePermissions,
     GuardFindGrants, GuardCheckPolicies, GuardCheckStepUp, GuardUnread
  DEF GuardNext

LEMMA ShownEntitles == GuardInv /\ incoming.at = "admitted" => Entitled(seen, incoming.user, incoming.company)
<1> SUFFICES ASSUME GuardInv, incoming.at = "admitted" PROVE Entitled(seen, incoming.user, incoming.company)
  OBVIOUS
<1>1. incoming.role \in Roles /\ incoming.user \in Users /\ Shown(incoming)
  BY DEF GuardInv, GuardTypeOK, IncomingRows
<1>2. Authentic(seen, incoming.user)
  BY <1>1 DEF Authentic, Shown, ShownWho, ShownWhere, ShownWhat, HasPermission, PastSession, PastAccount,
     PastTenant, PastFeature
<1>3. InsideTenant(seen, incoming.user, incoming.company)
  BY <1>1 DEF InsideTenant, Roles, Shown, ShownWho, ShownWhere, ShownWhat, HasPermission, PastSession,
     PastAccount, PastTenant, PastFeature
<1>4. Allowed(seen, incoming.user, incoming.company)
  BY <1>1 DEF Allowed, Shown, ShownWho, ShownWhere, ShownWhat, HasPermission, PastSession, PastAccount,
     PastTenant, PastFeature
<1> QED BY <1>2, <1>3, <1>4 DEF Entitled

\* However rows change while a request passes the guards, one that is admitted had
\* each fact it needs, and one that is refused while nothing changed lacked one.
THEOREM AdmittedOnlyWhenEntitled == GuardSpec => []AdmittedWhenEntitled
<1>1. GuardInv /\ [GuardNext]_guardVars => GuardInv'
  <2> SUFFICES ASSUME GuardInv, UNCHANGED guardVars PROVE GuardInv'
    BY GuardStep
  <2> QED
    BY DEF guardVars, GuardInv, GuardTypeOK, FactsNow, Who, Where, CompanyOf, Entitled, Authentic, InsideTenant,
           Allowed, KnowsWhom, Shown, ShownWho, ShownWhere, ShownWhat, HasPermission, PastSession, PastAccount, PastTenant, PastFeature
<1>2. GuardInv => AdmittedWhenEntitled
  BY ShownEntitles DEF GuardInv, AdmittedWhenEntitled
<1> QED BY <1>1, <1>2, GuardInitial, PTL DEF GuardSpec

----------------------------------------------------------------------------
(* Field visits: a call for photos that was not overtaken has a list that   *)
(* holds every photo of its visit.                                          *)

Dated(v) ==
  /\ visits[v].status = "COMPLETED" \/ visits[v].signed => visits[v].completedAt
  /\ visits[v].status = "absent" => visits[v].photos = {} /\ ~visits[v].completedAt

ListInv(r) ==
  /\ visitCall[r].at # "idle" => visitCall[r].todo \subseteq Made
  /\ visitCall[r].at = "photos" =>
    \E v \in Visits :
      visitCall[r].todo = {v} /\ (visitCall[r].fresh => visits[v].photos \subseteq visitCall[r].list)

VisitInv == VisitTypeOK /\ (\A v \in Visits : Dated(v)) /\ (\A r \in Requests : ListInv(r))

LEMMA VisitInitial == VisitInit => VisitInv
<1> SUFFICES ASSUME VisitInit PROVE VisitInv
  OBVIOUS
<1>1. NoVisit \in VisitRows /\ NoVisitCall \in VisitCalls /\ NoVisitCall.at = "idle"
  BY DEF NoVisit, VisitRows, NoVisitCall, VisitStep, VisitCalls, VisitSteps
<1>2. VisitTypeOK
  BY <1>1 DEF VisitInit, VisitTypeOK
<1>3. \A v \in Visits : Dated(v)
  BY DEF VisitInit, Dated, NoVisit
<1>4. \A r \in Requests : ListInv(r)
  BY <1>1 DEF VisitInit, ListInv
<1> QED BY <1>2, <1>3, <1>4 DEF VisitInv

\* A call moves and no visit changes.
LEMMA CallMoves ==
  ASSUME VisitInv, NEW r \in Requests, NEW row \in VisitCalls, Calls(r, row), UNCHANGED visits,
         row.at # "idle" => row.todo \subseteq Made,
         row.at = "photos" => \E v \in Visits : row.todo = {v} /\ visits[v].photos \subseteq row.list
  PROVE  VisitInv' /\ \A v \in Visits : KeptBetween(v)
<1>1. VisitTypeOK'
  BY DEF VisitInv, VisitTypeOK, Calls
<1>2. \A v \in Visits : Dated(v)'
  BY DEF VisitInv, Dated
<1>3. ASSUME NEW q \in Requests PROVE ListInv(q)'
  <2>1. CASE q = r
    BY <2>1 DEF VisitInv, VisitTypeOK, ListInv, Calls, Made
  <2>2. CASE q # r
    BY <2>2 DEF VisitInv, VisitTypeOK, ListInv, Calls, Made
  <2> QED BY <2>1, <2>2
<1>4. \A v \in Visits : KeptBetween(v)
  BY DEF VisitInv, Dated, KeptBetween
<1> QED BY <1>1, <1>2, <1>3, <1>4 DEF VisitInv

\* A call ends, or goes on with fewer visits; a call for photos is as it was.
GoesOn(r) ==
  \/ visitCall'[r].at = "idle"
  \/ /\ visitCall'[r].todo \subseteq visitCall[r].todo
     /\ visitCall'[r].at = visitCall[r].at
     /\ visitCall[r].at = "photos" => visitCall'[r] = visitCall[r]

\* One visit changes and keeps its photos; the calls go on.
LEMMA VisitChanges ==
  ASSUME VisitInv, NEW v \in Visits, NEW row \in VisitRows, visits' = [visits EXCEPT ![v] = row],
         row.photos = visits[v].photos, visits[v].completedAt => row.completedAt, row.status # "absent",
         row.status = "COMPLETED" \/ row.signed => row.completedAt,
         visitCall' \in [Requests -> VisitCalls],
         \A r \in Requests : GoesOn(r)
  PROVE  VisitInv' /\ \A w \in Visits : KeptBetween(w)
<1>1. VisitTypeOK'
  BY DEF VisitInv, VisitTypeOK
<1>2. \A w \in Visits : visits'[w].photos = visits[w].photos
  BY DEF VisitInv, VisitTypeOK
<1>3. \A w \in Visits : Dated(w)'
  BY DEF VisitInv, VisitTypeOK, Dated
<1>4. ASSUME NEW r \in Requests PROVE ListInv(r)'
  <2>1. Made \subseteq Made'
    BY DEF VisitInv, VisitTypeOK, Made
  <2>2. CASE visitCall'[r].at = "idle"
    BY <2>2 DEF ListInv
  <2>3. CASE visitCall'[r].at # "idle" /\ visitCall[r].at = "photos"
    <3>1. visitCall'[r] = visitCall[r]
      BY <2>3 DEF GoesOn
    <3>2. visitCall'[r].todo \subseteq Made'
      BY <2>1, <2>3, <3>1 DEF VisitInv, ListInv
    <3>3. PICK w \in Visits : visitCall[r].todo = {w} /\ (visitCall[r].fresh => visits[w].photos \subseteq visitCall[r].list)
      BY <2>3 DEF VisitInv, ListInv
    <3>4. visitCall'[r].todo = {w} /\ (visitCall'[r].fresh => visits'[w].photos \subseteq visitCall'[r].list)
      BY <1>2, <3>1, <3>3
    <3> QED BY <3>2, <3>4 DEF ListInv
  <2>4. CASE visitCall'[r].at # "idle" /\ visitCall[r].at # "photos"
    <3>1. visitCall'[r].todo \subseteq visitCall[r].todo /\ visitCall'[r].at = visitCall[r].at
      BY <2>4 DEF GoesOn
    <3>2. visitCall[r].todo \subseteq Made
      BY <2>4, <3>1 DEF VisitInv, ListInv
    <3> QED BY <2>1, <2>4, <3>1, <3>2 DEF ListInv
  <2> QED BY <2>2, <2>3, <2>4
<1>5. \A w \in Visits : KeptBetween(w)
  BY <1>2, <1>3 DEF VisitInv, VisitTypeOK, Dated, KeptBetween
<1> QED BY <1>1, <1>3, <1>4, <1>5 DEF VisitInv

LEMMA CompletedRow ==
  ASSUME NEW row \in VisitRows, NEW status \in {"open", "COMPLETED"},
         row.status = "COMPLETED" \/ row.signed => row.completedAt
  PROVE  LET next == Completed(row, status) IN
         /\ next \in VisitRows /\ next.photos = row.photos /\ next.status = status
         /\ row.completedAt => next.completedAt
         /\ next.status = "COMPLETED" \/ next.signed => next.completedAt
         /\ next.signed = row.signed
BY DEF Completed, VisitRows

LEMMA VisitWritePhotos ==
  ASSUME VisitInv, NEW r \in Requests, WritePhotos(r)
  PROVE  VisitInv' /\ \A v \in Visits : KeptBetween(v)
<1>1. PICK v \in Visits : visitCall[r].todo = {v} /\ (visitCall[r].fresh => visits[v].photos \subseteq visitCall[r].list)
  BY DEF VisitInv, ListInv, WritePhotos
<1>2. /\ visitCall[r].at = "photos" /\ visits' = [visits EXCEPT ![v].photos = visitCall[r].list]
      /\ visitCall' = ListWritten(r, v)
  BY <1>1 DEF WritePhotos
<1>3. NoVisitCall \in VisitCalls /\ NoVisitCall.at = "idle"
  BY DEF NoVisitCall, VisitStep, VisitCalls, VisitSteps
<1>4. VisitTypeOK'
  <2>1. visits' \in [Visits -> VisitRows]
    BY <1>2 DEF VisitInv, VisitTypeOK, VisitRows, VisitCalls
  <2>2. visitCall' \in [Requests -> VisitCalls]
    BY <1>2, <1>3 DEF VisitInv, VisitTypeOK, VisitCalls, ListWritten
  <2> QED BY <2>1, <2>2 DEF VisitTypeOK
<1>5. \A w \in Visits : w # v => visits'[w] = visits[w]
  BY <1>2 DEF VisitInv, VisitTypeOK
<1>6. /\ visits'[v].status = visits[v].status /\ visits'[v].signed = visits[v].signed
      /\ visits'[v].completedAt = visits[v].completedAt /\ visits'[v].photos = visitCall[r].list
  BY <1>2 DEF VisitInv, VisitTypeOK, VisitRows
<1>7. \A w \in Visits : Dated(w)'
  <2>1. visits[v].status # "absent"
    BY <1>1, <1>2 DEF VisitInv, ListInv, Made
  <2> QED BY <1>5, <1>6, <2>1 DEF VisitInv, Dated
<1>8. ASSUME NEW q \in Requests PROVE ListInv(q)'
  <2>1. CASE q = r
    BY <1>2, <1>3, <2>1 DEF ListWritten, ListInv
  <2>2. CASE q # r
    <3> SUFFICES ASSUME visitCall'[q].at # "idle" PROVE ListInv(q)'
      BY DEF ListInv
    <3>1. /\ visitCall'[q].at = visitCall[q].at /\ visitCall'[q].todo = visitCall[q].todo
          /\ visitCall'[q].list = visitCall[q].list
          /\ visitCall'[q].fresh /\ visitCall[q].at = "photos" => visitCall[q].fresh /\ v \notin visitCall[q].todo
      BY <1>2, <2>2 DEF VisitInv, VisitTypeOK, VisitCalls, ListWritten
    <3>4. visitCall'[q].todo \subseteq Made'
      <4>1. visitCall[q].todo \subseteq Made
        BY <3>1 DEF VisitInv, ListInv
      <4>2. Made \subseteq Made'
        BY <1>5, <1>6 DEF Made
      <4> QED BY <3>1, <4>1, <4>2
    <3>2. ASSUME visitCall'[q].at = "photos"
          PROVE  \E w \in Visits :
                   visitCall'[q].todo = {w} /\ (visitCall'[q].fresh => visits'[w].photos \subseteq visitCall'[q].list)
      <4>1. PICK w \in Visits :
              visitCall[q].todo = {w} /\ (visitCall[q].fresh => visits[w].photos \subseteq visitCall[q].list)
        BY <3>1, <3>2 DEF VisitInv, ListInv
      <4> QED BY <1>5, <3>1, <3>2, <4>1
    <3> QED BY <3>2, <3>4 DEF ListInv
  <2> QED BY <2>1, <2>2
<1>9. ASSUME NEW w \in Visits PROVE KeptBetween(w)
  <2>1. visits[w].photos \subseteq visits'[w].photos \/ \E q \in Requests : Outrun(q, w)
    BY <1>1, <1>2, <1>5, <1>6 DEF Outrun
  <2> QED BY <1>5, <1>6, <1>7, <2>1 DEF KeptBetween, Dated
<1> QED BY <1>4, <1>7, <1>8, <1>9 DEF VisitInv

LEMMA VisitStepKeeps == VisitInv /\ VisitNext => VisitInv' /\ \A v \in Visits : KeptBetween(v)
<1> SUFFICES ASSUME VisitInv, VisitNext PROVE VisitInv' /\ \A v \in Visits : KeptBetween(v)
  OBVIOUS
<1>1. ASSUME NEW v \in Visits, CreateVisit(v) \/ AddSignature(v)
      PROVE  VisitInv' /\ \A w \in Visits : KeptBetween(w)
  <2>1. /\ visits[v] \in VisitRows /\ Dated(v)
        /\ visitCall' \in [Requests -> VisitCalls] /\ \A r \in Requests : GoesOn(r)
    BY <1>1 DEF GoesOn, VisitInv, VisitTypeOK, CreateVisit, AddSignature
  <2>2. PICK row \in VisitRows :
          /\ visits' = [visits EXCEPT ![v] = row]
          /\ row.photos = visits[v].photos /\ row.status # "absent"
          /\ visits[v].completedAt => row.completedAt
          /\ row.status = "COMPLETED" \/ row.signed => row.completedAt
    <3>1. CASE CreateVisit(v)
      <4>1. [NoVisit EXCEPT !.status = "open"] \in VisitRows
        BY DEF NoVisit, VisitRows
      <4> QED BY <2>1, <3>1, <4>1 DEF CreateVisit, NoVisit, Dated
    <3>2. CASE AddSignature(v)
      <4>1. PICK done \in VisitRows :
              /\ done = Completed(visits[v], "COMPLETED") /\ done.photos = visits[v].photos
              /\ done.status = "COMPLETED" /\ done.completedAt
        BY <2>1, CompletedRow DEF Dated
      <4>2. [done EXCEPT !.signed = TRUE] \in VisitRows
        BY DEF VisitRows
      <4>3. visits' = [visits EXCEPT ![v] = [done EXCEPT !.signed = TRUE]]
        BY <3>2, <4>1 DEF AddSignature, VisitInv, VisitTypeOK
      <4>4. /\ [done EXCEPT !.signed = TRUE].photos = visits[v].photos
            /\ [done EXCEPT !.signed = TRUE].status # "absent"
            /\ [done EXCEPT !.signed = TRUE].completedAt
        BY <4>1 DEF VisitRows
      <4> QED BY <4>2, <4>3, <4>4
    <3> QED BY <1>1, <3>1, <3>2
  <2> QED BY <2>1, <2>2, VisitChanges
<1>2. ASSUME NEW r \in Requests, UpdateStatus(r)
      PROVE  VisitInv' /\ \A w \in Visits : KeptBetween(w)
  <2>1. PICK v \in visitCall[r].todo :
          /\ visits' = [visits EXCEPT ![v] = Completed(@, visitCall[r].status)]
          /\ Calls(r, IF visitCall[r].todo = {v} THEN NoVisitCall ELSE [visitCall[r] EXCEPT !.todo = @ \ {v}])
    BY <1>2 DEF UpdateStatus
  <2>2. v \in Visits /\ visits[v] \in VisitRows /\ Dated(v) /\ visitCall[r].status \in {"open", "COMPLETED"}
        /\ visitCall[r] \in VisitCalls /\ visitCall[r].at = "status"
    BY <1>2 DEF VisitInv, VisitTypeOK, VisitCalls, UpdateStatus
  <2>3. PICK row \in VisitRows :
          /\ visits' = [visits EXCEPT ![v] = row]
          /\ row.photos = visits[v].photos /\ row.status # "absent"
          /\ visits[v].completedAt => row.completedAt
          /\ row.status = "COMPLETED" \/ row.signed => row.completedAt
    BY <2>1, <2>2, CompletedRow DEF Dated, VisitInv, VisitTypeOK
  <2>4. PICK call \in VisitCalls :
          /\ Calls(r, call)
          /\ call.at = "idle" \/ (call.at = "status" /\ call.todo \subseteq visitCall[r].todo)
    <3>1. NoVisitCall \in VisitCalls /\ NoVisitCall.at = "idle"
      BY DEF NoVisitCall, VisitStep, VisitCalls, VisitSteps
    <3>2. [visitCall[r] EXCEPT !.todo = @ \ {v}] \in VisitCalls
      BY <2>2 DEF VisitCalls
    <3> QED BY <2>1, <2>2, <3>1, <3>2 DEF VisitCalls
  <2>5. visitCall' \in [Requests -> VisitCalls]
    BY <2>4 DEF Calls, VisitInv, VisitTypeOK
  <2>6. \A q \in Requests : GoesOn(q)
    BY <2>2, <2>4 DEF GoesOn, Calls, VisitInv, VisitTypeOK
  <2> QED BY <2>2, <2>3, <2>5, <2>6, VisitChanges
<1>3. ASSUME NEW r \in Requests, NEW todo \in SUBSET Visits, NEW status \in {"open", "COMPLETED"},
             BeginStatus(r, todo, status)
      PROVE  VisitInv' /\ \A w \in Visits : KeptBetween(w)
  <2>1. VisitStep("status", todo, status, {}) \in VisitCalls
    BY DEF VisitStep, VisitCalls, VisitSteps
  <2> QED BY <1>3, <2>1, CallMoves DEF BeginStatus, VisitStep
<1>4. ASSUME NEW r \in Requests, NEW v \in Visits, NEW p \in Photos, BeginPhotos(r, v, p)
      PROVE  VisitInv' /\ \A w \in Visits : KeptBetween(w)
  <2>1. Appended(v, p) \in SUBSET Photos /\ visits[v].photos \subseteq Appended(v, p)
    BY DEF Appended, VisitInv, VisitTypeOK, VisitRows
  <2>2. VisitStep("photos", {v}, "open", Appended(v, p)) \in VisitCalls
    BY <2>1 DEF VisitStep, VisitCalls, VisitSteps
  <2> QED BY <1>4, <2>1, <2>2, CallMoves DEF BeginPhotos, VisitStep
<1>5. ASSUME NEW r \in Requests, VisitCallStops(r)
      PROVE  VisitInv' /\ \A w \in Visits : KeptBetween(w)
  <2>1. NoVisitCall \in VisitCalls /\ NoVisitCall.at = "idle"
    BY DEF NoVisitCall, VisitStep, VisitCalls, VisitSteps
  <2> QED BY <1>5, <2>1, CallMoves DEF VisitCallStops
<1> QED BY <1>1, <1>2, <1>3, <1>4, <1>5, VisitWritePhotos DEF VisitNext

\* Whatever people do to visits at once, photos are lost only by a call that another
\* overtook, and a completed or signed visit keeps the date of its completion.
THEOREM EvidenceIsAlwaysKept == VisitSpec => EvidenceIsKept
<1>1. VisitInv /\ [VisitNext]_visitVars => VisitInv'
  BY VisitStepKeeps DEF visitVars, VisitInv, VisitTypeOK, Dated, ListInv, Made
<1>2. VisitInv /\ [VisitNext]_visitVars => [\A v \in Visits : KeptBetween(v)]_visitVars
  BY VisitStepKeeps
<1> QED BY <1>1, <1>2, VisitInitial, PTL DEF VisitSpec, EvidenceIsKept

----------------------------------------------------------------------------
(* Catalogue requests: a look-up that nobody outdated still says what the   *)
(* row says, so that a decision finds it pending, and undecided.            *)

Decisions == {"APPROVED", "REJECTED"}

StillDecidable(r) ==
  LET h == handling[r] IN
  /\ h.at = "decide" =>
       h.status \in Decisions /\ (h.status = "APPROVED" => h.reason = "kept")
  /\ h.at \in {"fulfill", "remove"} => h.reason = "kept"
  /\ h.at = "fulfill" => h.status = "FULFILLED"
  /\ h.at = "remove" => h.status = "deleted"
  /\ h.fresh /\ h.at = "decide" => catalogRequest.status = "PENDING"
  /\ h.fresh /\ h.at = "fulfill" => catalogRequest.status = "APPROVED"

Counted ==
  ~statusEdited /\ ~requestOutdated =>
    /\ approvals + rejections <= 1 /\ catalogRequest.status # "CANCELLED"
    /\ catalogRequest.status \in {"absent", "PENDING"} => approvals = 0 /\ rejections = 0
    /\ catalogRequest.status \in {"APPROVED", "FULFILLED"} => approvals = 1 /\ rejections = 0 /\ catalogRequest.decided
    /\ catalogRequest.status = "REJECTED" => rejections = 1
    /\ catalogRequest.reason /\ ~reasonEdited => rejections = 1

CatalogInv ==
  CatalogTypeOK /\ Counted /\ \A r \in Requests : StillDecidable(r)

HandlingRows ==
  [at : {"idle", "decide", "fulfill", "edit", "remove"}, status : CatalogStatuses \cup {"kept", "deleted"},
   reason : Reasons, fresh : BOOLEAN]

LEMMA NotHandlingRow == NotHandling \in HandlingRows /\ NotHandling.at = "idle"
BY DEF NotHandling, Handles, HandlingRows, Reasons

LEMMA CatalogInitial == CatalogInit => CatalogInv
<1> SUFFICES ASSUME CatalogInit PROVE CatalogInv
  OBVIOUS
<1>1. 0 \in 0 .. MaxDecisions
  BY CatalogAssumption
<1>2. CatalogRow("absent", FALSE, FALSE) \in CatalogRows
  BY DEF CatalogRow, CatalogRows
<1>3. handling \in [Requests -> HandlingRows]
  BY NotHandlingRow DEF CatalogInit
<1>4. CatalogTypeOK
  BY <1>1, <1>2, <1>3 DEF CatalogInit, CatalogTypeOK, HandlingRows
<1>5. Counted
  BY DEF CatalogInit, Counted, CatalogRow
<1> QED BY <1>4, <1>5, NotHandlingRow DEF CatalogInit, CatalogInv, StillDecidable

\* A request reads the row.
LEMMA CatalogReads ==
  ASSUME CatalogInv, NEW r \in Requests, NEW step \in HandlingRows, BeginHandling(r, step),
         step.at = "decide" => /\ catalogRequest.status = "PENDING" /\ step.status \in Decisions
                               /\ step.status = "APPROVED" => step.reason = "kept",
         step.at = "fulfill" =>
           catalogRequest.status = "APPROVED" /\ step.status = "FULFILLED" /\ step.reason = "kept",
         step.at = "remove" => step.status = "deleted" /\ step.reason = "kept"
  PROVE  CatalogInv'
<1>1. CatalogTypeOK'
  BY DEF BeginHandling, CatalogInv, CatalogTypeOK, HandlingRows
<1>2. Counted'
  BY DEF BeginHandling, CatalogInv, Counted
<1>3. \A q \in Requests : StillDecidable(q)'
  BY DEF BeginHandling, CatalogInv, CatalogTypeOK, StillDecidable
<1> QED BY <1>1, <1>2, <1>3 DEF CatalogInv

\* What a request leaves in the row.
LEMMA CatalogRowWritten ==
  ASSUME CatalogInv, NEW r \in Requests, WriteRequest(r)
  PROVE  /\ catalogRequest' \in CatalogRows /\ requestOutdated' \in BOOLEAN
         /\ ~requestOutdated' => ~requestOutdated
         /\ ~requestOutdated' /\ handling[r].status # "kept" => handling[r].fresh
         /\ \/ catalogRequest' = catalogRequest
            \/ /\ catalogRequest'.status =
                    IF handling[r].status = "kept" THEN catalogRequest.status ELSE handling[r].status
               /\ catalogRequest'.decided = (catalogRequest.decided \/ handling[r].at = "decide")
               /\ catalogRequest'.reason =
                    IF handling[r].reason = "kept" THEN catalogRequest.reason ELSE handling[r].reason = "given"
         /\ Exists => catalogRequest'.status =
                        IF handling[r].status = "kept" THEN catalogRequest.status ELSE handling[r].status
<1>1. catalogRequest \in CatalogRows /\ handling[r] \in HandlingRows /\ requestOutdated \in BOOLEAN
  BY DEF CatalogInv, CatalogTypeOK, HandlingRows
<1>2. /\ ~requestOutdated' => ~requestOutdated
      /\ ~requestOutdated' /\ handling[r].status # "kept" => handling[r].fresh
      /\ requestOutdated' \in BOOLEAN
  BY <1>1 DEF WriteRequest, HandlingRows
<1>3. CASE Exists
  <2> DEFINE status == IF handling[r].status = "kept" THEN catalogRequest.status ELSE handling[r].status
             decided == catalogRequest.decided \/ handling[r].at = "decide"
             reason == IF handling[r].reason = "kept" THEN catalogRequest.reason ELSE handling[r].reason = "given"
  <2>1. catalogRequest' = CatalogRow(status, decided, reason)
    BY <1>3 DEF WriteRequest
  <2>2. status \in CatalogStatuses \cup {"absent", "deleted"} /\ decided \in BOOLEAN /\ reason \in BOOLEAN
    BY <1>1 DEF CatalogRows, HandlingRows
  <2>3. catalogRequest' \in CatalogRows /\ catalogRequest'.status = status
        /\ catalogRequest'.decided = decided /\ catalogRequest'.reason = reason
    <3> HIDE DEF status, decided, reason
    <3> QED BY <2>1, <2>2 DEF CatalogRow, CatalogRows
  <2> QED BY <1>2, <2>3
<1>4. CASE ~Exists
  BY <1>1, <1>2, <1>4 DEF WriteRequest
<1> QED BY <1>3, <1>4

\* A new status outdates what the others have read, and an old one does not.
LEMMA CatalogWrites ==
  ASSUME CatalogInv, NEW r \in Requests, WriteRequest(r),
         approvals' \in 0 .. MaxDecisions, rejections' \in 0 .. MaxDecisions,
         statusEdited' \in BOOLEAN, reasonEdited' \in BOOLEAN, Counted'
  PROVE  CatalogInv'
<1>0. /\ handling \in [Requests -> HandlingRows]
      /\ handling' = IF handling[r].status = "kept" THEN [handling EXCEPT ![r] = NotHandling]
                     ELSE Overwritten(handling, r, NotHandling)
  BY DEF WriteRequest, CatalogInv, CatalogTypeOK, HandlingRows
<1>1. handling' \in [Requests -> HandlingRows]
  <2>1. Outdated(handling) \in [Requests -> HandlingRows]
    BY <1>0 DEF Outdated, HandlingRows
  <2> QED BY <1>0, <2>1, NotHandlingRow DEF Overwritten
<1>2. CatalogTypeOK'
  BY <1>1, CatalogRowWritten DEF CatalogTypeOK, HandlingRows
<1>3. CASE handling[r].status = "kept"
  <2>1. catalogRequest'.status = catalogRequest.status
    BY <1>3, CatalogRowWritten
  <2>2. \A q \in Requests : handling'[q].at = "idle" \/ handling'[q] = handling[q]
    BY <1>3, NotHandlingRow DEF WriteRequest, CatalogInv, CatalogTypeOK
  <2> QED BY <1>2, <2>1, <2>2 DEF CatalogInv, StillDecidable
<1>4. CASE handling[r].status # "kept"
  <2>1. \A q \in Requests :
          handling'[q].at = "idle" \/ /\ ~handling'[q].fresh /\ handling'[q].at = handling[q].at
                                      /\ handling'[q].status = handling[q].status
                                      /\ handling'[q].reason = handling[q].reason
    BY <1>0, <1>4, NotHandlingRow DEF Overwritten, Outdated, HandlingRows
  <2> QED BY <1>2, <2>1 DEF CatalogInv, StillDecidable
<1> QED BY <1>3, <1>4

LEMMA CatalogWriteDecided == ASSUME CatalogInv, NEW r \in Requests, WriteDecided(r) PROVE CatalogInv'
<1> DEFINE h == handling[r]
<1>1. WriteRequest(r) /\ h.at = "decide" /\ h.status \in Decisions /\ (h.status = "APPROVED" => h.reason = "kept")
  BY DEF WriteDecided, CatalogInv, StillDecidable
<1>2. approvals \in 0 .. MaxDecisions /\ rejections \in 0 .. MaxDecisions /\ approvals + rejections < MaxDecisions
  BY DEF WriteDecided, CatalogInv, CatalogTypeOK
<1>3. approvals' \in 0 .. MaxDecisions /\ rejections' \in 0 .. MaxDecisions
  BY <1>2, CatalogAssumption DEF WriteDecided
<1>4. statusEdited' = statusEdited /\ reasonEdited' = reasonEdited
      /\ statusEdited' \in BOOLEAN /\ reasonEdited' \in BOOLEAN
  BY DEF WriteDecided, CatalogInv, CatalogTypeOK
<1>5. Counted'
  <2> SUFFICES ASSUME ~statusEdited', ~requestOutdated' PROVE Counted'
    BY DEF Counted
  <2>1. ~statusEdited /\ ~requestOutdated /\ catalogRequest.status = "PENDING"
    BY <1>1, <1>4, CatalogRowWritten DEF Decisions, CatalogInv, StillDecidable
  <2>2. approvals = 0 /\ rejections = 0 /\ (catalogRequest.reason => reasonEdited)
    BY <2>1 DEF CatalogInv, Counted
  <2>3. Exists /\ catalogRequest'.status = h.status
    BY <1>1, <2>1, CatalogRowWritten DEF Exists, CatalogStatuses, Decisions
  <2>4. catalogRequest'.decided /\ (h.reason = "kept" => catalogRequest'.reason = catalogRequest.reason)
    <3>1. catalogRequest' # catalogRequest
      BY <1>1, <2>1, <2>3 DEF Decisions
    <3> QED BY <1>1, <3>1, CatalogRowWritten
  <2>5. CASE h.status = "APPROVED"
    <3>1. approvals' = 1 /\ rejections' = 0
      BY <2>2, <2>5 DEF WriteDecided
    <3>2. catalogRequest'.reason = catalogRequest.reason
      BY <1>1, <2>4, <2>5
    <3> QED BY <1>4, <2>2, <2>3, <2>4, <2>5, <3>1, <3>2 DEF Counted
  <2>6. CASE h.status = "REJECTED"
    <3>1. approvals' = 0 /\ rejections' = 1
      BY <2>2, <2>6 DEF WriteDecided
    <3> QED BY <2>3, <2>6, <3>1 DEF Counted
  <2> QED BY <1>1, <2>5, <2>6 DEF Decisions
<1> QED BY <1>1, <1>3, <1>4, <1>5, CatalogWrites

LEMMA CatalogWriteFulfilled ==
  ASSUME CatalogInv, NEW r \in Requests, WriteFulfilled(r) \/ RemoveRequest(r)
  PROVE  CatalogInv'
<1>1. WriteRequest(r) /\ UNCHANGED <<approvals, rejections, statusEdited, reasonEdited>>
  BY DEF WriteFulfilled, RemoveRequest
<1>2. /\ handling[r].reason = "kept" /\ handling[r].at # "decide"
      /\ handling[r].status = "deleted" \/ (handling[r].status = "FULFILLED" /\ handling[r].at = "fulfill")
  BY DEF WriteFulfilled, RemoveRequest, CatalogInv, StillDecidable
<1>3. Counted'
  <2> SUFFICES ASSUME ~statusEdited', ~requestOutdated' PROVE Counted'
    BY DEF Counted
  <2>1. ~statusEdited /\ ~requestOutdated /\ handling[r].fresh
    BY <1>1, <1>2, CatalogRowWritten
  <2>2. CASE catalogRequest' = catalogRequest
    BY <1>1, <2>1, <2>2 DEF CatalogInv, Counted
  <2>3. CASE /\ catalogRequest'.status = handling[r].status
             /\ catalogRequest'.decided = catalogRequest.decided /\ catalogRequest'.reason = catalogRequest.reason
    <3>1. CASE handling[r].status = "deleted"
      BY <1>1, <2>1, <2>3, <3>1 DEF CatalogInv, Counted
    <3>2. CASE handling[r].status = "FULFILLED" /\ handling[r].at = "fulfill"
      <4>1. catalogRequest.status = "APPROVED"
        BY <2>1, <3>2 DEF CatalogInv, StillDecidable
      <4> QED BY <1>1, <2>1, <2>3, <3>2, <4>1 DEF CatalogInv, Counted
    <3> QED BY <1>2, <3>1, <3>2
  <2>4. catalogRequest.decided \in BOOLEAN
    BY DEF CatalogInv, CatalogTypeOK, CatalogRows
  <2> QED BY <1>1, <1>2, <2>2, <2>3, <2>4, CatalogRowWritten
<1> QED BY <1>1, <1>3, CatalogWrites DEF CatalogInv, CatalogTypeOK

LEMMA CatalogWriteEdited == ASSUME CatalogInv, NEW r \in Requests, WriteEdited(r) PROVE CatalogInv'
<1>1. /\ WriteRequest(r) /\ handling[r].at = "edit" /\ approvals' = approvals /\ rejections' = rejections
      /\ statusEdited' = (statusEdited \/ handling[r].status # "kept")
      /\ reasonEdited' = (reasonEdited \/ handling[r].reason # "kept")
  BY DEF WriteEdited
<1>2. Counted'
  <2> SUFFICES ASSUME ~statusEdited', ~requestOutdated' PROVE Counted'
    BY DEF Counted
  <2>1. ~statusEdited /\ ~requestOutdated /\ handling[r].status = "kept"
    BY <1>1, CatalogRowWritten
  <2>2. catalogRequest'.status = catalogRequest.status /\ catalogRequest'.decided = catalogRequest.decided
    <3>1. catalogRequest.decided \in BOOLEAN
      BY DEF CatalogInv, CatalogTypeOK, CatalogRows
    <3> QED BY <1>1, <2>1, <3>1, CatalogRowWritten
  <2>3. ~reasonEdited' => ~reasonEdited /\ catalogRequest'.reason = catalogRequest.reason
    BY <1>1, CatalogRowWritten
  <2> QED BY <1>1, <2>1, <2>2, <2>3 DEF CatalogInv, Counted
<1>3. statusEdited' \in BOOLEAN /\ reasonEdited' \in BOOLEAN
  BY <1>1
<1> QED BY <1>1, <1>2, <1>3, CatalogWrites DEF CatalogInv, CatalogTypeOK

LEMMA CatalogStep == CatalogInv /\ CatalogNext => CatalogInv'
<1> SUFFICES ASSUME CatalogInv, CatalogNext PROVE CatalogInv'
  OBVIOUS
<1>1. CASE CreateRequest
  <2>1. CatalogRow("PENDING", FALSE, FALSE) \in CatalogRows
    BY DEF CatalogRow, CatalogRows, CatalogStatuses
  <2>2. CatalogTypeOK'
    BY <1>1, <2>1 DEF CreateRequest, CatalogInv, CatalogTypeOK
  <2>3. Counted'
    BY <1>1 DEF CreateRequest, CatalogRow, CatalogInv, CatalogTypeOK, Counted
  <2>4. \A r \in Requests : StillDecidable(r)'
    BY <1>1 DEF CreateRequest, CatalogRow, CatalogInv, StillDecidable
  <2> QED BY <2>2, <2>3, <2>4 DEF CatalogInv
<1>2. ASSUME NEW r \in Requests, NEW reason \in Reasons, FindToApprove(r) \/ FindToReject(r, reason)
      PROVE  CatalogInv'
  <2>1. Handles("decide", "APPROVED", "kept") \in HandlingRows /\ Handles("decide", "REJECTED", reason) \in HandlingRows
    BY DEF Handles, HandlingRows, CatalogStatuses, Reasons
  <2> QED BY <1>2, <2>1, CatalogReads DEF FindToApprove, FindToReject, Decidable, Handles, Decisions
<1>3. ASSUME NEW r \in Requests, NEW status \in CatalogStatuses \cup {"kept"}, NEW reason \in Reasons,
             FindToUpdate(r, status, reason) \/ FindToFulfill(r) \/ FindToRemove(r)
      PROVE  CatalogInv'
  <2>1. /\ Handles("fulfill", "FULFILLED", "kept") \in HandlingRows
        /\ Handles("edit", status, reason) \in HandlingRows /\ Handles("remove", "deleted", "kept") \in HandlingRows
    BY DEF Handles, HandlingRows, CatalogStatuses, Reasons
  <2> QED BY <1>3, <2>1, CatalogReads DEF FindToUpdate, FindToFulfill, FindToRemove, Handles
<1>4. "kept" \in Reasons /\ "kept" \in CatalogStatuses \cup {"kept"}
  BY DEF Reasons
<1> QED BY <1>1, <1>2, <1>3, <1>4, CatalogWriteDecided, CatalogWriteFulfilled, CatalogWriteEdited DEF CatalogNext

\* However many decide, edit and remove at once, a request is decided once, and what
\* was fulfilled was approved, unless update wrote a status or an outdated one was
\* overwritten; a rejection reason without a rejection comes from update only.
THEOREM CatalogDecidedOnce == CatalogSpec => []DecidedOnce
<1>1. CatalogInv /\ [CatalogNext]_catalogVars => CatalogInv'
  BY CatalogStep DEF catalogVars, CatalogInv, CatalogTypeOK, Counted, StillDecidable
<1>2. CatalogInv => DecidedOnce
  BY DEF CatalogInv, CatalogTypeOK, CatalogStatuses, Exists, Counted, DecidedOnce
<1> QED BY <1>1, <1>2, CatalogInitial, PTL DEF CatalogSpec

----------------------------------------------------------------------------
(* Maintenance plans: a request about to complete a run that nobody named   *)
(* or outdated finds it pending; its other steps are told by their names.   *)

UpkeepRows == [at : UpkeepSteps, run : 0 .. MaxRuns, ticket : 0 .. MaxRuns, fresh : BOOLEAN]

Upkeeping(r) ==
  /\ upkeep[r].at = "insert" => upkeep[r].ticket \in PlanTickets
  /\ upkeep[r].at = "complete" =>
       /\ upkeep[r].run \in Runs /\ runs[upkeep[r].run].status # "none"
       /\ upkeep[r].fresh /\ upkeep[r].run \notin asTold => runs[upkeep[r].run].status = "SCHEDULED"

Accounted(t) ==
  \/ \E n \in Runs : runs[n].status # "none" /\ runs[n].ticket = t
  \/ \E r \in Requests : upkeep[r].at = "insert" /\ upkeep[r].ticket = t
  \/ t \in orphans

CountedOnce(n) ==
  n \notin runOutdated \cup asTold => times[n] = IF runs[n].status = "COMPLETED" THEN 1 ELSE 0

DatedOrDue ==
  (\E n \in Runs : runs[n].status = "COMPLETED") =>
    dated \/ stops > 0 \/ \E r \in Requests : upkeep[r].at = "date"

MaintenanceInv ==
  /\ MaintenanceTypeOK
  /\ \A r \in Requests : Upkeeping(r)
  /\ \A t \in 1 .. planTickets : Accounted(t)
  /\ \A n \in Runs : CountedOnce(n)
  /\ DatedOrDue

LEMMA NoUpkeepRow == NoUpkeep \in UpkeepRows /\ NoUpkeep.at = "idle"
BY MaintenanceAssumption DEF NoUpkeep, UpkeepRow, UpkeepRows, UpkeepSteps

LEMMA MaintenanceInitial == MaintenanceInit => MaintenanceInv
<1> SUFFICES ASSUME MaintenanceInit PROVE MaintenanceInv
  OBVIOUS
<1>1. 0 \in 0 .. MaxRuns /\ 0 \in 0 .. MaxCompletions /\ 0 \in 0 .. MaxStops
  BY MaintenanceAssumption
<1>2. upkeep \in [Requests -> UpkeepRows]
  BY NoUpkeepRow DEF MaintenanceInit
<1>3. runs \in [Runs -> [status : {"none", "SCHEDULED", "COMPLETED"}, ticket : 0 .. MaxRuns]]
  BY <1>1 DEF MaintenanceInit, NoRun
<1>4. MaintenanceTypeOK
  BY <1>1, <1>2, <1>3 DEF MaintenanceInit, MaintenanceTypeOK, UpkeepRows
<1>5. \A r \in Requests : Upkeeping(r)
  BY NoUpkeepRow DEF MaintenanceInit, Upkeeping
<1>6. (\A n \in Runs : CountedOnce(n)) /\ DatedOrDue
  BY DEF MaintenanceInit, CountedOnce, DatedOrDue, NoRun
<1>7. \A t \in 1 .. planTickets : Accounted(t)
  BY DEF MaintenanceInit
<1> QED BY <1>4, <1>5, <1>6, <1>7 DEF MaintenanceInv

\* A request moves; tickets and runs stay as they are.
LEMMA UpkeepMoves ==
  ASSUME MaintenanceInv, NEW r \in Requests, NEW row \in UpkeepRows, Upkeeps(r, row),
         UNCHANGED <<runs, planTickets, times, runOutdated>>,
         planStatus' \in {"absent", "ACTIVE", "PAUSED", "ARCHIVED"}, dated' \in BOOLEAN, stops' \in 0 .. MaxStops,
         orphans \subseteq orphans', orphans' \subseteq PlanTickets, asTold \subseteq asTold', asTold' \subseteq Runs,
         upkeep[r].at = "insert" => upkeep[r].ticket \in orphans',
         dated => dated', stops > 0 => stops' > 0, upkeep[r].at = "date" => dated' \/ stops' > 0,
         row.at # "insert",
         row.at = "complete" =>
           row.run \in Runs /\ runs[row.run].status # "none" /\ (row.run \in asTold' \/ runs[row.run].status = "SCHEDULED")
  PROVE  MaintenanceInv'
<1>1. upkeep' \in [Requests -> UpkeepRows] /\ upkeep'[r] = row /\ \A q \in Requests : q # r => upkeep'[q] = upkeep[q]
  BY DEF Upkeeps, MaintenanceInv, MaintenanceTypeOK, UpkeepRows
<1>2. MaintenanceTypeOK'
  BY <1>1 DEF MaintenanceInv, MaintenanceTypeOK, UpkeepRows
<1>3. \A q \in Requests : Upkeeping(q)'
  BY <1>1 DEF MaintenanceInv, Upkeeping
<1>4. ASSUME NEW t \in 1 .. planTickets' PROVE Accounted(t)'
  <2>1. Accounted(t)
    BY DEF MaintenanceInv
  <2> QED BY <1>1, <2>1 DEF Accounted
<1>5. \A n \in Runs : CountedOnce(n)'
  BY DEF MaintenanceInv, CountedOnce
<1>6. DatedOrDue'
  BY <1>1 DEF MaintenanceInv, DatedOrDue
<1> QED BY <1>2, <1>3, <1>4, <1>5, <1>6 DEF MaintenanceInv

LEMMA MaintenanceReads ==
  ASSUME MaintenanceInv, NEW r \in Requests,
         FindPlan(r) \/ FindPending(r) \/ DatePlan(r) \/ UpkeepStops(r) \/ \E n \in Runs : FindNamed(r, n)
  PROVE  MaintenanceInv'
<1>1. CASE FindPlan(r)
  <2>1. UpkeepRow("ticket", 0, 0) \in UpkeepRows
    BY MaintenanceAssumption DEF UpkeepRow, UpkeepRows, UpkeepSteps
  <2> QED BY <1>1, <2>1, UpkeepMoves DEF FindPlan, UpkeepRow, MaintenanceInv, MaintenanceTypeOK
<1>2. CASE FindPending(r)
  <2>1. CASE \E n \in Pending : Upkeeps(r, UpkeepRow("complete", n, 0))
    <3>1. PICK n \in Pending : Upkeeps(r, UpkeepRow("complete", n, 0))
      BY <2>1
    <3>2. n \in Runs /\ runs[n].status = "SCHEDULED"
      BY DEF Pending
    <3>3. UpkeepRow("complete", n, 0) \in UpkeepRows
      BY <3>2, MaintenanceAssumption DEF Runs, UpkeepRow, UpkeepRows, UpkeepSteps
    <3> QED BY <1>2, <3>1, <3>2, <3>3, UpkeepMoves DEF FindPending, UpkeepRow, MaintenanceInv, MaintenanceTypeOK
  <2>2. CASE Upkeeps(r, UpkeepRow("insertDone", 0, 0))
    <3>1. UpkeepRow("insertDone", 0, 0) \in UpkeepRows
      BY MaintenanceAssumption DEF UpkeepRow, UpkeepRows, UpkeepSteps
    <3> QED BY <1>2, <2>2, <3>1, UpkeepMoves DEF FindPending, UpkeepRow, MaintenanceInv, MaintenanceTypeOK
  <2> QED BY <1>2, <2>1, <2>2 DEF FindPending
<1>3. CASE DatePlan(r)
  BY <1>3, NoUpkeepRow, UpkeepMoves DEF DatePlan, MaintenanceInv, MaintenanceTypeOK
<1>4. CASE UpkeepStops(r)
  <2>1. orphans \subseteq orphans' /\ orphans' \subseteq PlanTickets /\ (upkeep[r].at = "insert" => upkeep[r].ticket \in orphans')
    BY <1>4 DEF UpkeepStops, MaintenanceInv, MaintenanceTypeOK, Upkeeping
  <2>2. stops' \in 0 .. MaxStops /\ stops' > 0
    BY <1>4, MaintenanceAssumption DEF UpkeepStops, MaintenanceInv, MaintenanceTypeOK
  <2> QED BY <1>4, <2>1, <2>2, NoUpkeepRow, UpkeepMoves DEF UpkeepStops, MaintenanceInv, MaintenanceTypeOK
<1>5. ASSUME NEW n \in Runs, FindNamed(r, n) PROVE MaintenanceInv'
  <2>1. UpkeepRow("complete", n, 0) \in UpkeepRows
    BY MaintenanceAssumption DEF Runs, UpkeepRow, UpkeepRows, UpkeepSteps
  <2> QED BY <1>5, <2>1, UpkeepMoves DEF FindNamed, UpkeepRow, MaintenanceInv, MaintenanceTypeOK
<1> QED BY <1>1, <1>2, <1>3, <1>4, <1>5

LEMMA MaintenanceOpenTicket == ASSUME MaintenanceInv, NEW r \in Requests, OpenPlanTicket(r) PROVE MaintenanceInv'
<1>1. PICK row \in UpkeepRows : Upkeeps(r, row) /\ row.at = "insert" /\ row.ticket = planTickets'
  <2>1. planTickets' \in 0 .. MaxRuns
    BY MaintenanceAssumption DEF OpenPlanTicket, MaintenanceInv, MaintenanceTypeOK
  <2>2. UpkeepRow("insert", 0, planTickets') \in UpkeepRows
    BY <2>1, MaintenanceAssumption DEF UpkeepRow, UpkeepRows, UpkeepSteps
  <2> QED BY <2>2 DEF OpenPlanTicket, UpkeepRow
<1>2. upkeep' \in [Requests -> UpkeepRows] /\ upkeep'[r] = row /\ \A q \in Requests : q # r => upkeep'[q] = upkeep[q]
  BY <1>1 DEF Upkeeps, MaintenanceInv, MaintenanceTypeOK, UpkeepRows
<1>3. /\ planTickets \in Nat /\ planTickets' = planTickets + 1 /\ planTickets' \in PlanTickets /\ planTickets' \in 0 .. MaxRuns
      /\ upkeep[r].at = "ticket"
      /\ UNCHANGED <<planStatus, dated, runs, times, stops, orphans, runOutdated, asTold>>
  BY MaintenanceAssumption DEF OpenPlanTicket, MaintenanceInv, MaintenanceTypeOK, PlanTickets
<1>4. MaintenanceTypeOK'
  BY <1>2, <1>3 DEF MaintenanceInv, MaintenanceTypeOK, UpkeepRows
<1>5. \A q \in Requests : Upkeeping(q)'
  BY <1>1, <1>2, <1>3 DEF MaintenanceInv, Upkeeping
<1>6. ASSUME NEW t \in 1 .. planTickets' PROVE Accounted(t)'
  <2>1. CASE t = planTickets'
    BY <1>1, <1>2, <2>1 DEF Accounted
  <2>2. CASE t # planTickets'
    <3>1. t \in 1 .. planTickets
      BY <1>3, <2>2
    <3>2. Accounted(t)
      BY <3>1 DEF MaintenanceInv
    <3> QED BY <1>2, <1>3, <3>2 DEF Accounted
  <2> QED BY <2>1, <2>2
<1>7. \A n \in Runs : CountedOnce(n)'
  BY <1>3 DEF MaintenanceInv, CountedOnce
<1>8. DatedOrDue'
  BY <1>2, <1>3 DEF MaintenanceInv, DatedOrDue
<1> QED BY <1>4, <1>5, <1>6, <1>7, <1>8 DEF MaintenanceInv

LEMMA MaintenanceInsertRun == ASSUME MaintenanceInv, NEW r \in Requests, InsertRun(r) PROVE MaintenanceInv'
<1>1. PICK n \in Runs :
        runs[n].status = "none" /\ runs' = [runs EXCEPT ![n] = [status |-> "SCHEDULED", ticket |-> upkeep[r].ticket]]
  BY DEF InsertRun
<1>2. /\ upkeep' \in [Requests -> UpkeepRows] /\ upkeep'[r].at = "idle" /\ upkeep[r].at = "insert"
      /\ upkeep[r].ticket \in 0 .. MaxRuns /\ \A q \in Requests : q # r => upkeep'[q] = upkeep[q]
  BY NoUpkeepRow DEF InsertRun, Upkeeps, MaintenanceInv, MaintenanceTypeOK, UpkeepRows
<1>3. /\ runs' \in [Runs -> [status : {"none", "SCHEDULED", "COMPLETED"}, ticket : 0 .. MaxRuns]]
      /\ runs'[n].status = "SCHEDULED" /\ runs'[n].ticket = upkeep[r].ticket
      /\ \A m \in Runs : m # n => runs'[m] = runs[m]
  BY <1>1, <1>2 DEF MaintenanceInv, MaintenanceTypeOK
<1>4. UNCHANGED <<planStatus, dated, planTickets, times, stops, orphans, runOutdated, asTold>>
  BY DEF InsertRun
<1>5. MaintenanceTypeOK'
  BY <1>2, <1>3, <1>4 DEF MaintenanceInv, MaintenanceTypeOK, UpkeepRows
<1>6. \A q \in Requests : Upkeeping(q)'
  BY <1>1, <1>2, <1>3, <1>4 DEF MaintenanceInv, Upkeeping
<1>7. ASSUME NEW t \in 1 .. planTickets' PROVE Accounted(t)'
  <2>1. Accounted(t)
    BY <1>4 DEF MaintenanceInv
  <2>2. CASE t = upkeep[r].ticket
    BY <1>3, <2>2 DEF Accounted
  <2>3. CASE t # upkeep[r].ticket
    BY <1>1, <1>2, <1>3, <1>4, <2>1, <2>3 DEF Accounted
  <2> QED BY <2>2, <2>3
<1>8. \A m \in Runs : CountedOnce(m)'
  BY <1>1, <1>3, <1>4 DEF MaintenanceInv, CountedOnce
<1>9. DatedOrDue'
  BY <1>2, <1>3, <1>4 DEF MaintenanceInv, DatedOrDue
<1> QED BY <1>5, <1>6, <1>7, <1>8, <1>9 DEF MaintenanceInv

\* Run n is completed by request r, which has the plan still to date.
LEMMA MaintenanceCompletes ==
  ASSUME MaintenanceInv, NEW r \in Requests, NEW n \in Runs, Completes(r, n), upkeep[r].at # "insert",
         NEW ticket \in 0 .. MaxRuns, runs' = [runs EXCEPT ![n] = [status |-> "COMPLETED", ticket |-> ticket]],
         runs[n].status # "none" => runs[n].ticket = ticket,
         runOutdated' \subseteq Runs, runOutdated \subseteq runOutdated',
         n \in runOutdated' \cup asTold \/ runs[n].status # "COMPLETED",
         UNCHANGED <<planStatus, dated, planTickets, stops, orphans, asTold>>
  PROVE  MaintenanceInv'
<1>1. /\ runs' \in [Runs -> [status : {"none", "SCHEDULED", "COMPLETED"}, ticket : 0 .. MaxRuns]]
      /\ runs'[n].status = "COMPLETED" /\ runs'[n].ticket = ticket /\ \A m \in Runs : m # n => runs'[m] = runs[m]
  BY DEF MaintenanceInv, MaintenanceTypeOK
<1>2. UpkeepRow("date", 0, 0) \in UpkeepRows /\ UpkeepRow("date", 0, 0).at = "date"
  BY MaintenanceAssumption DEF UpkeepRow, UpkeepRows, UpkeepSteps
<1>3. /\ upkeep' \in [Requests -> UpkeepRows] /\ upkeep'[r].at = "date"
      /\ \A q \in Requests : q # r =>
           /\ upkeep'[q].at = upkeep[q].at /\ upkeep'[q].run = upkeep[q].run /\ upkeep'[q].ticket = upkeep[q].ticket
           /\ upkeep'[q].fresh => upkeep[q].fresh /\ ~(upkeep[q].at = "complete" /\ upkeep[q].run = n)
  BY <1>2 DEF Completes, MaintenanceInv, MaintenanceTypeOK, UpkeepRows
<1>4. /\ times' \in [Runs -> 0 .. MaxCompletions] /\ times'[n] = times[n] + 1 /\ times[n] \in Nat
      /\ \A m \in Runs : m # n => times'[m] = times[m]
  BY MaintenanceAssumption DEF Completes, MaintenanceInv, MaintenanceTypeOK
<1>5. MaintenanceTypeOK'
  BY <1>1, <1>3, <1>4 DEF MaintenanceInv, MaintenanceTypeOK, UpkeepRows
<1>6. ASSUME NEW q \in Requests PROVE Upkeeping(q)'
  <2>1. CASE q = r
    BY <1>3, <2>1 DEF Upkeeping
  <2>2. CASE q # r
    <3>1. Upkeeping(q)
      BY DEF MaintenanceInv
    <3> QED BY <1>1, <1>3, <2>2, <3>1 DEF Upkeeping
  <2> QED BY <2>1, <2>2
<1>7. ASSUME NEW t \in 1 .. planTickets' PROVE Accounted(t)'
  <2>1. Accounted(t)
    BY DEF MaintenanceInv
  <2> QED BY <1>1, <1>3, <2>1 DEF Accounted
<1>8. ASSUME NEW m \in Runs PROVE CountedOnce(m)'
  <2>1. CountedOnce(m)
    BY DEF MaintenanceInv
  <2>2. CASE m = n
    BY <1>1, <1>4, <2>1, <2>2 DEF CountedOnce
  <2>3. CASE m # n
    BY <1>1, <1>4, <2>1, <2>3 DEF CountedOnce
  <2> QED BY <2>2, <2>3
<1>9. DatedOrDue'
  BY <1>3 DEF DatedOrDue
<1> QED BY <1>5, <1>6, <1>7, <1>8, <1>9 DEF MaintenanceInv

LEMMA MaintenanceStep == MaintenanceInv /\ MaintenanceNext => MaintenanceInv'
<1> SUFFICES ASSUME MaintenanceInv, MaintenanceNext PROVE MaintenanceInv'
  OBVIOUS
<1>1. ASSUME NEW status \in {"ACTIVE", "PAUSED", "ARCHIVED"}, WritePlan(status) PROVE MaintenanceInv'
  BY <1>1 DEF WritePlan, MaintenanceInv, MaintenanceTypeOK, Upkeeping, Accounted, CountedOnce, DatedOrDue
<1>2. ASSUME NEW r \in Requests, CompleteRun(r) PROVE MaintenanceInv'
  <2>1. PICK n \in Runs : n = upkeep[r].run /\ runs[n].status # "none"
    BY <1>2 DEF CompleteRun, MaintenanceInv, Upkeeping
  <2>2. PICK ticket \in 0 .. MaxRuns :
          ticket = runs[n].ticket /\ runs' = [runs EXCEPT ![n] = [status |-> "COMPLETED", ticket |-> ticket]]
    <3>1. runs[n] \in [status : {"none", "SCHEDULED", "COMPLETED"}, ticket : 0 .. MaxRuns]
      BY DEF MaintenanceInv, MaintenanceTypeOK
    <3>2. [runs[n] EXCEPT !.status = "COMPLETED"] = [status |-> "COMPLETED", ticket |-> runs[n].ticket]
      BY <3>1
    <3>3. runs' = [runs EXCEPT ![n] = [runs[n] EXCEPT !.status = "COMPLETED"]]
      BY <1>2, <2>1 DEF CompleteRun
    <3> QED BY <3>1, <3>2, <3>3
  <2>3. n \in runOutdated' \cup asTold \/ runs[n].status # "COMPLETED"
    BY <1>2, <2>1 DEF CompleteRun, MaintenanceInv, Upkeeping
  <2>4. runOutdated' \subseteq Runs /\ runOutdated \subseteq runOutdated'
    BY <1>2, <2>1 DEF CompleteRun, MaintenanceInv, MaintenanceTypeOK
  <2>5. Completes(r, n) /\ upkeep[r].at # "insert" /\ UNCHANGED <<planStatus, dated, planTickets, stops, orphans, asTold>>
    BY <1>2, <2>1 DEF CompleteRun
  <2> QED BY <2>2, <2>3, <2>4, <2>5, MaintenanceCompletes
<1>3. ASSUME NEW r \in Requests, InsertCompleted(r) PROVE MaintenanceInv'
  <2>1. PICK n \in Runs :
          /\ runs[n].status = "none" /\ Completes(r, n)
          /\ runs' = [runs EXCEPT ![n] = [status |-> "COMPLETED", ticket |-> 0]]
    BY <1>3 DEF InsertCompleted
  <2>2. 0 \in 0 .. MaxRuns /\ runOutdated' \subseteq Runs /\ runOutdated \subseteq runOutdated'
    BY <1>3, MaintenanceAssumption DEF InsertCompleted, MaintenanceInv, MaintenanceTypeOK
  <2>3. upkeep[r].at # "insert" /\ UNCHANGED <<planStatus, dated, planTickets, stops, orphans, asTold>>
    BY <1>3 DEF InsertCompleted
  <2> QED BY <2>1, <2>2, <2>3, MaintenanceCompletes
<1> QED
  BY <1>1, <1>2, <1>3, MaintenanceReads, MaintenanceOpenTicket, MaintenanceInsertRun DEF MaintenanceNext

\* For any number of requests at work on a plan, its tickets, runs and dates agree,
\* but for what calls that stopped, overlapped or were told the run left behind.
THEOREM WorkIsAlwaysRecorded == MaintenanceSpec => []WorkIsRecorded
<1>1. MaintenanceInv /\ [MaintenanceNext]_maintenanceVars => MaintenanceInv'
  <2> SUFFICES ASSUME MaintenanceInv, UNCHANGED maintenanceVars PROVE MaintenanceInv'
    BY MaintenanceStep
  <2> QED
    BY DEF maintenanceVars, MaintenanceInv, MaintenanceTypeOK, Upkeeping, Accounted, CountedOnce, DatedOrDue
<1>2. MaintenanceInv => WorkIsRecorded
  BY DEF MaintenanceInv, Accounted, CountedOnce, DatedOrDue, WorkIsRecorded
<1> QED BY <1>1, <1>2, MaintenanceInitial, PTL DEF MaintenanceSpec

----------------------------------------------------------------------------
(* The platform as a whole.                                                 *)

\* One area moves: each module takes a step of its own or none.
LEMMA PlatformSteps ==
  [PlatformNext]_platformVars =>
    /\ [SyncNext]_syncVars /\ [MigrationsNext]_migrationVars /\ [ActionNext]_actionVars /\ [AlertNext]_alertVars
    /\ [GuardNext]_guardVars /\ [VisitNext]_visitVars /\ [CatalogNext]_catalogVars
    /\ [MaintenanceNext]_maintenanceVars
<1> SUFFICES ASSUME [PlatformNext]_platformVars
             PROVE  /\ [SyncNext]_syncVars /\ [MigrationsNext]_migrationVars /\ [ActionNext]_actionVars
                    /\ [AlertNext]_alertVars /\ [GuardNext]_guardVars /\ [VisitNext]_visitVars
                    /\ [CatalogNext]_catalogVars /\ [MaintenanceNext]_maintenanceVars
  OBVIOUS
<1>1. CASE UNCHANGED platformVars
  BY <1>1 DEF platformVars
<1>2. CASE PlatformNext
  BY <1>2 DEF PlatformNext, Still
<1> QED BY <1>1, <1>2

\* What is checked as one instance runs every module by its own specification: the
\* theorems about each of them hold of all the handlers of the platform together.
THEOREM PlatformRunsItsModules ==
  PlatformSpec =>
    /\ SyncSpec /\ MigrationsSpec /\ ActionSpec /\ AlertSpec
    /\ GuardSpec /\ VisitSpec /\ CatalogSpec /\ MaintenanceSpec
<1>1. PlatformInit => /\ SyncInit /\ MigrationsInit /\ ActionInit /\ AlertInit
                      /\ GuardInit /\ VisitInit /\ CatalogInit /\ MaintenanceInit
  BY DEF PlatformInit
<1>2. PlatformSpec => PlatformInit /\ [][PlatformNext]_platformVars
  BY PTL DEF PlatformSpec
<1> QED BY <1>1, <1>2, PlatformSteps, PTL
        DEF SyncSpec, MigrationsSpec, ActionSpec, AlertSpec, GuardSpec, VisitSpec, CatalogSpec, MaintenanceSpec

============================================================================
