----------------------------- MODULE Migrations -----------------------------
(***************************************************************************)
(* The schema migrations that every replica of the backend runs when it    *)
(* starts (MigrationsService.runMigrations), in the order of their names   *)
(* and without a lock: look whether a migration is recorded, execute its   *)
(* statements, record it, delete its failure.  A migration that fails is   *)
(* recorded as failed, and the next one is tried; when a look-up or the    *)
(* record of a failure fails, the whole run is given up and the replica    *)
(* comes up all the same (DatabaseService.onModuleInit).                   *)
(*                                                                         *)
(* A statement that finds its column or index in place counts as executed, *)
(* and so does one that was to create an index and could not, for want of  *)
(* its column or of room for another index.                                *)
(***************************************************************************)
EXTENDS Naturals

CONSTANTS
  Replicas,              \* processes of the backend
  MigrationCount, StatementCount,
  IndexStatements,       \* statements that create an index: <<migration, statement>>
  MaxMigrationFaults     \* bound: statements that fail, replicas that stop

ASSUME MigrationAssumption ==
  /\ MigrationCount \in Nat /\ StatementCount \in Nat \ {0} /\ MaxMigrationFaults \in Nat
  /\ IndexStatements \subseteq (1 .. MigrationCount) \X (1 .. StatementCount)

VARIABLES
  applied,           \* rows of _migrations
  failures,          \* rows of _migration_failures
  executed,          \* statements of each migration that the schema has
  swallowed,         \* history: index statements whose error counted as success
  startup,           \* what each replica is at
  migrationFaults

migrationVars == <<applied, failures, executed, swallowed, startup, migrationFaults>>

MigrationIds == 1 .. MigrationCount
Statements == 1 .. StatementCount
StartupSteps == {"down", "look", "execute", "record", "clear", "recordFailure", "up", "incomplete"}
StartupRows == [at : StartupSteps, migration : 1 .. MigrationCount + 1, statement : Statements]
Down == [at |-> "down", migration |-> 1, statement |-> 1]

MigrationsInit ==
  /\ applied = {} /\ failures = {} /\ executed = [m \in MigrationIds |-> {}]
  /\ swallowed = {} /\ startup = [p \in Replicas |-> Down] /\ migrationFaults = 0

At(p, step) == startup[p].at = step
Starts(p, step) == startup' = [startup EXCEPT ![p].at = step]
NextMigration(p) ==
  startup' = [startup EXCEPT ![p] = [at |-> "look", migration |-> startup[p].migration + 1, statement |-> 1]]

StartReplica(p) ==
  /\ At(p, "down") /\ Starts(p, "look")
  /\ UNCHANGED <<applied, failures, executed, swallowed, migrationFaults>>

LookUp(p) ==
  /\ At(p, "look")
  /\ IF startup[p].migration > MigrationCount THEN Starts(p, "up")
     ELSE IF startup[p].migration \in applied THEN NextMigration(p)
     ELSE Starts(p, "execute")
  /\ UNCHANGED <<applied, failures, executed, swallowed, migrationFaults>>

LastStatement_Wrong(statement) == statement + 1 >= StatementCount
LastStatement(statement) == statement = StatementCount

\* What each statement does.
Executes(p) ==
  executed' = [executed EXCEPT ![startup[p].migration] = @ \cup {startup[p].statement}] /\ UNCHANGED <<applied, failures>>
Records(p) == applied' = applied \cup {startup[p].migration} /\ UNCHANGED <<failures, executed>>
Clears(p) == failures' = failures \ {startup[p].migration} /\ UNCHANGED <<applied, executed>>
RecordsFailure(p) == failures' = failures \cup {startup[p].migration} /\ UNCHANGED <<applied, executed>>

Execute(p) ==
  LET step == startup[p] IN
  /\ At(p, "execute")
  /\ \/ Executes(p) /\ UNCHANGED swallowed
     \/ /\ <<step.migration, step.statement>> \in IndexStatements
        /\ swallowed' = swallowed \cup {<<step.migration, step.statement>>}
        /\ UNCHANGED <<applied, failures, executed>>
  /\ IF LastStatement(step.statement) THEN Starts(p, "record")
     ELSE startup' = [startup EXCEPT ![p].statement = @ + 1]
  /\ UNCHANGED migrationFaults

RecordApplied(p) ==
  At(p, "record") /\ Records(p) /\ Starts(p, "clear") /\ UNCHANGED <<swallowed, migrationFaults>>

ClearFailure(p) ==
  At(p, "clear") /\ Clears(p) /\ NextMigration(p) /\ UNCHANGED <<swallowed, migrationFaults>>

RecordFailure(p) ==
  At(p, "recordFailure") /\ RecordsFailure(p) /\ NextMigration(p) /\ UNCHANGED <<swallowed, migrationFaults>>

Faulty == migrationFaults < MaxMigrationFaults /\ migrationFaults' = migrationFaults + 1

\* A statement fails, or times out after it took effect.
Fails(p) ==
  /\ Faulty /\ UNCHANGED swallowed
  /\ \/ UNCHANGED <<applied, failures, executed>>
     \/ At(p, "execute") /\ Executes(p)
     \/ At(p, "record") /\ Records(p)
     \/ At(p, "clear") /\ Clears(p)
     \/ At(p, "recordFailure") /\ RecordsFailure(p)

StatementFails(p) ==
  startup[p].at \in {"execute", "record", "clear"} /\ Fails(p) /\ Starts(p, "recordFailure")

\* A statement outside the try fails: no later migration is tried.
StartupFails(p) ==
  startup[p].at \in {"look", "recordFailure"} /\ Fails(p) /\ Starts(p, "incomplete")

\* The process stops, or is replaced by the next deployment.
StopReplica(p) ==
  /\ ~At(p, "down") /\ Faulty
  /\ startup' = [startup EXCEPT ![p] = Down]
  /\ UNCHANGED <<applied, failures, executed, swallowed>>

MigrationsNext == \E p \in Replicas :
  \/ StartReplica(p) \/ LookUp(p) \/ Execute(p) \/ RecordApplied(p) \/ ClearFailure(p)
  \/ StatementFails(p) \/ RecordFailure(p) \/ StartupFails(p) \/ StopReplica(p)

MigrationsSpec == MigrationsInit /\ [][MigrationsNext]_migrationVars

----------------------------------------------------------------------------

\* Rows, executed statements and replicas hold values of their types.
MigrationsTypeOK ==
  /\ applied \in SUBSET MigrationIds /\ failures \in SUBSET MigrationIds
  /\ executed \in [MigrationIds -> SUBSET Statements]
  /\ swallowed \in SUBSET IndexStatements
  /\ startup \in [Replicas -> StartupRows]
  /\ migrationFaults \in 0 .. MaxMigrationFaults

\* A recorded migration has all its statements in the schema, but for indexes
\* whose error was swallowed.  Once a replica is up every migration is recorded, as
\* applied or as failed, and one that gave up its start has passed over none before
\* the migration it gave up at: whichever replicas start at once, fail and stop
\* between statements.
Missing(m) == {s \in Statements \ executed[m] : <<m, s>> \notin swallowed}
MigrationsAccounted ==
  /\ \A m \in applied : Missing(m) = {}
  /\ \A p \in Replicas :
       /\ At(p, "up") => MigrationIds \subseteq applied \cup failures
       /\ At(p, "incomplete") => 1 .. startup[p].migration - 1 \subseteq applied \cup failures

============================================================================
