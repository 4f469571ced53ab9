----------------------------- MODULE MCPlatform -----------------------------
(***************************************************************************)
(* One instance of every module of the platform for TLC.  They share no    *)
(* state, so each behaviour is about one of them, the area it starts in.   *)
(***************************************************************************)
EXTENDS
  RmmSync, Migrations, DeviceActions, NetworkAlerts,
  RequestGuards, FieldDispatch, CatalogRequests, MaintenancePlans

\* The last statement of the first migration creates an index.
MigrationIndexes == {<<1, 2>>}

VARIABLE area

Areas ==
  {"sync", "migrations", "actions", "alerts", "guards", "visits", "catalog", "maintenance"}
platformVars ==
  <<area, syncVars, migrationVars, actionVars, alertVars,
    guardVars, visitVars, catalogVars, maintenanceVars>>

PlatformInit ==
  /\ area \in Areas /\ SyncInit /\ MigrationsInit /\ ActionInit /\ AlertInit
  /\ GuardInit /\ VisitInit /\ CatalogInit /\ MaintenanceInit
  \* The users' roles matter to the guards only.
  /\ area = "guards" \/ role = [u \in Users |-> "TECHNICIAN"]

Still(moving) ==
  /\ area = moving /\ UNCHANGED area
  /\ moving # "sync" => UNCHANGED syncVars
  /\ moving # "migrations" => UNCHANGED migrationVars
  /\ moving # "actions" => UNCHANGED actionVars
  /\ moving # "alerts" => UNCHANGED alertVars
  /\ moving # "guards" => UNCHANGED guardVars
  /\ moving # "visits" => UNCHANGED visitVars
  /\ moving # "catalog" => UNCHANGED catalogVars
  /\ moving # "maintenance" => UNCHANGED maintenanceVars

PlatformNext ==
  \/ Still("sync") /\ SyncNext
  \/ Still("migrations") /\ MigrationsNext
  \/ Still("actions") /\ ActionNext
  \/ Still("alerts") /\ AlertNext
  \/ Still("guards") /\ GuardNext
  \/ Still("visits") /\ VisitNext
  \/ Still("catalog") /\ CatalogNext
  \/ Still("maintenance") /\ MaintenanceNext

\* Syncs go on: Node runs what it has begun, and the provider answers.
PlatformSpec ==
  PlatformInit /\ [][PlatformNext]_platformVars
  /\ \A r \in Requests : WF_platformVars(Still("sync") /\ SyncStep(r))

=============================================================================
