----------------------- MODULE ConfigurationRestore -----------------------
(* Restoring a configuration backup while the service runs:               *)
(* ConfigurationBackupService.restore and its rollback                    *)
(* (apps/server/src/modules/backup/configuration-backup-service.ts), the  *)
(* wiring of runtime-composition.ts 1536-1577, and the overlay sockets    *)
(* that register meanwhile (apps/server/src/websocket/overlay-gateway.ts).*)
(* The content of an archive is a model value; each store is named by the *)
(* archive it holds.  Any step that awaits or writes may fail.            *)
EXTENDS MaintenanceGate, Naturals

CONSTANTS
  Archives,      \* the backups an operator may restore
  Initial,       \* the configuration before the first restore
  Clients,       \* overlay sockets
  MaxRestores,   \* bound: restores asked for
  MaxFaults,     \* bound: steps that fail
  MaxRestarts    \* bound: crashes or restarts of the service

ASSUME InitialIsNoArchive == Initial \notin Archives

VARIABLES
  database,   \* [config, key]: the tables, and the route key that is active (NoKey: none)
  appConfig,  \* the application config file
  identity,   \* the Music client identity in the keyring, one per restore that rotated it
  paired,     \* the Music credentials from before the first restore are still in the keyring
  files,      \* whose asset files are in the asset directory
  loaded,     \* [config, app]: what the running services last loaded
  catalog,    \* whose asset durations the running service knows
  music,      \* the Music runtime: "running" or "suspended"
  policy,     \* overlay recipients: "lookup" (the active key decides) or "deny"
  client,     \* [state, key, fenced] of each overlay socket
  job,        \* the restore under way, or the last one
  restores, faults, restarts

persisted == <<database, appConfig, identity, paired, files>>
runtime == <<loaded, catalog, music>>
access == <<policy, client>>
bounds == <<restores, faults, restarts>>
vars == <<gateVars, persisted, runtime, access, job, bounds>>

Configs == Archives \cup {Initial}
NoKey == 0
Away == [state |-> "away", key |-> NoKey, fenced |-> FALSE]

\* What #restore reads before it changes anything, to roll back to; music is
\* kept beside it for the properties alone.
Captured == [database |-> database, app |-> appConfig, identity |-> identity,
             music |-> music]

NoJob == [step |-> "idle", outcome |-> "none", archive |-> Initial, point |-> Captured,
          staged |-> FALSE, suspended |-> FALSE, retired |-> FALSE, updated |-> FALSE,
          changed |-> FALSE, broken |-> FALSE]

Init ==
  /\ GateInit
  /\ database = [config |-> Initial, key |-> 1]
  /\ appConfig = Initial
  /\ identity = 0
  /\ paired = TRUE
  /\ files = {Initial}
  /\ loaded = [config |-> Initial, app |-> Initial]
  /\ catalog = Initial
  /\ music = "running"
  /\ policy = "lookup"
  /\ client = [c \in Clients |-> Away]
  /\ job = NoJob
  /\ restores = 0 /\ faults = 0 /\ restarts = 0

----------------------------------------------------------------------------
(* Overlay recipients.                                                     *)

Allowed(p, key, db) == p = "lookup" /\ key = db.key

\* setRecipientPolicy: connected sockets are checked against the new policy, and
\* a registration that is being verified is fenced by the new epoch.
Rechecked(c, p, db) ==
  CASE client[c].state = "connected" /\ ~Allowed(p, client[c].key, db) -> Away
    [] client[c].state \in {"verifying", "verified"} -> [client[c] EXCEPT !.fenced = TRUE]
    [] OTHER -> client[c]

Recheck(p, db) == [c \in Clients |-> Rechecked(c, p, db)]

SetRecipientPolicy(p, db) == policy' = p /\ client' = Recheck(p, db)

\* A socket registers with some key that was handed out: verifyRouteAccess begins.
BeginRegister(c) ==
  /\ client[c].state = "away"
  /\ \E key \in 1 .. restores + 1 :
       client' = [client EXCEPT ![c] = [state |-> "verifying", key |-> key, fenced |-> FALSE]]
  /\ UNCHANGED <<gateVars, persisted, runtime, policy, job, bounds>>

\* The key is looked up in the database as it is now.
Verify(c) ==
  /\ client[c].state = "verifying"
  /\ client' = [client EXCEPT ![c] =
                  IF client[c].key = database.key THEN [client[c] EXCEPT !.state = "verified"] ELSE Away]
  /\ UNCHANGED <<gateVars, persisted, runtime, policy, job, bounds>>

\* After the await: the epoch and the policy decide.
Register(c) ==
  /\ client[c].state = "verified"
  /\ client' = [client EXCEPT ![c] =
                  IF ~client[c].fenced /\ Allowed(policy, client[c].key, database)
                  THEN [client[c] EXCEPT !.state = "connected"]
                  ELSE Away]
  /\ UNCHANGED <<gateVars, persisted, runtime, policy, job, bounds>>

Disconnect(c) ==
  /\ client[c].state = "connected"
  /\ client' = [client EXCEPT ![c] = Away]
  /\ UNCHANGED <<gateVars, persisted, runtime, policy, job, bounds>>

----------------------------------------------------------------------------
(* The restore, one action per step that may fail.  A step that fails ends *)
(* the try block and the rollback begins; what a step set stays set.       *)

At(step) == job.step = step
Fault == faults < MaxFaults /\ faults' = faults + 1
Rollback == "undo music"

\* The end of runMaintenance, however the restore ended.
Finish(outcome) ==
  /\ EndMaintenance
  /\ job' = [job EXCEPT !.step = "idle", !.outcome = outcome]

BeginRestore(a) ==
  /\ restores < MaxRestores
  /\ BeginMaintenance
  /\ restores' = restores + 1
  /\ job' = [NoJob EXCEPT !.step = "check", !.archive = a]
  /\ UNCHANGED <<persisted, runtime, access, faults, restarts>>

\* The archive is invalid, something is live, or the safety backup cannot be written.
Refuse ==
  /\ At("check")
  /\ Finish("refused")
  /\ UNCHANGED <<persisted, runtime, access, bounds>>

Capture ==
  /\ At("check")
  /\ job' = [job EXCEPT !.step = "stage", !.point = Captured]
  /\ UNCHANGED <<gateVars, persisted, runtime, access, bounds>>

\* The files are named after the asset and the archive, so an archive that is
\* restored again is written over its own files.
Stage ==
  /\ At("stage")
  /\ \/ /\ files' = files \cup {job.archive}
        /\ job' = [job EXCEPT !.step = "suspend", !.staged = TRUE]
        /\ UNCHANGED faults
     \/ /\ Fault
        /\ \E some \in BOOLEAN :
             /\ files' = IF some THEN files \cup {job.archive} ELSE files
             /\ job' = [job EXCEPT !.step = Rollback, !.staged = some]
  /\ UNCHANGED <<gateVars, database, appConfig, identity, paired, runtime, access, restores, restarts>>

SuspendMusic ==
  /\ At("suspend")
  /\ music' = "suspended"
  /\ \/ job' = [job EXCEPT !.step = "replace", !.suspended = TRUE] /\ UNCHANGED faults
     \/ job' = [job EXCEPT !.step = Rollback, !.suspended = TRUE] /\ Fault
  /\ UNCHANGED <<gateVars, persisted, loaded, catalog, access, restores, restarts>>

\* A bug to catch: the tables are replaced under the sockets that are connected.
ReplaceOpen ==
  /\ At("replace")
  /\ UNCHANGED access
  /\ \/ /\ database' = [config |-> job.archive, key |-> NoKey]
        /\ job' = [job EXCEPT !.step = "config", !.retired = TRUE]
        /\ UNCHANGED faults
     \/ /\ Fault
        /\ job' = [job EXCEPT !.step = Rollback, !.retired = TRUE]
        /\ UNCHANGED database
  /\ UNCHANGED <<gateVars, appConfig, identity, paired, files, runtime, restores, restarts>>

\* The recipients are retired, then one transaction replaces every table and
\* deletes the route keys.
Replace ==
  /\ At("replace")
  /\ SetRecipientPolicy("deny", database)
  /\ \/ /\ database' = [config |-> job.archive, key |-> NoKey]
        /\ job' = [job EXCEPT !.step = "config", !.retired = TRUE]
        /\ UNCHANGED faults
     \/ /\ Fault
        /\ job' = [job EXCEPT !.step = Rollback, !.retired = TRUE]
        /\ UNCHANGED database
  /\ UNCHANGED <<gateVars, appConfig, identity, paired, files, runtime, restores, restarts>>

\* A bug to catch: the flag is left to the end of the reload.
UpdateConfigUnmarked ==
  /\ At("config")
  /\ \/ /\ appConfig' = job.archive
        /\ job' = [job EXCEPT !.step = "reload"]
        /\ UNCHANGED faults
     \/ Fault /\ job' = [job EXCEPT !.step = Rollback] /\ UNCHANGED appConfig
  /\ UNCHANGED <<gateVars, database, identity, paired, files, runtime, access, restores, restarts>>

\* The config file is written beside the old one and renamed over it.
UpdateConfig ==
  /\ At("config")
  /\ \/ /\ appConfig' = job.archive
        /\ job' = [job EXCEPT !.step = "reload", !.updated = TRUE]
        /\ UNCHANGED faults
     \/ Fault /\ job' = [job EXCEPT !.step = Rollback] /\ UNCHANGED appConfig
  /\ UNCHANGED <<gateVars, database, identity, paired, files, runtime, access, restores, restarts>>

\* reloadRuntimeConfiguration: the services reload from the tables, then from the
\* config file, then the recipients are checked by key again; a reload that fails
\* has done a first part of it.
ReloadWhole ==
  /\ loaded' = [config |-> database.config, app |-> appConfig]
  /\ SetRecipientPolicy("lookup", database)

ReloadPart ==
  \/ ReloadWhole
  \/ /\ loaded' \in {loaded, [loaded EXCEPT !.config = database.config]}
     /\ UNCHANGED access

Reload ==
  /\ At("reload")
  /\ \/ /\ ReloadWhole
        /\ catalog' = job.archive
        /\ job' = [job EXCEPT !.step = "rotate"]
        /\ UNCHANGED faults
     \/ ReloadPart /\ Fault /\ job' = [job EXCEPT !.step = Rollback] /\ UNCHANGED catalog
  /\ UNCHANGED <<gateVars, persisted, music, restores, restarts>>

RotateIdentity ==
  /\ At("rotate")
  /\ \/ /\ identity' = restores
        /\ job' = [job EXCEPT !.step = "resume", !.changed = TRUE]
        /\ UNCHANGED faults
     \/ Fault /\ job' = [job EXCEPT !.step = Rollback, !.changed = TRUE] /\ UNCHANGED identity
  /\ UNCHANGED <<gateVars, database, appConfig, paired, files, runtime, access, restores, restarts>>

ResumeMusic ==
  /\ At("resume")
  /\ \/ /\ music' = "running"
        /\ job' = [job EXCEPT !.step = "open", !.suspended = FALSE]
        /\ UNCHANGED faults
     \/ Fault /\ job' = [job EXCEPT !.step = Rollback] /\ UNCHANGED music
  /\ UNCHANGED <<gateVars, persisted, loaded, catalog, access, restores, restarts>>

\* Outside the try block: a failure here rejects the restore and rolls nothing back.
OpenAccess ==
  /\ At("open")
  /\ \/ /\ SetRecipientPolicy("lookup", database)
        /\ job' = [job EXCEPT !.step = "credentials"]
        /\ UNCHANGED <<gateVars, faults>>
     \/ Fault /\ Finish("unfinished") /\ UNCHANGED access
  /\ UNCHANGED <<persisted, runtime, restores, restarts>>

\* The replaced credentials leave the keyring; a failure is only a warning.
ForgetCredentials ==
  /\ At("credentials")
  /\ job' = [job EXCEPT !.step = "keys"]
  /\ \/ paired' = (paired /\ job.point.database.config # Initial) /\ UNCHANGED faults
     \/ UNCHANGED paired /\ Fault
  /\ UNCHANGED <<gateVars, database, appConfig, identity, files, runtime, access, restores, restarts>>

\* New route keys are made, a failure being a warning, and the media service drops
\* the files of the replaced tables.
RegenerateKeys ==
  /\ At("keys")
  /\ Finish("completed")
  /\ files' = files \ ({job.point.database.config} \ {database.config})
  /\ \/ database' = [database EXCEPT !.key = restores + 1] /\ UNCHANGED faults
     \/ UNCHANGED database /\ Fault
  /\ UNCHANGED <<appConfig, identity, paired, runtime, access, restores, restarts>>

----------------------------------------------------------------------------
(* The rollback: each step is tried, and one that fails is reported and    *)
(* does not stop the next.                                                 *)

Undone(next) == job' = [job EXCEPT !.step = next] /\ UNCHANGED faults
UndoFailed(next) == job' = [job EXCEPT !.step = next, !.broken = TRUE] /\ Fault

UndoMusic ==
  /\ At("undo music")
  /\ IF job.suspended
     THEN music' = "suspended" /\ (Undone("undo database") \/ UndoFailed("undo database"))
     ELSE UNCHANGED music /\ Undone("undo database")
  /\ UNCHANGED <<gateVars, persisted, loaded, catalog, access, restores, restarts>>

UndoDatabase ==
  /\ At("undo database")
  /\ \/ database' = job.point.database /\ Undone("undo identity")
     \/ UNCHANGED database /\ UndoFailed("undo identity")
  /\ UNCHANGED <<gateVars, appConfig, identity, paired, files, runtime, access, restores, restarts>>

UndoIdentity ==
  /\ At("undo identity")
  /\ IF job.changed
     THEN \/ identity' = job.point.identity /\ Undone("undo config")
          \/ UNCHANGED identity /\ UndoFailed("undo config")
     ELSE UNCHANGED identity /\ Undone("undo config")
  /\ UNCHANGED <<gateVars, database, appConfig, paired, files, runtime, access, restores, restarts>>

UndoConfig ==
  /\ At("undo config")
  /\ IF job.updated
     THEN \/ appConfig' = job.point.app /\ Undone("undo reload")
          \/ UNCHANGED appConfig /\ UndoFailed("undo reload")
     ELSE UNCHANGED appConfig /\ Undone("undo reload")
  /\ UNCHANGED <<gateVars, database, identity, paired, files, runtime, access, restores, restarts>>

UndoReload ==
  /\ At("undo reload")
  /\ catalog' = job.point.database.config
  /\ \/ ReloadWhole /\ Undone("undo suspend")
     \/ ReloadPart /\ UndoFailed("undo suspend")
  /\ UNCHANGED <<gateVars, persisted, music, restores, restarts>>

UndoSuspend ==
  /\ At("undo suspend")
  /\ IF job.suspended
     THEN \/ music' = "running" /\ Undone("undo access")
          \/ UNCHANGED music /\ UndoFailed("undo access")
     ELSE UNCHANGED music /\ Undone("undo access")
  /\ UNCHANGED <<gateVars, persisted, loaded, catalog, access, restores, restarts>>

UndoAccess ==
  /\ At("undo access")
  /\ IF job.retired
     THEN \/ SetRecipientPolicy("lookup", database) /\ Undone("unstage")
          \/ UNCHANGED access /\ UndoFailed("unstage")
     ELSE UNCHANGED access /\ Undone("unstage")
  /\ UNCHANGED <<gateVars, persisted, runtime, restores, restarts>>

\* Every staged file is deleted, also one that the tables named before the restore;
\* a file that cannot be deleted is reported, but is no rollback failure.
Unstage ==
  /\ At("unstage")
  /\ Finish(IF job.broken THEN "broken" ELSE "rolled back")
  /\ \/ files' = (IF job.staged THEN files \ {job.archive} ELSE files) /\ UNCHANGED faults
     \/ job.staged /\ UNCHANGED files /\ Fault
  /\ UNCHANGED <<database, appConfig, identity, paired, runtime, access, restores, restarts>>

----------------------------------------------------------------------------
(* The process ends, wherever it is, and a new one loads what is stored.   *)
Restart ==
  /\ restarts < MaxRestarts
  /\ restarts' = restarts + 1
  /\ maintenanceActive' = FALSE /\ intake' = {} /\ stopping' = FALSE
  /\ drained' = {} /\ stopped' = {}
  /\ loaded' = [config |-> database.config, app |-> appConfig]
  /\ catalog' = database.config
  /\ music' = "running"
  /\ policy' = "lookup"
  /\ client' = [c \in Clients |-> Away]
  /\ job' = NoJob
  /\ UNCHANGED <<persisted, restores, faults>>

Outside == UNCHANGED <<persisted, runtime, access, job, bounds>>

RestoreSteps ==
  \/ \E a \in Archives : BeginRestore(a)
  \/ Refuse \/ Capture \/ Stage \/ SuspendMusic \/ Replace \/ UpdateConfig \/ Reload
  \/ RotateIdentity \/ ResumeMusic \/ OpenAccess \/ ForgetCredentials \/ RegenerateKeys

RollbackSteps ==
  UndoMusic \/ UndoDatabase \/ UndoIdentity \/ UndoConfig \/ UndoReload \/ UndoSuspend
    \/ UndoAccess \/ Unstage

Next ==
  \/ RestoreSteps
  \/ RollbackSteps
  \/ \E t \in Tasks : (BeginIntake(t) \/ EndIntake(t)) /\ Outside
  \/ \E s \in Stoppers : Stop(s) /\ Outside
  \/ \E c \in Clients : BeginRegister(c) \/ Verify(c) \/ Register(c) \/ Disconnect(c)
  \/ Restart

RestoreSpec == Init /\ [][Next]_vars

----------------------------------------------------------------------------
(* A restore is all or nothing as far as it says so: one that completed    *)
(* left every store and every running service with the archive, and one    *)
(* that failed without reporting a rollback failure ("The previous         *)
(* database and application config state was restored") left all of them   *)
(* as they were, the Music runtime running and the overlays admitted, also *)
(* when it failed half-way through a reload (452-620).  The asset files    *)
(* are apart: see RollbackKeepsFiles.                                      *)
Agrees(config, app) ==
  /\ database.config = config
  /\ appConfig = app
  /\ loaded = [config |-> config, app |-> app]
  /\ catalog = config

AllOrNothing ==
  LET point == job.point IN
  /\ job.outcome = "completed" =>
       /\ Agrees(job.archive, job.archive)
       /\ identity # point.identity
       /\ music = "running" /\ policy = "lookup"
  /\ job.outcome = "rolled back" =>
       /\ Agrees(point.database.config, point.app)
       /\ database = point.database
       /\ identity = point.identity
       /\ point.music = "running" => music = "running"
       /\ policy = "lookup"
       /\ point.database.config = Initial => paired

(* A connected overlay socket holds the route key that is active: none     *)
(* stays connected, or gets in with a key verified earlier, while the      *)
(* tables and the keys change under it, forward or back                    *)
(* (overlay-gateway.ts 194-230, configuration-backup-service.ts 539-541).  *)
RecipientsHoldKeys ==
  \A c \in Clients : client[c].state = "connected" => client[c].key = database.key

(* A stop() resolves when the work is done and not before: once one has    *)
(* resolved, no intake runs and no restore is between two of its steps, so *)
(* the cleanups that close the database next cut nothing in half; and one  *)
(* that still waits has an intake or a restore to wait for                 *)
(* (runtime-maintenance-gate.ts 14-25, runtime-composition.ts 2025).       *)
ShutdownWaits ==
  /\ stopped # {} => At("idle") /\ intake = {}
  /\ drained # {} => ~At("idle") \/ intake # {}

(* After a restore that was rolled back, the asset files that the tables   *)
(* name are still there (configuration-backup-service.ts 602-612).         *)
RollbackKeepsFiles == job.outcome = "rolled back" => database.config \in files
==========================================================================
