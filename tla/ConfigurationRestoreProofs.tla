-------------------- MODULE ConfigurationRestoreProofs --------------------
(* That a stop waits for the restore under way, and that the overlay       *)
(* sockets hold the active route key, for any archives, sockets, tasks,    *)
(* and any number of restores, failures and restarts.                      *)
EXTENDS ConfigurationRestore, TLAPS

-----------------------------------------------------------------------------
(* The gate alone *)

\* The gate starts with nothing under way and nobody waiting.
LEMMA GateInitInv == GateInit => GateInv
BY DEF GateInit, GateInv, GateTypeOK, MaintenanceAlone, StoppedIsIdle, NobodyForgotten

\* Each step of the gate keeps the invariant: the end of the last work under
\* way is the step that wakes the waiting stops, in the same step.
LEMMA GateNextInv == GateInv /\ [GateNext]_gateVars => GateInv'
<1> SUFFICES ASSUME GateInv, [GateNext]_gateVars
             PROVE  GateInv'
  OBVIOUS
<1> USE DEF GateInv, GateTypeOK, MaintenanceAlone, StoppedIsIdle, NobodyForgotten
<1>1. CASE \E t \in Tasks : BeginIntake(t)
  BY <1>1 DEF BeginIntake, Available
<1>2. CASE \E t \in Tasks : EndIntake(t)
  <2> PICK t \in Tasks : EndIntake(t)
    BY <1>2
  <2>1. CASE Idle(intake', maintenanceActive)
    BY <2>1 DEF EndIntake, NotifyDrained, Idle
  <2>2. CASE ~Idle(intake', maintenanceActive)
    BY <2>2 DEF EndIntake, NotifyDrained, Idle
  <2> QED
    BY <2>1, <2>2
<1>3. CASE BeginMaintenance
  BY <1>3 DEF BeginMaintenance, Available
<1>4. CASE EndMaintenance
  BY <1>4 DEF EndMaintenance, NotifyDrained, Idle
<1>5. CASE \E s \in Stoppers : Stop(s)
  BY <1>5 DEF Stop, Idle
<1>6. CASE UNCHANGED gateVars
  BY <1>6 DEF gateVars
<1> QED
  BY <1>1, <1>2, <1>3, <1>4, <1>5, <1>6 DEF GateNext

\* Maintenance and intake exclude each other, a stop resolves only when both
\* have ended, and no waiting stop is left behind by the work it waits for
\* (RuntimeMaintenanceGate, runtime-maintenance-gate.ts 14-66).
THEOREM GateSafety == GateSpec => []GateInv
BY GateInitInv, GateNextInv, PTL DEF GateSpec

-----------------------------------------------------------------------------
(* The restore: what its states are *)

BeforeReplace == {"stage", "suspend", "replace"}
Replaced == {"config", "reload", "rotate", "resume", "open", "credentials", "keys"}
BeforeUndo == {"undo music", "undo database"}
Steps == {"idle", "check", "undo identity", "undo config", "undo reload", "undo suspend",
          "undo access", "unstage"} \cup BeforeReplace \cup Replaced \cup BeforeUndo
Outcomes == {"none", "refused", "completed", "unfinished", "rolled back", "broken"}
Music == {"running", "suspended"}

Databases == [config : Configs, key : Nat]
Points == [database : Databases, app : Configs, identity : Nat, music : Music]
Jobs == [step : Steps, outcome : Outcomes, archive : Configs, point : Points,
         staged : BOOLEAN, suspended : BOOLEAN, retired : BOOLEAN, updated : BOOLEAN,
         changed : BOOLEAN, broken : BOOLEAN]
Sockets == [state : {"away", "verifying", "verified", "connected"}, key : Nat, fenced : BOOLEAN]

\* What the stores and the job are, whatever they hold.
Stored ==
  /\ database \in Databases /\ appConfig \in Configs /\ identity \in Nat
  /\ music \in Music /\ job \in Jobs /\ restores \in Nat

\* The restore runs inside runMaintenance, from its first step to its last.
InsideMaintenance == job.step # "idle" <=> maintenanceActive

\* Where the tables are, by the step: as captured until they are replaced, without
\* a route key until new ones are made, and one or the other when the rollback
\* reaches them.
KeysByStep ==
  /\ job.step \in BeforeReplace => database = job.point.database
  /\ job.step \in Replaced => database.key = NoKey
  /\ job.step \in BeforeUndo => database = job.point.database \/ database.key = NoKey

\* No socket presents the absent key.
SocketsPresentKeys ==
  \A c \in Clients : client[c].state # "away" => client[c].key # NoKey

\* What the restore and its rollback keep beside the gate and the sockets.
JobPart == Stored /\ InsideMaintenance /\ KeysByStep
SocketPart == client \in [Clients -> Sockets] /\ SocketsPresentKeys /\ RecipientsHoldKeys

IInv == GateInv /\ JobPart /\ SocketPart

\* Checking the sockets against a policy leaves only sockets the policy admits.
LEMMA RecheckHolds ==
  ASSUME client \in [Clients -> Sockets], SocketsPresentKeys, NEW p, NEW db
  PROVE  /\ Recheck(p, db) \in [Clients -> Sockets]
         /\ \A c \in Clients : Recheck(p, db)[c].state # "away" => Recheck(p, db)[c].key # NoKey
         /\ \A c \in Clients : Recheck(p, db)[c].state = "connected" =>
              p = "lookup" /\ Recheck(p, db)[c].key = db.key
<1>1. ASSUME NEW c \in Clients
      PROVE  /\ Rechecked(c, p, db) \in Sockets
             /\ Rechecked(c, p, db).state # "away" => Rechecked(c, p, db).key # NoKey
             /\ Rechecked(c, p, db).state = "connected" =>
                  p = "lookup" /\ Rechecked(c, p, db).key = db.key
  <2>0. client[c] \in Sockets /\ (client[c].state # "away" => client[c].key # NoKey)
    BY DEF SocketsPresentKeys
  <2>1. CASE client[c].state = "connected" /\ ~Allowed(p, client[c].key, db)
    <3>1. Rechecked(c, p, db) = Away
      BY <2>1 DEF Rechecked
    <3> QED BY <3>1 DEF Away, Sockets, NoKey
  <2>2. CASE client[c].state \in {"verifying", "verified"}
    <3>1. Rechecked(c, p, db) = [client[c] EXCEPT !.fenced = TRUE]
      BY <2>2 DEF Rechecked
    <3> QED BY <2>0, <2>2, <3>1 DEF Sockets
  <2>3. CASE /\ ~(client[c].state = "connected" /\ ~Allowed(p, client[c].key, db))
             /\ client[c].state \notin {"verifying", "verified"}
    <3>1. Rechecked(c, p, db) = client[c]
      BY <2>3 DEF Rechecked
    <3> QED BY <2>0, <2>3, <3>1 DEF Allowed
  <2> QED BY <2>1, <2>2, <2>3
<1> QED
  BY <1>1 DEF Recheck

\* The service starts with the initial tables, their key and no socket.
LEMMA InitIInv == Init => IInv
<1> SUFFICES ASSUME Init
             PROVE  IInv
  OBVIOUS
<1> USE DEF Init, NoKey
<1>1. database \in Databases /\ appConfig \in Configs /\ identity \in Nat /\ music \in Music
      /\ restores \in Nat
  BY DEF Databases, Configs, Music
<1>2. client \in [Clients -> Sockets] /\ SocketsPresentKeys /\ RecipientsHoldKeys
  BY DEF Sockets, Away, SocketsPresentKeys, RecipientsHoldKeys
<1>3. job \in Jobs /\ job.step = "idle"
  <2>1. Captured \in Points
    BY <1>1 DEF Captured, Points
  <2> QED BY <2>1 DEF NoJob, Jobs, Configs, Steps, Outcomes
<1>4. GateInv
  BY GateInitInv
<1>5. ~maintenanceActive
  BY DEF GateInit
<1> QED
  BY <1>1, <1>2, <1>3, <1>4, <1>5
     DEF IInv, JobPart, SocketPart, Stored, InsideMaintenance, KeysByStep, BeforeReplace, Replaced, BeforeUndo

\* The gate's part of a step: its own actions and a restart keep its invariant.
LEMMA GateStep == GateInv /\ [Next]_vars => GateInv'
<1> SUFFICES ASSUME GateInv, [Next]_vars
             PROVE  GateInv'
  OBVIOUS
<1>1. CASE [GateNext]_gateVars
  BY <1>1, GateNextInv
<1>2. CASE Restart
  BY <1>2 DEF Restart, GateInv, GateTypeOK, MaintenanceAlone, StoppedIsIdle, NobodyForgotten
<1>3. CASE RestoreSteps \/ RollbackSteps
  BY <1>1, <1>3 DEF RestoreSteps, RollbackSteps, BeginRestore, Refuse, Capture, Stage, SuspendMusic,
     Replace, UpdateConfig, Reload, RotateIdentity, ResumeMusic, OpenAccess, ForgetCredentials,
     RegenerateKeys, Finish, UndoMusic, UndoDatabase, UndoIdentity, UndoConfig, UndoReload,
     UndoSuspend, UndoAccess, Unstage, GateNext
<1>4. CASE \E t \in Tasks : (BeginIntake(t) \/ EndIntake(t)) /\ Outside
  BY <1>1, <1>4 DEF GateNext
<1>5. CASE \E s \in Stoppers : Stop(s) /\ Outside
  BY <1>1, <1>5 DEF GateNext
<1>6. CASE \E c \in Clients : BeginRegister(c) \/ Verify(c) \/ Register(c) \/ Disconnect(c)
  BY <1>1, <1>6 DEF BeginRegister, Verify, Register, Disconnect
<1>7. CASE UNCHANGED vars
  BY <1>1, <1>7 DEF vars
<1> QED
  BY <1>2, <1>3, <1>4, <1>5, <1>6, <1>7 DEF Next

\* What a job holds.
LEMMA JobHolds ==
  ASSUME job \in Jobs
  PROVE  /\ job.archive \in Configs /\ job.point \in Points
         /\ job.point.database \in Databases /\ job.point.app \in Configs
         /\ job.point.identity \in Nat
BY DEF Jobs, Points

\* The end of a restore leaves a job, idle.
LEMMA Ended ==
  ASSUME job \in Jobs, NEW o \in Outcomes, Finish(o)
  PROVE  job' \in Jobs /\ job'.step = "idle" /\ ~maintenanceActive'
BY DEF Finish, EndMaintenance, Jobs, Steps

\* A step of the rollback moves the job on, whether it succeeds or not.
LEMMA Moved ==
  ASSUME job \in Jobs, NEW next \in Steps, Undone(next) \/ UndoFailed(next)
  PROVE  job' \in Jobs /\ job'.step = next /\ job'.point = job.point
<1>1. CASE Undone(next)
  BY <1>1 DEF Undone, Jobs
<1>2. CASE UndoFailed(next)
  BY <1>2 DEF UndoFailed, Jobs
<1> QED BY <1>1, <1>2

\* A step of the restore moves the job on, setting at most one of its flags.
MovesTo(next) ==
  \/ job' = [job EXCEPT !.step = next]
  \/ \E b \in BOOLEAN :
       \/ job' = [job EXCEPT !.step = next, !.staged = b]
       \/ job' = [job EXCEPT !.step = next, !.suspended = b]
       \/ job' = [job EXCEPT !.step = next, !.retired = b]
       \/ job' = [job EXCEPT !.step = next, !.updated = b]
       \/ job' = [job EXCEPT !.step = next, !.changed = b]

\* The job it leaves is one with the same point to roll back to.
LEMMA MovedOn ==
  ASSUME job \in Jobs, NEW next \in Steps, MovesTo(next)
  PROVE  job' \in Jobs /\ job'.step = next /\ job'.point = job.point
<1>1. CASE job' = [job EXCEPT !.step = next]
  BY <1>1 DEF Jobs
<1>2. ASSUME NEW b \in BOOLEAN, job' = [job EXCEPT !.step = next, !.staged = b]
      PROVE  job' \in Jobs /\ job'.step = next /\ job'.point = job.point
  BY <1>2 DEF Jobs
<1>3. ASSUME NEW b \in BOOLEAN, job' = [job EXCEPT !.step = next, !.suspended = b]
      PROVE  job' \in Jobs /\ job'.step = next /\ job'.point = job.point
  BY <1>3 DEF Jobs
<1>4. ASSUME NEW b \in BOOLEAN, job' = [job EXCEPT !.step = next, !.retired = b]
      PROVE  job' \in Jobs /\ job'.step = next /\ job'.point = job.point
  BY <1>4 DEF Jobs
<1>5. ASSUME NEW b \in BOOLEAN, job' = [job EXCEPT !.step = next, !.updated = b]
      PROVE  job' \in Jobs /\ job'.step = next /\ job'.point = job.point
  BY <1>5 DEF Jobs
<1>6. ASSUME NEW b \in BOOLEAN, job' = [job EXCEPT !.step = next, !.changed = b]
      PROVE  job' \in Jobs /\ job'.step = next /\ job'.point = job.point
  BY <1>6 DEF Jobs
<1> QED BY <1>1, <1>2, <1>3, <1>4, <1>5, <1>6 DEF MovesTo

\* The number of a restore stays a natural number.
LEMMA OneMore ==
  ASSUME restores \in Nat
  PROVE  restores + 1 \in Nat
OBVIOUS

\* A step of the restore keeps the job, the stores and their relation.
LEMMA RestorePart ==
  ASSUME JobPart, RestoreSteps
  PROVE  JobPart'
<1> USE JobHolds DEF JobPart, Stored, InsideMaintenance, KeysByStep, Music, Steps, BeforeReplace,
        Replaced, BeforeUndo, At, Rollback
<1>1. ASSUME NEW a \in Archives, BeginRestore(a)
      PROVE  JobPart'
  <2>1. Captured \in Points
    BY DEF Captured, Points
  <2>2. NoJob \in Jobs
    BY <2>1 DEF NoJob, Jobs, Outcomes, Configs
  <2>3. job' \in Jobs /\ job'.step = "check"
    BY <1>1, <2>2 DEF BeginRestore, Jobs, Configs
  <2>4. restores' = restores + 1
    BY <1>1 DEF BeginRestore
  <2>5. restores' \in Nat
    BY <2>4, OneMore
  <2>6. maintenanceActive'
    BY <1>1 DEF BeginRestore, BeginMaintenance
  <2> QED BY <1>1, <2>3, <2>5, <2>6 DEF BeginRestore, persisted, runtime
<1>2. CASE Refuse
  <2>1. job' \in Jobs /\ job'.step = "idle" /\ ~maintenanceActive'
    BY <1>2, Ended DEF Refuse, Outcomes
  <2> QED BY <1>2, <2>1 DEF Refuse, persisted, runtime, bounds
<1>3. CASE Capture
  <2>1. Captured \in Points /\ Captured.database = database
    BY DEF Captured, Points
  <2>2. job' \in Jobs /\ job'.step = "stage" /\ job'.point.database = database
    BY <1>3, <2>1 DEF Capture, Jobs
  <2> QED BY <1>3, <2>2 DEF Capture, persisted, runtime, bounds, gateVars
<1>4. CASE Stage
  <2>1. MovesTo("suspend") \/ MovesTo(Rollback)
    BY <1>4 DEF Stage, MovesTo
  <2>2. job' \in Jobs /\ job'.step \in {"suspend", Rollback} /\ job'.point = job.point
    BY <2>1, MovedOn
  <2> QED BY <1>4, <2>2 DEF Stage, runtime, gateVars
<1>5. CASE SuspendMusic
  <2>1. MovesTo("replace") \/ MovesTo(Rollback)
    BY <1>5 DEF SuspendMusic, MovesTo
  <2>2. job' \in Jobs /\ job'.step \in {"replace", Rollback} /\ job'.point = job.point
    BY <2>1, MovedOn
  <2> QED BY <1>5, <2>2 DEF SuspendMusic, persisted, gateVars
<1>6. CASE Replace
  <2>1. [config |-> job.archive, key |-> NoKey] \in Databases
    BY DEF Databases, NoKey
  <2>2. CASE database' = [config |-> job.archive, key |-> NoKey] /\ MovesTo("config")
    <3>1. job' \in Jobs /\ job'.step = "config" /\ job'.point = job.point
      BY <2>2, MovedOn
    <3> QED BY <1>6, <2>1, <2>2, <3>1 DEF Replace, runtime, gateVars
  <2>3. CASE MovesTo(Rollback) /\ UNCHANGED database
    <3>1. job' \in Jobs /\ job'.step = Rollback /\ job'.point = job.point
      BY <2>3, MovedOn
    <3> QED BY <1>6, <2>3, <3>1 DEF Replace, runtime, gateVars
  <2> QED BY <1>6, <2>2, <2>3 DEF Replace, MovesTo
<1>7. CASE UpdateConfig
  <2>1. MovesTo("reload") \/ MovesTo(Rollback)
    BY <1>7 DEF UpdateConfig, MovesTo
  <2>2. job' \in Jobs /\ job'.step \in {"reload", Rollback} /\ job'.point = job.point
    BY <2>1, MovedOn
  <2> QED BY <1>7, <2>2 DEF UpdateConfig, runtime, gateVars
<1>8. CASE Reload
  <2>1. MovesTo("rotate") \/ MovesTo(Rollback)
    BY <1>8 DEF Reload, MovesTo
  <2>2. job' \in Jobs /\ job'.step \in {"rotate", Rollback} /\ job'.point = job.point
    BY <2>1, MovedOn
  <2> QED BY <1>8, <2>2 DEF Reload, persisted, gateVars
<1>9. CASE RotateIdentity
  <2>1. MovesTo("resume") \/ MovesTo(Rollback)
    BY <1>9 DEF RotateIdentity, MovesTo
  <2>2. job' \in Jobs /\ job'.step \in {"resume", Rollback} /\ job'.point = job.point
    BY <2>1, MovedOn
  <2> QED BY <1>9, <2>2 DEF RotateIdentity, runtime, gateVars
<1>10. CASE ResumeMusic
  <2>1. MovesTo("open") \/ MovesTo(Rollback)
    BY <1>10 DEF ResumeMusic, MovesTo
  <2>2. job' \in Jobs /\ job'.step \in {"open", Rollback} /\ job'.point = job.point
    BY <2>1, MovedOn
  <2> QED BY <1>10, <2>2 DEF ResumeMusic, persisted, gateVars
<1>11. CASE OpenAccess
  <2>1. CASE MovesTo("credentials") /\ UNCHANGED gateVars
    <3>1. job' \in Jobs /\ job'.step = "credentials" /\ job'.point = job.point
      BY <2>1, MovedOn
    <3> QED BY <1>11, <2>1, <3>1 DEF OpenAccess, persisted, runtime, gateVars
  <2>2. CASE Finish("unfinished")
    <3>1. job' \in Jobs /\ job'.step = "idle" /\ ~maintenanceActive'
      BY <2>2, Ended DEF Outcomes
    <3> QED BY <1>11, <3>1 DEF OpenAccess, persisted, runtime
  <2> QED BY <1>11, <2>1, <2>2 DEF OpenAccess, MovesTo
<1>12. CASE ForgetCredentials
  <2>1. MovesTo("keys")
    BY <1>12 DEF ForgetCredentials, MovesTo
  <2>2. job' \in Jobs /\ job'.step = "keys" /\ job'.point = job.point
    BY <2>1, MovedOn
  <2> QED BY <1>12, <2>2 DEF ForgetCredentials, runtime, gateVars
<1>13. CASE RegenerateKeys
  <2>0. restores + 1 \in Nat
    BY OneMore
  <2>1. [database EXCEPT !.key = restores + 1] \in Databases
    BY <2>0 DEF Databases
  <2>2. database' \in Databases
    BY <1>13, <2>1 DEF RegenerateKeys
  <2>3. job' \in Jobs /\ job'.step = "idle" /\ ~maintenanceActive'
    BY <1>13, Ended DEF RegenerateKeys, Outcomes
  <2> QED BY <1>13, <2>2, <2>3 DEF RegenerateKeys, runtime
<1> QED
  BY <1>1, <1>2, <1>3, <1>4, <1>5, <1>6, <1>7, <1>8, <1>9, <1>10, <1>11, <1>12, <1>13 DEF RestoreSteps

\* So does a step of the rollback.
LEMMA RollbackPart ==
  ASSUME JobPart, RollbackSteps
  PROVE  JobPart'
<1> USE JobHolds DEF JobPart, Stored, InsideMaintenance, KeysByStep, Music, Steps, BeforeReplace,
        Replaced, BeforeUndo, At
<1>1. CASE UndoMusic
  <2>1. job' \in Jobs /\ job'.step = "undo database" /\ job'.point = job.point
    BY <1>1, Moved DEF UndoMusic
  <2> QED BY <1>1, <2>1 DEF UndoMusic, persisted, gateVars
<1>2. CASE UndoDatabase
  <2>1. job' \in Jobs /\ job'.step = "undo identity"
    BY <1>2, Moved DEF UndoDatabase
  <2> QED BY <1>2, <2>1 DEF UndoDatabase, runtime, gateVars
<1>3. CASE UndoIdentity
  <2>1. job' \in Jobs /\ job'.step = "undo config"
    BY <1>3, Moved DEF UndoIdentity
  <2> QED BY <1>3, <2>1 DEF UndoIdentity, runtime, gateVars
<1>4. CASE UndoConfig
  <2>1. job' \in Jobs /\ job'.step = "undo reload"
    BY <1>4, Moved DEF UndoConfig
  <2> QED BY <1>4, <2>1 DEF UndoConfig, runtime, gateVars
<1>5. CASE UndoReload
  <2>1. job' \in Jobs /\ job'.step = "undo suspend"
    BY <1>5, Moved DEF UndoReload
  <2> QED BY <1>5, <2>1 DEF UndoReload, persisted, gateVars
<1>6. CASE UndoSuspend
  <2>1. job' \in Jobs /\ job'.step = "undo access"
    BY <1>6, Moved DEF UndoSuspend
  <2> QED BY <1>6, <2>1 DEF UndoSuspend, persisted, gateVars
<1>7. CASE UndoAccess
  <2>1. job' \in Jobs /\ job'.step = "unstage"
    BY <1>7, Moved DEF UndoAccess
  <2> QED BY <1>7, <2>1 DEF UndoAccess, persisted, runtime, gateVars
<1>8. CASE Unstage
  <2>1. (IF job.broken THEN "broken" ELSE "rolled back") \in Outcomes
    BY DEF Outcomes
  <2>2. job' \in Jobs /\ job'.step = "idle" /\ ~maintenanceActive'
    BY <1>8, <2>1, Ended DEF Unstage
  <2> QED BY <1>8, <2>2 DEF Unstage, runtime
<1> QED
  BY <1>1, <1>2, <1>3, <1>4, <1>5, <1>6, <1>7, <1>8 DEF RollbackSteps

\* Nobody is connected while the tables hold no route key.
LEMMA NobodyConnected ==
  ASSUME SocketPart, database.key = NoKey
  PROVE  \A c \in Clients : client[c].state # "connected"
BY DEF SocketPart, SocketsPresentKeys, RecipientsHoldKeys

\* The policy may change as long as it checks the sockets against the tables as
\* they are afterwards, or denies them all.
LEMMA PolicyKeepsSockets ==
  ASSUME SocketPart, NEW p, NEW db, SetRecipientPolicy(p, db), p = "deny" \/ db = database'
  PROVE  SocketPart'
<1>1. client' = Recheck(p, db)
  BY DEF SetRecipientPolicy
<1>2. /\ client' \in [Clients -> Sockets]
      /\ \A c \in Clients : client'[c].state # "away" => client'[c].key # NoKey
      /\ \A c \in Clients : client'[c].state = "connected" => p = "lookup" /\ client'[c].key = db.key
  BY <1>1, RecheckHolds DEF SocketPart
<1> QED BY <1>2 DEF SocketPart, SocketsPresentKeys, RecipientsHoldKeys, NoKey

\* A reload, whole or in part, keeps the sockets right.
LEMMA ReloadKeepsSockets ==
  ASSUME SocketPart, ReloadPart, UNCHANGED database
  PROVE  SocketPart'
<1>1. CASE SetRecipientPolicy("lookup", database)
  BY <1>1, PolicyKeepsSockets
<1>2. CASE UNCHANGED access
  BY <1>2 DEF access, SocketPart, SocketsPresentKeys, RecipientsHoldKeys, NoKey
<1> QED BY <1>1, <1>2 DEF ReloadPart, ReloadWhole

\* The tables change under the sockets only when nobody is connected.
LEMMA TablesKeepSockets ==
  ASSUME SocketPart, UNCHANGED client, database.key = NoKey \/ UNCHANGED database
  PROVE  SocketPart'
BY NobodyConnected DEF SocketPart, SocketsPresentKeys, RecipientsHoldKeys, NoKey

\* A socket that registers, is verified, gets in or leaves.
LEMMA SocketStep ==
  ASSUME SocketPart, restores \in Nat, database \in Databases,
         NEW c \in Clients, BeginRegister(c) \/ Verify(c) \/ Register(c) \/ Disconnect(c)
  PROVE  SocketPart'
<1> USE DEF SocketPart, SocketsPresentKeys, RecipientsHoldKeys, Sockets, Away, NoKey
<1>0. UNCHANGED database
  BY DEF BeginRegister, Verify, Register, Disconnect, persisted
<1>1. CASE BeginRegister(c)
  <2>1. PICK key \in 1 .. restores + 1 :
          client' = [client EXCEPT ![c] = [state |-> "verifying", key |-> key, fenced |-> FALSE]]
    BY <1>1 DEF BeginRegister
  <2>2. key \in Nat /\ key # 0
    OBVIOUS
  <2> QED BY <1>0, <2>1, <2>2
<1>2. CASE Verify(c)
  <2>1. CASE client' = [client EXCEPT ![c] = [client[c] EXCEPT !.state = "verified"]]
    BY <1>0, <1>2, <2>1 DEF Verify
  <2>2. CASE client' = [client EXCEPT ![c] = Away]
    BY <1>0, <2>2
  <2> QED BY <1>2, <2>1, <2>2 DEF Verify
<1>3. CASE Register(c)
  <2>1. CASE /\ Allowed(policy, client[c].key, database)
             /\ client' = [client EXCEPT ![c] = [client[c] EXCEPT !.state = "connected"]]
    BY <1>0, <1>3, <2>1 DEF Register, Allowed
  <2>2. CASE client' = [client EXCEPT ![c] = Away]
    BY <1>0, <2>2
  <2> QED BY <1>3, <2>1, <2>2 DEF Register
<1>4. CASE Disconnect(c)
  BY <1>0, <1>4 DEF Disconnect
<1> QED BY <1>1, <1>2, <1>3, <1>4

\* The restore and its rollback, as the sockets see them.
LEMMA JobKeepsSockets ==
  ASSUME JobPart, SocketPart, RestoreSteps \/ RollbackSteps
  PROVE  SocketPart'
<1>1. CASE Replace
  BY <1>1, PolicyKeepsSockets DEF Replace
<1>2. CASE Reload \/ UndoReload
  BY <1>2, ReloadKeepsSockets DEF Reload, UndoReload, ReloadPart, persisted
<1>3. CASE OpenAccess
  <2>1. CASE SetRecipientPolicy("lookup", database)
    BY <1>3, <2>1, PolicyKeepsSockets DEF OpenAccess, persisted
  <2>2. CASE UNCHANGED access
    BY <1>3, <2>2, TablesKeepSockets DEF OpenAccess, persisted, access
  <2> QED BY <1>3, <2>1, <2>2 DEF OpenAccess
<1>4. CASE UndoAccess
  <2>1. CASE SetRecipientPolicy("lookup", database)
    BY <1>4, <2>1, PolicyKeepsSockets DEF UndoAccess, persisted
  <2>2. CASE UNCHANGED access
    BY <1>4, <2>2, TablesKeepSockets DEF UndoAccess, persisted, access
  <2> QED BY <1>4, <2>1, <2>2 DEF UndoAccess
<1>5. CASE RegenerateKeys
  <2>1. database.key = NoKey
    BY <1>5 DEF RegenerateKeys, At, JobPart, KeysByStep, Replaced
  <2> QED BY <1>5, <2>1, TablesKeepSockets DEF RegenerateKeys, access
<1>6. CASE UndoDatabase
  <2>1. database = job.point.database \/ database.key = NoKey
    BY <1>6 DEF UndoDatabase, At, JobPart, KeysByStep, BeforeUndo
  <2>2. database.key = NoKey \/ UNCHANGED database
    BY <1>6, <2>1 DEF UndoDatabase
  <2> QED BY <1>6, <2>2, TablesKeepSockets DEF UndoDatabase, access
<1>7. CASE \/ \E a \in Archives : BeginRestore(a)
           \/ Refuse \/ Capture \/ Stage \/ SuspendMusic \/ UpdateConfig \/ RotateIdentity
           \/ ResumeMusic \/ ForgetCredentials
  BY <1>7, TablesKeepSockets DEF BeginRestore, Refuse, Capture, Stage, SuspendMusic, UpdateConfig,
     RotateIdentity, ResumeMusic, ForgetCredentials, persisted, access
<1>8. CASE UndoMusic \/ UndoIdentity \/ UndoConfig \/ UndoSuspend \/ Unstage
  BY <1>8, TablesKeepSockets DEF UndoMusic, UndoIdentity, UndoConfig, UndoSuspend, Unstage,
     persisted, access
<1> QED
  BY <1>1, <1>2, <1>3, <1>4, <1>5, <1>6, <1>7, <1>8 DEF RestoreSteps, RollbackSteps

\* Outside the restore nothing it keeps changes, except that a restart ends it.
LEMMA OtherSteps ==
  ASSUME JobPart, SocketPart, GateInv, [Next]_vars, ~(RestoreSteps \/ RollbackSteps)
  PROVE  JobPart' /\ SocketPart'
<1> USE DEF JobPart, Stored, InsideMaintenance, KeysByStep
<1>1. CASE \E t \in Tasks : (BeginIntake(t) \/ EndIntake(t)) /\ Outside
  BY <1>1, TablesKeepSockets DEF BeginIntake, EndIntake, Outside, persisted, runtime, access, bounds
<1>2. CASE \E s \in Stoppers : Stop(s) /\ Outside
  BY <1>2, TablesKeepSockets DEF Stop, Outside, persisted, runtime, access, bounds
<1>3. CASE \E c \in Clients : BeginRegister(c) \/ Verify(c) \/ Register(c) \/ Disconnect(c)
  BY <1>3, SocketStep DEF BeginRegister, Verify, Register, Disconnect, persisted, runtime, bounds,
     gateVars
<1>4. CASE Restart
  <2>1. Captured \in Points
    BY DEF Captured, Points
  <2>2. job' \in Jobs /\ job'.step = "idle" /\ ~maintenanceActive'
    BY <1>4, <2>1 DEF Restart, NoJob, Jobs, Steps, Outcomes, Configs
  <2>3. music' \in Music
    BY <1>4 DEF Restart, Music
  <2>4. SocketPart'
    BY <1>4 DEF Restart, SocketPart, SocketsPresentKeys, RecipientsHoldKeys, Sockets, Away, NoKey
  <2> QED
    BY <1>4, <2>2, <2>3, <2>4 DEF Restart, persisted, BeforeReplace, Replaced, BeforeUndo
<1>5. CASE UNCHANGED vars
  BY <1>5, TablesKeepSockets DEF vars, persisted, runtime, access, bounds, gateVars
<1> QED BY <1>1, <1>2, <1>3, <1>4, <1>5 DEF Next

\* Every step keeps the invariant.
LEMMA NextIInv == IInv /\ [Next]_vars => IInv'
<1> SUFFICES ASSUME IInv, [Next]_vars
             PROVE  IInv'
  OBVIOUS
<1>1. CASE RestoreSteps \/ RollbackSteps
  BY <1>1, GateStep, RestorePart, RollbackPart, JobKeepsSockets DEF IInv
<1>2. CASE ~(RestoreSteps \/ RollbackSteps)
  BY <1>2, GateStep, OtherSteps DEF IInv
<1> QED BY <1>1, <1>2

\* A stop that has resolved is followed by no intake and by no step of a restore,
\* whatever failed in it: the end of runMaintenance is the last thing it does.
THEOREM ShutdownSafe == RestoreSpec => []ShutdownWaits
<1>1. IInv => ShutdownWaits
  BY DEF IInv, GateInv, StoppedIsIdle, NobodyForgotten, JobPart, InsideMaintenance, ShutdownWaits, At
<1> QED BY <1>1, InitIInv, NextIInv, PTL DEF RestoreSpec

\* No overlay socket is connected with a key that is not the active one, through
\* any number of restores, failed steps, rollbacks and restarts.
THEOREM RecipientsSafe == RestoreSpec => []RecipientsHoldKeys
<1>1. IInv => RecipientsHoldKeys
  BY DEF IInv, SocketPart
<1> QED BY <1>1, InitIInv, NextIInv, PTL DEF RestoreSpec

----------------------------------------------------------------------------
(* What every store holds, by the step of the restore or of its rollback.   *)

Configured == {"reload", "rotate", "resume", "open", "credentials", "keys"}
Reloaded == {"rotate", "resume", "open", "credentials", "keys"}
Rotated == {"resume", "open", "credentials", "keys"}
Resumed == {"open", "credentials", "keys"}
Opened == {"credentials", "keys"}

\* The steps of the rollback that follow the one that undid a store.
AfterUndoSuspend == {"undo access", "unstage"}
AfterUndoReload == {"undo suspend"} \cup AfterUndoSuspend
AfterUndoConfig == {"undo reload"} \cup AfterUndoReload
AfterUndoIdentity == {"undo config"} \cup AfterUndoConfig
AfterUndoDatabase == {"undo identity"} \cup AfterUndoIdentity
Undoing == BeforeUndo \cup AfterUndoDatabase

\* A restore that is under way has no outcome yet.
Underway ==
  job.step # "idle" => job.outcome = "none" /\ job.archive \in Archives

\* The tables: as captured, the archive's, and as captured again unless an undo failed.
TablesByStep ==
  /\ job.step \in Replaced => database.config = job.archive
  /\ job.step \in AfterUndoDatabase /\ ~job.broken => database = job.point.database

\* The config file; if it is not as captured when the rollback starts, it is marked.
ConfigByStep ==
  /\ job.step \in BeforeReplace \cup {"config"} => appConfig = job.point.app
  /\ job.step \in Configured => appConfig = job.archive /\ job.updated
  /\ job.step \in Undoing \ AfterUndoConfig => appConfig = job.point.app \/ job.updated
  /\ job.step \in AfterUndoConfig /\ ~job.broken => appConfig = job.point.app

\* The identity: the one this restore makes is newer than any before it.
IdentityByStep ==
  /\ identity <= restores
  /\ job.step = "check" => identity < restores
  /\ job.step \notin {"idle", "check"} => job.point.identity < restores
  /\ job.step \in BeforeReplace \cup (Replaced \ Rotated) => identity = job.point.identity
  /\ job.step \in Rotated => identity = restores /\ job.changed
  /\ job.step \in Undoing \ AfterUndoIdentity => identity = job.point.identity \/ job.changed
  /\ job.step \in AfterUndoIdentity /\ ~job.broken => identity = job.point.identity

\* What the services have loaded, and whether they admit overlays.
LoadedByStep ==
  /\ job.step \in Reloaded =>
       loaded = [config |-> job.archive, app |-> job.archive] /\ catalog = job.archive
  /\ job.step \in Opened => policy = "lookup"
  /\ job.step \in AfterUndoReload /\ ~job.broken =>
       /\ loaded = [config |-> job.point.database.config, app |-> job.point.app]
       /\ catalog = job.point.database.config
       /\ policy = "lookup"

\* The Music runtime; if it is not as captured when the rollback starts, it is marked.
MusicByStep ==
  /\ job.step \in {"stage", "suspend"} => music = job.point.music
  /\ job.step \in {"replace"} \cup (Replaced \ Resumed) => job.suspended
  /\ job.step \in Resumed => music = "running"
  /\ job.step \in Undoing \ AfterUndoSuspend => music = job.point.music \/ job.suspended
  /\ job.step \in AfterUndoSuspend /\ ~job.broken /\ job.point.music = "running" => music = "running"

\* The first credentials leave the keyring only when no rollback can need them.
CredentialsByStep ==
  /\ database.config = Initial => paired
  /\ job.step \notin {"idle", "check", "keys"} /\ job.point.database.config = Initial => paired

DataPart ==
  /\ Underway /\ TablesByStep /\ ConfigByStep /\ IdentityByStep /\ LoadedByStep /\ MusicByStep
  /\ CredentialsByStep /\ AllOrNothing

\* Nothing has been restored yet.
LEMMA InitData == Init => DataPart
<1> SUFFICES ASSUME Init
             PROVE  DataPart
  OBVIOUS
<1>1. job.step = "idle" /\ job.outcome = "none"
  BY DEF Init, NoJob
<1>2. identity = 0 /\ restores = 0 /\ paired = TRUE
  BY DEF Init
<1> QED
  BY <1>1, <1>2 DEF DataPart, Underway, TablesByStep, ConfigByStep, IdentityByStep, LoadedByStep,
     MusicByStep, CredentialsByStep, AllOrNothing, BeforeReplace, Replaced, Configured, Reloaded,
     Rotated, Resumed, Opened, BeforeUndo, AfterUndoSuspend, AfterUndoReload, AfterUndoConfig,
     AfterUndoIdentity, AfterUndoDatabase, Undoing

\* A step of the restore keeps what every store holds.
LEMMA RestoreData ==
  ASSUME JobPart, DataPart, RestoreSteps
  PROVE  DataPart'
<1> USE DEF JobPart, Stored, DataPart, BeforeReplace, Replaced, Configured, Reloaded, Rotated, Resumed,
        Opened, BeforeUndo, AfterUndoSuspend, AfterUndoReload, AfterUndoConfig, AfterUndoIdentity,
        AfterUndoDatabase, Undoing, At, Rollback, persisted, runtime, access, bounds
<1>1. ASSUME NEW a \in Archives, BeginRestore(a)
      PROVE  DataPart'
  <2>1. job'.step = "check" /\ job'.outcome = "none" /\ job'.archive = a
    BY <1>1 DEF BeginRestore, NoJob
  <2>2. restores' = restores + 1
    BY <1>1 DEF BeginRestore
  <2>a. Underway' /\ TablesByStep' /\ CredentialsByStep'
    BY <1>1, <2>1, <2>2, JobHolds DEF BeginRestore, Underway, TablesByStep, KeysByStep, CredentialsByStep
  <2>b. ConfigByStep' /\ MusicByStep'
    BY <1>1, <2>1, <2>2 DEF BeginRestore, ConfigByStep, MusicByStep
  <2>c. IdentityByStep'
    <3>1. identity \in Nat /\ restores \in Nat /\ identity <= restores
      BY DEF IdentityByStep
    <3>2. identity' = identity
      BY <1>1 DEF BeginRestore
    <3>3. identity' < restores' /\ identity' <= restores'
      BY <2>2, <3>1, <3>2
    <3> QED BY <2>1, <3>3 DEF IdentityByStep
  <2>d. LoadedByStep' /\ AllOrNothing'
    BY <1>1, <2>1, <2>2 DEF BeginRestore, LoadedByStep, TablesByStep, ConfigByStep, IdentityByStep, MusicByStep, AllOrNothing, Underway
  <2> QED BY <2>a, <2>b, <2>c, <2>d
<1>2. CASE Refuse
  <2>1. job'.step = "idle" /\ job'.outcome = "refused"
    BY <1>2 DEF Refuse, Finish, Jobs
  <2>a. Underway' /\ TablesByStep' /\ CredentialsByStep'
    BY <1>2, <2>1, JobHolds DEF Refuse, Underway, TablesByStep, KeysByStep, CredentialsByStep
  <2>b. ConfigByStep' /\ MusicByStep'
    BY <1>2, <2>1 DEF Refuse, ConfigByStep, MusicByStep
  <2>c. IdentityByStep'
    BY <1>2, <2>1, JobHolds DEF Refuse, IdentityByStep
  <2>d. LoadedByStep' /\ AllOrNothing'
    BY <1>2, <2>1 DEF Refuse, LoadedByStep, TablesByStep, ConfigByStep, IdentityByStep, MusicByStep, AllOrNothing, Underway
  <2> QED BY <2>a, <2>b, <2>c, <2>d
<1>3. CASE Capture
  <2>1. /\ job'.step = "stage" /\ job'.outcome = job.outcome /\ job'.archive = job.archive
        /\ job'.point = Captured
    BY <1>3 DEF Capture, Jobs
  <2>a. Underway' /\ TablesByStep' /\ CredentialsByStep'
    BY <1>3, <2>1, JobHolds DEF Capture, Captured, Underway, TablesByStep, KeysByStep, CredentialsByStep
  <2>b. ConfigByStep' /\ MusicByStep'
    BY <1>3, <2>1 DEF Capture, Captured, ConfigByStep, MusicByStep
  <2>c. IdentityByStep'
    BY <1>3, <2>1, JobHolds DEF Capture, Captured, IdentityByStep
  <2>d. LoadedByStep' /\ AllOrNothing'
    BY <1>3, <2>1 DEF Capture, Captured, LoadedByStep, TablesByStep, ConfigByStep, IdentityByStep, MusicByStep, AllOrNothing, Underway
  <2> QED BY <2>a, <2>b, <2>c, <2>d
<1>4. CASE Stage
  <2>1. /\ job'.step = "suspend" \/ job'.step = "undo music"
        /\ job'.outcome = job.outcome /\ job'.archive = job.archive /\ job'.point = job.point
    BY <1>4 DEF Stage, Jobs
  <2>a. Underway' /\ TablesByStep' /\ CredentialsByStep'
    BY <1>4, <2>1, JobHolds DEF Stage, Underway, TablesByStep, KeysByStep, CredentialsByStep
  <2>b. ConfigByStep' /\ MusicByStep'
    BY <1>4, <2>1 DEF Stage, ConfigByStep, MusicByStep
  <2>c. IdentityByStep'
    BY <1>4, <2>1, JobHolds DEF Stage, IdentityByStep
  <2>d. LoadedByStep' /\ AllOrNothing'
    BY <1>4, <2>1 DEF Stage, LoadedByStep, TablesByStep, ConfigByStep, IdentityByStep, MusicByStep, AllOrNothing, Underway
  <2> QED BY <2>a, <2>b, <2>c, <2>d
<1>5. CASE SuspendMusic
  <2>1. /\ job'.step = "replace" \/ job'.step = "undo music"
        /\ job'.outcome = job.outcome /\ job'.archive = job.archive /\ job'.point = job.point
        /\ job'.suspended
    BY <1>5 DEF SuspendMusic, Jobs
  <2>a. Underway' /\ TablesByStep' /\ CredentialsByStep'
    BY <1>5, <2>1, JobHolds DEF SuspendMusic, Underway, TablesByStep, KeysByStep, CredentialsByStep
  <2>b. ConfigByStep' /\ MusicByStep'
    BY <1>5, <2>1 DEF SuspendMusic, ConfigByStep, MusicByStep
  <2>c. IdentityByStep'
    BY <1>5, <2>1, JobHolds DEF SuspendMusic, IdentityByStep
  <2>d. LoadedByStep' /\ AllOrNothing'
    BY <1>5, <2>1 DEF SuspendMusic, LoadedByStep, TablesByStep, ConfigByStep, IdentityByStep, MusicByStep, AllOrNothing, Underway
  <2> QED BY <2>a, <2>b, <2>c, <2>d
<1>6. CASE Replace
  <2>1. /\ \/ job'.step = "config" /\ database' = [config |-> job.archive, key |-> NoKey]
           \/ job'.step = "undo music" /\ UNCHANGED database
        /\ job'.outcome = job.outcome /\ job'.archive = job.archive /\ job'.point = job.point
        /\ job'.suspended = job.suspended
    <3>1. CASE /\ database' = [config |-> job.archive, key |-> NoKey]
               /\ job' = [job EXCEPT !.step = "config", !.retired = TRUE]
      BY <3>1 DEF Jobs
    <3>2. CASE job' = [job EXCEPT !.step = Rollback, !.retired = TRUE] /\ UNCHANGED database
      BY <3>2 DEF Jobs
    <3> QED BY <1>6, <3>1, <3>2 DEF Replace
  <2>a. Underway' /\ TablesByStep' /\ CredentialsByStep'
    <3>1. CASE job'.step = "config" /\ database' = [config |-> job.archive, key |-> NoKey]
      BY <1>6, <2>1, <3>1, InitialIsNoArchive DEF Replace, Underway, TablesByStep, CredentialsByStep
    <3>2. CASE job'.step = "undo music" /\ UNCHANGED database
      BY <1>6, <2>1, <3>2 DEF Replace, Underway, TablesByStep, CredentialsByStep
    <3> QED BY <2>1, <3>1, <3>2
  <2>b. ConfigByStep' /\ MusicByStep'
    BY <1>6, <2>1 DEF Replace, ConfigByStep, MusicByStep
  <2>c. IdentityByStep'
    BY <1>6, <2>1, JobHolds DEF Replace, IdentityByStep
  <2>d. LoadedByStep' /\ AllOrNothing'
    BY <1>6, <2>1 DEF Replace, LoadedByStep, TablesByStep, ConfigByStep, IdentityByStep, MusicByStep, AllOrNothing, Underway
  <2> QED BY <2>a, <2>b, <2>c, <2>d
<1>7. CASE UpdateConfig
  <2>1. /\ \/ job'.step = "reload" /\ appConfig' = job.archive /\ job'.updated
           \/ job'.step = "undo music" /\ UNCHANGED appConfig
        /\ job'.outcome = job.outcome /\ job'.archive = job.archive /\ job'.point = job.point
        /\ job'.suspended = job.suspended
    <3>1. CASE appConfig' = job.archive /\ job' = [job EXCEPT !.step = "reload", !.updated = TRUE]
      BY <3>1 DEF Jobs
    <3>2. CASE job' = [job EXCEPT !.step = Rollback] /\ UNCHANGED appConfig
      BY <3>2 DEF Jobs
    <3> QED BY <1>7, <3>1, <3>2 DEF UpdateConfig
  <2>a. Underway' /\ TablesByStep' /\ CredentialsByStep'
    BY <1>7, <2>1, JobHolds DEF UpdateConfig, Underway, TablesByStep, KeysByStep, CredentialsByStep
  <2>b. ConfigByStep' /\ MusicByStep'
    BY <1>7, <2>1 DEF UpdateConfig, ConfigByStep, MusicByStep
  <2>c. IdentityByStep'
    BY <1>7, <2>1, JobHolds DEF UpdateConfig, IdentityByStep
  <2>d. LoadedByStep' /\ AllOrNothing'
    BY <1>7, <2>1 DEF UpdateConfig, LoadedByStep, TablesByStep, ConfigByStep, IdentityByStep, MusicByStep, AllOrNothing, Underway
  <2> QED BY <2>a, <2>b, <2>c, <2>d
<1>8. CASE Reload
  <2>1. /\ \/ /\ job'.step = "rotate" /\ loaded' = [config |-> database.config, app |-> appConfig]
              /\ catalog' = job.archive
           \/ job'.step = "undo music"
        /\ job'.outcome = job.outcome /\ job'.archive = job.archive /\ job'.point = job.point
        /\ job'.suspended = job.suspended /\ job'.updated = job.updated
    BY <1>8 DEF Reload, ReloadWhole, Jobs
  <2>a. Underway' /\ TablesByStep' /\ CredentialsByStep'
    BY <1>8, <2>1, JobHolds DEF Reload, Underway, TablesByStep, KeysByStep, CredentialsByStep
  <2>b. ConfigByStep' /\ MusicByStep'
    BY <1>8, <2>1 DEF Reload, ConfigByStep, MusicByStep
  <2>c. IdentityByStep'
    BY <1>8, <2>1, JobHolds DEF Reload, IdentityByStep
  <2>d. LoadedByStep' /\ AllOrNothing'
    BY <1>8, <2>1 DEF Reload, LoadedByStep, TablesByStep, ConfigByStep, IdentityByStep, MusicByStep, AllOrNothing, Underway
  <2> QED BY <2>a, <2>b, <2>c, <2>d
<1>9. CASE RotateIdentity
  <2>1. /\ \/ job'.step = "resume" /\ identity' = restores
           \/ job'.step = "undo music" /\ UNCHANGED identity
        /\ job'.outcome = job.outcome /\ job'.archive = job.archive /\ job'.point = job.point
        /\ job'.suspended = job.suspended /\ job'.updated = job.updated /\ job'.changed
    <3>1. CASE identity' = restores /\ job' = [job EXCEPT !.step = "resume", !.changed = TRUE]
      BY <3>1 DEF Jobs
    <3>2. CASE job' = [job EXCEPT !.step = Rollback, !.changed = TRUE] /\ UNCHANGED identity
      BY <3>2 DEF Jobs
    <3> QED BY <1>9, <3>1, <3>2 DEF RotateIdentity
  <2>a. Underway' /\ TablesByStep' /\ CredentialsByStep'
    BY <1>9, <2>1, JobHolds DEF RotateIdentity, Underway, TablesByStep, KeysByStep, CredentialsByStep
  <2>b. ConfigByStep' /\ MusicByStep'
    BY <1>9, <2>1 DEF RotateIdentity, ConfigByStep, MusicByStep
  <2>c. IdentityByStep'
    <3>1. /\ identity \in Nat /\ restores \in Nat /\ identity <= restores /\ restores' = restores
          /\ job.point.identity < restores /\ identity = job.point.identity
      BY <1>9 DEF RotateIdentity, IdentityByStep
    <3>2. CASE job'.step = "resume" /\ identity' = restores
      BY <2>1, <3>1, <3>2 DEF IdentityByStep
    <3>3. CASE job'.step = "undo music" /\ UNCHANGED identity
      BY <2>1, <3>1, <3>3 DEF IdentityByStep
    <3> QED BY <2>1, <3>2, <3>3
  <2>d. LoadedByStep' /\ AllOrNothing'
    BY <1>9, <2>1 DEF RotateIdentity, LoadedByStep, TablesByStep, ConfigByStep, IdentityByStep, MusicByStep, AllOrNothing, Underway
  <2> QED BY <2>a, <2>b, <2>c, <2>d
<1>10. CASE ResumeMusic
  <2>1. /\ \/ job'.step = "open" /\ music' = "running"
           \/ job'.step = "undo music" /\ UNCHANGED music /\ job'.suspended = job.suspended
        /\ job'.outcome = job.outcome /\ job'.archive = job.archive /\ job'.point = job.point
        /\ job'.updated = job.updated /\ job'.changed = job.changed
    <3>1. CASE music' = "running" /\ job' = [job EXCEPT !.step = "open", !.suspended = FALSE]
      BY <3>1 DEF Jobs
    <3>2. CASE job' = [job EXCEPT !.step = Rollback] /\ UNCHANGED music
      BY <3>2 DEF Jobs
    <3> QED BY <1>10, <3>1, <3>2 DEF ResumeMusic
  <2>a. Underway' /\ TablesByStep' /\ CredentialsByStep'
    BY <1>10, <2>1, JobHolds DEF ResumeMusic, Underway, TablesByStep, KeysByStep, CredentialsByStep
  <2>b. ConfigByStep' /\ MusicByStep'
    BY <1>10, <2>1 DEF ResumeMusic, ConfigByStep, MusicByStep
  <2>c. IdentityByStep'
    BY <1>10, <2>1, JobHolds DEF ResumeMusic, IdentityByStep
  <2>d. LoadedByStep' /\ AllOrNothing'
    BY <1>10, <2>1 DEF ResumeMusic, LoadedByStep, TablesByStep, ConfigByStep, IdentityByStep, MusicByStep, AllOrNothing, Underway
  <2> QED BY <2>a, <2>b, <2>c, <2>d
<1>11. CASE OpenAccess
  <2>1. /\ \/ job'.step = "credentials" /\ job'.outcome = job.outcome /\ policy' = "lookup"
           \/ job'.step = "idle" /\ job'.outcome = "unfinished"
        /\ job'.archive = job.archive /\ job'.point = job.point
        /\ job'.updated = job.updated /\ job'.changed = job.changed
    <3>1. CASE policy' = "lookup" /\ job' = [job EXCEPT !.step = "credentials"]
      BY <3>1 DEF Jobs
    <3>2. CASE job' = [job EXCEPT !.step = "idle", !.outcome = "unfinished"]
      BY <3>2 DEF Jobs
    <3> QED BY <1>11, <3>1, <3>2 DEF OpenAccess, Finish, SetRecipientPolicy
  <2>a. Underway' /\ TablesByStep' /\ CredentialsByStep'
    BY <1>11, <2>1, JobHolds DEF OpenAccess, Underway, TablesByStep, KeysByStep, CredentialsByStep
  <2>b. ConfigByStep' /\ MusicByStep'
    BY <1>11, <2>1 DEF OpenAccess, ConfigByStep, MusicByStep
  <2>c. IdentityByStep'
    BY <1>11, <2>1, JobHolds DEF OpenAccess, IdentityByStep
  <2>d. LoadedByStep' /\ AllOrNothing'
    BY <1>11, <2>1 DEF OpenAccess, LoadedByStep, TablesByStep, ConfigByStep, IdentityByStep, MusicByStep, AllOrNothing, Underway
  <2> QED BY <2>a, <2>b, <2>c, <2>d
<1>12. CASE ForgetCredentials
  <2>1. /\ job'.step = "keys" /\ job'.outcome = job.outcome
        /\ job'.archive = job.archive /\ job'.point = job.point
        /\ job'.updated = job.updated /\ job'.changed = job.changed
    BY <1>12 DEF ForgetCredentials, Jobs
  <2>a. Underway' /\ TablesByStep' /\ CredentialsByStep'
    BY <1>12, <2>1, InitialIsNoArchive, JobHolds DEF ForgetCredentials, Underway, TablesByStep, KeysByStep, CredentialsByStep
  <2>b. ConfigByStep' /\ MusicByStep'
    BY <1>12, <2>1 DEF ForgetCredentials, ConfigByStep, MusicByStep
  <2>c. IdentityByStep'
    BY <1>12, <2>1, JobHolds DEF ForgetCredentials, IdentityByStep
  <2>d. LoadedByStep' /\ AllOrNothing'
    BY <1>12, <2>1 DEF ForgetCredentials, LoadedByStep, TablesByStep, ConfigByStep, IdentityByStep, MusicByStep, AllOrNothing, Underway
  <2> QED BY <2>a, <2>b, <2>c, <2>d
<1>13. CASE RegenerateKeys
  <2>1. /\ job'.step = "idle" /\ job'.outcome = "completed"
        /\ job'.archive = job.archive /\ job'.point = job.point
    BY <1>13 DEF RegenerateKeys, Finish, Jobs
  <2>2. database'.config = database.config
    BY <1>13 DEF RegenerateKeys, Databases
  <2>a. Underway' /\ TablesByStep' /\ CredentialsByStep'
    BY <1>13, <2>1, <2>2, InitialIsNoArchive, JobHolds DEF RegenerateKeys, Agrees, Underway, TablesByStep, KeysByStep, CredentialsByStep
  <2>b. ConfigByStep' /\ MusicByStep'
    BY <1>13, <2>1, <2>2 DEF RegenerateKeys, Agrees, ConfigByStep, MusicByStep
  <2>c. IdentityByStep'
    BY <1>13, <2>1, <2>2, JobHolds DEF RegenerateKeys, Agrees, IdentityByStep
  <2>d. LoadedByStep'
    BY <1>13, <2>1 DEF LoadedByStep
  <2>e. AllOrNothing'
    <3>1. /\ database'.config = job.archive /\ appConfig' = job.archive
          /\ loaded' = [config |-> job.archive, app |-> job.archive] /\ catalog' = job.archive
      BY <1>13, <2>2 DEF RegenerateKeys, TablesByStep, ConfigByStep, LoadedByStep
    <3>2. identity' # job.point.identity
      BY <1>13, JobHolds DEF RegenerateKeys, IdentityByStep
    <3>3. music' = "running" /\ policy' = "lookup"
      BY <1>13 DEF RegenerateKeys, MusicByStep, LoadedByStep
    <3> QED BY <2>1, <3>1, <3>2, <3>3 DEF AllOrNothing, Agrees
  <2> QED BY <2>a, <2>b, <2>c, <2>d, <2>e
<1> QED
  BY <1>1, <1>2, <1>3, <1>4, <1>5, <1>6, <1>7, <1>8, <1>9, <1>10, <1>11, <1>12, <1>13 DEF RestoreSteps

\* A step of the rollback moves the job on and keeps what it has set.
LEMMA MovedBack ==
  ASSUME job \in Jobs, NEW next \in Steps, Undone(next) \/ UndoFailed(next)
  PROVE  /\ job'.step = next /\ job'.point = job.point /\ job'.archive = job.archive
         /\ job'.outcome = job.outcome /\ (job.broken => job'.broken)
         /\ (job.updated => job'.updated) /\ (job.changed => job'.changed)
         /\ (job.suspended => job'.suspended)
<1>1. CASE Undone(next)
  BY <1>1 DEF Undone, Jobs
<1>2. CASE UndoFailed(next)
  BY <1>2 DEF UndoFailed, Jobs
<1> QED BY <1>1, <1>2

\* One that failed is remembered.
LEMMA FailureMarked ==
  ASSUME job \in Jobs, NEW next \in Steps, UndoFailed(next)
  PROVE  job'.broken
BY DEF UndoFailed, Jobs

\* A step of the rollback keeps what every store holds.
LEMMA RollbackData ==
  ASSUME JobPart, DataPart, RollbackSteps
  PROVE  DataPart'
<1> USE DEF JobPart, Stored, DataPart, BeforeReplace, Replaced, Configured, Reloaded, Rotated, Resumed,
        Opened, BeforeUndo, AfterUndoSuspend, AfterUndoReload, AfterUndoConfig, AfterUndoIdentity,
        AfterUndoDatabase, Undoing, At, persisted, runtime, access, bounds
<1>1. CASE UndoMusic
  <2>1. Undone("undo database") \/ UndoFailed("undo database")
    BY <1>1 DEF UndoMusic
  <2>2. /\ job'.step = "undo database" /\ job'.point = job.point /\ job'.archive = job.archive
        /\ job'.outcome = job.outcome /\ (job.broken => job'.broken)
        /\ (job.updated => job'.updated) /\ (job.changed => job'.changed)
        /\ (job.suspended => job'.suspended)
    BY <2>1, MovedBack DEF Steps
  <2>3. music' = music \/ job'.suspended
    BY <1>1, <2>2, FailureMarked DEF Steps, UndoMusic
  <2>a. Underway' /\ TablesByStep' /\ CredentialsByStep'
    BY <1>1, <2>2, <2>3, JobHolds DEF UndoMusic, Underway, TablesByStep, KeysByStep, CredentialsByStep
  <2>b. ConfigByStep' /\ MusicByStep'
    BY <1>1, <2>2, <2>3 DEF UndoMusic, ConfigByStep, MusicByStep
  <2>c. IdentityByStep'
    BY <1>1, <2>2, <2>3, JobHolds DEF UndoMusic, IdentityByStep
  <2>d. LoadedByStep'
    BY <1>1, <2>2, <2>3 DEF UndoMusic, LoadedByStep, TablesByStep, ConfigByStep
  <2>e. AllOrNothing'
    <3>1. job'.outcome = "none"
      BY <1>1, <2>2 DEF UndoMusic, Underway
    <3> QED BY <3>1 DEF AllOrNothing
  <2> QED BY <2>a, <2>b, <2>c, <2>d, <2>e
<1>2. CASE UndoDatabase
  <2>1. Undone("undo identity") \/ UndoFailed("undo identity")
    BY <1>2 DEF UndoDatabase
  <2>2. /\ job'.step = "undo identity" /\ job'.point = job.point /\ job'.archive = job.archive
        /\ job'.outcome = job.outcome /\ (job.broken => job'.broken)
        /\ (job.updated => job'.updated) /\ (job.changed => job'.changed)
        /\ (job.suspended => job'.suspended)
    BY <2>1, MovedBack DEF Steps
  <2>3. job'.broken \/ database' = job.point.database
    BY <1>2, <2>2, FailureMarked DEF Steps, UndoDatabase
  <2>a. Underway' /\ TablesByStep' /\ CredentialsByStep'
    BY <1>2, <2>2, <2>3, JobHolds DEF UndoDatabase, Underway, TablesByStep, KeysByStep, CredentialsByStep
  <2>b. ConfigByStep' /\ MusicByStep'
    BY <1>2, <2>2, <2>3 DEF UndoDatabase, ConfigByStep, MusicByStep
  <2>c. IdentityByStep'
    BY <1>2, <2>2, <2>3, JobHolds DEF UndoDatabase, IdentityByStep
  <2>d. LoadedByStep'
    BY <1>2, <2>2, <2>3 DEF UndoDatabase, LoadedByStep, TablesByStep, ConfigByStep
  <2>e. AllOrNothing'
    <3>1. job'.outcome = "none"
      BY <1>2, <2>2 DEF UndoDatabase, Underway
    <3> QED BY <3>1 DEF AllOrNothing
  <2> QED BY <2>a, <2>b, <2>c, <2>d, <2>e
<1>3. CASE UndoIdentity
  <2>1. Undone("undo config") \/ UndoFailed("undo config")
    BY <1>3 DEF UndoIdentity
  <2>2. /\ job'.step = "undo config" /\ job'.point = job.point /\ job'.archive = job.archive
        /\ job'.outcome = job.outcome /\ (job.broken => job'.broken)
        /\ (job.updated => job'.updated) /\ (job.changed => job'.changed)
        /\ (job.suspended => job'.suspended)
    BY <2>1, MovedBack DEF Steps
  <2>3. job'.broken \/ identity' = job.point.identity
    BY <1>3, <2>2, FailureMarked DEF Steps, UndoIdentity, IdentityByStep
  <2>a. Underway' /\ TablesByStep' /\ CredentialsByStep'
    BY <1>3, <2>2, <2>3, JobHolds DEF UndoIdentity, Underway, TablesByStep, KeysByStep, CredentialsByStep
  <2>b. ConfigByStep' /\ MusicByStep'
    BY <1>3, <2>2, <2>3 DEF UndoIdentity, ConfigByStep, MusicByStep
  <2>c. IdentityByStep'
    <3>1. /\ identity <= restores /\ job.point.identity < restores /\ restores' = restores
          /\ identity' = identity \/ identity' = job.point.identity
      BY <1>3 DEF UndoIdentity, IdentityByStep
    <3>2. identity' <= restores'
      BY <3>1, JobHolds
    <3> QED BY <2>2, <2>3, <3>1, <3>2 DEF IdentityByStep
  <2>d. LoadedByStep'
    BY <1>3, <2>2, <2>3 DEF UndoIdentity, LoadedByStep, TablesByStep, ConfigByStep
  <2>e. AllOrNothing'
    <3>1. job'.outcome = "none"
      BY <1>3, <2>2 DEF UndoIdentity, Underway
    <3> QED BY <3>1 DEF AllOrNothing
  <2> QED BY <2>a, <2>b, <2>c, <2>d, <2>e
<1>4. CASE UndoConfig
  <2>1. Undone("undo reload") \/ UndoFailed("undo reload")
    BY <1>4 DEF UndoConfig
  <2>2. /\ job'.step = "undo reload" /\ job'.point = job.point /\ job'.archive = job.archive
        /\ job'.outcome = job.outcome /\ (job.broken => job'.broken)
        /\ (job.updated => job'.updated) /\ (job.changed => job'.changed)
        /\ (job.suspended => job'.suspended)
    BY <2>1, MovedBack DEF Steps
  <2>3. job'.broken \/ appConfig' = job.point.app
    BY <1>4, <2>2, FailureMarked DEF Steps, UndoConfig, ConfigByStep
  <2>a. Underway' /\ TablesByStep' /\ CredentialsByStep'
    BY <1>4, <2>2, <2>3, JobHolds DEF UndoConfig, Underway, TablesByStep, KeysByStep, CredentialsByStep
  <2>b. ConfigByStep' /\ MusicByStep'
    BY <1>4, <2>2, <2>3 DEF UndoConfig, ConfigByStep, MusicByStep
  <2>c. IdentityByStep'
    BY <1>4, <2>2, <2>3, JobHolds DEF UndoConfig, IdentityByStep
  <2>d. LoadedByStep'
    BY <1>4, <2>2, <2>3 DEF UndoConfig, LoadedByStep, TablesByStep, ConfigByStep
  <2>e. AllOrNothing'
    <3>1. job'.outcome = "none"
      BY <1>4, <2>2 DEF UndoConfig, Underway
    <3> QED BY <3>1 DEF AllOrNothing
  <2> QED BY <2>a, <2>b, <2>c, <2>d, <2>e
<1>5. CASE UndoReload
  <2>1. Undone("undo suspend") \/ UndoFailed("undo suspend")
    BY <1>5 DEF UndoReload
  <2>2. /\ job'.step = "undo suspend" /\ job'.point = job.point /\ job'.archive = job.archive
        /\ job'.outcome = job.outcome /\ (job.broken => job'.broken)
        /\ (job.updated => job'.updated) /\ (job.changed => job'.changed)
        /\ (job.suspended => job'.suspended)
    BY <2>1, MovedBack DEF Steps
  <2>3. \/ job'.broken
        \/ loaded' = [config |-> database.config, app |-> appConfig] /\ policy' = "lookup"
    BY <1>5, <2>2, FailureMarked DEF Steps, UndoReload, ReloadWhole, SetRecipientPolicy
  <2>a. Underway' /\ TablesByStep' /\ CredentialsByStep'
    BY <1>5, <2>2, <2>3, JobHolds DEF UndoReload, Underway, TablesByStep, KeysByStep, CredentialsByStep
  <2>b. ConfigByStep' /\ MusicByStep'
    BY <1>5, <2>2, <2>3 DEF UndoReload, ConfigByStep, MusicByStep
  <2>c. IdentityByStep'
    BY <1>5, <2>2, <2>3, JobHolds DEF UndoReload, IdentityByStep
  <2>d. LoadedByStep'
    BY <1>5, <2>2, <2>3 DEF UndoReload, LoadedByStep, TablesByStep, ConfigByStep
  <2>e. AllOrNothing'
    <3>1. job'.outcome = "none"
      BY <1>5, <2>2 DEF UndoReload, Underway
    <3> QED BY <3>1 DEF AllOrNothing
  <2> QED BY <2>a, <2>b, <2>c, <2>d, <2>e
<1>6. CASE UndoSuspend
  <2>1. Undone("undo access") \/ UndoFailed("undo access")
    BY <1>6 DEF UndoSuspend
  <2>2. /\ job'.step = "undo access" /\ job'.point = job.point /\ job'.archive = job.archive
        /\ job'.outcome = job.outcome /\ (job.broken => job'.broken)
        /\ (job.updated => job'.updated) /\ (job.changed => job'.changed)
        /\ (job.suspended => job'.suspended)
    BY <2>1, MovedBack DEF Steps
  <2>3. job'.broken \/ music' = "running" \/ (~job.suspended /\ music' = music)
    <3>1. CASE job.suspended
      BY <1>6, <3>1, FailureMarked DEF Steps, UndoSuspend
    <3>2. CASE ~job.suspended
      BY <1>6, <3>2 DEF UndoSuspend
    <3> QED BY <3>1, <3>2
  <2>a. Underway' /\ TablesByStep' /\ CredentialsByStep'
    BY <1>6, <2>2, <2>3, JobHolds DEF UndoSuspend, Underway, TablesByStep, KeysByStep, CredentialsByStep
  <2>b. ConfigByStep' /\ MusicByStep'
    BY <1>6, <2>2, <2>3 DEF UndoSuspend, ConfigByStep, MusicByStep
  <2>c. IdentityByStep'
    BY <1>6, <2>2, <2>3, JobHolds DEF UndoSuspend, IdentityByStep
  <2>d. LoadedByStep'
    BY <1>6, <2>2, <2>3 DEF UndoSuspend, LoadedByStep, TablesByStep, ConfigByStep
  <2>e. AllOrNothing'
    <3>1. job'.outcome = "none"
      BY <1>6, <2>2 DEF UndoSuspend, Underway
    <3> QED BY <3>1 DEF AllOrNothing
  <2> QED BY <2>a, <2>b, <2>c, <2>d, <2>e
<1>7. CASE UndoAccess
  <2>1. Undone("unstage") \/ UndoFailed("unstage")
    BY <1>7 DEF UndoAccess
  <2>2. /\ job'.step = "unstage" /\ job'.point = job.point /\ job'.archive = job.archive
        /\ job'.outcome = job.outcome /\ (job.broken => job'.broken)
        /\ (job.updated => job'.updated) /\ (job.changed => job'.changed)
        /\ (job.suspended => job'.suspended)
    BY <2>1, MovedBack DEF Steps
  <2>3. job'.broken \/ policy' = "lookup"
    BY <1>7, <2>2, FailureMarked DEF Steps, UndoAccess, LoadedByStep, SetRecipientPolicy
  <2>a. Underway' /\ TablesByStep' /\ CredentialsByStep'
    BY <1>7, <2>2, <2>3, JobHolds DEF UndoAccess, Underway, TablesByStep, KeysByStep, CredentialsByStep
  <2>b. ConfigByStep' /\ MusicByStep'
    BY <1>7, <2>2, <2>3 DEF UndoAccess, ConfigByStep, MusicByStep
  <2>c. IdentityByStep'
    BY <1>7, <2>2, <2>3, JobHolds DEF UndoAccess, IdentityByStep
  <2>d. LoadedByStep'
    BY <1>7, <2>2, <2>3 DEF UndoAccess, LoadedByStep, TablesByStep, ConfigByStep
  <2>e. AllOrNothing'
    <3>1. job'.outcome = "none"
      BY <1>7, <2>2 DEF UndoAccess, Underway
    <3> QED BY <3>1 DEF AllOrNothing
  <2> QED BY <2>a, <2>b, <2>c, <2>d, <2>e
<1>8. CASE Unstage
  <2>1. /\ job'.step = "idle" /\ job'.archive = job.archive /\ job'.point = job.point
        /\ job'.outcome = IF job.broken THEN "broken" ELSE "rolled back"
    BY <1>8 DEF Unstage, Finish, Jobs
  <2>2. UNCHANGED <<database, appConfig, identity, paired, loaded, catalog, music, policy, restores>>
    BY <1>8 DEF Unstage
  <2>3. CASE job.broken
    <3>1. job'.outcome = "broken"
      BY <2>1, <2>3
    <3> QED BY <2>1, <2>2, <3>1 DEF IdentityByStep, AllOrNothing, Underway, TablesByStep, ConfigByStep,
               LoadedByStep, MusicByStep, CredentialsByStep
  <2>4. CASE ~job.broken
    <3>1. job'.outcome = "rolled back"
      BY <2>1, <2>4
    <3>2. Agrees(job.point.database.config, job.point.app)'
      BY <1>8, <2>1, <2>2, <2>4 DEF Unstage, Agrees, TablesByStep, ConfigByStep, LoadedByStep
    <3>3. database = job.point.database /\ identity = job.point.identity /\ policy = "lookup"
      BY <1>8, <2>4 DEF Unstage, TablesByStep, IdentityByStep, LoadedByStep
    <3>4. job.point.music = "running" => music = "running"
      BY <1>8, <2>4 DEF Unstage, MusicByStep
    <3>5. AllOrNothing'
      BY <2>1, <2>2, <3>1, <3>2, <3>3, <3>4 DEF AllOrNothing, Agrees, CredentialsByStep
    <3> QED BY <2>1, <2>2, <3>5 DEF IdentityByStep, Underway, TablesByStep, ConfigByStep,
               LoadedByStep, MusicByStep, CredentialsByStep
  <2> QED BY <2>3, <2>4
<1> QED
  BY <1>1, <1>2, <1>3, <1>4, <1>5, <1>6, <1>7, <1>8 DEF RollbackSteps

\* Outside the restore no store changes; a restart forgets the job.
LEMMA OtherData ==
  ASSUME JobPart, DataPart, [Next]_vars, ~(RestoreSteps \/ RollbackSteps)
  PROVE  DataPart'
<1>1. CASE Restart
  <2>1. job'.step = "idle" /\ job'.outcome = "none"
    BY <1>1 DEF Restart, NoJob
  <2>2. identity' <= restores' /\ (database'.config = Initial => paired')
    BY <1>1 DEF Restart, persisted, DataPart, IdentityByStep, CredentialsByStep
  <2> QED BY <2>1, <2>2 DEF DataPart, Underway, TablesByStep, ConfigByStep, IdentityByStep, LoadedByStep,
       MusicByStep, CredentialsByStep, AllOrNothing, BeforeReplace, Replaced, Configured, Reloaded,
       Rotated, Resumed, Opened, BeforeUndo, AfterUndoSuspend, AfterUndoReload, AfterUndoConfig,
       AfterUndoIdentity, AfterUndoDatabase, Undoing
<1>2. CASE UNCHANGED <<database, appConfig, identity, paired, loaded, catalog, music, policy, job, restores>>
  <2>1. Underway' /\ TablesByStep' /\ CredentialsByStep'
    BY <1>2 DEF DataPart, Underway, TablesByStep, CredentialsByStep
  <2>2. ConfigByStep' /\ MusicByStep'
    BY <1>2 DEF DataPart, ConfigByStep, MusicByStep
  <2>3. IdentityByStep'
    BY <1>2 DEF DataPart, IdentityByStep
  <2>4. LoadedByStep'
    BY <1>2 DEF DataPart, LoadedByStep
  <2>5. AllOrNothing'
    BY <1>2 DEF DataPart, AllOrNothing, Agrees
  <2> QED BY <2>1, <2>2, <2>3, <2>4, <2>5 DEF DataPart
<1>3. CASE \E t \in Tasks : (BeginIntake(t) \/ EndIntake(t)) /\ Outside
  BY <1>2, <1>3 DEF Outside, persisted, runtime, access, bounds
<1>4. CASE \E s \in Stoppers : Stop(s) /\ Outside
  BY <1>2, <1>4 DEF Outside, persisted, runtime, access, bounds
<1>5. CASE \E c \in Clients : BeginRegister(c) \/ Verify(c) \/ Register(c) \/ Disconnect(c)
  BY <1>2, <1>5 DEF BeginRegister, Verify, Register, Disconnect, persisted, runtime, bounds
<1>6. CASE UNCHANGED vars
  BY <1>2, <1>6 DEF vars, persisted, runtime, access, bounds
<1> QED BY <1>1, <1>3, <1>4, <1>5, <1>6 DEF Next

\* A restore that completed left every store and service with the archive, and one
\* that was rolled back left all of them as they were, wherever it failed and
\* whatever earlier restores, failures and restarts left behind.
THEOREM RestoreAllOrNothing == RestoreSpec => []AllOrNothing
<1>1. Init => IInv /\ DataPart
  BY InitIInv, InitData
<1>2. IInv /\ DataPart /\ [Next]_vars => (IInv /\ DataPart)'
  BY NextIInv, RestoreData, RollbackData, OtherData DEF IInv
<1>3. IInv /\ DataPart => AllOrNothing
  BY DEF DataPart
<1> QED BY <1>1, <1>2, <1>3, PTL DEF RestoreSpec
==========================================================================
