------------------------- MODULE MaintenanceGate -------------------------
(* RuntimeMaintenanceGate (apps/server/src/modules/backup/                 *)
(* runtime-maintenance-gate.ts): intake work is counted, maintenance runs  *)
(* alone, and a stop refuses both from then on and resolves once the work  *)
(* under way has ended.  An await inside the work is the time between the  *)
(* action that begins it and the one that ends it.                         *)

CONSTANTS
  Tasks,     \* work that may ask to run as intake
  Stoppers   \* calls of stop()

VARIABLES
  maintenanceActive,
  intake,      \* the work counted by activeIntakeCount
  stopping,
  drained,     \* calls of stop() that wait for the work under way
  stopped      \* calls of stop() that have resolved

gateVars == <<maintenanceActive, intake, stopping, drained, stopped>>

GateInit ==
  /\ maintenanceActive = FALSE
  /\ intake = {}
  /\ stopping = FALSE
  /\ drained = {}
  /\ stopped = {}

GateTypeOK ==
  /\ maintenanceActive \in BOOLEAN
  /\ intake \subseteq Tasks
  /\ stopping \in BOOLEAN
  /\ drained \subseteq Stoppers
  /\ stopped \subseteq Stoppers

\* What intake and configuration changes ask for before they run.
Available == ~maintenanceActive /\ ~stopping

\* Nothing is under way, given what is left of both kinds of work.
Idle(work, active) == work = {} /\ ~active

NotifyDrained(work, active) ==
  IF Idle(work, active)
  THEN stopped' = stopped \cup drained /\ drained' = {}
  ELSE UNCHANGED <<stopped, drained>>

BeginIntake(t) ==
  /\ Available
  /\ t \in Tasks \ intake
  /\ intake' = intake \cup {t}
  /\ UNCHANGED <<maintenanceActive, stopping, drained, stopped>>

\* The work returned or threw: the count goes down either way.
EndIntake(t) ==
  /\ t \in intake
  /\ intake' = intake \ {t}
  /\ NotifyDrained(intake', maintenanceActive)
  /\ UNCHANGED <<maintenanceActive, stopping>>

BeginMaintenance ==
  /\ Available
  /\ intake = {}
  /\ maintenanceActive' = TRUE
  /\ UNCHANGED <<intake, stopping, drained, stopped>>

EndMaintenance ==
  /\ maintenanceActive
  /\ maintenanceActive' = FALSE
  /\ NotifyDrained(intake, FALSE)
  /\ UNCHANGED <<intake, stopping>>

\* A bug to catch: a stop that waits for intake alone.
StopIntakeOnly(s) ==
  /\ s \in Stoppers \ (drained \cup stopped)
  /\ stopping' = TRUE
  /\ IF intake = {}
     THEN stopped' = stopped \cup {s} /\ UNCHANGED drained
     ELSE drained' = drained \cup {s} /\ UNCHANGED stopped
  /\ UNCHANGED <<maintenanceActive, intake>>

Stop(s) ==
  /\ s \in Stoppers \ (drained \cup stopped)
  /\ stopping' = TRUE
  /\ IF Idle(intake, maintenanceActive)
     THEN stopped' = stopped \cup {s} /\ UNCHANGED drained
     ELSE drained' = drained \cup {s} /\ UNCHANGED stopped
  /\ UNCHANGED <<maintenanceActive, intake>>

GateNext ==
  \/ \E t \in Tasks : BeginIntake(t) \/ EndIntake(t)
  \/ BeginMaintenance
  \/ EndMaintenance
  \/ \E s \in Stoppers : Stop(s)

GateSpec == GateInit /\ [][GateNext]_gateVars

(* Maintenance never overlaps intake, a resolved stop stays true (nothing  *)
(* runs and nothing will), and a stop that waits has something to wait     *)
(* for, so no stop() is forgotten by the end of the last work              *)
(* (runtime-maintenance-gate.ts 14-66).                                    *)
MaintenanceAlone == maintenanceActive => intake = {}
StoppedIsIdle == stopped # {} => stopping /\ intake = {} /\ ~maintenanceActive
NobodyForgotten == drained # {} => stopping /\ (intake # {} \/ maintenanceActive)

GateInv == GateTypeOK /\ MaintenanceAlone /\ StoppedIsIdle /\ NobodyForgotten
==========================================================================
