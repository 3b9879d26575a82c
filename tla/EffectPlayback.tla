--------------------------- MODULE EffectPlayback ---------------------------
(***************************************************************************)
(* The queue of screen effects, their admission, and the coordinator that  *)
(* plays one of them on all of its outputs.                                *)
(*   packages/core/src/screen-effects/effect-queue.ts                      *)
(*   apps/server/src/modules/screen-effects/effect-admission-service.ts    *)
(*   apps/server/src/modules/screen-effects/effect-playback-coordinator.ts *)
(*   apps/server/src/modules/playback/playback-queue-owners.ts             *)
(*                                                                         *)
(* An action is what runs between two awaits.  The sinks are those of the  *)
(* runtime: all of them prepare before they start.  Which of the pending   *)
(* effects is the first is left open, the browser instructions of an       *)
(* effect are one, and the status an effect is recorded with is left out,  *)
(* so that a replay is an admission like any other.                        *)
(***************************************************************************)
EXTENDS Integers, FiniteSets

CONSTANTS
  Clients,         \* browser overlay clients
  Shapes,          \* the sets of outputs an effect may have
  MaxPending,      \* maxPending of the queue
  StopsMayFail,    \* whether the device may fail to acknowledge a stop
  Operations,      \* bound: the operations users perform
  MaxItems,        \* bound: effects ever admitted
  MaxCalls,        \* bound: due calls of startNext() at which another may be added
  MaxDisruptions   \* bound: disabled modules, tried restores, throws and closes

Kinds == {"audio", "desktop"}
Recipients == Kinds \cup {"browser"}

ASSUME EffectAssumption ==
  /\ Shapes \subseteq SUBSET Recipients \ {{}}
  /\ MaxPending \in Nat \ {0} /\ StopsMayFail \in BOOLEAN
  /\ Operations \subseteq {"remove", "clear", "pause", "safety", "skip", "close"}
  /\ MaxItems \in Nat /\ MaxCalls \in Nat /\ MaxDisruptions \in Nat

VARIABLES
  current, queued, modulePaused,  \* DefaultEffectQueue
  shape,         \* the outputs of each effect
  made,          \* effects admitted so far
  own,           \* what the event whose matches are being admitted has queued so far
  admission,     \* the match or replay under way: whether its media are captured
  media,         \* effects whose media LocalMediaService keeps
  maintenance,   \* LocalMediaService.maintenance() is at work
  held,          \* global pause or do not disturb
  enabled,       \* the stored configuration of the module
  disables,      \* calls of disable() that are due
  calls,         \* calls of startNext() that are due
  starter,       \* where the loop of startNext() waits; #starting
  active,        \* #active
  closed,        \* #closed
  (* the world *)
  connected,     \* browser clients with an open socket
  sounds,        \* audio and desktop plays that can be heard or seen
  (* history *)
  rejected,      \* effects whose audio rejected its start while it may sound
  left,          \* effects left behind since startNext() last looked at the queue
  disruptions

queueVars == <<current, queued, modulePaused>>
admissionVars == <<shape, made, own, admission, maintenance>>
policyVars == <<held, enabled, disables>>
world == <<connected, sounds, rejected>>
history == <<left, disruptions>>
effectVars == <<queueVars, admissionVars, media, policyVars, calls, starter, active, closed,
                world, history>>

Items == 1 .. MaxItems
None == 0
NotStarting == [at |-> "idle", answer |-> FALSE]
Asking == [at |-> "module", answer |-> FALSE]
Inactive ==
  [item |-> None,
   group |-> FALSE,      \* preparing
   preparing |-> {},     \* recipients that have not settled
   cleaning |-> {},      \* failed ones whose stop is awaited
   ready |-> {},         \* those that can start
   clients |-> {},       \* who has to finish the browser instruction
   gone |-> {},          \* disconnectedClients
   pending |-> {},       \* audioPending, desktopPending
   finished |-> FALSE,
   stopping |-> FALSE]

Playing(i) ==
  [Inactive EXCEPT !.item = i, !.group = TRUE, !.preparing = shape[i],
                   !.pending = shape[i] \cap Kinds]

IsActive == active.item # None /\ ~active.finished /\ ~closed
Available(i) == i \in media /\ ~maintenance

-----------------------------------------------------------------------------
(* Admission and the queue *)

\* #enqueueCaptured up to its last read of the module, for a replay or for the
\* next match of an event: media are captured.
BeginAdmission ==
  /\ admission = "none" /\ made < MaxItems
  /\ enabled /\ ~maintenance /\ Cardinality(queued) < MaxPending
  /\ admission' = "captured"
  /\ UNCHANGED <<queueVars, shape, made, own, media, maintenance, policyVars, calls, starter,
                 active, closed, world, history>>

\* The effect turns out to have no output, no media or no room, or its replay
\* throws.
RejectAdmission ==
  /\ admission # "none" /\ admission' = "none"
  /\ UNCHANGED <<queueVars, shape, made, own, media, maintenance, policyVars, calls, starter,
                 active, closed, world, history>>

\* The effect is queued, also when its media cannot be committed any more: then
\* it is reported as missing a reference and stays queued without media.  A match
\* waits for the end of its event; a replay calls startNext() at once, but only
\* if nothing was missing.
Enqueue(s) ==
  LET i == made + 1
      committed == admission = "captured" /\ ~maintenance
  IN
  /\ admission # "none" /\ Cardinality(queued) < MaxPending
  /\ admission' = "none"
  /\ made' = i
  /\ shape' = [shape EXCEPT ![i] = s]
  /\ queued' = queued \cup {i}
  /\ media' = IF committed THEN media \cup {i} ELSE media
  /\ \/ own' = own \cup {i} /\ UNCHANGED <<calls, left>>
     \/ own = {} /\ committed /\ calls' = calls + 1 /\ UNCHANGED <<own, left>>
     \/ own = {} /\ ~committed /\ left' = left \cup {i} /\ UNCHANGED <<own, calls>>
  /\ UNCHANGED <<current, modulePaused, maintenance, policyVars, starter, active, closed, world,
                 disruptions>>

\* The matches of an event, if it has any, are settled: its handler resolves, and
\* startNext() is called.
EventHandled ==
  /\ admission = "none" /\ calls < MaxCalls
  /\ own' = {} /\ calls' = calls + 1
  /\ UNCHANGED <<queueVars, shape, made, admission, media, maintenance, policyVars, starter,
                 active, closed, world, history>>

\* A later match of the event throws anything but MediaUnavailableError: what the
\* event has queued before stays queued, and it does not call startNext().
MatchThrows ==
  /\ own # {} /\ disruptions < MaxDisruptions
  /\ admission # "none" \/ Cardinality(queued) < MaxPending
  /\ admission' = "none" /\ own' = {}
  /\ left' = left \cup (own \cap queued) /\ disruptions' = disruptions + 1
  /\ UNCHANGED <<queueVars, shape, made, media, maintenance, policyVars, calls, starter, active,
                 closed, world>>

Remove(i) ==
  /\ i \in queued
  /\ queued' = queued \ {i} /\ media' = media \ {i}
  /\ UNCHANGED <<current, modulePaused, admissionVars, policyVars, calls, starter, active,
                 closed, world, history>>

ClearPending ==
  /\ queued' = {} /\ media' = media \ queued
  /\ UNCHANGED <<current, modulePaused, admissionVars, policyVars, calls, starter, active,
                 closed, world, history>>

-----------------------------------------------------------------------------
(* startNext() *)

Entered ==
  IF closed \/ starter.at # "idle" \/ active.item # None THEN starter ELSE Asking

CallStartNext ==
  /\ calls > 0 /\ calls' = calls - 1
  /\ starter' = Entered
  /\ UNCHANGED <<queueVars, admissionVars, media, policyVars, active, closed, world, history>>

\* isModuleEnabled() answers, before the loop advances or for the second time.
ReadModule ==
  /\ \/ starter.at = "module" /\ starter' = [at |-> "advance", answer |-> enabled]
     \/ starter.at = "module again" /\ starter' = [at |-> "start", answer |-> enabled]
  /\ UNCHANGED <<queueVars, admissionVars, media, policyVars, calls, active, closed, world,
                 history>>

\* The loop ends, by a return or a throw, without having found that there is
\* nothing to start: what was pending or had become the current effect is left.
LoopReturns ==
  /\ starter' = NotStarting
  /\ left' = queued \cup ({current} \ {None})

MayAdvance == current = None /\ ~modulePaused /\ ~held /\ queued # {}

\* The loop looks at the queue.  Without media the validation throws, and the
\* effect stays the current one; a module that is disabled ends the loop.
Advance ==
  /\ starter.at = "advance"
  /\ UNCHANGED <<modulePaused, admissionVars, media, policyVars, calls, active, closed, world,
                 disruptions>>
  /\ \/ /\ starter.answer /\ MayAdvance
        /\ \E i \in queued :
             /\ current' = i /\ queued' = queued \ {i}
             /\ \/ /\ Available(i) /\ starter' = [at |-> "validate", answer |-> FALSE]
                   /\ left' = {}
                \/ ~Available(i) /\ LoopReturns
     \/ /\ starter.answer /\ ~MayAdvance
        /\ starter' = NotStarting /\ left' = left \cap {current}
        /\ UNCHANGED <<current, queued>>
     \/ ~starter.answer /\ LoopReturns /\ UNCHANGED <<current, queued>>

\* A read of the configuration or of what the effect needs throws.  (In the call
\* that the end of an effect makes, the rejection is unhandled and ends the
\* process.)
LoopThrows ==
  /\ starter.at \in {"module", "validate", "module again"} /\ disruptions < MaxDisruptions
  /\ LoopReturns /\ disruptions' = disruptions + 1
  /\ UNCHANGED <<queueVars, admissionVars, media, policyVars, calls, active, closed, world>>

\* Mutant: the module is not asked again after the validation.
ValidateOnce ==
  /\ starter.at = "validate"
  /\ starter' \in [at : {"start"}, answer : BOOLEAN]
  /\ UNCHANGED <<queueVars, admissionVars, media, policyVars, calls, active, closed, world,
                 history>>

\* References and outputs are validated; if they are there the module is asked.
Validate ==
  /\ starter.at = "validate"
  /\ \/ starter' = [at |-> "module again", answer |-> FALSE]
     \/ starter' = [at |-> "start", answer |-> FALSE]
  /\ UNCHANGED <<queueVars, admissionVars, media, policyVars, calls, active, closed, world,
                 history>>

\* The loop goes on: the effect was ended meanwhile, fails, or starts.  A start
\* without media throws, and the effect stays the current one.
StartOrFail ==
  /\ starter.at = "start"
  /\ UNCHANGED <<queued, modulePaused, admissionVars, policyVars, calls, closed, world,
                 disruptions>>
  /\ \/ current = None /\ LoopReturns /\ UNCHANGED <<current, media, active>>
     \/ /\ current # None /\ ~starter.answer
        /\ current' = None /\ media' = media \ {current}
        /\ starter' = IF closed THEN NotStarting ELSE Asking
        /\ UNCHANGED <<active, left>>
     \/ /\ current # None /\ starter.answer
        /\ \/ /\ Available(current) /\ active' = Playing(current)
              /\ starter' = NotStarting /\ UNCHANGED left
           \/ ~Available(current) /\ LoopReturns /\ UNCHANGED active
        /\ UNCHANGED <<current, media>>

-----------------------------------------------------------------------------
(* The effect ends *)

\* Mutant: nobody looks for the next effect.
EndedQuietly ==
  /\ current' = None /\ media' = media \ {active.item} /\ active' = Inactive
  /\ calls' = calls

\* The queue completes the effect, and a microtask starts the next one.
Ended ==
  /\ current' = None /\ media' = media \ {active.item} /\ active' = Inactive
  /\ calls' = IF closed THEN calls ELSE calls + 1

\* #maybeComplete, after the playback has become a.
Continue(a) ==
  LET done == IsActive /\ ~a.group /\ a.clients = {} /\ a.pending = {} IN
  \/ done /\ Ended
  \/ ~done /\ active' = a /\ UNCHANGED <<current, media, calls>>

\* #stopAndComplete up to its await; a stop that failed is asked for again.
Stopped ==
  [active EXCEPT !.finished = TRUE, !.stopping = TRUE, !.preparing = {}, !.cleaning = {},
                 !.ready = {}, !.clients = {}]

Stop ==
  /\ active.item # None
  /\ active' = Stopped
  /\ UNCHANGED <<queueVars, admissionVars, media, policyVars, calls, starter, closed, world,
                 history>>

Skip == "skip" \in Operations /\ ~active.stopping /\ Stop

\* Mutant: the watchdog is only set for effects that browsers show.
WatchdogForBrowsers == IsActive /\ ~active.group /\ active.clients # {} /\ Stop

\* The timer of duration and grace, set when the group started.
Watchdog == IsActive /\ ~active.group /\ Stop

\* The outputs acknowledge the stop.
StopAcknowledged ==
  /\ active.stopping
  /\ sounds' = {s \in sounds : s[1] # active.item}
  /\ Ended
  /\ UNCHANGED <<queued, modulePaused, admissionVars, policyVars, starter, closed, connected,
                 rejected, history>>

\* Mutant: the effect ends although its device did not answer.
StopFailsAndEnds ==
  /\ StopsMayFail /\ active.stopping
  /\ Ended
  /\ UNCHANGED <<queued, modulePaused, admissionVars, policyVars, starter, closed, world,
                 history>>

\* The device does not: the effect is held until somebody skips it again.
StopFails ==
  /\ StopsMayFail /\ active.stopping
  /\ sounds' = sounds \ {<<active.item, "desktop">>}
  /\ active' = [active EXCEPT !.stopping = FALSE]
  /\ UNCHANGED <<queueVars, admissionVars, media, policyVars, calls, starter, closed, connected,
                 rejected, history>>

-----------------------------------------------------------------------------
(* Outputs *)

\* The clients that answered, but for those that left meanwhile.
BrowserPrepared ==
  /\ IsActive /\ "browser" \in active.preparing
  /\ \E answered \in SUBSET (connected \cup active.gone) :
       active' = [active EXCEPT !.preparing = @ \ {"browser"}, !.ready = @ \cup {"browser"},
                                !.clients = answered \ active.gone]
  /\ UNCHANGED <<queueVars, admissionVars, media, policyVars, calls, starter, closed, world,
                 history>>

Prepared(k) ==
  /\ IsActive /\ k \in active.preparing \cap Kinds
  /\ active' = [active EXCEPT !.preparing = @ \ {k}, !.ready = @ \cup {k}]
  /\ UNCHANGED <<queueVars, admissionVars, media, policyVars, calls, starter, closed, world,
                 history>>

PrepareFails(r) ==
  /\ IsActive /\ r \in active.preparing
  /\ active' = [active EXCEPT !.preparing = @ \ {r}, !.pending = @ \ {r}]
  /\ UNCHANGED <<queueVars, admissionVars, media, policyVars, calls, starter, closed, world,
                 history>>

\* After 15 seconds a recipient is told to stop; its late answer is ignored.
PrepareTimesOut(r) ==
  /\ IsActive /\ r \in active.preparing
  /\ active' = [active EXCEPT !.preparing = @ \ {r}, !.cleaning = @ \cup ({r} \cap Kinds)]
  /\ UNCHANGED <<queueVars, admissionVars, media, policyVars, calls, starter, closed, world,
                 history>>

\* If that stop fails, the recipient is still waited for.
Cleaned(k) ==
  /\ k \in active.cleaning
  /\ \E acknowledged \in {TRUE} \cup {~StopsMayFail \/ k = "desktop"} :
       active' = [active EXCEPT !.cleaning = @ \ {k},
                                !.pending = IF acknowledged THEN @ \ {k} ELSE @]
  /\ UNCHANGED <<queueVars, admissionVars, media, policyVars, calls, starter, closed, world,
                 history>>

\* Every recipient has settled: those that are ready start together, unless the
\* start of the browser throws.
StartGroup ==
  /\ IsActive /\ active.group /\ active.preparing = {} /\ active.cleaning = {}
  /\ sounds' = sounds \cup ({active.item} \X (active.ready \cap Kinds))
  /\ \E shown \in {active.clients, {}} :
       Continue([active EXCEPT !.group = FALSE, !.ready = {}, !.clients = shown])
  /\ UNCHANGED <<queued, modulePaused, admissionVars, policyVars, starter, closed, connected,
                 rejected, history>>

\* A play ends, of the active effect or of one that ended before.
PlayEnds(i, k) ==
  /\ <<i, k>> \in sounds
  /\ sounds' = sounds \ {<<i, k>>}
  /\ IF IsActive /\ i = active.item THEN Continue([active EXCEPT !.pending = @ \ {k}])
     ELSE UNCHANGED <<active, current, media, calls>>
  /\ UNCHANGED <<queued, modulePaused, admissionVars, policyVars, starter, closed, connected,
                 rejected, history>>

\* The start of the audio rejects, although it may still sound: it counts as
\* settled, and nothing asks the device to stop.
AudioRejects ==
  /\ IsActive /\ <<active.item, "audio">> \in sounds /\ active.item \notin rejected
  /\ rejected' = rejected \cup {active.item}
  /\ Continue([active EXCEPT !.pending = @ \ {"audio"}])
  /\ UNCHANGED <<queued, modulePaused, admissionVars, policyVars, starter, closed, connected,
                 sounds, history>>

\* reportInstructionFinished
ReportFinished(c) ==
  /\ ~active.finished /\ c \in active.clients
  /\ Continue([active EXCEPT !.clients = @ \ {c}])
  /\ UNCHANGED <<queued, modulePaused, admissionVars, policyVars, starter, closed, world,
                 history>>

\* reportClientDisconnected
Disconnect(c) ==
  /\ c \in connected /\ connected' = connected \ {c}
  /\ IF active.item # None /\ ~active.finished
     THEN Continue([active EXCEPT !.gone = @ \cup {c}, !.clients = @ \ {c}])
     ELSE UNCHANGED <<active, current, media, calls>>
  /\ UNCHANGED <<queued, modulePaused, admissionVars, policyVars, starter, closed, sounds,
                 rejected, history>>

-----------------------------------------------------------------------------
(* Policy *)

\* setPaused of the owner, which starts the next effect itself.
SetPaused(paused) ==
  /\ modulePaused' = paused
  /\ starter' = IF paused THEN starter ELSE Entered
  /\ UNCHANGED <<current, queued, admissionVars, media, policyVars, calls, active, closed, world,
                 history>>

\* applySafety: alerts first, then startNext() of the effects.
SetSafety(value) ==
  /\ calls < MaxCalls
  /\ held' = value /\ calls' = calls + 1
  /\ UNCHANGED <<queueVars, admissionVars, media, enabled, disables, starter, active, closed,
                 world, history>>

\* setModuleEnabled: the configuration is saved before disable() is called.
DisableModule ==
  /\ enabled /\ disruptions < MaxDisruptions
  /\ enabled' = FALSE /\ disables' = disables + 1 /\ disruptions' = disruptions + 1
  /\ UNCHANGED <<queueVars, admissionVars, media, held, calls, starter, active, closed, world,
                 left>>

EnableModule ==
  /\ ~enabled /\ enabled' = TRUE
  /\ UNCHANGED <<queueVars, admissionVars, media, held, disables, calls, starter, active, closed,
                 world, history>>

\* disable(): an effect that has not started yet fails at once.
Disable ==
  /\ disables > 0 /\ disables' = disables - 1
  /\ queued' = {}
  /\ IF active.item = None
     THEN current' = None /\ media' = media \ (queued \cup {current}) /\ UNCHANGED active
     ELSE active' = Stopped /\ media' = media \ queued /\ UNCHANGED current
  /\ UNCHANGED <<modulePaused, admissionVars, held, enabled, calls, starter, closed, world,
                 history>>

\* A restore begins the maintenance of media: every owner is dropped, also if
\* the restore is then refused because playback is live.
BeginMaintenance ==
  /\ ~maintenance /\ disruptions < MaxDisruptions
  /\ maintenance' = TRUE /\ disruptions' = disruptions + 1
  /\ media' = {} /\ admission' = IF admission = "captured" THEN "lost" ELSE admission
  /\ UNCHANGED <<queueVars, shape, made, own, policyVars, calls, starter, active, closed,
                 world, left>>

EndMaintenance ==
  /\ maintenance /\ maintenance' = FALSE
  /\ UNCHANGED <<queueVars, shape, made, own, admission, media, policyVars, calls,
                 starter, active, closed, world, history>>

\* close(): an effect that has not started yet is left to startNext().
Close ==
  /\ "close" \in Operations /\ ~closed /\ disruptions < MaxDisruptions
  /\ closed' = TRUE /\ disruptions' = disruptions + 1 /\ modulePaused' = TRUE
  /\ queued' = {} /\ media' = media \ queued
  /\ active' = IF active.item = None THEN active ELSE Stopped
  /\ UNCHANGED <<current, admissionVars, policyVars, calls, starter, world, left>>

-----------------------------------------------------------------------------
EffectInit ==
  /\ current = None /\ queued = {} /\ modulePaused = FALSE
  /\ shape = [i \in Items |-> {}] /\ made = 0
  /\ own = {} /\ admission = "none"
  /\ media = {} /\ maintenance = FALSE
  /\ held = FALSE /\ enabled = TRUE /\ disables = 0
  /\ calls = 0 /\ starter = NotStarting /\ active = Inactive /\ closed = FALSE
  /\ connected = Clients /\ sounds = {} /\ rejected = {}
  /\ left = {} /\ disruptions = 0

Admission ==
  \/ BeginAdmission \/ RejectAdmission \/ (\E s \in Shapes : Enqueue(s))
  \/ EventHandled \/ MatchThrows

QueueOperation ==
  \/ "remove" \in Operations /\ \E i \in Items : Remove(i)
  \/ "clear" \in Operations /\ ClearPending
  \/ "pause" \in Operations /\ \E value \in BOOLEAN : SetPaused(value)
  \/ "safety" \in Operations /\ \E value \in BOOLEAN : SetSafety(value)

StartNext == CallStartNext \/ ReadModule \/ Advance \/ Validate \/ StartOrFail \/ LoopThrows

PreparationEnds(r) ==
  \/ r = "browser" /\ BrowserPrepared
  \/ Prepared(r) \/ PrepareFails(r) \/ PrepareTimesOut(r)

StopSettles == StopAcknowledged \/ StopFails

EffectNext ==
  \/ Admission \/ QueueOperation \/ StartNext
  \/ \E r \in Recipients : PreparationEnds(r)
  \/ \E k \in Kinds : Cleaned(k)
  \/ StartGroup
  \/ \E i \in Items, k \in Kinds : PlayEnds(i, k)
  \/ AudioRejects
  \/ \E c \in Clients : ReportFinished(c) \/ Disconnect(c)
  \/ Skip \/ Watchdog \/ StopSettles
  \/ DisableModule \/ EnableModule \/ Disable
  \/ BeginMaintenance \/ EndMaintenance
  \/ Close

EffectSpec == EffectInit /\ [][EffectNext]_effectVars

\* Preparations time out, timers fire and sinks answer a stop within a deadline.
\* No client has to report and no play has to end.
EffectFairness ==
  /\ \A r \in Recipients : WF_effectVars(PreparationEnds(r))
  /\ \A k \in Kinds : WF_effectVars(Cleaned(k))
  /\ WF_effectVars(StartGroup) /\ WF_effectVars(Watchdog) /\ WF_effectVars(StopSettles)

FairEffectSpec == EffectSpec /\ EffectFairness

-----------------------------------------------------------------------------
(* Properties *)

\* What can be heard or seen of an effect is of the active one, and only clients
\* that are there are waited for, whenever a stop fails, a preparation is late
\* or a client leaves.  The exception is an audio that rejected its start: it is
\* not stopped, and the next effect may play over it.
EffectsDoNotOverlap ==
  /\ \A s \in sounds : s[1] = active.item \/ (s[2] = "audio" /\ s[1] \in rejected)
  /\ active.clients \subseteq connected

\* Nothing stands still unnoticed.  The current effect plays, or startNext() is
\* about to start it; and while nothing holds the queue back, a pending effect is
\* driven: an effect is active whose end starts the next one, or startNext() is
\* at work or about to be called, or the event that queued it has yet to call it.
\* The exceptions are the effects left behind since startNext() last looked at
\* the queue: by a later match of their event that threw, by a replay without
\* media, or by a loop that ended early, because a read threw, the module
\* answered that it was disabled, the media were gone, or disable() had come
\* between.
PendingIsDriven ==
  /\ current # None /\ current \notin left =>
       active.item # None \/ starter.at \in {"validate", "module again", "start"}
  /\ ~modulePaused /\ ~held /\ ~closed /\ current \notin left =>
       \A i \in queued \ (left \cup own) :
         active.item # None \/ starter.at # "idle" \/ calls > 0

\* A disabled module plays nothing once disable() has run, wherever startNext()
\* was when the configuration changed; an effect that could not be stopped is
\* held but not started.
DisabledPlaysNothing ==
  ~enabled /\ disables = 0 => active.item = None \/ active.finished

\* openspec/specs/screen-effects/spec.md, One output never completes: an effect
\* ends whatever its outputs do, or is held because a stop failed.
EffectEndsOrIsHeld ==
  \A i \in Items : active.item = i ~>
    active.item # i \/ (active.finished /\ ~active.stopping) \/ closed
=============================================================================
