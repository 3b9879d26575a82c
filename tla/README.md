# Stream Jams: a TLA+ model

Stream Jams is a local-first streaming overlay application. One Node process
(`src/apps/server`) takes events from Twitch, Streamer.bot and operators, keeps
them in a SQLite journal, and hands them to modules that play alerts, screen
effects, timers and videos on browser overlays, audio devices and the desktop
host. This directory models the parts whose correctness depends on the order of
steps, checks the models with TLC on small instances, and proves the central
results with TLAPS for every value of the constants.

Paths below are relative to `src/`; `server/` stands for
`apps/server/src/modules/`.

## Inventory

| Component | Code | State | Operations | What is hard |
|---|---|---|---|---|
| Event bus | `server/events/event-bus.ts` | one worker per consumer (in-memory cursor, job chain, run in flight), publishers that wait, manual wake-ups | `start`, `publish`, `publishManual`, `resume`, `expirePending`, drain, deliver with retries | interleaving of publishers and runs, crash between handling and confirming, failing statements, restores |
| Event journal | `server/events/sqlite-event-bus-journal-repository.ts` | rows, cursors, outcomes, intake log, correlation merges | `append`, `readAfter`, `setCursor`, `recordOutcome`, `expireThrough`, `prune` | retention against lagging cursors, outcomes derived from cursors |
| Intake and correlation | `server/events/event-ingestion-service.ts`, `packages/core/src/event-bus/correlation.ts` | duplicate and merge windows | ingest from two providers | duplicates that arrive in any order around a window |
| Pipeline consumers | `server/events/event-pipeline.ts` | none of their own | alerts, screen-effects, timers, videos handlers | redelivery after a crash |
| Alert playback | `packages/core/src/playback/playback-queue.ts`, `server/playback/playback-coordinator.ts` | queue, current occurrence, pending browser clients, device and desktop playback, watchdog | enqueue, complete, skip, pause, do not disturb, reports of clients | acknowledgements, watchdog, skip and stop failures racing each other |
| Playback operations | `server/playback/playback-operations-service.ts` | persisted safety state | pause, mute, do not disturb over both queues | partial failure across owners |
| Screen effects | `packages/core/src/screen-effects/effect-queue.ts`, `server/screen-effects/effect-playback-coordinator.ts`, `effect-admission-service.ts` | bounded queue, active playback | admit, prepare, acknowledge, stop | disconnects during preparation, admission after disabling |
| Timers | `server/timers/timer-runtime-coordinator.ts` | runs with generations, deadlines, recovery rows | activate, adjust, pause, stop, restore | stale deadlines, replaced runs, failing persistence |
| Video queue | `server/videos/video-queue-service.ts` | revisioned snapshot, run, current item, load, gap and notice timers | submit, command, reports | timers against reports and commands |
| Video mirror | `server/videos/video-mirror-director.ts` | what the transmitter was told, receivers | queue changes, signals, resync | transmitter that goes away and returns |
| Local media leases | `server/assets/local-media-service.ts` | leases, readers, retired files | acquire, release, replace, clean up | deletion against readers |
| Maintenance gate and restore | `server/backup/runtime-maintenance-gate.ts`, `configuration-backup-service.ts` | intake counter, maintenance, stopping | intake, maintenance, stop | shutdown waiting for the last one out |
| Music | `server/music/music-runtime-coordinator.ts` | polled projection of one source | poll, command | late answers |
| Audio outputs | `server/audio/audio-output-service.ts` | routes and devices | prepare, play, stop | stop against a preparation |
| Runtime composition | `apps/server/src/runtime/runtime-composition.ts` | wiring | start and stop order | replay timer, restore |
| Providers | `server/twitch/`, `server/streamerbot/` | network sessions | connect, receive | reconnects; external services |
| User interfaces | `apps/web`, `apps/desktop` | view state | rendering, windows | none that a model reaches |
| Authoring, settings, storage | other `server/` modules | tables | CRUD | single transactions |

Interaction: providers and operators call `publish` and `publishManual`; the
bus calls each consumer's handler, which enqueues into the playback, effect and
video queues or adjusts timers; coordinators start outputs, which call back with
acknowledgements; configuration restores call `expirePending` on the bus.

What makes each correct:

* bus: journal order without gaps per consumer; at most one row redelivered
  after a crash; publishers wait for what they published; no consumer stalls
  another; a committed checkpoint is not applied again; honest outcomes;
* playback and effects: one occurrence at a time, in priority order, each ended
  exactly once, nothing starts while paused or after close, and each occurrence
  eventually ends whatever the outputs do;
* timers: a callback affects only the run it was made for; a restart restores
  what was last running and nothing that was stopped;
* videos: revision checked commands, one item playing, reports only count for
  the item that plays, a returning transmitter is told what plays now;
* media and maintenance: no file is deleted under a reader; stop waits for
  exactly the work it has to.

`PROJECT.json` lists every component with its status and every hazard with the
line where it bites.

## Modules

| Module | What it is |
|---|---|
| `EventBus` | bus, workers and journal in detail |
| `BusDelivery` | what the bus promises a consumer |
| `MCEventBus` | the instances TLC checks |
| `EventBusProofs` | theorems about the bus and their proofs |
| `PlaybackQueue` | the alert queue, every operation |
| `PlaybackQueueProofs` | theorems about the queue |
| `PlaybackCoordinator` | the owner of the queue: outputs, acknowledgements, watchdog, stops; extends `PlaybackQueue` |
| `MCPlaybackCoordinator` | its instances |
| `PlaybackCoordinatorProofs` | theorems about the coordinator |
| `EffectPlayback` | the queue of screen effects, their admission and the coordinator that plays them |
| `MCEffectPlayback` | its instance |
| `EffectPlaybackProofs` | theorems about the effects |
| `VideoQueue` | the queue of videos, the clock of the one that plays, its timers and restarts |
| `VideoRequests` | what the queue promises a request |
| `VideoMirror` | the desktop player and the messages to and from it; extends `VideoQueue` |
| `MCVideos` | the instance of both |
| `VideoQueueProofs` | theorems about the queue |
| `VideoMirrorProofs` | theorems about the mirror |
| `TimerRuntime` | runs of timers, their cues, media and recovery rows |
| `MCTimerRuntime` | its instance |
| `TimerRuntimeProofs` | theorems about the timers |
| `MaintenanceGate` | the gate intakes, maintenance and `stop()` pass |
| `ConfigurationRestore` | a configuration restore, its rollback and the overlay sockets; extends `MaintenanceGate` |
| `MCConfigurationRestore` | its instances |
| `ConfigurationRestoreProofs` | theorems about the gate and the restore |

### EventBus

State. The durable variables are the SQLite tables: `head` (highest sequence
assigned), `rows` (sequences still in the journal), `known` and `cursor` (the
cursor table), `outcome`. The volatile ones are the `EventBus` object
(`started`, `workers`, the publishers and `resume` that call `drain`, the
manual wake loops) and the fields of every `ConsumerWorker`: `mem` is its
in-memory cursor, `replay` its `replayHead`, `tail` the promise chain as a
sequence of jobs, `phase`, `batch`, `entry`, `attempt`, `committed` where its run
stands. `base`, `settled`, `accepted` and `applied` are history variables.

A publisher is named by the sequence of the row it appended; `resume` is
caller 0. `waiting[c]`, `woken[c]` and `gaveUp[c]` are the callers of `drain` that
await the run of `c`, that were resumed because it fulfilled and that saw it
reject.

Actions. One per stretch of code between two awaits, and one per journal
statement where the process can die in between:

| Action | Code |
|---|---|
| `Start` | `start()`: forget unregistered cursors, create missing ones at the head, resume, prune |
| `PublishAppend`, `PublishDrain` | `publish()` before and after its append |
| `PublishManual`, `ManualDrain`, `ManualDone`, `ManualFailed` | `publishManual()` and the loop of `#wakeManualConsumer` |
| `Resume` | `resume()` |
| `RecheckDrain` | the loop of `drain()` after an awaited run |
| `ExpirePending`, `RunExpire` | `expirePending()` and the job it queues |
| `Prune` | `#pruneHourly` |
| `StartRun`, `TakeEntry`, `Advance`, `EndRun`, `RejectRun` | `#serialize` and `#drainAvailable` |
| `ExpireEntry`, `Checkpoint`, `HandleReturn`, `HandleThrow`, `Catch`, `FailEntry` | `#deliver` and `#fail` |
| `RunThrows` | a journal statement that throws out of a run |
| `Crash` | the process ends: the tables stay, everything else is gone |

The handler of a consumer is arbitrary: it returns, throws, commits its
checkpoint before either, or never settles. Rows that no longer parse are
modelled as a choice for rows written before the start (another build wrote
them). Retention by age is a free choice of the rows that are old.

Abstracted: the content of a row, the intake clock, retry delays, the
diagnostics callbacks. `Start` is atomic and does not throw: `start()` sets
`#started` (154) before its journal statements (155-163), so that a throw there
leaves a bus that counts as started and has no cursors to resume from, which is
not modelled. Left for the intake module: duplicates and merges (no row
is appended) and the poll that a manual submission makes for its receipt.

### BusDelivery

One growing log; for every member the place it joined, what it was given and the
last event confirmed. `Give` hands out the event after the last confirmed one,
as often as it likes; `Confirm` moves on; `WriteOff` is a restore. `EventBus`
implements it under `log <- head`, `members <- known`, `from <- base`,
`given <- settled`, `confirmed <- cursor`: crash, retry, batches, retention and
expired or failed entries are all stutters or steps of these.

### PlaybackQueue

State: `current`, the set `queued`, `priority`, `recent`, the three gates
(`paused`, `doNotDisturb`, `modulePaused`) and the sequence counter `next`; the
history `released` counts the calls of `onRelease`. An occurrence is its sequence
number. The queue is synchronous, so a method is an action: `Enqueue`, `Replay`,
`Finish` (complete and skip), `Remove`, `ClearPending`, `SetModulePaused`,
`SetSafetyState`, `Pause`, `Resume`, `SetDoNotDisturb`. `StartNext` is
`#maybeStartNext`, which ends every method that may start something. `Shutdown`
is the pair of calls its owner makes on close. The sorted array is the set of
its elements and the choice of its first by `Before`, a total order. Mute
changes nothing in the queue and is left out, and so is the content of an
occurrence.

### PlaybackCoordinator

An occurrence has outputs: instructions for browser clients, at most one device
playback and one desktop playback. `occ` is what the coordinator holds of the
occurrence it delivered last; `Delivered` resets it (`#deliverCurrent`) whenever
the current occurrence changes. `connected`, `playing`, `sounding` and `showing` are the
world: sockets, plays whose promise is open, and what can be heard or seen.
`asked` and `unstopped` are histories.

| Action | Code |
|---|---|
| `EnqueueResolved` | `enqueueResolvedTest`, which events, tests and replays end in |
| `QueueOperation` | `remove`, `clearPending`, `setModulePaused`, `applySafetyState`, `pause`, `resume`, `setDoNotDisturb` |
| `InstructionReady`, `PlaybackReady`, `PreparationFails`, `DesktopCleaned` | the preparations of `#deliverGroup` and `#prepareRecipient` with its timeout |
| `Commit` | `commit` after all preparations settled: watchdog, starts, dispatch |
| `ReportFinished`, `Disconnect` | the reports of browser clients, before and after the dispatch |
| `PlayEnds`, `DeviceRejects` | `#dispatchDesktop` and `#dispatchDeviceAudio` |
| `StopDone`, `StopFails` | the promise of a stop settles: the code that awaits it after a rejected play or failed preparation |
| `Skip`, `WatchdogFires`, `StopperResumes`, `StopperAdvances` | `#stopOccurrenceAndAdvance` between its awaits |
| `Close` | `close` |

A stop may be awaited from three places at once; the code gives each a turn in
the same burst of promise callbacks. `Resuming` keeps `Commit` behind a stop
sequence that is about to resume, because the chain from the failed preparation
to `commit` is longer than the one to the end of the stop sequence; other orders
are all allowed. A stop cancels the preparations, which then settle before the
outputs answer, so that `commit` finds the occurrence being stopped and does
nothing; it still runs afterwards if it also waits for the stop of a failed
preparation, or if the device had already rejected the stop that is awaited
(`CommitsAfterStop`).

The sinks are taken from their code: all of them prepare, a stop of the desktop
always resolves and makes a later start end unseen (`desktop-visual-sink.ts`),
a stop of the device may reject (`desktop-audio-sink.ts`), and a rejected
device play may still be heard until a stop is acknowledged. Abstracted: what is
shown, speech, mute, media leases, logging. A client that reconnects has a new
name. Not modelled: dedupe, cooldown and the resolution of an event before it is
enqueued, and the persistence of safety state.

### EffectPlayback

One module for the synchronous queue (`current`, `queued`, `modulePaused`), the
admission in front of it and the coordinator behind it, because what can go
wrong lies between them. `media` are the effects `LocalMediaService` keeps an
owner for; `starter` is where the loop of `startNext()` waits, with the answer
it last got from the module's configuration; `active` is `#active`; `calls` and
`disables` are calls of `startNext()` and `disable()` that somebody has made due
and the event loop has not served. `own` is what the event whose matches are
being admitted has queued so far: its matches are settled one after another, and
`startNext()` is called once, when its handler resolves
(`runtime-composition.ts:984-988`). `sounds` is what a device or the desktop
lets hear or see. Two variables are history: `rejected`, audio whose start was
rejected, and `left`, the effects left behind since `startNext()` last looked at
the queue, because a later match of their event threw, their replay found no
media, or the loop ended early.

| Action | Code |
|---|---|
| `BeginAdmission`, `RejectAdmission`, `Enqueue` | `#enqueueCaptured` up to and after its last await, with `commitAdmission`; `replay` of the owner, which calls `startNext()` itself |
| `EventHandled`, `MatchThrows` | `#admitMatches`, and the handler of the event that calls `startNext()` if it resolves |
| `Remove`, `ClearPending`, `SetPaused`, `SetSafety` | `createEffectQueueOwner` and `applySafety` |
| `CallStartNext`, `ReadModule`, `Advance`, `Validate`, `StartOrFail`, `LoopThrows` | `startNext()` between its awaits, `#start`, and its `finally` after a read that threw |
| `BrowserPrepared`, `Prepared`, `PrepareFails`, `PrepareTimesOut`, `Cleaned`, `StartGroup` | `#prepareGroup`, `#prepareRecipient`, `#prepareAudio` |
| `PlayEnds`, `AudioRejects`, `ReportFinished`, `Disconnect` | what the outputs report, with `#maybeComplete` (`Continue`) and `#complete` (`Ended`) |
| `Skip`, `Watchdog`, `StopAcknowledged`, `StopFails` | `#stopAndComplete` and who calls it |
| `DisableModule`, `EnableModule`, `Disable` | `setModuleEnabled`, which saves before it calls `disable()` |
| `BeginMaintenance`, `EndMaintenance` | `LocalMediaService.maintenance`, which drops every owner |
| `Close` | `close()` |

The sinks are those of `PlaybackCoordinator`: all of them prepare, a stop of the
desktop always resolves, a stop of the device may reject. Abstracted: priorities
(any pending effect may be the first), the instructions of one effect for the
browsers are one, recent effects and statuses, so that a replay is an admission.
One admission is under way at a time; those of events are chained
(`#admissionTail`), tests and replays can overlap with them and are left out. Dedupe,
cooldown and matching come before it and are not modelled. A call of
`startNext()` made when an effect ends (`effect-playback-coordinator.ts:509`)
handles no rejection: a read that throws there ends the process
(`fatal-process-errors.ts`). The model lets the loop end and everything else go
on, which allows more.

### VideoQueue and VideoMirror

`VideoQueueService` never awaits between reading and writing its state, so an
action is one call, and a call is an operator from one queue to the next:
`Advance` is `advance`, `Finish` is `finishCurrent`, `Learn` is `learnDuration`,
`Reevaluate` and `Recover` have their names. `Set` stores the result; `Emits`
also tells the listeners, `Silent` does not, exactly where the code does and does
not. State: the rows of `video_requests`, the persisted run, the paused flag and
the limit; in memory `current`, `gap` and what the playback timer is armed for.
Ids follow the order of submission. A command carries the revision it was
decided on and a stale one throws before it changes anything, so every command
of the model is one on the current state.

| Action | Code |
|---|---|
| `Submit`, `Requeue` | `submit` and `requeue`: a new row, and a run of it when nothing plays |
| `PlayNext`, `PlayAll`, `PauseQueue`, `ResumeQueue`, `Skip`, `Stop`, `Clear` | queue commands |
| `RemoveItem`, `Play`, `PlayAnyway`, `Reorder` | commands on rows |
| `PauseVideo`, `ResumeVideo`, `Seek` | commands on the current video |
| `ReportStarted`, `ReportLength`, `ReportOver` | `reportStarted`, `reportProgress`/`reportDuration`, `reportEnded`/`reportFailed` |
| `ApplyMetadata`, `SaveConfig` | answers of the provider; a changed configuration |
| `LoadTimeout`, `EndTimeout`, `GapTimeout` | the timers |
| `Restart` | the process ends; the next one recovers what was interrupted |

`VideoMirror` adds `VideoMirrorDirector` (`available`, `sent`), two ordered
channels, and the host in the desktop process (`player`). `Heard` composes a call
on the queue with the director, which listens to it synchronously. `Receive`,
`SendLease`, `HandleCommand`, `RefreshLease`, `LeaseExpires` and `PlayerReports`
are the messages and the lease; `BrowserReports` are the browser sources that
report while no desktop player is available; `RestartService` is a new service
process, with a new generation of messages. The page that renders is external
and reports what its host lets through. Every row a mirror run uses goes through
`MirrorNext`; without a desktop app (`desktop = FALSE`) it is the queue alone with
browser reports.

`VideoRequests` is the abstract view: a request is asked for, shown while no
other is, and ends or waits again. `RequestsKept` maps the rows to it; a run's
advance from one video to the next is one abstract step.

Abstracted: titles, positions within a video, notices, pruning of finished rows,
the bus receipt of an admitted request, audio destinations and the versions of
their resolution, signaling between transmitter and receivers. The writes of the
repository do not fail: in the code a commit that throws in `finish` (461), or in a
pause (271), leaves memory changed (455, 270) and the tables not.

### TimerRuntime

State: `entries` (`#entries`, with the deadline callback as `armed`), `starting`
(calls that wait for media), the leases and releases of `LocalMediaService`, the
cues of `TimerCueService`, the rows of `timer_run_recovery`, `dirty` and
`checkpoint` of the recovery write, and what the listeners were told. Time is
what is left of a run or of the hold after it; `Tick` takes one off.

The synchronous part of a call is an operator on the record `now` (`Complete`,
`Expire`, `Resolve`, `Paused`, `Resumed`, `Replaced`, `Stopped`, `Adjusted`,
`StartFresh`) and `Called` commits it, with the recovery write of the publish
succeeding or failing. `Start`, `Pause`, `Resume`, `Stop`, `Restart`, `Activate`,
`Reset`, `TogglePaused` and `Adjust` are the commands. After an await come
`MediaAcquired` and `MediaFailed` (`startFresh`), `AdjustReserved` and
`CueReserved` (`adjust` on the run it reserved), `MediaReleased`, `CuePrepared` and
`CueEnds`. `Fire` is the deadline or hold callback, `Checkpoint` the periodic
write, `Reopen` the end of the process, closed or crashed, with the next one
restoring paused runs.

Abstracted: icons, routes, projections; commands with a stale generation, which
throw. A deadline callback belongs to its entry and goes with it: every
replacement in the code cancels it, but for the failed acquisition at
`timer-runtime-coordinator.ts:414`, after which the guards at 437 and 458 would
stop it. The model has no stale callback, so nothing here exercises these guards.

### MaintenanceGate and ConfigurationRestore

`MaintenanceGate` is `RuntimeMaintenanceGate` method by method; an await inside
the guarded work is the time between `BeginIntake` and `EndIntake`, or
`BeginMaintenance` and `EndMaintenance`.

`ConfigurationRestore` runs one restore inside maintenance: `job.step` is where
it stands, and each step that awaits or writes is an action that may fail, as
often as `MaxFaults` allows. `Capture`, `Stage`, `SuspendMusic`, `Replace`,
`UpdateConfig`, `Reload`, `RotateIdentity`, `ResumeMusic`, `OpenAccess`,
`ForgetCredentials` and `RegenerateKeys` are `#restore`; `UndoMusic` to `Unstage`
are its catch block, where a step that fails is reported and the next is tried.
A store is named by the archive it holds: tables, config file, asset files,
what the running services loaded, asset durations, the Music identity and its
keyring. `BeginRegister`, `Verify` and `Register` are an overlay socket that
registers while route keys change; `Rechecked` is `setRecipientPolicy`, whose
registration epoch is the flag `fenced`. `Restart` is a crash or a restart at any
point.

Abstracted: the content of archives, and everything before the first change
(preflight, live-activity check, safety backup), which may refuse: `Refuse`.

## Runs

| Run | Instance | Shows |
|---|---|---|
| `bus_recovery` | one consumer `a` that checkpoints, expires and has two attempts; two builds, one without it; two rows; retention of one row; two disturbances out of crash, restore, failing statement | `TypeOK`, `DeliveredInOrder`, `PublishWaits`, `AdmittedIsHonest`, `CursorMonotone`, refinement `DeliverySpec` |
| `bus_live` | consumers `a` and `b`, of which only `b` is sure to settle its handlers; one row; a crash | `PromptProgress`, `PublishReturns` under fairness, `CheckpointOnce` without failing statements |
| `bus_checkpoint` | failing statements | violates `CheckpointOnce` (finding) |
| `bus_diagnostics` | a second build adds a consumer | violates `AdmittedWasHandled` (finding) |
| `playback` | browser outputs only, two clients, three occurrences of two priorities, every operation and close | `NeverIdle`, `ReleasedOnce`, `StartsFirst`, `AwaitsOnlyConnected`, `SilentAfterClose` |
| `playback_outputs` | browser, device and desktop outputs, all or one alone, one client, two occurrences, failing stops, fairness | `PlaybackTypeOK`, `OnlyCurrentPlays`, `SkippedStaysSkipped`, `AdvancesWhenDone`, `EveryOccurrenceEnds` |
| `playback_stop` | the same outputs, one occurrence | violates `ExpiryAsksOutputs` (finding) |
| `effects` | two effects, on browsers and device or on the desktop alone, of one event or of two or replayed, one client, room for two pending, every operation, one disabled module, restore, throw or close, failing stops, fairness | `EffectsDoNotOverlap`, `PendingIsDriven`, `DisabledPlaysNothing`, `EffectEndsOrIsHeld` |
| `videos` | two requests, with and without reviews, and the queue alone; or one request, a desktop player, one lease that expires; one restart | `OneActiveRow`, `RunIsWaiting`, `QueuedIsPlayable`, `SentIsCurrent`, `PlayerObeys`, `RunKeepsGoing`, `LoadingEnds` under fairness, refinement `RequestsKept` |
| `timers` | one timer, two runs, one failing write, one end of the process | `TimerTypeOK`, `StoppedIsSilent`, `EachCueOnce`, `NothingLeaks`, `PublishedFollows`, `EverythingIsDriven` |
| `restore` | two archives, two restores, three failing steps, one restart, two intakes, two calls of `stop()`, one overlay socket | `AllOrNothing`, `RecipientsHoldKeys`, `ShutdownWaits` |
| `restore_files` | one archive restored twice, one failing step | violates `RollbackKeepsFiles` (finding) |

Bounds. `MaxSeq` bounds the rows ever appended and `MaxDisturbances` the
crashes, restores and throws together; both are guards. Two rows are the least
for which a row is appended behind a run, an expiry is captured between two
rows, and a row can be skipped; a batch of one row makes every run read more than once.
Two disturbances give a crash during the recovery from a failed statement or
restore. Consumers share nothing but the journal, retention and publishers, so
one consumer suffices where order is asked about and two where interference is.
`bus_live` needs two consumers, and one row then already gives the join of a run
in flight, the manual loop and the replay.

`MaxItems` bounds the occurrences ever enqueued. Three give two that wait in order
behind a third, and with room for one recent occurrence a second that finishes
displaces the first; the queue properties are asked of the queue inside its
coordinator, which is its only user. For the outputs two occurrences
suffice: what can go wrong is an answer or a start that concerns the previous
occurrence. An occurrence has every output, only instructions, or the device or the
desktop alone, so that either can be the last to answer. Two clients give one
that finishes while the other leaves; where
device and desktop are present one client is enough, as clients meet only in
the set that is waited for. `Operations` names the queue operations of a run;
without them the last occurrence ends and nothing is left to do, hence
`CHECK_DEADLOCK FALSE` there.

Two effects give one that plays or is validated while the other waits, is
admitted or starts after it. With room for two, a second match can throw while
the first is pending (a full queue rejects an admission before it begins, or at
any time, `RejectAdmission`). `MaxCalls` bounds
the calls of `startNext()` that are due at once where another one may be added; a
call that returns at once leaves nothing behind, so more of them add nothing. One
disruption is a module that is disabled (and enabled again), a restore, a throw of a
match or of a read of the loop, or `close()`. After the
last effect and the last operation the system may stop (`CHECK_DEADLOCK FALSE`). Effects
have browsers and the device, or the desktop alone, so that an effect with one output
follows or precedes one whose outputs settle in any order.

Two video requests give a run of two, a replay as a new request, a reorder and a
capacity of two that is reached; lengths are unknown or over the limit, since a
short one takes the same branches as an unknown one that stays unknown. With a
desktop player there is one request (`MaxMirrored`): a load that follows a load
of another video directly is not reached in this run, loads, stops and seeks that
cross reports, leases and restarts are. Two messages are under way when a third
is caused (`MaxMessages` is a guard on the cause, so a call may add one more).

A second run of a timer is what its stale callbacks, cues and releases could
disturb, and timers share nothing but the recovery write, which saves all of
them, and `TogglePaused`; `{t1, t2}` without failures and crashes has been checked
apart (391 thousand states). A duration of one and a longest remainder of two
make every adjustment reach a limit.

In the restore, three faults let a step fail, one of the rollback after it, and
one more in the second restore; two archives let the second restore differ from
the first or repeat it. Two intakes and two stops give a last one out that is not
the first.

Fairness (`FairSpec`). The event loop runs every ready continuation, hence weak
fairness of each continuation: the publishers after their append, drains,
manual loops and worker steps. `start` and `resume` are called by the runtime
(`runtime-composition.ts`: `await eventBus.start()`, and the replay timer). A
handler's return is fair only for consumers in `Prompt`; nothing in the code bounds
a handler's time. Appends, crashes and restores are not fair.

Fairness (`FairPlaybackSpec`). A preparation settles within 15 seconds
(`#prepareRecipient`), a stop within 4 (`apps/desktop/src/audio/worker-audio-client.ts:66`),
the watchdog is a timer, and continuations of promises run. No client has to
report, no play has to end and nobody has to skip. `EveryOccurrenceEnds` exempts
an occurrence whose stop failed: the code holds it on purpose until somebody
skips (`playback-coordinator.test.ts:442`, `:623`, `:700`).

Fairness (`FairEffectSpec`). Preparations time out, clean-ups and stops settle
within the deadlines of the sinks, the group starts when its promises settled,
and the watchdog is a timer. No client has to report and no play has to end.
`EffectEndsOrIsHeld` allows an effect to be held after a stop that failed, as the
code does on purpose until somebody skips.

Fairness (`FairMirrorSpec`). Only the three timers of the video queue, which are
`setTimeout` callbacks; operators, players, leases and messages owe nothing.

## Proofs

`EventBusProofs` proves, for any finite set of consumers, any registrations,
attempt limits, batch size, retention and bounds:

| Theorem | Property |
|---|---|
| `TypeCorrect` | `TypeOK` |
| `Invariance` | the inductive invariant `IInv` |
| `InOrder` | `DeliveredInOrder` |
| `WaitsForDelivery` | `PublishWaits` |
| `CursorNeverMovesBack` | `CursorMonotone` |
| `ImplementsDelivery` | `Spec => DeliverySpec` |
| `AdmittedMeansAccepted` | `AdmittedIsHonest` |
| `CommittedOnce` | `CheckpointOnce`, if no journal statement throws |

`DeliveredInOrder` is not inductive: after a failed statement a worker's
memory is behind its persisted cursor, its batch was read earlier, and retention
removes rows meanwhile. `IInv` adds, for every registered consumer
(`KnownOrder`), that its base is at most its cursor, that every sequence after the
cursor is still a row (`LiveRows`: retention may not take them) and that what was
settled is an interval that ends at the cursor or one past it
(`SettledIsInterval`); and for every worker (`WorkerOrder`) that no row lies
between its memory and the persisted cursor except the entry it checkpointed
(`NoRowBetween`), that its batch is exactly the next rows (`BatchIsNext`) and that
the entry it holds is the row after its memory (`EntryIsNext`). `Positions` and
`JobsBelowHead` bound every cursor, target and queued expiry by the head, which
with `IdleOutside` (no worker runs for a consumer that is not registered) is what
the steps need. TLC checks `IInv` too while it is developed.

`AdmittedIsHonest` is about an absence: diagnostics call a row admitted because
the cursor passed it and nothing was recorded, so that the persisted cursor and
the outcomes have to move in the right order through every failure. `HonestInv`
says, beside the property, that only a committed checkpoint takes the persisted
cursor past the worker's memory (`CommitAccepted`), that a worker does not leave a
row before the row has an outcome or was accepted (`LeavesTrace`), and that a row
that is gone took its outcomes along (`OutcomesHaveRows`). It is inductive given
`IInv`.

`CheckpointOnce` does not hold as the comment in the source states it: run
`bus_checkpoint` is its counterexample, where a statement after a committed
checkpoint throws (see Findings). `CommittedOnce` shows that this is the only
way: while no statement throws, whatever crashes, is restored, retried or
expired, `CursorsTogether` keeps the worker's memory at the persisted cursor except
while the entry whose checkpoint was committed is in hand, and `AppliedIsPast` keeps
whatever was applied behind the cursor. The hypothesis is a value of the
constant `JournalThrows`, the one that run `bus_live` uses.

`PlaybackQueueProofs`, for any number of occurrences, integer priorities and
limit:

| Theorem | Property |
|---|---|
| `QueueInvariant` | the inductive invariant `QueueInv` |
| `QueueTypeCorrect` | `QueueTypeOK` |
| `QueueNeverIdle` | `NeverIdle` |
| `QueueReleasesOnce` | `ReleasedOnce` |
| `QueueStartsFirst` | `StartsFirst` |

`ReleasedOnce` needs `Enqueued`: without it an occurrence could wait and play at
once, or wait before it was enqueued. Since every method is a few assignments
and then `StartNext`, or takes occurrences away, the proof rests on two lemmas
about `StartNext`: what it keeps and in which order it takes.

`PlaybackCoordinatorProofs`, for any clients, instructions, sets of outputs and
operations, and with or without stops that fail:

| Theorem | Property |
|---|---|
| `PlaybackSilentAfterClose` | `SilentAfterClose` |
| `PlaybackTyped` | `PlaybackTypeOK` |
| `PlaybackOnlyCurrent` | `OnlyCurrentPlays` |
| `PlaybackAwaitsConnected` | `AwaitsOnlyConnected` |
| `PlaybackAdvances` | `AdvancesWhenDone` |
| `PlaybackSkipped` | `SkippedStaysSkipped` |
| `PlaybackUsesQueue` | `PlaybackSpec => QueueSpec` |
| `PlaybackNeverIdle`, `PlaybackStartsFirst` | `NeverIdle`, `StartsFirst`, under the coordinator |

`SilentAfterClose` rests on `ClosedEmpty`: a closed coordinator has an empty
queue, so that lifting a pause after close starts nothing, and no
acknowledgement passes the guard of `completeCurrent`. The others rest on
`PlaybackInv`. The queue advances when every output has answered, so that
nothing may be heard or shown then: `HeardIsWaitedFor` says that what is heard is
registered, and has not settled unless it was cancelled, and that its stop was
not acknowledged; `ShownIsWaitedFor` that what is shown is waited for.
`StaysAsked` says that an occurrence somebody asked to stop has every output
cancelled and nothing left to prepare, and that after a stop that failed the device
holds it: no late answer then passes for its completion. `StopsInTurn` says what
a stop sequence knows to be stopped where it stands, and `Prepares` carries the
other parts over the preparation, where what got ready will sound at `Commit`.
`OnlyBegun` (whatever plays, was asked to stop or is over was taken from the
queue) makes every delivery a fresh one. Every way to go on ends in one of three
lemmas: `Finishes`, `Continues` and `GoesOn`.

`EffectPlaybackProofs`, for any number of effects, clients and calls, any
outputs and any stops that fail:

| Theorem | Property |
|---|---|
| `EffectsNeverOverlap` | `EffectsDoNotOverlap` |
| `DisabledStaysSilent` | `DisabledPlaysNothing` |
| `PendingAlwaysDriven` | `PendingIsDriven` |

Its invariant is `Control /\ Outputs`. An effect ends when nothing is waited for,
so that nothing of it may sound then: `SoundsAwaited` says that what sounds of an
effect that was not stopped is waited for or is audio that rejected its start,
and `RecipientsApart` carries it over the preparation, where what is ready will
sound once the group starts. `Sequential` says that `startNext()` is at work only
while no effect is active, which is why a start never replaces an effect.
`DisabledPlaysNothing` is not inductive because the loop holds an answer that may
be old: `AnswerHolds` says that a positive one is still true or `disable()` is due.
`PendingIsDriven` is inductive given the first invariant and that `calls` is a
number (`Drive`). It is proved case by case: what ends an effect calls
`startNext()` (`DriveEnded`), what ends the loop without having found that there is nothing to
start puts what it leaves behind in `left` (`DriveReturns`), and an admission
leaves its effect to its event, to a call or in `left` (`DriveAdmission`). The
property so says exactly who may be left behind. It says nothing of a queue
whose current effect was left there: that queue stands still until the module
is disabled.

`VideoQueueProofs`, for any number of requests, capacity, lengths and restarts:

| Theorem | Property |
|---|---|
| `VideoInvariant` | the inductive invariant `VideoInv` |
| `OneRowPlays` | `OneActiveRow` |
| `RunWaits` | `RunIsWaiting` |
| `QueuedMayPlay` | `QueuedIsPlayable` |
| `RunGoesOn` | `RunKeepsGoing` |
| `RequestsAreKept` | `VideoSpec => RequestsKept`, the refinement |

A call is an operator from one queue to the next, and so is the proof: `QueueOK`
is the invariant of a queue, `Good` relates the queue before a call to the one
after it (it is `QueueOK` again, the requests moved as `VideoRequests` allows, and
a run that went on goes on), and each operator has a lemma: `AdvanceKeeps`,
`FinishKeeps`, `StartRunKeeps`, `LearnKeeps`, `ReevaluateKeeps`, `RecoverKeeps`.
The properties are not inductive. `QueueOK` adds that what is over the limit or
under review is neither queued nor playing (`RowOK`), so that neither a run nor a
recovery can make it playable; that nothing is armed and nothing is left of the
clock while nothing plays; and that a run has each request once, also after it was
filtered, appended to and sorted. What filtering and sorting do is about every
length of a sequence and so needs induction: `FilterPicks` and `PlacesGrow` get it
from the least counterexample, which `LeastOf` finds for one set at a time by the
well-foundedness of the naturals. `Arranged` says that a finite set can be put in
the order of a total one, and that the result has each element once. `RunGoesOn`
and the refinement are action properties of `Good`: a restart is the one step that
may leave a run nothing advances.

`VideoMirrorProofs`, for any requests, messages, restarts, lost leases and lengths:

| Theorem | Property |
|---|---|
| `PlayerIsSentAll` | `SentIsCurrent` |
| `PlayerAlwaysObeys` | `PlayerObeys` |
| `MirrorUsesQueue` | `MirrorSpec => VideoSpec`, so that the results about the queue hold of it |

For the first, a call on the queue either tells its listeners (`Emits`) or changes
nothing that is shown (`Silent`), so that the queue always is as it was last told
(`ToldAll`), and the director hears every call before it returns. The proof goes
through the calls: `Silent` is only used where the current video, its pause and
its seeks stay.

`PlayerObeys` speaks of the moment at which nothing is under way; its proof has to
say what is on its way at every other one. `Coming` does, for any sequence of
commands: the last one that loads or stops names the video that was sent, the last
ones that tell its pause and its seeks agree with what was sent, and what no
command tells the player already has, unless its report of the end of that video
is still to be heard. That excuse is sound because a report that is heard ends the
video (`FinishKeeps`), after which another one, or none, is sent. `InTurn` says that
the announcements under way alternate, from what the director knows to what the
host announced last: a lease that is lost and found again is heard as both, so that
the director starts from nothing. `NothingLate` says that before a lease was lost a
player that is not available has nothing, and nothing on its way; afterwards an old
load may still come while no video is current, which is the exception `PlayerObeys`
makes.

`TimerRuntimeProofs`, for any set of timers, durations, holds and bounds:

| Theorem | Property |
|---|---|
| `TimerTypeCorrect` | `TimerTypeOK` |
| `StopSilences` | `StoppedIsSilent` |
| `CuesOnce` | `EachCueOnce` |
| `MediaGivenBack` | `NothingLeaks` |
| `PublicationFollows` | `PublishedFollows` |
| `RunsAreDriven` | `EverythingIsDriven` |

They share the invariant `TimerInv`; the properties are not inductive, since each
depends on what a call that waits will do when it goes on. `OwnCalls` says that a
waiting call is the only one of its run, so that no second start cue can be due;
`OwnCues` that a cue which may still be asked for was not; `OwnRuns` that a
generation is one run of one timer and that what was stopped is gone, so that
the check `Current` after an await tells the run from its successor; `Kept` that a
lease belongs to a run that is there or to a release that is due; `AnnouncedAt`
that the listeners and the recovery rows agree with a timer unless its media
are awaited or a failure is recorded. A synchronous call works on a record of
the state, like the code on its map before the first await, so that the proof has
two layers: `CallOK` is the invariant of that record, kept by every operator
(`Complete`, `Expire`, `Resolve`, `Paused`, `Resumed`, `Replaced`, `Stopped`,
`StartFresh`, `Adjusted`, `PlayCue`), and `Committed` carries it to the variables, with
the recovery write succeeding or failing. `Together` is what the loop of
`togglePaused` does to all timers; it needs no fold, because each pass of that
loop touches one timer.

`ConfigurationRestoreProofs`, for any archives, clients, intakes, stops and
bounds:

| Theorem | Property |
|---|---|
| `GateSafety` | `GateInv`, of the gate alone |
| `ShutdownSafe` | `ShutdownWaits` |
| `RecipientsSafe` | `RecipientsHoldKeys` |
| `RestoreAllOrNothing` | `AllOrNothing` |

`GateInv` says that maintenance runs alone, that a resolved stop means nothing
runs, and that a waiting stop has something to wait for; it is inductive for the
gate whatever work passes it. The invariant of the next two is
`GateInv /\ JobPart /\ SocketPart`. `RecipientsHoldKeys` is not
inductive: `Replace` deletes the keys, `RegenerateKeys` makes new ones and
`UndoDatabase` brings old ones back, and each is safe only because nobody can be
connected then. `KeysByStep` says so: from the replacement to the reload the
policy denies everybody, before it the tables still hold the captured key, and
where a key is active again while the new ones are not made there is none.
`SocketsPresentKeys` bounds the keys that sockets may hold by those handed out,
so that a new key is nobody's. `InsideMaintenance` (a restore is under way exactly
while maintenance is active) carries `GateInv` over to the restore's steps and
gives `ShutdownWaits`.

`AllOrNothing` speaks of a restore that ended; its proof needs to know what every
store holds at every step. `DataPart` says so, store by store: `TablesByStep`,
`ConfigByStep`, `IdentityByStep`, `LoadedByStep`, `MusicByStep` and
`CredentialsByStep`. The catch block undoes only what was marked as done, so that
the heart of each is that a store which is not as captured is marked (`updated`,
`changed`, `suspended`) when the rollback comes to it: a step that fails half way
must have set its mark before. `IdentityByStep` needs that identities are numbered
by the restores, so that a new one is no earlier one; `CredentialsByStep` that the
first credentials leave the keyring in a step that no rollback follows.

The assumptions are those the modules declare on their constants
(`ConsumersAssumption`, `BoundsAssumption`, `QueueAssumption`,
`CoordinatorAssumption`, `EffectAssumption`, `TimerAssumption`,
`VideoAssumption`, `MirrorAssumption`, `InitialIsNoArchive`).

Model-checked only: the liveness properties (`PromptProgress`, `PublishReturns`,
`EveryOccurrenceEnds`, `EffectEndsOrIsHeld`, `LoadingEnds`), which need fairness and
`ENABLED` and are outside this prover's reach. Every invariant and action property
of a passing run is a theorem. The library's induction theorems take an operator
as a parameter, which the provers cannot instantiate; where induction over a
sequence is needed it is done by the least element of a set (`LeastOf`).

## Findings

* `CheckpointOnce`: `packages/core/src/event-bus/types.ts:80-82` promises that an
  event whose checkpoint committed is never handed to its consumer again. If a
  journal statement after the commit throws, the worker's memory stays behind
  and the next drain hands the row out again. No consumer registered today checkpoints.
* `AdmittedWasHandled`: rows from before a consumer's registration are reported
  as admitted by it, because "admitted" is derived from the cursor.
* `ExpiryAsksOutputs`: the watchdog of an alert "must still stop outputs"
  (`playback-coordinator.ts:861`). When a device preparation failed and its stop was
  rejected, the rejected promise stays in `device.stopping`; the watchdog, or a
  first skip, takes it for the answer to its own stop and does not ask again. After
  such an expiry the occurrence holds the queue until a further skip.

* `RollbackKeepsFiles`: a restore that failed reports that the previous state "was
  restored" (`configuration-backup-service.ts:616`) and the requirement is to
  apply it transactionally (`openspec/specs/configuration-backup-restore/spec.md:88`).
  Asset files are named after asset and archive, and the rollback deletes every
  file it staged (602-612). If the archive is the one that was restored last, those
  are the files the restored tables still name.

Observations, which no run counts as a finding:

* A pause while a video loads clears the load timer (`video-queue-service.ts:269`)
  and resuming arms none. `LoadTimeoutArmed` in `VideoQueue`, checked apart, fails
  within seven steps: a player that never loads then holds the run.
* A lease that expires between a load and what follows lets the late load play
  while the queue is idle; `PlayerObeys` excuses it when a lease was lost.
* A length reported for a video whose length was known replaces it
  (`video-queue-service.ts:497`, and its test), which the video specification
  denies. Reports are matched by the id of the video alone, so a late report of a
  video that was cut counts for its replay by Play anyway.
* A crash during a gap leaves a persisted run that only an operator advances.
* An adjusted timer whose media cannot be had is removed without a publish
  (`timer-runtime-coordinator.ts:414`). The timers consumer keeps no receipt, so an
  adjustment may be applied twice after a crash.
* A crash between the replacement of the tables and the rename of the config file
  leaves archive tables beside the old config file, and nothing detects it.
  `AllOrNothing` speaks of a restore that ended and says nothing of this.
  `OpenAccess` fails outside the try block, after which nothing is rolled back.
* When the start of an effect's audio rejects, `#prepareAudio`
  (`effect-playback-coordinator.ts:393-401`) counts the audio as done and never
  asks the device to stop; the alert coordinator does, and its tests ask for it
  (`playback-coordinator.test.ts:604`, `:623`). The next effect may then play over
  it, which `openspec/specs/screen-effects/spec.md:124-127` excludes.
  `EffectsDoNotOverlap` excepts it (`AudioRejects`).
* A restore drops every media owner before its live-activity check can refuse it
  (`runtime-composition.ts:1576`, `configuration-backup-service.ts:461-471`). A pending
  effect then makes `startNext()` throw after it was made the current one, and so
  does an admission that enqueues before its media can be committed
  (`effect-admission-service.ts:257-258`); the queue stands still until the module
  is disabled.
* `startNext()` is called after an event only if its handler resolves
  (`runtime-composition.ts:984-988`). When a later match throws anything but
  `MediaUnavailableError` (`effect-admission-service.ts:226-228`), what the event
  queued before waits for the next call that something else makes: the screen-effects
  consumer has one attempt. When a read of the loop throws
  (`effect-playback-coordinator.ts:133-138`), pending effects wait likewise, and an
  effect that had become current stays so until the module is disabled.
  `PendingIsDriven` excepts both (`left`).
* A manual submission that arrives while a failed manual loop awaits `onWorkerError`
  has its request deleted (`event-bus.ts:281-288`, `ManualFailed`): its row waits for
  the next publish.
* Effects that were enqueued while the module was disabled, or while a
  `startNext()` that `disable()` interrupts was still validating, are started only
  by the next call of `startNext()`; enabling the module makes none.
* `close()` during a validation lets `#start` run afterwards: it prepares outputs
  that it will never start and that nobody stops.
* `expirePending` also discards events when the restore is rolled back, and
  waits behind a running drain, so that an alert from before may still play after
  the restore.

## Plan

Done: the modules above and the proofs above.

1. An abstract specification of playback (one occurrence heard and shown at a
   time, each ended once) that `PlaybackCoordinator` implements, and
   `PlaybackAdmission` in front of it: dedupe and cooldown across the awaits of
   resolution.
2. `EventIntake`: duplicate and merge windows of `append` with a clock and two
   sources. Theorem: one row per occurrence inside the window.
3. `MediaLeases`: leases, readers, retired files.

## Not modelled

* Playback operations (`playback-operations-service.ts`): the persistence of safety
  state before it is applied. Its calls are serialized; their effect on the queues
  is `QueueOperation`, and `SetPaused` and `SetSafety` of `EffectPlayback`.
* Event intake and correlation, local media leases: planned above.
* Music polls a source outside the repository and keeps the last answer; audio
  outputs, providers and the desktop shell belong to devices and services outside
  it. What the modelled parts see of them are the actions named above.
* Runtime composition is wiring; the parts of it that order steps (start of the
  bus, the steps a restore is given, the cleanups of a stop) are in the actions
  that use them.
* User interfaces, authoring, settings, authentication and storage of
  definitions: rendering, and calls that are one transaction each. They are most
  of the repository's lines and keep no protocol between steps.
