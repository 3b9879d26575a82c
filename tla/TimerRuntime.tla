---------------------------- MODULE TimerRuntime ----------------------------
(***************************************************************************)
(* The runs of timers, their cues, their media and their recovery.         *)
(*   apps/server/src/modules/timers/timer-runtime-coordinator.ts           *)
(*   apps/server/src/modules/timers/timer-cue-service.ts                   *)
(*                                                                         *)
(* An action is what runs between two awaits.  Time is what is left of a   *)
(* run or of the hold after it, so that an end epoch and a remainder are   *)
(* one number.  Commands with a stale generation throw and are left out;   *)
(* icons, routes and projections are abstracted.  A call that publishes    *)
(* more than once writes once: only the last write outlives it.            *)
(***************************************************************************)
EXTENDS Integers

CONSTANTS
  Timers,         \* timer definitions
  Duration,       \* durationMs of every definition
  Longest,        \* MAX_TIMER_REMAINING_MS
  Hold,           \* COMPLETION_HOLD_MS
  MaxRuns,        \* bound: generations
  MaxFailures,    \* bound: recovery writes that fail
  MaxCrashes      \* bound: ends of the process, by a crash or by close()

ASSUME TimerAssumption ==
  /\ Duration \in Nat \ {0} /\ Hold \in Nat \ {0} /\ Longest \in Nat /\ Duration <= Longest
  /\ MaxRuns \in Nat /\ MaxFailures \in Nat /\ MaxCrashes \in Nat

Generations == 1 .. MaxRuns
Cues == {"start", "end"}

VARIABLES
  entries,      \* #entries; armed: scheduled is a callback that was not cancelled
  starting,     \* calls that wait for the media of the run they made
  leases,       \* runs whose media LocalMediaService keeps
  releases,     \* runs whose media it was asked to release
  cues,         \* cues being prepared or played, with their run
  saved,        \* the rows of timer_run_recovery
  dirty,        \* #recoveryDirty
  checkpoint,   \* #checkpoint is scheduled
  told,         \* what the listeners saw at the last publish
  generations,  \* generations made so far
  (* history *)
  plays,        \* how often each cue of each run was asked for, up to 2: an
                \* end cue in this process, a start cue ever
  stopped,      \* runs whose cues this process stopped
  unpublished,  \* a start failed after the last publish
  failures, crashes

runtimeVars == <<entries, starting, releases, cues, generations, plays, stopped>>
publishedVars == <<saved, dirty, checkpoint, told, failures>>
timerVars == <<runtimeVars, publishedVars, leases, unpublished, crashes>>

Idle == [generation |-> 0, status |-> "idle", left |-> 0, armed |-> FALSE]
NoAdjustment == [action |-> "none", inactive |-> "ignore"]
Adjustments ==
  {[action |-> a, inactive |-> "ignore"] : a \in {"zero", "set", "increment", "decrement"}}
    \cup [action : {"increment", "decrement"}, inactive : {"start", "paused"}]

\* The state one synchronous call works on; published holds what it published.
now == [entries |-> entries, starting |-> starting, releases |-> releases, cues |-> cues,
        generations |-> generations, plays |-> plays, stopped |-> stopped, published |-> {}]

-----------------------------------------------------------------------------
(* Publication and recovery *)

Running(ents) == \E t \in Timers : ents[t].status = "running"

\* saveRecovery: paused runs, and running ones as if they were paused now.
Recovery(ents) ==
  {[timer |-> t, generation |-> ents[t].generation, left |-> ents[t].left] :
     t \in {u \in Timers : \/ ents[u].status = "paused"
                           \/ ents[u].status = "running" /\ ents[u].left > 0}}

\* Mutant: a write that failed is not tried again.
PersistOnce(ents) ==
  \/ saved' = Recovery(ents) /\ dirty' = FALSE /\ UNCHANGED failures
  \/ failures < MaxFailures /\ failures' = failures + 1 /\ dirty' = FALSE /\ UNCHANGED saved

\* persistRecovery, which may fail.
Persist(ents) ==
  \/ saved' = Recovery(ents) /\ dirty' = FALSE /\ UNCHANGED failures
  \/ failures < MaxFailures /\ failures' = failures + 1 /\ dirty' = TRUE /\ UNCHANGED saved

\* Mutant: only running timers need a checkpoint.
CheckpointRunning(ents) == Running(ents)

\* needsCheckpoint
NeedsCheckpoint(ents) == dirty' \/ Running(ents)

Shown(ents) == [t \in Timers |-> <<ents[t].generation, ents[t].status>>]

\* What a call did takes effect.
Commit(s) ==
  /\ entries' = s.entries /\ starting' = s.starting /\ releases' = s.releases /\ cues' = s.cues
  /\ generations' = s.generations /\ plays' = s.plays /\ stopped' = s.stopped
  /\ IF s.published = {} THEN UNCHANGED publishedVars
     ELSE \E ents \in s.published :
            Persist(ents) /\ checkpoint' = NeedsCheckpoint(ents) /\ told' = Shown(ents)
Called(s) ==
  Commit(s) /\ unpublished' = (unpublished /\ s.published = {}) /\ UNCHANGED <<leases, crashes>>

-----------------------------------------------------------------------------
(* What calls do to the state *)

Publish(s) == [s EXCEPT !.published = {s.entries}]
Remove(s, t) == [s EXCEPT !.entries[t] = Idle]
Release(s, g) == [s EXCEPT !.releases = @ \cup {g}]

PlayCue(s, g, cue) ==
  [s EXCEPT !.cues = @ \cup {[generation |-> g, cue |-> cue, phase |-> "preparing"]},
            !.plays[g][cue] = IF @ = 0 THEN 1 ELSE 2]

\* TimerCueService.stop: what is prepared is cancelled, what plays ends.
StopCue(s, g) ==
  [s EXCEPT !.cues = {c \in @ : c.generation # g}, !.stopped = @ \cup {g}]

\* The new generation is in place before its media are asked for.
StartFresh(s, t, status, adjustment, after) ==
  LET g == s.generations + 1
  IN [s EXCEPT !.generations = g,
        !.entries[t] = [generation |-> g, status |-> status, left |-> Duration, armed |-> FALSE],
        !.starting = @ \cup {[generation |-> g, timer |-> t, phase |-> "media",
                              paused |-> status = "paused", adjustment |-> adjustment,
                              after |-> after]}]

Complete(s, t) ==
  LET done == [s EXCEPT !.entries[t].status = "completed", !.entries[t].left = Hold,
                        !.entries[t].armed = TRUE]
  IN PlayCue(Publish(done), s.entries[t].generation, "end")

\* Mutant: the end of the hold is not published.
ExpireQuietly(s, t) == Release(Remove(s, t), s.entries[t].generation)

Expire(s, t) == Release(Publish(Remove(s, t)), s.entries[t].generation)

\* resolveDeadline: what the clock already decided, before a command.
Resolve(s, t) ==
  LET e == s.entries[t]
  IN IF e.left > 0 THEN s
     ELSE IF e.status = "running" THEN Complete(s, t)
     ELSE IF e.status = "completed" THEN Expire(s, t) ELSE s

Paused(s, t) ==
  IF s.entries[t].status # "running" THEN s
  ELSE Publish([s EXCEPT !.entries[t].status = "paused", !.entries[t].armed = FALSE])

\* Mutant: a run that is resumed is not scheduled.
ResumedOnly(s, t) ==
  IF s.entries[t].status # "paused" THEN s
  ELSE Publish([s EXCEPT !.entries[t].status = "running"])

Resumed(s, t) ==
  IF s.entries[t].status # "paused" THEN s
  ELSE Publish([s EXCEPT !.entries[t].status = "running", !.entries[t].armed = TRUE])

\* A call for every timer, after[t] being what the one for t leaves: each touches the
\* run of its own timer, and the last one that changes it publishes them all.
Together(s, after) ==
  LET ents == [t \in Timers |-> after[t].entries[t]]
  IN [s EXCEPT !.entries = ents,
        !.releases = @ \cup UNION {after[t].releases : t \in Timers},
        !.cues = @ \cup UNION {after[t].cues : t \in Timers},
        !.plays = [g \in Generations |->
          IF \A t \in Timers : after[t].plays[g] = @[g] THEN @[g]
          ELSE after[CHOOSE t \in Timers : after[t].plays[g] # @[g]].plays[g]],
        !.published = IF ents = s.entries THEN @ ELSE {ents}]

\* Mutant: the media of the old run are kept.
ReplacedOnly(s, t) ==
  IF s.entries[t] = Idle THEN s ELSE StopCue(Remove(s, t), s.entries[t].generation)

\* The old run's cues stop and its media are released, while the new one starts.
Replaced(s, t) ==
  IF s.entries[t] = Idle THEN s
  ELSE Release(StopCue(Remove(s, t), s.entries[t].generation), s.entries[t].generation)

Stopped(s, t) ==
  IF s.entries[t] = Idle THEN s
  ELSE Replaced([s EXCEPT !.published = {Remove(s, t).entries}], t)

\* Mutant: time is taken off without a lower bound.
TimeBelow(action, left) ==
  CASE action = "zero" -> 0
    [] action = "set" -> 1
    [] action = "increment" -> left + 1
    [] action = "decrement" -> left - 2

TimeAfter(action, left) ==
  CASE action = "zero" -> 0
    [] action = "set" -> 1
    [] action = "increment" -> IF left + 1 > Longest THEN Longest ELSE left + 1
    [] action = "decrement" -> IF left = 0 THEN 0 ELSE left - 1

\* An active run gets another remainder, and its deadline another callback.
Adjusted(s, t, action, created) ==
  LET e == s.entries[t]
      left == TimeAfter(action, e.left)
  IN IF e.status = "completed" \/ (left = e.left /\ ~created) THEN s
     ELSE IF left = 0 THEN Complete(s, t)
     ELSE Publish([s EXCEPT !.entries[t].left = left, !.entries[t].armed = e.status = "running"])

-----------------------------------------------------------------------------
(* Commands *)

TimerInit ==
  /\ entries = [t \in Timers |-> Idle] /\ starting = {} /\ leases = {} /\ releases = {}
  /\ cues = {} /\ saved = {} /\ dirty = FALSE /\ checkpoint = FALSE
  /\ told = Shown(entries) /\ generations = 0
  /\ plays = [g \in Generations |-> [c \in Cues |-> 0]] /\ stopped = {}
  /\ unpublished = FALSE /\ failures = 0 /\ crashes = 0

Start(t) ==
  /\ generations < MaxRuns
  /\ LET s == Resolve(now, t)
     IN Called(IF s.entries[t] = Idle THEN StartFresh(s, t, "running", NoAdjustment, 0) ELSE s)

Pause(t) == Called(Paused(Resolve(now, t), t))
Resume(t) == Called(Resumed(Resolve(now, t), t))
Stop(t) == Called(Stopped(Resolve(now, t), t))

Restart(t) ==
  /\ generations < MaxRuns
  /\ Called(StartFresh(Replaced(Resolve(now, t), t), t, "running", NoAdjustment, 0))

\* activate: the command that fits the state.
Activate(t) ==
  LET status == Resolve(now, t).entries[t].status
  IN CASE status = "running" -> Pause(t) [] status = "paused" -> Resume(t)
       [] status = "completed" -> Restart(t) [] OTHER -> Start(t)

Reset(t) ==
  LET s == Resolve(now, t)
      e == s.entries[t]
  IN Called(IF e.status \notin {"running", "paused"} \/ e.left = Duration THEN s
            ELSE Publish([s EXCEPT !.entries[t].left = Duration,
                                   !.entries[t].armed = e.status = "running"]))

TogglePaused ==
  LET resolved == Together(now, [t \in Timers |-> Resolve(now, t)])
  IN Called(Together(resolved,
       [t \in Timers |-> IF Running(resolved.entries) THEN Paused(resolved, t) ELSE Resumed(resolved, t)]))

\* adjust, up to the first await: an idle or completed timer gets a paused run.
Adjust(t, a) ==
  LET s == Resolve(now, t)
      e == s.entries[t]
  IN IF e.status \in {"running", "paused"} THEN Called(Adjusted(s, t, a.action, FALSE))
     ELSE IF a.action \in {"increment", "decrement"} /\ a.inactive = "ignore" THEN Called(s)
     ELSE IF a.action = "zero" THEN Called(Stopped(s, t))
     ELSE /\ generations < MaxRuns
          /\ Called(StartFresh(Replaced(s, t), t, "paused", a, e.generation))

-----------------------------------------------------------------------------
(* After an await *)

Current(s, r) == s.entries[r.timer].generation = r.generation
Done(s, r) == [s EXCEPT !.starting = @ \ {r}]
Onto(s, r, phase) == [s EXCEPT !.starting = (@ \ {r}) \cup {[r EXCEPT !.phase = phase]}]

\* Mutant: the start cue of a run that was made paused is not left to adjust.
MediaCues(r) ==
  /\ r \in starting /\ r.phase = "media" /\ leases' = leases \cup {r.generation}
  /\ LET s == IF entries[r.timer].status = "running" THEN PlayCue(now, r.generation, "start") ELSE now
     IN Commit(IF r.adjustment = NoAdjustment THEN Done(s, r) ELSE Onto(s, r, "adjust"))
  /\ UNCHANGED <<unpublished, crashes>>

\* The rest of startFresh, once the media are there.
MediaAcquired(r) ==
  /\ r \in starting /\ r.phase = "media"
  /\ leases' = leases \cup {r.generation}
  /\ LET e == entries[r.timer]
         live == [now EXCEPT !.entries[r.timer].armed = e.status # "paused"]
         cued == IF ~r.paused /\ e.status = "running"
                 THEN PlayCue(Publish(live), r.generation, "start") ELSE Publish(live)
     IN IF ~Current(now, r)
        THEN Commit(Release(Done(now, r), r.generation)) /\ UNCHANGED unpublished
        ELSE /\ Commit(IF r.adjustment = NoAdjustment THEN Done(cued, r) ELSE Onto(cued, r, "adjust"))
             /\ unpublished' = FALSE
  /\ UNCHANGED crashes

\* The media cannot be had: the run goes without a word.
MediaFailed(r) ==
  /\ r \in starting /\ r.phase = "media"
  /\ LET s == Release(Done(now, r), r.generation)
     IN Commit(IF Current(now, r) THEN Remove(s, r.timer) ELSE s)
  /\ unpublished' = (unpublished \/ Current(now, r))
  /\ UNCHANGED <<leases, crashes>>

Started(s, r) ==
  IF r.adjustment.inactive = "start" /\ s.entries[r.timer].status = "paused"
  THEN Onto(Resumed(s, r.timer), r, "cue") ELSE Done(s, r)

\* The rest of adjust, on the run it reserved or not at all.
AdjustReserved(r) ==
  /\ r \in starting /\ r.phase = "adjust" /\ r.after \notin releases
  /\ Called(IF ~Current(now, r) THEN Done(now, r)
            ELSE Started(Adjusted(now, r.timer, r.adjustment.action, TRUE), r))

\* Mutant: the start cue is played for a run that is gone.
CueAnyway(r) ==
  r \in starting /\ r.phase = "cue" /\ Called(PlayCue(Done(now, r), r.generation, "start"))

\* ... and the start cue of a run it resumed.
CueReserved(r) ==
  /\ r \in starting /\ r.phase = "cue"
  /\ Called(IF Current(now, r) THEN PlayCue(Done(now, r), r.generation, "start") ELSE Done(now, r))

\* LocalMediaService serves a release after the acquisition asked for before it.
MediaReleased(g) ==
  /\ g \in releases /\ \A r \in starting : r.generation = g => r.phase # "media"
  /\ releases' = releases \ {g} /\ leases' = leases \ {g}
  /\ UNCHANGED <<entries, starting, cues, generations, plays, stopped, publishedVars,
                 unpublished, crashes>>

\* A cue is ready to play, or its asset is not available.
CuePrepared(c, available) ==
  /\ c \in cues /\ c.phase = "preparing"
  /\ cues' = (cues \ {c}) \cup (IF available THEN {[c EXCEPT !.phase = "playing"]} ELSE {})
  /\ UNCHANGED <<entries, starting, releases, generations, plays, stopped, publishedVars,
                 leases, unpublished, crashes>>
CueEnds(c) ==
  /\ c \in cues /\ c.phase = "playing" /\ cues' = cues \ {c}
  /\ UNCHANGED <<entries, starting, releases, generations, plays, stopped, publishedVars,
                 leases, unpublished, crashes>>

-----------------------------------------------------------------------------
(* Time, checkpoints and the end of the process *)

Ticks(e) == e.status \in {"running", "completed"} /\ e.left > 0
Tick ==
  /\ \E t \in Timers : Ticks(entries[t])
  /\ entries' = [t \in Timers |-> IF Ticks(entries[t]) THEN [entries[t] EXCEPT !.left = @ - 1]
                                  ELSE entries[t]]
  /\ UNCHANGED <<starting, releases, cues, generations, plays, stopped, publishedVars,
                 leases, unpublished, crashes>>

\* The callback of a deadline or of a hold; an early one schedules itself again.
Fire(t) ==
  /\ entries[t].armed /\ entries[t].left = 0
  /\ Called(IF entries[t].status = "completed" THEN Expire(now, t) ELSE Complete(now, t))

Checkpoint ==
  /\ checkpoint /\ Persist(entries) /\ checkpoint' = NeedsCheckpoint(entries)
  /\ UNCHANGED <<runtimeVars, told, leases, unpublished, crashes>>

\* The process ends, after a last write in close() or not, and the next one
\* restores what was written: paused, and silent.
Restored(rows) ==
  [t \in Timers |->
     IF \E row \in rows : row.timer = t
     THEN LET row == CHOOSE x \in rows : x.timer = t
          IN [generation |-> row.generation, status |-> "paused", left |-> row.left, armed |-> FALSE]
     ELSE Idle]
Reopen(closing) ==
  /\ crashes < MaxCrashes /\ crashes' = crashes + 1
  /\ saved' = IF closing THEN Recovery(entries) ELSE saved
  /\ entries' = Restored(saved') /\ told' = Shown(entries')
  /\ leases' \in SUBSET {row.generation : row \in saved'}
  /\ starting' = {} /\ releases' = {} /\ cues' = {}
  /\ dirty' = FALSE /\ checkpoint' = FALSE /\ unpublished' = FALSE
  /\ stopped' = {} /\ plays' = [g \in Generations |-> [plays[g] EXCEPT !["end"] = 0]]
  /\ UNCHANGED <<generations, failures>>

Commands ==
  \/ \E t \in Timers : \/ Start(t) \/ Pause(t) \/ Resume(t) \/ Stop(t) \/ Restart(t)
                       \/ Activate(t) \/ Reset(t)
                       \/ \E a \in Adjustments : Adjust(t, a)
  \/ TogglePaused
Awaited ==
  \/ \E r \in starting : \/ MediaAcquired(r) \/ MediaFailed(r)
                         \/ AdjustReserved(r) \/ CueReserved(r)
  \/ \E g \in Generations : MediaReleased(g)
  \/ \E c \in cues : CueEnds(c) \/ \E b \in BOOLEAN : CuePrepared(c, b)
TimerNext ==
  \/ Commands \/ Awaited \/ Tick \/ Checkpoint
  \/ \E t \in Timers : Fire(t)
  \/ \E b \in BOOLEAN : Reopen(b)

TimerSpec == TimerInit /\ [][TimerNext]_timerVars

-----------------------------------------------------------------------------
(* Properties *)

\* Runs, rows and calls have their shape; a remainder is never below zero and
\* never above the longest one.
TimerTypeOK ==
  /\ entries \in [Timers -> [generation : 0 .. MaxRuns,
                             left : 0 .. (IF Hold > Longest THEN Hold ELSE Longest),
                             status : {"idle", "running", "paused", "completed"}, armed : BOOLEAN]]
  /\ starting \subseteq [generation : Generations, timer : Timers, phase : {"media", "adjust", "cue"},
                         paused : BOOLEAN, adjustment : Adjustments \cup {NoAdjustment},
                         after : 0 .. MaxRuns]
  /\ leases \subseteq Generations /\ releases \subseteq Generations /\ stopped \subseteq Generations
  /\ cues \subseteq [generation : Generations, cue : Cues, phase : {"preparing", "playing"}]
  /\ saved \subseteq [timer : Timers, generation : Generations, left : 1 .. Longest]
  /\ dirty \in BOOLEAN /\ checkpoint \in BOOLEAN /\ unpublished \in BOOLEAN
  /\ told \in [Timers -> (0 .. MaxRuns) \X {"idle", "running", "paused", "completed"}]
  /\ generations \in 0 .. MaxRuns /\ plays \in [Generations -> [Cues -> 0 .. 2]]
  /\ failures \in 0 .. MaxFailures /\ crashes \in 0 .. MaxCrashes

\* timer-overlay-module, Timer is stopped: no cue of a run sounds or is being
\* prepared after the run was stopped or replaced, whatever was under way.
StoppedIsSilent == \A c \in cues : c.generation \notin stopped

\* A run asks for its start cue at most once, restored or not, and a process
\* for its end cue, however commands, callbacks and media overlap.
EachCueOnce == \A g \in Generations, c \in Cues : plays[g][c] <= 1

\* No media are kept for a run that is gone, once nothing is under way.
NothingLeaks ==
  starting = {} /\ releases = {} => leases \subseteq {entries[t].generation : t \in Timers}

\* Unless a start is under way or failed, the listeners have seen the state of
\* every timer; and unless a write failed too, a crash now would bring back
\* exactly the runs that have time left, with at least that time.
PublishedFollows ==
  \A t \in Timers :
    ~unpublished /\ (\A r \in starting : r.timer = t => ~Current(now, r)) =>
      LET e == entries[t]
          rows == {row \in saved : row.timer = t}
      IN /\ told[t] = <<e.generation, e.status>>
         /\ ~dirty =>
              CASE e.status = "paused" -> rows = {[timer |-> t, generation |-> e.generation, left |-> e.left]}
                [] e.status = "running" ->
                     /\ \A row \in rows : row.generation = e.generation /\ row.left >= e.left
                     /\ e.left > 0 => rows # {}
                [] OTHER -> rows = {}

\* Nothing is left behind undriven: a run whose clock runs, or that is held,
\* has its callback scheduled, unless its media are still to come, and a write
\* that failed has the checkpoint that tries it again (persistRecovery: "retry
\* persistence, including empty-state removal").
EverythingIsDriven ==
  /\ \A t \in Timers :
       entries[t].status \in {"running", "completed"} /\ ~entries[t].armed =>
         \E r \in starting : r.timer = t /\ r.phase = "media" /\ Current(now, r)
  /\ dirty => checkpoint
=============================================================================
