---------------------- MODULE PlaybackCoordinatorProofs ----------------------
(***************************************************************************)
(* Proofs about PlaybackCoordinator, for any clients, instructions, shapes *)
(* of occurrences and operations.                                          *)
(***************************************************************************)
EXTENDS PlaybackCoordinator, PlaybackQueueProofs

\* close() leaves nothing in the queue, and nothing gets in afterwards.
ClosedEmpty == closed => queued = {}

\* With nothing waiting StartNext starts nothing.
LEMMA NothingToStart ==
  ASSUME NEW cur, StartNext(cur, {})
  PROVE  current' = cur /\ queued' = {}
BY DEF StartNext

\* Once closed, no acknowledgement completes the occurrence.
LEMMA ClosedContinues ==
  ASSUME closed, NEW o, Continue(o)
  PROVE  UNCHANGED queueVars
BY DEF Continue, Undisturbed

\* A queue operation that finds the queue empty leaves it empty.
LEMMA OperationOnEmpty ==
  ASSUME queued = {}, QueueOperation
  PROVE  queued' = {} /\ current' = current
<1>1. CASE \E i \in Items : Remove(i)
  BY <1>1 DEF Remove
<1>2. CASE ClearPending \/ Pause
  BY <1>2 DEF ClearPending, Pause
<1>3. CASE StartNext(current, queued)
  BY <1>3, NothingToStart
<1> QED
  BY <1>1, <1>2, <1>3 DEF QueueOperation, SetModulePaused, SetSafetyState, SetDoNotDisturb,
     Resume, StartAfterGate

\* After close no step starts an occurrence, and none adds anything to what is
\* heard or shown.
LEMMA ClosedStep ==
  ASSUME closed, queued = {}, PlaybackNext
  PROVE  /\ closed' /\ queued' = {} /\ current' = current
         /\ sounding' \subseteq sounding /\ showing' \subseteq showing
<1> USE DEF world, past
<1>1. CASE QueueOperation
  BY <1>1, OperationOnEmpty DEF QueueOperation
<1>2. CASE \E r \in Recipients : PreparationEnds(r)
  BY <1>2 DEF PreparationEnds, InstructionReady, PlaybackReady, PreparationFails, queueVars
<1>3. CASE DesktopCleaned
  BY <1>3 DEF DesktopCleaned, queueVars
<1>4. CASE Commit
  BY <1>4 DEF Commit, Active, queueVars
<1>5. CASE \E c \in Clients : Disconnect(c) \/ \E n \in Instructions : ReportFinished(c, n)
  <2>1. UNCHANGED queueVars
    BY <1>5, ClosedContinues DEF Disconnect, ReportFinished
  <2> QED BY <1>5, <2>1 DEF Disconnect, ReportFinished, queueVars
<1>6. CASE \E i \in Items : DeviceRejects(i) \/ \E k \in Kinds : PlayEnds(i, k)
  <2>1. UNCHANGED queueVars
    BY <1>6, ClosedContinues DEF DeviceRejects, PlayEnds
  <2> QED BY <1>6, <2>1 DEF DeviceRejects, PlayEnds, queueVars
<1>7. CASE \E k \in Kinds : StopSettles(k)
  <2>1. UNCHANGED queueVars
    BY <1>7, ClosedContinues DEF StopSettles, StopDone, StopFails
  <2> QED BY <1>7, <2>1 DEF StopSettles, StopDone, StopFails, queueVars
<1>8. CASE StopperResumes \/ StopperAdvances
  BY <1>8 DEF StopperResumes, StopperAdvances, queueVars
<1>9. ~Skip /\ ~WatchdogFires /\ ~Close /\ \A p, s : ~EnqueueResolved(p, s)
  BY DEF Skip, WatchdogFires, StopOccurrence, Close, EnqueueResolved
<1> QED BY <1>1, <1>2, <1>3, <1>4, <1>5, <1>6, <1>7, <1>8, <1>9 DEF PlaybackNext

\* Every step keeps the queue of a closed coordinator empty.
LEMMA ClosedEmptyStep == ClosedEmpty /\ [PlaybackNext]_playbackVars => ClosedEmpty'
<1> SUFFICES ASSUME ClosedEmpty, [PlaybackNext]_playbackVars, closed' PROVE queued' = {}
  BY DEF ClosedEmpty
<1>1. CASE UNCHANGED playbackVars
  BY <1>1 DEF playbackVars, queueVars, ClosedEmpty
<1>2. CASE PlaybackNext /\ closed
  BY <1>2, ClosedStep DEF ClosedEmpty
<1>3. CASE PlaybackNext /\ ~closed
  <2>1. Close
    BY <1>3 DEF PlaybackNext, EnqueueResolved, QueueOperation, PreparationEnds, InstructionReady,
       PlaybackReady, PreparationFails, DesktopCleaned, Commit, Disconnect, ReportFinished,
       DeviceRejects, PlayEnds, StopSettles, StopDone, StopFails, Skip, WatchdogFires,
       StopOccurrence, StopperResumes, StopperAdvances
  <2> QED BY <2>1 DEF Close, Shutdown
<1> QED BY <1>1, <1>2, <1>3

\* After close nothing starts, is heard or is shown that was not before: no
\* resume, late preparation, acknowledgement or stop revives the queue.
THEOREM PlaybackSilentAfterClose == PlaybackSpec => SilentAfterClose
<1>1. PlaybackInit => ClosedEmpty
  BY DEF PlaybackInit, ClosedEmpty
<1>2. ClosedEmpty /\ [PlaybackNext]_playbackVars =>
        [closed => /\ current' \in {current, None}
                   /\ sounding' \subseteq sounding
                   /\ showing' \subseteq showing]_playbackVars
  BY ClosedStep DEF ClosedEmpty
<1> QED BY <1>1, <1>2, ClosedEmptyStep, PTL DEF PlaybackSpec, SilentAfterClose

-----------------------------------------------------------------------------
(* The invariant *)

Occurrences ==
  [of : Items \cup {None}, registered : SUBSET Kinds, cancelled : SUBSET Kinds,
   settled : SUBSET Kinds, stopping : [Kinds -> Stops], pending : SUBSET Instructions,
   clients : [Instructions -> SUBSET Clients], early : [Instructions -> SUBSET Clients],
   dispatched : BOOLEAN, preparing : SUBSET Recipients, cleaning : SUBSET Kinds,
   ready : SUBSET Recipients, committing : BOOLEAN, watchdog : BOOLEAN, rejected : BOOLEAN,
   stopper : Kinds \cup {"none", "finish"}]

WorldTyped ==
  /\ shape \in [Items -> Shapes \cup {{}}] /\ closed \in BOOLEAN
  /\ connected \subseteq Clients
  /\ playing \subseteq Items \X Kinds /\ sounding \subseteq Items \X Kinds
  /\ showing \subseteq Items \X Instructions \X Clients
  /\ asked \subseteq Items /\ unstopped \subseteq Items
Typed == occ \in Occurrences /\ WorldTyped

\* What played, was asked to stop or is over was enqueued and waits no more.
Begun(i) == i \in 1 .. next /\ i \notin queued
OnlyBegun ==
  /\ \A p \in playing : Begun(p[1])
  /\ \A i \in asked : Begun(i)
  /\ \A n \in DOMAIN recent : Begun(recent[n].id) /\ recent[n].id # current

Follows == IF closed THEN occ.pending = {} /\ queued = {} ELSE occ.of = current

\* What is prepared is not dispatched, and what is not cancelled was not stopped.
Prepares(o) ==
  /\ o.dispatched => o.preparing = {}
  /\ o.committing /\ o.dispatched => o.pending = {}
  /\ o.preparing \cap o.ready = {}
  /\ o.preparing # {} => o.committing /\ o.preparing \cap o.cancelled = {}
  /\ (o.preparing \cup o.ready) \cap Kinds \subseteq o.registered
  /\ o.cleaning \subseteq o.registered
  /\ o.cleaning \cap (o.preparing \cup o.ready) = {}
  /\ "device" \in o.cleaning => o.stopping["device"] = "pending"
  /\ o.rejected => "device" \in o.registered /\ ~o.committing
  /\ o.committing => \A k \in Kinds \ o.cancelled :
       o.stopping[k] = "none" /\ (k \in o.ready \cup o.preparing => k \notin o.settled)

\* A client that is waited for is connected, or left before the dispatch.
Awaits(o, there) ==
  \A n \in o.pending : IF o.dispatched THEN o.clients[n] # {} /\ o.clients[n] \subseteq there
                        ELSE o.clients[n] \ o.early[n] \subseteq there

\* The stop sequence goes from the device to the desktop and ends with both stopped.
StopsInTurn(o) ==
  /\ o.stopping["desktop"] # "failed"
  /\ o.stopper = "device" => "device" \in o.registered \/ o.stopping["device"] = "done"
  /\ o.stopper = "desktop" => ("device" \in o.registered => o.stopping["device"] = "done")
  /\ o.stopper = "finish" => \A k \in o.registered : o.stopping[k] = "done"

\* An occurrence somebody asked to stop has every output cancelled, and after a
\* stop that failed the device holds it.
StaysAsked(o, some) ==
  /\ o.stopper # "none" => o.of \in some
  /\ o.of \in some =>
       /\ o.registered \subseteq o.cancelled
       /\ o.dispatched /\ o.pending = {} /\ o.preparing = {}
       /\ o.stopper = "none" => "device" \in o.registered /\ "device" \notin o.cleaning
  /\ o.of \notin some /\ o.dispatched => o.cleaning = {}

\* What is heard is a registered output that did not settle, unless it was
\* cancelled, and whose stop was not acknowledged; what is shown is waited for.
HeardIsWaitedFor(o, sound) ==
  \A s \in sound :
     /\ s[1] = o.of /\ s[2] \in o.registered /\ ~o.committing
     /\ s[2] \in o.settled => s[2] \in o.cancelled
     /\ o.stopping[s[2]] # "done"
ShownIsWaitedFor(o, show) ==
  \A s \in show : s[1] = o.of /\ s[2] \in o.pending /\ o.dispatched /\ s[3] \in o.clients[s[2]]
PlaysAfterCommit(o, play) == \A p \in play : p[1] = o.of => ~o.committing

NotDone(o, some) ==
  o.of # None /\ o.of \notin some /\ o.registered \cap o.cancelled = {} => ~CanComplete(o)

\* Where nothing is delivered there is nothing to start, to reject or to stop.
HeldIsDelivered(o) == o.of = None => ~o.committing /\ ~o.rejected /\ o.stopper = "none"

\* The occurrence o, with what goes on outside.
Sound(o, there, play, sound, show, some) ==
  /\ Prepares(o) /\ Awaits(o, there) /\ StopsInTurn(o) /\ StaysAsked(o, some)
  /\ HeardIsWaitedFor(o, sound) /\ ShownIsWaitedFor(o, show) /\ PlaysAfterCommit(o, play)

Inner == Sound(occ, connected, playing, sounding, showing, asked) /\ NotDone(occ, asked)

PlaybackInv ==
  /\ QueueInv /\ Typed /\ OnlyBegun /\ Follows /\ HeldIsDelivered(occ)
  /\ ~closed => Inner
  /\ SkippedStaysSkipped

-----------------------------------------------------------------------------
(* The queue under the coordinator *)

\* What was taken from the queue never waits again, and what starts waited.
LEMMA QueueMoves ==
  ASSUME QueueInv, [QueueNext]_queueVars
  PROVE  /\ QueueInv'
         /\ \A i : Begun(i) => Begun(i)'
         /\ current' \notin {current, None} =>
              ~Begun(current') /\ current' \in 1 .. next' /\ current' \notin queued'
<1>1. QueueInv'
  BY QueueNextInv
<1>2. \A cur, waiting : StartNext(cur, waiting) =>
        queued' \subseteq waiting /\ current' \in waiting \cup {cur}
  BY DEF StartNext
<1>3. next \in Nat /\ current \in 0 .. next /\ queued \subseteq 1 .. next
  BY QueueAssumption DEF QueueInv, QueueTypeOK, Enqueued
<1>4. /\ next' \in {next, next + 1}
      /\ next' = next => queued' \subseteq queued
      /\ queued' \subseteq queued \cup {next + 1}
      /\ current' \in queued \cup {next + 1, current, None}
  <2>1. CASE \E p : Enqueue(p)
    BY <1>2, <1>3, <2>1 DEF Enqueue
  <2>2. CASE \E status \in Statuses : Finish(status)
    BY <1>2, <2>2 DEF Finish
  <2>3. CASE (\E i \in Items : Remove(i)) \/ ClearPending \/ Shutdown \/ Pause \/ UNCHANGED queueVars
    BY <2>3 DEF Remove, ClearPending, Shutdown, Pause, queueVars
  <2>4. CASE GateStep
    BY <1>2, <2>4 DEF GateStep, SetModulePaused, SetDoNotDisturb, Resume, SetSafetyState, StartAfterGate
  <2> QED BY <2>1, <2>2, <2>3, <2>4 DEF QueueNext, Replay, GateStep
<1>5. \A i : Begun(i) => Begun(i)'
  BY <1>3, <1>4 DEF Begun
<1>6. current' \notin {current, None} =>
        ~Begun(current') /\ current' \in 1 .. next' /\ current' \notin queued'
  <2> SUFFICES ASSUME current' \notin {current, None}
               PROVE  ~Begun(current') /\ current' \in 1 .. next' /\ current' \notin queued'
    OBVIOUS
  <2>1. ~Begun(current')
    BY <1>3, <1>4 DEF Begun
  <2>2. current' \in 0 .. next' /\ current' \notin queued'
    BY <1>1 DEF QueueInv, Enqueued
  <2> QED BY <1>3, <1>4, <2>1, <2>2 DEF Begun, None
<1> QED BY <1>1, <1>5, <1>6

\* A finished occurrence is over, and the first of the recent ones.
LEMMA FinishMoves ==
  ASSUME QueueInv, NEW status \in Statuses, Finish(status)
  PROVE  /\ [QueueNext]_queueVars
         /\ current \in Items /\ Begun(current) /\ current' # current
         /\ \A n \in DOMAIN recent' :
              \/ recent'[n] = [id |-> current, status |-> status]
              \/ \E m \in DOMAIN recent : recent'[n] = recent[m]
<1>1. [QueueNext]_queueVars
  BY DEF QueueNext
<1>2. current \in Items /\ Begun(current)
  BY DEF QueueInv, QueueTypeOK, Enqueued, Finish, Begun, Items, None
<1>3. current' \in queued \cup {None}
  BY DEF Finish, StartNext
<1>4. current' # current
  BY <1>3 DEF QueueInv, Enqueued, Finish
<1> DEFINE s == <<[id |-> current, status |-> status]>> \o recent
<1>5. recent' = Newest(s) /\ recent \in Seq(Recents)
  BY DEF Finish, QueueInv, QueueTypeOK
<1>6. /\ s \in Seq(Recents) /\ DOMAIN s = 1 .. (Len(recent) + 1) /\ Len(s) = Len(recent) + 1
      /\ s[1] = [id |-> current, status |-> status]
      /\ \A n \in 2 .. (Len(recent) + 1) : s[n] = recent[n - 1]
  <2>1. [id |-> current, status |-> status] \in Recents
    BY <1>2 DEF Recents
  <2> QED BY <1>5, <2>1
<1> HIDE DEF s
<1>7. \A n \in DOMAIN recent' : n \in DOMAIN s /\ recent'[n] = s[n]
  <2>1. CASE Len(s) <= RecentLimit
    BY <1>5, <2>1 DEF Newest
  <2>2. CASE Len(s) > RecentLimit
    BY <1>5, <1>6, <2>2, QueueAssumption, SubSeqProperties DEF Newest
  <2> QED BY <1>6, <2>1, <2>2, QueueAssumption
<1>8. ASSUME NEW n \in DOMAIN recent'
      PROVE  \/ recent'[n] = [id |-> current, status |-> status]
             \/ \E m \in DOMAIN recent : recent'[n] = recent[m]
  <2>1. n \in 1 .. (Len(recent) + 1) /\ recent'[n] = s[n] /\ Len(recent) \in Nat
    BY <1>5, <1>6, <1>7
  <2>2. CASE n = 1
    BY <1>6, <2>1, <2>2
  <2>3. CASE n # 1
    <3>1. n - 1 \in DOMAIN recent
      BY <1>5, <2>1, <2>3
    <3> QED BY <1>6, <2>1, <2>3, <3>1
  <2> QED BY <2>2, <2>3
<1> QED BY <1>1, <1>2, <1>4, <1>8

\* Every other method of the queue leaves the recent occurrences alone, and
\* starts one only where none plays.
LEMMA OthersStart ==
  ASSUME QueueInv,
         \/ \E p \in Priorities : Enqueue(p)
         \/ \E i \in Items : Remove(i)
         \/ ClearPending \/ Shutdown \/ Pause \/ Resume
         \/ \E value \in BOOLEAN : SetModulePaused(value) \/ SetDoNotDisturb(value)
         \/ \E p, d \in BOOLEAN : SetSafetyState(p, d)
  PROVE  [QueueNext]_queueVars /\ recent' = recent /\ (current' = current \/ current = None)
<1>1. [QueueNext]_queueVars
  BY DEF QueueNext
<1> QED
  BY <1>1 DEF Enqueue, Remove, ClearPending, Shutdown, Pause, Resume, SetModulePaused,
     SetDoNotDisturb, SetSafetyState, StartAfterGate, StartNext, MayStart

-----------------------------------------------------------------------------
(* An occurrence is delivered *)

LEMMA FreshSound ==
  ASSUME WorldTyped', NEW i \in Items, NEW there, NEW play, NEW some,
         \A p \in play : p[1] # i, i \notin some
  PROVE  /\ Sound(Fresh(i), there, play, {}, {}, some) /\ NotDone(Fresh(i), some)
         /\ Fresh(i) \in Occurrences /\ Fresh(i).of = i
<1> DEFINE o == Fresh(i)
<1>1. shape'[i] \subseteq Recipients
  BY CoordinatorAssumption DEF WorldTyped
<1>2. /\ o.of = i /\ o.registered = shape'[i] \cap Kinds /\ o.cancelled = {} /\ o.settled = {}
      /\ o.stopping = [k \in Kinds |-> "none"] /\ o.pending = shape'[i] \cap Instructions
      /\ o.clients = [n \in Instructions |-> {}] /\ o.early = [n \in Instructions |-> {}]
      /\ o.dispatched = FALSE /\ o.preparing = shape'[i] /\ o.cleaning = {} /\ o.ready = {}
      /\ o.committing = TRUE /\ o.watchdog = FALSE /\ o.rejected = FALSE /\ o.stopper = "none"
  BY DEF Fresh, Idle
<1>3. o \in Occurrences
  BY <1>1 DEF Fresh, Idle, Occurrences, Stops, None
<1> HIDE DEF o
<1>4. Sound(o, there, play, {}, {}, some)
  BY <1>2 DEF Sound, Prepares, Awaits, StopsInTurn, StaysAsked, HeardIsWaitedFor, ShownIsWaitedFor,
     PlaysAfterCommit, Kinds
<1>5. NotDone(o, some)
  BY <1>2 DEF NotDone, CanComplete
<1> QED BY <1>2, <1>3, <1>4, <1>5 DEF o

LEMMA IdleSound ==
  ASSUME NEW there, NEW play, NEW some, None \notin some
  PROVE  Sound(Idle, there, play, {}, {}, some) /\ NotDone(Idle, some) /\ Idle \in Occurrences
<1> DEFINE o == Idle
<1>1. /\ o.of = None /\ o.registered = {} /\ o.pending = {}
      /\ o.stopping = [k \in Kinds |-> "none"]
      /\ o.dispatched = TRUE /\ o.preparing = {} /\ o.cleaning = {} /\ o.ready = {}
      /\ o.committing = FALSE /\ o.rejected = FALSE /\ o.stopper = "none"
  BY DEF Idle
<1>2. o \in Occurrences
  BY DEF Idle, Occurrences, Stops
<1> HIDE DEF o
<1>3. Sound(o, there, play, {}, {}, some) /\ NotDone(o, some)
  BY <1>1 DEF Sound, Prepares, Awaits, StopsInTurn, StaysAsked, HeardIsWaitedFor, ShownIsWaitedFor,
     PlaysAfterCommit, Kinds, NotDone
<1> QED BY <1>2, <1>3 DEF o

\* Another occurrence, or none, is current once the queue moves on.
LEMMA DeliveredSound ==
  ASSUME PlaybackInv, ~closed, ~closed', [QueueNext]_queueVars, current' # current, WorldTyped',
         NEW o, o.of = occ.of, occ' = Delivered(o), sounding' = {}, showing' = {},
         \A p \in playing' : Begun(p[1]), \A i \in asked' : Begun(i)
  PROVE  Inner' /\ Follows'
<1>1. o.of = current
  BY DEF PlaybackInv, Follows
<1>2. QueueInv
  BY DEF PlaybackInv
<1>3. CASE current' = None
  <2>1. occ' = Idle
    BY <1>1, <1>3 DEF Delivered
  <2>2. None \notin asked'
    BY <1>2, QueueAssumption DEF Begun, None, QueueInv, QueueTypeOK
  <2>3. Sound(Idle, connected', playing', {}, {}, asked') /\ NotDone(Idle, asked')
    BY <2>2, IdleSound
  <2>4. Idle.of = None
    BY DEF Idle
  <2> QED BY <1>3, <2>1, <2>3, <2>4 DEF Inner, Follows
<1>4. CASE current' # None
  <2>1. occ' = Fresh(current')
    BY <1>1, <1>4 DEF Delivered
  <2>2. ~Begun(current') /\ QueueInv'
    BY <1>2, <1>4, QueueMoves
  <2>3. current' \in Items
    BY <1>4, <2>2 DEF QueueInv, QueueTypeOK
  <2>4. /\ Sound(Fresh(current'), connected', playing', {}, {}, asked')
        /\ NotDone(Fresh(current'), asked') /\ Fresh(current').of = current'
    BY <2>2, <2>3, FreshSound
  <2> QED BY <2>1, <2>4 DEF Inner, Follows
<1> QED BY <1>3, <1>4

\* The occurrence that plays is over and silent, and was not asked to stop if it
\* is recorded as completed.
LEMMA Finishes ==
  ASSUME PlaybackInv, ~closed, ~closed', WorldTyped', NEW status \in Statuses, Finish(status),
         NEW o, o.of = occ.of, occ' = Delivered(o), sounding' = {}, showing' = {},
         \A p \in playing' : Begun(p[1]), asked' \subseteq asked \cup {current},
         status = "completed" => current \notin asked'
  PROVE  Inner' /\ Follows' /\ SkippedStaysSkipped'
<1>1. /\ [QueueNext]_queueVars /\ current \in Items /\ Begun(current) /\ current' # current
      /\ \A n \in DOMAIN recent' :
           \/ recent'[n] = [id |-> current, status |-> status]
           \/ \E m \in DOMAIN recent : recent'[n] = recent[m]
  BY FinishMoves DEF PlaybackInv
<1>2. \A i \in asked' : Begun(i)
  BY <1>1 DEF PlaybackInv, OnlyBegun
<1>3. Inner' /\ Follows'
  BY <1>1, <1>2, DeliveredSound
<1>4. SkippedStaysSkipped'
  <2> SUFFICES ASSUME NEW n \in DOMAIN recent', recent'[n].status = "completed"
               PROVE  recent'[n].id \notin asked'
    BY DEF SkippedStaysSkipped
  <2>1. CASE recent'[n] = [id |-> current, status |-> status]
    BY <2>1
  <2>2. CASE \E m \in DOMAIN recent : recent'[n] = recent[m]
    BY <2>2 DEF PlaybackInv, SkippedStaysSkipped, OnlyBegun
  <2> QED BY <1>1, <2>1, <2>2
<1> QED BY <1>3, <1>4

\* The occurrence goes on, or everything of it is done and silent.
LEMMA Continues ==
  ASSUME PlaybackInv, ~closed, ~closed', WorldTyped', UNCHANGED asked,
         NEW o \in Occurrences, o.of = occ.of, Continue(o),
         Sound(o, connected', playing', sounding', showing', asked),
         o.stopper = "none" \/ o.registered # {},
         \A p \in playing' : Begun(p[1])
  PROVE  Inner' /\ Follows' /\ SkippedStaysSkipped'
<1>1. CASE CanComplete(o) /\ Undisturbed(o)
  <2>1. Finish("completed") /\ occ' = Delivered(o)
    BY <1>1 DEF Continue
  <2>2. o.dispatched /\ o.pending = {} /\ o.registered \subseteq o.settled
        /\ o.registered \cap o.cancelled = {}
    BY <1>1 DEF CanComplete, Undisturbed
  <2>3. sounding' = {}
    BY <2>2 DEF Sound, HeardIsWaitedFor
  <2>4. showing' = {}
    BY <2>2 DEF Sound, ShownIsWaitedFor
  <2>5. current \notin asked
    <3>1. o.of = current
      BY DEF PlaybackInv, Follows
    <3>2. CASE o.registered = {}
      <4>1. o.stopper = "none" /\ "device" \notin o.registered
        BY <3>2
      <4>2. StaysAsked(o, asked)
        BY DEF Sound
      <4> QED BY <3>1, <4>1, <4>2 DEF StaysAsked
    <3>3. CASE o.registered # {}
      BY <2>2, <3>1, <3>3 DEF Sound, StaysAsked
    <3> QED BY <3>2, <3>3
  <2>6. "completed" \in Statuses
    BY DEF Statuses
  <2> QED BY <2>1, <2>3, <2>4, <2>5, <2>6, Finishes
<1>2. CASE ~(CanComplete(o) /\ Undisturbed(o))
  <2>1. occ' = o /\ UNCHANGED queueVars
    BY <1>2 DEF Continue
  <2>2. NotDone(o, asked)
    BY <1>2 DEF NotDone, Undisturbed
  <2>3. Inner' /\ Follows'
    BY <2>1, <2>2 DEF Inner, Follows, PlaybackInv, queueVars
  <2>4. SkippedStaysSkipped'
    BY <2>1 DEF PlaybackInv, SkippedStaysSkipped, queueVars
  <2> QED BY <2>3, <2>4
<1> QED BY <1>1, <1>2

\* The occurrence goes on, and the queue has nothing to do with it.
LEMMA GoesOn ==
  ASSUME PlaybackInv, ~closed, ~closed', UNCHANGED <<queueVars, asked>>, occ'.of = occ.of, Inner'
  PROVE  Inner' /\ Follows' /\ SkippedStaysSkipped'
BY DEF PlaybackInv, Follows, SkippedStaysSkipped, queueVars

-----------------------------------------------------------------------------
(* Steps of an open coordinator *)

\* What waits is enqueued, or users operate on the queue.
LEMMA OpenQueueStep ==
  ASSUME PlaybackInv, Typed', ~closed,
         (\E p \in Priorities, s \in Shapes : EnqueueResolved(p, s)) \/ QueueOperation
  PROVE  Inner' /\ Follows' /\ SkippedStaysSkipped'
<1>1. /\ QueueInv /\ occ' = Delivered(occ) /\ UNCHANGED <<closed, world, past>>
      /\ occ.of = current
  BY DEF EnqueueResolved, QueueOperation, PlaybackInv, Follows
<1>2. [QueueNext]_queueVars /\ recent' = recent /\ (current' = current \/ current = None)
  BY <1>1, OthersStart DEF EnqueueResolved, QueueOperation
<1>3. SkippedStaysSkipped'
  BY <1>1, <1>2 DEF PlaybackInv, SkippedStaysSkipped, past
<1>4. CASE current' = current
  <2>1. occ' = occ
    BY <1>1, <1>4 DEF Delivered
  <2>2. UNCHANGED <<connected, playing, sounding, showing, asked>> /\ ~closed' /\ Inner
    BY <1>1 DEF PlaybackInv, world, past
  <2>3. Inner'
    BY <2>1, <2>2 DEF Inner
  <2> QED BY <1>1, <1>3, <1>4, <2>1, <2>2, <2>3 DEF Follows
<1>5. CASE current' # current
  <2>1. current = None /\ None \notin Items
    BY <1>2, <1>5 DEF Items, None
  <2>2. sounding' = {} /\ showing' = {}
    BY <1>1, <2>1 DEF PlaybackInv, Typed, WorldTyped, Inner, Sound, HeardIsWaitedFor, ShownIsWaitedFor,
       world
  <2>3. (\A p \in playing' : Begun(p[1])) /\ (\A i \in asked' : Begun(i))
    BY <1>1 DEF PlaybackInv, OnlyBegun, world, past
  <2> QED BY <1>1, <1>2, <1>3, <1>5, <2>2, <2>3, DeliveredSound DEF Typed
<1> QED BY <1>4, <1>5

LEMMA OpenPreparationStep ==
  ASSUME PlaybackInv, Typed', ~closed, NEW r \in Recipients, PreparationEnds(r)
  PROVE  Inner' /\ Follows' /\ SkippedStaysSkipped'
<1>a. UNCHANGED <<queueVars, shape, closed, world, past>> /\ r \in occ.preparing
  BY DEF PreparationEnds, InstructionReady, PlaybackReady, PreparationFails
<1>b. Sound(occ, connected, playing, sounding, showing, asked) /\ occ \in Occurrences
  BY DEF PlaybackInv, Inner, Typed
<1>c. ~occ.dispatched /\ occ.committing /\ occ.of \notin asked
  BY <1>a, <1>b DEF Sound, Prepares, StaysAsked, Occurrences
<1>1. /\ UNCHANGED <<queueVars, shape, closed, world, past>> /\ r \in occ.preparing
      /\ ~occ.dispatched /\ occ.committing /\ occ.of \notin asked
      /\ Sound(occ, connected, playing, sounding, showing, asked) /\ occ \in Occurrences
  BY <1>a, <1>b, <1>c
<1>2. showing = {} /\ sounding = {}
  BY <1>1 DEF Sound, HeardIsWaitedFor, ShownIsWaitedFor
<1>3. ASSUME occ'.of = occ.of, Sound(occ', connected, playing, {}, {}, asked), ~occ'.dispatched
      PROVE  Inner' /\ Follows' /\ SkippedStaysSkipped'
  <2>1. Inner'
    BY <1>1, <1>2, <1>3 DEF Inner, NotDone, CanComplete, world, past
  <2> QED BY <1>1, <1>3, <2>1, GoesOn DEF past
<1>4. CASE InstructionReady(r)
  <2>1. PICK c \in SUBSET connected :
          occ' = [occ EXCEPT !.preparing = @ \ {r}, !.ready = @ \cup {r}, !.clients[r] = c]
    BY <1>4 DEF InstructionReady
  <2>2. r \in Instructions /\ r \notin Kinds
    BY <1>4, CoordinatorAssumption DEF InstructionReady
  <2>3. /\ occ'.of = occ.of /\ occ'.registered = occ.registered /\ occ'.cancelled = occ.cancelled
        /\ occ'.settled = occ.settled /\ occ'.stopping = occ.stopping /\ occ'.pending = occ.pending
        /\ occ'.early = occ.early /\ occ'.dispatched = occ.dispatched
        /\ occ'.preparing = occ.preparing \ {r} /\ occ'.ready = occ.ready \cup {r}
        /\ occ'.cleaning = occ.cleaning /\ occ'.committing = occ.committing
        /\ occ'.rejected = occ.rejected /\ occ'.stopper = occ.stopper
    BY <1>1, <2>1 DEF Occurrences
  <2>4. \A n \in Instructions : occ'.clients[n] = IF n = r THEN c ELSE occ.clients[n]
    BY <1>1, <2>1, <2>2 DEF Occurrences
  <2>5. Awaits(occ', connected)
    BY <1>1, <2>3, <2>4 DEF Sound, Awaits, Occurrences
  <2>6. Prepares(occ')
    BY <1>1, <2>2, <2>3 DEF Sound, Prepares
  <2>7. StopsInTurn(occ') /\ StaysAsked(occ', asked) /\ PlaysAfterCommit(occ', playing)
    BY <1>1, <2>3 DEF Sound, StopsInTurn, StaysAsked, PlaysAfterCommit
  <2> QED BY <1>1, <1>3, <2>3, <2>5, <2>6, <2>7 DEF Sound, HeardIsWaitedFor, ShownIsWaitedFor
<1>5. CASE PlaybackReady(r)
  <2>1. occ' = [occ EXCEPT !.preparing = @ \ {r}, !.ready = @ \cup {r}]
    BY <1>5 DEF PlaybackReady
  <2>3. /\ occ'.of = occ.of /\ occ'.registered = occ.registered /\ occ'.cancelled = occ.cancelled
        /\ occ'.settled = occ.settled /\ occ'.stopping = occ.stopping /\ occ'.pending = occ.pending
        /\ occ'.early = occ.early /\ occ'.dispatched = occ.dispatched /\ occ'.clients = occ.clients
        /\ occ'.preparing = occ.preparing \ {r} /\ occ'.ready = occ.ready \cup {r}
        /\ occ'.cleaning = occ.cleaning /\ occ'.committing = occ.committing
        /\ occ'.rejected = occ.rejected /\ occ'.stopper = occ.stopper
    BY <1>1, <2>1 DEF Occurrences
  <2>6. Prepares(occ')
    BY <1>1, <2>3 DEF Sound, Prepares
  <2>7. /\ Awaits(occ', connected) /\ StopsInTurn(occ')
        /\ StaysAsked(occ', asked) /\ PlaysAfterCommit(occ', playing)
    BY <1>1, <2>3 DEF Sound, Awaits, StopsInTurn, StaysAsked, PlaysAfterCommit
  <2> QED BY <1>1, <1>3, <2>3, <2>6, <2>7 DEF Sound, HeardIsWaitedFor, ShownIsWaitedFor
<1>6. CASE PreparationFails(r) /\ r \in Instructions
  <2>1. occ' = [occ EXCEPT !.preparing = @ \ {r}, !.pending = @ \ {r}] /\ r \notin Kinds
    BY <1>6, CoordinatorAssumption DEF PreparationFails, Kinds
  <2>3. /\ occ'.of = occ.of /\ occ'.registered = occ.registered /\ occ'.cancelled = occ.cancelled
        /\ occ'.settled = occ.settled /\ occ'.stopping = occ.stopping
        /\ occ'.pending = occ.pending \ {r} /\ occ'.clients = occ.clients
        /\ occ'.early = occ.early /\ occ'.dispatched = occ.dispatched
        /\ occ'.preparing = occ.preparing \ {r} /\ occ'.ready = occ.ready
        /\ occ'.cleaning = occ.cleaning /\ occ'.committing = occ.committing
        /\ occ'.rejected = occ.rejected /\ occ'.stopper = occ.stopper
    BY <1>1, <2>1 DEF Occurrences
  <2>6. Prepares(occ')
    BY <1>1, <2>1, <2>3 DEF Sound, Prepares
  <2>7. /\ Awaits(occ', connected) /\ StopsInTurn(occ')
        /\ StaysAsked(occ', asked) /\ PlaysAfterCommit(occ', playing)
    BY <1>1, <2>3 DEF Sound, Awaits, StopsInTurn, StaysAsked, PlaysAfterCommit
  <2> QED BY <1>1, <1>3, <2>3, <2>6, <2>7 DEF Sound, HeardIsWaitedFor, ShownIsWaitedFor
<1>7. CASE PreparationFails(r) /\ r = "desktop"
  <2>1. occ' = [occ EXCEPT !.preparing = @ \ {r}, !.settled = @ \cup {r}, !.cleaning = @ \cup {r}]
    BY <1>7, CoordinatorAssumption DEF PreparationFails, Kinds
  <2>3. /\ occ'.of = occ.of /\ occ'.registered = occ.registered /\ occ'.cancelled = occ.cancelled
        /\ occ'.settled = occ.settled \cup {r} /\ occ'.stopping = occ.stopping
        /\ occ'.pending = occ.pending /\ occ'.clients = occ.clients
        /\ occ'.early = occ.early /\ occ'.dispatched = occ.dispatched
        /\ occ'.preparing = occ.preparing \ {r} /\ occ'.ready = occ.ready
        /\ occ'.cleaning = occ.cleaning \cup {r} /\ occ'.committing = occ.committing
        /\ occ'.rejected = occ.rejected /\ occ'.stopper = occ.stopper
    BY <1>1, <2>1 DEF Occurrences
  <2>6. Prepares(occ')
    BY <1>1, <1>7, <2>3 DEF Sound, Prepares, Kinds
  <2>7. /\ Awaits(occ', connected) /\ StopsInTurn(occ')
        /\ StaysAsked(occ', asked) /\ PlaysAfterCommit(occ', playing)
    BY <1>1, <2>3 DEF Sound, Awaits, StopsInTurn, StaysAsked, PlaysAfterCommit
  <2> QED BY <1>1, <1>3, <2>3, <2>6, <2>7 DEF Sound, HeardIsWaitedFor, ShownIsWaitedFor
<1>8. CASE PreparationFails(r) /\ r = "device"
  <2>1. occ' = [occ EXCEPT !.preparing = @ \ {r}, !.cancelled = @ \cup {r},
                           !.cleaning = @ \cup {r}, !.stopping[r] = Asked(@)]
    BY <1>8, CoordinatorAssumption DEF PreparationFails, Kinds
  <2>3. /\ occ'.of = occ.of /\ occ'.registered = occ.registered
        /\ occ'.cancelled = occ.cancelled \cup {r} /\ occ'.settled = occ.settled
        /\ occ'.stopping = [occ.stopping EXCEPT ![r] = Asked(@)]
        /\ occ'.pending = occ.pending /\ occ'.clients = occ.clients
        /\ occ'.early = occ.early /\ occ'.dispatched = occ.dispatched
        /\ occ'.preparing = occ.preparing \ {r} /\ occ'.ready = occ.ready
        /\ occ'.cleaning = occ.cleaning \cup {r} /\ occ'.committing = occ.committing
        /\ occ'.rejected = occ.rejected /\ occ'.stopper = occ.stopper
    BY <1>1, <2>1 DEF Occurrences
  <2>4. r \in Kinds /\ r \notin occ.cancelled /\ r \in occ.registered
    BY <1>1, <1>8 DEF Sound, Prepares, Kinds
  <2>5. occ.stopping["device"] = "none"
    BY <1>1, <1>8, <2>4 DEF Sound, Prepares
  <2>8. occ'.stopping["device"] = "pending" /\ occ'.stopping["desktop"] = occ.stopping["desktop"]
    BY <1>1, <1>8, <2>3, <2>5 DEF Occurrences, Kinds, Asked
  <2>6. Prepares(occ')
    BY <1>1, <1>8, <2>3, <2>4, <2>8 DEF Sound, Prepares, Kinds
  <2>7. Awaits(occ', connected) /\ StaysAsked(occ', asked) /\ PlaysAfterCommit(occ', playing)
    BY <1>1, <2>3 DEF Sound, Awaits, StaysAsked, PlaysAfterCommit
  <2>9. StopsInTurn(occ')
    BY <1>1, <2>3, <2>8 DEF Sound, StopsInTurn, StaysAsked
  <2> QED BY <1>1, <1>3, <2>3, <2>6, <2>7, <2>9 DEF Sound, HeardIsWaitedFor, ShownIsWaitedFor
<1> QED BY <1>4, <1>5, <1>6, <1>7, <1>8 DEF PreparationEnds, Recipients, Kinds

\* What every step of an open coordinator may use.
LEMMA OpenFacts ==
  ASSUME PlaybackInv, ~closed
  PROVE  /\ QueueInv /\ Typed /\ OnlyBegun /\ occ.of = current /\ SkippedStaysSkipped
         /\ occ \in Occurrences /\ NotDone(occ, asked)
         /\ Sound(occ, connected, playing, sounding, showing, asked)
         /\ Prepares(occ) /\ Awaits(occ, connected) /\ StopsInTurn(occ) /\ StaysAsked(occ, asked)
         /\ HeardIsWaitedFor(occ, sounding) /\ ShownIsWaitedFor(occ, showing)
         /\ PlaysAfterCommit(occ, playing)
         /\ \A p \in playing : Begun(p[1])
         /\ current # None => Begun(current)
<1>1. current # None => Begun(current)
  BY QueueAssumption DEF PlaybackInv, QueueInv, QueueTypeOK, Enqueued, Begun, Items, None
<1> QED BY <1>1 DEF PlaybackInv, Follows, Inner, Typed, OnlyBegun, Sound

\* The stop of a desktop that could not be prepared is over.
LEMMA OpenCleanStep ==
  ASSUME PlaybackInv, ~closed, DesktopCleaned
  PROVE  Inner' /\ Follows' /\ SkippedStaysSkipped'
<1> USE OpenFacts
<1>1. /\ UNCHANGED <<queueVars, closed, connected, playing, sounding, showing, asked>>
      /\ occ' = [occ EXCEPT !.cleaning = @ \ {"desktop"}]
  BY DEF DesktopCleaned, world, past
<1>2. /\ occ'.of = occ.of /\ occ'.registered = occ.registered /\ occ'.cancelled = occ.cancelled
      /\ occ'.settled = occ.settled /\ occ'.stopping = occ.stopping /\ occ'.pending = occ.pending
      /\ occ'.clients = occ.clients /\ occ'.early = occ.early /\ occ'.dispatched = occ.dispatched
      /\ occ'.preparing = occ.preparing /\ occ'.ready = occ.ready
      /\ occ'.cleaning = occ.cleaning \ {"desktop"} /\ occ'.committing = occ.committing
      /\ occ'.rejected = occ.rejected /\ occ'.stopper = occ.stopper
  BY <1>1 DEF Occurrences
<1>3. Prepares(occ') /\ Awaits(occ', connected) /\ StopsInTurn(occ') /\ StaysAsked(occ', asked)
  BY <1>2 DEF Prepares, Awaits, StopsInTurn, StaysAsked
<1>4. HeardIsWaitedFor(occ', sounding) /\ ShownIsWaitedFor(occ', showing) /\ PlaysAfterCommit(occ', playing)
  BY <1>2 DEF HeardIsWaitedFor, ShownIsWaitedFor, PlaysAfterCommit
<1>5. NotDone(occ', asked)
  BY <1>2 DEF NotDone, CanComplete
<1>6. Inner'
  BY <1>1, <1>3, <1>4, <1>5 DEF Inner, Sound
<1> QED BY <1>1, <1>2, <1>6, GoesOn

\* What got ready starts; nothing of the occurrence was heard or shown before.
LEMMA OpenCommitStep ==
  ASSUME PlaybackInv, Typed', ~closed, Commit
  PROVE  Inner' /\ Follows' /\ SkippedStaysSkipped'
<1> USE OpenFacts
<1>1. /\ occ.committing /\ occ.preparing = {} /\ occ.cleaning = {} /\ ~occ.rejected
      /\ UNCHANGED <<closed, connected, asked>> /\ sounding = {} /\ showing = {}
      /\ occ.dispatched => occ.pending = {}
  BY DEF Commit, past, Prepares, HeardIsWaitedFor, ShownIsWaitedFor
<1>2. CASE Active
  <2> DEFINE starting == (occ.ready \cap Kinds) \ (occ.cancelled \cap {"device"})
             awaited(n) == occ.clients[n] \ occ.early[n]
  <2>1. PICK shown \in SUBSET (occ.ready \cap occ.pending) :
          LET left == {n \in shown : awaited(n) # {}} IN
          /\ playing' = playing \cup Of(occ.of, starting)
          /\ sounding' = sounding \cup Of(occ.of, starting \ occ.cancelled)
          /\ showing' = showing \cup
               {w \in {occ.of} \X left \X connected : w[3] \in awaited(w[2])}
          /\ Continue([occ EXCEPT
               !.committing = FALSE, !.dispatched = TRUE, !.watchdog = TRUE, !.ready = {},
               !.pending = left, !.clients = [n \in Instructions |-> awaited(n)],
               !.settled = @ \cup (occ.ready \cap occ.cancelled \cap {"device"})])
    BY <1>2 DEF Commit
  <2> DEFINE left == {n \in shown : awaited(n) # {}}
             o == [occ EXCEPT
               !.committing = FALSE, !.dispatched = TRUE, !.watchdog = TRUE, !.ready = {},
               !.pending = left, !.clients = [n \in Instructions |-> awaited(n)],
               !.settled = @ \cup (occ.ready \cap occ.cancelled \cap {"device"})]
  <2>2. /\ o.of = occ.of /\ o.registered = occ.registered /\ o.cancelled = occ.cancelled
        /\ o.settled = occ.settled \cup (occ.ready \cap occ.cancelled \cap {"device"})
        /\ o.stopping = occ.stopping /\ o.pending = left /\ o.early = occ.early
        /\ o.clients = [n \in Instructions |-> awaited(n)]
        /\ o.dispatched /\ o.preparing = {} /\ o.ready = {} /\ o.cleaning = {} /\ ~o.committing
        /\ ~o.rejected /\ o.stopper = "none"
    BY <1>1, <1>2 DEF Active, Occurrences
  <2>3. left \subseteq occ.pending /\ left \subseteq Instructions
    BY DEF Occurrences
  <2>4. o \in Occurrences
    <3>1. [n \in Instructions |-> awaited(n)] \in [Instructions -> SUBSET Clients]
      BY DEF Occurrences
    <3>2. occ.settled \cup (occ.ready \cap occ.cancelled \cap {"device"}) \in SUBSET Kinds
      BY DEF Occurrences
    <3> QED BY <2>3, <3>1, <3>2 DEF Occurrences
  <2>5. /\ sounding' = Of(occ.of, starting \ occ.cancelled)
        /\ showing' = {w \in {occ.of} \X left \X connected : w[3] \in awaited(w[2])}
        /\ playing' = playing \cup Of(occ.of, starting) /\ Continue(o)
    BY <1>1, <2>1
  <2> HIDE DEF o
  <2>6. Prepares(o) /\ StopsInTurn(o)
    BY <2>2 DEF Prepares, StopsInTurn
  <2>7. Awaits(o, connected)
    BY <1>1, <2>2, <2>3 DEF Awaits
  <2>8. StaysAsked(o, asked)
    BY <1>1, <1>2, <2>2, <2>3 DEF StaysAsked, Active
  <2>9. HeardIsWaitedFor(o, sounding')
    <3> SUFFICES ASSUME NEW s \in sounding' PROVE HeardIsWaitedFor(o, {s})
      BY DEF HeardIsWaitedFor
    <3>1. s[1] = occ.of /\ s[2] \in (occ.ready \cap Kinds) \ occ.cancelled
      BY <2>5 DEF Of
    <3>2. s[2] \in occ.registered /\ s[2] \notin occ.settled /\ occ.stopping[s[2]] = "none"
      BY <1>1, <3>1 DEF Prepares
    <3> QED BY <2>2, <3>1, <3>2 DEF HeardIsWaitedFor
  <2>10. ShownIsWaitedFor(o, showing')
    BY <2>2, <2>3, <2>5 DEF ShownIsWaitedFor
  <2>11. PlaysAfterCommit(o, playing')
    BY <2>2 DEF PlaysAfterCommit
  <2>12. \A p \in playing' : Begun(p[1])
    <3> SUFFICES ASSUME NEW p \in playing', p \notin playing PROVE Begun(p[1])
      OBVIOUS
    <3>1. p[1] = current /\ p[1] \in Items
      BY <2>5 DEF Of, Typed, WorldTyped
    <3> QED BY <3>1 DEF Items, None
  <2>13. ~closed' /\ WorldTyped' /\ UNCHANGED asked
    BY <1>1 DEF Typed
  <2>14. Sound(o, connected', playing', sounding', showing', asked)
    BY <1>1, <2>6, <2>7, <2>8, <2>9, <2>10, <2>11 DEF Sound
  <2> QED BY <2>2, <2>4, <2>5, <2>12, <2>13, <2>14, Continues
<1>3. CASE ~Active
  <2>1. UNCHANGED <<queueVars, playing, sounding, showing>>
        /\ occ' = [occ EXCEPT !.committing = FALSE, !.ready = {}]
    BY <1>3 DEF Commit
  <2>2. /\ occ'.of = occ.of /\ occ'.registered = occ.registered /\ occ'.cancelled = occ.cancelled
        /\ occ'.settled = occ.settled /\ occ'.stopping = occ.stopping /\ occ'.pending = occ.pending
        /\ occ'.clients = occ.clients /\ occ'.early = occ.early /\ occ'.dispatched = occ.dispatched
        /\ occ'.preparing = occ.preparing /\ occ'.ready = {}
        /\ occ'.cleaning = occ.cleaning /\ ~occ'.committing
        /\ occ'.rejected = occ.rejected /\ occ'.stopper = occ.stopper
    BY <2>1 DEF Occurrences
  <2>3. Prepares(occ') /\ Awaits(occ', connected) /\ StopsInTurn(occ') /\ StaysAsked(occ', asked)
    BY <1>1, <2>2 DEF Prepares, Awaits, StopsInTurn, StaysAsked
  <2>4. HeardIsWaitedFor(occ', {}) /\ ShownIsWaitedFor(occ', {}) /\ PlaysAfterCommit(occ', playing)
    BY <2>2 DEF HeardIsWaitedFor, ShownIsWaitedFor, PlaysAfterCommit
  <2>5. NotDone(occ', asked)
    BY <2>2 DEF NotDone, CanComplete
  <2>6. Inner'
    BY <1>1, <2>1, <2>3, <2>4, <2>5 DEF Inner, Sound
  <2> QED BY <1>1, <2>1, <2>2, <2>6, GoesOn
<1> QED BY <1>2, <1>3

\* A client that reports is waited for no more.
LEMMA OpenReportStep ==
  ASSUME PlaybackInv, Typed', ~closed, NEW c \in Clients, NEW n \in Instructions, ReportFinished(c, n)
  PROVE  Inner' /\ Follows' /\ SkippedStaysSkipped'
<1> USE OpenFacts
<1>1. /\ n \in occ.pending /\ showing' = showing \ {<<occ.of, n, c>>}
      /\ UNCHANGED <<closed, connected, playing, sounding, asked>>
  BY DEF ReportFinished, past
<1>2. occ.of \notin asked /\ (occ.dispatched => ~occ.committing)
  BY <1>1 DEF StaysAsked, Prepares
<1>3. CASE ~occ.dispatched
  <2>1. UNCHANGED queueVars /\ occ' = [occ EXCEPT !.early[n] = @ \cup {c}]
    BY <1>3 DEF ReportFinished
  <2>2. /\ occ'.of = occ.of /\ occ'.registered = occ.registered /\ occ'.cancelled = occ.cancelled
        /\ occ'.settled = occ.settled /\ occ'.stopping = occ.stopping /\ occ'.pending = occ.pending
        /\ occ'.clients = occ.clients /\ occ'.dispatched = occ.dispatched
        /\ occ'.preparing = occ.preparing /\ occ'.ready = occ.ready
        /\ occ'.cleaning = occ.cleaning /\ occ'.committing = occ.committing
        /\ occ'.rejected = occ.rejected /\ occ'.stopper = occ.stopper
        /\ \A m \in Instructions : occ.early[m] \subseteq occ'.early[m]
    BY <2>1 DEF Occurrences
  <2>3. Prepares(occ') /\ StopsInTurn(occ') /\ StaysAsked(occ', asked)
    BY <2>2 DEF Prepares, StopsInTurn, StaysAsked
  <2>4. Awaits(occ', connected)
    BY <1>3, <2>2 DEF Awaits, Occurrences
  <2>5. /\ HeardIsWaitedFor(occ', sounding) /\ ShownIsWaitedFor(occ', showing')
        /\ PlaysAfterCommit(occ', playing)
    BY <1>1, <2>2 DEF HeardIsWaitedFor, ShownIsWaitedFor, PlaysAfterCommit
  <2>6. NotDone(occ', asked)
    BY <2>2 DEF NotDone, CanComplete
  <2>7. Inner'
    BY <1>1, <2>3, <2>4, <2>5, <2>6 DEF Inner, Sound
  <2> QED BY <1>1, <2>1, <2>2, <2>7, GoesOn
<1>4. CASE occ.dispatched
  <2> DEFINE o == [occ EXCEPT !.clients[n] = @ \ {c},
                              !.pending = IF occ.clients[n] = {c} THEN @ \ {n} ELSE @]
  <2>1. Continue(o)
    BY <1>4 DEF ReportFinished
  <2>2. /\ o.of = occ.of /\ o.registered = occ.registered /\ o.cancelled = occ.cancelled
        /\ o.settled = occ.settled /\ o.stopping = occ.stopping
        /\ o.pending = (IF occ.clients[n] = {c} THEN occ.pending \ {n} ELSE occ.pending)
        /\ o.clients = [occ.clients EXCEPT ![n] = @ \ {c}] /\ o.dispatched = occ.dispatched
        /\ o.preparing = occ.preparing /\ o.ready = occ.ready
        /\ o.cleaning = occ.cleaning /\ o.committing = occ.committing
        /\ o.rejected = occ.rejected /\ o.stopper = occ.stopper
    BY DEF Occurrences
  <2>3. o \in Occurrences
    <3>1. [occ.clients EXCEPT ![n] = @ \ {c}] \in [Instructions -> SUBSET Clients]
      BY DEF Occurrences
    <3>2. (IF occ.clients[n] = {c} THEN occ.pending \ {n} ELSE occ.pending) \in SUBSET Instructions
      BY DEF Occurrences
    <3> QED BY <3>1, <3>2 DEF Occurrences
  <2>4. \A m \in Instructions : o.clients[m] = IF m = n THEN occ.clients[n] \ {c} ELSE occ.clients[m]
    BY <2>2 DEF Occurrences
  <2> HIDE DEF o
  <2>5. Prepares(o) /\ StopsInTurn(o) /\ StaysAsked(o, asked)
    BY <1>2, <1>4, <2>2 DEF Prepares, StopsInTurn, StaysAsked
  <2>6. Awaits(o, connected)
    <3> SUFFICES ASSUME NEW m \in o.pending
                 PROVE  o.clients[m] # {} /\ o.clients[m] \subseteq connected
      BY <1>4, <2>2 DEF Awaits
    <3>1. m \in occ.pending /\ m \in Instructions /\ (m = n => occ.clients[n] # {c})
      BY <2>2 DEF Occurrences
    <3>2. occ.clients[m] # {} /\ occ.clients[m] \subseteq connected
      BY <1>4, <3>1 DEF Awaits
    <3> QED BY <2>4, <3>1, <3>2
  <2>7. ShownIsWaitedFor(o, showing')
    <3> SUFFICES ASSUME NEW s \in showing'
                 PROVE  s[1] = o.of /\ s[2] \in o.pending /\ o.dispatched /\ s[3] \in o.clients[s[2]]
      BY DEF ShownIsWaitedFor
    <3>1. /\ s[1] = occ.of /\ s[2] \in occ.pending /\ s[3] \in occ.clients[s[2]]
          /\ s[2] \in Instructions /\ s # <<occ.of, n, c>> /\ s = <<s[1], s[2], s[3]>>
      BY <1>1 DEF ShownIsWaitedFor, Typed, WorldTyped
    <3>2. s[2] = n => s[3] # c
      BY <3>1
    <3> QED BY <1>4, <2>2, <2>4, <3>1, <3>2
  <2>8. HeardIsWaitedFor(o, sounding) /\ PlaysAfterCommit(o, playing)
    BY <2>2 DEF HeardIsWaitedFor, PlaysAfterCommit
  <2>9. o.stopper = "none"
    BY <1>2, <2>2 DEF StaysAsked
  <2>10. Sound(o, connected', playing', sounding', showing', asked)
    BY <1>1, <2>5, <2>6, <2>7, <2>8 DEF Sound
  <2>11. ~closed' /\ WorldTyped' /\ UNCHANGED asked /\ (\A p \in playing' : Begun(p[1])) /\ o.of = occ.of
    BY <1>1, <2>2 DEF Typed
  <2> QED BY <2>1, <2>3, <2>9, <2>10, <2>11, Continues
<1> QED BY <1>3, <1>4

\* A client that leaves is waited for no more, whenever it leaves.
LEMMA OpenDisconnectStep ==
  ASSUME PlaybackInv, Typed', ~closed, NEW c \in Clients, Disconnect(c)
  PROVE  Inner' /\ Follows' /\ SkippedStaysSkipped'
<1> USE OpenFacts
<1> DEFINE freed == {n \in occ.pending : c \in occ.clients[n]}
<1>1. /\ connected' = connected \ {c} /\ showing' = {s \in showing : s[3] # c}
      /\ UNCHANGED <<closed, playing, sounding, asked>>
  BY DEF Disconnect, past
<1>2. CASE UNCHANGED <<occ, queueVars>> /\ (occ.dispatched => freed = {})
               /\ (occ.pending = {} \/ occ.dispatched)
  <2>1. Awaits(occ, connected')
    BY <1>1, <1>2 DEF Awaits, Occurrences
  <2>2. ShownIsWaitedFor(occ, showing')
    BY <1>1 DEF ShownIsWaitedFor
  <2>3. Inner'
    BY <1>1, <1>2, <2>1, <2>2 DEF Inner, Sound
  <2> QED BY <1>1, <1>2, <2>3, GoesOn
<1>3. CASE occ' = [occ EXCEPT !.early = LeftEarly(c)] /\ UNCHANGED queueVars /\ ~occ.dispatched
  <2>1. LeftEarly(c) \in [Instructions -> SUBSET Clients]
    BY DEF LeftEarly, Occurrences
  <2>2. /\ occ'.of = occ.of /\ occ'.registered = occ.registered /\ occ'.cancelled = occ.cancelled
        /\ occ'.settled = occ.settled /\ occ'.stopping = occ.stopping /\ occ'.pending = occ.pending
        /\ occ'.clients = occ.clients /\ occ'.dispatched = occ.dispatched
        /\ occ'.preparing = occ.preparing /\ occ'.ready = occ.ready
        /\ occ'.cleaning = occ.cleaning /\ occ'.committing = occ.committing
        /\ occ'.rejected = occ.rejected /\ occ'.stopper = occ.stopper
        /\ occ'.early = LeftEarly(c)
    BY <1>3 DEF Occurrences
  <2>3. Prepares(occ') /\ StopsInTurn(occ') /\ StaysAsked(occ', asked)
    BY <2>2 DEF Prepares, StopsInTurn, StaysAsked
  <2>4. Awaits(occ', connected')
    <3> SUFFICES ASSUME NEW n \in occ.pending
                 PROVE  occ.clients[n] \ LeftEarly(c)[n] \subseteq connected \ {c}
      BY <1>1, <1>3, <2>2 DEF Awaits
    <3>1. n \in Instructions /\ occ.clients[n] \ occ.early[n] \subseteq connected
      BY <1>3 DEF Occurrences, Awaits
    <3>2. LeftEarly(c)[n] = occ.early[n] \cup {c}
      BY <3>1 DEF LeftEarly
    <3> QED BY <3>1, <3>2
  <2>5. /\ HeardIsWaitedFor(occ', sounding) /\ ShownIsWaitedFor(occ', showing')
        /\ PlaysAfterCommit(occ', playing)
    BY <1>1, <2>2 DEF HeardIsWaitedFor, ShownIsWaitedFor, PlaysAfterCommit
  <2>6. NotDone(occ', asked)
    BY <2>2 DEF NotDone, CanComplete
  <2>7. Inner'
    BY <1>1, <2>3, <2>4, <2>5, <2>6 DEF Inner, Sound
  <2> QED BY <1>1, <1>3, <2>2, <2>7, GoesOn
<1> DEFINE o == [occ EXCEPT !.clients = [n \in Instructions |-> @[n] \ {c}],
                            !.pending = @ \ {n \in freed : occ.clients[n] = {c}}]
<1>4. CASE Continue(o) /\ occ.dispatched /\ freed # {}
  <2>1. /\ o.of = occ.of /\ o.registered = occ.registered /\ o.cancelled = occ.cancelled
        /\ o.settled = occ.settled /\ o.stopping = occ.stopping
        /\ o.pending = occ.pending \ {n \in freed : occ.clients[n] = {c}}
        /\ o.clients = [n \in Instructions |-> occ.clients[n] \ {c}]
        /\ o.dispatched = occ.dispatched
        /\ o.preparing = occ.preparing /\ o.ready = occ.ready
        /\ o.cleaning = occ.cleaning /\ o.committing = occ.committing
        /\ o.rejected = occ.rejected /\ o.stopper = occ.stopper
    BY DEF Occurrences
  <2>2. o \in Occurrences
    <3>1. [n \in Instructions |-> occ.clients[n] \ {c}] \in [Instructions -> SUBSET Clients]
      BY DEF Occurrences
    <3>2. occ.pending \ {n \in freed : occ.clients[n] = {c}} \in SUBSET Instructions
      BY DEF Occurrences
    <3> QED BY <3>1, <3>2 DEF Occurrences
  <2>3. Continue(o)
    BY <1>4
  <2>4. occ.of \notin asked /\ ~occ.committing
    BY <1>4 DEF StaysAsked, Prepares
  <2> HIDE DEF o
  <2>5. Prepares(o) /\ StopsInTurn(o) /\ StaysAsked(o, asked)
    BY <1>4, <2>1, <2>4 DEF Prepares, StopsInTurn, StaysAsked
  <2>6. Awaits(o, connected')
    <3> SUFFICES ASSUME NEW m \in o.pending
                 PROVE  o.clients[m] # {} /\ o.clients[m] \subseteq connected \ {c}
      BY <1>1, <1>4, <2>1 DEF Awaits
    <3>1. m \in occ.pending /\ m \in Instructions /\ occ.clients[m] # {c}
      BY <2>1 DEF Occurrences
    <3>2. occ.clients[m] # {} /\ occ.clients[m] \subseteq connected
      BY <1>4, <3>1 DEF Awaits
    <3> QED BY <2>1, <3>1, <3>2
  <2>7. ShownIsWaitedFor(o, showing')
    <3> SUFFICES ASSUME NEW s \in showing'
                 PROVE  s[1] = o.of /\ s[2] \in o.pending /\ o.dispatched /\ s[3] \in o.clients[s[2]]
      BY DEF ShownIsWaitedFor
    <3>1. /\ s[1] = occ.of /\ s[2] \in occ.pending /\ s[3] \in occ.clients[s[2]]
          /\ s[2] \in Instructions /\ s[3] # c
      BY <1>1 DEF ShownIsWaitedFor, Occurrences
    <3>2. occ.clients[s[2]] # {c}
      BY <3>1
    <3> QED BY <1>4, <2>1, <3>1, <3>2
  <2>8. HeardIsWaitedFor(o, sounding) /\ PlaysAfterCommit(o, playing)
    BY <2>1 DEF HeardIsWaitedFor, PlaysAfterCommit
  <2>9. o.stopper = "none"
    BY <2>4, <2>1 DEF StaysAsked
  <2>10. Sound(o, connected', playing', sounding', showing', asked)
    BY <1>1, <2>5, <2>6, <2>7, <2>8 DEF Sound
  <2>11. ~closed' /\ WorldTyped' /\ UNCHANGED asked /\ (\A p \in playing' : Begun(p[1])) /\ o.of = occ.of
    BY <1>1, <2>1 DEF Typed
  <2> QED BY <2>2, <2>3, <2>9, <2>10, <2>11, Continues
<1> QED BY <1>2, <1>3, <1>4 DEF Disconnect

\* A play that ends settles its output, if it is one of the occurrence.
LEMMA OpenPlayEndsStep ==
  ASSUME PlaybackInv, Typed', ~closed, NEW i \in Items, NEW k \in Kinds, PlayEnds(i, k)
  PROVE  Inner' /\ Follows' /\ SkippedStaysSkipped'
<1> USE OpenFacts
<1> DEFINE o == [occ EXCEPT !.settled = @ \cup {k}]
<1>1. /\ <<i, k>> \in playing /\ playing' = playing \ {<<i, k>>}
      /\ sounding' = sounding \ {<<i, k>>}
      /\ UNCHANGED <<closed, connected, showing, asked>>
  BY DEF PlayEnds, past
<1>2. /\ o.of = occ.of /\ o.registered = occ.registered /\ o.cancelled = occ.cancelled
      /\ o.settled = occ.settled \cup {k} /\ o.stopping = occ.stopping /\ o.pending = occ.pending
      /\ o.clients = occ.clients /\ o.early = occ.early /\ o.dispatched = occ.dispatched
      /\ o.preparing = occ.preparing /\ o.ready = occ.ready
      /\ o.cleaning = occ.cleaning /\ o.committing = occ.committing
      /\ o.rejected = occ.rejected /\ o.stopper = occ.stopper /\ o \in Occurrences
  BY DEF Occurrences
<1>3. CASE SamePlayback(i, k) /\ (Continue(o) \/ (k \in occ.cancelled /\ occ' = o /\ UNCHANGED queueVars))
  <2> HIDE DEF o
  <2>1. i = occ.of /\ k \in occ.registered /\ ~occ.committing
    BY <1>1, <1>3 DEF SamePlayback, PlaysAfterCommit
  <2>2. Prepares(o) /\ Awaits(o, connected) /\ StopsInTurn(o) /\ StaysAsked(o, asked)
    BY <1>2, <2>1 DEF Prepares, Awaits, StopsInTurn, StaysAsked
  <2>3. HeardIsWaitedFor(o, sounding')
    <3> SUFFICES ASSUME NEW s \in sounding'
                 PROVE  /\ s[1] = o.of /\ s[2] \in o.registered /\ ~o.committing
                        /\ s[2] \in o.settled => s[2] \in o.cancelled
                        /\ o.stopping[s[2]] # "done"
      BY DEF HeardIsWaitedFor
    <3>1. /\ s[1] = occ.of /\ s[2] \in occ.registered /\ ~occ.committing
          /\ s[2] \in occ.settled => s[2] \in occ.cancelled
          /\ occ.stopping[s[2]] # "done" /\ s = <<s[1], s[2]>> /\ s # <<i, k>>
      BY <1>1 DEF HeardIsWaitedFor, Typed, WorldTyped
    <3>2. s[2] # k
      BY <2>1, <3>1
    <3> QED BY <1>2, <3>1, <3>2
  <2>4. ShownIsWaitedFor(o, showing) /\ PlaysAfterCommit(o, playing')
    BY <1>1, <1>2 DEF ShownIsWaitedFor, PlaysAfterCommit
  <2>5. Sound(o, connected', playing', sounding', showing', asked)
    BY <1>1, <2>2, <2>3, <2>4 DEF Sound
  <2>6. ~closed' /\ WorldTyped' /\ UNCHANGED asked /\ (\A p \in playing' : Begun(p[1]))
    BY <1>1 DEF Typed
  <2>7. CASE Continue(o)
    BY <1>2, <2>1, <2>5, <2>6, <2>7, Continues
  <2>8. CASE k \in occ.cancelled /\ occ' = o /\ UNCHANGED queueVars
    <3>1. NotDone(o, asked)
      BY <1>2, <2>1, <2>8 DEF NotDone
    <3>2. Inner'
      BY <2>5, <2>6, <2>8, <3>1 DEF Inner
    <3> QED BY <1>2, <2>6, <2>8, <3>2, GoesOn
  <2> QED BY <1>3, <2>7, <2>8
<1>4. CASE UNCHANGED <<occ, queueVars>>
  <2>1. HeardIsWaitedFor(occ, sounding') /\ PlaysAfterCommit(occ, playing')
    BY <1>1 DEF HeardIsWaitedFor, PlaysAfterCommit
  <2>2. Inner'
    BY <1>1, <1>4, <2>1 DEF Inner, Sound
  <2> QED BY <1>1, <1>4, <2>2, GoesOn
<1> QED BY <1>3, <1>4 DEF PlayEnds

\* A device play that rejects is waited for until it is stopped.
LEMMA OpenRejectsStep ==
  ASSUME PlaybackInv, ~closed, NEW i \in Items, DeviceRejects(i)
  PROVE  Inner' /\ Follows' /\ SkippedStaysSkipped'
<1> USE OpenFacts
<1>1. /\ <<i, "device">> \in playing /\ playing' \subseteq playing
      /\ UNCHANGED <<queueVars, closed, connected, sounding, showing, asked>>
  BY DEF DeviceRejects, past
<1>2. ASSUME occ'.of = occ.of, NotDone(occ', asked), Prepares(occ'), Awaits(occ', connected),
             StopsInTurn(occ'), StaysAsked(occ', asked), HeardIsWaitedFor(occ', sounding),
             ShownIsWaitedFor(occ', showing), PlaysAfterCommit(occ', playing)
      PROVE  Inner' /\ Follows' /\ SkippedStaysSkipped'
  <2>1. PlaysAfterCommit(occ', playing')
    BY <1>1, <1>2 DEF PlaysAfterCommit
  <2>2. Inner'
    BY <1>1, <1>2, <2>1 DEF Inner, Sound
  <2> QED BY <1>1, <1>2, <2>2, GoesOn
<1>3. CASE /\ SamePlayback(i, "device") /\ "device" \notin occ.cancelled
           /\ occ' = [occ EXCEPT !.rejected = TRUE, !.stopping["device"] = Asked(@)]
  <2>1. i = occ.of /\ "device" \in occ.registered /\ ~occ.committing
    BY <1>1, <1>3 DEF SamePlayback, PlaysAfterCommit
  <2>2. /\ occ'.of = occ.of /\ occ'.registered = occ.registered /\ occ'.cancelled = occ.cancelled
        /\ occ'.settled = occ.settled /\ occ'.pending = occ.pending
        /\ occ'.stopping = [occ.stopping EXCEPT !["device"] = Asked(@)]
        /\ occ'.clients = occ.clients /\ occ'.early = occ.early /\ occ'.dispatched = occ.dispatched
        /\ occ'.preparing = occ.preparing /\ occ'.ready = occ.ready
        /\ occ'.cleaning = occ.cleaning /\ occ'.committing = occ.committing
        /\ occ'.stopper = occ.stopper
    BY <1>3 DEF Occurrences
  <2>3. /\ occ'.stopping["device"] = Asked(occ.stopping["device"])
        /\ occ'.stopping["desktop"] = occ.stopping["desktop"]
    BY <2>2 DEF Occurrences, Kinds
  <2>4. Prepares(occ')
    BY <2>1, <2>2, <2>3 DEF Prepares, Asked
  <2>5. StopsInTurn(occ')
    BY <2>1, <2>2, <2>3 DEF StopsInTurn, Asked, Occurrences, Kinds
  <2>6. Awaits(occ', connected) /\ StaysAsked(occ', asked) /\ ShownIsWaitedFor(occ', showing)
        /\ PlaysAfterCommit(occ', playing)
    BY <2>2 DEF Awaits, StaysAsked, ShownIsWaitedFor, PlaysAfterCommit
  <2>7. HeardIsWaitedFor(occ', sounding)
    BY <2>2, <2>3 DEF HeardIsWaitedFor, Asked, Occurrences, Kinds
  <2>8. NotDone(occ', asked)
    BY <2>2 DEF NotDone, CanComplete
  <2> QED BY <1>2, <2>2, <2>4, <2>5, <2>6, <2>7, <2>8
<1>4. CASE /\ SamePlayback(i, "device") /\ "device" \in occ.cancelled
           /\ occ' = [occ EXCEPT !.settled = @ \cup {"device"}]
  <2>1. i = occ.of /\ "device" \in occ.registered /\ ~occ.committing
    BY <1>1, <1>4 DEF SamePlayback, PlaysAfterCommit
  <2>2. /\ occ'.of = occ.of /\ occ'.registered = occ.registered /\ occ'.cancelled = occ.cancelled
        /\ occ'.settled = occ.settled \cup {"device"} /\ occ'.stopping = occ.stopping
        /\ occ'.pending = occ.pending
        /\ occ'.clients = occ.clients /\ occ'.early = occ.early /\ occ'.dispatched = occ.dispatched
        /\ occ'.preparing = occ.preparing /\ occ'.ready = occ.ready
        /\ occ'.cleaning = occ.cleaning /\ occ'.committing = occ.committing
        /\ occ'.rejected = occ.rejected /\ occ'.stopper = occ.stopper
    BY <1>4 DEF Occurrences
  <2>3. Prepares(occ') /\ Awaits(occ', connected) /\ StopsInTurn(occ') /\ StaysAsked(occ', asked)
    BY <2>1, <2>2 DEF Prepares, Awaits, StopsInTurn, StaysAsked
  <2>4. HeardIsWaitedFor(occ', sounding) /\ ShownIsWaitedFor(occ', showing)
        /\ PlaysAfterCommit(occ', playing)
    BY <1>4, <2>2 DEF HeardIsWaitedFor, ShownIsWaitedFor, PlaysAfterCommit
  <2>5. NotDone(occ', asked)
    BY <1>4, <2>1, <2>2 DEF NotDone
  <2> QED BY <1>2, <2>2, <2>3, <2>4, <2>5
<1>5. CASE UNCHANGED occ
  BY <1>2, <1>5
<1> QED BY <1>3, <1>4, <1>5 DEF DeviceRejects

\* A stop that is acknowledged: the output is silent.
LEMMA OpenStopDoneStep ==
  ASSUME PlaybackInv, Typed', ~closed, NEW k \in Kinds, StopDone(k)
  PROVE  Inner' /\ Follows' /\ SkippedStaysSkipped'
<1> USE OpenFacts
<1> DEFINE cleaned == k = "device" /\ k \in occ.cleaning
           rejects == k = "device" /\ occ.rejected
           o1 == [occ EXCEPT !.stopping[k] = "done",
                    !.cleaning = IF k = "device" THEN @ \ {k} ELSE @,
                    !.registered = IF k = "device" /\ k \in occ.cleaning THEN @ \ {k} ELSE @]
           o2 == [o1 EXCEPT !.rejected = FALSE, !.settled = @ \cup {k}]
<1>1. /\ occ.stopping[k] = "pending" /\ sounding' = sounding \ {<<occ.of, k>>}
      /\ UNCHANGED <<closed, connected, playing, showing, asked>>
  BY DEF StopDone, past
<1>2. ~(k \notin occ.cancelled /\ occ.committing)
  BY <1>1 DEF Prepares
<1>3. /\ k \notin occ.ready \cup occ.preparing \/ ~cleaned
      /\ cleaned => occ.of \in asked \/ ~occ.dispatched
      /\ cleaned /\ occ.stopper = "none" => occ.of \notin asked
  BY DEF Prepares, StaysAsked
<1>4. ASSUME NEW o, o = IF rejects THEN o2 ELSE o1
      PROVE  o.of = occ.of /\ o \in Occurrences
             /\ o.registered = (IF cleaned THEN occ.registered \ {k} ELSE occ.registered)
             /\ o.cancelled = occ.cancelled /\ o.dispatched = occ.dispatched
             /\ o.pending = occ.pending /\ o.settled \subseteq occ.settled \cup {k} /\ o.stopper = occ.stopper
             /\ (o.settled = occ.settled \/ rejects)
             /\ Sound(o, connected', playing', sounding', showing', asked)
  <2>1. /\ o.of = occ.of
        /\ o.registered = (IF cleaned THEN occ.registered \ {k} ELSE occ.registered)
        /\ o.cancelled = occ.cancelled
        /\ o.settled = (IF rejects THEN occ.settled \cup {k} ELSE occ.settled)
        /\ o.stopping = [occ.stopping EXCEPT ![k] = "done"]
        /\ o.pending = occ.pending
        /\ o.clients = occ.clients /\ o.early = occ.early /\ o.dispatched = occ.dispatched
        /\ o.preparing = occ.preparing /\ o.ready = occ.ready
        /\ o.cleaning = (IF k = "device" THEN occ.cleaning \ {k} ELSE occ.cleaning)
        /\ o.committing = occ.committing
        /\ o.rejected = (IF rejects THEN FALSE ELSE occ.rejected) /\ o.stopper = occ.stopper
    BY <1>4 DEF Occurrences
  <2>2. \A j \in Kinds : o.stopping[j] = IF j = k THEN "done" ELSE occ.stopping[j]
    BY <2>1 DEF Occurrences
  <2>3. o \in Occurrences
    <3>1. [occ.stopping EXCEPT ![k] = "done"] \in [Kinds -> Stops]
      BY DEF Occurrences, Stops
    <3>2. (IF k = "device" THEN occ.cleaning \ {k} ELSE occ.cleaning) \in SUBSET Kinds
          /\ (IF cleaned THEN occ.registered \ {k} ELSE occ.registered) \in SUBSET Kinds
      BY DEF Occurrences
    <3>4. o1 \in Occurrences
      BY <3>1, <3>2 DEF Occurrences
    <3>3. o2 \in Occurrences
      <4>1. ASSUME NEW x \in Occurrences
            PROVE  [x EXCEPT !.rejected = FALSE, !.settled = @ \cup {k}] \in Occurrences
        BY DEF Occurrences
      <4> HIDE DEF o1
      <4> QED BY <3>4, <4>1
    <3> HIDE DEF o1, o2
    <3> QED BY <1>4, <3>3, <3>4
  <2> HIDE DEF o1, o2
  <2>4. Prepares(o)
    BY <1>1, <1>2, <1>3, <2>1, <2>2 DEF Prepares, Kinds
  <2>5. StopsInTurn(o)
    BY <2>1, <2>2 DEF StopsInTurn, Kinds
  <2>6. StaysAsked(o, asked) /\ Awaits(o, connected)
    BY <2>1, <1>3 DEF StaysAsked, Awaits
  <2>7. HeardIsWaitedFor(o, sounding')
    <3> SUFFICES ASSUME NEW s \in sounding'
                 PROVE  /\ s[1] = o.of /\ s[2] \in o.registered /\ ~o.committing
                        /\ s[2] \in o.settled => s[2] \in o.cancelled
                        /\ o.stopping[s[2]] # "done"
      BY DEF HeardIsWaitedFor
    <3>1. /\ s[1] = occ.of /\ s[2] \in occ.registered /\ ~occ.committing
          /\ s[2] \in occ.settled => s[2] \in occ.cancelled
          /\ occ.stopping[s[2]] # "done" /\ s = <<s[1], s[2]>> /\ s # <<occ.of, k>> /\ s[2] \in Kinds
      BY <1>1 DEF HeardIsWaitedFor, Typed, WorldTyped
    <3>2. s[2] # k
      BY <3>1
    <3> QED BY <2>1, <2>2, <3>1, <3>2
  <2>8. ShownIsWaitedFor(o, showing) /\ PlaysAfterCommit(o, playing)
    BY <2>1 DEF ShownIsWaitedFor, PlaysAfterCommit
  <2>9. Sound(o, connected', playing', sounding', showing', asked)
    BY <1>1, <2>4, <2>5, <2>6, <2>7, <2>8 DEF Sound
  <2> QED BY <2>1, <2>3, <2>9
<1>5. CASE rejects /\ k \notin occ.cancelled
  <2>1. Continue(o2)
    BY <1>5 DEF StopDone
  <2>2. /\ o2.of = occ.of /\ o2 \in Occurrences /\ o2.stopper = occ.stopper
        /\ Sound(o2, connected', playing', sounding', showing', asked)
    BY <1>4, <1>5
  <2>3. occ.stopper = "none"
    BY <1>5 DEF Prepares, StaysAsked
  <2>4. ~closed' /\ WorldTyped' /\ UNCHANGED asked /\ (\A p \in playing' : Begun(p[1]))
    BY <1>1 DEF Typed
  <2> HIDE DEF o2
  <2> QED BY <2>1, <2>2, <2>3, <2>4, Continues
<1>6. CASE ~(rejects /\ k \notin occ.cancelled)
  <2>1. /\ UNCHANGED queueVars
        /\ rejects => k \in occ.cancelled
        /\ occ' = IF rejects THEN o2 ELSE o1
    BY <1>6 DEF StopDone
  <2>2. /\ occ'.of = occ.of /\ Sound(occ', connected', playing', sounding', showing', asked)
        /\ occ'.registered = (IF cleaned THEN occ.registered \ {k} ELSE occ.registered)
        /\ occ'.cancelled = occ.cancelled /\ occ'.dispatched = occ.dispatched
        /\ occ'.pending = occ.pending /\ (occ'.settled = occ.settled \/ rejects)
    BY <1>4, <2>1
  <2>3. NotDone(occ', asked)
    BY <1>3, <2>1, <2>2 DEF NotDone, CanComplete, Prepares
  <2>4. Inner'
    BY <1>1, <2>2, <2>3 DEF Inner
  <2> QED BY <1>1, <2>1, <2>2, <2>4, GoesOn
<1> QED BY <1>5, <1>6

\* A stop of the device that fails: after a rejected play the device is held as
\* cancelled and settled.
LEMMA OpenStopFailsStep ==
  ASSUME PlaybackInv, ~closed, StopFails
  PROVE  Inner' /\ Follows' /\ SkippedStaysSkipped'
<1> USE OpenFacts
<1> DEFINE held(outputs) == IF occ.rejected THEN outputs \cup {"device"} ELSE outputs
           left == IF occ.rejected /\ occ.stopper # "device" THEN "none" ELSE "failed"
<1>1. /\ occ.stopping["device"] = "pending"
      /\ UNCHANGED <<queueVars, closed, connected, playing, sounding, showing, asked>>
  BY DEF StopFails, world
<1>2. /\ occ'.of = occ.of /\ occ'.registered = occ.registered
      /\ occ'.cancelled = held(occ.cancelled) /\ occ'.settled = held(occ.settled)
      /\ occ'.stopping = [occ.stopping EXCEPT !["device"] = left] /\ occ'.pending = occ.pending
      /\ occ'.clients = occ.clients /\ occ'.early = occ.early /\ occ'.dispatched = occ.dispatched
      /\ occ'.preparing = occ.preparing /\ occ'.ready = occ.ready
      /\ occ'.cleaning = occ.cleaning \ {"device"} /\ occ'.committing = occ.committing
      /\ ~occ'.rejected /\ occ'.stopper = occ.stopper
  BY DEF StopFails, Occurrences
<1>3. /\ occ'.stopping["device"] \in {"none", "failed"}
      /\ occ'.stopping["desktop"] = occ.stopping["desktop"]
      /\ \A k \in Kinds : k # "device" => occ'.stopping[k] = occ.stopping[k]
  BY <1>2 DEF Occurrences, Kinds
<1>4. occ.committing => ~occ.rejected /\ "device" \in occ.cancelled
  BY <1>1 DEF Prepares, Kinds
<1>5. Prepares(occ')
  BY <1>2, <1>3, <1>4 DEF Prepares
<1>6. StopsInTurn(occ')
  BY <1>1, <1>2, <1>3 DEF StopsInTurn, Occurrences, Kinds
<1>7. Awaits(occ', connected) /\ StaysAsked(occ', asked)
  BY <1>2 DEF Awaits, StaysAsked
<1>8. HeardIsWaitedFor(occ', sounding)
  BY <1>2, <1>3 DEF HeardIsWaitedFor, Occurrences
<1>9. ShownIsWaitedFor(occ', showing) /\ PlaysAfterCommit(occ', playing)
  BY <1>2 DEF ShownIsWaitedFor, PlaysAfterCommit
<1>10. NotDone(occ', asked)
  BY <1>2 DEF NotDone, CanComplete, Prepares
<1>11. Inner'
  BY <1>1, <1>5, <1>6, <1>7, <1>8, <1>9, <1>10 DEF Inner, Sound
<1> QED BY <1>1, <1>2, <1>11, GoesOn

\* Somebody asks to stop the occurrence: with no device or desktop it is over.
LEMMA OpenStopStep ==
  ASSUME PlaybackInv, Typed', ~closed, StopOccurrence
  PROVE  Inner' /\ Follows' /\ SkippedStaysSkipped'
<1> USE OpenFacts
<1> DEFINE o == [occ EXCEPT !.cancelled = @ \cup occ.registered, !.watchdog = FALSE,
                       !.preparing = {}, !.committing = @ /\ CommitsAfterStop,
                       !.pending = {}, !.dispatched = TRUE,
                       !.stopping = [k \in Kinds |->
                          IF k \in occ.registered THEN Asked(@[k]) ELSE @[k]],
                       !.stopper = IF "device" \in occ.registered THEN "device" ELSE "desktop"]
<1>1. /\ current # None /\ occ.stopper = "none" /\ asked' = asked \cup {current}
      /\ showing' = {s \in showing : s[1] # current}
      /\ UNCHANGED <<closed, connected, playing, sounding>>
      /\ \/ occ.registered # {} /\ occ' = o /\ UNCHANGED queueVars
         \/ occ.registered = {} /\ Finish("skipped") /\ occ' = Delivered(o)
  BY DEF StopOccurrence
<1>2. showing' = {}
  BY <1>1 DEF ShownIsWaitedFor
<1>3. /\ o.of = occ.of /\ o.registered = occ.registered
      /\ o.cancelled = occ.cancelled \cup occ.registered
      /\ o.settled = occ.settled /\ o.pending = {}
      /\ o.stopping = [k \in Kinds |->
           IF k \in occ.registered THEN Asked(occ.stopping[k]) ELSE occ.stopping[k]]
      /\ o.clients = occ.clients /\ o.early = occ.early /\ o.dispatched
      /\ o.preparing = {} /\ o.ready = occ.ready /\ o.cleaning = occ.cleaning
      /\ (o.committing => occ.committing) /\ o.rejected = occ.rejected
      /\ o.stopper = IF "device" \in occ.registered THEN "device" ELSE "desktop"
  BY DEF Occurrences
<1>4. CASE occ.registered # {} /\ occ' = o /\ UNCHANGED queueVars
  <2> HIDE DEF o
  <2>1. \A k \in Kinds :
          o.stopping[k] = IF k \in occ.registered THEN Asked(occ.stopping[k]) ELSE occ.stopping[k]
    BY <1>3
  <2>2. Prepares(o)
    BY <1>3, <2>1 DEF Prepares, Asked, Kinds
  <2>3. StopsInTurn(o)
    BY <1>3, <2>1 DEF StopsInTurn, Asked, Kinds
  <2>4. StaysAsked(o, asked') /\ Awaits(o, connected)
    BY <1>1, <1>3 DEF StaysAsked, Awaits
  <2>5. HeardIsWaitedFor(o, sounding)
    <3> SUFFICES ASSUME NEW s \in sounding
                 PROVE  /\ s[1] = o.of /\ s[2] \in o.registered /\ ~o.committing
                        /\ s[2] \in o.settled => s[2] \in o.cancelled
                        /\ o.stopping[s[2]] # "done"
      BY DEF HeardIsWaitedFor
    <3>1. /\ s[1] = occ.of /\ s[2] \in occ.registered /\ ~occ.committing
          /\ occ.stopping[s[2]] # "done" /\ s[2] \in Kinds
      BY DEF HeardIsWaitedFor, Occurrences
    <3> QED BY <1>3, <2>1, <3>1 DEF Asked
  <2>6. ShownIsWaitedFor(o, {}) /\ PlaysAfterCommit(o, playing)
    BY <1>3 DEF ShownIsWaitedFor, PlaysAfterCommit
  <2>7. NotDone(o, asked')
    BY <1>1, <1>3 DEF NotDone
  <2>8. Inner'
    BY <1>1, <1>2, <1>4, <2>2, <2>3, <2>4, <2>5, <2>6, <2>7 DEF Inner, Sound
  <2>9. Follows'
    BY <1>1, <1>3, <1>4 DEF Follows, queueVars
  <2>10. SkippedStaysSkipped'
    BY <1>1, <1>4 DEF SkippedStaysSkipped, OnlyBegun, queueVars
  <2> QED BY <2>8, <2>9, <2>10
<1>5. CASE occ.registered = {} /\ Finish("skipped") /\ occ' = Delivered(o)
  <2> HIDE DEF o
  <2>1. sounding' = {}
    BY <1>1, <1>5 DEF HeardIsWaitedFor
  <2>2. ~closed' /\ WorldTyped' /\ asked' \subseteq asked \cup {current} /\ o.of = occ.of
        /\ \A p \in playing' : Begun(p[1])
    BY <1>1, <1>3 DEF Typed
  <2>3. "skipped" \in Statuses
    BY DEF Statuses
  <2> QED BY <1>2, <1>5, <2>1, <2>2, <2>3, Finishes
<1> QED BY <1>1, <1>4, <1>5

\* The stop sequence resumes with what was awaited.
LEMMA OpenResumesStep ==
  ASSUME PlaybackInv, ~closed, StopperResumes
  PROVE  Inner' /\ Follows' /\ SkippedStaysSkipped'
<1> USE OpenFacts
<1> DEFINE k == occ.stopper
<1>1. /\ k \in Kinds /\ UNCHANGED <<queueVars, closed, connected, playing, sounding, showing, asked>>
      /\ occ.of \in asked /\ occ.registered \subseteq occ.cancelled
      /\ occ.dispatched /\ occ.pending = {} /\ occ.preparing = {}
  BY DEF StopperResumes, Resuming, world, StaysAsked, Kinds
<1>2. ASSUME occ'.of = occ.of, Prepares(occ'), occ'.pending = {}, StopsInTurn(occ'),
             StaysAsked(occ', asked), HeardIsWaitedFor(occ', sounding),
             occ'.committing = occ.committing
      PROVE  Inner' /\ Follows' /\ SkippedStaysSkipped'
  <2>1. showing = {}
    BY <1>1 DEF ShownIsWaitedFor
  <2>2. Awaits(occ', connected) /\ ShownIsWaitedFor(occ', showing) /\ PlaysAfterCommit(occ', playing)
    BY <1>2, <2>1 DEF Awaits, ShownIsWaitedFor, PlaysAfterCommit
  <2>3. Inner'
    BY <1>1, <1>2, <2>2 DEF Inner, Sound, NotDone
  <2> QED BY <1>1, <1>2, <2>3, GoesOn
<1>3. CASE /\ occ.stopping[k] = "done"
           /\ occ' = [occ EXCEPT !.settled = @ \cup {k},
                        !.stopper = IF k = "device" /\ "desktop" \in occ.cancelled
                                    THEN "desktop" ELSE "finish"]
  <2>1. /\ occ'.of = occ.of /\ occ'.registered = occ.registered /\ occ'.cancelled = occ.cancelled
        /\ occ'.settled = occ.settled \cup {k} /\ occ'.stopping = occ.stopping
        /\ occ'.pending = occ.pending
        /\ occ'.clients = occ.clients /\ occ'.early = occ.early /\ occ'.dispatched = occ.dispatched
        /\ occ'.preparing = occ.preparing /\ occ'.ready = occ.ready
        /\ occ'.cleaning = occ.cleaning /\ occ'.committing = occ.committing
        /\ occ'.rejected = occ.rejected
        /\ occ'.stopper = (IF k = "device" /\ "desktop" \in occ.cancelled THEN "desktop" ELSE "finish")
    BY <1>3 DEF Occurrences
  <2>2. Prepares(occ')
    BY <1>1, <2>1 DEF Prepares
  <2>3. StopsInTurn(occ')
    BY <1>1, <1>3, <2>1 DEF StopsInTurn, Kinds, Occurrences
  <2>4. StaysAsked(occ', asked) /\ HeardIsWaitedFor(occ', sounding)
    BY <1>1, <2>1 DEF StaysAsked, HeardIsWaitedFor
  <2> QED BY <1>1, <1>2, <2>1, <2>2, <2>3, <2>4
<1>4. CASE /\ occ.stopping[k] = "failed"
           /\ occ' = [occ EXCEPT !.stopping[k] = "none", !.stopper = "none"]
  <2>1. /\ occ'.of = occ.of /\ occ'.registered = occ.registered /\ occ'.cancelled = occ.cancelled
        /\ occ'.settled = occ.settled /\ occ'.stopping = [occ.stopping EXCEPT ![k] = "none"]
        /\ occ'.pending = occ.pending
        /\ occ'.clients = occ.clients /\ occ'.early = occ.early /\ occ'.dispatched = occ.dispatched
        /\ occ'.preparing = occ.preparing /\ occ'.ready = occ.ready
        /\ occ'.cleaning = occ.cleaning /\ occ'.committing = occ.committing
        /\ occ'.rejected = occ.rejected /\ occ'.stopper = "none"
    BY <1>4 DEF Occurrences
  <2>2. k = "device" /\ "device" \in occ.registered /\ "device" \notin occ.cleaning
    BY <1>1, <1>4 DEF StopsInTurn, Kinds, Prepares
  <2>3. \A j \in Kinds : occ'.stopping[j] = IF j = "device" THEN "none" ELSE occ.stopping[j]
    BY <2>1, <2>2 DEF Occurrences
  <2>4. Prepares(occ')
    BY <1>1, <2>1, <2>2, <2>3 DEF Prepares
  <2>5. StopsInTurn(occ')
    BY <2>1, <2>2, <2>3 DEF StopsInTurn, Kinds
  <2>6. StaysAsked(occ', asked) /\ HeardIsWaitedFor(occ', sounding)
    BY <1>1, <2>1, <2>2, <2>3 DEF StaysAsked, HeardIsWaitedFor, Occurrences
  <2> QED BY <1>1, <1>2, <2>1, <2>4, <2>5, <2>6
<1> QED BY <1>3, <1>4 DEF StopperResumes

\* Everything is stopped: the occurrence is over.
LEMMA OpenAdvancesStep ==
  ASSUME PlaybackInv, Typed', ~closed, StopperAdvances
  PROVE  Inner' /\ Follows' /\ SkippedStaysSkipped'
<1> USE OpenFacts
<1>1. /\ Finish("skipped") /\ occ' = Delivered(occ) /\ occ.stopper = "finish"
      /\ UNCHANGED <<closed, connected, playing, sounding, showing, asked>>
  BY DEF StopperAdvances, world, past
<1>2. sounding = {} /\ showing = {}
  BY <1>1 DEF StopsInTurn, HeardIsWaitedFor, ShownIsWaitedFor, StaysAsked
<1>3. ~closed' /\ WorldTyped' /\ asked' \subseteq asked \cup {current} /\ "skipped" \in Statuses
      /\ \A p \in playing' : Begun(p[1])
  BY <1>1 DEF Typed, Statuses
<1> QED BY <1>1, <1>2, <1>3, Finishes

-----------------------------------------------------------------------------
(* The rest of the invariant *)

\* close() drops what waits, in the queue and of the occurrence.
LEMMA CloseStep ==
  ASSUME PlaybackInv, Close
  PROVE  closed' /\ Follows' /\ SkippedStaysSkipped'
<1>1. closed' /\ Shutdown /\ occ'.pending = {} /\ UNCHANGED asked
  BY DEF Close, past, PlaybackInv, Typed, Occurrences
<1>2. recent' = recent /\ queued' = {}
  BY <1>1 DEF Shutdown
<1> QED BY <1>1, <1>2 DEF Follows, PlaybackInv, SkippedStaysSkipped

\* A closed coordinator waits for no client and records nothing.
LEMMA ClosedPlayback ==
  ASSUME PlaybackInv, closed, PlaybackNext
  PROVE  closed' /\ Follows' /\ SkippedStaysSkipped'
<1> USE DEF world, past
<1>1. queued = {} /\ occ.pending = {} /\ QueueInv
  BY DEF PlaybackInv, Follows
<1>2. closed' /\ queued' = {}
  BY <1>1, ClosedStep
<1> SUFFICES occ'.pending = {} /\ recent' = recent /\ asked' = asked
  BY <1>2 DEF Follows, PlaybackInv, SkippedStaysSkipped
<1>3. \A o : Continue(o) => occ' = o /\ recent' = recent
  BY DEF Continue, Undisturbed, queueVars
<1> USE DEF Typed, PlaybackInv
<1>4. CASE QueueOperation
  <2>1. recent' = recent
    BY <1>1, <1>4, OthersStart DEF QueueOperation
  <2> QED BY <1>1, <1>4, <2>1 DEF QueueOperation, Delivered
<1>5. CASE \E r \in Recipients : PreparationEnds(r)
  <2>1. CASE \E r \in Recipients : InstructionReady(r) \/ PlaybackReady(r)
    BY <1>1, <2>1 DEF InstructionReady, PlaybackReady, Occurrences, queueVars
  <2>2. CASE \E r \in Recipients : PreparationFails(r)
    <3>1. PICK r \in Recipients : PreparationFails(r)
      BY <2>2
    <3>2. CASE r \in Instructions
      BY <1>1, <3>1, <3>2 DEF PreparationFails, Occurrences, queueVars
    <3>3. CASE r = "desktop"
      BY <1>1, <3>1, <3>3, CoordinatorAssumption DEF PreparationFails, Occurrences, queueVars, Kinds
    <3>4. CASE r = "device"
      BY <1>1, <3>1, <3>4, CoordinatorAssumption DEF PreparationFails, Occurrences, queueVars, Kinds
    <3> QED BY <3>2, <3>3, <3>4 DEF Recipients, Kinds
  <2> QED BY <1>5, <2>1, <2>2 DEF PreparationEnds
<1>6. CASE DesktopCleaned
  BY <1>1, <1>6 DEF DesktopCleaned, Occurrences, queueVars
<1>7. CASE Commit
  BY <1>1, <1>7 DEF Commit, Active, Occurrences, queueVars
<1>8. CASE \E c \in Clients : Disconnect(c) \/ \E n \in Instructions : ReportFinished(c, n)
  BY <1>1, <1>8 DEF Disconnect, ReportFinished, queueVars
<1>9. CASE \E i \in Items : DeviceRejects(i) \/ \E k \in Kinds : PlayEnds(i, k)
  <2>1. CASE \E i \in Items : DeviceRejects(i)
    BY <1>1, <2>1 DEF DeviceRejects, Occurrences, queueVars
  <2>2. CASE \E i \in Items, k \in Kinds : PlayEnds(i, k)
    BY <1>1, <1>3, <2>2 DEF PlayEnds, Occurrences, queueVars
  <2> QED BY <1>9, <2>1, <2>2
<1>10. CASE \E k \in Kinds : StopSettles(k)
  <2>1. CASE \E k \in Kinds : StopDone(k)
    <3>1. PICK k \in Kinds : StopDone(k)
      BY <2>1
    <3> DEFINE o == [occ EXCEPT !.stopping[k] = "done",
                       !.cleaning = IF k = "device" THEN @ \ {k} ELSE @,
                       !.registered = IF k = "device" /\ k \in occ.cleaning THEN @ \ {k} ELSE @]
               r == [o EXCEPT !.rejected = FALSE, !.settled = @ \cup {k}]
    <3>2. o.pending = {} /\ r.pending = {}
      BY <1>1 DEF Occurrences
    <3>3. asked' = asked /\ (Continue(r) \/ (occ' \in {o, r} /\ UNCHANGED queueVars))
      BY <3>1 DEF StopDone
    <3> HIDE DEF o, r
    <3> QED BY <1>3, <3>2, <3>3 DEF queueVars
  <2>2. CASE StopFails
    BY <1>1, <2>2 DEF StopFails, Occurrences, queueVars
  <2> QED BY <1>10, <2>1, <2>2 DEF StopSettles
<1>11. CASE StopperResumes \/ StopperAdvances
  BY <1>1, <1>11 DEF StopperResumes, StopperAdvances, Occurrences, queueVars
<1>12. ~Skip /\ ~WatchdogFires /\ ~Close /\ \A p, s : ~EnqueueResolved(p, s)
  BY DEF Skip, WatchdogFires, StopOccurrence, Close, EnqueueResolved
<1> QED BY <1>4, <1>5, <1>6, <1>7, <1>8, <1>9, <1>10, <1>11, <1>12 DEF PlaybackNext

\* The queue moves by one of its operations; only an occurrence that finishes is
\* recorded, only the current one starts to play or is asked to stop.
LEMMA QueueSteps ==
  ASSUME QueueInv, PlaybackNext
  PROVE  /\ [QueueNext]_queueVars
         /\ (recent' = recent /\ (current' = current \/ current = None))
            \/ (\E status \in Statuses : Finish(status)) \/ Close
         /\ Close => recent' = recent /\ current' \in {current, None}
         /\ playing' \subseteq playing \cup ({current} \X Kinds)
         /\ asked' \subseteq asked \cup ({current} \ {None})
<1> USE DEF world, past
<1>1. \A o : Continue(o) => Finish("completed") \/ UNCHANGED queueVars
  BY DEF Continue
<1>2. "completed" \in Statuses /\ "skipped" \in Statuses
  BY DEF Statuses
<1>3. ASSUME UNCHANGED queueVars \/ (\E status \in Statuses : Finish(status)),
             playing' \subseteq playing \cup ({current} \X Kinds), ~Close,
             asked' \subseteq asked \cup ({current} \ {None})
      PROVE  /\ [QueueNext]_queueVars
             /\ (recent' = recent /\ (current' = current \/ current = None))
                \/ (\E status \in Statuses : Finish(status))
  BY <1>3, FinishMoves DEF queueVars
<1>4. CASE (\E p \in Priorities, s \in Shapes : EnqueueResolved(p, s)) \/ QueueOperation
  <2>1. [QueueNext]_queueVars /\ recent' = recent /\ (current' = current \/ current = None)
    BY <1>4, OthersStart DEF EnqueueResolved, QueueOperation
  <2>2. UNCHANGED <<closed, playing, asked>>
    BY <1>4 DEF EnqueueResolved, QueueOperation
  <2> QED BY <2>1, <2>2 DEF Close
<1>5. CASE (\E r \in Recipients : PreparationEnds(r)) \/ DesktopCleaned \/ StopperResumes
  <2>1. UNCHANGED <<queueVars, closed, playing, asked>>
    BY <1>5 DEF PreparationEnds, InstructionReady, PlaybackReady, PreparationFails,
       DesktopCleaned, StopperResumes
  <2> QED BY <1>3, <2>1 DEF Close
<1>6. CASE Commit
  <2>1. playing' \subseteq playing \cup ({current} \X Kinds) /\ UNCHANGED <<closed, asked>>
    BY <1>6 DEF Commit, Active, Of
  <2>2. UNCHANGED queueVars \/ Finish("completed")
    BY <1>1, <1>6 DEF Commit
  <2> QED BY <1>2, <1>3, <2>1, <2>2 DEF Close
<1>7. CASE \E c \in Clients : Disconnect(c) \/ \E n \in Instructions : ReportFinished(c, n)
  <2>1. UNCHANGED <<closed, asked, playing>>
    BY <1>7 DEF Disconnect, ReportFinished
  <2>2. UNCHANGED queueVars \/ Finish("completed")
    BY <1>1, <1>7 DEF Disconnect, ReportFinished
  <2> QED BY <1>2, <1>3, <2>1, <2>2 DEF Close
<1>8. CASE \E i \in Items : DeviceRejects(i) \/ \E k \in Kinds : PlayEnds(i, k)
  <2>1. UNCHANGED <<closed, asked>> /\ playing' \subseteq playing
    BY <1>8 DEF DeviceRejects, PlayEnds
  <2>2. UNCHANGED queueVars \/ Finish("completed")
    BY <1>1, <1>8 DEF DeviceRejects, PlayEnds
  <2> QED BY <1>2, <1>3, <2>1, <2>2 DEF Close
<1>9. CASE \E k \in Kinds : StopSettles(k)
  <2>1. UNCHANGED <<closed, asked, playing>>
    BY <1>9 DEF StopSettles, StopDone, StopFails
  <2>2. UNCHANGED queueVars \/ Finish("completed")
    BY <1>1, <1>9 DEF StopSettles, StopDone, StopFails
  <2> QED BY <1>2, <1>3, <2>1, <2>2 DEF Close
<1>10. CASE StopOccurrence
  <2>1. UNCHANGED <<closed, playing>> /\ ~closed /\ asked' \subseteq asked \cup ({current} \ {None})
    BY <1>10 DEF StopOccurrence
  <2>2. UNCHANGED queueVars \/ Finish("skipped")
    BY <1>10 DEF StopOccurrence
  <2> QED BY <1>2, <1>3, <2>1, <2>2 DEF Close
<1>11. CASE StopperAdvances
  <2>1. UNCHANGED <<closed, asked, playing>>
    BY <1>11 DEF StopperAdvances
  <2>2. UNCHANGED queueVars \/ Finish("skipped")
    BY <1>11 DEF StopperAdvances
  <2> QED BY <1>2, <1>3, <2>1, <2>2 DEF Close
<1>12. CASE Close
  <2>1. Shutdown /\ UNCHANGED <<asked, playing>>
    BY <1>12 DEF Close
  <2> QED BY <1>12, <2>1 DEF Shutdown, QueueNext
<1> QED BY <1>4, <1>5, <1>6, <1>7, <1>8, <1>9, <1>10, <1>11, <1>12 DEF PlaybackNext, Skip, WatchdogFires

\* Whatever plays, was asked to stop or is over, was taken from the queue.
LEMMA OnlyBegunStep ==
  ASSUME PlaybackInv, PlaybackNext, Typed'
  PROVE  OnlyBegun'
<1>1. QueueInv /\ OnlyBegun
  BY DEF PlaybackInv
<1>2. /\ QueueInv' /\ \A i : Begun(i) => Begun(i)'
      /\ current' \notin {current, None} => ~Begun(current')
  BY <1>1, QueueSteps, QueueMoves
<1>3. current # None => Begun(current)
  BY <1>1, QueueAssumption DEF QueueInv, QueueTypeOK, Enqueued, Begun, Items, None
<1>4. ASSUME NEW p \in playing' PROVE Begun(p[1])'
  <2>1. p \in playing \/ p[1] = current
    BY <1>1, QueueSteps
  <2>2. p[1] # None
    BY DEF Typed, WorldTyped, Items, None
  <2> QED BY <1>1, <1>2, <1>3, <2>1, <2>2 DEF OnlyBegun
<1>5. ASSUME NEW i \in asked' PROVE Begun(i)'
  <2>1. i \in asked \/ (i = current /\ current # None)
    BY <1>1, QueueSteps
  <2> QED BY <1>1, <1>2, <1>3, <2>1 DEF OnlyBegun
<1>6. ASSUME NEW n \in DOMAIN recent', NEW i, i = recent'[n].id
      PROVE  Begun(i)' /\ i # current'
  <2>1. ~Begun(None)
    BY DEF Begun, None
  <2>2. CASE recent' = recent /\ (current' = current \/ current' = None \/ current = None)
    <3>1. Begun(i) /\ i # current
      BY <1>1, <1>6, <2>2 DEF OnlyBegun
    <3> QED BY <1>2, <2>1, <2>2, <3>1
  <2>3. CASE \E status \in Statuses : Finish(status)
    <3>1. PICK status \in Statuses : Finish(status)
      BY <2>3
    <3>2. /\ current' # current /\ Begun(current)
          /\ \/ recent'[n] = [id |-> current, status |-> status]
             \/ \E m \in DOMAIN recent : recent'[n] = recent[m]
      BY <1>1, <1>6, <3>1, FinishMoves
    <3>3. Begun(i)
      BY <1>1, <1>6, <3>2 DEF OnlyBegun
    <3> QED BY <1>2, <2>1, <3>2, <3>3
  <2> QED BY <1>1, <2>2, <2>3, QueueSteps
<1> QED BY <1>4, <1>5, <1>6 DEF OnlyBegun, Begun

-----------------------------------------------------------------------------
(* What is delivered *)

LEMMA DeliveredHolds ==
  ASSUME NEW o, HeldIsDelivered(o)
  PROVE  HeldIsDelivered(Delivered(o)) /\ (Continue(o) => HeldIsDelivered(occ'))
<1>1. HeldIsDelivered(Idle)
  BY DEF HeldIsDelivered, Idle
<1>2. current' # None => HeldIsDelivered(Fresh(current'))
  BY DEF HeldIsDelivered, Fresh, Idle
<1>3. HeldIsDelivered(Delivered(o))
  BY <1>1, <1>2 DEF Delivered
<1> QED BY <1>3 DEF Continue

\* Nothing but a delivery gives the coordinator something to hold.
LEMMA HeldStep ==
  ASSUME PlaybackInv, PlaybackNext
  PROVE  HeldIsDelivered(occ')
<1>1. occ \in Occurrences /\ HeldIsDelivered(occ)
  BY DEF PlaybackInv, Typed
<1>2. ASSUME NEW o, o.of = occ.of, o.committing => occ.committing,
             o.rejected => occ.rejected \/ occ.of # None,
             o.stopper # "none" => occ.stopper # "none" \/ occ.of # None
      PROVE  HeldIsDelivered(o) /\ HeldIsDelivered(Delivered(o)) /\ (Continue(o) => HeldIsDelivered(occ'))
  <2>1. HeldIsDelivered(o)
    BY <1>1, <1>2 DEF HeldIsDelivered
  <2> QED BY <2>1, DeliveredHolds
<1>3. CASE (\E p \in Priorities, s \in Shapes : EnqueueResolved(p, s)) \/ QueueOperation
  BY <1>1, <1>3, DeliveredHolds DEF EnqueueResolved, QueueOperation
<1>4. CASE \E r \in Recipients : InstructionReady(r) \/ PlaybackReady(r)
  BY <1>1, <1>4 DEF InstructionReady, PlaybackReady, Occurrences, HeldIsDelivered
<1>5. CASE \E r \in Recipients : PreparationFails(r)
  <2>1. PICK r \in Recipients : PreparationFails(r)
    BY <1>5
  <2>2. CASE r \in Instructions
    BY <1>1, <2>1, <2>2 DEF PreparationFails, Occurrences, HeldIsDelivered
  <2>3. CASE r = "desktop"
    BY <1>1, <2>1, <2>3, CoordinatorAssumption DEF PreparationFails, Occurrences, HeldIsDelivered, Kinds
  <2>4. CASE r = "device"
    BY <1>1, <2>1, <2>4, CoordinatorAssumption DEF PreparationFails, Occurrences, HeldIsDelivered, Kinds
  <2> QED BY <2>2, <2>3, <2>4 DEF Recipients, Kinds
<1>6. CASE DesktopCleaned
  BY <1>1, <1>6 DEF DesktopCleaned, Occurrences, HeldIsDelivered
<1>7. CASE Commit
  <2>1. CASE Active
    <3>1. PICK left, waited, settle :
            Continue([occ EXCEPT
               !.committing = FALSE, !.dispatched = TRUE, !.watchdog = TRUE, !.ready = {},
               !.pending = left, !.clients = waited, !.settled = settle])
      BY <1>7, <2>1 DEF Commit
    <3> DEFINE o == [occ EXCEPT
               !.committing = FALSE, !.dispatched = TRUE, !.watchdog = TRUE, !.ready = {},
               !.pending = left, !.clients = waited, !.settled = settle]
    <3>2. o.of = occ.of /\ ~o.committing /\ o.rejected = occ.rejected /\ o.stopper = occ.stopper
      BY <1>1 DEF Occurrences
    <3> HIDE DEF o
    <3>3. Continue(o)
      BY <3>1 DEF o
    <3> QED BY <1>2, <3>2, <3>3
  <2>2. CASE ~Active
    BY <1>1, <1>7, <2>2 DEF Commit, Occurrences, HeldIsDelivered
  <2> QED BY <2>1, <2>2
<1>8. ASSUME NEW waited, NEW left, NEW settle,
             Continue([occ EXCEPT !.clients = waited, !.pending = left])
             \/ Continue([occ EXCEPT !.settled = settle])
      PROVE  HeldIsDelivered(occ')
  <2> DEFINE o == [occ EXCEPT !.clients = waited, !.pending = left]
             r == [occ EXCEPT !.settled = settle]
  <2>1. o.of = occ.of /\ o.committing = occ.committing /\ o.rejected = occ.rejected /\ o.stopper = occ.stopper
    BY <1>1 DEF Occurrences
  <2>2. r.of = occ.of /\ r.committing = occ.committing /\ r.rejected = occ.rejected /\ r.stopper = occ.stopper
    BY <1>1 DEF Occurrences
  <2>3. Continue(o) \/ Continue(r)
    BY <1>8
  <2> HIDE DEF o, r
  <2> QED BY <1>2, <2>1, <2>2, <2>3
<1>9. CASE \E c \in Clients : Disconnect(c)
  BY <1>1, <1>8, <1>9 DEF Disconnect, Occurrences, HeldIsDelivered
<1>10. CASE \E c \in Clients, n \in Instructions : ReportFinished(c, n)
  BY <1>1, <1>8, <1>10 DEF ReportFinished, Occurrences, HeldIsDelivered
<1>11. CASE \E i \in Items : DeviceRejects(i)
  <2>1. PICK i \in Items : DeviceRejects(i)
    BY <1>11
  <2>2. i # None
    BY DEF Items, None
  <2>3. /\ occ'.of = occ.of /\ occ'.committing = occ.committing /\ occ'.stopper = occ.stopper
        /\ occ'.rejected => occ.rejected \/ occ.of # None
    BY <1>1, <2>1, <2>2 DEF DeviceRejects, SamePlayback, Occurrences
  <2> QED BY <1>2, <2>3
<1>12. CASE \E i \in Items, k \in Kinds : PlayEnds(i, k)
  BY <1>1, <1>8, <1>12 DEF PlayEnds, Occurrences, HeldIsDelivered
<1>13. CASE \E k \in Kinds : StopDone(k)
  <2>1. PICK k \in Kinds : StopDone(k)
    BY <1>13
  <2> DEFINE o == [occ EXCEPT !.stopping[k] = "done",
                     !.cleaning = IF k = "device" THEN @ \ {k} ELSE @,
                     !.registered = IF k = "device" /\ k \in occ.cleaning THEN @ \ {k} ELSE @]
             r == [o EXCEPT !.rejected = FALSE, !.settled = @ \cup {k}]
  <2>2. /\ o.of = occ.of /\ o.committing = occ.committing /\ o.rejected = occ.rejected
        /\ o.stopper = occ.stopper
        /\ r.of = occ.of /\ r.committing = occ.committing /\ ~r.rejected /\ r.stopper = occ.stopper
    BY <1>1 DEF Occurrences
  <2>3. Continue(r) \/ occ' = r \/ occ' = o
    BY <2>1 DEF StopDone
  <2> HIDE DEF o, r
  <2> QED BY <1>2, <2>2, <2>3
<1>14. CASE StopFails
  BY <1>1, <1>14 DEF StopFails, Occurrences, HeldIsDelivered
<1>15. CASE StopOccurrence
  <2> DEFINE o == [occ EXCEPT !.cancelled = @ \cup occ.registered, !.watchdog = FALSE,
                       !.preparing = {}, !.committing = @ /\ CommitsAfterStop,
                       !.pending = {}, !.dispatched = TRUE,
                       !.stopping = [k \in Kinds |->
                          IF k \in occ.registered THEN Asked(@[k]) ELSE @[k]],
                       !.stopper = IF "device" \in occ.registered THEN "device" ELSE "desktop"]
  <2>1. o.of = occ.of /\ (o.committing => occ.committing) /\ o.rejected = occ.rejected
    BY <1>1 DEF Occurrences
  <2>2. occ.of # None /\ (occ' = o \/ occ' = Delivered(o))
    BY <1>15 DEF StopOccurrence
  <2> HIDE DEF o
  <2> QED BY <1>2, <2>1, <2>2
<1>16. CASE StopperResumes
  <2>1. /\ occ'.of = occ.of /\ occ'.committing = occ.committing /\ occ'.rejected = occ.rejected
        /\ occ.stopper # "none"
    BY <1>1, <1>16 DEF StopperResumes, Resuming, Occurrences, Kinds
  <2> QED BY <1>2, <2>1
<1>17. CASE StopperAdvances
  BY <1>1, <1>17, DeliveredHolds DEF StopperAdvances, Occurrences, HeldIsDelivered
<1>18. CASE Close
  BY <1>1, <1>18 DEF Close, Occurrences, HeldIsDelivered
<1> QED BY <1>3, <1>4, <1>5, <1>6, <1>7, <1>9, <1>10, <1>11, <1>12, <1>13, <1>14, <1>15, <1>16, <1>17, <1>18
   DEF PlaybackNext, Skip, WatchdogFires, PreparationEnds, StopSettles

-----------------------------------------------------------------------------
(* Types *)

\* What is delivered, and what continues, is an occurrence.
LEMMA DeliveredTyped ==
  ASSUME QueueInv, PlaybackNext, WorldTyped', NEW o \in Occurrences
  PROVE  /\ Delivered(o) \in Occurrences
         /\ Continue(o) => occ' \in Occurrences
<1>1. QueueInv'
  BY QueueSteps, QueueMoves
<1>2. current' # None => current' \in Items
  BY <1>1 DEF QueueInv, QueueTypeOK
<1>3. Idle \in Occurrences /\ (current' # None => Fresh(current') \in Occurrences)
  <2>1. ASSUME current' # None PROVE Fresh(current') \in Occurrences
    <3> DEFINE i == current'
    <3>1. i \in Items /\ i \notin {} /\ \A p \in {} : p[1] # i
      BY <1>2, <2>1
    <3> HIDE DEF i
    <3>2. Fresh(i) \in Occurrences
      BY <3>1, FreshSound
    <3> QED BY <3>2 DEF i
  <2>2. Idle \in Occurrences
    BY DEF Idle, Occurrences, Stops
  <2> QED BY <2>1, <2>2
<1>4. Delivered(o) \in Occurrences
  BY <1>3 DEF Delivered
<1> QED BY <1>4 DEF Continue

\* Outside the occurrence, too, every step keeps the types.
LEMMA WorldTypedStep ==
  ASSUME PlaybackInv, PlaybackNext
  PROVE  WorldTyped'
<1> USE DEF world, past
<1>1. WorldTyped /\ occ \in Occurrences /\ QueueInv
  BY DEF PlaybackInv, Typed
<1>2. \A i \in Int : i <= MaxItems /\ i > 0 => i \in Items
  BY QueueAssumption DEF Items
<1>3. ASSUME UNCHANGED <<shape, closed>>, connected' \subseteq connected, playing' \subseteq playing,
             sounding' \subseteq sounding, showing' \subseteq showing, UNCHANGED past
      PROVE  WorldTyped'
  BY <1>1, <1>3 DEF WorldTyped
<1>4. CASE \E p \in Priorities, s \in Shapes : EnqueueResolved(p, s)
  <2>1. PICK p \in Priorities, s \in Shapes : EnqueueResolved(p, s)
    BY <1>4
  <2>2. shape' = [shape EXCEPT ![next + 1] = s] /\ UNCHANGED <<closed, world, past>>
    BY <2>1 DEF EnqueueResolved
  <2>3. shape' \in [Items -> Shapes \cup {{}}]
    BY <1>1, <2>2 DEF WorldTyped
  <2> QED BY <1>1, <2>2, <2>3 DEF WorldTyped
<1>5. CASE QueueOperation \/ (\E r \in Recipients : PreparationEnds(r)) \/ DesktopCleaned
  <2>1. UNCHANGED <<shape, closed, world, past>>
    BY <1>5 DEF QueueOperation, PreparationEnds, InstructionReady, PlaybackReady, PreparationFails,
       DesktopCleaned
  <2> QED BY <1>3, <2>1
<1>6. CASE Commit
  <2>1. CASE Active
    <3>1. /\ occ.committing /\ ~closed
          /\ UNCHANGED <<shape, closed, connected, past>>
          /\ playing' \subseteq playing \cup ({occ.of} \X Kinds)
          /\ sounding' \subseteq sounding \cup ({occ.of} \X Kinds)
          /\ showing' \subseteq showing \cup ({occ.of} \X Instructions \X Clients)
      <4>1. connected \subseteq Clients /\ occ.pending \subseteq Instructions
        BY <1>1 DEF WorldTyped, Occurrences
      <4> QED BY <1>6, <2>1, <4>1 DEF Commit, Active, Of
    <3>2. occ.of \in Items
      BY <1>1, <3>1 DEF PlaybackInv, HeldIsDelivered, Occurrences
    <3> QED BY <1>1, <3>1, <3>2 DEF WorldTyped
  <2>2. CASE ~Active
    BY <1>3, <1>6, <2>2 DEF Commit
  <2> QED BY <2>1, <2>2
<1>7. CASE \E c \in Clients : Disconnect(c) \/ \E n \in Instructions : ReportFinished(c, n)
  <2>1. /\ UNCHANGED <<shape, closed, playing, sounding, past>>
        /\ connected' \subseteq connected /\ showing' \subseteq showing
    BY <1>7 DEF Disconnect, ReportFinished
  <2> QED BY <1>3, <2>1
<1>8. CASE \E i \in Items : DeviceRejects(i) \/ \E k \in Kinds : PlayEnds(i, k)
  <2>1. /\ UNCHANGED <<shape, closed, connected, showing, past>>
        /\ playing' \subseteq playing /\ sounding' \subseteq sounding
    BY <1>8 DEF DeviceRejects, PlayEnds
  <2> QED BY <1>3, <2>1
<1>9. ASSUME UNCHANGED <<shape, connected, playing>>, sounding' \subseteq sounding,
             showing' \subseteq showing, closed' \in BOOLEAN,
             asked' \subseteq asked \cup ({current} \ {None}),
             unstopped' \subseteq unstopped \cup ({occ.of} \ {None})
      PROVE  WorldTyped'
  <2>1. {current} \ {None} \subseteq Items /\ {occ.of} \ {None} \subseteq Items
    BY <1>1 DEF QueueInv, QueueTypeOK, Occurrences
  <2> QED BY <1>1, <1>9, <2>1 DEF WorldTyped
<1>10. CASE \E k \in Kinds : StopDone(k)
  <2>1. UNCHANGED <<shape, closed, connected, playing, showing, past>> /\ sounding' \subseteq sounding
    BY <1>10 DEF StopDone
  <2> QED BY <1>3, <2>1
<1>11. CASE Skip \/ WatchdogFires
  <2>1. /\ UNCHANGED <<shape, closed, connected, playing, sounding, unstopped>>
        /\ showing' \subseteq showing
    BY <1>11 DEF Skip, WatchdogFires, StopOccurrence
  <2> QED BY <1>1, <1>9, <2>1, QueueSteps DEF WorldTyped
<1>12. CASE StopFails \/ StopperResumes
  <2>1. UNCHANGED <<shape, closed, world, asked>> /\ unstopped' \subseteq unstopped \cup {occ.of}
    BY <1>12 DEF StopFails, StopperResumes
  <2>2. occ.of = None => unstopped' = unstopped
    <3> SUFFICES ASSUME occ.of = None PROVE unstopped' = unstopped
      OBVIOUS
    <3>1. ~occ.rejected /\ occ.stopper \notin Kinds
      BY DEF PlaybackInv, HeldIsDelivered, Kinds
    <3> QED BY <1>12, <3>1 DEF StopFails, StopperResumes, Resuming
  <2> QED BY <1>1, <1>9, <2>1, <2>2 DEF WorldTyped
<1>13. CASE StopperAdvances
  BY <1>3, <1>13 DEF StopperAdvances
<1>14. CASE Close
  BY <1>9, <1>14 DEF Close
<1> QED BY <1>4, <1>5, <1>6, <1>7, <1>8, <1>10, <1>11, <1>12, <1>13, <1>14
   DEF PlaybackNext, StopSettles

\* What the coordinator holds stays an occurrence.
LEMMA OccurrenceStep ==
  ASSUME PlaybackInv, PlaybackNext
  PROVE  occ' \in Occurrences
<1>1. occ \in Occurrences /\ QueueInv /\ WorldTyped /\ WorldTyped'
  BY WorldTypedStep DEF PlaybackInv, Typed
<1>2. \A o \in Occurrences : Delivered(o) \in Occurrences /\ (Continue(o) => occ' \in Occurrences)
  BY <1>1, DeliveredTyped
<1>3. CASE (\E p \in Priorities, s \in Shapes : EnqueueResolved(p, s)) \/ QueueOperation \/ StopperAdvances
  <2>1. CASE occ' = Delivered(occ)
    BY <1>1, <1>2, <2>1
  <2>2. CASE occ' = [occ EXCEPT !.stopper = "none"]
    BY <1>1, <2>2 DEF Occurrences
  <2> QED BY <1>3, <2>1, <2>2 DEF EnqueueResolved, QueueOperation, StopperAdvances
<1>4. CASE \E r \in Recipients : InstructionReady(r)
  <2>1. PICK r \in Recipients, c \in SUBSET connected :
          /\ r \in Instructions
          /\ occ' = [occ EXCEPT !.preparing = @ \ {r}, !.ready = @ \cup {r}, !.clients[r] = c]
    BY <1>4 DEF InstructionReady
  <2>2. [occ.clients EXCEPT ![r] = c] \in [Instructions -> SUBSET Clients]
    BY <1>1, <2>1 DEF Occurrences, WorldTyped
  <2>3. occ.preparing \ {r} \in SUBSET Recipients /\ occ.ready \cup {r} \in SUBSET Recipients
    BY <1>1 DEF Occurrences
  <2> QED BY <1>1, <2>1, <2>2, <2>3 DEF Occurrences
<1>5. CASE \E r \in Recipients : PlaybackReady(r)
  <2>1. PICK r \in Recipients : occ' = [occ EXCEPT !.preparing = @ \ {r}, !.ready = @ \cup {r}]
    BY <1>5 DEF PlaybackReady
  <2>2. occ.preparing \ {r} \in SUBSET Recipients /\ occ.ready \cup {r} \in SUBSET Recipients
    BY <1>1 DEF Occurrences
  <2> QED BY <1>1, <2>1, <2>2 DEF Occurrences
<1>6. CASE \E r \in Recipients : PreparationFails(r)
  <2>1. PICK r \in Recipients : PreparationFails(r)
    BY <1>6
  <2>2. CASE r \in Instructions
    <3>1. occ' = [occ EXCEPT !.preparing = @ \ {r}, !.pending = @ \ {r}]
      BY <2>1, <2>2, CoordinatorAssumption DEF PreparationFails, Kinds
    <3>2. occ.preparing \ {r} \in SUBSET Recipients /\ occ.pending \ {r} \in SUBSET Instructions
      BY <1>1 DEF Occurrences
    <3> QED BY <1>1, <3>1, <3>2 DEF Occurrences
  <2>3. CASE r = "desktop"
    BY <1>1, <2>1, <2>3, CoordinatorAssumption DEF PreparationFails, Occurrences, Kinds
  <2>4. CASE r = "device"
    <3>1. occ' = [occ EXCEPT !.preparing = @ \ {r}, !.cancelled = @ \cup {r},
                             !.cleaning = @ \cup {r}, !.stopping[r] = Asked(@)]
      BY <2>1, <2>4, CoordinatorAssumption DEF PreparationFails, Kinds
    <3>2. [occ.stopping EXCEPT ![r] = Asked(@)] \in [Kinds -> Stops]
      BY <1>1, <2>4 DEF Occurrences, Asked, Stops, Kinds
    <3>3. /\ occ.preparing \ {r} \in SUBSET Recipients
          /\ occ.cancelled \cup {r} \in SUBSET Kinds /\ occ.cleaning \cup {r} \in SUBSET Kinds
      BY <1>1, <2>4 DEF Occurrences, Kinds
    <3> QED BY <1>1, <3>1, <3>2, <3>3 DEF Occurrences
  <2> QED BY <2>2, <2>3, <2>4 DEF Recipients, Kinds
<1>7. CASE DesktopCleaned
  BY <1>1, <1>7 DEF DesktopCleaned, Occurrences
<1>8. CASE Commit
  <2>1. CASE Active
    <3> DEFINE awaited(n) == occ.clients[n] \ occ.early[n]
    <3>1. PICK shown \in SUBSET (occ.ready \cap occ.pending) :
            Continue([occ EXCEPT
               !.committing = FALSE, !.dispatched = TRUE, !.watchdog = TRUE, !.ready = {},
               !.pending = {n \in shown : awaited(n) # {}},
               !.clients = [n \in Instructions |-> awaited(n)],
               !.settled = @ \cup (occ.ready \cap occ.cancelled \cap {"device"})])
      BY <1>8, <2>1 DEF Commit
    <3> DEFINE left == {n \in shown : awaited(n) # {}}
               waited == [n \in Instructions |-> awaited(n)]
               settle == occ.settled \cup (occ.ready \cap occ.cancelled \cap {"device"})
    <3>2. left \in SUBSET Instructions /\ waited \in [Instructions -> SUBSET Clients]
          /\ settle \in SUBSET Kinds
      BY <1>1, <3>1 DEF Occurrences
    <3> HIDE DEF left, waited, settle
    <3> DEFINE o == [occ EXCEPT
               !.committing = FALSE, !.dispatched = TRUE, !.watchdog = TRUE, !.ready = {},
               !.pending = left, !.clients = waited, !.settled = settle]
    <3>3. o \in Occurrences
      BY <1>1, <3>2 DEF Occurrences
    <3>4. Continue(o)
      BY <3>1 DEF left, waited, settle
    <3> HIDE DEF o
    <3> QED BY <1>2, <3>3, <3>4
  <2>2. CASE ~Active
    BY <1>1, <1>8, <2>2 DEF Commit, Occurrences
  <2> QED BY <2>1, <2>2
<1>9. ASSUME NEW waited \in [Instructions -> SUBSET Clients], NEW left \in SUBSET Instructions,
             Continue([occ EXCEPT !.clients = waited, !.pending = left])
      PROVE  occ' \in Occurrences
  <2> DEFINE o == [occ EXCEPT !.clients = waited, !.pending = left]
  <2>1. o \in Occurrences
    BY <1>1 DEF Occurrences
  <2>2. Continue(o)
    BY <1>9
  <2> HIDE DEF o
  <2> QED BY <1>2, <2>1, <2>2
<1>10. ASSUME NEW k \in Kinds,
              Continue([occ EXCEPT !.settled = @ \cup {k}]) \/ occ' = [occ EXCEPT !.settled = @ \cup {k}]
       PROVE  occ' \in Occurrences
  <2> DEFINE o == [occ EXCEPT !.settled = @ \cup {k}]
  <2>1. o \in Occurrences
    BY <1>1 DEF Occurrences
  <2>2. Continue(o) \/ occ' = o
    BY <1>10
  <2> HIDE DEF o
  <2> QED BY <1>2, <2>1, <2>2
<1>11. CASE \E c \in Clients : Disconnect(c)
  <2>1. PICK c \in Clients : Disconnect(c)
    BY <1>11
  <2> DEFINE freed == {n \in occ.pending : c \in occ.clients[n]}
             waited == [n \in Instructions |-> occ.clients[n] \ {c}]
             left == occ.pending \ {n \in freed : occ.clients[n] = {c}}
  <2>2. /\ waited \in [Instructions -> SUBSET Clients] /\ left \in SUBSET Instructions
        /\ LeftEarly(c) \in [Instructions -> SUBSET Clients]
    BY <1>1 DEF Occurrences, LeftEarly
  <2>3. CASE Continue([occ EXCEPT !.clients = waited, !.pending = left])
    BY <1>9, <2>2, <2>3
  <2>4. CASE occ' = occ \/ occ' = [occ EXCEPT !.early = LeftEarly(c)]
    BY <1>1, <2>2, <2>4 DEF Occurrences
  <2> QED BY <2>1, <2>3, <2>4 DEF Disconnect
<1>12. CASE \E c \in Clients, n \in Instructions : ReportFinished(c, n)
  <2>1. PICK c \in Clients, n \in Instructions : ReportFinished(c, n)
    BY <1>12
  <2> DEFINE waited == [occ.clients EXCEPT ![n] = @ \ {c}]
             left == IF occ.clients[n] = {c} THEN occ.pending \ {n} ELSE occ.pending
             early == [occ.early EXCEPT ![n] = @ \cup {c}]
  <2>2. /\ waited \in [Instructions -> SUBSET Clients] /\ left \in SUBSET Instructions
        /\ early \in [Instructions -> SUBSET Clients]
    BY <1>1 DEF Occurrences
  <2>3. CASE Continue([occ EXCEPT !.clients = waited, !.pending = left])
    BY <1>9, <2>2, <2>3
  <2>4. CASE occ' = [occ EXCEPT !.early = early]
    BY <1>1, <2>2, <2>4 DEF Occurrences
  <2> QED BY <2>1, <2>3, <2>4 DEF ReportFinished
<1>13. CASE \E i \in Items : DeviceRejects(i)
  <2>1. "device" \in Kinds
    BY DEF Kinds
  <2>2. CASE occ' = [occ EXCEPT !.rejected = TRUE, !.stopping["device"] = Asked(@)]
    <3>1. [occ.stopping EXCEPT !["device"] = Asked(@)] \in [Kinds -> Stops]
      BY <1>1, <2>1 DEF Occurrences, Asked, Stops
    <3> QED BY <1>1, <2>2, <3>1 DEF Occurrences
  <2>3. CASE occ' = [occ EXCEPT !.settled = @ \cup {"device"}] \/ occ' = occ
    BY <1>1, <1>10, <2>1, <2>3
  <2> QED BY <1>13, <2>2, <2>3 DEF DeviceRejects
<1>14. CASE \E i \in Items, k \in Kinds : PlayEnds(i, k)
  BY <1>1, <1>10, <1>14 DEF PlayEnds
<1>15. CASE \E k \in Kinds : StopDone(k)
  <2>1. PICK k \in Kinds : StopDone(k)
    BY <1>15
  <2> DEFINE stops == [occ.stopping EXCEPT ![k] = "done"]
             cleans == IF k = "device" THEN occ.cleaning \ {k} ELSE occ.cleaning
             registers == IF k = "device" /\ k \in occ.cleaning THEN occ.registered \ {k} ELSE occ.registered
  <2>2. stops \in [Kinds -> Stops] /\ cleans \in SUBSET Kinds /\ registers \in SUBSET Kinds
    BY <1>1 DEF Occurrences, Stops
  <2> DEFINE o == [occ EXCEPT !.stopping = stops, !.cleaning = cleans, !.registered = registers]
             r == [o EXCEPT !.rejected = FALSE, !.settled = @ \cup {k}]
  <2>3. Continue(r) \/ occ' = r \/ occ' = o
    BY <2>1 DEF StopDone
  <2> HIDE DEF stops, cleans, registers
  <2>4. o \in Occurrences
    BY <1>1, <2>2 DEF Occurrences
  <2> HIDE DEF o
  <2>5. r \in Occurrences
    BY <2>4 DEF Occurrences
  <2> HIDE DEF r
  <2> QED BY <1>2, <2>3, <2>4, <2>5
<1>16. CASE StopFails
  <2> DEFINE held(outputs) == IF occ.rejected THEN outputs \cup {"device"} ELSE outputs
             left == IF occ.rejected /\ occ.stopper # "device" THEN "none" ELSE "failed"
             stops == [occ.stopping EXCEPT !["device"] = left]
             settle == held(occ.settled)
             cancels == held(occ.cancelled)
  <2>1. stops \in [Kinds -> Stops] /\ settle \in SUBSET Kinds /\ cancels \in SUBSET Kinds
    BY <1>1 DEF Occurrences, Stops, Kinds
  <2>2. occ' = [occ EXCEPT !.stopping = stops, !.cleaning = @ \ {"device"}, !.cancelled = cancels,
                  !.settled = settle, !.watchdog = @ /\ ~occ.rejected, !.rejected = FALSE]
    BY <1>16 DEF StopFails
  <2> HIDE DEF stops, settle, cancels
  <2>3. (occ.watchdog /\ ~occ.rejected) \in BOOLEAN /\ occ.cleaning \ {"device"} \in SUBSET Kinds
    BY <1>1 DEF Occurrences
  <2> QED BY <1>1, <2>1, <2>2, <2>3 DEF Occurrences
<1>17. CASE StopOccurrence
  <2> DEFINE stops == [k \in Kinds |->
                         IF k \in occ.registered THEN Asked(occ.stopping[k]) ELSE occ.stopping[k]]
             stopper == IF "device" \in occ.registered THEN "device" ELSE "desktop"
             commits == occ.committing /\ CommitsAfterStop
  <2>1. stops \in [Kinds -> Stops] /\ stopper \in Kinds /\ commits \in BOOLEAN
        /\ occ.cancelled \cup occ.registered \in SUBSET Kinds
    BY <1>1 DEF Occurrences, Asked, Stops, Kinds
  <2> DEFINE o == [occ EXCEPT !.cancelled = @ \cup occ.registered, !.watchdog = FALSE,
                       !.preparing = {}, !.committing = commits, !.pending = {},
                       !.dispatched = TRUE, !.stopping = stops, !.stopper = stopper]
  <2>2. occ' = o \/ occ' = Delivered(o)
    BY <1>17 DEF StopOccurrence
  <2> HIDE DEF stops, stopper, commits
  <2>3. o \in Occurrences
    BY <1>1, <2>1 DEF Occurrences
  <2> HIDE DEF o
  <2> QED BY <1>2, <2>2, <2>3
<1>18. CASE StopperResumes
  <2> DEFINE k == occ.stopper
             stopper == IF k = "device" /\ "desktop" \in occ.cancelled THEN "desktop" ELSE "finish"
             stops == [occ.stopping EXCEPT ![k] = "none"]
  <2>1. k \in Kinds /\ stops \in [Kinds -> Stops] /\ stopper \in Kinds \cup {"none", "finish"}
    BY <1>1, <1>18 DEF StopperResumes, Resuming, Occurrences, Stops, Kinds
  <2>2. \/ occ' = [occ EXCEPT !.settled = @ \cup {k}, !.stopper = stopper]
        \/ occ' = [occ EXCEPT !.stopping = stops, !.stopper = "none"]
    BY <1>18 DEF StopperResumes
  <2>3. occ.settled \cup {k} \in SUBSET Kinds
    BY <1>1, <2>1 DEF Occurrences
  <2> HIDE DEF stops, stopper, k
  <2>4. CASE occ' = [occ EXCEPT !.settled = @ \cup {k}, !.stopper = stopper]
    BY <1>1, <2>1, <2>3, <2>4 DEF Occurrences
  <2>5. CASE occ' = [occ EXCEPT !.stopping = stops, !.stopper = "none"]
    BY <1>1, <2>1, <2>5 DEF Occurrences
  <2> QED BY <2>2, <2>4, <2>5
<1>19. CASE Close
  <2> DEFINE commits == occ.committing /\ occ.cleaning # {}
  <2>1. commits \in BOOLEAN /\ occ.cancelled \cup occ.registered \in SUBSET Kinds
    BY <1>1 DEF Occurrences
  <2>2. occ' = [occ EXCEPT !.cancelled = @ \cup occ.registered, !.watchdog = FALSE,
                           !.preparing = {}, !.committing = commits, !.pending = {}]
    BY <1>19 DEF Close
  <2> HIDE DEF commits
  <2> QED BY <1>1, <2>1, <2>2 DEF Occurrences
<1> QED BY <1>3, <1>4, <1>5, <1>6, <1>7, <1>8, <1>11, <1>12, <1>13, <1>14, <1>15, <1>16, <1>17, <1>18, <1>19
   DEF PlaybackNext, Skip, WatchdogFires, PreparationEnds, StopSettles

-----------------------------------------------------------------------------
(* The theorems *)

LEMMA PlaybackStart == PlaybackInit => PlaybackInv
<1> SUFFICES ASSUME PlaybackInit PROVE PlaybackInv
  OBVIOUS
<1>1. QueueInv
  BY QueueInitInv DEF PlaybackInit
<1>2. Idle \in Occurrences /\ Sound(Idle, connected, {}, {}, {}, {}) /\ NotDone(Idle, {}) /\ Idle.of = None
  <2>1. None \notin {}
    OBVIOUS
  <2> QED BY <2>1, IdleSound DEF Idle
<1>3. Typed
  BY <1>2 DEF PlaybackInit, Typed, WorldTyped
<1>4. recent = <<>> /\ current = None
  BY DEF PlaybackInit, QueueInit
<1>5. HeldIsDelivered(occ)
  BY DEF PlaybackInit, HeldIsDelivered, Idle
<1> QED BY <1>1, <1>2, <1>3, <1>4, <1>5 
   DEF PlaybackInit, PlaybackInv, OnlyBegun, Follows, Inner, SkippedStaysSkipped

LEMMA PlaybackStep == PlaybackInv /\ [PlaybackNext]_playbackVars => PlaybackInv'
<1>1. ASSUME PlaybackInv, UNCHANGED playbackVars PROVE PlaybackInv'
  <2>1. /\ QueueInv' /\ UNCHANGED <<current, queued, recent, next, shape, closed, occ, connected,
                                    playing, sounding, showing, asked, unstopped>>
    BY <1>1, QueueMoves DEF playbackVars, world, past, PlaybackInv, queueVars
  <2>2. Typed' /\ Follows' /\ SkippedStaysSkipped' /\ HeldIsDelivered(occ)'
    BY <1>1, <2>1 DEF PlaybackInv, Typed, WorldTyped, Follows, SkippedStaysSkipped
  <2>3. OnlyBegun'
    BY <1>1, <2>1 DEF PlaybackInv, OnlyBegun, Begun
  <2>4. ~closed' => Inner'
    BY <1>1, <2>1 DEF PlaybackInv, Inner
  <2> QED BY <2>1, <2>2, <2>3, <2>4 DEF PlaybackInv
<1>2. ASSUME PlaybackInv, PlaybackNext PROVE PlaybackInv'
  <2>1. QueueInv'
    BY <1>2, QueueSteps, QueueMoves DEF PlaybackInv
  <2>2. Typed'
    BY <1>2, WorldTypedStep, OccurrenceStep DEF Typed
  <2>3. OnlyBegun' /\ HeldIsDelivered(occ)'
    BY <1>2, <2>2, OnlyBegunStep, HeldStep
  <2>4. Follows' /\ SkippedStaysSkipped' /\ (~closed' => Inner')
    <3>1. CASE closed
      BY <1>2, <3>1, ClosedPlayback
    <3>2. CASE Close
      BY <1>2, <3>2, CloseStep
    <3>3. CASE ~closed /\ ~Close
      BY <1>2, <2>2, <3>3, OpenQueueStep, OpenPreparationStep, OpenCleanStep, OpenCommitStep,
         OpenReportStep, OpenDisconnectStep, OpenPlayEndsStep, OpenRejectsStep, OpenStopDoneStep,
         OpenStopFailsStep, OpenStopStep, OpenResumesStep, OpenAdvancesStep
         DEF PlaybackNext, StopSettles, Skip, WatchdogFires
    <3> QED BY <3>1, <3>2, <3>3
  <2> QED BY <2>1, <2>2, <2>3, <2>4 DEF PlaybackInv
<1> QED BY <1>1, <1>2

LEMMA PlaybackInvariant == PlaybackSpec => []PlaybackInv
BY PlaybackStart, PlaybackStep, PTL DEF PlaybackSpec

\* The coordinator's state is well formed.
THEOREM PlaybackTyped == PlaybackSpec => []PlaybackTypeOK
<1>1. PlaybackInv => PlaybackTypeOK
  BY DEF PlaybackInv, QueueInv, Typed, WorldTyped, Occurrences, PlaybackTypeOK
<1> QED BY <1>1, PlaybackInvariant, PTL

\* The queue never advances while something of the occurrence is heard or shown,
\* whatever plays end, reject or are stopped, and whoever reports or leaves.
THEOREM PlaybackOnlyCurrent == PlaybackSpec => []OnlyCurrentPlays
<1>1. PlaybackInv => OnlyCurrentPlays
  BY DEF PlaybackInv, OnlyCurrentPlays, Follows, Inner, Sound, HeardIsWaitedFor, ShownIsWaitedFor
<1> QED BY <1>1, PlaybackInvariant, PTL

\* Nobody waits for a client that left, before, during or after the dispatch.
THEOREM PlaybackAwaitsConnected == PlaybackSpec => []AwaitsOnlyConnected
<1>1. PlaybackInv => AwaitsOnlyConnected
  BY DEF PlaybackInv, AwaitsOnlyConnected, Follows, Inner, Sound, Awaits
<1> QED BY <1>1, PlaybackInvariant, PTL

\* The last acknowledgement, whichever it is, advances the queue.
THEOREM PlaybackAdvances == PlaybackSpec => []AdvancesWhenDone
<1>1. PlaybackInv => AdvancesWhenDone
  BY DEF PlaybackInv, AdvancesWhenDone, Inner, NotDone, Undisturbed
<1> QED BY <1>1, PlaybackInvariant, PTL

\* No late answer turns a skipped or overdue occurrence into a completed one.
THEOREM PlaybackSkipped == PlaybackSpec => []SkippedStaysSkipped
<1>1. PlaybackInv => SkippedStaysSkipped
  BY DEF PlaybackInv
<1> QED BY <1>1, PlaybackInvariant, PTL

\* The coordinator uses the queue as it is meant to be used: every step of the
\* one is an operation of the other, or leaves it alone.
THEOREM PlaybackUsesQueue == PlaybackSpec => QueueSpec
<1>1. PlaybackInit => QueueInit
  BY DEF PlaybackInit
<1>2. PlaybackInv /\ [PlaybackNext]_playbackVars => [QueueNext]_queueVars
  <2>1. PlaybackInv => QueueInv
    BY DEF PlaybackInv
  <2>2. UNCHANGED playbackVars => UNCHANGED queueVars
    BY DEF playbackVars
  <2> QED BY <2>1, <2>2, QueueSteps
<1> QED BY <1>1, <1>2, PlaybackInvariant, PTL DEF PlaybackSpec, QueueSpec

\* Under the coordinator, too, nothing waits while nothing plays and nothing
\* holds the queue.
THEOREM PlaybackNeverIdle == PlaybackSpec => []NeverIdle
BY PlaybackUsesQueue, QueueNeverIdle, PTL

\* Under the coordinator, too, what starts was first in line and starts after
\* the media of the occurrence before it was released.
THEOREM PlaybackStartsFirst == PlaybackSpec => StartsFirst
BY PlaybackUsesQueue, QueueStartsFirst
=============================================================================
