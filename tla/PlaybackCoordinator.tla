------------------------- MODULE PlaybackCoordinator -------------------------
(***************************************************************************)
(* The owner of the alert queue: it prepares the outputs of the current    *)
(* occurrence, starts them together, collects the acknowledgements, and    *)
(* advances the queue when every output is done, skipped or overdue.       *)
(*   apps/server/src/modules/playback/playback-coordinator.ts              *)
(*                                                                         *)
(* An action is the code between two awaits.  Outputs are the instructions *)
(* an occurrence sends to browser clients, one device playback and one     *)
(* desktop playback.  The sinks are those the runtime installs: all of     *)
(* them prepare before they start, so delivery never completes in the same *)
(* step.  What an occurrence shows, mute, logging, speech and the media    *)
(* leases are abstracted.                                                  *)
(***************************************************************************)
EXTENDS PlaybackQueue, FiniteSets

CONSTANTS
  Clients,        \* browser overlay clients
  Instructions,   \* names of the instructions of an occurrence
  Shapes,         \* the sets of outputs an occurrence may have
  StopsMayFail,   \* whether a sink may fail to acknowledge a stop
  Operations      \* bound: the queue operations users perform

Kinds == {"device", "desktop"}
Recipients == Instructions \cup Kinds

ASSUME CoordinatorAssumption ==
  /\ Instructions \cap Kinds = {}
  /\ Shapes \subseteq SUBSET Recipients \ {{}}
  /\ StopsMayFail \in BOOLEAN
  /\ Operations \subseteq {"remove", "clear", "module", "safety", "pause", "disturb", "close"}

VARIABLES
  shape,       \* the outputs of each occurrence
  closed,      \* #closed
  occ,         \* what the coordinator holds of the occurrence it delivered last
  (* the world *)
  connected,   \* browser clients with an open socket
  playing,     \* device and desktop plays whose promise has not settled
  sounding,    \* device and desktop plays that may still be heard or seen
  showing,     \* instructions that a client still shows
  (* history *)
  asked,       \* occurrences somebody asked to stop
  unstopped    \* occurrences for which a stop failed

world == <<connected, playing, sounding, showing>>
past == <<asked, unstopped>>
playbackVars == <<queueVars, shape, closed, occ, world, past>>

Stops == {"none", "pending", "done", "failed"}
Idle ==
  [of |-> None,               \* #lastDeliveredCurrentItemId
   registered |-> {},         \* #devicePlayback and #desktopPlayback, if not null
   cancelled |-> {}, settled |-> {},
   stopping |-> [k \in Kinds |-> "none"],
   pending |-> {},            \* the keys of #pendingClientsByInstructionId
   clients |-> [n \in Instructions |-> {}],   \* who has to finish them
   early |-> [n \in Instructions |-> {}],     \* completedBeforeDispatch
   dispatched |-> TRUE,       \* #browserDispatchComplete
   preparing |-> {},          \* preparations that have not settled
   cleaning |-> {},           \* failed ones whose stop is awaited
   ready |-> {},              \* starters
   committing |-> FALSE,      \* commit is still to run
   watchdog |-> FALSE,        \* #completionTimer
   rejected |-> FALSE,        \* device play rejected, its stop is awaited
   stopper |-> "none"]        \* what #stoppingOccurrence awaits next

\* Mutant: browser work is registered with the device and the desktop.
FreshUnsorted(i) ==
  [Idle EXCEPT !.of = i, !.registered = shape'[i], !.pending = shape'[i] \cap Instructions,
               !.dispatched = FALSE, !.preparing = shape'[i], !.committing = TRUE]

\* #deliverGroup registers every obligation before an output can answer.
Fresh(i) ==
  [Idle EXCEPT !.of = i, !.registered = shape'[i] \cap Kinds,
               !.pending = shape'[i] \cap Instructions, !.dispatched = FALSE,
               !.preparing = shape'[i], !.committing = TRUE]

\* #deliverCurrent, after an operation of the queue.
Delivered(o) ==
  IF closed \/ current' = o.of THEN o
  ELSE IF current' = None THEN Idle ELSE Fresh(current')

-----------------------------------------------------------------------------
\* Mutant: a device that failed to settle is not waited for.
CanCompleteBrowsersOnly(o) == o.dispatched /\ o.pending = {}

\* #canCompleteCurrent
CanComplete(o) == o.dispatched /\ o.pending = {} /\ o.registered \subseteq o.settled

\* Mutant: completion does not look at a stop in flight.
UndisturbedAlways(o) == ~closed

\* The guard of completeCurrent(): nobody asked an output to stop.
Undisturbed(o) == ~closed /\ o.registered \cap o.cancelled = {}

\* Mutant: the last acknowledgement waits for the watchdog.
ContinueLater(o) == occ' = o /\ UNCHANGED queueVars

\* The occurrence goes on as o, or is complete and the queue advances.
Continue(o) ==
  \/ /\ CanComplete(o) /\ Undisturbed(o)
     /\ Finish("completed")
     /\ occ' = Delivered(o)
  \/ /\ ~(CanComplete(o) /\ Undisturbed(o))
     /\ occ' = o
     /\ UNCHANGED queueVars

Active == ~closed /\ current = occ.of /\ occ.stopper = "none"
Of(i, outputs) == {i} \X outputs

-----------------------------------------------------------------------------
PlaybackInit ==
  /\ QueueInit
  /\ shape = [i \in Items |-> {}]
  /\ closed = FALSE
  /\ occ = Idle
  /\ connected = Clients
  /\ playing = {} /\ sounding = {} /\ showing = {}
  /\ asked = {} /\ unstopped = {}

\* Mutant: what was resolved while the coordinator closed is enqueued.
EnqueueResolvedLate(p, s) ==
  /\ shape' = [shape EXCEPT ![next + 1] = s]
  /\ Enqueue(p)
  /\ occ' = Delivered(occ)
  /\ UNCHANGED <<closed, world, past>>

\* enqueueResolvedTest(), with what an event, a test or a replay resolved to.
EnqueueResolved(p, s) ==
  /\ ~closed
  /\ shape' = [shape EXCEPT ![next + 1] = s]
  /\ Enqueue(p)
  /\ occ' = Delivered(occ)
  /\ UNCHANGED <<closed, world, past>>

QueueOperation ==
  /\ \/ "remove" \in Operations /\ \E i \in Items : Remove(i)
     \/ "clear" \in Operations /\ ClearPending
     \/ "module" \in Operations /\ \E value \in BOOLEAN : SetModulePaused(value)
     \/ "safety" \in Operations /\ \E p, d \in BOOLEAN : SetSafetyState(p, d)
     \/ "pause" \in Operations /\ (Pause \/ Resume)
     \/ "disturb" \in Operations /\ \E value \in BOOLEAN : SetDoNotDisturb(value)
  /\ UNCHANGED <<shape, closed, world, past>>
  /\ occ' = Delivered(occ)

-----------------------------------------------------------------------------
(* Preparation and start *)

\* A browser instruction is prepared by some of the connected clients.
InstructionReady(n) ==
  /\ n \in occ.preparing \cap Instructions
  /\ \E c \in SUBSET connected :
       occ' = [occ EXCEPT !.preparing = @ \ {n}, !.ready = @ \cup {n}, !.clients[n] = c]
  /\ UNCHANGED <<queueVars, shape, closed, world, past>>

PlaybackReady(k) ==
  /\ k \in occ.preparing \cap Kinds
  /\ occ' = [occ EXCEPT !.preparing = @ \ {k}, !.ready = @ \cup {k}]
  /\ UNCHANGED <<queueVars, shape, closed, world, past>>

Asked(promise) == IF promise = "none" THEN "pending" ELSE promise

\* A preparation fails or is late: an instruction is given up, a desktop
\* counts as settled and a device as cancelled while they are stopped.
PreparationFails(r) ==
  /\ r \in occ.preparing
  /\ occ' = CASE r \in Instructions ->
                   [occ EXCEPT !.preparing = @ \ {r}, !.pending = @ \ {r}]
              [] r = "desktop" ->
                   [occ EXCEPT !.preparing = @ \ {r}, !.settled = @ \cup {r},
                               !.cleaning = @ \cup {r}]
              [] r = "device" ->
                   [occ EXCEPT !.preparing = @ \ {r}, !.cancelled = @ \cup {r},
                               !.cleaning = @ \cup {r}, !.stopping[r] = Asked(@)]
  /\ UNCHANGED <<queueVars, shape, closed, world, past>>

\* The stop a failed desktop preparation asked for, whatever becomes of it.
DesktopCleaned ==
  /\ "desktop" \in occ.cleaning
  /\ occ' = [occ EXCEPT !.cleaning = @ \ {"desktop"}]
  /\ UNCHANGED <<queueVars, shape, closed, world, past>>

\* A stop sequence that awaits a settled promise resumes before commit does.
Resuming == occ.stopper \in Kinds /\ occ.stopping[occ.stopper] \in {"done", "failed"}

\* commit: the watchdog is set and whatever got ready starts, or fails to.  A
\* client that disconnected or finished in the meantime is not waited for.  A
\* desktop that was stopped since is started, too: its sink lets it end unseen.
Commit ==
  LET starting == (occ.ready \cap Kinds) \ (occ.cancelled \cap {"device"})
      awaited(n) == occ.clients[n] \ occ.early[n]
  IN
  /\ occ.committing /\ occ.preparing = {} /\ occ.cleaning = {} /\ ~Resuming
  /\ UNCHANGED <<shape, closed, connected, past>>
  /\ \/ /\ Active
        /\ playing' = playing \cup Of(occ.of, starting)
        /\ sounding' = sounding \cup Of(occ.of, starting \ occ.cancelled)
        /\ \E shown \in SUBSET (occ.ready \cap occ.pending) :
             LET left == {n \in shown : awaited(n) # {}} IN
             /\ showing' = showing \cup
                  {w \in {occ.of} \X left \X connected : w[3] \in awaited(w[2])}
             /\ Continue([occ EXCEPT
                  !.committing = FALSE, !.dispatched = TRUE, !.watchdog = TRUE, !.ready = {},
                  !.pending = left, !.clients = [n \in Instructions |-> awaited(n)],
                  !.settled = @ \cup (occ.ready \cap occ.cancelled \cap {"device"})])
     \/ /\ ~Active
        /\ occ' = [occ EXCEPT !.committing = FALSE, !.ready = {}]
        /\ UNCHANGED <<queueVars, playing, sounding, showing>>

-----------------------------------------------------------------------------
(* Acknowledgements *)

\* reportInstructionFinished: before the dispatch it is remembered.
ReportFinished(c, n) ==
  /\ c \in connected /\ n \in occ.pending /\ current = occ.of
  /\ showing' = showing \ {<<occ.of, n, c>>}
  /\ UNCHANGED <<shape, closed, connected, playing, sounding, past>>
  /\ \/ /\ ~occ.dispatched
        /\ occ' = [occ EXCEPT !.early[n] = @ \cup {c}]
        /\ UNCHANGED queueVars
     \/ /\ occ.dispatched /\ c \in occ.clients[n]
        /\ Continue([occ EXCEPT !.clients[n] = @ \ {c},
                                !.pending = IF occ.clients[n] = {c} THEN @ \ {n} ELSE @])

\* Mutant: a client that leaves before the dispatch is not remembered.
LeftEarlyForgotten(c) == occ.early

\* Before the dispatch a client that leaves is remembered.
LeftEarly(c) == [n \in Instructions |-> occ.early[n] \cup {k \in {c} : n \in occ.pending}]

\* reportClientDisconnected: nobody waits for the client any more.
Disconnect(c) ==
  LET freed == {n \in occ.pending : c \in occ.clients[n]} IN
  /\ c \in connected
  /\ connected' = connected \ {c}
  /\ showing' = {s \in showing : s[3] # c}
  /\ UNCHANGED <<shape, closed, playing, sounding, past>>
  /\ \/ /\ current # occ.of \/ occ.pending = {}
        /\ UNCHANGED <<occ, queueVars>>
     \/ /\ current = occ.of /\ occ.pending # {} /\ ~occ.dispatched
        /\ occ' = [occ EXCEPT !.early = LeftEarly(c)]
        /\ UNCHANGED queueVars
     \/ /\ current = occ.of /\ occ.pending # {} /\ occ.dispatched /\ freed = {}
        /\ UNCHANGED <<occ, queueVars>>
     \/ /\ current = occ.of /\ occ.dispatched /\ freed # {}
        /\ Continue([occ EXCEPT !.clients = [n \in Instructions |-> @[n] \ {c}],
                                !.pending = @ \ {n \in freed : occ.clients[n] = {c}}])

\* this.#devicePlayback === state
SamePlayback(i, k) == i = occ.of /\ k \in occ.registered

\* The play of a device or desktop ends; a failed desktop play is over too.
PlayEnds(i, k) ==
  /\ <<i, k>> \in playing
  /\ playing' = playing \ {<<i, k>>}
  /\ sounding' = sounding \ {<<i, k>>}
  /\ UNCHANGED <<shape, closed, connected, showing, past>>
  /\ \/ /\ SamePlayback(i, k) /\ k \notin occ.cancelled
        /\ Continue([occ EXCEPT !.settled = @ \cup {k}])
     \/ /\ SamePlayback(i, k) /\ k \in occ.cancelled
        /\ occ' = [occ EXCEPT !.settled = @ \cup {k}]
        /\ UNCHANGED queueVars
     \/ /\ ~SamePlayback(i, k)
        /\ UNCHANGED <<occ, queueVars>>

\* A device play rejects: it may still be heard until a stop is acknowledged.
DeviceRejects(i) ==
  /\ <<i, "device">> \in playing
  /\ playing' = playing \ {<<i, "device">>}
  /\ \/ /\ SamePlayback(i, "device") /\ "device" \notin occ.cancelled /\ ~closed
        /\ occ' = [occ EXCEPT !.rejected = TRUE, !.stopping["device"] = Asked(@)]
     \/ /\ SamePlayback(i, "device") /\ ("device" \in occ.cancelled \/ closed)
        /\ occ' = [occ EXCEPT !.settled = @ \cup {"device"}]
     \/ /\ ~SamePlayback(i, "device")
        /\ UNCHANGED occ
  /\ UNCHANGED <<queueVars, shape, closed, connected, sounding, showing, past>>

-----------------------------------------------------------------------------
(* Stops *)

\* A stop is acknowledged: the output is silent.
StopDone(k) ==
  LET o == [occ EXCEPT !.stopping[k] = "done",
                       !.cleaning = IF k = "device" THEN @ \ {k} ELSE @,
                       !.registered = IF k = "device" /\ k \in occ.cleaning THEN @ \ {k} ELSE @]
  IN
  /\ occ.stopping[k] = "pending"
  /\ sounding' = sounding \ {<<occ.of, k>>}
  /\ UNCHANGED <<shape, closed, connected, playing, showing, past>>
  /\ \/ /\ k = "device" /\ occ.rejected
        /\ \/ /\ k \notin occ.cancelled
              /\ Continue([o EXCEPT !.rejected = FALSE, !.settled = @ \cup {k}])
           \/ /\ k \in occ.cancelled
              /\ occ' = [o EXCEPT !.rejected = FALSE, !.settled = @ \cup {k}]
              /\ UNCHANGED queueVars
     \/ /\ ~(k = "device" /\ occ.rejected)
        /\ occ' = o
        /\ UNCHANGED queueVars

\* A stop of the device fails; a stop of the desktop always resolves.  After a
\* rejected play nothing but an explicit skip goes on; after a failed
\* preparation the failed promise stays where it is.
StopFails ==
  LET held(outputs) == IF occ.rejected THEN outputs \cup {"device"} ELSE outputs IN
  /\ StopsMayFail
  /\ occ.stopping["device"] = "pending"
  /\ occ' = [occ EXCEPT
       !.stopping["device"] = IF occ.rejected /\ occ.stopper # "device" THEN "none" ELSE "failed",
       !.cleaning = @ \ {"device"},
       !.cancelled = held(@), !.settled = held(@),
       !.watchdog = @ /\ ~occ.rejected, !.rejected = FALSE]
  /\ unstopped' = IF occ.rejected THEN unstopped \cup {occ.of} ELSE unstopped
  /\ UNCHANGED <<queueVars, shape, closed, world, asked>>

\* The cancelled preparations settle while the occurrence is being stopped, so
\* that commit finds nothing to do, unless it also waits for the stop of a failed
\* preparation, or the device has rejected its stop already: then the stop
\* sequence ends first.
CommitsAfterStop == occ.cleaning # {} \/ occ.stopping["device"] = "failed"

\* #stopOccurrenceAndAdvance up to its first await: preparations are cancelled,
\* browsers stopped, and every output is asked to stop unless it was already.
\* With neither device nor desktop the queue advances at once.
StopOccurrence ==
  LET o == [occ EXCEPT !.cancelled = @ \cup occ.registered, !.watchdog = FALSE,
                       !.preparing = {}, !.committing = @ /\ CommitsAfterStop,
                       !.pending = {}, !.dispatched = TRUE,
                       !.stopping = [k \in Kinds |->
                          IF k \in occ.registered THEN Asked(@[k]) ELSE @[k]],
                       !.stopper = IF "device" \in occ.registered THEN "device" ELSE "desktop"]
  IN
  /\ ~closed /\ current # None /\ current = occ.of /\ occ.stopper = "none"
  /\ asked' = asked \cup {current}
  /\ showing' = {s \in showing : s[1] # current}
  /\ UNCHANGED <<shape, closed, connected, playing, sounding, unstopped>>
  /\ \/ /\ occ.registered # {}
        /\ occ' = o
        /\ UNCHANGED queueVars
     \/ /\ occ.registered = {}
        /\ Finish("skipped")
        /\ occ' = Delivered(o)

\* skipCurrent(), skip()
Skip == StopOccurrence

\* Mutant: the watchdog stops only what is complete.
WatchdogWaits == occ.watchdog /\ CanComplete(occ) /\ StopOccurrence

\* #handleWatchdog
WatchdogFires == occ.watchdog /\ StopOccurrence

\* The stop sequence resumes: first the device, then the desktop.
StopperResumes ==
  LET k == occ.stopper IN
  /\ Resuming
  /\ \/ /\ occ.stopping[k] = "done"
        /\ occ' = [occ EXCEPT !.settled = @ \cup {k},
                              !.stopper = IF k = "device" /\ "desktop" \in occ.cancelled
                                          THEN "desktop" ELSE "finish"]
        /\ UNCHANGED unstopped
     \/ /\ occ.stopping[k] = "failed"
        /\ occ' = [occ EXCEPT !.stopping[k] = "none", !.stopper = "none"]
        /\ unstopped' = unstopped \cup {occ.of}
  /\ UNCHANGED <<queueVars, shape, closed, world, asked>>

StopperAdvances ==
  /\ occ.stopper = "finish"
  /\ UNCHANGED <<shape, closed, world, past>>
  /\ \/ /\ ~closed /\ current = occ.of
        /\ Finish("skipped")
        /\ occ' = Delivered(occ)
     \/ /\ closed \/ current # occ.of
        /\ occ' = [occ EXCEPT !.stopper = "none"]
        /\ UNCHANGED queueVars

\* close()
Close ==
  /\ "close" \in Operations /\ ~closed
  /\ closed' = TRUE
  /\ occ' = [occ EXCEPT !.cancelled = @ \cup occ.registered, !.watchdog = FALSE,
                        !.preparing = {}, !.committing = @ /\ occ.cleaning # {}, !.pending = {}]
  /\ showing' = {}
  /\ Shutdown
  /\ UNCHANGED <<shape, connected, playing, sounding, past>>

PreparationEnds(r) == InstructionReady(r) \/ PlaybackReady(r) \/ PreparationFails(r)
StopSettles(k) == StopDone(k) \/ (k = "device" /\ StopFails)

PlaybackNext ==
  \/ \E p \in Priorities, s \in Shapes : EnqueueResolved(p, s)
  \/ QueueOperation
  \/ \E r \in Recipients : PreparationEnds(r)
  \/ DesktopCleaned \/ Commit
  \/ \E c \in Clients : Disconnect(c) \/ \E n \in Instructions : ReportFinished(c, n)
  \/ \E i \in Items : DeviceRejects(i) \/ \E k \in Kinds : PlayEnds(i, k)
  \/ \E k \in Kinds : StopSettles(k)
  \/ Skip \/ WatchdogFires \/ StopperResumes \/ StopperAdvances
  \/ Close

PlaybackSpec == PlaybackInit /\ [][PlaybackNext]_playbackVars

\* Preparations time out, timers fire, sinks answer a stop within a deadline.
\* No client has to report and no play has to end.
PlaybackFairness ==
  /\ \A r \in Recipients : WF_playbackVars(PreparationEnds(r))
  /\ \A k \in Kinds : WF_playbackVars(StopSettles(k))
  /\ WF_playbackVars(DesktopCleaned) /\ WF_playbackVars(Commit)
  /\ WF_playbackVars(WatchdogFires)
  /\ WF_playbackVars(StopperResumes) /\ WF_playbackVars(StopperAdvances)

FairPlaybackSpec == PlaybackSpec /\ PlaybackFairness

-----------------------------------------------------------------------------
(* Properties *)

PlaybackTypeOK ==
  /\ QueueTypeOK
  /\ shape \in [Items -> Shapes \cup {{}}]
  /\ closed \in BOOLEAN
  /\ occ.of \in Items \cup {None}
  /\ occ.registered \subseteq Kinds /\ occ.cancelled \subseteq Kinds
  /\ occ.settled \subseteq Kinds /\ occ.cleaning \subseteq Kinds
  /\ occ.stopping \in [Kinds -> Stops]
  /\ occ.pending \subseteq Instructions
  /\ occ.clients \in [Instructions -> SUBSET Clients]
  /\ occ.early \in [Instructions -> SUBSET Clients]
  /\ occ.preparing \subseteq Recipients /\ occ.ready \subseteq Recipients
  /\ occ.dispatched \in BOOLEAN /\ occ.committing \in BOOLEAN
  /\ occ.watchdog \in BOOLEAN /\ occ.rejected \in BOOLEAN
  /\ occ.stopper \in Kinds \cup {"none", "finish"}
  /\ connected \subseteq Clients
  /\ playing \subseteq Items \X Kinds /\ sounding \subseteq Items \X Kinds
  /\ showing \subseteq Items \X Instructions \X Clients
  /\ asked \subseteq Items /\ unstopped \subseteq Items

\* Until the coordinator closes, nothing of an occurrence is heard or shown
\* unless it is the current one: the queue advances only after every browser
\* client finished, left or was stopped, and device and desktop are silent.
OnlyCurrentPlays ==
  ~closed =>
    /\ \A o \in sounding : o[1] = current
    /\ \A o \in showing : o[1] = current

\* Nothing waits for a client that is gone, whenever it left: before the
\* instruction was prepared, between that and the start, or after it.
AwaitsOnlyConnected ==
  occ.dispatched =>
    \A n \in occ.pending : occ.clients[n] # {} /\ occ.clients[n] \subseteq connected

\* No occurrence is done and still current: whichever acknowledgement,
\* disconnection, failure or start came last has advanced the queue, unless
\* somebody asked to stop the occurrence.
AdvancesWhenDone ==
  occ.of # None /\ Undisturbed(occ) /\ occ.of \notin asked => ~CanComplete(occ)

\* An occurrence somebody asked to skip, or that was overdue, is never recorded
\* as completed, whatever answers arrive after the request.
SkippedStaysSkipped ==
  \A n \in DOMAIN recent : recent[n].status = "completed" => recent[n].id \notin asked

\* After close nothing starts: no occurrence, no device, no browser.
SilentAfterClose ==
  [][closed => /\ current' \in {current, None}
               /\ sounding' \subseteq sounding
               /\ showing' \subseteq showing]_playbackVars

\* Every occurrence ends, whatever its outputs do, unless a sink failed to
\* acknowledge a stop: then it is held for an explicit skip.
EveryOccurrenceEnds ==
  \A i \in Items : current = i ~> (current # i \/ closed \/ i \in unstopped)

\* When the watchdog expires it asks every output to stop: it does not take the
\* failure of an earlier stop for the answer to this one.
ExpiryAsksOutputs ==
  [][occ.watchdog /\ occ.stopper = "none" /\ occ'.stopper \in Kinds =>
       \A k \in occ'.registered : occ'.stopping[k] # "failed"]_playbackVars
=============================================================================
