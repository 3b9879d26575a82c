----------------------------- MODULE VideoMirror -----------------------------
(***************************************************************************)
(* The desktop player that shows the queue's video, and the messages       *)
(* between it and the local service.                                       *)
(*   apps/server/src/modules/videos/video-mirror-director.ts               *)
(*   apps/desktop/src/videos/worker-video-client.ts, video-player-host.ts  *)
(*                                                                         *)
(* Both directions are ordered.  Positions, controls, audio destinations   *)
(* and the signaling of receivers are abstracted; the page that renders is *)
(* external and may report anything its host lets through.                 *)
(***************************************************************************)
EXTENDS VideoQueue

CONSTANTS
  MaxMessages,   \* bound: messages under way, when one more is caused
  MaxFaults,     \* bound: leases that expire and restarts of the service
  MaxMirrored    \* bound: requests, none with a review, while the desktop app runs

ASSUME MirrorAssumption == MaxMessages \in Nat /\ MaxFaults \in Nat /\ MaxMirrored \in Nat

VARIABLES
  desktop,     \* whether the desktop app runs
  available,   \* #available of the director and of its client
  sent,        \* #sent
  commands,    \* from the service to the player
  events,      \* from the player to the service
  player,      \* the host: #owned, #announced and the item of its session
  losses       \* leases that expired so far

mirrorVars == <<desktop, available, sent, commands, events, player, losses>>
allVars == <<videoVars, mirrorVars>>

NothingSent == [item |-> None, paused |-> FALSE, seeks |-> 0]
Empty == [owned |-> TRUE, announced |-> FALSE, item |-> None, paused |-> FALSE,
          seeks |-> 0, started |-> FALSE]
Command(type, view) == [type |-> type, item |-> view.item, paused |-> view.paused, seeks |-> view.seeks]
Lease == Command("lease", NothingSent)
UnderWay == Len(commands) + Len(events)
Event(type, i, length) == [type |-> type, item |-> i, length |-> length]
Status(up) == Event(IF up THEN "available" ELSE "unavailable", None, "unknown")

-----------------------------------------------------------------------------
(* The director *)

\* Mutant: a pause or a seek of the video that is loaded is not passed on.
ChangesLoadOnly(from, view) ==
  IF view.item = from.item THEN <<>>
  ELSE IF view.item = None THEN <<Command("stop", view)>>
  ELSE <<Command("load", view)>>

\* queueChanged: the commands from what was sent to what is shown now.
Changes(from, view) ==
  IF view.item # from.item
  THEN <<Command(IF view.item = None THEN "stop" ELSE "load", view)>>
  ELSE (IF view.seeks # from.seeks THEN <<Command("seek", view)>> ELSE <<>>)
    \o (IF view.paused # from.paused
        THEN <<Command(IF view.paused THEN "pause" ELSE "play", view)>> ELSE <<>>)

Tell(up, from, view) ==
  /\ sent' = IF up THEN view ELSE from
  /\ commands' = IF up THEN commands \o Changes(from, view) ELSE commands

\* The director listens to the queue.
Listen == IF told' # told THEN Tell(available, sent, told') ELSE UNCHANGED <<sent, commands>>

\* Mutant: a player that comes back is not given the current video.
ReceiveStatusOnly(up) ==
  /\ available' = up /\ sent' = NothingSent
  /\ UNCHANGED <<videoVars, commands>>

\* status: what was sent counts no more, and the player is told afresh.
ReceiveStatus(up) ==
  /\ available' = up
  /\ IF up = available THEN UNCHANGED <<sent, commands>> ELSE Tell(up, NothingSent, told)
  /\ UNCHANGED videoVars

Counts(e) == current.item = e.item /\ sent.item = e.item

\* report: it counts for the video that is current and was sent.
ReceiveReport(e, g) ==
  /\ UNCHANGED available
  /\ IF Counts(e)
     THEN /\ \/ e.type = "started" /\ ReportStarted(e.item, e.length, g)
             \/ e.type = "progress" /\ IF Learns(queue, e.length) THEN ReportLength(e.item, e.length, g)
                                       ELSE UNCHANGED videoVars
             \/ e.type \in {"played", "failed"} /\ ReportOver(e.item, e.type, g)
          /\ Listen
     ELSE UNCHANGED <<videoVars, sent, commands>>

Receive ==
  /\ events # <<>> /\ events' = Tail(events)
  /\ LET e == Head(events)
     IN IF e.type \in {"available", "unavailable"} THEN ReceiveStatus(e.type = "available")
        ELSE \E g \in BOOLEAN : ReceiveReport(e, g)
  /\ UNCHANGED <<player, losses>>

\* The client's lease; one at a time is under way.
SendLease ==
  /\ desktop /\ \A k \in DOMAIN commands : commands[k] # Lease
  /\ UnderWay < MaxMessages /\ commands' = Append(commands, Lease)
  /\ UNCHANGED <<videoVars, available, sent, events, player, losses>>

-----------------------------------------------------------------------------
(* The host of the player *)

\* handle: without an owner everything is dropped.
Handled(p, c) ==
  IF ~p.owned THEN p
  ELSE CASE c.type = "load" -> [p EXCEPT !.item = c.item, !.paused = c.paused, !.seeks = c.seeks, !.started = FALSE]
         [] c.type = "stop" -> [p EXCEPT !.item = None]
         [] c.type \in {"play", "pause"} /\ p.item = c.item -> [p EXCEPT !.paused = c.paused]
         [] c.type = "seek" /\ p.item = c.item -> [p EXCEPT !.seeks = c.seeks]
         [] OTHER -> p

HandleCommand ==
  /\ commands # <<>> /\ Head(commands) # Lease
  /\ commands' = Tail(commands) /\ player' = Handled(player, Head(commands))
  /\ UNCHANGED <<videoVars, available, sent, events, losses>>

\* refreshLease: the first one announces the player.
RefreshLease ==
  /\ commands # <<>> /\ Head(commands) = Lease /\ commands' = Tail(commands)
  /\ player' = [player EXCEPT !.owned = TRUE, !.announced = TRUE]
  /\ events' = IF player.announced THEN events ELSE Append(events, Status(TRUE))
  /\ UNCHANGED <<videoVars, available, sent, losses>>

\* serviceLost, when no lease came in time.
LeaseExpires ==
  /\ desktop /\ player.owned /\ losses + restarts < MaxFaults /\ losses' = losses + 1
  /\ player' = [Empty EXCEPT !.owned = FALSE]
  /\ events' = IF player.announced THEN Append(events, Status(FALSE)) ELSE events
  /\ UNCHANGED <<videoVars, available, sent, commands>>

\* A report of the page, or of the host when the window is lost.
PlayerReports(type, length) ==
  /\ player.item # None /\ UnderWay < MaxMessages
  /\ \/ type = "started" /\ ~player.started /\ player' = [player EXCEPT !.started = TRUE]
     \/ type = "progress" /\ player.started /\ length # "unknown" /\ UNCHANGED player
     \/ /\ type \in {"played", "failed"} /\ length = "unknown"
        /\ player' = [player EXCEPT !.item = None]
  /\ events' = Append(events, Event(type, player.item, length))
  /\ UNCHANGED <<videoVars, available, sent, commands, losses>>

-----------------------------------------------------------------------------
(* The composition *)

MirrorInit ==
  /\ VideoInit /\ desktop \in BOOLEAN
  /\ available = FALSE /\ sent = NothingSent
  /\ commands = <<>> /\ events = <<>> /\ player = Empty /\ losses = 0

\* reportPlayback: browser sources count only without the desktop player, and
\* a failure only while the video loads.
BrowserReports ==
  /\ ~available
  /\ \E i \in Ids, g \in BOOLEAN :
       \/ \E l \in Lengths : ReportStarted(i, "unknown", g) \/ ReportLength(i, l, g)
       \/ ReportOver(i, "played", g)
       \/ current.phase = "loading" /\ ReportOver(i, "failed", g)
  /\ Listen /\ UNCHANGED <<available, events, player, losses>>

\* A call on the queue, which the director hears of before it returns.
Heard(call) == call /\ Listen /\ UNCHANGED <<available, events, player, losses>>
QueueSteps ==
  \/ Heard(OperatorSteps \/ LookupSteps) /\ UnderWay' <= MaxMessages
  \/ Heard(TimerSteps)

\* A new service process: the host ends the old one's ownership, and what the
\* old one sent or was sent has another generation.
RestartService ==
  /\ Restart /\ losses + restarts < MaxFaults
  /\ available' = FALSE /\ sent' = NothingSent
  /\ commands' = <<>> /\ events' = <<>> /\ player' = Empty
  /\ UNCHANGED losses

MirrorNext ==
  /\ \/ QueueSteps \/ BrowserReports \/ RestartService
     \/ Receive \/ SendLease \/ HandleCommand \/ RefreshLease \/ LeaseExpires
     \/ \E t \in {"started", "progress", "played", "failed"}, l \in Lengths : PlayerReports(t, l)
  /\ UNCHANGED desktop
  /\ desktop => \A i \in Ids : items'[i].status # "absent" => i <= MaxMirrored /\ ~items'[i].review

MirrorSpec == MirrorInit /\ [][MirrorNext]_allVars

\* Timers fire; nothing is assumed of operators, players and messages.
FairMirrorSpec ==
  /\ MirrorSpec
  /\ WF_allVars(Heard(GapTimeout) /\ UNCHANGED desktop)
  /\ WF_allVars(Heard(\E g \in BOOLEAN : LoadTimeout(g)) /\ UNCHANGED desktop)
  /\ WF_allVars(Heard(\E g \in BOOLEAN : EndTimeout(g)) /\ UNCHANGED desktop)

\* While the desktop player is available, what it was sent is the current
\* video with its pause and seeks: no change of the queue passes it by.
SentIsCurrent == available => sent = View(queue)

\* Once nothing is under way, the player shows the current video as it is
\* paused and sought, and none when none is current.  A load that was under
\* way while a lease expired may come after the queue fell idle, and nothing
\* stops that one.
PlayerObeys ==
  available /\ commands = <<>> /\ events = <<>> =>
    IF current.item = None THEN player.item = None \/ losses > 0
    ELSE /\ player.item = current.item
         /\ player.paused = (current.phase = "paused") /\ player.seeks = current.seeks
=============================================================================
