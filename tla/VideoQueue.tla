----------------------------- MODULE VideoQueue -----------------------------
(***************************************************************************)
(* The queue of requested videos and the clock of the one that plays.      *)
(*   apps/server/src/modules/videos/video-queue-service.ts                 *)
(*   apps/server/src/modules/videos/video-queue-repository.ts              *)
(*                                                                         *)
(* An action is one call, which runs without an await.  A command carries  *)
(* the revision it was decided on and a stale one throws before it changes *)
(* anything, so only commands on the current state appear.  Titles,        *)
(* positions within a video, notices and the pruning of finished rows are  *)
(* abstracted; a length is unknown, short, or long: the only one that can  *)
(* be over the limit.                                                      *)
(***************************************************************************)
EXTENDS Integers, Sequences, FiniteSets, SequencesExt

CONSTANTS
  MaxRequests,   \* bound: requests that are ever submitted
  Lengths,       \* the lengths requests, players and providers give
  Reviews,       \* whether requests may need a review
  Capacity,      \* videoQueueMaximumItems
  MaxSeeks,      \* bound: seeks within one playback
  MaxRestarts    \* bound: restarts of the process

ASSUME VideoAssumption ==
  /\ MaxRequests \in Nat /\ Capacity \in Nat \ {0}
  /\ MaxSeeks \in Nat /\ MaxRestarts \in Nat
  /\ Lengths \subseteq {"unknown", "short", "long"} /\ Reviews \subseteq BOOLEAN

Ids == 1 .. MaxRequests   \* in the order of their submission
None == 0
Limits == {"low", "high"}

VARIABLES
  (* persisted *)
  items,        \* the rows of video_requests
  run,          \* run_json: the requests the operator asked to play
  queuePaused,  \* queue_paused
  limit,        \* maxLengthSeconds of the configuration
  (* memory *)
  current,      \* state.current
  gap,          \* gapTimer and gapEndsAtEpochMs
  timer,        \* what playbackTimer is armed for
  told,         \* the view last emitted to the listeners
  (* history *)
  restarts      \* how often the process has started again

queue == [items |-> items, run |-> run, paused |-> queuePaused, limit |-> limit,
          current |-> current, gap |-> gap, timer |-> timer]
videoVars == <<items, run, queuePaused, limit, current, gap, timer, told, restarts>>

Unused == [status |-> "absent", length |-> "unknown", over |-> FALSE,
           overridden |-> FALSE, review |-> FALSE, position |-> 0]
NoRun == [active |-> FALSE, ids |-> <<>>]
Nobody == [item |-> None, phase |-> "none", seeks |-> 0, begun |-> FALSE]

WaitingIn(rows) == {i \in Ids : rows[i].status \in {"queued", "held"}}
ActiveIn(rows) == {i \in Ids : rows[i].status \in {"queued", "held", "playing", "paused"}}
Recent == {i \in Ids : items[i].status \in {"played", "failed"}}

\* filter: the entries of the sequence s that are in some, in their order.
Only(s, some) ==
  LET f[n \in 0 .. Len(s)] ==
        IF n = 0 THEN <<>> ELSE IF s[n] \in some THEN Append(f[n - 1], s[n]) ELSE f[n - 1]
  IN f[Len(s)]
\* A finite set as a sequence, in the order that a set of pairs gives.
Arrange(S, before) ==
  CHOOSE f \in [1 .. Cardinality(S) -> S] :
    \A j, k \in DOMAIN f : j < k => <<f[j], f[k]>> \in before

\* ORDER BY position, created_at, id.
Before(rows, i, j) ==
  \/ rows[i].position < rows[j].position
  \/ rows[i].position = rows[j].position /\ i < j
Ordered(rows, some) == Arrange(some, {p \in some \X some : Before(rows, p[1], p[2])})

Idle(q) == q.current.item = None /\ ~q.gap
HoldReason(q, length, overridden) == ~overridden /\ length = "long" /\ q.limit = "low"
PlayableRow(row) == row.status = "queued" /\ ~row.review
Playable(q) == Ordered(q.items, {i \in Ids : PlayableRow(q.items[i])})
RankIn(order, i) ==
  IF \E k \in DOMAIN order : order[k] = i THEN CHOOSE k \in DOMAIN order : order[k] = i ELSE 1

\* What listeners are shown of a queue, as far as a player is concerned.
View(q) == [item |-> q.current.item, paused |-> q.current.phase = "paused",
            seeks |-> q.current.seeks]

-----------------------------------------------------------------------------
(* What the calls do, from one queue to the next. *)

Advance(q) ==
  IF ~Idle(q) \/ ~q.run.active \/ q.paused THEN q
  ELSE LET ready == Only(q.run.ids, {i \in Ids : PlayableRow(q.items[i])}) IN
       IF ready = <<>> THEN [q EXCEPT !.run = NoRun]
       ELSE [q EXCEPT !.items[Head(ready)].status = "playing", !.run.ids = Tail(ready),
                      !.current = [Nobody EXCEPT !.item = Head(ready), !.phase = "loading"],
                      !.timer = "load"]

StartRun(q, ids) == Advance([q EXCEPT !.run = [active |-> TRUE, ids |-> ids]])
AppendRun(r, ids) ==
  [active |-> TRUE, ids |-> r.ids \o Only(ids, Ids \ ToSet(r.ids))]
WithoutRunItem(r, i) == [r EXCEPT !.ids = Only(@, Ids \ {i})]

\* outcome is played, failed or over-limit; gapped whether gapSeconds is not 0.
Finish(q, outcome, gapped) ==
  LET i == q.current.item
      continues == q.run.active /\ q.run.ids # <<>> /\ ~q.paused
      done == [q EXCEPT !.current = Nobody, !.timer = "none",
                        !.items[i].status = IF outcome = "over-limit" THEN "held" ELSE outcome,
                        !.items[i].over = outcome = "over-limit",
                        !.run = IF @.ids = <<>> THEN NoRun ELSE @]
  IN IF ~continues THEN done
     ELSE IF gapped THEN [done EXCEPT !.gap = TRUE] ELSE Advance(done)

ScheduleEnd(q) ==
  [q EXCEPT !.timer = IF q.current.phase = "playing" /\ q.items[q.current.item].length # "unknown"
                      THEN "end" ELSE "none"]

\* learnDuration: a length that was unknown and is over the limit cuts the video.
Learns(q, length) ==
  q.current.item # None /\ length \notin {"unknown", q.items[q.current.item].length}
Cuts(q, length) ==
  /\ Learns(q, length) /\ q.items[q.current.item].length = "unknown"
  /\ HoldReason(q, length, q.items[q.current.item].overridden)
Learn(q, length, gapped) ==
  LET known == [q EXCEPT !.items[q.current.item].length = length]
  IN IF ~Learns(q, length) THEN q
     ELSE IF Cuts(q, length) THEN Finish(known, "over-limit", gapped) ELSE known

\* Applies the limit to the requests that wait.
Reevaluate(q) ==
  [q EXCEPT !.items = [i \in Ids |->
    LET row == @[i]
        over == HoldReason(q, row.length, FALSE)
    IN IF row.overridden \/ i \notin WaitingIn(@) \/ over = row.over THEN row
       ELSE [row EXCEPT !.over = over, !.status = IF over \/ row.review THEN "held" ELSE "queued"]]]

\* newItem, at the end of the queue.
NewItem(q, length, review) ==
  LET over == HoldReason(q, length, FALSE)
  IN [Unused EXCEPT !.status = IF over \/ review THEN "held" ELSE "queued", !.length = length,
                    !.over = over, !.review = review,
                    !.position = 1 + Max({-1} \cup {q.items[i].position : i \in ActiveIn(q.items)})]
FreeIds == {i \in Ids : items[i].status = "absent"}
NextId == CHOOSE i \in FreeIds : \A j \in FreeIds : i <= j
HasRoom == FreeIds # {} /\ Cardinality(ActiveIn(items)) < Capacity

Set(q) ==
  /\ items' = q.items /\ run' = q.run /\ queuePaused' = q.paused /\ limit' = q.limit
  /\ current' = q.current /\ gap' = q.gap /\ timer' = q.timer
Emits(q) == Set(q) /\ told' = View(q) /\ UNCHANGED restarts
Silent(q) == Set(q) /\ UNCHANGED <<told, restarts>>

-----------------------------------------------------------------------------
(* Requests and operator commands *)

VideoInit ==
  /\ items = [i \in Ids |-> Unused] /\ run = NoRun /\ queuePaused = FALSE
  /\ limit \in Limits
  /\ current = Nobody /\ gap = FALSE /\ timer = "none"
  /\ told = [item |-> None, paused |-> FALSE, seeks |-> 0]
  /\ restarts = 0

\* A request with a review never starts by itself.
Submit(length, review, autoplay) ==
  /\ HasRoom
  /\ LET row == NewItem(queue, length, review)
         q == [queue EXCEPT !.items[NextId] = row]
     IN Emits(IF autoplay /\ ~review /\ row.status = "queued" /\ Idle(queue) /\ ~queuePaused
              THEN StartRun(q, <<NextId>>) ELSE q)

\* Replay of a finished request, as a new one.
Requeue(i) ==
  /\ HasRoom /\ i \in Recent
  /\ Emits([queue EXCEPT !.items[NextId] = NewItem(queue, items[i].length, FALSE)])

PlayRun(ids) ==
  /\ ids # <<>>
  /\ IF Idle(queue) THEN Emits(StartRun(queue, ids))
     ELSE Silent([queue EXCEPT !.run = AppendRun(@, ids)])
PlayNext == PlayRun(SubSeq(Playable(queue), 1, IF Playable(queue) = <<>> THEN 0 ELSE 1))
PlayAll == PlayRun(Playable(queue))

PauseQueue == Silent([queue EXCEPT !.paused = TRUE])
\* Mutant: a queue that is resumed waits for the next command.
ResumeQuietly == Emits([queue EXCEPT !.paused = FALSE])
ResumeQueue == Emits(Advance([queue EXCEPT !.paused = FALSE]))

Skip(gapped) ==
  /\ ~Idle(queue)
  /\ Emits(IF current.item # None THEN Finish(queue, "played", gapped)
           ELSE Advance([queue EXCEPT !.gap = FALSE]))
Stopped(q, gapped) ==
  LET q1 == [q EXCEPT !.gap = FALSE, !.run = NoRun]
  IN IF q.current.item # None THEN Finish(q1, "played", gapped) ELSE q1
Stop == ~Idle(queue) /\ Emits(Stopped(queue, TRUE))

\* Mutant: Clear leaves the run as it is.
ClearRows ==
  Emits([queue EXCEPT !.items = [i \in Ids |->
    IF i \in WaitingIn(items)
    THEN [@[i] EXCEPT !.status = "removed", !.review = FALSE, !.over = FALSE] ELSE @[i]]])

Clear ==
  Emits([queue EXCEPT !.run.ids = <<>>,
    !.items = [i \in Ids |->
      IF i \in WaitingIn(items)
      THEN [@[i] EXCEPT !.status = "removed", !.review = FALSE, !.over = FALSE] ELSE @[i]]])

RemoveItem(i) ==
  /\ i \in WaitingIn(items)
  /\ Emits([queue EXCEPT !.items[i] = [@ EXCEPT !.status = "removed", !.review = FALSE, !.over = FALSE],
                         !.run = WithoutRunItem(@, i)])

\* Mutant: a request that is over can be played again.
PlayRecent(i) ==
  /\ i \in WaitingIn(items) \cup Recent
  /\ Emits([queue EXCEPT !.items[i].review = FALSE, !.items[i].status = "held", !.items[i].over = TRUE])

\* Play releases a review; the length limit still holds.
Play(i) ==
  /\ i \in WaitingIn(items)
  /\ LET over == HoldReason(queue, items[i].length, items[i].overridden)
         q == [queue EXCEPT !.items[i] = [@ EXCEPT !.review = FALSE, !.over = over,
                                                   !.status = IF over THEN "held" ELSE "queued"]]
     IN Emits(IF ~over /\ Idle(queue) THEN StartRun(q, <<i>>) ELSE q)

\* Mutant: Play anyway releases a review too.
PlayAnywayReview(i) ==
  /\ i \in WaitingIn(items)
  /\ Emits([queue EXCEPT !.items[i].overridden = TRUE, !.items[i].over = FALSE,
                         !.items[i].status = "queued"])

PlayAnyway(i) ==
  /\ i \in WaitingIn(items) /\ ~items[i].review
  /\ LET q == [queue EXCEPT !.items[i] = [@ EXCEPT !.status = "queued", !.over = FALSE,
                                                   !.overridden = TRUE]]
     IN Emits(IF Idle(queue) THEN StartRun(q, <<i>>) ELSE q)

\* The stable sort by the rank in a new order.
SortedBy(s, order) ==
  LET rank == [k \in DOMAIN s |-> RankIn(order, s[k])]
      earlier == {p \in (DOMAIN s) \X (DOMAIN s) :
                    rank[p[1]] < rank[p[2]] \/ (rank[p[1]] = rank[p[2]] /\ p[1] < p[2])}
      turn == Arrange(DOMAIN s, earlier)
  IN [k \in DOMAIN s |-> s[turn[k]]]

\* The requests that wait take the positions from the first one on.
Reorder(order) ==
  LET waiting == WaitingIn(items)
      base == CHOOSE p \in {items[i].position : i \in waiting} : \A i \in waiting : p <= items[i].position
  IN /\ waiting # {} /\ order \in SetToSeqs(waiting)
     /\ Emits([queue EXCEPT
          !.items = [i \in Ids |-> IF i \in waiting
                                   THEN [@[i] EXCEPT !.position = base + RankIn(order, i) - 1]
                                   ELSE @[i]],
          !.run.ids = SortedBy(@, order)])

-----------------------------------------------------------------------------
(* The current video *)

PauseVideo ==
  /\ current.item # None /\ current.phase # "paused"
  /\ Emits([queue EXCEPT !.timer = "none", !.current.phase = "paused",
                         !.items[current.item].status = "paused"])

ResumeVideo ==
  /\ current.phase = "paused"
  /\ Emits(ScheduleEnd([queue EXCEPT !.current.phase = "playing",
                                     !.items[current.item].status = "playing"]))

\* Mutant: seeking while the video loads arms the timer of its end.
SeekAnyPhase ==
  /\ current.item # None /\ current.seeks < MaxSeeks
  /\ Emits(ScheduleEnd([queue EXCEPT !.current.seeks = @ + 1]))

Seek ==
  /\ current.item # None /\ current.seeks < MaxSeeks
  /\ LET q == [queue EXCEPT !.current.seeks = @ + 1]
     IN Emits(IF current.phase = "playing" THEN ScheduleEnd(q) ELSE q)

\* A report of the player about video i; any but the current one is ignored.
ReportStarted(i, length, gapped) ==
  /\ i = current.item /\ i # None
  /\ IF current.phase # "loading" THEN Silent([queue EXCEPT !.current.begun = TRUE])
     ELSE LET q == [queue EXCEPT !.current.phase = "playing", !.current.begun = TRUE]
          IN Emits(IF Cuts(q, length) THEN Learn(q, length, gapped)
                   ELSE ScheduleEnd(Learn(q, length, gapped)))

\* reportProgress and reportDuration: the length a player learned.
ReportLength(i, length, gapped) ==
  /\ i = current.item /\ i # None /\ Learns(queue, length)
  /\ LET q == Learn(queue, length, gapped)
     IN IF Cuts(queue, length) THEN Emits(q)
        ELSE Silent(IF current.phase = "playing" THEN ScheduleEnd(q) ELSE q)

\* reportEnded and reportFailed.
ReportOver(i, outcome, gapped) ==
  /\ i = current.item /\ i # None
  /\ Emits(Finish(queue, outcome, gapped))

\* applyMetadata: the length the provider gives fills an unknown one only.
ApplyMetadata(i, length, gapped) ==
  /\ i \in ActiveIn(items)
  /\ IF i = current.item
     THEN LET q == IF items[i].length = "unknown" THEN Learn(queue, length, gapped) ELSE queue
          IN Emits(IF current.phase = "playing" /\ q.current.item = i /\ q # queue
                   THEN ScheduleEnd(q) ELSE q)
     ELSE LET known == IF items[i].length = "unknown" THEN length ELSE items[i].length
              over == HoldReason(queue, known, FALSE)
          IN Emits([queue EXCEPT !.items[i] =
               IF items[i].overridden THEN [@ EXCEPT !.length = known]
               ELSE [@ EXCEPT !.length = known, !.over = over,
                              !.status = IF over \/ items[i].review THEN "held" ELSE "queued"]])

\* refreshCommittedVideosConfig: the new limit, and the stop of a module turned off.
SaveConfig(newLimit, enabled) ==
  LET q == Reevaluate([queue EXCEPT !.limit = newLimit])
  IN Emits(IF enabled \/ Idle(q) THEN q ELSE Stopped(q, TRUE))

-----------------------------------------------------------------------------
(* Timers and restarts *)

LoadTimeout(gapped) == timer = "load" /\ Emits(Finish(queue, "failed", gapped))
EndTimeout(gapped) == timer = "end" /\ Emits(Finish(queue, "played", gapped))
GapTimeout == gap /\ Emits(Advance([queue EXCEPT !.gap = FALSE]))

\* Mutant: recovered requests keep their run.
RecoverRows(q) ==
  LET cut == {i \in Ids : q.items[i].status \in {"playing", "paused"}}
  IN [q EXCEPT !.items = [i \in Ids |-> IF i \in cut THEN [@[i] EXCEPT !.status = "paused"] ELSE @[i]]]

\* recoverInterruptedPlayback: to the head of the requests that wait.
Recover(q) ==
  LET cut == Ordered(q.items, {i \in Ids : q.items[i].status \in {"playing", "paused"}})
      waiting == WaitingIn(q.items)
      first == IF waiting = {} THEN 0
               ELSE CHOOSE p \in {q.items[i].position : i \in waiting} :
                      \A i \in waiting : p <= q.items[i].position
  IN IF cut = <<>> THEN q
     ELSE [q EXCEPT !.run = NoRun, !.items = [i \in Ids |->
            IF i \notin ToSet(cut) THEN @[i]
            ELSE [@[i] EXCEPT !.status = "queued", !.position = first - Len(cut) + RankIn(cut, i) - 1]]]

\* The process ends, by a crash or by dispose(), and starts again.
Restart ==
  /\ restarts < MaxRestarts
  /\ restarts' = restarts + 1
  /\ LET q == [queue EXCEPT !.current = Nobody, !.gap = FALSE, !.timer = "none"]
     IN Set(Reevaluate(Recover(q)))
  /\ told' = [item |-> None, paused |-> FALSE, seeks |-> 0]

OperatorSteps ==
  \/ \E l \in Lengths, r \in Reviews, a \in BOOLEAN : Submit(l, r, a)
  \/ \E i \in Ids : Requeue(i) \/ RemoveItem(i) \/ Play(i) \/ PlayAnyway(i)
  \/ PlayNext \/ PlayAll \/ PauseQueue \/ ResumeQueue \/ Stop \/ Clear
  \/ \E g \in BOOLEAN : Skip(g)
  \/ \E o \in SetToSeqs(WaitingIn(items)) : Reorder(o)
  \/ PauseVideo \/ ResumeVideo \/ Seek
  \/ \E l \in Limits, e \in BOOLEAN : SaveConfig(l, e)
TimerSteps == GapTimeout \/ \E g \in BOOLEAN : LoadTimeout(g) \/ EndTimeout(g)
LookupSteps == \E i \in Ids, l \in Lengths, g \in BOOLEAN : ApplyMetadata(i, l, g)
PlayerSteps ==
  \E i \in Ids, g \in BOOLEAN :
    \/ \E l \in Lengths \cup {"unknown"} : ReportStarted(i, l, g) \/ ReportLength(i, l, g)
    \/ \E o \in {"played", "failed"} : ReportOver(i, o, g)

VideoNext == OperatorSteps \/ TimerSteps \/ LookupSteps \/ PlayerSteps \/ Restart
VideoSpec == VideoInit /\ [][VideoNext]_videoVars
FairVideoSpec ==
  /\ VideoSpec
  /\ WF_videoVars(GapTimeout)
  /\ WF_videoVars(\E g \in BOOLEAN : LoadTimeout(g))
  /\ WF_videoVars(\E g \in BOOLEAN : EndTimeout(g))

-----------------------------------------------------------------------------
(* Properties *)

\* The rows marked as playing or paused are exactly the video whose clock
\* runs in memory, also after a cut, a stop and a restart.
OneActiveRow ==
  {i \in Ids : items[i].status \in {"playing", "paused"}}
    = IF current.item = None THEN {} ELSE {current.item}

\* What is left of a run still waits: nothing plays twice in one run, and
\* nothing that was removed or finished is in it.
RunIsWaiting ==
  /\ ToSet(run.ids) \subseteq WaitingIn(items)
  /\ \A j, k \in DOMAIN run.ids : run.ids[j] = run.ids[k] => j = k

\* A request that can be played has no review left and respects the limit of
\* this moment, unless the operator chose Play anyway.
QueuedIsPlayable ==
  \A i \in Ids : items[i].status = "queued"
    => ~items[i].review /\ ~HoldReason(queue, items[i].length, items[i].overridden)

\* A run that goes on without the operator keeps going on: only a restart
\* can leave one that nothing will advance.
Driven == ~Idle(queue) \/ queuePaused
RunKeepsGoing ==
  [][Driven /\ run'.active /\ restarts' = restarts => (current'.item # None \/ gap' \/ queuePaused')]_videoVars

\* A video does not stay loading: it starts, is paused, or gives way.
LoadingEnds == \A i \in Ids :
  (current.item = i /\ current.phase = "loading") ~> ~(current.item = i /\ current.phase = "loading")

\* openspec/specs/video-request-queue/spec.md, Load failure: "WHEN a player
\* does not load within the load timeout THEN the item is marked failed": as
\* long as no player has started the video, unless it is paused, the timer
\* that fails it is armed.
LoadTimeoutArmed ==
  current.item # None /\ ~current.begun /\ current.phase # "paused" => timer = "load"

\* Every request is shown at most once at a time and ends for good.
Requested == INSTANCE VideoRequests WITH
  Requests <- Ids,
  request <- [i \in Ids |->
    CASE items[i].status = "absent" -> "unasked"
      [] items[i].status \in {"queued", "held"} -> "waiting"
      [] items[i].status \in {"playing", "paused"} -> "showing"
      [] OTHER -> "over"]
RequestsKept == Requested!RequestsSpec
=============================================================================
