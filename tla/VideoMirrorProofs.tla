-------------------------- MODULE VideoMirrorProofs --------------------------
(* That no change of the queue passes the desktop player by, that the      *)
(* player ends up showing the current video, and that the mirror uses the   *)
(* queue as it is meant to: for any number of requests, messages, restarts  *)
(* and lost leases, any lengths and limits.                                 *)
EXTENDS VideoMirror, VideoQueueProofs

\* A queue with its fields, and a clock with its own.
Fields == {"items", "run", "paused", "limit", "current", "gap", "timer"}
Parts == {"item", "phase", "seeks", "begun"}
Whole(q) ==
  /\ DOMAIN q = Fields /\ q = [f \in Fields |-> q[f]]
  /\ DOMAIN q.current = Parts /\ q.current = [f \in Parts |-> q.current[f]]

\* What listeners were last shown is what the queue would show now.
ToldAll == Whole(queue) /\ told = View(queue)
Followed == ToldAll /\ SentIsCurrent

-----------------------------------------------------------------------------
(* What the calls build is a queue. *)

LEMMA HasCurrent == "current" \in Fields
BY DEF Fields

LEMMA AdvanceWhole == ASSUME NEW q, Whole(q) PROVE Whole(Advance(q))
<1> DEFINE ready == Only(q.run.ids, {i \in Ids : PlayableRow(q.items[i])})
           next == [Nobody EXCEPT !.item = Head(ready), !.phase = "loading"]
<1>1. Advance(q) = IF ~Idle(q) \/ ~q.run.active \/ q.paused THEN q
                   ELSE IF ready = <<>> THEN [q EXCEPT !.run = NoRun]
                   ELSE [q EXCEPT !.items[Head(ready)].status = "playing", !.run.ids = Tail(ready),
                                  !.current = next, !.timer = "load"]
  BY DEF Advance
<1>2. DOMAIN next = Parts /\ next = [f \in Parts |-> next[f]]
  BY DEF Nobody, Parts
<1> HIDE DEF ready, next
<1> QED BY <1>1, <1>2 DEF Whole, Fields, Parts

\* One field of a row.
LEMMA RowWhole == ASSUME NEW q, NEW i, NEW f, NEW x, Whole(q)
                  PROVE Whole([q EXCEPT !.items[i][f] = x])
BY HasCurrent DEF Whole, Fields

LEMMA RunWhole == ASSUME NEW q, NEW x, Whole(q) PROVE Whole([q EXCEPT !.run = x])
BY HasCurrent DEF Whole, Fields

LEMMA FinishWhole == ASSUME NEW q, NEW outcome, NEW gapped, Whole(q)
                     PROVE Whole(Finish(q, outcome, gapped))
<1> DEFINE i == q.current.item
           q1 == [q EXCEPT !.current = Nobody, !.timer = "none"]
           q2 == [q1 EXCEPT !.items[i].status = IF outcome = "over-limit" THEN "held" ELSE outcome]
           q3 == [q2 EXCEPT !.items[i].over = outcome = "over-limit"]
           done == [q3 EXCEPT !.run = IF @.ids = <<>> THEN NoRun ELSE @]
<1>1. Whole(q1)
  <2>1. DOMAIN Nobody = Parts /\ Nobody = [f \in Parts |-> Nobody[f]]
    BY DEF Nobody, Parts
  <2> QED BY <2>1 DEF Whole, Fields
<1>2. Finish(q, outcome, gapped) \in {done, [done EXCEPT !.gap = TRUE], Advance(done)}
  BY DEF Finish
<1> HIDE DEF q1
<1>3. Whole(q2)
  BY <1>1, RowWhole
<1> HIDE DEF q2
<1>4. Whole(q3)
  BY <1>3, RowWhole
<1> HIDE DEF q3
<1>5. Whole(done)
  BY <1>4, RunWhole
<1> HIDE DEF done
<1>6. Whole([done EXCEPT !.gap = TRUE])
  BY <1>5 DEF Whole, Fields, Parts
<1> QED BY <1>2, <1>5, <1>6, AdvanceWhole

LEMMA StoppedWhole == ASSUME NEW q, NEW gapped, Whole(q) PROVE Whole(Stopped(q, gapped))
<1> DEFINE q1 == [q EXCEPT !.gap = FALSE, !.run = NoRun]
<1>1. Whole(q1)
  BY DEF Whole, Fields, Parts
<1>2. Stopped(q, gapped) \in {q1, Finish(q1, "played", gapped)}
  BY DEF Stopped
<1> HIDE DEF q1
<1> QED BY <1>1, <1>2, FinishWhole

LEMMA StartRunWhole == ASSUME NEW q, NEW ids, Whole(q) PROVE Whole(StartRun(q, ids))
<1>1. Whole([q EXCEPT !.run = [active |-> TRUE, ids |-> ids]])
  BY DEF Whole, Fields, Parts
<1> QED BY <1>1, AdvanceWhole DEF StartRun

LEMMA ScheduleEndWhole == ASSUME NEW q, Whole(q)
                          PROVE Whole(ScheduleEnd(q)) /\ View(ScheduleEnd(q)) = View(q)
BY DEF Whole, Fields, Parts, ScheduleEnd, View

LEMMA ReevaluateWhole == ASSUME NEW q, Whole(q) PROVE Whole(Reevaluate(q))
BY DEF Whole, Fields, Parts, Reevaluate

\* A length that does not cut the video leaves what is shown as it is.
LEMMA LearnWhole == ASSUME NEW q, NEW length, NEW gapped, Whole(q)
                    PROVE  /\ Whole(Learn(q, length, gapped))
                           /\ ~Cuts(q, length) => View(Learn(q, length, gapped)) = View(q)
<1> DEFINE known == [q EXCEPT !.items[q.current.item].length = length]
<1>1. Whole(known) /\ View(known) = View(q)
  BY DEF Whole, Fields, Parts, View
<1>2. Learn(q, length, gapped) = IF ~Learns(q, length) THEN q
        ELSE IF Cuts(q, length) THEN Finish(known, "over-limit", gapped) ELSE known
  BY DEF Learn
<1> HIDE DEF known
<1> QED BY <1>1, <1>2, FinishWhole

-----------------------------------------------------------------------------
(* What a call ends with is what listeners were shown. *)

LEMMA EmitsTold == ASSUME NEW q, Whole(q), Emits(q) PROVE ToldAll'
<1>1. queue' = q
  BY DEF Whole, Fields, Parts, Emits, Set, queue
<1> QED BY <1>1 DEF Emits, ToldAll

LEMMA SilentTold == ASSUME NEW q, Whole(q), Silent(q), ToldAll, View(q) = View(queue)
                    PROVE ToldAll'
<1>1. queue' = q
  BY DEF Whole, Fields, Parts, Silent, Set, queue
<1> QED BY <1>1 DEF Silent, ToldAll

-----------------------------------------------------------------------------
(* Every call tells, or changes nothing that is shown. *)

LEMMA RequestTold ==
  ASSUME ToldAll, \/ \E l \in Lengths, r \in Reviews, a \in BOOLEAN : Submit(l, r, a)
                  \/ \E i \in Ids : Requeue(i) \/ RemoveItem(i) \/ Play(i) \/ PlayAnyway(i)
  PROVE  ToldAll'
<1>1. Whole(queue)
  BY DEF ToldAll
<1>2. ASSUME NEW l, NEW r, NEW a, Submit(l, r, a) PROVE ToldAll'
  <2> DEFINE q == [queue EXCEPT !.items[NextId] = NewItem(queue, l, r)]
  <2>1. Whole(q)
    BY <1>1, HasCurrent DEF Whole
  <2>2. Emits(StartRun(q, <<NextId>>)) \/ Emits(q)
    BY <1>2 DEF Submit
  <2> HIDE DEF q
  <2> QED BY <2>1, <2>2, StartRunWhole, EmitsTold
<1>3. ASSUME NEW i, Requeue(i) PROVE ToldAll'
  <2> DEFINE q == [queue EXCEPT !.items[NextId] = NewItem(queue, items[i].length, FALSE)]
  <2>1. Whole(q)
    BY <1>1, HasCurrent DEF Whole
  <2>2. Emits(q)
    BY <1>3 DEF Requeue
  <2> HIDE DEF q
  <2> QED BY <2>1, <2>2, EmitsTold
<1>4. ASSUME NEW i, RemoveItem(i) PROVE ToldAll'
  <2> DEFINE row == [queue.items[i] EXCEPT !.status = "removed", !.review = FALSE, !.over = FALSE]
             q1 == [queue EXCEPT !.items[i] = row]
             q == [q1 EXCEPT !.run = WithoutRunItem(@, i)]
  <2>1. Emits(q)
    BY <1>4 DEF RemoveItem
  <2> HIDE DEF row
  <2>2. Whole(q1)
    BY <1>1, HasCurrent DEF Whole
  <2> HIDE DEF q1
  <2>3. Whole(q)
    BY <2>2, RunWhole
  <2> HIDE DEF q
  <2> QED BY <2>1, <2>3, EmitsTold
<1>5. ASSUME NEW i, Play(i) PROVE ToldAll'
  <2> DEFINE over == HoldReason(queue, items[i].length, items[i].overridden)
             row == [queue.items[i] EXCEPT !.review = FALSE, !.over = over,
                                           !.status = IF over THEN "held" ELSE "queued"]
             q == [queue EXCEPT !.items[i] = row]
  <2>1. Emits(StartRun(q, <<i>>)) \/ Emits(q)
    BY <1>5 DEF Play
  <2> HIDE DEF row
  <2>2. Whole(q)
    BY <1>1, HasCurrent DEF Whole
  <2> HIDE DEF q
  <2> QED BY <2>1, <2>2, StartRunWhole, EmitsTold
<1>6. ASSUME NEW i, PlayAnyway(i) PROVE ToldAll'
  <2> DEFINE row == [queue.items[i] EXCEPT !.status = "queued", !.over = FALSE, !.overridden = TRUE]
             q == [queue EXCEPT !.items[i] = row]
  <2>1. Emits(StartRun(q, <<i>>)) \/ Emits(q)
    BY <1>6 DEF PlayAnyway
  <2> HIDE DEF row
  <2>2. Whole(q)
    BY <1>1, HasCurrent DEF Whole
  <2> HIDE DEF q
  <2> QED BY <2>1, <2>2, StartRunWhole, EmitsTold
<1> QED
  BY <1>2, <1>3, <1>4, <1>5, <1>6

LEMMA RunTold ==
  ASSUME ToldAll, \/ PlayNext \/ PlayAll \/ PauseQueue \/ ResumeQueue \/ Stop \/ Clear
                  \/ \E g \in BOOLEAN : Skip(g)
                  \/ \E o \in SetToSeqs(WaitingIn(items)) : Reorder(o)
  PROVE  ToldAll'
<1>1. Whole(queue)
  BY DEF ToldAll
<1>2. ASSUME NEW ids, PlayRun(ids) PROVE ToldAll'
  <2> DEFINE q == [queue EXCEPT !.run = AppendRun(@, ids)]
  <2>1. Whole(q) /\ View(q) = View(queue)
    BY <1>1 DEF Whole, Fields, View
  <2>2. Emits(StartRun(queue, ids)) \/ Silent(q)
    BY <1>2 DEF PlayRun
  <2> HIDE DEF q
  <2> QED BY <1>1, <2>1, <2>2, StartRunWhole, EmitsTold, SilentTold
<1>3. ASSUME PauseQueue PROVE ToldAll'
  <2> DEFINE q == [queue EXCEPT !.paused = TRUE]
  <2>1. Whole(q) /\ View(q) = View(queue)
    BY <1>1 DEF Whole, Fields, View
  <2>2. Silent(q)
    BY <1>3 DEF PauseQueue
  <2> HIDE DEF q
  <2> QED BY <2>1, <2>2, SilentTold
<1>4. ASSUME ResumeQueue PROVE ToldAll'
  <2>1. Whole([queue EXCEPT !.paused = FALSE])
    BY <1>1, HasCurrent DEF Whole
  <2>2. Emits(Advance([queue EXCEPT !.paused = FALSE]))
    BY <1>4 DEF ResumeQueue
  <2> QED BY <2>1, <2>2, AdvanceWhole, EmitsTold
<1>5. ASSUME Stop PROVE ToldAll'
  BY <1>1, <1>5, StoppedWhole, EmitsTold DEF Stop
<1>6. ASSUME Clear PROVE ToldAll'
  <2> DEFINE rows == [i \in Ids |->
               IF i \in WaitingIn(items)
               THEN [items[i] EXCEPT !.status = "removed", !.review = FALSE, !.over = FALSE]
               ELSE items[i]]
             q == [queue EXCEPT !.run.ids = <<>>, !.items = rows]
  <2>1. Whole(q)
    <3> HIDE DEF rows
    <3> QED BY <1>1, HasCurrent DEF Whole
  <2>2. Emits(q)
    BY <1>6 DEF Clear, queue
  <2> HIDE DEF q
  <2> QED BY <2>1, <2>2, EmitsTold
<1>7. ASSUME NEW g, Skip(g) PROVE ToldAll'
  <2>1. Whole([queue EXCEPT !.gap = FALSE])
    BY <1>1, HasCurrent DEF Whole
  <2>2. Emits(Finish(queue, "played", g)) \/ Emits(Advance([queue EXCEPT !.gap = FALSE]))
    BY <1>7 DEF Skip
  <2> QED BY <1>1, <2>1, <2>2, FinishWhole, AdvanceWhole, EmitsTold
<1>8. ASSUME NEW o, Reorder(o) PROVE ToldAll'
  <2> DEFINE base == CHOOSE p \in {items[i].position : i \in WaitingIn(items)} :
                       \A i \in WaitingIn(items) : p <= items[i].position
             q1 == [queue EXCEPT
                     !.items = [i \in Ids |-> IF i \in WaitingIn(items)
                                              THEN [@[i] EXCEPT !.position = base + RankIn(o, i) - 1]
                                              ELSE @[i]]]
             q == [q1 EXCEPT !.run.ids = SortedBy(@, o)]
  <2>1. Emits(q)
    BY <1>8 DEF Reorder
  <2>2. Whole(q1)
    <3> DEFINE rows == [i \in Ids |-> IF i \in WaitingIn(items)
                                      THEN [queue.items[i] EXCEPT !.position = base + RankIn(o, i) - 1]
                                      ELSE queue.items[i]]
    <3>1. q1 = [queue EXCEPT !.items = rows]
      OBVIOUS
    <3> HIDE DEF rows, q1
    <3> QED BY <1>1, <3>1, HasCurrent DEF Whole
  <2> HIDE DEF q1
  <2> DEFINE ids == SortedBy(q1.run.ids, o)
  <2>3. q = [q1 EXCEPT !.run.ids = ids]
    BY Zenon
  <2> HIDE DEF q, ids
  <2>4. Whole(q)
    BY <2>2, <2>3, HasCurrent DEF Whole
  <2> QED BY <2>1, <2>4, EmitsTold
<1> QED
  BY <1>2, <1>3, <1>4, <1>5, <1>6, <1>7, <1>8 DEF PlayNext, PlayAll

LEMMA ClockTold ==
  ASSUME ToldAll, PauseVideo \/ ResumeVideo \/ Seek \/ \E l \in Limits, e \in BOOLEAN : SaveConfig(l, e)
  PROVE  ToldAll'
<1>1. Whole(queue)
  BY DEF ToldAll
<1>2. ASSUME PauseVideo PROVE ToldAll'
  <2> DEFINE q1 == [queue EXCEPT !.timer = "none", !.current.phase = "paused"]
             q == [q1 EXCEPT !.items[current.item].status = "paused"]
  <2>1. Emits(q)
    BY <1>2 DEF PauseVideo
  <2>2. Whole(q1)
    BY <1>1 DEF Whole, Fields, Parts
  <2> HIDE DEF q1
  <2>3. Whole(q)
    BY <2>2, RowWhole
  <2> HIDE DEF q
  <2> QED BY <2>1, <2>3, EmitsTold
<1>3. ASSUME ResumeVideo PROVE ToldAll'
  <2> DEFINE q1 == [queue EXCEPT !.current.phase = "playing"]
             q == [q1 EXCEPT !.items[current.item].status = "playing"]
  <2>1. Emits(ScheduleEnd(q))
    BY <1>3 DEF ResumeVideo
  <2>2. Whole(q1)
    BY <1>1 DEF Whole, Fields, Parts
  <2> HIDE DEF q1
  <2>3. Whole(q)
    BY <2>2, RowWhole
  <2> HIDE DEF q
  <2> QED BY <2>1, <2>3, ScheduleEndWhole, EmitsTold
<1>4. ASSUME Seek PROVE ToldAll'
  <2> DEFINE q == [queue EXCEPT !.current.seeks = @ + 1]
  <2>1. Emits(ScheduleEnd(q)) \/ Emits(q)
    BY <1>4 DEF Seek
  <2>2. Whole(q)
    BY <1>1 DEF Whole, Fields, Parts
  <2> HIDE DEF q
  <2> QED BY <2>1, <2>2, ScheduleEndWhole, EmitsTold
<1>5. ASSUME NEW l, NEW e, SaveConfig(l, e) PROVE ToldAll'
  <2> DEFINE limited == [queue EXCEPT !.limit = l]
             q == Reevaluate(limited)
  <2>1. Emits(q) \/ Emits(Stopped(q, TRUE))
    BY <1>5 DEF SaveConfig
  <2>2. Whole(limited)
    BY <1>1, HasCurrent DEF Whole
  <2> HIDE DEF limited
  <2>3. Whole(q)
    BY <2>2, ReevaluateWhole
  <2> HIDE DEF q
  <2> QED BY <2>1, <2>3, StoppedWhole, EmitsTold
<1> QED
  BY <1>2, <1>3, <1>4, <1>5

LEMMA TimersTold == ASSUME ToldAll, TimerSteps PROVE ToldAll'
<1>1. Whole(queue)
  BY DEF ToldAll
<1>2. Whole([queue EXCEPT !.gap = FALSE])
  BY <1>1, HasCurrent DEF Whole
<1>3. Whole(Advance([queue EXCEPT !.gap = FALSE]))
  BY <1>2, AdvanceWhole
<1> QED
  BY <1>1, <1>3, FinishWhole, EmitsTold DEF TimerSteps, GapTimeout, LoadTimeout, EndTimeout

LEMMA LookupTold == ASSUME ToldAll, NEW i, NEW length, NEW gapped, ApplyMetadata(i, length, gapped)
                    PROVE  ToldAll'
<1>1. Whole(queue)
  BY DEF ToldAll
<1>2. CASE i = current.item
  <2> DEFINE q == IF items[i].length = "unknown" THEN Learn(queue, length, gapped) ELSE queue
  <2>1. Whole(q)
    BY <1>1, LearnWhole
  <2>2. Emits(ScheduleEnd(q)) \/ Emits(q)
    BY <1>2 DEF ApplyMetadata
  <2> HIDE DEF q
  <2> QED BY <2>1, <2>2, ScheduleEndWhole, EmitsTold
<1>3. CASE i # current.item
  <2>1. PICK row : Emits([queue EXCEPT !.items[i] = row])
    BY <1>3 DEF ApplyMetadata
  <2>2. Whole([queue EXCEPT !.items[i] = row])
    BY <1>1, HasCurrent DEF Whole
  <2> QED BY <2>1, <2>2, EmitsTold
<1> QED BY <1>2, <1>3

LEMMA ReportTold ==
  ASSUME ToldAll, NEW i, NEW length, NEW gapped, NEW outcome,
         \/ ReportStarted(i, length, gapped) \/ ReportLength(i, length, gapped)
         \/ ReportOver(i, outcome, gapped)
  PROVE  ToldAll'
<1>1. Whole(queue)
  BY DEF ToldAll
<1>2. CASE ReportStarted(i, length, gapped)
  <2> DEFINE begun == [queue EXCEPT !.current.begun = TRUE]
             q == [queue EXCEPT !.current.phase = "playing", !.current.begun = TRUE]
  <2>1. Whole(begun) /\ View(begun) = View(queue) /\ Whole(q)
    BY <1>1 DEF Whole, Fields, Parts, View
  <2>2. Silent(begun) \/ Emits(Learn(q, length, gapped)) \/ Emits(ScheduleEnd(Learn(q, length, gapped)))
    BY <1>2 DEF ReportStarted
  <2> HIDE DEF begun, q
  <2> QED BY <2>1, <2>2, LearnWhole, ScheduleEndWhole, EmitsTold, SilentTold
<1>3. CASE ReportLength(i, length, gapped)
  <2> DEFINE q == Learn(queue, length, gapped)
  <2>1. Whole(q) /\ (~Cuts(queue, length) => View(q) = View(queue))
    BY <1>1, LearnWhole
  <2>2. \/ Emits(q)
        \/ ~Cuts(queue, length) /\ (Silent(ScheduleEnd(q)) \/ Silent(q))
    BY <1>3 DEF ReportLength
  <2> HIDE DEF q
  <2> QED BY <2>1, <2>2, ScheduleEndWhole, EmitsTold, SilentTold
<1>4. CASE ReportOver(i, outcome, gapped)
  BY <1>1, <1>4, FinishWhole, EmitsTold DEF ReportOver
<1> QED BY <1>2, <1>3, <1>4

\* A new process has told nobody, and plays nothing.
LEMMA RestartTold == ASSUME ToldAll, Restart PROVE ToldAll'
<1> DEFINE empty == [queue EXCEPT !.current = Nobody, !.gap = FALSE, !.timer = "none"]
           q == Reevaluate(Recover(empty))
<1>1. Whole(queue)
  BY DEF ToldAll
<1>2. DOMAIN Nobody = Parts /\ Nobody = [f \in Parts |-> Nobody[f]]
  BY DEF Nobody, Parts
<1>3. Whole(empty) /\ empty.current = Nobody
  BY <1>1, <1>2 DEF Whole, Fields
<1>4. Set(q) /\ told' = [item |-> None, paused |-> FALSE, seeks |-> 0]
  BY DEF Restart
<1> HIDE DEF empty
<1>5. Whole(Recover(empty)) /\ Recover(empty).current = Nobody
  BY <1>3 DEF Recover, Whole, Fields
<1>6. Whole(q) /\ q.current = Nobody
  BY <1>5, ReevaluateWhole DEF Reevaluate, Whole, Fields
<1> HIDE DEF q
<1>7. queue' = q
  BY <1>4, <1>6 DEF Whole, Fields, Set, queue
<1>8. View(q) = [item |-> None, paused |-> FALSE, seeks |-> 0]
  <2>1. Nobody.item = None /\ (Nobody.phase = "paused") = FALSE /\ Nobody.seeks = 0
    BY DEF Nobody
  <2> QED BY <1>6, <2>1 DEF View
<1> QED BY <1>4, <1>6, <1>7, <1>8 DEF ToldAll

-----------------------------------------------------------------------------
(* The director follows what it is told. *)

LEMMA ListenFollows == ASSUME Followed, ToldAll', Listen, UNCHANGED available
                       PROVE  Followed'
<1>1. available => sent = told
  BY DEF Followed, ToldAll, SentIsCurrent
<1>2. available' => sent' = told'
  BY <1>1 DEF Listen, Tell
<1> QED BY <1>2 DEF Followed, ToldAll, SentIsCurrent

LEMMA StillFollows == ASSUME Followed, UNCHANGED <<videoVars, available, sent>> PROVE Followed'
BY DEF Followed, ToldAll, SentIsCurrent, Whole, View, queue, videoVars

LEMMA QueueFollows == ASSUME Followed, QueueSteps \/ BrowserReports PROVE Followed'
<1>1. ToldAll
  BY DEF Followed
<1>2. Listen /\ UNCHANGED available
  BY DEF QueueSteps, Heard, BrowserReports
<1>3. CASE OperatorSteps
  BY <1>1, <1>2, <1>3, RequestTold, RunTold, ClockTold, ListenFollows DEF OperatorSteps
<1>4. CASE LookupSteps
  BY <1>1, <1>2, <1>4, LookupTold, ListenFollows DEF LookupSteps
<1>5. CASE TimerSteps
  BY <1>1, <1>2, <1>5, TimersTold, ListenFollows
<1>6. CASE BrowserReports
  <2>1. PICK i \in Ids, g \in BOOLEAN :
          \/ \E l \in Lengths : ReportStarted(i, "unknown", g) \/ ReportLength(i, l, g)
          \/ ReportOver(i, "played", g) \/ ReportOver(i, "failed", g)
    BY <1>6 DEF BrowserReports
  <2>2. ToldAll'
    BY <1>1, <2>1, ReportTold
  <2> QED BY <1>2, <2>2, ListenFollows
<1> QED BY <1>3, <1>4, <1>5, <1>6 DEF QueueSteps, Heard

LEMMA ReceiveFollows == ASSUME Followed, Receive PROVE Followed'
<1>1. PICK e : \/ \E up \in BOOLEAN : ReceiveStatus(up)
               \/ \E g \in BOOLEAN : ReceiveReport(e, g)
  BY DEF Receive
<1>2. ASSUME NEW up, ReceiveStatus(up) PROVE Followed'
  <2>1. ToldAll'
    BY <1>2 DEF Followed, ToldAll, ReceiveStatus, Whole, View, queue, videoVars
  <2>2. told' = told /\ (available => sent = told)
    BY <1>2 DEF ReceiveStatus, videoVars, Followed, ToldAll, SentIsCurrent
  <2>3. available' => sent' = told'
    BY <1>2, <2>2 DEF ReceiveStatus, Tell
  <2> QED BY <2>1, <2>3 DEF Followed, ToldAll, SentIsCurrent
<1>3. ASSUME NEW g, ReceiveReport(e, g) PROVE Followed'
  <2>1. ToldAll
    BY DEF Followed
  <2>2. CASE Counts(e)
    <3>1. Listen /\ UNCHANGED available
      BY <1>3, <2>2 DEF ReceiveReport
    <3>2. CASE UNCHANGED videoVars
      <4>1. ToldAll'
        BY <2>1, <3>2 DEF ToldAll, Whole, View, queue, videoVars
      <4> QED BY <3>1, <4>1, ListenFollows
    <3>3. CASE \/ ReportStarted(e.item, e.length, g) \/ ReportLength(e.item, e.length, g)
               \/ ReportOver(e.item, e.type, g)
      <4>1. ToldAll'
        BY <2>1, <3>3, ReportTold
      <4> QED BY <3>1, <4>1, ListenFollows
    <3> QED BY <1>3, <2>2, <3>2, <3>3 DEF ReceiveReport
  <2>3. CASE ~Counts(e)
    BY <1>3, <2>3, StillFollows DEF ReceiveReport
  <2> QED BY <2>2, <2>3
<1> QED BY <1>1, <1>2, <1>3

LEMMA RestartFollows == ASSUME Followed, RestartService PROVE Followed'
<1>1. ToldAll'
  BY RestartTold DEF Followed, RestartService
<1> QED BY <1>1 DEF Followed, SentIsCurrent, RestartService

LEMMA MessagesFollow ==
  ASSUME Followed,
         \/ SendLease \/ HandleCommand \/ RefreshLease \/ LeaseExpires
         \/ \E t \in {"started", "progress", "played", "failed"}, l \in Lengths : PlayerReports(t, l)
  PROVE  Followed'
BY StillFollows DEF SendLease, HandleCommand, RefreshLease, LeaseExpires, PlayerReports

-----------------------------------------------------------------------------
LEMMA FollowedInit == MirrorInit => Followed
<1> SUFFICES ASSUME MirrorInit PROVE Followed
  OBVIOUS
<1>1. Nobody.item = None /\ (Nobody.phase = "paused") = FALSE /\ Nobody.seeks = 0
  BY DEF Nobody
<1>2. told = View(queue)
  BY <1>1 DEF MirrorInit, VideoInit, View, queue
<1>3. Whole(queue)
  <2>1. DOMAIN Nobody = Parts /\ Nobody = [f \in Parts |-> Nobody[f]]
    BY DEF Nobody, Parts
  <2>2. queue.current = Nobody
    BY DEF MirrorInit, VideoInit, queue
  <2>3. DOMAIN queue = Fields /\ queue = [f \in Fields |-> queue[f]]
    BY DEF queue, Fields
  <2> QED BY <2>1, <2>2, <2>3 DEF Whole
<1> QED BY <1>2, <1>3 DEF Followed, ToldAll, SentIsCurrent, MirrorInit

LEMMA FollowedStep == Followed /\ [MirrorNext]_allVars => Followed'
<1> SUFFICES ASSUME Followed, [MirrorNext]_allVars PROVE Followed'
  OBVIOUS
<1>1. CASE UNCHANGED allVars
  BY <1>1, StillFollows DEF allVars, mirrorVars
<1>2. CASE MirrorNext
  BY <1>2, QueueFollows, ReceiveFollows, RestartFollows, MessagesFollow DEF MirrorNext
<1> QED BY <1>1, <1>2

\* While the desktop player is available, what the director sent is the current
\* video with its pause and its seeks: whatever changes the queue tells, and what
\* tells nothing changes nothing that is shown.
THEOREM PlayerIsSentAll == MirrorSpec => []SentIsCurrent
<1>1. Followed => SentIsCurrent
  BY DEF Followed
<1> QED BY <1>1, FollowedInit, FollowedStep, PTL DEF MirrorSpec

-----------------------------------------------------------------------------
(* The announcements of the player that are under way *)

CommandTypes == {"lease", "load", "stop", "play", "pause", "seek"}
EventTypes == {"available", "unavailable", "started", "progress", "played", "failed"}
Views == [item : Ids \cup {None}, paused : BOOLEAN, seeks : Nat]
Commands ==
  {c \in [type : CommandTypes, item : Ids \cup {None}, paused : BOOLEAN, seeks : Nat] :
     /\ c.type = "lease" <=> c = Lease
     /\ c.type = "load" => c.item # None
     /\ c.type = "stop" => c.item = None}
Events ==
  {e \in [type : EventTypes, item : Ids \cup {None}, length : Lengths \cup {"unknown"}] :
     e.type \notin {"available", "unavailable"} => e.item # None}
Players == [owned : BOOLEAN, announced : BOOLEAN, item : Ids \cup {None}, paused : BOOLEAN,
            seeks : Nat, started : BOOLEAN]

\* The statuses in a sequence of events, and which of them announce a player.
Signals(s) == {k \in 1 .. Len(s) : s[k].type \in {"available", "unavailable"}}
IsUp(s, k) == s[k].type = "available"

\* They alternate, from what the director knows to what the host announced last.
InTurn(s, up, announced) ==
  /\ Signals(s) = {} => up = announced
  /\ \A k \in Signals(s) :
       /\ (\A j \in Signals(s) : k <= j) => IsUp(s, k) # up
       /\ (\A j \in Signals(s) : j <= k) => IsUp(s, k) = announced
       /\ \A j \in Signals(s) :
            j < k /\ (\A i \in Signals(s) : i <= j \/ k <= i) => IsUp(s, j) # IsUp(s, k)

LEMMA TailOf ==
  ASSUME NEW S, NEW s \in Seq(S), s # <<>>
  PROVE  /\ Tail(s) \in Seq(S) /\ Len(Tail(s)) = Len(s) - 1 /\ Len(s) \in Nat /\ Len(s) >= 1
         /\ Head(s) = s[1] /\ s[1] \in S
         /\ \A k \in 1 .. Len(s) - 1 : Tail(s)[k] = s[k + 1]
OBVIOUS

LEMMA AppendOf ==
  ASSUME NEW S, NEW s \in Seq(S), NEW x \in S
  PROVE  /\ Append(s, x) \in Seq(S) /\ Len(Append(s, x)) = Len(s) + 1 /\ Len(s) \in Nat
         /\ Append(s, x)[Len(s) + 1] = x
         /\ \A k \in 1 .. Len(s) : Append(s, x)[k] = s[k]
OBVIOUS

LEMMA TurnTail ==
  ASSUME NEW s \in Seq(Events), s # <<>>, NEW up \in BOOLEAN, NEW announced \in BOOLEAN,
         InTurn(s, up, announced)
  PROVE  IF 1 \in Signals(s) THEN IsUp(s, 1) # up /\ InTurn(Tail(s), IsUp(s, 1), announced)
         ELSE InTurn(Tail(s), up, announced)
<1> DEFINE t == Tail(s)
           u == IF 1 \in Signals(s) THEN IsUp(s, 1) ELSE up
<1>1. Len(t) = Len(s) - 1 /\ Len(s) \in Nat /\ Len(s) >= 1 /\ \A k \in 1 .. Len(t) : t[k] = s[k + 1]
  BY TailOf
<1> HIDE DEF t
<1>2. \A k \in Signals(t) : /\ k \in 1 .. Len(t) /\ k + 1 \in Signals(s) /\ IsUp(t, k) = IsUp(s, k + 1)
  BY <1>1 DEF Signals, IsUp
<1>3. \A k \in Signals(s) : k \in 1 .. Len(s) /\ (k # 1 => k - 1 \in Signals(t) /\ k - 1 + 1 = k)
  BY <1>1 DEF Signals
<1>4. 1 \in Signals(s) => IsUp(s, 1) # up
  BY <1>3 DEF InTurn
<1>5. u \in BOOLEAN
  BY DEF IsUp
<1>6. Signals(t) = {} => u = announced
  <2> SUFFICES ASSUME Signals(t) = {} PROVE u = announced
    OBVIOUS
  <2>1. \A k \in Signals(s) : k = 1
    BY <1>3
  <2>2. CASE 1 \in Signals(s)
    <3>1. \A j \in Signals(s) : j <= 1
      BY <2>1
    <3> QED BY <2>2, <3>1 DEF InTurn
  <2>3. CASE 1 \notin Signals(s)
    <3>1. Signals(s) = {}
      BY <2>1, <2>3
    <3> QED BY <2>3, <3>1 DEF InTurn
  <2> QED BY <2>2, <2>3
<1>7. ASSUME NEW k \in Signals(t), \A j \in Signals(t) : k <= j PROVE IsUp(t, k) # u
  <2>1. \A j \in Signals(s) : j = 1 \/ k + 1 <= j
    BY <1>2, <1>3, <1>7
  <2>2. CASE 1 \in Signals(s)
    <3>1. \A i \in Signals(s) : i <= 1 \/ k + 1 <= i
      BY <2>1
    <3>2. k + 1 \in Signals(s) /\ 1 < k + 1
      BY <1>2, <1>7
    <3>3. IsUp(s, 1) # IsUp(s, k + 1)
      BY <2>2, <3>1, <3>2 DEF InTurn
    <3> QED BY <1>2, <2>2, <3>3
  <2>3. CASE 1 \notin Signals(s)
    <3>1. k + 1 \in Signals(s) /\ \A j \in Signals(s) : k + 1 <= j
      BY <1>2, <2>1, <2>3
    <3> QED BY <1>2, <2>3, <3>1 DEF InTurn
  <2> QED BY <2>2, <2>3
<1>8. ASSUME NEW k \in Signals(t), \A j \in Signals(t) : j <= k PROVE IsUp(t, k) = announced
  <2>1. k + 1 \in Signals(s) /\ \A j \in Signals(s) : j <= k + 1
    BY <1>2, <1>3, <1>8
  <2> QED BY <1>2, <2>1 DEF InTurn
<1>9. ASSUME NEW k \in Signals(t), NEW j \in Signals(t), j < k, \A i \in Signals(t) : i <= j \/ k <= i
      PROVE  IsUp(t, j) # IsUp(t, k)
  <2>1. k + 1 \in Signals(s) /\ j + 1 \in Signals(s) /\ j + 1 < k + 1
    BY <1>2, <1>9
  <2>2. \A i \in Signals(s) : i <= j + 1 \/ k + 1 <= i
    BY <1>2, <1>3, <1>9
  <2> QED BY <1>2, <2>1, <2>2 DEF InTurn
<1>10. InTurn(t, u, announced)
  <2> HIDE DEF u
  <2> QED BY <1>6, <1>7, <1>8, <1>9 DEF InTurn
<1> QED BY <1>4, <1>10 DEF t

LEMMA TurnReport ==
  ASSUME NEW s \in Seq(Events), NEW e \in Events, e.type \notin {"available", "unavailable"},
         NEW up, NEW announced, InTurn(s, up, announced)
  PROVE  InTurn(Append(s, e), up, announced) /\ Signals(Append(s, e)) = Signals(s)
<1>1. Signals(Append(s, e)) = Signals(s)
  BY AppendOf DEF Signals
<1>2. \A k \in Signals(s) : IsUp(Append(s, e), k) = IsUp(s, k)
  BY AppendOf DEF Signals, IsUp
<1> QED BY <1>1, <1>2 DEF InTurn

LEMMA StatusIs ==
  ASSUME NEW up \in BOOLEAN
  PROVE  /\ Status(up) \in Events /\ Status(up).type \in {"available", "unavailable"}
         /\ (Status(up).type = "available") = up /\ (Status(up).type = "unavailable") = ~up
BY DEF Status, Event, Events, EventTypes

LEMMA TurnSignal ==
  ASSUME NEW s \in Seq(Events), NEW up \in BOOLEAN, NEW announced \in BOOLEAN,
         InTurn(s, up, announced)
  PROVE  LET t == Append(s, Status(~announced)) IN InTurn(t, up, ~announced) /\ Signals(t) # {}
<1> DEFINE t == Append(s, Status(~announced))
           n == Len(s) + 1
<1>1. /\ Status(~announced) \in Events /\ Status(~announced).type \in {"available", "unavailable"}
      /\ (Status(~announced).type = "available") = (~announced)
  BY StatusIs
<1>2. /\ Len(t) = n /\ Len(s) \in Nat /\ t[n] = Status(~announced)
      /\ \A k \in 1 .. Len(s) : t[k] = s[k]
  BY <1>1, AppendOf
<1> HIDE DEF t
<1>3. Signals(t) = Signals(s) \cup {n} /\ IsUp(t, n) = (~announced)
  BY <1>1, <1>2 DEF Signals, IsUp
<1>4. \A k \in Signals(s) : k \in 1 .. Len(s) /\ k < n /\ IsUp(t, k) = IsUp(s, k)
  BY <1>2 DEF Signals, IsUp
<1>5. ASSUME NEW k \in Signals(t), \A j \in Signals(t) : k <= j PROVE IsUp(t, k) # up
  <2>1. CASE k \in Signals(s)
    BY <1>3, <1>4, <1>5, <2>1 DEF InTurn
  <2>2. CASE k = n
    <3>1. ASSUME NEW j \in Signals(s) PROVE FALSE
      <4>1. k <= j
        BY <1>3, <1>5
      <4>2. j \in Int /\ n \in Int /\ j < n
        BY <1>2, <1>4
      <4> QED BY <2>2, <4>1, <4>2
    <3>2. Signals(s) = {}
      BY <3>1
    <3> QED BY <1>3, <2>2, <3>2 DEF InTurn
  <2> QED BY <1>3, <2>1, <2>2
<1>6. ASSUME NEW k \in Signals(t), \A j \in Signals(t) : j <= k PROVE IsUp(t, k) = (~announced)
  <2>1. k = n
    BY <1>2, <1>3, <1>4, <1>6
  <2> QED BY <1>3, <2>1
<1>7. ASSUME NEW k \in Signals(t), NEW j \in Signals(t), j < k, \A i \in Signals(t) : i <= j \/ k <= i
      PROVE  IsUp(t, j) # IsUp(t, k)
  <2>1. j \in Signals(s)
    BY <1>2, <1>3, <1>4, <1>7
  <2>2. CASE k \in Signals(s)
    BY <1>3, <1>4, <1>7, <2>1, <2>2 DEF InTurn
  <2>3. CASE k = n
    <3>1. \A i \in Signals(s) : i <= j
      BY <1>2, <1>3, <1>4, <1>7, <2>3
    <3>2. IsUp(s, j) = announced
      BY <2>1, <3>1 DEF InTurn
    <3> QED BY <1>3, <1>4, <2>1, <2>3, <3>2
  <2> QED BY <1>3, <2>2, <2>3
<1>8. InTurn(t, up, ~announced) /\ Signals(t) # {}
  BY <1>3, <1>5, <1>6, <1>7 DEF InTurn
<1> QED BY <1>8 DEF t


-----------------------------------------------------------------------------
(* The commands that are under way *)

Tells(s, types) == {k \in 1 .. Len(s) : s[k].type \in types}

\* The player will have the f of v: the last command that tells it does, or
\* nothing under way tells it and the player has it, or is excused.
Arrives(s, types, f, v, p, excused) ==
  \/ Tells(s, types) = {} /\ (p[f] = v[f] \/ excused)
  \/ \E k \in Tells(s, types) : (\A j \in Tells(s, types) : j <= k) /\ s[k][f] = v[f]

\* What follows the last load or stop is about the video of v.
AboutIt(s, v) ==
  \A k \in Tells(s, {"play", "pause", "seek"}) :
    (\A j \in Tells(s, {"load", "stop"}) : j < k) => s[k].item = v.item

Coming(s, v, p, excused) ==
  /\ Arrives(s, {"load", "stop"}, "item", v, p, excused)
  /\ v.item # None =>
       /\ AboutIt(s, v)
       /\ Arrives(s, {"load", "play", "pause"}, "paused", v, p, excused)
       /\ Arrives(s, {"load", "seek"}, "seeks", v, p, excused)

LEMMA TellsAppend ==
  ASSUME NEW s \in Seq(Commands), NEW c \in Commands, NEW types
  PROVE  LET t == Append(s, c)
         IN /\ Tells(t, types) = IF c.type \in types THEN Tells(s, types) \cup {Len(s) + 1} ELSE Tells(s, types)
            /\ t[Len(s) + 1] = c /\ Len(s) \in Nat
            /\ \A k \in Tells(s, types) : k \in 1 .. Len(s) /\ t[k] = s[k]
BY AppendOf DEF Tells

LEMMA TellsTail ==
  ASSUME NEW s \in Seq(Commands), s # <<>>, NEW types
  PROVE  LET t == Tail(s)
         IN /\ \A k \in Tells(t, types) : k \in 1 .. Len(t) /\ k + 1 \in Tells(s, types) /\ t[k] = s[k + 1]
            /\ \A k \in Tells(s, types) :
                 k \in 1 .. Len(s) /\ (k # 1 => k - 1 \in Tells(t, types) /\ t[k - 1] = s[k])
BY TailOf DEF Tells

\* One command more: it tells f, or what tells f stays the last that does.
LEMMA ArrivesLast ==
  ASSUME NEW s \in Seq(Commands), NEW c \in Commands, NEW types, NEW f, NEW w, NEW p, NEW excused,
         c.type \in types, c[f] = w[f]
  PROVE  Arrives(Append(s, c), types, f, w, p, excused)
<1> DEFINE t == Append(s, c)
           n == Len(s) + 1
<1>1. /\ Tells(t, types) = Tells(s, types) \cup {n} /\ t[n] = c /\ Len(s) \in Nat
      /\ \A k \in Tells(s, types) : k \in 1 .. Len(s)
  BY TellsAppend
<1> HIDE DEF t
<1>2. n \in Tells(t, types) /\ \A j \in Tells(t, types) : j <= n
  BY <1>1
<1>3. t[n][f] = w[f]
  BY <1>1
<1> QED BY <1>2, <1>3 DEF Arrives, t

LEMMA ArrivesStill ==
  ASSUME NEW s \in Seq(Commands), NEW c \in Commands, NEW types, NEW f, NEW v, NEW w, NEW p,
         NEW excused, Arrives(s, types, f, v, p, excused), c.type \notin types, w[f] = v[f]
  PROVE  Arrives(Append(s, c), types, f, w, p, excused)
<1> DEFINE t == Append(s, c)
<1>1. Tells(t, types) = Tells(s, types) /\ \A k \in Tells(s, types) : t[k] = s[k]
  BY TellsAppend
<1> HIDE DEF t
<1> QED BY <1>1 DEF Arrives, t

LEMMA ArrivesTail ==
  ASSUME NEW s \in Seq(Commands), s # <<>>, NEW types, NEW f, NEW v, NEW p, NEW new, NEW excused,
         Arrives(s, types, f, v, p, excused),
         (\A j \in Tells(s, types) : j = 1) => new[f] = v[f] \/ excused
  PROVE  Arrives(Tail(s), types, f, v, new, excused)
<1> DEFINE t == Tail(s)
<1>1. /\ \A k \in Tells(t, types) : k \in 1 .. Len(t) /\ k + 1 \in Tells(s, types) /\ t[k] = s[k + 1]
      /\ \A k \in Tells(s, types) :
           k \in 1 .. Len(s) /\ (k # 1 => k - 1 \in Tells(t, types) /\ t[k - 1] = s[k])
      /\ Len(t) = Len(s) - 1 /\ Len(s) \in Nat
  BY TellsTail, TailOf
<1> HIDE DEF t
<1>2. CASE \A j \in Tells(s, types) : j = 1
  <2>1. Tells(t, types) = {}
    BY <1>1, <1>2
  <2> QED BY <1>2, <2>1 DEF Arrives, t
<1>3. CASE \E j \in Tells(s, types) : j # 1
  <2>1. PICK k \in Tells(s, types) : (\A j \in Tells(s, types) : j <= k) /\ s[k][f] = v[f]
    BY <1>3 DEF Arrives
  <2>2. k # 1
    BY <1>1, <1>3, <2>1
  <2>3. k - 1 \in Tells(t, types) /\ t[k - 1][f] = v[f]
    BY <1>1, <2>1, <2>2
  <2>4. \A j \in Tells(t, types) : j <= k - 1
    BY <1>1, <2>1
  <2> QED BY <2>3, <2>4 DEF Arrives, t
<1> QED BY <1>2, <1>3

\* Another excuse, another player that has the same or is excused.
LEMMA ArrivesFor ==
  ASSUME NEW s, NEW types, NEW f, NEW v, NEW p, NEW new, NEW excused, NEW more,
         Arrives(s, types, f, v, p, excused), p[f] = v[f] \/ excused => new[f] = v[f] \/ more
  PROVE  Arrives(s, types, f, v, new, more)
BY DEF Arrives

LEMMA AboutTail ==
  ASSUME NEW s \in Seq(Commands), s # <<>>, NEW v, AboutIt(s, v)
  PROVE  AboutIt(Tail(s), v)
<1> DEFINE t == Tail(s)
           sets == {"load", "stop"}
           rest == {"play", "pause", "seek"}
<1>1. Len(t) = Len(s) - 1 /\ Len(s) \in Nat
  BY TailOf
<1>2. \A k \in Tells(t, rest) : k \in 1 .. Len(t) /\ k + 1 \in Tells(s, rest) /\ t[k] = s[k + 1]
  BY TellsTail
<1>3. \A k \in Tells(s, sets) : k \in 1 .. Len(s) /\ (k # 1 => k - 1 \in Tells(t, sets))
  BY TellsTail
<1> HIDE DEF t, sets, rest
<1>4. ASSUME NEW k \in Tells(t, rest), \A j \in Tells(t, sets) : j < k PROVE t[k].item = v.item
  <2>1. \A j \in Tells(s, sets) : j < k + 1
    BY <1>1, <1>2, <1>3, <1>4
  <2> QED BY <1>2, <2>1 DEF AboutIt, sets, rest
<1> QED BY <1>4 DEF AboutIt, t, sets, rest


LEMMA CommandIs ==
  ASSUME NEW v \in Views, NEW type \in CommandTypes \ {"lease"},
         type = "load" => v.item # None, type = "stop" => v.item = None
  PROVE  LET c == Command(type, v)
         IN /\ c \in Commands /\ c.type = type
            /\ c.item = v.item /\ c.paused = v.paused /\ c.seeks = v.seeks
<1> DEFINE c == Command(type, v)
<1>1. c.type = type /\ c.item = v.item /\ c.paused = v.paused /\ c.seeks = v.seeks
  BY DEF Command
<1>2. c \in [type : CommandTypes, item : Ids \cup {None}, paused : BOOLEAN, seeks : Nat]
  BY DEF Command, Views
<1>3. Lease.type = "lease"
  BY DEF Lease, Command
<1> HIDE DEF c
<1>4. c \in Commands
  BY <1>1, <1>2, <1>3 DEF Commands
<1> QED BY <1>1, <1>4 DEF c

LEMMA LeaseIs == Lease \in Commands /\ Lease.type = "lease"
<1>1. Lease.type = "lease" /\ Lease.item = None
  BY DEF Lease, Command, NothingSent
<1>2. Lease \in [type : CommandTypes, item : Ids \cup {None}, paused : BOOLEAN, seeks : Nat]
  BY DEF Lease, Command, CommandTypes, NothingSent
<1> QED BY <1>1, <1>2 DEF Commands

LEMMA AboutAppend ==
  ASSUME NEW s \in Seq(Commands), NEW c \in Commands, NEW v, NEW w,
         c.type \in {"load", "stop"} \/ (AboutIt(s, v) /\ w.item = v.item /\ (c.type = "lease" \/ c.item = w.item))
  PROVE  AboutIt(Append(s, c), w)
<1> DEFINE t == Append(s, c)
           n == Len(s) + 1
           sets == {"load", "stop"}
           rest == {"play", "pause", "seek"}
<1>0. (c.type \in sets => c.type \notin rest) /\ (c.type = "lease" => c.type \notin sets /\ c.type \notin rest)
  OBVIOUS
<1> HIDE DEF sets, rest
<1>1. /\ Tells(t, sets) = IF c.type \in sets THEN Tells(s, sets) \cup {n} ELSE Tells(s, sets)
      /\ t[n] = c /\ Len(s) \in Nat
      /\ \A k \in Tells(s, sets) : k \in 1 .. Len(s) /\ t[k] = s[k]
  BY TellsAppend
<1>2. /\ Tells(t, rest) = IF c.type \in rest THEN Tells(s, rest) \cup {n} ELSE Tells(s, rest)
      /\ \A k \in Tells(s, rest) : k \in 1 .. Len(s) /\ t[k] = s[k]
  BY TellsAppend
<1> HIDE DEF t
<1>5. CASE c.type \in sets
  <2>1. ASSUME NEW k \in Tells(t, rest), \A j \in Tells(t, sets) : j < k PROVE FALSE
    <3>1. n < k /\ k \in 1 .. Len(s)
      BY <1>0, <1>1, <1>2, <1>5, <2>1
    <3> QED BY <1>1, <3>1
  <2> QED BY <2>1 DEF AboutIt, t, sets, rest
<1>6. CASE c.type \notin sets
  <2>1. AboutIt(s, v) /\ w.item = v.item /\ (c.type = "lease" \/ c.item = w.item)
    BY <1>6 DEF sets
  <2>2. ASSUME NEW k \in Tells(t, rest), \A j \in Tells(t, sets) : j < k PROVE t[k].item = w.item
    <3>1. CASE k \in Tells(s, rest)
      BY <1>1, <1>2, <1>6, <2>1, <2>2, <3>1 DEF AboutIt, sets, rest
    <3>2. CASE k = n /\ c.type \in rest
      BY <1>0, <1>1, <2>1, <3>2
    <3> QED BY <1>2, <2>2, <3>1, <3>2
  <2> QED BY <2>2 DEF AboutIt, t, sets, rest
<1> QED BY <1>5, <1>6

\* The director passes on another video.
LEMMA ComingLoads ==
  ASSUME NEW s \in Seq(Commands), NEW w \in Views, NEW p, NEW excused
  PROVE  Coming(Append(s, Command(IF w.item = None THEN "stop" ELSE "load", w)), w, p, excused)
<1> DEFINE type == IF w.item = None THEN "stop" ELSE "load"
           c == Command(type, w)
<1>1. c \in Commands /\ c.type = type /\ c.item = w.item /\ c.paused = w.paused /\ c.seeks = w.seeks
  BY CommandIs DEF CommandTypes
<1> HIDE DEF c
<1>2. Arrives(Append(s, c), {"load", "stop"}, "item", w, p, excused)
  BY <1>1, ArrivesLast
<1>3. CASE w.item # None
  <2>1. AboutIt(Append(s, c), w)
    BY <1>1, AboutAppend
  <2>2. Arrives(Append(s, c), {"load", "play", "pause"}, "paused", w, p, excused)
    BY <1>1, <1>3, ArrivesLast
  <2>3. Arrives(Append(s, c), {"load", "seek"}, "seeks", w, p, excused)
    BY <1>1, <1>3, ArrivesLast
  <2> QED BY <1>2, <2>1, <2>2, <2>3 DEF Coming, c
<1> QED BY <1>2, <1>3 DEF Coming, c

\* It passes on a seek, a pause or the end of one.
LEMMA ComingSeeks ==
  ASSUME NEW s \in Seq(Commands), NEW v \in Views, NEW w \in Views, NEW p, NEW excused,
         NEW c \in Commands, c.type = "seek", c.item = w.item, c.seeks = w.seeks,
         Coming(s, v, p, excused), v.item # None, w.item = v.item, w.paused = v.paused
  PROVE  Coming(Append(s, c), w, p, excused)
<1>1. Arrives(Append(s, c), {"load", "stop"}, "item", w, p, excused)
  BY ArrivesStill DEF Coming
<1>2. AboutIt(Append(s, c), w)
  BY AboutAppend DEF Coming
<1>3. Arrives(Append(s, c), {"load", "play", "pause"}, "paused", w, p, excused)
  BY ArrivesStill DEF Coming
<1>4. Arrives(Append(s, c), {"load", "seek"}, "seeks", w, p, excused)
  BY ArrivesLast
<1> QED BY <1>1, <1>2, <1>3, <1>4 DEF Coming

LEMMA ComingPauses ==
  ASSUME NEW s \in Seq(Commands), NEW v \in Views, NEW w \in Views, NEW p, NEW excused,
         Coming(s, v, p, excused), v.item # None, w.item = v.item, w.seeks = v.seeks
  PROVE  Coming(Append(s, Command(IF w.paused THEN "pause" ELSE "play", w)), w, p, excused)
<1> DEFINE type == IF w.paused THEN "pause" ELSE "play"
           c == Command(type, w)
<1>1. c \in Commands /\ c.type = type /\ c.item = w.item /\ c.paused = w.paused
  BY CommandIs DEF CommandTypes
<1>2. type \in {"play", "pause"}
  OBVIOUS
<1> HIDE DEF c, type
<1>3. Arrives(Append(s, c), {"load", "stop"}, "item", w, p, excused)
  BY <1>1, <1>2, ArrivesStill DEF Coming
<1>4. AboutIt(Append(s, c), w)
  BY <1>1, AboutAppend DEF Coming
<1>5. Arrives(Append(s, c), {"load", "play", "pause"}, "paused", w, p, excused)
  BY <1>1, <1>2, ArrivesLast
<1>6. Arrives(Append(s, c), {"load", "seek"}, "seeks", w, p, excused)
  BY <1>1, <1>2, ArrivesStill DEF Coming
<1> QED BY <1>3, <1>4, <1>5, <1>6 DEF Coming, c, type

LEMMA ComingLease ==
  ASSUME NEW s \in Seq(Commands), NEW v, NEW p, NEW excused, Coming(s, v, p, excused)
  PROVE  Coming(Append(s, Lease), v, p, excused)
<1>1. Lease \in Commands /\ Lease.type \notin {"load", "stop", "play", "pause", "seek"}
  BY LeaseIs
<1>2. Arrives(Append(s, Lease), {"load", "stop"}, "item", v, p, excused)
  BY <1>1, ArrivesStill DEF Coming
<1>3. CASE v.item # None
  <2>1. AboutIt(Append(s, Lease), v)
    BY <1>3, LeaseIs, AboutAppend DEF Coming
  <2>2. Arrives(Append(s, Lease), {"load", "play", "pause"}, "paused", v, p, excused)
    BY <1>1, <1>3, ArrivesStill DEF Coming
  <2>3. Arrives(Append(s, Lease), {"load", "seek"}, "seeks", v, p, excused)
    BY <1>1, <1>3, ArrivesStill DEF Coming
  <2> QED BY <1>2, <2>1, <2>2, <2>3 DEF Coming
<1> QED BY <1>2, <1>3 DEF Coming

\* A player that differs only where there is an excuse.
LEMMA ComingFor ==
  ASSUME NEW s, NEW v, NEW p, NEW new, NEW excused, NEW more, Coming(s, v, p, excused),
         excused => more, p.item = v.item => new.item = v.item \/ more,
         new.paused = p.paused, new.seeks = p.seeks
  PROVE  Coming(s, v, new, more)
BY ArrivesFor DEF Coming

LEMMA ChangesAre ==
  ASSUME NEW s \in Seq(Commands), NEW v \in Views, NEW w \in Views
  PROVE  s \o Changes(v, w) \in Seq(Commands)
<1> DEFINE load == Command(IF w.item = None THEN "stop" ELSE "load", w)
           seek == Command("seek", w)
           pause == Command(IF w.paused THEN "pause" ELSE "play", w)
<1>1. load \in Commands /\ seek \in Commands /\ pause \in Commands
  BY CommandIs DEF CommandTypes
<1>2. Changes(v, w) = IF w.item # v.item THEN <<load>>
                      ELSE (IF w.seeks # v.seeks THEN <<seek>> ELSE <<>>)
                           \o (IF w.paused # v.paused THEN <<pause>> ELSE <<>>)
  BY DEF Changes
<1> HIDE DEF load, seek, pause
<1> QED BY <1>1, <1>2

\* Whatever the director passes on, what it passed on last arrives.
LEMMA ComingTold ==
  ASSUME NEW s \in Seq(Commands), NEW v \in Views, NEW w \in Views, NEW p, NEW excused,
         v.item = None => v = NothingSent, w.item = None => w = NothingSent,
         v.item = w.item => Coming(s, v, p, excused)
  PROVE  Coming(s \o Changes(v, w), w, p, excused)
<1>1. CASE w.item # v.item
  <2> DEFINE c == Command(IF w.item = None THEN "stop" ELSE "load", w)
  <2>1. Changes(v, w) = <<c>>
    BY <1>1 DEF Changes
  <2>2. c \in Commands
    BY CommandIs DEF CommandTypes
  <2>3. Coming(Append(s, c), w, p, excused)
    BY ComingLoads
  <2> HIDE DEF c
  <2>4. s \o <<c>> = Append(s, c) /\ Append(s, c) \in Seq(Commands)
    BY <2>2
  <2> QED BY <2>1, <2>3, <2>4
<1>2. CASE w.item = v.item /\ w.item = None
  <2>1. v = w
    BY <1>2
  <2>2. Changes(v, w) = <<>> /\ s \o <<>> = s
    BY <2>1 DEF Changes
  <2> QED BY <1>2, <2>1, <2>2
<1>3. CASE w.item = v.item /\ w.item # None
  <2> DEFINE c == Command("seek", w)
             d == Command(IF w.paused THEN "pause" ELSE "play", w)
             u == [v EXCEPT !.seeks = w.seeks]
             a == IF w.seeks # v.seeks THEN <<c>> ELSE <<>>
             b == IF w.paused # v.paused THEN <<d>> ELSE <<>>
  <2>1. Changes(v, w) = a \o b
    BY <1>3 DEF Changes
  <2>2. c \in Commands /\ c.type = "seek" /\ c.item = w.item /\ c.seeks = w.seeks /\ d \in Commands
    BY CommandIs DEF CommandTypes
  <2>3. u \in Views /\ u.item = v.item /\ u.paused = v.paused /\ u.seeks = w.seeks
    BY DEF Views
  <2>5. Coming(s, v, p, excused)
    BY <1>3
  <2>6. CASE w.seeks = v.seeks /\ w.paused = v.paused
    <3>1. a \o b = <<>> /\ s \o <<>> = s /\ v = w
      BY <1>3, <2>6 DEF Views
    <3> QED BY <2>1, <2>5, <3>1
  <2>7. CASE w.seeks # v.seeks /\ w.paused = v.paused
    <3> HIDE DEF c
    <3>1. Coming(Append(s, c), w, p, excused)
      BY <1>3, <2>2, <2>5, <2>7, ComingSeeks
    <3>2. s \o (a \o b) = Append(s, c) /\ Append(s, c) \in Seq(Commands)
      BY <2>2, <2>7
    <3> QED BY <2>1, <3>1, <3>2
  <2>8. CASE w.seeks = v.seeks /\ w.paused # v.paused
    <3>1. Coming(Append(s, d), w, p, excused)
      BY <1>3, <2>5, <2>8, ComingPauses
    <3> HIDE DEF d
    <3>2. s \o (a \o b) = Append(s, d) /\ Append(s, d) \in Seq(Commands)
      BY <2>2, <2>8
    <3> QED BY <2>1, <3>1, <3>2
  <2>9. CASE w.seeks # v.seeks /\ w.paused # v.paused
    <3>1. Coming(Append(s, c), u, p, excused)
      <4> HIDE DEF c, u
      <4> QED BY <1>3, <2>2, <2>3, <2>5, ComingSeeks
    <3>2. Append(s, c) \in Seq(Commands)
      BY <2>2, AppendOf
    <3>3. Coming(Append(Append(s, c), d), w, p, excused)
      BY <1>3, <2>3, <3>1, <3>2, ComingPauses
    <3> HIDE DEF c, d
    <3>4. s \o (a \o b) = Append(Append(s, c), d) /\ Append(Append(s, c), d) \in Seq(Commands)
      BY <2>2, <2>9
    <3> QED BY <2>1, <3>3, <3>4
  <2> QED BY <2>6, <2>7, <2>8, <2>9
<1> QED BY <1>1, <1>2, <1>3


\* The host takes a command.
LEMMA ArrivesPop ==
  ASSUME NEW s \in Seq(Commands), s # <<>>, NEW types, NEW f, NEW v, NEW p, NEW new, NEW excused,
         Arrives(s, types, f, v, p, excused),
         s[1].type \notin types => new[f] = p[f],
         s[1].type \in types => new[f] = s[1][f] \/ (Tells(s, types) \subseteq {1} => excused)
  PROVE  Arrives(Tail(s), types, f, v, new, excused)
<1>1. ASSUME \A j \in Tells(s, types) : j = 1 PROVE new[f] = v[f] \/ excused
  <2>1. CASE s[1].type \in types
    <3>1. 1 \in Tells(s, types)
      BY <2>1, TailOf DEF Tells
    <3>2. s[1][f] = v[f]
      BY <1>1, <3>1 DEF Arrives
    <3>3. Tells(s, types) \subseteq {1}
      BY <1>1
    <3> QED BY <2>1, <3>2, <3>3
  <2>2. CASE s[1].type \notin types
    <3>1. Tells(s, types) = {}
      BY <1>1, <2>2 DEF Tells
    <3> QED BY <2>2, <3>1 DEF Arrives
  <2> QED BY <2>1, <2>2
<1> QED BY <1>1, ArrivesTail

LEMMA HandledIs ==
  ASSUME NEW p \in Players, p.owned, NEW c \in Commands
  PROVE  LET new == Handled(p, c)
         IN /\ new \in Players /\ new.owned /\ new.announced = p.announced
            /\ new.item = IF c.type \in {"load", "stop"} THEN c.item ELSE p.item
            /\ new.paused = IF c.type = "load" \/ (c.type \in {"play", "pause"} /\ p.item = c.item)
                            THEN c.paused ELSE p.paused
            /\ new.seeks = IF c.type = "load" \/ (c.type = "seek" /\ p.item = c.item)
                           THEN c.seeks ELSE p.seeks
<1>1. CASE c.type = "load"
  BY <1>1 DEF Handled, Players, Commands
<1>2. CASE c.type = "stop"
  BY <1>2 DEF Handled, Players, Commands
<1>3. CASE c.type \in {"play", "pause"}
  BY <1>3 DEF Handled, Players, Commands
<1>4. CASE c.type = "seek"
  BY <1>4 DEF Handled, Players, Commands
<1>5. CASE c.type = "lease"
  BY <1>5 DEF Handled, Players, Commands
<1> QED BY <1>1, <1>2, <1>3, <1>4, <1>5 DEF Commands, CommandTypes

LEMMA ComingHandled ==
  ASSUME NEW s \in Seq(Commands), s # <<>>, NEW v \in Views, NEW p \in Players, p.owned,
         NEW excused, Coming(s, v, p, excused)
  PROVE  Coming(Tail(s), v, Handled(p, Head(s)), excused)
<1> DEFINE c == s[1]
           new == Handled(p, c)
           sets == {"load", "stop"}
<1>1. c \in Commands /\ Head(s) = c /\ Len(s) \in Nat /\ 1 \in 1 .. Len(s)
  BY TailOf
<1>2. /\ new.item = IF c.type \in {"load", "stop"} THEN c.item ELSE p.item
      /\ new.paused = IF c.type = "load" \/ (c.type \in {"play", "pause"} /\ p.item = c.item)
                      THEN c.paused ELSE p.paused
      /\ new.seeks = IF c.type = "load" \/ (c.type = "seek" /\ p.item = c.item)
                     THEN c.seeks ELSE p.seeks
  BY <1>1, HandledIs
<1> HIDE DEF new
<1>3. Arrives(Tail(s), {"load", "stop"}, "item", v, new, excused)
  <2>1. Arrives(s, {"load", "stop"}, "item", v, p, excused)
    BY DEF Coming
  <2> QED BY <1>2, <2>1, ArrivesPop
\* A pause or a seek at the head is about the video of v, if no load follows.
<1>4. ASSUME v.item # None, c.type \in {"play", "pause", "seek"}, NEW types, "load" \in types,
             Tells(s, types) \subseteq {1}, c.item # p.item
      PROVE  excused
  <2>1. Tells(s, sets) = {}
    <3> SUFFICES ASSUME Tells(s, sets) # {} PROVE FALSE
      OBVIOUS
    <3>1. PICK k \in Tells(s, sets) : s[k].item = v.item
      BY DEF Coming, Arrives
    <3>2. k \in 1 .. Len(s) /\ s[k].type \in sets /\ s[k] \in Commands
      BY DEF Tells
    <3>3. s[k].type = "load"
      BY <1>4, <3>1, <3>2 DEF Commands
    <3>4. k = 1
      BY <1>4, <3>2, <3>3 DEF Tells
    <3> QED BY <1>4, <3>3, <3>4
  <2>2. p.item = v.item \/ excused
    BY <2>1 DEF Coming, Arrives
  <2>3. 1 \in Tells(s, {"play", "pause", "seek"})
    BY <1>1, <1>4 DEF Tells
  <2>4. c.item = v.item
    BY <1>4, <2>1, <2>3 DEF Coming, AboutIt
  <2> QED BY <1>4, <2>2, <2>4
<1>5. ASSUME v.item # None PROVE AboutIt(Tail(s), v)
  BY <1>5, AboutTail DEF Coming
<1>6. ASSUME v.item # None PROVE Arrives(Tail(s), {"load", "play", "pause"}, "paused", v, new, excused)
  <2> DEFINE types == {"load", "play", "pause"}
  <2>1. Arrives(s, types, "paused", v, p, excused)
    BY <1>6 DEF Coming
  <2>2. c.type \notin types => new.paused = p.paused
    BY <1>2
  <2>3. c.type \in types => new.paused = c.paused \/ (Tells(s, types) \subseteq {1} => excused)
    BY <1>2, <1>4, <1>6
  <2> HIDE DEF types
  <2>4. Arrives(Tail(s), types, "paused", v, new, excused)
    BY <2>1, <2>2, <2>3, ArrivesPop
  <2> QED BY <2>4 DEF types
<1>7. ASSUME v.item # None PROVE Arrives(Tail(s), {"load", "seek"}, "seeks", v, new, excused)
  <2> DEFINE types == {"load", "seek"}
  <2>1. Arrives(s, types, "seeks", v, p, excused)
    BY <1>7 DEF Coming
  <2>2. c.type \notin types => new.seeks = p.seeks
    BY <1>2
  <2>3. c.type \in types => new.seeks = c.seeks \/ (Tells(s, types) \subseteq {1} => excused)
    BY <1>2, <1>4, <1>7
  <2> HIDE DEF types
  <2>4. Arrives(Tail(s), types, "seeks", v, new, excused)
    BY <2>1, <2>2, <2>3, ArrivesPop
  <2> QED BY <2>4 DEF types
<1>8. Coming(Tail(s), v, new, excused)
  BY <1>3, <1>5, <1>6, <1>7 DEF Coming
<1> QED BY <1>1, <1>8 DEF new


-----------------------------------------------------------------------------
(* The invariant of the mirror *)

PlayerTyped ==
  /\ available \in BOOLEAN /\ sent \in Views /\ player \in Players /\ losses \in Nat
  /\ commands \in Seq(Commands) /\ events \in Seq(Events)
  /\ player.announced => player.owned

\* The player reported the end of the video of v, and nobody heard of it yet.
ReportedIn(s, v) ==
  \E k \in 1 .. Len(s) : s[k].type \in {"played", "failed"} /\ s[k].item = v.item

\* Before a lease was lost the player is only told what it is given while it
\* is available.
NothingLate ==
  losses = 0 =>
    /\ \A k \in 1 .. Len(events) : events[k].type # "unavailable"
    /\ ~available => player.item = None /\ \A k \in 1 .. Len(commands) : commands[k] = Lease

WillShow ==
  available /\ Signals(events) = {} =>
    (sent.item = None /\ losses > 0) \/ Coming(commands, sent, player, ReportedIn(events, sent))

MirrorInv ==
  /\ VideoInv /\ Followed /\ PlayerTyped
  /\ InTurn(events, available, player.announced)
  /\ NothingLate /\ WillShow

LEMMA ViewIs ==
  ASSUME NEW q, QueueOK(q)
  PROVE  View(q) \in Views /\ (View(q).item = None => View(q) = NothingSent)
<1>1. q.current \in Clocks
  BY FieldsOf DEF QueueOK
<1>2. q.current.item = None => q.current = Nobody
  BY DEF QueueOK
<1>3. Nobody.item = None /\ Nobody.seeks = 0 /\ (Nobody.phase = "paused") = FALSE
  BY DEF Nobody
<1>4. View(q) \in Views
  BY <1>1 DEF View, Views, Clocks
<1>5. ASSUME q.current.item = None PROVE View(q) = NothingSent
  BY <1>2, <1>3, <1>5 DEF View, NothingSent
<1> QED BY <1>4, <1>5 DEF View

LEMMA NothingIs == NothingSent \in Views /\ NothingSent.item = None
BY DEF NothingSent, Views

\* What the director last heard, and what it sent if the player is available.
LEMMA ToldIs ==
  ASSUME MirrorInv
  PROVE  /\ told \in Views /\ (told.item = None => told = NothingSent)
         /\ available => sent = told
BY ViewIs DEF MirrorInv, VideoInv, Followed, ToldAll, SentIsCurrent

\* A call on the queue that the director heard.
LEMMA ListenKeeps ==
  ASSUME MirrorInv, VideoInv', Followed', Listen, UNCHANGED <<available, player, losses>>,
         events' \in Seq(Events), InTurn(events', available, player.announced),
         losses = 0 => \A k \in 1 .. Len(events') : events'[k].type # "unavailable",
         Signals(events') = {} => Signals(events) = {},
         told'.item = sent.item => (ReportedIn(events, sent) => ReportedIn(events', sent))
  PROVE  MirrorInv'
<1>1. told' \in Views /\ (told'.item = None => told' = NothingSent)
  <2>1. QueueOK(queue') /\ told' = View(queue')
    BY DEF VideoInv, Followed, ToldAll
  <2> QED BY <2>1, ViewIs
<1>2. PlayerTyped
  BY DEF MirrorInv
<1>3. CASE told' = told \/ ~available
  <2>1. sent' = sent /\ commands' = commands
    BY <1>3 DEF Listen, Tell
  <2>2. PlayerTyped' /\ NothingLate'
    BY <1>2, <2>1 DEF PlayerTyped, MirrorInv, NothingLate
  <2>3. WillShow'
    <3> SUFFICES ASSUME available', Signals(events') = {}
                 PROVE  (sent'.item = None /\ losses' > 0)
                        \/ Coming(commands', sent', player', ReportedIn(events', sent'))
      BY DEF WillShow
    <3>1. sent.item = told'.item
      BY <1>3, ToldIs
    <3>2. (sent.item = None /\ losses > 0) \/ Coming(commands, sent, player, ReportedIn(events, sent))
      BY DEF MirrorInv, WillShow
    <3>3. ReportedIn(events, sent) => ReportedIn(events', sent)
      BY <3>1
    <3>4. Coming(commands, sent, player, ReportedIn(events, sent))
            => Coming(commands, sent, player, ReportedIn(events', sent))
      BY <3>3, ComingFor
    <3> QED BY <2>1, <3>2, <3>4
  <2> QED BY <2>2, <2>3 DEF MirrorInv
<1>4. CASE told' # told /\ available
  <2>1. sent' = told' /\ commands' = commands \o Changes(sent, told')
    BY <1>4 DEF Listen, Tell
  <2>2. commands \in Seq(Commands) /\ sent \in Views /\ (sent.item = None => sent = NothingSent)
    BY <1>2, <1>4, ToldIs DEF PlayerTyped
  <2>3. commands' \in Seq(Commands)
    BY <1>1, <2>1, <2>2, ChangesAre
  <2>4. PlayerTyped'
    BY <1>1, <1>2, <2>1, <2>3 DEF PlayerTyped
  <2>5. NothingLate'
    BY <1>4 DEF NothingLate
  <2>6. ASSUME Signals(events') = {} PROVE Coming(commands', told', player, ReportedIn(events', told'))
    <3>1. ASSUME sent.item = told'.item PROVE Coming(commands, sent, player, ReportedIn(events', told'))
      <4>1. sent.item # None
        BY <1>1, <1>4, <2>2, <3>1, ToldIs
      <4>2. Coming(commands, sent, player, ReportedIn(events, sent))
        BY <1>4, <2>6, <4>1 DEF MirrorInv, WillShow
      <4>3. ReportedIn(events, sent) => ReportedIn(events', told')
        BY <3>1 DEF ReportedIn
      <4> QED BY <4>2, <4>3, ComingFor
    <3> QED BY <1>1, <2>1, <2>2, <3>1, ComingTold
  <2>7. WillShow'
    BY <2>1, <2>6 DEF WillShow
  <2> QED BY <2>4, <2>5, <2>7 DEF MirrorInv
<1> QED BY <1>3, <1>4

\* What a step of the mirror is to the queue.
LEMMA QueueHears ==
  ASSUME MirrorInv, [MirrorNext]_allVars
  PROVE  [VideoNext]_videoVars
<1>1. CASE QueueSteps
  BY <1>1 DEF QueueSteps, Heard, VideoNext
<1>2. CASE BrowserReports
  BY <1>2 DEF BrowserReports, VideoNext, PlayerSteps
<1>3. CASE RestartService
  BY <1>3 DEF RestartService, VideoNext
<1>4. CASE Receive
  <2> DEFINE e == Head(events)
  <2>1. /\ IF e.type \in {"available", "unavailable"} THEN ReceiveStatus(e.type = "available")
           ELSE \E g \in BOOLEAN : ReceiveReport(e, g)
        /\ events # <<>>
    BY <1>4 DEF Receive
  <2>2. e \in Events
    BY <2>1, TailOf DEF MirrorInv, PlayerTyped
  <2> HIDE DEF e
  <2>3. CASE ReceiveStatus(e.type = "available")
    BY <2>3 DEF ReceiveStatus
  <2>4. ASSUME NEW g \in BOOLEAN, e.type \notin {"available", "unavailable"}, ReceiveReport(e, g)
        PROVE  [VideoNext]_videoVars
    <3>1. e.item \in Ids /\ e.length \in Lengths \cup {"unknown"}
      BY <2>2, <2>4 DEF Events
    <3>2. \/ UNCHANGED videoVars
          \/ ReportStarted(e.item, e.length, g) \/ ReportLength(e.item, e.length, g)
          \/ e.type \in {"played", "failed"} /\ ReportOver(e.item, e.type, g)
      BY <2>4 DEF ReceiveReport
    <3> QED BY <3>1, <3>2 DEF VideoNext, PlayerSteps
  <2> QED BY <2>1, <2>3, <2>4
<1>5. CASE \/ SendLease \/ HandleCommand \/ RefreshLease \/ LeaseExpires
           \/ \E t \in {"started", "progress", "played", "failed"}, l \in Lengths : PlayerReports(t, l)
  BY <1>5 DEF SendLease, HandleCommand, RefreshLease, LeaseExpires, PlayerReports
<1>6. CASE UNCHANGED allVars
  BY <1>6 DEF allVars
<1> QED BY <1>1, <1>2, <1>3, <1>4, <1>5, <1>6 DEF MirrorNext

LEMMA CallsKeep ==
  ASSUME MirrorInv, VideoInv', Followed', QueueSteps \/ BrowserReports
  PROVE  MirrorInv'
<1>1. Listen /\ UNCHANGED <<available, player, losses, events>>
  BY DEF QueueSteps, Heard, BrowserReports
<1>2. /\ events \in Seq(Events) /\ InTurn(events, available, player.announced)
      /\ (losses = 0 => \A k \in 1 .. Len(events) : events[k].type # "unavailable")
  BY DEF MirrorInv, PlayerTyped, NothingLate
<1> QED BY <1>1, <1>2, ListenKeeps

LEMMA RestartedKeeps ==
  ASSUME MirrorInv, VideoInv', Followed', RestartService
  PROVE  MirrorInv'
<1>1. /\ available' = FALSE /\ sent' = NothingSent /\ commands' = <<>> /\ events' = <<>>
      /\ player' = Empty /\ losses' = losses
  BY DEF RestartService
<1>2. Empty \in Players /\ Empty.announced = FALSE /\ Empty.item = None
  BY DEF Empty, Players
<1>3. PlayerTyped'
  <2>1. losses' \in Nat /\ (player'.announced => player'.owned)
    BY <1>1, <1>2 DEF MirrorInv, PlayerTyped
  <2>2. available' \in BOOLEAN /\ sent' \in Views /\ player' \in Players
    BY <1>1, <1>2, NothingIs
  <2>3. commands' \in Seq(Commands) /\ events' \in Seq(Events)
    BY <1>1
  <2> QED BY <2>1, <2>2, <2>3 DEF PlayerTyped
<1>4. InTurn(<<>>, FALSE, FALSE)
  BY DEF InTurn, Signals
<1>5. NothingLate' /\ WillShow'
  BY <1>1, <1>2 DEF NothingLate, WillShow
<1> QED BY <1>1, <1>2, <1>3, <1>4, <1>5 DEF MirrorInv

LEMMA StatusKeeps ==
  ASSUME MirrorInv, VideoInv', Followed', Receive, Head(events).type \in {"available", "unavailable"}
  PROVE  MirrorInv'
<1> DEFINE e == Head(events)
           up == e.type = "available"
           t == Tail(events)
<1>1. /\ ReceiveStatus(up) /\ events # <<>> /\ events' = t
      /\ UNCHANGED <<player, losses>>
  BY DEF Receive
<1>2. /\ PlayerTyped /\ events \in Seq(Events) /\ commands \in Seq(Commands)
      /\ available \in BOOLEAN /\ player.announced \in BOOLEAN /\ losses \in Nat
  BY DEF MirrorInv, PlayerTyped, Players
<1>3. /\ e = events[1] /\ e \in Events /\ t \in Seq(Events) /\ Len(t) = Len(events) - 1
      /\ Len(events) \in Nat /\ Len(events) >= 1 /\ \A k \in 1 .. Len(t) : t[k] = events[k + 1]
  BY <1>1, <1>2, TailOf
<1>4. up # available /\ InTurn(t, up, player.announced)
  <2>1. 1 \in Signals(events) /\ IsUp(events, 1) = up
    BY <1>3 DEF Signals, IsUp
  <2>2. InTurn(events, available, player.announced)
    BY DEF MirrorInv
  <2> QED BY <1>1, <1>2, <2>1, <2>2, TurnTail
<1> HIDE DEF t
<1>5. /\ available' = up /\ up \in BOOLEAN
      /\ sent' = (IF up THEN told ELSE NothingSent)
      /\ commands' = (IF up THEN commands \o Changes(NothingSent, told) ELSE commands)
      /\ told' = told
  BY <1>1, <1>4 DEF ReceiveStatus, Tell, videoVars
<1>6. told \in Views /\ (told.item = None => told = NothingSent)
  BY ToldIs
<1>7. commands' \in Seq(Commands) /\ sent' \in Views
  BY <1>2, <1>5, <1>6, NothingIs, ChangesAre
<1>8. PlayerTyped'
  BY <1>1, <1>2, <1>3, <1>5, <1>7 DEF PlayerTyped
<1>9. losses = 0 => up /\ \A k \in 1 .. Len(t) : t[k].type # "unavailable"
  <2> SUFFICES ASSUME losses = 0 PROVE up /\ \A k \in 1 .. Len(t) : t[k].type # "unavailable"
    OBVIOUS
  <2>1. \A k \in 1 .. Len(events) : events[k].type # "unavailable"
    BY DEF MirrorInv, NothingLate
  <2>2. 1 \in 1 .. Len(events) /\ \A k \in 1 .. Len(t) : k + 1 \in 1 .. Len(events)
    BY <1>3
  <2> QED BY <1>3, <2>1, <2>2
<1>10. NothingLate'
  BY <1>1, <1>5, <1>9 DEF NothingLate
<1>11. WillShow'
  <2> SUFFICES ASSUME up, ~(told.item = None /\ losses > 0)
               PROVE  Coming(commands', told, player, ReportedIn(t, told))
    BY <1>1, <1>5 DEF WillShow
  <2>1. CASE told.item # None
    <3>1. Coming(commands \o Changes(NothingSent, told), told, player, ReportedIn(t, told))
      BY <1>2, <1>6, <2>1, NothingIs, ComingTold
    <3> QED BY <1>5, <3>1
  <2>2. CASE told.item = None
    <3>1. losses = 0 /\ ~available
      BY <1>2, <1>4, <2>2
    <3>2. player.item = None /\ \A k \in 1 .. Len(commands) : commands[k] = Lease
      BY <3>1 DEF MirrorInv, NothingLate
    <3>3. Tells(commands, {"load", "stop"}) = {}
      BY <3>2, LeaseIs DEF Tells
    <3>4. Coming(commands, NothingSent, player, ReportedIn(t, told))
      BY <3>2, <3>3, NothingIs DEF Coming, Arrives
    <3>5. Coming(commands \o Changes(NothingSent, told), told, player, ReportedIn(t, told))
      BY <1>2, <1>6, <3>4, NothingIs, ComingTold
    <3> QED BY <1>5, <3>5
  <2> QED BY <2>1, <2>2
<1> QED BY <1>1, <1>4, <1>5, <1>8, <1>10, <1>11 DEF MirrorInv


LEMMA ReportKeeps ==
  ASSUME MirrorInv, VideoInv', Followed', Receive, Head(events).type \notin {"available", "unavailable"}
  PROVE  MirrorInv'
<1> DEFINE e == Head(events)
           t == Tail(events)
<1>1. PICK g \in BOOLEAN : ReceiveReport(e, g)
  BY DEF Receive
<1>2. events # <<>> /\ events' = t /\ UNCHANGED <<player, losses>>
  BY DEF Receive
<1>3. UNCHANGED available /\ Listen
  <2>1. CASE Counts(e)
    BY <1>1, <2>1 DEF ReceiveReport
  <2>2. CASE ~Counts(e)
    BY <1>1, <2>2 DEF ReceiveReport, Listen, videoVars
  <2> QED BY <2>1, <2>2
<1>4. /\ events \in Seq(Events) /\ available \in BOOLEAN /\ player.announced \in BOOLEAN
      /\ InTurn(events, available, player.announced)
  BY DEF MirrorInv, PlayerTyped, Players
<1>5. /\ e = events[1] /\ e \in Events /\ t \in Seq(Events) /\ Len(t) = Len(events) - 1
      /\ Len(events) \in Nat /\ Len(events) >= 1 /\ \A k \in 1 .. Len(t) : t[k] = events[k + 1]
  BY <1>2, <1>4, TailOf
<1>6. 1 \notin Signals(events)
  BY <1>5 DEF Signals
<1>7. InTurn(t, available, player.announced)
  BY <1>2, <1>4, <1>6, TurnTail
<1> HIDE DEF t
<1>8. Signals(t) = {} => Signals(events) = {}
  <2> SUFFICES ASSUME NEW k \in Signals(events) PROVE k - 1 \in Signals(t)
    OBVIOUS
  <2>1. k \in 1 .. Len(events) /\ k # 1
    BY <1>6 DEF Signals
  <2>2. k - 1 \in 1 .. Len(t) /\ t[k - 1] = events[k]
    BY <1>5, <2>1
  <2> QED BY <2>2 DEF Signals
<1>9. losses = 0 => \A k \in 1 .. Len(t) : t[k].type # "unavailable"
  <2>1. \A k \in 1 .. Len(t) : k + 1 \in 1 .. Len(events)
    BY <1>5
  <2> QED BY <1>5, <2>1 DEF MirrorInv, NothingLate
\* A report of the end that is heard ends the video that was sent.
<1>10. ASSUME available, told'.item = sent.item, ReportedIn(events, sent) PROVE ReportedIn(t, sent)
  <2>1. PICK k \in 1 .. Len(events) :
          events[k].type \in {"played", "failed"} /\ events[k].item = sent.item
    BY <1>10 DEF ReportedIn
  <2>2. CASE k # 1
    <3>1. k - 1 \in 1 .. Len(t) /\ t[k - 1] = events[k]
      BY <1>5, <2>1, <2>2
    <3> QED BY <2>1, <3>1 DEF ReportedIn
  <2>3. CASE k = 1
    <3>1. e.item = sent.item /\ e.type \in {"played", "failed"} /\ e.item # None
      BY <1>5, <2>1, <2>3 DEF Events
    <3>2. sent = told /\ told = View(queue) /\ QueueOK(queue)
      BY <1>10, ToldIs DEF MirrorInv, VideoInv, Followed, ToldAll
    <3>3. current.item = e.item /\ queue.current = current
      BY <3>1, <3>2 DEF View, queue
    <3>4. ReportOver(e.item, e.type, g)
      BY <1>1, <3>1, <3>3 DEF ReceiveReport, Counts
    <3>5. told' = View(Finish(queue, e.type, g))
      BY <3>4 DEF ReportOver, Emits
    <3>6. Finish(queue, e.type, g).current.item # queue.current.item
      BY <3>1, <3>2, <3>3, FinishKeeps DEF Outcomes
    <3> QED BY <1>10, <3>1, <3>3, <3>5, <3>6 DEF View
  <2> QED BY <2>2, <2>3
<1>11. CASE available
  BY <1>2, <1>3, <1>5, <1>7, <1>8, <1>9, <1>10, <1>11, ListenKeeps
<1>12. CASE ~available
  <2>1. sent' = sent /\ commands' = commands
    BY <1>3, <1>12 DEF Listen, Tell
  <2>2. PlayerTyped' /\ NothingLate' /\ WillShow'
    BY <1>2, <1>3, <1>5, <1>9, <1>12, <2>1 DEF MirrorInv, PlayerTyped, NothingLate, WillShow
  <2> QED BY <1>2, <1>3, <1>7, <2>1, <2>2 DEF MirrorInv
<1> QED BY <1>11, <1>12

\* What stays when neither the queue nor the director changes.
Steady ==
  /\ PlayerTyped' /\ InTurn(events', available', player'.announced) /\ NothingLate' /\ WillShow'

LEMMA LeaseKeeps == ASSUME MirrorInv, SendLease PROVE Steady
<1>1. /\ commands' = Append(commands, Lease) /\ UNCHANGED <<available, sent, events, player, losses>>
  BY DEF SendLease
<1>2. commands \in Seq(Commands) /\ Lease \in Commands
  BY LeaseIs DEF MirrorInv, PlayerTyped
<1>3. /\ Append(commands, Lease) \in Seq(Commands) /\ Len(Append(commands, Lease)) = Len(commands) + 1
      /\ Len(commands) \in Nat /\ Append(commands, Lease)[Len(commands) + 1] = Lease
      /\ \A k \in 1 .. Len(commands) : Append(commands, Lease)[k] = commands[k]
  BY <1>2, AppendOf
<1>4. PlayerTyped'
  BY <1>1, <1>3 DEF MirrorInv, PlayerTyped
<1>5. NothingLate'
  <2> SUFFICES ASSUME losses = 0, ~available, NEW k \in 1 .. Len(Append(commands, Lease))
               PROVE  Append(commands, Lease)[k] = Lease
    BY <1>1 DEF MirrorInv, NothingLate
  <2>1. \A j \in 1 .. Len(commands) : commands[j] = Lease
    BY DEF MirrorInv, NothingLate
  <2> QED BY <1>3, <2>1
<1>6. WillShow'
  <2>1. ASSUME Coming(commands, sent, player, ReportedIn(events, sent))
        PROVE  Coming(Append(commands, Lease), sent, player, ReportedIn(events, sent))
    BY <1>2, <2>1, ComingLease
  <2> QED BY <1>1, <2>1 DEF MirrorInv, WillShow
<1>7. InTurn(events', available', player'.announced)
  BY <1>1 DEF MirrorInv
<1> QED BY <1>4, <1>5, <1>6, <1>7 DEF Steady

LEMMA CommandKeeps == ASSUME MirrorInv, HandleCommand PROVE Steady
<1> DEFINE c == Head(commands)
           t == Tail(commands)
           new == Handled(player, c)
<1>1. /\ commands # <<>> /\ c # Lease /\ commands' = t /\ player' = new
      /\ UNCHANGED <<available, sent, events, losses>>
  BY DEF HandleCommand
<1>2. /\ commands \in Seq(Commands) /\ player \in Players /\ sent \in Views
      /\ player.announced => player.owned
  BY DEF MirrorInv, PlayerTyped
<1>3. /\ c = commands[1] /\ c \in Commands /\ t \in Seq(Commands) /\ 1 \in 1 .. Len(commands)
  BY <1>1, <1>2, TailOf
<1>4. ~player.owned => new = player
  BY DEF Handled
<1>5. player.owned => new \in Players /\ new.owned /\ new.announced = player.announced
  BY <1>2, <1>3, HandledIs
<1>6. player.owned /\ Coming(commands, sent, player, ReportedIn(events, sent))
        => Coming(t, sent, new, ReportedIn(events, sent))
  BY <1>1, <1>2, ComingHandled
<1> HIDE DEF c, t, new
<1>7. PlayerTyped' /\ player'.announced = player.announced
  BY <1>1, <1>2, <1>3, <1>4, <1>5 DEF MirrorInv, PlayerTyped
<1>8. ~(losses = 0 /\ ~available)
  BY <1>1, <1>3 DEF MirrorInv, NothingLate
<1>9. NothingLate'
  BY <1>1, <1>8 DEF MirrorInv, NothingLate
<1>10. ASSUME available, Signals(events) = {} PROVE player.owned
  BY <1>2, <1>10 DEF MirrorInv, InTurn
<1>11. WillShow'
  BY <1>1, <1>6, <1>10 DEF MirrorInv, WillShow
<1>12. InTurn(events', available', player'.announced)
  BY <1>1, <1>7 DEF MirrorInv
<1> QED BY <1>7, <1>9, <1>11, <1>12 DEF Steady


LEMMA RefreshKeeps == ASSUME MirrorInv, RefreshLease PROVE Steady
<1> DEFINE t == Tail(commands)
           new == [player EXCEPT !.owned = TRUE, !.announced = TRUE]
           more == Append(events, Status(TRUE))
<1>1. /\ commands # <<>> /\ Head(commands) = Lease /\ commands' = t /\ player' = new
      /\ events' = (IF player.announced THEN events ELSE more) /\ UNCHANGED <<available, sent, losses>>
  BY DEF RefreshLease
<1>2. /\ commands \in Seq(Commands) /\ player \in Players /\ sent \in Views /\ events \in Seq(Events)
      /\ available \in BOOLEAN /\ player.announced \in BOOLEAN /\ player.owned \in BOOLEAN
      /\ player.announced => player.owned
      /\ InTurn(events, available, player.announced)
  BY DEF MirrorInv, PlayerTyped, Players
<1>3. /\ t \in Seq(Commands) /\ Len(t) = Len(commands) - 1 /\ Len(commands) \in Nat
      /\ \A k \in 1 .. Len(t) : t[k] = commands[k + 1]
  BY <1>1, <1>2, TailOf
<1>4. /\ new \in Players /\ new.owned /\ new.announced
      /\ new.item = player.item /\ new.paused = player.paused /\ new.seeks = player.seeks
  BY <1>2 DEF Players
<1>5. /\ more \in Seq(Events) /\ Status(TRUE).type = "available" /\ Len(more) = Len(events) + 1
      /\ Len(events) \in Nat /\ more[Len(events) + 1] = Status(TRUE)
      /\ \A k \in 1 .. Len(events) : more[k] = events[k]
  <2>1. Status(TRUE) \in Events /\ Status(TRUE).type = "available"
    BY StatusIs
  <2>2. ASSUME NEW u \in Events
        PROVE  LET m == Append(events, u)
               IN /\ m \in Seq(Events) /\ Len(m) = Len(events) + 1 /\ Len(events) \in Nat
                  /\ m[Len(events) + 1] = u /\ \A k \in 1 .. Len(events) : m[k] = events[k]
    BY <1>2, AppendOf
  <2> QED BY <2>1, <2>2
<1>6. ~player.announced => InTurn(more, available, TRUE) /\ Signals(more) # {}
  <2> SUFFICES ASSUME ~player.announced PROVE InTurn(more, available, TRUE) /\ Signals(more) # {}
    OBVIOUS
  <2>1. player.announced = FALSE /\ (~player.announced) = TRUE
    BY <1>2
  <2> QED BY <1>2, <2>1, TurnSignal
<1>7. player.owned /\ Coming(commands, sent, player, ReportedIn(events, sent))
        => Coming(t, sent, new, ReportedIn(events, sent))
  <2> SUFFICES ASSUME player.owned, Coming(commands, sent, player, ReportedIn(events, sent))
               PROVE  Coming(t, sent, new, ReportedIn(events, sent))
    OBVIOUS
  <2>1. Coming(t, sent, Handled(player, Lease), ReportedIn(events, sent))
    BY <1>1, <1>2, ComingHandled
  <2>2. Handled(player, Lease).item = player.item /\ Handled(player, Lease).paused = player.paused
        /\ Handled(player, Lease).seeks = player.seeks
    BY <1>2, LeaseIs, HandledIs
  <2> HIDE DEF new
  <2> QED BY <1>4, <2>1, <2>2, ComingFor
<1> HIDE DEF t, new, more
<1>8. PlayerTyped'
  BY <1>1, <1>2, <1>3, <1>4, <1>5 DEF MirrorInv, PlayerTyped
<1>9. NothingLate'
  <2>1. ASSUME losses = 0, NEW k \in 1 .. Len(more) PROVE more[k].type # "unavailable"
    <3>1. k \in 1 .. Len(events) \/ k = Len(events) + 1
      BY <1>5
    <3> QED BY <1>5, <2>1, <3>1 DEF MirrorInv, NothingLate
  <2>2. ASSUME losses = 0, ~available PROVE new.item = None /\ \A k \in 1 .. Len(t) : t[k] = Lease
    <3>1. \A k \in 1 .. Len(t) : k + 1 \in 1 .. Len(commands)
      BY <1>3
    <3> QED BY <1>3, <1>4, <2>2, <3>1 DEF MirrorInv, NothingLate
  <2> QED BY <1>1, <2>1, <2>2 DEF MirrorInv, NothingLate
<1>10. WillShow'
  <2>1. CASE player.announced
    BY <1>1, <1>2, <1>7, <2>1 DEF MirrorInv, WillShow
  <2>2. CASE ~player.announced
    BY <1>1, <1>6, <2>2 DEF WillShow
  <2> QED BY <2>1, <2>2
<1>11. InTurn(events', available', player'.announced)
  <2>1. CASE player.announced
    <3>1. player'.announced = TRUE /\ player.announced = TRUE
      BY <1>1, <1>2, <1>4, <2>1 DEF new
    <3> QED BY <1>1, <1>2, <2>1, <3>1
  <2>2. CASE ~player.announced
    <3>1. player'.announced = TRUE
      BY <1>1, <1>2, <2>2 DEF new, Players
    <3> QED BY <1>1, <1>6, <2>2, <3>1
  <2> QED BY <2>1, <2>2
<1> QED BY <1>8, <1>9, <1>10, <1>11 DEF Steady

LEMMA ExpiryKeeps == ASSUME MirrorInv, LeaseExpires PROVE Steady
<1> DEFINE new == [Empty EXCEPT !.owned = FALSE]
           more == Append(events, Status(FALSE))
<1>1. /\ player' = new /\ losses' = losses + 1
      /\ events' = (IF player.announced THEN more ELSE events)
      /\ UNCHANGED <<available, sent, commands>>
  BY DEF LeaseExpires
<1>2. /\ player \in Players /\ sent \in Views /\ events \in Seq(Events) /\ commands \in Seq(Commands)
      /\ available \in BOOLEAN /\ player.announced \in BOOLEAN /\ losses \in Nat
      /\ InTurn(events, available, player.announced)
  BY DEF MirrorInv, PlayerTyped, Players
<1>3. new \in Players /\ new.announced = FALSE /\ new.item = None
  BY DEF Empty, Players
<1>4. more \in Seq(Events)
  BY <1>2, StatusIs, AppendOf
<1>5. player.announced => InTurn(more, available, FALSE) /\ Signals(more) # {}
  <2> SUFFICES ASSUME player.announced PROVE InTurn(more, available, FALSE) /\ Signals(more) # {}
    OBVIOUS
  <2>1. player.announced = TRUE /\ (~player.announced) = FALSE
    BY <1>2
  <2> QED BY <1>2, <2>1, TurnSignal
<1> HIDE DEF new, more
<1>6. PlayerTyped'
  BY <1>1, <1>2, <1>3, <1>4 DEF PlayerTyped
<1>7. NothingLate'
  BY <1>1, <1>2 DEF NothingLate
<1>8. InTurn(events', available', player'.announced)
  <2>1. CASE player.announced
    BY <1>1, <1>3, <1>5, <2>1
  <2>2. CASE ~player.announced
    <3>1. player.announced = FALSE /\ player'.announced = FALSE
      BY <1>1, <1>2, <1>3, <2>2
    <3> QED BY <1>1, <1>2, <2>2, <3>1
  <2> QED BY <2>1, <2>2
<1>9. available' /\ Signals(events') = {} => FALSE
  BY <1>1, <1>3, <1>8 DEF InTurn
<1>10. WillShow'
  BY <1>9 DEF WillShow
<1> QED BY <1>6, <1>7, <1>8, <1>10 DEF Steady

LEMMA PageKeeps ==
  ASSUME MirrorInv, NEW type \in {"started", "progress", "played", "failed"}, NEW length \in Lengths,
         PlayerReports(type, length)
  PROVE  Steady
<1> DEFINE e == Event(type, player.item, length)
           more == Append(events, e)
<1>1. /\ player.item # None /\ events' = more /\ UNCHANGED <<available, sent, commands, losses>>
      /\ \/ player' \in {[player EXCEPT !.started = TRUE], player}
         \/ type \in {"played", "failed"} /\ player' = [player EXCEPT !.item = None]
  BY DEF PlayerReports
<1>2. /\ player \in Players /\ sent \in Views /\ events \in Seq(Events) /\ commands \in Seq(Commands)
      /\ available \in BOOLEAN /\ player.announced \in BOOLEAN /\ losses \in Nat
      /\ InTurn(events, available, player.announced)
      /\ player.announced => player.owned
  BY DEF MirrorInv, PlayerTyped, Players
<1>3. /\ e \in Events /\ e.type = type /\ e.item = player.item
      /\ e.type \notin {"available", "unavailable"}
  BY <1>1, <1>2 DEF Event, Events, EventTypes, Players
<1>4. /\ player' \in Players /\ player'.announced = player.announced /\ player'.owned = player.owned
      /\ player'.paused = player.paused /\ player'.seeks = player.seeks
      /\ player'.item = player.item \/ type \in {"played", "failed"}
  BY <1>1, <1>2 DEF Players
<1> HIDE DEF e
<1>5. /\ more \in Seq(Events) /\ Len(more) = Len(events) + 1 /\ Len(events) \in Nat
      /\ more[Len(events) + 1] = e /\ \A k \in 1 .. Len(events) : more[k] = events[k]
  BY <1>2, <1>3, AppendOf
<1>6. InTurn(more, available, player.announced) /\ Signals(more) = Signals(events)
  BY <1>2, <1>3, TurnReport
<1> HIDE DEF more
<1>7. PlayerTyped'
  BY <1>1, <1>2, <1>4, <1>5 DEF PlayerTyped
<1>8. NothingLate'
  <2>1. ASSUME losses = 0, NEW k \in 1 .. Len(more) PROVE more[k].type # "unavailable"
    <3>1. k \in 1 .. Len(events) \/ k = Len(events) + 1
      BY <1>5
    <3> QED BY <1>3, <1>5, <2>1, <3>1 DEF MirrorInv, NothingLate
  <2>2. losses = 0 => available
    BY <1>1 DEF MirrorInv, NothingLate
  <2> QED BY <1>1, <2>1, <2>2 DEF NothingLate
<1>9. ReportedIn(events, sent) => ReportedIn(more, sent)
  <2> SUFFICES ASSUME NEW k \in 1 .. Len(events), events[k].type \in {"played", "failed"},
                      events[k].item = sent.item
               PROVE  ReportedIn(more, sent)
    BY DEF ReportedIn
  <2>1. k \in 1 .. Len(more) /\ more[k] = events[k]
    BY <1>5
  <2> QED BY <2>1 DEF ReportedIn
<1>10. player.item = sent.item => player'.item = sent.item \/ ReportedIn(more, sent)
  <2>1. Len(events) + 1 \in 1 .. Len(more)
    BY <1>5
  <2> QED BY <1>3, <1>4, <1>5, <2>1 DEF ReportedIn
<1>11. WillShow'
  <2>1. ASSUME Coming(commands, sent, player, ReportedIn(events, sent))
        PROVE  Coming(commands, sent, player', ReportedIn(more, sent))
    BY <1>4, <1>9, <1>10, <2>1, ComingFor
  <2> QED BY <1>1, <1>6, <2>1 DEF MirrorInv, WillShow
<1>12. InTurn(events', available', player'.announced)
  BY <1>1, <1>4, <1>6
<1> QED BY <1>7, <1>8, <1>11, <1>12 DEF Steady


LEMMA MirrorInitInv == MirrorInit => MirrorInv
<1> SUFFICES ASSUME MirrorInit PROVE MirrorInv
  OBVIOUS
<1>1. /\ available = FALSE /\ sent = NothingSent /\ commands = <<>> /\ events = <<>>
      /\ player = Empty /\ losses = 0
  BY DEF MirrorInit
<1>2. VideoInv /\ Followed
  BY VideoInitInv, FollowedInit DEF MirrorInit
<1>3. Empty \in Players /\ Empty.announced = FALSE /\ Empty.item = None
  BY DEF Empty, Players
<1>4. PlayerTyped
  <2>1. available \in BOOLEAN /\ sent \in Views /\ player \in Players /\ losses \in Nat
    BY <1>1, <1>3, NothingIs
  <2>2. commands \in Seq(Commands) /\ events \in Seq(Events)
    BY <1>1
  <2> QED BY <1>1, <1>3, <2>1, <2>2 DEF PlayerTyped
<1>5. InTurn(<<>>, FALSE, FALSE)
  BY DEF InTurn, Signals
<1>6. NothingLate /\ WillShow
  BY <1>1, <1>3 DEF NothingLate, WillShow
<1> QED BY <1>1, <1>2, <1>3, <1>4, <1>5, <1>6 DEF MirrorInv

LEMMA MirrorStep == MirrorInv /\ [MirrorNext]_allVars => MirrorInv'
<1> SUFFICES ASSUME MirrorInv, [MirrorNext]_allVars PROVE MirrorInv'
  OBVIOUS
<1>1. VideoInv'
  BY QueueHears, VideoStep DEF MirrorInv
<1>2. Followed'
  BY FollowedStep DEF MirrorInv
<1>3. Steady => MirrorInv'
  BY <1>1, <1>2 DEF Steady, MirrorInv
<1>4. CASE QueueSteps \/ BrowserReports
  BY <1>1, <1>2, <1>4, CallsKeep
<1>5. CASE RestartService
  BY <1>1, <1>2, <1>5, RestartedKeeps
<1>6. CASE Receive
  BY <1>1, <1>2, <1>6, StatusKeeps, ReportKeeps
<1>7. CASE \/ SendLease \/ HandleCommand \/ RefreshLease \/ LeaseExpires
           \/ \E t \in {"started", "progress", "played", "failed"}, l \in Lengths : PlayerReports(t, l)
  BY <1>3, <1>7, LeaseKeeps, CommandKeeps, RefreshKeeps, ExpiryKeeps, PageKeeps
<1>8. CASE UNCHANGED allVars
  <2>1. /\ UNCHANGED <<available, sent, commands, events, player, losses>>
    BY <1>8 DEF allVars, mirrorVars
  <2> QED BY <1>1, <1>2, <2>1 DEF MirrorInv, PlayerTyped, NothingLate, WillShow
<1> QED BY <1>4, <1>5, <1>6, <1>7, <1>8 DEF MirrorNext

LEMMA MirrorInvariant == MirrorSpec => []MirrorInv
BY MirrorInitInv, MirrorStep, PTL DEF MirrorSpec

\* Once nothing is under way, the player shows the current video as it is paused
\* and sought, and none when none is current, except a load that a lost lease let
\* come late: after any reports, restarts and lost leases that crossed on the way.
THEOREM PlayerAlwaysObeys == MirrorSpec => []PlayerObeys
<1>1. MirrorInv => PlayerObeys
  <2> SUFFICES ASSUME MirrorInv, available, commands = <<>>, events = <<>>
               PROVE  IF current.item = None THEN player.item = None \/ losses > 0
                      ELSE /\ player.item = current.item
                           /\ player.paused = (current.phase = "paused") /\ player.seeks = current.seeks
    BY DEF PlayerObeys
  <2>1. Signals(events) = {} /\ ~ReportedIn(events, sent) /\ \A types : Tells(commands, types) = {}
    BY DEF Signals, ReportedIn, Tells
  <2>2. (sent.item = None /\ losses > 0) \/ Coming(commands, sent, player, ReportedIn(events, sent))
    BY <2>1 DEF MirrorInv, WillShow
  <2>3. /\ sent.item = current.item /\ sent.paused = (current.phase = "paused")
        /\ sent.seeks = current.seeks
    <3>1. sent = View(queue) /\ queue.current = current
      BY DEF MirrorInv, Followed, SentIsCurrent, queue
    <3> QED BY <3>1 DEF View
  <2>4. CASE sent.item = None /\ losses > 0
    BY <2>3, <2>4
  <2>5. CASE Coming(commands, sent, player, ReportedIn(events, sent))
    <3>1. player.item = sent.item
      BY <2>1, <2>5 DEF Coming, Arrives
    <3>2. sent.item # None => player.paused = sent.paused /\ player.seeks = sent.seeks
      BY <2>1, <2>5 DEF Coming, Arrives
    <3> QED BY <2>3, <3>1, <3>2
  <2> QED BY <2>2, <2>4, <2>5
<1> QED BY <1>1, MirrorInvariant, PTL

\* Every step of the desktop player, its director and their messages is a call on
\* the queue or changes nothing of it: the queue is used as it is meant to be.
THEOREM MirrorUsesQueue == MirrorSpec => VideoSpec
<1>1. MirrorInit => VideoInit
  BY DEF MirrorInit
<1>2. MirrorInv /\ [MirrorNext]_allVars => [VideoNext]_videoVars
  BY QueueHears
<1> QED BY <1>1, <1>2, MirrorInvariant, PTL DEF MirrorSpec, VideoSpec

=============================================================================
