------------------------- MODULE PlaybackQueueProofs -------------------------
(***************************************************************************)
(* Proofs about PlaybackQueue, for any number of occurrences, priorities   *)
(* and recent occurrences.                                                 *)
(*                                                                         *)
(* Every method ends in StartNext or only takes occurrences away, so two   *)
(* lemmas about StartNext carry the argument: what it does to the          *)
(* occurrences that wait or play, and in which order it takes them.  The   *)
(* invariant adds to the checked ones that whatever waits or plays was     *)
(* enqueued, and that what plays does not wait.                            *)
(***************************************************************************)
EXTENDS PlaybackQueue, SequenceTheorems, TLAPS

Enqueued ==
  /\ queued \subseteq 1 .. next
  /\ current \in 0 .. next
  /\ current \notin queued

QueueInv == QueueTypeOK /\ Enqueued /\ ReleasedOnce /\ NeverIdle

-----------------------------------------------------------------------------
\* Whatever StartNext starts was waiting, nothing gets lost, and nothing waits
\* needlessly afterwards.
LEMMA StartNextKeeps ==
  ASSUME NEW cur \in Items \cup {None}, NEW waiting \in SUBSET Items,
         cur \notin waiting, StartNext(cur, waiting)
  PROVE  /\ current' \notin queued' /\ queued' \subseteq waiting
         /\ current' \in waiting \cup {cur}
         /\ \A i \in Items : i \in queued' \cup {current'} <=> i \in waiting \cup {cur}
         /\ NeverIdle'
<1> USE DEF Items, None
<1>1. CASE \E first \in waiting : current' = first /\ queued' = waiting \ {first} /\ MayStart(cur)
  BY <1>1 DEF NeverIdle, MayStart
<1>2. CASE (~MayStart(cur) \/ waiting = {}) /\ current' = cur /\ queued' = waiting
  BY <1>2 DEF NeverIdle, MayStart
<1> QED BY <1>1, <1>2 DEF StartNext

\* What StartNext starts goes before everything that waits, and only while
\* nothing else plays and nothing holds the queue.
LEMMA StartNextOrder ==
  ASSUME NEW cur, NEW waiting, StartNext(cur, waiting), current' # cur
  PROVE  /\ cur = None /\ ~paused' /\ ~doNotDisturb' /\ ~modulePaused'
         /\ \A j \in queued' : Before(current', j)
BY DEF StartNext, MayStart

\* The list of recent occurrences stays within its limit.
LEMMA NewestBounded ==
  ASSUME NEW r \in Recents, recent \in Seq(Recents), RecentLimit \in Nat
  PROVE  /\ Newest(<<r>> \o recent) \in Seq(Recents)
         /\ Len(Newest(<<r>> \o recent)) <= RecentLimit
<1> DEFINE s == <<r>> \o recent
<1>1. s \in Seq(Recents) /\ Len(s) \in Nat
  OBVIOUS
<1>2. CASE Len(s) <= RecentLimit
  BY <1>1, <1>2 DEF Newest
<1>3. CASE Len(s) > RecentLimit
  <2>1. SubSeq(s, 1, RecentLimit) \in Seq(Recents)
    BY <1>1, <1>3, SubSeqProperties
  <2>2. Len(SubSeq(s, 1, RecentLimit)) = RecentLimit
    BY <1>1, <1>3, SubSeqProperties
  <2> QED BY <1>1, <1>3, <2>1, <2>2 DEF Newest
<1> QED BY <1>1, <1>2, <1>3

-----------------------------------------------------------------------------
\* The queue is empty at first and holds nothing.
LEMMA QueueInitInv == QueueInit => QueueInv
BY QueueAssumption DEF QueueInit, QueueInv, QueueTypeOK, Enqueued, ReleasedOnce, NeverIdle,
   Items, None, Recents

\* enqueue() and replayRecent() keep the invariant.
LEMMA EnqueueInv ==
  ASSUME QueueInv, NEW p \in Priorities, Enqueue(p)
  PROVE  QueueInv'
<1> USE QueueAssumption DEF QueueInv
<1>1. next + 1 \in Items /\ next' = next + 1 /\ next' \in 0 .. MaxItems /\ next + 1 \notin queued
  BY DEF Enqueue, QueueTypeOK, Enqueued, Items
<1>2. /\ queued \cup {next + 1} \in SUBSET Items /\ current \in Items \cup {None}
      /\ current \notin queued \cup {next + 1}
  BY <1>1 DEF QueueTypeOK, Enqueued, Items, None
<1>3. /\ current' \notin queued' /\ queued' \subseteq queued \cup {next + 1}
      /\ current' \in queued \cup {next + 1, current}
      /\ \A i \in Items : i \in queued' \cup {current'} <=> i \in queued \cup {next + 1, current}
      /\ NeverIdle'
  BY <1>2, StartNextKeeps DEF Enqueue
<1>4. QueueTypeOK'
  BY <1>1, <1>2, <1>3 DEF Enqueue, QueueTypeOK, Items, None, gates
<1>5. Enqueued'
  BY <1>1, <1>2, <1>3 DEF QueueTypeOK, Enqueued, Items, None
<1>6. ReleasedOnce'
  BY <1>1, <1>2, <1>3 DEF Enqueue, QueueTypeOK, Enqueued, ReleasedOnce, Items, None
<1> QED BY <1>3, <1>4, <1>5, <1>6

\* completeCurrent() and skipCurrent() keep the invariant.
LEMMA FinishInv ==
  ASSUME QueueInv, NEW status \in Statuses, Finish(status)
  PROVE  QueueInv'
<1> USE QueueAssumption DEF QueueInv
<1>1. current \in Items /\ queued \in SUBSET Items /\ None \notin queued
  BY DEF Finish, QueueTypeOK, Enqueued, Items, None
<1>2. /\ current' \notin queued' /\ queued' \subseteq queued
      /\ current' \in queued \cup {None}
      /\ \A i \in Items : i \in queued' \cup {current'} <=> i \in queued
      /\ NeverIdle'
  BY <1>1, StartNextKeeps DEF Finish, Items, None
<1>3. recent' \in Seq(Recents) /\ Len(recent') <= RecentLimit
  <2>1. [id |-> current, status |-> status] \in Recents
    BY <1>1 DEF Recents
  <2> QED BY <2>1, NewestBounded DEF Finish, QueueTypeOK
<1>4. released' = [i \in Items |-> IF i = current THEN released[i] + 1 ELSE released[i]]
  BY DEF Finish, Released
<1>5. QueueTypeOK'
  <2>1. released' \in [Items -> Nat]
    BY <1>4 DEF QueueTypeOK
  <2> QED BY <1>1, <1>2, <1>3, <2>1 DEF Finish, QueueTypeOK, None, gates
<1>6. Enqueued'
  BY <1>1, <1>2 DEF Finish, QueueTypeOK, Enqueued, Items, None
<1>7. ReleasedOnce'
  <2>1. SUFFICES ASSUME NEW i \in Items
                 PROVE released'[i] = IF i <= next /\ i \notin queued THEN 1 ELSE 0
    BY <1>2 DEF Finish, ReleasedOnce
  <2>2. CASE i = current
    BY <1>1, <1>4, <2>2 DEF QueueTypeOK, Enqueued, ReleasedOnce
  <2>3. CASE i # current
    BY <1>4, <2>3 DEF ReleasedOnce
  <2> QED BY <2>2, <2>3
<1> QED BY <1>2, <1>5, <1>6, <1>7

\* remove() and clearPending(), also as the owner closes, keep the invariant.
LEMMA TakeAwayInv ==
  ASSUME QueueInv, (\E i \in Items : Remove(i)) \/ ClearPending \/ Shutdown
  PROVE  QueueInv'
<1> USE QueueAssumption DEF QueueInv
<1>1. PICK ids \in SUBSET queued : queued' = queued \ ids /\ released' = Released(ids)
  <2>1. CASE \E i \in Items : Remove(i)
    BY <2>1 DEF Remove
  <2>2. CASE ClearPending \/ Shutdown
    BY <2>2 DEF ClearPending, Shutdown
  <2> QED BY <2>1, <2>2
<1>2. /\ UNCHANGED <<current, priority, recent, next, doNotDisturb, modulePaused>>
      /\ paused' \in {paused, TRUE}
  BY DEF Remove, ClearPending, Shutdown, gates
<1>3. QueueTypeOK'
  <2>1. released' \in [Items -> Nat]
    BY <1>1 DEF QueueTypeOK, Released
  <2> QED BY <1>1, <1>2, <2>1 DEF QueueTypeOK
<1>4. Enqueued'
  BY <1>1, <1>2 DEF Enqueued
<1>5. ReleasedOnce'
  BY <1>1, <1>2 DEF QueueTypeOK, Enqueued, ReleasedOnce, Released, Items
<1>6. NeverIdle'
  BY <1>1, <1>2 DEF NeverIdle, QueueTypeOK
<1> QED BY <1>3, <1>4, <1>5, <1>6

\* A change of the gates, whether it may start something or not.
GateStep ==
  \/ \E value \in BOOLEAN : SetModulePaused(value) \/ SetDoNotDisturb(value)
  \/ Resume
  \/ \E p, d \in BOOLEAN : SetSafetyState(p, d)

\* Whoever lifts or sets a gate keeps the invariant.
LEMMA GateInv ==
  ASSUME QueueInv, GateStep \/ Pause
  PROVE  QueueInv'
<1> USE QueueAssumption DEF QueueInv
<1>1. /\ UNCHANGED <<priority, recent, next, released>>
      /\ paused' \in BOOLEAN /\ doNotDisturb' \in BOOLEAN /\ modulePaused' \in BOOLEAN
  BY DEF GateStep, Pause, SetModulePaused, SetDoNotDisturb, Resume, SetSafetyState, QueueTypeOK
<1>2. /\ current' \notin queued' /\ queued' \subseteq queued
      /\ current' \in queued \cup {current}
      /\ \A i \in Items : i \in queued' \cup {current'} <=> i \in queued \cup {current}
      /\ NeverIdle'
  <2>1. CASE GateStep
    <3>1. StartNext(current, queued)
      BY <2>1 DEF GateStep, SetModulePaused, SetDoNotDisturb, Resume, SetSafetyState, StartAfterGate
    <3> QED BY <3>1, StartNextKeeps DEF QueueTypeOK, Enqueued
  <2>2. CASE Pause
    BY <2>2 DEF Pause, NeverIdle, QueueTypeOK, Enqueued
  <2> QED BY <2>1, <2>2
<1>3. QueueTypeOK'
  BY <1>1, <1>2 DEF QueueTypeOK, Items, None
<1>4. Enqueued'
  BY <1>1, <1>2 DEF QueueTypeOK, Enqueued, Items, None
<1>5. ReleasedOnce'
  BY <1>1, <1>2 DEF QueueTypeOK, Enqueued, ReleasedOnce, Items, None
<1> QED BY <1>2, <1>3, <1>4, <1>5

\* Every step keeps the invariant.
LEMMA QueueNextInv == QueueInv /\ [QueueNext]_queueVars => QueueInv'
<1> SUFFICES ASSUME QueueInv, [QueueNext]_queueVars PROVE QueueInv'
  OBVIOUS
<1>1. CASE \E p \in Priorities : Enqueue(p)
  BY <1>1, EnqueueInv
<1>2. CASE Replay
  <2>1. PICK n \in DOMAIN recent : Enqueue(priority[recent[n].id])
    BY <1>2 DEF Replay
  <2>2. recent[n].id \in Items
    <3>1. recent[n] \in Recents
      BY <2>1 DEF QueueInv, QueueTypeOK
    <3> QED BY <3>1 DEF Recents
  <2>3. priority[recent[n].id] \in Priorities
    BY <2>2 DEF QueueInv, QueueTypeOK
  <2> QED BY <2>1, <2>3, EnqueueInv
<1>3. CASE \E status \in Statuses : Finish(status)
  BY <1>3, FinishInv
<1>4. CASE (\E i \in Items : Remove(i)) \/ ClearPending \/ Shutdown
  BY <1>4, TakeAwayInv
<1>5. CASE GateStep \/ Pause
  BY <1>5, GateInv
<1>6. CASE UNCHANGED queueVars
  BY <1>6 DEF queueVars, gates, QueueInv, QueueTypeOK, Enqueued, ReleasedOnce, NeverIdle
<1> QED BY <1>1, <1>2, <1>3, <1>4, <1>5, <1>6 DEF QueueNext, GateStep

\* Every step that starts something takes the first of what waits.
LEMMA QueueNextInOrder == QueueInv /\ [QueueNext]_queueVars => StartsInOrder
<1> SUFFICES ASSUME QueueInv, [QueueNext]_queueVars, current' \notin {current, None}
             PROVE  /\ ~paused' /\ ~doNotDisturb' /\ ~modulePaused'
                    /\ current # None => released'[current] = 1
                    /\ \A j \in queued' : Before(current', j)
  BY DEF StartsInOrder, Before
<1>1. CASE \E waiting : StartNext(current, waiting)
  BY <1>1, StartNextOrder
<1>2. CASE \E status \in Statuses : Finish(status)
  <2>1. StartNext(None, queued) /\ released' = Released({current}) /\ current # None
    BY <1>2 DEF Finish
  <2>2. released'[current] = 1
    BY <2>1 DEF Released, QueueInv, QueueTypeOK, Enqueued, ReleasedOnce, Items, None
  <2> QED BY <2>1, <2>2, StartNextOrder
<1>3. CASE UNCHANGED current
  BY <1>3
<1>4. \/ \E waiting : StartNext(current, waiting)
      \/ \E status \in Statuses : Finish(status)
      \/ UNCHANGED current
  BY DEF QueueNext, Replay, Enqueue, Remove, ClearPending, Shutdown, SetModulePaused,
     SetDoNotDisturb, Pause, Resume, SetSafetyState, StartAfterGate, queueVars
<1> QED BY <1>1, <1>2, <1>3, <1>4

-----------------------------------------------------------------------------
\* The invariant holds in every state of every queue.
THEOREM QueueInvariant == QueueSpec => []QueueInv
<1>1. QueueInit => QueueInv
  BY QueueInitInv
<1>2. QueueInv /\ [QueueNext]_queueVars => QueueInv'
  BY QueueNextInv
<1> QED BY <1>1, <1>2, PTL DEF QueueSpec

\* The queue's variables keep their types, and no more occurrences than the
\* limit are kept for replay.
THEOREM QueueTypeCorrect == QueueSpec => []QueueTypeOK
BY QueueInvariant, PTL DEF QueueInv

\* Nothing waits while nothing plays and nothing holds the queue: every method
\* that lifts the last obstacle also starts the next occurrence.
THEOREM QueueNeverIdle == QueueSpec => []NeverIdle
BY QueueInvariant, PTL DEF QueueInv

\* The media of an occurrence is released once, when it is played, skipped,
\* removed or cleared, and not before.
THEOREM QueueReleasesOnce == QueueSpec => []ReleasedOnce
BY QueueInvariant, PTL DEF QueueInv

\* An occurrence that starts goes before all that wait, by priority and then by
\* arrival, never while one of the three gates is closed, and never before the
\* one that played has been released.
THEOREM QueueStartsFirst == QueueSpec => StartsFirst
BY QueueInvariant, QueueNextInOrder, PTL DEF QueueSpec, StartsFirst
=============================================================================
