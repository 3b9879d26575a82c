---------------------------- MODULE PlaybackQueue ----------------------------
(***************************************************************************)
(* The alert queue: at most one current occurrence, the waiting ones in    *)
(* order of priority and arrival, and the recently finished ones.          *)
(*   packages/core/src/playback/playback-queue.ts                          *)
(*                                                                         *)
(* Every method of the queue is synchronous, so every method is an action. *)
(* An occurrence is its sequence number.  The array of waiting occurrences *)
(* is sorted by a total order on every insertion, so it is modelled by the *)
(* set of its elements and the choice of its first one.  Mute changes      *)
(* nothing in the queue and is left out.                                   *)
(***************************************************************************)
EXTENDS Integers, Sequences

CONSTANTS
  MaxItems,     \* bound: occurrences ever enqueued
  Priorities,   \* alert rule priorities
  RecentLimit   \* finished occurrences kept for replay

ASSUME QueueAssumption ==
  /\ MaxItems \in Nat
  /\ Priorities \subseteq Int
  /\ RecentLimit \in Nat

VARIABLES
  current,       \* the occurrence that plays, None if there is none
  queued,        \* the waiting ones
  priority,      \* their priorities
  recent,        \* finished ones, the last first
  paused, doNotDisturb, modulePaused,
  next,          \* the last sequence number given out
  released       \* history: how often onRelease was called for each

gates == <<paused, doNotDisturb, modulePaused>>
queueVars == <<current, queued, priority, recent, gates, next, released>>

Items == 1 .. MaxItems
None == 0
Statuses == {"completed", "skipped"}
Recents == [id : Items, status : Statuses]

-----------------------------------------------------------------------------
\* Mutant: the later of two occurrences of the same priority goes first.
BeforeReversed(i, j) == priority'[i] >= priority'[j] /\ i # j

\* The order #sortQueued keeps the array in.
Before(i, j) ==
  \/ priority'[i] > priority'[j]
  \/ priority'[i] = priority'[j] /\ i < j

\* The guard of #maybeStartNext, with the flags as the operation leaves them.
MayStart(cur) == cur = None /\ ~paused' /\ ~doNotDisturb' /\ ~modulePaused'

\* #maybeStartNext after an operation that left cur playing and waiting queued.
StartNext(cur, waiting) ==
  \/ /\ MayStart(cur)
     /\ \E first \in waiting :
          /\ \A other \in waiting \ {first} : Before(first, other)
          /\ current' = first
          /\ queued' = waiting \ {first}
  \/ /\ ~MayStart(cur) \/ waiting = {}
     /\ current' = cur
     /\ queued' = waiting

\* Mutant: lifting a pause waits for the next operation to start something.
NotStarted == UNCHANGED <<current, queued>>

\* #maybeStartNext where a flag changes and nothing is enqueued or finished.
StartAfterGate == StartNext(current, queued)

\* Mutant: the finished occurrence keeps its media.
ReleasedNever(ids) == released

\* onRelease
Released(ids) == [i \in Items |-> IF i \in ids THEN released[i] + 1 ELSE released[i]]

\* #recent.slice(0, #recentLimit)
Newest(s) == IF Len(s) <= RecentLimit THEN s ELSE SubSeq(s, 1, RecentLimit)

-----------------------------------------------------------------------------
QueueInit ==
  /\ current = None /\ queued = {} /\ recent = << >>
  /\ priority \in [Items -> Priorities]
  /\ paused \in BOOLEAN /\ doNotDisturb \in BOOLEAN /\ modulePaused \in BOOLEAN
  /\ next = 0
  /\ released = [i \in Items |-> 0]

\* enqueue(), of something to show or to play; replayRecent() is the same with
\* the content of a finished occurrence.
Enqueue(p) ==
  /\ next < MaxItems
  /\ next' = next + 1
  /\ priority' = [priority EXCEPT ![next + 1] = p]
  /\ UNCHANGED <<recent, gates, released>>
  /\ StartNext(current, queued \cup {next + 1})

Replay ==
  \E n \in DOMAIN recent : Enqueue(priority[recent[n].id])

\* completeCurrent(), skipCurrent()
Finish(status) ==
  /\ current # None
  /\ recent' = Newest(<<[id |-> current, status |-> status]>> \o recent)
  /\ released' = Released({current})
  /\ UNCHANGED <<priority, gates, next>>
  /\ StartNext(None, queued)

Remove(i) ==
  /\ i \in queued
  /\ queued' = queued \ {i}
  /\ released' = Released({i})
  /\ UNCHANGED <<current, priority, recent, gates, next>>

ClearPending ==
  /\ queued' = {}
  /\ released' = Released(queued)
  /\ UNCHANGED <<current, priority, recent, gates, next>>

\* pause() and clearPending() without a break, as the owner of the queue closes.
Shutdown ==
  /\ paused' = TRUE
  /\ queued' = {}
  /\ released' = Released(queued)
  /\ UNCHANGED <<current, doNotDisturb, modulePaused, priority, recent, next>>

SetModulePaused(value) ==
  /\ modulePaused' = value
  /\ UNCHANGED <<paused, doNotDisturb, priority, recent, next, released>>
  /\ StartAfterGate

\* pause() starts nothing; resume() may.
Pause ==
  /\ paused' = TRUE
  /\ UNCHANGED <<current, queued, doNotDisturb, modulePaused, priority, recent, next, released>>

Resume ==
  /\ paused' = FALSE
  /\ UNCHANGED <<doNotDisturb, modulePaused, priority, recent, next, released>>
  /\ StartAfterGate

SetDoNotDisturb(value) ==
  /\ doNotDisturb' = value
  /\ UNCHANGED <<paused, modulePaused, priority, recent, next, released>>
  /\ StartAfterGate

SetSafetyState(p, d) ==
  /\ paused' = p /\ doNotDisturb' = d
  /\ UNCHANGED <<modulePaused, priority, recent, next, released>>
  /\ StartAfterGate

QueueNext ==
  \/ \E p \in Priorities : Enqueue(p)
  \/ Replay
  \/ \E status \in Statuses : Finish(status)
  \/ \E i \in Items : Remove(i)
  \/ ClearPending \/ Shutdown
  \/ \E value \in BOOLEAN : SetModulePaused(value) \/ SetDoNotDisturb(value)
  \/ Pause \/ Resume
  \/ \E p, d \in BOOLEAN : SetSafetyState(p, d)

QueueSpec == QueueInit /\ [][QueueNext]_queueVars

-----------------------------------------------------------------------------
QueueTypeOK ==
  /\ current \in Items \cup {None}
  /\ queued \subseteq Items
  /\ priority \in [Items -> Priorities]
  /\ recent \in Seq(Recents) /\ Len(recent) <= RecentLimit
  /\ paused \in BOOLEAN /\ doNotDisturb \in BOOLEAN /\ modulePaused \in BOOLEAN
  /\ next \in 0 .. MaxItems
  /\ released \in [Items -> Nat]

\* No occurrence waits while nothing plays and nothing holds the queue back:
\* whatever lifted the last obstacle also started the next one.
NeverIdle ==
  current = None /\ ~paused /\ ~doNotDisturb /\ ~modulePaused => queued = {}

\* The media an occurrence holds is released exactly once, when it stops
\* waiting or playing for good: played, skipped, removed or cleared.
ReleasedOnce ==
  \A i \in Items :
    released[i] = IF i <= next /\ i \notin queued \cup {current} THEN 1 ELSE 0

StartsInOrder ==
  current' \notin {current, None} =>
    /\ ~paused' /\ ~doNotDisturb' /\ ~modulePaused'
    /\ current # None => released'[current] = 1
    /\ \A j \in queued' :
         \/ priority'[current'] > priority'[j]
         \/ priority'[current'] = priority'[j] /\ current' < j

\* What starts goes before everything that waits, and only while nothing
\* plays, pauses or holds the queue back; what played before is released.
StartsFirst == [][StartsInOrder]_queueVars
=============================================================================
