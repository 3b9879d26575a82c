------------------------------ MODULE EventBus ------------------------------
(***************************************************************************)
(* The central event bus: a durable journal, one persisted cursor per      *)
(* consumer, and one in-memory worker per consumer that hands journal rows *)
(* to the consumer's handler one at a time.                                *)
(*   apps/server/src/modules/events/event-bus.ts                           *)
(*   apps/server/src/modules/events/sqlite-event-bus-journal-repository.ts *)
(*                                                                         *)
(* JavaScript runs to completion between awaits, so an action is the code  *)
(* between two awaits; where two journal statements run with no await      *)
(* between them they are still two actions when each commits on its own,   *)
(* because the process can die in between.  What a row carries, its intake *)
(* time and the retry delays are abstracted: a row is its sequence number, *)
(* and whether a row is older than a cutoff is a free choice.              *)
(***************************************************************************)
EXTENDS Integers, FiniteSets, Sequences

CONSTANTS
  Consumers,       \* every consumer id any build registers
  Registrations,   \* the sets of consumers a build may register
  MaxAttempts,     \* attempts per consumer before an event is failed
  Expires,         \* consumers whose old replays expire
  Checkpointing,   \* consumers that commit their cursor in their own transaction
  Prompt,          \* consumers whose handler always settles (fairness only)
  BatchSize,       \* rows one readAfter returns at most
  KeepNewest,      \* retentionRows
  MaxSeq,          \* bound: rows ever appended
  Crashes,         \* whether the process may die
  Restores,        \* whether a configuration restore may happen
  JournalThrows,   \* whether a journal statement may throw
  MaxDisturbances  \* bound: crashes, restores and throws together

ASSUME ConsumersAssumption ==
  /\ IsFiniteSet(Consumers)
  /\ Registrations \subseteq SUBSET Consumers
  /\ MaxAttempts \in [Consumers -> Nat \ {0}]
  /\ Expires \subseteq Consumers
  /\ Checkpointing \subseteq Consumers
  /\ Prompt \subseteq Consumers
ASSUME BoundsAssumption ==
  /\ BatchSize \in Nat \ {0}
  /\ KeepNewest \in Nat
  /\ MaxSeq \in Nat
  /\ Crashes \in BOOLEAN
  /\ Restores \in BOOLEAN
  /\ JournalThrows \in BOOLEAN
  /\ MaxDisturbances \in Nat

VARIABLES
  (* durable: the SQLite tables *)
  head,       \* highest sequence ever assigned
  rows,       \* sequences still in event_bus_journal
  known,      \* consumers with a row in event_bus_consumer_cursors
  cursor,     \* their last_sequence (0 where there is none)
  outcome,    \* event_bus_consumer_outcomes
  (* volatile: the EventBus object *)
  started, workers, calling, called, target, waiting, woken, gaveUp,
  manual, requested,
  (* volatile: each ConsumerWorker *)
  mem, replay, tail, phase, batch, entry, attempt, committed,
  (* history, for the properties: where a consumer's cursor was created, and
     since then the rows given to its handler, expired or failed (settled), those
     its handler accepted, and how often its own transaction committed *)
  base, settled, accepted, applied,
  disturbances

durable == <<head, rows, known, cursor, outcome>>
callers == <<calling, called, target, waiting, woken, gaveUp>>
wakes   == <<manual, requested>>
worker  == <<mem, replay, tail, phase, batch, entry, attempt, committed>>
history == <<base, settled, accepted, applied>>
vars == <<durable, started, workers, callers, wakes, worker, history, disturbances>>

Sequence == 1 .. MaxSeq
Position == 0 .. MaxSeq
\* A caller of EventBus.drain is the publish of a row, or 0 for resume().
Callers == 0 .. MaxSeq
Outcomes == {"none", "admitted", "failed", "expired"}
Phases == {"idle", "next", "expire", "handle", "caught", "fail", "advance",
           "ended", "rejected"}
\* A worker holds an entry it took from its batch and has not moved past.
Holding == {"expire", "handle", "caught", "fail", "advance"}
Jobs == [kind : {"drain", "expire"}, through : Position]
DrainJob == [kind |-> "drain", through |-> 0]

-----------------------------------------------------------------------------
\* One of the bounded disturbances happens.
Disturbed ==
  /\ disturbances < MaxDisturbances
  /\ disturbances' = disturbances + 1

(* Journal repository *)

ReadAfter(after) ==
  {s \in rows : /\ s > after
                /\ Cardinality({t \in rows : after < t /\ t <= s}) <= BatchSize}

\* Mutant: retention looks at age and count only.
PrunableUnread(reg, cur, old) == {s \in rows : s \in old \/ s <= head - KeepNewest}

\* prune: rows every cursor has passed that are old or beyond the newest
\* KeepNewest.  With no cursor at all every row counts as passed.
Prunable(reg, cur, old) ==
  {s \in rows : /\ \A c \in reg : s <= cur[c]
                /\ s \in old \/ s <= head - KeepNewest}

\* ON DELETE CASCADE: the outcomes go with their journal row.
Cascade(gone) ==
  [c \in Consumers |-> [s \in Sequence |-> IF s \in gone THEN "none" ELSE outcome[c][s]]]

\* Mutant: only successful deliveries leave an outcome.
RecordedAdmitted(c, s, what) ==
  IF s \in rows /\ what = "admitted" THEN [outcome EXCEPT ![c][s] = what] ELSE outcome

\* recordOutcome annotates only a row that retention has not removed.
Recorded(c, s, what) ==
  IF s \in rows THEN [outcome EXCEPT ![c][s] = what] ELSE outcome

\* What consumerOutcomes and recentActivity report of a row.
Reported(c, s) ==
  IF outcome[c][s] # "none" THEN outcome[c][s]
  ELSE IF cursor[c] >= s THEN "admitted" ELSE "pending"

-----------------------------------------------------------------------------
(* ConsumerWorker.drain: join the run in flight or queue a new one *)

Draining(c) == \E i \in DOMAIN tail[c] : tail[c][i].kind = "drain"
Drained(c) == IF Draining(c) THEN tail[c] ELSE Append(tail[c], DrainJob)

-----------------------------------------------------------------------------
(* Decisions of the bus and of a worker *)

\* Mutant: a consumer registered for the first time reads the whole journal.
FromTheBeginning(reg) ==
  [c \in Consumers |-> IF c \in reg \cap known THEN cursor[c] ELSE 0]

\* start(): persisted cursors; a missing one is created at the head.
StartCursors(reg) ==
  [c \in Consumers |->
     IF c \in reg \ known THEN head ELSE IF c \in reg THEN cursor[c] ELSE 0]

\* Mutants: a caller drains once; a caller waits to get past its target.
DrainOnce(c, k) == FALSE
DrainPast(c, k) == cursor[c] <= target[k]

\* The loop condition of EventBus.drain.
MustDrainAgain(c, k) == cursor[c] < target[k]

\* Mutant: a manual delivery ends with the run it awaited.
ManualOneRun(c) == FALSE

\* The loop condition of #wakeManualConsumer.
ManualPending(c) == c \in requested \/ cursor[c] < head

\* Mutant: a committed checkpoint is not noticed when the handler throws.
CommitUnseen(c) == FALSE

\* #deliver: the persisted cursor is at the entry, so its change committed.
CommitSeen(c) == cursor[c] >= entry[c]

\* Mutant: one attempt too many.
AttemptsLeftOffByOne(c) == attempt[c] <= MaxAttempts[c]

AttemptsLeft(c) == attempt[c] < MaxAttempts[c]

-----------------------------------------------------------------------------
Nobody == [c \in Consumers |-> {}]
Nowhere == [c \in Consumers |-> 0]

Init ==
  /\ head = 0 /\ rows = {} /\ known = {} /\ cursor = Nowhere
  /\ outcome = [c \in Consumers |-> [s \in Sequence |-> "none"]]
  /\ started = FALSE /\ workers = {}
  /\ calling = {} /\ called = {} /\ target = [k \in Callers |-> 0]
  /\ waiting = Nobody /\ woken = Nobody /\ gaveUp = Nobody
  /\ manual = [c \in Consumers |-> "none"]
  /\ requested = {}
  /\ mem = Nowhere /\ replay = 0
  /\ tail = [c \in Consumers |-> << >>]
  /\ phase = [c \in Consumers |-> "idle"]
  /\ batch = Nobody /\ entry = Nowhere /\ attempt = Nowhere
  /\ committed = {}
  /\ base = Nowhere /\ settled = Nobody /\ accepted = Nobody
  /\ applied = [c \in Consumers |-> [s \in Sequence |-> 0]]
  /\ disturbances = 0

-----------------------------------------------------------------------------
(* EventBus *)

\* start(): forgets the cursors of consumers no longer registered, creates a
\* missing cursor at the head, resumes each worker and prunes.
Start(reg, old) ==
  /\ ~started
  /\ started' = TRUE
  /\ workers' = reg
  /\ known' = reg
  /\ cursor' = StartCursors(reg)
  /\ base' = [c \in Consumers |-> IF c \in reg \ known THEN head ELSE base[c]]
  /\ settled' = [c \in Consumers |-> IF c \in reg \ known THEN {} ELSE settled[c]]
  /\ accepted' = [c \in Consumers |-> IF c \in reg \ known THEN {} ELSE accepted[c]]
  /\ mem' = StartCursors(reg)
  /\ replay' = head
  /\ LET gone == Prunable(reg, StartCursors(reg), old) IN
       /\ rows' = rows \ gone
       /\ outcome' = Cascade(gone)
  /\ UNCHANGED <<head, callers, wakes, tail, phase, batch, entry, attempt, committed,
                 applied, disturbances>>

\* #append: the row is committed; its publisher has not gone on yet.
PublishAppend ==
  /\ started
  /\ head < MaxSeq
  /\ head' = head + 1
  /\ rows' = rows \cup {head + 1}
  /\ calling' = calling \cup {head + 1}
  /\ UNCHANGED <<known, cursor, outcome, started, workers, called, target, waiting, woken,
                 gaveUp, wakes, worker, history, disturbances>>

\* EventBus.drain(): every worker is asked to drain through the present head.
DrainAll(k) ==
  /\ called' = called \cup {k}
  /\ target' = [target EXCEPT ![k] = head]
  /\ waiting' = [c \in Consumers |-> IF c \in workers THEN waiting[c] \cup {k} ELSE waiting[c]]
  /\ tail' = [c \in Consumers |-> IF c \in workers THEN Drained(c) ELSE tail[c]]
  /\ UNCHANGED <<durable, started, workers, woken, gaveUp, wakes, mem, replay, phase, batch,
                 entry, attempt, committed, history, disturbances>>

\* publish() after its append.
PublishDrain(k) ==
  /\ k \in calling
  /\ calling' = calling \ {k}
  /\ DrainAll(k)

\* resume(), called once by a timer after the outputs could reconnect.
Resume ==
  /\ started
  /\ 0 \notin called
  /\ DrainAll(0)
  /\ UNCHANGED calling

\* publishManual() after its append: #wakeManualConsumer for every worker.
PublishManual(k) ==
  /\ k \in calling
  /\ calling' = calling \ {k}
  /\ requested' = requested \cup workers
  /\ manual' = [c \in Consumers |->
                  IF c \in workers /\ manual[c] = "none" THEN "queued" ELSE manual[c]]
  /\ UNCHANGED <<durable, started, workers, called, target, waiting, woken, gaveUp, worker,
                 history, disturbances>>

\* drain(), after the awaited run fulfilled: again while the persisted cursor
\* is short of the sequence this call must reach.
RecheckDrain(c, k) ==
  /\ k \in woken[c]
  /\ woken' = [woken EXCEPT ![c] = @ \ {k}]
  /\ \/ /\ MustDrainAgain(c, k)
        /\ waiting' = [waiting EXCEPT ![c] = @ \cup {k}]
        /\ tail' = [tail EXCEPT ![c] = Drained(c)]
     \/ /\ ~MustDrainAgain(c, k)
        /\ UNCHANGED <<waiting, tail>>
  /\ UNCHANGED <<durable, started, workers, calling, called, target, gaveUp, wakes, mem, replay,
                 phase, batch, entry, attempt, committed, history, disturbances>>

\* The do ... while of #wakeManualConsumer, and its finally block.
ManualDrain(c) ==
  /\ \/ manual[c] = "queued"
     \/ manual[c] = "check" /\ ManualPending(c)
  /\ requested' = requested \ {c}
  /\ manual' = [manual EXCEPT ![c] = "drain"]
  /\ tail' = [tail EXCEPT ![c] = Drained(c)]
  /\ UNCHANGED <<durable, started, workers, callers, mem, replay, phase, batch, entry, attempt,
                 committed, history, disturbances>>

ManualDone(c) ==
  /\ manual[c] = "check" /\ ~ManualPending(c)
  /\ manual' = [manual EXCEPT ![c] = "none"]
  /\ UNCHANGED <<durable, started, workers, callers, requested, worker, history, disturbances>>

\* The error branch: onWorkerError was awaited, then the request is dropped.
ManualFailed(c) ==
  /\ manual[c] = "error"
  /\ manual' = [manual EXCEPT ![c] = "none"]
  /\ requested' = requested \ {c}
  /\ UNCHANGED <<durable, started, workers, callers, worker, history, disturbances>>

\* expirePending(), from a configuration restore.
ExpirePending ==
  /\ started
  /\ Restores /\ Disturbed
  /\ tail' = [c \in Consumers |->
                IF c \in workers THEN Append(tail[c], [kind |-> "expire", through |-> head])
                ELSE tail[c]]
  /\ UNCHANGED <<durable, started, workers, callers, wakes, mem, replay, phase, batch, entry,
                 attempt, committed, history>>

\* prune(), at most hourly, after a publish returned.
Prune(old) ==
  /\ started
  /\ LET gone == Prunable(known, cursor, old) IN
       /\ gone # {}
       /\ rows' = rows \ gone
       /\ outcome' = Cascade(gone)
  /\ UNCHANGED <<head, known, cursor, started, workers, callers, wakes, worker, history, disturbances>>

-----------------------------------------------------------------------------
(* ConsumerWorker *)

Kept == <<started, workers, calling, called, target>>

\* One turn of the for (;;) of #drainAvailable: an empty batch ends the run.
ReadBatch(c, after) ==
  /\ batch' = [batch EXCEPT ![c] = ReadAfter(after)]
  /\ phase' = [phase EXCEPT ![c] = IF ReadAfter(after) = {} THEN "ended" ELSE "next"]

\* #serialize: the drain at the head of the chain begins.
StartRun(c) ==
  /\ phase[c] = "idle" /\ tail[c] # << >> /\ Head(tail[c]).kind = "drain"
  /\ ReadBatch(c, mem[c])
  /\ UNCHANGED <<durable, started, workers, callers, wakes, mem, replay, tail, entry, attempt,
                 committed, history, disturbances>>

\* Mutant: an expiry that waited behind a longer run is applied as it was asked for.
ExpireRowsLate(c, through) ==
  LET gone == {s \in rows : cursor[c] < s /\ s <= through} IN
  /\ outcome' = [outcome EXCEPT ![c] =
                   [s \in Sequence |-> IF s \in gone THEN "expired" ELSE @[s]]]
  /\ cursor' = [cursor EXCEPT ![c] = through]
  /\ mem' = [mem EXCEPT ![c] = through]
  /\ settled' = [settled EXCEPT ![c] = @ \cup gone]

\* journal.expireThrough and the worker's cursor after it.
ExpireRows(c, through) ==
  LET gone == {s \in rows : cursor[c] < s /\ s <= through} IN
  /\ through > mem[c]
  /\ outcome' = [outcome EXCEPT ![c] =
                   [s \in Sequence |-> IF s \in gone THEN "expired" ELSE @[s]]]
  /\ cursor' = [cursor EXCEPT ![c] = IF @ < through THEN through ELSE @]
  /\ mem' = [mem EXCEPT ![c] = through]
  /\ settled' = [settled EXCEPT ![c] = @ \cup gone]

\* expireThrough, as one job of the chain; its transaction may throw.
RunExpire(c) ==
  /\ phase[c] = "idle" /\ tail[c] # << >> /\ Head(tail[c]).kind = "expire"
  /\ tail' = [tail EXCEPT ![c] = Tail(@)]
  /\ \/ /\ ExpireRows(c, Head(tail[c]).through)
        /\ UNCHANGED disturbances
     \/ /\ Head(tail[c]).through <= mem[c]
        /\ UNCHANGED <<cursor, outcome, mem, settled, disturbances>>
     \/ /\ Head(tail[c]).through > mem[c]
        /\ JournalThrows /\ Disturbed
        /\ UNCHANGED <<cursor, outcome, mem, settled>>
  /\ UNCHANGED <<head, rows, known, started, workers, callers, wakes, replay, phase, batch, entry,
                 attempt, committed, base, accepted, applied>>

\* The next entry of the batch: an old replay expires, a row that no longer
\* parses (written by another build) fails, any other row is handled.
TakeEntry(c, s) ==
  /\ phase[c] = "next"
  /\ s \in batch[c] /\ \A t \in batch[c] : s <= t
  /\ batch' = [batch EXCEPT ![c] = @ \ {s}]
  /\ entry' = [entry EXCEPT ![c] = s]
  /\ attempt' = [attempt EXCEPT ![c] = 1]
  /\ \/ /\ c \in Expires /\ s <= replay
        /\ phase' = [phase EXCEPT ![c] = "expire"]
        /\ UNCHANGED settled
     \/ /\ s <= replay
        /\ phase' = [phase EXCEPT ![c] = "fail"]
        /\ UNCHANGED settled
     \/ /\ phase' = [phase EXCEPT ![c] = "handle"]
        /\ settled' = [settled EXCEPT ![c] = @ \cup {s}]
  /\ UNCHANGED <<durable, started, workers, callers, wakes, mem, replay, tail, committed, base,
                 accepted, applied, disturbances>>

ExpireEntry(c) ==
  /\ phase[c] = "expire"
  /\ outcome' = Recorded(c, entry[c], "expired")
  /\ settled' = [settled EXCEPT ![c] = @ \cup {entry[c]}]
  /\ phase' = [phase EXCEPT ![c] = "advance"]
  /\ UNCHANGED <<head, rows, known, cursor, started, workers, callers, wakes, mem, replay, tail,
                 batch, entry, attempt, committed, base, accepted, applied, disturbances>>

\* A transactional consumer commits its change and context.checkpoint() together.
Checkpoint(c) ==
  /\ phase[c] = "handle" /\ c \in Checkpointing \ committed
  /\ cursor' = [cursor EXCEPT ![c] = entry[c]]
  /\ committed' = committed \cup {c}
  /\ accepted' = [accepted EXCEPT ![c] = @ \cup {entry[c]}]
  /\ applied' = [applied EXCEPT ![c][entry[c]] = IF @ < 2 THEN @ + 1 ELSE @]
  /\ UNCHANGED <<head, rows, known, outcome, started, workers, callers, wakes, mem, replay, tail,
                 phase, batch, entry, attempt, base, settled, disturbances>>

\* handle() fulfilled; its outcome is recorded, or recording it throws inside
\* the same try block.
HandleReturn(c) ==
  /\ phase[c] = "handle"
  /\ accepted' = [accepted EXCEPT ![c] = @ \cup {entry[c]}]
  /\ \/ /\ outcome' = Recorded(c, entry[c], "admitted")
        /\ phase' = [phase EXCEPT ![c] = "advance"]
        /\ UNCHANGED disturbances
     \/ /\ JournalThrows /\ Disturbed
        /\ phase' = [phase EXCEPT ![c] = "caught"]
        /\ UNCHANGED outcome
  /\ UNCHANGED <<head, rows, known, cursor, started, workers, callers, wakes, mem, replay, tail,
                 batch, entry, attempt, committed, base, settled, applied>>

HandleThrow(c) ==
  /\ phase[c] = "handle"
  /\ phase' = [phase EXCEPT ![c] = "caught"]
  /\ UNCHANGED <<durable, started, workers, callers, wakes, mem, replay, tail, batch, entry,
                 attempt, committed, history, disturbances>>

\* The catch block of #deliver: a committed checkpoint counts as handled,
\* otherwise retry after a delay until the attempts are used up.
Catch(c) ==
  /\ phase[c] = "caught"
  /\ \/ /\ CommitSeen(c)
        /\ outcome' = Recorded(c, entry[c], "admitted")
        /\ phase' = [phase EXCEPT ![c] = "advance"]
        /\ UNCHANGED <<attempt, committed>>
     \/ /\ ~CommitSeen(c) /\ AttemptsLeft(c)
        /\ attempt' = [attempt EXCEPT ![c] = @ + 1]
        /\ committed' = committed \ {c}
        /\ phase' = [phase EXCEPT ![c] = "handle"]
        /\ UNCHANGED outcome
     \/ /\ ~CommitSeen(c) /\ ~AttemptsLeft(c)
        /\ phase' = [phase EXCEPT ![c] = "fail"]
        /\ UNCHANGED <<outcome, attempt, committed>>
  /\ UNCHANGED <<head, rows, known, cursor, started, workers, callers, wakes, mem, replay, tail,
                 batch, entry, history, disturbances>>

\* #fail: the failure is recorded and the entry is given up.
FailEntry(c) ==
  /\ phase[c] = "fail"
  /\ outcome' = Recorded(c, entry[c], "failed")
  /\ settled' = [settled EXCEPT ![c] = @ \cup {entry[c]}]
  /\ phase' = [phase EXCEPT ![c] = "advance"]
  /\ UNCHANGED <<head, rows, known, cursor, started, workers, callers, wakes, mem, replay, tail,
                 batch, entry, attempt, committed, base, accepted, applied, disturbances>>

\* The entry is settled: both cursors move to it and the loop goes on.
Advance(c) ==
  /\ phase[c] = "advance"
  /\ cursor' = [cursor EXCEPT ![c] = entry[c]]
  /\ mem' = [mem EXCEPT ![c] = entry[c]]
  /\ entry' = [entry EXCEPT ![c] = 0]
  /\ attempt' = [attempt EXCEPT ![c] = 0]
  /\ committed' = committed \ {c}
  /\ \/ /\ batch[c] = {}
        /\ ReadBatch(c, entry[c])
     \/ /\ batch[c] # {}
        /\ phase' = [phase EXCEPT ![c] = "next"]
        /\ UNCHANGED batch
  /\ UNCHANGED <<head, rows, known, outcome, started, workers, callers, wakes, replay, tail,
                 history, disturbances>>

\* A journal statement outside the handler's try block throws: the run rejects.
\* "next" and "ended" stand for the readAfter that led there.
RunThrows(c) ==
  /\ phase[c] \in {"next", "ended", "expire", "caught", "fail", "advance"}
  /\ JournalThrows /\ Disturbed
  /\ phase' = [phase EXCEPT ![c] = "rejected"]
  /\ batch' = [batch EXCEPT ![c] = {}]
  /\ entry' = [entry EXCEPT ![c] = 0]
  /\ attempt' = [attempt EXCEPT ![c] = 0]
  /\ committed' = committed \ {c}
  /\ UNCHANGED <<durable, started, workers, callers, wakes, mem, replay, tail, history>>

\* The run fulfilled: drainRun is cleared and everyone awaiting it resumes.
EndRun(c) ==
  /\ phase[c] = "ended"
  /\ phase' = [phase EXCEPT ![c] = "idle"]
  /\ tail' = [tail EXCEPT ![c] = Tail(@)]
  /\ woken' = [woken EXCEPT ![c] = @ \cup waiting[c]]
  /\ waiting' = [waiting EXCEPT ![c] = {}]
  /\ manual' = [manual EXCEPT ![c] = IF @ = "drain" THEN "check" ELSE @]
  /\ UNCHANGED <<durable, Kept, gaveUp, requested, mem, replay, batch, entry, attempt, committed,
                 history, disturbances>>

\* The run rejected: its callers report the error and stop waiting for c.
RejectRun(c) ==
  /\ phase[c] = "rejected"
  /\ phase' = [phase EXCEPT ![c] = "idle"]
  /\ tail' = [tail EXCEPT ![c] = Tail(@)]
  /\ gaveUp' = [gaveUp EXCEPT ![c] = @ \cup waiting[c]]
  /\ waiting' = [waiting EXCEPT ![c] = {}]
  /\ manual' = [manual EXCEPT ![c] = IF @ = "drain" THEN "error" ELSE @]
  /\ UNCHANGED <<durable, Kept, woken, requested, mem, replay, batch, entry, attempt, committed,
                 history, disturbances>>

-----------------------------------------------------------------------------
\* The process dies or exits: only the tables survive.
Crash ==
  /\ started
  /\ Crashes /\ Disturbed
  /\ started' = FALSE /\ workers' = {}
  /\ calling' = {} /\ called' = {} /\ target' = [k \in Callers |-> 0]
  /\ waiting' = Nobody /\ woken' = Nobody /\ gaveUp' = Nobody
  /\ manual' = [c \in Consumers |-> "none"]
  /\ requested' = {}
  /\ mem' = Nowhere /\ replay' = 0
  /\ tail' = [c \in Consumers |-> << >>]
  /\ phase' = [c \in Consumers |-> "idle"]
  /\ batch' = Nobody /\ entry' = Nowhere /\ attempt' = Nowhere /\ committed' = {}
  /\ UNCHANGED <<durable, history>>

\* Every publisher returned and every job ran: nothing is left to do.
Quiescent ==
  /\ started /\ head = MaxSeq /\ calling = {} /\ 0 \in called
  /\ \A c \in workers : tail[c] = << >> /\ woken[c] = {} /\ manual[c] = "none"
  /\ UNCHANGED vars

StartAny == \E reg \in Registrations, old \in SUBSET rows : Start(reg, old)
PublishGoesOn == \E k \in calling : PublishDrain(k) \/ PublishManual(k)
ManualStep(c) == ManualDrain(c) \/ ManualDone(c) \/ ManualFailed(c)
Recheck(c) == \E k \in woken[c] : RecheckDrain(c, k)
HandlerStep(c) == Checkpoint(c) \/ HandleReturn(c) \/ HandleThrow(c)
WorkerStep(c) ==
  \/ StartRun(c) \/ RunExpire(c)
  \/ \E s \in batch[c] : TakeEntry(c, s)
  \/ ExpireEntry(c) \/ Catch(c) \/ FailEntry(c) \/ Advance(c)
  \/ EndRun(c) \/ RejectRun(c)

Next ==
  \/ StartAny \/ PublishAppend \/ PublishGoesOn \/ Resume \/ ExpirePending
  \/ \E old \in SUBSET rows : Prune(old)
  \/ \E c \in Consumers :
       Recheck(c) \/ ManualStep(c) \/ HandlerStep(c) \/ WorkerStep(c) \/ RunThrows(c)
  \/ Crash
  \/ Quiescent

Spec == Init /\ [][Next]_vars

\* The event loop runs every ready continuation; start and resume are called
\* by the runtime; a handler settles only for the prompt consumers.
Fairness ==
  /\ WF_vars(StartAny) /\ WF_vars(PublishGoesOn) /\ WF_vars(Resume)
  /\ \A c \in Consumers :
       WF_vars(Recheck(c)) /\ WF_vars(ManualStep(c)) /\ WF_vars(WorkerStep(c))
  /\ \A c \in Prompt : WF_vars(HandleReturn(c) \/ HandleThrow(c))

FairSpec == Spec /\ Fairness

-----------------------------------------------------------------------------
(* Properties *)

JournalType ==
  /\ head \in Position
  /\ rows \subseteq Sequence
  /\ known \subseteq Consumers
  /\ cursor \in [Consumers -> Position]
  /\ outcome \in [Consumers -> [Sequence -> Outcomes]]

BusType ==
  /\ started \in BOOLEAN
  /\ workers \subseteq Consumers
  /\ calling \subseteq Sequence
  /\ called \subseteq Callers
  /\ target \in [Callers -> Position]
  /\ waiting \in [Consumers -> SUBSET Callers]
  /\ woken \in [Consumers -> SUBSET Callers]
  /\ gaveUp \in [Consumers -> SUBSET Callers]
  /\ manual \in [Consumers -> {"none", "queued", "drain", "check", "error"}]
  /\ requested \subseteq Consumers

WorkerType ==
  /\ mem \in [Consumers -> Position]
  /\ replay \in Position
  /\ tail \in [Consumers -> Seq(Jobs)]
  /\ phase \in [Consumers -> Phases]
  /\ batch \in [Consumers -> SUBSET Sequence]
  /\ entry \in [Consumers -> Position]
  /\ attempt \in [Consumers -> Nat]
  /\ \A c \in Consumers : attempt[c] <= MaxAttempts[c]
  /\ committed \subseteq Consumers
  /\ \A c \in Consumers : phase[c] # "idle" => tail[c] # << >>
  /\ \A c \in Consumers : phase[c] \in Holding => entry[c] \in Sequence

HistoryType ==
  /\ base \in [Consumers -> Position]
  /\ settled \in [Consumers -> SUBSET Sequence]
  /\ accepted \in [Consumers -> SUBSET Sequence]
  /\ applied \in [Consumers -> [Sequence -> 0 .. 2]]
  /\ disturbances \in 0 .. MaxDisturbances

\* Every variable has its type; in particular no event is attempted more often
\* than its consumer's maxAttempts.
TypeOK == JournalType /\ BusType /\ WorkerType /\ HistoryType

\* Journal order without gaps, across crashes, restores, retention and failing
\* journal statements: what was settled for a consumer is every row after the
\* one it registered at, up to its persisted cursor or one row beyond.  So no
\* row is skipped, none from before its registration is delivered, and at most
\* one row can be redelivered after a crash.
DeliveredInOrder ==
  \A c \in known :
    \E n \in cursor[c] .. cursor[c] + 1 : settled[c] = (base[c] + 1) .. n

\* publish() and resume() return only after every worker that did not report
\* an error persisted a cursor at or past the head they saw.
PublishWaits ==
  \A k \in called : \A c \in workers :
    \/ k \in waiting[c] \cup woken[c] \cup gaveUp[c]
    \/ cursor[c] >= target[k]

\* Diagnostics report an event as admitted only if the consumer accepted it;
\* the cursor passing a row without a recorded outcome counts as admitted, so
\* every other way past a row must leave an outcome behind.
AdmittedIsHonest ==
  \A c \in known : \A s \in rows :
    s > base[c] /\ Reported(c, s) = "admitted" => s \in accepted[c]

\* The same without the exception for rows journaled before the consumer
\* existed: EventBusConsumerOutcome is "what a consumer did with one event".
AdmittedWasHandled ==
  \A c \in known : \A s \in rows :
    Reported(c, s) = "admitted" => s \in accepted[c]

\* A transaction that committed with its checkpoint is never run again for the
\* same event: its effect applies exactly once across crashes and retries.
CheckpointOnce ==
  \A c \in Checkpointing : \A s \in Sequence : applied[c][s] <= 1

\* A persisted cursor never moves back while its consumer stays registered.
CursorMonotone ==
  [][\A c \in known \cap known' : cursor'[c] >= cursor[c]]_vars

\* The bus implements in-order delivery as BusDelivery states it.
Delivery == INSTANCE BusDelivery WITH
  log <- head, members <- known, from <- base, given <- settled, confirmed <- cursor
DeliverySpec == Delivery!Spec

\* A consumer whose handler settles passes every journaled row, whatever the
\* other consumers' handlers do and whichever way the row was published.
PromptProgress ==
  \A c \in Prompt, s \in Sequence :
    (s <= head /\ c \in known) ~> (c \notin known \/ cursor[c] >= s)

\* No publish waits forever for a consumer whose handler settles.
PublishReturns ==
  \A c \in Prompt, k \in Callers :
    (k \in waiting[c] \cup woken[c]) ~> (k \notin waiting[c] \cup woken[c])
=============================================================================
