--------------------------- MODULE EventBusProofs ---------------------------
(* Proofs about EventBus for every set of consumers, every batch size and     *)
(* retention, and any number of rows and disturbances.                        *)
EXTENDS EventBus, FiniteSetTheorems, SequenceTheorems, TLAPS

\* The volatile state of a process that has not started, or of no worker.
Blank(c) ==
  /\ phase[c] = "idle"
  /\ tail[c] = << >>
  /\ batch[c] = {}
  /\ waiting[c] = {} /\ woken[c] = {} /\ manual[c] = "none"

IdleOutside ==
  /\ ~started => workers = {} /\ called = {} /\ calling = {}
  /\ started => workers = known
  /\ \A c \in Consumers : c \notin workers => Blank(c)
  /\ \A c \in Consumers : phase[c] \notin Holding => entry[c] = 0
  /\ \A c \in Consumers : phase[c] \in {"idle", "ended", "rejected"} => batch[c] = {}

\* Positions never run ahead of the journal.
Positions ==
  /\ \A s \in rows : s <= head
  /\ \A c \in Consumers : cursor[c] <= head

\* No expire job reaches past the head it was queued at.
JobsBelowHead ==
  \A c \in Consumers : \A i \in 1 .. Len(tail[c]) : tail[c][i].through <= head

\* Retention removed only rows the cursor of c has passed.
LiveRows(c) == \A s \in 1 .. head : s > cursor[c] => s \in rows

\* S is every row after b up to n, or up to the one beyond it.
Through(S, b, n, h) ==
  \/ S = (b + 1) .. n
  \/ S = (b + 1) .. (n + 1) /\ n < h

SettledIsInterval(c) == Through(settled[c], base[c], cursor[c], head)

\* A committed checkpoint can leave the worker's cursor behind the persisted
\* one, but no row lies between the two.
NoRowBetween(c) ==
  /\ base[c] <= mem[c] /\ mem[c] <= cursor[c]
  /\ \A s \in rows : mem[c] < s => cursor[c] <= s

\* A batch is the next rows in the journal, without gaps.
BatchIsNext(c) ==
  \A s \in batch[c] :
    /\ mem[c] < s /\ entry[c] < s /\ cursor[c] <= s /\ s <= head
    /\ \A r \in rows : mem[c] < r /\ r < s => r \in batch[c] \/ r = entry[c]

\* The entry in hand is the next row, or the row the persisted cursor is at
\* already; once its handler was called it is settled.
EntryIsNext(c) ==
  phase[c] \in Holding =>
    /\ mem[c] < entry[c] /\ cursor[c] <= entry[c] /\ entry[c] <= cursor[c] + 1
    /\ entry[c] <= head
    /\ \A r \in rows : mem[c] < r => entry[c] <= r
    /\ phase[c] \in {"handle", "caught", "advance"} => entry[c] \in settled[c]

KnownOrder(c) == base[c] <= cursor[c] /\ LiveRows(c) /\ SettledIsInterval(c)
WorkerOrder(c) == NoRowBetween(c) /\ BatchIsNext(c) /\ EntryIsNext(c)

\* The inductive invariant.
IInv ==
  /\ TypeOK
  /\ IdleOutside
  /\ Positions
  /\ JobsBelowHead
  /\ \A c \in known : KnownOrder(c)
  /\ \A c \in workers : WorkerOrder(c)
  /\ PublishWaits

-----------------------------------------------------------------------------
(* Type correctness *)

LEMMA Bounds ==
  /\ MaxSeq \in Nat
  /\ Sequence \subseteq Position
  /\ \A n \in Position : n \in Nat
  /\ 0 \in Position
  /\ Callers = Position
  BY BoundsAssumption DEF Sequence, Position, Callers

LEMMA DrainedType ==
  ASSUME WorkerType, NEW c \in Consumers
  PROVE  Drained(c) \in Seq(Jobs) /\ (tail[c] # << >> => Drained(c) # << >>)
<1>1. DrainJob \in Jobs
  BY Bounds DEF DrainJob, Jobs
<1>2. tail[c] \in Seq(Jobs)
  BY DEF WorkerType
<1> QED
  BY <1>1, <1>2 DEF Drained

LEMMA ReadAfterType ==
  ASSUME JournalType, NEW after
  PROVE  ReadAfter(after) \subseteq Sequence
  BY DEF ReadAfter, JournalType

LEMMA HeadJob ==
  ASSUME WorkerType, NEW c \in Consumers, tail[c] # << >>
  PROVE  /\ Head(tail[c]).through \in Position
         /\ Tail(tail[c]) \in Seq(Jobs)
<1>1. tail[c] \in Seq(Jobs)
  BY DEF WorkerType
<1>2. Head(tail[c]) \in Jobs /\ Tail(tail[c]) \in Seq(Jobs)
  BY <1>1
<1> QED
  BY <1>2 DEF Jobs

LEMMA InitType == Init => TypeOK
<1> SUFFICES ASSUME Init PROVE TypeOK
  OBVIOUS
<1>1. JournalType
  BY Bounds DEF Init, JournalType, Outcomes, Nowhere
<1>2. BusType
  BY Bounds DEF Init, BusType, Nobody
<1>3. WorkerType
  BY Bounds, ConsumersAssumption DEF Init, WorkerType, Nobody, Nowhere, Phases, Holding
<1>4. HistoryType
  BY Bounds, BoundsAssumption DEF Init, HistoryType, Nobody, Nowhere
<1> QED
  BY <1>1, <1>2, <1>3, <1>4 DEF TypeOK

LEMMA RecordedType ==
  ASSUME JournalType, NEW c \in Consumers, NEW s, NEW what \in {"admitted", "failed", "expired"}
  PROVE  Recorded(c, s, what) \in [Consumers -> [Sequence -> Outcomes]]
BY DEF JournalType, Recorded, Outcomes

LEMMA JournalStep == TypeOK /\ [Next]_vars => JournalType'
<1> SUFFICES ASSUME TypeOK, [Next]_vars PROVE JournalType'
  OBVIOUS
<1> USE DEF JournalType
<1> JournalType
  BY DEF TypeOK
<1>1. ASSUME NEW reg \in Registrations, NEW old \in SUBSET rows, Start(reg, old)
      PROVE  JournalType'
  <2>1. reg \subseteq Consumers
    BY ConsumersAssumption
  <2>2. cursor' \in [Consumers -> Position]
    BY <1>1, Bounds DEF Start, StartCursors
  <2>3. outcome' \in [Consumers -> [Sequence -> Outcomes]]
    BY <1>1 DEF Start, Cascade, Outcomes
  <2> QED
    BY <1>1, <2>1, <2>2, <2>3 DEF Start
<1>2. CASE PublishAppend
  BY <1>2, Bounds DEF PublishAppend, Sequence, Position
<1>3. ASSUME NEW old \in SUBSET rows, Prune(old) PROVE JournalType'
  BY <1>3 DEF Prune, Cascade, Outcomes
<1>4. ASSUME NEW c \in Consumers, HandlerStep(c) PROVE JournalType'
  <2>1. entry[c] \in Position
    BY DEF TypeOK, WorkerType
  <2> QED
    BY <1>4, <2>1, RecordedType DEF HandlerStep, Checkpoint, HandleReturn, HandleThrow, durable
<1>5. ASSUME NEW c \in Consumers, RunExpire(c) PROVE JournalType'
  <2>1. Head(tail[c]).through \in Position
    BY <1>5, HeadJob DEF RunExpire, TypeOK
  <2>2. CASE ExpireRows(c, Head(tail[c]).through)
    BY <1>5, <2>1, <2>2 DEF RunExpire, ExpireRows, Outcomes
  <2>3. CASE UNCHANGED <<cursor, outcome>>
    BY <1>5, <2>3 DEF RunExpire
  <2> QED
    BY <1>5, <2>2, <2>3 DEF RunExpire
<1>6. ASSUME NEW c \in Consumers,
             ExpireEntry(c) \/ Catch(c) \/ FailEntry(c) PROVE JournalType'
  <2>1. outcome' \in [Consumers -> [Sequence -> Outcomes]] /\ UNCHANGED <<head, rows, known, cursor>>
    BY <1>6, RecordedType DEF ExpireEntry, Catch, FailEntry
  <2> QED
    BY <2>1
<1>7. ASSUME NEW c \in Consumers, Advance(c) PROVE JournalType'
  <2>1. entry[c] \in Position
    BY DEF TypeOK, WorkerType
  <2> QED
    BY <1>7, <2>1 DEF Advance
<1>8. CASE UNCHANGED durable
  BY <1>8 DEF durable
<1> QED
  BY <1>1, <1>2, <1>3, <1>4, <1>5, <1>6, <1>7, <1>8
  DEF Next, vars, StartAny, PublishGoesOn, PublishDrain, PublishManual, DrainAll, Resume,
      ExpirePending, Recheck, RecheckDrain, ManualStep, ManualDrain, ManualDone, ManualFailed,
      WorkerStep, StartRun, TakeEntry, EndRun, RejectRun, RunThrows, Crash, Quiescent

LEMMA BusStep == TypeOK /\ [Next]_vars => BusType'
<1> SUFFICES ASSUME TypeOK, [Next]_vars PROVE BusType'
  OBVIOUS
<1> USE DEF BusType
<1> BusType /\ JournalType /\ WorkerType
  BY DEF TypeOK
<1>1. ASSUME NEW reg \in Registrations, NEW old \in SUBSET rows, Start(reg, old)
      PROVE  BusType'
  BY <1>1, ConsumersAssumption DEF Start, callers, wakes
<1>2. CASE PublishAppend
  <2>1. head + 1 \in Sequence
    BY <1>2, Bounds DEF PublishAppend, JournalType, Sequence, Position
  <2> QED
    BY <1>2, <2>1 DEF PublishAppend, wakes
<1>3. ASSUME NEW k \in Callers, DrainAll(k), calling' \in SUBSET calling PROVE BusType'
  BY <1>3, Bounds DEF DrainAll, JournalType, wakes
<1>4. ASSUME NEW k \in calling, PublishManual(k) PROVE BusType'
  BY <1>4 DEF PublishManual
<1>5. ASSUME NEW c \in Consumers, Recheck(c) PROVE BusType'
  BY <1>5 DEF Recheck, RecheckDrain, wakes
<1>6. ASSUME NEW c \in Consumers, ManualStep(c) PROVE BusType'
  BY <1>6 DEF ManualStep, ManualDrain, ManualDone, ManualFailed, callers
<1>7. ASSUME NEW c \in Consumers, EndRun(c) \/ RejectRun(c) PROVE BusType'
  BY <1>7 DEF EndRun, RejectRun, Kept
<1>8. CASE Crash
  BY <1>8, Bounds DEF Crash, Nobody
<1>9. CASE UNCHANGED <<started, workers, callers, wakes>>
  BY <1>9 DEF callers, wakes
<1>10. \A k \in calling : k \in Callers
  BY Bounds
<1>11. 0 \in Callers
  BY Bounds
<1> QED
  BY <1>1, <1>2, <1>3, <1>4, <1>5, <1>6, <1>7, <1>8, <1>9, <1>10, <1>11
  DEF Next, vars, StartAny, PublishGoesOn, PublishDrain, Resume, ExpirePending, Prune,
      HandlerStep, Checkpoint, HandleReturn, HandleThrow, WorkerStep, StartRun, RunExpire,
      TakeEntry, ExpireEntry, Catch, FailEntry, Advance, RunThrows, Quiescent

LEMMA WorkerTypeStep == TypeOK /\ [Next]_vars => WorkerType'
<1> SUFFICES ASSUME TypeOK, [Next]_vars PROVE WorkerType'
  OBVIOUS
<1> USE DEF WorkerType
<1> BusType /\ JournalType /\ WorkerType
  BY DEF TypeOK
<1>0. \A d \in Consumers : MaxAttempts[d] \in Nat /\ 1 <= MaxAttempts[d]
  BY ConsumersAssumption
<1>1. ASSUME NEW reg \in Registrations, NEW old \in SUBSET rows, Start(reg, old)
      PROVE  WorkerType'
  <2>1. StartCursors(reg) \in [Consumers -> Position]
    BY Bounds DEF StartCursors, JournalType
  <2> QED
    BY <1>1, <2>1 DEF Start, JournalType
<1>2. ASSUME NEW k \in Callers, DrainAll(k) PROVE WorkerType'
  BY <1>2, DrainedType DEF DrainAll
<1>3. ASSUME NEW c \in Consumers, Recheck(c) \/ ManualStep(c) PROVE WorkerType'
  <2>1. CASE UNCHANGED worker
    BY <2>1 DEF worker
  <2>2. CASE /\ tail' = [tail EXCEPT ![c] = Drained(c)]
             /\ UNCHANGED <<mem, replay, phase, batch, entry, attempt, committed>>
    BY <2>2, DrainedType
  <2> QED
    BY <1>3, <2>1, <2>2
    DEF Recheck, RecheckDrain, ManualStep, ManualDrain, ManualDone, ManualFailed, worker
<1>4. CASE ExpirePending
  <2>1. [kind |-> "expire", through |-> head] \in Jobs
    BY DEF JournalType, Jobs
  <2>2. ASSUME NEW c \in Consumers
        PROVE  /\ Append(tail[c], [kind |-> "expire", through |-> head]) \in Seq(Jobs)
               /\ Append(tail[c], [kind |-> "expire", through |-> head]) # << >>
    <3>1. tail[c] \in Seq(Jobs)
      OBVIOUS
    <3> HIDE DEF WorkerType
    <3> QED
      BY <2>1, <3>1, AppendProperties
  <2> QED
    BY <1>4, <2>2 DEF ExpirePending
<1>5. ASSUME NEW c \in Consumers, HandlerStep(c) \/ ExpireEntry(c) \/ FailEntry(c)
      PROVE  WorkerType'
  BY <1>5 DEF HandlerStep, Checkpoint, HandleReturn, HandleThrow, ExpireEntry, FailEntry, Phases,
              Holding
<1>6. ASSUME NEW c \in Consumers, StartRun(c) PROVE WorkerType'
  BY <1>6, ReadAfterType DEF StartRun, ReadBatch, Phases, Holding
<1>7. ASSUME NEW c \in Consumers, RunExpire(c) PROVE WorkerType'
  BY <1>7, HeadJob DEF RunExpire, ExpireRows, Holding
<1>8. ASSUME NEW c \in Consumers, NEW s \in batch[c], TakeEntry(c, s) PROVE WorkerType'
  <2>1. s \in Position
    BY Bounds
  <2> QED
    BY <1>8, <2>1, <1>0 DEF TakeEntry, Phases, Holding
<1>9. ASSUME NEW c \in Consumers, Catch(c) PROVE WorkerType'
  <2>1. CASE attempt' = attempt /\ committed' = committed /\ phase'[c] \in {"advance", "fail"}
    BY <1>9, <2>1 DEF Catch, Phases, Holding
  <2>2. CASE /\ AttemptsLeft(c)
             /\ attempt' = [attempt EXCEPT ![c] = @ + 1]
             /\ committed' = committed \ {c}
             /\ phase' = [phase EXCEPT ![c] = "handle"]
    <3>1. attempt' \in [Consumers -> Nat]
      BY <2>2
    <3>2. attempt'[c] <= MaxAttempts[c]
      BY <2>2, <1>0 DEF AttemptsLeft
    <3> QED
      BY <1>9, <2>2, <3>1, <3>2 DEF Catch, Phases, Holding
  <2> QED
    BY <1>9, <2>1, <2>2 DEF Catch
<1>10. ASSUME NEW c \in Consumers, Advance(c) PROVE WorkerType'
  <2>1. attempt' \in [Consumers -> Nat] /\ \A d \in Consumers : attempt'[d] <= MaxAttempts[d]
    BY <1>10, <1>0 DEF Advance
  <2>2. batch' \in [Consumers -> SUBSET Sequence]
    <3>1. CASE UNCHANGED batch
      BY <3>1
    <3>2. CASE batch' = [batch EXCEPT ![c] = ReadAfter(entry[c])]
      <4>1. ReadAfter(entry[c]) \subseteq Sequence
        BY ReadAfterType
      <4> QED
        BY <3>2, <4>1
    <3> QED
      BY <1>10, <3>1, <3>2 DEF Advance, ReadBatch
  <2>3. /\ phase' \in [Consumers -> Phases] /\ phase'[c] \notin Holding
        /\ \A d \in Consumers \ {c} : phase'[d] = phase[d]
    BY <1>10 DEF Advance, ReadBatch, Phases, Holding
  <2>4. entry' \in [Consumers -> Position]
    BY <1>10, Bounds DEF Advance
  <2>5. mem' \in [Consumers -> Position]
    BY <1>10 DEF Advance
  <2>6. \A d \in Consumers : phase'[d] \in Holding => entry'[d] \in Sequence
    BY <1>10, <2>3 DEF Advance
  <2>7. \A d \in Consumers : phase'[d] # "idle" => tail'[d] # << >>
    BY <1>10, <2>3 DEF Advance
  <2> QED
    BY <1>10, <2>1, <2>2, <2>3, <2>4, <2>5, <2>6, <2>7 DEF Advance
<1>11. ASSUME NEW c \in Consumers, EndRun(c) \/ RejectRun(c) PROVE WorkerType'
  <2>1. Tail(tail[c]) \in Seq(Jobs)
    BY <1>11, HeadJob DEF EndRun, RejectRun
  <2>2. tail' = [tail EXCEPT ![c] = Tail(tail[c])] /\ phase' = [phase EXCEPT ![c] = "idle"]
    BY <1>11 DEF EndRun, RejectRun
  <2>3. UNCHANGED <<mem, replay, batch, entry, attempt, committed>>
    BY <1>11 DEF EndRun, RejectRun
  <2> QED
    BY <2>1, <2>2, <2>3 DEF Phases, Holding
<1>12. ASSUME NEW c \in Consumers, RunThrows(c) PROVE WorkerType'
  BY <1>12, <1>0, Bounds DEF RunThrows, Phases, Holding
<1>13. CASE Crash
  BY <1>13, <1>0, Bounds DEF Crash, Nobody, Nowhere, Phases, Holding
<1>14. CASE UNCHANGED worker
  BY <1>14 DEF worker
<1>15. \A k \in calling : k \in Callers
  BY Bounds DEF BusType
<1>16. 0 \in Callers
  BY Bounds
<1> QED
  BY <1>1, <1>2, <1>3, <1>4, <1>5, <1>6, <1>7, <1>8, <1>9, <1>10, <1>11, <1>12, <1>13, <1>14,
     <1>15, <1>16
  DEF Next, vars, StartAny, PublishAppend, PublishGoesOn, PublishDrain, PublishManual, Resume,
      Prune, WorkerStep, Quiescent

LEMMA HistoryStep == TypeOK /\ [Next]_vars => HistoryType'
<1> SUFFICES ASSUME TypeOK, [Next]_vars PROVE HistoryType'
  OBVIOUS
<1> USE DEF HistoryType
<1> HistoryType /\ JournalType /\ WorkerType
  BY DEF TypeOK
<1>1. ASSUME NEW reg \in Registrations, NEW old \in SUBSET rows, Start(reg, old)
      PROVE  HistoryType'
  BY <1>1 DEF Start, JournalType
<1>2. ASSUME NEW c \in Consumers, NEW s \in batch[c], TakeEntry(c, s) PROVE HistoryType'
  <2>1. s \in Sequence
    BY DEF WorkerType
  <2> QED
    BY <1>2, <2>1 DEF TakeEntry
<1>3. ASSUME NEW c \in Consumers, HandlerStep(c) \/ ExpireEntry(c) \/ FailEntry(c)
      PROVE  HistoryType'
  <2>1. entry[c] \in Sequence
    BY <1>3 DEF HandlerStep, Checkpoint, HandleReturn, HandleThrow, ExpireEntry, FailEntry,
                WorkerType, Holding
  <2>2. CASE Checkpoint(c)
    BY <2>1, <2>2 DEF Checkpoint
  <2>3. CASE HandleReturn(c) \/ HandleThrow(c)
    BY <2>1, <2>3, BoundsAssumption DEF HandleReturn, HandleThrow, Disturbed, history
  <2> QED
    BY <1>3, <2>1, <2>2, <2>3 DEF HandlerStep, ExpireEntry, FailEntry
<1>4. ASSUME NEW c \in Consumers, RunExpire(c) PROVE HistoryType'
  <2>1. settled' \in [Consumers -> SUBSET Sequence]
    BY <1>4 DEF RunExpire, ExpireRows, JournalType
  <2> QED
    BY <1>4, <2>1, BoundsAssumption DEF RunExpire, Disturbed
<1>5. CASE UNCHANGED history /\ (Disturbed \/ UNCHANGED disturbances)
  BY <1>5, BoundsAssumption DEF history, Disturbed
<1> QED
  BY <1>1, <1>2, <1>3, <1>4, <1>5
  DEF Next, vars, StartAny, PublishAppend, PublishGoesOn, PublishDrain, PublishManual, DrainAll,
      Resume, ExpirePending, Prune, Recheck, RecheckDrain, ManualStep, ManualDrain, ManualDone,
      ManualFailed, WorkerStep, StartRun, Catch, Advance, EndRun, RejectRun, RunThrows, Crash,
      Quiescent

\* Every reachable state is well typed: among the rest, no event is attempted more
\* often than its consumer's maxAttempts, whatever handlers and journal do.
THEOREM TypeCorrect == Spec => []TypeOK
<1>1. Init => TypeOK
  BY InitType
<1>2. TypeOK /\ [Next]_vars => TypeOK'
  BY JournalStep, BusStep, WorkerTypeStep, HistoryStep DEF TypeOK
<1> QED
  BY <1>1, <1>2, PTL DEF Spec

-----------------------------------------------------------------------------
(* Journal order *)

\* The state the invariant's order parts are about.
core == <<head, rows, known, cursor, outcome, started, workers, mem, phase, batch, entry,
          committed, base, settled, accepted, applied>>

LEMMA Numbers ==
  ASSUME TypeOK
  PROVE  /\ head \in Nat
         /\ rows \subseteq Nat
         /\ \A c \in Consumers : /\ cursor[c] \in Nat /\ mem[c] \in Nat
                                 /\ base[c] \in Nat /\ entry[c] \in Nat
                                 /\ batch[c] \subseteq Nat
                                 /\ settled[c] \subseteq Nat
  BY Bounds DEF TypeOK, JournalType, WorkerType, HistoryType

\* Only a worker's consumer is ever handled.
LEMMA StepCases ==
  ASSUME IInv, [Next]_vars
  PROVE  \/ UNCHANGED core
         \/ \E reg \in Registrations, old \in SUBSET rows : Start(reg, old)
         \/ PublishAppend
         \/ \E old \in SUBSET rows : Prune(old)
         \/ \E c \in workers : HandlerStep(c) \/ WorkerStep(c) \/ RunThrows(c)
         \/ Crash
<1>1. ASSUME NEW c \in Consumers, HandlerStep(c) \/ WorkerStep(c) \/ RunThrows(c)
      PROVE  c \in workers
  BY <1>1 DEF IInv, IdleOutside, Blank, HandlerStep, Checkpoint, HandleReturn, HandleThrow,
     WorkerStep, StartRun, RunExpire, TakeEntry, ExpireEntry, Catch, FailEntry, Advance, EndRun,
     RejectRun, RunThrows
<1>2. ASSUME NEW c \in Consumers, Recheck(c) \/ ManualStep(c) PROVE UNCHANGED core
  BY <1>2 DEF Recheck, RecheckDrain, ManualStep, ManualDrain, ManualDone, ManualFailed, core,
              durable, worker, history
<1>3. CASE PublishGoesOn \/ Resume \/ ExpirePending \/ Quiescent \/ UNCHANGED vars
  BY <1>3 DEF PublishGoesOn, PublishDrain, PublishManual, DrainAll, Resume, ExpirePending,
              Quiescent, vars, core, durable, worker, history
<1> QED
  BY <1>1, <1>2, <1>3 DEF Next, StartAny

\* Starting changes the cursors of newly registered consumers only.
LEMMA StartFacts ==
  ASSUME TypeOK, NEW reg \in Registrations, NEW old \in SUBSET rows, Start(reg, old)
  PROVE  /\ reg \subseteq Consumers /\ known' = reg /\ workers' = reg /\ head' = head
         /\ mem' = cursor'
         /\ \A c \in reg : /\ c \in known => cursor'[c] = cursor[c] /\ base'[c] = base[c]
                                             /\ settled'[c] = settled[c]
                           /\ c \notin known => cursor'[c] = head /\ base'[c] = head
                                                /\ settled'[c] = {}
         /\ \A c \in Consumers \ reg : cursor'[c] = 0
         /\ rows' \subseteq rows
         /\ \A s \in rows \ rows' : \A c \in reg : s <= cursor'[c]
<1>1. reg \subseteq Consumers
  BY ConsumersAssumption
<1> QED
  BY <1>1 DEF Start, StartCursors, Prunable

LEMMA CursorUp ==
  ASSUME IInv, [Next]_vars
  PROVE  \A c \in known \cap known' : cursor'[c] >= cursor[c]
<1> USE DEF IInv
<1>0. known \subseteq Consumers /\ workers \subseteq Consumers
  BY DEF TypeOK, JournalType, BusType
<1>1. CASE UNCHANGED cursor
  BY <1>0, <1>1, Numbers
<1>2. ASSUME NEW reg \in Registrations, NEW old \in SUBSET rows, Start(reg, old)
      PROVE  \A c \in known \cap known' : cursor'[c] >= cursor[c]
  BY <1>0, <1>2, StartFacts, Numbers
<1>3. ASSUME NEW c \in workers, Checkpoint(c) \/ Advance(c)
      PROVE  \A d \in known \cap known' : cursor'[d] >= cursor[d]
  <2>1. cursor' = [cursor EXCEPT ![c] = entry[c]] /\ cursor[c] <= entry[c]
    BY <1>3 DEF Checkpoint, Advance, WorkerOrder, EntryIsNext, Holding
  <2> QED
    BY <1>0, <2>1, Numbers DEF TypeOK, JournalType
<1>4. ASSUME NEW c \in workers, RunExpire(c)
      PROVE  \A d \in known \cap known' : cursor'[d] >= cursor[d]
  <2>1. tail[c] # << >>
    BY <1>4 DEF RunExpire
  <2>2. Head(tail[c]).through \in Nat
    BY <1>0, <2>1, HeadJob, Bounds DEF TypeOK
  <2> QED
    BY <1>0, <1>4, <2>2, Numbers DEF RunExpire, ExpireRows, TypeOK, JournalType
<1> QED
  BY <1>1, <1>2, <1>3, <1>4, StepCases
  DEF core, PublishAppend, Prune, HandlerStep, HandleReturn, HandleThrow, WorkerStep, StartRun,
      TakeEntry, ExpireEntry, Catch, FailEntry, EndRun, RejectRun, RunThrows, Crash, durable

LEMMA IdleStep ==
  ASSUME IInv, [Next]_vars
  PROVE  IdleOutside'
<1> USE DEF IInv, IdleOutside, Blank
<1>0. /\ TypeOK /\ WorkerType /\ BusType
      /\ known \subseteq Consumers /\ workers \subseteq Consumers
  BY DEF TypeOK, JournalType, BusType
<1>1. ASSUME NEW reg \in Registrations, NEW old \in SUBSET rows, Start(reg, old)
      PROVE  IdleOutside'
  BY <1>0, <1>1 DEF Start, callers, wakes
<1>2. CASE PublishAppend
  BY <1>2 DEF PublishAppend, worker, wakes
<1>3. ASSUME NEW k \in Callers, DrainAll(k), started, UNCHANGED wakes PROVE IdleOutside'
  BY <1>0, <1>3 DEF DrainAll, durable, wakes
<1>4. ASSUME NEW k \in calling, PublishManual(k), started PROVE IdleOutside'
  BY <1>4 DEF PublishManual, durable, worker
<1>5. CASE ExpirePending
  BY <1>5 DEF ExpirePending, durable, callers, wakes
<1>6. ASSUME NEW old \in SUBSET rows, Prune(old) PROVE IdleOutside'
  BY <1>6 DEF Prune, callers, worker, wakes
<1>7. ASSUME NEW c \in Consumers, Recheck(c) PROVE IdleOutside'
  BY <1>0, <1>7 DEF Recheck, RecheckDrain, durable, wakes, BusType, WorkerType
<1>8. ASSUME NEW c \in Consumers, ManualStep(c) PROVE IdleOutside'
  <2>1. c \in workers /\ UNCHANGED <<started, workers, known, called, phase, batch, entry, waiting, woken>>
    BY <1>8 DEF ManualStep, ManualDrain, ManualDone, ManualFailed, durable, callers, worker
  <2>2. \A d \in Consumers \ {c} : tail'[d] = tail[d] /\ manual'[d] = manual[d]
    BY <1>0, <1>8 DEF ManualStep, ManualDrain, ManualDone, ManualFailed, worker, BusType,
                      WorkerType
  <2> QED
    BY <2>1, <2>2
<1>9. ASSUME NEW c \in workers, HandlerStep(c) \/ WorkerStep(c) \/ RunThrows(c)
      PROVE  IdleOutside'
  <2>1. /\ UNCHANGED <<started, workers, known, called>>
        /\ \A d \in Consumers \ {c} :
             /\ phase'[d] = phase[d] /\ tail'[d] = tail[d] /\ batch'[d] = batch[d]
             /\ entry'[d] = entry[d] /\ waiting'[d] = waiting[d] /\ woken'[d] = woken[d]
             /\ manual'[d] = manual[d]
    BY <1>0, <1>9 DEF HandlerStep, Checkpoint, HandleReturn, HandleThrow, WorkerStep, StartRun,
       RunExpire, ExpireRows, TakeEntry, ExpireEntry, Catch, FailEntry, Advance, ReadBatch, EndRun,
       RejectRun, RunThrows, Kept, callers, wakes, durable, BusType, WorkerType
  <2>2. /\ phase'[c] \notin Holding => entry'[c] = 0
        /\ phase'[c] \in {"idle", "ended", "rejected"} => batch'[c] = {}
    <3>1. CASE HandlerStep(c)
      BY <1>0, <3>1 DEF HandlerStep, Checkpoint, HandleReturn, HandleThrow, WorkerType, Holding
    <3>2. CASE RunThrows(c)
      BY <1>0, <3>2 DEF RunThrows, WorkerType, Holding
    <3>3. ASSUME NEW after, ReadBatch(c, after)
          PROVE  /\ phase'[c] \in {"next", "ended"}
                 /\ phase'[c] = "ended" => batch'[c] = {}
      BY <1>0, <3>3 DEF ReadBatch, WorkerType
    <3>4. CASE StartRun(c)
      BY <1>0, <3>3, <3>4 DEF StartRun, WorkerType, Holding
    <3>7. CASE Advance(c)
      <4>1. entry'[c] = 0
        BY <1>0, <3>7 DEF Advance, WorkerType
      <4>2. phase'[c] = "next" \/ ReadBatch(c, entry[c])
        BY <1>0, <3>7 DEF Advance, WorkerType
      <4> QED
        BY <4>1, <4>2, <3>3
    <3>8. ASSUME NEW s \in batch[c], TakeEntry(c, s)
          PROVE  phase'[c] \in Holding \ {"idle", "ended", "rejected"}
      BY <1>0, <3>8 DEF TakeEntry, WorkerType, Holding
    <3>5. CASE ExpireEntry(c) \/ Catch(c) \/ FailEntry(c) \/ RunExpire(c)
      BY <1>0, <3>5 DEF ExpireEntry, Catch, FailEntry, RunExpire, WorkerType, Holding
    <3>6. CASE EndRun(c) \/ RejectRun(c)
      BY <1>0, <3>6 DEF EndRun, RejectRun, WorkerType, Holding
    <3> QED
      BY <1>9, <3>1, <3>2, <3>4, <3>5, <3>6, <3>7, <3>8 DEF WorkerStep
  <2> QED
    BY <1>0, <2>1, <2>2
<1>10. CASE Crash
  BY <1>10 DEF Crash, Nobody, Nowhere
<1>11. CASE UNCHANGED vars
  BY <1>11 DEF vars, durable, callers, wakes, worker
<1>12. \A k \in calling : k \in Callers
  BY <1>0, Bounds DEF BusType
<1>13. 0 \in Callers
  BY Bounds
<1>14. calling # {} => started
  OBVIOUS
<1>15. ASSUME NEW k \in calling, PublishDrain(k) \/ PublishManual(k) PROVE IdleOutside'
  BY <1>3, <1>4, <1>12, <1>14, <1>15 DEF PublishDrain, DrainAll
<1>16. CASE Resume
  BY <1>3, <1>13, <1>16 DEF Resume, DrainAll
<1>17. CASE Quiescent
  BY <1>11, <1>17 DEF Quiescent
<1>18. \A c \in Consumers : HandlerStep(c) \/ WorkerStep(c) \/ RunThrows(c) => c \in workers
  BY <1>0 DEF HandlerStep, Checkpoint, HandleReturn, HandleThrow,
     WorkerStep, StartRun, RunExpire, TakeEntry, ExpireEntry, Catch, FailEntry, Advance, EndRun,
     RejectRun, RunThrows
<1> HIDE DEF IdleOutside, Blank, IInv
<1> QED
  BY <1>1, <1>2, <1>5, <1>6, <1>7, <1>8, <1>9, <1>10, <1>11, <1>15, <1>16, <1>17, <1>18
  DEF Next, StartAny, PublishGoesOn

\* A worker touches the state of its own consumer only.
LEMMA OthersSame ==
  ASSUME TypeOK, NEW c \in workers, HandlerStep(c) \/ WorkerStep(c) \/ RunThrows(c)
  PROVE  /\ UNCHANGED <<head, rows, known, workers, base>>
         /\ \A d \in Consumers \ {c} :
              /\ cursor'[d] = cursor[d] /\ mem'[d] = mem[d] /\ phase'[d] = phase[d]
              /\ batch'[d] = batch[d] /\ entry'[d] = entry[d] /\ settled'[d] = settled[d]
<1>1. JournalType /\ WorkerType /\ HistoryType
  BY DEF TypeOK
<1>2. CASE HandlerStep(c) \/ RunThrows(c)
  BY <1>1, <1>2 DEF HandlerStep, Checkpoint, HandleReturn, HandleThrow, RunThrows, durable,
                    history, JournalType, WorkerType
<1>3. CASE StartRun(c) \/ Advance(c)
  BY <1>1, <1>3 DEF StartRun, Advance, ReadBatch, durable, history, JournalType, WorkerType
<1>4. CASE RunExpire(c)
  BY <1>1, <1>4 DEF RunExpire, ExpireRows, JournalType, WorkerType, HistoryType
<1>5. ASSUME NEW s \in batch[c], TakeEntry(c, s)
      PROVE  /\ UNCHANGED <<head, rows, known, workers, base, cursor, mem>>
             /\ \A d \in Consumers \ {c} : /\ phase'[d] = phase[d] /\ batch'[d] = batch[d]
                                           /\ entry'[d] = entry[d] /\ settled'[d] = settled[d]
  BY <1>1, <1>5 DEF TakeEntry, durable, WorkerType, HistoryType
<1>6. CASE ExpireEntry(c) \/ Catch(c) \/ FailEntry(c) \/ EndRun(c) \/ RejectRun(c)
  BY <1>1, <1>6 DEF ExpireEntry, Catch, FailEntry, EndRun, RejectRun, Kept, durable, history,
                    WorkerType, HistoryType
<1> QED
  BY <1>2, <1>3, <1>4, <1>5, <1>6 DEF WorkerStep

\* A batch misses no row: readAfter returns a prefix of the rows after a position.
LEMMA ReadAfterPrefix ==
  ASSUME JournalType, NEW after \in Nat, NEW s \in ReadAfter(after),
         NEW r \in rows, after < r, r < s
  PROVE  r \in ReadAfter(after)
<1> DEFINE Upto(n) == {t \in rows : after < t /\ t <= n}
<1>1. rows \subseteq 1 .. MaxSeq /\ MaxSeq \in Nat
  BY Bounds DEF JournalType, Sequence
<1>2. IsFiniteSet(1 .. MaxSeq)
  BY <1>1, FS_Interval
<1>3. IsFiniteSet(Upto(s))
  BY <1>1, <1>2, FS_Subset
<1>4. s \in rows /\ Cardinality(Upto(s)) <= BatchSize
  BY DEF ReadAfter
<1>5. Upto(r) \subseteq Upto(s)
  <2>1. r \in Nat /\ s \in Nat /\ rows \subseteq Nat
    BY <1>1, <1>4
  <2>2. ASSUME NEW t \in rows, t <= r PROVE t <= s
    <3>1. t \in Nat
      BY <2>1
    <3> HIDE DEF Upto
    <3> QED
      BY <2>1, <2>2, <3>1
  <2> QED
    BY <2>2
<1>6. /\ IsFiniteSet(Upto(r)) /\ Cardinality(Upto(r)) <= Cardinality(Upto(s))
  BY <1>3, <1>5, FS_Subset
<1>7. Cardinality(Upto(r)) \in Nat /\ Cardinality(Upto(s)) \in Nat
  BY <1>3, <1>6, FS_CardinalityType
<1>8. Cardinality(Upto(r)) <= BatchSize
  BY <1>4, <1>6, <1>7, BoundsAssumption
<1> QED
  BY <1>8 DEF ReadAfter

\* What a read at the worker's cursor leaves behind.
LEMMA FreshBatch ==
  ASSUME TypeOK, Positions, NEW c \in Consumers, NoRowBetween(c)',
         UNCHANGED <<head, rows>>, TypeOK',
         batch'[c] = ReadAfter(mem'[c]), entry'[c] = 0
  PROVE  BatchIsNext(c)'
<1>1. mem'[c] \in Nat /\ rows \subseteq Nat
  BY Bounds DEF TypeOK, JournalType, WorkerType
<1>2. \A s \in batch'[c] : s \in rows /\ mem'[c] < s
  BY DEF ReadAfter
<1>3. ASSUME NEW s \in batch'[c], NEW r \in rows, mem'[c] < r, r < s
      PROVE  r \in batch'[c]
  <2>1. JournalType
    BY DEF TypeOK
  <2>2. PICK m \in Nat : m = mem'[c]
    BY <1>1
  <2>3. s \in ReadAfter(m) /\ m < r
    BY <1>3, <2>2
  <2>4. r \in ReadAfter(m)
    BY <1>3, <2>1, <2>3, ReadAfterPrefix
  <2> QED
    BY <2>2, <2>4
<1>4. ASSUME NEW s \in batch'[c]
      PROVE  mem'[c] < s /\ 0 < s /\ cursor'[c] <= s /\ s <= head
  <2>1. s \in rows /\ s \in Nat /\ mem'[c] < s
    BY <1>1, <1>2
  <2> QED
    BY <1>1, <2>1 DEF NoRowBetween, Positions
<1> QED
  BY <1>3, <1>4 DEF BatchIsNext

LEMMA Intervals ==
  ASSUME NEW b \in Nat, NEW n \in Nat, NEW e \in Nat, NEW h \in Nat, NEW S,
         b <= n, b < e, e = n \/ e = n + 1, e <= h, Through(S, b, n, h)
  PROVE  Through(S \cup {e}, b, n, h) /\ (e \in S => Through(S, b, e, h))
<1>1. CASE e = n
  <2>1. e \in (b + 1) .. n /\ e \in (b + 1) .. (n + 1)
    BY <1>1
  <2> QED
    BY <1>1, <2>1 DEF Through
<1>2. CASE e = n + 1
  <2>1. e \notin (b + 1) .. n /\ e \in (b + 1) .. (n + 1) /\ n < h
    BY <1>2
  <2>2. ((b + 1) .. n) \cup {e} = (b + 1) .. (n + 1)
    BY <1>2
  <2> QED
    BY <1>2, <2>1, <2>2 DEF Through
<1> QED
  BY <1>1, <1>2

\* Where the entry in hand is, in terms of both cursors.
LEMMA EntryFacts ==
  ASSUME IInv, NEW c \in workers, phase[c] \in Holding
  PROVE  /\ c \in Consumers /\ c \in known
         /\ base[c] < entry[c] /\ entry[c] <= head
         /\ entry[c] = cursor[c] \/ entry[c] = cursor[c] + 1
         /\ base[c] <= cursor[c] /\ base[c] <= mem[c] /\ mem[c] < entry[c]
         /\ base[c] \in Nat /\ cursor[c] \in Nat /\ entry[c] \in Nat /\ head \in Nat
         /\ mem[c] \in Nat
         /\ SettledIsInterval(c)
<1>1. c \in Consumers /\ c \in known
  BY DEF IInv, IdleOutside, TypeOK, BusType
<1>2. /\ base[c] \in Nat /\ cursor[c] \in Nat /\ entry[c] \in Nat /\ head \in Nat
      /\ mem[c] \in Nat
  BY <1>1, Numbers DEF IInv
<1>3. KnownOrder(c) /\ NoRowBetween(c) /\ EntryIsNext(c)
  BY <1>1 DEF IInv, WorkerOrder
<1> QED
  BY <1>1, <1>2, <1>3 DEF KnownOrder, NoRowBetween, EntryIsNext

\* Settling the entry, or moving the persisted cursor to it, keeps what was
\* settled an interval that ends at the cursor or one row beyond.
LEMMA SettleStep ==
  ASSUME IInv, NEW c \in workers, phase[c] \in Holding,
         UNCHANGED <<head, rows, base>>,
         \/ cursor'[c] = cursor[c] /\ settled'[c] = settled[c] \cup {entry[c]}
         \/ cursor'[c] = entry[c] /\ settled'[c] = settled[c] /\ entry[c] \in settled[c]
  PROVE  KnownOrder(c)'
<1>1. /\ Through(settled[c] \cup {entry[c]}, base[c], cursor[c], head)
      /\ entry[c] \in settled[c] => Through(settled[c], base[c], entry[c], head)
  BY EntryFacts, Intervals DEF SettledIsInterval
<1>2. LiveRows(c)
  <2>1. c \in known
    BY EntryFacts
  <2> QED
    BY <2>1 DEF IInv, KnownOrder
<1>3. LiveRows(c)'
  <2>1. cursor'[c] \in Nat /\ cursor[c] <= cursor'[c] /\ cursor[c] \in Nat
    BY EntryFacts
  <2>2. \A s \in 1 .. head : s > cursor'[c] => s > cursor[c]
    BY <2>1, EntryFacts
  <2> QED
    BY <1>2, <2>2 DEF LiveRows
<1>4. SettledIsInterval(c)'
  BY <1>1 DEF SettledIsInterval
<1>5. base'[c] <= cursor'[c]
  BY EntryFacts
<1> QED
  BY <1>3, <1>4, <1>5 DEF KnownOrder

LEMMA SameKnown ==
  ASSUME NEW c \in known, KnownOrder(c), UNCHANGED <<head, rows, base>>,
         cursor'[c] = cursor[c], settled'[c] = settled[c]
  PROVE  KnownOrder(c)'
BY DEF KnownOrder, LiveRows, SettledIsInterval

\* The job at the head of a worker's chain.
LEMMA NextJob ==
  ASSUME IInv, NEW c \in Consumers, tail[c] # << >>
  PROVE  Head(tail[c]).through \in Nat /\ Head(tail[c]).through <= head
<1>1. tail[c] \in Seq(Jobs)
  BY DEF IInv, TypeOK, WorkerType
<1>2. Head(tail[c]).through \in Nat
  BY HeadJob, Bounds DEF IInv, TypeOK
<1>3. Head(tail[c]) = tail[c][1] /\ 1 \in 1 .. Len(tail[c])
  BY <1>1
<1> QED
  BY <1>2, <1>3 DEF IInv, JobsBelowHead

\* Above the persisted cursor no row is missing.
LEMMA RowsToCome ==
  ASSUME TypeOK, NEW c \in Consumers, LiveRows(c), NEW through \in Nat, through <= head
  PROVE  {s \in rows : cursor[c] < s /\ s <= through} = (cursor[c] + 1) .. through
<1>1. cursor[c] \in Nat /\ head \in Nat /\ rows \subseteq Nat
  BY Numbers
<1>2. ASSUME NEW s \in rows, cursor[c] < s, s <= through
      PROVE  s \in (cursor[c] + 1) .. through
  <2>1. s \in Nat /\ cursor[c] \in Nat
    BY <1>1
  <2> QED
    BY <1>2, <2>1
<1>3. ASSUME NEW s \in (cursor[c] + 1) .. through
      PROVE  s \in rows /\ cursor[c] < s /\ s <= through
  <2>1. s \in 1 .. head /\ s > cursor[c] /\ cursor[c] < s /\ s <= through
    BY <1>1
  <2> QED
    BY <2>1 DEF LiveRows
<1> QED
  BY <1>2, <1>3

\* Expiring every row through a position settles exactly the rows in between.
LEMMA ExpireOrder ==
  ASSUME IInv, NEW c \in workers, RunExpire(c)
  PROVE  KnownOrder(c)' /\ WorkerOrder(c)' /\ cursor'[c] <= head
<1>0. /\ c \in Consumers /\ c \in known /\ phase[c] = "idle" /\ batch[c] = {}
      /\ KnownOrder(c) /\ NoRowBetween(c)
  BY DEF IInv, IdleOutside, TypeOK, BusType, WorkerOrder, RunExpire
<1>1. /\ base[c] \in Nat /\ cursor[c] \in Nat /\ head \in Nat /\ mem[c] \in Nat
      /\ rows \subseteq Nat /\ cursor[c] <= head
  BY <1>0, Numbers DEF IInv, Positions
<1>2. UNCHANGED <<head, rows, known, workers, base, phase, batch>>
  BY DEF RunExpire
<1>3. BatchIsNext(c)' /\ EntryIsNext(c)'
  BY <1>0, <1>2 DEF BatchIsNext, EntryIsNext, Holding
<1>4. PICK through \in Nat : through = Head(tail[c]).through /\ through <= head
  BY <1>0, NextJob DEF RunExpire
<1>5. CASE UNCHANGED <<cursor, mem, settled>>
  <2>1. KnownOrder(c)'
    BY <1>0, <1>2, <1>5, SameKnown
  <2>2. NoRowBetween(c)'
    BY <1>0, <1>2, <1>5 DEF NoRowBetween
  <2> QED
    BY <1>1, <1>3, <1>5, <2>1, <2>2 DEF WorkerOrder
<1>6. CASE ExpireRows(c, through)
  <2> DEFINE gone == {s \in rows : cursor[c] < s /\ s <= through}
  <2>1. /\ through > mem[c] /\ mem'[c] = through
        /\ cursor'[c] = IF cursor[c] < through THEN through ELSE cursor[c]
        /\ settled'[c] = settled[c] \cup gone
    BY <1>0, <1>6 DEF ExpireRows, IInv, TypeOK, JournalType, WorkerType, HistoryType
  <2>2. LiveRows(c) /\ Through(settled[c], base[c], cursor[c], head)
    BY <1>0 DEF KnownOrder, SettledIsInterval
  <2>3. LiveRows(c)' /\ base'[c] <= cursor'[c] /\ cursor'[c] <= head
    BY <1>0, <1>1, <1>2, <1>4, <2>1, <2>2 DEF LiveRows, KnownOrder
  <2>4. NoRowBetween(c)'
    <3>1. base'[c] <= mem'[c] /\ mem'[c] <= cursor'[c]
      BY <1>0, <1>1, <1>2, <2>1 DEF NoRowBetween
    <3>2. ASSUME NEW s \in rows, through < s PROVE cursor'[c] <= s
      <4>1. s \in Nat /\ mem[c] < s
        BY <1>1, <2>1, <3>2
      <4>2. cursor[c] <= s
        BY <1>0, <4>1 DEF NoRowBetween
      <4> QED
        BY <1>1, <2>1, <3>2, <4>1, <4>2
    <3> QED
      BY <1>2, <2>1, <3>1, <3>2 DEF NoRowBetween
  <2>5. Through(settled'[c], base[c], cursor'[c], head)
    <3>1. CASE through <= cursor[c]
      <4>1. \A s \in rows : ~(cursor[c] < s /\ s <= through)
        BY <1>1, <3>1
      <4> QED
        BY <1>1, <2>1, <2>2, <3>1, <4>1
    <3>2. CASE cursor[c] < through
      <4>1. gone = (cursor[c] + 1) .. through
        BY <1>0, <1>4, <2>2, RowsToCome DEF IInv
      <4>2. settled'[c] = (base[c] + 1) .. through
        BY <1>0, <1>1, <2>1, <2>2, <3>2, <4>1 DEF Through, KnownOrder
      <4>3. cursor'[c] = through
        BY <2>1, <3>2
      <4> QED
        BY <4>2, <4>3 DEF Through
    <3> QED
      BY <1>1, <1>4, <3>1, <3>2
  <2> QED
    BY <1>2, <1>3, <2>3, <2>4, <2>5 DEF KnownOrder, WorkerOrder, SettledIsInterval
<1> QED
  BY <1>4, <1>5, <1>6 DEF RunExpire

\* A step at the entry in hand that moves no cursor but perhaps the persisted one
\* to the entry: the batch stays the next rows.
LEMMA EntryOrder ==
  ASSUME IInv, NEW c \in workers, phase[c] \in Holding, phase'[c] \in Holding,
         UNCHANGED <<head, rows, base, mem, entry, batch>>,
         \/ /\ cursor'[c] = cursor[c] /\ settled'[c] = settled[c] \cup {entry[c]}
         \/ /\ cursor'[c] = cursor[c] /\ settled'[c] = settled[c]
            /\ phase'[c] \in {"handle", "caught", "advance"} => entry[c] \in settled[c]
         \/ /\ cursor'[c] = entry[c] /\ settled'[c] = settled[c]
            /\ entry[c] \in settled[c]
  PROVE  KnownOrder(c)' /\ WorkerOrder(c)' /\ cursor'[c] <= head
<1>0. c \in known /\ KnownOrder(c) /\ NoRowBetween(c) /\ BatchIsNext(c) /\ EntryIsNext(c)
  BY EntryFacts DEF IInv, WorkerOrder
<1>1. KnownOrder(c)'
  BY <1>0, SettleStep, SameKnown
<1>2. NoRowBetween(c)'
  BY <1>0, EntryFacts DEF NoRowBetween, EntryIsNext
<1>3. BatchIsNext(c)'
  <2>1. batch[c] \subseteq Nat
    BY EntryFacts, Numbers DEF IInv
  <2>2. \A s \in batch[c] : entry[c] < s => entry[c] <= s
    BY <2>1, EntryFacts
  <2> QED
    BY <1>0, <2>2 DEF BatchIsNext
<1>4. EntryIsNext(c)'
  BY <1>0, EntryFacts DEF EntryIsNext
<1>5. cursor'[c] <= head
  BY EntryFacts
<1> QED
  BY <1>1, <1>2, <1>3, <1>4, <1>5 DEF WorkerOrder

\* A step that leaves the worker without an entry and without a batch.
LEMMA EmptyHanded ==
  ASSUME IInv, NEW c \in workers, phase'[c] \notin Holding, batch'[c] = {},
         UNCHANGED <<head, rows, base, mem, cursor, settled>>
  PROVE  KnownOrder(c)' /\ WorkerOrder(c)' /\ cursor'[c] <= head
<1>0. c \in Consumers /\ c \in known /\ KnownOrder(c) /\ NoRowBetween(c) /\ cursor[c] <= head
  BY DEF IInv, IdleOutside, TypeOK, BusType, WorkerOrder, Positions
<1>1. KnownOrder(c)'
  BY <1>0, SameKnown
<1>2. NoRowBetween(c)'
  BY <1>0 DEF NoRowBetween
<1> QED
  BY <1>0, <1>1, <1>2 DEF WorkerOrder, BatchIsNext, EntryIsNext

LEMMA HandlingOrder ==
  ASSUME IInv, NEW c \in workers,
         \/ HandlerStep(c) \/ ExpireEntry(c) \/ Catch(c) \/ FailEntry(c)
         \/ RunThrows(c) \/ EndRun(c) \/ RejectRun(c)
  PROVE  KnownOrder(c)' /\ WorkerOrder(c)' /\ cursor'[c] <= head
<1>0. /\ c \in Consumers /\ EntryIsNext(c) /\ JournalType /\ WorkerType /\ HistoryType
      /\ phase[c] \in {"idle", "ended", "rejected"} => batch[c] = {}
  BY DEF IInv, IdleOutside, TypeOK, BusType, WorkerOrder
<1>1. CASE Checkpoint(c)
  <2>1. phase[c] \in Holding /\ phase'[c] \in Holding /\ entry[c] \in settled[c]
    BY <1>0, <1>1 DEF Checkpoint, Holding, EntryIsNext
  <2>2. cursor'[c] = entry[c]
    BY <1>0, <1>1 DEF Checkpoint, JournalType
  <2>3. UNCHANGED <<head, rows, base, mem, entry, batch, settled>>
    BY <1>1 DEF Checkpoint
  <2> QED
    BY <2>1, <2>2, <2>3, EntryOrder
<1>2. CASE HandleReturn(c) \/ HandleThrow(c) \/ Catch(c)
  <2>1. /\ phase[c] \in Holding /\ phase'[c] \in Holding /\ entry[c] \in settled[c]
        /\ UNCHANGED <<head, rows, base, mem, entry, batch, cursor, settled>>
    BY <1>0, <1>2 DEF HandleReturn, HandleThrow, Catch, durable, history, Holding, EntryIsNext,
                      WorkerType
  <2> QED
    BY <2>1, EntryOrder
<1>3. CASE ExpireEntry(c) \/ FailEntry(c)
  <2>1. /\ phase[c] \in Holding /\ phase'[c] \in Holding
        /\ settled'[c] = settled[c] \cup {entry[c]}
        /\ UNCHANGED <<head, rows, base, mem, entry, batch, cursor>>
    BY <1>0, <1>3 DEF ExpireEntry, FailEntry, Holding, WorkerType, HistoryType
  <2> QED
    BY <2>1, EntryOrder
<1>4. CASE RunThrows(c) \/ EndRun(c) \/ RejectRun(c)
  <2>1. /\ phase'[c] \notin Holding /\ batch'[c] = {}
        /\ UNCHANGED <<head, rows, base, mem, cursor, settled>>
    BY <1>0, <1>4 DEF RunThrows, EndRun, RejectRun, durable, history, Holding, WorkerType
  <2> QED
    BY <2>1, EmptyHanded
<1> QED
  BY <1>1, <1>2, <1>3, <1>4 DEF HandlerStep

\* A run that starts reads on after the worker's cursor.
LEMMA StartRunOrder ==
  ASSUME IInv, TypeOK', NEW c \in workers, StartRun(c)
  PROVE  KnownOrder(c)' /\ WorkerOrder(c)' /\ cursor'[c] <= head
<1>0. /\ c \in Consumers /\ c \in known /\ KnownOrder(c) /\ NoRowBetween(c) /\ entry[c] = 0
      /\ TypeOK /\ WorkerType /\ Positions
  BY DEF IInv, IdleOutside, TypeOK, BusType, WorkerOrder, StartRun, Holding
<1>1. UNCHANGED <<head, rows, base, mem, cursor, settled, entry>>
  BY DEF StartRun, durable, history
<1>2. batch'[c] = ReadAfter(mem'[c]) /\ phase'[c] \notin Holding
  BY <1>0, <1>1 DEF StartRun, ReadBatch, WorkerType, Holding
<1>3. KnownOrder(c)' /\ NoRowBetween(c)'
  BY <1>0, <1>1, SameKnown DEF NoRowBetween
<1>4. BatchIsNext(c)'
  BY <1>0, <1>1, <1>2, <1>3, FreshBatch
<1> QED
  BY <1>0, <1>1, <1>2, <1>3, <1>4 DEF WorkerOrder, EntryIsNext, Positions

\* Moving past the settled entry leaves the rest of the batch, or a fresh one.
LEMMA AdvanceOrder ==
  ASSUME IInv, TypeOK', NEW c \in workers, Advance(c)
  PROVE  KnownOrder(c)' /\ WorkerOrder(c)' /\ cursor'[c] <= head
<1>0. /\ c \in Consumers /\ BatchIsNext(c) /\ EntryIsNext(c)
      /\ phase[c] \in Holding /\ entry[c] \in settled[c]
      /\ TypeOK /\ JournalType /\ WorkerType /\ Positions
  BY DEF IInv, IdleOutside, TypeOK, BusType, WorkerOrder, Advance, Holding, EntryIsNext
<1>1. /\ UNCHANGED <<head, rows, base, settled>>
      /\ cursor'[c] = entry[c] /\ mem'[c] = entry[c] /\ entry'[c] = 0
  BY <1>0 DEF Advance, history, JournalType, WorkerType
<1>2. /\ phase'[c] \notin Holding
      /\ batch'[c] = batch[c] \/ batch'[c] = ReadAfter(entry[c])
  BY <1>0 DEF Advance, ReadBatch, WorkerType, Holding
<1>3. KnownOrder(c)'
  BY <1>0, <1>1, SettleStep
<1>4. /\ base[c] < entry[c] /\ mem[c] < entry[c] /\ entry[c] <= head
      /\ base[c] \in Nat /\ mem[c] \in Nat /\ entry[c] \in Nat /\ rows \subseteq Nat
      /\ batch[c] \subseteq Nat
  BY <1>0, EntryFacts, Numbers
<1>5. NoRowBetween(c)'
  <2>1. \A s \in rows : entry[c] < s => entry[c] <= s
    BY <1>4
  <2> QED
    BY <1>1, <1>4, <2>1 DEF NoRowBetween
<1>6. BatchIsNext(c)'
  <2>1. CASE batch'[c] = ReadAfter(entry[c])
    BY <1>0, <1>1, <1>5, <2>1, FreshBatch
  <2>2. CASE batch'[c] = batch[c]
    <3>1. ASSUME NEW s \in batch[c]
          PROVE  entry[c] < s /\ 0 < s /\ entry[c] <= s /\ s <= head
      <4>1. s \in Nat /\ entry[c] < s /\ s <= head
        BY <1>0, <1>4 DEF BatchIsNext
      <4> QED
        BY <1>4, <4>1
    <3>2. ASSUME NEW s \in batch[c], NEW r \in rows, entry[c] < r, r < s PROVE r \in batch[c]
      <4>1. r \in Nat /\ mem[c] < r /\ r # entry[c]
        BY <1>4, <3>2
      <4> QED
        BY <1>0, <3>2, <4>1 DEF BatchIsNext
    <3> QED
      BY <1>1, <2>2, <3>1, <3>2 DEF BatchIsNext
  <2> QED
    BY <1>2, <2>1, <2>2
<1> QED
  BY <1>1, <1>2, <1>3, <1>4, <1>5, <1>6 DEF WorkerOrder, EntryIsNext

\* The least row of a batch is the next one after the persisted cursor, or the
\* row that cursor is at already.
LEMMA TakeOrder ==
  ASSUME IInv, NEW c \in workers, NEW s \in batch[c], TakeEntry(c, s)
  PROVE  KnownOrder(c)' /\ WorkerOrder(c)' /\ cursor'[c] <= head
<1>0. /\ c \in Consumers /\ c \in known /\ KnownOrder(c) /\ NoRowBetween(c) /\ BatchIsNext(c)
      /\ TypeOK /\ WorkerType /\ HistoryType /\ entry[c] = 0 /\ cursor[c] <= head
  BY DEF IInv, IdleOutside, TypeOK, BusType, WorkerOrder, TakeEntry, Holding, Positions
<1>1. /\ UNCHANGED <<head, rows, base, mem, cursor>>
      /\ batch'[c] = batch[c] \ {s} /\ entry'[c] = s
      /\ \A t \in batch[c] : s <= t
      /\ \/ phase'[c] \in {"expire", "fail"} /\ settled'[c] = settled[c]
         \/ phase'[c] = "handle" /\ settled'[c] = settled[c] \cup {s}
  BY <1>0 DEF TakeEntry, durable, WorkerType, HistoryType
<1>2. /\ base[c] \in Nat /\ cursor[c] \in Nat /\ mem[c] \in Nat /\ head \in Nat
      /\ rows \subseteq Nat /\ batch[c] \subseteq Nat
      /\ base[c] <= mem[c] /\ base[c] <= cursor[c]
  BY <1>0, Numbers DEF KnownOrder, NoRowBetween
<1>3. s \in Nat /\ mem[c] < s /\ cursor[c] <= s /\ s <= head
  BY <1>0, <1>2 DEF BatchIsNext
<1>4. ASSUME NEW r \in rows, mem[c] < r PROVE s <= r
  <2>1. r \in Nat /\ r # 0
    BY <1>2, <1>4
  <2>2. CASE r < s
    <3>1. r \in batch[c]
      BY <1>0, <1>4, <2>1, <2>2 DEF BatchIsNext
    <3> QED
      BY <1>1, <3>1
  <2> QED
    BY <1>3, <2>1, <2>2
<1>5. s = cursor[c] \/ s = cursor[c] + 1
  <2>1. CASE cursor[c] + 1 < s
    <3>1. cursor[c] + 1 \in 1 .. head /\ cursor[c] + 1 > cursor[c]
      BY <1>2, <1>3, <2>1
    <3>2. cursor[c] + 1 \in rows
      BY <1>0, <3>1 DEF KnownOrder, LiveRows
    <3>3. mem[c] < cursor[c] + 1
      BY <1>0, <1>2 DEF NoRowBetween
    <3>4. s <= cursor[c] + 1
      BY <1>4, <3>2, <3>3
    <3> QED
      BY <1>2, <1>3, <2>1, <3>4
  <2> QED
    BY <1>2, <1>3, <2>1
<1>6. KnownOrder(c)'
  <2>1. Through(settled[c], base[c], cursor[c], head)
    BY <1>0 DEF KnownOrder, SettledIsInterval
  <2>2. base[c] < s
    BY <1>2, <1>3
  <2>3. Through(settled[c] \cup {s}, base[c], cursor[c], head)
    BY <1>2, <1>3, <1>5, <2>1, <2>2, Intervals
  <2>4. SettledIsInterval(c)'
    BY <1>1, <2>1, <2>3 DEF SettledIsInterval
  <2> QED
    BY <1>0, <1>1, <2>4 DEF KnownOrder, LiveRows
<1>7. NoRowBetween(c)'
  BY <1>0, <1>1 DEF NoRowBetween
<1>8. BatchIsNext(c)'
  <2>1. ASSUME NEW t \in batch[c] \ {s}
        PROVE  mem[c] < t /\ s < t /\ cursor[c] <= t /\ t <= head
    <3>1. t \in Nat /\ s <= t /\ t # s
      BY <1>1, <1>2
    <3> QED
      BY <1>0, <1>3, <3>1 DEF BatchIsNext
  <2>2. ASSUME NEW t \in batch[c], NEW r \in rows, mem[c] < r, r < t
        PROVE  r \in batch[c] \ {s} \/ r = s
    <3>1. r # 0
      BY <1>2, <2>2
    <3> QED
      BY <1>0, <2>2, <3>1 DEF BatchIsNext
  <2> QED
    BY <1>1, <2>1, <2>2 DEF BatchIsNext
<1>9. EntryIsNext(c)'
  BY <1>1, <1>2, <1>3, <1>4, <1>5 DEF EntryIsNext
<1> QED
  BY <1>0, <1>1, <1>6, <1>7, <1>8, <1>9 DEF WorkerOrder

Ordered ==
  /\ Positions
  /\ \A c \in known : KnownOrder(c)
  /\ \A c \in workers : WorkerOrder(c)

LEMMA WorkerOrderStep ==
  ASSUME IInv, TypeOK', NEW c \in workers, HandlerStep(c) \/ WorkerStep(c) \/ RunThrows(c)
  PROVE  Ordered'
<1>1. KnownOrder(c)' /\ WorkerOrder(c)' /\ cursor'[c] <= head
  BY ExpireOrder, HandlingOrder, StartRunOrder, AdvanceOrder, TakeOrder DEF WorkerStep
<1>2. /\ UNCHANGED <<head, rows, known, workers, base>>
      /\ \A d \in Consumers \ {c} :
           /\ cursor'[d] = cursor[d] /\ mem'[d] = mem[d] /\ phase'[d] = phase[d]
           /\ batch'[d] = batch[d] /\ entry'[d] = entry[d] /\ settled'[d] = settled[d]
  BY OthersSame DEF IInv
<1>3. known \subseteq Consumers /\ workers \subseteq Consumers /\ Positions
  BY DEF IInv, TypeOK, JournalType, BusType
<1>4. ASSUME NEW d \in known PROVE KnownOrder(d)'
  <2>1. KnownOrder(d)
    BY DEF IInv
  <2> QED
    BY <1>1, <1>2, <1>3, <2>1, SameKnown
<1>5. ASSUME NEW d \in workers PROVE WorkerOrder(d)'
  <2>1. WorkerOrder(d)
    BY DEF IInv
  <2>2. CASE d # c
    BY <1>2, <1>3, <2>1, <2>2 DEF WorkerOrder, NoRowBetween, BatchIsNext, EntryIsNext
  <2> QED
    BY <1>1, <2>2
<1>6. Positions'
  BY <1>1, <1>2, <1>3 DEF Positions
<1> QED
  BY <1>2, <1>4, <1>5, <1>6 DEF Ordered

LEMMA StartOrder ==
  ASSUME IInv, TypeOK', NEW reg \in Registrations, NEW old \in SUBSET rows, Start(reg, old)
  PROVE  Ordered'
<1>0. /\ TypeOK /\ Positions /\ workers = {} /\ \A c \in known : KnownOrder(c)
      /\ \A c \in Consumers : Blank(c) /\ entry[c] = 0
  BY DEF IInv, IdleOutside, Blank, Start, Holding
<1>1. /\ reg \subseteq Consumers /\ known' = reg /\ workers' = reg /\ head' = head
      /\ mem' = cursor' /\ rows' \subseteq rows
      /\ \A s \in rows \ rows' : \A c \in reg : s <= cursor'[c]
      /\ \A c \in reg : /\ c \in known => cursor'[c] = cursor[c] /\ base'[c] = base[c]
                                          /\ settled'[c] = settled[c]
                        /\ c \notin known => cursor'[c] = head /\ base'[c] = head
                                             /\ settled'[c] = {}
      /\ \A c \in Consumers \ reg : cursor'[c] = 0
  BY <1>0, StartFacts
<1>2. /\ head \in Nat /\ rows \subseteq Nat
      /\ \A c \in Consumers : cursor[c] \in Nat /\ base[c] \in Nat
      /\ \A c \in Consumers : cursor'[c] \in Nat
  BY <1>0, Numbers, Bounds DEF TypeOK, JournalType
<1>3. Positions'
  <2>1. \A s \in rows : s <= head
    BY <1>0 DEF Positions
  <2>2. ASSUME NEW c \in Consumers PROVE cursor'[c] <= head
    <3>1. cursor[c] <= head
      BY <1>0 DEF Positions
    <3>2. CASE c \in reg
      BY <1>1, <1>2, <3>1, <3>2
    <3>3. CASE c \notin reg
      BY <1>1, <1>2, <3>3
    <3> QED
      BY <3>2, <3>3
  <2> QED
    BY <1>1, <2>1, <2>2 DEF Positions
<1>4. ASSUME NEW c \in reg PROVE KnownOrder(c)' /\ WorkerOrder(c)'
  <2>0. c \in Consumers /\ cursor'[c] \in Nat /\ head' = head
    BY <1>1, <1>2
  <2>1. ASSUME c \in known PROVE KnownOrder(c)'
    <3>1. KnownOrder(c) /\ cursor'[c] = cursor[c] /\ base'[c] = base[c] /\ settled'[c] = settled[c]
      BY <1>0, <1>1, <2>1
    <3>2. ASSUME NEW s \in 1 .. head, s > cursor[c] PROVE s \in rows'
      <4>1. s \in rows /\ ~(s <= cursor'[c])
        BY <2>0, <3>1, <3>2 DEF KnownOrder, LiveRows
      <4> QED
        BY <1>1, <4>1
    <3>3. SettledIsInterval(c)' /\ base'[c] <= cursor'[c]
      BY <2>0, <3>1 DEF KnownOrder, SettledIsInterval
    <3>4. LiveRows(c)'
      BY <2>0, <3>1, <3>2 DEF LiveRows
    <3> QED
      BY <3>3, <3>4 DEF KnownOrder
  <2>2. ASSUME c \notin known PROVE KnownOrder(c)'
    <3>1. cursor'[c] = head /\ base'[c] = head /\ settled'[c] = {}
      BY <1>1, <2>2
    <3>2. Through({}, head, head, head)
      BY <1>2 DEF Through
    <3>3. \A s \in 1 .. head : ~(s > head)
      BY <1>2
    <3>4. LiveRows(c)' /\ SettledIsInterval(c)'
      BY <2>0, <3>1, <3>2, <3>3 DEF LiveRows, SettledIsInterval
    <3>5. base'[c] <= cursor'[c]
      BY <1>2, <3>1
    <3> QED
      BY <3>4, <3>5 DEF KnownOrder
  <2>3. KnownOrder(c)'
    BY <2>1, <2>2
  <2>4. NoRowBetween(c)'
    <3>1. \A s \in rows' : cursor'[c] < s => cursor'[c] <= s
      <4>1. rows' \subseteq Nat
        BY <1>1, <1>2
      <4> QED
        BY <2>0, <4>1
    <3>2. mem'[c] = cursor'[c]
      BY <1>1
    <3> QED
      BY <2>0, <2>3, <3>1, <3>2 DEF NoRowBetween, KnownOrder
  <2>5. BatchIsNext(c)' /\ EntryIsNext(c)'
    BY <1>0, <2>0 DEF Start, Blank, BatchIsNext, EntryIsNext, Holding
  <2> QED
    BY <2>3, <2>4, <2>5 DEF WorkerOrder
<1> QED
  BY <1>1, <1>3, <1>4 DEF Ordered

LEMMA AppendOrder ==
  ASSUME IInv, TypeOK', PublishAppend
  PROVE  Ordered'
<1>0. /\ TypeOK /\ Positions /\ known \subseteq Consumers /\ workers \subseteq Consumers
  BY DEF IInv, TypeOK, JournalType, BusType
<1>1. /\ head' = head + 1 /\ rows' = rows \cup {head + 1}
      /\ UNCHANGED <<known, workers, cursor, base, settled, mem, batch, entry, phase>>
  BY DEF PublishAppend, worker, history
<1>2. /\ head \in Nat /\ rows \subseteq Nat
      /\ \A c \in Consumers : /\ cursor[c] \in Nat /\ cursor[c] <= head
                              /\ entry[c] \in Nat /\ batch[c] \subseteq Nat
  BY <1>0, Numbers DEF Positions
<1>3. Positions'
  BY <1>0, <1>1, <1>2 DEF Positions
<1>4. ASSUME NEW c \in known PROVE KnownOrder(c)'
  <2>1. KnownOrder(c) /\ cursor[c] \in Nat /\ cursor[c] <= head
    BY <1>0, <1>2 DEF IInv
  <2>2. LiveRows(c)'
    <3>1. \A s \in 1 .. (head + 1) : s \in 1 .. head \/ s = head + 1
      BY <1>2
    <3> QED
      BY <1>1, <2>1, <3>1 DEF KnownOrder, LiveRows
  <2>3. SettledIsInterval(c)'
    <3>1. cursor[c] < head + 1
      BY <1>2, <2>1
    <3> QED
      BY <1>1, <2>1, <3>1 DEF KnownOrder, SettledIsInterval, Through
  <2> QED
    BY <1>1, <2>1, <2>2, <2>3 DEF KnownOrder
<1>5. ASSUME NEW c \in workers PROVE WorkerOrder(c)'
  <2>0. c \in Consumers /\ cursor[c] \in Nat /\ cursor[c] <= head /\ entry[c] \in Nat
    BY <1>0, <1>2
  <2>1. NoRowBetween(c) /\ BatchIsNext(c) /\ EntryIsNext(c)
    BY DEF IInv, WorkerOrder
  <2>2. NoRowBetween(c)'
    BY <1>1, <1>2, <2>0, <2>1 DEF NoRowBetween
  <2>3. BatchIsNext(c)'
    <3>1. ASSUME NEW s \in batch[c]
          PROVE  s \in Nat /\ s <= head /\ s <= head + 1 /\ ~(head + 1 < s)
      BY <1>2, <2>0, <2>1 DEF BatchIsNext
    <3> QED
      BY <1>1, <2>1, <3>1 DEF BatchIsNext
  <2>4. EntryIsNext(c)'
    BY <1>1, <1>2, <2>0, <2>1 DEF EntryIsNext
  <2> QED
    BY <2>2, <2>3, <2>4 DEF WorkerOrder
<1> QED
  BY <1>1, <1>3, <1>4, <1>5 DEF Ordered

LEMMA PruneOrder ==
  ASSUME IInv, NEW old \in SUBSET rows, Prune(old)
  PROVE  Ordered'
<1>0. /\ TypeOK /\ Positions /\ known \subseteq Consumers /\ workers \subseteq Consumers
  BY DEF IInv, TypeOK, JournalType, BusType
<1>1. /\ UNCHANGED <<head, known, workers, cursor, base, settled, mem, batch, entry, phase>>
      /\ rows' \subseteq rows
      /\ \A s \in rows \ rows' : \A c \in known : s <= cursor[c]
  BY DEF Prune, Prunable, worker, history
<1>2. Positions'
  BY <1>0, <1>1 DEF Positions
<1>3. ASSUME NEW c \in known PROVE KnownOrder(c)'
  <2>1. KnownOrder(c) /\ cursor[c] \in Nat
    BY <1>0, Numbers DEF IInv
  <2>2. ASSUME NEW s \in 1 .. head, s > cursor[c] PROVE s \in rows'
    <3>1. s \in rows /\ ~(s <= cursor[c])
      BY <2>1, <2>2 DEF KnownOrder, LiveRows
    <3> QED
      BY <1>1, <3>1
  <2> QED
    BY <1>1, <2>1, <2>2 DEF KnownOrder, LiveRows, SettledIsInterval
<1>4. ASSUME NEW c \in workers PROVE WorkerOrder(c)'
  <2>1. WorkerOrder(c)
    BY DEF IInv
  <2> QED
    BY <1>1, <2>1 DEF WorkerOrder, NoRowBetween, BatchIsNext, EntryIsNext
<1> QED
  BY <1>1, <1>2, <1>3, <1>4 DEF Ordered

LEMMA OrderStep ==
  ASSUME IInv, [Next]_vars, TypeOK'
  PROVE  Ordered'
<1>1. CASE UNCHANGED core
  BY <1>1 DEF IInv, core, Ordered, Positions, KnownOrder, LiveRows, SettledIsInterval, WorkerOrder,
              NoRowBetween, BatchIsNext, EntryIsNext
<1>2. CASE Crash
  <2>1. workers' = {} /\ UNCHANGED <<head, rows, known, cursor, base, settled>>
    BY <1>2 DEF Crash, durable, history
  <2> QED
    BY <2>1 DEF IInv, Ordered, Positions, KnownOrder, LiveRows, SettledIsInterval
<1> QED
  BY <1>1, <1>2, StepCases, StartOrder, AppendOrder, PruneOrder, WorkerOrderStep

LEMMA AppendBelow ==
  ASSUME NEW q \in Seq(Jobs), NEW j \in Jobs, NEW h,
         j.through <= h, \A i \in 1 .. Len(q) : q[i].through <= h
  PROVE  \A i \in 1 .. Len(Append(q, j)) : Append(q, j)[i].through <= h
<1>1. /\ Len(Append(q, j)) = Len(q) + 1
      /\ \A i \in 1 .. Len(q) : Append(q, j)[i] = q[i]
      /\ Append(q, j)[Len(q) + 1] = j
  BY AppendProperties
<1>2. Len(q) \in Nat
  OBVIOUS
<1>3. \A i \in 1 .. (Len(q) + 1) : i \in 1 .. Len(q) \/ i = Len(q) + 1
  BY <1>2
<1> QED
  BY <1>1, <1>3

LEMMA TailBelow ==
  ASSUME NEW q \in Seq(Jobs), q # << >>, NEW h, \A i \in 1 .. Len(q) : q[i].through <= h
  PROVE  \A i \in 1 .. Len(Tail(q)) : Tail(q)[i].through <= h
<1>1. /\ Len(Tail(q)) = Len(q) - 1
      /\ \A i \in 1 .. Len(Tail(q)) : Tail(q)[i] = q[i + 1]
  BY HeadTailProperties
<1>2. Len(q) \in Nat
  OBVIOUS
<1>3. \A i \in 1 .. Len(Tail(q)) : i + 1 \in 1 .. Len(q)
  BY <1>1, <1>2
<1> QED
  BY <1>1, <1>3

LEMMA JobsStep ==
  ASSUME IInv, [Next]_vars, TypeOK'
  PROVE  JobsBelowHead'
<1> DEFINE Below(q, h) == \A i \in 1 .. Len(q) : q[i].through <= h
<1>0. /\ TypeOK /\ WorkerType /\ head \in Nat /\ JobsBelowHead
      /\ \A c \in Consumers : tail[c] \in Seq(Jobs) /\ Below(tail[c], head)
  BY Numbers DEF IInv, TypeOK, WorkerType, JobsBelowHead
<1>1. ASSUME NEW c \in Consumers PROVE Below(Drained(c), head)
  <2>1. DrainJob \in Jobs /\ DrainJob.through = 0
    BY Bounds DEF DrainJob, Jobs
  <2>2. Below(Append(tail[c], DrainJob), head)
    BY <1>0, <2>1, AppendBelow
  <2> QED
    BY <1>0, <2>2 DEF Drained
<1>2. ASSUME NEW c \in Consumers, tail[c] # << >> PROVE Below(Tail(tail[c]), head)
  BY <1>0, <1>2, TailBelow
<1>3. ASSUME NEW c \in Consumers
      PROVE  Below(Append(tail[c], [kind |-> "expire", through |-> head]), head)
  <2>1. [kind |-> "expire", through |-> head] \in Jobs
    BY <1>0 DEF TypeOK, JournalType, Jobs
  <2> QED
    BY <1>0, <2>1, AppendBelow
<1> HIDE DEF Below
<1>4. ASSUME head' = head, \A c \in Consumers : Below(tail'[c], head) PROVE JobsBelowHead'
  BY <1>4 DEF JobsBelowHead, Below
<1>5. CASE PublishAppend
  <2>1. head' = head + 1 /\ tail' = tail
    BY <1>5 DEF PublishAppend, worker
  <2>2. ASSUME NEW c \in Consumers, NEW i \in 1 .. Len(tail[c])
        PROVE  tail[c][i].through <= head + 1
    <3>1. tail[c][i] \in Jobs /\ tail[c][i].through <= head
      BY <1>0, <2>2 DEF JobsBelowHead
    <3>2. tail[c][i].through \in Nat
      BY <3>1, Bounds DEF Jobs
    <3> QED
      BY <1>0, <3>1, <3>2
  <2> QED
    BY <2>1, <2>2 DEF JobsBelowHead
<1>6. CASE Crash
  <2>1. head' = head /\ tail' = [c \in Consumers |-> << >>]
    BY <1>6 DEF Crash, durable
  <2>2. Below(<< >>, head)
    BY DEF Below
  <2> QED
    BY <1>4, <2>1, <2>2
<1>7. ASSUME NEW k, DrainAll(k) PROVE JobsBelowHead'
  BY <1>0, <1>1, <1>4, <1>7 DEF DrainAll, durable
<1>8. CASE ExpirePending
  BY <1>0, <1>3, <1>4, <1>8 DEF ExpirePending, durable
<1>9. ASSUME NEW c \in Consumers, Recheck(c) \/ ManualStep(c) PROVE JobsBelowHead'
  <2>1. head' = head /\ (tail' = tail \/ tail' = [tail EXCEPT ![c] = Drained(c)])
    BY <1>9 DEF Recheck, RecheckDrain, ManualStep, ManualDrain, ManualDone, ManualFailed, durable,
                worker
  <2>2. CASE tail' = tail
    BY <1>0, <1>4, <2>1, <2>2
  <2>3. CASE tail' = [tail EXCEPT ![c] = Drained(c)]
    <3>1. tail'[c] = Drained(c) /\ \A d \in Consumers \ {c} : tail'[d] = tail[d]
      BY <1>0, <2>3 DEF WorkerType
    <3> QED
      BY <1>0, <1>1, <1>4, <2>1, <3>1
  <2> QED
    BY <2>1, <2>2, <2>3
<1>10. ASSUME NEW c \in Consumers, RunExpire(c) \/ EndRun(c) \/ RejectRun(c) PROVE JobsBelowHead'
  <2>1. tail[c] # << >>
    BY <1>0, <1>10 DEF RunExpire, EndRun, RejectRun, WorkerType
  <2>2. head' = head /\ tail' = [tail EXCEPT ![c] = Tail(tail[c])]
    BY <1>10 DEF RunExpire, EndRun, RejectRun, durable
  <2> QED
    BY <1>0, <1>2, <1>4, <2>1, <2>2
<1>11. CASE UNCHANGED <<head, tail>>
  BY <1>0, <1>4, <1>11
<1> QED
  BY <1>5, <1>6, <1>7, <1>8, <1>9, <1>10, <1>11
  DEF Next, vars, StartAny, Start, PublishGoesOn, PublishDrain, PublishManual, Resume, Prune,
      HandlerStep, Checkpoint, HandleReturn, HandleThrow, WorkerStep, StartRun, TakeEntry,
      ExpireEntry, Catch, FailEntry, Advance, RunThrows, Quiescent, durable, worker

\* Whoever waits for a worker is moved on by the end of its run only, and a caller
\* that stops waiting without an error has seen the cursor at its target.
LEMMA WaitStep ==
  ASSUME IInv, [Next]_vars, TypeOK'
  PROVE  PublishWaits'
<1> DEFINE Waits(k, c) == k \in waiting[c] \cup woken[c] \cup gaveUp[c]
<1>0. /\ TypeOK /\ BusType /\ workers \subseteq Consumers /\ known \subseteq Consumers
      /\ called \subseteq Callers
      /\ \A k \in called : \A c \in workers : Waits(k, c) \/ cursor[c] >= target[k]
      /\ \A c \in workers : c \in known
  BY DEF IInv, IdleOutside, TypeOK, JournalType, BusType, PublishWaits
<1>1. \A c \in Consumers : cursor[c] \in Nat /\ cursor'[c] \in Nat
  BY Bounds DEF IInv, TypeOK, JournalType
<1>2. \A k \in Callers : target[k] \in Nat
  BY <1>0, Bounds DEF BusType
<1>3. ASSUME UNCHANGED <<workers, known, called, target>>,
             \A c \in workers : \A k \in called : Waits(k, c) => Waits(k, c)' \/ cursor[c] >= target[k]
      PROVE  PublishWaits'
  <2>1. \A c \in workers : cursor'[c] >= cursor[c]
    BY <1>0, <1>3, CursorUp
  <2>2. ASSUME NEW k \in called, NEW c \in workers
        PROVE  Waits(k, c)' \/ cursor'[c] >= target[k]
    <3>1. cursor[c] \in Nat /\ cursor'[c] \in Nat /\ target[k] \in Nat
      BY <1>0, <1>1, <1>2
    <3>2. Waits(k, c)' \/ cursor[c] >= target[k]
      BY <1>0, <1>3
    <3> QED
      BY <2>1, <3>1, <3>2
  <2> QED
    BY <1>3, <2>2 DEF PublishWaits
<1>4. ASSUME called' = {} PROVE PublishWaits'
  BY <1>4 DEF PublishWaits
<1>5. ASSUME NEW k \in Callers, DrainAll(k) PROVE PublishWaits'
  <2>1. /\ called' = called \cup {k} /\ target' = [target EXCEPT ![k] = head]
        /\ UNCHANGED <<workers, woken, gaveUp, cursor>>
        /\ \A c \in workers : waiting'[c] = waiting[c] \cup {k}
    BY <1>0, <1>5 DEF DrainAll, durable
  <2>2. ASSUME NEW j \in called', NEW c \in workers
        PROVE  Waits(j, c)' \/ cursor[c] >= target'[j]
    <3>1. CASE j = k
      BY <2>1, <3>1
    <3>2. CASE j # k
      <4>1. j \in called /\ target'[j] = target[j]
        BY <1>0, <2>1, <3>2 DEF BusType
      <4> QED
        BY <1>0, <2>1, <4>1
    <3> QED
      BY <3>1, <3>2
  <2> QED
    BY <2>1, <2>2 DEF PublishWaits
<1>6. ASSUME NEW c \in Consumers, Recheck(c) PROVE PublishWaits'
  <2>1. PICK k \in woken[c] : RecheckDrain(c, k)
    BY <1>6 DEF Recheck
  <2>2. /\ UNCHANGED <<workers, known, called, target, gaveUp>>
        /\ woken' = [woken EXCEPT ![c] = @ \ {k}]
        /\ \/ waiting' = [waiting EXCEPT ![c] = @ \cup {k}]
           \/ waiting' = waiting /\ ~MustDrainAgain(c, k)
    BY <2>1 DEF RecheckDrain, durable
  <2>3. ~MustDrainAgain(c, k) => cursor[c] >= target[k]
    <3>1. k \in Callers
      BY <1>0 DEF BusType
    <3> QED
      BY <1>1, <1>2, <3>1 DEF MustDrainAgain
  <2>4. \A d \in workers : \A j \in called : Waits(j, d) => Waits(j, d)' \/ cursor[d] >= target[j]
    BY <1>0, <2>2, <2>3 DEF BusType
  <2> QED
    BY <1>3, <2>2, <2>4
<1>7. ASSUME NEW c \in Consumers, EndRun(c) \/ RejectRun(c) PROVE PublishWaits'
  <2>1. UNCHANGED <<workers, known, called, target>>
    BY <1>7 DEF EndRun, RejectRun, durable, Kept
  <2>2. \A d \in workers : \A j \in called : Waits(j, d) => Waits(j, d)'
    BY <1>0, <1>7 DEF EndRun, RejectRun, BusType
  <2> QED
    BY <1>3, <2>1, <2>2
<1>8. CASE UNCHANGED <<workers, known, called, target, waiting, woken, gaveUp>>
  BY <1>3, <1>8
<1>9. CASE Crash
  BY <1>4, <1>9 DEF Crash
<1>10. CASE StartAny
  <2>1. called' = {}
    BY <1>10 DEF StartAny, Start, callers, IInv, IdleOutside
  <2> QED
    BY <1>4, <2>1
<1>11. ASSUME NEW k \in calling, PublishDrain(k) PROVE PublishWaits'
  <2>1. k \in Callers /\ DrainAll(k)
    BY <1>0, <1>11, Bounds DEF BusType, PublishDrain
  <2> QED
    BY <1>5, <2>1
<1>12. CASE Resume
  BY <1>5, <1>12, Bounds DEF Resume
<1> HIDE DEF Waits
<1> QED
  BY <1>6, <1>7, <1>8, <1>9, <1>10, <1>11, <1>12
  DEF Next, vars, PublishAppend, PublishGoesOn, PublishManual, ExpirePending, Prune,
      ManualStep, ManualDrain, ManualDone, ManualFailed,
      HandlerStep, Checkpoint, HandleReturn, HandleThrow, WorkerStep, StartRun, RunExpire,
      TakeEntry, ExpireEntry, Catch, FailEntry, Advance, RunThrows, Quiescent, durable, callers

-----------------------------------------------------------------------------
(* The theorems *)

LEMMA InitInv == Init => IInv
<1> SUFFICES ASSUME Init PROVE IInv
  OBVIOUS
<1>1. TypeOK
  BY InitType
<1>2. IdleOutside
  BY DEF Init, IdleOutside, Blank, Nobody, Nowhere, Holding
<1>3. Positions
  BY DEF Init, Positions, Nowhere
<1>4. JobsBelowHead
  BY DEF Init, JobsBelowHead
<1>5. PublishWaits
  BY DEF Init, PublishWaits
<1> QED
  BY <1>1, <1>2, <1>3, <1>4, <1>5 DEF IInv, Init

LEMMA NextInv == IInv /\ [Next]_vars => IInv'
<1> SUFFICES ASSUME IInv, [Next]_vars PROVE IInv'
  OBVIOUS
<1>1. TypeOK'
  BY JournalStep, BusStep, WorkerTypeStep, HistoryStep DEF IInv, TypeOK
<1>2. IdleOutside' /\ Ordered' /\ JobsBelowHead' /\ PublishWaits'
  BY <1>1, IdleStep, OrderStep, JobsStep, WaitStep
<1> QED
  BY <1>1, <1>2 DEF IInv, Ordered

THEOREM Invariance == Spec => []IInv
BY InitInv, NextInv, PTL DEF Spec

\* For every set of consumers and builds, every batch size and retention, and any
\* number of rows, crashes, restores and failing journal statements: no consumer
\* misses a row, gets one out of order, or gets one from before its registration.
THEOREM InOrder == Spec => []DeliveredInOrder
<1>1. IInv => DeliveredInOrder
  <2> SUFFICES ASSUME IInv, NEW c \in known
               PROVE  \E n \in cursor[c] .. cursor[c] + 1 : settled[c] = (base[c] + 1) .. n
    BY DEF DeliveredInOrder
  <2>1. KnownOrder(c) /\ cursor[c] \in Nat
    BY Numbers DEF IInv, TypeOK, JournalType
  <2>2. \/ settled[c] = (base[c] + 1) .. cursor[c]
        \/ settled[c] = (base[c] + 1) .. (cursor[c] + 1)
    BY <2>1 DEF KnownOrder, SettledIsInterval, Through
  <2>3. cursor[c] \in cursor[c] .. cursor[c] + 1 /\ cursor[c] + 1 \in cursor[c] .. cursor[c] + 1
    BY <2>1
  <2> QED
    BY <2>2, <2>3
<1> QED
  BY <1>1, Invariance, PTL

\* publish() and resume() never stop waiting for a worker that reported no error
\* before its persisted cursor is at the head they saw.
THEOREM WaitsForDelivery == Spec => []PublishWaits
<1>1. IInv => PublishWaits
  BY DEF IInv
<1> QED
  BY <1>1, Invariance, PTL

\* The persisted cursor of a consumer that stays registered never moves back, so no
\* restart rereads the journal from an earlier place.
THEOREM CursorNeverMovesBack == Spec => CursorMonotone
<1>1. IInv /\ [Next]_vars => [\A c \in known \cap known' : cursor'[c] >= cursor[c]]_vars
  BY CursorUp
<1> QED
  BY <1>1, Invariance, PTL DEF Spec, CursorMonotone

-----------------------------------------------------------------------------
(* The bus implements BusDelivery *)

LEMMA DeliveryInit == Init => Delivery!Init
BY DEF Init, Nobody, Nowhere, Delivery!Init

LEMMA EnrolStep ==
  ASSUME IInv, NEW reg \in Registrations, NEW old \in SUBSET rows, Start(reg, old)
  PROVE  Delivery!Next
<1>1. reg \in SUBSET Consumers
  BY ConsumersAssumption
<1>2. Delivery!Enrol(reg)
  BY DEF Start, StartCursors, Delivery!Enrol
<1> QED
  BY <1>1, <1>2 DEF Delivery!Next

\* The abstract variables a worker's step leaves alone.
LEMMA GiveStep ==
  ASSUME IInv, NEW c \in workers, NEW s \in Nat, s = cursor[c] \/ s = cursor[c] + 1,
         base[c] < s, s <= head,
         settled' = [settled EXCEPT ![c] = @ \cup {s}],
         UNCHANGED <<head, known, base, cursor>>
  PROVE  [Delivery!Next]_Delivery!vars
<1>0. c \in Consumers /\ c \in known /\ cursor[c] \in Nat /\ head \in Nat /\ base[c] \in Nat
  BY Numbers DEF IInv, IdleOutside, TypeOK, BusType
<1>1. CASE s = cursor[c] + 1
  <2>1. cursor[c] < head
    BY <1>0, <1>1
  <2>2. Delivery!Give(c)
    BY <1>0, <1>1, <2>1 DEF Delivery!Give
  <2> QED
    BY <1>0, <2>2 DEF Delivery!Next
<1>2. CASE s = cursor[c]
  <2>1. Through(settled[c], base[c], cursor[c], head)
    BY <1>0 DEF IInv, KnownOrder, SettledIsInterval
  <2>2. s \in settled[c]
    <3>1. s \in (base[c] + 1) .. s /\ s \in (base[c] + 1) .. (s + 1)
      BY <1>0
    <3> QED
      BY <1>2, <2>1, <3>1 DEF Through
  <2>3. settled' = settled
    BY <1>0, <2>2 DEF IInv, TypeOK, HistoryType
  <2> QED
    BY <2>3 DEF Delivery!vars
<1> QED
  BY <1>1, <1>2

LEMMA ConfirmStep ==
  ASSUME IInv, NEW c \in workers, phase[c] \in Holding, entry[c] \in settled[c],
         cursor' = [cursor EXCEPT ![c] = entry[c]],
         UNCHANGED <<head, known, base, settled>>
  PROVE  [Delivery!Next]_Delivery!vars
<1>0. c \in Consumers /\ c \in known /\ (entry[c] = cursor[c] \/ entry[c] = cursor[c] + 1)
  BY EntryFacts
<1>1. CASE entry[c] = cursor[c] + 1
  <2>1. Delivery!Confirm(c)
    BY <1>0, <1>1 DEF Delivery!Confirm
  <2> QED
    BY <1>0, <2>1 DEF Delivery!Next
<1>2. CASE entry[c] = cursor[c]
  <2>1. cursor' = cursor
    BY <1>0, <1>2 DEF IInv, TypeOK, JournalType
  <2> QED
    BY <2>1 DEF Delivery!vars
<1> QED
  BY <1>0, <1>1, <1>2

LEMMA WriteOffStep ==
  ASSUME IInv, NEW c \in workers, RunExpire(c)
  PROVE  [Delivery!Next]_Delivery!vars
<1>0. /\ c \in Consumers /\ c \in known /\ TypeOK /\ LiveRows(c)
      /\ cursor[c] \in Nat /\ head \in Nat
      /\ cursor \in [Consumers -> Position] /\ settled \in [Consumers -> SUBSET Sequence]
  BY Numbers DEF IInv, IdleOutside, TypeOK, BusType, KnownOrder, JournalType, HistoryType
<1>1. UNCHANGED <<head, known, base>>
  BY DEF RunExpire
<1>2. PICK through \in Nat : through = Head(tail[c]).through /\ through <= head
  BY <1>0, NextJob DEF RunExpire
<1>3. CASE UNCHANGED <<cursor, settled>>
  BY <1>1, <1>3 DEF Delivery!vars
<1>4. CASE ExpireRows(c, through)
  <2> DEFINE gone == {s \in rows : cursor[c] < s /\ s <= through}
  <2>1. /\ cursor' = [cursor EXCEPT ![c] = IF @ < through THEN through ELSE @]
        /\ settled' = [settled EXCEPT ![c] = @ \cup gone]
    BY <1>4 DEF ExpireRows
  <2>2. gone = (cursor[c] + 1) .. through
    BY <1>0, <1>2, RowsToCome
  <2> HIDE DEF gone
  <2>3. CASE cursor[c] < through
    <3>1. through \in cursor[c] + 1 .. head
      BY <1>0, <1>2, <2>3
    <3>2. Delivery!WriteOff(c, through)
      BY <1>0, <1>1, <2>1, <2>2, <2>3 DEF Delivery!WriteOff
    <3> QED
      BY <1>0, <3>1, <3>2 DEF Delivery!Next
  <2>4. CASE ~(cursor[c] < through)
    <3>1. (cursor[c] + 1) .. through = {}
      BY <1>0, <2>4
    <3>2. settled' = settled /\ cursor' = cursor
      BY <1>0, <2>1, <2>2, <2>4, <3>1
    <3> QED
      BY <1>1, <3>2 DEF Delivery!vars
  <2> QED
    BY <2>3, <2>4
<1> QED
  BY <1>2, <1>3, <1>4 DEF RunExpire

LEMMA DeliveryStep == IInv /\ IInv' /\ [Next]_vars => [Delivery!Next]_Delivery!vars
<1> SUFFICES ASSUME IInv, IInv', [Next]_vars PROVE [Delivery!Next]_Delivery!vars
  OBVIOUS
<1>0. JournalType /\ WorkerType /\ HistoryType /\ workers \subseteq Consumers
  BY DEF IInv, TypeOK, BusType
<1>1. CASE UNCHANGED <<head, known, base, settled, cursor>>
  BY <1>1 DEF Delivery!vars
<1>2. CASE PublishAppend
  BY <1>2 DEF PublishAppend, history, Delivery!Accept, Delivery!Next
<1>3. ASSUME NEW c \in workers, Checkpoint(c) \/ Advance(c)
      PROVE  [Delivery!Next]_Delivery!vars
  <2>1. phase[c] \in Holding /\ entry[c] \in settled[c]
    BY <1>3 DEF IInv, WorkerOrder, EntryIsNext, Checkpoint, Advance, Holding
  <2>2. /\ cursor' = [cursor EXCEPT ![c] = entry[c]]
        /\ UNCHANGED <<head, known, base, settled>>
    BY <1>3 DEF Checkpoint, Advance, history
  <2> QED
    BY <2>1, <2>2, ConfirmStep
<1>4. ASSUME NEW c \in workers, ExpireEntry(c) \/ FailEntry(c)
      PROVE  [Delivery!Next]_Delivery!vars
  <2>1. phase[c] \in Holding
    BY <1>4 DEF ExpireEntry, FailEntry, Holding
  <2>2. /\ settled' = [settled EXCEPT ![c] = @ \cup {entry[c]}]
        /\ UNCHANGED <<head, known, base, cursor>>
    BY <1>4 DEF ExpireEntry, FailEntry
  <2> QED
    BY <2>1, <2>2, EntryFacts, GiveStep
<1>5. ASSUME NEW c \in workers, NEW s \in batch[c], TakeEntry(c, s)
      PROVE  [Delivery!Next]_Delivery!vars
  <2>1. UNCHANGED <<head, known, base, cursor, mem, workers>>
    BY <1>5 DEF TakeEntry, durable
  <2>2. \/ settled' = settled
        \/ /\ settled' = [settled EXCEPT ![c] = @ \cup {s}]
           /\ entry'[c] = s /\ phase'[c] \in Holding
    BY <1>0, <1>5 DEF TakeEntry, WorkerType, Holding
  <2>3. CASE phase'[c] \in Holding /\ entry'[c] = s
    <3>1. WorkerOrder(c)'
      BY <2>1 DEF IInv
    <3>2. /\ mem[c] < s /\ cursor[c] <= s /\ s <= cursor[c] + 1 /\ s <= head
          /\ base[c] <= mem[c]
      BY <2>1, <2>3, <3>1 DEF WorkerOrder, EntryIsNext, NoRowBetween
    <3>3. mem[c] \in Nat /\ cursor[c] \in Nat /\ base[c] \in Nat /\ s \in Nat
      BY <1>0, Numbers DEF IInv
    <3>4. base[c] < s /\ (s = cursor[c] \/ s = cursor[c] + 1)
      BY <3>2, <3>3
    <3> QED
      BY <1>1, <2>1, <2>2, <3>2, <3>3, <3>4, GiveStep
  <2> QED
    BY <1>1, <2>1, <2>2, <2>3
<1>6. ASSUME NEW c \in workers, RunExpire(c) PROVE [Delivery!Next]_Delivery!vars
  BY <1>6, WriteOffStep
<1>7. ASSUME NEW reg \in Registrations, NEW old \in SUBSET rows, Start(reg, old)
      PROVE  Delivery!Next
  BY <1>7, EnrolStep
<1> QED
  BY <1>1, <1>2, <1>3, <1>4, <1>5, <1>6, <1>7, StepCases
  DEF core, Prune, HandlerStep, HandleReturn, HandleThrow, WorkerStep, StartRun, Catch, EndRun,
      RejectRun, RunThrows, Crash, durable, history

\* The bus with its batches, retries, crashes, restores and retention is, seen from
\* its tables, the in-order delivery of BusDelivery: it confirms one event at a time,
\* the one after the last, and only an event it gave or wrote off.
THEOREM ImplementsDelivery == Spec => DeliverySpec
  BY DeliveryInit, DeliveryStep, InitInv, NextInv, PTL DEF Spec, DeliverySpec, Delivery!Spec

-----------------------------------------------------------------------------
(* What diagnostics report as admitted was accepted *)

\* A row that is gone took its outcomes along.
OutcomesHaveRows ==
  \A c \in Consumers : \A s \in Sequence \ rows : outcome[c][s] = "none"

\* A row is reported as admitted by its outcome, or because the cursor passed it.
HonestAt(c, s) ==
  outcome[c][s] = "admitted" \/ (outcome[c][s] = "none" /\ s <= cursor[c]) => s \in accepted[c]
HonestRows == \A c \in known : \A s \in rows : s > base[c] => HonestAt(c, s)

\* Only a committed checkpoint takes the persisted cursor past the worker's.
CommitAccepted(c) == mem[c] < cursor[c] => cursor[c] \in accepted[c]

\* A row the worker is about to leave has its outcome or was accepted.
LeavesTrace(c) ==
  phase[c] = "advance" /\ entry[c] \in rows =>
    outcome[c][entry[c]] # "none" \/ entry[c] \in accepted[c]

HonestInv ==
  /\ OutcomesHaveRows /\ HonestRows
  /\ \A c \in workers : CommitAccepted(c) /\ LeavesTrace(c)

\* A worker records, accepts and commits for its own consumer only.
LEMMA OthersKeep ==
  ASSUME TypeOK, NEW c \in workers, HandlerStep(c) \/ WorkerStep(c) \/ RunThrows(c),
         NEW d \in Consumers \ {c}
  PROVE  /\ outcome'[d] = outcome[d] /\ accepted'[d] = accepted[d] /\ applied'[d] = applied[d]
         /\ (d \in committed' <=> d \in committed)
<1>1. JournalType /\ WorkerType /\ HistoryType
  BY DEF TypeOK
<1>2. CASE HandlerStep(c) \/ RunThrows(c)
  BY <1>1, <1>2 DEF HandlerStep, Checkpoint, HandleReturn, HandleThrow, RunThrows, durable,
                    history, Recorded, JournalType, HistoryType
<1>3. CASE StartRun(c) \/ Advance(c)
  BY <1>1, <1>3 DEF StartRun, Advance, durable, history
<1>4. CASE RunExpire(c)
  BY <1>1, <1>4 DEF RunExpire, ExpireRows, JournalType
<1>5. CASE \E s \in batch[c] : TakeEntry(c, s)
  BY <1>5 DEF TakeEntry, durable
<1>6. CASE ExpireEntry(c) \/ Catch(c) \/ FailEntry(c) \/ EndRun(c) \/ RejectRun(c)
  BY <1>1, <1>6 DEF ExpireEntry, Catch, FailEntry, EndRun, RejectRun, Kept, durable, history,
                    Recorded, JournalType
<1> QED
  BY <1>2, <1>3, <1>4, <1>5, <1>6 DEF WorkerStep

\* What recording an outcome does to the outcomes of its consumer.
LEMMA RecordedAt ==
  ASSUME JournalType, NEW c \in Consumers, NEW e \in Sequence, NEW what \in Outcomes,
         NEW s \in Sequence
  PROVE  /\ s # e => Recorded(c, e, what)[c][s] = outcome[c][s]
         /\ e \in rows => Recorded(c, e, what)[c][e] = what
         /\ e \notin rows => Recorded(c, e, what)[c][s] = outcome[c][s]
BY DEF Recorded, JournalType

\* What a step of a worker does to what is reported of its consumer, and to what
\* its handler accepted.
Untouched(c) ==
  /\ outcome'[c] = outcome[c] /\ accepted'[c] = accepted[c]
  /\ cursor'[c] = cursor[c] /\ mem'[c] = mem[c] /\ phase'[c] # "advance"

Noted(c, what) ==
  /\ outcome' = Recorded(c, entry[c], what) /\ phase'[c] = "advance"
  /\ cursor'[c] = cursor[c] /\ mem'[c] = mem[c] /\ entry'[c] = entry[c]

\* The ways a worker's step can go, seen from there.
LEMMA WorkerEffects ==
  ASSUME TypeOK, NEW c \in workers, HandlerStep(c) \/ WorkerStep(c) \/ RunThrows(c)
  PROVE  \/ Untouched(c)
         \/ Checkpoint(c)
         \/ phase[c] = "handle" /\ Noted(c, "admitted") /\ accepted'[c] = accepted[c] \cup {entry[c]}
         \/ phase[c] = "handle" /\ accepted'[c] = accepted[c] \cup {entry[c]} /\ phase'[c] = "caught"
              /\ outcome'[c] = outcome[c] /\ cursor'[c] = cursor[c] /\ mem'[c] = mem[c]
         \/ phase[c] = "caught" /\ CommitSeen(c) /\ Noted(c, "admitted") /\ accepted'[c] = accepted[c]
         \/ phase[c] = "expire" /\ Noted(c, "expired") /\ accepted'[c] = accepted[c]
         \/ phase[c] = "fail" /\ Noted(c, "failed") /\ accepted'[c] = accepted[c]
         \/ Advance(c)
         \/ phase[c] = "idle" /\ tail[c] # << >> /\ ExpireRows(c, Head(tail[c]).through)
              /\ phase' = phase /\ accepted' = accepted
<1>0. c \in Consumers /\ JournalType /\ WorkerType /\ HistoryType
  BY DEF TypeOK, BusType
<1>1. CASE StartRun(c)
  <2>1. phase'[c] \in {"ended", "next"}
    BY <1>0, <1>1 DEF StartRun, ReadBatch, WorkerType
  <2> QED BY <1>1, <2>1 DEF StartRun, durable, history, Untouched
<1>2. CASE RunExpire(c)
  <2>1. CASE ExpireRows(c, Head(tail[c]).through)
    BY <1>2, <2>1 DEF RunExpire
  <2>2. CASE UNCHANGED <<cursor, outcome, mem, settled>>
    BY <1>2, <2>2 DEF RunExpire, Untouched
  <2> QED BY <1>2, <2>1, <2>2 DEF RunExpire
<1>3. ASSUME NEW s \in batch[c], TakeEntry(c, s)
      PROVE  Untouched(c)
  <2>1. phase'[c] \in {"expire", "fail", "handle"}
    BY <1>0, <1>3 DEF TakeEntry, WorkerType
  <2> QED BY <1>3, <2>1 DEF TakeEntry, durable, Untouched
<1>4. CASE ExpireEntry(c)
  BY <1>0, <1>4 DEF ExpireEntry, Noted, WorkerType
<1>5. CASE FailEntry(c)
  BY <1>0, <1>5 DEF FailEntry, Noted, WorkerType
<1>6. CASE Catch(c)
  <2>1. CASE CommitSeen(c)
    BY <1>0, <1>6, <2>1 DEF Catch, Noted, WorkerType, history
  <2>2. CASE ~CommitSeen(c)
    <3>1. phase'[c] \in {"handle", "fail"}
      BY <1>0, <1>6, <2>2 DEF Catch, WorkerType
    <3> QED BY <1>6, <2>2, <3>1 DEF Catch, Untouched, history
  <2> QED BY <2>1, <2>2
<1>7. CASE EndRun(c) \/ RejectRun(c)
  <2>1. phase'[c] = "idle"
    BY <1>0, <1>7 DEF EndRun, RejectRun, WorkerType
  <2> QED BY <1>7, <2>1 DEF EndRun, RejectRun, durable, history, Untouched
<1>8. CASE RunThrows(c) \/ HandleThrow(c)
  <2>1. phase'[c] \in {"rejected", "caught"}
    BY <1>0, <1>8 DEF RunThrows, HandleThrow, WorkerType
  <2> QED BY <1>8, <2>1 DEF RunThrows, HandleThrow, durable, history, Untouched
<1>9. CASE HandleReturn(c)
  <2>1. accepted'[c] = accepted[c] \cup {entry[c]}
    BY <1>0, <1>9 DEF HandleReturn, HistoryType
  <2>2. CASE outcome' = Recorded(c, entry[c], "admitted") /\ phase' = [phase EXCEPT ![c] = "advance"]
    BY <1>0, <1>9, <2>1, <2>2 DEF HandleReturn, Noted, WorkerType
  <2>3. CASE phase' = [phase EXCEPT ![c] = "caught"] /\ UNCHANGED outcome
    BY <1>0, <1>9, <2>1, <2>3 DEF HandleReturn, WorkerType
  <2> QED BY <1>9, <2>2, <2>3 DEF HandleReturn
<1> QED
  BY <1>1, <1>2, <1>3, <1>4, <1>5, <1>6, <1>7, <1>8, <1>9 DEF HandlerStep, WorkerStep

\* The invariant of one consumer, after a step that changed no row.
HonestAfter(c) ==
  /\ \A s \in Sequence \ rows : outcome'[c][s] = "none"
  /\ \A s \in rows : s > base[c] =>
       (outcome'[c][s] = "admitted" \/ (outcome'[c][s] = "none" /\ s <= cursor'[c])
          => s \in accepted'[c])
  /\ mem'[c] < cursor'[c] => cursor'[c] \in accepted'[c]
  /\ phase'[c] = "advance" /\ entry'[c] \in rows =>
       outcome'[c][entry'[c]] # "none" \/ entry'[c] \in accepted'[c]

\* Recording an outcome of the entry in hand keeps it, if what is admitted was accepted.
LEMMA NotedHonest ==
  ASSUME IInv, HonestInv, NEW c \in workers, phase[c] \in Holding, NEW what \in Outcomes \ {"none"},
         Noted(c, what), accepted[c] \subseteq accepted'[c],
         what = "admitted" => entry[c] \in accepted'[c]
  PROVE  HonestAfter(c)
<1>1. /\ c \in Consumers /\ JournalType /\ c \in known /\ rows \subseteq Sequence
      /\ entry[c] \in Sequence
  BY DEF IInv, TypeOK, JournalType, BusType, WorkerType, IdleOutside
<1>2. \A s \in Sequence : s # entry[c] \/ entry[c] \notin rows => outcome'[c][s] = outcome[c][s]
  BY <1>1, RecordedAt DEF Noted
<1>3. entry[c] \in rows => outcome'[c][entry[c]] = what
  BY <1>1, RecordedAt DEF Noted
<1>4. \A s \in Sequence \ rows : outcome'[c][s] = "none"
  BY <1>1, <1>2 DEF HonestInv, OutcomesHaveRows
<1>5. ASSUME NEW s \in rows, s > base[c],
             outcome'[c][s] = "admitted" \/ (outcome'[c][s] = "none" /\ s <= cursor'[c])
      PROVE  s \in accepted'[c]
  <2>1. CASE s = entry[c]
    BY <1>3, <1>5, <2>1
  <2>2. CASE s # entry[c]
    <3>1. outcome'[c][s] = outcome[c][s] /\ cursor'[c] = cursor[c]
      BY <1>1, <1>2, <2>2 DEF Noted
    <3>2. s \in accepted[c]
      BY <1>1, <1>5, <3>1 DEF HonestInv, HonestRows, HonestAt
    <3> QED BY <3>2
  <2> QED BY <2>1, <2>2
<1>6. mem'[c] < cursor'[c] => cursor'[c] \in accepted'[c]
  BY DEF Noted, HonestInv, CommitAccepted
<1>7. entry'[c] \in rows => outcome'[c][entry'[c]] # "none"
  BY <1>3 DEF Noted
<1> QED BY <1>4, <1>5, <1>6, <1>7 DEF HonestAfter

\* A committed entry is accepted when it is handled again.
LEMMA CommittedAccepted ==
  ASSUME IInv, HonestInv, NEW c \in workers, phase[c] = "caught", CommitSeen(c)
  PROVE  entry[c] \in accepted[c]
<1>1. c \in Consumers /\ cursor[c] \in Nat /\ mem[c] \in Nat /\ entry[c] \in Nat
  BY Numbers DEF IInv, TypeOK, BusType
<1>2. mem[c] < entry[c] /\ cursor[c] <= entry[c]
  BY DEF IInv, WorkerOrder, EntryIsNext, Holding
<1>3. cursor[c] = entry[c]
  BY <1>1, <1>2 DEF CommitSeen
<1> QED BY <1>2, <1>3 DEF HonestInv, CommitAccepted

\* Every step of a worker keeps it for its own consumer.
LEMMA WorkerHonest ==
  ASSUME IInv, HonestInv, NEW c \in workers, HandlerStep(c) \/ WorkerStep(c) \/ RunThrows(c)
  PROVE  HonestAfter(c)
<1>1. /\ TypeOK /\ c \in Consumers /\ JournalType /\ WorkerType /\ HistoryType /\ c \in known
      /\ rows \subseteq Sequence /\ rows \subseteq Nat
      /\ cursor[c] \in Nat /\ mem[c] \in Nat /\ entry[c] \in Nat /\ base[c] \in Nat
  BY Numbers DEF IInv, TypeOK, JournalType, BusType, IdleOutside
<1>2. /\ \A s \in Sequence \ rows : outcome[c][s] = "none"
      /\ \A s \in rows : s > base[c] => HonestAt(c, s)
      /\ CommitAccepted(c) /\ LeavesTrace(c)
  BY <1>1 DEF HonestInv, OutcomesHaveRows, HonestRows
<1>3. CASE Untouched(c)
  BY <1>2, <1>3 DEF Untouched, HonestAfter, HonestAt, CommitAccepted
<1>4. CASE Checkpoint(c)
  <2>1. /\ outcome' = outcome /\ phase'[c] = "handle" /\ mem' = mem /\ cursor'[c] = entry[c]
        /\ accepted'[c] = accepted[c] \cup {entry[c]}
    BY <1>1, <1>4 DEF Checkpoint, JournalType, WorkerType, HistoryType
  <2>2. mem[c] < entry[c] /\ cursor[c] <= entry[c] /\ entry[c] <= cursor[c] + 1
    BY <1>4 DEF Checkpoint, IInv, WorkerOrder, EntryIsNext, Holding
  <2>3. ASSUME NEW s \in rows, s > base[c],
               outcome'[c][s] = "admitted" \/ (outcome'[c][s] = "none" /\ s <= cursor'[c])
        PROVE  s \in accepted'[c]
    <3>1. s <= cursor[c] \/ s = entry[c] \/ ~(s <= cursor'[c])
      BY <1>1, <2>1, <2>2
    <3> QED BY <1>2, <2>1, <2>3, <3>1 DEF HonestAt
  <2> QED BY <1>2, <2>1, <2>3 DEF HonestAfter
<1>5. CASE phase[c] = "handle" /\ Noted(c, "admitted") /\ accepted'[c] = accepted[c] \cup {entry[c]}
  BY <1>5, NotedHonest DEF Holding, Outcomes
<1>6. CASE /\ phase[c] = "handle" /\ accepted'[c] = accepted[c] \cup {entry[c]} /\ phase'[c] = "caught"
           /\ outcome'[c] = outcome[c] /\ cursor'[c] = cursor[c] /\ mem'[c] = mem[c]
  BY <1>2, <1>6 DEF HonestAfter, HonestAt, CommitAccepted
<1>7. CASE phase[c] = "caught" /\ CommitSeen(c) /\ Noted(c, "admitted") /\ accepted'[c] = accepted[c]
  BY <1>7, NotedHonest, CommittedAccepted DEF Holding, Outcomes
<1>8. CASE phase[c] = "expire" /\ Noted(c, "expired") /\ accepted'[c] = accepted[c]
  BY <1>8, NotedHonest DEF Holding, Outcomes
<1>9. CASE phase[c] = "fail" /\ Noted(c, "failed") /\ accepted'[c] = accepted[c]
  BY <1>9, NotedHonest DEF Holding, Outcomes
<1>10. CASE Advance(c)
  <2>1. /\ outcome' = outcome /\ accepted' = accepted /\ cursor'[c] = entry[c] /\ mem'[c] = entry[c]
    BY <1>1, <1>10 DEF Advance, history, JournalType, WorkerType
  <2>2. phase'[c] # "advance"
    BY <1>1, <1>10 DEF Advance, ReadBatch, WorkerType
  <2>3. cursor[c] <= entry[c] /\ entry[c] <= cursor[c] + 1
    BY <1>10 DEF Advance, IInv, WorkerOrder, EntryIsNext, Holding
  <2>4. ASSUME NEW s \in rows, s > base[c],
               outcome'[c][s] = "admitted" \/ (outcome'[c][s] = "none" /\ s <= cursor'[c])
        PROVE  s \in accepted'[c]
    <3>1. s <= cursor[c] \/ s = entry[c] \/ ~(s <= cursor'[c])
      BY <1>1, <2>1, <2>3
    <3>2. CASE s = entry[c]
      BY <1>2, <1>10, <2>1, <2>4, <3>2 DEF HonestAt, LeavesTrace, Advance
    <3>3. CASE s <= cursor[c] \/ ~(s <= cursor'[c])
      BY <1>2, <2>1, <2>4, <3>3 DEF HonestAt
    <3> QED BY <3>1, <3>2, <3>3
  <2>5. ~(mem'[c] < cursor'[c])
    BY <1>1, <2>1
  <2> QED BY <1>2, <2>1, <2>2, <2>4, <2>5 DEF HonestAfter
<1>11. CASE /\ phase[c] = "idle" /\ tail[c] # << >> /\ ExpireRows(c, Head(tail[c]).through)
            /\ phase' = phase /\ accepted' = accepted
  <2> DEFINE through == Head(tail[c]).through
             gone == {s \in rows : cursor[c] < s /\ s <= through}
  <2>1. through \in Nat
    BY <1>1, <1>11, HeadJob, Bounds
  <2>2. /\ outcome'[c] = [s \in Sequence |-> IF s \in gone THEN "expired" ELSE outcome[c][s]]
        /\ cursor'[c] = (IF cursor[c] < through THEN through ELSE cursor[c])
        /\ mem'[c] = through /\ through > mem[c]
    BY <1>1, <1>11 DEF ExpireRows, JournalType, WorkerType
  <2> HIDE DEF through
  <2>3. \A s \in Sequence \ rows : outcome'[c][s] = "none"
    BY <1>2, <2>2
  <2>4. ASSUME NEW s \in rows, s > base[c],
               outcome'[c][s] = "admitted" \/ (outcome'[c][s] = "none" /\ s <= cursor'[c])
        PROVE  s \in accepted'[c]
    <3>1. s \notin gone /\ outcome'[c][s] = outcome[c][s]
      BY <1>1, <2>2, <2>4
    <3>2. s <= cursor'[c] => s <= cursor[c]
      BY <1>1, <2>1, <2>2, <3>1
    <3> QED BY <1>2, <1>11, <2>4, <3>1, <3>2 DEF HonestAt
  <2>5. mem'[c] < cursor'[c] => cursor'[c] = cursor[c] /\ mem[c] < cursor[c]
    BY <1>1, <2>1, <2>2
  <2> QED BY <1>2, <1>11, <2>3, <2>4, <2>5 DEF HonestAfter, CommitAccepted
<1> QED
  BY <1>1, <1>3, <1>4, <1>5, <1>6, <1>7, <1>8, <1>9, <1>10, <1>11, WorkerEffects

\* The journal is appended to and pruned, and consumers come and go.
LEMMA HonestStep ==
  ASSUME IInv, HonestInv, [Next]_vars
  PROVE  HonestInv'
<1>1. /\ TypeOK /\ JournalType /\ WorkerType /\ known \subseteq Consumers /\ workers \subseteq Consumers
      /\ rows \subseteq Sequence /\ Sequence \subseteq Nat /\ head \in Nat
      /\ \A c \in Consumers : base[c] \in Nat /\ cursor[c] \in Nat
  BY Numbers, Bounds DEF IInv, TypeOK, JournalType, BusType
<1>2. CASE UNCHANGED core
  BY <1>2 DEF core, HonestInv, OutcomesHaveRows, HonestRows, HonestAt, CommitAccepted, LeavesTrace
<1>3. ASSUME NEW reg \in Registrations, NEW old \in SUBSET rows, Start(reg, old)
      PROVE  HonestInv'
  <2>1. /\ reg \subseteq Consumers /\ known' = reg /\ workers' = reg /\ head' = head /\ mem' = cursor'
        /\ rows' \subseteq rows
        /\ \A c \in reg : /\ c \in known => cursor'[c] = cursor[c] /\ base'[c] = base[c]
                          /\ c \notin known => base'[c] = head
    BY <1>1, <1>3, StartFacts
  <2>2. \A c \in Consumers : \A s \in Sequence :
          outcome'[c][s] = IF s \in rows \ rows' THEN "none" ELSE outcome[c][s]
    BY <1>1, <1>3 DEF Start, Cascade, Prunable
  <2>3. \A c \in reg \cap known : accepted'[c] = accepted[c]
    BY <1>1, <1>3, <2>1 DEF Start
  <2>4. \A c \in Consumers : \A s \in Sequence \ rows' : outcome'[c][s] = "none"
    BY <1>1, <2>2 DEF HonestInv, OutcomesHaveRows
  <2>5. ASSUME NEW c \in reg, NEW s \in rows', s > base'[c],
               outcome'[c][s] = "admitted" \/ (outcome'[c][s] = "none" /\ s <= cursor'[c])
        PROVE  s \in accepted'[c]
    <3>1. c \in known
      BY <1>1, <2>1, <2>5 DEF IInv, Positions
    <3>2. s \in rows /\ s \in Sequence /\ outcome'[c][s] = outcome[c][s]
      BY <1>1, <2>1, <2>2, <2>5
    <3> QED BY <2>1, <2>3, <2>5, <3>1, <3>2 DEF HonestInv, HonestRows, HonestAt
  <2>6. \A c \in reg : ~(mem'[c] < cursor'[c]) /\ phase'[c] # "advance"
    <3>1. ASSUME NEW c \in reg
          PROVE  cursor'[c] \in Nat /\ phase'[c] = "idle"
      BY <1>1, <1>3, <2>1, StartFacts DEF IInv, IdleOutside, Blank, Start
    <3> QED BY <2>1, <3>1
  <2> QED
    BY <2>1, <2>4, <2>5, <2>6 DEF HonestInv, OutcomesHaveRows, HonestRows, HonestAt, CommitAccepted,
       LeavesTrace
<1>4. CASE PublishAppend
  <2>1. /\ rows' = rows \cup {head + 1} /\ head + 1 \notin rows
        /\ UNCHANGED <<known, cursor, outcome, workers, mem, phase, batch, entry, base, accepted>>
    BY <1>1, <1>4 DEF PublishAppend, worker, history, IInv, Positions
  <2>2. head + 1 \in Sequence
    BY <1>1, <1>4, Bounds DEF PublishAppend, Sequence
  <2>3. \A c \in Consumers : outcome[c][head + 1] = "none" /\ ~(head + 1 <= cursor[c])
    BY <1>1, <2>1, <2>2 DEF HonestInv, OutcomesHaveRows, IInv, Positions
  <2>4. OutcomesHaveRows'
    BY <2>1 DEF HonestInv, OutcomesHaveRows
  <2>5. HonestRows'
    BY <1>1, <2>1, <2>3 DEF HonestInv, HonestRows, HonestAt
  <2>6. ASSUME NEW c \in workers, phase[c] = "advance"
        PROVE  entry[c] # head + 1
    BY <1>1, <2>6 DEF IInv, WorkerOrder, EntryIsNext, Holding
  <2>7. \A c \in workers' : CommitAccepted(c)' /\ LeavesTrace(c)'
    BY <2>1, <2>6 DEF HonestInv, CommitAccepted, LeavesTrace
  <2> QED BY <2>4, <2>5, <2>7 DEF HonestInv
<1>5. ASSUME NEW old \in SUBSET rows, Prune(old)
      PROVE  HonestInv'
  <2>1. /\ rows' \subseteq rows
        /\ UNCHANGED <<known, cursor, workers, mem, phase, batch, entry, base, accepted>>
    BY <1>5 DEF Prune, worker, history
  <2>2. \A c \in Consumers : \A s \in Sequence :
          outcome'[c][s] = IF s \in rows \ rows' THEN "none" ELSE outcome[c][s]
    BY <1>1, <1>5 DEF Prune, Cascade, Prunable
  <2>3. OutcomesHaveRows'
    BY <1>1, <2>1, <2>2 DEF HonestInv, OutcomesHaveRows
  <2>4. HonestRows'
    BY <1>1, <2>1, <2>2 DEF HonestInv, HonestRows, HonestAt
  <2>5. \A c \in workers' : CommitAccepted(c)' /\ LeavesTrace(c)'
    BY <1>1, <2>1, <2>2 DEF HonestInv, CommitAccepted, LeavesTrace
  <2> QED BY <2>3, <2>4, <2>5 DEF HonestInv
<1>6. ASSUME NEW c \in workers, HandlerStep(c) \/ WorkerStep(c) \/ RunThrows(c)
      PROVE  HonestInv'
  <2>1. HonestAfter(c)
    BY <1>6, WorkerHonest
  <2>2. /\ UNCHANGED <<rows, known, workers, base>>
        /\ \A d \in Consumers \ {c} :
             /\ cursor'[d] = cursor[d] /\ mem'[d] = mem[d] /\ phase'[d] = phase[d]
             /\ entry'[d] = entry[d] /\ outcome'[d] = outcome[d] /\ accepted'[d] = accepted[d]
    BY <1>1, <1>6, OthersSame, OthersKeep
  <2>3. OutcomesHaveRows'
    <3>1. ASSUME NEW d \in Consumers, NEW s \in Sequence \ rows
          PROVE  outcome'[d][s] = "none"
      <4>1. CASE d = c
        BY <2>1, <4>1 DEF HonestAfter
      <4>2. CASE d # c
        BY <2>2, <4>2 DEF HonestInv, OutcomesHaveRows
      <4> QED BY <4>1, <4>2
    <3> QED BY <2>2, <3>1 DEF OutcomesHaveRows
  <2>4. HonestRows'
    <3>1. ASSUME NEW d \in known, NEW s \in rows, s > base[d]
          PROVE  HonestAt(d, s)'
      <4>1. CASE d = c
        BY <2>1, <3>1, <4>1 DEF HonestAfter, HonestAt
      <4>2. CASE d # c
        BY <1>1, <2>2, <3>1, <4>2 DEF HonestInv, HonestRows, HonestAt
      <4> QED BY <4>1, <4>2
    <3> QED BY <2>2, <3>1 DEF HonestRows
  <2>5. \A d \in workers' : CommitAccepted(d)' /\ LeavesTrace(d)'
    BY <1>1, <2>1, <2>2 DEF HonestInv, HonestAfter, CommitAccepted, LeavesTrace
  <2> QED BY <2>3, <2>4, <2>5 DEF HonestInv
<1>7. CASE Crash
  <2>1. UNCHANGED <<rows, known, cursor, outcome, base, accepted>> /\ workers' = {}
    BY <1>7 DEF Crash, durable, history
  <2> QED BY <2>1 DEF HonestInv, OutcomesHaveRows, HonestRows, HonestAt
<1> QED BY <1>2, <1>3, <1>4, <1>5, <1>6, <1>7, StepCases

\* Diagnostics call no row admitted that the consumer did not accept, however often
\* the process dies, statements throw, and rows are expired or pruned.
THEOREM AdmittedMeansAccepted == Spec => []AdmittedIsHonest
<1>1. Init => HonestInv
  BY DEF Init, HonestInv, OutcomesHaveRows, HonestRows
<1>2. HonestInv => AdmittedIsHonest
  BY DEF HonestInv, HonestRows, HonestAt, AdmittedIsHonest, Reported
<1> QED
  BY <1>1, <1>2, HonestStep, Invariance, PTL DEF Spec

-----------------------------------------------------------------------------
(* A committed checkpoint is committed once, as long as no journal statement throws *)

\* What was applied lies behind the cursor of the consumer, if it has one.
AppliedIsPast ==
  \A c \in Consumers : \A s \in Sequence :
    applied[c][s] # 0 => s <= head /\ (c \in known => s <= cursor[c])

\* Without a statement that throws, the two cursors are apart only while the entry
\* whose checkpoint was committed is in hand, and it is known to be committed.
CursorsTogether(c) ==
  /\ \/ mem[c] = cursor[c]
     \/ phase[c] \in {"handle", "caught", "advance"} /\ cursor[c] = entry[c]
  /\ phase[c] = "handle" /\ c \notin committed => mem[c] = cursor[c]

OnceInv ==
  /\ AppliedIsPast /\ CheckpointOnce
  /\ \A c \in workers : CursorsTogether(c)

\* A worker's step keeps its cursors together.
LEMMA WorkerTogether ==
  ASSUME IInv, OnceInv, ~JournalThrows,
         NEW c \in workers, HandlerStep(c) \/ WorkerStep(c) \/ RunThrows(c)
  PROVE  CursorsTogether(c)'
<1>1. /\ c \in Consumers /\ JournalType /\ WorkerType
      /\ cursor[c] \in Nat /\ mem[c] \in Nat /\ entry[c] \in Nat
  BY Numbers DEF IInv, TypeOK, BusType
<1>2. CursorsTogether(c)
  BY DEF OnceInv
<1>3. phase[c] \in Holding => mem[c] < entry[c] /\ cursor[c] <= entry[c]
  BY DEF IInv, WorkerOrder, EntryIsNext
<1>4. CASE StartRun(c) \/ EndRun(c) \/ RejectRun(c)
  <2>1. phase[c] \in {"idle", "ended", "rejected"} /\ phase'[c] \in {"idle", "ended", "next"}
        /\ UNCHANGED <<mem, cursor>>
    BY <1>1, <1>4 DEF StartRun, ReadBatch, EndRun, RejectRun, WorkerType, durable
  <2> QED BY <1>2, <2>1 DEF CursorsTogether
<1>5. CASE RunExpire(c)
  <2>1. Head(tail[c]).through \in Nat /\ phase[c] = "idle" /\ phase' = phase
    BY <1>1, <1>5, HeadJob, Bounds DEF RunExpire
  <2>2. mem[c] = cursor[c]
    BY <1>2, <2>1 DEF CursorsTogether
  <2>3. mem'[c] = cursor'[c]
    BY <1>1, <1>5, <2>1, <2>2 DEF RunExpire, ExpireRows, JournalType, WorkerType
  <2> QED BY <2>1, <2>3 DEF CursorsTogether
<1>6. ASSUME NEW s \in batch[c], TakeEntry(c, s)
      PROVE  CursorsTogether(c)'
  BY <1>2, <1>6 DEF TakeEntry, CursorsTogether, durable
<1>7. CASE ExpireEntry(c) \/ FailEntry(c)
  BY <1>2, <1>7 DEF ExpireEntry, FailEntry, CursorsTogether
<1>8. CASE Checkpoint(c)
  <2>1. cursor'[c] = entry[c] /\ c \in committed' /\ UNCHANGED <<phase, entry>> /\ phase[c] = "handle"
    BY <1>1, <1>8 DEF Checkpoint, JournalType
  <2> QED BY <2>1 DEF CursorsTogether
<1>9. CASE HandleReturn(c) \/ HandleThrow(c)
  <2>1. /\ phase[c] = "handle" /\ phase'[c] \in {"advance", "caught"}
        /\ UNCHANGED <<cursor, mem, entry>>
    BY <1>1, <1>9 DEF HandleReturn, HandleThrow, WorkerType, durable
  <2> QED BY <1>2, <2>1 DEF CursorsTogether
<1>10. CASE Catch(c)
  <2>1. phase[c] = "caught" /\ UNCHANGED <<cursor, mem, entry>>
    BY <1>10 DEF Catch
  <2>2. CASE CommitSeen(c)
    <3>1. phase'[c] = "advance"
      BY <1>1, <1>10, <2>2 DEF Catch, WorkerType
    <3> QED BY <1>2, <2>1, <3>1 DEF CursorsTogether
  <2>3. CASE ~CommitSeen(c)
    <3>1. mem[c] = cursor[c]
      BY <1>1, <1>2, <2>1, <2>3 DEF CursorsTogether, CommitSeen
    <3> QED BY <2>1, <3>1 DEF CursorsTogether
  <2> QED BY <2>2, <2>3
<1>11. CASE Advance(c)
  <2>1. mem'[c] = entry[c] /\ cursor'[c] = entry[c]
    BY <1>1, <1>11 DEF Advance, JournalType, WorkerType
  <2> QED BY <2>1 DEF CursorsTogether
<1>12. ~RunThrows(c)
  BY DEF RunThrows
<1> QED
  BY <1>4, <1>5, <1>6, <1>7, <1>8, <1>9, <1>10, <1>11, <1>12 DEF HandlerStep, WorkerStep

\* A checkpoint is committed past everything that was applied before.
LEMMA CheckpointFresh ==
  ASSUME IInv, OnceInv, NEW c \in workers, Checkpoint(c)
  PROVE  applied[c][entry[c]] = 0
<1>1. /\ c \in Consumers /\ c \in known /\ entry[c] \in Sequence
      /\ cursor[c] \in Nat /\ mem[c] \in Nat /\ entry[c] \in Nat
      /\ applied[c] \in [Sequence -> 0 .. 2]
  BY Numbers DEF IInv, TypeOK, BusType, WorkerType, HistoryType, IdleOutside, Checkpoint, Holding
<1>2. mem[c] = cursor[c]
  BY DEF OnceInv, CursorsTogether, Checkpoint
<1>3. mem[c] < entry[c]
  BY DEF IInv, WorkerOrder, EntryIsNext, Holding, Checkpoint
<1>4. ~(entry[c] <= cursor[c])
  BY <1>1, <1>2, <1>3
<1> QED BY <1>1, <1>4 DEF OnceInv, AppliedIsPast

LEMMA OnceStep ==
  ASSUME IInv, IInv', OnceInv, ~JournalThrows, [Next]_vars
  PROVE  OnceInv'
<1>1. /\ TypeOK /\ HistoryType /\ known \subseteq Consumers /\ workers \subseteq Consumers
      /\ Sequence \subseteq Nat /\ head \in Nat /\ head' \in Nat /\ workers' \subseteq Consumers
      /\ known' \subseteq Consumers
      /\ \A c \in Consumers : cursor[c] \in Nat /\ cursor'[c] \in Nat
  <2>1. TypeOK /\ TypeOK'
    BY DEF IInv
  <2>2. head' \in Position /\ cursor' \in [Consumers -> Position]
    BY <2>1 DEF TypeOK, JournalType
  <2> QED BY <2>1, <2>2, Numbers, Bounds DEF TypeOK, JournalType, BusType
<1>2. \A c \in known \cap known' : cursor[c] <= cursor'[c]
  BY <1>1, CursorUp
<1>3. ASSUME UNCHANGED applied, head <= head',
             \A c \in known' \ known : head <= cursor'[c]
      PROVE  AppliedIsPast' /\ CheckpointOnce'
  <2>1. CheckpointOnce'
    BY <1>3 DEF OnceInv, CheckpointOnce
  <2>2. ASSUME NEW c \in Consumers, NEW s \in Sequence, applied[c][s] # 0
        PROVE  s <= head' /\ (c \in known' => s <= cursor'[c])
    <3>1. s <= head /\ s \in Nat
      BY <1>1, <2>2 DEF OnceInv, AppliedIsPast
    <3>2. c \in known' => s <= cursor'[c]
      <4>1. CASE c \in known
        BY <1>1, <1>2, <2>2, <3>1, <4>1 DEF OnceInv, AppliedIsPast
      <4>2. CASE c \notin known
        BY <1>1, <1>3, <3>1, <4>2
      <4> QED BY <4>1, <4>2
    <3> QED BY <1>1, <1>3, <3>1, <3>2
  <2> QED BY <1>3, <2>1, <2>2 DEF AppliedIsPast
<1>4. CASE UNCHANGED core
  <2>1. UNCHANGED applied /\ head <= head' /\ known' = known /\ workers' = workers
    BY <1>1, <1>4 DEF core
  <2>2. \A c \in workers' : CursorsTogether(c)'
    BY <1>4 DEF core, OnceInv, CursorsTogether
  <2> QED BY <1>3, <2>1, <2>2 DEF OnceInv
<1>5. ASSUME NEW reg \in Registrations, NEW old \in SUBSET rows, Start(reg, old)
      PROVE  OnceInv'
  <2>1. /\ workers' = reg /\ head' = head /\ mem' = cursor' /\ known' = reg
        /\ \A c \in reg \ known : cursor'[c] = head
    BY <1>1, <1>5, StartFacts
  <2>2. UNCHANGED <<applied, phase>> /\ \A c \in workers' : phase[c] = "idle"
    BY <1>1, <1>5 DEF Start, IInv, IdleOutside, Blank
  <2>3. AppliedIsPast' /\ CheckpointOnce'
    BY <1>1, <1>3, <2>1, <2>2
  <2> QED BY <2>1, <2>2, <2>3 DEF OnceInv, CursorsTogether
<1>6. CASE PublishAppend
  <2>1. /\ head' = head + 1
        /\ UNCHANGED <<known, cursor, workers, mem, phase, entry, committed, applied>>
    BY <1>6 DEF PublishAppend, worker, history
  <2>2. AppliedIsPast' /\ CheckpointOnce'
    BY <1>1, <1>3, <2>1
  <2> QED BY <2>1, <2>2 DEF OnceInv, CursorsTogether
<1>7. ASSUME NEW old \in SUBSET rows, Prune(old)
      PROVE  OnceInv'
  <2>1. UNCHANGED <<head, known, cursor, workers, mem, phase, entry, committed, applied>>
    BY <1>7 DEF Prune, worker, history
  <2>2. AppliedIsPast' /\ CheckpointOnce'
    BY <1>1, <1>3, <2>1
  <2> QED BY <2>1, <2>2 DEF OnceInv, CursorsTogether
<1>8. ASSUME NEW c \in workers, HandlerStep(c) \/ WorkerStep(c) \/ RunThrows(c)
      PROVE  OnceInv'
  <2>1. /\ UNCHANGED <<head, known, workers>>
        /\ \A d \in Consumers \ {c} :
             /\ cursor'[d] = cursor[d] /\ mem'[d] = mem[d] /\ phase'[d] = phase[d]
             /\ entry'[d] = entry[d] /\ applied'[d] = applied[d]
             /\ (d \in committed' <=> d \in committed)
    BY <1>1, <1>8, OthersSame, OthersKeep
  <2>2. CursorsTogether(c)'
    BY <1>8, WorkerTogether
  <2>3. \A d \in workers' : CursorsTogether(d)'
    <3>1. ASSUME NEW d \in workers, d # c
          PROVE  CursorsTogether(d)'
      BY <1>1, <2>1, <3>1 DEF OnceInv, CursorsTogether
    <3> QED BY <2>1, <2>2, <3>1
  <2>4. CASE Checkpoint(c)
    <3>1. /\ applied' = [applied EXCEPT ![c][entry[c]] = IF @ < 2 THEN @ + 1 ELSE @]
          /\ cursor'[c] = entry[c] /\ applied[c][entry[c]] = 0
          /\ c \in Consumers /\ entry[c] \in Sequence /\ entry[c] <= head /\ c \in known
      BY <1>1, <2>4, CheckpointFresh DEF Checkpoint, IInv, TypeOK, JournalType, WorkerType, WorkerOrder,
         EntryIsNext, Holding, IdleOutside
    <3>2. applied' = [applied EXCEPT ![c] = [applied[c] EXCEPT ![entry[c]] = 1]]
      BY <1>1, <3>1 DEF HistoryType
    <3>3. CheckpointOnce'
      BY <1>1, <3>1, <3>2 DEF OnceInv, CheckpointOnce, HistoryType
    <3>4. ASSUME NEW d \in Consumers, NEW s \in Sequence, applied'[d][s] # 0
          PROVE  s <= head /\ (d \in known => s <= cursor'[d])
      <4>1. CASE d = c /\ s = entry[c]
        BY <1>1, <3>1, <4>1
      <4>2. CASE ~(d = c /\ s = entry[c])
        <5>1. applied'[d][s] = applied[d][s]
          BY <1>1, <3>1, <3>2, <4>2 DEF HistoryType
        <5>2. s <= head /\ (d \in known => s <= cursor[d]) /\ s \in Nat
          BY <1>1, <3>4, <5>1 DEF OnceInv, AppliedIsPast
        <5> QED BY <1>1, <1>2, <2>1, <5>2
      <4> QED BY <4>1, <4>2
    <3> QED BY <2>1, <2>3, <3>3, <3>4 DEF OnceInv, AppliedIsPast
  <2>5. CASE ~Checkpoint(c)
    <3>1. UNCHANGED applied
      BY <1>8, <2>5 DEF HandlerStep, HandleReturn, HandleThrow, WorkerStep, StartRun, RunExpire,
         TakeEntry, ExpireEntry, Catch, FailEntry, Advance, EndRun, RejectRun, RunThrows, history
    <3>2. AppliedIsPast' /\ CheckpointOnce'
      BY <1>1, <1>3, <2>1, <3>1
    <3> QED BY <2>3, <3>2 DEF OnceInv
  <2> QED BY <2>4, <2>5
<1>9. CASE Crash
  <2>1. UNCHANGED <<head, known, cursor, applied>> /\ workers' = {}
    BY <1>9 DEF Crash, durable, history
  <2>2. AppliedIsPast' /\ CheckpointOnce'
    BY <1>1, <1>3, <2>1
  <2> QED BY <2>1, <2>2 DEF OnceInv
<1> QED BY <1>4, <1>5, <1>6, <1>7, <1>8, <1>9, StepCases

\* While no journal statement throws, a consumer's transaction commits once for a
\* row, through any number of crashes, retries and restores: that a statement which
\* throws can break this is the finding of the run bus_checkpoint.
THEOREM CommittedOnce == ~JournalThrows => (Spec => []CheckpointOnce)
<1> SUFFICES ASSUME ~JournalThrows
             PROVE  Spec => []CheckpointOnce
  OBVIOUS
<1>1. Init => OnceInv
  BY ConsumersAssumption DEF Init, OnceInv, AppliedIsPast, CheckpointOnce
<1>2. IInv /\ IInv' /\ OnceInv /\ [Next]_vars => OnceInv'
  BY OnceStep
<1>3. OnceInv => CheckpointOnce
  BY DEF OnceInv
<1> QED
  BY <1>1, <1>2, <1>3, Invariance, PTL DEF Spec

=============================================================================
