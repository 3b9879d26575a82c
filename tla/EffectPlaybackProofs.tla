------------------------- MODULE EffectPlaybackProofs -------------------------
(* That effects do not overlap, but for audio that rejected its start, that a   *)
(* disabled module plays nothing, and that a pending effect is driven unless it *)
(* was left behind: for any number of effects, clients, calls and throws, any   *)
(* outputs, and any stops that fail.                                            *)
EXTENDS EffectPlayback, TLAPS

Steps == {"idle", "module", "advance", "validate", "module again", "start"}
Playbacks ==
  [item : Items \cup {None}, group : BOOLEAN, preparing : SUBSET Recipients,
   cleaning : SUBSET Kinds, ready : SUBSET Recipients, clients : SUBSET Clients,
   gone : SUBSET Clients, pending : SUBSET Kinds, finished : BOOLEAN, stopping : BOOLEAN]

\* What the queue, the admission and the policy hold.
Stored ==
  /\ current \in Items \cup {None} /\ queued \subseteq Items
  /\ shape \in [Items -> SUBSET Recipients]
  /\ made \in 0 .. MaxItems /\ (admission # "none" => made < MaxItems)
  /\ enabled \in BOOLEAN /\ disables \in Nat

\* startNext() is at work only while no effect is active.
Sequential ==
  /\ starter \in [at : Steps, answer : BOOLEAN] /\ active \in Playbacks
  /\ active.item = None => active = Inactive
  /\ starter.at # "idle" => active = Inactive

\* What startNext() learnt of the module is true, or disable() is still to run.
AnswerHolds ==
  starter.at = "start" /\ starter.answer /\ current # None => enabled \/ disables > 0

\* A recipient of playback p is being prepared, cleaned up or ready, and what is
\* prepared or ready is waited for, unless it is audio that rejected its start.
Apart(p, refused) ==
  /\ p.preparing \cap p.ready = {}
  /\ p.cleaning \cap (p.preparing \cup p.ready) = {}
  /\ \A k \in (p.preparing \cup p.ready) \cap Kinds :
       k \in p.pending \/ (k = "audio" /\ p.item \in refused)
  /\ p.finished \/ ~p.group => p.preparing = {} /\ p.cleaning = {} /\ p.ready = {}
  /\ p.finished => p.clients = {}

\* What sounds of playback p, when it was not stopped, is waited for.
Awaited(p, heard, refused) ==
  \A s \in heard : s[1] = p.item /\ ~p.finished =>
    (s[2] = "audio" /\ s[1] \in refused) \/ (~p.group /\ s[2] \in p.pending)

RecipientsApart == Apart(active, rejected)
SoundsAwaited == Awaited(active, sounds, rejected)
Sounds == sounds \subseteq Items \X Kinds /\ connected \subseteq Clients

Outputs == Sounds /\ RecipientsApart /\ SoundsAwaited /\ EffectsDoNotOverlap
Control == Stored /\ Sequential /\ AnswerHolds /\ DisabledPlaysNothing
IInv == Control /\ Outputs

controlVars == <<current, queued, shape, made, admission, enabled, disables, starter, active>>
outputVars == <<active, world>>

\* At the start nothing is admitted, nothing plays and nobody is waited for.
LEMMA InitIInv == EffectInit => IInv
<1> SUFFICES ASSUME EffectInit
             PROVE  IInv
  OBVIOUS
<1> USE EffectAssumption DEF EffectInit, None, Inactive, NotStarting
<1>1. Stored
  BY DEF Stored, Items
<1>2. Sequential
  BY DEF Sequential, Playbacks, Steps
<1>3. AnswerHolds /\ DisabledPlaysNothing
  BY DEF AnswerHolds, DisabledPlaysNothing
<1>4. Outputs
  BY DEF Outputs, Sounds, RecipientsApart, Apart, SoundsAwaited, Awaited, EffectsDoNotOverlap
<1> QED
  BY <1>1, <1>2, <1>3, <1>4 DEF IInv, Control

\* Actions that touch nothing the invariant speaks of.
LEMMA Untouched == IInv /\ UNCHANGED <<controlVars, outputVars>> => IInv'
BY DEF IInv, Control, Outputs, controlVars, outputVars, world, Stored, Sequential, AnswerHolds,
       DisabledPlaysNothing, Sounds, RecipientsApart, Apart, SoundsAwaited, Awaited, EffectsDoNotOverlap

\* Outputs that are left alone stay as they are.
LEMMA OutputsKept == Outputs /\ UNCHANGED outputVars => Outputs'
BY DEF Outputs, outputVars, world, Sounds, RecipientsApart, Apart, SoundsAwaited, Awaited, EffectsDoNotOverlap

\* Admission, the queue and the policy leave the active effect alone.
LEMMA QueueStep ==
  ASSUME IInv, Admission \/ QueueOperation \/ DisableModule \/ EnableModule
               \/ BeginMaintenance \/ EndMaintenance
  PROVE  IInv'
<1> USE EffectAssumption DEF queueVars, admissionVars, policyVars, None
<1>1. Outputs'
  BY OutputsKept DEF IInv, Admission, QueueOperation, DisableModule, EnableModule, BeginMaintenance,
     EndMaintenance, BeginAdmission, RejectAdmission, Enqueue, EventHandled, MatchThrows, Remove, ClearPending,
     SetPaused, SetSafety, outputVars
<1>2. Stored'
  <2> USE DEF IInv, Control, Stored
  <2>1. CASE Admission
    <3>1. CASE \E s \in Shapes : Enqueue(s)
      <4> PICK s \in Shapes : Enqueue(s)
        BY <3>1
      <4>1. made + 1 \in Items /\ s \in SUBSET Recipients
        BY DEF Enqueue, Items
      <4> QED BY <4>1 DEF Enqueue, Items
    <3> QED BY <2>1, <3>1 DEF Admission, BeginAdmission, RejectAdmission, EventHandled, MatchThrows
  <2>2. CASE QueueOperation
    BY <2>2 DEF QueueOperation, Remove, ClearPending, SetPaused, SetSafety
  <2>3. CASE DisableModule \/ EnableModule
    <3>1. UNCHANGED <<current, queued, shape, made, admission>>
      BY <2>3 DEF DisableModule, EnableModule
    <3>2. disables' \in Nat
      BY <2>3 DEF DisableModule, EnableModule
    <3>3. enabled' \in BOOLEAN
      BY <2>3 DEF DisableModule, EnableModule
    <3> QED BY <3>1, <3>2, <3>3
  <2>4. CASE BeginMaintenance \/ EndMaintenance
    <3>1. /\ UNCHANGED <<current, queued, shape, made, enabled, disables>>
          /\ admission = "none" => admission' = "none"
      BY <2>4 DEF BeginMaintenance, EndMaintenance
    <3> QED BY <3>1
  <2> QED BY <2>1, <2>2, <2>3, <2>4
<1>3. Sequential'
  <2>1. active' = active /\ (starter' = starter \/ starter' = Entered)
    BY DEF Admission, QueueOperation, DisableModule, EnableModule, BeginMaintenance, EndMaintenance,
       BeginAdmission, RejectAdmission, Enqueue, EventHandled, MatchThrows, Remove, ClearPending,
       SetPaused, SetSafety
  <2>2. starter' = starter \/ (starter' = Asking /\ active.item = None)
    BY <2>1 DEF Entered
  <2>3. Asking \in [at : Steps, answer : BOOLEAN]
    BY DEF Asking, Steps
  <2> QED BY <2>1, <2>2, <2>3 DEF IInv, Control, Sequential
<1>4. AnswerHolds' /\ DisabledPlaysNothing'
  <2> USE DEF IInv, Control, Stored, AnswerHolds, DisabledPlaysNothing
  <2>1. CASE Admission
    BY <2>1 DEF Admission, BeginAdmission, RejectAdmission, Enqueue, EventHandled, MatchThrows
  <2>2. CASE QueueOperation
    BY <2>2 DEF QueueOperation, Remove, ClearPending, SetPaused, SetSafety, Entered, Asking
  <2>3. CASE DisableModule \/ EnableModule \/ BeginMaintenance \/ EndMaintenance
    BY <2>3 DEF DisableModule, EnableModule, BeginMaintenance, EndMaintenance
  <2> QED BY <2>1, <2>2, <2>3
<1> QED
  BY <1>1, <1>2, <1>3, <1>4 DEF IInv, Control

\* The start of an effect finds the outputs silent, but for rejected audio.
LEMMA PlaybackBegins ==
  ASSUME IInv, active = Inactive, current \in Items, active' = Playing(current),
         UNCHANGED world
  PROVE  Outputs' /\ active' \in Playbacks /\ active'.item # None
<1> USE DEF None
<1>1. /\ active'.item = current /\ active'.group = TRUE /\ active'.preparing = shape[current]
      /\ active'.pending = shape[current] \cap Kinds /\ active'.cleaning = {}
      /\ active'.ready = {} /\ active'.clients = {} /\ active'.finished = FALSE
      /\ active' \in Playbacks
  BY DEF Playing, Inactive, Playbacks, IInv, Control, Stored
<1>2. \A s \in sounds : s[1] # active.item
  BY DEF Inactive, IInv, Outputs, Sounds, Items
<1>3. \A s \in sounds : s[2] = "audio" /\ s[1] \in rejected
  BY <1>2 DEF IInv, Outputs, EffectsDoNotOverlap
<1>4. Sounds' /\ SoundsAwaited' /\ EffectsDoNotOverlap'
  BY <1>1, <1>3 DEF IInv, Outputs, Sounds, SoundsAwaited, Awaited, EffectsDoNotOverlap, world
<1>5. RecipientsApart'
  BY <1>1 DEF RecipientsApart, Apart
<1> QED
  BY <1>1, <1>4, <1>5 DEF Outputs, Items

\* The loop of startNext(): it starts an effect only while none is active.
LEMMA StarterStep == ASSUME IInv, StartNext PROVE IInv'
<1> USE DEF queueVars, admissionVars, policyVars, None
<1>1. CASE CallStartNext
  <2>1. UNCHANGED <<current, queued, shape, made, admission, enabled, disables>>
        /\ UNCHANGED outputVars
    BY <1>1 DEF CallStartNext, outputVars, world
  <2>2. starter' = starter \/ (starter' = Asking /\ active.item = None)
    BY <1>1 DEF CallStartNext, Entered
  <2>3. Asking \in [at : Steps, answer : BOOLEAN] /\ Asking.at # "start"
    BY DEF Asking, Steps
  <2> QED BY <2>1, <2>2, <2>3, OutputsKept DEF outputVars, IInv, Control, Stored, Sequential,
            AnswerHolds, DisabledPlaysNothing
<1>2. CASE ReadModule
  <2>1. UNCHANGED <<current, queued, shape, made, admission, enabled, disables>>
        /\ UNCHANGED outputVars
    BY <1>2 DEF ReadModule, outputVars, world
  <2>2. starter.at # "idle"
    BY <1>2 DEF ReadModule
  <2>3. \E s \in Steps : starter' = [at |-> s, answer |-> enabled]
    BY <1>2 DEF ReadModule, Steps
  <2>4. starter'.answer = enabled /\ starter' \in [at : Steps, answer : BOOLEAN]
    BY <2>3 DEF IInv, Control, Stored
  <2> QED BY <2>1, <2>2, <2>4, OutputsKept DEF outputVars, IInv, Control, Stored, Sequential,
            AnswerHolds, DisabledPlaysNothing
<1>3. CASE Advance
  <2>1. UNCHANGED <<shape, made, admission, enabled, disables>> /\ UNCHANGED outputVars
    BY <1>3 DEF Advance, outputVars, world
  <2>2. starter.at # "idle"
    BY <1>3 DEF Advance
  <2>3. \E s \in Steps : s # "start" /\ starter' = [at |-> s, answer |-> FALSE]
    <3>1. starter' = [at |-> "validate", answer |-> FALSE] \/ starter' = NotStarting
      BY <1>3 DEF Advance, LoopReturns
    <3> QED BY <3>1 DEF Steps, NotStarting
  <2>4. starter'.at # "start" /\ starter' \in [at : Steps, answer : BOOLEAN]
    BY <2>3
  <2>5. current' \in Items \cup {None} /\ queued' \subseteq Items
    BY <1>3 DEF Advance, IInv, Control, Stored
  <2> QED BY <2>1, <2>2, <2>4, <2>5, OutputsKept DEF outputVars, IInv, Control, Stored, Sequential,
            AnswerHolds, DisabledPlaysNothing
<1>4. CASE Validate
  <2>1. UNCHANGED <<current, queued, shape, made, admission, enabled, disables>>
        /\ UNCHANGED outputVars
    BY <1>4 DEF Validate, outputVars, world
  <2>2. starter.at # "idle"
    BY <1>4 DEF Validate
  <2>3. \E s \in Steps : starter' = [at |-> s, answer |-> FALSE]
    BY <1>4 DEF Validate, Steps
  <2>4. starter'.answer = FALSE /\ starter' \in [at : Steps, answer : BOOLEAN]
    BY <2>3
  <2> QED BY <2>1, <2>2, <2>4, OutputsKept DEF outputVars, IInv, Control, Stored, Sequential,
            AnswerHolds, DisabledPlaysNothing
<1>5. CASE StartOrFail
  <2>1. active = Inactive
    BY <1>5 DEF StartOrFail, IInv, Control, Sequential
  <2>2. CASE current # None /\ starter.answer /\ Available(current)
    <3>1. active' = Playing(current) /\ starter' = NotStarting /\ current' = current
          /\ UNCHANGED <<queued, admissionVars, policyVars, world>> /\ starter.at = "start"
      BY <1>5, <2>2 DEF StartOrFail
    <3>2. current \in Items
      BY <2>2 DEF IInv, Control, Stored
    <3>3. Outputs' /\ active' \in Playbacks /\ active'.item # None
      BY <2>1, <3>1, <3>2, PlaybackBegins
    <3>4. enabled \/ disables > 0
      BY <2>2, <3>1 DEF IInv, Control, AnswerHolds
    <3>5. starter'.at = "idle" /\ starter' \in [at : Steps, answer : BOOLEAN]
      BY <3>1 DEF NotStarting, Steps
    <3>6. Stored'
      BY <3>1 DEF IInv, Control, Stored
    <3>7. Sequential' /\ AnswerHolds'
      BY <3>3, <3>5 DEF Sequential, AnswerHolds
    <3>8. DisabledPlaysNothing'
      BY <3>1, <3>4 DEF IInv, Control, Stored, DisabledPlaysNothing
    <3> QED BY <3>3, <3>6, <3>7, <3>8 DEF IInv, Control
  <2>3. CASE ~(current # None /\ starter.answer /\ Available(current))
    <3>1. UNCHANGED <<queued, shape, made, admission, enabled, disables>> /\ UNCHANGED outputVars
      BY <1>5, <2>3 DEF StartOrFail, outputVars, world
    <3>2. current' \in {current, None}
      BY <1>5, <2>3 DEF StartOrFail
    <3>3. starter' \in {NotStarting, Asking}
      BY <1>5, <2>3 DEF StartOrFail, LoopReturns
    <3>4. starter'.at # "start" /\ starter' \in [at : Steps, answer : BOOLEAN]
      <4>1. CASE starter' = NotStarting
        BY <4>1 DEF NotStarting, Steps
      <4>2. CASE starter' = Asking
        BY <4>2 DEF Asking, Steps
      <4> QED BY <3>3, <4>1, <4>2
    <3> QED BY <2>1, <3>1, <3>2, <3>4, OutputsKept DEF outputVars, IInv, Control, Stored, Sequential,
              AnswerHolds, DisabledPlaysNothing
  <2> QED BY <2>2, <2>3
<1>6. CASE LoopThrows
  <2>1. UNCHANGED <<current, queued, shape, made, admission, enabled, disables>>
        /\ UNCHANGED outputVars
    BY <1>6 DEF LoopThrows, outputVars, world
  <2>2. starter'.at = "idle" /\ starter' \in [at : Steps, answer : BOOLEAN]
    BY <1>6 DEF LoopThrows, LoopReturns, NotStarting, Steps
  <2> QED BY <2>1, <2>2, OutputsKept DEF outputVars, IInv, Control, Stored, Sequential,
            AnswerHolds, DisabledPlaysNothing
<1> QED
  BY <1>1, <1>2, <1>3, <1>4, <1>5, <1>6 DEF StartNext

-----------------------------------------------------------------------------
restVars == <<queued, shape, made, admission, enabled, disables, starter>>

\* The active effect goes on, or is stopped: startNext() is not at work.
LEMMA ControlKept ==
  ASSUME IInv, active.item # None, active' \in Playbacks, active'.item = active.item,
         active.finished => active'.finished, current' = current, UNCHANGED restVars
  PROVE  Control'
<1>1. starter.at = "idle"
  BY DEF IInv, Control, Sequential, Inactive
<1> QED
  BY <1>1 DEF IInv, Control, Stored, Sequential, AnswerHolds, DisabledPlaysNothing, restVars

\* An effect ends when nothing of it sounds but audio that rejected its start.
LEMMA EndedStep ==
  ASSUME IInv, Ended, UNCHANGED restVars, Sounds', rejected \subseteq rejected',
         sounds' \subseteq sounds,
         \A s \in sounds' : s[1] = active.item => s[2] = "audio" /\ s[1] \in rejected'
  PROVE  IInv'
<1> USE DEF Ended, Inactive, None
<1>1. active' \in Playbacks
  BY DEF Playbacks
<1>2. Control'
  BY <1>1 DEF IInv, Control, Stored, Sequential, AnswerHolds, DisabledPlaysNothing, restVars
<1>3. \A s \in sounds' : s[2] = "audio" /\ s[1] \in rejected'
  BY DEF IInv, Outputs, EffectsDoNotOverlap
<1>4. SoundsAwaited' /\ EffectsDoNotOverlap' /\ RecipientsApart'
  BY <1>3 DEF SoundsAwaited, Awaited, EffectsDoNotOverlap, RecipientsApart, Apart
<1> QED
  BY <1>2, <1>4 DEF IInv, Outputs

\* #maybeComplete: either nothing is waited for and the effect ends, or it goes on
\* as a, which satisfies the invariant.
LEMMA ContinueStep ==
  ASSUME IInv, NEW a \in Playbacks, Continue(a), active.item # None, a.item = active.item,
         ~a.finished, ~active.finished, UNCHANGED restVars,
         Sounds', rejected \subseteq rejected', Apart(a, rejected'), Awaited(a, sounds', rejected'),
         a.clients \subseteq connected',
         \A s \in sounds' : s \in sounds \/ s[1] = active.item
  PROVE  IInv'
<1>1. CASE Ended /\ ~a.group /\ a.pending = {}
  <2>1. \A s \in sounds' : s[1] = active.item => s[2] = "audio" /\ s[1] \in rejected'
    BY <1>1 DEF Awaited
  <2>2. \A s \in sounds' : s[2] = "audio" /\ s[1] \in rejected'
    BY <2>1 DEF IInv, Outputs, EffectsDoNotOverlap
  <2>3. active' = Inactive /\ current' = None
    BY <1>1 DEF Ended
  <2>4. active' \in Playbacks
    BY <2>3 DEF Playbacks, Inactive, None
  <2>5. Control'
    BY <2>3, <2>4 DEF IInv, Control, Stored, Sequential, AnswerHolds, DisabledPlaysNothing,
       restVars, Inactive, None
  <2>6. SoundsAwaited' /\ EffectsDoNotOverlap' /\ RecipientsApart'
    BY <2>2, <2>3 DEF SoundsAwaited, Awaited, EffectsDoNotOverlap, RecipientsApart, Apart, Inactive
  <2> QED
    BY <2>5, <2>6 DEF IInv, Outputs
<1>2. CASE active' = a /\ current' = current
  <2>1. Control'
    BY <1>2, ControlKept
  <2>2. RecipientsApart' /\ SoundsAwaited'
    BY <1>2 DEF RecipientsApart, SoundsAwaited
  <2>3. EffectsDoNotOverlap'
    BY <1>2 DEF IInv, Outputs, EffectsDoNotOverlap
  <2> QED
    BY <2>1, <2>2, <2>3 DEF IInv, Outputs
<1> QED
  BY <1>1, <1>2 DEF Continue

-----------------------------------------------------------------------------
\* A stop is asked for, by a skip, the watchdog, disable() or close().
LEMMA StoppedOutputs ==
  ASSUME IInv, active.item # None, active' = Stopped, UNCHANGED world
  PROVE  Outputs' /\ active' \in Playbacks /\ active'.item = active.item /\ active'.finished
<1>1. /\ active'.item = active.item /\ active'.finished /\ active'.preparing = {}
      /\ active'.cleaning = {} /\ active'.ready = {} /\ active'.clients = {}
      /\ active' \in Playbacks
  BY DEF Stopped, IInv, Control, Sequential, Playbacks
<1>2. RecipientsApart'
  BY <1>1 DEF RecipientsApart, Apart
<1>3. Sounds' /\ SoundsAwaited' /\ EffectsDoNotOverlap'
  BY <1>1 DEF IInv, Outputs, Sounds, SoundsAwaited, Awaited, EffectsDoNotOverlap, world
<1> QED
  BY <1>1, <1>2, <1>3 DEF Outputs

\* Every way an effect is told to stop, and the answer of its outputs.
LEMMA StopStep ==
  ASSUME IInv, Skip \/ Watchdog \/ Disable \/ Close \/ StopSettles
  PROVE  IInv'
<1> USE DEF queueVars, admissionVars, policyVars
<1>1. CASE Stop
  <2>1. /\ active.item # None /\ active' = Stopped /\ current' = current
        /\ UNCHANGED restVars /\ UNCHANGED world
    BY <1>1 DEF Stop, restVars
  <2> QED BY <2>1, StoppedOutputs, ControlKept DEF IInv
<1>2. CASE Disable /\ active.item = None
  <2>1. /\ UNCHANGED <<shape, made, admission, enabled, starter>> /\ UNCHANGED outputVars
    BY <1>2 DEF Disable, outputVars, world
  <2>2. current' = None /\ queued' = {} /\ disables > 0 /\ disables' = disables - 1
    BY <1>2 DEF Disable
  <2> QED BY <1>2, <2>1, <2>2, OutputsKept DEF outputVars, None, IInv, Control, Stored, Sequential,
            AnswerHolds, DisabledPlaysNothing
<1>3. CASE Disable /\ active.item # None
  <2>1. /\ UNCHANGED <<current, shape, made, admission, enabled, starter>> /\ UNCHANGED world
    BY <1>3 DEF Disable
  <2>2. active' = Stopped /\ queued' = {} /\ disables > 0 /\ disables' = disables - 1
    BY <1>3 DEF Disable
  <2>3. Outputs' /\ active' \in Playbacks /\ active'.item = active.item /\ active'.finished
    BY <1>3, <2>1, <2>2, StoppedOutputs
  <2>4. starter.at = "idle"
    BY <1>3 DEF IInv, Control, Sequential, Inactive
  <2>5. Stored'
    BY <2>1, <2>2 DEF IInv, Control, Stored
  <2>6. Sequential' /\ AnswerHolds' /\ DisabledPlaysNothing'
    BY <1>3, <2>1, <2>3, <2>4 DEF IInv, Control, Sequential, AnswerHolds, DisabledPlaysNothing
  <2> QED BY <2>3, <2>5, <2>6 DEF IInv, Control
<1>4. CASE Close /\ active.item = None
  <2>1. /\ UNCHANGED <<current, shape, made, admission, enabled, disables, starter>>
        /\ UNCHANGED outputVars /\ queued' = {}
    BY <1>4 DEF Close, outputVars, world
  <2> QED BY <2>1, OutputsKept DEF outputVars, IInv, Control, Stored, Sequential,
            AnswerHolds, DisabledPlaysNothing
<1>5. CASE Close /\ active.item # None
  <2>1. /\ UNCHANGED <<current, shape, made, admission, enabled, disables, starter>>
        /\ UNCHANGED world /\ active' = Stopped /\ queued' = {}
    BY <1>5 DEF Close
  <2>2. Outputs' /\ active' \in Playbacks /\ active'.item = active.item /\ active'.finished
    BY <1>5, <2>1, StoppedOutputs
  <2>3. starter.at = "idle"
    BY <1>5 DEF IInv, Control, Sequential, Inactive
  <2>4. Stored'
    BY <2>1 DEF IInv, Control, Stored
  <2>5. Sequential' /\ AnswerHolds' /\ DisabledPlaysNothing'
    BY <1>5, <2>1, <2>2, <2>3 DEF IInv, Control, Sequential, AnswerHolds, DisabledPlaysNothing
  <2> QED BY <2>2, <2>4, <2>5 DEF IInv, Control
<1>6. CASE StopAcknowledged
  <2>1. Ended /\ UNCHANGED restVars /\ rejected' = rejected /\ connected' = connected
    BY <1>6 DEF StopAcknowledged, restVars
  <2>2. sounds' = {s \in sounds : s[1] # active.item}
    BY <1>6 DEF StopAcknowledged
  <2>3. Sounds'
    BY <2>1, <2>2 DEF IInv, Outputs, Sounds
  <2> QED BY <2>1, <2>2, <2>3, EndedStep
<1>7. CASE StopFails
  <2>1. active.item # None
    BY <1>7 DEF StopFails, IInv, Control, Sequential, Inactive
  <2>2. /\ active' = [active EXCEPT !.stopping = FALSE] /\ current' = current
        /\ UNCHANGED restVars /\ rejected' = rejected /\ connected' = connected
        /\ sounds' \subseteq sounds
    BY <1>7 DEF StopFails, restVars
  <2>3. /\ active' \in Playbacks /\ active'.item = active.item /\ active'.finished = active.finished
        /\ active'.group = active.group /\ active'.preparing = active.preparing
        /\ active'.cleaning = active.cleaning /\ active'.ready = active.ready
        /\ active'.clients = active.clients /\ active'.pending = active.pending
    BY <2>2 DEF IInv, Control, Sequential, Playbacks
  <2>4. Control'
    BY <2>1, <2>2, <2>3, ControlKept
  <2>5. RecipientsApart'
    BY <2>2, <2>3 DEF IInv, Outputs, RecipientsApart, Apart
  <2>6. SoundsAwaited' /\ Sounds' /\ EffectsDoNotOverlap'
    BY <2>2, <2>3 DEF IInv, Outputs, Sounds, SoundsAwaited, Awaited, EffectsDoNotOverlap
  <2> QED BY <2>4, <2>5, <2>6 DEF IInv, Outputs
<1> QED
  BY <1>1, <1>2, <1>3, <1>4, <1>5, <1>6, <1>7 DEF Skip, Watchdog, StopSettles

-----------------------------------------------------------------------------
\* While the group prepares, what its recipients answer only moves them.
LEMMA PreparingStep ==
  ASSUME IInv, active.item # None, active.group, ~active.finished, UNCHANGED restVars,
         current' = current, UNCHANGED world,
         active' \in Playbacks, active'.item = active.item, active'.group = active.group,
         ~active'.finished, active'.clients \subseteq connected, Apart(active', rejected)
  PROVE  IInv'
<1>1. Control'
  BY ControlKept
<1>2. RecipientsApart'
  BY DEF RecipientsApart, world
<1>3. Sounds' /\ SoundsAwaited' /\ EffectsDoNotOverlap'
  BY DEF IInv, Outputs, Sounds, SoundsAwaited, Awaited, EffectsDoNotOverlap, world
<1> QED
  BY <1>1, <1>2, <1>3 DEF IInv, Outputs

\* A recipient is prepared, fails, is told to stop, or was told to.
LEMMA PreparationStep ==
  ASSUME IInv, \/ \E r \in Recipients : PreparationEnds(r)
               \/ \E k \in Kinds : Cleaned(k)
  PROVE  IInv'
<1> USE DEF queueVars, admissionVars, policyVars
<1>1. active \in Playbacks /\ connected \subseteq Clients /\ Apart(active, rejected)
      /\ active.clients \subseteq connected
  BY DEF IInv, Control, Sequential, Outputs, Sounds, RecipientsApart, EffectsDoNotOverlap
<1>2. UNCHANGED restVars /\ current' = current /\ UNCHANGED world
  BY DEF PreparationEnds, BrowserPrepared, Prepared, PrepareFails, PrepareTimesOut, Cleaned, restVars
<1>3. active.preparing # {} \/ active.cleaning # {}
  BY DEF PreparationEnds, BrowserPrepared, Prepared, PrepareFails, PrepareTimesOut, Cleaned
<1>4. active.item # None /\ active.group /\ ~active.finished
  BY <1>1, <1>3 DEF IInv, Control, Sequential, Inactive, Apart
<1>5. CASE BrowserPrepared
  <2> PICK answered \in SUBSET (connected \cup active.gone) :
        active' = [active EXCEPT !.preparing = @ \ {"browser"}, !.ready = @ \cup {"browser"},
                                 !.clients = answered \ active.gone]
    BY <1>5 DEF BrowserPrepared
  <2>1. active' \in Playbacks /\ active'.clients \subseteq connected
    BY <1>1 DEF Playbacks, Recipients
  <2>2. "browser" \in active.preparing
    BY <1>5 DEF BrowserPrepared
  <2>3. Apart(active', rejected)
    BY <1>1, <1>4, <2>2 DEF Apart, Playbacks, Kinds
  <2> QED BY <1>1, <1>2, <1>4, <2>1, <2>3, PreparingStep DEF Playbacks
<1>6. ASSUME NEW k \in Recipients, Prepared(k)
      PROVE  IInv'
  <2>1. k \in active.preparing /\ k \in Kinds
        /\ active' = [active EXCEPT !.preparing = @ \ {k}, !.ready = @ \cup {k}]
    BY <1>6 DEF Prepared
  <2>2. active' \in Playbacks /\ Apart(active', rejected)
    BY <1>1, <1>4, <2>1 DEF Apart, Playbacks
  <2> QED BY <1>1, <1>2, <1>4, <2>1, <2>2, PreparingStep DEF Playbacks
<1>7. ASSUME NEW r \in Recipients, PrepareFails(r)
      PROVE  IInv'
  <2>1. r \in active.preparing
        /\ active' = [active EXCEPT !.preparing = @ \ {r}, !.pending = @ \ {r}]
    BY <1>7 DEF PrepareFails
  <2>2. active' \in Playbacks /\ Apart(active', rejected)
    BY <1>1, <1>4, <2>1 DEF Apart, Playbacks
  <2> QED BY <1>1, <1>2, <1>4, <2>1, <2>2, PreparingStep DEF Playbacks
<1>8. ASSUME NEW r \in Recipients, PrepareTimesOut(r)
      PROVE  IInv'
  <2>1. r \in active.preparing
        /\ active' = [active EXCEPT !.preparing = @ \ {r}, !.cleaning = @ \cup ({r} \cap Kinds)]
    BY <1>8 DEF PrepareTimesOut
  <2>2. active' \in Playbacks /\ Apart(active', rejected)
    BY <1>1, <1>4, <2>1 DEF Apart, Playbacks
  <2> QED BY <1>1, <1>2, <1>4, <2>1, <2>2, PreparingStep DEF Playbacks
<1>9. ASSUME NEW k \in Kinds, Cleaned(k)
      PROVE  IInv'
  <2> PICK acknowledged \in {TRUE} \cup {~StopsMayFail \/ k = "desktop"} :
        active' = [active EXCEPT !.cleaning = @ \ {k},
                                 !.pending = IF acknowledged THEN @ \ {k} ELSE @]
    BY <1>9 DEF Cleaned
  <2>1. k \in active.cleaning
    BY <1>9 DEF Cleaned
  <2>2. active' \in Playbacks /\ Apart(active', rejected)
    BY <1>1, <1>4, <2>1 DEF Apart, Playbacks
  <2> QED BY <1>1, <1>2, <1>4, <2>2, PreparingStep DEF Playbacks
<1> QED
  BY <1>5, <1>6, <1>7, <1>8, <1>9 DEF PreparationEnds

-----------------------------------------------------------------------------
\* The facts about the active effect that the next steps start from.
LEMMA Facts ==
  ASSUME IInv
  PROVE  /\ active \in Playbacks /\ connected \subseteq Clients /\ sounds \subseteq Items \X Kinds
         /\ Apart(active, rejected) /\ Awaited(active, sounds, rejected)
         /\ active.clients \subseteq connected
         /\ active.item # None \/ (active.clients = {} /\ active = Inactive)
BY DEF IInv, Control, Sequential, Outputs, Sounds, RecipientsApart, SoundsAwaited,
       EffectsDoNotOverlap, Inactive

\* What was ready sounds from now on, and is waited for.
LEMMA StartGroupStep == ASSUME IInv, StartGroup PROVE IInv'
<1> USE DEF queueVars, admissionVars, policyVars
<1> PICK shown \in {active.clients, {}} :
      Continue([active EXCEPT !.group = FALSE, !.ready = {}, !.clients = shown])
  BY DEF StartGroup
<1> DEFINE a == [active EXCEPT !.group = FALSE, !.ready = {}, !.clients = shown]
<1>1. UNCHANGED restVars /\ connected' = connected /\ rejected' = rejected
  BY DEF StartGroup, restVars
<1>2. /\ active.item # None /\ ~active.finished /\ active.group
      /\ active.preparing = {} /\ active.cleaning = {}
      /\ sounds' = sounds \cup ({active.item} \X (active.ready \cap Kinds))
  BY DEF StartGroup, IsActive
<1>3. active \in Playbacks /\ connected \subseteq Clients /\ sounds \subseteq Items \X Kinds
      /\ Apart(active, rejected) /\ Awaited(active, sounds, rejected)
      /\ active.clients \subseteq connected
  BY Facts
<1>4. /\ a \in Playbacks /\ a.item = active.item /\ a.clients \subseteq connected
      /\ a.group = FALSE /\ a.ready = {} /\ a.preparing = {} /\ a.cleaning = {}
      /\ a.pending = active.pending /\ a.finished = active.finished
  BY <1>2, <1>3 DEF Playbacks
<1>5. Apart(a, rejected)
  BY <1>2, <1>4 DEF Apart
<1>6. active.item \in Items
  BY <1>2, <1>3 DEF Playbacks
<1>7. Sounds' /\ \A s \in sounds' : s \in sounds \/ s[1] = active.item
  BY <1>1, <1>2, <1>3, <1>6 DEF Sounds
<1>8. Awaited(a, sounds', rejected)
  <2> SUFFICES ASSUME NEW s \in sounds', s[1] = a.item, ~a.finished
               PROVE  (s[2] = "audio" /\ s[1] \in rejected) \/ s[2] \in a.pending
    BY <1>4 DEF Awaited
  <2>1. CASE s \in sounds
    BY <2>1, <1>2, <1>3, <1>4 DEF Awaited
  <2>2. CASE s \in {active.item} \X (active.ready \cap Kinds)
    BY <2>2, <1>3, <1>4 DEF Apart
  <2> QED BY <2>1, <2>2, <1>2
<1> HIDE DEF a
<1> QED
  BY <1>1, <1>2, <1>4, <1>5, <1>7, <1>8, ContinueStep DEF a

\* A play ends, a browser reports its end or leaves, or an audio rejects.
LEMMA OutputStep ==
  ASSUME IInv, \/ \E i \in Items, k \in Kinds : PlayEnds(i, k)
               \/ AudioRejects
               \/ \E c \in Clients : ReportFinished(c) \/ Disconnect(c)
  PROVE  IInv'
<1> USE DEF queueVars, admissionVars, policyVars
<1>1. UNCHANGED restVars
  BY DEF PlayEnds, AudioRejects, ReportFinished, Disconnect, restVars, world
<1>2. /\ active \in Playbacks /\ connected \subseteq Clients /\ sounds \subseteq Items \X Kinds
      /\ Apart(active, rejected) /\ Awaited(active, sounds, rejected)
      /\ active.clients \subseteq connected
      /\ active.item # None \/ (active.clients = {} /\ active = Inactive)
  BY Facts
<1>3. ASSUME NEW i \in Items, NEW k \in Kinds, PlayEnds(i, k)
      PROVE  IInv'
  <2>1. sounds' = sounds \ {<<i, k>>} /\ rejected' = rejected /\ connected' = connected
        /\ <<i, k>> \in sounds
    BY <1>3 DEF PlayEnds
  <2>2. CASE IsActive /\ i = active.item
    <3> DEFINE a == [active EXCEPT !.pending = @ \ {k}]
    <3>1. Continue(a) /\ active.item # None /\ ~active.finished
      BY <1>3, <2>2 DEF PlayEnds, IsActive
    <3>2. /\ a \in Playbacks /\ a.item = active.item /\ a.clients \subseteq connected
          /\ a.finished = active.finished /\ a.group = active.group /\ a.ready = active.ready
          /\ a.preparing = active.preparing /\ a.cleaning = active.cleaning
          /\ a.pending = active.pending \ {k}
      BY <1>2 DEF Playbacks
    <3>3. active.group => k = "audio" /\ active.item \in rejected
      BY <1>2, <2>1, <2>2, <3>1 DEF Awaited
    <3>4. Apart(a, rejected)
      BY <1>2, <3>1, <3>2, <3>3 DEF Apart
    <3>5. Awaited(a, sounds', rejected)
      <4> SUFFICES ASSUME NEW s \in sounds', s[1] = a.item, ~a.finished
                   PROVE  (s[2] = "audio" /\ s[1] \in rejected)
                          \/ (~a.group /\ s[2] \in a.pending)
        BY DEF Awaited
      <4>1. s # <<i, k>> /\ s \in sounds /\ s = <<s[1], s[2]>>
        BY <1>2, <2>1
      <4>2. s[2] # k
        BY <4>1, <2>2, <3>2
      <4> QED BY <1>2, <3>2, <4>1, <4>2 DEF Awaited
    <3>6. Sounds' /\ \A s \in sounds' : s \in sounds
      BY <1>2, <2>1 DEF Sounds
    <3> HIDE DEF a
    <3> QED BY <1>1, <2>1, <3>1, <3>2, <3>4, <3>5, <3>6, ContinueStep
  <2>3. CASE ~(IsActive /\ i = active.item)
    <3>1. UNCHANGED <<active, current>>
      BY <1>3, <2>3 DEF PlayEnds
    <3> QED BY <1>1, <2>1, <3>1 DEF restVars, IInv, Control, Outputs, Stored, Sequential, AnswerHolds,
              DisabledPlaysNothing, Sounds, RecipientsApart, SoundsAwaited, Awaited,
              EffectsDoNotOverlap
  <2> QED BY <2>2, <2>3
<1>4. CASE AudioRejects
  <2> DEFINE a == [active EXCEPT !.pending = @ \ {"audio"}]
  <2>1. /\ Continue(a) /\ active.item # None /\ ~active.finished
        /\ sounds' = sounds /\ connected' = connected /\ rejected' = rejected \cup {active.item}
    BY <1>4 DEF AudioRejects, IsActive
  <2>2. /\ a \in Playbacks /\ a.item = active.item /\ a.clients \subseteq connected
        /\ a.finished = active.finished /\ a.group = active.group /\ a.ready = active.ready
        /\ a.preparing = active.preparing /\ a.cleaning = active.cleaning
        /\ a.pending = active.pending \ {"audio"}
    BY <1>2 DEF Playbacks
  <2>3. Apart(a, rejected')
    BY <1>2, <2>1, <2>2 DEF Apart
  <2>4. Awaited(a, sounds', rejected')
    BY <1>2, <2>1, <2>2 DEF Awaited
  <2>5. Sounds'
    BY <1>2, <2>1 DEF Sounds
  <2> HIDE DEF a
  <2> QED BY <1>1, <2>1, <2>2, <2>3, <2>4, <2>5, ContinueStep
<1>5. ASSUME NEW c \in Clients, ReportFinished(c)
      PROVE  IInv'
  <2> DEFINE a == [active EXCEPT !.clients = @ \ {c}]
  <2>1. /\ Continue(a) /\ active.item # None /\ ~active.finished
        /\ sounds' = sounds /\ connected' = connected /\ rejected' = rejected
    BY <1>2, <1>5 DEF ReportFinished, world
  <2>2. /\ a \in Playbacks /\ a.item = active.item /\ a.clients \subseteq connected
        /\ a.finished = active.finished /\ a.group = active.group /\ a.ready = active.ready
        /\ a.preparing = active.preparing /\ a.cleaning = active.cleaning
        /\ a.pending = active.pending
    BY <1>2 DEF Playbacks
  <2>3. Apart(a, rejected') /\ Awaited(a, sounds', rejected') /\ Sounds'
    BY <1>2, <2>1, <2>2 DEF Apart, Awaited, Sounds
  <2> HIDE DEF a
  <2> QED BY <1>1, <2>1, <2>2, <2>3, ContinueStep
<1>6. ASSUME NEW c \in Clients, Disconnect(c)
      PROVE  IInv'
  <2>1. sounds' = sounds /\ connected' = connected \ {c} /\ rejected' = rejected
    BY <1>6 DEF Disconnect
  <2>2. CASE active.item # None /\ ~active.finished
    <3> DEFINE a == [active EXCEPT !.gone = @ \cup {c}, !.clients = @ \ {c}]
    <3>1. Continue(a)
      BY <1>6, <2>2 DEF Disconnect
    <3>2. /\ a \in Playbacks /\ a.item = active.item /\ a.clients \subseteq connected'
          /\ a.finished = active.finished /\ a.group = active.group /\ a.ready = active.ready
          /\ a.preparing = active.preparing /\ a.cleaning = active.cleaning
          /\ a.pending = active.pending
      BY <1>2, <2>1 DEF Playbacks
    <3>3. Apart(a, rejected') /\ Awaited(a, sounds', rejected') /\ Sounds'
      BY <1>2, <2>1, <2>2, <3>2 DEF Apart, Awaited, Sounds
    <3> HIDE DEF a
    <3> QED BY <1>1, <2>1, <2>2, <3>1, <3>2, <3>3, ContinueStep
  <2>3. CASE ~(active.item # None /\ ~active.finished)
    <3>1. UNCHANGED <<active, current>>
      BY <1>6, <2>3 DEF Disconnect
    <3>2. active.clients = {}
      BY <1>2, <2>3 DEF Apart
    <3>3. EffectsDoNotOverlap'
      BY <2>1, <3>1, <3>2 DEF IInv, Outputs, EffectsDoNotOverlap
    <3> QED BY <1>1, <2>1, <3>1, <3>3 DEF restVars, IInv, Control, Outputs, Stored, Sequential,
              AnswerHolds, DisabledPlaysNothing, Sounds, RecipientsApart, SoundsAwaited
  <2> QED BY <2>2, <2>3
<1> QED
  BY <1>3, <1>4, <1>5, <1>6

-----------------------------------------------------------------------------
\* The invariant is inductive.
LEMMA IInvStep == IInv /\ [EffectNext]_effectVars => IInv'
<1> SUFFICES ASSUME IInv, [EffectNext]_effectVars
             PROVE  IInv'
  OBVIOUS
<1>1. CASE UNCHANGED effectVars
  BY <1>1, Untouched DEF effectVars, queueVars, admissionVars, policyVars, controlVars, outputVars
<1>2. CASE EffectNext
  BY <1>2, QueueStep, StarterStep, PreparationStep, StartGroupStep, OutputStep, StopStep
     DEF EffectNext
<1> QED
  BY <1>1, <1>2

\* Two effects never play over each other, but for audio that rejected its start
\* and is not stopped, and only connected clients are waited for.
THEOREM EffectsNeverOverlap == EffectSpec => []EffectsDoNotOverlap
<1>1. IInv => EffectsDoNotOverlap
  BY DEF IInv, Outputs
<1> QED
  BY <1>1, InitIInv, IInvStep, PTL DEF EffectSpec

\* Once disable() has run, a disabled module plays nothing, wherever startNext()
\* was when the configuration changed.
THEOREM DisabledStaysSilent == EffectSpec => []DisabledPlaysNothing
<1>1. IInv => DisabledPlaysNothing
  BY DEF IInv, Control
<1> QED
  BY <1>1, InitIInv, IInvStep, PTL DEF EffectSpec
-----------------------------------------------------------------------------
\* Given the invariant, what is left behind and what an event has still to call
\* startNext() for need no further strengthening.
Drive == calls \in Nat /\ PendingIsDriven
driveVars == <<queued, modulePaused, own, held, starter, closed, left>>

\* The effect that is active stays it.
LEMMA DriveKept ==
  ASSUME Drive, UNCHANGED driveVars, UNCHANGED <<current, calls>>, active'.item = active.item
  PROVE  Drive'
BY DEF driveVars, Drive, PendingIsDriven

\* Its end makes a call of startNext() due.
LEMMA DriveEnded ==
  ASSUME Drive, UNCHANGED driveVars, Ended
  PROVE  Drive'
<1>1. current' = None /\ calls' = IF closed THEN calls ELSE calls + 1
  BY DEF Ended
<1>2. calls' \in Nat /\ (closed \/ calls' > 0)
  BY <1>1 DEF Drive
<1> QED
  BY <1>1, <1>2 DEF driveVars, Drive, PendingIsDriven

\* #maybeComplete does one or the other.
LEMMA DriveContinue ==
  ASSUME Drive, UNCHANGED driveVars, NEW a, Continue(a), a.item = active.item
  PROVE  Drive'
<1>1. Ended \/ (active' = a /\ UNCHANGED <<current, calls>>)
  BY DEF Continue
<1> QED
  BY <1>1, DriveKept, DriveEnded

\* What the outputs do.
LEMMA DriveOutput ==
  ASSUME IInv, Drive,
         \/ \E r \in Recipients : PreparationEnds(r)
         \/ \E k \in Kinds : Cleaned(k)
         \/ StartGroup \/ AudioRejects \/ Skip \/ Watchdog \/ StopSettles
         \/ \E i \in Items, k \in Kinds : PlayEnds(i, k)
         \/ \E c \in Clients : ReportFinished(c) \/ Disconnect(c)
  PROVE  Drive'
<1> USE DEF queueVars, admissionVars, policyVars, history
<1>0. active \in Playbacks
  BY DEF IInv, Control, Sequential
<1>1. UNCHANGED driveVars
  BY DEF driveVars, PreparationEnds, BrowserPrepared, Prepared, PrepareFails, PrepareTimesOut,
     Cleaned, StartGroup, AudioRejects, Skip, Watchdog, Stop, StopSettles, StopAcknowledged,
     StopFails, PlayEnds, ReportFinished, Disconnect
<1>2. ASSUME NEW r \in Recipients, PreparationEnds(r) PROVE Drive'
  <2>1. UNCHANGED <<current, calls>>
    BY <1>2 DEF PreparationEnds, BrowserPrepared, Prepared, PrepareFails, PrepareTimesOut
  <2>2. active'.item = active.item
    BY <1>0, <1>2 DEF PreparationEnds, BrowserPrepared, Prepared, PrepareFails, PrepareTimesOut,
       Playbacks
  <2> QED BY <1>1, <2>1, <2>2, DriveKept
<1>3. ASSUME NEW k \in Kinds, Cleaned(k) PROVE Drive'
  BY <1>0, <1>1, <1>3, DriveKept DEF Cleaned, Playbacks
<1>4. CASE StartGroup
  <2> PICK shown \in {active.clients, {}} :
        Continue([active EXCEPT !.group = FALSE, !.ready = {}, !.clients = shown])
    BY <1>4 DEF StartGroup
  <2> QED BY <1>0, <1>1, DriveContinue DEF Playbacks
<1>5. CASE AudioRejects
  BY <1>0, <1>1, <1>5, DriveContinue DEF AudioRejects, Playbacks
<1>6. CASE Stop
  BY <1>0, <1>1, <1>6, DriveKept DEF Stop, Stopped, Playbacks
<1>7. CASE StopAcknowledged
  BY <1>1, <1>7, DriveEnded DEF StopAcknowledged
<1>8. CASE StopFails
  BY <1>0, <1>1, <1>8, DriveKept DEF StopFails, Playbacks
<1>9. ASSUME NEW i \in Items, NEW k \in Kinds, PlayEnds(i, k) PROVE Drive'
  <2>1. \/ Continue([active EXCEPT !.pending = @ \ {k}])
        \/ UNCHANGED <<active, current, calls>>
    BY <1>9 DEF PlayEnds
  <2> QED BY <1>0, <1>1, <2>1, DriveKept, DriveContinue DEF Playbacks
<1>10. ASSUME NEW c \in Clients, ReportFinished(c) PROVE Drive'
  BY <1>0, <1>1, <1>10, DriveContinue DEF ReportFinished, Playbacks
<1>11. ASSUME NEW c \in Clients, Disconnect(c) PROVE Drive'
  <2>1. \/ Continue([active EXCEPT !.gone = @ \cup {c}, !.clients = @ \ {c}])
        \/ UNCHANGED <<active, current, calls>>
    BY <1>11 DEF Disconnect
  <2> QED BY <1>0, <1>1, <2>1, DriveKept, DriveContinue DEF Playbacks
<1> QED
  BY <1>2, <1>3, <1>4, <1>5, <1>6, <1>7, <1>8, <1>9, <1>10, <1>11 DEF Skip, Watchdog, StopSettles

\* A match, a replay and the end of an event: what is queued is driven, waits for
\* its event, or is left behind.
LEMMA DriveAdmission == ASSUME Drive, Admission PROVE Drive'
<1> USE DEF queueVars, admissionVars, policyVars, history
<1>0. UNCHANGED <<current, modulePaused, held, starter, active, closed>>
  BY DEF Admission, BeginAdmission, RejectAdmission, Enqueue, EventHandled, MatchThrows
<1>1. CASE BeginAdmission \/ RejectAdmission
  <2>1. UNCHANGED <<queued, own, left, calls>>
    BY <1>1 DEF BeginAdmission, RejectAdmission
  <2> QED BY <1>0, <2>1, DriveKept DEF driveVars
<1>2. ASSUME NEW s \in Shapes, Enqueue(s) PROVE Drive'
  <2>1. /\ queued' = queued \cup {made + 1}
        /\ \/ own' = own \cup {made + 1} /\ UNCHANGED <<calls, left>>
           \/ calls' = calls + 1 /\ UNCHANGED <<own, left>>
           \/ left' = left \cup {made + 1} /\ UNCHANGED <<own, calls>>
    BY <1>2 DEF Enqueue
  <2>2. CASE calls' = calls + 1 /\ UNCHANGED <<own, left>>
    <3>1. calls' \in Nat /\ calls' > 0
      BY <2>2 DEF Drive
    <3> QED BY <1>0, <2>1, <2>2, <3>1 DEF Drive, PendingIsDriven
  <2>3. CASE calls' = calls /\ own \subseteq own' /\ left \subseteq left' /\ made + 1 \in own' \cup left'
    BY <1>0, <2>1, <2>3 DEF Drive, PendingIsDriven
  <2> QED BY <2>1, <2>2, <2>3
<1>3. CASE EventHandled
  <2>1. UNCHANGED <<queued, left>> /\ calls' = calls + 1
    BY <1>3 DEF EventHandled
  <2>2. calls' \in Nat /\ calls' > 0
    BY <2>1 DEF Drive
  <2> QED BY <1>0, <2>1, <2>2 DEF Drive, PendingIsDriven
<1>4. CASE MatchThrows
  <2>1. UNCHANGED <<queued, calls>> /\ own' = {} /\ left' = left \cup (own \cap queued)
    BY <1>4 DEF MatchThrows
  <2> QED BY <1>0, <2>1 DEF Drive, PendingIsDriven
<1> QED
  BY <1>1, <1>2, <1>3, <1>4 DEF Admission

\* The queue's owner and the policy: they take effects out of the queue, or
\* look at it, or hold it back.
LEMMA DriveOperation ==
  ASSUME IInv, Drive,
         \/ QueueOperation \/ DisableModule \/ EnableModule \/ Disable \/ Close
         \/ BeginMaintenance \/ EndMaintenance
  PROVE  Drive'
<1> USE DEF queueVars, admissionVars, policyVars, history
<1>0. active \in Playbacks
  BY DEF IInv, Control, Sequential
<1>1. CASE \/ DisableModule \/ EnableModule \/ BeginMaintenance \/ EndMaintenance
  <2>1. UNCHANGED driveVars /\ UNCHANGED <<current, calls, active>>
    BY <1>1 DEF DisableModule, EnableModule, BeginMaintenance, EndMaintenance, driveVars
  <2> QED BY <2>1, DriveKept
<1>2. ASSUME \/ ClearPending \/ \E i \in Items : Remove(i)
      PROVE  Drive'
  <2>1. /\ UNCHANGED <<current, modulePaused, own, held, starter, active, closed, left, calls>>
        /\ queued' \subseteq queued
    BY <1>2 DEF ClearPending, Remove
  <2> QED BY <2>1 DEF Drive, PendingIsDriven
<1>3. ASSUME NEW value \in BOOLEAN, SetPaused(value) PROVE Drive'
  <2>1. /\ UNCHANGED <<current, queued, own, held, active, closed, left, calls>>
        /\ modulePaused' = value /\ starter' = IF value THEN starter ELSE Entered
    BY <1>3 DEF SetPaused
  <2>2. \/ starter' = starter /\ (modulePaused' \/ closed \/ starter.at # "idle" \/ active.item # None)
        \/ starter'.at = "module" /\ starter.at = "idle" /\ active.item = None
    BY <2>1 DEF Entered, Asking
  <2> QED BY <2>1, <2>2 DEF Drive, PendingIsDriven
<1>4. ASSUME NEW value \in BOOLEAN, SetSafety(value) PROVE Drive'
  <2>1. /\ UNCHANGED <<current, queued, modulePaused, own, starter, active, closed, left>>
        /\ calls' = calls + 1
    BY <1>4 DEF SetSafety
  <2>2. calls' \in Nat /\ calls' > 0
    BY <2>1 DEF Drive
  <2> QED BY <2>1, <2>2 DEF Drive, PendingIsDriven
<1>5. CASE Disable \/ Close
  <2>1. UNCHANGED <<own, held, starter, left, calls>> /\ queued' = {}
    BY <1>5 DEF Disable, Close
  <2>2. /\ active'.item = active.item
        /\ current' = current \/ current' = None
    BY <1>0, <1>5 DEF Disable, Close, Stopped, Playbacks
  <2> QED BY <2>1, <2>2 DEF Drive, PendingIsDriven
<1> QED
  BY <1>1, <1>2, <1>3, <1>4, <1>5 DEF QueueOperation

\* The loop of startNext() passes the effect on, or leaves what it knew of behind.
LEMMA DriveReturns ==
  ASSUME Drive, LoopReturns, UNCHANGED <<calls, active>>, queued' \subseteq queued,
         current' \in queued \cup {current}
  PROVE  Drive'
<1>1. left' = queued \cup ({current} \ {None})
  BY DEF LoopReturns
<1> QED
  BY <1>1 DEF Drive, PendingIsDriven

LEMMA DriveStarter == ASSUME IInv, Drive, StartNext PROVE Drive'
<1> USE DEF queueVars, admissionVars, policyVars, history
<1>0. UNCHANGED <<modulePaused, own, held, closed>>
  BY DEF StartNext, CallStartNext, ReadModule, Advance, Validate, StartOrFail, LoopThrows
<1>1. starter.at # "idle" => active.item = None
  BY DEF IInv, Control, Sequential, Inactive
<1>2. CASE CallStartNext
  <2>1. UNCHANGED <<current, queued, left, active>> /\ calls' = calls - 1 /\ calls > 0
    BY <1>2 DEF CallStartNext
  <2>2. \/ starter' = starter /\ (closed \/ starter.at # "idle" \/ active.item # None)
        \/ starter'.at = "module" /\ starter.at = "idle" /\ active.item = None
    BY <1>2 DEF CallStartNext, Entered, Asking
  <2>3. calls' \in Nat
    BY <2>1 DEF Drive
  <2>4. closed \/ starter'.at # "idle" \/ active.item # None
    BY <2>2
  <2> QED BY <1>0, <2>1, <2>2, <2>3, <2>4 DEF Drive, PendingIsDriven
<1>3. CASE ReadModule
  <2>1. UNCHANGED <<current, queued, left, active, calls>>
    BY <1>3 DEF ReadModule
  <2>2. \/ starter.at = "module" /\ starter' = [at |-> "advance", answer |-> enabled]
        \/ starter.at = "module again" /\ starter' = [at |-> "start", answer |-> enabled]
    BY <1>3 DEF ReadModule
  <2>3. \/ starter.at = "module" /\ starter'.at = "advance"
        \/ starter.at = "module again" /\ starter'.at = "start"
    <3>1. CASE starter' = [at |-> "advance", answer |-> enabled]
      <4>1. starter'.at = "advance"
        BY <3>1
      <4> QED BY <2>2, <3>1, <4>1
    <3>2. CASE starter' = [at |-> "start", answer |-> enabled]
      <4>1. starter'.at = "start"
        BY <3>2
      <4> QED BY <2>2, <3>2, <4>1
    <3> QED BY <2>2, <3>1, <3>2
  <2> QED BY <1>0, <2>1, <2>3 DEF Drive, PendingIsDriven
<1>4. CASE Validate
  <2>1. UNCHANGED <<current, queued, left, active, calls>> /\ starter.at = "validate"
    BY <1>4 DEF Validate
  <2>2. \/ starter' = [at |-> "module again", answer |-> FALSE]
        \/ starter' = [at |-> "start", answer |-> FALSE]
    BY <1>4 DEF Validate
  <2>3. starter'.at \in {"module again", "start"}
    <3>1. CASE starter' = [at |-> "module again", answer |-> FALSE]
      <4>1. starter'.at = "module again"
        BY <3>1
      <4> QED BY <4>1
    <3>2. CASE starter' = [at |-> "start", answer |-> FALSE]
      <4>1. starter'.at = "start"
        BY <3>2
      <4> QED BY <4>1
    <3> QED BY <2>2, <3>1, <3>2
  <2> QED BY <1>0, <2>1, <2>3 DEF Drive, PendingIsDriven
<1>5. CASE Advance
  <2>1. UNCHANGED <<active, calls>> /\ starter.at = "advance"
    BY <1>5 DEF Advance
  <2>2. CASE LoopReturns
    <3>1. queued' \subseteq queued /\ current' \in queued \cup {current}
      BY <1>5 DEF Advance
    <3> QED BY <1>0, <2>1, <2>2, <3>1, DriveReturns
  <2>3. CASE starter'.at = "validate"
    BY <1>0, <2>1, <2>3 DEF Drive, PendingIsDriven
  <2>4. CASE ~MayAdvance /\ left' = left \cap {current} /\ UNCHANGED <<current, queued>>
             /\ starter' = NotStarting
    <3>1. current # None => current \in left
      BY <1>1, <2>1 DEF Drive, PendingIsDriven
    <3> QED BY <1>0, <2>1, <2>4, <3>1 DEF MayAdvance, Drive, PendingIsDriven
  <2>5. \/ LoopReturns
        \/ starter' = [at |-> "validate", answer |-> FALSE]
        \/ /\ ~MayAdvance /\ left' = left \cap {current} /\ UNCHANGED <<current, queued>>
           /\ starter' = NotStarting
    BY <1>5 DEF Advance
  <2>6. starter' = [at |-> "validate", answer |-> FALSE] => starter'.at = "validate"
    OBVIOUS
  <2> QED BY <2>2, <2>3, <2>4, <2>5, <2>6
<1>6. CASE LoopThrows
  BY <1>6, DriveReturns DEF LoopThrows
<1>7. CASE StartOrFail
  <2>1. queued' = queued /\ calls' = calls
    BY <1>7 DEF StartOrFail
  <2>2. CASE LoopReturns /\ UNCHANGED <<current, active>>
    BY <2>1, <2>2, DriveReturns
  <2>3. CASE /\ current' = None /\ UNCHANGED left
             /\ starter' = IF closed THEN NotStarting ELSE Asking
    <3>1. closed \/ starter'.at # "idle"
      BY <2>3 DEF Asking
    <3> QED BY <1>0, <2>1, <2>3, <3>1 DEF Drive, PendingIsDriven
  <2>4. CASE /\ current # None /\ active' = Playing(current) /\ UNCHANGED <<current, left>>
    <3>1. active'.item # None
      BY <2>4 DEF Playing, Inactive
    <3> QED BY <1>0, <2>1, <2>4, <3>1 DEF Drive, PendingIsDriven
  <2> QED BY <1>7, <2>2, <2>3, <2>4 DEF StartOrFail
<1> QED
  BY <1>2, <1>3, <1>4, <1>5, <1>6, <1>7 DEF StartNext

\* The current effect is played or about to start, and a pending effect that
\* nothing holds back is driven or waits for its event, but for those left behind
\* by a throw or by a loop that ended early.
THEOREM PendingAlwaysDriven == EffectSpec => []PendingIsDriven
<1>1. EffectInit => Drive
  BY DEF EffectInit, Drive, PendingIsDriven
<1>2. IInv /\ Drive /\ [EffectNext]_effectVars => Drive'
  <2> SUFFICES ASSUME IInv, Drive, [EffectNext]_effectVars
               PROVE  Drive'
    OBVIOUS
  <2>1. CASE UNCHANGED effectVars
    BY <2>1, DriveKept DEF effectVars, queueVars, admissionVars, policyVars, history, driveVars
  <2>2. CASE EffectNext
    BY <2>2, DriveAdmission, DriveOperation, DriveStarter, DriveOutput DEF EffectNext
  <2> QED BY <2>1, <2>2
<1>3. Drive => PendingIsDriven
  BY DEF Drive
<1> QED
  BY <1>1, <1>2, <1>3, InitIInv, IInvStep, PTL DEF EffectSpec
=============================================================================
