-------------------------- MODULE TimerRuntimeProofs --------------------------
(***************************************************************************)
(* That timers leak no media, play each cue once and never after a stop,   *)
(* publish and save what they do, and leave no run undriven: for any       *)
(* number of timers, runs, failed writes and ends of the process.          *)
(*                                                                         *)
(* A command is a composition of operators on the state `now`; the proof   *)
(* follows it: each operator keeps CallOK, and a call that takes effect on *)
(* a state that is CallOK keeps the invariant of the variables.            *)
(***************************************************************************)
EXTENDS TimerRuntime, TLAPS

Most == IF Hold > Longest THEN Hold ELSE Longest
Statuses == {"idle", "running", "paused", "completed"}
Entry == [generation : 0 .. MaxRuns, left : 0 .. Most, status : Statuses, armed : BOOLEAN]
Waiting == [generation : Generations, timer : Timers, phase : {"media", "adjust", "cue"},
            paused : BOOLEAN, adjustment : Adjustments \cup {NoAdjustment}, after : 0 .. MaxRuns]
CueCalls == [generation : Generations, cue : Cues, phase : {"preparing", "playing"}]

\* The states a synchronous call works on.
States == [entries : [Timers -> Entry], starting : SUBSET Waiting, releases : SUBSET Generations,
           cues : SUBSET CueCalls, generations : 0 .. MaxRuns,
           plays : [Generations -> [Cues -> 0 .. 2]], stopped : SUBSET Generations,
           published : SUBSET [Timers -> Entry]]

-----------------------------------------------------------------------------
(* The invariant of a state *)

EntryOK(e) ==
  /\ e.generation = 0 => e = Idle
  /\ e.generation # 0 => e.status # "idle"
  /\ e.armed => e.status \in {"running", "completed"}
  /\ e.status = "paused" => e.left > 0
  /\ e.status # "completed" => e.left <= Longest

\* A generation is one run of one timer, made before now; what was stopped is gone.
OwnRuns(s) ==
  /\ \A t \in Timers : EntryOK(s.entries[t]) /\ s.entries[t].generation <= s.generations
  /\ \A t \in Timers : s.entries[t].generation \notin s.stopped
  /\ \A g \in s.stopped : g <= s.generations
  /\ \A t, u \in Timers :
       s.entries[t].generation = s.entries[u].generation /\ s.entries[t].generation # 0 => t = u

\* A call that waits is the only one of its run.
OwnCalls(s) ==
  /\ \A r \in s.starting : /\ r.generation <= s.generations /\ (r.paused <=> r.adjustment # NoAdjustment)
                           /\ r.phase # "media" => r.adjustment # NoAdjustment
  /\ \A r, q \in s.starting : r.generation = q.generation => r = q
  /\ \A r \in s.starting, t \in Timers : s.entries[t].generation = r.generation => t = r.timer

\* A cue that may still be asked for was not.
OwnCues(s) ==
  /\ \A g \in Generations, c \in Cues : s.plays[g][c] <= 1
  /\ \A g \in Generations, c \in Cues : g > s.generations => s.plays[g][c] = 0
  /\ \A t \in Timers : s.entries[t].status \in {"running", "paused"}
                         => s.plays[s.entries[t].generation]["end"] = 0
  /\ \A r \in s.starting : s.plays[r.generation]["start"] = 0
  /\ \A c \in s.cues : c.generation \notin s.stopped

\* Media are of a run that is there, or were asked to be released.
Kept(s, held) == \A g \in held : g \in s.releases \/ \E t \in Timers : s.entries[t].generation = g

AwaitsMedia(s, t) ==
  \E r \in s.starting : r.timer = t /\ r.phase = "media" /\ s.entries[t].generation = r.generation
DrivenAt(s, t) ==
  s.entries[t].status \in {"running", "completed"} /\ ~s.entries[t].armed => AwaitsMedia(s, t)

\* What s did to timer t is published, unless its media are still to come.
HeardAt(s, t) ==
  \/ AwaitsMedia(s, t)
  \/ s.published = {} /\ s.entries[t] = entries[t] /\ ~AwaitsMedia(now, t)
  \/ s.published # {} /\ \A ents \in s.published : ents[t] = s.entries[t]

\* What is published is the entries of some moment of the call.
EntriesOK(ents, made) ==
  /\ \A t \in Timers : EntryOK(ents[t]) /\ ents[t].generation <= made
  /\ \A t, u \in Timers : ents[t].generation = ents[u].generation /\ ents[t].generation # 0 => t = u
OwnShown(s) == \A ents \in s.published : EntriesOK(ents, s.generations)

Sound(s) == OwnRuns(s) /\ OwnCalls(s) /\ OwnCues(s) /\ OwnShown(s)
CallOK(s) ==
  /\ s \in States /\ Sound(s) /\ Kept(s, leases)
  /\ \A t \in Timers : DrivenAt(s, t) /\ HeardAt(s, t)

\* n differs from s by its entries and by what it published.
OnlyEntries(n, s) ==
  /\ n.starting = s.starting /\ n.releases = s.releases /\ n.cues = s.cues
  /\ n.generations = s.generations /\ n.plays = s.plays /\ n.stopped = s.stopped

-----------------------------------------------------------------------------
(* The invariant of the variables *)

SavedOnce ==
  /\ \A a, b \in saved : a.timer = b.timer => a = b
  /\ \A a, b \in saved : a.generation = b.generation => a.timer = b.timer
  /\ \A a \in saved : a.generation <= generations

\* The rows that stand for a run.
RowsFit(rows, t, e) ==
  CASE e.status = "paused" -> rows = {[timer |-> t, generation |-> e.generation, left |-> e.left]}
    [] e.status = "running" ->
         /\ \A row \in rows : row.generation = e.generation /\ row.left >= e.left
         /\ e.left > 0 => rows # {}
    [] OTHER -> rows = {}
RowsOf(t) == {row \in saved : row.timer = t}
AnnouncedAt(t) ==
  \/ unpublished \/ AwaitsMedia(now, t)
  \/ /\ told[t] = <<entries[t].generation, entries[t].status>>
     /\ ~dirty => RowsFit(RowsOf(t), t, entries[t])

TimerInv ==
  /\ TimerTypeOK /\ Sound(now) /\ Kept(now, leases) /\ SavedOnce /\ (dirty => checkpoint)
  /\ \A t \in Timers : DrivenAt(now, t) /\ AnnouncedAt(t)

-----------------------------------------------------------------------------
(* Operators on a state *)

LEMMA NowFields ==
  /\ now.entries = entries /\ now.starting = starting /\ now.releases = releases /\ now.cues = cues
  /\ now.generations = generations /\ now.plays = plays /\ now.stopped = stopped /\ now.published = {}
BY DEF now

\* A state that has the variables' values is one a call can begin with.
LEMMA NowOK == TimerInv => CallOK(now)
<1> SUFFICES ASSUME TimerInv PROVE CallOK(now)
  OBVIOUS
<1>1. now \in States
  BY DEF TimerInv, TimerTypeOK, now, States, Entry, Statuses, Waiting, CueCalls, Most
<1>2. \A t \in Timers : HeardAt(now, t)
  BY NowFields DEF HeardAt
<1> QED
  BY <1>1, <1>2 DEF TimerInv, CallOK

LEMMA ShownNow == \A s : OwnRuns(s) => EntriesOK(s.entries, s.generations)
BY DEF OwnRuns, EntriesOK

\* A run of which only the entry changes, to one that is driven and published.
LEMMA EntryChanged ==
  ASSUME NEW s, CallOK(s), NEW n \in States, NEW t \in Timers, NEW e \in Entry,
         OnlyEntries(n, s), n.entries = [s.entries EXCEPT ![t] = e], n.published = {n.entries},
         EntryOK(e), e.generation = s.entries[t].generation,
         e.armed \/ e.status \notin {"running", "completed"},
         e.status \in {"running", "paused"} => s.entries[t].status \in {"running", "paused"}
  PROVE  CallOK(n)
<1> USE DEF OnlyEntries
<1>1. s \in States /\ Sound(s) /\ Kept(s, leases) /\ \A u \in Timers : DrivenAt(s, u)
  BY DEF CallOK
<1>2. /\ n.entries[t] = e
      /\ \A u \in Timers : u # t => n.entries[u] = s.entries[u]
      /\ \A u \in Timers : n.entries[u].generation = s.entries[u].generation
  BY <1>1 DEF States
<1>3. OwnRuns(n)
  BY <1>1, <1>2 DEF OwnRuns, Sound
<1>4. OwnCalls(n)
  BY <1>1, <1>2 DEF OwnCalls, Sound
<1>5. OwnCues(n)
  <2>1. OwnCues(s)
    BY <1>1 DEF Sound
  <2>2. ASSUME NEW u \in Timers, n.entries[u].status \in {"running", "paused"}
        PROVE  n.plays[n.entries[u].generation]["end"] = 0
    <3>1. s.entries[u].status \in {"running", "paused"}
      BY <1>2, <2>2
    <3> QED
      BY <3>1, <2>1, <1>2 DEF OwnCues
  <2> QED
    BY <2>1, <2>2 DEF OwnCues
<1>6. Kept(n, leases)
  BY <1>1, <1>2 DEF Kept
<1>7. ASSUME NEW u \in Timers PROVE DrivenAt(n, u) /\ HeardAt(n, u)
  <2>1. AwaitsMedia(s, u) => AwaitsMedia(n, u)
    BY <1>2 DEF AwaitsMedia
  <2>2. DrivenAt(n, u)
    BY <1>1, <1>2, <2>1 DEF DrivenAt
  <2> QED
    BY <2>2 DEF HeardAt
<1>8. OwnShown(n)
  BY <1>3, ShownNow DEF OwnShown
<1> QED
  BY <1>3, <1>4, <1>5, <1>6, <1>7, <1>8 DEF CallOK, Sound

\* A cue that may be asked for is asked for once more.
LEMMA CueAsked ==
  ASSUME NEW s, CallOK(s), NEW g \in Generations, NEW cue \in Cues, g <= s.generations,
         g \notin s.stopped, s.plays[g][cue] = 0,
         cue = "end" => \A t \in Timers : s.entries[t].generation = g
                                            => s.entries[t].status \notin {"running", "paused"},
         cue = "start" => \A r \in s.starting : r.generation # g
  PROVE  LET n == PlayCue(s, g, cue)
         IN /\ CallOK(n) /\ OnlyEntries([n EXCEPT !.cues = s.cues, !.plays = s.plays], s)
            /\ n.entries = s.entries /\ n.published = s.published
            /\ \A h \in Generations : h # g => n.plays[h] = s.plays[h]
<1> DEFINE n == PlayCue(s, g, cue)
           c == [generation |-> g, cue |-> cue, phase |-> "preparing"]
<1>1. s \in States /\ Sound(s) /\ Kept(s, leases) /\ \A u \in Timers : DrivenAt(s, u) /\ HeardAt(s, u)
  BY DEF CallOK
<1>2. /\ n.entries = s.entries /\ n.starting = s.starting /\ n.releases = s.releases
      /\ n.generations = s.generations /\ n.stopped = s.stopped /\ n.published = s.published
      /\ n.cues = s.cues \cup {c}
      /\ n.plays = [s.plays EXCEPT ![g] = [s.plays[g] EXCEPT ![cue] = 1]]
  BY <1>1 DEF PlayCue, States
<1>3. c \in CueCalls
  BY DEF CueCalls
<1>4. n.plays \in [Generations -> [Cues -> 0 .. 2]]
  <2>1. s.plays \in [Generations -> [Cues -> 0 .. 2]]
    BY <1>1 DEF States
  <2>2. [s.plays[g] EXCEPT ![cue] = 1] \in [Cues -> 0 .. 2]
    BY <2>1
  <2> QED
    BY <1>2, <2>1, <2>2
<1>5. n \in States
  <2> DEFINE ps == [s.plays EXCEPT ![g] = [s.plays[g] EXCEPT ![cue] = 1]]
             cs == s.cues \cup {c}
  <2>1. n = [s EXCEPT !.cues = cs, !.plays = ps]
    BY DEF PlayCue
  <2>2. cs \in SUBSET CueCalls
    BY <1>1, <1>3 DEF States
  <2>3. ps \in [Generations -> [Cues -> 0 .. 2]]
    BY <1>2, <1>4
  <2> HIDE DEF n, ps, cs
  <2> QED
    BY <1>1, <2>1, <2>2, <2>3 DEF States
<1> HIDE DEF n
<1>7. OwnRuns(n) /\ OwnCalls(n) /\ OwnShown(n) /\ Kept(n, leases)
  BY <1>1, <1>2 DEF OwnRuns, OwnCalls, OwnShown, Sound, Kept
<1>8. /\ \A h \in Generations : h # g => n.plays[h] = s.plays[h]
      /\ n.plays[g][cue] = 1 /\ \A d \in Cues : d # cue => n.plays[g][d] = s.plays[g][d]
  BY <1>1, <1>2 DEF States
<1>9. OwnCues(n)
  <2>1. OwnCues(s)
    BY <1>1 DEF Sound
  <2>2. \A h \in Generations, d \in Cues : n.plays[h][d] <= 1
    BY <2>1, <1>8 DEF OwnCues
  <2>3. \A h \in Generations, d \in Cues : h > n.generations => n.plays[h][d] = 0
    <3> SUFFICES ASSUME NEW h \in Generations, NEW d \in Cues, h > n.generations
                 PROVE  n.plays[h][d] = 0
      OBVIOUS
    <3>1. h # g
      BY <1>1, <1>2 DEF States, Generations
    <3> QED
      BY <3>1, <1>2, <1>8, <2>1 DEF OwnCues
  <2>4. ASSUME NEW u \in Timers, n.entries[u].status \in {"running", "paused"}
        PROVE  n.plays[n.entries[u].generation]["end"] = 0
    <3> DEFINE h == s.entries[u].generation
    <3>1. s.plays[h]["end"] = 0 /\ s.entries[u].status \in {"running", "paused"}
      BY <2>1, <2>4, <1>2 DEF OwnCues
    <3>2. h \in Generations
      <4>1. s.entries[u] \in Entry /\ EntryOK(s.entries[u])
        BY <1>1 DEF States, Sound, OwnRuns
      <4>2. h # 0
        BY <4>1, <3>1 DEF EntryOK, Idle
      <4> QED
        BY <4>1, <4>2, TimerAssumption DEF Entry, Generations
    <3>3. CASE h # g
      BY <3>1, <3>2, <3>3, <1>2, <1>8
    <3>4. CASE h = g
      <4>1. cue # "end"
        BY <3>1, <3>4
      <4> QED
        BY <3>1, <3>4, <4>1, <1>2, <1>8 DEF Cues
    <3> QED
      BY <3>3, <3>4
  <2>5. ASSUME NEW r \in n.starting PROVE n.plays[r.generation]["start"] = 0
    <3>1. s.plays[r.generation]["start"] = 0 /\ r \in s.starting
      BY <2>1, <1>2 DEF OwnCues
    <3>2. r.generation \in Generations
      BY <3>1, <1>1 DEF States, Waiting
    <3>3. CASE r.generation # g
      BY <3>1, <3>2, <3>3, <1>8
    <3>4. CASE r.generation = g
      <4>1. cue # "start"
        BY <3>1, <3>4
      <4> QED
        BY <3>1, <3>4, <4>1, <1>8 DEF Cues
    <3> QED
      BY <3>3, <3>4
  <2>6. \A d \in n.cues : d.generation \notin n.stopped
    BY <2>1, <1>2 DEF OwnCues
  <2> QED
    BY <2>2, <2>3, <2>4, <2>5, <2>6 DEF OwnCues
<1>10. ASSUME NEW u \in Timers PROVE DrivenAt(n, u) /\ HeardAt(n, u)
  <2>1. AwaitsMedia(s, u) <=> AwaitsMedia(n, u)
    BY <1>2 DEF AwaitsMedia
  <2>2. DrivenAt(s, u) /\ HeardAt(s, u)
    BY <1>1
  <2>3. DrivenAt(n, u)
    BY <1>2, <2>1, <2>2 DEF DrivenAt
  <2>4. HeardAt(n, u)
    BY <1>2, <2>1, <2>2 DEF HeardAt
  <2> QED
    BY <2>3, <2>4
<1>11. CallOK(n)
  BY <1>5, <1>7, <1>9, <1>10 DEF CallOK, Sound
<1> QED
  BY <1>11, <1>2, <1>8 DEF OnlyEntries, n

\* n differs from s by what a call for timer t does to its own run.
OnlyOwn(n, s, t) ==
  /\ n.starting = s.starting /\ n.generations = s.generations /\ n.stopped = s.stopped
  /\ \A u \in Timers \ {t} : n.entries[u] = s.entries[u]
  /\ n.entries[t].generation \in {0, s.entries[t].generation}
  /\ \A g \in Generations : g # s.entries[t].generation => n.plays[g] = s.plays[g]

LEMMA OwnGeneration ==
  ASSUME NEW s \in States, OwnRuns(s), NEW t \in Timers
  PROVE  /\ s.entries[t] \in Entry /\ EntryOK(s.entries[t])
         /\ s.entries[t].status # "idle" => s.entries[t].generation \in Generations
         /\ s.entries[t] # Idle => s.entries[t].generation \in Generations
         /\ s.entries[t].generation # 0 => s.entries[t] # Idle
<1>1. s.entries[t] \in Entry /\ EntryOK(s.entries[t])
  BY DEF States, OwnRuns
<1>2. s.entries[t].generation # 0 => s.entries[t].generation \in Generations
  BY <1>1, TimerAssumption DEF Entry, Generations
<1> QED
  BY <1>1, <1>2 DEF EntryOK, Idle

LEMMA CompleteOK ==
  ASSUME NEW s, CallOK(s), NEW t \in Timers, s.entries[t].status \in {"running", "paused"}
  PROVE  LET n == Complete(s, t)
         IN /\ CallOK(n) /\ OnlyOwn(n, s, t) /\ n.releases = s.releases
            /\ n.entries = [s.entries EXCEPT ![t] =
                 [s.entries[t] EXCEPT !.status = "completed", !.left = Hold, !.armed = TRUE]]
<1> DEFINE g == s.entries[t].generation
           e == [s.entries[t] EXCEPT !.status = "completed", !.left = Hold, !.armed = TRUE]
           ents == [s.entries EXCEPT ![t] = e]
           done == [s EXCEPT !.entries = ents, !.published = {ents}]
<1>1. s \in States /\ Sound(s)
  BY DEF CallOK
<1>2. s.entries[t] \in Entry /\ g \in Generations
  BY <1>1, OwnGeneration DEF Sound
<1>3. /\ e \in Entry /\ EntryOK(e)
      /\ e.generation = g /\ e.status = "completed" /\ e.armed
  <2>1. e.generation = g /\ e.status = "completed" /\ e.armed = TRUE /\ e.left = Hold
    BY <1>2 DEF Entry
  <2>2. Hold \in 0 .. Most
    BY TimerAssumption DEF Most
  <2>3. e \in Entry
    BY <1>2, <2>2 DEF Entry, Statuses
  <2>4. g # 0
    BY <1>2 DEF Generations
  <2> HIDE DEF e, g
  <2> QED
    BY <2>1, <2>3, <2>4 DEF EntryOK
<1>4. ents \in [Timers -> Entry] /\ ents[t] = e
  BY <1>1, <1>3 DEF States
<1>5. /\ done.entries = ents /\ done.published = {ents} /\ OnlyEntries(done, s)
      /\ done.plays = s.plays /\ done.generations = s.generations
      /\ done.starting = s.starting /\ done.stopped = s.stopped /\ done.releases = s.releases
  <2> HIDE DEF ents
  <2> QED
    BY <1>1 DEF States, OnlyEntries
<1>6. done \in States
  <2> HIDE DEF ents
  <2> QED
    BY <1>1, <1>4 DEF States
<1>7. CallOK(done)
  <2> HIDE DEF done, e
  <2> QED
    BY <1>3, <1>5, <1>6, EntryChanged
<1>8. Complete(s, t) = PlayCue(done, g, "end")
  <2>1. Publish([s EXCEPT !.entries[t].status = "completed", !.entries[t].left = Hold,
                          !.entries[t].armed = TRUE]) = done
    BY <1>1 DEF Publish, States
  <2> QED
    BY <2>1 DEF Complete
<1>9. g <= done.generations /\ g \notin done.stopped
  BY <1>1, <1>5 DEF Sound, OwnRuns
<1>10. done.plays[g]["end"] = 0
  BY <1>1, <1>5 DEF Sound, OwnCues
<1>11. ASSUME NEW u \in Timers, done.entries[u].generation = g
       PROVE  done.entries[u].status \notin {"running", "paused"}
  <2>1. CASE u = t
    BY <2>1, <1>4, <1>5
  <2>2. CASE u # t
    <3>1. s.entries[u].generation = g /\ g # 0
      BY <2>2, <1>11, <1>1, <1>2, <1>5 DEF States, Generations
    <3> QED
      BY <3>1, <2>2, <1>1 DEF Sound, OwnRuns
  <2> QED
    BY <2>1, <2>2
<1> DEFINE n == PlayCue(done, g, "end")
<1>12. /\ CallOK(n) /\ OnlyEntries([n EXCEPT !.cues = done.cues, !.plays = done.plays], done)
       /\ n.entries = done.entries /\ n.published = done.published
       /\ \A h \in Generations : h # g => n.plays[h] = done.plays[h]
  <2> HIDE DEF done, g
  <2> QED
    BY <1>2, <1>7, <1>9, <1>10, <1>11, CueAsked DEF Cues
<1>13. n.starting = done.starting /\ n.generations = done.generations /\ n.stopped = done.stopped
       /\ n.releases = done.releases
  BY <1>6 DEF PlayCue, States
<1>14. OnlyOwn(n, s, t)
  <2>1. \A u \in Timers \ {t} : n.entries[u] = s.entries[u]
    BY <1>1, <1>5, <1>12 DEF States
  <2>2. n.entries[t].generation = g
    <3> HIDE DEF n, done, ents, e, g
    <3> QED
      BY <1>3, <1>4, <1>5, <1>12
  <2> HIDE DEF n, done, ents, e
  <2> QED
    BY <2>1, <2>2, <1>5, <1>12, <1>13 DEF OnlyOwn
<1> QED
  BY <1>5, <1>8, <1>12, <1>13, <1>14

\* A run that is over goes, and so do its media.
LEMMA ExpireOK ==
  ASSUME NEW s, CallOK(s), NEW t \in Timers, s.entries[t].generation \in Generations
  PROVE  LET n == Expire(s, t)
         IN CallOK(n) /\ OnlyOwn(n, s, t) /\ n.entries = [s.entries EXCEPT ![t] = Idle]
<1> DEFINE g == s.entries[t].generation
           ents == [s.entries EXCEPT ![t] = Idle]
           n == [s EXCEPT !.entries = ents, !.published = {ents}, !.releases = s.releases \cup {g}]
<1>1. s \in States /\ Sound(s) /\ Kept(s, leases) /\ \A u \in Timers : DrivenAt(s, u)
  BY DEF CallOK
<1>2. Expire(s, t) = n
  BY <1>1 DEF Expire, Release, Publish, Remove, States
<1>3. Idle \in Entry /\ EntryOK(Idle)
  BY TimerAssumption DEF Idle, Entry, EntryOK, Statuses, Most
<1>4. /\ ents \in [Timers -> Entry] /\ ents[t] = Idle
      /\ \A u \in Timers : u # t => ents[u] = s.entries[u]
  BY <1>1, <1>3 DEF States
<1>5. n \in States
  <2> HIDE DEF ents
  <2> QED
    BY <1>1, <1>4 DEF States
<1>6. /\ n.entries = ents /\ n.published = {ents} /\ n.releases = s.releases \cup {g}
      /\ n.starting = s.starting /\ n.cues = s.cues /\ n.generations = s.generations
      /\ n.plays = s.plays /\ n.stopped = s.stopped
  <2> HIDE DEF ents
  <2> QED
    BY <1>1 DEF States
<1> HIDE DEF n
<1>7. n.generations \in Nat
  BY <1>5 DEF States
<1>8. OwnRuns(n)
  <2>1. OwnRuns(s)
    BY <1>1 DEF Sound
  <2>2. ASSUME NEW u \in Timers
        PROVE  EntryOK(n.entries[u]) /\ n.entries[u].generation <= n.generations
    BY <2>1, <1>3, <1>4, <1>6, <1>7 DEF OwnRuns, Idle
  <2>3. ASSUME NEW u \in Timers PROVE n.entries[u].generation \notin n.stopped
    <3>1. 0 \notin n.stopped
      BY <1>5 DEF States, Generations
    <3> QED
      BY <3>1, <2>1, <1>4, <1>6 DEF OwnRuns, Idle
  <2>4. \A u, v \in Timers :
          n.entries[u].generation = n.entries[v].generation /\ n.entries[u].generation # 0 => u = v
    BY <2>1, <1>4, <1>6 DEF OwnRuns, Idle
  <2> QED
    BY <2>1, <2>2, <2>3, <2>4, <1>6 DEF OwnRuns
<1>9. OwnCalls(n)
  <2>1. OwnCalls(s) /\ \A r \in s.starting : r.generation # 0
    BY <1>1 DEF Sound, States, Waiting, Generations
  <2> QED
    BY <2>1, <1>4, <1>6 DEF OwnCalls, Idle
<1>10. OwnCues(n)
  <2>1. OwnCues(s)
    BY <1>1 DEF Sound
  <2> QED
    BY <2>1, <1>4, <1>6 DEF OwnCues, Idle
<1>11. Kept(n, leases)
  BY <1>1, <1>4, <1>6 DEF Kept
<1>12. ASSUME NEW u \in Timers PROVE DrivenAt(n, u) /\ HeardAt(n, u)
  <2>1. u # t => (AwaitsMedia(s, u) => AwaitsMedia(n, u))
    BY <1>4, <1>6 DEF AwaitsMedia
  <2>2. DrivenAt(n, u)
    BY <1>1, <1>4, <1>6, <2>1 DEF DrivenAt, Idle
  <2> QED
    BY <2>2, <1>6 DEF HeardAt
<1>13. OnlyOwn(n, s, t)
  BY <1>4, <1>6 DEF OnlyOwn, Idle
<1>14. OwnShown(n)
  BY <1>6, <1>8, ShownNow DEF OwnShown
<1> QED
  BY <1>2, <1>5, <1>6, <1>8, <1>9, <1>10, <1>11, <1>12, <1>13, <1>14 DEF CallOK, Sound

LEMMA Unmoved == ASSUME NEW s, NEW t \in Timers PROVE OnlyOwn(s, s, t)
BY DEF OnlyOwn

\* Once the clock had its say, a run that is there has time left.
LEMMA ResolveOK ==
  ASSUME NEW s, CallOK(s), NEW t \in Timers
  PROVE  LET n == Resolve(s, t)
         IN /\ CallOK(n) /\ OnlyOwn(n, s, t)
            /\ n.entries[t] # Idle => n.entries[t].left > 0
            /\ n.entries[t].status \in {"running", "paused"} => n = s
<1> DEFINE n == Resolve(s, t)
           e == s.entries[t]
<1>1. s \in States /\ OwnRuns(s)
  BY DEF CallOK, Sound
<1>2. e \in Entry /\ EntryOK(e) /\ (e.status # "idle" => e.generation \in Generations)
  BY <1>1, OwnGeneration
<1>3. CASE e.left > 0
  <2>1. n = s
    BY <1>3 DEF Resolve
  <2> QED
    BY <1>3, <2>1, Unmoved
<1>4. CASE ~(e.left > 0) /\ e.status = "running"
  <2>1. n = Complete(s, t)
    BY <1>4 DEF Resolve
  <2>2. /\ CallOK(n) /\ OnlyOwn(n, s, t)
        /\ n.entries = [s.entries EXCEPT ![t] = [e EXCEPT !.status = "completed", !.left = Hold, !.armed = TRUE]]
    <3> HIDE DEF n
    <3> QED
      BY <1>4, <2>1, CompleteOK
  <2>3. n.entries[t].left = Hold /\ n.entries[t].status = "completed"
    <3>1. n.entries[t] = [e EXCEPT !.status = "completed", !.left = Hold, !.armed = TRUE]
      <4> HIDE DEF n
      <4> QED
        BY <2>2, <1>1 DEF States
    <3> HIDE DEF n, e
    <3> QED
      BY <3>1, <1>2 DEF Entry
  <2> QED
    BY <2>2, <2>3, TimerAssumption DEF Idle
<1>5. CASE ~(e.left > 0) /\ e.status = "completed"
  <2>1. n = Expire(s, t)
    BY <1>5 DEF Resolve
  <2>2. CallOK(n) /\ OnlyOwn(n, s, t) /\ n.entries = [s.entries EXCEPT ![t] = Idle]
    <3> HIDE DEF n
    <3> QED
      BY <1>2, <1>5, <2>1, ExpireOK
  <2>3. n.entries[t] = Idle
    <3> HIDE DEF n
    <3> QED
      BY <2>2, <1>1 DEF States
  <2> QED
    BY <2>2, <2>3 DEF Idle
<1>6. CASE ~(e.left > 0) /\ e.status \notin {"running", "completed"}
  <2>1. n = s
    BY <1>6 DEF Resolve
  <2>2. e = Idle
    BY <1>2, <1>6 DEF Entry, Statuses, EntryOK
  <2> QED
    BY <2>1, <2>2, Unmoved DEF Idle
<1> QED
  BY <1>3, <1>4, <1>5, <1>6

\* A new entry for the run of timer t, published.
WithEntry(s, t, e) == Publish([s EXCEPT !.entries = [s.entries EXCEPT ![t] = e]])

LEMMA EntryPublished ==
  ASSUME NEW s, CallOK(s), NEW t \in Timers, NEW e \in Entry, EntryOK(e),
         e.generation = s.entries[t].generation, e.armed \/ e.status \notin {"running", "completed"},
         e.status \in {"running", "paused"} => s.entries[t].status \in {"running", "paused"}
  PROVE  LET n == WithEntry(s, t, e)
         IN /\ CallOK(n) /\ OnlyOwn(n, s, t) /\ OnlyEntries(n, s)
            /\ n.entries = [s.entries EXCEPT ![t] = e] /\ n.published = {n.entries}
<1> DEFINE ents == [s.entries EXCEPT ![t] = e]
           n == WithEntry(s, t, e)
<1>1. s \in States
  BY DEF CallOK
<1>2. /\ ents \in [Timers -> Entry] /\ ents[t] = e
      /\ \A u \in Timers : u # t => ents[u] = s.entries[u]
  BY <1>1 DEF States
<1>3. n = [s EXCEPT !.entries = ents, !.published = {ents}]
  BY <1>1 DEF WithEntry, Publish, States
<1>4. n \in States
  <2> HIDE DEF ents, n
  <2> QED
    BY <1>1, <1>2, <1>3 DEF States
<1>5. n.entries = ents /\ n.published = {ents} /\ OnlyEntries(n, s)
  <2> HIDE DEF ents, n
  <2> QED
    BY <1>1, <1>3 DEF States, OnlyEntries
<1>6. CallOK(n)
  <2> HIDE DEF n
  <2> QED
    BY <1>4, <1>5, EntryChanged
<1>7. OnlyOwn(n, s, t)
  <2> HIDE DEF ents, n
  <2> QED
    BY <1>2, <1>5 DEF OnlyOwn, OnlyEntries
<1> QED
  BY <1>5, <1>6, <1>7

LEMMA PausedOK ==
  ASSUME NEW s, CallOK(s), NEW t \in Timers,
         s.entries[t].status = "running" => s.entries[t].left > 0
  PROVE  CallOK(Paused(s, t)) /\ OnlyOwn(Paused(s, t), s, t)
<1> DEFINE e == [s.entries[t] EXCEPT !.status = "paused", !.armed = FALSE]
<1>1. s \in States /\ s.entries[t] \in Entry /\ EntryOK(s.entries[t])
  BY OwnGeneration DEF CallOK, Sound
<1>2. CASE s.entries[t].status # "running"
  BY <1>2, Unmoved DEF Paused
<1>3. CASE s.entries[t].status = "running"
  <2>1. /\ e \in Entry /\ e.generation = s.entries[t].generation /\ e.left = s.entries[t].left
        /\ e.status = "paused" /\ e.armed = FALSE
    BY <1>1 DEF Entry, Statuses
  <2>2. e.generation # 0
    BY <2>1, <1>1, <1>3 DEF EntryOK, Idle
  <2>3. Paused(s, t) = WithEntry(s, t, e)
    BY <1>1, <1>3 DEF Paused, WithEntry, Publish, States
  <2> HIDE DEF e
  <2>4. EntryOK(e)
    BY <1>1, <1>3, <2>1, <2>2 DEF EntryOK
  <2>5. /\ e \in Entry /\ e.generation = s.entries[t].generation
        /\ e.armed \/ e.status \notin {"running", "completed"}
        /\ e.status \in {"running", "paused"} => s.entries[t].status \in {"running", "paused"}
    BY <1>3, <2>1
  <2>6. CallOK(WithEntry(s, t, e)) /\ OnlyOwn(WithEntry(s, t, e), s, t)
    BY <2>4, <2>5, EntryPublished
  <2> QED
    BY <2>3, <2>6
<1> QED
  BY <1>2, <1>3

LEMMA ResumedOK ==
  ASSUME NEW s, CallOK(s), NEW t \in Timers
  PROVE  CallOK(Resumed(s, t)) /\ OnlyOwn(Resumed(s, t), s, t)
<1> DEFINE e == [s.entries[t] EXCEPT !.status = "running", !.armed = TRUE]
<1>1. s \in States /\ s.entries[t] \in Entry /\ EntryOK(s.entries[t])
  BY OwnGeneration DEF CallOK, Sound
<1>2. CASE s.entries[t].status # "paused"
  BY <1>2, Unmoved DEF Resumed
<1>3. CASE s.entries[t].status = "paused"
  <2>1. /\ e \in Entry /\ e.generation = s.entries[t].generation /\ e.left = s.entries[t].left
        /\ e.status = "running" /\ e.armed = TRUE
    BY <1>1 DEF Entry, Statuses
  <2>2. e.generation # 0
    BY <2>1, <1>1, <1>3 DEF EntryOK, Idle
  <2>3. Resumed(s, t) = WithEntry(s, t, e)
    BY <1>1, <1>3 DEF Resumed, WithEntry, Publish, States
  <2> HIDE DEF e
  <2>4. EntryOK(e)
    BY <1>1, <1>3, <2>1, <2>2 DEF EntryOK
  <2>5. /\ e \in Entry /\ e.generation = s.entries[t].generation
        /\ e.armed \/ e.status \notin {"running", "completed"}
        /\ e.status \in {"running", "paused"} => s.entries[t].status \in {"running", "paused"}
    BY <1>3, <2>1
  <2>6. CallOK(WithEntry(s, t, e)) /\ OnlyOwn(WithEntry(s, t, e), s, t)
    BY <2>4, <2>5, EntryPublished
  <2> QED
    BY <2>3, <2>6
<1> QED
  BY <1>2, <1>3

\* Calls for all timers, each of which is sound and stays within its own run.
LEMMA TogetherOK ==
  ASSUME NEW s, CallOK(s), NEW f,
         \A t \in Timers : CallOK(f[t]) /\ OnlyOwn(f[t], s, t)
  PROVE  LET n == Together(s, f)
         IN CallOK(n) /\ n.generations = s.generations /\ \A t \in Timers : n.entries[t] = f[t].entries[t]
<1> DEFINE n == Together(s, f)
           ents == [t \in Timers |-> f[t].entries[t]]
           ps == [g \in Generations |->
                    IF \A t \in Timers : f[t].plays[g] = s.plays[g] THEN s.plays[g]
                    ELSE f[CHOOSE t \in Timers : f[t].plays[g] # s.plays[g]].plays[g]]
           cs == s.cues \cup UNION {f[t].cues : t \in Timers}
           rs == s.releases \cup UNION {f[t].releases : t \in Timers}
           shown == IF ents = s.entries THEN s.published ELSE {ents}
<1>1. s \in States /\ Sound(s) /\ Kept(s, leases) /\ \A u \in Timers : DrivenAt(s, u) /\ HeardAt(s, u)
  BY DEF CallOK
<1>2. \A t \in Timers : f[t] \in States /\ Sound(f[t]) /\ Kept(f[t], leases)
                        /\ \A u \in Timers : DrivenAt(f[t], u)
  BY DEF CallOK
<1>3. n = [s EXCEPT !.entries = ents, !.releases = rs, !.cues = cs, !.plays = ps, !.published = shown]
  BY DEF Together
<1>4. \A g \in Generations : \E x \in {s} \cup {f[t] : t \in Timers} :
        ps[g] = x.plays[g] /\ (x # s => \E t \in Timers : x = f[t] /\ f[t].plays[g] # s.plays[g])
  <2> SUFFICES ASSUME NEW g \in Generations
               PROVE  \E x \in {s} \cup {f[t] : t \in Timers} :
                        ps[g] = x.plays[g]
                        /\ (x # s => \E t \in Timers : x = f[t] /\ f[t].plays[g] # s.plays[g])
    OBVIOUS
  <2>1. CASE \A t \in Timers : f[t].plays[g] = s.plays[g]
    BY <2>1
  <2>2. CASE \E t \in Timers : f[t].plays[g] # s.plays[g]
    <3> DEFINE t == CHOOSE t \in Timers : f[t].plays[g] # s.plays[g]
    <3>1. t \in Timers /\ f[t].plays[g] # s.plays[g]
      BY <2>2
    <3>2. ps[g] = f[t].plays[g]
      BY <2>2
    <3> HIDE DEF t, ps
    <3> QED
      BY <3>1, <3>2
  <2> QED
    BY <2>1, <2>2
<1>5. ents \in [Timers -> Entry] /\ \A t \in Timers : ents[t] = f[t].entries[t]
  BY <1>2 DEF States
<1>6. ps \in [Generations -> [Cues -> 0 .. 2]]
  <2>1. \A g \in Generations : ps[g] \in [Cues -> 0 .. 2]
    <3> HIDE DEF ps
    <3> QED
      BY <1>1, <1>2, <1>4 DEF States
  <2>2. ps = [g \in Generations |-> ps[g]]
    OBVIOUS
  <2> HIDE DEF ps
  <2> QED
    BY <2>1, <2>2
<1>7. cs \in SUBSET CueCalls /\ rs \in SUBSET Generations
  BY <1>1, <1>2 DEF States
<1>8. shown \in SUBSET [Timers -> Entry]
  BY <1>1, <1>5 DEF States
<1>9. n \in States
  <2> HIDE DEF n, ents, ps, cs, rs, shown
  <2> QED
    BY <1>1, <1>3, <1>5, <1>6, <1>7, <1>8 DEF States
<1>10. /\ n.entries = ents /\ n.releases = rs /\ n.cues = cs /\ n.plays = ps /\ n.published = shown
       /\ n.starting = s.starting /\ n.generations = s.generations /\ n.stopped = s.stopped
  <2> HIDE DEF n, ents, ps, cs, rs, shown
  <2> QED
    BY <1>1, <1>3 DEF States
<1> HIDE DEF n, ps
<1>11. \A t \in Timers : /\ n.entries[t] = f[t].entries[t]
                         /\ n.entries[t].generation \in {0, s.entries[t].generation}
                         /\ f[t].starting = s.starting /\ f[t].stopped = s.stopped
                         /\ f[t].generations = s.generations
  <2> HIDE DEF ents
  <2> QED
    BY <1>5, <1>10 DEF OnlyOwn
<1>12. OwnRuns(n)
  <2> HIDE DEF ents
  <2> QED
    BY <1>1, <1>2, <1>10, <1>11 DEF OwnRuns, Sound
<1>13. OwnCalls(n)
  <2>1. OwnCalls(s) /\ \A r \in s.starting : r.generation # 0
    BY <1>1 DEF Sound, States, Waiting, Generations
  <2>2. ASSUME NEW r \in n.starting, NEW t \in Timers, n.entries[t].generation = r.generation
        PROVE  t = r.timer
    BY <2>1, <2>2, <1>10, <1>11 DEF OwnCalls
  <2> QED
    BY <2>1, <2>2, <1>10 DEF OwnCalls
<1>14. OwnCues(n)
  <2>1. OwnCues(s) /\ \A t \in Timers : OwnCues(f[t])
    BY <1>1, <1>2 DEF Sound
  <2>2. \A g \in Generations : n.plays[g] = s.plays[g] \/ \E t \in Timers : n.plays[g] = f[t].plays[g]
    BY <1>4, <1>10
  <2>3. \A g \in Generations, c \in Cues : n.plays[g][c] <= 1
    BY <2>1, <2>2 DEF OwnCues
  <2>4. \A g \in Generations, c \in Cues : g > n.generations => n.plays[g][c] = 0
    <3>1. \A t \in Timers : f[t].generations = n.generations
      BY <1>10, <1>11
    <3> QED
      BY <3>1, <2>1, <2>2, <1>10 DEF OwnCues
  <2>5. ASSUME NEW u \in Timers, n.entries[u].status \in {"running", "paused"}
        PROVE  n.plays[n.entries[u].generation]["end"] = 0
    <3> DEFINE g == n.entries[u].generation
    <3>1. f[u].plays[g]["end"] = 0
      BY <2>1, <2>5, <1>11 DEF OwnCues
    <3>2. g \in Generations /\ g = s.entries[u].generation
      <4>1. g \in Generations
        BY <2>5, <1>9, <1>12, OwnGeneration
      <4> QED
        BY <4>1, <1>11 DEF Generations
    <3>3. \A t \in Timers : t # u => f[t].plays[g] = s.plays[g]
      <4>1. \A t \in Timers : t # u => s.entries[t].generation # g
        BY <3>2, <1>1 DEF Sound, OwnRuns, Generations
      <4> HIDE DEF g
      <4> QED
        BY <4>1, <3>2 DEF OnlyOwn
    <3>4. n.plays[g] = f[u].plays[g]
      <4>1. PICK x \in {s} \cup {f[t] : t \in Timers} :
              ps[g] = x.plays[g] /\ (x # s => \E t \in Timers : x = f[t] /\ f[t].plays[g] # s.plays[g])
        BY <1>4, <3>2
      <4>2. CASE x # s
        BY <4>1, <4>2, <3>3, <1>10
      <4>3. CASE x = s
        <5>1. \A t \in Timers : f[t].plays[g] = s.plays[g]
          <6>1. ps[g] = s.plays[g]
            BY <4>1, <4>3
          <6>2. SUFFICES ASSUME NEW v \in Timers, f[v].plays[g] # s.plays[g] PROVE FALSE
            OBVIOUS
          <6>3. ps[g] = f[CHOOSE t \in Timers : f[t].plays[g] # s.plays[g]].plays[g]
            BY <6>2, <3>2 DEF ps
          <6>4. f[CHOOSE t \in Timers : f[t].plays[g] # s.plays[g]].plays[g] # s.plays[g]
            BY <6>2
          <6> QED
            BY <6>1, <6>3, <6>4
        <5> QED
          BY <5>1, <4>1, <4>3, <1>10
      <4> QED
        BY <4>2, <4>3
    <3> QED
      BY <3>1, <3>4
  <2>6. ASSUME NEW r \in n.starting PROVE n.plays[r.generation]["start"] = 0
    <3>1. r.generation \in Generations
      BY <1>9 DEF States, Waiting
    <3>2. s.plays[r.generation]["start"] = 0 /\ \A t \in Timers : f[t].plays[r.generation]["start"] = 0
      BY <2>1, <1>10, <1>11 DEF OwnCues
    <3> QED
      BY <3>1, <3>2, <2>2
  <2>7. \A c \in n.cues : c.generation \notin n.stopped
    BY <2>1, <1>10, <1>11 DEF OwnCues
  <2> QED
    BY <2>3, <2>4, <2>5, <2>6, <2>7 DEF OwnCues
<1>15. Kept(n, leases)
  <2> SUFFICES ASSUME NEW g \in leases, g \notin n.releases
               PROVE  \E t \in Timers : n.entries[t].generation = g
    BY DEF Kept
  <2>1. PICK t \in Timers : s.entries[t].generation = g
    BY <1>1, <1>10 DEF Kept
  <2>2. PICK u \in Timers : f[t].entries[u].generation = g
    BY <1>2, <1>10 DEF Kept
  <2>3. u # t => s.entries[u].generation = g
    BY <2>2 DEF OnlyOwn
  <2>4. CASE g # 0
    <3>1. u = t
      BY <2>1, <2>3, <2>4, <1>1 DEF Sound, OwnRuns
    <3> QED
      BY <3>1, <2>2, <1>11
  <2>5. CASE g = 0
    BY <2>1, <2>5, <1>11
  <2> QED
    BY <2>4, <2>5
<1>16. ASSUME NEW u \in Timers PROVE DrivenAt(n, u) /\ HeardAt(n, u)
  <2>1. AwaitsMedia(f[u], u) <=> AwaitsMedia(n, u)
    BY <1>10, <1>11 DEF AwaitsMedia
  <2>2. DrivenAt(n, u)
    BY <1>2, <1>11, <2>1 DEF DrivenAt
  <2>3. CASE ents = s.entries
    <3>1. n.entries = s.entries /\ n.published = s.published
      BY <2>3, <1>10
    <3>2. AwaitsMedia(s, u) <=> AwaitsMedia(n, u)
      BY <3>1, <1>10 DEF AwaitsMedia
    <3>3. HeardAt(s, u)
      BY <1>1
    <3>4. HeardAt(n, u)
      BY <3>1, <3>2, <3>3 DEF HeardAt
    <3> QED
      BY <3>4, <2>2
  <2>4. CASE ents # s.entries
    BY <2>2, <2>4, <1>10 DEF HeardAt
  <2> QED
    BY <2>3, <2>4
<1>17. OwnShown(n)
  <2>1. CASE ents = s.entries
    BY <2>1, <1>1, <1>10 DEF Sound, OwnShown
  <2>2. CASE ents # s.entries
    <3>1. n.published = {n.entries}
      BY <2>2, <1>10
    <3> QED
      BY <3>1, <1>12, ShownNow DEF OwnShown
  <2> QED
    BY <2>1, <2>2
<1>18. CallOK(n)
  BY <1>9, <1>12, <1>13, <1>14, <1>15, <1>16, <1>17 DEF CallOK, Sound
<1> QED
  BY <1>10, <1>11, <1>18 DEF n

\* As CallOK, but for what timer t announced.
CallBut(s, t) ==
  /\ s \in States /\ Sound(s) /\ Kept(s, leases)
  /\ \A u \in Timers : DrivenAt(s, u) /\ (u # t => HeardAt(s, u))

\* A run that is replaced is silent, and its media are given back.
LEMMA ReplacedOK ==
  ASSUME NEW t \in Timers, NEW s, CallBut(s, t)
  PROVE  LET n == Replaced(s, t)
         IN /\ CallBut(n, t) /\ n.entries = [s.entries EXCEPT ![t] = Idle]
            /\ n.starting = s.starting /\ n.generations = s.generations /\ n.published = s.published
<1> DEFINE g == s.entries[t].generation
           ents == [s.entries EXCEPT ![t] = Idle]
           n == Replaced(s, t)
<1>1. s \in States /\ Sound(s) /\ Kept(s, leases)
      /\ \A u \in Timers : DrivenAt(s, u) /\ (u # t => HeardAt(s, u))
  BY DEF CallBut
<1>2. CASE s.entries[t] = Idle
  <2>1. n = s
    BY <1>2 DEF Replaced
  <2>2. s.entries = [s.entries EXCEPT ![t] = Idle]
    BY <1>1, <1>2 DEF States
  <2> QED
    BY <2>1, <2>2
<1>3. CASE s.entries[t] # Idle
  <2> DEFINE cs == {c \in s.cues : c.generation # g}
  <2>1. g \in Generations
    BY <1>1, <1>3, OwnGeneration DEF Sound
  <2>2. n = [s EXCEPT !.entries = ents, !.cues = cs, !.stopped = s.stopped \cup {g},
                      !.releases = s.releases \cup {g}]
    BY <1>1, <1>3 DEF Replaced, Release, StopCue, Remove, States
  <2>3. Idle \in Entry /\ EntryOK(Idle)
    BY TimerAssumption DEF Idle, Entry, EntryOK, Statuses, Most
  <2>4. /\ ents \in [Timers -> Entry] /\ ents[t] = Idle
        /\ \A u \in Timers : u # t => ents[u] = s.entries[u]
    BY <1>1, <2>3 DEF States
  <2>5. n \in States
    <3> HIDE DEF ents, n, g
    <3> QED
      BY <1>1, <2>1, <2>2, <2>4 DEF States
  <2>6. /\ n.entries = ents /\ n.published = s.published /\ n.releases = s.releases \cup {g}
        /\ n.starting = s.starting /\ n.cues = cs /\ n.generations = s.generations
        /\ n.plays = s.plays /\ n.stopped = s.stopped \cup {g}
    <3> HIDE DEF ents, n, cs
    <3> QED
      BY <1>1, <2>2 DEF States
  <2> HIDE DEF n
  <2>7. n.generations \in Nat /\ 0 \notin n.stopped
    BY <2>5 DEF States, Generations
  <2>8. OwnRuns(n)
    <3>1. OwnRuns(s)
      BY <1>1 DEF Sound
    <3>2. ASSUME NEW u \in Timers
          PROVE  EntryOK(n.entries[u]) /\ n.entries[u].generation <= n.generations
      <4>1. CASE u = t
        <5>1. n.entries[u] = Idle /\ Idle.generation = 0
          BY <4>1, <2>4, <2>6 DEF Idle
        <5> QED
          BY <5>1, <2>3, <2>7
      <4>2. CASE u # t
        BY <4>2, <3>1, <2>4, <2>6 DEF OwnRuns
      <4> QED
        BY <4>1, <4>2
    <3>3. ASSUME NEW u \in Timers PROVE n.entries[u].generation \notin n.stopped
      <4>1. CASE u = t
        BY <4>1, <2>4, <2>6, <2>7 DEF Idle
      <4>2. CASE u # t
        <5>1. s.entries[u].generation # g
          BY <4>2, <3>1, <2>1 DEF OwnRuns, Generations
        <5> QED
          BY <4>2, <5>1, <3>1, <2>4, <2>6 DEF OwnRuns
      <4> QED
        BY <4>1, <4>2
    <3>4. \A u, v \in Timers :
            n.entries[u].generation = n.entries[v].generation /\ n.entries[u].generation # 0 => u = v
      BY <3>1, <2>4, <2>6 DEF OwnRuns, Idle
    <3>5. \A h \in n.stopped : h <= n.generations
      BY <3>1, <2>6 DEF OwnRuns
    <3> QED
      BY <3>2, <3>3, <3>4, <3>5 DEF OwnRuns
  <2>9. OwnCalls(n)
    <3>1. OwnCalls(s) /\ \A r \in s.starting : r.generation # 0
      BY <1>1 DEF Sound, States, Waiting, Generations
    <3> QED
      BY <3>1, <2>4, <2>6 DEF OwnCalls, Idle
  <2>10. OwnCues(n)
    <3>1. OwnCues(s)
      BY <1>1 DEF Sound
    <3>2. \A c \in n.cues : c.generation \notin n.stopped
      BY <3>1, <2>6 DEF OwnCues
    <3>3. \A u \in Timers : n.entries[u].status \in {"running", "paused"}
                              => n.plays[n.entries[u].generation]["end"] = 0
      BY <3>1, <2>4, <2>6 DEF OwnCues, Idle
    <3> QED
      BY <3>1, <3>2, <3>3, <2>6 DEF OwnCues
  <2>11. Kept(n, leases)
    BY <1>1, <2>4, <2>6 DEF Kept
  <2>12. ASSUME NEW u \in Timers PROVE DrivenAt(n, u) /\ (u # t => HeardAt(n, u))
    <3>1. u # t => (AwaitsMedia(s, u) <=> AwaitsMedia(n, u))
      BY <2>4, <2>6 DEF AwaitsMedia
    <3>2. DrivenAt(n, u)
      BY <1>1, <2>4, <2>6, <3>1 DEF DrivenAt, Idle
    <3>3. u # t => HeardAt(n, u)
      BY <1>1, <2>4, <2>6, <3>1 DEF HeardAt
    <3> QED
      BY <3>2, <3>3
  <2>13. OwnShown(n)
    BY <1>1, <2>6 DEF Sound, OwnShown
  <2> QED
    BY <2>5, <2>6, <2>8, <2>9, <2>10, <2>11, <2>12, <2>13 DEF CallBut, Sound, n
<1> QED
  BY <1>2, <1>3

LEMMA StoppedOK ==
  ASSUME NEW s, CallOK(s), NEW t \in Timers
  PROVE  CallOK(Stopped(s, t)) /\ Stopped(s, t).generations = s.generations
<1> DEFINE ents == [s.entries EXCEPT ![t] = Idle]
           q == [s EXCEPT !.published = {ents}]
           n == Replaced(q, t)
<1>1. s \in States /\ Sound(s) /\ Kept(s, leases) /\ \A u \in Timers : DrivenAt(s, u)
  BY DEF CallOK
<1>2. CASE s.entries[t] = Idle
  BY <1>2 DEF Stopped
<1>3. CASE s.entries[t] # Idle
  <2>1. Stopped(s, t) = n
    BY <1>1, <1>3 DEF Stopped, Remove, States
  <2>2. Idle \in Entry
    BY TimerAssumption DEF Idle, Entry, Statuses, Most
  <2>3. ents \in [Timers -> Entry] /\ \A u \in Timers : u # t => ents[u] = s.entries[u]
    BY <1>1, <2>2 DEF States
  <2>4. q \in States
    <3> HIDE DEF ents
    <3> QED
      BY <1>1, <2>3 DEF States
  <2>5. /\ q.published = {ents} /\ OnlyEntries(q, s) /\ q.entries = s.entries
        /\ q.starting = s.starting
    <3> HIDE DEF ents
    <3> QED
      BY <1>1 DEF States, OnlyEntries
  <2> HIDE DEF q
  <2>6. Sound(q) /\ Kept(q, leases)
    <3>1. OwnRuns(q) /\ OwnCalls(q) /\ OwnCues(q) /\ Kept(q, leases)
      BY <1>1, <2>5 DEF Sound, OwnRuns, OwnCalls, OwnCues, Kept, OnlyEntries
    <3>2. EntriesOK(ents, s.generations)
      <4>1. ents[t] = Idle /\ EntryOK(Idle) /\ Idle.generation = 0
        BY <1>1, TimerAssumption DEF States, Idle, EntryOK
      <4>2. OwnRuns(s) /\ s.generations \in Nat
        BY <1>1 DEF Sound, States
      <4> HIDE DEF ents
      <4>3. ASSUME NEW u \in Timers PROVE EntryOK(ents[u]) /\ ents[u].generation <= s.generations
        <5>1. CASE u = t
          BY <5>1, <4>1, <4>2
        <5>2. CASE u # t
          BY <5>2, <4>2, <2>3 DEF OwnRuns
        <5> QED
          BY <5>1, <5>2
      <4>4. \A u, v \in Timers : ents[u].generation = ents[v].generation /\ ents[u].generation # 0 => u = v
        BY <4>1, <4>2, <2>3 DEF OwnRuns
      <4> QED
        BY <4>3, <4>4 DEF EntriesOK
    <3>3. OwnShown(q)
      <4> HIDE DEF ents
      <4> QED
        BY <3>2, <2>5 DEF OwnShown, OnlyEntries
    <3> QED
      BY <3>1, <3>3 DEF Sound
  <2>7. ASSUME NEW u \in Timers PROVE DrivenAt(q, u) /\ (u # t => HeardAt(q, u))
    <3>1. AwaitsMedia(s, u) <=> AwaitsMedia(q, u)
      BY <2>5 DEF AwaitsMedia
    <3> HIDE DEF ents
    <3>2. DrivenAt(q, u)
      BY <1>1, <2>5, <3>1 DEF DrivenAt
    <3>3. u # t => HeardAt(q, u)
      BY <2>3, <2>5 DEF HeardAt
    <3> QED
      BY <3>2, <3>3
  <2>8. CallBut(q, t)
    BY <2>4, <2>6, <2>7 DEF CallBut
  <2>9. /\ CallBut(n, t) /\ n.entries = ents /\ n.published = {ents}
        /\ n.generations = s.generations
    BY <2>5, <2>8, ReplacedOK DEF OnlyEntries
  <2> HIDE DEF n, ents
  <2>10. \A u \in Timers : HeardAt(n, u)
    BY <2>9 DEF HeardAt
  <2> QED
    BY <2>1, <2>9, <2>10 DEF CallBut, CallOK
<1> QED
  BY <1>2, <1>3

\* A new run is the only one of its generation, and waits for its media.
LEMMA StartFreshOK ==
  ASSUME leases \subseteq Generations, NEW t \in Timers, NEW s, CallBut(s, t), s.entries[t] = Idle,
         s.generations < MaxRuns, NEW status \in {"running", "paused"},
         NEW adjustment \in Adjustments \cup {NoAdjustment}, NEW after \in 0 .. MaxRuns,
         status = "paused" <=> adjustment # NoAdjustment
  PROVE  LET n == StartFresh(s, t, status, adjustment, after)
         IN CallOK(n) /\ s.generations <= n.generations
<1> DEFINE g == s.generations + 1
           e == [generation |-> g, status |-> status, left |-> Duration, armed |-> FALSE]
           r == [generation |-> g, timer |-> t, phase |-> "media", paused |-> status = "paused",
                 adjustment |-> adjustment, after |-> after]
           ents == [s.entries EXCEPT ![t] = e]
           n == StartFresh(s, t, status, adjustment, after)
<1>1. s \in States /\ Sound(s) /\ Kept(s, leases)
      /\ \A u \in Timers : DrivenAt(s, u) /\ (u # t => HeardAt(s, u))
  BY DEF CallBut
<1>2. g \in Generations /\ s.generations \in Nat
  BY <1>1, TimerAssumption DEF States, Generations
<1>3. e \in Entry /\ EntryOK(e)
  <2>1. Duration \in 0 .. Most /\ Duration > 0 /\ Duration <= Longest
    BY TimerAssumption DEF Most
  <2>2. g \in 0 .. MaxRuns /\ g # 0
    BY <1>2 DEF Generations
  <2> HIDE DEF g
  <2> QED
    BY <2>1, <2>2 DEF Entry, EntryOK, Statuses
<1>4. r \in Waiting
  <2> HIDE DEF g
  <2> QED
    BY <1>2 DEF Waiting
<1>5. n = [s EXCEPT !.generations = g, !.entries = ents, !.starting = s.starting \cup {r}]
  BY <1>1 DEF StartFresh, States
<1>6. ents \in [Timers -> Entry] /\ ents[t] = e /\ \A u \in Timers : u # t => ents[u] = s.entries[u]
  <2> HIDE DEF e
  <2> QED
    BY <1>1, <1>3 DEF States
<1>7. n \in States
  <2>1. g \in 0 .. MaxRuns
    BY <1>2 DEF Generations
  <2> HIDE DEF ents, n, g, r
  <2> QED
    BY <1>1, <1>4, <1>5, <1>6, <2>1 DEF States
<1>8. /\ n.entries = ents /\ n.starting = s.starting \cup {r} /\ n.generations = g
      /\ n.releases = s.releases /\ n.cues = s.cues /\ n.plays = s.plays
      /\ n.stopped = s.stopped /\ n.published = s.published
  <2> HIDE DEF ents, n, g, r
  <2> QED
    BY <1>1, <1>5 DEF States
<1>9. e.generation = g /\ e.status = status /\ e.left = Duration
      /\ r.generation = g /\ r.timer = t /\ r.phase = "media" /\ (r.paused <=> status = "paused")
      /\ r.adjustment = adjustment
  OBVIOUS
<1>10. \A u \in Timers : s.entries[u].generation \in 0 .. s.generations
  <2> SUFFICES ASSUME NEW u \in Timers PROVE s.entries[u].generation \in 0 .. s.generations
    OBVIOUS
  <2>1. s.entries[u] \in Entry /\ s.entries[u].generation <= s.generations
    BY <1>1 DEF Sound, OwnRuns, States
  <2>2. s.entries[u].generation \in Nat
    BY <2>1 DEF Entry
  <2> QED
    BY <2>1, <2>2, <1>2
<1>11. /\ g > s.generations /\ \A q \in s.starting : q.generation <= s.generations /\ q.generation \in Nat
       /\ \A h \in s.stopped : h <= s.generations /\ h \in Nat
  BY <1>1, <1>2 DEF Sound, OwnRuns, OwnCalls, States, Waiting, Generations
<1> HIDE DEF n, ents, e, r
<1>12. OwnRuns(n)
  <2>1. OwnRuns(s)
    BY <1>1 DEF Sound
  <2>2. ASSUME NEW u \in Timers
        PROVE  /\ EntryOK(n.entries[u]) /\ n.entries[u].generation <= n.generations
               /\ n.entries[u].generation \notin n.stopped
    <3>1. CASE u = t
      <4>1. g \notin s.stopped /\ g <= g
        BY <1>2, <1>11
      <4> HIDE DEF g
      <4> QED
        BY <3>1, <4>1, <1>3, <1>6, <1>8, <1>9
    <3>2. CASE u # t
      <4>1. s.entries[u].generation <= g
        BY <1>2, <1>10
      <4> HIDE DEF g
      <4> QED
        BY <3>2, <4>1, <2>1, <1>6, <1>8 DEF OwnRuns
    <3> QED
      BY <3>1, <3>2
  <2>4. \A h \in n.stopped : h <= n.generations
    BY <1>2, <1>8, <1>11
  <2>5. ASSUME NEW u \in Timers, NEW v \in Timers,
               n.entries[u].generation = n.entries[v].generation, n.entries[u].generation # 0
        PROVE  u = v
    <3>1. CASE u # t /\ v # t
      BY <3>1, <2>1, <2>5, <1>6, <1>8 DEF OwnRuns
    <3>2. CASE u = t /\ v # t
      BY <3>2, <2>5, <1>2, <1>6, <1>8, <1>9, <1>10
    <3>3. CASE u # t /\ v = t
      BY <3>3, <2>5, <1>2, <1>6, <1>8, <1>9, <1>10
    <3> QED
      BY <3>1, <3>2, <3>3
  <2> QED
    BY <2>2, <2>4, <2>5 DEF OwnRuns
<1>13. OwnCalls(n)
  <2>1. OwnCalls(s)
    BY <1>1 DEF Sound
  <2>2. \A q \in n.starting : /\ q.generation <= n.generations /\ (q.paused <=> q.adjustment # NoAdjustment)
                              /\ q.phase # "media" => q.adjustment # NoAdjustment
    <3>1. \A q \in s.starting : q.generation <= g
      BY <1>2, <1>11
    <3>2. r.generation <= g /\ (r.paused <=> r.adjustment # NoAdjustment) /\ r.phase = "media"
      BY <1>2, <1>9
    <3> HIDE DEF g
    <3> QED
      BY <3>1, <3>2, <2>1, <1>8 DEF OwnCalls
  <2>3. \A q \in s.starting : q.generation # g
    BY <1>2, <1>11
  <2>4. \A q, p \in n.starting : q.generation = p.generation => q = p
    <3> HIDE DEF g
    <3> QED
      BY <2>1, <2>3, <1>8, <1>9 DEF OwnCalls
  <2>5. \A u \in Timers : u # t => s.entries[u].generation # g
    BY <1>2, <1>10
  <2>6. \A q \in n.starting, u \in Timers : n.entries[u].generation = q.generation => u = q.timer
    <3> HIDE DEF g
    <3> QED
      BY <2>1, <2>3, <2>5, <1>6, <1>8, <1>9 DEF OwnCalls
  <2> QED
    BY <2>2, <2>4, <2>6 DEF OwnCalls
<1>14. OwnCues(n)
  <2>1. OwnCues(s)
    BY <1>1 DEF Sound
  <2>2. \A c \in Cues : s.plays[g][c] = 0
    BY <2>1, <1>2, <1>11 DEF OwnCues
  <2>3. \A h \in Generations, c \in Cues : h > n.generations => n.plays[h][c] = 0
    <3>1. \A h \in Generations : h > g => h > s.generations
      BY <1>2 DEF Generations
    <3> HIDE DEF g
    <3> QED
      BY <3>1, <2>1, <1>8 DEF OwnCues
  <2>4. \A u \in Timers : n.entries[u].status \in {"running", "paused"}
                            => n.plays[n.entries[u].generation]["end"] = 0
    <3> HIDE DEF g
    <3> QED
      BY <2>1, <2>2, <1>6, <1>8, <1>9 DEF OwnCues, Cues
  <2>5. \A q \in n.starting : n.plays[q.generation]["start"] = 0
    <3> HIDE DEF g
    <3> QED
      BY <2>1, <2>2, <1>8, <1>9 DEF OwnCues, Cues
  <2> QED
    BY <2>1, <2>3, <2>4, <2>5, <1>8 DEF OwnCues
<1>15. Kept(n, leases)
  <2> SUFFICES ASSUME NEW h \in leases, h \notin n.releases
               PROVE  \E u \in Timers : n.entries[u].generation = h
    BY DEF Kept
  <2>1. PICK u \in Timers : s.entries[u].generation = h
    BY <1>1, <1>8 DEF Kept
  <2>2. u # t
    BY <2>1 DEF Idle, Generations
  <2> QED
    BY <2>1, <2>2, <1>6, <1>8
<1>16. ASSUME NEW u \in Timers PROVE DrivenAt(n, u) /\ HeardAt(n, u)
  <2>1. CASE u = t
    <3>1. AwaitsMedia(n, u)
      BY <2>1, <1>6, <1>8, <1>9 DEF AwaitsMedia
    <3> QED
      BY <3>1 DEF DrivenAt, HeardAt
  <2>2. CASE u # t
    <3>1. AwaitsMedia(s, u) => AwaitsMedia(n, u)
      BY <2>2, <1>6, <1>8 DEF AwaitsMedia
    <3>2. DrivenAt(n, u)
      BY <2>2, <3>1, <1>1, <1>6, <1>8 DEF DrivenAt
    <3>3. HeardAt(n, u)
      BY <2>2, <3>1, <1>1, <1>6, <1>8 DEF HeardAt
    <3> QED
      BY <3>2, <3>3
  <2> QED
    BY <2>1, <2>2
<1>17. OwnShown(n)
  <2> SUFFICES ASSUME NEW shown \in n.published PROVE EntriesOK(shown, n.generations)
    BY DEF OwnShown
  <2>1. EntriesOK(shown, s.generations) /\ shown \in [Timers -> Entry]
    BY <1>1, <1>8 DEF Sound, OwnShown, States
  <2>2. \A u \in Timers : shown[u].generation <= g
    <3> SUFFICES ASSUME NEW u \in Timers PROVE shown[u].generation <= g
      OBVIOUS
    <3>1. shown[u].generation <= s.generations
      BY <2>1 DEF EntriesOK
    <3>2. shown[u].generation \in Nat
      BY <2>1 DEF Entry
    <3> QED
      BY <3>1, <3>2, <1>2
  <2> HIDE DEF g
  <2> QED
    BY <2>1, <2>2, <1>8 DEF EntriesOK
<1>18. CallOK(n)
  BY <1>7, <1>12, <1>13, <1>14, <1>15, <1>16, <1>17 DEF CallOK, Sound
<1>19. s.generations <= n.generations
  BY <1>2, <1>8
<1> QED
  BY <1>18, <1>19 DEF n

\* An adjustment keeps a run driven and published, or completes it.
LEMMA AdjustedOK ==
  ASSUME NEW s, CallOK(s), NEW t \in Timers, s.entries[t].generation # 0,
         NEW action \in {"zero", "set", "increment", "decrement"}, NEW created \in BOOLEAN
  PROVE  LET n == Adjusted(s, t, action, created)
         IN CallOK(n) /\ n.starting = s.starting /\ n.generations = s.generations
<1> DEFINE x == s.entries[t]
           left == TimeAfter(action, x.left)
           e == [x EXCEPT !.left = left, !.armed = x.status = "running"]
           n == Adjusted(s, t, action, created)
<1>1. s \in States /\ x \in Entry /\ EntryOK(x)
  BY OwnGeneration DEF CallOK, Sound
<1>2. CASE x.status = "completed" \/ (left = x.left /\ ~created)
  BY <1>2 DEF Adjusted
<1>3. CASE ~(x.status = "completed" \/ (left = x.left /\ ~created))
  <2>1. x.status \in {"running", "paused"}
    BY <1>1, <1>3 DEF Entry, Statuses, EntryOK
  <2>2. CASE left = 0
    <3>1. n = Complete(s, t)
      BY <1>3, <2>2 DEF Adjusted
    <3>2. CallOK(n) /\ OnlyOwn(n, s, t)
      <4> HIDE DEF n
      <4> QED
        BY <2>1, <3>1, CompleteOK
    <3> QED
      BY <3>2 DEF OnlyOwn
  <2>3. CASE left # 0
    <3>1. n = WithEntry(s, t, e)
      BY <1>1, <1>3, <2>3 DEF Adjusted, WithEntry, Publish, States
    <3>2. left \in 0 .. Longest
      <4>1. x.left \in 0 .. Longest
        <5>1. x.left \in Nat
          BY <1>1 DEF Entry
        <5>2. x.left <= Longest
          BY <1>1, <2>1 DEF EntryOK
        <5> QED
          BY <5>1, <5>2, TimerAssumption
      <4>2. Longest \in Nat /\ 1 <= Longest
        BY TimerAssumption
      <4> HIDE DEF x
      <4> QED
        BY <4>1, <4>2 DEF TimeAfter
    <3>3. left \in 0 .. Most /\ left > 0 /\ left <= Longest
      <4> HIDE DEF left
      <4> QED
        BY <2>3, <3>2, TimerAssumption DEF Most
    <3>4. /\ e \in Entry /\ e.generation = x.generation /\ e.left = left
          /\ e.status = x.status /\ (e.armed <=> x.status = "running")
      <4> HIDE DEF left
      <4> QED
        BY <1>1, <3>3 DEF Entry
    <3>5. EntryOK(e)
      <4>1. e.generation # 0 /\ e.status \in {"running", "paused"} /\ (e.armed => e.status = "running")
        BY <2>1, <3>4
      <4> HIDE DEF e, left
      <4> QED
        BY <4>1, <3>3, <3>4 DEF EntryOK
    <3>6. e.armed \/ e.status \notin {"running", "completed"}
      BY <2>1, <3>4
    <3>7. CallOK(WithEntry(s, t, e)) /\ OnlyOwn(WithEntry(s, t, e), s, t)
      <4> HIDE DEF e
      <4> QED
        BY <2>1, <3>4, <3>5, <3>6, EntryPublished
    <3> QED
      BY <3>1, <3>7 DEF OnlyOwn
  <2> QED
    BY <2>2, <2>3
<1> QED
  BY <1>2, <1>3

\* The call r goes on as rest, or is over.
WithCalls(s, r, rest) == [s EXCEPT !.starting = (s.starting \ {r}) \cup rest]

\* What the call owed to its run is done by then.
LEMMA CallMoved ==
  ASSUME NEW s, CallOK(s), NEW r \in s.starting, NEW rest \in SUBSET Waiting,
         \A q \in rest : /\ q.generation = r.generation /\ q.timer = r.timer /\ q.paused = r.paused
                         /\ q.adjustment = r.adjustment /\ q.phase # "media",
         \A q, p \in rest : q = p, rest = {} \/ r.adjustment # NoAdjustment,
         \/ r.phase # "media" \/ ~Current(s, r)
         \/ /\ s.published = {s.entries}
            /\ s.entries[r.timer].armed \/ s.entries[r.timer].status \notin {"running", "completed"}
  PROVE  LET n == WithCalls(s, r, rest)
         IN /\ CallOK(n) /\ n.starting = (s.starting \ {r}) \cup rest
            /\ n.entries = s.entries /\ n.published = s.published /\ n.plays = s.plays
            /\ n.generations = s.generations /\ n.stopped = s.stopped
<1> DEFINE calls == (s.starting \ {r}) \cup rest
           n == WithCalls(s, r, rest)
<1>1. s \in States /\ Sound(s) /\ Kept(s, leases) /\ \A u \in Timers : DrivenAt(s, u) /\ HeardAt(s, u)
  BY DEF CallOK
<1>2. calls \in SUBSET Waiting /\ r \in Waiting
  BY <1>1 DEF States
<1>3. n = [s EXCEPT !.starting = calls] /\ n \in States
  <2>1. n = [s EXCEPT !.starting = calls]
    BY DEF WithCalls
  <2> HIDE DEF calls, n
  <2> QED
    BY <2>1, <1>1, <1>2 DEF States
<1>4. /\ n.starting = calls /\ n.entries = s.entries /\ n.published = s.published /\ n.plays = s.plays
      /\ n.generations = s.generations /\ n.stopped = s.stopped /\ n.releases = s.releases
      /\ n.cues = s.cues
  <2> HIDE DEF calls, n
  <2> QED
    BY <1>1, <1>3 DEF States
<1> HIDE DEF n
<1>5. \A q \in calls : \E p \in s.starting :
        /\ p.generation = q.generation /\ p.timer = q.timer /\ p.paused = q.paused
        /\ p.adjustment = q.adjustment
  OBVIOUS
<1>6. OwnRuns(n)
  BY <1>1, <1>4 DEF Sound, OwnRuns
<1>7. OwnCalls(n)
  <2>1. OwnCalls(s)
    BY <1>1 DEF Sound
  <2>2. \A q \in n.starting : /\ q.generation <= n.generations /\ (q.paused <=> q.adjustment # NoAdjustment)
                              /\ q.phase # "media" => q.adjustment # NoAdjustment
    BY <2>1, <1>4, <1>5 DEF OwnCalls
  <2>3. \A q, p \in n.starting : q.generation = p.generation => q = p
    BY <2>1, <1>4 DEF OwnCalls
  <2>4. \A q \in n.starting, u \in Timers : n.entries[u].generation = q.generation => u = q.timer
    BY <2>1, <1>4, <1>5 DEF OwnCalls
  <2> QED
    BY <2>2, <2>3, <2>4 DEF OwnCalls
<1>8. OwnCues(n)
  <2>1. OwnCues(s)
    BY <1>1 DEF Sound
  <2>2. \A q \in n.starting : n.plays[q.generation]["start"] = 0
    BY <2>1, <1>4, <1>5 DEF OwnCues
  <2> HIDE DEF calls
  <2> QED
    BY <2>1, <2>2, <1>4 DEF OwnCues
<1>9. Kept(n, leases)
  BY <1>1, <1>4 DEF Kept
<1>10. ASSUME NEW u \in Timers PROVE DrivenAt(n, u) /\ HeardAt(n, u)
  <2>1. CASE r.phase # "media" \/ ~Current(s, r)
    <3>1. AwaitsMedia(s, u) <=> AwaitsMedia(n, u)
      BY <2>1, <1>4 DEF AwaitsMedia, Current
    <3>2. DrivenAt(n, u)
      BY <3>1, <1>1, <1>4 DEF DrivenAt
    <3>3. HeardAt(n, u)
      BY <3>1, <1>1, <1>4 DEF HeardAt
    <3> QED
      BY <3>2, <3>3
  <2>2. CASE /\ s.published = {s.entries}
             /\ s.entries[r.timer].armed \/ s.entries[r.timer].status \notin {"running", "completed"}
    <3>1. HeardAt(n, u)
      BY <2>2, <1>4 DEF HeardAt
    <3>2. CASE u = r.timer
      BY <3>1, <3>2, <2>2, <1>4 DEF DrivenAt
    <3>3. CASE u # r.timer
      <4>1. AwaitsMedia(s, u) => AwaitsMedia(n, u)
        BY <3>3, <1>4 DEF AwaitsMedia
      <4>2. DrivenAt(n, u)
        BY <4>1, <1>1, <1>4 DEF DrivenAt
      <4> QED
        BY <3>1, <4>2
    <3> QED
      BY <3>2, <3>3
  <2> QED
    BY <2>1, <2>2
<1>11. OwnShown(n)
  BY <1>1, <1>4 DEF Sound, OwnShown
<1> QED
  BY <1>3, <1>4, <1>6, <1>7, <1>8, <1>9, <1>10, <1>11 DEF CallOK, Sound, n

-----------------------------------------------------------------------------
(* A call takes effect *)

Rows == [timer : Timers, generation : Generations, left : 1 .. Longest]

\* What saveRecovery writes fits every run, and each run once.
LEMMA RecoveryOK ==
  ASSUME NEW made \in Nat, NEW ents \in [Timers -> Entry], EntriesOK(ents, made)
  PROVE  /\ Recovery(ents) \subseteq Rows
         /\ \A a, b \in Recovery(ents) : a.timer = b.timer => a = b
         /\ \A a, b \in Recovery(ents) : a.generation = b.generation => a.timer = b.timer
         /\ \A a \in Recovery(ents) : a.generation <= made
         /\ \A t \in Timers : RowsFit({row \in Recovery(ents) : row.timer = t}, t, ents[t])
<1> DEFINE Row(t) == [timer |-> t, generation |-> ents[t].generation, left |-> ents[t].left]
           Of(t) == ents[t].status = "paused" \/ (ents[t].status = "running" /\ ents[t].left > 0)
<1>1. \A a \in Recovery(ents) : a.timer \in Timers /\ a = Row(a.timer) /\ Of(a.timer)
  BY DEF Recovery
<1>2. \A t \in Timers : Of(t) => Row(t) \in Recovery(ents)
  BY DEF Recovery
<1>3. ASSUME NEW t \in Timers, Of(t) PROVE Row(t) \in Rows /\ ents[t].generation # 0
  <2>1. ents[t] \in Entry /\ EntryOK(ents[t])
    BY DEF EntriesOK
  <2>2. ents[t].generation # 0 /\ ents[t].left > 0 /\ ents[t].left <= Longest
    BY <1>3, <2>1 DEF EntryOK, Idle
  <2>3. ents[t].generation \in Generations /\ ents[t].left \in 1 .. Longest
    BY <2>1, <2>2, TimerAssumption DEF Entry, Generations
  <2> QED
    BY <2>2, <2>3 DEF Rows
<1>4. ASSUME NEW t \in Timers PROVE RowsFit({row \in Recovery(ents) : row.timer = t}, t, ents[t])
  <2> DEFINE rows == {row \in Recovery(ents) : row.timer = t}
  <2>1. CASE Of(t)
    <3>1. rows = {Row(t)}
      BY <1>1, <1>2, <2>1
    <3>2. ents[t].left \in Int
      BY DEF Entry
    <3>3. \A row \in rows : row.generation = ents[t].generation /\ row.left = ents[t].left
      BY <3>1
    <3>4. ents[t].status = "paused" \/ ents[t].status = "running"
      BY <2>1
    <3> HIDE DEF rows
    <3>5. rows # {}
      BY <3>1
    <3>6. ASSUME ents[t].status = "paused" PROVE RowsFit(rows, t, ents[t])
      BY <3>1, <3>6 DEF RowsFit
    <3>7. ASSUME ents[t].status = "running" PROVE RowsFit(rows, t, ents[t])
      <4>1. \A row \in rows : row.left >= ents[t].left
        BY <3>2, <3>3
      <4> QED
        BY <3>3, <3>5, <3>7, <4>1 DEF RowsFit
    <3> QED
      BY <3>4, <3>6, <3>7 DEF rows
  <2>2. CASE ~Of(t)
    <3>1. rows = {}
      BY <1>1, <2>2
    <3> HIDE DEF rows
    <3> QED
      BY <2>2, <3>1 DEF RowsFit, rows
  <2> QED
    BY <2>1, <2>2
<1> HIDE DEF Row, Of
<1>5. Recovery(ents) \subseteq Rows
  BY <1>1, <1>3
<1>6. \A a, b \in Recovery(ents) : a.timer = b.timer => a = b
  BY <1>1
<1>7. \A a \in Recovery(ents) : a.generation = ents[a.timer].generation /\ a.generation # 0
  BY <1>1, <1>3 DEF Row
<1>8. \A a, b \in Recovery(ents) : a.generation = b.generation => a.timer = b.timer
  BY <1>1, <1>7 DEF EntriesOK
<1>9. \A a \in Recovery(ents) : a.generation <= made
  BY <1>1, <1>7 DEF EntriesOK
<1> QED
  BY <1>4, <1>5, <1>6, <1>8, <1>9

LEMMA TypeParts ==
  TimerTypeOK <=>
    /\ entries \in [Timers -> Entry] /\ starting \subseteq Waiting
    /\ leases \subseteq Generations /\ releases \subseteq Generations /\ stopped \subseteq Generations
    /\ cues \subseteq CueCalls /\ saved \subseteq Rows
    /\ dirty \in BOOLEAN /\ checkpoint \in BOOLEAN /\ unpublished \in BOOLEAN
    /\ told \in [Timers -> (0 .. MaxRuns) \X Statuses]
    /\ generations \in 0 .. MaxRuns /\ plays \in [Generations -> [Cues -> 0 .. 2]]
    /\ failures \in 0 .. MaxFailures /\ crashes \in 0 .. MaxCrashes
BY DEF TimerTypeOK, Entry, Waiting, CueCalls, Rows, Statuses, Most

\* What the variables are after Commit(s), but for the publication.
LEMMA CommitFields ==
  ASSUME NEW s, Commit(s)
  PROVE  /\ now'.entries = s.entries /\ now'.starting = s.starting /\ now'.releases = s.releases
         /\ now'.cues = s.cues /\ now'.generations = s.generations /\ now'.plays = s.plays
         /\ now'.stopped = s.stopped /\ now'.published = {}
         /\ entries' = s.entries /\ starting' = s.starting /\ releases' = s.releases
         /\ cues' = s.cues /\ generations' = s.generations /\ plays' = s.plays
         /\ stopped' = s.stopped
BY DEF Commit, now

\* persistRecovery: the rows are those of the moment, or the write is to be tried again.
LEMMA PersistOK ==
  ASSUME NEW ents \in [Timers -> Entry], NEW made \in Nat, EntriesOK(ents, made), Persist(ents),
         failures \in 0 .. MaxFailures, saved \subseteq Rows, SavedOnce, generations <= made,
         generations \in Nat
  PROVE  /\ saved' \subseteq Rows /\ dirty' \in BOOLEAN /\ failures' \in 0 .. MaxFailures
         /\ \A a, b \in saved' : a.timer = b.timer => a = b
         /\ \A a, b \in saved' : a.generation = b.generation => a.timer = b.timer
         /\ \A a \in saved' : a.generation <= made
         /\ ~dirty' => \A t \in Timers : RowsFit({row \in saved' : row.timer = t}, t, ents[t])
<1>1. CASE saved' = Recovery(ents) /\ dirty' = FALSE /\ UNCHANGED failures
  BY <1>1, RecoveryOK
<1>2. CASE failures < MaxFailures /\ failures' = failures + 1 /\ dirty' = TRUE /\ UNCHANGED saved
  <2>1. \A a \in saved : a.generation \in Int /\ a.generation <= generations
    BY DEF SavedOnce, Rows, Generations
  <2>2. \A a \in saved' : a.generation <= made
    BY <1>2, <2>1
  <2>3. failures' \in 0 .. MaxFailures
    BY <1>2, TimerAssumption
  <2> QED
    BY <1>2, <2>2, <2>3 DEF SavedOnce
<1> QED
  BY <1>1, <1>2 DEF Persist

\* Generations that were made stay behind those to come.
LEMMA SavedLater ==
  ASSUME SavedOnce, saved \subseteq Rows, generations \in Nat, generations' \in Nat,
         generations <= generations', UNCHANGED saved
  PROVE  SavedOnce'
<1>1. \A a \in saved : a.generation \in Int /\ a.generation <= generations
  BY DEF SavedOnce, Rows, Generations
<1>2. \A a \in saved : a.generation <= generations'
  BY <1>1
<1> QED
  BY <1>2 DEF SavedOnce

\* A call takes effect on a sound state: it published what it did, or left a
\* start behind that will, or failed one.
LEMMA Committed ==
  ASSUME TimerInv, NEW s \in States, Sound(s), Commit(s), leases' \subseteq Generations,
         Kept(s, leases'), generations <= s.generations,
         unpublished' \in BOOLEAN, crashes' = crashes,
         unpublished /\ s.published = {} => unpublished',
         \A u \in Timers : DrivenAt(s, u) /\ (HeardAt(s, u) \/ unpublished')
  PROVE  TimerInv'
<1>1. /\ now'.entries = s.entries /\ now'.starting = s.starting /\ now'.releases = s.releases
      /\ now'.cues = s.cues /\ now'.generations = s.generations /\ now'.plays = s.plays
      /\ now'.stopped = s.stopped /\ now'.published = {}
      /\ entries' = s.entries /\ starting' = s.starting /\ releases' = s.releases
      /\ cues' = s.cues /\ generations' = s.generations /\ plays' = s.plays
      /\ stopped' = s.stopped
  BY CommitFields
<1>2. Sound(now)' /\ Kept(now, leases)'
  <2>1. OwnRuns(now') /\ OwnCalls(now') /\ OwnCues(now') /\ OwnShown(now')
    BY <1>1 DEF Sound, OwnRuns, OwnCalls, OwnCues, OwnShown
  <2>2. Kept(now', leases')
    BY <1>1 DEF Kept
  <2> QED
    BY <2>1, <2>2 DEF Sound
<1>3. ASSUME NEW u \in Timers PROVE DrivenAt(now, u)' /\ (AwaitsMedia(now, u)' <=> AwaitsMedia(s, u))
  <2>1. AwaitsMedia(now', u) <=> AwaitsMedia(s, u)
    BY <1>1 DEF AwaitsMedia
  <2>2. DrivenAt(now', u)
    BY <2>1, <1>1 DEF DrivenAt
  <2> QED
    BY <2>1, <2>2
<1>4. /\ saved \subseteq Rows /\ SavedOnce /\ generations \in 0 .. MaxRuns /\ failures \in 0 .. MaxFailures
      /\ dirty \in BOOLEAN /\ checkpoint \in BOOLEAN /\ (dirty => checkpoint)
      /\ told \in [Timers -> (0 .. MaxRuns) \X Statuses] /\ crashes \in 0 .. MaxCrashes
  BY TypeParts DEF TimerInv
<1>5. /\ generations' \in 0 .. MaxRuns /\ entries' \in [Timers -> Entry] /\ starting' \subseteq Waiting
      /\ releases' \subseteq Generations /\ stopped' \subseteq Generations /\ cues' \subseteq CueCalls
      /\ plays' \in [Generations -> [Cues -> 0 .. 2]]
  BY <1>1 DEF States
<1>6. /\ saved' \subseteq Rows /\ SavedOnce' /\ dirty' \in BOOLEAN /\ checkpoint' \in BOOLEAN
      /\ failures' \in 0 .. MaxFailures /\ (dirty' => checkpoint')
      /\ told' \in [Timers -> (0 .. MaxRuns) \X Statuses]
      /\ \A u \in Timers : AnnouncedAt(u)'
  <2>1. CASE s.published = {}
    <3>1. UNCHANGED publishedVars
      BY <2>1 DEF Commit
    <3>2. SavedOnce'
      BY <3>1, <1>1, <1>4, <1>5, SavedLater DEF publishedVars
    <3>3. ASSUME NEW u \in Timers PROVE AnnouncedAt(u)'
      <4>1. CASE unpublished' \/ AwaitsMedia(s, u)
        BY <4>1, <1>3 DEF AnnouncedAt
      <4>2. CASE ~unpublished' /\ ~AwaitsMedia(s, u)
        <5>1. s.entries[u] = entries[u] /\ ~AwaitsMedia(now, u) /\ ~unpublished
          BY <4>2, <2>1 DEF HeardAt
        <5>2. /\ told[u] = <<entries[u].generation, entries[u].status>>
              /\ ~dirty => RowsFit(RowsOf(u), u, entries[u])
          BY <5>1 DEF TimerInv, AnnouncedAt
        <5>3. entries'[u] = entries[u] /\ told' = told /\ dirty' = dirty /\ RowsOf(u)' = RowsOf(u)
          BY <5>1, <3>1, <1>1 DEF publishedVars, RowsOf
        <5> QED
          BY <5>2, <5>3 DEF AnnouncedAt
      <4> QED
        BY <4>1, <4>2
    <3> QED
      BY <3>1, <3>2, <3>3, <1>4 DEF publishedVars
  <2>2. CASE s.published # {}
    <3>1. PICK ents \in s.published :
            Persist(ents) /\ checkpoint' = NeedsCheckpoint(ents) /\ told' = Shown(ents)
      BY <2>2 DEF Commit
    <3>2. ents \in [Timers -> Entry] /\ EntriesOK(ents, s.generations)
      BY DEF States, Sound, OwnShown
    <3>3. s.generations \in Nat /\ generations \in Nat
      BY <1>4 DEF States
    <3>4. /\ saved' \subseteq Rows /\ dirty' \in BOOLEAN /\ failures' \in 0 .. MaxFailures
          /\ \A a, b \in saved' : a.timer = b.timer => a = b
          /\ \A a, b \in saved' : a.generation = b.generation => a.timer = b.timer
          /\ \A a \in saved' : a.generation <= s.generations
          /\ ~dirty' => \A t \in Timers : RowsFit({row \in saved' : row.timer = t}, t, ents[t])
      BY <3>1, <3>2, <3>3, <1>4, PersistOK
    <3>5. SavedOnce'
      BY <3>4, <1>1 DEF SavedOnce
    <3>6. checkpoint' \in BOOLEAN /\ (dirty' => checkpoint')
      BY <3>1, <3>4 DEF NeedsCheckpoint, Running
    <3>7. told' \in [Timers -> (0 .. MaxRuns) \X Statuses]
          /\ \A t \in Timers : told'[t] = <<ents[t].generation, ents[t].status>>
      BY <3>1, <3>2 DEF Shown, Entry
    <3>8. ASSUME NEW u \in Timers PROVE AnnouncedAt(u)'
      <4>1. CASE unpublished' \/ AwaitsMedia(s, u)
        BY <4>1, <1>3 DEF AnnouncedAt
      <4>2. CASE ~unpublished' /\ ~AwaitsMedia(s, u)
        <5>1. ents[u] = entries'[u]
          BY <4>2, <2>2, <1>1 DEF HeardAt
        <5>2. told'[u] = <<entries'[u].generation, entries'[u].status>>
          BY <5>1, <3>7
        <5>3. ~dirty' => RowsFit({row \in saved' : row.timer = u}, u, entries'[u])
          BY <5>1, <3>4
        <5> QED
          BY <5>2, <5>3 DEF AnnouncedAt, RowsOf
      <4> QED
        BY <4>1, <4>2
    <3> QED
      BY <3>4, <3>5, <3>6, <3>7, <3>8
  <2> QED
    BY <2>1, <2>2
<1>7. TimerTypeOK'
  <2>1. crashes' \in 0 .. MaxCrashes
    BY <1>4
  <2> QED
    BY <2>1, <1>5, <1>6 DEF TimerTypeOK, Entry, Waiting, CueCalls, Rows, Statuses, Most
<1> QED
  BY <1>2, <1>3, <1>6, <1>7 DEF TimerInv

LEMMA CalledOK ==
  ASSUME TimerInv, NEW s, CallOK(s), Called(s), generations <= s.generations
  PROVE  TimerInv'
<1>1. /\ Commit(s) /\ leases' = leases /\ crashes' = crashes
      /\ unpublished' = (unpublished /\ s.published = {})
  BY DEF Called
<1>2. leases' \subseteq Generations /\ unpublished' \in BOOLEAN
  BY <1>1, TypeParts DEF TimerInv
<1>3. unpublished /\ s.published = {} => unpublished'
  BY <1>1
<1>4. s \in States /\ Sound(s) /\ Kept(s, leases') /\ \A u \in Timers : DrivenAt(s, u) /\ HeardAt(s, u)
  BY <1>1 DEF CallOK
<1> QED
  BY <1>1, <1>2, <1>3, <1>4, Committed

-----------------------------------------------------------------------------
(* Commands *)

LEMMA InvParts ==
  ASSUME TimerInv
  PROVE  /\ CallOK(now) /\ now.generations = generations /\ generations \in Nat
         /\ leases \subseteq Generations
BY NowOK, NowFields, TypeParts DEF TimerInv

LEMMA StartStep == ASSUME TimerInv, NEW t \in Timers, Start(t) PROVE TimerInv'
<1> DEFINE s == Resolve(now, t)
           n == StartFresh(s, t, "running", NoAdjustment, 0)
<1>1. /\ CallOK(s) /\ s.generations = generations /\ generations \in Nat
      /\ leases \subseteq Generations
  BY InvParts, ResolveOK DEF OnlyOwn
<1>2. CASE s.entries[t] = Idle
  <2>1. Called(n) /\ s.generations < MaxRuns
    BY <1>1, <1>2 DEF Start
  <2>2. CallBut(s, t)
    BY <1>1 DEF CallOK, CallBut
  <2>3. 0 \in 0 .. MaxRuns
    BY TimerAssumption
  <2> HIDE DEF s
  <2>4. CallOK(n) /\ s.generations <= n.generations
    BY <1>1, <1>2, <2>1, <2>2, <2>3, StartFreshOK
  <2> HIDE DEF n
  <2> QED
    BY <1>1, <2>1, <2>4, CalledOK
<1>3. CASE s.entries[t] # Idle
  <2>1. Called(s)
    BY <1>3 DEF Start
  <2> HIDE DEF s
  <2> QED
    BY <1>1, <2>1, CalledOK
<1> QED
  BY <1>2, <1>3

LEMMA PauseStep == ASSUME TimerInv, NEW t \in Timers, Pause(t) PROVE TimerInv'
<1> DEFINE s == Resolve(now, t)
           n == Paused(s, t)
<1>1. /\ CallOK(s) /\ s.generations = generations /\ generations \in Nat
      /\ s.entries[t] # Idle => s.entries[t].left > 0
  BY InvParts, ResolveOK DEF OnlyOwn
<1>2. s.entries[t].status = "running" => s.entries[t].left > 0
  BY <1>1 DEF Idle
<1>3. Called(n)
  BY DEF Pause
<1> HIDE DEF s
<1>4. CallOK(n) /\ n.generations = s.generations
  BY <1>1, <1>2, PausedOK DEF OnlyOwn
<1> HIDE DEF n
<1> QED
  BY <1>1, <1>3, <1>4, CalledOK

LEMMA ResumeStep == ASSUME TimerInv, NEW t \in Timers, Resume(t) PROVE TimerInv'
<1> DEFINE s == Resolve(now, t)
           n == Resumed(s, t)
<1>1. CallOK(s) /\ s.generations = generations /\ generations \in Nat
  BY InvParts, ResolveOK DEF OnlyOwn
<1>2. Called(n)
  BY DEF Resume
<1> HIDE DEF s
<1>3. CallOK(n) /\ n.generations = s.generations
  BY <1>1, ResumedOK DEF OnlyOwn
<1> HIDE DEF n
<1> QED
  BY <1>1, <1>2, <1>3, CalledOK

LEMMA StopStep == ASSUME TimerInv, NEW t \in Timers, Stop(t) PROVE TimerInv'
<1> DEFINE s == Resolve(now, t)
           n == Stopped(s, t)
<1>1. CallOK(s) /\ s.generations = generations /\ generations \in Nat
  BY InvParts, ResolveOK DEF OnlyOwn
<1>2. Called(n)
  BY DEF Stop
<1> HIDE DEF s
<1>3. CallOK(n) /\ n.generations = s.generations
  BY <1>1, StoppedOK
<1> HIDE DEF n
<1> QED
  BY <1>1, <1>2, <1>3, CalledOK

\* A run made in the place of whatever timer t had.
LEMMA Remade ==
  ASSUME TimerInv, NEW t \in Timers, NEW s, CallOK(s), s.generations = generations,
         generations < MaxRuns, NEW status \in {"running", "paused"},
         NEW adjustment \in Adjustments \cup {NoAdjustment}, NEW after \in 0 .. MaxRuns,
         status = "paused" <=> adjustment # NoAdjustment,
         Called(StartFresh(Replaced(s, t), t, status, adjustment, after))
  PROVE  TimerInv'
<1> DEFINE q == Replaced(s, t)
           n == StartFresh(q, t, status, adjustment, after)
<1>1. generations \in Nat /\ leases \subseteq Generations
  BY InvParts
<1>2. CallBut(s, t)
  BY DEF CallOK, CallBut
<1>3. /\ CallBut(q, t) /\ q.generations = generations
      /\ q.entries = [s.entries EXCEPT ![t] = Idle]
  BY <1>2, ReplacedOK
<1>4. q.entries[t] = Idle
  BY <1>2, <1>3 DEF CallBut, States
<1> HIDE DEF q
<1>5. CallOK(n) /\ q.generations <= n.generations
  BY <1>1, <1>3, <1>4, StartFreshOK
<1>6. Called(n)
  BY DEF q
<1> HIDE DEF n
<1> QED
  BY <1>1, <1>3, <1>5, <1>6, CalledOK

LEMMA RestartStep == ASSUME TimerInv, NEW t \in Timers, Restart(t) PROVE TimerInv'
<1> DEFINE s == Resolve(now, t)
<1>1. CallOK(s) /\ s.generations = generations
  BY InvParts, ResolveOK DEF OnlyOwn
<1>2. generations < MaxRuns /\ Called(StartFresh(Replaced(s, t), t, "running", NoAdjustment, 0))
  BY DEF Restart
<1>3. 0 \in 0 .. MaxRuns
  BY TimerAssumption
<1> HIDE DEF s
<1> QED
  BY <1>1, <1>2, <1>3, Remade

LEMMA ActivateStep == ASSUME TimerInv, NEW t \in Timers, Activate(t) PROVE TimerInv'
<1>1. Pause(t) \/ Resume(t) \/ Restart(t) \/ Start(t)
  BY DEF Activate
<1> QED
  BY <1>1, PauseStep, ResumeStep, RestartStep, StartStep

LEMMA ResetStep == ASSUME TimerInv, NEW t \in Timers, Reset(t) PROVE TimerInv'
<1> DEFINE s == Resolve(now, t)
           x == s.entries[t]
           e == [x EXCEPT !.left = Duration, !.armed = x.status = "running"]
<1>1. /\ CallOK(s) /\ s.generations = generations /\ generations \in Nat
  BY InvParts, ResolveOK DEF OnlyOwn
<1>2. CASE x.status \notin {"running", "paused"} \/ x.left = Duration
  <2>1. Called(s)
    BY <1>2 DEF Reset
  <2> HIDE DEF s
  <2> QED
    BY <1>1, <2>1, CalledOK
<1>3. CASE ~(x.status \notin {"running", "paused"} \/ x.left = Duration)
  <2>1. s \in States
    BY <1>1 DEF CallOK
  <2>2. Called(WithEntry(s, t, e))
    <3>1. Called(Publish([s EXCEPT !.entries[t].left = Duration,
                                   !.entries[t].armed = x.status = "running"]))
      BY <1>3 DEF Reset
    <3> HIDE DEF s
    <3>2. Publish([s EXCEPT !.entries[t].left = Duration,
                            !.entries[t].armed = x.status = "running"]) = WithEntry(s, t, e)
      BY <2>1 DEF WithEntry, Publish, States
    <3> QED
      BY <3>1, <3>2
  <2> HIDE DEF s
  <2>3. x \in Entry /\ EntryOK(x)
    BY <1>1, <2>1, OwnGeneration DEF CallOK, Sound
  <2>4. Duration \in 0 .. Most /\ Duration > 0 /\ Duration <= Longest
    BY TimerAssumption DEF Most
  <2>5. /\ e \in Entry /\ e.generation = x.generation /\ e.left = Duration /\ e.status = x.status
        /\ (e.armed <=> x.status = "running")
    BY <2>3, <2>4 DEF Entry
  <2>6. EntryOK(e)
    <3>1. e.generation # 0 /\ e.status \in {"running", "paused"} /\ (e.armed => e.status = "running")
      BY <1>3, <2>3, <2>5 DEF EntryOK, Idle
    <3> HIDE DEF e
    <3> QED
      BY <2>4, <2>5, <3>1 DEF EntryOK
  <2>7. /\ e.armed \/ e.status \notin {"running", "completed"}
        /\ e.status \in {"running", "paused"} => s.entries[t].status \in {"running", "paused"}
    BY <1>3, <2>5
  <2>8. CallOK(WithEntry(s, t, e)) /\ OnlyOwn(WithEntry(s, t, e), s, t)
    <3> HIDE DEF e
    <3> QED
      BY <1>1, <2>5, <2>6, <2>7, EntryPublished
  <2>9. WithEntry(s, t, e).generations = s.generations
    BY <2>8 DEF OnlyOwn
  <2> HIDE DEF e
  <2> QED
    BY <1>1, <2>2, <2>8, <2>9, CalledOK
<1> QED
  BY <1>2, <1>3

LEMMA ToggleStep == ASSUME TimerInv, TogglePaused PROVE TimerInv'
<1> DEFINE f == [t \in Timers |-> Resolve(now, t)]
           s == Together(now, f)
           h == [t \in Timers |-> IF Running(s.entries) THEN Paused(s, t) ELSE Resumed(s, t)]
           n == Together(s, h)
<1>1. CallOK(now) /\ now.generations = generations /\ generations \in Nat
  BY InvParts
<1>2. \A t \in Timers : /\ CallOK(f[t]) /\ OnlyOwn(f[t], now, t)
                        /\ f[t].entries[t] # Idle => f[t].entries[t].left > 0
  BY <1>1, ResolveOK
<1>3. Called(n)
  BY DEF TogglePaused
<1> HIDE DEF f
<1>4. CallOK(s) /\ s.generations = generations /\ \A t \in Timers : s.entries[t] = f[t].entries[t]
  BY <1>1, <1>2, TogetherOK
<1>5. \A t \in Timers : s.entries[t].status = "running" => s.entries[t].left > 0
  BY <1>2, <1>4 DEF Idle
<1> HIDE DEF s
<1>6. \A t \in Timers : CallOK(h[t]) /\ OnlyOwn(h[t], s, t)
  <2>1. ASSUME NEW t \in Timers PROVE CallOK(h[t]) /\ OnlyOwn(h[t], s, t)
    <3>1. h[t] = Paused(s, t) \/ h[t] = Resumed(s, t)
      OBVIOUS
    <3> HIDE DEF h
    <3> QED
      BY <3>1, <1>4, <1>5, PausedOK, ResumedOK
  <2> QED
    BY <2>1
<1> HIDE DEF h
<1>7. CallOK(n) /\ n.generations = s.generations
  BY <1>4, <1>6, TogetherOK
<1> HIDE DEF n
<1> QED
  BY <1>1, <1>3, <1>4, <1>7, CalledOK

LEMMA AdjustStep == ASSUME TimerInv, NEW t \in Timers, NEW a \in Adjustments, Adjust(t, a) PROVE TimerInv'
<1> DEFINE s == Resolve(now, t)
           x == s.entries[t]
<1>1. CallOK(s) /\ s.generations = generations /\ generations \in Nat
  BY InvParts, ResolveOK DEF OnlyOwn
<1>2. x \in Entry /\ EntryOK(x)
  <2> HIDE DEF s
  <2> QED
    BY <1>1, OwnGeneration DEF CallOK, Sound
<1>3. a.action \in {"zero", "set", "increment", "decrement"} /\ a # NoAdjustment
  BY DEF Adjustments, NoAdjustment
<1>4. CASE x.status \in {"running", "paused"}
  <2> DEFINE n == Adjusted(s, t, a.action, FALSE)
  <2>1. Called(n)
    BY <1>4 DEF Adjust
  <2>2. x.generation # 0
    BY <1>2, <1>4 DEF EntryOK, Idle
  <2> HIDE DEF s
  <2>3. CallOK(n) /\ n.generations = s.generations
    BY <1>1, <1>3, <2>2, AdjustedOK
  <2> HIDE DEF n
  <2> QED
    BY <1>1, <2>1, <2>3, CalledOK
<1>5. CASE x.status \notin {"running", "paused"}
  <2>1. CASE a.action \in {"increment", "decrement"} /\ a.inactive = "ignore"
    <3>1. Called(s)
      BY <1>5, <2>1 DEF Adjust
    <3> HIDE DEF s
    <3> QED
      BY <1>1, <3>1, CalledOK
  <2>2. CASE ~(a.action \in {"increment", "decrement"} /\ a.inactive = "ignore") /\ a.action = "zero"
    <3> DEFINE n == Stopped(s, t)
    <3>1. Called(n)
      BY <1>5, <2>2 DEF Adjust
    <3> HIDE DEF s
    <3>2. CallOK(n) /\ n.generations = s.generations
      BY <1>1, StoppedOK
    <3> HIDE DEF n
    <3> QED
      BY <1>1, <3>1, <3>2, CalledOK
  <2>3. CASE ~(a.action \in {"increment", "decrement"} /\ a.inactive = "ignore") /\ a.action # "zero"
    <3>1. /\ generations < MaxRuns
          /\ Called(StartFresh(Replaced(s, t), t, "paused", a, x.generation))
      BY <1>5, <2>3 DEF Adjust
    <3>2. x.generation \in 0 .. MaxRuns
      BY <1>2 DEF Entry
    <3> HIDE DEF s
    <3> QED
      BY <1>1, <1>3, <3>1, <3>2, Remade
  <2> QED
    BY <2>1, <2>2, <2>3
<1> QED
  BY <1>4, <1>5

-----------------------------------------------------------------------------
(* After an await *)

LEMMA FireStep == ASSUME TimerInv, NEW t \in Timers, Fire(t) PROVE TimerInv'
<1>1. CallOK(now) /\ now.generations = generations /\ generations \in Nat /\ now.entries = entries
  BY InvParts, NowFields
<1>2. entries[t] \in Entry /\ EntryOK(entries[t])
  BY <1>1, OwnGeneration DEF CallOK, Sound
<1>3. entries[t].armed /\ entries[t].status \in {"running", "completed"}
  BY <1>2 DEF Fire, EntryOK
<1>4. entries[t].generation \in Generations
  BY <1>1, <1>3, OwnGeneration DEF CallOK, Sound
<1>5. CASE entries[t].status = "completed"
  <2>1. Called(Expire(now, t))
    BY <1>5 DEF Fire
  <2>2. CallOK(Expire(now, t)) /\ Expire(now, t).generations = generations
    BY <1>1, <1>4, ExpireOK DEF OnlyOwn
  <2> QED
    BY <1>1, <2>1, <2>2, CalledOK
<1>6. CASE entries[t].status = "running"
  <2>1. Called(Complete(now, t))
    BY <1>6 DEF Fire
  <2>2. CallOK(Complete(now, t)) /\ Complete(now, t).generations = generations
    BY <1>1, <1>6, CompleteOK DEF OnlyOwn
  <2> QED
    BY <1>1, <2>1, <2>2, CalledOK
<1> QED
  BY <1>3, <1>5, <1>6

LEMMA DoneIs ==
  ASSUME NEW s, NEW r
  PROVE  /\ Done(s, r) = WithCalls(s, r, {})
         /\ \A p : Onto(s, r, p) = WithCalls(s, r, {[r EXCEPT !.phase = p]})
<1>1. (s.starting \ {r}) \cup {} = s.starting \ {r}
  OBVIOUS
<1> QED
  BY <1>1 DEF Done, Onto, WithCalls

\* A call that goes on to phase p, after its media.
LEMMA PhaseMoved ==
  ASSUME NEW r \in Waiting, NEW p \in {"adjust", "cue"}
  PROVE  LET q == [r EXCEPT !.phase = p]
         IN /\ q \in Waiting /\ q.generation = r.generation /\ q.timer = r.timer /\ q.paused = r.paused
            /\ q.adjustment = r.adjustment /\ q.phase = p
BY DEF Waiting

LEMMA Finished ==
  ASSUME NEW s, CallOK(s), NEW r \in s.starting,
         \/ r.phase # "media" \/ ~Current(s, r)
         \/ /\ s.published = {s.entries}
            /\ s.entries[r.timer].armed \/ s.entries[r.timer].status \notin {"running", "completed"}
  PROVE  LET n == Done(s, r)
         IN /\ CallOK(n) /\ n.starting = s.starting \ {r} /\ n.entries = s.entries
            /\ n.published = s.published /\ n.plays = s.plays
            /\ n.generations = s.generations /\ n.stopped = s.stopped
<1> DEFINE n == WithCalls(s, r, {})
<1>1. /\ CallOK(n) /\ n.starting = (s.starting \ {r}) \cup {} /\ n.entries = s.entries
      /\ n.published = s.published /\ n.plays = s.plays
      /\ n.generations = s.generations /\ n.stopped = s.stopped
  <2>1. \A q \in {} : FALSE
    OBVIOUS
  <2>2. {} \in SUBSET Waiting
    OBVIOUS
  <2> HIDE DEF n
  <2> QED
    BY <2>1, <2>2, CallMoved DEF n
<1>2. Done(s, r) = n
  BY DoneIs
<1> QED
  BY <1>1, <1>2

LEMMA GoesOn ==
  ASSUME NEW s, CallOK(s), NEW r \in s.starting, NEW p \in {"adjust", "cue"},
         r.adjustment # NoAdjustment,
         \/ r.phase # "media" \/ ~Current(s, r)
         \/ /\ s.published = {s.entries}
            /\ s.entries[r.timer].armed \/ s.entries[r.timer].status \notin {"running", "completed"}
  PROVE  LET n == Onto(s, r, p)
         IN /\ CallOK(n) /\ n.generations = s.generations
            /\ n.entries = s.entries /\ n.published = s.published
<1> DEFINE q == [r EXCEPT !.phase = p]
           n == WithCalls(s, r, {q})
<1>1. r \in Waiting
  BY DEF CallOK, States
<1>2. /\ q \in Waiting /\ q.generation = r.generation /\ q.timer = r.timer /\ q.paused = r.paused
      /\ q.adjustment = r.adjustment /\ q.phase # "media"
  BY <1>1, PhaseMoved
<1>3. Onto(s, r, p) = n
  BY DoneIs
<1> HIDE DEF q
<1>4. /\ CallOK(n) /\ n.generations = s.generations
      /\ n.entries = s.entries /\ n.published = s.published
  BY <1>2, CallMoved
<1> QED
  BY <1>3, <1>4

LEMMA AdjustReservedStep ==
  ASSUME TimerInv, NEW r \in starting, AdjustReserved(r) PROVE TimerInv'
<1>1. /\ CallOK(now) /\ now.generations = generations /\ generations \in Nat
      /\ now.entries = entries /\ now.starting = starting
  BY InvParts, NowFields
<1>2. r \in Waiting /\ r.phase = "adjust"
  BY <1>1 DEF CallOK, States, AdjustReserved
<1>3. CASE ~Current(now, r)
  <2>1. Called(Done(now, r))
    BY <1>3 DEF AdjustReserved
  <2>2. CallOK(Done(now, r)) /\ Done(now, r).generations = generations
    BY <1>1, <1>2, Finished
  <2> QED
    BY <1>1, <2>1, <2>2, CalledOK
<1>4. CASE Current(now, r)
  <2> DEFINE s == Adjusted(now, r.timer, r.adjustment.action, TRUE)
             n == Started(s, r)
  <2>1. Called(n)
    BY <1>4 DEF AdjustReserved
  <2>2. r.timer \in Timers /\ entries[r.timer].generation # 0
    BY <1>1, <1>2, <1>4 DEF Waiting, Current, Generations
  <2>3. r.adjustment.action \in {"zero", "set", "increment", "decrement"}
    <3>1. r.adjustment # NoAdjustment
      BY <1>1, <1>2 DEF CallOK, Sound, OwnCalls
    <3> QED
      BY <1>2, <3>1 DEF Waiting, Adjustments
  <2>4. CallOK(s) /\ s.starting = starting /\ s.generations = generations
    BY <1>1, <2>2, <2>3, AdjustedOK
  <2> HIDE DEF s
  <2>5. CallOK(n) /\ n.generations = generations
    <3>1. CASE r.adjustment.inactive = "start" /\ s.entries[r.timer].status = "paused"
      <4> DEFINE q == Resumed(s, r.timer)
      <4>1. n = Onto(q, r, "cue")
        BY <3>1 DEF Started
      <4>2. CallOK(q) /\ q.starting = starting /\ q.generations = generations
        BY <2>2, <2>4, ResumedOK DEF OnlyOwn
      <4> HIDE DEF q
      <4>3. r.adjustment # NoAdjustment
        BY <1>1, <1>2 DEF CallOK, Sound, OwnCalls
      <4> QED
        BY <4>1, <4>2, <4>3, <1>2, GoesOn
    <3>2. CASE ~(r.adjustment.inactive = "start" /\ s.entries[r.timer].status = "paused")
      <4>1. n = Done(s, r)
        BY <3>2 DEF Started
      <4> QED
        BY <4>1, <2>4, <1>2, Finished
    <3> QED
      BY <3>1, <3>2
  <2> HIDE DEF n
  <2> QED
    BY <1>1, <2>1, <2>5, CalledOK
<1> QED
  BY <1>3, <1>4

\* The start cue of a call that waited, once, for the run that is still there.
LEMMA StartCueOK ==
  ASSUME NEW s, CallOK(s), NEW r \in s.starting, Current(s, r),
         NEW n, CallOK(n), n.starting = s.starting \ {r}, n.entries = s.entries,
         n.plays = s.plays, n.generations = s.generations, n.stopped = s.stopped
  PROVE  LET m == PlayCue(n, r.generation, "start")
         IN /\ CallOK(m) /\ m.generations = s.generations
            /\ m.entries = s.entries /\ m.published = n.published
<1> DEFINE m == PlayCue(n, r.generation, "start")
<1>1. s \in States /\ OwnRuns(s) /\ OwnCalls(s) /\ OwnCues(s)
  BY DEF CallOK, Sound
<1>2. r \in Waiting /\ r.generation \in Generations /\ r.timer \in Timers
  BY <1>1 DEF States, Waiting
<1>3. r.generation <= n.generations /\ n.plays[r.generation]["start"] = 0
  BY <1>1 DEF OwnCalls, OwnCues
<1>4. r.generation \notin n.stopped
  BY <1>1, <1>2 DEF OwnRuns, Current
<1>5. \A q \in n.starting : q.generation # r.generation
  BY <1>1 DEF OwnCalls
<1>6. CallOK(m) /\ m.entries = n.entries /\ m.published = n.published
  BY <1>2, <1>3, <1>4, <1>5, CueAsked DEF Cues
<1>7. m.generations = n.generations
  BY DEF PlayCue, CallOK, States
<1> QED
  BY <1>6, <1>7

LEMMA CueReservedStep ==
  ASSUME TimerInv, NEW r \in starting, CueReserved(r) PROVE TimerInv'
<1> DEFINE n == Done(now, r)
<1>1. /\ CallOK(now) /\ now.generations = generations /\ generations \in Nat
      /\ now.entries = entries /\ now.starting = starting
  BY InvParts, NowFields
<1>2. r.phase = "cue"
  BY DEF CueReserved
<1>3. /\ CallOK(n) /\ n.starting = now.starting \ {r} /\ n.entries = now.entries
      /\ n.plays = now.plays /\ n.generations = now.generations /\ n.stopped = now.stopped
  BY <1>1, <1>2, Finished
<1>4. CASE ~Current(now, r)
  <2>1. Called(n)
    BY <1>4 DEF CueReserved
  <2> HIDE DEF n
  <2> QED
    BY <1>1, <1>3, <2>1, CalledOK
<1>5. CASE Current(now, r)
  <2> DEFINE m == PlayCue(n, r.generation, "start")
  <2>1. Called(m)
    BY <1>5 DEF CueReserved
  <2> HIDE DEF n
  <2>2. CallOK(m) /\ m.generations = generations
    BY <1>1, <1>3, <1>5, StartCueOK
  <2> HIDE DEF m
  <2> QED
    BY <1>1, <2>1, <2>2, CalledOK
<1> QED
  BY <1>4, <1>5

\* The rest of startFresh: media of a run that is gone are given back at once.
LEMMA MediaAcquiredStep ==
  ASSUME TimerInv, NEW r \in starting, MediaAcquired(r) PROVE TimerInv'
<1> DEFINE t == r.timer
           g == r.generation
           e == entries[t]
<1>1. /\ CallOK(now) /\ now.generations = generations /\ generations \in Nat
      /\ now.entries = entries /\ now.starting = starting /\ now.published = {}
      /\ leases \subseteq Generations
  BY InvParts, NowFields
<1>2. r \in Waiting /\ t \in Timers /\ g \in Generations
  BY <1>1 DEF CallOK, States, Waiting
<1>3. r.phase = "media" /\ leases' = leases \cup {g} /\ crashes' = crashes
  BY DEF MediaAcquired
<1>4. leases' \subseteq Generations
  BY <1>1, <1>2, <1>3
<1>5. CASE ~Current(now, r)
  <2> DEFINE n == Done(now, r)
             s == Release(n, g)
  <2>1. Commit(s) /\ unpublished' = unpublished
    BY <1>5 DEF MediaAcquired
  <2>2. /\ CallOK(n) /\ n.published = {} /\ n.generations = generations
    BY <1>1, <1>5, Finished
  <2>3. n \in States
    BY <2>2 DEF CallOK
  <2> HIDE DEF n
  <2>4. /\ s.entries = n.entries /\ s.starting = n.starting /\ s.cues = n.cues
        /\ s.generations = n.generations /\ s.plays = n.plays /\ s.stopped = n.stopped
        /\ s.published = n.published /\ s.releases = n.releases \cup {g}
    BY <2>3 DEF Release, States
  <2>5. s \in States
    BY <2>3, <1>2 DEF Release, States
  <2> HIDE DEF s
  <2>6. Sound(s)
    BY <2>2, <2>4 DEF CallOK, Sound, OwnRuns, OwnCalls, OwnCues, OwnShown
  <2>7. Kept(s, leases')
    BY <2>2, <2>4, <1>3 DEF CallOK, Kept
  <2>8. ASSUME NEW u \in Timers PROVE DrivenAt(s, u) /\ HeardAt(s, u)
    <3>1. AwaitsMedia(s, u) <=> AwaitsMedia(n, u)
      BY <2>4 DEF AwaitsMedia
    <3>2. DrivenAt(n, u) /\ HeardAt(n, u)
      BY <2>2 DEF CallOK
    <3>3. DrivenAt(s, u)
      BY <3>1, <3>2, <2>4 DEF DrivenAt
    <3>4. HeardAt(s, u)
      BY <3>1, <3>2, <2>4 DEF HeardAt
    <3> QED
      BY <3>3, <3>4
  <2>9. unpublished' \in BOOLEAN /\ (unpublished => unpublished') /\ generations <= s.generations
    BY <1>1, <2>1, <2>2, <2>4, TypeParts DEF TimerInv
  <2> HIDE DEF g
  <2> QED
    BY <1>3, <1>4, <2>1, <2>5, <2>6, <2>7, <2>8, <2>9, Committed
<1>6. CASE Current(now, r)
  <2> DEFINE x == [e EXCEPT !.armed = e.status # "paused"]
             live == [now EXCEPT !.entries[t].armed = e.status # "paused"]
             p == WithEntry(now, t, x)
  <2>1. e \in Entry /\ EntryOK(e) /\ e.generation = g /\ g # 0
    BY <1>1, <1>2, <1>6, OwnGeneration DEF CallOK, Sound, Current, Generations
  <2>2. Publish(live) = p
    BY <1>1 DEF WithEntry, Publish, CallOK, States
  <2>3. /\ x \in Entry /\ x.generation = g /\ x.left = e.left /\ x.status = e.status
        /\ (x.armed <=> e.status # "paused")
    BY <2>1 DEF Entry
  <2>4. EntryOK(x)
    <3>1. x.armed => x.status \in {"running", "completed"}
      BY <2>1, <2>3 DEF Entry, Statuses, EntryOK
    <3> HIDE DEF x, e, g
    <3> QED
      BY <2>1, <2>3, <3>1 DEF EntryOK
  <2>5. /\ x.armed \/ x.status \notin {"running", "completed"}
        /\ x.status \in {"running", "paused"} => now.entries[t].status \in {"running", "paused"}
        /\ x.generation = now.entries[t].generation
    BY <1>1, <2>1, <2>3
  <2>6. /\ CallOK(p) /\ OnlyEntries(p, now) /\ p.published = {p.entries}
        /\ p.entries = [entries EXCEPT ![t] = x]
    <3> HIDE DEF x, e, t
    <3> QED
      BY <1>1, <1>2, <2>3, <2>4, <2>5, EntryPublished
  <2>7. /\ p.entries[t] = x /\ p.starting = starting /\ p.generations = generations
        /\ Current(p, r)
    <3>1. p.entries[t] = x
      <4> HIDE DEF x, p
      <4> QED
        BY <1>1, <1>2, <2>6 DEF CallOK, States
    <3> HIDE DEF x, p
    <3> QED
      BY <3>1, <1>1, <2>3, <2>6 DEF OnlyEntries, Current
  <2> DEFINE cued == IF ~r.paused /\ e.status = "running" THEN PlayCue(Publish(live), g, "start")
                     ELSE Publish(live)
             s == IF r.adjustment = NoAdjustment THEN Done(cued, r) ELSE Onto(cued, r, "adjust")
  <2>8. Commit(s) /\ unpublished' = FALSE
    BY <1>6 DEF MediaAcquired
  <2>9. /\ p.published = {p.entries}
        /\ p.entries[t].armed \/ p.entries[t].status \notin {"running", "completed"}
    BY <2>3, <2>5, <2>6, <2>7
  <2> HIDE DEF p
  <2>10. /\ CallOK(s) /\ s.generations = generations /\ s.entries = p.entries
         /\ s.published = p.published
    <3>1. CASE ~r.paused /\ e.status = "running"
      <4> DEFINE n == Done(p, r)
                 m == PlayCue(n, g, "start")
      <4>1. r.adjustment = NoAdjustment
        BY <3>1, <1>1 DEF CallOK, Sound, OwnCalls
      <4>2. /\ CallOK(n) /\ n.starting = p.starting \ {r} /\ n.entries = p.entries
            /\ n.plays = p.plays /\ n.generations = p.generations /\ n.stopped = p.stopped
            /\ n.published = p.published
        <5>1. CallOK(p) /\ r \in p.starting
          BY <2>6, <2>7
        <5>2. \/ r.phase # "media" \/ ~Current(p, r)
              \/ /\ p.published = {p.entries}
                 /\ p.entries[r.timer].armed \/ p.entries[r.timer].status \notin {"running", "completed"}
          BY <2>9
        <5> QED
          BY <5>1, <5>2, Finished
      <4>3. s = m
        <5>1. s = Done(PlayCue(p, g, "start"), r)
          BY <3>1, <4>1, <2>2
        <5>2. p \in States
          BY <2>6 DEF CallOK
        <5> DEFINE cs == p.cues \cup {[generation |-> g, cue |-> "start", phase |-> "preparing"]}
                   ps == [p.plays EXCEPT ![g]["start"] = IF p.plays[g]["start"] = 0 THEN 1 ELSE 2]
                   calls == p.starting \ {r}
        <5>3. PlayCue(p, g, "start") = [p EXCEPT !.cues = cs, !.plays = ps]
          BY DEF PlayCue
        <5>4. n = [p EXCEPT !.starting = calls]
          BY DEF Done
        <5>5. n.cues = p.cues /\ n.plays = p.plays
          <6> HIDE DEF calls, n
          <6> QED
            BY <5>2, <5>4 DEF States
        <5>6. m = [n EXCEPT !.cues = cs, !.plays = ps]
          <6> HIDE DEF n
          <6> QED
            BY <5>5 DEF PlayCue
        <5>7. s = [[p EXCEPT !.cues = cs, !.plays = ps] EXCEPT !.starting = calls]
          <6>1. PlayCue(p, g, "start").starting = p.starting
            <7> HIDE DEF cs, ps
            <7> QED
              BY <5>2, <5>3 DEF States
          <6> HIDE DEF s, g, cs, ps
          <6> QED
            BY <5>1, <5>3, <6>1 DEF Done
        <5> HIDE DEF cs, ps, calls, n, m, s
        <5> QED
          BY <5>2, <5>4, <5>6, <5>7 DEF States
      <4> HIDE DEF n, s
      <4>4. /\ CallOK(m) /\ m.generations = p.generations /\ m.entries = p.entries
            /\ m.published = n.published
        BY <2>6, <2>7, <4>2, StartCueOK
      <4> QED
        BY <2>7, <4>2, <4>3, <4>4
    <3>2. CASE ~(~r.paused /\ e.status = "running")
      <4>1. cued = p
        BY <2>2, <3>2
      <4> HIDE DEF cued
      <4>2. CASE r.adjustment = NoAdjustment
        BY <4>1, <4>2, <2>6, <2>7, <2>9, Finished
      <4>3. CASE r.adjustment # NoAdjustment
        BY <4>1, <4>3, <2>6, <2>7, <2>9, GoesOn
      <4> QED
        BY <4>2, <4>3
    <3> QED
      BY <3>1, <3>2
  <2> HIDE DEF s, cued, live
  <2>11. Kept(s, leases')
    <3>1. s.entries[t].generation = g
      BY <2>7, <2>10 DEF Current
    <3>2. Kept(s, leases)
      BY <2>10 DEF CallOK
    <3> QED
      BY <3>1, <3>2, <1>2, <1>3 DEF Kept
  <2>12. s \in States /\ Sound(s) /\ \A u \in Timers : DrivenAt(s, u) /\ HeardAt(s, u)
    BY <2>10 DEF CallOK
  <2>13. s.published # {}
    BY <2>9, <2>10
  <2>14. generations <= s.generations
    BY <1>1, <2>10
  <2> QED
    BY <1>3, <1>4, <2>8, <2>11, <2>12, <2>13, <2>14, Committed
<1> QED
  BY <1>5, <1>6

\* Media that cannot be had: nothing was published, and unpublished says so.
LEMMA MediaFailedStep ==
  ASSUME TimerInv, NEW r \in starting, MediaFailed(r) PROVE TimerInv'
<1> DEFINE t == r.timer
           g == r.generation
           gone == Current(now, r)
           ents == IF gone THEN [entries EXCEPT ![t] = Idle] ELSE entries
           calls == starting \ {r}
           s == IF gone THEN Remove(Release(Done(now, r), g), t) ELSE Release(Done(now, r), g)
<1>1. /\ now \in States /\ Sound(now) /\ Kept(now, leases) /\ generations \in Nat
      /\ \A u \in Timers : DrivenAt(now, u) /\ HeardAt(now, u)
      /\ leases \subseteq Generations
  BY InvParts DEF CallOK
<1>2. r \in Waiting /\ t \in Timers /\ g \in Generations
  BY <1>1, NowFields DEF States, Waiting
<1>3. /\ Commit(s) /\ unpublished' = (unpublished \/ gone) /\ leases' = leases /\ crashes' = crashes
      /\ r.phase = "media"
  BY DEF MediaFailed
<1>4. Idle \in Entry /\ EntryOK(Idle) /\ Idle.generation = 0 /\ Idle.status = "idle"
  BY TimerAssumption DEF Idle, Entry, EntryOK, Statuses, Most
<1>5. /\ ents \in [Timers -> Entry] /\ (gone => ents[t] = Idle)
      /\ \A u \in Timers : u # t \/ ~gone => ents[u] = entries[u]
  BY <1>1, <1>2, <1>4, NowFields DEF States
<1>6. s = [now EXCEPT !.starting = calls, !.releases = releases \cup {g}, !.entries = ents]
  <2>1. Done(now, r) = [now EXCEPT !.starting = calls]
    BY NowFields DEF Done
  <2>2. Release(Done(now, r), g) = [now EXCEPT !.starting = calls, !.releases = releases \cup {g}]
    <3> HIDE DEF calls, g
    <3> QED
      BY <1>1, <2>1, NowFields DEF Release, States
  <2> HIDE DEF calls, g, gone
  <2>3. CASE gone
    BY <1>1, <2>2, <2>3, NowFields DEF Remove, States
  <2>4. CASE ~gone
    BY <1>1, <2>2, <2>4, NowFields DEF States
  <2> QED
    BY <2>3, <2>4
<1>7. calls \in SUBSET Waiting /\ releases \cup {g} \in SUBSET Generations
  BY <1>1, <1>2, NowFields DEF States
<1>8. s \in States
  <2> HIDE DEF s, calls, g, ents
  <2> QED
    BY <1>1, <1>5, <1>6, <1>7 DEF States
<1>9. /\ s.entries = ents /\ s.starting = calls /\ s.releases = releases \cup {g} /\ s.cues = cues
      /\ s.generations = generations /\ s.plays = plays /\ s.stopped = stopped /\ s.published = {}
  <2> HIDE DEF s, calls, g, ents
  <2> QED
    BY <1>1, <1>6, NowFields DEF States
<1> HIDE DEF s, ents
<1>10. /\ OwnRuns(now) /\ OwnCalls(now) /\ OwnCues(now)
       /\ \A q \in starting : q.generation # 0
  BY <1>1, NowFields DEF Sound, States, Waiting, Generations
<1>11. \A u \in Timers : s.entries[u] = entries[u] \/ s.entries[u] = Idle
  BY <1>5, <1>9
<1>12. OwnRuns(s)
  <2>1. 0 \notin s.stopped /\ 0 <= s.generations
    BY <1>1, <1>8, <1>9 DEF States, Generations
  <2>2. ASSUME NEW u \in Timers
        PROVE  /\ EntryOK(s.entries[u]) /\ s.entries[u].generation <= s.generations
               /\ s.entries[u].generation \notin s.stopped
    <3>1. CASE s.entries[u] = entries[u]
      BY <3>1, <1>9, <1>10, NowFields DEF OwnRuns
    <3>2. CASE s.entries[u] = Idle
      BY <3>2, <2>1, <1>4
    <3> QED
      BY <3>1, <3>2, <1>11
  <2>3. \A u, v \in Timers :
          s.entries[u].generation = s.entries[v].generation /\ s.entries[u].generation # 0 => u = v
    BY <1>4, <1>10, <1>11, NowFields DEF OwnRuns
  <2>4. \A h \in s.stopped : h <= s.generations
    BY <1>9, <1>10, NowFields DEF OwnRuns
  <2> QED
    BY <2>2, <2>3, <2>4 DEF OwnRuns
<1>13. OwnCalls(s)
  <2>1. \A q \in s.starting, u \in Timers : s.entries[u].generation = q.generation => u = q.timer
    BY <1>4, <1>9, <1>10, <1>11, NowFields DEF OwnCalls
  <2> QED
    BY <2>1, <1>9, <1>10, NowFields DEF OwnCalls
<1>14. OwnCues(s)
  <2>1. ASSUME NEW u \in Timers, s.entries[u].status \in {"running", "paused"}
        PROVE  s.plays[s.entries[u].generation]["end"] = 0
    <3>1. s.entries[u] = entries[u]
      BY <2>1, <1>4, <1>11
    <3> QED
      BY <2>1, <3>1, <1>9, <1>10, NowFields DEF OwnCues
  <2> QED
    BY <2>1, <1>9, <1>10, NowFields DEF OwnCues
<1>15. OwnShown(s)
  BY <1>9 DEF OwnShown
<1>16. Kept(s, leases')
  <2> SUFFICES ASSUME NEW h \in leases, h \notin s.releases
               PROVE  \E u \in Timers : s.entries[u].generation = h
    BY <1>3 DEF Kept
  <2>1. PICK u \in Timers : entries[u].generation = h
    BY <1>1, <1>9, NowFields DEF Kept
  <2>2. ~(u = t /\ gone)
    BY <2>1, <1>9, NowFields DEF Current
  <2> QED
    BY <2>1, <2>2, <1>5, <1>9
<1>17. ASSUME NEW u \in Timers PROVE DrivenAt(s, u) /\ (HeardAt(s, u) \/ unpublished')
  <2>1. CASE u = t /\ gone
    BY <2>1, <1>3, <1>4, <1>5, <1>9 DEF DrivenAt
  <2>2. CASE ~(u = t /\ gone)
    <3>1. s.entries[u] = entries[u]
      BY <2>2, <1>5, <1>9
    <3>2. AwaitsMedia(now, u) <=> AwaitsMedia(s, u)
      <4>1. entries[u].generation = g => u = t
        BY <1>10, NowFields DEF OwnCalls
      <4>2. entries[u].generation # g
        BY <2>2, <4>1, NowFields DEF Current
      <4> QED
        BY <3>1, <4>2, <1>9, NowFields DEF AwaitsMedia
    <3>3. DrivenAt(s, u)
      BY <3>1, <3>2, <1>1, NowFields DEF DrivenAt
    <3>4. HeardAt(s, u)
      BY <3>1, <3>2, <1>9 DEF HeardAt
    <3> QED
      BY <3>3, <3>4
  <2> QED
    BY <2>1, <2>2
<1>18. unpublished' \in BOOLEAN /\ (unpublished => unpublished') /\ generations <= s.generations
  <2>1. unpublished' \in BOOLEAN
    BY <1>3
  <2>2. unpublished => unpublished'
    BY <1>3
  <2> QED
    BY <2>1, <2>2, <1>1, <1>9
<1>19. leases' \subseteq Generations /\ Sound(s)
  BY <1>1, <1>3, <1>12, <1>13, <1>14, <1>15 DEF Sound
<1> HIDE DEF gone
<1> QED
  BY <1>3, <1>8, <1>16, <1>17, <1>18, <1>19, Committed

\* Steps that leave the runs, the calls and what was written alone.
LEMMA Quiet ==
  ASSUME TimerInv,
         UNCHANGED <<entries, starting, generations, plays, stopped, publishedVars, unpublished, crashes>>,
         leases' \subseteq Generations, releases' \subseteq Generations, cues' \subseteq CueCalls,
         Kept(now, leases)', \A c \in cues' : \E d \in cues : d.generation = c.generation
  PROVE  TimerInv'
<1>1. /\ now'.entries = now.entries /\ now'.starting = now.starting
      /\ now'.generations = now.generations /\ now'.plays = now.plays
      /\ now'.stopped = now.stopped /\ now'.published = {} /\ now'.cues = cues'
  BY DEF now
<1>2. Sound(now)'
  <2>1. OwnRuns(now') /\ OwnCalls(now')
    BY <1>1 DEF TimerInv, Sound, OwnRuns, OwnCalls
  <2>2. OwnCues(now) /\ \A c \in cues : c.generation \notin now.stopped
    BY NowFields DEF TimerInv, Sound, OwnCues
  <2>3. \A c \in now'.cues : c.generation \notin now'.stopped
    BY <1>1, <2>2
  <2>4. OwnCues(now')
    BY <1>1, <2>2, <2>3 DEF OwnCues
  <2>5. OwnShown(now')
    BY <1>1 DEF OwnShown
  <2> QED
    BY <2>1, <2>4, <2>5 DEF Sound
<1>3. ASSUME NEW u \in Timers PROVE DrivenAt(now, u)' /\ AnnouncedAt(u)'
  <2>1. AwaitsMedia(now', u) <=> AwaitsMedia(now, u)
    BY <1>1 DEF AwaitsMedia
  <2>2. DrivenAt(now', u)
    BY <1>1, <2>1 DEF DrivenAt, TimerInv
  <2>3. AnnouncedAt(u)'
    BY <2>1 DEF TimerInv, AnnouncedAt, RowsOf, publishedVars
  <2> QED
    BY <2>2, <2>3
<1>4. TimerTypeOK'
  BY TypeParts DEF TimerInv, TimerTypeOK, Entry, Waiting, CueCalls, Rows, Statuses, Most, publishedVars
<1>5. SavedOnce' /\ (dirty' => checkpoint')
  BY DEF TimerInv, SavedOnce, publishedVars
<1> QED
  BY <1>2, <1>3, <1>4, <1>5 DEF TimerInv

LEMMA MediaReleasedStep ==
  ASSUME TimerInv, NEW g \in Generations, MediaReleased(g) PROVE TimerInv'
<1>1. /\ releases' = releases \ {g} /\ leases' = leases \ {g} /\ cues' = cues
      /\ UNCHANGED <<entries, starting, generations, plays, stopped, publishedVars, unpublished, crashes>>
  BY DEF MediaReleased
<1>2. leases' \subseteq Generations /\ releases' \subseteq Generations /\ cues' \subseteq CueCalls
  BY <1>1, TypeParts DEF TimerInv
<1>3. Kept(now, leases)'
  <2>1. now'.entries = now.entries /\ now'.releases = now.releases \ {g}
    BY <1>1 DEF now
  <2> QED
    BY <1>1, <2>1 DEF TimerInv, Kept
<1> QED
  BY <1>1, <1>2, <1>3, Quiet

LEMMA CuesOnly ==
  ASSUME TimerInv, cues' \subseteq CueCalls,
         UNCHANGED <<entries, starting, releases, generations, plays, stopped, publishedVars,
                     leases, unpublished, crashes>>,
         \A c \in cues' : \E d \in cues : d.generation = c.generation
  PROVE  TimerInv'
<1>1. leases' \subseteq Generations /\ releases' \subseteq Generations
  BY TypeParts DEF TimerInv
<1>2. Kept(now, leases)'
  <2>1. now'.entries = now.entries /\ now'.releases = now.releases
    BY DEF now
  <2> QED
    BY <2>1 DEF TimerInv, Kept
<1> QED
  BY <1>1, <1>2, Quiet

LEMMA CueStep ==
  ASSUME TimerInv, NEW c \in cues, CueEnds(c) \/ \E b \in BOOLEAN : CuePrepared(c, b) PROVE TimerInv'
<1>1. cues \subseteq CueCalls
  BY TypeParts DEF TimerInv
<1>2. UNCHANGED <<entries, starting, releases, generations, plays, stopped, publishedVars,
                  leases, unpublished, crashes>>
  BY DEF CueEnds, CuePrepared
<1>3. CASE CueEnds(c)
  <2>1. cues' = cues \ {c}
    BY <1>3 DEF CueEnds
  <2> QED
    BY <2>1, <1>1, <1>2, CuesOnly
<1>4. ASSUME NEW b \in BOOLEAN, CuePrepared(c, b) PROVE TimerInv'
  <2> DEFINE d == [c EXCEPT !.phase = "playing"]
  <2>1. cues' \subseteq (cues \ {c}) \cup {d}
    BY <1>4 DEF CuePrepared
  <2>2. d \in CueCalls /\ d.generation = c.generation
    BY <1>1 DEF CueCalls
  <2> HIDE DEF d
  <2>3. cues' \subseteq CueCalls /\ \A x \in cues' : \E y \in cues : y.generation = x.generation
    BY <2>1, <2>2, <1>1
  <2> QED
    BY <2>3, <1>2, CuesOnly
<1> QED
  BY <1>3, <1>4

-----------------------------------------------------------------------------
(* Time, checkpoints and the end of the process *)

\* As time passes a running timer is saved with more than it has left.
LEMMA TickStep == ASSUME TimerInv, Tick PROVE TimerInv'
<1>1. /\ UNCHANGED <<starting, releases, cues, generations, plays, stopped, publishedVars,
                     leases, unpublished, crashes>>
      /\ entries' = [t \in Timers |-> IF Ticks(entries[t]) THEN [entries[t] EXCEPT !.left = @ - 1]
                                      ELSE entries[t]]
  BY DEF Tick
<1>2. /\ entries \in [Timers -> Entry] /\ \A t \in Timers : EntryOK(entries[t])
      /\ generations \in Nat
  BY TypeParts, NowFields DEF TimerInv, Sound, OwnRuns
<1>3. ASSUME NEW t \in Timers
      PROVE  /\ entries'[t] \in Entry /\ EntryOK(entries'[t])
             /\ entries'[t].generation = entries[t].generation
             /\ entries'[t].status = entries[t].status /\ entries'[t].armed = entries[t].armed
             /\ entries'[t].left <= entries[t].left
             /\ entries'[t].status = "paused" => entries'[t] = entries[t]
  <2> DEFINE e == entries[t]
             x == [e EXCEPT !.left = e.left - 1]
  <2>1. e \in Entry /\ EntryOK(e) /\ e.left \in Int
    BY <1>2 DEF Entry
  <2>2. CASE ~Ticks(e)
    <3>1. entries'[t] = e
      BY <1>1, <2>2
    <3> QED
      BY <2>1, <3>1
  <2>3. CASE Ticks(e)
    <3>1. entries'[t] = x
      BY <1>1, <2>3
    <3>2. e.status \in {"running", "completed"} /\ e.left > 0
      BY <2>3 DEF Ticks
    <3>3. /\ x.generation = e.generation /\ x.status = e.status /\ x.armed = e.armed
          /\ x.left = e.left - 1
      BY <2>1 DEF Entry
    <3>4. e.left - 1 \in 0 .. Most
      <4>1. e.left \in 0 .. Most /\ Most \in Nat
        BY <2>1, TimerAssumption DEF Entry, Most
      <4> QED
        BY <3>2, <4>1
    <3>5. x \in Entry
      BY <2>1, <3>4 DEF Entry
    <3>6. x.left <= e.left /\ x.status # "paused"
      BY <2>1, <3>2, <3>3
    <3> HIDE DEF x
    <3>7. x.generation # 0 /\ (x.status # "completed" => x.left <= Longest)
      BY <2>1, <3>2, <3>3, TimerAssumption DEF EntryOK, Idle
    <3>8. EntryOK(x)
      BY <2>1, <3>2, <3>3, <3>7 DEF EntryOK
    <3> QED
      BY <3>1, <3>3, <3>5, <3>6, <3>8
  <2> QED
    BY <2>2, <2>3
<1>4. /\ now'.starting = now.starting /\ now'.generations = now.generations
      /\ now'.plays = now.plays /\ now'.stopped = now.stopped /\ now'.published = {}
      /\ now'.cues = now.cues /\ now'.releases = now.releases
      /\ now'.entries = entries' /\ now.entries = entries
  BY <1>1 DEF now
<1>5. Sound(now)' /\ Kept(now, leases)'
  <2>1. OwnRuns(now')
    BY <1>3, <1>4 DEF TimerInv, Sound, OwnRuns
  <2>2. OwnCalls(now')
    BY <1>3, <1>4 DEF TimerInv, Sound, OwnCalls
  <2>3. OwnCues(now')
    BY <1>3, <1>4 DEF TimerInv, Sound, OwnCues
  <2>4. OwnShown(now') /\ Kept(now', leases')
    BY <1>1, <1>3, <1>4 DEF TimerInv, OwnShown, Kept
  <2> QED
    BY <2>1, <2>2, <2>3, <2>4 DEF Sound
<1>6. ASSUME NEW t \in Timers PROVE DrivenAt(now, t)' /\ AnnouncedAt(t)'
  <2>1. AwaitsMedia(now', t) <=> AwaitsMedia(now, t)
    BY <1>3, <1>4 DEF AwaitsMedia
  <2>2. DrivenAt(now', t)
    BY <1>3, <1>4, <2>1 DEF DrivenAt, TimerInv
  <2>3. AnnouncedAt(t)'
    <3>1. CASE unpublished \/ AwaitsMedia(now, t)
      BY <3>1, <2>1, <1>1 DEF AnnouncedAt
    <3>2. CASE ~(unpublished \/ AwaitsMedia(now, t))
      <4>1. /\ told[t] = <<entries[t].generation, entries[t].status>>
            /\ ~dirty => RowsFit(RowsOf(t), t, entries[t])
        BY <3>2 DEF TimerInv, AnnouncedAt
      <4>2. RowsOf(t)' = RowsOf(t) /\ dirty' = dirty /\ told' = told
        BY <1>1 DEF RowsOf, publishedVars
      <4>3. ASSUME RowsFit(RowsOf(t), t, entries[t]) PROVE RowsFit(RowsOf(t), t, entries'[t])
        <5>1. CASE entries[t].status = "running"
          <6>1. /\ \A row \in RowsOf(t) : row.generation = entries[t].generation /\ row.left >= entries[t].left
                /\ entries[t].left > 0 => RowsOf(t) # {}
            BY <4>3, <5>1 DEF RowsFit
          <6>2. entries[t].left \in Int /\ entries'[t].left \in Int
            BY <1>2, <1>3 DEF Entry
          <6>3. \A row \in RowsOf(t) : row.left \in Int
            BY TypeParts DEF TimerInv, RowsOf, Rows
          <6>4. /\ \A row \in RowsOf(t) : row.generation = entries'[t].generation /\ row.left >= entries'[t].left
                /\ entries'[t].left > 0 => RowsOf(t) # {}
            BY <6>1, <6>2, <6>3, <1>3
          <6>5. entries'[t].status = "running"
            BY <5>1, <1>3
          <6> QED
            BY <6>4, <6>5 DEF RowsFit
        <5>2. CASE entries[t].status = "paused"
          BY <4>3, <5>2, <1>3
        <5>3. CASE entries[t].status \notin {"running", "paused"}
          BY <4>3, <5>3, <1>3 DEF RowsFit
        <5> QED
          BY <5>1, <5>2, <5>3
      <4> QED
        BY <4>1, <4>2, <4>3, <1>3 DEF AnnouncedAt
    <3> QED
      BY <3>1, <3>2
  <2> QED
    BY <2>2, <2>3
<1>7. TimerTypeOK'
  <2>1. entries' \in [Timers -> Entry]
    BY <1>1, <1>3
  <2> QED
    BY <2>1, <1>1, TypeParts
    DEF TimerInv, TimerTypeOK, Entry, Waiting, CueCalls, Rows, Statuses, Most, publishedVars
<1>8. SavedOnce' /\ (dirty' => checkpoint')
  BY <1>1 DEF TimerInv, SavedOnce, publishedVars
<1> QED
  BY <1>5, <1>6, <1>7, <1>8 DEF TimerInv

\* A checkpoint writes the entries of its moment.
LEMMA CheckpointStep == ASSUME TimerInv, Checkpoint PROVE TimerInv'
<1>1. /\ Persist(entries) /\ checkpoint' = NeedsCheckpoint(entries)
      /\ UNCHANGED <<runtimeVars, told, leases, unpublished, crashes>>
  BY DEF Checkpoint
<1>2. /\ entries \in [Timers -> Entry] /\ generations \in Nat /\ failures \in 0 .. MaxFailures
      /\ saved \subseteq Rows /\ SavedOnce /\ EntriesOK(entries, generations)
  BY TypeParts, NowFields, ShownNow DEF TimerInv, Sound
<1>3. /\ saved' \subseteq Rows /\ dirty' \in BOOLEAN /\ failures' \in 0 .. MaxFailures
      /\ \A a, b \in saved' : a.timer = b.timer => a = b
      /\ \A a, b \in saved' : a.generation = b.generation => a.timer = b.timer
      /\ \A a \in saved' : a.generation <= generations
      /\ ~dirty' => \A t \in Timers : RowsFit({row \in saved' : row.timer = t}, t, entries[t])
  BY <1>1, <1>2, PersistOK
<1>4. SavedOnce'
  BY <1>1, <1>3 DEF SavedOnce, runtimeVars
<1>5. checkpoint' \in BOOLEAN /\ (dirty' => checkpoint')
  BY <1>1, <1>3 DEF NeedsCheckpoint, Running
<1>6. now' = now
  BY <1>1 DEF now, runtimeVars
<1>7. Sound(now)' /\ Kept(now, leases)'
  BY <1>1, <1>6 DEF TimerInv
<1>8. ASSUME NEW t \in Timers PROVE DrivenAt(now, t)' /\ AnnouncedAt(t)'
  <2>1. entries' = entries /\ told' = told /\ unpublished' = unpublished
    BY <1>1 DEF runtimeVars
  <2>2. DrivenAt(now', t)
    BY <1>6 DEF TimerInv
  <2>3. AnnouncedAt(t)'
    BY <2>1, <1>3, <1>6 DEF TimerInv, AnnouncedAt, RowsOf
  <2> QED
    BY <2>2, <2>3
<1>9. TimerTypeOK'
  BY <1>1, <1>3, <1>5, TypeParts
  DEF TimerInv, TimerTypeOK, Entry, Waiting, CueCalls, Rows, Statuses, Most, runtimeVars
<1> QED
  BY <1>4, <1>5, <1>7, <1>8, <1>9 DEF TimerInv

\* The rows come back as paused runs, each to its timer.
LEMMA RestoredOK ==
  ASSUME NEW rows, rows \subseteq Rows, NEW made \in Nat,
         \A a, b \in rows : a.timer = b.timer => a = b,
         \A a, b \in rows : a.generation = b.generation => a.timer = b.timer,
         \A a \in rows : a.generation <= made
  PROVE  LET ents == Restored(rows)
         IN /\ ents \in [Timers -> Entry] /\ EntriesOK(ents, made)
            /\ \A t \in Timers : /\ RowsFit({row \in rows : row.timer = t}, t, ents[t])
                                 /\ ents[t].status \in {"idle", "paused"}
            /\ \A row \in rows : ents[row.timer].generation = row.generation
<1> DEFINE ents == Restored(rows)
           Run(row) == [generation |-> row.generation, status |-> "paused", left |-> row.left,
                        armed |-> FALSE]
<1>1. ents = [t \in Timers |-> IF \E row \in rows : row.timer = t
                               THEN Run(CHOOSE x \in rows : x.timer = t) ELSE Idle]
  BY DEF Restored
<1>2. ASSUME NEW row \in rows PROVE row.timer \in Timers /\ ents[row.timer] = Run(row)
  <2>1. row.timer \in Timers
    BY DEF Rows
  <2>2. (CHOOSE x \in rows : x.timer = row.timer) = row
    OBVIOUS
  <2> HIDE DEF ents, Run
  <2> QED
    BY <1>1, <2>1, <2>2
<1>3. ASSUME NEW t \in Timers, \A row \in rows : row.timer # t PROVE ents[t] = Idle
  <2> HIDE DEF ents, Run
  <2> QED
    BY <1>1, <1>3
<1>4. Idle \in Entry /\ EntryOK(Idle) /\ Idle.generation = 0 /\ Idle.status = "idle"
  BY TimerAssumption DEF Idle, Entry, EntryOK, Statuses, Most
<1>5. ASSUME NEW row \in rows
      PROVE  /\ Run(row) \in Entry /\ EntryOK(Run(row)) /\ row.generation # 0
             /\ Run(row).generation = row.generation /\ Run(row).status = "paused"
  <2>1. row.generation \in 0 .. MaxRuns /\ row.generation # 0
    BY DEF Rows, Generations
  <2>2. row.left \in 0 .. Most /\ row.left > 0 /\ row.left <= Longest
    <3>1. row.left \in 1 .. Longest
      BY DEF Rows
    <3> QED
      BY <3>1, TimerAssumption DEF Most
  <2> QED
    BY <2>1, <2>2 DEF Entry, EntryOK, Statuses
<1>6. ents = [t \in Timers |-> ents[t]]
  BY <1>1
<1> HIDE DEF ents
<1>7. ASSUME NEW t \in Timers
      PROVE  /\ ents[t] \in Entry /\ EntryOK(ents[t]) /\ ents[t].generation <= made
             /\ ents[t].status \in {"idle", "paused"}
             /\ RowsFit({row \in rows : row.timer = t}, t, ents[t])
  <2>1. CASE \E row \in rows : row.timer = t
    <3>1. PICK row \in rows : row.timer = t
      BY <2>1
    <3>2. ents[t] = Run(row)
      BY <3>1, <1>2
    <3>3. {x \in rows : x.timer = t} = {row}
      BY <3>1
    <3>4. row = [timer |-> row.timer, generation |-> row.generation, left |-> row.left]
      BY DEF Rows
    <3>5. Run(row).left = row.left
      OBVIOUS
    <3> HIDE DEF Run
    <3>6. RowsFit({row}, t, Run(row))
      BY <3>1, <3>4, <3>5, <1>5 DEF RowsFit
    <3> QED
      BY <3>2, <3>3, <3>6, <1>5
  <2>2. CASE \A row \in rows : row.timer # t
    <3>1. ents[t] = Idle /\ {row \in rows : row.timer = t} = {}
      BY <2>2, <1>3
    <3>2. RowsFit({}, t, Idle)
      BY <1>4 DEF RowsFit
    <3> QED
      BY <3>1, <3>2, <1>4
  <2> QED
    BY <2>1, <2>2
<1>8. \A row \in rows : ents[row.timer].generation = row.generation
  BY <1>2, <1>5
<1>9. ASSUME NEW t \in Timers, NEW u \in Timers, ents[t].generation = ents[u].generation,
             ents[t].generation # 0
      PROVE  t = u
  <2>1. PICK a \in rows : a.timer = t
    BY <1>3, <1>4, <1>9
  <2>2. PICK b \in rows : b.timer = u
    BY <1>3, <1>4, <1>9
  <2>3. a.generation = b.generation
    BY <2>1, <2>2, <1>8, <1>9
  <2> QED
    BY <2>1, <2>2, <2>3
<1>10. ents \in [Timers -> Entry]
  BY <1>6, <1>7
<1>11. EntriesOK(ents, made)
  BY <1>7, <1>9 DEF EntriesOK
<1> QED
  BY <1>7, <1>8, <1>10, <1>11 DEF ents

LEMMA ReopenStep == ASSUME TimerInv, NEW closing \in BOOLEAN, Reopen(closing) PROVE TimerInv'
<1>1. /\ crashes' \in 0 .. MaxCrashes
      /\ saved' = IF closing THEN Recovery(entries) ELSE saved
      /\ entries' = Restored(saved') /\ told' = Shown(entries')
      /\ leases' \in SUBSET {row.generation : row \in saved'}
      /\ starting' = {} /\ releases' = {} /\ cues' = {}
      /\ dirty' = FALSE /\ checkpoint' = FALSE /\ unpublished' = FALSE
      /\ stopped' = {} /\ plays' = [g \in Generations |-> [plays[g] EXCEPT !["end"] = 0]]
      /\ generations' = generations /\ failures' = failures
  <2>1. crashes \in 0 .. MaxCrashes
    BY TypeParts DEF TimerInv
  <2>2. crashes < MaxCrashes /\ crashes' = crashes + 1
    BY DEF Reopen
  <2>3. crashes' \in 0 .. MaxCrashes
    BY <2>1, <2>2, TimerAssumption
  <2> QED
    BY <2>3 DEF Reopen
<1>2. /\ entries \in [Timers -> Entry] /\ generations \in 0 .. MaxRuns /\ generations \in Nat
      /\ failures \in 0 .. MaxFailures
      /\ plays \in [Generations -> [Cues -> 0 .. 2]] /\ OwnCues(now)
      /\ saved \subseteq Rows /\ SavedOnce /\ EntriesOK(entries, generations)
  BY TypeParts, NowFields, ShownNow DEF TimerInv, Sound
<1>3. /\ saved' \subseteq Rows
      /\ \A a, b \in saved' : a.timer = b.timer => a = b
      /\ \A a, b \in saved' : a.generation = b.generation => a.timer = b.timer
      /\ \A a \in saved' : a.generation <= generations
  <2>1. CASE closing
    BY <2>1, <1>1, <1>2, RecoveryOK
  <2>2. CASE ~closing
    BY <2>2, <1>1, <1>2 DEF SavedOnce
  <2> QED
    BY <2>1, <2>2
<1>4. /\ entries' \in [Timers -> Entry] /\ EntriesOK(entries', generations)
      /\ \A t \in Timers : /\ RowsFit({row \in saved' : row.timer = t}, t, entries'[t])
                           /\ entries'[t].status \in {"idle", "paused"}
      /\ \A row \in saved' : entries'[row.timer].generation = row.generation
  <2> DEFINE rows == saved'
  <2>1. /\ rows \subseteq Rows /\ generations \in Nat
        /\ \A a, b \in rows : a.timer = b.timer => a = b
        /\ \A a, b \in rows : a.generation = b.generation => a.timer = b.timer
        /\ \A a \in rows : a.generation <= generations
    BY <1>2, <1>3
  <2>2. entries' = Restored(rows)
    BY <1>1
  <2> HIDE DEF rows
  <2>3. /\ Restored(rows) \in [Timers -> Entry] /\ EntriesOK(Restored(rows), generations)
        /\ \A t \in Timers : /\ RowsFit({row \in rows : row.timer = t}, t, Restored(rows)[t])
                             /\ Restored(rows)[t].status \in {"idle", "paused"}
        /\ \A row \in rows : Restored(rows)[row.timer].generation = row.generation
    BY <2>1, RestoredOK
  <2> QED
    BY <2>2, <2>3 DEF rows
<1>5. /\ now'.entries = entries' /\ now'.starting = {} /\ now'.releases = {} /\ now'.cues = {}
      /\ now'.generations = generations /\ now'.plays = plays' /\ now'.stopped = {}
      /\ now'.published = {}
  BY <1>1 DEF now
<1>6. ASSUME NEW g \in Generations
      PROVE  plays'[g] \in [Cues -> 0 .. 2] /\ plays'[g]["end"] = 0 /\ plays'[g]["start"] = plays[g]["start"]
  <2>1. plays'[g] = [plays[g] EXCEPT !["end"] = 0] /\ plays[g] \in [Cues -> 0 .. 2]
    BY <1>1, <1>2
  <2> QED
    BY <2>1 DEF Cues
<1>7. Sound(now)' /\ Kept(now, leases)'
  <2>1. OwnRuns(now')
    BY <1>4, <1>5 DEF EntriesOK, OwnRuns
  <2>2. OwnCalls(now') /\ OwnShown(now')
    BY <1>5 DEF OwnCalls, OwnShown
  <2>3. ASSUME NEW t \in Timers, entries'[t].status \in {"running", "paused"}
        PROVE  plays'[entries'[t].generation]["end"] = 0
    <3>1. entries'[t] \in Entry /\ entries'[t].generation # 0
      BY <2>3, <1>4 DEF EntriesOK, EntryOK, Idle
    <3>2. entries'[t].generation \in Generations
      BY <3>1, TimerAssumption DEF Entry, Generations
    <3> QED
      BY <3>2, <1>6
  <2>4. ASSUME NEW g \in Generations, NEW c \in Cues
        PROVE  plays'[g][c] <= 1 /\ (g > generations => plays'[g][c] = 0)
    <3>1. plays[g]["start"] <= 1 /\ (g > generations => plays[g]["start"] = 0)
      BY <1>2, NowFields DEF OwnCues, Cues
    <3>2. c = "start" \/ c = "end"
      BY DEF Cues
    <3> QED
      BY <3>1, <3>2, <1>6
  <2>5. OwnCues(now')
    BY <2>3, <2>4, <1>5 DEF OwnCues
  <2>6. Kept(now', leases')
    <3> SUFFICES ASSUME NEW g \in leases' PROVE \E t \in Timers : entries'[t].generation = g
      BY <1>5 DEF Kept
    <3>1. PICK row \in saved' : row.generation = g
      BY <1>1
    <3>2. row.timer \in Timers
      BY <1>3 DEF Rows
    <3> QED
      BY <3>1, <3>2, <1>4
  <2> QED
    BY <2>1, <2>2, <2>5, <2>6 DEF Sound
<1>8. ASSUME NEW t \in Timers PROVE DrivenAt(now, t)' /\ AnnouncedAt(t)'
  <2>1. DrivenAt(now', t)
    BY <1>4, <1>5 DEF DrivenAt
  <2>2. told'[t] = <<entries'[t].generation, entries'[t].status>>
    BY <1>1 DEF Shown
  <2>3. RowsFit({row \in saved' : row.timer = t}, t, entries'[t])
    BY <1>4
  <2>4. AnnouncedAt(t)'
    BY <2>2, <2>3 DEF AnnouncedAt, RowsOf
  <2> QED
    BY <2>1, <2>4
<1>9. SavedOnce' /\ (dirty' => checkpoint')
  BY <1>1, <1>3 DEF SavedOnce
<1>10. TimerTypeOK'
  <2>1. leases' \subseteq Generations
    BY <1>1, <1>3 DEF Rows
  <2>2. told' \in [Timers -> (0 .. MaxRuns) \X Statuses]
    BY <1>1, <1>4 DEF Shown, Entry
  <2>3. plays' \in [Generations -> [Cues -> 0 .. 2]]
    BY <1>1, <1>6
  <2> QED
    BY <2>1, <2>2, <2>3, <1>1, <1>2, <1>3, <1>4
    DEF TimerTypeOK, Entry, Waiting, CueCalls, Rows, Statuses, Most
<1> QED
  BY <1>7, <1>8, <1>9, <1>10 DEF TimerInv

-----------------------------------------------------------------------------
(* Theorems *)

\* At the start there is no run, no row and no call.
LEMMA InitInv == TimerInit => TimerInv
<1> SUFFICES ASSUME TimerInit PROVE TimerInv
  OBVIOUS
<1>1. Idle \in Entry /\ EntryOK(Idle) /\ Idle.generation = 0 /\ Idle.status = "idle"
  BY TimerAssumption DEF Idle, Entry, EntryOK, Statuses, Most
<1>2. /\ entries = [t \in Timers |-> Idle] /\ starting = {} /\ leases = {} /\ releases = {}
      /\ cues = {} /\ saved = {} /\ dirty = FALSE /\ checkpoint = FALSE
      /\ told = Shown(entries) /\ generations = 0
      /\ plays = [g \in Generations |-> [c \in Cues |-> 0]] /\ stopped = {}
      /\ unpublished = FALSE /\ failures = 0 /\ crashes = 0
  BY DEF TimerInit
<1>3. \A t \in Timers : entries[t] = Idle
  BY <1>2
<1>4. TimerTypeOK
  <2>1. entries \in [Timers -> Entry] /\ told \in [Timers -> (0 .. MaxRuns) \X Statuses]
    BY <1>1, <1>2, TimerAssumption DEF Shown, Entry
  <2>2. plays \in [Generations -> [Cues -> 0 .. 2]]
    BY <1>2
  <2>3. failures \in 0 .. MaxFailures /\ crashes \in 0 .. MaxCrashes /\ generations \in 0 .. MaxRuns
    BY <1>2, TimerAssumption
  <2>4. dirty \in BOOLEAN /\ checkpoint \in BOOLEAN /\ unpublished \in BOOLEAN
    BY <1>2
  <2>5. /\ starting \subseteq Waiting /\ leases \subseteq Generations /\ releases \subseteq Generations
        /\ stopped \subseteq Generations /\ cues \subseteq CueCalls /\ saved \subseteq Rows
    BY <1>2
  <2> QED
    BY <2>1, <2>2, <2>3, <2>4, <2>5, TypeParts
<1>5. Sound(now) /\ Kept(now, leases)
  <2>1. OwnRuns(now) /\ OwnCalls(now) /\ OwnShown(now)
    BY <1>1, <1>2, <1>3, NowFields DEF OwnRuns, OwnCalls, OwnShown
  <2>2. \A g \in Generations, c \in Cues : plays[g][c] = 0
    BY <1>2
  <2>3. OwnCues(now)
    BY <2>2, <1>1, <1>2, <1>3, NowFields DEF OwnCues
  <2> QED
    BY <2>1, <2>3, <1>2 DEF Sound, Kept
<1>6. ASSUME NEW t \in Timers PROVE DrivenAt(now, t) /\ AnnouncedAt(t)
  <2>1. told[t] = <<entries[t].generation, entries[t].status>>
    BY <1>2 DEF Shown
  <2>2. RowsFit(RowsOf(t), t, entries[t])
    BY <1>1, <1>2, <1>3 DEF RowsOf, RowsFit
  <2> QED
    BY <2>1, <2>2, <1>1, <1>3, NowFields DEF DrivenAt, AnnouncedAt
<1> QED
  BY <1>2, <1>4, <1>5, <1>6 DEF TimerInv, SavedOnce

LEMMA NextInv == TimerInv /\ [TimerNext]_timerVars => TimerInv'
<1> SUFFICES ASSUME TimerInv, [TimerNext]_timerVars PROVE TimerInv'
  OBVIOUS
<1>1. CASE Commands
  <2>1. CASE TogglePaused
    BY <2>1, ToggleStep
  <2>2. ASSUME NEW t \in Timers,
               \/ Start(t) \/ Pause(t) \/ Resume(t) \/ Stop(t) \/ Restart(t) \/ Activate(t) \/ Reset(t)
               \/ \E a \in Adjustments : Adjust(t, a)
        PROVE  TimerInv'
    BY <2>2, StartStep, PauseStep, ResumeStep, StopStep, RestartStep, ActivateStep, ResetStep, AdjustStep
  <2> QED
    BY <2>1, <2>2, <1>1 DEF Commands
<1>2. CASE Awaited
  <2>1. ASSUME NEW r \in starting,
               \/ MediaAcquired(r) \/ MediaFailed(r) \/ AdjustReserved(r) \/ CueReserved(r)
        PROVE  TimerInv'
    BY <2>1, MediaAcquiredStep, MediaFailedStep, AdjustReservedStep, CueReservedStep
  <2>2. ASSUME NEW g \in Generations, MediaReleased(g) PROVE TimerInv'
    BY <2>2, MediaReleasedStep
  <2>3. ASSUME NEW c \in cues, CueEnds(c) \/ \E b \in BOOLEAN : CuePrepared(c, b) PROVE TimerInv'
    BY <2>3, CueStep
  <2> QED
    BY <2>1, <2>2, <2>3, <1>2 DEF Awaited
<1>3. CASE Tick
  BY <1>3, TickStep
<1>4. CASE Checkpoint
  BY <1>4, CheckpointStep
<1>5. ASSUME NEW t \in Timers, Fire(t) PROVE TimerInv'
  BY <1>5, FireStep
<1>6. ASSUME NEW b \in BOOLEAN, Reopen(b) PROVE TimerInv'
  BY <1>6, ReopenStep
<1>7. CASE UNCHANGED timerVars
  <2>1. now' = now
    BY <1>7 DEF now, timerVars, runtimeVars
  <2>2. \A t \in Timers : AnnouncedAt(t)'
    BY <1>7, <2>1 DEF TimerInv, AnnouncedAt, RowsOf, timerVars, runtimeVars, publishedVars
  <2>3. TimerTypeOK' /\ SavedOnce' /\ (dirty' => checkpoint')
    BY <1>7 DEF TimerInv, TimerTypeOK, SavedOnce, timerVars, runtimeVars, publishedVars
  <2>4. Sound(now') /\ Kept(now', leases') /\ \A t \in Timers : DrivenAt(now', t)
    BY <1>7, <2>1 DEF TimerInv, timerVars
  <2> QED
    BY <2>2, <2>3, <2>4 DEF TimerInv
<1> QED
  BY <1>1, <1>2, <1>3, <1>4, <1>5, <1>6, <1>7 DEF TimerNext

\* The inductive invariant holds of every behaviour.
LEMMA AlwaysInv == TimerSpec => []TimerInv
BY InitInv, NextInv, PTL DEF TimerSpec

\* Remainders stay within their bounds, and everything has its shape
\* (timer-runtime-coordinator.ts, #adjust, #pause, restoreRecovery).
THEOREM TimerTypeCorrect == TimerSpec => []TimerTypeOK
<1>1. TimerInv => TimerTypeOK
  BY DEF TimerInv
<1> QED
  BY <1>1, AlwaysInv, PTL

\* No cue sounds or is prepared after its run was stopped or replaced.
THEOREM StopSilences == TimerSpec => []StoppedIsSilent
<1>1. TimerInv => StoppedIsSilent
  BY NowFields DEF TimerInv, Sound, OwnCues, StoppedIsSilent
<1> QED
  BY <1>1, AlwaysInv, PTL

\* A run asks for its start cue at most once, and a process for its end cue.
THEOREM CuesOnce == TimerSpec => []EachCueOnce
<1>1. TimerInv => EachCueOnce
  BY NowFields DEF TimerInv, Sound, OwnCues, EachCueOnce
<1> QED
  BY <1>1, AlwaysInv, PTL

\* No media are kept for a run that is gone, once nothing is under way.
THEOREM MediaGivenBack == TimerSpec => []NothingLeaks
<1>1. TimerInv => NothingLeaks
  BY NowFields DEF TimerInv, Kept, NothingLeaks
<1> QED
  BY <1>1, AlwaysInv, PTL

\* What the listeners and the database were given is what the timers are.
THEOREM PublicationFollows == TimerSpec => []PublishedFollows
<1>1. ASSUME TimerInv PROVE PublishedFollows
  <2> SUFFICES ASSUME NEW t \in Timers, ~unpublished,
                      \A r \in starting : r.timer = t => ~Current(now, r)
               PROVE  LET e == entries[t]
                          rows == {row \in saved : row.timer = t}
                      IN /\ told[t] = <<e.generation, e.status>>
                         /\ ~dirty =>
                              CASE e.status = "paused" ->
                                     rows = {[timer |-> t, generation |-> e.generation, left |-> e.left]}
                                [] e.status = "running" ->
                                     /\ \A row \in rows : row.generation = e.generation /\ row.left >= e.left
                                     /\ e.left > 0 => rows # {}
                                [] OTHER -> rows = {}
    BY DEF PublishedFollows
  <2>1. ~AwaitsMedia(now, t)
    BY NowFields DEF AwaitsMedia, Current
  <2> QED
    BY <1>1, <2>1 DEF TimerInv, AnnouncedAt, RowsFit, RowsOf
<1> QED
  BY <1>1, AlwaysInv, PTL

\* No run is left without the callback that ends it, and no failed write
\* without the checkpoint that repeats it.
THEOREM RunsAreDriven == TimerSpec => []EverythingIsDriven
<1>1. TimerInv => EverythingIsDriven
  BY NowFields DEF TimerInv, DrivenAt, AwaitsMedia, EverythingIsDriven, Current
<1> QED
  BY <1>1, AlwaysInv, PTL
=============================================================================
