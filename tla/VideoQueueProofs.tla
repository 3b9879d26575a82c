-------------------------- MODULE VideoQueueProofs --------------------------
(* What the queue of videos keeps, for any number of requests, lengths,    *)
(* seeks and restarts: one row plays, a run is of rows that wait, and what *)
(* is queued may play.                                                     *)
EXTENDS VideoQueue, FiniteSetTheorems, WellFoundedInduction, TLAPS

-----------------------------------------------------------------------------
(* Induction: a set of numbers has a least one. *)

LEMMA LeastOf ==
  ASSUME NEW T \in SUBSET Nat, T # {}
  PROVE  \E m \in T : \A k \in T : m <= k
<1> DEFINE less == {p \in Nat \X Nat : p[1] < p[2]}
<1>1. IsWellFoundedOn(less, Nat)
  BY NatLessThanWellFounded DEF OpToRel
<1> HIDE DEF less
<1>2. PICK m \in T : \A k \in T : <<k, m>> \notin less
  BY <1>1, WFMin
<1>3. \A k \in T : ~(k < m)
  BY <1>2 DEF less
<1> QED BY <1>3

-----------------------------------------------------------------------------
(* Sorting: a finite set with a strict total order is arranged. *)

Orders(R, S) ==
  /\ \A i, j \in S : <<i, j>> \in R \/ <<j, i>> \in R \/ i = j
  /\ \A i, j \in S : <<i, j>> \in R => <<j, i>> \notin R
  /\ \A i, j, k \in S : <<i, j>> \in R /\ <<j, k>> \in R => <<i, k>> \in R

\* The place of a member is one more than the number of those before it.
Place(S, R, i) == 1 + Cardinality({j \in S : <<j, i>> \in R})

LEMMA PlacesGrow ==
  ASSUME NEW S, IsFiniteSet(S), NEW R, Orders(R, S), NEW i \in S
  PROVE  /\ Place(S, R, i) \in 1 .. Cardinality(S)
         /\ \A k \in S : <<i, k>> \in R => Place(S, R, i) < Place(S, R, k)
<1> DEFINE below(k) == {j \in S : <<j, k>> \in R}
<1>1. \A k \in S : IsFiniteSet(below(k)) /\ Cardinality(below(k)) \in Nat
  BY FS_Subset, FS_CardinalityType
<1>2. IsFiniteSet(S \ {i}) /\ Cardinality(S \ {i}) = Cardinality(S) - 1 /\ Cardinality(S) \in Nat
  BY FS_RemoveElement, FS_CardinalityType
<1>3. below(i) \subseteq S \ {i}
  BY DEF Orders
<1>4. Cardinality(below(i)) <= Cardinality(S) - 1
  BY <1>2, <1>3, FS_Subset
<1>5. ASSUME NEW k \in S, <<i, k>> \in R
      PROVE  Cardinality(below(i)) + 1 <= Cardinality(below(k))
  <2>1. i \notin below(i) /\ below(i) \cup {i} \subseteq below(k)
    BY <1>5 DEF Orders
  <2>2. Cardinality(below(i) \cup {i}) = Cardinality(below(i)) + 1
    BY <1>1, <2>1, FS_AddElement
  <2>3. Cardinality(below(i) \cup {i}) <= Cardinality(below(k))
    <3> HIDE DEF below
    <3> QED BY <1>1, <2>1, FS_Subset
  <2> QED BY <2>2, <2>3
<1>6. \A k \in S : Place(S, R, k) = 1 + Cardinality(below(k))
  BY DEF Place
<1> HIDE DEF below
<1> QED
  <2>1. Place(S, R, i) \in 1 .. Cardinality(S)
    BY <1>1, <1>2, <1>4, <1>6
  <2>2. ASSUME NEW k \in S, <<i, k>> \in R PROVE Place(S, R, i) < Place(S, R, k)
    BY <1>1, <1>5, <1>6, <2>2
  <2> QED BY <2>1, <2>2

\* What Arrange chooses exists: every member once, in the order.
LEMMA Arranged ==
  ASSUME NEW S, IsFiniteSet(S), NEW R, Orders(R, S)
  PROVE  /\ Cardinality(S) \in Nat
         /\ Arrange(S, R) \in [1 .. Cardinality(S) -> S]
         /\ \A j, k \in 1 .. Cardinality(S) : j < k => <<Arrange(S, R)[j], Arrange(S, R)[k]>> \in R
         /\ \A j, k \in 1 .. Cardinality(S) : Arrange(S, R)[j] = Arrange(S, R)[k] => j = k
         /\ \A i \in S : \E k \in 1 .. Cardinality(S) : Arrange(S, R)[k] = i
<1> DEFINE n == Cardinality(S)
           place == [i \in S |-> Place(S, R, i)]
           f == [m \in 1 .. n |-> CHOOSE i \in S : place[i] = m]
<1>1. n \in Nat /\ IsFiniteSet(1 .. n) /\ Cardinality(1 .. n) = n
  BY FS_CardinalityType, FS_Interval
<1>2. place \in [S -> 1 .. n]
  BY PlacesGrow
<1>3. \A i, k \in S : place[i] = place[k] => i = k
  <2> SUFFICES ASSUME NEW i \in S, NEW k \in S, i # k PROVE place[i] # place[k]
    OBVIOUS
  <2>1. place[i] < place[k] \/ place[k] < place[i]
    BY PlacesGrow DEF Orders
  <2>2. place[i] \in Nat /\ place[k] \in Nat
    BY <1>1, <1>2
  <2> QED BY <2>1, <2>2
<1>4. place \in Injection(S, 1 .. n)
  BY <1>2, <1>3 DEF Injection, IsInjective
<1>5. place \in Surjection(S, 1 .. n)
  BY <1>1, <1>4, FS_Injection
<1>6. \A m \in 1 .. n : \E i \in S : place[i] = m
  BY <1>5 DEF Surjection
<1>7. f \in [1 .. n -> S] /\ \A m \in 1 .. n : place[f[m]] = m
  BY <1>6
<1>8. \A j, k \in DOMAIN f : j < k => <<f[j], f[k]>> \in R
  <2> HIDE DEF f
  <2> SUFFICES ASSUME NEW j \in 1 .. n, NEW k \in 1 .. n, j < k PROVE <<f[j], f[k]>> \in R
    BY <1>7
  <2>1. f[j] \in S /\ f[k] \in S /\ place[f[j]] = j /\ place[f[k]] = k
    BY <1>7
  <2>2. f[j] # f[k] /\ <<f[k], f[j]>> \notin R
    BY <1>1, <2>1, PlacesGrow
  <2> QED BY <2>1, <2>2 DEF Orders
<1> HIDE DEF f, place
<1>9. /\ Arrange(S, R) \in [1 .. n -> S]
      /\ \A j, k \in DOMAIN Arrange(S, R) : j < k => <<Arrange(S, R)[j], Arrange(S, R)[k]>> \in R
  BY <1>7, <1>8 DEF Arrange
<1> DEFINE a == Arrange(S, R)
<1> HIDE DEF a
<1>10. a \in [1 .. n -> S] /\ \A j, k \in 1 .. n : j < k => <<a[j], a[k]>> \in R
  BY <1>9 DEF a
<1>11. \A j, k \in 1 .. n : a[j] = a[k] => j = k
  <2> SUFFICES ASSUME NEW j \in 1 .. n, NEW k \in 1 .. n, a[j] = a[k], j # k PROVE FALSE
    OBVIOUS
  <2>1. j < k \/ k < j
    BY <1>1
  <2>2. a[j] \in S /\ <<a[j], a[j]>> \in R
    BY <1>10, <2>1
  <2> QED BY <2>2 DEF Orders
<1>12. a \in Surjection(1 .. n, S)
  <2>1. a \in Injection(1 .. n, S)
    BY <1>10, <1>11 DEF Injection, IsInjective
  <2> QED BY <1>1, <2>1, FS_Injection
<1>13. \A i \in S : \E k \in 1 .. n : a[k] = i
  BY <1>12 DEF Surjection
<1> QED BY <1>1, <1>10, <1>11, <1>13 DEF a

LEMMA IdsFinite == IsFiniteSet(Ids) /\ (\A S \in SUBSET Ids : IsFiniteSet(S)) /\ None \notin Ids
<1>1. IsFiniteSet(Ids)
  BY VideoAssumption, FS_Interval DEF Ids
<1>2. \A S \in SUBSET Ids : IsFiniteSet(S)
  BY <1>1, FS_Subset
<1> QED BY <1>1, <1>2 DEF Ids, None

Placed(rows) == \A i \in Ids : rows[i].position \in Int

\* The order of the table.
LEMMA TableOrders ==
  ASSUME NEW rows, Placed(rows), NEW S \in SUBSET Ids
  PROVE  Orders({p \in S \X S : Before(rows, p[1], p[2])}, S)
<1> DEFINE R == {p \in S \X S : Before(rows, p[1], p[2])}
<1>1. \A i, j \in S : <<i, j>> \in R <=> Before(rows, i, j)
  OBVIOUS
<1>2. \A i \in S : i \in Int /\ rows[i].position \in Int
  BY DEF Placed, Ids
<1> HIDE DEF R
<1> QED BY <1>1, <1>2 DEF Orders, Before

\* What is ready to play, in the order of the table.
LEMMA OrderedOnce ==
  ASSUME NEW rows, Placed(rows), NEW S \in SUBSET Ids
  PROVE  /\ Ordered(rows, S) \in [1 .. Cardinality(S) -> S] /\ Cardinality(S) \in Nat
         /\ \A j, k \in 1 .. Cardinality(S) : Ordered(rows, S)[j] = Ordered(rows, S)[k] => j = k
         /\ \A i \in S : \E k \in 1 .. Cardinality(S) : Ordered(rows, S)[k] = i
<1> DEFINE R == {p \in S \X S : Before(rows, p[1], p[2])}
<1>1. IsFiniteSet(S) /\ Orders(R, S) /\ Ordered(rows, S) = Arrange(S, R)
  BY IdsFinite, TableOrders DEF Ordered
<1> HIDE DEF R
<1> QED BY <1>1, Arranged

\* Among some requests, one has the first position and one the last.
LEMMA FirstAndLast ==
  ASSUME NEW rows, Placed(rows), NEW S \in SUBSET Ids, S # {}
  PROVE  /\ \E i \in S : \A j \in S : rows[i].position <= rows[j].position
         /\ \E i \in S : \A j \in S : rows[j].position <= rows[i].position
<1> DEFINE R == {p \in S \X S : Before(rows, p[1], p[2])}
           n == Cardinality(S)
           f == Arrange(S, R)
<1>1. \A i, j \in S : <<i, j>> \in R => rows[i].position <= rows[j].position
  BY DEF Before, Placed
<1>2. /\ n \in Nat /\ f \in [1 .. n -> S]
      /\ \A j, k \in 1 .. n : j < k => <<f[j], f[k]>> \in R
      /\ \A i \in S : \E k \in 1 .. n : f[k] = i
  <2>1. IsFiniteSet(S) /\ Orders(R, S)
    BY IdsFinite, TableOrders
  <2> HIDE DEF R
  <2> QED BY <2>1, Arranged
<1>3. \A i \in S : rows[i].position \in Int
  BY DEF Placed
<1> HIDE DEF R, n, f
<1>4. 1 \in 1 .. n /\ n \in 1 .. n
  BY <1>2
<1>5. \A j \in S : rows[f[1]].position <= rows[j].position /\ rows[j].position <= rows[f[n]].position
  <2> SUFFICES ASSUME NEW j \in S
               PROVE rows[f[1]].position <= rows[j].position /\ rows[j].position <= rows[f[n]].position
    OBVIOUS
  <2>1. PICK k \in 1 .. n : f[k] = j
    BY <1>2
  <2>2. k = 1 \/ <<f[1], f[k]>> \in R
    BY <1>2, <1>4
  <2>3. k = n \/ <<f[k], f[n]>> \in R
    BY <1>2, <1>4
  <2>4. f[1] \in S /\ f[n] \in S
    BY <1>2, <1>4
  <2>5. rows[f[1]].position <= rows[j].position
    BY <1>1, <1>3, <2>1, <2>2, <2>4
  <2>6. rows[j].position <= rows[f[n]].position
    BY <1>1, <1>3, <2>1, <2>3, <2>4
  <2> QED BY <2>5, <2>6
<1> QED BY <1>2, <1>4, <1>5

-----------------------------------------------------------------------------
(* filter: the recursive function exists, and picks entries of the sequence. *)

Step(s, some, f, n) ==
  IF n = 0 THEN <<>> ELSE IF s[n] \in some THEN Append(f[n - 1], s[n]) ELSE f[n - 1]
FilterOf(s, some) == CHOOSE f : f = [n \in 0 .. Len(s) |-> Step(s, some, f, n)]

LEMMA OnlyIsFilter == ASSUME NEW s, NEW some PROVE Only(s, some) = FilterOf(s, some)[Len(s)]
BY DEF Only, FilterOf, Step

LEMMA FilterExists ==
  ASSUME NEW S, NEW s \in Seq(S), NEW some
  PROVE  FilterOf(s, some) = [n \in 0 .. Len(s) |-> Step(s, some, FilterOf(s, some), n)]
<1> DEFINE Until(g, m) == g = [n \in 0 .. m |-> Step(s, some, g, n)]
           bad == {m \in Nat : ~\E g : Until(g, m)}
<1>1. bad = {}
  <2> SUFFICES ASSUME bad # {} PROVE FALSE
    OBVIOUS
  <2>1. PICK m \in bad : \A k \in bad : m <= k
    BY LeastOf
  <2>2. CASE m = 0
    <3> DEFINE g == [n \in 0 .. 0 |-> <<>>]
    <3>1. Until(g, 0)
      BY DEF Step
    <3> QED BY <2>1, <2>2, <3>1
  <2>3. CASE m # 0
    <3>1. m \in Nat /\ m - 1 \in Nat /\ m - 1 \notin bad
      BY <2>1, <2>3
    <3>2. PICK g : Until(g, m - 1)
      BY <3>1
    <3> DEFINE h == [n \in 0 .. m |-> IF n = m THEN Step(s, some, g, m) ELSE g[n]]
    <3>3. \A n \in 0 .. m - 1 : h[n] = g[n]
      BY <3>1
    <3>4. \A n \in 0 .. m - 1 : g[n] = Step(s, some, g, n)
      BY <3>2
    <3>5. \A n \in 0 .. m : h[n] = Step(s, some, h, n)
      <4> HIDE DEF h
      <4> SUFFICES ASSUME NEW n \in 0 .. m PROVE h[n] = Step(s, some, h, n)
        OBVIOUS
      <4>1. h[n] = Step(s, some, g, n)
        <5>1. CASE n = m
          BY <5>1 DEF h
        <5>2. CASE n # m
          BY <3>1, <3>3, <3>4, <5>2
        <5> QED BY <5>1, <5>2
      <4>2. n # 0 => h[n - 1] = g[n - 1]
        BY <3>1, <3>3
      <4> QED BY <4>1, <4>2 DEF Step
    <3>6. DOMAIN h = 0 .. m /\ h = [n \in 0 .. m |-> h[n]]
      OBVIOUS
    <3> HIDE DEF h
    <3>7. Until(h, m)
      BY <3>5, <3>6
    <3> QED BY <2>1, <3>7
  <2> QED BY <2>2, <2>3
<1>2. Len(s) \in Nat
  OBVIOUS
<1>3. \E g : Until(g, Len(s))
  BY <1>1, <1>2
<1> QED BY <1>3 DEF FilterOf


\* Every entry that is kept is one of the sequence, and in the set; nothing is kept twice
\* that is in the sequence once.
LEMMA FilterPicks ==
  ASSUME NEW S, NEW s \in Seq(S), NEW some
  PROVE  /\ Only(s, some) \in Seq(S)
         /\ \A k \in 1 .. Len(Only(s, some)) :
              Only(s, some)[k] \in some /\ \E j \in 1 .. Len(s) : s[j] = Only(s, some)[k]
         /\ (\A j, k \in 1 .. Len(s) : s[j] = s[k] => j = k)
              => \A j, k \in 1 .. Len(Only(s, some)) : Only(s, some)[j] = Only(s, some)[k] => j = k
<1> DEFINE f == FilterOf(s, some)
           From(n, t) == \A k \in 1 .. Len(t) : t[k] \in some /\ \E j \in 1 .. n : s[j] = t[k]
           Once(t) == \A j, k \in 1 .. Len(t) : t[j] = t[k] => j = k
           Good(n) == f[n] \in Seq(S) /\ From(n, f[n]) /\ (Once(s) => Once(f[n]))
           bad == {n \in 0 .. Len(s) : ~Good(n)}
<1>1. Len(s) \in Nat /\ \A n \in 1 .. Len(s) : s[n] \in S
  OBVIOUS
<1>2. \A n \in 0 .. Len(s) : f[n] = Step(s, some, f, n)
  BY FilterExists
<1> HIDE DEF f
<1>3. bad = {}
  <2> SUFFICES ASSUME bad # {} PROVE FALSE
    OBVIOUS
  <2>1. PICK m \in bad : \A k \in bad : m <= k
    <3>1. bad \subseteq Nat
      BY <1>1
    <3> QED BY <3>1, LeastOf
  <2>2. m \in 0 .. Len(s) /\ ~Good(m)
    BY <2>1
  <2>3. CASE m = 0
    <3>1. f[m] = <<>>
      BY <1>2, <2>2, <2>3 DEF Step
    <3> QED BY <2>2, <2>3, <3>1
  <2>4. CASE m # 0
    <3>1. m \in 1 .. Len(s) /\ m - 1 \in 0 .. Len(s) /\ m - 1 \notin bad
      BY <1>1, <2>1, <2>2, <2>4
    <3>2. Good(m - 1)
      BY <3>1
    <3> DEFINE t == f[m - 1]
    <3>3. t \in Seq(S) /\ From(m - 1, t) /\ (Once(s) => Once(t))
      BY <3>2
    <3>4. f[m] = IF s[m] \in some THEN Append(t, s[m]) ELSE t
      BY <1>2, <2>2, <2>4 DEF Step
    <3> HIDE DEF t, Good
    <3>5. CASE s[m] \notin some
      <4>1. f[m] = t /\ From(m, t)
        BY <3>1, <3>3, <3>4, <3>5
      <4> QED BY <2>2, <3>3, <4>1 DEF Good
    <3>6. CASE s[m] \in some
      <4> DEFINE u == Append(t, s[m])
      <4>1. /\ u \in Seq(S) /\ Len(u) = Len(t) + 1 /\ u[Len(t) + 1] = s[m] /\ Len(t) \in Nat
            /\ \A k \in 1 .. Len(t) : u[k] = t[k]
        BY <1>1, <3>1, <3>3
      <4> HIDE DEF u
      <4>2. From(m, u)
        <5> SUFFICES ASSUME NEW k \in 1 .. Len(u)
                     PROVE u[k] \in some /\ \E j \in 1 .. m : s[j] = u[k]
          OBVIOUS
        <5>1. CASE k \in 1 .. Len(t)
          <6>1. u[k] = t[k] /\ t[k] \in some
            BY <3>3, <4>1, <5>1
          <6>2. PICK j \in 1 .. m - 1 : s[j] = t[k]
            BY <3>3, <5>1
          <6>3. j \in 1 .. m
            BY <1>1, <3>1, <6>2
          <6> QED BY <6>1, <6>2, <6>3
        <5>2. CASE k = Len(t) + 1
          BY <3>1, <3>6, <4>1, <5>2
        <5> QED BY <4>1, <5>1, <5>2
      <4>3. Once(s) => Once(u)
        <5> SUFFICES ASSUME Once(s), NEW j \in 1 .. Len(u), NEW k \in 1 .. Len(u), u[j] = u[k]
                     PROVE j = k
          OBVIOUS
        <5>1. \A i \in 1 .. Len(t) : u[i] # s[m]
          <6> SUFFICES ASSUME NEW i \in 1 .. Len(t), t[i] = s[m] PROVE FALSE
            BY <4>1
          <6>1. PICK l \in 1 .. m - 1 : s[l] = t[i]
            BY <3>3
          <6>2. l \in 1 .. Len(s) /\ s[l] = s[m]
            BY <1>1, <3>1, <6>1
          <6> QED BY <3>1, <6>2
        <5>2. j \in 1 .. Len(t) \/ j = Len(t) + 1
          BY <4>1
        <5>3. k \in 1 .. Len(t) \/ k = Len(t) + 1
          BY <4>1
        <5> QED BY <3>3, <4>1, <5>1, <5>2, <5>3
      <4>4. f[m] = u
        BY <3>4, <3>6 DEF u
      <4> QED BY <2>2, <4>1, <4>2, <4>3, <4>4 DEF Good
    <3> QED BY <3>5, <3>6
  <2> QED BY <2>3, <2>4
<1>4. Good(Len(s))
  BY <1>1, <1>3
<1> QED BY <1>4, OnlyIsFilter DEF f


-----------------------------------------------------------------------------
(* The invariant of a queue *)

Active == {"playing", "paused"}
Waiting == {"queued", "held"}
Statuses == {"absent", "played", "failed", "removed"} \cup Active \cup Waiting
Rows == [status : Statuses, length : Lengths \cup {"unknown"}, over : BOOLEAN,
         overridden : BOOLEAN, review : BOOLEAN, position : Int]
Runs == [active : BOOLEAN, ids : Seq(Ids)]
Clocks == [item : Ids \cup {None}, phase : {"none", "loading", "playing", "paused"}, seeks : Nat,
           begun : BOOLEAN]
Queues == [items : [Ids -> Rows], run : Runs, paused : BOOLEAN, limit : Limits, current : Clocks,
           gap : BOOLEAN, timer : {"none", "load", "end"}]

\* The row that plays is the one whose clock runs.
ActiveAt(q, i) == q.items[i].status \in Active <=> q.current.item = i

\* What may play was reviewed, and respects the limit or may be over it.
RowOK(row, most) ==
  /\ row.status \in {"queued"} \cup Active => ~row.over /\ ~row.review
  /\ row.status = "queued" => row.overridden \/ row.length # "long" \/ most # "low"

RunOK(ids, rows) ==
  /\ \A k \in 1 .. Len(ids) : rows[ids[k]].status \in Waiting
  /\ \A j, k \in 1 .. Len(ids) : ids[j] = ids[k] => j = k

QueueOK(q) ==
  /\ q \in Queues
  /\ q.current.item = None => q.current = Nobody /\ q.timer = "none"
  /\ RunOK(q.run.ids, q.items)
  /\ \A i \in Ids : ActiveAt(q, i) /\ RowOK(q.items[i], q.limit)

\* A run that is active goes on without the operator.
Goes(q) == q.run.active => q.current.item # None \/ q.gap \/ q.paused


\* What becomes of a request, as VideoRequests names it.
Stage(status) ==
  CASE status = "absent" -> "unasked"
    [] status \in Waiting -> "waiting"
    [] status \in Active -> "showing"
    [] OTHER -> "over"
Stages(rows) == [i \in Ids |-> Stage(rows[i].status)]

Shows(a, b, i) ==
  /\ \A j \in Ids : a[j] # "showing"
  /\ a[i] \in {"unasked", "waiting"} /\ b = [a EXCEPT ![i] = "showing"]
Leaves(a, b, i) ==
  /\ a[i] = "showing"
  /\ \E end \in {"over", "waiting"} :
       \/ b = [a EXCEPT ![i] = end]
       \/ \E j \in Ids : a[j] = "waiting" /\ b = [a EXCEPT ![i] = end, ![j] = "showing"]
Asks(a, b, i) == a[i] = "unasked" /\ b = [a EXCEPT ![i] = "waiting"]
Withdraws(a, b, some) ==
  /\ some # {} /\ \A i \in some : a[i] = "waiting"
  /\ b = [i \in Ids |-> IF i \in some THEN "over" ELSE a[i]]
Moves(a, b) ==
  \/ b = a
  \/ \E i \in Ids : Asks(a, b, i) \/ Shows(a, b, i) \/ Leaves(a, b, i)
  \/ \E some \in SUBSET Ids : Withdraws(a, b, some)

\* A call that starts from q and ends with n keeps what has to be kept.
Keeps(q, n) == QueueOK(n) /\ Moves(Stages(q.items), Stages(n.items))

-----------------------------------------------------------------------------
(* What the operators do, from one queue to the next *)

LEMMA Simple ==
  /\ Nobody \in Clocks /\ NoRun \in Runs /\ NoRun.ids = <<>> /\ NoRun.active = FALSE
  /\ Nobody.item = None
  /\ \A rows : RunOK(<<>>, rows)
BY DEF Nobody, Clocks, NoRun, Runs, RunOK

\* A queue is its fields.
LEMMA FieldsOf ==
  ASSUME NEW q \in Queues
  PROVE  /\ q.items \in [Ids -> Rows] /\ q.run \in Runs /\ q.run.ids \in Seq(Ids)
         /\ q.run.active \in BOOLEAN /\ q.paused \in BOOLEAN /\ q.limit \in Limits
         /\ q.current \in Clocks /\ q.current.item \in Ids \cup {None} /\ q.gap \in BOOLEAN
         /\ q.timer \in {"none", "load", "end"}
         /\ \A i \in Ids : q.items[i] \in Rows /\ q.items[i].status \in Statuses
BY DEF Queues, Runs, Clocks, Rows

\* The row i with another status.
WithStatus(rows, i, status) == [rows EXCEPT ![i].status = status]

LEMMA StatusSet ==
  ASSUME NEW rows \in [Ids -> Rows], NEW i \in Ids, NEW status \in Statuses
  PROVE  /\ WithStatus(rows, i, status) \in [Ids -> Rows]
         /\ \A j \in Ids \ {i} : WithStatus(rows, i, status)[j] = rows[j]
         /\ LET row == WithStatus(rows, i, status)[i]
            IN /\ row.status = status /\ row.over = rows[i].over /\ row.review = rows[i].review
               /\ row.overridden = rows[i].overridden /\ row.length = rows[i].length
               /\ row.position = rows[i].position
BY DEF WithStatus, Rows

Loads(c, h) == c.item = h /\ c.phase = "loading" /\ c.seeks = 0 /\ c.begun = FALSE

\* What advance() starts: the first request of the run that is ready, now h.
Begins(q, n, h) ==
  /\ Idle(q) /\ q.run.active /\ ~q.paused /\ PlayableRow(q.items[h])
  /\ \E k \in 1 .. Len(q.run.ids) : q.run.ids[k] = h
  /\ n.items = WithStatus(q.items, h, "playing")
  /\ n.run.active /\ n.run.ids \in Seq(Ids)
  /\ \A k \in 1 .. Len(n.run.ids) :
       n.run.ids[k] # h /\ \E j \in 1 .. Len(q.run.ids) : q.run.ids[j] = n.run.ids[k]
  /\ \A j, k \in 1 .. Len(n.run.ids) : n.run.ids[j] = n.run.ids[k] => j = k
  /\ Loads(n.current, h)
  /\ n.gap = q.gap /\ n.paused = q.paused /\ n.limit = q.limit /\ n.timer = "load"
EndsRun(q, n) ==
  /\ Idle(q) /\ n.items = q.items /\ n.run = NoRun /\ n.current = q.current
  /\ n.gap = q.gap /\ n.paused = q.paused /\ n.limit = q.limit /\ n.timer = q.timer

LEMMA AdvanceCases ==
  ASSUME NEW q \in Queues, RunOK(q.run.ids, q.items)
  PROVE  /\ Advance(q) \in Queues
         /\ \/ Advance(q) = q /\ (~Idle(q) \/ ~q.run.active \/ q.paused)
            \/ EndsRun(q, Advance(q))
            \/ \E h \in Ids : Begins(q, Advance(q), h)
<1> DEFINE able == {i \in Ids : PlayableRow(q.items[i])}
           ready == Only(q.run.ids, able)
           h == Head(ready)
           t == Tail(ready)
           rn == [q.run EXCEPT !.ids = t]
           c == [Nobody EXCEPT !.item = h, !.phase = "loading"]
<1>1. ready \in Seq(Ids) /\ q.run.ids \in Seq(Ids) /\ q.run \in Runs
  BY FieldsOf, FilterPicks
<1>2. /\ \A k \in 1 .. Len(ready) : ready[k] \in able /\ \E j \in 1 .. Len(q.run.ids) : q.run.ids[j] = ready[k]
      /\ \A j, k \in 1 .. Len(ready) : ready[j] = ready[k] => j = k
  <2>1. \A j, k \in 1 .. Len(q.run.ids) : q.run.ids[j] = q.run.ids[k] => j = k
    BY DEF RunOK
  <2> QED BY <1>1, <2>1, FilterPicks
<1>3. Advance(q) = IF ~Idle(q) \/ ~q.run.active \/ q.paused THEN q
                   ELSE IF ready = <<>> THEN [q EXCEPT !.run = NoRun]
                   ELSE [q EXCEPT !.items[h].status = "playing", !.run.ids = t, !.current = c, !.timer = "load"]
  BY DEF Advance
<1> HIDE DEF able, ready
<1>4. CASE ~Idle(q) \/ ~q.run.active \/ q.paused
  BY <1>3, <1>4
<1>5. CASE Idle(q) /\ q.run.active /\ ~q.paused /\ ready = <<>>
  <2>1. Advance(q) = [q EXCEPT !.run = NoRun]
    BY <1>3, <1>5
  <2>2. Advance(q) \in Queues
    BY <2>1, Simple DEF Queues
  <2> QED BY <1>5, <2>1, <2>2 DEF EndsRun, Queues
<1>6. CASE Idle(q) /\ q.run.active /\ ~q.paused /\ ready # <<>>
  <2>1. /\ Len(ready) \in Nat \ {0} /\ h = ready[1] /\ t \in Seq(Ids) /\ Len(t) = Len(ready) - 1
        /\ \A k \in 1 .. Len(t) : t[k] = ready[k + 1]
    BY <1>1, <1>6
  <2>2. h \in Ids /\ h \in able /\ PlayableRow(q.items[h])
    BY <1>1, <1>2, <2>1 DEF able
  <2>3. Loads(c, h) /\ c \in Clocks
    <3> HIDE DEF h
    <3>1. c.item = h /\ c.phase = "loading" /\ c.seeks = 0 /\ c.begun = FALSE
      BY DEF Nobody
    <3>2. c \in Clocks
      BY <2>2, Simple DEF Clocks
    <3> QED BY <3>1, <3>2 DEF Loads
  <2>4. rn \in Runs /\ rn.active = q.run.active /\ rn.ids = t
    BY <1>1, <2>1 DEF Runs
  <2>5. \A k \in 1 .. Len(t) : /\ t[k] # h
                               /\ \E j \in 1 .. Len(q.run.ids) : q.run.ids[j] = t[k]
    BY <1>2, <2>1
  <2>6. \A j, k \in 1 .. Len(t) : t[j] = t[k] => j = k
    BY <1>2, <2>1
  <2>7. WithStatus(q.items, h, "playing") \in [Ids -> Rows]
    BY <2>2, FieldsOf, StatusSet DEF Statuses, Active
  <2>8. \E k \in 1 .. Len(q.run.ids) : q.run.ids[k] = h
    BY <1>2, <2>1
  <2> DEFINE its == WithStatus(q.items, h, "playing")
  <2>9. Advance(q) = [q EXCEPT !.items = its, !.run = rn, !.current = c, !.timer = "load"]
    BY <1>3, <1>6 DEF WithStatus, Queues
  <2> HIDE DEF its, rn, c, t, h
  <2>10. /\ Advance(q) \in Queues
         /\ Advance(q).items = its /\ Advance(q).run = rn /\ Advance(q).current = c
         /\ Advance(q).timer = "load" /\ Advance(q).gap = q.gap /\ Advance(q).paused = q.paused
         /\ Advance(q).limit = q.limit
    BY <2>3, <2>4, <2>7, <2>9 DEF Queues, its
  <2>11. Begins(q, Advance(q), h)
    <3>1. Idle(q) /\ q.run.active /\ ~q.paused
      BY <1>6
    <3> DEFINE n == Advance(q)
    <3>2. n.items = WithStatus(q.items, h, "playing") /\ n.run = rn /\ n.current = c
      BY <2>10 DEF its
    <3>3. n.timer = "load" /\ n.gap = q.gap /\ n.paused = q.paused /\ n.limit = q.limit
      BY <2>10
    <3> HIDE DEF n
    <3>4. n.run.active /\ n.run.ids = t /\ t \in Seq(Ids)
      BY <2>1, <2>4, <3>1, <3>2
    <3>5. Loads(n.current, h)
      BY <2>3, <3>2
    <3>6. Begins(q, n, h)
      BY <2>2, <2>5, <2>6, <2>8, <3>1, <3>2, <3>3, <3>4, <3>5 DEF Begins
    <3> QED BY <3>6 DEF n
  <2> QED BY <2>2, <2>10, <2>11
<1> QED BY <1>4, <1>5, <1>6


LEMMA StageSet ==
  ASSUME NEW rows \in [Ids -> Rows], NEW i \in Ids, NEW status \in Statuses
  PROVE  Stages(WithStatus(rows, i, status)) = [Stages(rows) EXCEPT ![i] = Stage(status)]
<1>1. \A j \in Ids : Stages(WithStatus(rows, i, status))[j] = [Stages(rows) EXCEPT ![i] = Stage(status)][j]
  BY StatusSet DEF Stages
<1> QED BY <1>1 DEF Stages

LEMMA StageOf ==
  /\ \A s \in Waiting : Stage(s) = "waiting"
  /\ \A s \in Active : Stage(s) = "showing"
  /\ Stage("absent") = "unasked"
  /\ \A s \in {"played", "failed", "removed"} : Stage(s) = "over"
BY DEF Stage, Waiting, Active

LEMMA BeginsKeeps ==
  ASSUME NEW q, QueueOK(q), NEW n \in Queues, NEW h \in Ids, Begins(q, n, h)
  PROVE  /\ QueueOK(n) /\ n.current.item # None
         /\ q.items[h].status = "queued"
         /\ Stages(n.items) = [Stages(q.items) EXCEPT ![h] = "showing"]
         /\ \A j \in Ids : Stages(q.items)[j] # "showing"
<1>1. q \in Queues /\ q.items \in [Ids -> Rows] /\ \A i \in Ids : q.items[i].status \in Statuses
  BY FieldsOf DEF QueueOK
<1>2. /\ Idle(q) /\ n.items = WithStatus(q.items, h, "playing") /\ q.items[h].status = "queued"
      /\ n.current.item = h /\ n.limit = q.limit
  BY DEF Begins, Loads, PlayableRow
<1>3. "playing" \in Statuses /\ "playing" \in Active /\ "playing" \notin Waiting /\ "queued" \in Waiting
  BY DEF Statuses, Active, Waiting
<1>4. \A i \in Ids : q.items[i].status \notin Active
  BY <1>2, IdsFinite DEF QueueOK, ActiveAt, Idle
<1>5. /\ \A j \in Ids \ {h} : n.items[j] = q.items[j]
      /\ n.items[h].status = "playing" /\ n.items[h].over = q.items[h].over
      /\ n.items[h].review = q.items[h].review
  BY <1>1, <1>2, <1>3, StatusSet
<1>6. ASSUME NEW i \in Ids PROVE ActiveAt(n, i) /\ RowOK(n.items[i], n.limit)
  <2>1. CASE i = h
    BY <1>2, <1>3, <1>5, <2>1 DEF QueueOK, ActiveAt, RowOK
  <2>2. CASE i # h
    BY <1>2, <1>4, <1>5, <2>2 DEF QueueOK, ActiveAt, RowOK
  <2> QED BY <2>1, <2>2
<1>7. RunOK(n.run.ids, n.items)
  <2>1. ASSUME NEW k \in 1 .. Len(n.run.ids) PROVE n.items[n.run.ids[k]].status \in Waiting
    <3>1. PICK j \in 1 .. Len(q.run.ids) : q.run.ids[j] = n.run.ids[k]
      BY DEF Begins
    <3>2. n.run.ids[k] \in Ids \ {h}
      BY FieldsOf DEF Begins
    <3>3. q.items[n.run.ids[k]].status \in Waiting
      BY <3>1 DEF QueueOK, RunOK
    <3> QED BY <1>5, <3>2, <3>3
  <2>2. \A j, k \in 1 .. Len(n.run.ids) : n.run.ids[j] = n.run.ids[k] => j = k
    BY DEF Begins
  <2> QED BY <2>1, <2>2 DEF RunOK
<1>8. n.current.item # None
  BY <1>2, IdsFinite
<1>9. Stages(n.items) = [Stages(q.items) EXCEPT ![h] = "showing"]
  BY <1>1, <1>2, <1>3, StageSet, StageOf
<1>10. \A j \in Ids : Stages(q.items)[j] # "showing"
  BY <1>1, <1>4 DEF Stages, Stage, Active
<1> QED BY <1>2, <1>6, <1>7, <1>8, <1>9, <1>10 DEF QueueOK

LEMMA AdvanceKeeps ==
  ASSUME NEW q, QueueOK(q)
  PROVE  Keeps(q, Advance(q)) /\ Goes(Advance(q))
<1>1. q \in Queues /\ RunOK(q.run.ids, q.items)
  BY DEF QueueOK
<1> DEFINE n == Advance(q)
<1>2. /\ n \in Queues
      /\ \/ n = q /\ (~Idle(q) \/ ~q.run.active \/ q.paused)
         \/ EndsRun(q, n)
         \/ \E h \in Ids : Begins(q, n, h)
  BY <1>1, AdvanceCases
<1> HIDE DEF n
<1>3. CASE n = q /\ (~Idle(q) \/ ~q.run.active \/ q.paused)
  <2>1. Goes(n)
    BY <1>3 DEF Goes, Idle
  <2>2. Moves(Stages(q.items), Stages(n.items))
    BY <1>3 DEF Moves
  <2> QED BY <1>3, <2>1, <2>2 DEF Keeps, n
<1>4. CASE EndsRun(q, n)
  <2>1. n.items = q.items /\ n.run.ids = <<>> /\ n.run.active = FALSE /\ n.current = q.current /\ n.limit = q.limit
       /\ n.timer = q.timer
    BY <1>4, Simple DEF EndsRun
  <2>2. QueueOK(n)
    BY <1>2, <2>1, Simple DEF QueueOK, ActiveAt
  <2>3. Moves(Stages(q.items), Stages(n.items))
    BY <2>1 DEF Moves
  <2>4. Goes(n)
    BY <2>1 DEF Goes
  <2> QED BY <2>2, <2>3, <2>4 DEF Keeps, n
<1>5. ASSUME NEW h \in Ids, Begins(q, n, h) PROVE Keeps(q, n) /\ Goes(n)
  <2>1. /\ QueueOK(n) /\ n.current.item # None /\ q.items[h].status = "queued"
        /\ Stages(n.items) = [Stages(q.items) EXCEPT ![h] = "showing"]
        /\ \A j \in Ids : Stages(q.items)[j] # "showing"
    BY <1>2, <1>5, BeginsKeeps
  <2>2. Stages(q.items)[h] = "waiting"
    BY <2>1, StageOf DEF Stages, Waiting
  <2>3. Shows(Stages(q.items), Stages(n.items), h)
    BY <2>1, <2>2 DEF Shows
  <2> QED BY <2>1, <2>3 DEF Keeps, Moves, Goes
<1> QED BY <1>2, <1>3, <1>4, <1>5 DEF n


LEMMA WithRun ==
  ASSUME NEW q, QueueOK(q), NEW r \in Runs, RunOK(r.ids, q.items)
  PROVE  LET n == [q EXCEPT !.run = r]
         IN /\ QueueOK(n) /\ n.items = q.items /\ n.run = r /\ n.current = q.current
            /\ n.gap = q.gap /\ n.paused = q.paused
<1> DEFINE n == [q EXCEPT !.run = r]
<1>1. q \in Queues
  BY DEF QueueOK
<1>2. /\ n \in Queues /\ n.items = q.items /\ n.run = r /\ n.current = q.current
      /\ n.gap = q.gap /\ n.paused = q.paused /\ n.limit = q.limit /\ n.timer = q.timer
  BY <1>1 DEF Queues
<1> HIDE DEF n
<1>3. QueueOK(n)
  BY <1>2 DEF QueueOK, ActiveAt
<1> QED BY <1>2, <1>3 DEF n

LEMMA StartRunKeeps ==
  ASSUME NEW q, QueueOK(q), NEW ids \in Seq(Ids), RunOK(ids, q.items)
  PROVE  Keeps(q, StartRun(q, ids)) /\ Goes(StartRun(q, ids))
<1> DEFINE r == [active |-> TRUE, ids |-> ids]
           n == [q EXCEPT !.run = r]
<1>1. r \in Runs /\ RunOK(r.ids, q.items)
  BY DEF Runs
<1>2. QueueOK(n) /\ n.items = q.items
  <2> HIDE DEF r
  <2> QED BY <1>1, WithRun
<1>3. StartRun(q, ids) = Advance(n)
  BY DEF StartRun
<1> HIDE DEF n
<1> QED BY <1>2, <1>3, AdvanceKeeps DEF Keeps

\* The current video is over, before the run goes on.
Outcomes == {"played", "failed", "over-limit"}
Over(q, outcome) ==
  [q EXCEPT !.current = Nobody, !.timer = "none",
            !.items[q.current.item].status = IF outcome = "over-limit" THEN "held" ELSE outcome,
            !.items[q.current.item].over = outcome = "over-limit",
            !.run = IF @.ids = <<>> THEN NoRun ELSE @]

LEMMA OverKeeps ==
  ASSUME NEW q, QueueOK(q), NEW outcome \in Outcomes, q.current.item # None
  PROVE  LET d == Over(q, outcome)
             end == IF outcome = "over-limit" THEN "waiting" ELSE "over"
         IN /\ QueueOK(d)
            /\ Stages(d.items) = [Stages(q.items) EXCEPT ![q.current.item] = end]
            /\ q.current.item \in Ids /\ d.items[q.current.item].status # "queued"
            /\ Stages(q.items)[q.current.item] = "showing"
            /\ d.run = (IF q.run.ids = <<>> THEN NoRun ELSE q.run)
            /\ d.current = Nobody /\ d.gap = q.gap /\ d.paused = q.paused /\ d.timer = "none"
<1> DEFINE d == Over(q, outcome)
           i == q.current.item
           status == IF outcome = "over-limit" THEN "held" ELSE outcome
           over == outcome = "over-limit"
           rn == IF q.run.ids = <<>> THEN NoRun ELSE q.run
           its == [q.items EXCEPT ![i] = [q.items[i] EXCEPT !.status = status, !.over = over]]
<1>1. q \in Queues /\ i \in Ids /\ i # None
  BY FieldsOf DEF QueueOK
<1>2. /\ status \in Statuses /\ status \notin Active /\ status # "queued" /\ over \in BOOLEAN
      /\ Stage(status) = IF outcome = "over-limit" THEN "waiting" ELSE "over"
  BY StageOf DEF Outcomes, Statuses, Active, Waiting
<1>3. rn \in Runs
  BY <1>1, FieldsOf, Simple
<1>4. its \in [Ids -> Rows]
  <2> DEFINE row == q.items[i]
  <2>1. row \in Rows
    BY <1>1, FieldsOf
  <2> HIDE DEF status, over, row
  <2>2. [row EXCEPT !.status = status, !.over = over] \in Rows
    BY <1>2, <2>1 DEF Rows
  <2> QED BY <1>1, <2>2, FieldsOf DEF row
<1>5. /\ its[i].status = status /\ its[i].over = over
      /\ \A j \in Ids \ {i} : its[j] = q.items[j]
  <2> HIDE DEF status, over
  <2> QED BY <1>1, FieldsOf DEF Rows
<1>6. d = [[[q EXCEPT !.current = Nobody, !.timer = "none", !.items = WithStatus(q.items, i, status)]
             EXCEPT !.items[i].over = over] EXCEPT !.run = rn]
  <2> HIDE DEF status, over
  <2>1. q = [items |-> q.items, run |-> q.run, paused |-> q.paused, limit |-> q.limit,
             current |-> q.current, gap |-> q.gap, timer |-> q.timer]
    BY <1>1 DEF Queues
  <2> QED BY <2>1 DEF Over, WithStatus, status, over
<1> HIDE DEF status, over, rn
<1>7. /\ d \in Queues /\ d.items = its /\ d.run = rn /\ d.current = Nobody
      /\ d.gap = q.gap /\ d.paused = q.paused /\ d.limit = q.limit /\ d.timer = "none"
  <2> DEFINE its1 == WithStatus(q.items, i, status)
             q1 == [q EXCEPT !.current = Nobody, !.timer = "none", !.items = its1]
             q2 == [q1 EXCEPT !.items[i].over = over]
  <2>1. its = [its1 EXCEPT ![i].over = over]
    BY <1>1, FieldsOf DEF WithStatus, Rows
  <2>2. its1 \in [Ids -> Rows]
    BY <1>1, <1>2, FieldsOf, StatusSet
  <2> HIDE DEF its1, its
  <2>3. /\ q1 \in Queues /\ q1.items = its1 /\ q1.run = q.run /\ q1.current = Nobody
        /\ q1.gap = q.gap /\ q1.paused = q.paused /\ q1.limit = q.limit /\ q1.timer = "none"
    BY <1>1, <2>2, Simple DEF Queues
  <2> HIDE DEF q1
  <2>4. /\ q2.items = [its1 EXCEPT ![i].over = over] /\ q2 = [q1 EXCEPT !.items = its]
    BY <2>1, <2>3 DEF Queues
  <2>5. /\ q2 \in Queues /\ q2.items = its /\ q2.run = q.run /\ q2.current = Nobody
        /\ q2.gap = q.gap /\ q2.paused = q.paused /\ q2.limit = q.limit /\ q2.timer = "none"
    BY <1>4, <2>1, <2>3, <2>4 DEF Queues
  <2>6. d = [q2 EXCEPT !.run = rn]
    BY <1>6 DEF q1, its1
  <2> HIDE DEF d, q2
  <2> QED BY <1>3, <2>5, <2>6 DEF Queues
<1> HIDE DEF its
<1> HIDE DEF d
<1>8. \A j \in Ids : ActiveAt(d, j) /\ RowOK(d.items[j], d.limit)
  <2> SUFFICES ASSUME NEW j \in Ids PROVE ActiveAt(d, j) /\ RowOK(d.items[j], d.limit)
    OBVIOUS
  <2>1. CASE j = i
    BY <1>2, <1>5, <1>7, <2>1, Simple, IdsFinite DEF ActiveAt, RowOK
  <2>2. CASE j # i
    BY <1>5, <1>7, <2>2, Simple, IdsFinite DEF QueueOK, ActiveAt, RowOK
  <2> QED BY <2>1, <2>2
<1>9. RunOK(d.run.ids, d.items)
  <2>1. CASE q.run.ids = <<>>
    BY <1>7, <2>1, Simple DEF rn
  <2>2. CASE q.run.ids # <<>>
    <3>1. RunOK(q.run.ids, q.items) /\ q.items[i].status \in Active /\ q.run.ids \in Seq(Ids)
      BY <1>1, FieldsOf DEF QueueOK, ActiveAt
    <3>2. \A k \in 1 .. Len(q.run.ids) : q.run.ids[k] \in Ids \ {i}
      BY <3>1 DEF RunOK, Active, Waiting
    <3>3. d.run = q.run
      BY <1>7, <2>2 DEF rn
    <3> QED BY <1>5, <1>7, <3>1, <3>2, <3>3 DEF RunOK
  <2> QED BY <2>1, <2>2
<1>10. Stages(d.items) = [Stages(q.items) EXCEPT ![i] = Stage(status)]
  <2>1. \A j \in Ids : Stages(d.items)[j] = [Stages(q.items) EXCEPT ![i] = Stage(status)][j]
    BY <1>1, <1>5, <1>7 DEF Stages
  <2> QED BY <2>1 DEF Stages
<1>11. Stages(q.items)[i] = "showing"
  BY <1>1, StageOf DEF QueueOK, ActiveAt, Stages
<1>12. QueueOK(d)
  BY <1>7, <1>8, <1>9 DEF QueueOK
<1> QED BY <1>1, <1>2, <1>5, <1>7, <1>10, <1>11, <1>12 DEF d, rn

\* The end of the current video, whatever follows: another one begins, or none.
LEMMA FinishKeeps ==
  ASSUME NEW q, QueueOK(q), NEW outcome \in Outcomes, q.current.item # None, NEW gapped \in BOOLEAN
  PROVE  /\ Keeps(q, Finish(q, outcome, gapped)) /\ Goes(Finish(q, outcome, gapped))
         /\ Finish(q, outcome, gapped).current.item # q.current.item
<1> DEFINE d == Over(q, outcome)
           i == q.current.item
           end == IF outcome = "over-limit" THEN "waiting" ELSE "over"
           n == Finish(q, outcome, gapped)
           continues == q.run.active /\ q.run.ids # <<>> /\ ~q.paused
           g == [d EXCEPT !.gap = TRUE]
<1>1. n = IF ~continues THEN d ELSE IF gapped THEN g ELSE Advance(d)
  BY DEF Finish, Over
<1>2. /\ QueueOK(d) /\ Stages(d.items) = [Stages(q.items) EXCEPT ![i] = end] /\ i \in Ids
      /\ d.items[i].status # "queued" /\ Stages(q.items)[i] = "showing"
      /\ d.run = (IF q.run.ids = <<>> THEN NoRun ELSE q.run)
      /\ d.current = Nobody /\ d.gap = q.gap /\ d.paused = q.paused /\ d.timer = "none"
  BY OverKeeps
<1>3. end \in {"over", "waiting"}
  OBVIOUS
<1> HIDE DEF d, n, continues, end
<1>4. Leaves(Stages(q.items), Stages(d.items), i)
  BY <1>2, <1>3 DEF Leaves
<1>5. Keeps(q, d)
  BY <1>2, <1>4 DEF Keeps, Moves
<1>6. CASE ~continues
  <2>1. Goes(d)
    BY <1>2, <1>6, Simple DEF Goes, continues
  <2> QED BY <1>1, <1>2, <1>5, <1>6, <2>1, Simple DEF n
<1>7. CASE continues /\ gapped
  <2>1. d \in Queues
    BY <1>2 DEF QueueOK
  <2>2. /\ g \in Queues /\ g.items = d.items /\ g.run = d.run /\ g.current = d.current /\ g.gap = TRUE
        /\ g.limit = d.limit /\ g.timer = d.timer
    BY <2>1 DEF Queues
  <2> HIDE DEF g
  <2>3. QueueOK(g)
    BY <1>2, <2>2 DEF QueueOK, ActiveAt
  <2>4. Keeps(q, g) /\ Goes(g) /\ g.current.item # i
    BY <1>2, <1>5, <2>2, <2>3, Simple, IdsFinite DEF Keeps, Goes
  <2> QED BY <1>1, <1>7, <2>4 DEF n
<1>8. CASE continues /\ ~gapped
  <2> DEFINE m == Advance(d)
  <2>1. n = m
    BY <1>1, <1>8
  <2>2. Keeps(d, m) /\ Goes(m)
    BY <1>2, AdvanceKeeps
  <2>3. /\ m \in Queues
        /\ \/ m = d
           \/ EndsRun(d, m)
           \/ \E h \in Ids : Begins(d, m, h)
    <3>1. d \in Queues /\ RunOK(d.run.ids, d.items)
      BY <1>2 DEF QueueOK
    <3> QED BY <3>1, AdvanceCases
  <2> HIDE DEF m
  <2>4. CASE m = d
    BY <1>2, <1>5, <2>1, <2>2, <2>4, Simple, IdsFinite DEF n
  <2>5. CASE EndsRun(d, m)
    <3>1. m.items = d.items /\ m.current = d.current
      BY <2>5 DEF EndsRun
    <3> QED BY <1>2, <1>5, <2>1, <2>2, <3>1, Simple, IdsFinite DEF n, Keeps
  <2>6. ASSUME NEW h \in Ids, Begins(d, m, h) PROVE Keeps(q, m) /\ m.current.item # i
    <3>1. /\ d.items[h].status = "queued" /\ m.current.item = h
          /\ Stages(m.items) = [Stages(d.items) EXCEPT ![h] = "showing"]
      <4>1. m.current.item = h
        BY <2>6 DEF Begins, Loads
      <4>2. QueueOK(d) /\ m \in Queues /\ Begins(d, m, h)
        BY <1>2, <2>3, <2>6
      <4>3. d.items[h].status = "queued" /\ Stages(m.items) = [Stages(d.items) EXCEPT ![h] = "showing"]
        BY <4>2, BeginsKeeps
      <4> QED BY <4>1, <4>3
    <3>2. h # i
      BY <1>2, <3>1
    <3>3. Stages(d.items)[h] = "waiting" /\ Stages(q.items)[h] = "waiting"
      <4>1. Stages(d.items)[h] = "waiting"
        BY <3>1, StageOf DEF Stages, Waiting
      <4> QED BY <1>2, <3>2, <4>1 DEF Stages
    <3>4. Stages(m.items) = [Stages(q.items) EXCEPT ![i] = end, ![h] = "showing"]
      BY <1>2, <3>1
    <3>5. Leaves(Stages(q.items), Stages(m.items), i)
      BY <1>2, <1>3, <3>3, <3>4 DEF Leaves
    <3> QED BY <1>2, <2>2, <3>1, <3>2, <3>5 DEF Keeps, Moves
  <2> QED BY <2>1, <2>2, <2>3, <2>4, <2>5, <2>6 DEF n
<1> QED BY <1>6, <1>7, <1>8 DEF continues



-----------------------------------------------------------------------------
(* One call: it keeps what has to be kept, and a run that went on goes on. *)

Good(q, n) == Keeps(q, n) /\ (~Idle(q) \/ q.paused => Goes(n))

\* n differs from q in what neither the stages nor the driving of the queue show.
Alike(q, n) ==
  /\ QueueOK(n) /\ Stages(n.items) = Stages(q.items)
  /\ n.current.item = q.current.item /\ n.gap = q.gap /\ n.paused = q.paused

LEMMA AlikeGood ==
  ASSUME NEW q, QueueOK(q), NEW n, Alike(q, n)
  PROVE  Good(q, n) /\ (\A m : Good(n, m) => Good(q, m))
<1>1. Moves(Stages(q.items), Stages(n.items))
  BY DEF Alike, Moves
<1>2. ~Idle(q) \/ q.paused => Goes(n)
  BY DEF Alike, Idle, Goes
<1>3. ASSUME NEW m, Good(n, m) PROVE Good(q, m)
  BY <1>3 DEF Alike, Good, Keeps, Idle
<1> QED BY <1>1, <1>2, <1>3 DEF Good, Keeps, Alike

\* What begins a run, advances or ends a video is good, after what is alike.
LEMMA ThenGood ==
  ASSUME NEW q, QueueOK(q), NEW n, QueueOK(n), Stages(n.items) = Stages(q.items)
  PROVE  /\ \A m : Keeps(n, m) /\ Goes(m) => Good(q, m)
         /\ Good(q, Advance(n))
<1>1. ASSUME NEW m, Keeps(n, m), Goes(m) PROVE Good(q, m)
  BY <1>1 DEF Good, Keeps
<1>2. Good(q, Advance(n))
  BY <1>1, AdvanceKeeps
<1> QED BY <1>1, <1>2

LEMMA RunAlike ==
  ASSUME NEW q, QueueOK(q), NEW r \in Runs, RunOK(r.ids, q.items)
  PROVE  Alike(q, [q EXCEPT !.run = r])
BY WithRun DEF Alike

\* The flags of a queue.
LEMMA FlagsSet ==
  ASSUME NEW q, QueueOK(q), NEW b \in BOOLEAN
  PROVE  /\ LET n == [q EXCEPT !.gap = b] IN QueueOK(n) /\ n.items = q.items /\ n.current = q.current
                                             /\ n.run = q.run /\ n.gap = b /\ n.paused = q.paused
         /\ LET n == [q EXCEPT !.paused = b] IN QueueOK(n) /\ n.items = q.items /\ n.current = q.current
                                                /\ n.run = q.run /\ n.gap = q.gap /\ n.paused = b
<1> DEFINE n == [q EXCEPT !.gap = b]
           m == [q EXCEPT !.paused = b]
<1>1. q \in Queues
  BY DEF QueueOK
<1>2. /\ n \in Queues /\ n.items = q.items /\ n.run = q.run /\ n.current = q.current
      /\ n.gap = b /\ n.paused = q.paused /\ n.limit = q.limit /\ n.timer = q.timer
  BY <1>1 DEF Queues
<1>3. /\ m \in Queues /\ m.items = q.items /\ m.run = q.run /\ m.current = q.current
      /\ m.gap = q.gap /\ m.paused = b /\ m.limit = q.limit /\ m.timer = q.timer
  BY <1>1 DEF Queues
<1> HIDE DEF n, m
<1>4. QueueOK(n) /\ QueueOK(m)
  BY <1>2, <1>3 DEF QueueOK, ActiveAt
<1> QED BY <1>2, <1>3, <1>4 DEF n, m

\* Another row for one request.
LEMMA RowSet ==
  ASSUME NEW q, QueueOK(q), NEW i \in Ids, NEW row \in Rows,
         row.status \in Active <=> q.items[i].status \in Active,
         RowOK(row, q.limit), q.items[i].status \in Waiting => row.status \in Waiting
  PROVE  LET n == [q EXCEPT !.items[i] = row]
         IN /\ QueueOK(n) /\ n.items = [q.items EXCEPT ![i] = row]
            /\ Stages(n.items) = [Stages(q.items) EXCEPT ![i] = Stage(row.status)]
            /\ n.run = q.run /\ n.current = q.current /\ n.gap = q.gap /\ n.paused = q.paused
            /\ (Stage(row.status) = Stage(q.items[i].status) => Alike(q, n))
<1> DEFINE n == [q EXCEPT !.items[i] = row]
           its == [q.items EXCEPT ![i] = row]
<1>1. q \in Queues /\ q.items \in [Ids -> Rows] /\ q.run.ids \in Seq(Ids)
  BY FieldsOf DEF QueueOK
<1>2. its \in [Ids -> Rows] /\ its[i] = row /\ \A j \in Ids \ {i} : its[j] = q.items[j]
  BY <1>1
<1>3. n = [q EXCEPT !.items = its]
  BY <1>1
<1> HIDE DEF its, n
<1>4. /\ n \in Queues /\ n.items = its /\ n.run = q.run /\ n.current = q.current
      /\ n.gap = q.gap /\ n.paused = q.paused /\ n.limit = q.limit /\ n.timer = q.timer
  BY <1>1, <1>2, <1>3 DEF Queues
<1>5. \A j \in Ids : ActiveAt(n, j) /\ RowOK(n.items[j], n.limit)
  <2> SUFFICES ASSUME NEW j \in Ids PROVE ActiveAt(n, j) /\ RowOK(n.items[j], n.limit)
    OBVIOUS
  <2>1. CASE j = i
    BY <1>2, <1>4, <2>1 DEF QueueOK, ActiveAt
  <2>2. CASE j # i
    BY <1>2, <1>4, <2>2 DEF QueueOK, ActiveAt
  <2> QED BY <2>1, <2>2
<1>6. RunOK(n.run.ids, n.items)
  <2>1. \A k \in 1 .. Len(q.run.ids) : q.run.ids[k] \in Ids /\ q.items[q.run.ids[k]].status \in Waiting
    BY <1>1 DEF QueueOK, RunOK
  <2>2. \A k \in 1 .. Len(q.run.ids) : its[q.run.ids[k]].status \in Waiting
    BY <1>2, <2>1
  <2> QED BY <1>4, <2>2 DEF QueueOK, RunOK
<1>7. QueueOK(n)
  BY <1>4, <1>5, <1>6 DEF QueueOK
<1>8. Stages(n.items) = [Stages(q.items) EXCEPT ![i] = Stage(row.status)]
  <2>1. \A j \in Ids : Stages(n.items)[j] = [Stages(q.items) EXCEPT ![i] = Stage(row.status)][j]
    BY <1>2, <1>4 DEF Stages
  <2> QED BY <2>1 DEF Stages
<1>9. Stage(row.status) = Stage(q.items[i].status) => Alike(q, n)
  <2> SUFFICES ASSUME Stage(row.status) = Stage(q.items[i].status) PROVE Alike(q, n)
    OBVIOUS
  <2>1. Stages(n.items) = Stages(q.items)
    BY <1>8 DEF Stages
  <2> QED BY <1>4, <1>7, <2>1 DEF Alike
<1> QED BY <1>4, <1>7, <1>8, <1>9 DEF n, its


\* A timer is none of it.
LEMMA EndScheduled ==
  ASSUME NEW q, QueueOK(q)
  PROVE  /\ Alike(q, ScheduleEnd(q)) /\ ScheduleEnd(q).current = q.current
         /\ ScheduleEnd(q).run = q.run
<1> DEFINE t == IF q.current.phase = "playing" /\ q.items[q.current.item].length # "unknown"
                THEN "end" ELSE "none"
           n == [q EXCEPT !.timer = t]
<1>1. q \in Queues /\ t \in {"none", "load", "end"}
  BY DEF QueueOK
<1>2. n = ScheduleEnd(q)
  BY DEF ScheduleEnd
<1> HIDE DEF t
<1>3. /\ n \in Queues /\ n.items = q.items /\ n.run = q.run /\ n.current = q.current
      /\ n.gap = q.gap /\ n.paused = q.paused /\ n.limit = q.limit /\ n.timer = t
  BY <1>1 DEF Queues
<1>5. q.current.item = None => t = "none"
  BY DEF QueueOK, Nobody, t
<1> HIDE DEF n
<1>4. QueueOK(n)
  BY <1>3, <1>5 DEF QueueOK, ActiveAt
<1> QED BY <1>2, <1>3, <1>4 DEF Alike

\* The clock of the current video changes, and its row from playing to paused or back.
LEMMA ClockSet ==
  ASSUME NEW q, QueueOK(q), q.current.item # None, NEW c \in Clocks, c.item = q.current.item,
         NEW status \in Active, NEW t \in {"none", "load", "end"}
  PROVE  /\ Alike(q, [q EXCEPT !.current = c])
         /\ Alike(q, [q EXCEPT !.timer = t, !.current = c,
                               !.items = WithStatus(@, q.current.item, status)])
<1> DEFINE i == q.current.item
           n == [q EXCEPT !.current = c]
           its == WithStatus(q.items, i, status)
           m == [q EXCEPT !.timer = t, !.current = c, !.items = its]
<1>1. q \in Queues /\ q.items \in [Ids -> Rows] /\ i \in Ids /\ q.run.ids \in Seq(Ids)
  BY FieldsOf DEF QueueOK
<1>2. status \in Statuses /\ status \notin Waiting /\ status # "queued" /\ q.items[i].status \in Active
  BY <1>1 DEF Statuses, Active, Waiting, QueueOK, ActiveAt
<1>3. /\ its \in [Ids -> Rows] /\ \A j \in Ids \ {i} : its[j] = q.items[j]
      /\ its[i].status = status /\ its[i].over = q.items[i].over /\ its[i].review = q.items[i].review
  BY <1>1, <1>2, StatusSet
<1>10. Stages(its) = [Stages(q.items) EXCEPT ![i] = Stage(status)]
  BY <1>1, <1>2, StageSet
<1> HIDE DEF its
<1>4. /\ n \in Queues /\ n.items = q.items /\ n.run = q.run /\ n.current = c
      /\ n.gap = q.gap /\ n.paused = q.paused /\ n.limit = q.limit
  BY <1>1 DEF Queues
<1>5. /\ m \in Queues /\ m.items = its /\ m.run = q.run /\ m.current = c
      /\ m.gap = q.gap /\ m.paused = q.paused /\ m.limit = q.limit
  BY <1>1, <1>3 DEF Queues
<1>6. m = [q EXCEPT !.timer = t, !.current = c, !.items = WithStatus(@, i, status)]
  BY DEF its
<1> HIDE DEF n, m
<1>7. QueueOK(n)
  BY <1>4 DEF QueueOK, ActiveAt
<1>8. QueueOK(m)
  <2>1. \A j \in Ids : ActiveAt(m, j) /\ RowOK(m.items[j], m.limit)
    <3> SUFFICES ASSUME NEW j \in Ids PROVE ActiveAt(m, j) /\ RowOK(m.items[j], m.limit)
      OBVIOUS
    <3>1. CASE j = i
      <4>1. q.items[i].status \in Active => ~q.items[i].over /\ ~q.items[i].review
        BY <1>1 DEF QueueOK, RowOK
      <4> QED BY <1>2, <1>3, <1>5, <3>1, <4>1 DEF ActiveAt, RowOK
    <3>2. CASE j # i
      BY <1>3, <1>5, <3>2 DEF QueueOK, ActiveAt, RowOK
    <3> QED BY <3>1, <3>2
  <2>2. RunOK(q.run.ids, q.items) /\ q.items[i].status \notin Waiting
    BY <1>2 DEF QueueOK, Active, Waiting
  <2>3. \A k \in 1 .. Len(q.run.ids) : q.run.ids[k] \in Ids \ {i}
    BY <1>1, <2>2 DEF RunOK
  <2>4. RunOK(m.run.ids, m.items)
    BY <1>3, <1>5, <2>2, <2>3 DEF RunOK
  <2> QED BY <1>5, <2>1, <2>4 DEF QueueOK
<1>9. Stages(m.items) = Stages(q.items)
  <2>1. Stages(q.items)[i] = Stage(status)
    BY <1>1, <1>2, StageOf DEF Stages
  <2> QED BY <1>5, <1>10, <2>1 DEF Stages
<1> QED BY <1>4, <1>5, <1>6, <1>7, <1>8, <1>9 DEF Alike, n

\* The length of a video becomes known, and may end it.
LEMMA LengthSet ==
  ASSUME NEW q, QueueOK(q), q.current.item # None, NEW length \in Lengths \cup {"unknown"}
  PROVE  LET n == [q EXCEPT !.items[q.current.item].length = length]
         IN Alike(q, n) /\ n.current = q.current
<1> DEFINE i == q.current.item
           row == [q.items[i] EXCEPT !.length = length]
           n == [q EXCEPT !.items[i] = row]
<1>1. q \in Queues /\ i \in Ids
  BY FieldsOf DEF QueueOK
<1>2. q.items[i] \in Rows /\ q.items[i].status \in Active /\ RowOK(q.items[i], q.limit)
  BY <1>1, FieldsOf DEF QueueOK, ActiveAt
<1>3. /\ row \in Rows /\ row.status = q.items[i].status
      /\ row.over = q.items[i].over /\ row.review = q.items[i].review
  BY <1>2 DEF Rows
<1>4. n = [q EXCEPT !.items[q.current.item].length = length]
  OBVIOUS
<1> HIDE DEF row
<1>5. RowOK(row, q.limit) /\ row.status \in Active
  BY <1>2, <1>3 DEF RowOK, Active
<1>6. Alike(q, n) /\ n.current = q.current
  BY <1>1, <1>2, <1>3, <1>5, RowSet
<1> QED BY <1>4, <1>6

LEMMA LearnKeeps ==
  ASSUME NEW q, QueueOK(q), NEW length \in Lengths \cup {"unknown"}, NEW gapped \in BOOLEAN
  PROVE  LET n == Learn(q, length, gapped)
         IN QueueOK(n) /\ Good(q, n) /\ (~Cuts(q, length) => Alike(q, n) /\ n.current = q.current)
<1> DEFINE known == [q EXCEPT !.items[q.current.item].length = length]
           n == Learn(q, length, gapped)
<1>1. CASE ~Learns(q, length)
  <2>1. n = q /\ ~Cuts(q, length)
    BY <1>1 DEF Learn, Cuts
  <2>2. Alike(q, q)
    BY DEF Alike
  <2> QED BY <2>1, <2>2, AlikeGood
<1>2. CASE Learns(q, length)
  <2>1. q.current.item # None
    BY <1>2 DEF Learns
  <2>2. Alike(q, known) /\ known.current = q.current
    BY <2>1, LengthSet
  <2>3. n = IF Cuts(q, length) THEN Finish(known, "over-limit", gapped) ELSE known
    BY <1>2 DEF Learn
  <2> HIDE DEF known, n
  <2>4. CASE Cuts(q, length)
    <3>1. QueueOK(known) /\ known.current.item # None /\ "over-limit" \in Outcomes
      BY <2>1, <2>2 DEF Alike, Outcomes
    <3>2. Keeps(known, Finish(known, "over-limit", gapped)) /\ Goes(Finish(known, "over-limit", gapped))
      BY <3>1, FinishKeeps
    <3>3. Good(q, n)
      BY <2>2, <2>3, <2>4, <3>1, <3>2, ThenGood DEF Alike
    <3> QED BY <2>4, <3>3 DEF Good, Keeps, n
  <2>5. CASE ~Cuts(q, length)
    BY <2>2, <2>3, <2>5, AlikeGood DEF Alike, n
  <2> QED BY <2>4, <2>5
<1> QED BY <1>1, <1>2


-----------------------------------------------------------------------------
(* The actions *)

LEMMA QueueIs ==
  /\ queue.items = items /\ queue.run = run /\ queue.paused = queuePaused /\ queue.limit = limit
  /\ queue.current = current /\ queue.gap = gap /\ queue.timer = timer
BY DEF queue

\* An action that sets the queue leaves exactly that queue.
LEMMA SetTo ==
  ASSUME NEW q, q \in Queues, Emits(q) \/ Silent(q) \/ Set(q)
  PROVE  queue' = q
BY DEF Emits, Silent, Set, queue, Queues

LEMMA SetGood ==
  ASSUME NEW q, Emits(q) \/ Silent(q) \/ Set(q), Good(queue, q)
  PROVE  Good(queue, queue')
<1>1. q \in Queues
  BY DEF Good, Keeps, QueueOK
<1>2. queue' = q
  BY <1>1, SetTo
<1> QED BY <1>2

LEMMA NewItemOK ==
  ASSUME NEW q, QueueOK(q), NEW length \in Lengths \cup {"unknown"}, NEW review \in BOOLEAN
  PROVE  LET row == NewItem(q, length, review)
         IN /\ row \in Rows /\ row.status \in Waiting /\ RowOK(row, q.limit)
            /\ row.review = review
<1> DEFINE active == ActiveIn(q.items)
           over == HoldReason(q, length, FALSE)
           status == IF over \/ review THEN "held" ELSE "queued"
           taken == {-1} \cup {q.items[i].position : i \in active}
           position == 1 + Max(taken)
<1>1. NewItem(q, length, review) =
        [Unused EXCEPT !.status = status, !.length = length, !.over = over, !.review = review,
                       !.position = position]
  BY DEF NewItem
<1>2. Placed(q.items) /\ active \in SUBSET Ids
  BY FieldsOf DEF QueueOK, Placed, Rows, ActiveIn
<1>3. \E p \in taken : p \in Int /\ \A o \in taken : p >= o
  <2> HIDE DEF active
  <2>1. CASE active = {}
    BY <2>1
  <2>2. CASE active # {}
    <3>1. PICK i \in active : \A j \in active : q.items[j].position <= q.items[i].position
      BY <1>2, <2>2, FirstAndLast
    <3>2. q.items[i].position \in Int /\ \A j \in active : q.items[j].position \in Int
      BY <1>2 DEF Placed
    <3>3. CASE q.items[i].position >= -1
      BY <3>1, <3>2, <3>3
    <3>4. CASE ~(q.items[i].position >= -1)
      <4>1. -1 \in taken /\ \A o \in taken : -1 >= o
        BY <3>1, <3>2, <3>4
      <4> QED BY <4>1
    <3> QED BY <3>3, <3>4
  <2> QED BY <2>1, <2>2
<1>4. position \in Int
  <2>1. \A o \in taken : o \in Int
    BY <1>2 DEF Placed
  <2> HIDE DEF taken
  <2>2. Max(taken) \in taken
    BY <1>3 DEF Max
  <2> QED BY <2>1, <2>2
<1>5. /\ over \in BOOLEAN /\ status \in {"queued", "held"}
      /\ over <=> (length = "long" /\ q.limit = "low")
      /\ status = "queued" <=> (~over /\ ~review)
  BY DEF HoldReason
<1> HIDE DEF active, over, status, taken, position
<1> DEFINE row == NewItem(q, length, review)
<1>6. /\ row.status = status /\ row.length = length /\ row.over = over /\ row.overridden = FALSE
      /\ row.review = review /\ row.position = position
  BY <1>1 DEF Unused
<1>7. row \in Rows
  BY <1>1, <1>4, <1>5 DEF Unused, Rows, Statuses, Waiting, Active
<1> HIDE DEF row
<1>8. RowOK(row, q.limit)
  BY <1>5, <1>6 DEF RowOK, Active
<1> QED BY <1>5, <1>6, <1>7, <1>8 DEF row, Waiting

LEMMA NextFree == ASSUME FreeIds # {} PROVE NextId \in FreeIds /\ NextId \in Ids
<1>1. FreeIds \in SUBSET Nat /\ FreeIds \subseteq Ids
  BY DEF FreeIds, Ids
<1>2. \E i \in FreeIds : \A j \in FreeIds : i <= j
  BY <1>1, LeastOf
<1> QED BY <1>1, <1>2 DEF NextId

\* A new row waits.
LEMMA AddedRow ==
  ASSUME QueueOK(queue), FreeIds # {}, NEW length \in Lengths \cup {"unknown"}, NEW review \in BOOLEAN
  PROVE  LET n == [queue EXCEPT !.items[NextId] = NewItem(queue, length, review)]
         IN /\ Good(queue, n) /\ QueueOK(n) /\ Stages(queue.items)[NextId] = "unasked"
            /\ n.items[NextId].status \in Waiting /\ NextId \in Ids
            /\ Stages(n.items) = [Stages(queue.items) EXCEPT ![NextId] = "waiting"]
<1> DEFINE i == NextId
           row == NewItem(queue, length, review)
           n == [queue EXCEPT !.items[i] = row]
<1>1. i \in Ids /\ queue.items[i].status = "absent"
  BY NextFree, QueueIs DEF FreeIds
<1>2. row \in Rows /\ row.status \in Waiting /\ RowOK(row, queue.limit)
  BY NewItemOK
<1> HIDE DEF i, row
<1>3. row.status \notin Active /\ queue.items[i].status \notin Active /\ queue.items[i].status \notin Waiting
  BY <1>1, <1>2 DEF Active, Waiting
<1>4. /\ QueueOK(n) /\ n.items = [queue.items EXCEPT ![i] = row]
      /\ Stages(n.items) = [Stages(queue.items) EXCEPT ![i] = Stage(row.status)]
      /\ n.run = queue.run /\ n.current = queue.current /\ n.gap = queue.gap /\ n.paused = queue.paused
  BY <1>1, <1>2, <1>3, RowSet
<1> HIDE DEF n
<1>5. Stage(row.status) = "waiting" /\ Stages(queue.items)[i] = "unasked"
  BY <1>1, <1>2, StageOf DEF Stages
<1>6. Asks(Stages(queue.items), Stages(n.items), i)
  BY <1>4, <1>5 DEF Asks
<1>7. Good(queue, n)
  BY <1>1, <1>4, <1>6 DEF Good, Keeps, Moves, Idle, Goes
<1>8. n.items[i] = row
  BY <1>1, <1>4, FieldsOf DEF QueueOK
<1> QED BY <1>1, <1>2, <1>4, <1>5, <1>7, <1>8 DEF i, row, n

LEMMA RequeueGood == ASSUME QueueOK(queue), NEW i \in Ids, Requeue(i) PROVE Good(queue, queue')
<1>1. FreeIds # {} /\ Emits([queue EXCEPT !.items[NextId] = NewItem(queue, items[i].length, FALSE)])
  BY DEF Requeue, HasRoom
<1>2. items[i].length \in Lengths \cup {"unknown"}
  BY FieldsOf, QueueIs DEF QueueOK, Rows
<1>3. Good(queue, [queue EXCEPT !.items[NextId] = NewItem(queue, items[i].length, FALSE)])
  BY <1>1, <1>2, AddedRow
<1> QED BY <1>1, <1>3, SetGood


LEMMA OneInRun ==
  ASSUME NEW i \in Ids, NEW rows, rows[i].status \in Waiting
  PROVE  <<i>> \in Seq(Ids) /\ RunOK(<<i>>, rows)
BY DEF RunOK

\* A run of one request: nothing starts, or that request does.
LEMMA StartOne ==
  ASSUME NEW q, QueueOK(q), NEW i \in Ids, q.items[i].status \in Waiting
  PROVE  LET n == StartRun(q, <<i>>)
         IN /\ Keeps(q, n) /\ Goes(n)
            /\ \/ Stages(n.items) = Stages(q.items)
               \/ /\ Stages(n.items) = [Stages(q.items) EXCEPT ![i] = "showing"]
                  /\ \A j \in Ids : Stages(q.items)[j] # "showing"
<1> DEFINE r == [active |-> TRUE, ids |-> <<i>>]
           m == [q EXCEPT !.run = r]
           n == Advance(m)
<1>1. <<i>> \in Seq(Ids) /\ RunOK(<<i>>, q.items) /\ r \in Runs
  BY OneInRun DEF Runs
<1>2. n = StartRun(q, <<i>>)
  BY DEF StartRun
<1>3. Keeps(q, n) /\ Goes(n)
  BY <1>1, <1>2, StartRunKeeps
<1>4. QueueOK(m) /\ m.items = q.items /\ m.run = r
  BY <1>1, WithRun
<1> HIDE DEF m
<1>5. /\ n \in Queues
      /\ \/ n = m
         \/ EndsRun(m, n)
         \/ \E h \in Ids : Begins(m, n, h)
  BY <1>4, AdvanceCases DEF QueueOK
<1> HIDE DEF n
<1>6. CASE n = m
  BY <1>2, <1>3, <1>4, <1>6
<1>7. CASE EndsRun(m, n)
  BY <1>2, <1>3, <1>4, <1>7 DEF EndsRun
<1>8. ASSUME NEW h \in Ids, Begins(m, n, h)
      PROVE  /\ Stages(n.items) = [Stages(q.items) EXCEPT ![i] = "showing"]
             /\ \A j \in Ids : Stages(q.items)[j] # "showing"
  <2>1. h = i
    <3>1. \E k \in 1 .. Len(m.run.ids) : m.run.ids[k] = h
      BY <1>8 DEF Begins
    <3> QED BY <1>4, <3>1
  <2>2. /\ Stages(n.items) = [Stages(m.items) EXCEPT ![h] = "showing"]
        /\ \A j \in Ids : Stages(m.items)[j] # "showing"
    BY <1>4, <1>5, <1>8, BeginsKeeps
  <2> QED BY <1>4, <2>1, <2>2
<1> QED BY <1>2, <1>3, <1>5, <1>6, <1>7, <1>8

LEMMA SubmitGood ==
  ASSUME QueueOK(queue), NEW length \in Lengths, NEW review \in BOOLEAN, NEW autoplay \in BOOLEAN,
         Submit(length, review, autoplay)
  PROVE  Good(queue, queue')
<1> DEFINE i == NextId
           row == NewItem(queue, length, review)
           q == [queue EXCEPT !.items[i] = row]
           starts == autoplay /\ ~review /\ row.status = "queued" /\ Idle(queue) /\ ~queuePaused
           n == StartRun(q, <<i>>)
<1>1. FreeIds # {} /\ Emits(IF starts THEN n ELSE q)
  BY DEF Submit, HasRoom
<1>2. /\ Good(queue, q) /\ QueueOK(q) /\ Stages(queue.items)[i] = "unasked"
      /\ q.items[i].status \in Waiting /\ i \in Ids
      /\ Stages(q.items) = [Stages(queue.items) EXCEPT ![i] = "waiting"]
  BY <1>1, AddedRow
<1> HIDE DEF i, q
<1>3. /\ Keeps(q, n) /\ Goes(n)
      /\ \/ Stages(n.items) = Stages(q.items)
         \/ /\ Stages(n.items) = [Stages(q.items) EXCEPT ![i] = "showing"]
            /\ \A j \in Ids : Stages(q.items)[j] # "showing"
  BY <1>2, StartOne
<1> HIDE DEF n, starts
<1>4. Good(queue, n)
  <2>1. CASE Stages(n.items) = Stages(q.items)
    <3>1. Asks(Stages(queue.items), Stages(n.items), i)
      BY <1>2, <2>1 DEF Asks
    <3> QED BY <1>2, <1>3, <3>1 DEF Good, Keeps, Moves
  <2>2. CASE /\ Stages(n.items) = [Stages(q.items) EXCEPT ![i] = "showing"]
             /\ \A j \in Ids : Stages(q.items)[j] # "showing"
    <3>1. \A j \in Ids : Stages(queue.items)[j] # "showing"
      BY <1>2, <2>2 DEF Stages
    <3>2. Stages(n.items) = [Stages(queue.items) EXCEPT ![i] = "showing"]
      BY <1>2, <2>2 DEF Stages
    <3>3. Shows(Stages(queue.items), Stages(n.items), i)
      BY <1>2, <3>1, <3>2 DEF Shows
    <3> QED BY <1>2, <1>3, <3>3 DEF Good, Keeps, Moves
  <2> QED BY <1>3, <2>1, <2>2
<1>5. Emits(q) \/ Emits(n)
  BY <1>1
<1> QED BY <1>2, <1>4, <1>5, SetGood

\* The requests a command plays.
LEMMA PlayableRun ==
  ASSUME QueueOK(queue)
  PROVE  /\ Playable(queue) \in Seq(Ids) /\ RunOK(Playable(queue), queue.items)
         /\ LET head == SubSeq(Playable(queue), 1, IF Playable(queue) = <<>> THEN 0 ELSE 1)
            IN head \in Seq(Ids) /\ RunOK(head, queue.items)
<1> DEFINE S == {i \in Ids : PlayableRow(queue.items[i])}
           p == Playable(queue)
           n == Cardinality(S)
<1>1. Placed(queue.items) /\ S \in SUBSET Ids
  BY FieldsOf DEF QueueOK, Placed, Rows
<1>2. p \in [1 .. n -> S] /\ n \in Nat /\ \A j, k \in 1 .. n : p[j] = p[k] => j = k
  BY <1>1, OrderedOnce DEF Playable
<1>3. \A i \in S : i \in Ids /\ queue.items[i].status \in Waiting
  BY DEF PlayableRow, Waiting
<1> HIDE DEF S, p, n
<1>4. p \in Seq(Ids) /\ Len(p) = n /\ DOMAIN p = 1 .. n
  <2>1. p \in [1 .. n -> Ids]
    BY <1>2, <1>3
  <2> QED BY <1>2, <2>1
<1>5. RunOK(p, queue.items)
  BY <1>2, <1>3, <1>4 DEF RunOK
<1> DEFINE m == IF p = <<>> THEN 0 ELSE 1
           head == SubSeq(p, 1, m)
<1>6. m \in Nat /\ m <= Len(p)
  BY <1>2, <1>4
<1>7. /\ head \in Seq(Ids) /\ Len(head) = m
      /\ \A k \in 1 .. m : head[k] = p[k]
  <2> HIDE DEF m
  <2> QED BY <1>4, <1>6
<1> HIDE DEF head, m
<1>8. RunOK(head, queue.items)
  <2>1. \A k \in 1 .. m : k \in 1 .. Len(p)
    BY <1>2, <1>4, <1>6
  <2> QED BY <1>5, <1>7, <2>1 DEF RunOK
<1> QED BY <1>4, <1>5, <1>7, <1>8 DEF p, head, m

LEMMA AppendRunOK ==
  ASSUME NEW q, QueueOK(q), NEW ids \in Seq(Ids), RunOK(ids, q.items)
  PROVE  AppendRun(q.run, ids) \in Runs /\ RunOK(AppendRun(q.run, ids).ids, q.items)
<1> DEFINE old == q.run.ids
           some == Ids \ ToSet(old)
           new == Only(ids, some)
           all == old \o new
<1>1. old \in Seq(Ids) /\ RunOK(old, q.items)
  BY FieldsOf DEF QueueOK
<1>2. /\ new \in Seq(Ids)
      /\ \A k \in 1 .. Len(new) : new[k] \in some /\ \E j \in 1 .. Len(ids) : ids[j] = new[k]
      /\ \A j, k \in 1 .. Len(new) : new[j] = new[k] => j = k
  <2>1. \A j, k \in 1 .. Len(ids) : ids[j] = ids[k] => j = k
    BY DEF RunOK
  <2> HIDE DEF some
  <2> QED BY <2>1, FilterPicks
<1>3. \A k \in 1 .. Len(old) : old[k] \notin some
  BY <1>1 DEF ToSet
<1> HIDE DEF old, new, some
<1>4. /\ all \in Seq(Ids) /\ Len(all) = Len(old) + Len(new)
      /\ Len(old) \in Nat /\ Len(new) \in Nat
      /\ \A k \in 1 .. Len(all) : all[k] = IF k <= Len(old) THEN old[k] ELSE new[k - Len(old)]
  BY <1>1, <1>2
<1> HIDE DEF all
<1>5. \A k \in 1 .. Len(all) : \/ k \in 1 .. Len(old) /\ all[k] = old[k]
                               \/ k - Len(old) \in 1 .. Len(new) /\ all[k] = new[k - Len(old)]
  BY <1>4
<1>6. RunOK(all, q.items)
  <2>1. \A k \in 1 .. Len(new) : q.items[new[k]].status \in Waiting
    BY <1>2 DEF RunOK
  <2>2. \A k \in 1 .. Len(all) : q.items[all[k]].status \in Waiting
    BY <1>1, <1>5, <2>1 DEF RunOK
  <2>3. ASSUME NEW j \in 1 .. Len(all), NEW k \in 1 .. Len(all), all[j] = all[k] PROVE j = k
    <3>1. CASE j \in 1 .. Len(old) /\ all[j] = old[j] /\ k \in 1 .. Len(old) /\ all[k] = old[k]
      BY <1>1, <2>3, <3>1 DEF RunOK
    <3>2. CASE /\ j - Len(old) \in 1 .. Len(new) /\ all[j] = new[j - Len(old)]
               /\ k - Len(old) \in 1 .. Len(new) /\ all[k] = new[k - Len(old)]
      <4>1. j - Len(old) = k - Len(old)
        BY <1>2, <2>3, <3>2
      <4> QED BY <1>4, <4>1
    <3>3. CASE \/ /\ j - Len(old) \in 1 .. Len(new) /\ all[j] = new[j - Len(old)]
                  /\ k \in 1 .. Len(old) /\ all[k] = old[k]
               \/ /\ k - Len(old) \in 1 .. Len(new) /\ all[k] = new[k - Len(old)]
                  /\ j \in 1 .. Len(old) /\ all[j] = old[j]
      BY <1>2, <1>3, <2>3, <3>3
    <3> QED BY <1>5, <3>1, <3>2, <3>3
  <2> QED BY <2>2, <2>3 DEF RunOK
<1>7. AppendRun(q.run, ids) = [active |-> TRUE, ids |-> all]
  BY DEF AppendRun, all, old, new, some
<1> QED BY <1>4, <1>6, <1>7 DEF Runs

LEMMA PlayRunGood ==
  ASSUME QueueOK(queue), NEW ids \in Seq(Ids), RunOK(ids, queue.items), PlayRun(ids)
  PROVE  Good(queue, queue')
<1>1. CASE Idle(queue)
  <2>1. Emits(StartRun(queue, ids))
    BY <1>1 DEF PlayRun
  <2>2. Good(queue, StartRun(queue, ids))
    BY StartRunKeeps DEF Good
  <2> QED BY <2>1, <2>2, SetGood
<1>2. CASE ~Idle(queue)
  <2> DEFINE r == AppendRun(queue.run, ids)
             n == [queue EXCEPT !.run = r]
  <2>1. Silent(n)
    BY <1>2 DEF PlayRun
  <2>2. r \in Runs /\ RunOK(r.ids, queue.items)
    BY AppendRunOK
  <2> HIDE DEF r
  <2>3. Alike(queue, n)
    BY <2>2, RunAlike
  <2>4. Good(queue, n)
    BY <2>3, AlikeGood
  <2> QED BY <2>1, <2>4, SetGood
<1> QED BY <1>1, <1>2

LEMMA PlaysGood == ASSUME QueueOK(queue), PlayNext \/ PlayAll PROVE Good(queue, queue')
BY PlayableRun, PlayRunGood DEF PlayNext, PlayAll


LEMMA FinishGood ==
  ASSUME NEW q, QueueOK(q), NEW outcome \in Outcomes, q.current.item # None, NEW gapped \in BOOLEAN
  PROVE  Good(q, Finish(q, outcome, gapped))
BY FinishKeeps DEF Good

LEMMA PausesGood == ASSUME QueueOK(queue), PauseQueue \/ ResumeQueue PROVE Good(queue, queue')
<1>1. CASE PauseQueue
  <2> DEFINE n == [queue EXCEPT !.paused = TRUE]
  <2>1. Silent(n)
    BY <1>1 DEF PauseQueue
  <2>2. QueueOK(n) /\ n.items = queue.items /\ n.paused
    BY FlagsSet
  <2> HIDE DEF n
  <2>3. Good(queue, n)
    BY <2>2 DEF Good, Keeps, Moves, Goes
  <2> QED BY <2>1, <2>3, SetGood
<1>2. CASE ResumeQueue
  <2> DEFINE n == [queue EXCEPT !.paused = FALSE]
  <2>1. Emits(Advance(n))
    BY <1>2 DEF ResumeQueue
  <2>2. QueueOK(n) /\ n.items = queue.items
    BY FlagsSet
  <2> HIDE DEF n
  <2>3. Good(queue, Advance(n))
    BY <2>2, ThenGood
  <2> QED BY <2>1, <2>3, SetGood
<1> QED BY <1>1, <1>2

\* The end of a gap, by its timer or by the operator.
LEMMA GapEnds ==
  ASSUME QueueOK(queue)
  PROVE  Good(queue, Advance([queue EXCEPT !.gap = FALSE]))
<1> DEFINE n == [queue EXCEPT !.gap = FALSE]
<1>1. QueueOK(n) /\ n.items = queue.items
  BY FlagsSet
<1> HIDE DEF n
<1>2. Good(queue, Advance(n))
  BY <1>1, ThenGood
<1> QED BY <1>2 DEF n

LEMMA TimersGood ==
  ASSUME QueueOK(queue), NEW gapped \in BOOLEAN,
         GapTimeout \/ Skip(gapped) \/ LoadTimeout(gapped) \/ EndTimeout(gapped)
  PROVE  Good(queue, queue')
<1>1. "played" \in Outcomes /\ "failed" \in Outcomes
  BY DEF Outcomes
<1>2. CASE GapTimeout
  BY <1>2, GapEnds, SetGood DEF GapTimeout
<1>3. CASE LoadTimeout(gapped) \/ EndTimeout(gapped)
  <2>1. queue.current.item # None
    BY <1>3, QueueIs DEF LoadTimeout, EndTimeout, QueueOK
  <2> QED BY <1>1, <1>3, <2>1, FinishGood, SetGood DEF LoadTimeout, EndTimeout
<1>4. CASE Skip(gapped)
  BY <1>1, <1>4, FinishGood, GapEnds, SetGood, QueueIs DEF Skip
<1> QED BY <1>2, <1>3, <1>4

\* A stop: no run is left.
LEMMA StoppedGood ==
  ASSUME NEW q, QueueOK(q), NEW gapped \in BOOLEAN
  PROVE  Good(q, Stopped(q, gapped))
<1> DEFINE q0 == [q EXCEPT !.gap = FALSE]
           q1 == [q0 EXCEPT !.run = NoRun]
<1>1. QueueOK(q0) /\ q0.items = q.items /\ q0.current = q.current
  BY FlagsSet
<1>2. q1 = [q EXCEPT !.gap = FALSE, !.run = NoRun]
  OBVIOUS
<1> HIDE DEF q0
<1>3. NoRun \in Runs /\ RunOK(NoRun.ids, q0.items)
  BY Simple
<1>4. QueueOK(q1) /\ q1.items = q.items /\ q1.current = q.current /\ q1.run = NoRun
  BY <1>1, <1>3, WithRun
<1>5. Stopped(q, gapped) = IF q.current.item # None THEN Finish(q1, "played", gapped) ELSE q1
  BY <1>2 DEF Stopped
<1> HIDE DEF q1
<1>6. CASE q.current.item # None
  <2>1. q1.current.item # None /\ "played" \in Outcomes
    BY <1>4, <1>6 DEF Outcomes
  <2>2. Keeps(q1, Finish(q1, "played", gapped)) /\ Goes(Finish(q1, "played", gapped))
    BY <1>4, <2>1, FinishKeeps
  <2> QED BY <1>4, <1>5, <1>6, <2>2, ThenGood
<1>7. CASE q.current.item = None
  <2>1. Moves(Stages(q.items), Stages(q1.items)) /\ Goes(q1)
    BY <1>4, Simple DEF Moves, Goes
  <2> QED BY <1>4, <1>5, <1>7, <2>1 DEF Good, Keeps
<1> QED BY <1>6, <1>7

LEMMA StopGood == ASSUME QueueOK(queue), Stop PROVE Good(queue, queue')
BY StoppedGood, SetGood DEF Stop

\* Requests that wait and are removed.
LEMMA RemovedRows ==
  ASSUME NEW q, QueueOK(q), NEW some \in SUBSET Ids, \A i \in some : q.items[i].status \in Waiting,
         NEW n \in Queues, n.current = q.current, n.gap = q.gap, n.paused = q.paused,
         n.limit = q.limit, n.timer = q.timer, n.run.active = q.run.active, RunOK(n.run.ids, q.items),
         \A k \in 1 .. Len(n.run.ids) : n.run.ids[k] \in Ids \ some,
         \A i \in Ids \ some : n.items[i] = q.items[i],
         \A i \in some : n.items[i].status = "removed"
  PROVE  Good(q, n)
<1>1. "removed" \notin Active /\ "removed" \notin Waiting
  BY DEF Active, Waiting
<1>2. \A j \in Ids : ActiveAt(n, j) /\ RowOK(n.items[j], n.limit)
  <2> SUFFICES ASSUME NEW j \in Ids PROVE ActiveAt(n, j) /\ RowOK(n.items[j], n.limit)
    OBVIOUS
  <2>1. CASE j \in some
    BY <1>1, <2>1 DEF QueueOK, ActiveAt, RowOK, Waiting, Active
  <2>2. CASE j \notin some
    BY <2>2 DEF QueueOK, ActiveAt
  <2> QED BY <2>1, <2>2
<1>3. QueueOK(n)
  BY <1>2 DEF QueueOK, RunOK
<1>4. Stages(n.items) = [i \in Ids |-> IF i \in some THEN "over" ELSE Stages(q.items)[i]]
  <2>1. \A i \in Ids : Stages(n.items)[i] = IF i \in some THEN "over" ELSE Stages(q.items)[i]
    BY StageOf DEF Stages
  <2> QED BY <2>1 DEF Stages
<1>5. \A i \in some : Stages(q.items)[i] = "waiting"
  BY StageOf DEF Stages
<1>6. Moves(Stages(q.items), Stages(n.items))
  <2>1. CASE some = {}
    BY <1>4, <2>1 DEF Moves, Stages
  <2>2. CASE some # {}
    BY <1>4, <1>5, <2>2 DEF Moves, Withdraws
  <2> QED BY <2>1, <2>2
<1> QED BY <1>3, <1>6 DEF Good, Keeps, Goes, Idle

LEMMA RemovedRow ==
  ASSUME NEW row \in Rows
  PROVE  LET r == [row EXCEPT !.status = "removed", !.review = FALSE, !.over = FALSE]
         IN r \in Rows /\ r.status = "removed"
BY DEF Rows, Statuses

LEMMA ClearGood == ASSUME QueueOK(queue), Clear PROVE Good(queue, queue')
<1> DEFINE some == WaitingIn(items)
           its == [i \in Ids |->
             IF i \in some
             THEN [queue.items[i] EXCEPT !.status = "removed", !.review = FALSE, !.over = FALSE]
             ELSE queue.items[i]]
           r == [queue.run EXCEPT !.ids = <<>>]
           n == [queue EXCEPT !.run = r, !.items = its]
<1>1. queue \in Queues /\ queue.items \in [Ids -> Rows] /\ queue.run \in Runs
  BY FieldsOf DEF QueueOK
<1>2. some \in SUBSET Ids /\ \A i \in some : queue.items[i].status \in Waiting
  BY QueueIs DEF WaitingIn, Waiting
<1>3. Emits(n)
  BY <1>1 DEF Clear, Queues
<1>4. its \in [Ids -> Rows] /\ \A i \in some : its[i].status = "removed"
  BY <1>1, <1>2, RemovedRow
<1>5. \A i \in Ids \ some : its[i] = queue.items[i]
  OBVIOUS
<1>6. r \in Runs /\ r.ids = <<>> /\ r.active = queue.run.active
  <2> DEFINE none == NoRun.ids
  <2>1. none \in Seq(Ids) /\ none = <<>> /\ r = [queue.run EXCEPT !.ids = none]
    BY Simple
  <2> HIDE DEF none
  <2>2. [queue.run EXCEPT !.ids = none] \in Runs
    BY <1>1, <2>1 DEF Runs
  <2> QED BY <1>1, <2>1, <2>2 DEF Runs
<1> HIDE DEF its, r, some
<1>7. /\ n \in Queues /\ n.items = its /\ n.run = r /\ n.current = queue.current
      /\ n.gap = queue.gap /\ n.paused = queue.paused /\ n.limit = queue.limit
      /\ n.timer = queue.timer
  BY <1>1, <1>4, <1>6 DEF Queues
<1> HIDE DEF n
<1>8. RunOK(n.run.ids, queue.items) /\ \A k \in 1 .. Len(n.run.ids) : n.run.ids[k] \in Ids \ some
  BY <1>6, <1>7, Simple
<1>9. Good(queue, n)
  <2>1. \A i \in some : n.items[i].status = "removed"
    BY <1>4, <1>7
  <2>2. \A i \in Ids \ some : n.items[i] = queue.items[i]
    BY <1>5, <1>7
  <2>3. n.run.active = queue.run.active
    BY <1>6, <1>7
  <2> QED BY <1>2, <1>7, <1>8, <2>1, <2>2, <2>3, RemovedRows
<1> QED BY <1>3, <1>9, SetGood

\* What is left of a run without a request.
LEMMA WithoutOK ==
  ASSUME NEW q, QueueOK(q), NEW i \in Ids
  PROVE  LET r == WithoutRunItem(q.run, i)
         IN /\ r \in Runs /\ RunOK(r.ids, q.items) /\ r.active = q.run.active
            /\ \A k \in 1 .. Len(r.ids) : r.ids[k] \in Ids \ {i}
<1> DEFINE ids == q.run.ids
           some == Ids \ {i}
           new == Only(ids, some)
<1>1. ids \in Seq(Ids) /\ RunOK(ids, q.items) /\ q.run \in Runs
  BY FieldsOf DEF QueueOK
<1>2. /\ new \in Seq(Ids)
      /\ \A k \in 1 .. Len(new) : new[k] \in some /\ \E j \in 1 .. Len(ids) : ids[j] = new[k]
      /\ \A j, k \in 1 .. Len(new) : new[j] = new[k] => j = k
  <2>1. \A j, k \in 1 .. Len(ids) : ids[j] = ids[k] => j = k
    BY <1>1 DEF RunOK
  <2> HIDE DEF some, ids
  <2> QED BY <1>1, <2>1, FilterPicks
<1>3. RunOK(new, q.items)
  BY <1>1, <1>2 DEF RunOK
<1>4. WithoutRunItem(q.run, i) = [q.run EXCEPT !.ids = new]
  BY DEF WithoutRunItem
<1> HIDE DEF new
<1> QED BY <1>1, <1>2, <1>3, <1>4 DEF Runs

LEMMA RemoveGood == ASSUME QueueOK(queue), NEW i \in Ids, RemoveItem(i) PROVE Good(queue, queue')
<1> DEFINE row == [queue.items[i] EXCEPT !.status = "removed", !.review = FALSE, !.over = FALSE]
           its == [queue.items EXCEPT ![i] = row]
           r == WithoutRunItem(queue.run, i)
           n == [queue EXCEPT !.items = its, !.run = r]
<1>1. queue \in Queues /\ queue.items \in [Ids -> Rows]
  BY FieldsOf DEF QueueOK
<1>2. i \in WaitingIn(items) /\ Emits(n)
  BY <1>1 DEF RemoveItem, Queues
<1>3. queue.items[i].status \in Waiting
  BY <1>2, QueueIs DEF WaitingIn, Waiting
<1>4. row \in Rows /\ row.status = "removed"
  BY <1>1, RemovedRow
<1>5. /\ r \in Runs /\ RunOK(r.ids, queue.items) /\ r.active = queue.run.active
      /\ \A k \in 1 .. Len(r.ids) : r.ids[k] \in Ids \ {i}
  BY WithoutOK
<1> HIDE DEF row, r
<1>6. its \in [Ids -> Rows] /\ its[i].status = "removed" /\ \A j \in Ids \ {i} : its[j] = queue.items[j]
  BY <1>1, <1>4
<1> HIDE DEF its
<1>7. /\ n \in Queues /\ n.items = its /\ n.run = r /\ n.current = queue.current
      /\ n.gap = queue.gap /\ n.paused = queue.paused /\ n.limit = queue.limit
      /\ n.timer = queue.timer
  BY <1>1, <1>5, <1>6 DEF Queues
<1> HIDE DEF n
<1>8. Good(queue, n)
  <2> DEFINE some == {i}
  <2>1. some \in SUBSET Ids /\ \A j \in some : queue.items[j].status \in Waiting /\ n.items[j].status = "removed"
    BY <1>3, <1>6, <1>7
  <2>2. \A j \in Ids \ some : n.items[j] = queue.items[j]
    BY <1>6, <1>7
  <2>3. \A k \in 1 .. Len(n.run.ids) : n.run.ids[k] \in Ids \ some
    BY <1>5, <1>7
  <2>4. RunOK(n.run.ids, queue.items) /\ n.run.active = queue.run.active
    BY <1>5, <1>7
  <2> HIDE DEF some
  <2>5. \A j \in some : queue.items[j].status \in Waiting
    BY <2>1
  <2>6. \A j \in some : n.items[j].status = "removed"
    BY <2>1
  <2>7. some \in SUBSET Ids
    BY <2>1
  <2> QED BY <1>7, <2>2, <2>3, <2>4, <2>5, <2>6, <2>7, RemovedRows
<1> QED BY <1>2, <1>8, SetGood


\* A request that waits gets another row, and starts a run if nothing plays.
LEMMA ReleasedRow ==
  ASSUME QueueOK(queue), NEW i \in Ids, queue.items[i].status \in Waiting,
         NEW row \in Rows, row.status \in Waiting, RowOK(row, queue.limit)
  PROVE  LET q == [queue EXCEPT !.items[i] = row]
         IN Good(queue, q) /\ Good(queue, StartRun(q, <<i>>))
<1> DEFINE q == [queue EXCEPT !.items[i] = row]
<1>1. /\ row.status \notin Active /\ queue.items[i].status \notin Active
      /\ Stage(row.status) = Stage(queue.items[i].status)
  BY StageOf DEF Waiting, Active
<1>2. Alike(queue, q)
  BY <1>1, RowSet
<1>6. q.items = [queue.items EXCEPT ![i] = row]
  BY <1>1, RowSet
<1> HIDE DEF q
<1>3. q.items[i].status \in Waiting /\ QueueOK(q)
  BY <1>2, <1>6, FieldsOf DEF QueueOK, Alike
<1>4. Keeps(q, StartRun(q, <<i>>)) /\ Goes(StartRun(q, <<i>>))
  BY <1>3, OneInRun, StartRunKeeps
<1>5. Good(queue, StartRun(q, <<i>>))
  BY <1>2, <1>3, <1>4, ThenGood DEF Alike
<1> QED BY <1>2, <1>5, AlikeGood DEF q

LEMMA PlayGood == ASSUME QueueOK(queue), NEW i \in Ids, Play(i) PROVE Good(queue, queue')
<1> DEFINE old == queue.items[i]
           over == HoldReason(queue, items[i].length, items[i].overridden)
           row == [old EXCEPT !.review = FALSE, !.over = over, !.status = IF over THEN "held" ELSE "queued"]
           q == [queue EXCEPT !.items[i] = row]
<1>1. queue \in Queues /\ old \in Rows /\ old = items[i] /\ old.status \in Waiting
  BY FieldsOf, QueueIs DEF QueueOK, Play, WaitingIn, Waiting
<1>2. Emits(IF ~over /\ Idle(queue) THEN StartRun(q, <<i>>) ELSE q)
  BY DEF Play
<1>3. /\ over \in BOOLEAN
      /\ ~over => old.overridden \/ old.length # "long" \/ queue.limit # "low"
  BY <1>1 DEF HoldReason, Rows
<1> HIDE DEF over, old
<1>4. /\ row \in Rows /\ row.status = (IF over THEN "held" ELSE "queued") /\ row.over = over
      /\ row.review = FALSE /\ row.overridden = old.overridden /\ row.length = old.length
  BY <1>1, <1>3 DEF Rows, Statuses, Waiting
<1> HIDE DEF row
<1>5. row.status \in Waiting /\ RowOK(row, queue.limit)
  BY <1>3, <1>4 DEF Waiting, Active, RowOK
<1>6. Good(queue, q) /\ Good(queue, StartRun(q, <<i>>))
  BY <1>1, <1>4, <1>5, ReleasedRow DEF old
<1> HIDE DEF q
<1>7. Emits(q) \/ Emits(StartRun(q, <<i>>))
  BY <1>2
<1> QED BY <1>6, <1>7, SetGood

LEMMA PlayAnywayGood == ASSUME QueueOK(queue), NEW i \in Ids, PlayAnyway(i) PROVE Good(queue, queue')
<1> DEFINE old == queue.items[i]
           row == [old EXCEPT !.status = "queued", !.over = FALSE, !.overridden = TRUE]
           q == [queue EXCEPT !.items[i] = row]
<1>1. queue \in Queues /\ old \in Rows /\ old.status \in Waiting /\ old.review = FALSE
  BY FieldsOf, QueueIs DEF QueueOK, PlayAnyway, WaitingIn, Waiting, Rows
<1>2. Emits(IF Idle(queue) THEN StartRun(q, <<i>>) ELSE q)
  BY DEF PlayAnyway
<1> HIDE DEF old
<1>3. /\ row \in Rows /\ row.status = "queued" /\ row.over = FALSE
      /\ row.review = FALSE /\ row.overridden = TRUE
  BY <1>1 DEF Rows, Statuses, Waiting
<1> HIDE DEF row
<1>4. row.status \in Waiting /\ RowOK(row, queue.limit)
  BY <1>3 DEF Waiting, Active, RowOK
<1>5. Good(queue, q) /\ Good(queue, StartRun(q, <<i>>))
  BY <1>1, <1>3, <1>4, ReleasedRow DEF old
<1> HIDE DEF q
<1>6. Emits(q) \/ Emits(StartRun(q, <<i>>))
  BY <1>2
<1> QED BY <1>5, <1>6, SetGood

LEMMA AlikeTwice ==
  ASSUME NEW q, NEW m, Alike(q, m), NEW n, Alike(m, n) PROVE Alike(q, n)
BY DEF Alike

\* The calls on the current video that change its clock.
LEMMA ClocksGood == ASSUME QueueOK(queue), PauseVideo \/ ResumeVideo \/ Seek PROVE Good(queue, queue')
<1> DEFINE c == queue.current
           item == c.item
           phased(phase) == [c EXCEPT !.phase = phase]
<1>1. queue \in Queues /\ c \in Clocks /\ queue.current = current
  BY FieldsOf, QueueIs DEF QueueOK
<1>2. \A phase \in {"playing", "paused"} : phased(phase) \in Clocks /\ phased(phase).item = item
  BY <1>1 DEF Clocks
<1>3. CASE PauseVideo
  <2> DEFINE n == [queue EXCEPT !.timer = "none", !.current = phased("paused"),
                                !.items = WithStatus(@, item, "paused")]
  <2>1. Emits(n) /\ item # None
    BY <1>1, <1>3 DEF PauseVideo, WithStatus
  <2>2. "paused" \in Active
    BY DEF Active
  <2>3. Alike(queue, n)
    <3> HIDE DEF phased
    <3> QED BY <1>2, <2>1, <2>2, ClockSet
  <2> HIDE DEF n
  <2>4. Good(queue, n)
    BY <2>3, AlikeGood
  <2> QED BY <2>1, <2>4, SetGood
<1>4. CASE ResumeVideo
  <2> DEFINE n == [queue EXCEPT !.current = phased("playing"), !.items = WithStatus(@, item, "playing")]
             m == [queue EXCEPT !.timer = queue.timer, !.current = phased("playing"),
                                !.items = WithStatus(@, item, "playing")]
  <2>1. Emits(ScheduleEnd(n)) /\ item # None
    <3>1. item # None
      BY <1>1, <1>4 DEF ResumeVideo, QueueOK, Nobody
    <3> QED BY <1>1, <1>4, <3>1 DEF ResumeVideo, WithStatus
  <2>2. "playing" \in Active /\ queue.timer \in {"none", "load", "end"}
    BY <1>1, FieldsOf DEF Active
  <2>3. Alike(queue, m)
    <3> HIDE DEF phased
    <3> QED BY <1>2, <2>1, <2>2, ClockSet
  <2>4. n = m
    BY <1>1 DEF Queues
  <2> HIDE DEF n, m
  <2>5. Alike(n, ScheduleEnd(n))
    BY <2>3, <2>4, EndScheduled DEF Alike
  <2>6. Good(queue, ScheduleEnd(n))
    BY <2>3, <2>4, <2>5, AlikeTwice, AlikeGood
  <2> QED BY <2>1, <2>6, SetGood
<1>5. CASE Seek
  <2> DEFINE d == [c EXCEPT !.seeks = @ + 1]
             q == [queue EXCEPT !.current = d]
  <2>1. item # None /\ Emits(IF current.phase = "playing" THEN ScheduleEnd(q) ELSE q)
    BY <1>1, <1>5 DEF Seek
  <2>2. d \in Clocks /\ d.item = item
    BY <1>1 DEF Clocks
  <2> HIDE DEF d
  <2>3. Alike(queue, q)
    <3> PICK status \in Active : TRUE
      BY DEF Active
    <3> PICK t \in {"none", "load", "end"} : TRUE
      OBVIOUS
    <3> QED BY <2>1, <2>2, ClockSet
  <2> HIDE DEF q
  <2>4. Good(queue, q) /\ QueueOK(q)
    BY <2>3, AlikeGood DEF Alike
  <2>5. Good(queue, ScheduleEnd(q))
    BY <2>3, <2>4, EndScheduled, AlikeTwice, AlikeGood
  <2>6. Emits(q) \/ Emits(ScheduleEnd(q))
    BY <2>1
  <2> QED BY <2>4, <2>5, <2>6, SetGood
<1> QED BY <1>3, <1>4, <1>5


LEMMA EndGood ==
  ASSUME NEW q, NEW n, Good(q, n)
  PROVE  Good(q, ScheduleEnd(n))
BY EndScheduled DEF Good, Keeps, Alike, Goes

LEMMA ReportsGood ==
  ASSUME QueueOK(queue), NEW i \in Ids, NEW length \in Lengths \cup {"unknown"}, NEW gapped \in BOOLEAN,
         NEW outcome \in {"played", "failed"},
         \/ ReportStarted(i, length, gapped) \/ ReportLength(i, length, gapped)
         \/ ReportOver(i, outcome, gapped)
  PROVE  Good(queue, queue')
<1> DEFINE c == queue.current
<1>1. queue \in Queues /\ c \in Clocks /\ c = current /\ c.item # None
  BY FieldsOf, QueueIs DEF QueueOK, ReportStarted, ReportLength, ReportOver
<1>2. CASE ReportStarted(i, length, gapped) /\ c.phase # "loading"
  <2> DEFINE d == [c EXCEPT !.begun = TRUE]
             n == [queue EXCEPT !.current = d]
  <2>1. Silent(n)
    BY <1>1, <1>2 DEF ReportStarted
  <2>2. d \in Clocks /\ d.item = c.item /\ "paused" \in Active
    BY <1>1 DEF Clocks, Active
  <2> HIDE DEF d
  <2>3. Alike(queue, n)
    BY <1>1, <2>2, ClockSet
  <2> HIDE DEF n
  <2>4. Good(queue, n)
    BY <2>3, AlikeGood
  <2> QED BY <2>1, <2>4, SetGood
<1>3. CASE ReportStarted(i, length, gapped) /\ c.phase = "loading"
  <2> DEFINE d == [c EXCEPT !.phase = "playing", !.begun = TRUE]
             q == [queue EXCEPT !.current = d]
             n == Learn(q, length, gapped)
  <2>1. Emits(IF Cuts(q, length) THEN n ELSE ScheduleEnd(n))
    <3>1. q = [queue EXCEPT !.current.phase = "playing", !.current.begun = TRUE]
      BY <1>1 DEF Queues
    <3> QED BY <1>1, <1>3, <3>1 DEF ReportStarted
  <2>2. d \in Clocks /\ d.item = c.item /\ "paused" \in Active
    BY <1>1 DEF Clocks, Active
  <2> HIDE DEF d
  <2>3. Alike(queue, q)
    BY <1>1, <2>2, ClockSet
  <2> HIDE DEF q
  <2>4. Good(q, n)
    BY <2>3, LearnKeeps DEF Alike
  <2>5. Good(queue, n)
    BY <2>3, <2>4, AlikeGood
  <2>6. Good(queue, ScheduleEnd(n))
    BY <2>5, EndGood
  <2> HIDE DEF n
  <2>7. Emits(n) \/ Emits(ScheduleEnd(n))
    BY <2>1
  <2> QED BY <2>5, <2>6, <2>7, SetGood
<1>4. CASE ReportLength(i, length, gapped)
  <2> DEFINE n == Learn(queue, length, gapped)
  <2>1. Emits(n) \/ Silent(n) \/ Silent(ScheduleEnd(n))
    BY <1>4 DEF ReportLength
  <2>2. Good(queue, n)
    BY LearnKeeps
  <2> HIDE DEF n
  <2>3. Good(queue, ScheduleEnd(n))
    BY <2>2, EndGood
  <2> QED BY <2>1, <2>2, <2>3, SetGood
<1>5. CASE ReportOver(i, outcome, gapped)
  <2>1. Emits(Finish(queue, outcome, gapped)) /\ outcome \in Outcomes
    BY <1>5 DEF ReportOver, Outcomes
  <2> QED BY <1>1, <2>1, FinishGood, SetGood
<1> QED BY <1>2, <1>3, <1>4, <1>5

\* What the provider says of a video.
LEMMA MetadataGood ==
  ASSUME QueueOK(queue), NEW i \in Ids, NEW length \in Lengths, NEW gapped \in BOOLEAN,
         ApplyMetadata(i, length, gapped)
  PROVE  Good(queue, queue')
<1> DEFINE old == queue.items[i]
           n == Learn(queue, length, gapped)
<1>1. /\ queue \in Queues /\ old \in Rows /\ old = items[i] /\ queue.current = current
      /\ i \in ActiveIn(items) /\ RowOK(old, queue.limit)
  BY FieldsOf, QueueIs DEF QueueOK, ApplyMetadata
<1>2. CASE i = current.item
  <2>1. Emits(n) \/ Emits(queue) \/ Emits(ScheduleEnd(n)) \/ Emits(ScheduleEnd(queue))
    BY <1>2 DEF ApplyMetadata
  <2>2. Good(queue, n) /\ Alike(queue, queue)
    BY LearnKeeps DEF Alike
  <2> HIDE DEF n
  <2>3. Good(queue, queue)
    BY <2>2, AlikeGood
  <2>4. Good(queue, ScheduleEnd(n)) /\ Good(queue, ScheduleEnd(queue))
    BY <2>2, <2>3, EndGood
  <2> QED BY <2>1, <2>2, <2>3, <2>4, SetGood
<1>3. CASE i # current.item
  <2> DEFINE known == IF items[i].length = "unknown" THEN length ELSE items[i].length
             over == HoldReason(queue, known, FALSE)
             row1 == [old EXCEPT !.length = known]
             row2 == [old EXCEPT !.length = known, !.over = over,
                                 !.status = IF over \/ items[i].review THEN "held" ELSE "queued"]
             row == IF items[i].overridden THEN row1 ELSE row2
             q == [queue EXCEPT !.items[i] = row]
  <2>1. Emits(q)
    BY <1>1, <1>3 DEF ApplyMetadata
  <2>2. old.status \notin Active
    BY <1>1, <1>3 DEF QueueOK, ActiveAt
  <2>3. old.status \in Waiting
    BY <1>1, <2>2 DEF ActiveIn, Waiting, Active
  <2>4. known \in Lengths \cup {"unknown"} /\ over \in BOOLEAN
    BY <1>1 DEF Rows, HoldReason
  <2>5. ~over => known # "long" \/ queue.limit # "low"
    BY DEF HoldReason
  <2> HIDE DEF known, over
  <2>6. CASE items[i].overridden
    <3>1. row = row1
      BY <2>6
    <3> HIDE DEF old
    <3>2. /\ row1 \in Rows /\ row1.status = old.status /\ row1.over = old.over
          /\ row1.review = old.review /\ row1.overridden
      BY <1>1, <2>4, <2>6 DEF Rows
    <3> QED BY <1>1, <2>3, <3>1, <3>2, <2>1, ReleasedRow, SetGood DEF RowOK, old
  <2>7. CASE ~items[i].overridden
    <3>1. row = row2
      BY <2>7
    <3> HIDE DEF old
    <3>2. /\ row2 \in Rows /\ row2.status = (IF over \/ old.review THEN "held" ELSE "queued")
          /\ row2.over = over /\ row2.review = old.review /\ row2.length = known
      BY <1>1, <2>4, <2>7 DEF Rows, Statuses, Waiting
    <3> HIDE DEF row1, row2
    <3>3. row \in Rows /\ row.status \in Waiting /\ RowOK(row, queue.limit)
      BY <1>1, <2>5, <3>1, <3>2 DEF RowOK, Waiting, Active, Rows
    <3> HIDE DEF row
    <3>4. Good(queue, q)
      BY <2>3, <3>3, ReleasedRow DEF old
    <3> QED BY <2>1, <3>4, SetGood
  <2> QED BY <2>6, <2>7
<1> QED BY <1>2, <1>3


\* What is left to check of the requests that wait once the limit is another one.
Loose(q) ==
  /\ q \in Queues
  /\ q.current.item = None => q.current = Nobody /\ q.timer = "none"
  /\ RunOK(q.run.ids, q.items)
  /\ \A i \in Ids : /\ ActiveAt(q, i)
                    /\ q.items[i].status \in {"queued"} \cup Active => ~q.items[i].over /\ ~q.items[i].review

LEMMA ReevaluateKeeps ==
  ASSUME NEW q, Loose(q)
  PROVE  LET n == Reevaluate(q)
         IN /\ QueueOK(n) /\ Stages(n.items) = Stages(q.items)
            /\ n.run = q.run /\ n.current = q.current /\ n.gap = q.gap /\ n.paused = q.paused
<1> DEFINE over(i) == HoldReason(q, q.items[i].length, FALSE)
           stays(i) == \/ q.items[i].overridden \/ i \notin WaitingIn(q.items)
                       \/ over(i) = q.items[i].over
           anew(i) == [q.items[i] EXCEPT !.over = over(i),
                                        !.status = IF over(i) \/ q.items[i].review THEN "held" ELSE "queued"]
           its == [i \in Ids |-> IF stays(i) THEN q.items[i] ELSE anew(i)]
           n == [q EXCEPT !.items = its]
<1>1. q \in Queues /\ q.items \in [Ids -> Rows] /\ \A i \in Ids : q.items[i] \in Rows
  BY FieldsOf DEF Loose
<1>2. n = Reevaluate(q)
  BY DEF Reevaluate
<1>3. \A i \in Ids : /\ over(i) \in BOOLEAN
                     /\ over(i) <=> (q.items[i].length = "long" /\ q.limit = "low")
  BY DEF HoldReason
<1>4. \A i \in Ids : i \in WaitingIn(q.items) <=> q.items[i].status \in Waiting
  BY DEF WaitingIn, Waiting
<1> HIDE DEF over
<1>5. ASSUME NEW i \in Ids
      PROVE  /\ anew(i) \in Rows
             /\ anew(i).over = over(i)
             /\ anew(i).status = IF over(i) \/ q.items[i].review THEN "held" ELSE "queued"
             /\ anew(i).review = q.items[i].review
             /\ anew(i).length = q.items[i].length
  <2> DEFINE row == q.items[i]
             status == IF over(i) \/ row.review THEN "held" ELSE "queued"
  <2>1. row \in Rows /\ over(i) \in BOOLEAN /\ status \in Statuses
    BY <1>1, <1>3 DEF Statuses, Waiting
  <2>2. anew(i) = [row EXCEPT !.over = over(i), !.status = status]
    OBVIOUS
  <2> HIDE DEF row, status, anew
  <2>3. anew(i) \in Rows /\ anew(i).over = over(i) /\ anew(i).status = status
        /\ anew(i).review = row.review /\ anew(i).length = row.length
    BY <2>1, <2>2 DEF Rows
  <2> QED BY <2>3 DEF row, status
<1> HIDE DEF anew
<1>6. ASSUME NEW i \in Ids
      PROVE  /\ its[i] \in Rows /\ RowOK(its[i], q.limit)
             /\ Stage(its[i].status) = Stage(q.items[i].status)
             /\ its[i].status \in Active <=> q.items[i].status \in Active
             /\ its[i].status \in Waiting <=> q.items[i].status \in Waiting
  <2>1. q.items[i] \in Rows
        /\ (q.items[i].status \in {"queued"} \cup Active => ~q.items[i].over /\ ~q.items[i].review)
    BY <1>1 DEF Loose
  <2>2. CASE stays(i)
    <3>1. its[i] = q.items[i]
      BY <2>2
    <3>2. q.items[i].status = "queued" =>
            q.items[i].overridden \/ q.items[i].length # "long" \/ q.limit # "low"
      BY <1>3, <1>4, <2>1, <2>2 DEF Waiting
    <3> QED BY <2>1, <3>1, <3>2 DEF RowOK
  <2>3. CASE ~stays(i)
    <3>1. its[i] = anew(i) /\ q.items[i].status \in Waiting
      BY <1>4, <2>3
    <3> HIDE DEF its
    <3>2. its[i].status \in Waiting /\ RowOK(its[i], q.limit)
      BY <1>1, <1>3, <1>5, <3>1 DEF Waiting, Active, RowOK, Rows
    <3>3. its[i].status \notin Active /\ q.items[i].status \notin Active
      BY <3>1, <3>2 DEF Waiting, Active
    <3> QED BY <1>5, <3>1, <3>2, <3>3, StageOf
  <2> QED BY <2>2, <2>3
<1>7. its \in [Ids -> Rows]
  BY <1>6
<1> HIDE DEF its
<1>8. /\ n \in Queues /\ n.items = its /\ n.run = q.run /\ n.current = q.current
      /\ n.gap = q.gap /\ n.paused = q.paused /\ n.limit = q.limit /\ n.timer = q.timer
  BY <1>1, <1>7 DEF Queues
<1> HIDE DEF n
<1>9. QueueOK(n)
  <2>1. \A i \in Ids : ActiveAt(n, i) /\ RowOK(n.items[i], n.limit)
    BY <1>6, <1>8 DEF Loose, ActiveAt
  <2>2. q.run.ids \in Seq(Ids) /\ RunOK(q.run.ids, q.items)
    BY <1>1, FieldsOf DEF Loose
  <2>3. RunOK(n.run.ids, n.items)
    BY <1>6, <1>8, <2>2 DEF RunOK
  <2> QED BY <1>8, <2>1, <2>3 DEF QueueOK, Loose
<1>10. Stages(n.items) = Stages(q.items)
  BY <1>6, <1>8 DEF Stages
<1> QED BY <1>2, <1>8, <1>9, <1>10

LEMMA SaveConfigGood ==
  ASSUME QueueOK(queue), NEW most \in Limits, NEW enabled \in BOOLEAN, SaveConfig(most, enabled)
  PROVE  Good(queue, queue')
<1> DEFINE m == [queue EXCEPT !.limit = most]
           q == Reevaluate(m)
<1>1. queue \in Queues
  BY DEF QueueOK
<1>2. /\ m \in Queues /\ m.items = queue.items /\ m.run = queue.run /\ m.current = queue.current
      /\ m.gap = queue.gap /\ m.paused = queue.paused /\ m.timer = queue.timer
  BY <1>1 DEF Queues
<1>3. Emits(q) \/ Emits(Stopped(q, TRUE))
  BY DEF SaveConfig
<1> HIDE DEF m
<1>4. Loose(m)
  BY <1>2 DEF QueueOK, Loose, ActiveAt, RowOK
<1>5. Alike(queue, q)
  BY <1>2, <1>4, ReevaluateKeeps DEF Alike
<1> HIDE DEF q
<1>6. Good(queue, q)
  BY <1>5, AlikeGood
<1>7. Good(q, Stopped(q, TRUE))
  BY <1>5, StoppedGood DEF Alike
<1>8. Good(queue, Stopped(q, TRUE))
  BY <1>5, <1>7, AlikeGood
<1> QED BY <1>3, <1>6, <1>8, SetGood


LEMMA RankIsInt ==
  ASSUME NEW order, NEW n \in Nat, DOMAIN order = 1 .. n, NEW i
  PROVE  RankIn(order, i) \in Int
<1>1. CASE \E k \in DOMAIN order : order[k] = i
  <2>1. RankIn(order, i) \in DOMAIN order
    BY <1>1 DEF RankIn
  <2> QED BY <2>1
<1>2. CASE ~\E k \in DOMAIN order : order[k] = i
  BY <1>2 DEF RankIn
<1> QED BY <1>1, <1>2

LEMMA FirstIsInt ==
  ASSUME NEW rows, Placed(rows), NEW S \in SUBSET Ids, S # {}
  PROVE  (CHOOSE p \in {rows[i].position : i \in S} : \A i \in S : p <= rows[i].position) \in Int
<1> DEFINE first == CHOOSE p \in {rows[i].position : i \in S} : \A i \in S : p <= rows[i].position
<1>1. PICK i \in S : \A j \in S : rows[i].position <= rows[j].position
  BY FirstAndLast
<1>2. first \in {rows[j].position : j \in S}
  BY <1>1
<1> HIDE DEF first
<1>3. first \in Int
  BY <1>2 DEF Placed
<1> QED BY <1>3 DEF first

\* The process starts again: the request that was shown waits, and its run is over.
LEMMA RecoverKeeps ==
  ASSUME QueueOK(queue)
  PROVE  LET q == Recover([queue EXCEPT !.current = Nobody, !.gap = FALSE, !.timer = "none"])
         IN Loose(q) /\ Moves(Stages(queue.items), Stages(q.items))
<1> DEFINE q == [queue EXCEPT !.current = Nobody, !.gap = FALSE, !.timer = "none"]
           active == {i \in Ids : q.items[i].status \in Active}
           cut == Ordered(q.items, active)
           waiting == WaitingIn(q.items)
           first == IF waiting = {} THEN 0
                    ELSE CHOOSE p \in {q.items[i].position : i \in waiting} :
                           \A i \in waiting : p <= q.items[i].position
           place(i) == first - Len(cut) + RankIn(cut, i) - 1
           its == [i \in Ids |-> IF i \notin ToSet(cut) THEN q.items[i]
                                 ELSE [q.items[i] EXCEPT !.status = "queued", !.position = place(i)]]
           m == [q EXCEPT !.run = NoRun, !.items = its]
           n == Recover(q)
<1>1. queue \in Queues /\ queue.items \in [Ids -> Rows]
  BY FieldsOf DEF QueueOK
<1>2. /\ q \in Queues /\ q.items = queue.items /\ q.run = queue.run /\ q.current = Nobody
      /\ q.timer = "none" /\ q.limit = queue.limit
  BY <1>1, Simple DEF Queues
<1>3. n = IF cut = <<>> THEN q ELSE m
  BY DEF Recover, Active
<1> HIDE DEF q
<1>4. Placed(q.items) /\ active \in SUBSET Ids /\ waiting \in SUBSET Ids
  BY <1>1, <1>2 DEF Placed, Rows, WaitingIn
<1>5. /\ cut \in [1 .. Cardinality(active) -> active] /\ Cardinality(active) \in Nat
      /\ \A i \in active : \E k \in 1 .. Cardinality(active) : cut[k] = i
  <2> HIDE DEF active
  <2> QED BY <1>4, OrderedOnce
<1>6. first \in Int
  <2> HIDE DEF waiting
  <2> QED BY <1>4, FirstIsInt
<1> DEFINE k0 == Cardinality(active)
<1>7. \A i \in active : queue.items[i].status \in Active
  BY <1>2
<1>8. \A i \in Ids \ active : queue.items[i].status \notin Active
  BY <1>2
<1> HIDE DEF active, cut, waiting, first, n
<1>9. DOMAIN cut = 1 .. k0 /\ Len(cut) = k0 /\ k0 \in Nat /\ ToSet(cut) = active
  <2>1. DOMAIN cut = 1 .. k0 /\ Len(cut) = k0 /\ k0 \in Nat
    BY <1>5
  <2> QED BY <1>5, <2>1 DEF ToSet
<1>10. \A i \in Ids : place(i) \in Int
  <2>1. \A i \in Ids : RankIn(cut, i) \in Int
    BY <1>9, RankIsInt
  <2> QED BY <1>6, <1>9, <2>1
<1> HIDE DEF place, k0
<1>11. CASE cut = <<>>
  <2>1. active = {}
    BY <1>9, <1>11 DEF ToSet
  <2>2. \A i \in Ids : ActiveAt(q, i)
    BY <1>2, <1>8, <2>1, Simple, IdsFinite DEF ActiveAt
  <2>3. Loose(q)
    BY <1>2, <2>2 DEF QueueOK, Loose, RowOK
  <2> QED BY <1>2, <1>3, <1>11, <2>3 DEF Moves, n, q
<1>12. CASE cut # <<>>
  <2>1. n = m
    BY <1>3, <1>12
  <2>2. active # {}
    BY <1>5, <1>9, <1>12
  <2> DEFINE h == queue.current.item
  <2>3. active = {h} /\ h \in Ids
    <3>1. \A i \in active : i \in Ids /\ h = i
      BY <1>4, <1>7 DEF QueueOK, ActiveAt
    <3> QED BY <2>2, <3>1
  <2> HIDE DEF h
  <2> DEFINE old == q.items[h]
             row == [old EXCEPT !.status = "queued", !.position = place(h)]
  <2>4. /\ its[h] = row
        /\ \A i \in Ids \ {h} : its[i] = q.items[i]
    BY <1>9, <2>3
  <2>5. old \in Rows /\ old.status \in Active /\ ~old.over /\ ~old.review
    BY <1>1, <1>2, <1>7, <2>3 DEF QueueOK, RowOK
  <2>6. place(h) \in Int
    BY <1>10, <2>3
  <2> HIDE DEF old
  <2>7. row \in Rows /\ row.status = "queued" /\ ~row.over /\ ~row.review
    BY <2>5, <2>6 DEF Rows, Statuses, Waiting
  <2> HIDE DEF row
  <2>8. its \in [Ids -> Rows]
    <3>1. \A i \in Ids : its[i] \in Rows
      BY <1>1, <1>2, <2>4, <2>7
    <3> QED BY <3>1
  <2> HIDE DEF its
  <2>9. /\ m \in Queues /\ m.items = its /\ m.run = NoRun /\ m.current = Nobody /\ m.timer = "none"
    BY <1>2, <2>8, Simple DEF Queues
  <2> HIDE DEF m
  <2>10. ASSUME NEW i \in Ids
         PROVE  /\ ActiveAt(m, i)
                /\ m.items[i].status \in {"queued"} \cup Active => ~m.items[i].over /\ ~m.items[i].review
    <3>1. CASE i = h
      BY <2>4, <2>7, <2>9, <3>1, Simple, IdsFinite DEF ActiveAt, Active
    <3>2. CASE i # h
      <4>1. its[i] = queue.items[i] /\ queue.items[i].status \notin Active
        BY <1>2, <1>8, <2>3, <2>4, <3>2
      <4> QED BY <2>9, <4>1, Simple, IdsFinite DEF ActiveAt, QueueOK, RowOK
    <3> QED BY <3>1, <3>2
  <2>11. Loose(m)
    BY <2>9, <2>10, Simple DEF Loose
  <2>12. Stages(queue.items)[h] = "showing" /\ Stage(row.status) = "waiting"
    BY <1>7, <2>3, <2>7, StageOf DEF Stages, Waiting
  <2>13. Stages(m.items) = [Stages(queue.items) EXCEPT ![h] = "waiting"]
    <3>1. \A i \in Ids : Stages(m.items)[i] = [Stages(queue.items) EXCEPT ![h] = "waiting"][i]
      BY <1>2, <2>4, <2>9, <2>12 DEF Stages
    <3> QED BY <3>1 DEF Stages
  <2>14. Leaves(Stages(queue.items), Stages(m.items), h)
    BY <2>12, <2>13 DEF Leaves
  <2> QED BY <2>1, <2>3, <2>11, <2>14 DEF Moves, n, q
<1> QED BY <1>11, <1>12

LEMMA RestartKeeps == ASSUME QueueOK(queue), Restart PROVE Keeps(queue, queue')
<1> DEFINE q == Recover([queue EXCEPT !.current = Nobody, !.gap = FALSE, !.timer = "none"])
           n == Reevaluate(q)
<1>1. Set(n)
  BY DEF Restart
<1>2. Loose(q) /\ Moves(Stages(queue.items), Stages(q.items))
  BY RecoverKeeps
<1> HIDE DEF q
<1>3. QueueOK(n) /\ Stages(n.items) = Stages(q.items)
  BY <1>2, ReevaluateKeeps
<1> HIDE DEF n
<1>4. queue' = n
  BY <1>1, <1>3, SetTo DEF QueueOK
<1> QED BY <1>2, <1>3, <1>4 DEF Keeps


\* A stable sort keeps every entry once.
LEMMA SortedRun ==
  ASSUME NEW s \in Seq(Ids), NEW order, NEW n \in Nat, DOMAIN order = 1 .. n, NEW rows, RunOK(s, rows)
  PROVE  SortedBy(s, order) \in Seq(Ids) /\ RunOK(SortedBy(s, order), rows)
<1> DEFINE D == 1 .. Len(s)
           rank == [k \in D |-> RankIn(order, s[k])]
           earlier == {p \in D \X D :
                         rank[p[1]] < rank[p[2]] \/ (rank[p[1]] = rank[p[2]] /\ p[1] < p[2])}
           turn == Arrange(D, earlier)
           t == [k \in D |-> s[turn[k]]]
<1>1. DOMAIN s = D /\ Len(s) \in Nat /\ \A k \in D : s[k] \in Ids
  OBVIOUS
<1>2. SortedBy(s, order) = t
  BY <1>1 DEF SortedBy
<1>3. \A k \in D : rank[k] \in Int
  BY RankIsInt
<1>4. IsFiniteSet(D) /\ Cardinality(D) = Len(s)
  <2>1. \A m \in Nat : IsFiniteSet(1 .. m) /\ Cardinality(1 .. m) = m
    BY FS_Interval
  <2> QED BY <1>1, <2>1
<1>5. Orders(earlier, D)
  <2>1. \A j, k \in D : <<j, k>> \in earlier <=> rank[j] < rank[k] \/ (rank[j] = rank[k] /\ j < k)
    OBVIOUS
  <2>2. \A j \in D : j \in Int
    OBVIOUS
  <2> HIDE DEF rank, earlier, D
  <2> QED BY <1>3, <2>1, <2>2 DEF Orders
<1> HIDE DEF rank, earlier
<1>6. /\ turn \in [1 .. Cardinality(D) -> D]
      /\ \A j, k \in 1 .. Cardinality(D) : turn[j] = turn[k] => j = k
  <2> HIDE DEF D
  <2> QED BY <1>4, <1>5, Arranged
<1> HIDE DEF turn
<1>7. turn \in [D -> D] /\ \A j, k \in D : turn[j] = turn[k] => j = k
  BY <1>4, <1>6
<1>8. t \in [D -> Ids] /\ t \in Seq(Ids) /\ Len(t) = Len(s)
  BY <1>1, <1>7
<1>9. RunOK(t, rows)
  <2>1. \A k \in D : rows[t[k]].status \in Waiting
    BY <1>7 DEF RunOK
  <2>2. ASSUME NEW j \in D, NEW k \in D, t[j] = t[k] PROVE j = k
    <3>1. turn[j] \in D /\ turn[k] \in D /\ s[turn[j]] = s[turn[k]]
      BY <1>7, <2>2
    <3>2. turn[j] = turn[k]
      BY <3>1 DEF RunOK
    <3> QED BY <1>7, <3>2
  <2> HIDE DEF t
  <2> QED BY <1>8, <2>1, <2>2 DEF RunOK
<1> QED BY <1>2, <1>8, <1>9

LEMMA ReorderGood ==
  ASSUME QueueOK(queue), NEW order, Reorder(order) PROVE Good(queue, queue')
<1> DEFINE waiting == WaitingIn(items)
           base == CHOOSE p \in {items[i].position : i \in waiting} :
                     \A i \in waiting : p <= items[i].position
           place(i) == base + RankIn(order, i) - 1
           its == [i \in Ids |-> IF i \in waiting THEN [queue.items[i] EXCEPT !.position = place(i)]
                                 ELSE queue.items[i]]
           ids == SortedBy(queue.run.ids, order)
           r == [queue.run EXCEPT !.ids = ids]
           n == [queue EXCEPT !.items = its, !.run = r]
<1>1. /\ queue \in Queues /\ queue.items \in [Ids -> Rows] /\ queue.items = items
      /\ queue.run \in Runs /\ queue.run.ids \in Seq(Ids) /\ RunOK(queue.run.ids, queue.items)
  BY FieldsOf, QueueIs DEF QueueOK
<1>2. waiting # {} /\ order \in SetToSeqs(waiting) /\ Emits(n)
  BY <1>1 DEF Reorder, Queues
<1>3. DOMAIN order = 1 .. Cardinality(waiting) /\ Cardinality(waiting) \in Nat
  <2>1. IsFiniteSet(waiting)
    BY IdsFinite DEF WaitingIn
  <2>2. Cardinality(waiting) \in Nat
    BY <2>1, FS_CardinalityType
  <2> HIDE DEF waiting
  <2> QED BY <1>2, <2>2 DEF SetToSeqs
<1>4. base \in Int
  <2>1. Placed(items) /\ waiting \in SUBSET Ids
    BY <1>1 DEF Placed, Rows, WaitingIn
  <2> HIDE DEF waiting
  <2> QED BY <1>2, <2>1, FirstIsInt
<1>5. \A i \in Ids : place(i) \in Int
  <2>1. \A i \in Ids : RankIn(order, i) \in Int
    BY <1>3, RankIsInt
  <2> HIDE DEF base
  <2> QED BY <1>4, <2>1
<1>6. ids \in Seq(Ids) /\ RunOK(ids, queue.items)
  BY <1>1, <1>3, SortedRun
<1> HIDE DEF base, place, ids, waiting
<1>7. r \in Runs /\ r.ids = ids
  BY <1>1, <1>6 DEF Runs
<1>8. ASSUME NEW i \in Ids
      PROVE  /\ its[i] \in Rows /\ its[i].status = queue.items[i].status
             /\ its[i].over = queue.items[i].over /\ its[i].review = queue.items[i].review
             /\ its[i].overridden = queue.items[i].overridden /\ its[i].length = queue.items[i].length
  <2> DEFINE row == queue.items[i]
             new == [row EXCEPT !.position = place(i)]
  <2>1. its[i] = IF i \in waiting THEN new ELSE row
    OBVIOUS
  <2>2. row \in Rows /\ place(i) \in Int
    BY <1>1, <1>5
  <2> HIDE DEF row, its
  <2>3. /\ new \in Rows /\ new.status = row.status /\ new.over = row.over
        /\ new.review = row.review /\ new.overridden = row.overridden /\ new.length = row.length
    BY <2>2 DEF Rows
  <2> HIDE DEF new
  <2> QED BY <2>1, <2>2, <2>3 DEF row
<1>9. its \in [Ids -> Rows]
  <2>1. \A i \in Ids : its[i] \in Rows
    BY <1>8
  <2> QED BY <2>1
<1> HIDE DEF its, r
<1>10. /\ n \in Queues /\ n.items = its /\ n.run = r /\ n.current = queue.current
       /\ n.gap = queue.gap /\ n.paused = queue.paused /\ n.limit = queue.limit
       /\ n.timer = queue.timer
  BY <1>1, <1>7, <1>9 DEF Queues
<1> HIDE DEF n
<1>11. RunOK(ids, its)
  BY <1>6, <1>8 DEF RunOK
<1>12. \A i \in Ids : ActiveAt(n, i) /\ RowOK(n.items[i], n.limit)
  BY <1>8, <1>10 DEF QueueOK, ActiveAt, RowOK
<1>13. QueueOK(n)
  BY <1>7, <1>10, <1>11, <1>12 DEF QueueOK
<1>14. Stages(n.items) = Stages(queue.items)
  BY <1>8, <1>10 DEF Stages
<1>15. Good(queue, n)
  BY <1>10, <1>13, <1>14, AlikeGood DEF Alike
<1> QED BY <1>2, <1>15, SetGood

-----------------------------------------------------------------------------
(* Every step *)

VideoInv == QueueOK(queue) /\ restarts \in Nat

LEMMA VideoInitInv == VideoInit => VideoInv
<1> SUFFICES ASSUME VideoInit PROVE VideoInv
  OBVIOUS
<1>1. /\ queue.items = [i \in Ids |-> Unused] /\ queue.run = NoRun /\ queue.paused = FALSE
      /\ queue.limit \in Limits /\ queue.current = Nobody /\ queue.gap = FALSE /\ queue.timer = "none"
  BY QueueIs DEF VideoInit
<1>2. Unused \in Rows /\ Unused.status = "absent"
  BY DEF Unused, Rows, Statuses
<1>3. queue \in Queues
  <2>1. queue.items \in [Ids -> Rows]
    BY <1>1, <1>2
  <2> QED BY <1>1, <2>1, QueueIs, Simple DEF queue, Queues
<1>4. \A i \in Ids : ActiveAt(queue, i) /\ RowOK(queue.items[i], queue.limit)
  BY <1>1, <1>2, Simple, IdsFinite DEF ActiveAt, RowOK, Active
<1>5. QueueOK(queue)
  BY <1>1, <1>3, <1>4, Simple DEF QueueOK
<1> QED BY <1>5 DEF VideoInv, VideoInit

LEMMA StepGood ==
  ASSUME VideoInv, OperatorSteps \/ TimerSteps \/ LookupSteps \/ PlayerSteps
  PROVE  Good(queue, queue')
<1>1. QueueOK(queue)
  BY DEF VideoInv
<1>2. Reviews \subseteq BOOLEAN
  BY VideoAssumption
<1>3. CASE TimerSteps
  BY <1>1, <1>3, TimersGood DEF TimerSteps
<1>4. CASE LookupSteps
  BY <1>1, <1>4, MetadataGood DEF LookupSteps
<1>5. CASE PlayerSteps
  <2>1. PICK i \in Ids, g \in BOOLEAN :
          \/ \E l \in Lengths \cup {"unknown"} : ReportStarted(i, l, g) \/ ReportLength(i, l, g)
          \/ \E o \in {"played", "failed"} : ReportOver(i, o, g)
    BY <1>5 DEF PlayerSteps
  <2>2. CASE \E l \in Lengths \cup {"unknown"} : ReportStarted(i, l, g) \/ ReportLength(i, l, g)
    <3>1. "played" \in {"played", "failed"}
      OBVIOUS
    <3> QED BY <1>1, <2>2, <3>1, ReportsGood
  <2>3. CASE \E o \in {"played", "failed"} : ReportOver(i, o, g)
    <3>1. "unknown" \in Lengths \cup {"unknown"}
      OBVIOUS
    <3> QED BY <1>1, <2>3, <3>1, ReportsGood
  <2> QED BY <2>1, <2>2, <2>3
<1>6. CASE OperatorSteps
  <2>1. CASE \E l \in Lengths, r \in Reviews, a \in BOOLEAN : Submit(l, r, a)
    BY <1>1, <1>2, <2>1, SubmitGood
  <2>2. CASE \E i \in Ids : Requeue(i) \/ RemoveItem(i) \/ Play(i) \/ PlayAnyway(i)
    BY <1>1, <2>2, RequeueGood, RemoveGood, PlayGood, PlayAnywayGood
  <2>3. CASE PlayNext \/ PlayAll \/ PauseQueue \/ ResumeQueue \/ Stop \/ Clear
    BY <1>1, <2>3, PlaysGood, PausesGood, StopGood, ClearGood
  <2>4. CASE \E g \in BOOLEAN : Skip(g)
    BY <1>1, <2>4, TimersGood
  <2>5. CASE \E o \in SetToSeqs(WaitingIn(items)) : Reorder(o)
    BY <1>1, <2>5, ReorderGood
  <2>6. CASE PauseVideo \/ ResumeVideo \/ Seek
    BY <1>1, <2>6, ClocksGood
  <2>7. CASE \E l \in Limits, e \in BOOLEAN : SaveConfig(l, e)
    BY <1>1, <2>7, SaveConfigGood
  <2> QED BY <1>6, <2>1, <2>2, <2>3, <2>4, <2>5, <2>6, <2>7 DEF OperatorSteps
<1> QED BY <1>3, <1>4, <1>5, <1>6


LEMMA VideoStep ==
  ASSUME VideoInv, [VideoNext]_videoVars
  PROVE  /\ VideoInv'
         /\ Moves(Stages(queue.items), Stages(queue'.items))
         /\ restarts' = restarts /\ (~Idle(queue) \/ queue.paused) => Goes(queue')
<1>1. CASE OperatorSteps \/ TimerSteps \/ LookupSteps \/ PlayerSteps
  <2>1. Good(queue, queue')
    BY <1>1, StepGood
  <2>2. restarts' = restarts
    <3>0. \A q : Emits(q) \/ Silent(q) => restarts' = restarts
      BY DEF Emits, Silent
    <3>1. CASE OperatorSteps
      <4>2. CASE \E l \in Lengths, r \in Reviews, x \in BOOLEAN : Submit(l, r, x)
        BY <3>0, <4>2 DEF Submit
      <4>3. CASE \E i \in Ids : Requeue(i) \/ RemoveItem(i) \/ Play(i) \/ PlayAnyway(i)
        BY <3>0, <4>3 DEF Requeue, RemoveItem, Play, PlayAnyway
      <4>4. CASE PlayNext \/ PlayAll \/ PauseQueue \/ ResumeQueue \/ Stop \/ Clear
        BY <3>0, <4>4 DEF PlayNext, PlayAll, PlayRun, PauseQueue, ResumeQueue, Stop, Clear
      <4>5. CASE \E g \in BOOLEAN : Skip(g)
        BY <3>0, <4>5 DEF Skip
      <4>6. CASE \E o \in SetToSeqs(WaitingIn(items)) : Reorder(o)
        BY <3>0, <4>6 DEF Reorder
      <4>7. CASE PauseVideo \/ ResumeVideo \/ Seek
        BY <3>0, <4>7 DEF PauseVideo, ResumeVideo, Seek
      <4>8. CASE \E l \in Limits, e \in BOOLEAN : SaveConfig(l, e)
        BY <3>0, <4>8 DEF SaveConfig
      <4> QED BY <3>1, <4>2, <4>3, <4>4, <4>5, <4>6, <4>7, <4>8 DEF OperatorSteps
    <3>2. CASE TimerSteps
      BY <3>0, <3>2 DEF TimerSteps, GapTimeout, LoadTimeout, EndTimeout
    <3>4. CASE LookupSteps
      BY <3>0, <3>4 DEF LookupSteps, ApplyMetadata
    <3>5. CASE PlayerSteps
      BY <3>0, <3>5 DEF PlayerSteps, ReportStarted, ReportLength, ReportOver
    <3> QED BY <1>1, <3>1, <3>2, <3>4, <3>5
  <2> QED BY <2>1, <2>2 DEF Good, Keeps, VideoInv
<1>2. CASE Restart
  <2>1. Keeps(queue, queue')
    BY <1>2, RestartKeeps DEF VideoInv
  <2>2. restarts' = restarts + 1 /\ restarts \in Nat
    BY <1>2 DEF Restart, VideoInv
  <2> QED BY <2>1, <2>2 DEF Keeps, VideoInv
<1>3. CASE UNCHANGED videoVars
  <2>1. queue' = queue /\ restarts' = restarts
    BY <1>3 DEF videoVars, queue
  <2> QED BY <2>1 DEF VideoInv, Moves, Idle, Goes
<1> QED BY <1>1, <1>2, <1>3 DEF VideoNext

THEOREM VideoInvariant == VideoSpec => []VideoInv
<1>1. VideoInit => VideoInv
  BY VideoInitInv
<1>2. VideoInv /\ [VideoNext]_videoVars => VideoInv'
  BY VideoStep
<1> QED BY <1>1, <1>2, PTL DEF VideoSpec

\* The rows marked as playing or paused are exactly the video whose clock runs.
THEOREM OneRowPlays == VideoSpec => []OneActiveRow
<1>1. VideoInv => OneActiveRow
  <2> SUFFICES ASSUME VideoInv PROVE OneActiveRow
    OBVIOUS
  <2>1. current.item \in Ids \cup {None} /\ \A i \in Ids : items[i].status \in Active <=> current.item = i
    BY FieldsOf, QueueIs DEF VideoInv, QueueOK, ActiveAt
  <2> QED BY <2>1, IdsFinite DEF OneActiveRow, Active
<1> QED BY <1>1, VideoInvariant, PTL

\* What is left of a run still waits, and is in it once.
THEOREM RunWaits == VideoSpec => []RunIsWaiting
<1>1. VideoInv => RunIsWaiting
  <2> SUFFICES ASSUME VideoInv PROVE RunIsWaiting
    OBVIOUS
  <2>1. run.ids \in Seq(Ids) /\ RunOK(run.ids, items)
    BY FieldsOf, QueueIs DEF VideoInv, QueueOK
  <2>2. DOMAIN run.ids = 1 .. Len(run.ids) /\ \A k \in DOMAIN run.ids : run.ids[k] \in Ids
    BY <2>1
  <2>3. ToSet(run.ids) \subseteq WaitingIn(items)
    BY <2>1, <2>2 DEF RunOK, WaitingIn, Waiting, ToSet
  <2>4. \A j, k \in DOMAIN run.ids : run.ids[j] = run.ids[k] => j = k
    BY <2>1, <2>2 DEF RunOK
  <2> QED BY <2>3, <2>4 DEF RunIsWaiting
<1> QED BY <1>1, VideoInvariant, PTL

\* What can be played was reviewed, and respects the limit of this moment unless
\* the operator chose Play anyway.
THEOREM QueuedMayPlay == VideoSpec => []QueuedIsPlayable
<1>1. VideoInv => QueuedIsPlayable
  BY QueueIs DEF VideoInv, QueueOK, RowOK, QueuedIsPlayable, HoldReason
<1> QED BY <1>1, VideoInvariant, PTL

\* A run that goes on without the operator keeps going on.
THEOREM RunGoesOn == VideoSpec => RunKeepsGoing
<1>1. VideoInv /\ [VideoNext]_videoVars =>
        [Driven /\ run'.active /\ restarts' = restarts => (current'.item # None \/ gap' \/ queuePaused')]_videoVars
  <2> SUFFICES ASSUME VideoInv, [VideoNext]_videoVars, videoVars' # videoVars,
                      Driven, run'.active, restarts' = restarts
               PROVE  current'.item # None \/ gap' \/ queuePaused'
    OBVIOUS
  <2>1. Goes(queue')
    BY VideoStep, QueueIs DEF Driven
  <2>2. queue'.run = run' /\ queue'.current = current' /\ queue'.gap = gap' /\ queue'.paused = queuePaused'
    BY DEF queue
  <2> QED BY <2>1, <2>2 DEF Goes
<1> QED BY <1>1, VideoInvariant, PTL DEF VideoSpec, RunKeepsGoing

\* The queue implements the requests: one is shown at a time, and each ends for good.
THEOREM RequestsAreKept == VideoSpec => RequestsKept
<1> DEFINE a == Stages(items)
           stages == [i \in Ids |->
                        CASE items[i].status = "absent" -> "unasked"
                          [] items[i].status \in {"queued", "held"} -> "waiting"
                          [] items[i].status \in {"playing", "paused"} -> "showing"
                          [] OTHER -> "over"]
<1>1. stages = a
  BY DEF Stages, Stage, Waiting, Active
<1>2. VideoInit => Requested!RequestsInit
  <2> SUFFICES ASSUME VideoInit PROVE Requested!RequestsInit
    OBVIOUS
  <2>1. a = [i \in Ids |-> "unasked"]
    BY StageOf DEF VideoInit, Stages, Unused
  <2> QED BY <1>1, <2>1 DEF Requested!RequestsInit
<1>3. VideoInv /\ [VideoNext]_videoVars => [Requested!RequestsNext]_(Requested!requestVars)
  <2> SUFFICES ASSUME VideoInv, [VideoNext]_videoVars
               PROVE  [Requested!RequestsNext]_(Requested!requestVars)
    OBVIOUS
  <2>1. Moves(a, a')
    BY VideoStep, QueueIs DEF queue
  <2>2. stages' = a'
    BY DEF Stages, Stage, Waiting, Active
  <2> HIDE DEF a, stages
  <2>3. CASE a' = a
    BY <1>1, <2>2, <2>3 DEF Requested!requestVars, stages
  <2>4. ASSUME NEW i \in Ids, Asks(a, a', i) PROVE Requested!Ask(i)
    BY <1>1, <2>2, <2>4 DEF Requested!Ask, Asks, stages
  <2>5. ASSUME NEW i \in Ids, Shows(a, a', i) PROVE Requested!Show(i)
    BY <1>1, <2>2, <2>5 DEF Requested!Show, Requested!Showing, Shows, stages
  <2>6. ASSUME NEW i \in Ids, Leaves(a, a', i) PROVE Requested!Leave(i)
    BY <1>1, <2>2, <2>6 DEF Requested!Leave, Leaves, stages
  <2>7. ASSUME NEW some \in SUBSET Ids, Withdraws(a, a', some) PROVE Requested!Withdraw(some)
    BY <1>1, <2>2, <2>7 DEF Requested!Withdraw, Withdraws, stages
  <2> QED BY <2>1, <2>3, <2>4, <2>5, <2>6, <2>7 DEF Moves, Requested!RequestsNext
<1> QED BY <1>2, <1>3, VideoInvariant, PTL DEF VideoSpec, RequestsKept, Requested!RequestsSpec

=============================================================================
