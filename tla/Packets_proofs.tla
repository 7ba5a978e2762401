---------------------------- MODULE Packets_proofs ---------------------------
(***************************************************************************)
(* The way of a packet into the program: a worker reads it from a socket,  *)
(* a window puts it in its place.  For any sources, buffers and limits, and *)
(* whatever goes wrong with the poller or a socket, no datagram lies unread *)
(* for longer than its source permits while the worker sleeps.  For a      *)
(* window of any size, any number of sequence numbers and a network that   *)
(* keeps within ReachAssumption, packets leave in the source's order, each *)
(* once, and none is given up that could still have come in time.          *)
(***************************************************************************)
EXTENDS RtpReorder, Receive, Lemmas

(* Part 1: reading the sockets. *)

Records == [open : BOOLEAN, failed : BOOLEAN, delay : 0..2, limit : Nat, coalesced : BOOLEAN, armed : BOOLEAN,
            next : Nat, since : Nat, checked : Nat, unread : Nat, waited : Nat]

Shape ==
    /\ src \in [Sources -> Records]
    /\ list \in Seq(Sources) /\ IsInjective(list)
    /\ todo \in Seq(Sources) /\ IsInjective(todo) /\ batch \in Seq(Sources)
    /\ pc \in {"events", "tasks", "asleep"}
    /\ clock \in Nat \ {0} /\ now \in Nat \ {0} /\ now <= clock

\* What is left of a batch or of a round of tasks, and when.
Phases ==
    /\ pc # "events" => batch = <<>>
    /\ pc # "tasks" => todo = <<>>
    /\ ToSet(todo) \subseteq ToSet(list)

\* A source that is notified all the time is armed; one that is not may wait.
Bounded(a) ==
    a.open /\ ~a.failed =>
       /\ a.waited <= a.delay /\ a.limit \in 1..MaxRead
       /\ a.coalesced => a.delay # 0
       /\ ~a.coalesced => a.armed

\* A task comes before the delay is over.
Due(a, time) == a.open /\ a.next # 0 /\ a.waited + a.next <= time + a.delay

\* Somebody will look at the source.
Watched(s) == src[s].open /\ ~src[s].failed => src[s].armed \/ s \in ToSet(batch) \/ s \in ToSet(list)

ReceiveIInv ==
    /\ Shape /\ Phases
    /\ \A s \in Sources : /\ Bounded(src[s]) /\ Watched(s)
                          /\ s \in ToSet(list) => Due(src[s], clock)

-----------------------------------------------------------------------------
\* The constants, one by one.
LEMMA Constants ==
    /\ IsFiniteSet(Sources) /\ Buffers \subseteq Nat \ {0}
    /\ Large \in Nat \ {0} /\ Medium \in Nat \ {0} /\ LimitMax \in Nat \ {0} /\ Few \in Nat \ {0}
    /\ MaxRead \in Nat \ {0} /\ Window \in Nat \ {0} /\ Room \in Nat \ {0}
    /\ Medium <= Large /\ LimitMax <= MaxRead /\ Few <= MaxRead
BY ReceiveAssumption

\* The lesser of two numbers.
LEMMA MinOfTwo ==
    ASSUME NEW a \in Nat, NEW b \in Nat
    PROVE  Min({a, b}) = IF a <= b THEN a ELSE b
<1>1. Min({a, b}) \in {a, b} /\ \A y \in {a, b} : Min({a, b}) <= y
  BY MinIsLeast
<1> DEFINE m == Min({a, b})
<1> HIDE DEF m
<1>2. m \in {a, b} /\ m <= a /\ m <= b
  BY <1>1 DEF m
<1>3. m = IF a <= b THEN a ELSE b
  BY <1>2
<1>q. QED BY <1>3 DEF m

\* A list with an element taken out, also one that is not in it.
LEMMA Without ==
    ASSUME NEW T, NEW l \in Seq(T), IsInjective(l), NEW c
    PROVE  /\ RemoveFirst(l, c) \in Seq(T) /\ IsInjective(RemoveFirst(l, c))
           /\ ToSet(RemoveFirst(l, c)) = ToSet(l) \ {c}
<1>1. CASE c \in ToSet(l)
  BY <1>1, UnlinkedList
<1>2. CASE c \notin ToSet(l)
  <2>1. ~(\E i \in 1..Len(l) : l[i] = c)
    BY <1>2, LenProperties DEF ToSet
  <2>q. QED BY <1>2, <2>1 DEF RemoveFirst
<1>q. QED BY <1>1, <1>2

\* The list after a source was read: it is in it exactly if it has a task.
LEMMA LinkedList ==
    ASSUME NEW l \in Seq(Sources), IsInjective(l), NEW s \in Sources, NEW a
    PROVE  /\ Linked(s, a, l) \in Seq(Sources) /\ IsInjective(Linked(s, a, l))
           /\ ToSet(Linked(s, a, l)) = (ToSet(l) \ {s}) \union (IF a.next # 0 THEN {s} ELSE {})
<1> DEFINE none == a.next = 0
           push == a.next # 0 /\ s \notin ToSet(l)
           x == RemoveFirst(l, s)
           y == <<s>> \o l
<1>1. Linked(s, a, l) = CASE none -> x [] push -> y [] OTHER -> l
  BY DEF Linked
<1>2. none => x \in Seq(Sources) /\ IsInjective(x) /\ ToSet(x) = ToSet(l) \ {s}
  BY Without
<1>3. push => y \in Seq(Sources) /\ IsInjective(y) /\ ToSet(y) = ToSet(l) \union {s}
  BY PushedList
<1>4. (none => ~push) /\ (push => ~none) /\ (none <=> ~(a.next # 0))
      /\ (push => s \notin ToSet(l)) /\ (~none /\ ~push => s \in ToSet(l))
  OBVIOUS
<1> HIDE DEF none, push, x, y
<1>5. CASE none
  BY <1>1, <1>2, <1>4, <1>5
<1>6. CASE push
  <2>1. Linked(s, a, l) = y
    BY <1>1, <1>4, <1>6
  <2>q. QED BY <2>1, <1>3, <1>4, <1>6
<1>7. CASE ~none /\ ~push
  <2>1. Linked(s, a, l) = l
    BY <1>1, <1>7
  <2>q. QED BY <2>1, <1>4, <1>7
<1>q. QED BY <1>5, <1>6, <1>7

\* An order of a finite set has all its elements.
LEMMA OrderIsWhole ==
    ASSUME NEW S, IsFiniteSet(S), NEW f \in SetToSeqs(S)
    PROVE  f \in Seq(S) /\ ToSet(f) = S
<1> DEFINE n == Cardinality(S)
           T == {f[i] : i \in 1..n}
<1>1. n \in Nat
  BY FS_CardinalityType
<1>2. f \in [1..n -> S] /\ \A i, j \in 1..n : i # j => f[i] # f[j]
  BY DEF SetToSeqs
<1>3. f \in Seq(S) /\ DOMAIN f = 1..n
  BY <1>1, <1>2, SeqDef
<1>4. T \subseteq S
  BY <1>2
<1>5. f \in Bijection(1..n, T)
  BY <1>2 DEF Bijection, Injection, Surjection, IsInjective
<1>6. IsFiniteSet(1..n) /\ Cardinality(1..n) = n
  BY <1>1, FS_Interval
<1> HIDE DEF n, T
<1>7. Cardinality(T) = n
  <2>1. ExistsBijection(1..n, T)
    BY <1>5 DEF ExistsBijection
  <2>q. QED BY <2>1, <1>6, FS_Bijection
<1>8. T = S
  BY <1>4, <1>7, FS_Subset DEF n
<1>q. QED BY <1>3, <1>8 DEF ToSet, T

-----------------------------------------------------------------------------
\* What a read leaves, scheduled: either nothing is left unread for too long,
\* or the source is armed, has a task or has failed.
LEMMA TakenKeeps ==
    ASSUME NEW a \in Records, a.open, Bounded(a), NEW n \in Counts(a), NEW ok \in BOOLEAN
    PROVE  LET b == Taken(a, n, ok)
           IN  /\ b \in Records /\ b.open /\ Bounded(b) /\ n \in Nat
               /\ b.delay = a.delay /\ b.limit = a.limit /\ b.coalesced = a.coalesced
               /\ ~b.failed /\ b.coalesced /\ n < b.limit => b.waited = 0
<1> DEFINE b == Taken(a, n, ok)
           m == Min({a.unread, MaxRead})
<1>1. a.unread \in Nat /\ MaxRead \in Nat \ {0}
  BY Constants DEF Records
<1>2. m = IF a.unread <= MaxRead THEN a.unread ELSE MaxRead
  BY <1>1, MinOfTwo
<1>3. n \in Nat /\ n <= a.unread /\ (a.coalesced => n = m)
  <2> HIDE DEF m
  <2>1. n = m \/ n \in 1..m
    BY DEF Counts, m
  <2>2. a.coalesced => n = m
    BY DEF Counts, m
  <2>q. QED BY <1>1, <1>2, <2>1, <2>2
<1>4. /\ b \in Records /\ b.open = a.open /\ b.delay = a.delay /\ b.limit = a.limit
      /\ b.coalesced = a.coalesced /\ b.armed = a.armed
      /\ b.failed = (a.failed \/ ~ok) /\ b.waited = IF n = a.unread THEN 0 ELSE a.waited
  <2>1. a.unread - n \in Nat
    BY <1>1, <1>3
  <2>q. QED BY <2>1 DEF Taken, Records
<1> HIDE DEF b
<1>5. a.delay \in Nat /\ a.limit \in Nat
  BY DEF Records
<1>6. Bounded(b)
  <2>1. SUFFICES ASSUME b.open, ~b.failed
                 PROVE  /\ b.waited <= b.delay /\ b.limit \in 1..MaxRead
                        /\ b.coalesced => b.delay # 0
                        /\ ~b.coalesced => b.armed
    BY DEF Bounded
  <2>2. /\ a.waited <= a.delay /\ a.limit \in 1..MaxRead
        /\ a.coalesced => a.delay # 0
        /\ ~a.coalesced => a.armed
    BY <1>4, <2>1 DEF Bounded
  <2>3. 0 <= a.delay
    BY <1>5
  <2>q. QED BY <1>4, <2>2, <2>3
<1>7. ~b.failed /\ b.coalesced /\ n < b.limit => b.waited = 0
  <2>1. SUFFICES ASSUME ~b.failed, b.coalesced, n < b.limit PROVE n = a.unread
    BY <1>4
  <2>2. b.limit <= MaxRead /\ n = m
    <3>1. b.limit \in 1..MaxRead
      BY <1>4, <1>6, <2>1 DEF Bounded
    <3> HIDE DEF m
    <3>q. QED BY <1>1, <1>3, <1>4, <2>1, <3>1
  <2>q. QED BY <1>1, <1>2, <1>4, <1>5, <2>1, <2>2
<1>q. QED BY <1>3, <1>4, <1>6, <1>7 DEF b

\* mcast_source_schedule_receive() leaves nobody unwatched.
LEMMA ScheduleKeeps ==
    ASSUME NEW b \in Records, b.open, Bounded(b), NEW n \in Nat, NEW p \in BOOLEAN,
           now \in Nat \ {0}, ~b.failed /\ b.coalesced /\ n < b.limit => b.waited = 0,
           NEW time \in Nat, now <= time
    PROVE  LET a == Schedule(b, n, p)
           IN  /\ a \in Records /\ a.open /\ Bounded(a)
               /\ a.next # 0 => Due(a, time)
               /\ ~a.failed => a.armed \/ a.next # 0
<1> DEFINE a == Schedule(b, n, p)
           failed == b.failed
           steady == ~b.failed /\ ~b.coalesced
           busy == ~b.failed /\ b.coalesced /\ n >= b.limit
           some == ~b.failed /\ b.coalesced /\ n \in 1..(b.limit - 1)
           v == [b EXCEPT !.next = 0]
           w == Assess(b, n, p)
           x == [Rearm(b, FALSE, p) EXCEPT !.next = 0, !.since = now, !.checked = 0]
           y == [b EXCEPT !.next = now + (IF b.next # 0 /\ n < Few THEN b.delay ELSE 1)]
           z == [Rearm(b, TRUE, p) EXCEPT !.next = 0]
           Good(c) == /\ c \in Records /\ c.open /\ Bounded(c)
                      /\ c.next # 0 => Due(c, time)
                      /\ ~c.failed => c.armed \/ c.next # 0
<1>1. a = CASE failed -> v [] steady -> w [] busy -> x [] some -> y [] OTHER -> z
  BY DEF Schedule
<1>2. /\ failed => ~steady /\ ~busy /\ ~some
      /\ steady => ~failed /\ ~busy /\ ~some
      /\ busy => ~steady /\ ~failed /\ ~some
      /\ some => ~steady /\ ~busy /\ ~failed
  BY DEF Records
<1>3. failed => Good(v)
  BY DEF Records, Bounded
<1>4. Rearm(b, FALSE, p) = (IF p THEN [b EXCEPT !.coalesced = FALSE, !.armed = TRUE] ELSE [b EXCEPT !.failed = TRUE])
      /\ Rearm(b, TRUE, p) = (IF p THEN [b EXCEPT !.coalesced = TRUE, !.armed = TRUE] ELSE [b EXCEPT !.failed = TRUE])
  BY DEF Rearm
<1>5. busy => Good(x)
  <2>1. CASE p
    <3>1. x = [b EXCEPT !.coalesced = FALSE, !.armed = TRUE, !.next = 0, !.since = now, !.checked = 0]
      BY <1>4, <2>1 DEF Records
    <3>q. QED BY <3>1 DEF Records, Bounded
  <2>2. CASE ~p
    <3>1. x = [b EXCEPT !.failed = TRUE, !.next = 0, !.since = now, !.checked = 0]
      BY <1>4, <2>2 DEF Records
    <3>q. QED BY <3>1 DEF Records, Bounded
  <2>q. QED BY <2>1, <2>2
<1>6. ~failed /\ ~steady /\ ~busy /\ ~some => Good(z)
  <2>1. CASE p
    <3>1. z = [b EXCEPT !.coalesced = TRUE, !.armed = TRUE, !.next = 0]
      BY <1>4, <2>1 DEF Records
    <3>q. QED BY <3>1 DEF Records, Bounded
  <2>2. CASE ~p
    <3>1. z = [b EXCEPT !.failed = TRUE, !.next = 0]
      BY <1>4, <2>2 DEF Records
    <3>q. QED BY <3>1 DEF Records, Bounded
  <2>q. QED BY <2>1, <2>2
<1>7. some => Good(y)
  <2> DEFINE e == IF b.next # 0 /\ n < Few THEN b.delay ELSE 1
             t == now + e
  <2>1. SUFFICES ASSUME some PROVE Good(y)
    OBVIOUS
  <2>2. b.delay \in Nat /\ b.delay # 0 /\ b.waited = 0
    BY <2>1 DEF Records, Bounded
  <2>3. e \in Nat /\ e <= b.delay
    BY <2>2
  <2>4. y = [b EXCEPT !.next = t]
    OBVIOUS
  <2> HIDE DEF e
  <2>5. t \in Nat /\ t # 0 /\ t <= time + b.delay
    BY <2>2, <2>3
  <2> HIDE DEF t, y
  <2>q. QED BY <2>1, <2>2, <2>4, <2>5 DEF Records, Bounded, Due
<1>8. steady => Good(w)
  <2>1. SUFFICES ASSUME steady PROVE Good(w)
    OBVIOUS
  <2>2. b.armed
    BY <2>1 DEF Bounded
  <2> DEFINE u == [b EXCEPT !.next = 0, !.checked = b.checked + n]
             calm == u.checked * u.delay * 2 < (now - u.since) * u.limit
  <2>3. w = IF b.delay = 0 THEN v
            ELSE IF now - b.since < Window THEN u
            ELSE [(IF calm THEN Rearm(u, TRUE, p) ELSE u) EXCEPT !.since = now, !.checked = 0]
    BY DEF Assess
  <2> HIDE DEF calm
  <2>4. Good(v) /\ Good(u)
    <3> DEFINE k == b.checked + n
    <3>1. k \in Nat
      BY DEF Records
    <3> HIDE DEF k
    <3>2. u = [b EXCEPT !.next = 0, !.checked = k]
      BY DEF k
    <3>3. Good(v)
      BY <2>1, <2>2 DEF Records, Bounded
    <3>4. Good(u)
      BY <2>1, <2>2, <3>1, <3>2 DEF Records, Bounded
    <3>q. QED BY <3>3, <3>4
  <2>5. Good([u EXCEPT !.since = now, !.checked = 0])
    BY <2>1, <2>2 DEF Records, Bounded
  <2>6. b.delay # 0 => Good([Rearm(u, TRUE, p) EXCEPT !.since = now, !.checked = 0])
    <3> HIDE DEF u
    <3>1. SUFFICES ASSUME b.delay # 0
                   PROVE  Good([Rearm(u, TRUE, p) EXCEPT !.since = now, !.checked = 0])
      OBVIOUS
    <3>2. u \in Records /\ u.open /\ Bounded(u) /\ u.next = 0 /\ u.delay = b.delay
      BY <2>4 DEF u, Records
    <3>3. CASE p
      <4>1. [Rearm(u, TRUE, p) EXCEPT !.since = now, !.checked = 0]
              = [u EXCEPT !.coalesced = TRUE, !.armed = TRUE, !.since = now, !.checked = 0]
        BY <3>2, <3>3 DEF Records, Rearm
      <4>q. QED BY ZenonT(60), <3>1, <3>2, <4>1 DEF Records, Bounded
    <3>4. CASE ~p
      <4>1. [Rearm(u, TRUE, p) EXCEPT !.since = now, !.checked = 0]
              = [u EXCEPT !.failed = TRUE, !.since = now, !.checked = 0]
        BY <3>2, <3>4 DEF Records, Rearm
      <4>q. QED BY <3>2, <4>1 DEF Records, Bounded
    <3>q. QED BY <3>3, <3>4
  <2> HIDE DEF u, w
  <2>q. QED BY <2>3, <2>4, <2>5, <2>6
<1>9. Good(a)
  <2> HIDE DEF a, failed, steady, busy, some, v, w, x, y, z, Good
  <2>1. CASE failed
    <3>1. a = v
      BY <1>1, <1>2, <2>1
    <3>q. QED BY <3>1, <1>3, <2>1
  <2>2. CASE steady
    <3>1. a = w
      BY <1>1, <1>2, <2>2
    <3>q. QED BY <3>1, <1>8, <2>2
  <2>3. CASE busy
    <3>1. a = x
      BY <1>1, <1>2, <2>3
    <3>q. QED BY <3>1, <1>5, <2>3
  <2>4. CASE some
    <3>1. a = y
      BY <1>1, <1>2, <2>4
    <3>q. QED BY <3>1, <1>7, <2>4
  <2>5. CASE ~failed /\ ~steady /\ ~busy /\ ~some
    <3>1. a = z
      BY <1>1, <2>5
    <3>q. QED BY <3>1, <1>6, <2>5
  <2>q. QED BY <2>1, <2>2, <2>3, <2>4, <2>5
<1>q. QED BY <1>9

\* A source is read; the batch or the tasks may lose it.
LEMMA ReadKeeps ==
    ASSUME ReceiveIInv, NEW s \in Sources, src[s].open,
           NEW l \in Seq(Sources), IsInjective(l), ToSet(l) \ {s} = ToSet(list) \ {s}, ReadSource(s, l),
           batch' \in Seq(Sources), ToSet(batch) \ {s} \subseteq ToSet(batch'),
           UNCHANGED <<clock, now>>
    PROVE  /\ src' \in [Sources -> Records] /\ list' \in Seq(Sources) /\ IsInjective(list')
           /\ ToSet(list) \ {s} \subseteq ToSet(list')
           /\ \A t \in Sources : /\ Bounded(src'[t]) /\ Watched(t)'
                                 /\ t \in ToSet(list') => Due(src'[t], clock')
<1>1. PICK n \in Counts(src[s]), ok \in Outcomes : \E p \in IF ok THEN Outcomes ELSE {TRUE} :
        LET a == Schedule(Taken(src[s], n, ok), n, p)
        IN  src' = [src EXCEPT ![s] = a] /\ list' = Linked(s, a, l)
  BY DEF ReadSource
<1>2. ok \in BOOLEAN /\ (IF ok THEN Outcomes ELSE {TRUE}) \subseteq BOOLEAN
  BY DEF Outcomes
<1>3. PICK p \in BOOLEAN :
        LET a == Schedule(Taken(src[s], n, ok), n, p)
        IN  src' = [src EXCEPT ![s] = a] /\ list' = Linked(s, a, l)
  BY <1>1, <1>2
<1> DEFINE b == Taken(src[s], n, ok)
           a == Schedule(b, n, p)
<1>4. src' = [src EXCEPT ![s] = a] /\ list' = Linked(s, a, l)
  BY <1>3
<1>5. src \in [Sources -> Records] /\ src[s] \in Records /\ Bounded(src[s]) /\ clock \in Nat
      /\ now \in Nat \ {0} /\ now <= clock
  BY DEF ReceiveIInv, Shape
<1>6. /\ b \in Records /\ b.open /\ Bounded(b) /\ n \in Nat
      /\ ~b.failed /\ b.coalesced /\ n < b.limit => b.waited = 0
  BY <1>2, <1>5, TakenKeeps
<1> HIDE DEF b
<1>7. /\ a \in Records /\ a.open /\ Bounded(a)
      /\ a.next # 0 => Due(a, clock)
      /\ ~a.failed => a.armed \/ a.next # 0
  BY <1>5, <1>6, ScheduleKeeps
<1> HIDE DEF a
<1>8. /\ list' \in Seq(Sources) /\ IsInjective(list')
      /\ ToSet(list') = (ToSet(l) \ {s}) \union (IF a.next # 0 THEN {s} ELSE {})
  BY <1>4, LinkedList
<1>9. src' \in [Sources -> Records] /\ src'[s] = a /\ \A t \in Sources : t # s => src'[t] = src[t]
  BY <1>4, <1>5, <1>7
<1>10. ToSet(list) \ {s} \subseteq ToSet(list') /\ (s \in ToSet(list') <=> a.next # 0)
       /\ \A t \in Sources : t # s => (t \in ToSet(list') <=> t \in ToSet(list))
  BY <1>8
<1>11. ASSUME NEW t \in Sources, t # s
       PROVE  Bounded(src'[t]) /\ Watched(t)' /\ (t \in ToSet(list') => Due(src'[t], clock'))
  BY <1>9, <1>10, <1>11 DEF ReceiveIInv, Watched
<1>12. Bounded(src'[s]) /\ Watched(s)' /\ (s \in ToSet(list') => Due(src'[s], clock'))
  BY <1>7, <1>9, <1>10 DEF Watched
<1>q. QED BY <1>8, <1>9, <1>10, <1>11, <1>12
-----------------------------------------------------------------------------
\* No source, no task, no event.
LEMMA ReceiveInitIsRight ==
    ReceiveInit => ReceiveIInv
<1>1. SUFFICES ASSUME ReceiveInit PROVE ReceiveIInv
  OBVIOUS
<1>2. <<>> \in Seq(Sources) /\ IsInjective(<<>>) /\ ToSet(<<>>) = {}
  BY DEF IsInjective, ToSet
<1>3. NoSource \in Records /\ ~NoSource.open
  BY DEF NoSource, Records
<1>4. Shape
  BY <1>1, <1>2, <1>3 DEF ReceiveInit, Shape
<1>q. QED BY <1>1, <1>2, <1>3, <1>4 DEF ReceiveInit, ReceiveIInv, Phases, Bounded, Watched

\* Nothing but the worker's place in its loop changes.
LEMMA SleepKeeps ==
    ASSUME ReceiveIInv, Sleep
    PROVE  ReceiveIInv'
<1>1. Shape' /\ Phases'
  BY DEF ReceiveIInv, Shape, Phases, Sleep
<1>q. QED BY <1>1 DEF ReceiveIInv, Bounded, Watched, Sleep

\* The worker has gone through all events it was given.
LEMMA EventsDoneKeeps ==
    ASSUME ReceiveIInv, EventsDone
    PROVE  ReceiveIInv'
<1>1. Shape' /\ Phases'
  BY DEF ReceiveIInv, Shape, Phases, EventsDone
<1>q. QED BY <1>1 DEF ReceiveIInv, Bounded, Watched, EventsDone

\* A source that is notified once is in the batch instead.
LEMMA WakeKeeps ==
    ASSUME ReceiveIInv, Wake
    PROVE  ReceiveIInv'
<1>1. IsFiniteSet(Ready) /\ Ready \subseteq Sources
  BY Constants, FS_Subset DEF Ready
<1>2. batch' \in Seq(Ready) /\ ToSet(batch') = Ready
  BY <1>1, OrderIsWhole DEF Wake
<1>3. batch' \in Seq(Sources)
  BY <1>1, <1>2, SeqMonotonic
<1>4. ASSUME NEW s \in Sources
      PROVE  /\ src'[s] \in Records /\ Bounded(src'[s]) /\ Watched(s)'
             /\ s \in ToSet(list') => Due(src'[s], clock')
  <2>1. src[s] \in Records /\ Bounded(src[s]) /\ Watched(s)
        /\ (s \in ToSet(list) => Due(src[s], clock)) /\ batch = <<>>
    BY DEF ReceiveIInv, Shape, Phases, Wake
  <2>2. UNCHANGED <<list, clock>>
    BY DEF Wake
  <2>3. CASE s \in Ready
    <3>1. src'[s] = [src[s] EXCEPT !.armed = ~src[s].coalesced]
      BY <2>3 DEF Wake
    <3>2. s \in ToSet(batch')
      BY <1>2, <2>3
    <3>q. QED BY <2>1, <2>2, <3>1, <3>2 DEF Records, Bounded, Watched, Due
  <2>4. CASE s \notin Ready
    <3>1. src'[s] = src[s]
      BY <2>4 DEF Wake
    <3>2. s \notin ToSet(batch)
      BY <2>1 DEF ToSet
    <3>q. QED BY <2>1, <2>2, <3>1, <3>2 DEF Watched
  <2>q. QED BY <2>3, <2>4
<1>5. src' \in [Sources -> Records]
  BY <1>4 DEF Wake
<1>6. Shape' /\ Phases'
  BY <1>3, <1>5 DEF ReceiveIInv, Shape, Phases, Wake
<1>q. QED BY <1>4, <1>6 DEF ReceiveIInv

\* The tail of a sequence has all of it but the head.
LEMMA TailElements ==
    ASSUME NEW T, NEW l \in Seq(T), l # <<>>
    PROVE  /\ Head(l) \in T /\ Head(l) \in ToSet(l) /\ Tail(l) \in Seq(T)
           /\ ToSet(l) \ {Head(l)} \subseteq ToSet(Tail(l)) /\ ToSet(Tail(l)) \subseteq ToSet(l)
           /\ IsInjective(l) => IsInjective(Tail(l)) /\ Head(l) \notin ToSet(Tail(l))
<1>1. /\ Len(l) \in Nat /\ Len(l) >= 1 /\ DOMAIN l = 1..Len(l) /\ \A i \in 1..Len(l) : l[i] \in T
      /\ Head(l) = l[1]
  BY LenProperties, ElementOfSeq, EmptySeq
<1>2. /\ Tail(l) \in Seq(T) /\ Len(Tail(l)) = Len(l) - 1
      /\ \A i \in 1..(Len(l) - 1) : Tail(l)[i] = l[i + 1]
  BY HeadTailProperties
<1> DEFINE t == Tail(l)
<1>3. DOMAIN t = 1..(Len(l) - 1)
  BY <1>2, LenProperties
<1> HIDE DEF t
<1>4. t \in Seq(T) /\ \A i \in 1..(Len(l) - 1) : t[i] = l[i + 1] /\ i + 1 \in 1..Len(l)
  BY <1>1, <1>2 DEF t
<1>5. 1 \in 1..Len(l)
  BY <1>1
<1>6. ASSUME NEW x \in ToSet(l), x # Head(l) PROVE x \in ToSet(t)
  <2>1. PICK i \in 1..Len(l) : x = l[i]
    BY <1>1 DEF ToSet
  <2>2. i - 1 \in 1..(Len(l) - 1) /\ (i - 1) + 1 = i
    BY <1>1, <1>6, <2>1
  <2>3. t[i - 1] = x
    BY <1>4, <2>1, <2>2
  <2>q. QED BY <1>3, <2>2, <2>3 DEF ToSet
<1>7. ToSet(t) \subseteq ToSet(l)
  BY SMTT(30), <1>1, <1>3, <1>4 DEF ToSet
<1>8. IsInjective(l) => IsInjective(t) /\ Head(l) \notin ToSet(t)
  <2>1. SUFFICES ASSUME IsInjective(l) PROVE IsInjective(t) /\ Head(l) \notin ToSet(t)
    OBVIOUS
  <2>2. \A i, j \in 1..Len(l) : l[i] = l[j] => i = j
    BY <1>1, <2>1 DEF IsInjective
  <2>3. ASSUME NEW i \in 1..(Len(l) - 1), NEW j \in 1..(Len(l) - 1), t[i] = t[j] PROVE i = j
    <3>1. i + 1 = j + 1
      BY <1>4, <2>2, <2>3
    <3>q. QED BY <1>1, <3>1
  <2>4. ASSUME NEW i \in 1..(Len(l) - 1) PROVE t[i] # l[1]
    <3>1. t[i] = l[1] => i + 1 = 1
      BY <1>4, <1>5, <2>2
    <3>q. QED BY <1>1, <3>1
  <2>q. QED BY <1>1, <1>3, <2>3, <2>4 DEF IsInjective, ToSet
<1>9. Head(l) \in T /\ Head(l) \in ToSet(l)
  BY <1>1, <1>5 DEF ToSet
<1>q. QED BY <1>4, <1>6, <1>7, <1>8, <1>9 DEF t

\* A notified source is read, unless it has gone.
LEMMA HandleEventKeeps ==
    ASSUME ReceiveIInv, HandleEvent
    PROVE  ReceiveIInv'
<1> DEFINE s == Head(batch)
<1>1. batch \in Seq(Sources) /\ batch # <<>> /\ batch' = Tail(batch) /\ pc = "events"
  BY DEF ReceiveIInv, Shape, HandleEvent
<1>2. /\ s \in Sources /\ batch' \in Seq(Sources)
      /\ ToSet(batch) \ {s} \subseteq ToSet(batch')
  BY <1>1, TailElements
<1>3. UNCHANGED <<todo, pc, clock, now>> /\ todo = <<>> /\ ToSet(todo) = {}
  BY <1>1 DEF HandleEvent, ReceiveIInv, Phases, ToSet
<1>4. CASE src[s].open
  <2>1. ReadSource(s, list)
    BY <1>4 DEF HandleEvent
  <2>2. list \in Seq(Sources) /\ IsInjective(list)
    BY DEF ReceiveIInv, Shape
  <2> HIDE DEF s
  <2>3. /\ src' \in [Sources -> Records] /\ list' \in Seq(Sources) /\ IsInjective(list')
        /\ \A t \in Sources : /\ Bounded(src'[t]) /\ Watched(t)'
                              /\ t \in ToSet(list') => Due(src'[t], clock')
    BY <1>2, <1>3, <1>4, <2>1, <2>2, ReadKeeps
  <2>4. Shape' /\ Phases'
    BY <1>1, <1>2, <1>3, <2>3 DEF ReceiveIInv, Shape, Phases
  <2>q. QED BY <2>3, <2>4 DEF ReceiveIInv
<1>5. CASE ~src[s].open
  <2>1. UNCHANGED <<src, list>>
    BY <1>5 DEF HandleEvent
  <2>2. Shape' /\ Phases'
    BY <1>1, <1>2, <1>3, <2>1 DEF ReceiveIInv, Shape, Phases
  <2>3. ASSUME NEW t \in Sources PROVE Watched(t)'
    BY <1>2, <1>5, <2>1 DEF ReceiveIInv, Watched
  <2>q. QED BY <1>3, <2>1, <2>2, <2>3 DEF ReceiveIInv
<1>q. QED BY <1>4, <1>5

\* A task that is due has its source read, the others stay.
LEMMA RunTaskKeeps ==
    ASSUME ReceiveIInv, RunTask
    PROVE  ReceiveIInv'
<1> DEFINE s == Head(todo)
<1>1. /\ todo \in Seq(Sources) /\ todo # <<>> /\ todo' = Tail(todo) /\ pc = "tasks" /\ IsInjective(todo)
      /\ list \in Seq(Sources) /\ IsInjective(list) /\ batch \in Seq(Sources)
  BY DEF ReceiveIInv, Shape, RunTask
<1>2. /\ s \in Sources /\ s \in ToSet(todo) /\ todo' \in Seq(Sources) /\ IsInjective(todo')
      /\ ToSet(todo') \subseteq ToSet(todo) \ {s}
  BY <1>1, TailElements
<1>3. UNCHANGED <<batch, pc, clock, now>> /\ ToSet(todo) \subseteq ToSet(list) /\ batch = <<>>
  BY <1>1 DEF RunTask, ReceiveIInv, Phases
<1>4. CASE src[s].next <= now
  <2>1. ReadSource(s, Unlinked(s))
    BY <1>4 DEF RunTask
  <2> HIDE DEF s
  <2>2. src[s].open
    BY <1>2, <1>3 DEF ReceiveIInv, Due
  <2> DEFINE l == Unlinked(s)
  <2>3. l \in Seq(Sources) /\ IsInjective(l) /\ ToSet(l) = ToSet(list) \ {s}
    BY <1>1, Without DEF Unlinked
  <2> HIDE DEF l
  <2>4. ToSet(l) \ {s} = ToSet(list) \ {s} /\ batch' \in Seq(Sources) /\ ToSet(batch) \ {s} \subseteq ToSet(batch')
    BY <1>1, <1>3, <2>3
  <2>5. /\ src' \in [Sources -> Records] /\ list' \in Seq(Sources) /\ IsInjective(list')
        /\ ToSet(list) \ {s} \subseteq ToSet(list')
        /\ \A t \in Sources : /\ Bounded(src'[t]) /\ Watched(t)'
                              /\ t \in ToSet(list') => Due(src'[t], clock')
    <3>1. ReadSource(s, l)
      BY <2>1 DEF l
    <3>q. QED BY <1>2, <1>3, <2>2, <2>3, <2>4, <3>1, ReadKeeps
  <2>6. Shape' /\ Phases'
    BY <1>1, <1>2, <1>3, <2>5 DEF ReceiveIInv, Shape, Phases
  <2>q. QED BY <2>5, <2>6 DEF ReceiveIInv
<1>5. CASE ~(src[s].next <= now)
  <2>1. UNCHANGED <<src, list>>
    BY <1>5 DEF RunTask
  <2>2. Shape' /\ Phases'
    BY <1>1, <1>2, <1>3, <2>1 DEF ReceiveIInv, Shape, Phases
  <2>q. QED BY <1>3, <2>1, <2>2 DEF ReceiveIInv, Watched
<1>q. QED BY <1>4, <1>5

\* The buffer the kernel grants decides how long a source may be left alone.
LEMMA OpenKeeps ==
    ASSUME ReceiveIInv, NEW s \in Sources, Open(s)
    PROVE  ReceiveIInv'
<1>1. PICK bytes \in Buffers : src' = [src EXCEPT ![s] = NewSource(bytes)]
  BY DEF Open
<1> DEFINE d == DelayOf(bytes)
           m == LimitOf(bytes)
           a == NewSource(bytes)
<1>2. d \in 0..2
  <2>1. bytes \in Nat
    BY Constants
  <2>q. QED BY <2>1, Constants DEF DelayOf
<1>3. m \in Nat /\ m \in 1..MaxRead
  <2>1. bytes \in Nat \ {0} /\ LimitMax \in Nat \ {0} /\ LimitMax <= MaxRead /\ MaxRead \in Nat
    BY Constants
  <2>2. m = IF bytes <= LimitMax THEN bytes ELSE LimitMax
    BY <2>1, MinOfTwo DEF LimitOf
  <2> HIDE DEF m
  <2>q. QED BY <2>1, <2>2
<1>4. a = [NoSource EXCEPT !.open = TRUE, !.delay = d, !.limit = m, !.coalesced = (d # 0), !.armed = TRUE]
  BY DEF NewSource
<1> HIDE DEF d, m, a
<1>5. a \in Records /\ Bounded(a) /\ a.armed
  <2> DEFINE k == d # 0
  <2>1. a = [open |-> TRUE, failed |-> FALSE, delay |-> d, limit |-> m, coalesced |-> k, armed |-> TRUE,
             next |-> 0, since |-> 0, checked |-> 0, unread |-> 0, waited |-> 0]
    BY <1>4 DEF NoSource
  <2>2. k \in BOOLEAN /\ (k => d # 0) /\ 0 <= d
    BY <1>2
  <2> HIDE DEF k
  <2>3. a \in Records
    BY <1>2, <1>3, <2>1, <2>2 DEF Records
  <2>q. QED BY <1>2, <1>3, <2>1, <2>2, <2>3 DEF Bounded
<1>6. src' = [src EXCEPT ![s] = a]
  BY <1>1 DEF a
<1>7. src' \in [Sources -> Records] /\ src'[s] = a /\ \A t \in Sources : t # s => src'[t] = src[t]
  BY <1>5, <1>6 DEF ReceiveIInv, Shape
<1>8. UNCHANGED <<list, worker, clock>> /\ ~src[s].open
  BY DEF Open
<1>9. s \notin ToSet(list)
  BY <1>8 DEF ReceiveIInv, Due
<1>10. Shape' /\ Phases'
  BY <1>7, <1>8 DEF ReceiveIInv, Shape, Phases, worker
<1>11. ASSUME NEW t \in Sources
       PROVE  /\ Bounded(src'[t]) /\ Watched(t)'
              /\ t \in ToSet(list') => Due(src'[t], clock')
  <2>1. CASE t = s
    BY <1>5, <1>7, <1>8, <1>9, <2>1 DEF Watched
  <2>2. CASE t # s
    BY <1>7, <1>8, <2>2 DEF ReceiveIInv, Watched, worker
  <2>q. QED BY <2>1, <2>2
<1>q. QED BY <1>10, <1>11 DEF ReceiveIInv

\* A source that goes takes its task with it; its event may come later.
LEMMA CloseKeeps ==
    ASSUME ReceiveIInv, NEW s \in Sources, Close(s)
    PROVE  ReceiveIInv'
<1>1. src' = [src EXCEPT ![s] = NoSource] /\ list' = Unlinked(s) /\ UNCHANGED <<worker, clock>>
  BY DEF Close
<1>2. NoSource \in Records /\ ~NoSource.open
  BY DEF NoSource, Records
<1>3. list' \in Seq(Sources) /\ IsInjective(list') /\ ToSet(list') = ToSet(list) \ {s}
  BY <1>1, Without DEF Unlinked, ReceiveIInv, Shape
<1>4. src' \in [Sources -> Records] /\ src'[s] = NoSource /\ \A t \in Sources : t # s => src'[t] = src[t]
  BY <1>1, <1>2 DEF ReceiveIInv, Shape
<1>5. todo = <<>> /\ ToSet(todo) = {}
  BY DEF Close, ReceiveIInv, Phases, ToSet
<1>6. Shape' /\ Phases'
  BY <1>1, <1>3, <1>4, <1>5 DEF ReceiveIInv, Shape, Phases, worker
<1>7. ASSUME NEW t \in Sources
      PROVE  /\ Bounded(src'[t]) /\ Watched(t)'
             /\ t \in ToSet(list') => Due(src'[t], clock')
  <2>1. CASE t = s
    BY <1>2, <1>3, <1>4, <2>1 DEF Watched, Bounded
  <2>2. CASE t # s
    BY <1>1, <1>3, <1>4, <2>2 DEF ReceiveIInv, Watched, worker
  <2>q. QED BY <2>1, <2>2
<1>q. QED BY <1>6, <1>7 DEF ReceiveIInv

\* What arrives is not waited for yet.
LEMMA ArriveKeeps ==
    ASSUME ReceiveIInv, NEW s \in Sources, Arrive(s)
    PROVE  ReceiveIInv'
<1> DEFINE n == src[s].unread + 1
<1>1. src' = [src EXCEPT ![s] = [src[s] EXCEPT !.unread = n]] /\ UNCHANGED <<list, worker, clock>>
  BY DEF Arrive
<1>2. src[s] \in Records /\ n \in Nat
  BY DEF ReceiveIInv, Shape, Records
<1> HIDE DEF n
<1>3. src' \in [Sources -> Records] /\ \A t \in Sources : t # s => src'[t] = src[t]
  BY <1>1, <1>2 DEF ReceiveIInv, Shape, Records
<1>4. src'[s] = [src[s] EXCEPT !.unread = n]
  BY <1>1 DEF ReceiveIInv, Shape
<1>5. Shape' /\ Phases'
  BY <1>1, <1>3 DEF ReceiveIInv, Shape, Phases, worker
<1>6. ASSUME NEW t \in Sources
      PROVE  /\ Bounded(src'[t]) /\ Watched(t)'
             /\ t \in ToSet(list') => Due(src'[t], clock')
  <2>1. CASE t = s
    <3>1. Bounded(src[s]) /\ Watched(s) /\ (s \in ToSet(list) => Due(src[s], clock))
      BY DEF ReceiveIInv
    <3>q. QED BY <1>1, <1>2, <1>4, <2>1, <3>1 DEF Watched, Bounded, Due, Records, worker
  <2>2. CASE t # s
    BY <1>1, <1>3, <2>2 DEF ReceiveIInv, Watched, worker
  <2>q. QED BY <2>1, <2>2
<1>q. QED BY <1>5, <1>6 DEF ReceiveIInv

\* The worker sleeps only while nothing is ready and no task is due.
LEMMA TimePassesKeeps ==
    ASSUME ReceiveIInv, TimePasses
    PROVE  ReceiveIInv'
<1>1. clock' = clock + 1 /\ UNCHANGED <<list, worker>> /\ clock \in Nat /\ src \in [Sources -> Records]
  BY DEF ReceiveIInv, Shape, TimePasses
<1>2. ASSUME NEW s \in Sources
      PROVE  /\ src'[s] \in Records /\ Bounded(src'[s]) /\ Watched(s)'
             /\ s \in ToSet(list') => Due(src'[s], clock')
  <2>1. src[s] \in Records /\ Bounded(src[s]) /\ Watched(s)
        /\ (s \in ToSet(list) => Due(src[s], clock))
    BY DEF ReceiveIInv, Shape
  <2>2. src[s].waited \in Nat /\ src[s].next \in Nat /\ src[s].delay \in Nat
    BY <2>1 DEF Records
  <2>3. CASE pc = "asleep" /\ src[s].unread > 0
    <3> DEFINE n == src[s].waited + 1
    <3>1. src'[s] = [src[s] EXCEPT !.waited = n]
      BY <2>3 DEF TimePasses
    <3>2. n \in Nat /\ batch = <<>> /\ ToSet(batch) = {} /\ Ready = {} /\ TasksDue = {}
      BY <2>2, <2>3 DEF TimePasses, ReceiveIInv, Phases, ToSet
    <3>3. s \in ToSet(list) => ~(src[s].next <= clock) /\ Due(src[s], clock)
      BY <2>1, <3>2 DEF TasksDue
    <3>4. s \in ToSet(list) => n + src[s].next <= (clock + 1) + src[s].delay /\ n <= src[s].delay
      <4>1. SUFFICES ASSUME s \in ToSet(list)
                     PROVE  n + src[s].next <= (clock + 1) + src[s].delay /\ n <= src[s].delay
        OBVIOUS
      <4>2. ~(src[s].next <= clock) /\ src[s].waited + src[s].next <= clock + src[s].delay
        BY <3>3, <4>1 DEF Due
      <4>q. QED BY <1>1, <2>2, <4>2
    <3>5. src[s].open => ~src[s].armed
      BY <2>3, <3>2 DEF Ready
    <3> HIDE DEF n
    <3>6. Bounded(src'[s]) /\ Watched(s)'
      BY <1>1, <2>1, <3>1, <3>2, <3>4, <3>5 DEF Bounded, Watched, Records, worker
    <3>7. s \in ToSet(list') => Due(src'[s], clock')
      BY <1>1, <2>1, <3>1, <3>3, <3>4 DEF Due, Records
    <3>8. src'[s] \in Records
      BY <2>1, <3>1, <3>2 DEF Records
    <3>q. QED BY <3>6, <3>7, <3>8
  <2>4. CASE ~(pc = "asleep" /\ src[s].unread > 0)
    <3>1. src'[s] = src[s]
      BY <2>4 DEF TimePasses
    <3>2. s \in ToSet(list) => Due(src[s], clock + 1)
      BY <1>1, <2>1, <2>2 DEF Due
    <3>q. QED BY <1>1, <2>1, <3>1, <3>2 DEF Watched, worker
  <2>q. QED BY <2>3, <2>4
<1>3. src' \in [Sources -> Records]
  BY <1>2 DEF TimePasses
<1>4. clock + 1 \in Nat \ {0} /\ (now <= clock => now <= clock + 1)
  BY <1>1 DEF ReceiveIInv, Shape
<1>5. Shape'
  BY <1>1, <1>3, <1>4 DEF ReceiveIInv, Shape, worker
<1>6. Phases'
  BY <1>1 DEF ReceiveIInv, Phases, worker
<1>q. QED BY <1>2, <1>5, <1>6 DEF ReceiveIInv

-----------------------------------------------------------------------------
\* At every moment of the worker's loop.
LEMMA ReceiveAlwaysRight ==
    ReceiveSpec => []ReceiveIInv
<1>1. ReceiveIInv /\ [ReceiveNext]_receiveVars => ReceiveIInv'
  <2>1. ASSUME ReceiveIInv, ReceiveNext PROVE ReceiveIInv'
    BY <2>1, SleepKeeps, WakeKeeps, HandleEventKeeps, EventsDoneKeeps, RunTaskKeeps, TimePassesKeeps,
       OpenKeeps, CloseKeeps, ArriveKeeps DEF ReceiveNext
  <2>2. ASSUME ReceiveIInv, UNCHANGED receiveVars PROVE ReceiveIInv'
    <3>1. Shape' /\ Phases'
      BY <2>2 DEF ReceiveIInv, Shape, Phases, receiveVars, worker
    <3>q. QED BY <2>2, <3>1 DEF ReceiveIInv, Watched, receiveVars, worker
  <2>q. QED BY <2>1, <2>2
<1>q. QED BY <1>1, ReceiveInitIsRight, PTL DEF ReceiveSpec

\* No datagram lies in its socket for longer than its source permits while the
\* worker sleeps, however a source's way of being read changes
\* (mcast_source_schedule_receive() and mcast_worker_receive()).
THEOREM NoDatagramIsStranded ==
    ReceiveSpec => []NothingLiesUnread
<1>1. ReceiveIInv => NothingLiesUnread
  <2>1. SUFFICES ASSUME ReceiveIInv PROVE NothingLiesUnread
    OBVIOUS
  <2>2. \A i \in DOMAIN list : list[i] \in ToSet(list) /\ list[i] \in Sources
    <3>1. list \in Seq(Sources)
      BY <2>1 DEF ReceiveIInv, Shape
    <3>2. DOMAIN list = 1..Len(list) /\ \A i \in 1..Len(list) : list[i] \in Sources
      BY <3>1, LenProperties, ElementOfSeq
    <3>q. QED BY <3>2 DEF ToSet
  <2>q. QED BY <2>1, <2>2 DEF ReceiveIInv, Shape, Bounded, Due, NothingLiesUnread
<1>q. QED BY <1>1, ReceiveAlwaysRight, PTL

-----------------------------------------------------------------------------
(***************************************************************************)
(* Part 2: the window.  It knows numbers modulo M only.  The argument      *)
(* finds the packet B that base stands for: the window holds packets of    *)
(* B..(B + W - 1), and what arrives is less than half the sequence space   *)
(* away from B.                                                            *)
(***************************************************************************)

Windows == [slots : [Slots -> Int], base : SeqNums, count : SeqNums, phase : 0..2]

\* base stands for B, and no packet newer than top is held.
Holds(r, B, top) ==
    /\ r \in Windows /\ r.base = B % M
    /\ \A i \in Slots : r.slots[i] # NoPkt =>
          /\ r.slots[i] % W = i
          /\ B <= r.slots[i] /\ r.slots[i] <= top /\ r.slots[i] < B + W

\* Packets collected before delivery begins: base stands for the earliest, and
\* each further one widens the range by what the network may lose, or its first
\* late one by what it may delay.
Collected(B) ==
    /\ win.slots[B % W] = B /\ B <= newest
    /\ win.count \in 1..(InitCollect - 1)
    /\ \/ newest - B <= (win.count - 1) * (FirstLoss + 1)
       \/ win.count >= 2 /\ newest - B <= FirstLate + (win.count - 2) * (FirstLoss + 1)
    /\ last = -1

\* While packets are delivered: what has been passed over without having been
\* handed out is a window behind the newest.
Delivered(B) ==
    /\ B - 1 <= newest /\ newest < B + W
    /\ last < B
    /\ last # -1 /\ last + 1 < B => newest - (B - 1) >= W

IInv ==
    /\ newest \in Nat \union {-1} /\ last \in Nat \union {-1}
    /\ \/ win = Fresh /\ newest = -1 /\ last = -1
       \/ win.phase = 1 /\ newest # -1 /\ \E B \in Nat : Holds(win, B, newest) /\ Collected(B)
       \/ win.phase = 2 /\ newest # -1 /\ \E B \in Nat : Holds(win, B, newest) /\ Delivered(B)

\* What NoPrematureSkip says of a step.
InTime ==
    LET from == IF last = -1 THEN Head(out') ELSE last + 1
    IN  out' # <<>> =>
          \A p \in from..last' : (\A k \in 1..Len(out') : out'[k] # p) => newest' - p >= W

-----------------------------------------------------------------------------
\* The sizes, and how they bound what the network may do.
LEMMA Sizes ==
    /\ W \in Nat \ {0} /\ M \in Nat \ {0} /\ M % W = 0 /\ InitCollect \in Nat /\ InitCollect >= 2
    /\ InitCollect <= W /\ 2 * W <= M
    /\ {FirstLoss, FirstLate, MaxLoss, MaxLate} \subseteq Nat
    /\ FirstLoss + 1 < W /\ FirstLate < W
    /\ 2 * (W + MaxLoss + 1) < M /\ 2 * (MaxLate + 1) < M
<1>1. /\ W \in Nat \ {0} /\ M \in Nat \ {0} /\ M % W = 0 /\ InitCollect \in Nat /\ InitCollect >= 2
      /\ InitCollect <= W /\ 2 * W <= M
  BY WindowAssumption
<1>2. {FirstLoss, FirstLate, MaxLoss, MaxLate} \subseteq Nat
  BY NetworkAssumption
<1>3. (InitCollect - 1) * (FirstLoss + 1) >= FirstLoss + 1 /\ (InitCollect - 2) * (FirstLoss + 1) >= 0
  BY <1>1, <1>2
<1>4. (InitCollect - 1) * (FirstLoss + 1) \in Int /\ (InitCollect - 2) * (FirstLoss + 1) \in Int
  BY <1>1, <1>2
<1>q. QED BY <1>1, <1>2, <1>3, <1>4, ReachAssumption

\* Less than half the sequence space away, Ahead() tells the true distance.
LEMMA AheadIsDistance ==
    ASSUME NEW p \in Int, NEW B \in Int, 2 * (p - B) < M - 1, 2 * (B - p) < M
    PROVE  Ahead(SeqNum(p), B % M) = p - B
<1>1. ((p % M) - (B % M)) % M = (p - B) % M
  BY Sizes, ModCong
<1> DEFINE d == (p - B) % M
           h == M \div 2
<1>2. Ahead(SeqNum(p), B % M) = IF d < h THEN d ELSE d - M
  BY <1>1 DEF Ahead, SeqNum
<1>3. h \in Int /\ 2 * h <= M /\ M <= 2 * h + 1
  BY Sizes
<1>4. p - B >= 0 => d = p - B
  <2>1. p - B >= 0 => p - B \in 0..(M - 1) /\ p - B = M * 0 + (p - B)
    BY Sizes
  <2>q. QED BY <2>1, Sizes, RemainderIs
<1>5. p - B < 0 => d = p - B + M
  <2>1. p - B < 0 => p - B + M \in 0..(M - 1) /\ p - B = M * (-1) + (p - B + M)
    BY Sizes
  <2>q. QED BY <2>1, Sizes, RemainderIs
<1> HIDE DEF d, h
<1>q. QED BY <1>2, <1>3, <1>4, <1>5, Sizes

\* The slot of a number is that of the packet.
LEMMA SlotOfPacket ==
    ASSUME NEW p \in Int, NEW k \in Int
    PROVE  /\ Slot((p % M) + k) = (p + k) % W /\ Slot(SeqNum(p)) = p % W
           /\ p % W \in Slots /\ p % M \in SeqNums
           /\ ((p % M) + k) % M = (p + k) % M
<1>1. ((p % M) + k) % W = (p + k) % W /\ (p % M) % W = p % W
  BY Sizes, ModMod
<1>3. p % W \in 0..(W - 1) /\ p % M \in 0..(M - 1)
  BY Sizes, DivMod
<1>4. ((p % M) + k) % M = (p + k) % M
  BY Sizes, ModCong
<1>q. QED BY <1>1, <1>3, <1>4 DEF Slot, SeqNum, Slots, SeqNums

\* What the window holds k numbers ahead of base.
LEMMA HeldAt ==
    ASSUME NEW r, NEW B \in Nat, NEW top \in Int, Holds(r, B, top), NEW k \in 0..(W - 1)
    PROVE  /\ (B + k) % W \in Slots
           /\ At(r, k) = r.slots[(B + k) % W] /\ At(r, k) \in Int
           /\ At(r, k) # NoPkt => At(r, k) = B + k /\ B + k <= top
<1>0. k \in Int /\ B + k \in Int /\ 0 <= k /\ k < W
  BY Sizes
<1>1. (B + k) % W \in Slots /\ Slot((B % M) + k) = (B + k) % W
  BY <1>0, SlotOfPacket
<1>2. At(r, k) = r.slots[(B + k) % W] /\ At(r, k) \in Int
  BY <1>1 DEF At, Holds, Windows
<1> DEFINE q == At(r, k)
<1>3. q # NoPkt => q % W = (B + k) % W /\ B <= q /\ q <= top /\ q < B + W
  BY <1>1, <1>2 DEF Holds
<1> HIDE DEF q
<1>4. q \in Int
  BY <1>2 DEF q
<1>5. q # NoPkt => q = B + k
  <2>1. q # NoPkt => q - (B + k) < W /\ (B + k) - q < W
    BY <1>0, <1>3, <1>4, Sizes
  <2>q. QED BY <2>1, <1>0, <1>3, <1>4, Sizes, ModSame
<1>q. QED BY <1>1, <1>2, <1>3, <1>5 DEF q

\* What it holds at base.
LEMMA AtBase ==
    ASSUME NEW r, NEW B \in Nat, NEW top \in Int, Holds(r, B, top)
    PROVE  At(r, 0) = r.slots[B % W] /\ B % W \in Slots
<1>1. r.base = SeqNum(B) /\ r.base \in Int
  BY Sizes DEF Holds, Windows, SeqNums, SeqNum
<1>2. Slot(SeqNum(B)) = B % W /\ B % W \in Slots
  BY SlotOfPacket
<1>3. r.base + 0 = r.base
  BY <1>1
<1>q. QED BY <1>1, <1>2, <1>3 DEF At

-----------------------------------------------------------------------------
\* A packet of the window's range goes into its slot.
LEMMA StoreKeeps ==
    ASSUME NEW r, NEW B \in Nat, NEW top \in Int, Holds(r, B, top),
           NEW p \in Nat, B <= p, p <= top, p < B + W
    PROVE  /\ Holds(Store(r, p), B, top)
           /\ Store(r, p).slots[p % W] = p
           /\ \A i \in Slots : i # p % W => Store(r, p).slots[i] = r.slots[i]
           /\ Store(r, p).phase = r.phase /\ Store(r, p).base = r.base
           /\ Store(r, p).count = (r.count + 1) % M
<1>1. p % W \in Slots /\ Slot(SeqNum(p)) = p % W
  BY SlotOfPacket
<1>2. (r.count + 1) % M \in SeqNums
  <2>1. r.count + 1 \in Int
    BY Sizes DEF Holds, Windows, SeqNums
  <2>q. QED BY <2>1, SlotOfPacket
<1>3. /\ Store(r, p) \in Windows
      /\ Store(r, p).slots = [r.slots EXCEPT ![p % W] = p]
      /\ Store(r, p).phase = r.phase /\ Store(r, p).base = r.base
      /\ Store(r, p).count = (r.count + 1) % M
  <2> DEFINE s == p % W
             c == (r.count + 1) % M
  <2>1. Store(r, p) = [r EXCEPT !.slots[s] = p, !.count = c] /\ s \in Slots /\ c \in SeqNums
    BY <1>1, <1>2 DEF Store
  <2>2. r \in Windows
    BY DEF Holds
  <2> HIDE DEF s, c
  <2> DEFINE t == [r.slots EXCEPT ![s] = p]
  <2>3. t \in [Slots -> Int]
    BY <2>1, <2>2 DEF Windows
  <2>4. Store(r, p) = [r EXCEPT !.slots = t, !.count = c]
    BY <2>1, <2>2 DEF Windows
  <2> HIDE DEF t
  <2>5. /\ Store(r, p) \in Windows /\ Store(r, p).slots = t
        /\ Store(r, p).phase = r.phase /\ Store(r, p).base = r.base /\ Store(r, p).count = c
    BY <2>1, <2>2, <2>3, <2>4 DEF Windows
  <2>q. QED BY <2>5 DEF s, c, t
<1>4. /\ Store(r, p).slots[p % W] = p
      /\ \A i \in Slots : i # p % W => Store(r, p).slots[i] = r.slots[i]
  BY <1>1, <1>3 DEF Holds, Windows
<1>5. \A i \in Slots : Store(r, p).slots[i] # NoPkt =>
          /\ Store(r, p).slots[i] % W = i
          /\ B <= Store(r, p).slots[i] /\ Store(r, p).slots[i] <= top /\ Store(r, p).slots[i] < B + W
  BY <1>4 DEF Holds
<1>q. QED BY <1>3, <1>4, <1>5 DEF Holds

\* The slots that are emptied are those of the numbers the window moves past.
LEMMA EmptiedKeeps ==
    ASSUME NEW r, NEW B \in Nat, NEW top \in Int, Holds(r, B, top), NEW n \in Nat,
           NEW c \in SeqNums
    PROVE  LET s == [r EXCEPT !.slots = Emptied(r, n), !.base = (@ + n) % M, !.count = c]
           IN  Holds(s, B + n, top) /\ s.phase = r.phase
<1> DEFINE s == [r EXCEPT !.slots = Emptied(r, n), !.base = (@ + n) % M, !.count = c]
<1>0. n \in Nat /\ B + n \in Nat
  BY Sizes
<1>1. (r.base + n) % M = (B + n) % M /\ (B + n) % M \in SeqNums
  <2>1. n \in Int /\ B \in Int /\ B + n \in Int /\ r.base = B % M
    BY <1>0 DEF Holds
  <2>2. ((B % M) + n) % M = (B + n) % M
    BY ONLY <2>1, SlotOfPacket
  <2>3. (B + n) % M \in SeqNums
    BY ONLY <2>1, SlotOfPacket
  <2>q. QED BY ONLY <2>1, <2>2, <2>3
<1>2. Emptied(r, n) \in [Slots -> Int]
  BY DEF Emptied, Holds, Windows, NoPkt
<1>3. /\ s \in Windows /\ s.base = (B + n) % M /\ s.slots = Emptied(r, n) /\ s.phase = r.phase
  BY <1>1, <1>2 DEF Holds, Windows
<1>4. ASSUME NEW i \in Slots, Emptied(r, n)[i] # NoPkt
      PROVE  /\ Emptied(r, n)[i] = r.slots[i] /\ r.slots[i] \in Int
             /\ r.slots[i] % W = i /\ B + n <= r.slots[i] /\ r.slots[i] <= top
             /\ r.slots[i] < B + n + W
  <2> DEFINE q == r.slots[i]
  <2>1. Emptied(r, n)[i] = q /\ ~(\E k \in 0..(n - 1) : i = Slot(r.base + k))
    BY <1>4 DEF Emptied
  <2>2. q \in Int /\ q % W = i /\ B <= q /\ q <= top /\ q < B + W
    BY <1>4, <2>1 DEF Holds, Windows
  <2>3. ~(q - B \in 0..(n - 1))
    <3> DEFINE e == q - B
    <3>1. e \in Int /\ B + e = q /\ B \in Int /\ r.base = B % M
      BY <2>2 DEF Holds
    <3> HIDE DEF e
    <3>2. Slot((B % M) + e) = (B + e) % W
      BY <3>1, SlotOfPacket
    <3>3. Slot(r.base + e) = i
      BY <3>1, <3>2, <2>2
    <3>4. ~(e \in 0..(n - 1))
      BY <3>3, <2>1
    <3>q. QED BY <3>4 DEF e
  <2> HIDE DEF q
  <2>4. B + n <= q
    BY <2>2, <2>3, <1>0
  <2>q. QED BY <1>0, <2>1, <2>2, <2>4, Sizes DEF q
<1> HIDE DEF s
<1>5. Holds(s, B + n, top)
  BY <1>3, <1>4 DEF Holds
<1>q. QED BY <1>3, <1>5 DEF s

\* How far flush_consecutive() gets: at least past base, if that is held.
LEMMA FlushLenIs ==
    ASSUME NEW r \in Windows
    PROVE  /\ FlushLen(r, FALSE) \in 0..W /\ FlushLen(r, FALSE) <= r.count
           /\ \A k \in 0..(FlushLen(r, FALSE) - 1) : At(r, k) # NoPkt
           /\ r.count > 0 /\ At(r, 0) # NoPkt => FlushLen(r, FALSE) > 0
<1> DEFINE most == IF FALSE \/ r.count < W THEN r.count ELSE W
           Z == {k \in 0..most : At(r, k) = NoPkt}
           len == FlushLen(r, FALSE)
<1>1. r.count \in Nat
  BY Sizes DEF Windows, SeqNums
<1>2. most \in 0..W /\ most <= r.count /\ (r.count > 0 => most > 0)
  BY <1>1, Sizes
<1>3. len = CHOOSE n \in 0..most : /\ \A k \in 0..(n - 1) : At(r, k) # NoPkt
                                   /\ n < most => At(r, n) = NoPkt
  BY DEF FlushLen
<1> HIDE DEF most, len
<1>4. PICK n \in 0..most : (\A k \in 0..(n - 1) : k \notin Z) /\ (n < most => n \in Z)
  <2> HIDE DEF Z
  <2>1. most \in Nat
    BY <1>2, Sizes
  <2>q. QED BY <2>1, FirstHit
<1>5. (\A k \in 0..(n - 1) : At(r, k) # NoPkt) /\ (n < most => At(r, n) = NoPkt)
  <2>1. \A k \in 0..(n - 1) : k \in 0..most
    BY <1>2
  <2>q. QED BY <1>4, <2>1
<1>6. /\ len \in 0..most /\ \A k \in 0..(len - 1) : At(r, k) # NoPkt
      /\ len < most => At(r, len) = NoPkt
  BY <1>3, <1>5
<1>7. len \in 0..W /\ len <= r.count
  BY <1>1, <1>2, <1>6, Sizes
<1>8. r.count > 0 /\ At(r, 0) # NoPkt => len > 0
  <2>1. SUFFICES ASSUME r.count > 0, At(r, 0) # NoPkt, len = 0 PROVE FALSE
    BY <1>7, Sizes
  <2>2. len < most
    BY <1>2, <2>1
  <2>3. At(r, len) = NoPkt
    BY <1>6, <2>2
  <2>q. QED BY <2>1, <2>3
<1>q. QED BY <1>6, <1>7, <1>8 DEF len

\* flush_consecutive() hands out the packets from B on without a gap.
LEMMA FlushKeeps ==
    ASSUME NEW r, NEW B \in Nat, NEW top \in Int, Holds(r, B, top)
    PROVE  LET f == FlushConsecutive(r, FALSE)
           IN  \E n \in 0..W :
                 /\ Holds(f.r, B + n, top) /\ f.r.phase = r.phase
                 /\ f.out = [k \in 1..n |-> B + (k - 1)]
                 /\ n > 0 => B + (n - 1) <= top
                 /\ r.count > 0 /\ At(r, 0) # NoPkt => n > 0
<1> DEFINE n == FlushLen(r, FALSE)
           f == FlushConsecutive(r, FALSE)
           c == r.count - n
<1>1. r \in Windows
  BY DEF Holds
<1>2. /\ n \in 0..W /\ n <= r.count /\ \A k \in 0..(n - 1) : At(r, k) # NoPkt
      /\ r.count > 0 /\ At(r, 0) # NoPkt => n > 0
  BY <1>1, FlushLenIs
<1>3. /\ f.r = [r EXCEPT !.slots = Emptied(r, n), !.base = (@ + n) % M, !.count = c]
      /\ f.out = [k \in 1..n |-> At(r, k - 1)]
  BY <1>1 DEF FlushConsecutive, Windows
<1> HIDE DEF n, f
<1>4. c \in SeqNums
  BY <1>1, <1>2, Sizes DEF Windows, SeqNums
<1> HIDE DEF c
<1>5. Holds(f.r, B + n, top) /\ f.r.phase = r.phase
  <2> DEFINE s == [r EXCEPT !.slots = Emptied(r, n), !.base = (@ + n) % M, !.count = c]
  <2>0. n \in Nat
    BY <1>2, Sizes
  <2>1. Holds(s, B + n, top) /\ s.phase = r.phase
    BY ZenonT(60), <2>0, <1>4, EmptiedKeeps
  <2>2. f.r = s
    BY <1>3
  <2> HIDE DEF s
  <2>q. QED BY <2>1, <2>2
<1>6. \A k \in 1..n : At(r, k - 1) = B + (k - 1) /\ B + (k - 1) <= top
  <2>1. ASSUME NEW k \in 1..n PROVE At(r, k - 1) = B + (k - 1) /\ B + (k - 1) <= top
    <3>1. k - 1 \in 0..(W - 1) /\ k - 1 \in 0..(n - 1)
      BY <1>2, Sizes
    <3>q. QED BY <3>1, <1>2, HeldAt
  <2>q. QED BY <2>1
<1>7. f.out = [k \in 1..n |-> B + (k - 1)]
  BY <1>3, <1>6
<1>8. n > 0 => B + (n - 1) <= top
  <2>1. n > 0 => n \in 1..n
    BY <1>2
  <2>q. QED BY <2>1, <1>6
<1>q. QED BY <1>2, <1>5, <1>7, <1>8 DEF f

-----------------------------------------------------------------------------
\* The numbers of a finite set in rising order.
LEMMA AscendingRises ==
    ASSUME NEW S \in SUBSET Int, IsFiniteSet(S)
    PROVE  LET a == Ascending(S)
           IN  /\ Cardinality(S) \in Nat /\ DOMAIN a = 1..Cardinality(S)
               /\ \A i \in 1..Cardinality(S) : a[i] \in S
               /\ \A i, j \in 1..Cardinality(S) : i < j => a[i] < a[j]
<1> DEFINE m == Cardinality(S)
           a == Ascending(S)
<1>1. m \in Nat
  BY FS_CardinalityType
<1>2. /\ \A j, k \in S : j < k => Rank(S, j) < Rank(S, k)
      /\ \A i \in 1..m : \E k \in S : Rank(S, k) = i
  BY RanksRise
<1>3. a = [i \in 1..m |-> CHOOSE k \in S : Rank(S, k) = i]
  BY DEF Ascending, Rank
<1> HIDE DEF a, m
<1>4. \A i \in 1..m : a[i] \in S /\ Rank(S, a[i]) = i
  BY <1>2, <1>3
<1>5. ASSUME NEW i \in 1..m, NEW j \in 1..m, i < j PROVE a[i] < a[j]
  <2>1. a[i] \in S /\ a[j] \in S /\ Rank(S, a[i]) = i /\ Rank(S, a[j]) = j
    BY <1>4
  <2>2. a[i] \in Int /\ a[j] \in Int
    BY <2>1
  <2>3. ~(j < i) /\ i # j
    BY <1>5, <1>1
  <2>4. ~(a[j] < a[i]) /\ a[i] # a[j]
    BY <1>2, <2>1, <2>3
  <2>q. QED BY <2>2, <2>4
<1>q. QED BY <1>1, <1>3, <1>4, <1>5 DEF a, m

\* Moving the window up hands out packets of the numbers it passes, in order.
LEMMA AdvanceKeeps ==
    ASSUME NEW r, NEW B \in Nat, NEW top \in Int, Holds(r, B, top), NEW n \in Nat
    PROVE  LET f == Advance(r, n)
           IN  \E m \in Nat :
                 /\ Holds(f.r, B + n, top) /\ f.r.phase = r.phase
                 /\ DOMAIN f.out = 1..m /\ f.out \in Seq(Nat)
                 /\ \A i \in 1..m : B <= f.out[i] /\ f.out[i] < B + n
                 /\ \A i, j \in 1..m : i < j => f.out[i] < f.out[j]
<1> DEFINE S == HeldWithin(r, n)
           a == Ascending(S)
           m == Cardinality(S)
           got == [i \in DOMAIN a |-> At(r, a[i])]
           f == Advance(r, n)
           c == (r.count - Len(got)) % M
<1>0. n \in Nat
  OBVIOUS
<1>1. S \subseteq 0..(n - 1) /\ \A k \in S : k \in 0..(W - 1) /\ At(r, k) # NoPkt
  BY <1>0, Sizes DEF HeldWithin
<1>2. S \in SUBSET Int /\ IsFiniteSet(S)
  <2>1. 0 \in Int /\ n - 1 \in Int
    BY <1>0
  <2>2. IsFiniteSet(0..(n - 1))
    BY <2>1, FS_Interval
  <2>q. QED BY <1>1, <2>2, FS_Subset
<1>3. /\ m \in Nat /\ DOMAIN a = 1..m /\ \A i \in 1..m : a[i] \in S
      /\ \A i, j \in 1..m : i < j => a[i] < a[j]
  BY <1>2, AscendingRises
<1>4. \A i \in 1..m : got[i] = B + a[i] /\ a[i] \in 0..(n - 1)
  <2>1. ASSUME NEW i \in 1..m PROVE At(r, a[i]) = B + a[i] /\ a[i] \in 0..(n - 1)
    <3>1. a[i] \in 0..(n - 1) /\ a[i] \in 0..(W - 1) /\ At(r, a[i]) # NoPkt
      BY <1>1, <1>3
    <3>q. QED BY <3>1, HeldAt
  <2>q. QED BY <1>3, <2>1
<1>5. DOMAIN got = 1..m
  BY <1>3
<1>6. f.r = [r EXCEPT !.slots = Emptied(r, n), !.base = (@ + n) % M, !.count = c] /\ f.out = got
  BY DEF Advance, Holds, Windows
<1> HIDE DEF S, a, m
<1>7. got \in Seq(Nat) /\ Len(got) \in Int
  <2>1. \A i \in 1..m : got[i] \in Nat
    BY <1>0, <1>4
  <2>2. got = [i \in 1..m |-> got[i]]
    BY <1>3
  <2>3. got \in [1..m -> Nat]
    BY <2>1, <2>2
  <2>q. QED BY <1>3, <2>3, IsASeq, LenProperties
<1> HIDE DEF got, f
<1>8. c \in SeqNums
  <2>1. r.count - Len(got) \in Int
    BY <1>7 DEF Holds, Windows, SeqNums
  <2>q. QED BY <2>1, SlotOfPacket
<1> HIDE DEF c
<1>9. Holds(f.r, B + n, top) /\ f.r.phase = r.phase
  <2> DEFINE s == [r EXCEPT !.slots = Emptied(r, n), !.base = (@ + n) % M, !.count = c]
  <2>1. Holds(s, B + n, top) /\ s.phase = r.phase
    BY ZenonT(60), <1>8, EmptiedKeeps
  <2>2. f.r = s
    BY <1>6
  <2> HIDE DEF s
  <2>q. QED BY <2>1, <2>2
<1>10. \A i \in 1..m : B <= got[i] /\ got[i] < B + n
  BY <1>0, <1>4
<1>11. \A i, j \in 1..m : i < j => got[i] < got[j]
  <2>1. ASSUME NEW i \in 1..m, NEW j \in 1..m, i < j PROVE got[i] < got[j]
    <3>1. a[i] < a[j] /\ a[i] \in 0..(n - 1) /\ a[j] \in 0..(n - 1)
      BY <1>3, <1>4, <2>1
    <3>q. QED BY <3>1, <1>0, <1>4
  <2>q. QED BY <2>1
<1>q. QED BY <1>3, <1>5, <1>6, <1>7, <1>9, <1>10, <1>11 DEF f

-----------------------------------------------------------------------------
\* What a step shows of packets handed out without a gap from B on.
LEMMA RunIsInOrder ==
    ASSUME NEW t \in Int, newest' = t, last \in Nat \union {-1}, NEW B \in Nat, last < B, NEW n \in Nat,
           out' = [k \in 1..n |-> B + (k - 1)], last' = Stream!Newest(out', last),
           last # -1 /\ last + 1 < B => t - (B - 1) >= W
    PROVE  /\ Stream!HandOut /\ InTime
           /\ last' \in Nat \union {-1} /\ last' < B + n
           /\ last' # -1 /\ last' + 1 < B + n => t - (B + n - 1) >= W
<1>1. DOMAIN out' = 1..n /\ out' \in Seq(Nat) /\ Len(out') = n
  <2>1. out' \in [1..n -> Nat]
    OBVIOUS
  <2>q. QED BY <2>1, IsASeq, LenProperties
<1>2. \A k \in 1..n : out'[k] = B + (k - 1)
  OBVIOUS
<1>3. CASE n = 0
  <2>1. out' = <<>>
    BY <1>1, <1>3, EmptySeq
  <2>2. last' = last
    BY <2>1 DEF Stream!Newest
  <2>q. QED BY <1>1, <1>3, <2>1, <2>2 DEF Stream!HandOut, Stream!Rising, InTime
<1>4. CASE n > 0
  <2>1. out' # <<>> /\ 1 \in 1..n /\ n \in 1..n
    BY <1>1, <1>4
  <2>2. last' = B + (n - 1)
    BY <1>1, <1>2, <2>1 DEF Stream!Newest
  <2>3. Head(out') = B
    BY <1>1, <1>2, <2>1, HeadTailProperties
  <2>4. Stream!HandOut
    <3>1. \A i \in 1..n : out'[i] > last
      BY <1>2
    <3>2. \A i \in 1..(n - 1) : out'[i] < out'[i + 1]
      <4>1. ASSUME NEW i \in 1..(n - 1) PROVE out'[i] < out'[i + 1]
        <5>1. i \in 1..n /\ i + 1 \in 1..n
          OBVIOUS
        <5>q. QED BY <5>1, <1>2
      <4>q. QED BY <4>1
    <3>q. QED BY <1>1, <3>1, <3>2 DEF Stream!HandOut, Stream!Rising
  <2>5. InTime
    <3> DEFINE from == IF last = -1 THEN Head(out') ELSE last + 1
    <3>1. from \in Int /\ (from < B => last # -1 /\ last + 1 < B)
      BY <2>3
    <3>2. ASSUME NEW p \in from..last', \A k \in 1..Len(out') : out'[k] # p
          PROVE  t - p >= W
      <4>1. p \in Int /\ from <= p /\ p <= B + (n - 1)
        BY <2>2, <3>1
      <4>2. p < B
        <5>1. SUFFICES ASSUME p >= B PROVE FALSE
          BY <4>1
        <5>2. p - B + 1 \in 1..n /\ B + ((p - B + 1) - 1) = p
          BY <4>1, <5>1
        <5>q. QED BY <1>1, <1>2, <3>2, <5>2
      <4>3. t - (B - 1) >= W
        BY <3>1, <4>1, <4>2
      <4>4. W \in Int
        BY Sizes
      <4> HIDE DEF from
      <4>q. QED BY <4>1, <4>2, <4>3, <4>4
    <3>q. QED BY <3>2 DEF InTime
  <2>q. QED BY <2>2, <2>4, <2>5, <1>4
<1>q. QED BY <1>3, <1>4

\* The same of packets below B, if that is a window behind the newest.
LEMMA PassedIsInOrder ==
    ASSUME NEW t \in Int, newest' = t, last \in Nat \union {-1}, NEW A \in Nat, last < A, NEW B \in Nat, A <= B,
           NEW m \in Nat, DOMAIN out' = 1..m, out' \in Seq(Nat),
           \A i \in 1..m : A <= out'[i] /\ out'[i] < B,
           \A i, j \in 1..m : i < j => out'[i] < out'[j],
           last' = Stream!Newest(out', last), t - (B - 1) >= W
    PROVE  /\ Stream!HandOut /\ InTime
           /\ last' \in Nat \union {-1} /\ last' < B
<1>1. Len(out') = m
  BY LenProperties
<1>2. \A i \in 1..m : out'[i] \in Nat
  BY <1>1, ElementOfSeq
<1>3. Stream!HandOut
  <2>1. \A i \in 1..m : out'[i] > last
    BY <1>2
  <2>2. \A i \in 1..(m - 1) : out'[i] < out'[i + 1]
    <3>1. ASSUME NEW i \in 1..(m - 1) PROVE out'[i] < out'[i + 1]
      <4>1. i \in 1..m /\ i + 1 \in 1..m /\ i < i + 1
        OBVIOUS
      <4>q. QED BY <4>1
    <3>q. QED BY <3>1
  <2>q. QED BY <1>1, <2>1, <2>2 DEF Stream!HandOut, Stream!Rising
<1>4. last' \in Nat \union {-1} /\ last' < B
  <2>1. CASE out' = <<>>
    BY <2>1 DEF Stream!Newest
  <2>2. CASE out' # <<>>
    <3>1. m \in 1..m /\ last' = out'[m]
      BY <1>1, <2>2, EmptySeq DEF Stream!Newest
    <3>q. QED BY <3>1, <1>2
  <2>q. QED BY <2>1, <2>2
<1>5. InTime
  <2> DEFINE from == IF last = -1 THEN Head(out') ELSE last + 1
  <2>1. ASSUME out' # <<>>, NEW p \in from..last' PROVE t - p >= W
    <3>1. from \in Int
      <4>1. out' # <<>> => Head(out') \in Nat
        BY HeadTailProperties
      <4>q. QED BY <2>1, <4>1
    <3>2. p \in Int /\ p <= last'
      BY <1>4, <3>1
    <3>3. p < B /\ t - (B - 1) >= W
      BY <3>2, <1>4
    <3>4. W \in Int
      BY Sizes
    <3> HIDE DEF from
    <3>q. QED BY <3>2, <3>3, <3>4
  <2>q. QED BY <2>1 DEF InTime
<1>q. QED BY <1>3, <1>4, <1>5

-----------------------------------------------------------------------------
\* What may arrive.
LEMMA ArrivalsAreNear ==
    ASSUME IInv, NEW p \in Arrivals
    PROVE  /\ p \in Nat
           /\ newest # -1 => newest - Lateness <= p /\ p <= newest + 1 + Loss
<1>1. CASE newest = -1
  BY <1>1, NetworkAssumption DEF Arrivals
<1>2. CASE newest # -1
  <2>1. newest \in Nat
    BY <1>2 DEF IInv
  <2>2. Lateness \in Nat /\ Loss \in Nat
    BY Sizes DEF Lateness, Loss
  <2>q. QED BY <1>2, <2>1, <2>2 DEF Arrivals
<1>q. QED BY <1>1, <1>2

\* A window holds nothing newer than anything newer still.
LEMMA NewerTop ==
    ASSUME NEW r, NEW B \in Nat, NEW top \in Int, Holds(r, B, top), NEW t \in Int, top <= t
    PROVE  Holds(r, B, t)
<1>1. ASSUME NEW i \in Slots, r.slots[i] # NoPkt PROVE r.slots[i] <= t
  <2>1. r.slots[i] <= top /\ r.slots[i] \in Int
    BY <1>1 DEF Holds, Windows
  <2>q. QED BY <2>1
<1>q. QED BY <1>1 DEF Holds

\* The first packet.
LEMMA StartKeeps ==
    ASSUME IInv, Start
    PROVE  IInv' /\ Stream!HandOut /\ InTime
<1>1. PICK p \in Arrivals : win.phase = 0 /\ Take(p, Insert(win, p, FALSE))
  BY DEF Start
<1>2. win = Fresh /\ newest = -1 /\ last = -1
  BY <1>1 DEF IInv
<1>3. p \in Nat /\ p % W \in Slots /\ p % M \in SeqNums /\ Slot(SeqNum(p)) = p % W
  BY ArrivalsAreNear, SlotOfPacket
<1> DEFINE r == InsertFirst(win, p).r
<1>4. Insert(win, p, FALSE) = InsertFirst(win, p) /\ InsertFirst(win, p).out = <<>>
  BY <1>1 DEF Insert, InsertFirst, Quiet
<1>5. 1 % M = 1 /\ 1 \in SeqNums
  <2>1. 1 \in 0..(M - 1) /\ 1 = M * 0 + 1
    BY Sizes
  <2>q. QED BY <2>1, Sizes, RemainderIs DEF SeqNums
<1>6. /\ r \in Windows /\ r.base = p % M /\ r.count = 1 /\ r.phase = 1
      /\ r.slots = [[i \in Slots |-> NoPkt] EXCEPT ![p % W] = p]
  <2> DEFINE t == [[i \in Slots |-> NoPkt] EXCEPT ![p % W] = p]
  <2>1. r = [slots |-> t, base |-> p % M, count |-> 1, phase |-> 1]
    <3>1. (0 + 1) % M = 1
      BY <1>5
    <3>q. QED BY <3>1, <1>2, <1>3 DEF InsertFirst, Quiet, Store, Fresh, SeqNum
  <2>2. t \in [Slots -> Int]
    BY <1>3 DEF NoPkt
  <2> HIDE DEF t, r
  <2>3. r \in Windows /\ r.base = p % M /\ r.count = 1 /\ r.phase = 1 /\ r.slots = t
    BY <1>3, <1>5, <2>1, <2>2 DEF Windows
  <2>q. QED BY <2>3 DEF t
<1> HIDE DEF r
<1>7. /\ win' = r /\ out' = <<>> /\ last' = -1 /\ newest' = p
  <2>1. -1 < p
    BY <1>3
  <2>q. QED BY <1>1, <1>2, <1>4, <2>1 DEF Take, Stream!Newest, r
<1>8. r.slots[p % W] = p /\ \A i \in Slots : i # p % W => r.slots[i] = NoPkt
  BY <1>3, <1>6
<1>9. Holds(r, p, p)
  <2>1. p < p + W
    BY <1>3, Sizes
  <2>q. QED BY <1>3, <1>6, <1>8, <2>1 DEF Holds
<1>10. Collected(p)'
  <2>1. (1 - 1) * (FirstLoss + 1) = 0 /\ p - p = 0 /\ 1 \in 1..(InitCollect - 1)
    BY <1>3, Sizes
  <2>q. QED BY <1>3, <1>6, <1>7, <1>8, <2>1 DEF Collected
<1>11. IInv'
  BY <1>3, <1>6, <1>7, <1>9, <1>10 DEF IInv
<1>12. Stream!HandOut /\ InTime
  BY <1>2, <1>7 DEF Stream!HandOut, Stream!Rising, Stream!Newest, InTime
<1>q. QED BY <1>11, <1>12

-----------------------------------------------------------------------------
\* A packet that arrives in the collecting phase is within the window of all
\* that have been collected, and so is what they become with it.
LEMMA CollectedFits ==
    ASSUME IInv, win.phase = 1, NEW B \in Nat, newest \in Nat, win.count \in Nat, Collected(B),
           NEW p \in Arrivals
    PROVE  /\ p - B < W /\ newest - B < W /\ newest - p < W
           /\ newest - B + FirstLoss + 1 < W
           /\ p < B => newest - p <= FirstLate
           /\ LET n == win.count + 1
                  top == IF p > newest THEN p ELSE newest
                  low == IF p < B THEN p ELSE B
              IN  \/ top - low <= (n - 1) * (FirstLoss + 1)
                  \/ n >= 2 /\ top - low <= FirstLate + (n - 2) * (FirstLoss + 1)
<1> DEFINE n == win.count
           D == FirstLoss + 1
<1>1. /\ n \in Nat /\ 1 <= n /\ n <= InitCollect - 1 /\ InitCollect \in Nat
      /\ D \in Nat /\ FirstLate \in Nat /\ W \in Nat
      /\ p \in Nat /\ newest - FirstLate <= p /\ p <= newest + D /\ B <= newest
  BY ArrivalsAreNear, Sizes DEF Collected, Lateness, Loss
<1>2. newest - B <= (n - 1) * D \/ (n >= 2 /\ newest - B <= FirstLate + (n - 2) * D)
  BY DEF Collected
<1>3. (InitCollect - 1) * D < W /\ FirstLate + (InitCollect - 2) * D < W
  BY ReachAssumption
<1>m. FirstLate < W
  BY Sizes
<1> HIDE DEF n, D
<1> DEFINE x0 == n * D
           x1 == (n - 1) * D
           x2 == (n - 2) * D
           y1 == (InitCollect - 1) * D
           y2 == (InitCollect - 2) * D
<1>4. x0 \in Int /\ x1 \in Int /\ x2 \in Int /\ y1 \in Int /\ y2 \in Int
  BY <1>1
<1>5. x0 = x1 + D /\ x1 = x2 + D
  BY <1>1
<1>6. x0 <= y1 /\ x1 <= y2 /\ x1 >= 0
  <2>1. (InitCollect - 1 - n) * D >= 0
    BY <1>1
  <2>2. y1 - x0 = (InitCollect - 1 - n) * D /\ y2 - x1 = (InitCollect - 1 - n) * D
    BY <1>1
  <2>3. x1 >= 0
    BY <1>1
  <2>q. QED BY <2>1, <2>2, <2>3, <1>4
<1>7. (n + 1) - 1 = n /\ (n + 1) - 2 = n - 1 /\ n + 1 >= 2
  BY <1>1
<1>8. newest - B <= x1 \/ (n >= 2 /\ newest - B <= FirstLate + x2)
  BY <1>2
<1>9. y1 < W /\ FirstLate + y2 < W
  BY <1>3
<1> HIDE DEF x0, x1, x2, y1, y2
<1>10. newest - B + D < W
  BY <1>1, <1>4, <1>5, <1>6, <1>8, <1>9
<1> DEFINE top == IF p > newest THEN p ELSE newest
           low == IF p < B THEN p ELSE B
<1>11. top - low <= x0 \/ top - low <= FirstLate + x1
  <2>1. CASE p < B
    BY <2>1, <1>1, <1>4, <1>6
  <2>2. CASE p >= B /\ p <= newest
    BY <2>2, <1>1, <1>4, <1>5, <1>6, <1>8
  <2>3. CASE p > newest
    BY <2>3, <1>1, <1>4, <1>5, <1>6, <1>8
  <2>q. QED BY <2>1, <2>2, <2>3, <1>1
<1>12. p - B < W /\ newest - B < W /\ newest - p < W /\ (p < B => newest - p <= FirstLate)
  BY <1>1, <1>10, <1>m
<1> HIDE DEF top, low
<1>13. \/ top - low <= ((n + 1) - 1) * D
       \/ n + 1 >= 2 /\ top - low <= FirstLate + ((n + 1) - 2) * D
  BY <1>7, <1>11 DEF x0, x1
<1>14. newest - B + FirstLoss + 1 < W
  BY <1>1, <1>10, Sizes DEF D
<1>q. QED BY <1>12, <1>13, <1>14 DEF n, D, top, low

\* A further packet of the collecting phase, with the flush that may end it.
LEMMA CollectingKeeps ==
    ASSUME IInv, Collecting
    PROVE  IInv' /\ Stream!HandOut /\ InTime
<1>1. PICK p \in Arrivals : win.phase = 1 /\ Take(p, Insert(win, p, FALSE))
  BY DEF Collecting
<1>2. newest \in Nat /\ last = -1 /\ \E B \in Nat : Holds(win, B, newest) /\ Collected(B)
  BY <1>1 DEF IInv, Collected, Fresh
<1>3. PICK B \in Nat : Holds(win, B, newest) /\ Collected(B)
  BY <1>2
<1>4. p \in Nat /\ newest - FirstLate <= p /\ p <= newest + 1 + FirstLoss
  BY <1>1, <1>2, ArrivalsAreNear DEF Lateness, Loss
<1> DEFINE n == win.count
           top == IF p > newest THEN p ELSE newest
           low == IF p < B THEN p ELSE B
           c == Collect(win, p)
<1>5. n \in 1..(InitCollect - 1) /\ n \in Nat /\ B <= newest /\ win.slots[B % W] = B /\ win.base = B % M
      /\ win \in Windows
  BY <1>3, Sizes DEF Collected, Holds
<1>6. /\ p - B < W /\ newest - B < W /\ newest - p < W
      /\ p < B => newest - p <= FirstLate
      /\ \/ top - low <= ((n + 1) - 1) * (FirstLoss + 1)
         \/ n + 1 >= 2 /\ top - low <= FirstLate + ((n + 1) - 2) * (FirstLoss + 1)
  BY <1>1, <1>2, <1>3, <1>5, CollectedFits
<1>7. /\ p % W \in Slots /\ p % M \in SeqNums /\ Slot(SeqNum(p)) = p % W /\ SeqNum(p) = p % M
      /\ B % W \in Slots
  BY <1>4, SlotOfPacket DEF SeqNum
<1> DEFINE res == InsertCollecting(win, p, FALSE)
<1>8. Insert(win, p, FALSE) = res
  BY <1>1 DEF Insert
<1>9. /\ win' = res.r /\ out' = res.out /\ last' = Stream!Newest(out', last) /\ newest' = top
  BY <1>1, <1>8 DEF Take
<1>a. res = IF c.count >= InitCollect THEN FlushConsecutive([c EXCEPT !.phase = 2], FALSE) ELSE Quiet(c)
  BY DEF InsertCollecting
<1>b. Quiet(c).r = c /\ Quiet(c).out = <<>>
  BY DEF Quiet
<1> HIDE DEF res
<1>10. /\ top \in Nat /\ low \in Nat /\ low <= p /\ low <= B /\ p <= top /\ newest <= top /\ low <= top
       /\ top < low + W
  BY <1>2, <1>4, <1>5, <1>6, Sizes
<1>q. QED
  <2>1. CASE win.slots[p % W] # NoPkt
    <3> DEFINE q == win.slots[p % W]
    <3>1. q \in Int /\ q % W = p % W /\ B <= q /\ q <= newest
      BY <1>3, <1>5, <1>7, <2>1 DEF Holds, Windows
    <3> HIDE DEF q
    <3>2. p - q < W /\ q - p < W
      BY <1>2, <1>4, <1>6, <3>1, Sizes
    <3>3. p = q
      <4>1. p \in Int /\ W \in Nat \ {0} /\ p % W = q % W
        BY <1>4, <3>1, Sizes
      <4>q. QED BY <3>1, <3>2, <4>1, ModSame
    <3>4. top = newest
      BY <1>2, <1>4, <3>1, <3>3
    <3>5. c = win
      BY <1>7, <2>1 DEF Collect
    <3>6. ~(win.count >= InitCollect)
      BY <1>5, Sizes
    <3>7. res = Quiet(c)
      BY <1>a, <3>5, <3>6
    <3> HIDE DEF top, low
    <3>8. win' = win /\ out' = <<>> /\ last' = last /\ newest' = newest
      <4>1. win' = win /\ out' = <<>> /\ newest' = newest
        BY <1>9, <1>b, <3>4, <3>5, <3>7
      <4>2. Stream!Newest(<<>>, last) = last
        BY DEF Stream!Newest
      <4>q. QED BY <1>9, <4>1, <4>2
    <3>9. Collected(B)' /\ Holds(win, B, newest)'
      BY <1>3, <3>8 DEF Collected, Holds
    <3>10. IInv'
      BY <1>1, <1>2, <3>8, <3>9 DEF IInv
    <3>11. Stream!HandOut /\ InTime
      BY <1>2, <3>8 DEF Stream!HandOut, Stream!Rising, Stream!Newest, InTime
    <3>q. QED BY <3>10, <3>11
  <2>2. CASE win.slots[p % W] = NoPkt
    <3> DEFINE w == [win EXCEPT !.base = low % M]
               d == [c EXCEPT !.phase = 2]
    <3>1. Ahead(SeqNum(p), win.base) = p - B
      <4>1. 2 * (p - B) < M - 1 /\ 2 * (B - p) < M
        BY <1>2, <1>4, <1>5, <1>6, Sizes
      <4>q. QED BY <1>4, <1>5, <4>1, AheadIsDistance
    <3>2. c = [Store(win, p) EXCEPT !.base = IF Ahead(SeqNum(p), @) < 0 THEN SeqNum(p) ELSE @]
      BY <1>7, <2>2 DEF Collect
    <3> HIDE DEF top, low
    <3>3. w \in Windows /\ w.base = low % M /\ w.slots = win.slots /\ w.count = n /\ w.phase = 1
          /\ low % M \in SeqNums
      <4>1. low % M \in SeqNums
        <5>1. low \in Int
          BY <1>10
        <5>q. QED BY <5>1, SlotOfPacket
      <4>q. QED BY <1>1, <1>5, <4>1 DEF Windows
    <3>4. c = Store(w, p)
      <4>1. low % M = IF Ahead(SeqNum(p), win.base) < 0 THEN SeqNum(p) ELSE win.base
        <5>1. p - B < 0 <=> p < B
          BY <1>4
        <5>q. QED BY <1>5, <1>7, <3>1, <5>1 DEF low
      <4>2. Store(win, p) = [win EXCEPT !.slots[p % W] = p, !.count = (@ + 1) % M]
            /\ Store(w, p) = [w EXCEPT !.slots[p % W] = p, !.count = (@ + 1) % M]
        BY <1>7 DEF Store
      <4>3. Store(win, p).base = win.base
        BY <1>5, <4>2 DEF Windows
      <4>4. c = [Store(win, p) EXCEPT !.base = low % M]
        BY <3>2, <4>1, <4>3, <4>2, <1>5 DEF Windows
      <4> DEFINE z == low % M
                 t == [win.slots EXCEPT ![p % W] = p]
                 k == (win.count + 1) % M
      <4>5. Store(win, p) = [slots |-> t, base |-> win.base, count |-> k, phase |-> win.phase]
            /\ Store(w, p) = [slots |-> t, base |-> z, count |-> k, phase |-> win.phase]
        BY <1>5, <4>2 DEF Windows
      <4> HIDE DEF z, t, k
      <4>6. c = [Store(win, p) EXCEPT !.base = z]
        BY <4>4 DEF z
      <4>q. QED BY <4>5, <4>6
    <3>5. Holds(w, low, top)
      <4>1. Holds(win, B, top)
        BY <1>2, <1>3, <1>10, NewerTop
      <4>2. ASSUME NEW i \in Slots, w.slots[i] # NoPkt
            PROVE  /\ w.slots[i] % W = i /\ low <= w.slots[i] /\ w.slots[i] <= top /\ w.slots[i] < low + W
        <5>1. /\ w.slots[i] \in Int /\ w.slots[i] % W = i
              /\ B <= w.slots[i] /\ w.slots[i] <= top
          BY <3>3, <4>1, <4>2 DEF Holds, Windows
        <5>q. QED BY <5>1, <1>10, Sizes
      <4>q. QED BY <3>3, <4>2 DEF Holds
    <3> HIDE DEF w, c
    <3>6. /\ Holds(c, low, top) /\ c.slots[p % W] = p
          /\ \A i \in Slots : i # p % W => c.slots[i] = win.slots[i]
          /\ c.phase = 1 /\ c.base = low % M /\ c.count = (n + 1) % M
      <4>1. p < low + W
        BY <1>4, <1>10, Sizes
      <4>q. QED BY <1>4, <1>10, <3>3, <3>4, <3>5, <4>1, StoreKeeps
    <3>7. (n + 1) % M = n + 1
      <4>1. n + 1 \in 0..(M - 1) /\ n + 1 = M * 0 + (n + 1) /\ n + 1 \in Int
        BY <1>5, Sizes
      <4>q. QED BY <4>1, Sizes, RemainderIs
    <3>8. c.slots[low % W] = low
      <4>1. CASE p < B
        BY <3>6, <4>1 DEF low
      <4>2. CASE ~(p < B)
        <5>1. low = B
          BY <4>2 DEF low
        <5>2. B % W # p % W
          BY <1>5, <2>2 DEF NoPkt
        <5>q. QED BY <1>5, <1>7, <3>6, <5>1, <5>2
      <4>q. QED BY <4>1, <4>2
    <3>9. CASE ~(c.count >= InitCollect)
      <4>1. res = Quiet(c)
        BY <1>a, <3>9
      <4>2. win' = c /\ out' = <<>> /\ last' = last /\ newest' = top
        <5>1. Stream!Newest(<<>>, last) = last
          BY DEF Stream!Newest
        <5>q. QED BY <1>9, <1>b, <4>1, <5>1
      <4>3. c.count = n + 1 /\ c.count \in 1..(InitCollect - 1)
        BY <1>5, <3>6, <3>7, <3>9, Sizes
      <4>4. Collected(low)'
        <5>1. \/ top - low <= (c.count - 1) * (FirstLoss + 1)
              \/ c.count >= 2 /\ top - low <= FirstLate + (c.count - 2) * (FirstLoss + 1)
          BY <1>6, <4>3 DEF top, low
        <5>q. QED BY <1>2, <1>10, <3>8, <4>2, <4>3, <5>1 DEF Collected
      <4>5. IInv'
        <5>1. newest' \in Nat /\ newest' # -1 /\ last' = -1 /\ win'.phase = 1 /\ Holds(win, low, newest)'
          BY <1>2, <1>10, <3>6, <4>2 DEF Holds
        <5>q. QED BY <4>4, <5>1, <1>10 DEF IInv
      <4>6. Stream!HandOut /\ InTime
        BY <1>2, <4>2 DEF Stream!HandOut, Stream!Rising, Stream!Newest, InTime
      <4>q. QED BY <4>5, <4>6
    <3>10. CASE c.count >= InitCollect
      <4>1. res = FlushConsecutive(d, FALSE)
        BY <1>a, <3>10
      <4>2. Holds(d, low, top) /\ d.phase = 2 /\ d.slots = c.slots /\ d.count = n + 1 /\ d.base = low % M
        BY <3>6, <3>7 DEF Holds, Windows
      <4> HIDE DEF d
      <4>3. At(d, 0) # NoPkt
        <5>1. At(d, 0) = d.slots[low % W]
          BY <1>10, <4>2, AtBase
        <5>q. QED BY <1>10, <3>8, <4>2, <5>1 DEF NoPkt
      <4>4. d.count > 0
        BY <1>5, <4>2
      <4> DEFINE f == FlushConsecutive(d, FALSE)
      <4>5. PICK m \in 0..W :
              /\ Holds(f.r, low + m, top) /\ f.r.phase = d.phase
              /\ f.out = [k \in 1..m |-> low + (k - 1)]
              /\ m > 0 => low + (m - 1) <= top
              /\ d.count > 0 /\ At(d, 0) # NoPkt => m > 0
        <5>1. low \in Nat /\ top \in Int
          BY <1>10
        <5> HIDE DEF n
        <5>q. QED BY <5>1, <4>2, FlushKeeps
      <4>6. win' = f.r /\ out' = f.out /\ last' = Stream!Newest(out', last) /\ newest' = top
        BY <1>9, <4>1
      <4> HIDE DEF f
      <4>7. m \in Nat /\ m > 0 /\ low + m \in Nat /\ low + (m - 1) <= top
        BY <1>10, <4>3, <4>4, <4>5, Sizes
      <4>8. /\ Stream!HandOut /\ InTime
            /\ last' \in Nat \union {-1} /\ last' < low + m
            /\ last' # -1 /\ last' + 1 < low + m => top - (low + m - 1) >= W
        <5>1. last < low /\ top \in Int /\ out' = [k \in 1..m |-> low + (k - 1)]
          BY <1>2, <1>10, <4>5, <4>6
        <5>q. QED BY <1>2, <1>10, <4>6, <4>7, <5>1, RunIsInOrder
      <4>9. Delivered(low + m)'
        <5>1. (low + m) - 1 <= top /\ top < (low + m) + W /\ (low + m) - 1 = low + m - 1
          BY <1>10, <4>7, Sizes
        <5>q. QED BY <4>6, <4>8, <5>1 DEF Delivered
      <4>10. IInv'
        <5>1. newest' \in Nat /\ newest' # -1 /\ win'.phase = 2 /\ Holds(win, low + m, newest)'
          BY <1>10, <4>2, <4>5, <4>6 DEF Holds
        <5>q. QED BY <4>7, <4>8, <4>9, <5>1 DEF IInv
      <4>q. QED BY <4>8, <4>10
    <3>q. QED BY <3>9, <3>10
  <2>q. QED BY <2>1, <2>2

-----------------------------------------------------------------------------
\* What the window and the network make of a packet once delivery has begun.
LEMMA WhileDelivering ==
    ASSUME IInv, win.phase = 2, NEW p \in Arrivals
    PROVE  /\ p \in Nat /\ newest \in Nat /\ last \in Nat \union {-1}
           /\ \E B \in Nat :
                 /\ Holds(win, B, newest) /\ Delivered(B)
                 /\ Ahead(SeqNum(p), win.base) = p - B
                 /\ p - B <= W + MaxLoss
<1>1. newest \in Nat /\ last \in Nat \union {-1} /\ \E B \in Nat : Holds(win, B, newest) /\ Delivered(B)
  BY DEF IInv, Fresh
<1>2. PICK B \in Nat : Holds(win, B, newest) /\ Delivered(B)
  BY <1>1
<1>3. p \in Nat /\ newest - MaxLate <= p /\ p <= newest + 1 + MaxLoss
  BY <1>1, ArrivalsAreNear DEF Lateness, Loss
<1>4. B - 1 <= newest /\ newest < B + W /\ win.base = B % M
  BY <1>2 DEF Delivered, Holds
<1>5. p - B <= W + MaxLoss /\ B - p <= MaxLate + 1
  BY <1>1, <1>3, <1>4, Sizes
<1>6. 2 * (p - B) < M - 1 /\ 2 * (B - p) < M
  BY <1>3, <1>5, Sizes
<1>7. Ahead(SeqNum(p), win.base) = p - B
  BY <1>3, <1>4, <1>6, AheadIsDistance
<1>q. QED BY <1>1, <1>2, <1>3, <1>5, <1>7

\* Which case of rtp_reorder_insert() it is then: the guards exclude each other.
LEMMA InsertCases ==
    ASSUME win.phase = 2, NEW p, NEW d \in Int, d = Ahead(SeqNum(p), win.base)
    PROVE  /\ d = 0 => Insert(win, p, FALSE) = InsertExpected(win, p, FALSE)
           /\ d < 0 => Insert(win, p, FALSE) = Quiet(win)
           /\ d \in 1..(W - 1) => Insert(win, p, FALSE) = InsertAhead(win, p)
           /\ d >= W => Insert(win, p, FALSE) = InsertBeyond(win, p)
<1> DEFINE x == InsertExpected(win, p, FALSE)
           y == InsertCollecting(win, p, FALSE)
           z == InsertBeyond(win, p)
           u == InsertAhead(win, p)
           v == InsertFirst(win, p)
           q == Quiet(win)
           zero == d = 0
           behind == d < 0
           within == d > 0 /\ d < W
           beyond == d >= W
<1>1. Insert(win, p, FALSE) =
        CASE win.phase = 0 -> v
          [] win.phase = 1 -> y
          [] win.phase = 2 /\ zero -> x
          [] win.phase = 2 /\ behind -> q
          [] win.phase = 2 /\ within -> u
          [] win.phase = 2 /\ beyond -> z
  BY DEF Insert
<1>2. /\ zero => ~behind /\ ~within /\ ~beyond
      /\ behind => ~zero /\ ~within /\ ~beyond
      /\ within => ~zero /\ ~behind /\ ~beyond
      /\ beyond => ~zero /\ ~behind /\ ~within
  BY Sizes
<1>3. d \in 1..(W - 1) => within
  BY Sizes
<1>4. ~(win.phase = 0) /\ ~(win.phase = 1)
  OBVIOUS
<1> HIDE DEF x, y, z, u, v, q, zero, behind, within, beyond
<1>5. zero => Insert(win, p, FALSE) = x
  BY <1>1, <1>2, <1>4
<1>6. behind => Insert(win, p, FALSE) = q
  BY <1>1, <1>2, <1>4
<1>7. within => Insert(win, p, FALSE) = u
  BY <1>1, <1>2, <1>4
<1>8. beyond => Insert(win, p, FALSE) = z
  BY <1>1, <1>2, <1>4
<1>q. QED BY <1>3, <1>5, <1>6, <1>7, <1>8 DEF x, z, u, q, zero, behind, within, beyond

\* What a step that delivers is: the window moves up, by a run of packets.
LEMMA RunKeeps ==
    ASSUME NEW t \in Nat, newest' = t, last \in Nat \union {-1}, win'.phase = 2,
           NEW B \in Nat, last < B, NEW n \in Nat, Holds(win, B + n, newest)',
           out' = [k \in 1..n |-> B + (k - 1)], last' = Stream!Newest(out', last),
           last # -1 /\ last + 1 < B => t - (B - 1) >= W,
           B + n - 1 <= t, t < B + n + W
    PROVE  IInv' /\ Stream!HandOut /\ InTime
<1>1. /\ Stream!HandOut /\ InTime
      /\ last' \in Nat \union {-1} /\ last' < B + n
      /\ last' # -1 /\ last' + 1 < B + n => t - (B + n - 1) >= W
  <2>1. t \in Int
    OBVIOUS
  <2>q. QED BY <2>1, RunIsInOrder
<1>2. Delivered(B + n)'
  BY <1>1 DEF Delivered
<1>3. B + n \in Nat /\ newest' \in Nat /\ newest' # -1
  OBVIOUS
<1>q. QED BY <1>1, <1>2, <1>3 DEF IInv

\* What is still due when the newest packet becomes newer.
LEMMA StillDue ==
    ASSUME newest \in Nat, NEW t \in Nat, newest <= t, NEW B \in Nat, Delivered(B)
    PROVE  last # -1 /\ last + 1 < B => t - (B - 1) >= W
<1>1. SUFFICES ASSUME last # -1 /\ last + 1 < B PROVE t - (B - 1) >= W
  OBVIOUS
<1>2. newest - (B - 1) >= W
  BY <1>1 DEF Delivered
<1>3. newest - (B - 1) <= t - (B - 1) /\ newest - (B - 1) \in Int /\ t - (B - 1) \in Int
  OBVIOUS
<1>4. W \in Int
  BY Sizes
<1>q. QED BY <1>2, <1>3, <1>4

\* The packet at base, and those behind it.
LEMMA ExpectedKeeps ==
    ASSUME IInv, Expected
    PROVE  IInv' /\ Stream!HandOut /\ InTime
<1>1. PICK p \in Arrivals :
         win.phase = 2 /\ Ahead(SeqNum(p), win.base) = 0 /\ Take(p, Insert(win, p, FALSE))
  BY DEF Expected
<1> DEFINE top == IF p > newest THEN p ELSE newest
           res == InsertExpected(win, p, FALSE)
<1>2. /\ p \in Nat /\ newest \in Nat /\ last \in Nat \union {-1}
      /\ \E B \in Nat : /\ Holds(win, B, newest) /\ Delivered(B)
                        /\ Ahead(SeqNum(p), win.base) = p - B /\ p - B <= W + MaxLoss
  BY <1>1, WhileDelivering
<1>3. PICK B \in Nat : /\ Holds(win, B, newest) /\ Delivered(B)
                       /\ Ahead(SeqNum(p), win.base) = p - B /\ p - B <= W + MaxLoss
  BY <1>2
<1>4. p = B
  BY <1>1, <1>2, <1>3
<1>5. Insert(win, p, FALSE) = res
  <2>1. 0 \in Int
    OBVIOUS
  <2>q. QED BY <1>1, <2>1, InsertCases
<1>6. win' = res.r /\ out' = res.out /\ last' = Stream!Newest(out', last) /\ newest' = top
  BY <1>1, <1>5 DEF Take
<1>7. top \in Nat /\ newest <= top /\ B <= top /\ top < B + W
  BY <1>2, <1>3, <1>4, Sizes DEF Delivered
<1>8. res = IF win.count = 0 /\ ~FALSE /\ At(win, 0) = NoPkt
            THEN [r |-> [win EXCEPT !.base = (@ + 1) % M], out |-> <<p>>]
            ELSE FlushConsecutive(Store(win, p), FALSE)
  BY DEF InsertExpected
<1> HIDE DEF res, top
<1>9. last < B /\ (last # -1 /\ last + 1 < B => top - (B - 1) >= W)
  BY <1>2, <1>3, <1>7, StillDue DEF Delivered
<1>10. CASE win.count = 0 /\ At(win, 0) = NoPkt
  <2> DEFINE r == [win EXCEPT !.base = (@ + 1) % M]
  <2>1. win' = r /\ out' = <<p>>
    BY <1>6, <1>8, <1>10
  <2>2. (win.base + 1) % M = (B + 1) % M /\ (B + 1) % M \in SeqNums
    <3>1. win.base = B % M /\ B \in Int /\ 1 \in Int /\ B + 1 \in Int
      BY <1>3 DEF Holds
    <3>q. QED BY <3>1, SlotOfPacket
  <2>3. r \in Windows /\ r.base = (B + 1) % M /\ r.slots = win.slots /\ r.phase = 2
    BY <1>1, <1>3, <2>2 DEF Holds, Windows
  <2> HIDE DEF r
  <2>4. win.slots[B % W] = NoPkt
    BY <1>2, <1>3, <1>10, AtBase
  <2>5. ASSUME NEW i \in Slots, r.slots[i] # NoPkt
        PROVE  /\ r.slots[i] % W = i /\ B + 1 <= r.slots[i]
               /\ r.slots[i] <= top /\ r.slots[i] < B + 1 + W
    <3>1. /\ r.slots[i] \in Int /\ r.slots[i] % W = i
          /\ B <= r.slots[i] /\ r.slots[i] <= newest /\ r.slots[i] < B + W
      BY <1>3, <2>3, <2>5 DEF Holds, Windows
    <3>2. r.slots[i] # B
      BY <2>3, <2>4, <2>5, <3>1
    <3>q. QED BY <1>2, <1>7, <3>1, <3>2, Sizes
  <2>6. Holds(r, B + 1, top)
    BY <2>3, <2>5 DEF Holds
  <2>7. out' = [k \in 1..1 |-> B + (k - 1)]
    <3>1. 1..1 = {1} /\ B + (1 - 1) = B
      OBVIOUS
    <3>2. <<p>> = [k \in 1..1 |-> p]
      OBVIOUS
    <3>3. \A k \in 1..1 : B + (k - 1) = p
      BY <1>4
    <3>q. QED BY <2>1, <3>2, <3>3
  <2>8. Holds(win, B + 1, newest)'
    BY <1>6, <2>1, <2>6 DEF Holds
  <2>9. win'.phase = 2 /\ B + 1 - 1 <= top /\ top < B + 1 + W /\ 1 \in Nat
    BY <1>7, <2>1, <2>3, Sizes
  <2>q. QED BY <1>2, <1>6, <1>7, <1>9, <2>7, <2>8, <2>9, RunKeeps
<1>11. CASE ~(win.count = 0 /\ At(win, 0) = NoPkt)
  <2> DEFINE d == Store(win, p)
             f == FlushConsecutive(d, FALSE)
  <2>1. win' = f.r /\ out' = f.out
    BY <1>6, <1>8, <1>11
  <2>2. Holds(win, B, top)
    BY <1>2, <1>3, <1>7, NewerTop
  <2>3. Holds(d, B, top) /\ d.phase = 2
    <3>1. p < B + W /\ B <= p /\ p <= top /\ top \in Int
      BY <1>4, <1>7, Sizes
    <3>q. QED BY ZenonT(60), <1>1, <1>2, <2>2, <3>1, StoreKeeps
  <2> HIDE DEF d
  <2>4. PICK m \in 0..W :
          /\ Holds(f.r, B + m, top) /\ f.r.phase = d.phase
          /\ f.out = [k \in 1..m |-> B + (k - 1)]
          /\ m > 0 => B + (m - 1) <= top
          /\ d.count > 0 /\ At(d, 0) # NoPkt => m > 0
    <3>1. top \in Int
      BY <1>7
    <3>q. QED BY <3>1, <2>3, FlushKeeps
  <2> HIDE DEF f
  <2>5. m \in Nat /\ B + m - 1 <= top /\ top < B + m + W
    <3>1. m \in Nat
      BY Sizes
    <3>2. m = 0 \/ B + (m - 1) <= top
      BY <2>4, <3>1
    <3>q. QED BY <1>7, <3>1, <3>2, Sizes
  <2>6. win'.phase = 2 /\ Holds(win, B + m, newest)' /\ out' = [k \in 1..m |-> B + (k - 1)]
    BY <1>6, <2>1, <2>3, <2>4 DEF Holds
  <2>q. QED BY <1>2, <1>6, <1>7, <1>9, <2>5, <2>6, RunKeeps
<1>q. QED BY <1>10, <1>11

\* A packet behind base is dropped, one that fits is kept.
LEMMA QuietKeeps ==
    ASSUME IInv, Late \/ Early
    PROVE  IInv' /\ Stream!HandOut /\ InTime
<1>1. PICK p \in Arrivals :
         /\ win.phase = 2 /\ Take(p, Insert(win, p, FALSE))
         /\ Ahead(SeqNum(p), win.base) < 0 \/ Ahead(SeqNum(p), win.base) \in 1..(W - 1)
  BY DEF Late, Early
<1> DEFINE top == IF p > newest THEN p ELSE newest
           d == Ahead(SeqNum(p), win.base)
<1>2. /\ p \in Nat /\ newest \in Nat /\ last \in Nat \union {-1}
      /\ \E B \in Nat : /\ Holds(win, B, newest) /\ Delivered(B)
                        /\ Ahead(SeqNum(p), win.base) = p - B /\ p - B <= W + MaxLoss
  BY <1>1, WhileDelivering
<1>3. PICK B \in Nat : /\ Holds(win, B, newest) /\ Delivered(B)
                       /\ d = p - B /\ p - B <= W + MaxLoss
  BY <1>2
<1>4. d \in Int
  BY <1>2, <1>3
<1>5. \/ Insert(win, p, FALSE) = Quiet(win)
      \/ Insert(win, p, FALSE) = InsertAhead(win, p) /\ ~(d < 0)
  <2> DEFINE e == d
  <2>1. e < 0 \/ e \in 1..(W - 1)
    BY <1>1
  <2>2. e \in Int /\ e = Ahead(SeqNum(p), win.base)
    BY <1>4
  <2>3. d = e
    OBVIOUS
  <2> HIDE DEF e, d
  <2>4. e \in 1..(W - 1) => ~(e < 0)
    BY Sizes
  <2>q. QED BY <1>1, <2>1, <2>2, <2>3, <2>4, InsertCases
<1>6. Quiet(win).r = win /\ Quiet(win).out = <<>>
      /\ Quiet(Store(win, p)).r = Store(win, p) /\ Quiet(Store(win, p)).out = <<>>
  BY DEF Quiet
<1>7. /\ win' = win \/ (win' = Store(win, p) /\ ~(d < 0))
      /\ out' = <<>> /\ last' = Stream!Newest(out', last) /\ newest' = top
  <2> DEFINE res == Insert(win, p, FALSE)
  <2>1. res = Quiet(win) \/ (res = Quiet(Store(win, p)) /\ ~(d < 0))
    BY <1>5 DEF InsertAhead
  <2>2. win' = res.r /\ out' = res.out /\ last' = Stream!Newest(out', last) /\ newest' = top
    BY <1>1 DEF Take
  <2> HIDE DEF res
  <2>q. QED BY <1>6, <2>1, <2>2
<1>8. top \in Nat /\ newest <= top /\ p <= top /\ B - 1 <= top /\ top < B + W
  <2>1. p < B + W
    BY <1>1, <1>2, <1>3, Sizes
  <2>q. QED BY <1>2, <1>3, <2>1, Sizes DEF Delivered
<1>9. ~(d < 0) => B <= p /\ p < B + W
  BY <1>1, <1>2, <1>3, Sizes
<1> HIDE DEF top, d
<1>10. last < B /\ (last # -1 /\ last + 1 < B => top - (B - 1) >= W)
  BY <1>2, <1>3, <1>8, StillDue DEF Delivered
<1>11. Holds(win, B, top)
  BY <1>2, <1>3, <1>8, NewerTop
<1>12. Holds(win, B, newest)' /\ win'.phase = 2
  <2>1. CASE win' = win
    BY <1>1, <1>7, <1>11, <2>1 DEF Holds
  <2>2. CASE win' = Store(win, p) /\ ~(d < 0)
    <3>1. Holds(Store(win, p), B, top) /\ Store(win, p).phase = win.phase
      BY <1>2, <1>8, <1>9, <1>11, <2>2, StoreKeeps
    <3>q. QED BY <1>1, <1>7, <2>2, <3>1 DEF Holds
  <2>q. QED BY <1>7, <2>1, <2>2
<1>13. B + 0 = B /\ B + 0 - 1 <= top /\ top < B + 0 + W /\ 0 \in Nat
  BY <1>8, Sizes
<1>14. out' = [k \in 1..0 |-> B + (k - 1)]
  BY <1>7
<1>q. QED BY <1>2, <1>7, <1>8, <1>10, <1>12, <1>13, <1>14, RunKeeps

\* A packet beyond the window pushes it up, just far enough.
LEMMA BeyondKeeps ==
    ASSUME IInv, Beyond
    PROVE  IInv' /\ Stream!HandOut /\ InTime
<1>1. PICK p \in Arrivals :
         win.phase = 2 /\ Ahead(SeqNum(p), win.base) >= W /\ Take(p, Insert(win, p, FALSE))
  BY DEF Beyond
<1> DEFINE d == Ahead(SeqNum(p), win.base)
           made == ForceFlushUntil(win, SeqNum(p))
           res == InsertBeyond(win, p)
<1>2. /\ p \in Nat /\ newest \in Nat /\ last \in Nat \union {-1}
      /\ \E B \in Nat : /\ Holds(win, B, newest) /\ Delivered(B)
                        /\ Ahead(SeqNum(p), win.base) = p - B /\ p - B <= W + MaxLoss
  BY <1>1, WhileDelivering
<1>3. PICK B \in Nat : /\ Holds(win, B, newest) /\ Delivered(B)
                       /\ d = p - B /\ p - B <= W + MaxLoss
  BY <1>2
<1> DEFINE n == p - B - W + 1
<1>4. n \in Nat /\ B + n \in Nat /\ B + n = p - W + 1 /\ newest < p
  <2>1. p - B >= W
    BY <1>1, <1>3
  <2>2. newest < B + W
    BY <1>3 DEF Delivered
  <2>q. QED BY <1>2, <1>3, <2>1, <2>2, Sizes
<1>5. Insert(win, p, FALSE) = res
  <2> DEFINE e == d
  <2>1. e >= W /\ e \in Int /\ e = Ahead(SeqNum(p), win.base)
    BY <1>1, <1>2, <1>3
  <2> HIDE DEF e
  <2>q. QED BY <1>1, <2>1, InsertCases
<1>6. win' = res.r /\ out' = res.out /\ last' = Stream!Newest(out', last) /\ newest' = p
  BY <1>1, <1>2, <1>4, <1>5 DEF Take
<1>7. made = Advance(win, n)
  <2>1. d - W + 1 = n
    BY <1>2, <1>3, Sizes
  <2>q. QED BY <2>1 DEF ForceFlushUntil
<1> HIDE DEF n, d
<1>8. PICK m \in Nat :
         /\ Holds(made.r, B + n, newest) /\ made.r.phase = win.phase
         /\ DOMAIN made.out = 1..m /\ made.out \in Seq(Nat)
         /\ \A i \in 1..m : B <= made.out[i] /\ made.out[i] < B + n
         /\ \A i, j \in 1..m : i < j => made.out[i] < made.out[j]
  <2>1. newest \in Int
    BY <1>2
  <2> HIDE DEF made
  <2>q. QED BY <1>3, <1>4, <1>7, <2>1, AdvanceKeeps
<1>9. /\ res.out = made.out
      /\ res.r = made.r \/ res.r = Store(made.r, p)
  <2>1. /\ [made EXCEPT !.r = InsertAhead(made.r, p).r].out = made.out
        /\ [made EXCEPT !.r = InsertAhead(made.r, p).r].r = InsertAhead(made.r, p).r
    <3>1. made = [r |-> made.r, out |-> made.out]
      BY <1>7 DEF Advance
    <3> HIDE DEF made
    <3>q. QED BY <3>1
  <2>2. InsertAhead(made.r, p).r = made.r \/ InsertAhead(made.r, p).r = Store(made.r, p)
    <3> HIDE DEF made
    <3>q. QED BY DEF InsertAhead, Quiet
  <2>q. QED BY <2>1, <2>2 DEF InsertBeyond
<1> HIDE DEF res, made
<1>10. Holds(win, B + n, newest)' /\ win'.phase = 2
  <2>1. Holds(made.r, B + n, p)
    BY <1>2, <1>4, <1>8, NewerTop
  <2>2. Holds(Store(made.r, p), B + n, p) /\ Store(made.r, p).phase = made.r.phase
    <3>1. B + n <= p /\ p <= p /\ p < B + n + W /\ p \in Int
      BY <1>2, <1>4, Sizes
    <3>2. PICK k : k = B + n /\ k \in Nat
      BY <1>4
    <3>3. Holds(made.r, k, p) /\ k <= p /\ p <= p /\ p < k + W /\ p \in Int /\ p \in Nat
      BY ONLY <1>2, <2>1, <3>1, <3>2
    <3>4. Holds(Store(made.r, p), k, p) /\ Store(made.r, p).phase = made.r.phase
      BY ONLY <3>2, <3>3, StoreKeeps
    <3>q. QED BY ONLY <3>2, <3>4
  <2>q. QED BY <1>1, <1>6, <1>8, <1>9, <2>1, <2>2 DEF Holds
<1>11. p - (B + n - 1) >= W /\ B <= B + n /\ last < B
  <2>2. W >= W /\ W \in Int
    BY Sizes
  <2>3. p - (B + n - 1) = W
    BY <1>2, <1>4, <2>2
  <2>4. B <= B + n
    BY <1>4
  <2>5. last < B
    BY <1>3 DEF Delivered
  <2>q. QED BY <2>2, <2>3, <2>4, <2>5
<1>12. /\ Stream!HandOut /\ InTime
       /\ last' \in Nat \union {-1} /\ last' < B + n
  <2>1. out' = made.out
    BY <1>6, <1>9
  <2>2. p \in Int /\ newest' = p /\ last' = Stream!Newest(out', last)
    BY <1>2, <1>6
  <2>3. DOMAIN out' = 1..m /\ out' \in Seq(Nat)
    BY <1>8, <2>1
  <2>4. \A i \in 1..m : B <= out'[i] /\ out'[i] < B + n
    BY <1>8, <2>1
  <2>5. \A i, j \in 1..m : i < j => out'[i] < out'[j]
    BY <1>8, <2>1
  <2> DEFINE C == B + n
  <2>6. C \in Nat /\ B <= C /\ p - (C - 1) >= W /\ \A i \in 1..m : B <= out'[i] /\ out'[i] < C
    BY <1>4, <1>11, <2>4
  <2> HIDE DEF C
  <2>7. Stream!HandOut /\ InTime /\ last' \in Nat \union {-1} /\ last' < C
    BY <1>2, <1>11, <2>2, <2>3, <2>5, <2>6, PassedIsInOrder
  <2>q. QED BY <2>7 DEF C
<1>13. Delivered(B + n)'
  <2>1. (B + n) - 1 <= p /\ p < (B + n) + W /\ (B + n) - 1 = B + n - 1
    BY <1>2, <1>4, Sizes
  <2>q. QED BY <1>6, <1>11, <1>12, <2>1 DEF Delivered
<1>q. QED BY <1>2, <1>4, <1>6, <1>10, <1>12, <1>13 DEF IInv

-----------------------------------------------------------------------------
\* Every step keeps the invariant, and shows what it should.
LEMMA StepKeeps ==
    ASSUME IInv, Next
    PROVE  IInv' /\ Stream!HandOut /\ InTime
BY StartKeeps, CollectingKeeps, ExpectedKeeps, QuietKeeps, BeyondKeeps DEF Next

\* The window is as it should be from the start.
LEMMA InitIsRight ==
    Init => IInv
BY DEF Init, IInv

\* At every moment of a stream.
LEMMA AlwaysRight ==
    Spec => []IInv
<1>1. IInv /\ [Next]_vars => IInv'
  <2>1. IInv /\ UNCHANGED vars => IInv'
    BY DEF vars, IInv, Holds, Collected, Delivered
  <2>q. QED BY <2>1, StepKeeps
<1>q. QED BY <1>1, InitIsRight, PTL DEF Spec

\* What leaves the window implements InOrderDelivery: in the source's order,
\* each packet once, also where numbers wrap (rtp_reorder_insert()).
THEOREM DeliveryIsInOrder ==
    Spec => InOrderOnce
<1>1. Init => Stream!Init
  BY DEF Init, Stream!Init
<1>2. IInv /\ [Next]_vars => [Stream!HandOut]_<<last, out>>
  BY StepKeeps DEF vars
<1>q. QED BY <1>1, <1>2, AlwaysRight, PTL DEF Spec, InOrderOnce, Stream!Spec

\* A packet that comes within the window is never passed over (the window moves
\* up in force_flush_until() only as far as the newest needs).
THEOREM NothingIsSkippedTooSoon ==
    Spec => NoPrematureSkip
<1>1. IInv /\ [Next]_vars => [InTime]_vars
  BY StepKeeps DEF vars
<1>q. QED BY <1>1, AlwaysRight, PTL DEF Spec, NoPrematureSkip, InTime
=============================================================================
