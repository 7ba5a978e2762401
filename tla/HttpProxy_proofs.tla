-------------------------- MODULE HttpProxy_proofs --------------------------
(***************************************************************************)
(* What holds of every relayed answer, for all sizes of buffers, pools,    *)
(* queues and bodies: a client is answered once, and a server that is held *)
(* back is resumed.                                                        *)
(***************************************************************************)
EXTENDS HttpProxy, Lemmas

\* The values of a connection and of the pool.
Kinds == {"head", "body", "503"}

Conns == [state : {"streaming", "closing", "closed"}, queue : Seq(BufferType),
          armed : BOOLEAN, scheduled : BOOLEAN, headersSent : BOOLEAN,
          avg : Nat, slow : BOOLEAN, since : {"none", "new", "old"}]

Pools == [num : 0..MaxBuffers, free : Nat, dry : BOOLEAN]

-----------------------------------------------------------------------------
(* The pool, the limit and a single buffer. *)

\* The sizes that matter.
LEMMA Sizes ==
    /\ InitialBuffers \in Nat \ {0} /\ ExpandBuffers \in Nat \ {0} /\ MinBuffers \in Nat \ {0}
    /\ BufferUnits \in Nat \ {0} /\ BatchUnits \in Nat \ {0} /\ WriteBudget \in Nat \ {0}
    /\ LowWatermark \in Nat /\ MaxBuffers \in Nat /\ InitialBuffers <= MaxBuffers
    /\ LowWatermark < ExpandBuffers
BY ConnectionAssumption

\* The lesser of two numbers.
LEMMA MinOfTwo ==
    ASSUME NEW a \in Int, NEW b \in Int
    PROVE  Min({a, b}) = IF a <= b THEN a ELSE b
<1> DEFINE m == IF a <= b THEN a ELSE b
           Least(x) == x \in {a, b} /\ \A y \in {a, b} : x <= y
<1>1. Least(m)
  OBVIOUS
<1>2. \A x : Least(x) => x = m
  OBVIOUS
<1>3. Min({a, b}) = CHOOSE x \in {a, b} : \A y \in {a, b} : x <= y
  BY DEF Min
<1>q. QED BY <1>1, <1>2, <1>3

\* buffer_pool_expand() after itself does nothing: what it adds lifts the pool
\* above the low mark, unless the pool is at its greatest size.
LEMMA ExpandedOnce ==
    ASSUME NEW p \in Pools, NEW e, e = Expanded(p)
    PROVE  e \in Pools /\ Expanded(e) = e
<1> DEFINE more == Min({ExpandBuffers, MaxBuffers - p.num})
<1>1. p.num \in Nat /\ p.num <= MaxBuffers /\ p.free \in Nat /\ MaxBuffers - p.num \in Nat
  BY Sizes DEF Pools
<1>2. CASE p.free > LowWatermark /\ p.free > 0
  BY <1>2 DEF Expanded
<1>3. CASE ~(p.free > LowWatermark /\ p.free > 0)
  <2>1. more = IF ExpandBuffers <= MaxBuffers - p.num THEN ExpandBuffers ELSE MaxBuffers - p.num
    BY <1>1, Sizes, MinOfTwo
  <2>2. e = [p EXCEPT !.num = @ + more, !.free = @ + more]
    BY <1>3 DEF Expanded
  <2> HIDE DEF more
  <2>3. more \in Nat /\ p.num + more <= MaxBuffers
    BY <1>1, <2>1, Sizes
  <2>4. e.num = p.num + more /\ e.free = p.free + more /\ e \in Pools
    <3> DEFINE a == p.num + more
               b == p.free + more
    <3>1. a \in 0..MaxBuffers /\ b \in Nat
      BY <1>1, <2>3, Sizes
    <3>2. e = [p EXCEPT !.num = a, !.free = b]
      BY <2>2
    <3> HIDE DEF a, b
    <3>3. e.num = a /\ e.free = b /\ e \in Pools
      BY <3>1, <3>2 DEF Pools
    <3>q. QED BY <3>3 DEF a, b
  <2>5. CASE more = ExpandBuffers
    <3>1. e.free > LowWatermark /\ e.free > 0
      BY <1>1, <2>4, <2>5, Sizes
    <3>q. QED BY <2>4, <3>1 DEF Expanded
  <2>6. CASE more # ExpandBuffers
    <3>1. MaxBuffers - e.num = 0
      BY <1>1, <2>1, <2>4, <2>6, Sizes
    <3>2. Min({ExpandBuffers, MaxBuffers - e.num}) = 0
      BY <3>1, MinOfTwo, Sizes
    <3>3. [e EXCEPT !.num = @ + 0, !.free = @ + 0] = e
      <4>1. e.num + 0 = e.num /\ e.free + 0 = e.free
        BY <2>4 DEF Pools
      <4>q. QED BY <2>4, <4>1 DEF Pools
    <3>q. QED BY <2>4, <3>2, <3>3 DEF Expanded
  <2>q. QED BY <2>4, <2>5, <2>6
<1>q. QED BY <1>2, <1>3

\* An allocation that is given back leaves the pool as a second one finds it.
LEMMA AllocTwice ==
    ASSUME NEW p \in Pools, NEW q, q = Alloc(p)
    PROVE  /\ q \in Pools
           /\ CanAlloc(p) => /\ Put(q, 1) \in Pools /\ CanAlloc(Put(q, 1))
                             /\ Alloc(Put(q, 1)) = q
           /\ ~CanAlloc(p) => ~CanAlloc(q)
<1>1. PICK e : e = Expanded(p)
  OBVIOUS
<1>2. e \in Pools /\ Expanded(e) = e
  BY <1>1, ExpandedOnce
<1>3. e.free \in Nat /\ e.num \in 0..MaxBuffers /\ e.dry \in BOOLEAN
  BY <1>2 DEF Pools
<1>4. CASE e.free = 0
  <2>1. q = [e EXCEPT !.dry = TRUE] /\ ~CanAlloc(p)
    BY <1>1, <1>3, <1>4 DEF Alloc, CanAlloc
  <2>2. q \in Pools /\ q.free = 0 /\ q.num = e.num
    BY <1>2, <1>4, <2>1 DEF Pools
  <2>3. Expanded(q).free = 0
    <3> DEFINE more == Min({ExpandBuffers, MaxBuffers - e.num})
    <3>1. Expanded(e) = [e EXCEPT !.num = @ + more, !.free = @ + more]
      BY <1>3, <1>4, Sizes DEF Expanded
    <3>2. Expanded(q) = [q EXCEPT !.num = @ + more, !.free = @ + more]
      BY <1>3, <2>2, Sizes DEF Expanded
    <3> HIDE DEF more
    <3>3. e.free + more = 0
      BY <1>2, <1>4, <3>1 DEF Pools
    <3>q. QED BY <1>4, <2>2, <3>2, <3>3 DEF Pools
  <2>q. QED BY <2>1, <2>2, <2>3 DEF CanAlloc
<1>5. CASE e.free # 0
  <2>1. q = [e EXCEPT !.free = @ - 1] /\ CanAlloc(p)
    BY <1>1, <1>3, <1>5 DEF Alloc, CanAlloc
  <2>2. q \in Pools
    BY <1>2, <1>3, <1>5, <2>1 DEF Pools
  <2>3. Put(q, 1) = e
    <3>1. Put(q, 1) = [q EXCEPT !.free = @ + 1]
      BY DEF Put
    <3>2. (e.free - 1) + 1 = e.free
      BY <1>3
    <3>q. QED BY <1>2, <2>1, <3>1, <3>2 DEF Pools
  <2>4. Alloc(e) = q /\ CanAlloc(e)
    BY <1>2, <1>3, <1>5, <2>1 DEF Alloc, CanAlloc
  <2>q. QED BY <1>2, <2>1, <2>2, <2>3, <2>4
<1>q. QED BY <1>4, <1>5

\* buffer_pool_put().
LEMMA PutGood ==
    ASSUME NEW p \in Pools, NEW n \in Nat
    PROVE  Put(p, n) \in Pools
<1>1. PICK m \in Nat : m = p.free + n
  BY DEF Pools
<1>2. Put(p, n) = [p EXCEPT !.free = m]
  BY <1>1 DEF Put
<1>q. QED BY <1>2 DEF Pools

\* A client that is not slow, and will not be found slow in this call.
Calm(c) == ~c.slow /\ c.since # "old"

\* The pool or the limit of a client's queue refuses one more buffer.
Refuses(c, p) ==
    \/ ~CanAlloc(p)
    \/ Memory(c) + 10 > LimitBytes(Fair(Alloc(p)), Burst(Alloc(p)))

Stuck(c, p) == Calm(c) /\ Refuses(c, p)

\* connection_update_queue_limit() changes what it has learned of the client's
\* pace and nothing else, and does not call a client slow at once.
LEMMA SampledKeeps ==
    ASSUME NEW c \in Conns, NEW p, NEW d, d = Sampled(c, p)
    PROVE  /\ d.state = c.state /\ d.queue = c.queue /\ d.armed = c.armed
           /\ d.scheduled = c.scheduled /\ d.headersSent = c.headersSent
           /\ d \in Conns /\ (Calm(c) => Calm(d))
<1>1. PICK avg, above, below :
        d = Judged(c, avg, above, below) /\ avg = IF c.avg <= 0 THEN Memory(c) ELSE (8 * c.avg + 2 * Memory(c)) \div 10
  BY DEF Sampled, With
<1>2. Len(c.queue) \in Nat /\ c.avg \in Nat
  BY LenProperties DEF Conns
<1>3. avg \in Nat
  <2>1. Memory(c) \in Nat
    BY <1>2 DEF Memory
  <2>q. QED BY <1>1, <1>2, <2>1
<1>4. (c.slow /\ avg >= below) \in BOOLEAN /\ (c.slow \/ c.since = "old") \in BOOLEAN
  OBVIOUS
<1>5. CASE avg <= above
  <2>1. d = [c EXCEPT !.avg = avg, !.since = "none", !.slow = c.slow /\ avg >= below]
    BY <1>1, <1>5 DEF Judged
  <2>q. QED BY <1>3, <1>4, <2>1 DEF Conns, Calm
<1>6. CASE ~(avg <= above)
  <2>1. d = [c EXCEPT !.avg = avg, !.since = IF c.since = "none" THEN "new" ELSE c.since,
                      !.slow = c.slow \/ c.since = "old"]
    BY <1>1, <1>6 DEF Judged
  <2>q. QED BY <1>3, <1>4, <2>1 DEF Conns, Calm
<1>q. QED BY <1>5, <1>6

-----------------------------------------------------------------------------
(* The units in a queue. *)

\* What holds of the first none and goes on with each holds of all.
LEMMA Climb ==
    ASSUME NEW n \in Nat, NEW S, 0 \in S, \A k \in 1..n : k - 1 \in S => k \in S
    PROVE  \A k \in 0..n : k \in S
<1> DEFINE Bad == {k \in 0..n : k \notin S}
<1>1. SUFFICES ASSUME Bad # {} PROVE FALSE
  OBVIOUS
<1>2. Bad \in SUBSET Nat
  OBVIOUS
<1>3. Min(Bad) \in Bad /\ \A y \in Bad : Min(Bad) <= y
  <2> HIDE DEF Bad
  <2>q. QED BY <1>1, <1>2, MinIsLeast
<1>4. PICK k \in 0..n : k \notin S /\ \A y \in Bad : k <= y
  BY <1>3
<1>5. k \in 1..n /\ k - 1 \in 0..n /\ ~(k <= k - 1)
  BY <1>4
<1>q. QED BY <1>4, <1>5

\* Payload adds up, entry by entry.
LEMMA PayloadAdds ==
    ASSUME NEW q \in Seq(BufferType)
    PROVE  \E t \in [0..Len(q) -> Nat] :
               /\ t[0] = 0 /\ \A k \in 1..Len(q) : t[k] = t[k - 1] + q[k].n
               /\ Payload(q) = t[Len(q)]
<1> DEFINE n == Len(q)
           T == Nat
           step(h, s) == IF s = {} THEN 0 ELSE Add(h[s \ {Max(s)}], q[Max(s)])
           IsIt(h) == h = [s \in SUBSET DOMAIN q |-> step(h, s)]
           g == [z \in T \X (1..n) |-> Add(z[1], q[z[2]])]
           iter == CHOOSE h : IsIt(h)
<1>1. n \in Nat /\ DOMAIN q = 1..n
  BY LenProperties
<1>2. 0 \in T
  OBVIOUS
<1>0. \A k \in 1..n : q[k].n \in Nat
  <2>1. ASSUME NEW k \in 1..n PROVE q[k].n \in Nat
    <3>1. q[k] \in BufferType
      BY ElementOfSeq
    <3>q. QED BY <3>1, Sizes DEF BufferType
  <2>q. QED BY <2>1
<1>3. \A y \in T, k \in 1..n : Add(y, q[k]) \in T
  BY <1>0 DEF Add
<1>4. Payload(q) = iter[DOMAIN q]
  BY Zenon DEF Payload, FoldLeft, MapThenFoldSet
<1> HIDE DEF n, T
<1>5. \E h : IsIt(h)
  <2>1. g \in [T \X (1..n) -> T]
    BY <1>3
  <2> HIDE DEF g
  <2>2. PICK h \in [SUBSET (1..n) -> T] : \A s \in SUBSET (1..n) : h[s] = Folded(h, s, 0, g)
    <3>1. n \in Nat
      BY <1>1
    <3>2. \E h : Folds(h, n, T, 0, g)
      BY <3>1, <1>2, <2>1, FoldExists
    <3>q. QED BY <3>2 DEF Folds
  <2>3. ASSUME NEW s \in SUBSET (1..n) PROVE h[s] = step(h, s)
    <3>1. CASE s = {}
      BY <3>1, <2>2 DEF Folded
    <3>2. CASE s # {}
      <4>1. Max(s) \in 1..n
        BY <1>1, <3>2, MaxIsGreatest
      <4>2. h[s \ {Max(s)}] \in T
        OBVIOUS
      <4>3. h[s] = g[<<h[s \ {Max(s)}], Max(s)>>]
        BY <3>2, <2>2 DEF Folded
      <4>q. QED BY <3>2, <4>1, <4>2, <4>3 DEF g
    <3>q. QED BY <3>1, <3>2
  <2>4. h = [s \in SUBSET (1..n) |-> step(h, s)]
    BY <2>3
  <2>q. QED BY <1>1, <2>4
<1>6. IsIt(iter)
  BY <1>5
<1>7. PICK f : f = iter
  OBVIOUS
<1>8. \A s \in SUBSET (1..n) : f[s] = step(f, s)
  <2>1. f = [s \in SUBSET (1..n) |-> step(f, s)]
    BY <1>1, <1>6, <1>7
  <2>q. QED BY <2>1
<1>9. f[1..0] = 0
  <2>1. 1..0 = {} /\ {} \in SUBSET (1..n)
    OBVIOUS
  <2>2. f[{}] = 0
    BY <1>8, <2>1
  <2>q. QED BY <2>1, <2>2
<1>10. ASSUME NEW k \in 1..n PROVE f[1..k] = f[1..(k - 1)] + q[k].n
  <2>1. 1..k \in SUBSET (1..n) /\ 1..k # {} /\ Max(1..k) = k /\ (1..k) \ {k} = 1..(k - 1)
    BY <1>1, FirstPlaces
  <2>2. f[1..k] = step(f, 1..k)
    BY ONLY <1>8, <2>1
  <2>q. QED BY ONLY <2>1, <2>2 DEF Add
<1>11. Payload(q) = f[1..n]
  BY <1>1, <1>4, <1>7
<1>12. \A k \in 0..n : f[1..k] \in Nat
  <2> DEFINE S == {k \in 0..n : f[1..k] \in Nat}
  <2>1. 0 \in S
    BY <1>1, <1>9
  <2>2. \A k \in 1..n : k - 1 \in S => k \in S
    BY <1>0, <1>1, <1>10
  <2>3. \A k \in 0..n : k \in S
    <3> HIDE DEF S
    <3>q. QED BY <1>1, <2>1, <2>2, Climb
  <2>q. QED BY <2>3
<1>13. PICK t : t = [k \in 0..n |-> f[1..k]]
  OBVIOUS
<1>14. t \in [0..n -> Nat] /\ t[0] = 0 /\ t[n] = f[1..n]
  BY <1>1, <1>9, <1>12, <1>13
<1>15. ASSUME NEW k \in 1..n PROVE t[k] = t[k - 1] + q[k].n
  <2>1. k \in 0..n /\ k - 1 \in 0..n
    BY <1>1
  <2>q. QED BY <1>10, <1>13, <2>1
<1>q. QED BY <1>11, <1>14, <1>15 DEF n

\* A queue of entries with m units or more each has at least m times as many units
\* as entries.
LEMMA PayloadIs ==
    ASSUME NEW q \in Seq(BufferType)
    PROVE  /\ Payload(q) \in Nat
           /\ \A m \in Nat : (\A i \in DOMAIN q : q[i].n >= m) => Payload(q) >= m * Len(q)
           /\ q = <<>> => Payload(q) = 0
<1> DEFINE n == Len(q)
<1>1. n \in Nat /\ DOMAIN q = 1..n
  BY LenProperties
<1>2. PICK t \in [0..n -> Nat] :
          t[0] = 0 /\ (\A k \in 1..n : t[k] = t[k - 1] + q[k].n) /\ Payload(q) = t[n]
  BY PayloadAdds
<1>3. ASSUME NEW m \in Nat, \A i \in DOMAIN q : q[i].n >= m
      PROVE  t[n] >= m * n
  <2> DEFINE S == {k \in 0..n : t[k] >= m * k}
  <2>1. 0 \in S
    BY <1>1, <1>2
  <2>2. ASSUME NEW k \in 1..n, k - 1 \in S PROVE k \in S
    <3>1. PICK a, b, c \in Int : a = t[k - 1] /\ b = q[k].n /\ c = m * (k - 1)
      <4>1. k - 1 \in 0..n /\ k - 1 \in Int
        BY <1>1
      <4>2. q[k] \in BufferType
        BY <1>1, ElementOfSeq
      <4>3. q[k].n \in Int
        BY <4>2, Sizes DEF BufferType
      <4>q. QED BY <1>2, <4>1, <4>3
    <3>2. a >= c /\ b >= m /\ t[k] = a + b
      BY <1>1, <1>2, <1>3, <2>2, <3>1
    <3>3. m * k = c + m
      BY <1>1, <3>1
    <3>4. t[k] >= m * k
      BY <3>2, <3>3
    <3>q. QED BY <1>1, <3>4
  <2>3. \A k \in 0..n : k \in S
    <3> HIDE DEF S
    <3>q. QED BY <1>1, <2>1, <2>2, Climb
  <2>q. QED BY <1>1, <2>3
<1>4. q = <<>> => Payload(q) = 0
  <2>1. ASSUME q = <<>> PROVE Payload(q) = 0
    <3>1. n = 0
      BY <2>1
    <3>q. QED BY <1>2, <3>1
  <2>q. QED BY <2>1
<1>5. Payload(q) \in Nat
  BY <1>1, <1>2
<1>q. QED BY <1>2, <1>3, <1>4, <1>5

\* One more entry.
LEMMA PayloadAppend ==
    ASSUME NEW q \in Seq(BufferType), NEW b \in BufferType
    PROVE  Payload(Append(q, b)) = Payload(q) + b.n
<1> DEFINE r == Append(q, b)
           n == Len(q)
<1>1. /\ r \in Seq(BufferType) /\ Len(r) = n + 1 /\ n \in Nat
      /\ r[n + 1] = b /\ \A i \in 1..n : r[i] = q[i]
  BY AppendProperties, LenProperties
<1>2. PICK t \in [0..n -> Nat] :
          t[0] = 0 /\ (\A k \in 1..n : t[k] = t[k - 1] + q[k].n) /\ Payload(q) = t[n]
  BY PayloadAdds
<1> HIDE DEF r, n
<1>3. PICK u \in [0..(n + 1) -> Nat] :
          /\ u[0] = 0 /\ \A k \in 1..(n + 1) : u[k] = u[k - 1] + r[k].n
          /\ Payload(r) = u[n + 1]
  <2>1. PICK u \in [0..Len(r) -> Nat] :
          /\ u[0] = 0 /\ \A k \in 1..Len(r) : u[k] = u[k - 1] + r[k].n
          /\ Payload(r) = u[Len(r)]
    BY <1>1, PayloadAdds
  <2>2. Len(r) = n + 1
    BY ONLY <1>1
  <2>q. QED BY ONLY <2>1, <2>2
<1>4. u[n] = t[n]
  <2> DEFINE S == {k \in 0..n : u[k] = t[k]}
  <2>1. 0 \in S
    BY <1>1, <1>2, <1>3
  <2>2. ASSUME NEW k \in 1..n, k - 1 \in S PROVE k \in S
    <3>1. k \in 1..(n + 1) /\ r[k] = q[k] /\ u[k - 1] = t[k - 1]
      BY <1>1, <2>2
    <3>2. u[k] = t[k]
      BY <1>2, <1>3, <3>1
    <3>q. QED BY <1>1, <3>2
  <2>3. \A k \in 0..n : k \in S
    <3> HIDE DEF S
    <3>q. QED BY <1>1, <2>1, <2>2, Climb
  <2>q. QED BY <1>1, <2>3
<1>5. u[n + 1] = u[n] + b.n
  <2>1. n + 1 \in 1..(n + 1) /\ (n + 1) - 1 = n
    BY <1>1
  <2>2. u[n + 1] = u[(n + 1) - 1] + r[n + 1].n
    BY <1>3, <2>1
  <2>q. QED BY <1>1, <2>1, <2>2
<1>q. QED BY <1>2, <1>3, <1>4, <1>5 DEF r, n

-----------------------------------------------------------------------------
(* Putting into the queue. *)

\* What a queue carries.
Whats(q) == {q[i].what : i \in DOMAIN q}

\* An entry at the end of a queue.
LEMMA AppendedWhats ==
    ASSUME NEW q \in Seq(BufferType), NEW b \in BufferType, NEW r, r = Append(q, b)
    PROVE  r \in Seq(BufferType) /\ Len(r) = Len(q) + 1 /\ Whats(r) = Whats(q) \union {b.what}
<1>1. /\ r \in Seq(BufferType) /\ Len(r) = Len(q) + 1 /\ Len(q) \in Nat
      /\ DOMAIN q = 1..Len(q) /\ DOMAIN r = 1..Len(r)
      /\ r[Len(q) + 1] = b /\ \A i \in 1..Len(q) : r[i] = q[i]
  BY AppendProperties, LenProperties
<1>2. DOMAIN r = DOMAIN q \union {Len(q) + 1}
  BY <1>1
<1>q. QED BY <1>1, <1>2 DEF Whats

\* connection_schedule_write() and what it may be asked by.
LEMMA ScheduleKeeps ==
    ASSUME NEW c \in Conns, NEW d, d = Schedule(c)
    PROVE  /\ d.state = c.state /\ d.queue = c.queue /\ d.armed = c.armed
           /\ d.headersSent = c.headersSent /\ d \in Conns
           /\ d.slow = c.slow /\ d.since = c.since /\ d.avg = c.avg
           /\ (c.scheduled => d.scheduled) /\ (d.armed \/ d.scheduled)
BY DEF Schedule, Conns

\* What is the same of a connection that was given another buffer.
Alike(c, d) ==
    /\ d.state = c.state /\ d.armed = c.armed /\ d.headersSent = c.headersSent
    /\ c.scheduled => d.scheduled
    /\ Calm(c) => Calm(d)

\* connection_queue_buffer(): a buffer is put at the end, or dropped.
LEMMA QueueBufferKeeps ==
    ASSUME NEW c \in Conns, NEW p, NEW b \in BufferType, NEW r, r = QueueBuffer(c, p, b)
    PROVE  /\ r.conn \in Conns /\ r.ok \in BOOLEAN /\ Alike(c, r.conn)
           /\ r.conn.queue = IF r.ok THEN Append(c.queue, b) ELSE c.queue
           /\ r.ok => Payload(r.conn.queue) < BatchUnits \/ r.conn.armed \/ r.conn.scheduled
           /\ Calm(c) /\ ~r.ok => Memory(c) + 10 > LimitBytes(Fair(p), Burst(p))
           /\ Calm(c) /\ Memory(c) + 10 > LimitBytes(Fair(p), Burst(p)) => ~r.ok
<1>1. PICK d : d = Sampled(c, p)
  OBVIOUS
<1>2. /\ d.state = c.state /\ d.queue = c.queue /\ d.armed = c.armed
      /\ d.scheduled = c.scheduled /\ d.headersSent = c.headersSent
      /\ d \in Conns /\ (Calm(c) => Calm(d))
  BY <1>1, SampledKeeps
<1>3. r = IF Memory(d) + 10 > QueueLimit(d, p) THEN [conn |-> d, ok |-> FALSE]
          ELSE [conn |-> Queued(d, b), ok |-> TRUE]
  BY <1>1 DEF QueueBuffer, With
<1>4. Calm(c) => QueueLimit(d, p) = LimitBytes(Fair(p), Burst(p))
  BY <1>2 DEF QueueLimit, SlowClamp, Calm
<1>5. Memory(d) = Memory(c)
  BY <1>2 DEF Memory
<1>6. CASE Memory(d) + 10 > QueueLimit(d, p)
  <2>1. r.conn = d /\ r.ok = FALSE
    BY <1>3, <1>6
  <2>q. QED BY <1>2, <1>4, <1>5, <1>6, <2>1 DEF Alike
<1>7. CASE ~(Memory(d) + 10 > QueueLimit(d, p))
  <2>1. r.conn = Queued(d, b) /\ r.ok = TRUE
    BY <1>3, <1>7
  <2>2. PICK e : e = [d EXCEPT !.queue = Append(d.queue, b)]
    OBVIOUS
  <2>3. Append(d.queue, b) \in Seq(BufferType)
    BY <1>2, AppendedWhats DEF Conns
  <2>4. /\ e \in Conns /\ e.queue = Append(c.queue, b) /\ Alike(c, e)
    BY <1>2, <2>2, <2>3 DEF Conns, Alike, Calm
  <2>5. r.conn = IF Payload(e.queue) >= BatchUnits THEN Schedule(e) ELSE e
    BY <2>1, <2>2 DEF Queued, With
  <2>6. CASE Payload(e.queue) >= BatchUnits
    <3>1. r.conn = Schedule(e)
      BY <2>5, <2>6
    <3>2. /\ r.conn \in Conns /\ r.conn.queue = e.queue /\ (r.conn.armed \/ r.conn.scheduled)
          /\ r.conn.state = e.state /\ r.conn.armed = e.armed /\ r.conn.headersSent = e.headersSent
          /\ r.conn.slow = e.slow /\ r.conn.since = e.since /\ (e.scheduled => r.conn.scheduled)
      BY <2>4, <3>1, ScheduleKeeps
    <3>3. Alike(c, r.conn)
      BY <2>4, <3>2 DEF Alike, Calm
    <3>q. QED BY <1>4, <1>5, <1>7, <2>1, <2>4, <3>2, <3>3
  <2>7. CASE ~(Payload(e.queue) >= BatchUnits)
    <3>1. Payload(e.queue) \in Int => Payload(e.queue) < BatchUnits
      BY <2>7, Sizes
    <3>2. Payload(e.queue) \in Int
      <4>1. e.queue \in Seq(BufferType)
        BY <2>4 DEF Conns
      <4>2. Payload(e.queue) \in Nat
        BY <4>1, PayloadIs
      <4>q. QED BY <4>2
    <3>q. QED BY <1>4, <1>5, <1>7, <2>1, <2>4, <2>5, <2>7, <3>1, <3>2
  <2>q. QED BY <2>6, <2>7
<1>q. QED BY <1>6, <1>7

\* connection_queue_output() for one buffer: where a buffer was refused, the next
\* one is refused as well.
LEMMA OutputBufferKeeps ==
    ASSUME NEW c \in Conns, NEW p \in Pools, NEW b \in BufferType,
           NEW r \in [conn : Conns, pool : Pools, ok : BOOLEAN], r.conn = c, r.pool = p,
           NEW x, x = OutputBuffer(r, b)
    PROVE  /\ x \in [conn : Conns, pool : Pools, ok : BOOLEAN] /\ Alike(c, x.conn)
           /\ x.conn.queue = c.queue \/ x.conn.queue = Append(c.queue, b)
           /\ Calm(c) /\ ~x.ok => Stuck(x.conn, x.pool)
           /\ Stuck(c, p) => x.conn.queue = c.queue /\ Stuck(x.conn, x.pool)
<1>1. PICK u : u = Alloc(p)
  OBVIOUS
<1>2. PICK q : q = QueueBuffer(c, u, b)
  OBVIOUS
<1>3. x = IF ~CanAlloc(p) THEN [r EXCEPT !.pool = u, !.ok = FALSE]
          ELSE [conn |-> q.conn, ok |-> q.ok, pool |-> IF q.ok THEN u ELSE Put(u, 1)]
  BY <1>1, <1>2 DEF OutputBuffer, With
<1>4. /\ u \in Pools
      /\ CanAlloc(p) => Put(u, 1) \in Pools /\ CanAlloc(Put(u, 1)) /\ Alloc(Put(u, 1)) = u
      /\ ~CanAlloc(p) => ~CanAlloc(u)
  BY <1>1, AllocTwice
<1>5. CASE ~CanAlloc(p)
  <2>1. x = [r EXCEPT !.pool = u, !.ok = FALSE]
    BY Zenon, <1>3, <1>5
  <2>2. x.conn = c /\ x.pool = u /\ x.ok = FALSE /\ x \in [conn : Conns, pool : Pools, ok : BOOLEAN]
    BY <1>4, <2>1
  <2>q. QED BY <1>4, <1>5, <2>2 DEF Alike, Stuck, Refuses
<1>6. CASE CanAlloc(p)
  <2>1. /\ q.conn \in Conns /\ q.ok \in BOOLEAN /\ Alike(c, q.conn)
        /\ q.conn.queue = IF q.ok THEN Append(c.queue, b) ELSE c.queue
        /\ Calm(c) /\ ~q.ok => Memory(c) + 10 > LimitBytes(Fair(u), Burst(u))
        /\ Calm(c) /\ Memory(c) + 10 > LimitBytes(Fair(u), Burst(u)) => ~q.ok
    BY <1>2, QueueBufferKeeps
  <2>2. x = [conn |-> q.conn, ok |-> q.ok, pool |-> IF q.ok THEN u ELSE Put(u, 1)]
    BY Zenon, <1>3, <1>6
  <2>3. /\ x.conn = q.conn /\ x.ok = q.ok /\ x \in [conn : Conns, pool : Pools, ok : BOOLEAN]
        /\ x.pool = IF q.ok THEN u ELSE Put(u, 1)
    <3>1. PICK P \in Pools : P = IF q.ok THEN u ELSE Put(u, 1)
      BY <1>4, <1>6
    <3>2. x = [conn |-> q.conn, ok |-> q.ok, pool |-> P]
      BY <2>2, <3>1
    <3>3. x.conn = q.conn /\ x.ok = q.ok /\ x.pool = P /\ x \in [conn : Conns, pool : Pools, ok : BOOLEAN]
      BY ONLY <3>2, <2>1, P \in Pools
    <3>q. QED BY <3>1, <3>3
  <2>4. Calm(c) /\ ~q.ok => Stuck(x.conn, x.pool)
    <3>1. SUFFICES ASSUME Calm(c), ~q.ok PROVE Stuck(q.conn, Put(u, 1))
      BY <2>3
    <3>2. Memory(q.conn) + 10 > LimitBytes(Fair(u), Burst(u))
      <4>1. Memory(q.conn) = Memory(c)
        BY <2>1, <3>1 DEF Memory
      <4>q. QED BY <2>1, <3>1, <4>1
    <3>3. Refuses(q.conn, Put(u, 1))
      BY <1>4, <1>6, <3>2 DEF Refuses
    <3>q. QED BY <2>1, <3>1, <3>3 DEF Alike, Stuck
  <2>5. Stuck(c, p) => Calm(c) /\ ~q.ok
    BY <1>1, <1>6, <2>1 DEF Stuck, Refuses
  <2>q. QED BY <2>1, <2>3, <2>4, <2>5
<1>q. QED BY <1>5, <1>6

\* What output of the kinds in K may make of a connection and a pool.
Outs(c, p, K) ==
    {r \in [conn : Conns, pool : Pools, ok : BOOLEAN] :
        /\ Alike(c, r.conn)
        /\ Whats(r.conn.queue) \subseteq Whats(c.queue) \union K
        /\ c.queue # <<>> => r.conn.queue # <<>>
        /\ Calm(c) /\ ~r.ok => Stuck(r.conn, r.pool)
        /\ Stuck(c, p) => r.conn.queue = c.queue /\ Stuck(r.conn, r.pool)}

\* One more buffer.
LEMMA OutputOnKeeps ==
    ASSUME NEW c \in Conns, NEW p \in Pools, NEW K, NEW r \in Outs(c, p, K),
           NEW b \in BufferType, b.what \in K
    PROVE  OutputOn(r, b) \in Outs(c, p, K)
<1>1. CASE ~r.ok
  <2>1. OutputOn(r, b) = r
    BY <1>1 DEF OutputOn
  <2>q. QED BY <2>1
<1>2. CASE r.ok
  <2> DEFINE RC == r.conn
             RP == r.pool
             x == OutputOn(r, b)
  <2>1. RC \in Conns /\ RP \in Pools /\ r.ok = TRUE /\ r \in [conn : Conns, pool : Pools, ok : BOOLEAN]
    BY <1>2 DEF Outs
  <2>2. x = OutputBuffer(r, b)
    BY <1>2 DEF OutputOn
  <2> HIDE DEF x
  <2>3. /\ x \in [conn : Conns, pool : Pools, ok : BOOLEAN] /\ Alike(RC, x.conn)
        /\ x.conn.queue = RC.queue \/ x.conn.queue = Append(RC.queue, b)
        /\ Calm(RC) /\ ~x.ok => Stuck(x.conn, x.pool)
        /\ Stuck(RC, RP) => x.conn.queue = RC.queue /\ Stuck(x.conn, x.pool)
    BY <2>1, <2>2, OutputBufferKeeps
  <2>4. /\ Alike(c, RC) /\ Whats(RC.queue) \subseteq Whats(c.queue) \union K
        /\ c.queue # <<>> => RC.queue # <<>>
        /\ Stuck(c, p) => RC.queue = c.queue /\ Stuck(RC, RP)
    BY DEF Outs
  <2> HIDE DEF RC, RP
  <2>5. RC.queue \in Seq(BufferType)
    BY <2>1 DEF Conns
  <2>6. Whats(x.conn.queue) \subseteq Whats(RC.queue) \union K
    BY <2>3, <2>5, AppendedWhats
  <2>7. RC.queue # <<>> => x.conn.queue # <<>>
    <3>1. Append(RC.queue, b) # <<>>
      <4>1. PICK z : z = Append(RC.queue, b)
        OBVIOUS
      <4>2. Len(z) = Len(RC.queue) + 1 /\ Len(RC.queue) \in Nat
        BY <2>5, <4>1, AppendedWhats, LenProperties
      <4>3. z # <<>>
        BY ONLY <4>2
      <4>q. QED BY <4>1, <4>3
    <3>q. QED BY <2>3, <3>1
  <2>8. Alike(c, x.conn) /\ (Calm(c) => Calm(RC))
    BY <2>3, <2>4 DEF Alike
  <2>9. x \in Outs(c, p, K)
    BY <2>3, <2>4, <2>6, <2>7, <2>8 DEF Outs
  <2>q. QED BY <2>9 DEF x
<1>q. QED BY <1>1, <1>2

\* connection_queue_output().
LEMMA QueueOutputKeeps ==
    ASSUME NEW c \in Conns, NEW p \in Pools, NEW K, NEW bs \in Seq(BufferType),
           Whats(bs) \subseteq K, NEW r, r = [conn |-> c, pool |-> p, ok |-> TRUE]
    PROVE  QueueOutput(r, bs) \in Outs(c, p, K)
<1> DEFINE n == Len(bs)
           T == Outs(c, p, K)
           step(h, s) == IF s = {} THEN r ELSE OutputOn(h[s \ {Max(s)}], bs[Max(s)])
           IsIt(h) == h = [s \in SUBSET DOMAIN bs |-> step(h, s)]
           g == [z \in T \X (1..n) |-> OutputOn(z[1], bs[z[2]])]
           iter == CHOOSE h : IsIt(h)
           x == QueueOutput(r, bs)
<1>1. n \in Nat /\ DOMAIN bs = 1..n
  BY LenProperties
<1>2. r \in T
  BY DEF Outs, Alike
<1>3. \A y \in T, k \in 1..n : OutputOn(y, bs[k]) \in T
  <2>1. TAKE y \in T, k \in 1..n
  <2>2. bs[k] \in BufferType /\ bs[k].what \in K
    BY <1>1, ElementOfSeq DEF Whats
  <2>q. QED BY <2>2, OutputOnKeeps
<1>4. x = iter[DOMAIN bs]
  BY Zenon DEF QueueOutput, FoldLeft, MapThenFoldSet
<1> HIDE DEF n, T
<1>5. \E h : IsIt(h)
  <2>1. g \in [T \X (1..n) -> T]
    BY <1>3
  <2> HIDE DEF g
  <2>2. PICK h \in [SUBSET (1..n) -> T] : \A s \in SUBSET (1..n) : h[s] = Folded(h, s, r, g)
    <3>1. n \in Nat
      BY <1>1
    <3>2. \E h : Folds(h, n, T, r, g)
      BY <3>1, <1>2, <2>1, FoldExists
    <3>q. QED BY <3>2 DEF Folds
  <2>3. ASSUME NEW s \in SUBSET (1..n) PROVE h[s] = step(h, s)
    <3>1. CASE s = {}
      BY <3>1, <2>2 DEF Folded
    <3>2. CASE s # {}
      <4>1. Max(s) \in 1..n
        BY <1>1, <3>2, MaxIsGreatest
      <4>2. h[s \ {Max(s)}] \in T
        OBVIOUS
      <4>3. h[s] = g[<<h[s \ {Max(s)}], Max(s)>>]
        BY <3>2, <2>2 DEF Folded
      <4>q. QED BY <3>2, <4>1, <4>2, <4>3 DEF g
    <3>q. QED BY <3>1, <3>2
  <2>4. h = [s \in SUBSET (1..n) |-> step(h, s)]
    BY <2>3
  <2>q. QED BY <1>1, <2>4
<1>6. IsIt(iter)
  BY <1>5
<1>7. PICK i : i = iter
  OBVIOUS
<1>8. \A s \in SUBSET (1..n) : i[s] = step(i, s)
  <2>1. i = [s \in SUBSET (1..n) |-> step(i, s)]
    BY <1>1, <1>6, <1>7
  <2>q. QED BY <2>1
<1>9. i[{}] \in T
  BY <1>2, <1>8
<1>10. ASSUME NEW k \in 1..n, i[1..(k - 1)] \in T PROVE i[1..k] \in T
  <2>1. 1..k \in SUBSET (1..n) /\ 1..k # {} /\ Max(1..k) = k /\ (1..k) \ {k} = 1..(k - 1)
    BY <1>1, FirstPlaces
  <2>2. i[1..k] = OutputOn(i[1..(k - 1)], bs[k])
    BY <1>8, <2>1
  <2>q. QED BY <2>2, <1>3, <1>10
<1>11. i[1..n] \in T
  BY <1>1, <1>9, <1>10, FoldedStays
<1>12. x \in T
  BY <1>1, <1>4, <1>7, <1>11
<1>q. QED BY <1>12 DEF T

\* Output of one kind, cut into buffers.
LEMMA BuffersAre ==
    ASSUME NEW what \in Kinds, NEW first \in Nat, NEW n \in Nat
    PROVE  Buffers(what, first, n) \in Seq(BufferType) /\ Whats(Buffers(what, first, n)) \subseteq {what}
<1> DEFINE B == BufferUnits
           m == n + B - 1
           count == m \div B
           entry(i) == [what |-> what, from |-> first + (i - 1) * B, n |-> Min({B, n - (i - 1) * B})]
           s == [i \in 1..count |-> entry(i)]
<1>1. B \in Nat \ {0} /\ m \in Nat
  BY Sizes
<1>2. m = B * count + (m % B) /\ m % B \in 0..(B - 1) /\ count \in Int
  <2> HIDE DEF B, m
  <2>q. QED BY <1>1, DivMod
<1>3. B * count <= m
  <2> HIDE DEF count, m, B
  <2>q. QED BY <1>1, <1>2
<1>4. count \in Nat
  <2>1. ~(count <= -1)
    <3> HIDE DEF count
    <3>1. count <= -1 => B * count <= -B
      BY <1>1, <1>2
    <3>2. B * count >= m - (B - 1)
      <4> HIDE DEF m, B
      <4>q. QED BY <1>1, <1>2
    <3>q. QED BY <1>1, <1>2, <3>1, <3>2
  <2>q. QED BY <1>2, <2>1
<1> HIDE DEF count
<1>5. ASSUME NEW i \in 1..count PROVE entry(i) \in BufferType /\ entry(i).what = what
  <2>1. PICK j \in Nat : j = (i - 1) * B
    BY <1>1, <1>4
  <2>2. i * B = j + B
    BY <1>1, <1>4, <2>1
  <2>3. i * B <= B * count
    BY <1>1, <1>4
  <2>4. PICK a \in Int : a = B * count
    BY <1>1, <1>4
  <2>5. j + B <= a /\ a <= n + B - 1
    BY <1>3, <2>2, <2>3, <2>4
  <2>6. n - j >= 1 /\ n - j \in Int
    BY <1>1, <2>5
  <2>7. Min({B, n - j}) \in 1..B
    BY <1>1, <2>6, MinOfTwo
  <2>8. first + j \in Nat
    OBVIOUS
  <2>q. QED BY <2>1, <2>7, <2>8 DEF BufferType, Kinds
<1>6. Buffers(what, first, n) = s
  BY DEF Buffers, count
<1> HIDE DEF entry
<1>7. s \in Seq(BufferType) /\ DOMAIN s = 1..count
  BY <1>4, <1>5
<1>q. QED BY <1>5, <1>6, <1>7 DEF Whats

\* Two outputs one after the other.
LEMMA BothWhats ==
    ASSUME NEW a \in Seq(BufferType), NEW b \in Seq(BufferType)
    PROVE  a \o b \in Seq(BufferType) /\ Whats(a \o b) = Whats(a) \union Whats(b)
<1> DEFINE s == a \o b
<1>1. /\ s \in Seq(BufferType) /\ Len(s) = Len(a) + Len(b)
      /\ \A i \in 1..(Len(a) + Len(b)) : s[i] = IF i <= Len(a) THEN a[i] ELSE b[i - Len(a)]
  BY ConcatProperties
<1> HIDE DEF s
<1>2. /\ Len(a) \in Nat /\ Len(b) \in Nat /\ DOMAIN a = 1..Len(a) /\ DOMAIN b = 1..Len(b)
      /\ DOMAIN s = 1..Len(s)
  BY <1>1, LenProperties
<1>3. ASSUME NEW i \in 1..Len(s) PROVE s[i].what \in Whats(a) \union Whats(b)
  <2>1. CASE i <= Len(a)
    <3>1. i \in DOMAIN a /\ s[i] = a[i]
      BY <1>1, <1>2, <2>1
    <3>q. QED BY <3>1 DEF Whats
  <2>2. CASE ~(i <= Len(a))
    <3>1. i - Len(a) \in DOMAIN b /\ s[i] = b[i - Len(a)]
      BY <1>1, <1>2, <2>2
    <3>q. QED BY <3>1 DEF Whats
  <2>q. QED BY <2>1, <2>2
<1>4. ASSUME NEW i \in DOMAIN a PROVE a[i].what \in Whats(s)
  <2>1. i \in DOMAIN s /\ s[i] = a[i]
    BY <1>1, <1>2
  <2>q. QED BY <2>1 DEF Whats
<1>5. ASSUME NEW i \in DOMAIN b PROVE b[i].what \in Whats(s)
  <2>1. Len(a) + i \in DOMAIN s /\ s[Len(a) + i] = b[i]
    <3>1. Len(a) + i \in 1..(Len(a) + Len(b)) /\ ~(Len(a) + i <= Len(a)) /\ (Len(a) + i) - Len(a) = i
      BY <1>2
    <3>q. QED BY <1>1, <1>2, <3>1
  <2>q. QED BY <2>1 DEF Whats
<1>6. Whats(s) \subseteq Whats(a) \union Whats(b)
  BY <1>2, <1>3 DEF Whats
<1>7. Whats(a) \subseteq Whats(s)
  BY <1>4 DEF Whats
<1>8. Whats(b) \subseteq Whats(s)
  BY <1>5 DEF Whats
<1>q. QED BY <1>1, <1>6, <1>7, <1>8 DEF s

-----------------------------------------------------------------------------
(* What a call keeps true. *)

Stages == {"init", "connecting", "sending", "awaiting", "streaming", "complete", "error"}

Sessions == [st : Stages, cands : Nat, open : BOOLEAN, paused : BOOLEAN, rewrite : BOOLEAN,
             pos : Nat, rcvd : Nat, used : Nat]

Upstreams == [sent : Nat, got : Nat, fin : {"open", "eof", "reset"}, edge : BOOLEAN]

Ends == {"none", "drained", "cut", "left"}

Clients == [room : Nat, last : Nat, seen : SUBSET Kinds, end : Ends]

Calls == [conn : Conns, pool : Pools, sess : Sessions, up : Upstreams, client : Clients,
          ret : {"progress", "nothing", "fail"}]

\* The kinds of answers a client has seen or is going to see.
KindsOf(w) == w.client.seen \union Whats(w.conn.queue)

\* A 503 is the only answer, and nothing is received any more.
Single(w) == "503" \in KindsOf(w) => KindsOf(w) = {"503"} /\ w.sess.st = "error"

Untouched(w) ==
    w.conn.queue = <<>> /\ w.client.seen = {} /\ ~w.conn.slow /\ w.conn.since = "none"

\* Until the headers are out the client has been given nothing; where they did not
\* fit, there is no room for a 503 either.
Blank(w) ==
    ~w.conn.headersSent =>
        Untouched(w) \/ (w.ret = "fail" /\ Stuck(w.conn, w.pool) /\ "503" \notin KindsOf(w))

\* A session by its stages.
Course(w) ==
    /\ w.sess.st = "streaming" /\ ~w.sess.rewrite => w.conn.headersSent
    /\ w.sess.paused => w.conn.headersSent /\ ~w.sess.rewrite
                        /\ w.sess.st \in {"streaming", "complete", "error"}
    /\ w.sess.st = "init" => ~w.conn.headersSent
    /\ w.sess.st = "streaming" => w.up.got >= HeadUnits
    /\ w.up.got <= w.up.sent

Young(w) ==
    w.sess.st \in {"init", "connecting", "sending", "awaiting"} =>
        w.sess.pos = w.up.got /\ w.up.got < HeadUnits

\* The body comes and is read in whole buffers.
Whole(x) == \E k \in Nat : x = BufferUnits * k

Aligned(w) ==
    /\ w.up.sent > HeadUnits => Whole(w.up.sent - HeadUnits)
    /\ w.sess.st = "streaming" /\ ~w.sess.rewrite => Whole(w.up.got - HeadUnits)

Idle(c) == ~c.armed /\ ~c.scheduled

\* What is queued while nobody is going to write it: whole buffers, and not as many
\* as make a batch; due says that somebody is about to be told.
Lazy(w, due) ==
    w.sess.st = "streaming" /\ ~w.sess.rewrite /\ w.conn.state # "closed" /\ ~due
    /\ Idle(w.conn) =>
        /\ \A i \in DOMAIN w.conn.queue : w.conn.queue[i].n = BufferUnits
        /\ Payload(w.conn.queue) < BatchUnits

Pause(w, due) == w.sess.paused => w.conn.queue # <<>> /\ (due \/ ~Idle(w.conn))

Waking(w, due) == Fills => Aligned(w) /\ Lazy(w, due) /\ Pause(w, due)

\* In the middle of a call, and after it.
Mid(w, due) ==
    /\ w \in Calls /\ w.conn.state # "closed"
    /\ Single(w) /\ Blank(w) /\ Course(w) /\ (w.ret # "fail" => Young(w))
    /\ Waking(w, due)

Shut(w) ==
    w.conn.state = "closed" =>
        ~w.sess.open /\ ~w.conn.scheduled /\ ~w.conn.armed /\ ~w.sess.paused

Settled(w, due) ==
    /\ w \in Calls
    /\ Single(w) /\ Course(w) /\ Young(w) /\ Shut(w)
    /\ ~w.conn.headersSent /\ w.conn.state # "closed" => Untouched(w)
    /\ Waking(w, due)

\* A call is over.
LEMMA MidSettles ==
    ASSUME NEW w, NEW due, Mid(w, due), Young(w), w.conn.headersSent \/ w.ret # "fail"
    PROVE  Settled(w, due)
BY DEF Mid, Settled, Blank, Shut

\* A call begins.
LEMMA MidBegins ==
    ASSUME NEW w, NEW due, Settled(w, due), w.conn.state # "closed"
    PROVE  Mid(w, due)
BY DEF Mid, Settled, Blank

\* The session changes its stage.
LEMMA GoesGives ==
    ASSUME NEW w \in Calls, NEW st \in Stages, NEW v, v = Goes(w, st)
    PROVE  /\ v \in Calls /\ v.conn = w.conn /\ v.pool = w.pool /\ v.up = w.up
           /\ v.client = w.client /\ v.ret = w.ret
           /\ v.sess.st = st /\ v.sess.cands = w.sess.cands /\ v.sess.open = w.sess.open
           /\ v.sess.paused = w.sess.paused /\ v.sess.rewrite = w.sess.rewrite
           /\ v.sess.pos = w.sess.pos
BY DEF Goes, Calls, Sessions

\* A call returns.
LEMMA ReturnsGives ==
    ASSUME NEW w \in Calls, NEW r \in {"progress", "nothing", "fail"}, NEW v, v = Returns(w, r)
    PROVE  /\ v \in Calls /\ v.conn = w.conn /\ v.pool = w.pool /\ v.up = w.up
           /\ v.client = w.client /\ v.sess = w.sess /\ v.ret = r
BY DEF Returns, Calls

\* A session may fail at any time.
LEMMA ErrorGood ==
    ASSUME NEW w, NEW due, Mid(w, due)
    PROVE  Mid(Goes(w, "error"), due) /\ Goes(w, "error").sess.st = "error"
           /\ Goes(w, "error").ret = w.ret /\ Goes(w, "error").conn = w.conn
<1>1. PICK v : v = Goes(w, "error")
  OBVIOUS
<1>2. /\ v \in Calls /\ v.conn = w.conn /\ v.pool = w.pool /\ v.up = w.up
      /\ v.client = w.client /\ v.ret = w.ret
      /\ v.sess.st = "error" /\ v.sess.cands = w.sess.cands /\ v.sess.open = w.sess.open
      /\ v.sess.paused = w.sess.paused /\ v.sess.rewrite = w.sess.rewrite
      /\ v.sess.pos = w.sess.pos
  BY <1>1, GoesGives DEF Mid, Stages
<1>3. Single(v) /\ Blank(v) /\ Course(v) /\ Young(v)
  BY <1>2 DEF Mid, Single, Blank, Course, Young, KindsOf, Untouched
<1>4. Waking(v, due)
  BY <1>2 DEF Mid, Waking, Aligned, Lazy, Pause
<1>5. Mid(v, due)
  BY <1>2, <1>3, <1>4 DEF Mid
<1>q. QED BY <1>1, <1>2, <1>5

\* What output of the kinds in K does.
Follows(w, v, K) ==
    /\ v \in Calls /\ v.sess = w.sess /\ v.up = w.up /\ v.client = w.client
    /\ Alike(w.conn, v.conn)
    /\ Whats(v.conn.queue) \subseteq Whats(w.conn.queue) \union K
    /\ w.conn.queue # <<>> => v.conn.queue # <<>>
    /\ v.ret = w.ret \/ (v.ret = "fail" /\ (Calm(w.conn) => Stuck(v.conn, v.pool)))
    /\ Stuck(w.conn, w.pool) => v.conn.queue = w.conn.queue /\ Stuck(v.conn, v.pool)

\* What a call queues goes behind what is queued.
LEMMA OutputGives ==
    ASSUME NEW w \in Calls, NEW K, NEW bs \in Seq(BufferType), Whats(bs) \subseteq K,
           NEW v, v = Output(w, bs)
    PROVE  Follows(w, v, K)
<1>1. PICK o : o = [conn |-> w.conn, pool |-> w.pool, ok |-> TRUE]
  OBVIOUS
<1>2. PICK r : r = QueueOutput(o, bs)
  OBVIOUS
<1>3. w.conn \in Conns /\ w.pool \in Pools
  BY DEF Calls
<1>4. r \in Outs(w.conn, w.pool, K)
  BY <1>1, <1>2, <1>3, QueueOutputKeeps
<1>5. /\ r.conn \in Conns /\ r.pool \in Pools /\ r.ok \in BOOLEAN
      /\ Alike(w.conn, r.conn)
      /\ Whats(r.conn.queue) \subseteq Whats(w.conn.queue) \union K
      /\ w.conn.queue # <<>> => r.conn.queue # <<>>
      /\ Calm(w.conn) /\ ~r.ok => Stuck(r.conn, r.pool)
      /\ Stuck(w.conn, w.pool) => r.conn.queue = w.conn.queue /\ Stuck(r.conn, r.pool)
  BY <1>4 DEF Outs
<1>6. PICK ret \in {"progress", "nothing", "fail"} : ret = IF r.ok THEN w.ret ELSE "fail"
  BY DEF Calls
<1>7. v = [w EXCEPT !.conn = r.conn, !.pool = r.pool, !.ret = ret]
  BY <1>1, <1>2, <1>6 DEF Output, With
<1>8. /\ v \in Calls /\ v.conn = r.conn /\ v.pool = r.pool /\ v.ret = ret
      /\ v.sess = w.sess /\ v.up = w.up /\ v.client = w.client
  BY ONLY <1>5, <1>6, <1>7, w \in Calls DEF Calls
<1>9. v.ret = w.ret \/ (v.ret = "fail" /\ (Calm(w.conn) => Stuck(v.conn, v.pool)))
  BY <1>5, <1>6, <1>8
<1>q. QED BY <1>5, <1>8, <1>9 DEF Follows

-----------------------------------------------------------------------------
(* The end of a connection, and a 503. *)

\* A connection in order that is closed stays in order.
LEMMA CloseGood ==
    ASSUME NEW w \in Calls, NEW end \in Ends, Single(w), Course(w), Young(w), Fills => Aligned(w)
    PROVE  Settled(Close(w, end), FALSE)
<1>1. PICK v : v = Close(w, end)
  OBVIOUS
<1>2. w.conn \in Conns /\ w.pool \in Pools /\ w.sess \in Sessions /\ w.client \in Clients
  BY DEF Calls
<1>3. Len(w.conn.queue) \in Nat
  BY <1>2, LenProperties DEF Conns
<1>4. PICK c \in Conns : c = [w.conn EXCEPT !.state = "closed", !.queue = <<>>, !.armed = FALSE,
                                            !.scheduled = FALSE]
  <2>1. PICK e \in Seq(BufferType) : e = <<>>
    BY EmptySeq
  <2>2. PICK c : c = [w.conn EXCEPT !.state = "closed", !.queue = e, !.armed = FALSE,
                                    !.scheduled = FALSE]
    OBVIOUS
  <2>3. c \in Conns
    BY ONLY <1>2, <2>2, e \in Seq(BufferType) DEF Conns
  <2>q. QED BY <2>1, <2>2, <2>3
<1>5. PICK p \in Pools : p = Put(w.pool, Len(w.conn.queue))
  <2>1. PICK n \in Nat : n = Len(w.conn.queue)
    BY <1>3
  <2>2. Put(w.pool, n) \in Pools
    BY <1>2 DEF Put, Pools
  <2>q. QED BY <2>1, <2>2
<1>6. PICK s \in Sessions : s = [w.sess EXCEPT !.open = FALSE, !.paused = FALSE]
  BY <1>2 DEF Sessions
<1>7. PICK l \in Clients : l = [w.client EXCEPT !.end = end]
  BY <1>2 DEF Clients
<1>8. /\ v \in Calls /\ v.conn = c /\ v.pool = p /\ v.sess = s /\ v.client = l /\ v.up = w.up
  <2>1. v = [w EXCEPT !.conn = c, !.pool = p, !.sess = s, !.client = l]
    BY <1>1, <1>4, <1>5, <1>6, <1>7 DEF Close, Calls
  <2>q. QED BY ONLY <2>1, w \in Calls, c \in Conns, p \in Pools, s \in Sessions, l \in Clients DEF Calls
<1>9. /\ c.state = "closed" /\ c.queue = <<>> /\ ~c.armed /\ ~c.scheduled
      /\ c.headersSent = w.conn.headersSent
  BY ONLY <1>4, <1>2 DEF Conns
<1>10. /\ ~s.open /\ ~s.paused /\ s.st = w.sess.st /\ s.rewrite = w.sess.rewrite /\ s.pos = w.sess.pos
       /\ l.seen = w.client.seen
  BY ONLY <1>2, <1>6, <1>7 DEF Sessions, Clients
<1>11. Single(v)
  <2>1. KindsOf(v) \subseteq KindsOf(w)
    <3>1. Whats(<<>>) = {}
      BY DEF Whats
    <3>q. QED BY <1>8, <1>9, <1>10, <3>1 DEF KindsOf
  <2>q. QED BY <2>1, <1>8, <1>10 DEF Single
<1>12. Course(v) /\ Young(v) /\ Shut(v)
  BY <1>8, <1>9, <1>10 DEF Course, Young, Shut
<1>13. Waking(v, FALSE)
  BY <1>8, <1>9, <1>10 DEF Waking, Aligned, Lazy, Pause
<1>14. Settled(v, FALSE)
  BY <1>8, <1>9, <1>11, <1>12, <1>13 DEF Settled
<1>q. QED BY <1>1, <1>14

\* connection_begin_drain_close(), after the upstream socket was closed.
LEMMA BeginDrainCloseGood ==
    ASSUME NEW w, NEW due, Mid(w, due), Young(w), w.conn.headersSent \/ w.ret # "fail",
           NEW v, v = BeginDrainClose([w EXCEPT !.sess.open = FALSE])
    PROVE  /\ Settled(v, due) /\ v.conn.state # "closed" /\ v.conn.queue = w.conn.queue
<1>1. PICK u : u = [w EXCEPT !.sess.open = FALSE]
  OBVIOUS
<1>2. /\ u \in Calls /\ u.conn = w.conn /\ u.pool = w.pool /\ u.up = w.up
      /\ u.client = w.client /\ u.ret = w.ret /\ u.sess.st = w.sess.st
      /\ u.sess.paused = w.sess.paused /\ u.sess.rewrite = w.sess.rewrite
      /\ u.sess.pos = w.sess.pos
  BY <1>1 DEF Mid, Calls, Sessions
<1>3. PICK c : c = IF w.conn.state = "closing" THEN w.conn
                   ELSE Schedule([w.conn EXCEPT !.state = "closing"])
  OBVIOUS
<1>4. w.conn \in Conns
  BY DEF Mid, Calls
<1>5. /\ c \in Conns /\ c.state = "closing" /\ c.queue = w.conn.queue
      /\ c.headersSent = w.conn.headersSent /\ c.slow = w.conn.slow /\ c.since = w.conn.since
      /\ Idle(c) => Idle(w.conn)
  <2>1. CASE w.conn.state = "closing"
    BY <1>3, <1>4, <2>1
  <2>2. CASE w.conn.state # "closing"
    <3>1. PICK d : d = [w.conn EXCEPT !.state = "closing"]
      OBVIOUS
    <3>2. /\ d \in Conns /\ d.state = "closing" /\ d.queue = w.conn.queue
          /\ d.headersSent = w.conn.headersSent /\ d.slow = w.conn.slow /\ d.since = w.conn.since
      BY ONLY <1>4, <3>1 DEF Conns
    <3>3. c = Schedule(d)
      BY <1>3, <2>2, <3>1
    <3>q. QED BY <3>2, <3>3, ScheduleKeeps DEF Idle
  <2>q. QED BY <2>1, <2>2
<1>6. v = [u EXCEPT !.conn = c]
  <2>1. CASE w.conn.state = "closing"
    <3>1. v = u /\ c = u.conn
      BY <1>1, <1>2, <1>3, <2>1 DEF BeginDrainClose
    <3>q. QED BY ONLY <3>1, <1>2 DEF Calls
  <2>2. CASE w.conn.state # "closing"
    BY <1>1, <1>2, <1>3, <2>2 DEF BeginDrainClose
  <2>q. QED BY <2>1, <2>2
<1>7. /\ v \in Calls /\ v.conn = c /\ v.pool = u.pool /\ v.up = u.up /\ v.client = u.client
      /\ v.sess = u.sess
  BY ONLY <1>2, <1>5, <1>6 DEF Calls
<1>8. Single(v) /\ Course(v) /\ Young(v) /\ Shut(v)
  <2>1. KindsOf(v) = KindsOf(w)
    BY <1>2, <1>5, <1>7 DEF KindsOf
  <2>2. Single(v)
    BY <1>2, <1>7, <2>1 DEF Mid, Single
  <2>3. Course(v)
    BY <1>2, <1>5, <1>7 DEF Mid, Course
  <2>4. Young(v)
    BY <1>2, <1>7 DEF Mid, Young
  <2>5. Shut(v)
    BY <1>5, <1>7 DEF Shut
  <2>q. QED BY <2>2, <2>3, <2>4, <2>5
<1>9. Waking(v, due)
  BY <1>2, <1>5, <1>7 DEF Mid, Waking, Aligned, Lazy, Pause
<1>10. ~v.conn.headersSent => Untouched(v)
  BY <1>2, <1>5, <1>7 DEF Mid, Blank, Untouched
<1>11. Settled(v, due)
  BY <1>7, <1>8, <1>9, <1>10 DEF Settled
<1>q. QED BY <1>5, <1>7, <1>11

\* The headers are marked as sent, whether they are or not.
LEMMA MarkedGives ==
    ASSUME NEW w \in Calls, NEW v, v = [w EXCEPT !.conn.headersSent = TRUE, !.ret = "progress"]
    PROVE  /\ v \in Calls /\ v.sess = w.sess /\ v.up = w.up /\ v.client = w.client
           /\ v.pool = w.pool /\ v.ret = "progress" /\ v.conn.headersSent
           /\ v.conn.queue = w.conn.queue /\ v.conn.state = w.conn.state
           /\ v.conn.armed = w.conn.armed /\ v.conn.scheduled = w.conn.scheduled
           /\ v.conn.slow = w.conn.slow /\ v.conn.since = w.conn.since
<1>1. w.conn \in Conns
  BY DEF Calls
<1>2. PICK c \in Conns : c = [w.conn EXCEPT !.headersSent = TRUE]
  BY <1>1 DEF Conns
<1>3. /\ c.headersSent /\ c.queue = w.conn.queue /\ c.state = w.conn.state /\ c.armed = w.conn.armed
      /\ c.scheduled = w.conn.scheduled /\ c.slow = w.conn.slow /\ c.since = w.conn.since
  BY ONLY <1>1, <1>2 DEF Conns
<1>4. v = [w EXCEPT !.conn = c, !.ret = "progress"]
  BY <1>2 DEF Calls
<1>5. /\ v \in Calls /\ v.sess = w.sess /\ v.up = w.up /\ v.client = w.client
      /\ v.pool = w.pool /\ v.ret = "progress" /\ v.conn = c
  BY ONLY <1>4, w \in Calls, c \in Conns DEF Calls
<1>q. QED BY <1>3, <1>5

\* http_send_503(): the client gets the 503, or nothing more.
LEMMA Send503Gives ==
    ASSUME NEW w, NEW due, Mid(w, due), w.sess.st = "error", ~w.conn.headersSent,
           NEW v, v = Send503(w)
    PROVE  /\ v \in Calls /\ v.sess = w.sess /\ v.up = w.up /\ v.client = w.client
           /\ v.conn.headersSent /\ v.conn.state # "closed" /\ Single(v)
<1>1. w \in Calls /\ w.conn.state # "closed" /\ Single(w) /\ Blank(w)
  BY DEF Mid
<1>2. \A i \in Nat : Buffers("503", i, 1) \in Seq(BufferType) /\ Whats(Buffers("503", i, 1)) \subseteq {"503"}
  BY BuffersAre DEF Kinds
<1>3. PICK o : o = Output(w, Buffers("503", 1, 1))
  OBVIOUS
<1>4. Follows(w, o, {"503"})
  <2>1. PICK bs \in Seq(BufferType) : bs = Buffers("503", 1, 1) /\ Whats(bs) \subseteq {"503"}
    BY <1>2
  <2>2. o = Output(w, bs)
    BY ONLY <1>3, <2>1
  <2>q. QED BY ONLY <1>1, <2>1, <2>2, OutputGives
<1>5. PICK h : h = [o EXCEPT !.conn.headersSent = TRUE, !.ret = "progress"]
  OBVIOUS
<1>6. /\ h \in Calls /\ h.sess = o.sess /\ h.up = o.up /\ h.client = o.client
      /\ h.pool = o.pool /\ h.ret = "progress" /\ h.conn.headersSent
      /\ h.conn.queue = o.conn.queue /\ h.conn.state = o.conn.state
      /\ h.conn.slow = o.conn.slow /\ h.conn.since = o.conn.since
  <2>1. o \in Calls
    BY <1>4 DEF Follows
  <2>q. QED BY ONLY <1>5, <2>1, MarkedGives
<1>7. PICK b : b = IF resp.head THEN h ELSE Output(h, Buffers("503", 2, 1))
  OBVIOUS
<1>8. Follows(h, b, {"503"})
  <2>1. CASE resp.head
    BY <1>6, <1>7, <2>1 DEF Follows, Alike
  <2>2. CASE ~resp.head
    <3>1. PICK bs \in Seq(BufferType) : bs = Buffers("503", 2, 1) /\ Whats(bs) \subseteq {"503"}
      BY <1>2
    <3>2. b = Output(h, bs)
      BY <1>7, <2>2, <3>1
    <3>q. QED BY <1>6, <3>1, <3>2, OutputGives
  <2>q. QED BY <2>1, <2>2
<1>9. v = IF b.ret = "fail" THEN b ELSE [b EXCEPT !.conn = [Schedule(@) EXCEPT !.state = "closing"]]
  BY <1>3, <1>5, <1>7 DEF Send503, With
<1>10. /\ b \in Calls /\ b.sess = w.sess /\ b.up = w.up /\ b.client = w.client
       /\ b.conn.headersSent /\ b.conn.state # "closed"
  BY <1>1, <1>4, <1>6, <1>8 DEF Follows, Alike
<1>11. /\ v \in Calls /\ v.sess = b.sess /\ v.up = b.up /\ v.client = b.client
       /\ v.conn.headersSent /\ v.conn.state # "closed" /\ v.conn.queue = b.conn.queue
  <2>1. CASE b.ret = "fail"
    BY <1>9, <1>10, <2>1
  <2>2. CASE b.ret # "fail"
    <3>1. b.conn \in Conns
      BY <1>10 DEF Calls
    <3>2. PICK d : d = Schedule(b.conn)
      OBVIOUS
    <3>3. d \in Conns /\ d.queue = b.conn.queue /\ d.headersSent = b.conn.headersSent
      BY <3>1, <3>2, ScheduleKeeps
    <3>4. PICK e : e = [d EXCEPT !.state = "closing"]
      OBVIOUS
    <3>5. e \in Conns /\ e.queue = d.queue /\ e.headersSent = d.headersSent /\ e.state = "closing"
      BY ONLY <3>3, <3>4 DEF Conns
    <3>6. v = [b EXCEPT !.conn = e]
      BY <1>9, <2>2, <3>2, <3>4 DEF Calls
    <3>7. v \in Calls /\ v.sess = b.sess /\ v.up = b.up /\ v.client = b.client /\ v.conn = e
      BY ONLY <1>10, <3>5, <3>6 DEF Calls
    <3>q. QED BY <1>10, <3>3, <3>5, <3>7
  <2>q. QED BY <2>1, <2>2
<1>12. Single(v)
  <2>1. CASE Untouched(w)
    <3>1. Whats(<<>>) = {}
      BY DEF Whats
    <3>2. KindsOf(v) \subseteq {"503"}
      BY <1>4, <1>6, <1>8, <1>10, <1>11, <2>1, <3>1 DEF Untouched, Follows, KindsOf
    <3>3. v.sess.st = "error"
      BY <1>10, <1>11
    <3>q. QED BY <3>2, <3>3 DEF Single
  <2>2. CASE Stuck(w.conn, w.pool) /\ "503" \notin KindsOf(w)
    <3>1. o.conn.queue = w.conn.queue /\ Stuck(o.conn, o.pool)
      BY <1>4, <2>2 DEF Follows
    <3>2. Stuck(h.conn, h.pool)
      <4>1. Memory(h.conn) = Memory(o.conn)
        BY <1>6 DEF Memory
      <4>q. QED BY <1>6, <3>1, <4>1 DEF Stuck, Refuses, Calm
    <3>3. b.conn.queue = h.conn.queue
      BY <1>8, <3>2 DEF Follows
    <3>4. KindsOf(v) = KindsOf(w)
      BY <1>6, <1>10, <1>11, <3>1, <3>3 DEF KindsOf
    <3>q. QED BY <2>2, <3>4 DEF Single
  <2>q. QED BY <1>1, <2>1, <2>2 DEF Blank
<1>q. QED BY <1>10, <1>11, <1>12

\* After it the connection is in order.
LEMMA AnsweredSettles ==
    ASSUME NEW w, NEW due, Mid(w, due), w.sess.st = "error", ~w.conn.headersSent,
           NEW v, v \in Calls /\ v.sess = w.sess /\ v.up = w.up /\ v.client = w.client
                  /\ v.conn.headersSent /\ v.conn.state # "closed" /\ Single(v)
    PROVE  Settled(v, FALSE)
<1>1. ~w.sess.paused /\ w.up.got <= w.up.sent
  BY DEF Mid, Course
<1>2. Course(v) /\ Young(v) /\ Shut(v)
  BY <1>1 DEF Course, Young, Shut
<1>3. Waking(v, FALSE)
  BY <1>1 DEF Mid, Waking, Aligned, Lazy, Pause
<1>q. QED BY <1>2, <1>3 DEF Settled

\* A session has failed: stream_handle_fd_event() and stream_tick() below 0.
LEMMA FailedGood ==
    ASSUME NEW w, NEW due, Mid(w, due), w.sess.st = "error"
    PROVE  Settled(EventFailed(w), FALSE) /\ Settled(TickFailed(w), FALSE)
<1>1. Settled(Close(w, "cut"), FALSE)
  BY CloseGood DEF Mid, Young, Waking, Ends
<1>2. ASSUME ~w.conn.headersSent PROVE Settled(Send503(w), FALSE)
  <2>1. PICK v : v = Send503(w)
    OBVIOUS
  <2>2. /\ v \in Calls /\ v.sess = w.sess /\ v.up = w.up /\ v.client = w.client
        /\ v.conn.headersSent /\ v.conn.state # "closed" /\ Single(v)
    BY <1>2, <2>1, Send503Gives
  <2>3. Settled(v, FALSE)
    BY <1>2, <2>2, AnsweredSettles
  <2>q. QED BY <2>1, <2>3
<1>q. QED BY <1>1, <1>2 DEF EventFailed, TickFailed

\* No candidate could be connected to when the session began.
LEMMA NotStartedGood ==
    ASSUME NEW w, Mid(w, FALSE), ~w.conn.headersSent
    PROVE  Settled(NotStarted(w), FALSE)
<1>1. PICK u : u = [w EXCEPT !.sess.open = FALSE]
  OBVIOUS
<1>2. /\ u \in Calls /\ u.conn = w.conn /\ u.pool = w.pool /\ u.up = w.up
      /\ u.client = w.client /\ u.ret = w.ret /\ u.sess.st = w.sess.st
      /\ u.sess.paused = w.sess.paused /\ u.sess.rewrite = w.sess.rewrite
      /\ u.sess.pos = w.sess.pos
  BY <1>1 DEF Mid, Calls, Sessions
<1>3. Mid(u, FALSE)
  <2>1. Single(u) /\ Blank(u) /\ Course(u) /\ (u.ret # "fail" => Young(u))
    BY <1>2 DEF Mid, Single, Blank, Course, Young, KindsOf, Untouched
  <2>2. Waking(u, FALSE)
    BY <1>2 DEF Mid, Waking, Aligned, Lazy, Pause
  <2>q. QED BY <1>2, <2>1, <2>2 DEF Mid
<1>4. PICK e : e = Goes(u, "error")
  OBVIOUS
<1>5. Mid(e, FALSE) /\ e.sess.st = "error" /\ ~e.conn.headersSent
  BY <1>2, <1>3, <1>4, ErrorGood
<1>6. PICK v : v = Send503(e)
  OBVIOUS
<1>7. /\ v \in Calls /\ v.sess = e.sess /\ v.up = e.up /\ v.client = e.client
      /\ v.conn.headersSent /\ v.conn.state # "closed" /\ Single(v)
  BY <1>5, <1>6, Send503Gives
<1>8. NotStarted(w) = IF v.conn.queue = <<>> THEN Close(v, "cut") ELSE [v EXCEPT !.conn.state = "closing"]
  BY <1>1, <1>4, <1>6 DEF NotStarted, With
<1>9. Settled(v, FALSE)
  BY <1>5, <1>7, AnsweredSettles
<1>10. CASE v.conn.queue = <<>>
  <2>1. Settled(Close(v, "cut"), FALSE)
    BY <1>9, CloseGood DEF Settled, Waking, Ends
  <2>q. QED BY <1>8, <1>10, <2>1
<1>11. CASE v.conn.queue # <<>>
  <2>1. PICK x : x = [v EXCEPT !.conn.state = "closing"]
    OBVIOUS
  <2>2. v.conn \in Conns
    BY <1>7 DEF Calls
  <2>3. PICK c : c = [v.conn EXCEPT !.state = "closing"]
    OBVIOUS
  <2>4. c \in Conns /\ c.state = "closing" /\ c.queue = v.conn.queue /\ c.headersSent = v.conn.headersSent
    BY ONLY <2>2, <2>3 DEF Conns
  <2>5. x = [v EXCEPT !.conn = c]
    BY <1>7, <2>1, <2>3 DEF Calls
  <2>6. x \in Calls /\ x.conn = c /\ x.sess = v.sess /\ x.up = v.up /\ x.client = v.client
    BY ONLY <1>7, <2>4, <2>5 DEF Calls
  <2>7. Single(x)
    BY <1>7, <2>4, <2>6 DEF Single, KindsOf
  <2>8. x.sess = e.sess /\ x.up = e.up /\ x.client = e.client /\ x.conn.headersSent /\ x.conn.state # "closed"
    BY <1>7, <2>4, <2>6
  <2>9. Settled(x, FALSE)
    BY <1>5, <2>6, <2>7, <2>8, AnsweredSettles
  <2>q. QED BY <1>8, <1>11, <2>1, <2>9
<1>q. QED BY <1>10, <1>11

-----------------------------------------------------------------------------
(* Receiving. *)

\* The sizes of a head and of what may arrive.
LEMMA Heads ==
    /\ HeadUnits \in Nat \ {0} /\ HeadRoom \in Nat /\ HeadUnits < HeadRoom
    /\ ScratchUnits \in Nat \ {0} /\ Segments \subseteq Nat \ {0}
    /\ Candidates \in Nat /\ ClientRoom \in Nat /\ OthersMax \in Nat
BY HttpProxyAssumption

\* What a step of receiving keeps.
Received(w, v, due) ==
    /\ Mid(v, due)
    /\ w.conn.headersSent => v.conn.headersSent
    /\ w.sess.st = "streaming" => v.sess.st \in {"streaming", "complete"}

\* Counting units of the body, or failing, disturbs nothing.
LEMMA SameGood ==
    ASSUME NEW w, NEW due, Mid(w, due), NEW v \in Calls,
           v.conn = w.conn, v.pool = w.pool, v.up = w.up, v.client = w.client,
           v.sess.st = w.sess.st, v.sess.paused = w.sess.paused, v.sess.rewrite = w.sess.rewrite,
           v.sess.pos = w.sess.pos \/ w.sess.st \in {"streaming", "complete", "error"},
           v.ret = "fail" \/ w.ret # "fail"
    PROVE  Mid(v, due)
<1>1. Single(v) /\ Blank(v) /\ Course(v) /\ (v.ret # "fail" => Young(v))
  BY DEF Mid, Single, Blank, Course, Young, KindsOf, Untouched
<1>2. Waking(v, due)
  BY DEF Mid, Waking, Aligned, Lazy, Pause
<1>q. QED BY <1>1, <1>2 DEF Mid

\* The return value of a call disturbs nothing.
LEMMA ReturnsGood ==
    ASSUME NEW w, NEW due, Mid(w, due), NEW r \in {"progress", "nothing", "fail"},
           r = "fail" \/ w.ret # "fail", NEW v, v = Returns(w, r)
    PROVE  Mid(v, due) /\ Received(w, v, due) /\ v.ret = r /\ v.conn = w.conn /\ v.sess = w.sess
<1>1. w \in Calls
  BY DEF Mid
<1>2. /\ v \in Calls /\ v.conn = w.conn /\ v.pool = w.pool /\ v.up = w.up
      /\ v.client = w.client /\ v.sess = w.sess /\ v.ret = r
  BY <1>1, ReturnsGives
<1>3. Mid(v, due)
  BY <1>2, SameGood
<1>q. QED BY <1>2, <1>3 DEF Received

\* A session that is not to answer any more is complete.
LEMMA CompleteGood ==
    ASSUME NEW w, NEW due, Mid(w, due), w.sess.st # "error", NEW v, v = Goes(w, "complete")
    PROVE  /\ Mid(v, due) /\ v.conn = w.conn /\ v.ret = w.ret /\ v.sess.st = "complete"
           /\ Received(w, v, due)
<1>1. /\ v \in Calls /\ v.conn = w.conn /\ v.pool = w.pool /\ v.up = w.up
      /\ v.client = w.client /\ v.ret = w.ret
      /\ v.sess.st = "complete" /\ v.sess.cands = w.sess.cands /\ v.sess.open = w.sess.open
      /\ v.sess.paused = w.sess.paused /\ v.sess.rewrite = w.sess.rewrite
      /\ v.sess.pos = w.sess.pos
  BY GoesGives DEF Mid, Stages
<1>2. Single(v) /\ Blank(v) /\ Course(v) /\ Young(v)
  BY <1>1 DEF Mid, Single, Blank, Course, Young, KindsOf, Untouched
<1>3. Waking(v, due)
  BY <1>1 DEF Mid, Waking, Aligned, Lazy, Pause
<1>4. Mid(v, due)
  BY <1>1, <1>2, <1>3 DEF Mid
<1>q. QED BY <1>1, <1>4 DEF Received

\* Output, of an answer that is not passed through yet, that failed on the way.
LEMMA BrokenOutput ==
    ASSUME NEW w, NEW due, Mid(w, due) \/ (w \in Calls /\ w.conn.state # "closed" /\ Single(w)
                                           /\ Blank(w) /\ Course(w) /\ Waking(w, due)),
           w.ret # "fail", w.sess.st \in {"awaiting", "streaming"},
           w.sess.rewrite \/ w.sess.st = "awaiting",
           NEW v, Follows(w, v, {"head", "body"}), v.ret = "fail"
    PROVE  Mid(v, due) /\ v.conn.headersSent = w.conn.headersSent
<1>1. /\ v \in Calls /\ v.sess = w.sess /\ v.up = w.up /\ v.client = w.client
      /\ v.conn.state = w.conn.state /\ v.conn.headersSent = w.conn.headersSent
      /\ Whats(v.conn.queue) \subseteq Whats(w.conn.queue) \union {"head", "body"}
      /\ Calm(w.conn) => Stuck(v.conn, v.pool)
  BY DEF Follows, Alike
<1>2. Single(w) /\ Blank(w) /\ Course(w) /\ Waking(w, due) /\ w.conn.state # "closed"
  BY DEF Mid
<1>3. "503" \notin KindsOf(w)
  BY <1>2 DEF Single
<1>4. "503" \notin KindsOf(v)
  BY <1>1, <1>3 DEF KindsOf
<1>5. Blank(v)
  BY <1>1, <1>2, <1>4 DEF Blank, Untouched, Calm
<1>6. Course(v)
  BY <1>1, <1>2 DEF Course
<1>7. Waking(v, due)
  BY <1>1, <1>2 DEF Waking, Aligned, Lazy, Pause, Course
<1>q. QED BY <1>1, <1>2, <1>4, <1>5, <1>6, <1>7 DEF Mid, Single

\* http_proxy_finalize_rewrite().
LEMMA FinalizeGood ==
    ASSUME NEW w, NEW due, Mid(w, due), w.sess.st = "streaming", w.sess.rewrite, w.ret # "fail",
           NEW x, x = FinalizeRewrite(w)
    PROVE  Received(w, x, due)
<1>1. PICK bs : bs = Buffers("head", 1, 1) \o Buffers("body", 1, w.sess.used)
  OBVIOUS
<1>2. bs \in Seq(BufferType) /\ Whats(bs) \subseteq {"head", "body"}
  <2>1. w.sess.used \in Nat
    BY DEF Mid, Calls, Sessions
  <2>2. PICK a, b : a = Buffers("head", 1, 1) /\ b = Buffers("body", 1, w.sess.used)
    OBVIOUS
  <2>3. a \in Seq(BufferType) /\ Whats(a) \subseteq {"head"}
    BY <2>2, BuffersAre DEF Kinds
  <2>4. b \in Seq(BufferType) /\ Whats(b) \subseteq {"body"}
    BY <2>1, <2>2, BuffersAre DEF Kinds
  <2>q. QED BY <1>1, <2>2, <2>3, <2>4, BothWhats
<1>3. PICK v : v = Output(w, bs)
  OBVIOUS
<1>4. Follows(w, v, {"head", "body"})
  BY <1>2, <1>3, OutputGives DEF Mid
<1>5. x = IF v.ret = "fail" THEN v
          ELSE Goes([v EXCEPT !.conn.headersSent = TRUE, !.ret = "progress"], "complete")
  BY <1>1, <1>3 DEF FinalizeRewrite, With
<1>6. CASE v.ret = "fail"
  <2>1. Mid(v, due) /\ v.conn.headersSent = w.conn.headersSent
    BY <1>4, <1>6, BrokenOutput
  <2>2. v.sess = w.sess
    BY <1>4 DEF Follows
  <2>q. QED BY <1>5, <1>6, <2>1, <2>2 DEF Received
<1>7. CASE v.ret # "fail"
  <2>1. PICK h : h = [v EXCEPT !.conn.headersSent = TRUE, !.ret = "progress"]
    OBVIOUS
  <2>2. /\ v \in Calls /\ v.sess = w.sess /\ v.up = w.up /\ v.client = w.client
        /\ v.conn.state = w.conn.state
        /\ Whats(v.conn.queue) \subseteq Whats(w.conn.queue) \union {"head", "body"}
    BY <1>4 DEF Follows, Alike
  <2>3. /\ h \in Calls /\ h.sess = v.sess /\ h.up = v.up /\ h.client = v.client
        /\ h.conn.headersSent /\ h.conn.queue = v.conn.queue /\ h.conn.state = v.conn.state
    BY <2>1, <2>2, MarkedGives
  <2>4. x = Goes(h, "complete")
    BY <1>5, <1>7, <2>1
  <2>5. /\ x \in Calls /\ x.conn = h.conn /\ x.pool = h.pool /\ x.up = h.up
        /\ x.client = h.client /\ x.sess.st = "complete"
        /\ x.sess.paused = h.sess.paused /\ x.sess.rewrite = h.sess.rewrite
    BY <2>3, <2>4, GoesGives DEF Stages
  <2>6. "503" \notin KindsOf(w)
    BY DEF Mid, Single
  <2>7. "503" \notin KindsOf(x)
    BY <2>2, <2>3, <2>5, <2>6 DEF KindsOf
  <2>8. Course(x) /\ Young(x) /\ ~x.sess.paused
    BY <2>2, <2>3, <2>5 DEF Mid, Course, Young
  <2>9. Waking(x, due)
    BY <2>2, <2>3, <2>5, <2>8 DEF Mid, Waking, Aligned, Lazy, Pause
  <2>10. Mid(x, due)
    BY <2>2, <2>3, <2>5, <2>7, <2>8, <2>9 DEF Mid, Single, Blank
  <2>q. QED BY <2>3, <2>5, <2>10 DEF Received
<1>q. QED BY <1>6, <1>7

\* One step after another.
LEMMA ReceivedTwice ==
    ASSUME NEW u, NEW v, NEW w, NEW due, Received(u, v, due), Received(v, w, due),
           v.sess.st = "complete" => w.sess.st = "complete"
    PROVE  Received(u, w, due)
BY DEF Received

\* http_proxy_consume_rewrite_body().
LEMMA ConsumeRewriteGood ==
    ASSUME NEW w, NEW due, Mid(w, due), w.sess.st = "streaming", w.sess.rewrite, w.ret # "fail",
           NEW n \in Nat, NEW x, x = ConsumeRewrite(w, n)
    PROVE  Received(w, x, due)
<1>1. w \in Calls /\ w.sess \in Sessions
  BY DEF Mid, Calls
<1>2. PICK v : v = [w EXCEPT !.sess.used = @ + n, !.ret = "progress"]
  OBVIOUS
<1>3. /\ v \in Calls /\ v.conn = w.conn /\ v.pool = w.pool /\ v.up = w.up /\ v.client = w.client
      /\ v.sess.st = w.sess.st /\ v.sess.paused = w.sess.paused /\ v.sess.rewrite = w.sess.rewrite
      /\ v.sess.pos = w.sess.pos /\ v.ret = "progress"
  <2>1. PICK m \in Nat : m = w.sess.used + n
    BY <1>1 DEF Sessions
  <2>2. PICK s : s = [w.sess EXCEPT !.used = m]
    OBVIOUS
  <2>3. /\ s \in Sessions /\ s.st = w.sess.st /\ s.paused = w.sess.paused
        /\ s.rewrite = w.sess.rewrite /\ s.pos = w.sess.pos
    BY ONLY <1>1, <2>2, m \in Nat DEF Sessions
  <2>4. v = [w EXCEPT !.sess = s, !.ret = "progress"]
    BY <1>1, <1>2, <2>1, <2>2 DEF Calls
  <2>5. /\ v \in Calls /\ v.conn = w.conn /\ v.pool = w.pool /\ v.up = w.up
        /\ v.client = w.client /\ v.sess = s /\ v.ret = "progress"
    BY ONLY <1>1, <2>3, <2>4 DEF Calls
  <2>q. QED BY <2>3, <2>5
<1>4. Mid(v, due)
  BY <1>3, SameGood
<1>5. Received(w, v, due) /\ v.sess.st = "streaming" /\ v.sess.rewrite
  BY <1>3, <1>4 DEF Received
<1>6. x = IF v.sess.used > MaxRewrite THEN Returns(w, "fail")
          ELSE IF Entire(v) \/ (resp.framing = "chunked" /\ v.sess.used = resp.size)
               THEN FinalizeRewrite(v)
               ELSE v
  BY <1>2 DEF ConsumeRewrite, With
<1>7. Received(w, Returns(w, "fail"), due)
  BY ReturnsGood
<1>8. Received(w, FinalizeRewrite(v), due)
  <2>1. PICK y : y = FinalizeRewrite(v)
    OBVIOUS
  <2>2. Received(v, y, due)
    BY <1>3, <1>4, <1>5, <2>1, FinalizeGood
  <2>3. Received(w, y, due)
    BY <1>5, <2>2, ReceivedTwice
  <2>q. QED BY <2>1, <2>3
<1>q. QED BY Zenon, <1>5, <1>6, <1>7, <1>8

\* http_proxy_handle_upstream_end(), and a recv() that finds nothing.
LEMMA NoInputGood ==
    ASSUME NEW w, NEW due, Mid(w, due), w.sess.st = "streaming", w.ret # "fail"
    PROVE  Received(w, UpstreamEnd(w), due) /\ Received(w, NoInput(w), due)
<1>1. Received(w, Returns(w, "nothing"), due) /\ Received(w, Returns(w, "fail"), due)
  BY ReturnsGood
<1>2. Received(w, Returns(Goes(w, "complete"), "nothing"), due)
  <2>1. PICK v : v = Goes(w, "complete")
    OBVIOUS
  <2>2. Mid(v, due) /\ v.ret # "fail" /\ v.sess.st = "complete" /\ Received(w, v, due)
    BY <2>1, CompleteGood
  <2>3. PICK y : y = Returns(v, "nothing")
    OBVIOUS
  <2>4. Received(v, y, due) /\ y.sess = v.sess
    BY <2>2, <2>3, ReturnsGood
  <2>5. Received(w, y, due)
    BY <2>2, <2>4, ReceivedTwice
  <2>q. QED BY <2>1, <2>3, <2>5
<1>3. ASSUME w.sess.rewrite PROVE Received(w, FinalizeRewrite(w), due)
  BY <1>3, FinalizeGood
<1>4. Received(w, UpstreamEnd(w), due)
  BY <1>1, <1>2, <1>3 DEF UpstreamEnd
<1>q. QED BY <1>1, <1>4 DEF NoInput

\* The units that are there.
LEMMA AvailableUnits ==
    ASSUME NEW w \in Calls, w.up.got <= w.up.sent, NEW m \in Nat \ {0},
           NEW n, n = Min({Available(w), m})
    PROVE  /\ Available(w) \in Nat /\ n \in Nat /\ w.up.got + n <= w.up.sent
           /\ n = 0 <=> Available(w) = 0
           /\ n = IF Available(w) <= m THEN Available(w) ELSE m
<1>1. w.up.got \in Nat /\ w.up.sent \in Nat
  BY DEF Calls, Upstreams
<1>2. Available(w) \in Nat
  BY <1>1 DEF Available
<1>3. n = IF Available(w) <= m THEN Available(w) ELSE m
  BY <1>2, MinOfTwo
<1>4. w.up.got + Available(w) = w.up.sent
  BY <1>1 DEF Available
<1>q. QED BY <1>1, <1>2, <1>3, <1>4

\* Units are read and counted.
LEMMA TakenGives ==
    ASSUME NEW w \in Calls, NEW n \in Nat, NEW v, v = Counted(Take(w, n), n)
    PROVE  /\ v \in Calls /\ v.conn = w.conn /\ v.pool = w.pool /\ v.client = w.client
           /\ v.up.got = w.up.got + n /\ v.up.sent = w.up.sent /\ v.up.fin = w.up.fin
           /\ v.sess.st = w.sess.st /\ v.sess.paused = w.sess.paused
           /\ v.sess.rewrite = w.sess.rewrite /\ v.sess.pos = w.sess.pos /\ v.ret = w.ret
<1>1. w.up \in Upstreams /\ w.sess \in Sessions
  BY DEF Calls
<1>2. PICK g, m \in Nat : g = w.up.got + n /\ m = w.sess.rcvd + n
  BY <1>1 DEF Upstreams, Sessions
<1>3. PICK u, s : u = [w.up EXCEPT !.got = g] /\ s = [w.sess EXCEPT !.rcvd = m]
  OBVIOUS
<1>4. /\ u \in Upstreams /\ u.got = g /\ u.sent = w.up.sent /\ u.fin = w.up.fin
      /\ s \in Sessions /\ s.st = w.sess.st /\ s.paused = w.sess.paused
      /\ s.rewrite = w.sess.rewrite /\ s.pos = w.sess.pos
  BY ONLY <1>1, <1>3, g \in Nat, m \in Nat DEF Upstreams, Sessions
<1>5. v = [w EXCEPT !.up = u, !.sess = s]
  BY <1>1, <1>2, <1>3 DEF Counted, Take, Calls
<1>6. /\ v \in Calls /\ v.conn = w.conn /\ v.pool = w.pool /\ v.client = w.client
      /\ v.up = u /\ v.sess = s /\ v.ret = w.ret
  BY ONLY <1>4, <1>5, w \in Calls DEF Calls
<1>q. QED BY <1>2, <1>4, <1>6

\* A part of a body that is to be rewritten.
LEMMA ReceiveRewriteGood ==
    ASSUME NEW w, NEW due, Mid(w, due), w.sess.st = "streaming", w.sess.rewrite, w.ret # "fail"
    PROVE  Received(w, ReceiveRewrite(w), due)
<1>1. w \in Calls /\ w.up.got <= w.up.sent /\ w.up.got >= HeadUnits /\ w.up.got \in Nat
  BY DEF Mid, Course, Calls, Upstreams
<1>2. PICK n : n = Min({Available(w), ScratchUnits})
  OBVIOUS
<1>3. n \in Nat /\ w.up.got + n <= w.up.sent
  BY <1>1, <1>2, Heads, AvailableUnits
<1>4. ReceiveRewrite(w) = IF n = 0 THEN NoInput(w) ELSE ConsumeRewrite(Counted(Take(w, n), n), n)
  BY <1>2 DEF ReceiveRewrite
<1>5. PICK v : v = Counted(Take(w, n), n)
  OBVIOUS
<1>6. /\ v \in Calls /\ v.conn = w.conn /\ v.pool = w.pool /\ v.client = w.client
      /\ v.up.got = w.up.got + n /\ v.up.sent = w.up.sent
      /\ v.sess.st = w.sess.st /\ v.sess.paused = w.sess.paused
      /\ v.sess.rewrite = w.sess.rewrite /\ v.sess.pos = w.sess.pos /\ v.ret = w.ret
  <2>1. w \in Calls /\ n \in Nat
    BY <1>1, <1>3
  <2>q. QED BY ONLY <1>5, <2>1, TakenGives
<1>7. Single(v) /\ Blank(v) /\ Young(v)
  BY <1>6 DEF Mid, Single, Blank, Young, KindsOf, Untouched
<1>8. Course(v)
  <2>1. v.up.got >= HeadUnits
    BY <1>1, <1>3, <1>6, Heads
  <2>q. QED BY <1>1, <1>3, <1>6, <2>1 DEF Mid, Course
<1>9. Waking(v, due)
  BY <1>6 DEF Mid, Waking, Aligned, Lazy, Pause
<1>10. Mid(v, due)
  BY <1>6, <1>7, <1>8, <1>9 DEF Mid
<1>11. Received(w, ConsumeRewrite(v, n), due)
  <2>1. PICK y : y = ConsumeRewrite(v, n)
    OBVIOUS
  <2>2. Received(v, y, due)
    BY <1>3, <1>6, <1>10, <2>1, ConsumeRewriteGood
  <2>3. Received(w, y, due)
    BY <1>6, <2>2 DEF Received
  <2>q. QED BY <2>1, <2>3
<1>q. QED BY <1>4, <1>5, <1>11, NoInputGood

\* The body as it comes: what is read next fills a buffer.
LEMMA WholeNext ==
    ASSUME NEW h \in Nat, NEW got \in Nat, NEW sent \in Nat, h <= got, got < sent,
           Whole(sent - h), Whole(got - h),
           NEW n, n = IF sent - got <= BufferUnits THEN sent - got ELSE BufferUnits
    PROVE  n = BufferUnits /\ Whole(got + n - h)
<1>1. PICK B \in Nat \ {0} : B = BufferUnits
  BY Sizes
<1>2. PICK i, j \in Nat : sent - h = B * i /\ got - h = B * j
  BY <1>1 DEF Whole
<1>3. B * (i - j) = sent - got
  BY <1>2
<1>4. i - j >= 1
  <2>1. i - j <= 0 => B * (i - j) <= 0
    OBVIOUS
  <2>q. QED BY <1>3, <2>1
<1>5. B * (i - j) >= B
  BY <1>4
<1>6. n = B
  BY <1>1, <1>3, <1>5
<1>7. got + n - h = B * (j + 1) /\ j + 1 \in Nat
  BY <1>2, <1>6
<1>q. QED BY <1>1, <1>6, <1>7 DEF Whole

\* Receiving ends where the body does.
LEMMA EndIfEntireGood ==
    ASSUME NEW w, NEW due, Mid(w, due), w.sess.st = "streaming"
    PROVE  Received(w, EndIfEntire(w), due)
BY CompleteGood DEF EndIfEntire, Received

\* The body passed on: what arrives fills a buffer, and the buffer is queued or
\* dropped.
LEMMA PassedOn ==
    ASSUME NEW w, NEW due, Mid(w, due), w.sess.st = "streaming", ~w.sess.rewrite,
           NEW n, n = Min({Available(w), BufferUnits}), n # 0,
           NEW c \in Conns, Alike(w.conn, c),
           NEW b \in BufferType, b.what = "body", b.n = n,
           NEW ok \in BOOLEAN, c.queue = IF ok THEN Append(w.conn.queue, b) ELSE w.conn.queue,
           ok => Payload(c.queue) < BatchUnits \/ c.armed \/ c.scheduled,
           NEW v \in Calls, v.conn = c, v.client = w.client,
           v.up.got = w.up.got + n, v.up.sent = w.up.sent,
           v.sess.st = w.sess.st, v.sess.paused = w.sess.paused, v.sess.rewrite = w.sess.rewrite
    PROVE  Received(w, v, due)
<1>1. /\ w \in Calls /\ w.conn \in Conns /\ w.conn.headersSent /\ w.up.got \in Nat /\ w.up.sent \in Nat
      /\ w.up.got <= w.up.sent /\ w.up.got >= HeadUnits
  BY DEF Mid, Course, Calls, Upstreams
<1>2. /\ Available(w) \in Nat /\ n \in Nat /\ w.up.got + n <= w.up.sent
      /\ n = IF Available(w) <= BufferUnits THEN Available(w) ELSE BufferUnits
  BY <1>1, Sizes, AvailableUnits
<1>3. /\ c.state = w.conn.state /\ c.headersSent = w.conn.headersSent /\ (Idle(c) => Idle(w.conn))
  BY DEF Alike, Idle
<1>4. w.conn.queue \in Seq(BufferType) /\ c.queue \in Seq(BufferType)
  BY <1>1 DEF Conns
<1>5. Single(v)
  <2>1. "503" \notin KindsOf(w)
    BY DEF Mid, Single
  <2>2. Whats(c.queue) \subseteq Whats(w.conn.queue) \union {"body"}
    <3>1. CASE ok
      <4>1. c.queue = Append(w.conn.queue, b)
        BY <3>1
      <4>2. b \in BufferType /\ b.what = "body"
        OBVIOUS
      <4>3. PICK r : r = c.queue
        OBVIOUS
      <4>4. PICK q : q = w.conn.queue /\ q \in Seq(BufferType) /\ r = Append(q, b)
        BY ONLY <1>4, <4>1, <4>3
      <4>5. Whats(r) = Whats(q) \union {b.what}
        BY ONLY <4>2, <4>4, AppendedWhats
      <4>q. QED BY ONLY <4>2, <4>3, <4>4, <4>5
    <3>2. CASE ~ok
      BY <3>2
    <3>q. QED BY <3>1, <3>2
  <2>q. QED BY <2>1, <2>2 DEF Single, KindsOf
<1>6. Course(v) /\ Blank(v) /\ Young(v)
  <2>1. v.up.got >= HeadUnits /\ v.up.got <= v.up.sent
    BY <1>1, <1>2, Heads
  <2>q. QED BY <1>1, <1>3, <2>1 DEF Mid, Course, Blank, Young
<1>7. Waking(v, due)
  <2>1. SUFFICES ASSUME Fills PROVE Aligned(v) /\ Lazy(v, due) /\ Pause(v, due)
    BY DEF Waking
  <2>2. Aligned(w) /\ Lazy(w, due) /\ Pause(w, due)
    BY <2>1 DEF Mid, Waking
  <2>3. n = BufferUnits /\ Whole(w.up.got + n - HeadUnits)
    <3>1. Available(w) = w.up.sent - w.up.got
      BY DEF Available
    <3>2. w.up.got < w.up.sent
      BY <1>1, <1>2, <3>1
    <3>3. w.up.sent > HeadUnits
      BY <1>1, <3>2, Heads
    <3>4. Whole(w.up.sent - HeadUnits) /\ Whole(w.up.got - HeadUnits)
      BY <2>2, <3>3 DEF Aligned
    <3>5. n = IF w.up.sent - w.up.got <= BufferUnits THEN w.up.sent - w.up.got ELSE BufferUnits
      BY <1>2, <3>1
    <3>q. QED BY <1>1, <3>2, <3>4, <3>5, Heads, WholeNext
  <2>4. Aligned(v)
    <3>1. v.up.got - HeadUnits = w.up.got + n - HeadUnits
      BY <1>1, <1>2, Heads
    <3>2. Whole(v.up.got - HeadUnits)
      BY <2>3, <3>1
    <3>q. QED BY <2>2, <3>2 DEF Aligned
  <2>5. Pause(v, due)
    <3>1. w.conn.queue # <<>> => c.queue # <<>>
      <4>1. CASE ok
        <5>1. PICK z : z = Append(w.conn.queue, b)
          OBVIOUS
        <5>2. Len(z) = Len(w.conn.queue) + 1 /\ Len(w.conn.queue) \in Nat
          BY <1>4, <5>1, AppendedWhats, LenProperties
        <5>3. z # <<>>
          BY ONLY <5>2
        <5>q. QED BY <4>1, <5>1, <5>3
      <4>2. CASE ~ok
        BY <4>2
      <4>q. QED BY <4>1, <4>2
    <3>q. QED BY <1>3, <2>2, <3>1 DEF Pause
  <2>6. Lazy(v, due)
    <3>1. SUFFICES ASSUME ~due, Idle(c)
                   PROVE  /\ \A i \in DOMAIN c.queue : c.queue[i].n = BufferUnits
                          /\ Payload(c.queue) < BatchUnits
      BY DEF Lazy
    <3>2. /\ \A i \in DOMAIN w.conn.queue : w.conn.queue[i].n = BufferUnits
          /\ Payload(w.conn.queue) < BatchUnits
      BY <1>3, <2>2, <3>1 DEF Lazy, Mid
    <3>3. CASE ~ok
      BY <3>2, <3>3
    <3>4. CASE ok
      <4>1. Payload(c.queue) < BatchUnits
        BY <3>1, <3>4 DEF Idle
      <4>2. PICK q \in Seq(BufferType) : q = w.conn.queue
        BY <1>4
      <4>3. /\ c.queue = Append(q, b) /\ \A i \in DOMAIN q : q[i].n = BufferUnits
        BY <3>2, <3>4, <4>2
      <4>4. PICK r : r = Append(q, b)
        OBVIOUS
      <4>5. /\ Len(r) = Len(q) + 1 /\ Len(q) \in Nat /\ DOMAIN q = 1..Len(q) /\ DOMAIN r = 1..Len(r)
            /\ r[Len(q) + 1] = b /\ \A i \in 1..Len(q) : r[i] = q[i]
        BY <4>4, AppendProperties, LenProperties
      <4>6. ASSUME NEW i \in DOMAIN r PROVE r[i].n = BufferUnits
        <5>1. CASE i = Len(q) + 1
          BY <2>3, <4>5, <5>1
        <5>2. CASE i # Len(q) + 1
          <6>1. i \in DOMAIN q
            BY <4>5, <5>2
          <6>q. QED BY <4>3, <4>5, <6>1
        <5>q. QED BY <5>1, <5>2
      <4>q. QED BY <4>1, <4>3, <4>4, <4>6
    <3>q. QED BY <3>3, <3>4
  <2>q. QED BY <2>4, <2>5, <2>6
<1>8. Mid(v, due)
  BY <1>3, <1>5, <1>6, <1>7 DEF Mid
<1>q. QED BY <1>3, <1>8 DEF Received

\* A piece of the body that is read goes behind the pieces before it.
LEMMA QueueBodyGood ==
    ASSUME NEW w, NEW due, Mid(w, due), w.sess.st = "streaming", ~w.sess.rewrite,
           NEW n, n = Min({Available(w), BufferUnits}), n # 0, NEW x, x = QueueBody(w, n)
    PROVE  Received(w, x, due)
<1>1. /\ w \in Calls /\ w.conn \in Conns /\ w.pool \in Pools /\ w.up \in Upstreams /\ w.sess \in Sessions
      /\ w.up.got <= w.up.sent /\ w.up.got >= HeadUnits /\ w.up.got \in Nat
  BY DEF Mid, Course, Calls, Upstreams
<1>2. n \in Nat /\ w.up.got + n <= w.up.sent /\ n <= BufferUnits
  BY <1>1, Sizes, AvailableUnits
<1>3. PICK b : b = [what |-> "body", from |-> w.up.got - HeadUnits + 1, n |-> n]
  OBVIOUS
<1>4. b \in BufferType /\ b.what = "body" /\ b.n = n
  <2>1. w.up.got - HeadUnits + 1 \in Nat /\ n \in 1..BufferUnits
    BY <1>1, <1>2, Heads, Sizes
  <2>q. QED BY <1>3, <2>1 DEF BufferType
<1>5. PICK q : q = QueueBuffer(w.conn, w.pool, b)
  OBVIOUS
<1>6. /\ q.conn \in Conns /\ q.ok \in BOOLEAN /\ Alike(w.conn, q.conn)
      /\ q.conn.queue = IF q.ok THEN Append(w.conn.queue, b) ELSE w.conn.queue
      /\ q.ok => Payload(q.conn.queue) < BatchUnits \/ q.conn.armed \/ q.conn.scheduled
  BY <1>1, <1>4, <1>5, QueueBufferKeeps
<1>7. x = IF q.ok THEN EndIfEntire(Counted([Take(w, n) EXCEPT !.conn = q.conn], n))
          ELSE Returns([Take(w, n) EXCEPT !.conn = q.conn, !.pool = Put(@, 1)], "fail")
  BY <1>3, <1>5 DEF QueueBody, With
<1>8. PICK g, m \in Nat : g = w.up.got + n /\ m = w.sess.rcvd + n
  BY <1>1, <1>2 DEF Sessions
<1>9. PICK u, s : u = [w.up EXCEPT !.got = g] /\ s = [w.sess EXCEPT !.rcvd = m]
  OBVIOUS
<1>10. /\ u \in Upstreams /\ u.got = g /\ u.sent = w.up.sent
       /\ s \in Sessions /\ s.st = w.sess.st /\ s.paused = w.sess.paused /\ s.rewrite = w.sess.rewrite
  BY ONLY <1>1, <1>9, g \in Nat, m \in Nat DEF Upstreams, Sessions
<1>11. PICK c \in Conns : c = q.conn
  BY <1>6
<1>12. CASE q.ok
  <2>1. PICK v : v = Counted([Take(w, n) EXCEPT !.conn = q.conn], n)
    OBVIOUS
  <2>2. v = [w EXCEPT !.conn = c, !.up = u, !.sess = s]
    BY <1>1, <1>8, <1>9, <1>11, <2>1 DEF Counted, Take, Calls
  <2>3. v \in Calls /\ v.conn = c /\ v.client = w.client /\ v.up = u /\ v.sess = s
    BY ONLY <1>1, <1>10, <2>2, c \in Conns DEF Calls
  <2>4. /\ v.up.got = w.up.got + n /\ v.up.sent = w.up.sent /\ v.sess.st = w.sess.st
        /\ v.sess.paused = w.sess.paused /\ v.sess.rewrite = w.sess.rewrite
    BY <1>8, <1>10, <2>3
  <2>5. /\ Alike(w.conn, c) /\ c.queue = IF TRUE THEN Append(w.conn.queue, b) ELSE w.conn.queue
        /\ TRUE => Payload(c.queue) < BatchUnits \/ c.armed \/ c.scheduled
    BY <1>6, <1>11, <1>12
  <2>6. Received(w, v, due)
    BY <1>4, <2>3, <2>4, <2>5, PassedOn
  <2>7. Mid(v, due) /\ v.sess.st = "streaming"
    BY <2>4, <2>6 DEF Received
  <2>8. PICK y : y = EndIfEntire(v)
    OBVIOUS
  <2>9. Received(v, y, due)
    BY <2>7, <2>8, EndIfEntireGood
  <2>10. Received(w, y, due)
    BY <2>6, <2>7, <2>9 DEF Received
  <2>q. QED BY <1>7, <1>12, <2>1, <2>8, <2>10
<1>13. CASE ~q.ok
  <2>1. PICK p \in Pools : p = Put(w.pool, 1)
    BY <1>1, PutGood
  <2>2. x = [w EXCEPT !.conn = c, !.up = u, !.pool = p, !.ret = "fail"]
    BY <1>1, <1>7, <1>8, <1>9, <1>11, <1>13, <2>1 DEF Take, Returns, Calls
  <2>3. x \in Calls /\ x.conn = c /\ x.client = w.client /\ x.up = u /\ x.sess = w.sess
    BY ONLY <1>1, <1>10, <2>2, c \in Conns, p \in Pools DEF Calls
  <2>4. /\ x.up.got = w.up.got + n /\ x.up.sent = w.up.sent
    BY <1>8, <1>10, <2>3
  <2>5. /\ Alike(w.conn, c) /\ c.queue = IF FALSE THEN Append(w.conn.queue, b) ELSE w.conn.queue
    BY <1>6, <1>11, <1>13
  <2>6. Received(w, x, due)
    BY <1>4, <2>3, <2>4, <2>5, PassedOn
  <2>q. QED BY <2>6
<1>q. QED BY <1>6, <1>12, <1>13

\* Only the pool changes, when the headers are out.
LEMMA PoolGood ==
    ASSUME NEW w, NEW due, Mid(w, due), w.conn.headersSent, NEW p \in Pools,
           NEW v, v = [w EXCEPT !.pool = p]
    PROVE  /\ Received(w, v, due) /\ v \in Calls /\ v.conn = w.conn /\ v.sess = w.sess /\ v.up = w.up
           /\ v.ret = w.ret
<1>1. /\ v \in Calls /\ v.conn = w.conn /\ v.up = w.up /\ v.client = w.client
      /\ v.sess = w.sess /\ v.ret = w.ret
  BY DEF Mid, Calls
<1>2. Single(v) /\ Blank(v) /\ Course(v) /\ (v.ret # "fail" => Young(v))
  BY <1>1 DEF Mid, Single, Blank, Course, Young, KindsOf
<1>3. Waking(v, due)
  BY <1>1 DEF Mid, Waking, Aligned, Lazy, Pause
<1>q. QED BY <1>1, <1>2, <1>3 DEF Mid, Received

\* A part of a body that is passed on.
LEMMA ReceiveBufferGood ==
    ASSUME NEW w, NEW due, Mid(w, due), w.sess.st = "streaming", ~w.sess.rewrite, w.ret # "fail",
           NEW x, x = ReceiveBuffer(w)
    PROVE  Received(w, x, due)
<1>1. w \in Calls /\ w.conn.headersSent /\ w.pool \in Pools /\ w.up.got <= w.up.sent
  BY DEF Mid, Course, Calls
<1>2. PICK a : a = Alloc(w.pool)
  OBVIOUS
<1>3. a \in Pools
  BY <1>1, <1>2, AllocTwice
<1>4. PICK v : v = [w EXCEPT !.pool = a]
  OBVIOUS
<1>5. /\ Received(w, v, due) /\ v \in Calls /\ v.conn = w.conn /\ v.sess = w.sess /\ v.up = w.up
      /\ v.ret = w.ret
  BY <1>1, <1>3, <1>4, PoolGood
<1>6. Mid(v, due)
  BY <1>5 DEF Received
<1>7. x = IF ~CanAlloc(w.pool) THEN Returns(v, "fail")
          ELSE IF Available(w) = 0 THEN NoInput([v EXCEPT !.pool = Put(@, 1)])
          ELSE QueueBody(Returns(v, "progress"), Min({Available(w), BufferUnits}))
  BY <1>2, <1>4 DEF ReceiveBuffer, With
<1>8. Received(w, Returns(v, "fail"), due)
  <2>1. Received(v, Returns(v, "fail"), due)
    BY <1>6, ReturnsGood
  <2>q. QED BY <1>5, <2>1 DEF Received
<1>9. Received(w, NoInput([v EXCEPT !.pool = Put(@, 1)]), due)
  <2>1. PICK p \in Pools : p = Put(v.pool, 1)
    BY <1>5, PutGood DEF Calls
  <2>2. PICK u : u = [v EXCEPT !.pool = p]
    OBVIOUS
  <2>3. Received(v, u, due) /\ u.sess = v.sess /\ u.ret = v.ret
    BY <1>1, <1>5, <1>6, <2>2, PoolGood
  <2>4. Received(u, NoInput(u), due)
    <3>1. Mid(u, due) /\ u.sess.st = "streaming" /\ u.ret # "fail"
      BY <1>5, <2>3 DEF Received
    <3>q. QED BY <3>1, NoInputGood
  <2>5. Received(w, NoInput(u), due)
    BY <1>5, <2>3, <2>4 DEF Received
  <2>q. QED BY <2>1, <2>2, <2>5
<1>10. ASSUME Available(w) # 0
       PROVE  Received(w, QueueBody(Returns(v, "progress"), Min({Available(w), BufferUnits})), due)
  <2>1. PICK u : u = Returns(v, "progress")
    OBVIOUS
  <2>2. /\ Received(v, u, due) /\ u.sess = v.sess /\ u.conn = v.conn /\ u.up = v.up
    BY <1>5, <1>6, <2>1, ReturnsGood, ReturnsGives
  <2>3. Mid(u, due)
    BY <2>2 DEF Received
  <2>4. Available(u) = Available(w)
    BY <1>5, <2>2 DEF Available
  <2>5. PICK n : n = Min({Available(w), BufferUnits})
    OBVIOUS
  <2>6. n # 0
    BY <1>1, <1>10, <2>5, Sizes, AvailableUnits
  <2>7. Received(u, QueueBody(u, n), due)
    BY <1>5, <2>2, <2>3, <2>4, <2>5, <2>6, QueueBodyGood
  <2>8. Received(w, QueueBody(u, n), due)
    BY <1>5, <2>2, <2>7 DEF Received
  <2>q. QED BY <2>1, <2>5, <2>8
<1>q. QED BY Zenon, <1>7, <1>8, <1>9, <1>10

\* So many whole buffers that a relay is paused make a batch, which somebody was
\* told to write.
LEMMA ReceiveBodyGood ==
    ASSUME NEW w, NEW due, Mid(w, due), w.sess.st = "streaming", ~w.sess.rewrite, w.ret # "fail",
           NEW x, x = ReceiveBody(w)
    PROVE  Received(w, x, due)
<1>1. CASE ~ShouldPause(w.conn, w.pool)
  BY <1>1, ReceiveBufferGood DEF ReceiveBody
<1>2. CASE ShouldPause(w.conn, w.pool)
  <2>1. x = [w EXCEPT !.sess.paused = TRUE, !.ret = "nothing"]
    BY <1>2 DEF ReceiveBody, Returns
  <2>2. /\ x \in Calls /\ x.conn = w.conn /\ x.pool = w.pool /\ x.up = w.up /\ x.client = w.client
        /\ x.sess.st = w.sess.st /\ x.sess.rewrite = w.sess.rewrite /\ x.sess.pos = w.sess.pos
        /\ x.sess.paused /\ x.ret = "nothing"
    <3>1. w \in Calls /\ w.sess \in Sessions
      BY DEF Mid, Calls
    <3>2. PICK s : s = [w.sess EXCEPT !.paused = TRUE]
      OBVIOUS
    <3>3. /\ s \in Sessions /\ s.st = w.sess.st /\ s.rewrite = w.sess.rewrite
          /\ s.pos = w.sess.pos /\ s.paused
      BY ONLY <3>1, <3>2 DEF Sessions
    <3>4. x = [w EXCEPT !.sess = s, !.ret = "nothing"]
      BY <2>1, <3>1, <3>2 DEF Calls
    <3>5. /\ x \in Calls /\ x.conn = w.conn /\ x.pool = w.pool /\ x.up = w.up
          /\ x.client = w.client /\ x.sess = s /\ x.ret = "nothing"
      BY ONLY <3>1, <3>3, <3>4 DEF Calls
    <3>q. QED BY <3>3, <3>5
  <2>3. Single(x) /\ Blank(x) /\ Course(x) /\ Young(x)
    BY <2>2 DEF Mid, Single, Blank, Course, Young, KindsOf
  <2>4. Waking(x, due)
    <3>1. SUFFICES ASSUME Fills PROVE Aligned(x) /\ Lazy(x, due) /\ Pause(x, due)
      BY DEF Waking
    <3>2. Aligned(w) /\ Lazy(w, due)
      BY <3>1 DEF Mid, Waking
    <3>3. PICK q \in Seq(BufferType) : q = w.conn.queue
      BY DEF Mid, Calls, Conns
    <3>4. PICK l, m, b, t \in Nat : l = Len(q) /\ m = MinBuffers /\ b = BufferUnits /\ t = BatchUnits
      BY Sizes, LenProperties
    <3>5. m > 0 /\ b > 0 /\ 4 * t <= 3 * m * b
      BY <3>1, <3>4, Sizes DEF Fills
    <3>6. 4 * l >= 3 * m
      <4>1. 4 * (10 * l) >= 30 * m
        BY <1>2, <3>3, <3>4 DEF ShouldPause, Memory
      <4>q. QED BY <4>1
    <3>7. q # <<>>
      <4>1. l > 0
        BY <3>5, <3>6
      <4>2. q = <<>> => l = 0
        BY <3>4
      <4>q. QED BY <4>1, <4>2
    <3>8. due \/ ~Idle(w.conn)
      <4>1. SUFFICES ASSUME ~due, Idle(w.conn) PROVE FALSE
        OBVIOUS
      <4>2. (\A i \in DOMAIN q : q[i].n = b) /\ Payload(q) < t
        BY <3>2, <3>3, <3>4, <4>1 DEF Lazy, Mid
      <4>3. \A i \in DOMAIN q : q[i].n >= b
        BY <4>2
      <4>4. Payload(q) >= b * l /\ Payload(q) \in Nat
        BY <3>4, <4>3, PayloadIs
      <4>5. b * (4 * l) >= b * (3 * m)
        BY <3>6
      <4>6. 4 * (b * l) = b * (4 * l) /\ 3 * m * b = b * (3 * m)
        OBVIOUS
      <4>7. PICK y \in Int : y = b * l
        OBVIOUS
      <4>q. QED BY <3>5, <4>2, <4>4, <4>5, <4>6, <4>7
    <3>q. QED BY <2>2, <3>2, <3>3, <3>7, <3>8 DEF Aligned, Lazy, Pause
  <2>5. Mid(x, due)
    BY <2>2, <2>3, <2>4 DEF Mid
  <2>q. QED BY <2>2, <2>5 DEF Received
<1>q. QED BY <1>1, <1>2

-----------------------------------------------------------------------------
(* The head of an answer. *)

\* A complete head was read, which is where the call may also fail.
Headed(w, due) ==
    /\ w \in Calls /\ w.conn.state # "closed"
    /\ Single(w) /\ Blank(w) /\ Course(w) /\ Waking(w, due)
    /\ w.sess.st = "awaiting" /\ ~w.sess.paused /\ w.ret = "progress"
    /\ w.sess.pos = w.up.got /\ w.up.got >= HeadUnits
    /\ Fills => Whole(w.up.got - HeadUnits)

\* What is left to be done with the body that came along with a head.
Forwarding(w, due) ==
    /\ Mid(w, due)
    /\ w.ret = "fail" \/ w.sess.pos = 0
       \/ (w.sess.st = "streaming" /\ (w.sess.rewrite \/ ~Idle(w.conn)))

\* A head that does not go through.
LEMMA HeadedFails ==
    ASSUME NEW w, NEW due, Headed(w, due)
    PROVE  Forwarding(Returns(w, "fail"), due)
<1>1. PICK v : v = Returns(w, "fail")
  OBVIOUS
<1>2. /\ v \in Calls /\ v.conn = w.conn /\ v.pool = w.pool /\ v.up = w.up
      /\ v.client = w.client /\ v.sess = w.sess /\ v.ret = "fail"
  BY <1>1, ReturnsGives DEF Headed
<1>3. Single(v) /\ Blank(v) /\ Course(v)
  BY <1>2 DEF Headed, Single, Blank, Course, KindsOf, Untouched
<1>4. Waking(v, due)
  BY <1>2 DEF Headed, Waking, Aligned, Lazy, Pause
<1>5. Forwarding(v, due)
  BY <1>2, <1>3, <1>4 DEF Headed, Mid, Forwarding
<1>q. QED BY <1>1, <1>5

\* The head is queued for the client, who will be written to.
LEMMA ForwardHeadGood ==
    ASSUME NEW w, NEW due, Headed(w, due), NEW x, x = ForwardHead(w)
    PROVE  \/ x.ret = "fail" /\ Mid(x, due)
           \/ Headed(x, due) /\ x.conn.headersSent /\ ~Idle(x.conn)
<1>1. PICK bs : bs = Buffers("head", 1, 1) \o Buffers("head", 2, 1)
  OBVIOUS
<1>2. bs \in Seq(BufferType) /\ Whats(bs) \subseteq {"head", "body"}
  <2>1. PICK a, b : a = Buffers("head", 1, 1) /\ b = Buffers("head", 2, 1)
    OBVIOUS
  <2>2. a \in Seq(BufferType) /\ Whats(a) \subseteq {"head"}
    BY <2>1, BuffersAre DEF Kinds
  <2>3. b \in Seq(BufferType) /\ Whats(b) \subseteq {"head"}
    BY <2>1, BuffersAre DEF Kinds
  <2>q. QED BY <1>1, <2>1, <2>2, <2>3, BothWhats
<1>3. PICK v : v = Output(w, bs)
  OBVIOUS
<1>4. Follows(w, v, {"head", "body"})
  BY <1>2, <1>3, OutputGives DEF Headed
<1>5. x = IF v.ret = "fail" THEN v
          ELSE [v EXCEPT !.conn = Schedule([@ EXCEPT !.headersSent = TRUE])]
  BY <1>1, <1>3 DEF ForwardHead, With
<1>6. CASE v.ret = "fail"
  <2>1. Mid(v, due)
    BY <1>4, <1>6, BrokenOutput DEF Headed
  <2>q. QED BY <1>5, <1>6, <2>1
<1>7. CASE v.ret # "fail"
  <2>1. /\ v \in Calls /\ v.conn \in Conns /\ v.sess = w.sess /\ v.up = w.up /\ v.client = w.client
        /\ v.conn.state = w.conn.state /\ v.ret = w.ret
        /\ Whats(v.conn.queue) \subseteq Whats(w.conn.queue) \union {"head", "body"}
    BY <1>4, <1>7 DEF Follows, Alike, Calls
  <2>2. PICK d : d = [v.conn EXCEPT !.headersSent = TRUE]
    OBVIOUS
  <2>3. d \in Conns /\ d.headersSent /\ d.queue = v.conn.queue /\ d.state = v.conn.state
    BY ONLY <2>1, <2>2 DEF Conns
  <2>4. PICK c : c = Schedule(d)
    OBVIOUS
  <2>5. c \in Conns /\ c.headersSent /\ c.queue = d.queue /\ c.state = d.state /\ ~Idle(c)
    BY <2>3, <2>4, ScheduleKeeps DEF Idle
  <2>6. x = [v EXCEPT !.conn = c]
    BY <1>5, <1>7, <2>1, <2>2, <2>4 DEF Calls
  <2>7. /\ x \in Calls /\ x.conn = c /\ x.up = v.up /\ x.client = v.client /\ x.sess = v.sess
        /\ x.ret = v.ret
    BY ONLY <2>1, <2>5, <2>6 DEF Calls
  <2>8. "503" \notin KindsOf(x)
    <3>1. "503" \notin KindsOf(w)
      BY DEF Headed, Single
    <3>q. QED BY <2>1, <2>3, <2>5, <2>7, <3>1 DEF KindsOf
  <2>9. Blank(x) /\ Course(x) /\ Waking(x, due)
    BY <2>1, <2>5, <2>7 DEF Headed, Blank, Course, Waking, Aligned, Lazy, Pause
  <2>10. Headed(x, due)
    BY <2>1, <2>3, <2>5, <2>7, <2>8, <2>9 DEF Headed, Single
  <2>q. QED BY <2>5, <2>7, <2>10
<1>q. QED BY <1>6, <1>7

\* http_proxy_parse_response_headers().
LEMMA ParseHeadGood ==
    ASSUME NEW w, NEW due, Headed(w, due)
    PROVE  Forwarding(ParseHead(w), due)
<1>1. PICK v : v = IF ToRewrite THEN w ELSE ForwardHead(w)
  OBVIOUS
<1>2. \/ v.ret = "fail" /\ Mid(v, due)
      \/ Headed(v, due) /\ (~ToRewrite => v.conn.headersSent /\ ~Idle(v.conn))
  BY <1>1, ForwardHeadGood
<1>3. ParseHead(w) = IF ~resp.valid THEN Returns(w, "fail")
        ELSE IF v.ret = "fail" THEN v
        ELSE IF resp.head THEN Goes([v EXCEPT !.sess.pos = 0], "complete")
        ELSE Goes([v EXCEPT !.sess.pos = @ - HeadUnits, !.sess.rewrite = ToRewrite], "streaming")
  BY <1>1 DEF ParseHead, With
<1>4. Forwarding(Returns(w, "fail"), due)
  BY HeadedFails
<1>5. ASSUME v.ret = "fail" PROVE Forwarding(v, due)
  BY <1>2, <1>5 DEF Forwarding, Headed
<1>6. ASSUME v.ret # "fail" PROVE Forwarding(Goes([v EXCEPT !.sess.pos = 0], "complete"), due)
  <2>1. Headed(v, due) /\ v \in Calls /\ v.sess \in Sessions
    BY <1>2, <1>6 DEF Headed, Calls
  <2>2. PICK x : x = Goes([v EXCEPT !.sess.pos = 0], "complete")
    OBVIOUS
  <2>3. PICK s : s = [v.sess EXCEPT !.pos = 0, !.st = "complete"]
    OBVIOUS
  <2>4. /\ s \in Sessions /\ s.st = "complete" /\ s.pos = 0 /\ s.paused = v.sess.paused
    BY ONLY <2>1, <2>3 DEF Sessions, Stages
  <2>5. x = [v EXCEPT !.sess = s]
    BY <2>1, <2>2, <2>3 DEF Goes, Calls
  <2>6. /\ x \in Calls /\ x.conn = v.conn /\ x.pool = v.pool /\ x.up = v.up
        /\ x.client = v.client /\ x.sess = s /\ x.ret = v.ret
    BY ONLY <2>1, <2>4, <2>5 DEF Calls
  <2>7. Single(x) /\ Blank(x) /\ Course(x) /\ Young(x)
    BY <2>1, <2>4, <2>6 DEF Headed, Single, Blank, Course, Young, KindsOf, Untouched
  <2>8. Waking(x, due)
    BY <2>1, <2>4, <2>6 DEF Headed, Waking, Aligned, Lazy, Pause
  <2>9. Forwarding(x, due)
    BY <2>1, <2>4, <2>6, <2>7, <2>8 DEF Headed, Mid, Forwarding
  <2>q. QED BY <2>2, <2>9
<1>7. ASSUME v.ret # "fail"
      PROVE  Forwarding(Goes([v EXCEPT !.sess.pos = @ - HeadUnits, !.sess.rewrite = ToRewrite], "streaming"), due)
  <2>1. Headed(v, due) /\ v \in Calls /\ v.sess \in Sessions
    BY <1>2, <1>7 DEF Headed, Calls
  <2>2. PICK p \in Nat : p = v.sess.pos - HeadUnits
    BY <2>1, Heads DEF Headed, Sessions
  <2>3. PICK t \in BOOLEAN : t = ToRewrite
    BY DEF ToRewrite
  <2>4. PICK x : x = Goes([v EXCEPT !.sess.pos = @ - HeadUnits, !.sess.rewrite = ToRewrite], "streaming")
    OBVIOUS
  <2>5. PICK s : s = [v.sess EXCEPT !.pos = p, !.rewrite = t, !.st = "streaming"]
    OBVIOUS
  <2>6. /\ s \in Sessions /\ s.st = "streaming" /\ s.rewrite = t /\ s.paused = v.sess.paused
    BY ONLY <2>1, <2>5, p \in Nat, t \in BOOLEAN DEF Sessions, Stages
  <2>7. x = [v EXCEPT !.sess = s]
    BY <2>1, <2>2, <2>3, <2>4, <2>5 DEF Goes, Calls
  <2>8. /\ x \in Calls /\ x.conn = v.conn /\ x.pool = v.pool /\ x.up = v.up
        /\ x.client = v.client /\ x.sess = s /\ x.ret = v.ret
    BY ONLY <2>1, <2>6, <2>7 DEF Calls
  <2>9. t \/ (x.conn.headersSent /\ ~Idle(x.conn))
    BY <1>2, <1>7, <2>3, <2>8
  <2>10. Single(x) /\ Blank(x) /\ Course(x) /\ Young(x)
    BY <2>1, <2>6, <2>8, <2>9 DEF Headed, Single, Blank, Course, Young, KindsOf, Untouched
  <2>11. Waking(x, due)
    BY <2>1, <2>6, <2>8, <2>9 DEF Headed, Waking, Aligned, Lazy, Pause
  <2>12. Forwarding(x, due)
    BY <2>1, <2>6, <2>8, <2>9, <2>10, <2>11 DEF Headed, Mid, Forwarding
  <2>q. QED BY <2>4, <2>12
<1>q. QED BY Zenon, <1>3, <1>4, <1>5, <1>6, <1>7

\* Units that were read before are counted.
LEMMA CountedGood ==
    ASSUME NEW w, NEW due, Mid(w, due), w.sess.st = "streaming", NEW n \in Nat,
           NEW m, m = Counted(w, n)
    PROVE  /\ Mid(m, due) /\ m.sess.st = "streaming" /\ m.sess.rewrite = w.sess.rewrite
           /\ m.ret = w.ret
<1>1. w \in Calls /\ w.sess \in Sessions
  BY DEF Mid, Calls
<1>2. PICK r \in Nat : r = w.sess.rcvd + n
  BY <1>1 DEF Sessions
<1>3. m = [w EXCEPT !.sess.rcvd = r]
  BY <1>2 DEF Counted
<1>4. /\ m \in Calls /\ m.conn = w.conn /\ m.pool = w.pool /\ m.up = w.up /\ m.client = w.client
      /\ m.sess.st = w.sess.st /\ m.sess.paused = w.sess.paused /\ m.sess.rewrite = w.sess.rewrite
      /\ m.sess.pos = w.sess.pos /\ m.ret = w.ret
  BY ONLY <1>1, <1>3, r \in Nat DEF Calls, Sessions
<1>5. Mid(m, due)
  BY <1>4, SameGood
<1>q. QED BY <1>4, <1>5

\* The body that came along with the head.
LEMMA ForwardInitialGood ==
    ASSUME NEW w, NEW due, Forwarding(w, due), NEW x, x = ForwardInitial(w)
    PROVE  Mid(x, due)
<1>1. Mid(w, due) /\ w \in Calls /\ w.sess \in Sessions /\ w.sess.pos \in Nat
  BY DEF Forwarding, Mid, Calls, Sessions
<1>2. PICK n \in Nat : n = w.sess.pos
  BY <1>1
<1>3. CASE w.ret = "fail" \/ n = 0
  <2>1. x = w
    BY <1>2, <1>3 DEF ForwardInitial
  <2>q. QED BY <1>1, <2>1
<1>4. CASE w.ret # "fail" /\ n # 0
  <2>1. w.sess.st = "streaming" /\ (w.sess.rewrite \/ ~Idle(w.conn))
    BY <1>2, <1>4 DEF Forwarding
  <2>2. PICK e : e = [w EXCEPT !.sess.pos = 0]
    OBVIOUS
  <2>3. /\ e \in Calls /\ e.conn = w.conn /\ e.pool = w.pool /\ e.up = w.up /\ e.client = w.client
        /\ e.sess.st = w.sess.st /\ e.sess.paused = w.sess.paused /\ e.sess.rewrite = w.sess.rewrite
        /\ e.ret = w.ret
    BY ONLY <1>1, <2>2 DEF Calls, Sessions
  <2>4. Mid(e, due)
    BY <1>1, <2>1, <2>3, SameGood
  <2>5. x = IF w.sess.rewrite THEN ConsumeRewrite(Counted(e, n), n)
            ELSE With(Output(e, Buffers("body", 1, n)), LAMBDA v :
                    IF v.ret = "fail" THEN v ELSE EndIfEntire(Counted(v, n)))
    BY <1>2, <1>4, <2>2 DEF ForwardInitial
  <2>7. CASE w.sess.rewrite
    <3>1. PICK m : m = Counted(e, n)
      OBVIOUS
    <3>2. Mid(m, due) /\ m.sess.st = "streaming" /\ m.sess.rewrite /\ m.ret # "fail"
      BY <1>4, <2>1, <2>3, <2>4, <2>7, <3>1, CountedGood
    <3>3. x = ConsumeRewrite(m, n)
      BY <2>5, <2>7, <3>1
    <3>q. QED BY <3>2, <3>3, ConsumeRewriteGood DEF Received
  <2>8. CASE ~w.sess.rewrite
    <3>1. PICK bs : bs = Buffers("body", 1, n)
      OBVIOUS
    <3>2. bs \in Seq(BufferType) /\ Whats(bs) \subseteq {"body"}
      BY <3>1, BuffersAre DEF Kinds
    <3>3. PICK v : v = Output(e, bs)
      OBVIOUS
    <3>4. Follows(e, v, {"body"})
      BY <2>3, <3>2, <3>3, OutputGives
    <3>5. /\ v \in Calls /\ v.sess = e.sess /\ v.up = e.up /\ v.client = e.client
          /\ v.conn.state = e.conn.state /\ v.conn.headersSent = e.conn.headersSent
          /\ (Idle(v.conn) => Idle(e.conn))
          /\ Whats(v.conn.queue) \subseteq Whats(e.conn.queue) \union {"body"}
          /\ (e.conn.queue # <<>> => v.conn.queue # <<>>)
      BY <3>4 DEF Follows, Alike, Idle
    <3>6. e.conn.headersSent /\ ~Idle(v.conn) /\ e.sess.st = "streaming"
      BY <2>1, <2>3, <2>4, <2>8, <3>5 DEF Mid, Course
    <3>7. "503" \notin KindsOf(v)
      <4>1. "503" \notin KindsOf(e)
        BY <2>4, <3>6 DEF Mid, Single
      <4>q. QED BY <3>5, <4>1 DEF KindsOf
    <3>8. Blank(v) /\ Course(v) /\ Young(v)
      BY <2>4, <3>5, <3>6 DEF Mid, Blank, Course, Young
    <3>9. Waking(v, due)
      BY <2>4, <3>5, <3>6 DEF Mid, Waking, Aligned, Lazy, Pause
    <3>10. Mid(v, due) /\ v.sess.st = "streaming"
      BY <2>4, <3>5, <3>6, <3>7, <3>8, <3>9 DEF Mid, Single
    <3>11. x = IF v.ret = "fail" THEN v ELSE EndIfEntire(Counted(v, n))
      BY <2>5, <2>8, <3>1, <3>3 DEF With
    <3>12. Mid(EndIfEntire(Counted(v, n)), due)
      <4>1. PICK m : m = Counted(v, n)
        OBVIOUS
      <4>2. Mid(m, due) /\ m.sess.st = "streaming"
        BY <3>10, <4>1, CountedGood
      <4>q. QED BY <4>1, <4>2, EndIfEntireGood DEF Received
    <3>q. QED BY <3>10, <3>11, <3>12
  <2>q. QED BY <2>7, <2>8
<1>q. QED BY <1>3, <1>4

\* Multiples of a buffer.
LEMMA WholeIs ==
    ASSUME NEW x \in Nat, x % BufferUnits = 0
    PROVE  Whole(x)
<1>1. PICK B \in Nat \ {0} : B = BufferUnits
  BY Sizes
<1>2. x = B * (x \div B) + (x % B) /\ x \div B \in Int /\ x % B = 0
  BY <1>1, DivMod
<1>3. PICK k \in Int : k = x \div B
  BY <1>2
<1>4. x = B * k
  BY <1>2, <1>3
<1>5. k >= 0
  <2>1. k <= -1 => B * k <= -B
    BY <1>1
  <2>q. QED BY <1>1, <1>4, <2>1
<1>q. QED BY <1>1, <1>4, <1>5 DEF Whole

\* A part of the head, and what came along with it.
LEMMA ReceiveHeadGood ==
    ASSUME NEW w, NEW due, Mid(w, due), w.sess.st = "awaiting", w.ret # "fail"
    PROVE  Mid(ReceiveHead(w), due)
<1>1. /\ w \in Calls /\ w.sess \in Sessions /\ w.up \in Upstreams
      /\ w.up.got <= w.up.sent /\ w.up.got < HeadUnits /\ w.sess.pos = w.up.got
      /\ w.up.got \in Nat /\ w.up.sent \in Nat /\ ~w.sess.paused
  BY DEF Mid, Course, Young, Calls, Upstreams
<1>2. PICK m \in Nat \ {0} : m = HeadRoom - w.sess.pos
  BY <1>1, Heads
<1>3. PICK n : n = Min({Available(w), m})
  OBVIOUS
<1>4. /\ n \in Nat /\ w.up.got + n <= w.up.sent
      /\ n = IF Available(w) <= m THEN Available(w) ELSE m
  BY <1>1, <1>3, AvailableUnits
<1>5. PICK g \in Nat : g = w.up.got + n
  BY <1>1, <1>4
<1>6. PICK v : v = Returns([Take(w, n) EXCEPT !.sess.pos = @ + n], "progress")
  OBVIOUS
<1>7. /\ v \in Calls /\ v.conn = w.conn /\ v.pool = w.pool /\ v.client = w.client
      /\ v.up.got = g /\ v.up.sent = w.up.sent /\ v.ret = "progress"
      /\ v.sess.st = "awaiting" /\ v.sess.paused = w.sess.paused /\ v.sess.pos = g
  <2>1. PICK u, s : u = [w.up EXCEPT !.got = g] /\ s = [w.sess EXCEPT !.pos = g]
    OBVIOUS
  <2>2. /\ u \in Upstreams /\ u.got = g /\ u.sent = w.up.sent
        /\ s \in Sessions /\ s.st = w.sess.st /\ s.paused = w.sess.paused /\ s.pos = g
    BY ONLY <1>1, <2>1, g \in Nat DEF Upstreams, Sessions
  <2>3. v = [w EXCEPT !.up = u, !.sess = s, !.ret = "progress"]
    BY <1>1, <1>5, <1>6, <2>1 DEF Returns, Take, Calls
  <2>4. /\ v \in Calls /\ v.conn = w.conn /\ v.pool = w.pool /\ v.client = w.client
        /\ v.up = u /\ v.sess = s /\ v.ret = "progress"
    BY ONLY <1>1, <2>2, <2>3 DEF Calls
  <2>q. QED BY <2>2, <2>4
<1>8. Single(v) /\ Blank(v)
  BY <1>7 DEF Mid, Single, Blank, KindsOf, Untouched
<1>9. Course(v) /\ Waking(v, due)
  <2>1. Course(v)
    BY <1>1, <1>4, <1>5, <1>7 DEF Mid, Course
  <2>2. Waking(v, due)
    BY <1>1, <1>7 DEF Mid, Waking, Aligned, Lazy, Pause
  <2>q. QED BY <2>1, <2>2
<1>10. ASSUME g < HeadUnits PROVE Mid(v, due)
  BY <1>7, <1>8, <1>9, <1>10 DEF Mid, Young
<1>11. ASSUME ~(g < HeadUnits) PROVE Mid(With(ParseHead(v), ForwardInitial), due)
  <2>1. Fills => Whole(g - HeadUnits)
    <3>1. SUFFICES ASSUME Fills PROVE Whole(g - HeadUnits)
      OBVIOUS
    <3>2. CASE n = Available(w)
      <4>1. g = w.up.sent
        BY <1>1, <1>5, <3>2 DEF Available
      <4>2. CASE g > HeadUnits
        BY <3>1, <4>1, <4>2 DEF Mid, Waking, Aligned
      <4>3. CASE g = HeadUnits
        <5>1. g - HeadUnits = BufferUnits * 0
          BY <4>3, Heads, Sizes
        <5>q. QED BY <5>1 DEF Whole
      <4>q. QED BY <1>11, <4>2, <4>3, Heads
    <3>3. CASE n = m
      <4>1. g - HeadUnits = HeadRoom - HeadUnits /\ HeadRoom - HeadUnits \in Nat
        BY <1>1, <1>2, <1>5, <3>3, Heads
      <4>2. (HeadRoom - HeadUnits) % BufferUnits = 0
        BY <3>1 DEF Fills
      <4>3. Whole(HeadRoom - HeadUnits)
        BY <4>1, <4>2, WholeIs
      <4>q. QED BY <4>1, <4>3
    <3>q. QED BY <1>4, <3>2, <3>3
  <2>2. v.up.got >= HeadUnits
    BY <1>7, <1>11, Heads
  <2>3. Headed(v, due)
    BY <1>1, <1>7, <1>8, <1>9, <2>1, <2>2 DEF Mid, Headed
  <2>4. Forwarding(ParseHead(v), due)
    BY <2>3, ParseHeadGood
  <2>q. QED BY <2>4, ForwardInitialGood DEF With
<1>12. CASE n = 0
  <2>1. ReceiveHead(w) = CASE w.up.fin = "open" -> Returns(w, "nothing")
                           [] w.up.fin = "eof" -> Returns(Goes(w, "complete"), "nothing")
                           [] w.up.fin = "reset" -> Returns(w, "fail")
    BY <1>2, <1>3, <1>12 DEF ReceiveHead
  <2>2. Mid(Returns(w, "nothing"), due) /\ Mid(Returns(w, "fail"), due)
    BY ReturnsGood
  <2>3. Mid(Returns(Goes(w, "complete"), "nothing"), due)
    <3>1. PICK y : y = Goes(w, "complete")
      OBVIOUS
    <3>2. Mid(y, due) /\ y.ret # "fail"
      BY <3>1, CompleteGood
    <3>q. QED BY <3>1, <3>2, ReturnsGood
  <2>4. w.up.fin \in {"open", "eof", "reset"}
    BY <1>1 DEF Upstreams
  <2>5. \/ ReceiveHead(w) = Returns(w, "nothing")
        \/ ReceiveHead(w) = Returns(Goes(w, "complete"), "nothing")
        \/ ReceiveHead(w) = Returns(w, "fail")
    BY <2>1, <2>4
  <2>q. QED BY Zenon, <2>2, <2>3, <2>5
<1>13. CASE n # 0
  <2>1. ReceiveHead(w) = IF v.sess.pos < HeadUnits THEN v ELSE With(ParseHead(v), ForwardInitial)
    BY <1>2, <1>3, <1>6, <1>13 DEF ReceiveHead, With
  <2>q. QED BY <1>7, <1>10, <1>11, <2>1
<1>q. QED BY <1>12, <1>13

\* http_proxy_try_receive_response().
LEMMA TryReceiveGood ==
    ASSUME NEW w, NEW due, Mid(w, due), w.sess.st \in {"awaiting", "streaming"}, w.ret # "fail"
    PROVE  /\ Mid(TryReceive(w), due)
           /\ w.sess.st = "streaming" => Received(w, TryReceive(w), due)
<1>1. TryReceive(w) = CASE w.sess.st = "streaming" /\ w.sess.rewrite -> ReceiveRewrite(w)
                        [] w.sess.st = "streaming" /\ ~w.sess.rewrite -> ReceiveBody(w)
                        [] w.sess.st = "awaiting" -> ReceiveHead(w)
  BY DEF TryReceive
<1>2. CASE w.sess.st = "streaming" /\ w.sess.rewrite
  <2>1. TryReceive(w) = ReceiveRewrite(w)
    BY <1>1, <1>2
  <2>q. QED BY <1>2, <2>1, ReceiveRewriteGood DEF Received
<1>3. CASE w.sess.st = "streaming" /\ ~w.sess.rewrite
  <2>1. TryReceive(w) = ReceiveBody(w)
    BY <1>1, <1>3
  <2>q. QED BY <1>3, <2>1, ReceiveBodyGood DEF Received
<1>4. CASE w.sess.st = "awaiting"
  <2>1. TryReceive(w) = ReceiveHead(w)
    BY <1>1, <1>4
  <2>q. QED BY <1>4, <2>1, ReceiveHeadGood
<1>q. QED BY <1>2, <1>3, <1>4

\* Its callers repeat it.
LEMMA ReceiveAllGood ==
    ASSUME NEW w, NEW due, Mid(w, due), w.ret # "fail"
    PROVE  Mid(ReceiveAll(w), due)
<1> DEFINE ps == Rounds(w)
           n == Available(w) + 2
           base == Returns(w, "progress")
           T == {v \in Calls : Mid(v, due)}
           step(h, s) == IF s = {} THEN base ELSE ReceiveOn(h[s \ {Max(s)}], ps[Max(s)])
           IsIt(h) == h = [s \in SUBSET DOMAIN ps |-> step(h, s)]
           g == [z \in T \X (1..n) |-> ReceiveOn(z[1], ps[z[2]])]
           iter == CHOOSE h : IsIt(h)
           x == ReceiveAll(w)
<1>1. n \in Nat /\ DOMAIN ps = 1..n
  <2>1. Available(w) \in Nat
    BY DEF Mid, Course, Calls, Upstreams, Available
  <2>q. QED BY <2>1 DEF Rounds
<1>2. base \in T
  BY ReturnsGood, ReturnsGives DEF Mid
<1>3. \A y \in T, k \in 1..n : ReceiveOn(y, ps[k]) \in T
  BY TryReceiveGood DEF ReceiveOn, Mid
<1>4. x = iter[DOMAIN ps]
  BY Zenon DEF ReceiveAll, FoldLeft, MapThenFoldSet
<1> HIDE DEF n, T, ps, base
<1>5. \E h : IsIt(h)
  <2>1. g \in [T \X (1..n) -> T]
    BY <1>3
  <2> HIDE DEF g
  <2>2. PICK h \in [SUBSET (1..n) -> T] : \A s \in SUBSET (1..n) : h[s] = Folded(h, s, base, g)
    <3>1. n \in Nat
      BY <1>1
    <3>2. \E h : Folds(h, n, T, base, g)
      BY <3>1, <1>2, <2>1, FoldExists
    <3>q. QED BY <3>2 DEF Folds
  <2>3. ASSUME NEW s \in SUBSET (1..n) PROVE h[s] = step(h, s)
    <3>1. CASE s = {}
      BY <3>1, <2>2 DEF Folded
    <3>2. CASE s # {}
      <4>1. Max(s) \in 1..n
        BY <1>1, <3>2, MaxIsGreatest
      <4>2. h[s \ {Max(s)}] \in T
        OBVIOUS
      <4>3. h[s] = g[<<h[s \ {Max(s)}], Max(s)>>]
        BY <3>2, <2>2 DEF Folded
      <4>q. QED BY <3>2, <4>1, <4>2, <4>3 DEF g
    <3>q. QED BY <3>1, <3>2
  <2>4. h = [s \in SUBSET (1..n) |-> step(h, s)]
    BY <2>3
  <2>q. QED BY <1>1, <2>4
<1>6. IsIt(iter)
  BY <1>5
<1>7. PICK i : i = iter
  OBVIOUS
<1>8. \A s \in SUBSET (1..n) : i[s] = step(i, s)
  <2>1. i = [s \in SUBSET (1..n) |-> step(i, s)]
    BY <1>1, <1>6, <1>7
  <2>q. QED BY <2>1
<1>9. i[{}] \in T
  BY <1>2, <1>8
<1>10. ASSUME NEW k \in 1..n, i[1..(k - 1)] \in T PROVE i[1..k] \in T
  <2>1. 1..k \in SUBSET (1..n) /\ 1..k # {} /\ Max(1..k) = k /\ (1..k) \ {k} = 1..(k - 1)
    BY <1>1, FirstPlaces
  <2>2. i[1..k] = ReceiveOn(i[1..(k - 1)], ps[k])
    BY <1>8, <2>1
  <2>q. QED BY <2>2, <1>3, <1>10
<1>11. i[1..n] \in T
  BY <1>1, <1>9, <1>10, FoldedStays
<1>12. x \in T
  BY <1>1, <1>4, <1>7, <1>11
<1>q. QED BY <1>12 DEF T

\* Its callers repeat it as long as the body streams.
LEMMA StreamAllGood ==
    ASSUME NEW w, NEW due, Mid(w, due), w.ret # "fail",
           w.conn.headersSent, w.sess.st \in {"streaming", "complete", "error"}
    PROVE  /\ Mid(StreamAll(w), due) /\ StreamAll(w).conn.headersSent
           /\ StreamAll(w).sess.st \in {"streaming", "complete", "error"}
<1> DEFINE ps == Rounds(w)
           n == Available(w) + 2
           base == Returns(w, "progress")
           T == {v \in Calls : Mid(v, due) /\ v.conn.headersSent
                                    /\ v.sess.st \in {"streaming", "complete", "error"}}
           step(h, s) == IF s = {} THEN base ELSE StreamOn(h[s \ {Max(s)}], ps[Max(s)])
           IsIt(h) == h = [s \in SUBSET DOMAIN ps |-> step(h, s)]
           g == [z \in T \X (1..n) |-> StreamOn(z[1], ps[z[2]])]
           iter == CHOOSE h : IsIt(h)
           x == StreamAll(w)
<1>1. n \in Nat /\ DOMAIN ps = 1..n
  <2>1. Available(w) \in Nat
    BY DEF Mid, Course, Calls, Upstreams, Available
  <2>q. QED BY <2>1 DEF Rounds
<1>2. base \in T
  BY ReturnsGood, ReturnsGives DEF Mid
<1>3. \A y \in T, k \in 1..n : StreamOn(y, ps[k]) \in T
  BY TryReceiveGood DEF StreamOn, Mid, Received
<1>4. x = iter[DOMAIN ps]
  BY Zenon DEF StreamAll, FoldLeft, MapThenFoldSet
<1> HIDE DEF n, T, ps, base
<1>5. \E h : IsIt(h)
  <2>1. g \in [T \X (1..n) -> T]
    BY <1>3
  <2> HIDE DEF g
  <2>2. PICK h \in [SUBSET (1..n) -> T] : \A s \in SUBSET (1..n) : h[s] = Folded(h, s, base, g)
    <3>1. n \in Nat
      BY <1>1
    <3>2. \E h : Folds(h, n, T, base, g)
      BY <3>1, <1>2, <2>1, FoldExists
    <3>q. QED BY <3>2 DEF Folds
  <2>3. ASSUME NEW s \in SUBSET (1..n) PROVE h[s] = step(h, s)
    <3>1. CASE s = {}
      BY <3>1, <2>2 DEF Folded
    <3>2. CASE s # {}
      <4>1. Max(s) \in 1..n
        BY <1>1, <3>2, MaxIsGreatest
      <4>2. h[s \ {Max(s)}] \in T
        OBVIOUS
      <4>3. h[s] = g[<<h[s \ {Max(s)}], Max(s)>>]
        BY <3>2, <2>2 DEF Folded
      <4>q. QED BY <3>2, <4>1, <4>2, <4>3 DEF g
    <3>q. QED BY <3>1, <3>2
  <2>4. h = [s \in SUBSET (1..n) |-> step(h, s)]
    BY <2>3
  <2>q. QED BY <1>1, <2>4
<1>6. IsIt(iter)
  BY <1>5
<1>7. PICK i : i = iter
  OBVIOUS
<1>8. \A s \in SUBSET (1..n) : i[s] = step(i, s)
  <2>1. i = [s \in SUBSET (1..n) |-> step(i, s)]
    BY <1>1, <1>6, <1>7
  <2>q. QED BY <2>1
<1>9. i[{}] \in T
  BY <1>2, <1>8
<1>10. ASSUME NEW k \in 1..n, i[1..(k - 1)] \in T PROVE i[1..k] \in T
  <2>1. 1..k \in SUBSET (1..n) /\ 1..k # {} /\ Max(1..k) = k /\ (1..k) \ {k} = 1..(k - 1)
    BY <1>1, FirstPlaces
  <2>2. i[1..k] = StreamOn(i[1..(k - 1)], ps[k])
    BY <1>8, <2>1
  <2>q. QED BY <2>2, <1>3, <1>10
<1>11. i[1..n] \in T
  BY <1>1, <1>9, <1>10, FoldedStays
<1>12. x \in T
  BY <1>1, <1>4, <1>7, <1>11
<1>q. QED BY <1>12 DEF T

-----------------------------------------------------------------------------
(* Writing. *)

\* The beginning of a queue, and an entry more of it.
LEMMA Beginning ==
    ASSUME NEW q \in Seq(BufferType), NEW i \in 0..Len(q)
    PROVE  /\ SubSeq(q, 1, i) \in Seq(BufferType) /\ Len(SubSeq(q, 1, i)) = i
           /\ \A j \in 1..i : SubSeq(q, 1, i)[j] = q[j]
           /\ SubSeq(q, i + 1, Len(q)) \in Seq(BufferType)
           /\ Whats(SubSeq(q, 1, i)) \subseteq Whats(q)
           /\ Whats(SubSeq(q, i + 1, Len(q))) \subseteq Whats(q)
<1> DEFINE n == Len(q)
           s == SubSeq(q, 1, i)
           t == SubSeq(q, i + 1, n)
<1>1. n \in Nat /\ DOMAIN q = 1..n /\ i \in Nat /\ i <= n
  BY LenProperties
<1>2. \A j \in 1..n : q[j] \in BufferType
  BY <1>1, ElementOfSeq
<1>3. s \in Seq(BufferType) /\ Len(s) = i /\ \A j \in 1..i : s[j] = q[j]
  <2>1. s = [j \in 1..i |-> q[j]]
    BY <1>1
  <2>2. \A j \in 1..i : q[j] \in BufferType
    BY <1>1, <1>2
  <2> HIDE DEF s
  <2>q. QED BY <1>1, <2>1, <2>2
<1>4. PICK m \in Nat : m = n - i
  <2> HIDE DEF n
  <2>1. n - i \in Nat
    BY <1>1
  <2>q. QED BY <2>1
<1>5. t \in Seq(BufferType) /\ DOMAIN t = 1..m /\ \A j \in 1..m : t[j] = q[i + j]
  <2>1. t = [j \in 1..m |-> q[i + j]]
    BY <1>1, <1>4
  <2>2. \A j \in 1..m : q[i + j] \in BufferType
    BY <1>1, <1>2, <1>4
  <2> HIDE DEF t
  <2>q. QED BY <1>4, <2>1, <2>2
<1> HIDE DEF s, t
<1>6. Whats(s) \subseteq Whats(q)
  <2>1. DOMAIN s = 1..i
    BY <1>1, <1>3, LenProperties
  <2>2. ASSUME NEW j \in DOMAIN s PROVE s[j].what \in Whats(q)
    <3>1. j \in DOMAIN q /\ s[j] = q[j]
      BY <1>1, <1>3, <2>1
    <3>q. QED BY <3>1 DEF Whats
  <2>q. QED BY <2>2 DEF Whats
<1>7. Whats(t) \subseteq Whats(q)
  <2>1. ASSUME NEW j \in DOMAIN t PROVE t[j].what \in Whats(q)
    <3>1. i + j \in DOMAIN q /\ t[j] = q[i + j]
      BY <1>1, <1>4, <1>5
    <3>q. QED BY <3>1 DEF Whats
  <2>q. QED BY <2>1 DEF Whats
<1>q. QED BY <1>3, <1>5, <1>6, <1>7 DEF s, t, n

\* What one more entry adds to it.
LEMMA BeginningAdds ==
    ASSUME NEW q \in Seq(BufferType), NEW i \in 0..(Len(q) - 1)
    PROVE  Payload(SubSeq(q, 1, i + 1)) = Payload(SubSeq(q, 1, i)) + q[i + 1].n
<1>1. i \in 0..Len(q) /\ i + 1 \in 0..Len(q) /\ i + 1 \in 1..Len(q) /\ i \in Nat
  BY LenProperties
<1>2. PICK s : s = SubSeq(q, 1, i)
  OBVIOUS
<1>3. PICK t : t = SubSeq(q, 1, i + 1)
  OBVIOUS
<1>4. s \in Seq(BufferType) /\ Len(s) = i /\ \A j \in 1..i : s[j] = q[j]
  BY <1>1, <1>2, Beginning
<1>5. t \in Seq(BufferType) /\ Len(t) = i + 1 /\ \A j \in 1..(i + 1) : t[j] = q[j]
  BY <1>1, <1>3, Beginning
<1>6. q[i + 1] \in BufferType
  BY <1>1, ElementOfSeq
<1>7. t = Append(s, q[i + 1])
  <2>1. PICK a : a = Append(s, q[i + 1])
    OBVIOUS
  <2>2. /\ a \in Seq(BufferType) /\ Len(a) = i + 1 /\ a[i + 1] = q[i + 1]
        /\ \A j \in 1..i : a[j] = s[j]
    BY <1>4, <1>6, <2>1, AppendProperties
  <2>3. \A j \in 1..(i + 1) : a[j] = t[j]
    BY <1>1, <1>4, <1>5, <2>2
  <2>q. QED BY <1>1, <1>5, <2>1, <2>2, <2>3, SeqEqual
<1>q. QED BY <1>2, <1>3, <1>4, <1>6, <1>7, PayloadAppend

\* send_queue_consume_memory(): the whole buffers that are gone, and what is gone of
\* the next one.
LEMMA GoneIs ==
    ASSUME NEW q \in Seq(BufferType), NEW k \in Nat, k <= Payload(q),
           NEW i, i = Gone(q, k), NEW part, part = k - Payload(SubSeq(q, 1, i))
    PROVE  /\ i \in 0..Len(q) /\ part \in Nat /\ (k = 0 => i = 0 /\ part = 0)
           /\ part # 0 => i + 1 \in 1..Len(q) /\ part < q[i + 1].n
<1> DEFINE n == Len(q)
           S == {j \in 0..n : Payload(SubSeq(q, 1, j)) <= k}
<1>1. n \in Nat
  BY LenProperties
<1>2. \A j \in 0..n : Payload(SubSeq(q, 1, j)) \in Nat /\ Payload(SubSeq(q, 1, j)) >= j
  <2>1. TAKE j \in 0..n
  <2>2. PICK s : s = SubSeq(q, 1, j)
    OBVIOUS
  <2>3. s \in Seq(BufferType) /\ Len(s) = j
    BY <2>2, Beginning
  <2>4. \A x \in DOMAIN s : s[x].n >= 1
    <3>1. TAKE x \in DOMAIN s
    <3>2. s[x] \in BufferType
      BY <2>3, LenProperties, ElementOfSeq
    <3>q. QED BY <3>2, Sizes DEF BufferType
  <2>5. Payload(s) \in Nat /\ Payload(s) >= 1 * Len(s)
    BY <2>3, <2>4, PayloadIs
  <2>q. QED BY <2>2, <2>3, <2>5
<1>3. 0 \in S
  <2>1. SubSeq(q, 1, 0) = <<>>
    OBVIOUS
  <2>2. Payload(SubSeq(q, 1, 0)) = 0
    BY <2>1, PayloadIs, EmptySeq
  <2>q. QED BY <1>1, <2>2
<1>4. i = Max(S)
  BY DEF Gone
<1>5. i \in S /\ \A y \in S : i >= y
  <2> HIDE DEF S
  <2>1. S \in SUBSET (0..n)
    BY DEF S
  <2>q. QED BY <1>1, <1>3, <1>4, <2>1, MaxUpTo
<1>6. PICK p \in Nat : p = Payload(SubSeq(q, 1, i))
  BY <1>2, <1>5
<1>7. i \in 0..n /\ p <= k /\ p >= i /\ part = k - p
  BY <1>2, <1>5, <1>6
<1>8. ASSUME part # 0 PROVE i + 1 \in 1..n /\ part < q[i + 1].n
  <2>1. i # n
    <3>1. ASSUME i = n PROVE FALSE
      <4>1. SubSeq(q, 1, n) = q
        BY SubSeqFull
      <4>2. p = Payload(q)
        BY <1>6, <3>1, <4>1
      <4>q. QED BY <1>6, <1>7, <1>8, <4>2
    <3>q. QED BY <3>1
  <2>2. i \in 0..(n - 1) /\ i + 1 \in 1..n /\ i + 1 \in 0..n
    BY <1>1, <1>7, <2>1
  <2>3. Payload(SubSeq(q, 1, i + 1)) = p + q[i + 1].n
    BY <1>6, <2>2, BeginningAdds
  <2>4. ~(Payload(SubSeq(q, 1, i + 1)) <= k)
    <3>1. i + 1 \notin S
      BY <1>5, <1>7
    <3>q. QED BY <2>2, <3>1
  <2>5. q[i + 1].n \in Nat
    <3>1. q[i + 1] \in BufferType
      BY <2>2, ElementOfSeq
    <3>q. QED BY <3>1, Sizes DEF BufferType
  <2>6. part < q[i + 1].n
    BY <1>6, <1>7, <2>3, <2>4, <2>5
  <2>q. QED BY <2>2, <2>6
<1>9. part \in Nat /\ (k = 0 => i = 0 /\ part = 0)
  BY <1>6, <1>7
<1>q. QED BY <1>7, <1>8, <1>9

\* A single entry.
LEMMA OneEntry ==
    ASSUME NEW b \in BufferType
    PROVE  <<b>> \in Seq(BufferType) /\ Whats(<<b>>) = {b.what}
<1>1. PICK s : s = <<b>>
  OBVIOUS
<1>2. s \in Seq(BufferType) /\ DOMAIN s = 1..1 /\ s[1] = b
  BY <1>1
<1>3. Whats(s) = {b.what}
  BY <1>2 DEF Whats
<1>q. QED BY <1>1, <1>2, <1>3

\* The rest of a queue, and what was taken from it.
LEMMA ConsumedIs ==
    ASSUME NEW q \in Seq(BufferType), NEW k \in Nat, k <= Payload(q)
    PROVE  /\ Gone(q, k) \in Nat
           /\ Consumed(q, k) \in Seq(BufferType) /\ Whats(Consumed(q, k)) \subseteq Whats(q)
           /\ Taken(q, k) \in Seq(BufferType) /\ Whats(Taken(q, k)) \subseteq Whats(q)
           /\ k = 0 => Consumed(q, k) = q
<1>1. PICK i : i = Gone(q, k)
  OBVIOUS
<1>2. PICK part : part = k - Payload(SubSeq(q, 1, i))
  OBVIOUS
<1>3. /\ i \in 0..Len(q) /\ part \in Nat /\ (k = 0 => i = 0 /\ part = 0)
      /\ part # 0 => i + 1 \in 1..Len(q) /\ part < q[i + 1].n
  BY <1>1, <1>2, GoneIs
<1>4. PICK s, t : s = SubSeq(q, 1, i) /\ t = SubSeq(q, i + 1, Len(q))
  OBVIOUS
<1>5. /\ s \in Seq(BufferType) /\ Whats(s) \subseteq Whats(q)
      /\ t \in Seq(BufferType) /\ Whats(t) \subseteq Whats(q)
  BY <1>3, <1>4, Beginning
<1>6. i \in Nat
  BY <1>3
<1>7. CASE part = 0
  <2>1. Consumed(q, k) = t
    BY <1>1, <1>2, <1>4, <1>7 DEF Consumed
  <2>2. Taken(q, k) = s
    <3>1. Taken(q, k) = s \o <<>>
      BY <1>1, <1>2, <1>4, <1>7 DEF Taken
    <3>q. QED BY <1>5, <3>1, ConcatEmptySeq
  <2>3. k = 0 => t = q
    <3>1. ASSUME k = 0 PROVE t = q
      <4>1. i + 1 = 1
        BY <1>3, <3>1
      <4>2. t = SubSeq(q, 1, Len(q))
        BY <1>4, <4>1
      <4>q. QED BY <4>2, SubSeqFull
    <3>q. QED BY <3>1
  <2>q. QED BY <1>1, <1>5, <1>6, <2>1, <2>2, <2>3
<1>8. CASE part # 0
  <2>1. PICK b : b = q[i + 1]
    OBVIOUS
  <2>2. b \in BufferType /\ b.what \in Whats(q) /\ part < b.n /\ i + 1 \in 0..Len(q)
    <3>1. i + 1 \in 1..Len(q) /\ i + 1 \in DOMAIN q /\ i + 1 \in 0..Len(q)
      BY <1>3, <1>8, LenProperties
    <3>2. b.what \in Whats(q)
      BY <2>1, <3>1 DEF Whats
    <3>q. QED BY <1>3, <1>8, <2>1, <3>1, <3>2, ElementOfSeq
  <2>3. b.what \in Kinds /\ b.from \in Nat /\ b.n \in 1..BufferUnits /\ BufferUnits \in Nat
    BY <2>2, Sizes DEF BufferType, Kinds
  <2>4. PICK f \in Nat : f = b.from + part
    BY <1>3, <2>3
  <2>5. PICK l \in 1..BufferUnits : l = b.n - part
    BY <1>3, <2>2, <2>3
  <2>6. PICK c : c = [b EXCEPT !.from = f, !.n = l]
    OBVIOUS
  <2>7. c \in BufferType /\ c.what = b.what
    BY ONLY <2>2, <2>6, f \in Nat, l \in 1..BufferUnits DEF BufferType
  <2>8. part \in 1..BufferUnits
    BY <1>3, <1>8, <2>2, <2>3
  <2>9. PICK d : d = [b EXCEPT !.n = part]
    OBVIOUS
  <2>10. d \in BufferType /\ d.what = b.what
    BY ONLY <2>2, <2>8, <2>9 DEF BufferType
  <2>11. PICK u : u = SubSeq(q, i + 2, Len(q))
    OBVIOUS
  <2>12. u \in Seq(BufferType) /\ Whats(u) \subseteq Whats(q)
    <3>1. (i + 1) + 1 = i + 2
      BY <1>6
    <3>q. QED BY <2>2, <2>11, <3>1, Beginning
  <2>13. Consumed(q, k) = <<c>> \o u
    BY <1>1, <1>2, <1>8, <2>1, <2>4, <2>5, <2>6, <2>11 DEF Consumed
  <2>14. Taken(q, k) = s \o <<d>>
    BY <1>1, <1>2, <1>4, <1>8, <2>1, <2>9 DEF Taken
  <2>15. /\ <<c>> \in Seq(BufferType) /\ Whats(<<c>>) = {c.what}
         /\ <<d>> \in Seq(BufferType) /\ Whats(<<d>>) = {d.what}
    BY <2>7, <2>10, OneEntry
  <2>16. Consumed(q, k) \in Seq(BufferType) /\ Whats(Consumed(q, k)) \subseteq Whats(q)
    <3>1. <<c>> \o u \in Seq(BufferType) /\ Whats(<<c>> \o u) = Whats(<<c>>) \union Whats(u)
      BY <2>12, <2>15, BothWhats
    <3>q. QED BY <2>2, <2>7, <2>12, <2>13, <2>15, <3>1
  <2>17. Taken(q, k) \in Seq(BufferType) /\ Whats(Taken(q, k)) \subseteq Whats(q)
    <3>1. s \o <<d>> \in Seq(BufferType) /\ Whats(s \o <<d>>) = Whats(s) \union Whats(<<d>>)
      BY <1>5, <2>15, BothWhats
    <3>q. QED BY <1>5, <2>2, <2>10, <2>14, <2>15, <3>1
  <2>q. QED BY <1>1, <1>3, <1>6, <1>8, <2>16, <2>17
<1>q. QED BY <1>7, <1>8

\* The last unit of a body is a number.
LEMMA LastOfBodyIs ==
    ASSUME NEW q \in Seq(BufferType), NEW before \in Nat
    PROVE  LastOfBody(q, before) \in Nat
<1> DEFINE n == Len(q)
           T == Nat
           step(h, s) == IF s = {} THEN before ELSE LastOf(h[s \ {Max(s)}], q[Max(s)])
           IsIt(h) == h = [s \in SUBSET DOMAIN q |-> step(h, s)]
           g == [z \in T \X (1..n) |-> LastOf(z[1], q[z[2]])]
           iter == CHOOSE h : IsIt(h)
           x == LastOfBody(q, before)
<1>1. n \in Nat /\ DOMAIN q = 1..n
  BY LenProperties
<1>2. before \in T
  OBVIOUS
<1>3. \A y \in T, k \in 1..n : LastOf(y, q[k]) \in T
  <2>1. TAKE y \in T, k \in 1..n
  <2>2. q[k] \in BufferType
    BY <1>1, ElementOfSeq
  <2>3. q[k].from \in Nat /\ q[k].n \in Nat /\ q[k].n >= 1
    BY <2>2, Sizes DEF BufferType
  <2>4. q[k].from + q[k].n - 1 \in Nat
    BY <2>3
  <2>q. QED BY <2>4 DEF LastOf
<1>4. x = iter[DOMAIN q]
  BY Zenon DEF LastOfBody, FoldLeft, MapThenFoldSet
<1> HIDE DEF n, T
<1>5. \E h : IsIt(h)
  <2>1. g \in [T \X (1..n) -> T]
    BY <1>3
  <2> HIDE DEF g
  <2>2. PICK h \in [SUBSET (1..n) -> T] : \A s \in SUBSET (1..n) : h[s] = Folded(h, s, before, g)
    <3>1. n \in Nat
      BY <1>1
    <3>2. \E h : Folds(h, n, T, before, g)
      BY <3>1, <1>2, <2>1, FoldExists
    <3>q. QED BY <3>2 DEF Folds
  <2>3. ASSUME NEW s \in SUBSET (1..n) PROVE h[s] = step(h, s)
    <3>1. CASE s = {}
      BY <3>1, <2>2 DEF Folded
    <3>2. CASE s # {}
      <4>1. Max(s) \in 1..n
        BY <1>1, <3>2, MaxIsGreatest
      <4>2. h[s \ {Max(s)}] \in T
        OBVIOUS
      <4>3. h[s] = g[<<h[s \ {Max(s)}], Max(s)>>]
        BY <3>2, <2>2 DEF Folded
      <4>q. QED BY <3>2, <4>1, <4>2, <4>3 DEF g
    <3>q. QED BY <3>1, <3>2
  <2>4. h = [s \in SUBSET (1..n) |-> step(h, s)]
    BY <2>3
  <2>q. QED BY <1>1, <2>4
<1>6. IsIt(iter)
  BY <1>5
<1>7. PICK i : i = iter
  OBVIOUS
<1>8. \A s \in SUBSET (1..n) : i[s] = step(i, s)
  <2>1. i = [s \in SUBSET (1..n) |-> step(i, s)]
    BY <1>1, <1>6, <1>7
  <2>q. QED BY <2>1
<1>9. i[{}] \in T
  BY <1>2, <1>8
<1>10. ASSUME NEW k \in 1..n, i[1..(k - 1)] \in T PROVE i[1..k] \in T
  <2>1. 1..k \in SUBSET (1..n) /\ 1..k # {} /\ Max(1..k) = k /\ (1..k) \ {k} = 1..(k - 1)
    BY <1>1, FirstPlaces
  <2>2. i[1..k] = LastOf(i[1..(k - 1)], q[k])
    BY <1>8, <2>1
  <2>q. QED BY <2>2, <1>3, <1>10
<1>11. i[1..n] \in T
  BY <1>1, <1>9, <1>10, FoldedStays
<1>12. x \in T
  BY <1>1, <1>4, <1>7, <1>11
<1>q. QED BY <1>12 DEF T

\* connection_handle_write() sends: the session does not notice, and the client
\* sees what it was going to see.
LEMMA WrittenGives ==
    ASSUME NEW w \in Calls, NEW k \in Nat, k <= Payload(w.conn.queue), k <= w.client.room,
           NEW v, v = Written(w, k)
    PROVE  /\ v \in Calls /\ v.sess = w.sess /\ v.up = w.up /\ v.ret = w.ret
           /\ v.conn.state = w.conn.state /\ v.conn.armed = w.conn.armed
           /\ v.conn.scheduled = w.conn.scheduled /\ v.conn.headersSent = w.conn.headersSent
           /\ v.conn.slow = w.conn.slow /\ v.conn.since = w.conn.since
           /\ KindsOf(v) \subseteq KindsOf(w)
           /\ w.conn.queue = <<>> => v.conn.queue = <<>> /\ v.client.seen = w.client.seen
           /\ k = 0 => v.conn.queue = w.conn.queue
<1> DEFINE q == w.conn.queue
<1>1. w.conn \in Conns /\ w.pool \in Pools /\ w.client \in Clients /\ q \in Seq(BufferType)
  BY DEF Calls, Conns
<1> HIDE DEF q
<1>2. PICK gone, r, t : gone = Gone(q, k) /\ r = Consumed(q, k) /\ t = Taken(q, k)
  OBVIOUS
<1>3. k <= Payload(q)
  BY DEF q
<1>4. /\ gone \in Nat /\ r \in Seq(BufferType) /\ Whats(r) \subseteq Whats(q)
      /\ t \in Seq(BufferType) /\ Whats(t) \subseteq Whats(q) /\ (k = 0 => r = q)
  BY <1>1, <1>2, <1>3, ConsumedIs
<1>5. PICK c : c = [w.conn EXCEPT !.queue = r]
  OBVIOUS
<1>6. /\ c \in Conns /\ c.queue = r /\ c.state = w.conn.state /\ c.armed = w.conn.armed
      /\ c.scheduled = w.conn.scheduled /\ c.headersSent = w.conn.headersSent
      /\ c.slow = w.conn.slow /\ c.since = w.conn.since
  BY ONLY <1>1, <1>4, <1>5 DEF Conns
<1>7. PICK p : p = Put(w.pool, gone)
  OBVIOUS
<1>8. p \in Pools
  BY <1>1, <1>4, <1>7, PutGood
<1>9. PICK room \in Nat : room = w.client.room - k
  <2>1. w.client.room \in Nat
    BY <1>1 DEF Clients
  <2>2. w.client.room - k \in Nat
    BY <2>1
  <2>q. QED BY <2>2
<1>10. PICK last \in Nat : last = LastOfBody(t, w.client.last)
  <2>1. w.client.last \in Nat
    BY <1>1 DEF Clients
  <2>q. QED BY <1>4, <2>1, LastOfBodyIs
<1>11. {b.what : b \in ToSet(t)} = Whats(t)
  BY DEF ToSet, Whats
<1>12. Whats(t) \subseteq Kinds
  <2>1. \A j \in DOMAIN t : t[j].what \in Kinds
    <3>1. TAKE j \in DOMAIN t
    <3>2. t[j] \in BufferType
      BY <1>4, LenProperties, ElementOfSeq
    <3>q. QED BY <3>2 DEF BufferType, Kinds
  <2>q. QED BY <2>1 DEF Whats
<1>13. PICK seen \in SUBSET Kinds : seen = w.client.seen \union Whats(t)
  BY <1>1, <1>12 DEF Clients
<1>14. PICK l : l = [w.client EXCEPT !.room = room, !.last = last, !.seen = seen]
  OBVIOUS
<1>15. l \in Clients /\ l.seen = seen
  BY ONLY <1>1, <1>14, room \in Nat, last \in Nat, seen \in SUBSET Kinds DEF Clients
<1>16. v = [w EXCEPT !.conn = c, !.pool = p, !.client = l]
  <2>1. l = Given(w.client, t, k)
    BY <1>1, <1>9, <1>10, <1>11, <1>13, <1>14 DEF Clients, Given
  <2>2. v = [w EXCEPT !.conn.queue = r, !.pool = p, !.client = l]
    BY Zenon, <1>2, <1>7, <2>1 DEF Written, q
  <2>3. [w.conn EXCEPT !.queue = r] = c
    BY <1>5
  <2>4. [w EXCEPT !.conn.queue = r, !.pool = p, !.client = l]
            = [w EXCEPT !.conn = c, !.pool = p, !.client = l]
    BY <2>3 DEF Calls
  <2>q. QED BY <2>2, <2>4
<1>17. /\ v \in Calls /\ v.conn = c /\ v.pool = p /\ v.client = l /\ v.sess = w.sess /\ v.up = w.up
       /\ v.ret = w.ret
  BY ONLY <1>6, <1>8, <1>15, <1>16, w \in Calls DEF Calls
<1>18. KindsOf(v) \subseteq KindsOf(w)
  BY <1>4, <1>6, <1>13, <1>15, <1>17 DEF KindsOf, q
<1>19. ASSUME q = <<>> PROVE v.conn.queue = <<>> /\ v.client.seen = w.client.seen
  <2>1. Payload(q) = 0
    BY <1>1, <1>19, PayloadIs
  <2>2. k = 0
    BY <1>3, <2>1
  <2>3. Whats(q) = {}
    BY <1>19 DEF Whats
  <2>q. QED BY <1>4, <1>6, <1>13, <1>15, <1>17, <1>19, <2>2, <2>3
<1>q. QED BY <1>4, <1>6, <1>17, <1>18, <1>19 DEF q

\* How many units it sends.
LEMMA SentUnits ==
    ASSUME NEW a \in Nat, NEW b \in Nat, NEW k, k = Min({a, b, WriteBudget})
    PROVE  k \in Nat /\ k <= a /\ k <= b
<1>1. {a, b, WriteBudget} \in SUBSET Nat /\ {a, b, WriteBudget} # {}
  BY Sizes
<1>2. k \in {a, b, WriteBudget} /\ \A y \in {a, b, WriteBudget} : k <= y
  BY <1>1, MinIsLeast
<1>q. QED BY <1>1, <1>2

\* A connection is in order, but for a pause that is about to be looked at.
Ready(w) ==
    /\ w \in Calls /\ w.conn.state # "closed" /\ w.ret = "progress"
    /\ Single(w) /\ Blank(w) /\ Course(w) /\ Young(w)
    /\ Fills => Aligned(w)

\* http_proxy_resume_upstream().
LEMMA ResumeGood ==
    ASSUME NEW w, NEW due, Ready(w), Fills => Lazy(w, due), w.sess.paused,
           NEW v, v = Resume(w)
    PROVE  Settled(v, due) /\ v.conn.state # "closed"
<1>1. PICK u : u = [w EXCEPT !.sess.paused = FALSE]
  OBVIOUS
<1>2. /\ u \in Calls /\ u.conn = w.conn /\ u.pool = w.pool /\ u.up = w.up
      /\ u.client = w.client /\ u.ret = w.ret /\ u.sess.st = w.sess.st
      /\ ~u.sess.paused /\ u.sess.rewrite = w.sess.rewrite /\ u.sess.pos = w.sess.pos
  BY <1>1 DEF Ready, Calls, Sessions
<1>3. Mid(u, due) /\ u.ret # "fail"
  <2>1. Single(u) /\ Blank(u) /\ Young(u)
    BY <1>2 DEF Ready, Single, Blank, Young, KindsOf, Untouched
  <2>2. Course(u)
    BY <1>2 DEF Ready, Course
  <2>3. Waking(u, due)
    BY <1>2 DEF Ready, Waking, Aligned, Lazy, Pause
  <2>q. QED BY <1>2, <2>1, <2>2, <2>3 DEF Ready, Mid
<1>4. u.conn.headersSent /\ u.sess.st \in {"streaming", "complete", "error"}
  BY <1>2 DEF Ready, Course
<1>5. PICK r : r = StreamAll(u)
  OBVIOUS
<1>6. Mid(r, due) /\ r.conn.headersSent /\ r.sess.st \in {"streaming", "complete", "error"}
  BY <1>3, <1>4, <1>5, StreamAllGood
<1>7. Young(r) /\ r.conn.state # "closed"
  BY <1>6 DEF Young, Mid
<1>8. v = IF r.sess.st = "complete" THEN BeginDrainClose([r EXCEPT !.sess.open = FALSE]) ELSE r
  BY <1>1, <1>5 DEF Resume, With
<1>9. CASE r.sess.st = "complete"
  <2>1. v = BeginDrainClose([r EXCEPT !.sess.open = FALSE])
    BY <1>8, <1>9
  <2>q. QED BY <1>6, <1>7, <2>1, BeginDrainCloseGood
<1>10. CASE r.sess.st # "complete"
  <2>1. Settled(r, due)
    BY <1>6, <1>7, MidSettles
  <2>q. QED BY <1>7, <1>8, <1>10, <2>1
<1>q. QED BY <1>9, <1>10

\* Nothing is to be resumed.
LEMMA ReadySettles ==
    ASSUME NEW w, NEW due, Ready(w), Fills => Lazy(w, due) /\ Pause(w, due)
    PROVE  Settled(w, due)
BY DEF Ready, Settled, Blank, Shut, Waking

\* stream_on_client_drain(), when something was written.
LEMMA DrainedGood ==
    ASSUME NEW w, NEW due, Ready(w), Fills => Lazy(w, due), NEW k,
           Fills /\ ~(k > 0 /\ w.sess.paused /\ CanResume(w.conn, w.pool)) => Pause(w, due),
           NEW v, v = Drained(w, k)
    PROVE  Settled(v, due) /\ v.conn.state # "closed"
<1>1. CASE k > 0 /\ w.sess.paused /\ CanResume(w.conn, w.pool)
  <2>1. v = Resume(w)
    BY <1>1 DEF Drained, OnClientDrain
  <2>q. QED BY <1>1, <2>1, ResumeGood
<1>2. CASE ~(k > 0 /\ w.sess.paused /\ CanResume(w.conn, w.pool))
  <2>1. v = w
    BY <1>2 DEF Drained, OnClientDrain
  <2>2. Settled(w, due)
    BY <1>2, ReadySettles
  <2>q. QED BY <2>1, <2>2 DEF Ready
<1>q. QED BY <1>1, <1>2

\* Only who is going to write to a client changes; somebody is told to.
Kept(c, d) ==
    /\ d \in Conns /\ d.state = c.state /\ d.queue = c.queue /\ d.headersSent = c.headersSent
    /\ d.slow = c.slow /\ d.since = c.since

Told(c, d) == Kept(c, d) /\ ~Idle(d)

\* Telling somebody to write to the client disturbs nothing.
LEMMA ToldGood ==
    ASSUME NEW w, NEW due, Settled(w, due), w.conn.state # "closed",
           NEW c, Told(w.conn, c), NEW v, v = [w EXCEPT !.conn = c]
    PROVE  Settled(v, FALSE)
<1>1. w \in Calls /\ c \in Conns
  BY DEF Settled, Told, Kept
<1>2. /\ v \in Calls /\ v.conn = c /\ v.pool = w.pool /\ v.sess = w.sess /\ v.up = w.up
      /\ v.client = w.client
  BY ONLY <1>1, v = [w EXCEPT !.conn = c] DEF Calls
<1>3. KindsOf(v) = KindsOf(w)
  BY <1>2 DEF KindsOf, Told, Kept
<1>4. Single(v)
  BY <1>2, <1>3 DEF Settled, Single
<1>5. Course(v) /\ Young(v)
  BY <1>2 DEF Settled, Course, Young, Told, Kept
<1>6. Shut(v)
  BY <1>2 DEF Shut, Told, Kept
<1>7. ~v.conn.headersSent => Untouched(v)
  BY <1>2 DEF Settled, Untouched, Told, Kept
<1>8. Waking(v, FALSE)
  BY <1>2 DEF Settled, Waking, Aligned, Lazy, Pause, Told, Kept
<1>q. QED BY <1>2, <1>4, <1>5, <1>6, <1>7, <1>8 DEF Settled

\* Waiting for room in the client's socket begins or ends.
LEMMA ArmedGood ==
    ASSUME NEW w, Ready(w), NEW c, Kept(w.conn, c), NEW v, v = [w EXCEPT !.conn = c]
    PROVE  Ready(v) /\ v.conn = c /\ v.sess = w.sess
<1>1. w \in Calls /\ c \in Conns
  BY DEF Ready, Kept
<1>2. /\ v \in Calls /\ v.conn = c /\ v.sess = w.sess /\ v.up = w.up
      /\ v.client = w.client /\ v.ret = w.ret
  BY ONLY <1>1, v = [w EXCEPT !.conn = c] DEF Calls
<1>3. KindsOf(v) = KindsOf(w)
  BY <1>2 DEF KindsOf, Kept
<1>4. Single(v)
  BY <1>2, <1>3 DEF Ready, Single
<1>5. Course(v) /\ Young(v)
  BY <1>2 DEF Ready, Course, Young, Kept
<1>6. Blank(v)
  BY <1>2 DEF Ready, Blank, Untouched, Kept
<1>7. Fills => Aligned(v)
  BY <1>2 DEF Ready, Aligned
<1>q. QED BY <1>2, <1>4, <1>5, <1>6, <1>7 DEF Ready, Kept

\* What follows in connection_handle_write(): an empty queue resumes a relay at
\* once, and a queue that is not empty is written again, now or when there is room.
LEMMA AfterWriteGood ==
    ASSUME NEW w, Ready(w), NEW k \in Nat,
           Fills /\ w.sess.paused /\ k = 0 => w.conn.queue # <<>>
    PROVE  Settled(AfterWrite(w, k), FALSE)
<1>1. w \in Calls /\ w.conn \in Conns
  BY DEF Ready, Calls
<1>2. PICK a : a = [w EXCEPT !.conn.armed = FALSE]
  OBVIOUS
<1>3. /\ Ready(a) /\ a.conn.armed = FALSE /\ a.conn.queue = w.conn.queue /\ a.sess = w.sess
  <2>1. PICK c : c = [w.conn EXCEPT !.armed = FALSE]
    OBVIOUS
  <2>2. Kept(w.conn, c) /\ c.armed = FALSE
    BY <1>1, <2>1 DEF Kept, Conns
  <2>3. a = [w EXCEPT !.conn = c]
    BY <1>1, <1>2, <2>1 DEF Calls
  <2>4. Ready(a) /\ a.conn = c /\ a.sess = w.sess
    <3>1. Ready(w) /\ Kept(w.conn, c)
      BY <2>2
    <3>q. QED BY ONLY <2>3, <3>1, ArmedGood
  <2>q. QED BY <2>2, <2>4 DEF Kept
<1>4. PICK v : v = Drained(a, k)
  OBVIOUS
<1>5. AfterWrite(w, k) =
        CASE w.conn.queue = <<>> /\ w.conn.state = "closing" -> Close(w, "drained")
          [] w.conn.queue = <<>> /\ w.conn.state # "closing" ->
                IF v.conn.queue = <<>> THEN v ELSE [v EXCEPT !.conn = Schedule(@)]
          [] w.conn.queue # <<>> /\ k = WriteBudget -> [v EXCEPT !.conn.scheduled = TRUE]
          [] w.conn.queue # <<>> /\ k # WriteBudget -> Drained([w EXCEPT !.conn.armed = TRUE], k)
  BY <1>2, <1>4 DEF AfterWrite, With
<1>6. CASE w.conn.queue = <<>> /\ w.conn.state = "closing"
  <2>1. AfterWrite(w, k) = Close(w, "drained")
    BY <1>5, <1>6
  <2>2. Settled(Close(w, "drained"), FALSE)
    BY CloseGood DEF Ready, Ends
  <2>q. QED BY <2>1, <2>2
<1>7. CASE w.conn.queue = <<>> /\ w.conn.state # "closing"
  <2>1. AfterWrite(w, k) = IF v.conn.queue = <<>> THEN v ELSE [v EXCEPT !.conn = Schedule(@)]
    BY <1>5, <1>7
  <2>2. Lazy(a, FALSE)
    <3>1. a.conn.queue = <<>>
      BY <1>3, <1>7
    <3>2. Payload(a.conn.queue) < BatchUnits
      <4>1. Payload(<<>>) = 0
        BY PayloadIs, EmptySeq
      <4>q. QED BY <3>1, <4>1, Sizes
    <3>3. DOMAIN a.conn.queue = {}
      BY <3>1
    <3>q. QED BY <3>2, <3>3 DEF Lazy
  <2>3. CanResume(a.conn, a.pool)
    <3>1. Memory(a.conn) = 0
      BY <1>3, <1>7 DEF Memory
    <3>q. QED BY <3>1, Sizes DEF CanResume
  <2>4. Fills /\ ~(k > 0 /\ a.sess.paused /\ CanResume(a.conn, a.pool)) => Pause(a, FALSE)
    <3>1. ASSUME Fills, ~(k > 0 /\ a.sess.paused) PROVE ~a.sess.paused
      BY <1>3, <1>7, <3>1
    <3>q. QED BY <2>3, <3>1 DEF Pause
  <2>5. Settled(v, FALSE) /\ v.conn.state # "closed"
    BY <1>3, <1>4, <2>2, <2>4, DrainedGood
  <2>6. PICK d : d = Schedule(v.conn)
    OBVIOUS
  <2>7. Told(v.conn, d)
    <3>1. v.conn \in Conns
      BY <2>5 DEF Settled, Calls
    <3>q. QED BY <2>6, <3>1, ScheduleKeeps DEF Told, Kept, Idle
  <2>8. Settled([v EXCEPT !.conn = d], FALSE)
    BY <2>5, <2>7, ToldGood
  <2>q. QED BY <2>1, <2>5, <2>6, <2>8
<1>8. CASE w.conn.queue # <<>> /\ k = WriteBudget
  <2>1. AfterWrite(w, k) = [v EXCEPT !.conn.scheduled = TRUE]
    BY <1>5, <1>8
  <2>2. Lazy(a, TRUE) /\ Pause(a, TRUE)
    BY <1>3, <1>8 DEF Lazy, Pause
  <2>3. Settled(v, TRUE) /\ v.conn.state # "closed"
    BY <1>3, <1>4, <2>2, DrainedGood
  <2>4. PICK d : d = [v.conn EXCEPT !.scheduled = TRUE]
    OBVIOUS
  <2>5. v \in Calls /\ v.conn \in Conns
    BY <2>3 DEF Settled, Calls
  <2>6. Told(v.conn, d)
    BY <2>4, <2>5 DEF Told, Kept, Idle, Conns
  <2>7. [v EXCEPT !.conn.scheduled = TRUE] = [v EXCEPT !.conn = d]
    BY <2>4, <2>5 DEF Calls
  <2>8. Settled([v EXCEPT !.conn = d], FALSE)
    BY <2>3, <2>6, ToldGood
  <2>q. QED BY <2>1, <2>7, <2>8
<1>9. CASE w.conn.queue # <<>> /\ k # WriteBudget
  <2>1. PICK b : b = [w EXCEPT !.conn.armed = TRUE]
    OBVIOUS
  <2>2. AfterWrite(w, k) = Drained(b, k)
    BY <1>5, <1>9, <2>1
  <2>3. Ready(b) /\ b.conn.armed = TRUE /\ b.conn.queue = w.conn.queue /\ b.sess = w.sess
    <3>1. PICK c : c = [w.conn EXCEPT !.armed = TRUE]
      OBVIOUS
    <3>2. Kept(w.conn, c) /\ c.armed = TRUE
      BY <1>1, <3>1 DEF Kept, Conns
    <3>3. b = [w EXCEPT !.conn = c]
      BY <1>1, <2>1, <3>1 DEF Calls
    <3>4. Ready(b) /\ b.conn = c /\ b.sess = w.sess
      <4>1. Ready(w) /\ Kept(w.conn, c)
        BY <3>2
      <4>q. QED BY ONLY <3>3, <4>1, ArmedGood
    <3>q. QED BY <3>2, <3>4 DEF Kept
  <2>4. Lazy(b, FALSE) /\ Pause(b, FALSE)
    BY <1>9, <2>3 DEF Lazy, Pause, Idle
  <2>q. QED BY <2>2, <2>3, <2>4, DrainedGood
<1>q. QED BY <1>6, <1>7, <1>8, <1>9

\* connection_handle_write().
LEMMA HandleWriteGood ==
    ASSUME NEW w, Settled(w, FALSE), w.conn.scheduled, w.ret = "progress",
           NEW u, u = [w EXCEPT !.conn.scheduled = FALSE]
    PROVE  Settled(HandleWrite(u), FALSE)
<1>1. w \in Calls /\ w.conn \in Conns /\ w.conn.state # "closed"
  BY DEF Settled, Shut, Calls
<1>2. PICK c : c = [w.conn EXCEPT !.scheduled = FALSE]
  OBVIOUS
<1>3. /\ c \in Conns /\ c.queue = w.conn.queue /\ c.state = w.conn.state
      /\ c.headersSent = w.conn.headersSent /\ c.slow = w.conn.slow /\ c.since = w.conn.since
  BY ONLY <1>1, <1>2 DEF Conns
<1>4. u = [w EXCEPT !.conn = c]
  BY <1>1, <1>2 DEF Calls
<1>5. /\ u \in Calls /\ u.conn = c /\ u.sess = w.sess /\ u.up = w.up
      /\ u.client = w.client /\ u.ret = "progress"
  BY ONLY <1>1, <1>3, <1>4, w.ret = "progress" DEF Calls
<1>6. PICK k : k = Min({Payload(u.conn.queue), u.client.room, WriteBudget})
  OBVIOUS
<1>7. k \in Nat /\ k <= Payload(u.conn.queue) /\ k <= u.client.room
  <2>1. u.conn.queue \in Seq(BufferType) /\ u.client.room \in Nat
    BY <1>5 DEF Calls, Conns, Clients
  <2>2. Payload(u.conn.queue) \in Nat
    BY <2>1, PayloadIs
  <2>q. QED BY <1>6, <2>1, <2>2, SentUnits
<1>8. PICK v : v = Written(u, k)
  OBVIOUS
<1>9. /\ v \in Calls /\ v.sess = u.sess /\ v.up = u.up /\ v.ret = u.ret
      /\ v.conn.state = u.conn.state /\ v.conn.armed = u.conn.armed
      /\ v.conn.scheduled = u.conn.scheduled /\ v.conn.headersSent = u.conn.headersSent
      /\ v.conn.slow = u.conn.slow /\ v.conn.since = u.conn.since
      /\ KindsOf(v) \subseteq KindsOf(u)
      /\ u.conn.queue = <<>> => v.conn.queue = <<>> /\ v.client.seen = u.client.seen
      /\ k = 0 => v.conn.queue = u.conn.queue
  BY ONLY <1>5, <1>7, <1>8, WrittenGives
<1>10. Ready(v)
  <2>1. KindsOf(u) = KindsOf(w)
    BY <1>3, <1>5 DEF KindsOf
  <2>2. Single(v)
    BY <1>5, <1>9, <2>1 DEF Settled, Single
  <2>3. Course(v) /\ Young(v)
    BY <1>3, <1>5, <1>9 DEF Settled, Course, Young
  <2>4. Blank(v)
    BY <1>1, <1>3, <1>5, <1>9 DEF Settled, Blank, Untouched
  <2>5. Fills => Aligned(v)
    BY <1>5, <1>9 DEF Settled, Waking, Aligned
  <2>q. QED BY <1>1, <1>3, <1>5, <1>9, <2>2, <2>3, <2>4, <2>5 DEF Ready
<1>11. Fills /\ v.sess.paused /\ k = 0 => v.conn.queue # <<>>
  BY <1>3, <1>5, <1>9 DEF Settled, Waking, Pause
<1>12. Settled(AfterWrite(v, k), FALSE)
  BY <1>7, <1>10, <1>11, AfterWriteGood
<1>13. HandleWrite(u) = AfterWrite(v, k)
  BY <1>6, <1>8 DEF HandleWrite, With
<1>q. QED BY <1>12, <1>13

-----------------------------------------------------------------------------
(* The events of the upstream socket. *)

\* What a failure leaves is a session that has failed.
Stepped(v) == Mid(v, FALSE) /\ (v.ret = "fail" => v.sess.st = "error")

Early == {"init", "connecting", "sending", "awaiting"}

\* What is left of a session's addresses and what the socket reports say nothing.
LEMMA TunedGood ==
    ASSUME NEW w, Mid(w, FALSE), NEW v \in Calls,
           v.conn = w.conn, v.pool = w.pool, v.client = w.client,
           v.up.got = w.up.got, v.up.sent = w.up.sent,
           v.sess.st = w.sess.st, v.sess.paused = w.sess.paused, v.sess.rewrite = w.sess.rewrite,
           v.sess.pos = w.sess.pos, v.ret = "fail" \/ w.ret # "fail"
    PROVE  Mid(v, FALSE)
<1>1. KindsOf(v) = KindsOf(w)
  BY DEF KindsOf
<1>2. Single(v)
  BY <1>1 DEF Mid, Single
<1>3. Blank(v)
  BY <1>1 DEF Mid, Blank, Untouched
<1>4. Course(v)
  BY DEF Mid, Course
<1>5. v.ret # "fail" => Young(v)
  BY DEF Mid, Young
<1>6. Waking(v, FALSE)
  BY DEF Mid, Waking, Aligned, Lazy, Pause
<1>q. QED BY <1>2, <1>3, <1>4, <1>5, <1>6 DEF Mid

\* A session goes on before its answer.
LEMMA StageGood ==
    ASSUME NEW w, Mid(w, FALSE), w.sess.st \in Early, w.ret # "fail",
           NEW st \in {"connecting", "sending", "awaiting"}, NEW v, v = Goes(w, st)
    PROVE  Mid(v, FALSE) /\ v.ret = w.ret
<1>1. /\ v \in Calls /\ v.conn = w.conn /\ v.pool = w.pool /\ v.up = w.up
      /\ v.client = w.client /\ v.ret = w.ret /\ v.sess.st = st
      /\ v.sess.paused = w.sess.paused /\ v.sess.rewrite = w.sess.rewrite
      /\ v.sess.pos = w.sess.pos
  <2>1. w \in Calls /\ st \in Stages
    BY DEF Mid, Stages
  <2>q. QED BY <2>1, GoesGives
<1>2. KindsOf(v) = KindsOf(w)
  BY <1>1 DEF KindsOf
<1>3. w.sess.st \notin {"streaming", "complete", "error"} /\ st \in Early
      /\ st \notin {"init", "streaming", "complete", "error"}
  BY DEF Early
<1>4. Single(v)
  BY <1>1, <1>2, <1>3 DEF Mid, Single
<1>5. Blank(v)
  BY <1>1, <1>2 DEF Mid, Blank, Untouched
<1>6. ~w.sess.paused
  BY <1>3 DEF Mid, Course
<1>7. Course(v)
  BY <1>1, <1>3, <1>6 DEF Mid, Course
<1>8. Young(v)
  BY <1>1 DEF Mid, Young, Early
<1>9. Waking(v, FALSE)
  BY <1>1, <1>3, <1>6 DEF Mid, Waking, Aligned, Lazy, Pause
<1>q. QED BY <1>1, <1>4, <1>5, <1>7, <1>8, <1>9 DEF Mid

\* A session fails.
LEMMA BreaksGood ==
    ASSUME NEW w, Mid(w, FALSE), NEW v, v = Returns(Goes(w, "error"), "fail")
    PROVE  Mid(v, FALSE) /\ v.sess.st = "error" /\ v.conn = w.conn
<1>1. PICK e : e = Goes(w, "error")
  OBVIOUS
<1>2. Mid(e, FALSE) /\ e.sess.st = "error" /\ e.conn = w.conn
  BY <1>1, ErrorGood
<1>3. v = Returns(e, "fail")
  BY <1>1
<1>4. PICK r \in {"progress", "nothing", "fail"} : r = "fail"
  OBVIOUS
<1>5. v = Returns(e, r)
  BY <1>3, <1>4
<1>6. v \in Calls /\ v.conn = e.conn /\ v.pool = e.pool /\ v.up = e.up
      /\ v.client = e.client /\ v.sess = e.sess /\ v.ret = "fail"
  <2>1. e \in Calls
    BY <1>2 DEF Mid
  <2>q. QED BY <1>4, <1>5, <2>1, ReturnsGives
<1>7. Mid(v, FALSE)
  BY <1>2, <1>6, TunedGood
<1>q. QED BY <1>2, <1>6, <1>7

\* http_proxy_on_connected().
LEMMA OnConnectedGood ==
    ASSUME NEW w, Mid(w, FALSE), w.sess.st \in Early, w.ret # "fail", NEW v, v = OnConnected(w)
    PROVE  Stepped(v)
<1>1. CASE resp.fits
  <2>1. v = Goes(w, "sending")
    BY <1>1 DEF OnConnected
  <2>2. PICK st \in {"connecting", "sending", "awaiting"} : st = "sending"
    OBVIOUS
  <2>3. Mid(v, FALSE) /\ v.ret = w.ret
    BY <2>1, <2>2, StageGood
  <2>q. QED BY <2>3 DEF Stepped
<1>2. CASE ~resp.fits
  <2>1. v = Returns(Goes(w, "error"), "fail")
    BY <1>2 DEF OnConnected
  <2>2. Mid(v, FALSE) /\ v.sess.st = "error"
    BY <2>1, BreaksGood
  <2>q. QED BY <2>2 DEF Stepped
<1>q. QED BY <1>1, <1>2

\* http_proxy_try_next_candidate(): a candidate is tried, or there is none left.
LEMMA TryNextGood ==
    ASSUME NEW w, Mid(w, FALSE), w.sess.st \in Early, w.ret # "fail",
           NEW v \in TryNextCandidate(w)
    PROVE  Mid(v, FALSE) /\ v.conn.headersSent = w.conn.headersSent
<1>1. w \in Calls /\ w.sess \in Sessions /\ w.up \in Upstreams
  BY DEF Mid, Calls
<1> DEFINE opened(k) == [w EXCEPT !.sess.cands = k, !.sess.open = TRUE, !.up.edge = FALSE]
           left == 0..(w.sess.cands - 1)
<1>2. \/ v = Exhausted(w)
      \/ \E k \in left : v = Goes(opened(k), "connecting")
      \/ \E k \in left : v = OnConnected([opened(k) EXCEPT !.up.edge = TRUE])
  BY DEF TryNextCandidate
<1>3. ASSUME v = Exhausted(w) PROVE Mid(v, FALSE) /\ v.conn = w.conn
  <2>1. PICK s : s = [w.sess EXCEPT !.cands = 0, !.open = FALSE]
    OBVIOUS
  <2>2. /\ s \in Sessions /\ s.st = w.sess.st /\ s.paused = w.sess.paused
        /\ s.rewrite = w.sess.rewrite /\ s.pos = w.sess.pos
    BY ONLY <1>1, <2>1 DEF Sessions
  <2>3. v = [w EXCEPT !.sess = s, !.ret = "fail"]
    BY <1>1, <1>3, <2>1 DEF Exhausted, Returns, Calls
  <2>4. /\ v \in Calls /\ v.sess = s /\ v.conn = w.conn /\ v.pool = w.pool
        /\ v.client = w.client /\ v.up = w.up /\ v.ret = "fail"
    BY ONLY <1>1, <2>2, <2>3 DEF Calls
  <2>q. QED BY <2>2, <2>4, TunedGood
<1>4. ASSUME NEW k \in left, NEW edge \in BOOLEAN,
             NEW o, o = [w EXCEPT !.sess.cands = k, !.sess.open = TRUE, !.up.edge = edge]
      PROVE  Mid(o, FALSE) /\ o.conn = w.conn /\ o.sess.st \in Early /\ o.ret # "fail"
  <2>1. k \in Nat
    BY <1>1 DEF Sessions
  <2>2. PICK s : s = [w.sess EXCEPT !.cands = k, !.open = TRUE]
    OBVIOUS
  <2>3. /\ s \in Sessions /\ s.st = w.sess.st /\ s.paused = w.sess.paused
        /\ s.rewrite = w.sess.rewrite /\ s.pos = w.sess.pos
    BY ONLY <1>1, <2>1, <2>2 DEF Sessions
  <2>4. PICK u : u = [w.up EXCEPT !.edge = edge]
    OBVIOUS
  <2>5. u \in Upstreams /\ u.got = w.up.got /\ u.sent = w.up.sent
    BY ONLY <1>1, <2>4, edge \in BOOLEAN DEF Upstreams
  <2>6. o = [w EXCEPT !.sess = s, !.up = u]
    BY <1>1, <1>4, <2>2, <2>4 DEF Calls
  <2>7. /\ o \in Calls /\ o.sess = s /\ o.conn = w.conn /\ o.pool = w.pool
        /\ o.client = w.client /\ o.up = u /\ o.ret = w.ret
    BY ONLY <1>1, <2>3, <2>5, <2>6 DEF Calls
  <2>8. Mid(o, FALSE)
    BY <2>3, <2>5, <2>7, TunedGood
  <2>q. QED BY <2>3, <2>7, <2>8
<1>5. ASSUME NEW k \in left, v = Goes(opened(k), "connecting")
      PROVE  Mid(v, FALSE) /\ v.conn = w.conn
  <2>1. PICK o : o = opened(k)
    OBVIOUS
  <2>2. PICK edge \in BOOLEAN : edge = FALSE
    OBVIOUS
  <2>3. Mid(o, FALSE) /\ o.conn = w.conn /\ o.sess.st \in Early /\ o.ret # "fail"
    BY <1>4, <2>1, <2>2
  <2>4. PICK st \in {"connecting", "sending", "awaiting"} : st = "connecting"
    OBVIOUS
  <2>5. v = Goes(o, st)
    BY <1>5, <2>1, <2>4
  <2>6. Mid(v, FALSE)
    BY <2>3, <2>5, StageGood
  <2>7. v.conn = o.conn
    <3>1. o \in Calls
      BY <2>3 DEF Mid
    <3>2. v = [o EXCEPT !.sess.st = st]
      BY <2>5 DEF Goes
    <3>q. QED BY <3>1, <3>2 DEF Calls
  <2>q. QED BY <2>3, <2>6, <2>7
<1>6. ASSUME NEW k \in left, v = OnConnected([opened(k) EXCEPT !.up.edge = TRUE])
      PROVE  Mid(v, FALSE) /\ v.conn = w.conn
  <2>1. PICK o : o = [opened(k) EXCEPT !.up.edge = TRUE]
    OBVIOUS
  <2>2. PICK edge \in BOOLEAN : edge = TRUE
    OBVIOUS
  <2>3. o = [w EXCEPT !.sess.cands = k, !.sess.open = TRUE, !.up.edge = edge]
    BY <1>1, <2>1, <2>2 DEF Calls, Upstreams
  <2>4. Mid(o, FALSE) /\ o.conn = w.conn /\ o.sess.st \in Early /\ o.ret # "fail"
    BY <1>4, <2>3
  <2>5. v = OnConnected(o)
    BY <1>6, <2>1
  <2>6. Stepped(v)
    BY <2>4, <2>5, OnConnectedGood
  <2>7. v.conn = o.conn
    <3>1. o \in Calls
      BY <2>4 DEF Mid
    <3>2. v = [o EXCEPT !.sess.st = "sending"]
          \/ v = [[o EXCEPT !.sess.st = "error"] EXCEPT !.ret = "fail"]
      BY <2>5 DEF OnConnected, Goes, Returns
    <3>q. QED BY <3>1, <3>2 DEF Calls
  <2>q. QED BY <2>4, <2>6, <2>7 DEF Stepped
<1>7. Mid(v, FALSE) /\ v.conn = w.conn
  BY <1>2, <1>3, <1>5, <1>6
<1>q. QED BY <1>7

\* http_proxy_try_send_pending().
LEMMA SendPendingGood ==
    ASSUME NEW w, Mid(w, FALSE), w.ret # "fail", NEW sent \in {"none", "all", "part", "fail"},
           NEW v, v = SendPending(w, sent)
    PROVE  Stepped(v)
<1>1. Stepped(w)
  BY DEF Stepped
<1>2. CASE w.sess.st # "sending" \/ sent = "none"
  <2>1. v = w
    BY <1>2 DEF SendPending
  <2>q. QED BY <1>1, <2>1
<1>3. CASE w.sess.st = "sending" /\ sent = "part"
  <2>1. v = w
    BY <1>3 DEF SendPending
  <2>q. QED BY <1>1, <2>1
<1>4. CASE w.sess.st = "sending" /\ sent = "all"
  <2>1. v = Goes(w, "awaiting")
    BY <1>4 DEF SendPending
  <2>2. PICK st \in {"connecting", "sending", "awaiting"} : st = "awaiting"
    OBVIOUS
  <2>3. w.sess.st \in Early
    BY <1>4 DEF Early
  <2>4. Mid(v, FALSE) /\ v.ret = w.ret
    BY <2>1, <2>2, <2>3, StageGood
  <2>q. QED BY <2>4 DEF Stepped
<1>5. CASE w.sess.st = "sending" /\ sent = "fail"
  <2>1. v = Returns(Goes(w, "error"), "fail")
    BY <1>5 DEF SendPending
  <2>2. Mid(v, FALSE) /\ v.sess.st = "error"
    BY <2>1, BreaksGood
  <2>q. QED BY <2>2 DEF Stepped
<1>q. QED BY <1>2, <1>3, <1>4, <1>5

\* What a failure of receiving makes of the session.
LEMMA OutcomeGood ==
    ASSUME NEW r, Mid(r, FALSE),
           NEW v, v = IF r.ret = "fail" THEN Goes(r, "error") ELSE Returns(r, "progress")
    PROVE  Stepped(v)
<1>1. CASE r.ret = "fail"
  <2>1. v = Goes(r, "error")
    BY <1>1
  <2>2. Mid(v, FALSE) /\ v.sess.st = "error"
    BY <2>1, ErrorGood
  <2>q. QED BY <2>2 DEF Stepped
<1>2. CASE r.ret # "fail"
  <2>1. PICK p \in {"progress", "nothing", "fail"} : p = "progress"
    OBVIOUS
  <2>2. v = Returns(r, p)
    BY <1>2, <2>1
  <2>3. /\ v \in Calls /\ v.conn = r.conn /\ v.pool = r.pool /\ v.up = r.up
        /\ v.client = r.client /\ v.sess = r.sess /\ v.ret = "progress"
    <3>1. r \in Calls
      BY DEF Mid
    <3>q. QED BY <2>1, <2>2, <3>1, ReturnsGives
  <2>4. Mid(v, FALSE)
    BY <1>2, <2>3, TunedGood
  <2>q. QED BY <2>3, <2>4 DEF Stepped
<1>q. QED BY <1>1, <1>2

\* Input is received.
LEMMA ReceiveEventGood ==
    ASSUME NEW w, Stepped(w), NEW v, v = ReceiveEvent(w)
    PROVE  Stepped(v)
<1>1. CASE w.ret = "fail" \/ (Available(w) = 0 /\ w.up.fin = "open")
  <2>1. v = w
    BY <1>1 DEF ReceiveEvent
  <2>q. QED BY <2>1
<1>2. CASE ~(w.ret = "fail" \/ (Available(w) = 0 /\ w.up.fin = "open"))
  <2>1. PICK r : r = ReceiveAll(w)
    OBVIOUS
  <2>2. Mid(r, FALSE)
    BY <1>2, <2>1, ReceiveAllGood DEF Stepped
  <2>3. v = IF r.ret = "fail" THEN Goes(r, "error") ELSE Returns(r, "progress")
    BY <1>2, <2>1 DEF ReceiveEvent, With
  <2>q. QED BY <2>2, <2>3, OutcomeGood
<1>q. QED BY <1>1, <1>2

\* The connection was reset.
LEMMA ErrorEventGood ==
    ASSUME NEW w, Stepped(w), NEW v, v = ErrorEvent(w)
    PROVE  Stepped(v)
<1>1. CASE w.ret = "fail" \/ w.up.fin # "reset" \/ w.sess.st = "complete"
  <2>1. v = w
    BY <1>1 DEF ErrorEvent
  <2>q. QED BY <2>1
<1>2. CASE ~(w.ret = "fail" \/ w.up.fin # "reset" \/ w.sess.st = "complete")
  <2>1. PICK r : r = IF w.sess.st = "streaming" THEN UpstreamEnd(w) ELSE Returns(w, "fail")
    OBVIOUS
  <2>2. Mid(r, FALSE)
    <3>1. CASE w.sess.st = "streaming"
      <4>1. r = UpstreamEnd(w)
        BY <2>1, <3>1
      <4>2. Received(w, UpstreamEnd(w), FALSE)
        BY <1>2, <3>1, NoInputGood DEF Stepped
      <4>q. QED BY <4>1, <4>2 DEF Received
    <3>2. CASE w.sess.st # "streaming"
      <4>1. PICK p \in {"progress", "nothing", "fail"} : p = "fail"
        OBVIOUS
      <4>2. r = Returns(w, p)
        BY <2>1, <3>2, <4>1
      <4>3. /\ r \in Calls /\ r.conn = w.conn /\ r.pool = w.pool /\ r.up = w.up
            /\ r.client = w.client /\ r.sess = w.sess /\ r.ret = "fail"
        <5>1. w \in Calls
          BY DEF Stepped, Mid
        <5>q. QED BY <4>1, <4>2, <5>1, ReturnsGives
      <4>q. QED BY <4>3, TunedGood DEF Stepped
    <3>q. QED BY <3>1, <3>2
  <2>3. v = IF r.ret = "fail" THEN Goes(r, "error") ELSE Returns(r, "progress")
    BY <1>2, <2>1 DEF ErrorEvent, With
  <2>q. QED BY <2>2, <2>3, OutcomeGood
<1>q. QED BY <1>1, <1>2

\* The worker sees how it went.
LEMMA EndEventGood ==
    ASSUME NEW w, Stepped(w)
    PROVE  Settled(EndEvent(w), FALSE)
<1>1. CASE w.ret = "fail"
  <2>1. EndEvent(w) = EventFailed(w)
    BY <1>1 DEF EndEvent
  <2>2. Settled(EventFailed(w), FALSE)
    BY <1>1, FailedGood DEF Stepped
  <2>q. QED BY <2>1, <2>2
<1>2. CASE w.ret # "fail" /\ w.sess.st = "complete"
  <2>1. PICK v : v = BeginDrainClose([w EXCEPT !.sess.open = FALSE])
    OBVIOUS
  <2>2. EndEvent(w) = v
    BY <1>2, <2>1 DEF EndEvent
  <2>3. Mid(w, FALSE) /\ Young(w)
    BY <1>2 DEF Stepped, Mid
  <2>4. Settled(v, FALSE)
    BY <1>2, <2>1, <2>3, BeginDrainCloseGood
  <2>q. QED BY <2>2, <2>4
<1>3. CASE w.ret # "fail" /\ w.sess.st # "complete"
  <2>1. EndEvent(w) = w
    BY <1>3 DEF EndEvent
  <2>2. Mid(w, FALSE) /\ Young(w)
    BY <1>3 DEF Stepped, Mid
  <2>3. Settled(w, FALSE)
    BY <1>3, <2>2, MidSettles
  <2>q. QED BY <2>1, <2>3
<1>q. QED BY <1>1, <1>2, <1>3

\* http_proxy_handle_socket_event() and the worker around it.
LEMMA HandleEventGood ==
    ASSUME NEW w, Mid(w, FALSE), w.ret # "fail", NEW sent \in {"none", "all", "part", "fail"}
    PROVE  Settled(HandleEvent(w, sent), FALSE)
<1>1. PICK a : a = SendPending(w, sent)
  OBVIOUS
<1>2. PICK b : b = ReceiveEvent(a)
  OBVIOUS
<1>3. PICK c : c = ErrorEvent(b)
  OBVIOUS
<1>4. Stepped(a)
  BY <1>1, SendPendingGood
<1>5. Stepped(b)
  BY <1>2, <1>4, ReceiveEventGood
<1>6. Stepped(c)
  BY <1>3, <1>5, ErrorEventGood
<1>7. HandleEvent(w, sent) = EndEvent(c)
  BY <1>1, <1>2, <1>3 DEF HandleEvent, With
<1>8. Settled(EndEvent(c), FALSE)
  BY <1>6, EndEventGood
<1>q. QED BY <1>7, <1>8

-----------------------------------------------------------------------------
(* The steps. *)

\* The connection is in order between the steps of the worker.
IInv == Settled(Now, FALSE)

\* The call a step starts from.
LEMMA NowIs ==
    ASSUME IInv
    PROVE  /\ Now \in Calls /\ Now.conn = conn /\ Now.pool = pool /\ Now.sess = sess /\ Now.up = up
           /\ Now.client = client /\ Now.ret = "progress"
           /\ conn \in Conns /\ pool \in Pools /\ sess \in Sessions /\ up \in Upstreams
           /\ client \in Clients
           /\ conn.state # "closed" => Mid(Now, FALSE)
           /\ sess.open \/ conn.armed \/ conn.scheduled => conn.state # "closed"
<1>1. Now.conn = conn /\ Now.pool = pool /\ Now.sess = sess /\ Now.up = up
      /\ Now.client = client /\ Now.ret = "progress"
  BY DEF Now
<1>2. Now \in Calls /\ Settled(Now, FALSE)
  BY DEF IInv, Settled
<1>3. conn.state # "closed" => Mid(Now, FALSE)
  BY <1>1, <1>2, MidBegins
<1>4. conn \in Conns /\ pool \in Pools /\ sess \in Sessions /\ up \in Upstreams /\ client \in Clients
  BY <1>1, <1>2 DEF Calls
<1>5. sess.open \/ conn.armed \/ conn.scheduled => conn.state # "closed"
  BY <1>1, <1>2 DEF Settled, Shut
<1>q. QED BY <1>1, <1>2, <1>3, <1>4, <1>5

\* What a step leaves is what the next one starts from.
LEMMA BecomesGood ==
    ASSUME NEW w, Settled(w, FALSE), Becomes(w)
    PROVE  IInv'
<1> DEFINE n == [conn |-> w.conn, pool |-> w.pool, sess |-> w.sess, up |-> w.up,
                 client |-> w.client, ret |-> "progress"]
<1>1. w \in Calls
  BY DEF Settled
<1>2. /\ n \in Calls /\ n.conn = w.conn /\ n.pool = w.pool /\ n.sess = w.sess /\ n.up = w.up
      /\ n.client = w.client
  BY <1>1 DEF Calls
<1>3. Now' = n
  BY DEF Becomes, Now
<1> HIDE DEF n
<1>4. KindsOf(n) = KindsOf(w)
  BY <1>2 DEF KindsOf
<1>5. Single(n) /\ Course(n) /\ Young(n) /\ Shut(n)
  BY <1>2, <1>4 DEF Settled, Single, Course, Young, Shut
<1>6. ~n.conn.headersSent /\ n.conn.state # "closed" => Untouched(n)
  BY <1>2 DEF Settled, Untouched
<1>7. Waking(n, FALSE)
  BY <1>2 DEF Settled, Waking, Aligned, Lazy, Pause
<1>8. Settled(n, FALSE)
  BY <1>2, <1>5, <1>6, <1>7 DEF Settled
<1>q. QED BY <1>3, <1>8 DEF IInv

\* The surroundings change what the connection's order says nothing of.
LEMMA SettledSame ==
    ASSUME NEW w, Settled(w, FALSE), NEW v \in Calls,
           v.conn.state = w.conn.state, v.conn.queue = w.conn.queue, v.conn.armed = w.conn.armed,
           v.conn.scheduled = w.conn.scheduled, v.conn.headersSent = w.conn.headersSent,
           v.conn.slow = w.conn.slow, w.conn.since = "none" => v.conn.since = "none",
           v.sess = w.sess, v.up.got = w.up.got, v.up.sent = w.up.sent,
           v.client.seen = w.client.seen
    PROVE  Settled(v, FALSE)
<1>1. KindsOf(v) = KindsOf(w)
  BY DEF KindsOf
<1>2. Single(v)
  BY <1>1 DEF Settled, Single
<1>3. Course(v) /\ Young(v)
  BY DEF Settled, Course, Young
<1>4. Shut(v)
  BY DEF Settled, Shut
<1>5. ~v.conn.headersSent /\ v.conn.state # "closed" => Untouched(v)
  BY DEF Settled, Untouched
<1>6. Waking(v, FALSE)
  BY DEF Settled, Waking, Aligned, Lazy, Pause, Idle
<1>q. QED BY <1>2, <1>3, <1>4, <1>5, <1>6 DEF Settled

\* The session begins.
LEMMA ConnectGood ==
    ASSUME IInv, Connect
    PROVE  IInv'
<1>1. Mid(Now, FALSE) /\ Now.sess.st = "init" /\ Now.ret # "fail" /\ ~Now.conn.headersSent
  <2>1. Mid(Now, FALSE) /\ Now.sess.st = "init" /\ Now.ret # "fail"
    BY NowIs DEF Connect
  <2>q. QED BY <2>1 DEF Mid, Course
<1>2. PICK n : n = Now
  OBVIOUS
<1>3. PICK w \in TryNextCandidate(n) : Becomes(IF w.ret = "fail" THEN NotStarted(w) ELSE w)
  BY <1>2 DEF Connect
<1>4. Mid(w, FALSE) /\ ~w.conn.headersSent
  BY <1>1, <1>2, <1>3, TryNextGood DEF Early
<1>5. CASE w.ret = "fail"
  <2>1. Settled(NotStarted(w), FALSE)
    BY <1>4, NotStartedGood
  <2>2. Becomes(NotStarted(w))
    BY <1>3, <1>5
  <2>q. QED BY <2>1, <2>2, BecomesGood
<1>6. CASE w.ret # "fail"
  <2>1. Settled(w, FALSE)
    BY <1>4, <1>6, MidSettles DEF Mid
  <2>2. Becomes(w)
    BY <1>3, <1>6
  <2>q. QED BY <2>1, <2>2, BecomesGood
<1>q. QED BY <1>5, <1>6

\* The socket of an attempt is closed, and another one is made.
LEMMA RetryGood ==
    ASSUME IInv, conn.state # "closed", sess.st \in Early,
           NEW w \in TryNextCandidate([Now EXCEPT !.sess.open = FALSE])
    PROVE  /\ w.ret # "fail" => Settled(w, FALSE)
           /\ Settled(EventFailed(Goes(w, "error")), FALSE) /\ Settled(TickFailed(Goes(w, "error")), FALSE)
<1>1. PICK n : n = Now
  OBVIOUS
<1>2. n \in Calls /\ Mid(n, FALSE) /\ n.sess \in Sessions /\ n.sess.st \in Early /\ n.ret = "progress"
  BY <1>1, NowIs
<1>3. PICK s : s = [n.sess EXCEPT !.open = FALSE]
  OBVIOUS
<1>4. /\ s \in Sessions /\ s.st = n.sess.st /\ s.paused = n.sess.paused
      /\ s.rewrite = n.sess.rewrite /\ s.pos = n.sess.pos
  BY ONLY <1>2, <1>3 DEF Sessions
<1>5. PICK u : u = [n EXCEPT !.sess = s]
  OBVIOUS
<1>6. /\ u \in Calls /\ u.sess = s /\ u.conn = n.conn /\ u.pool = n.pool /\ u.client = n.client
      /\ u.up = n.up /\ u.ret = n.ret
  BY ONLY <1>2, <1>4, <1>5 DEF Calls
<1>7. Mid(u, FALSE)
  BY <1>2, <1>4, <1>6, TunedGood
<1>8. w \in TryNextCandidate(u)
  <2>1. u = [n EXCEPT !.sess.open = FALSE]
    BY <1>2, <1>3, <1>5 DEF Calls
  <2>q. QED BY <1>1, <2>1
<1>9. Mid(w, FALSE)
  BY <1>2, <1>4, <1>6, <1>7, <1>8, TryNextGood
<1>10. w.ret # "fail" => Settled(w, FALSE)
  BY <1>9, MidSettles DEF Mid
<1>11. PICK e : e = Goes(w, "error")
  OBVIOUS
<1>12. Mid(e, FALSE) /\ e.sess.st = "error"
  BY <1>9, <1>11, ErrorGood
<1>13. Settled(EventFailed(e), FALSE) /\ Settled(TickFailed(e), FALSE)
  BY <1>12, FailedGood
<1>q. QED BY <1>10, <1>11, <1>13

\* The next address that fails too, or the last one's 503.
LEMMA ConnectFailsGood ==
    ASSUME IInv, ConnectFails
    PROVE  IInv'
<1>1. conn.state # "closed" /\ sess.st \in Early
  BY NowIs DEF ConnectFails, Early
<1>2. PICK w \in TryNextCandidate([Now EXCEPT !.sess.open = FALSE]) :
          Becomes(IF w.ret = "fail" THEN EventFailed(Goes(w, "error")) ELSE w)
  BY DEF ConnectFails
<1>3. /\ w.ret # "fail" => Settled(w, FALSE)
      /\ Settled(EventFailed(Goes(w, "error")), FALSE)
  BY <1>1, <1>2, RetryGood
<1>4. CASE w.ret = "fail"
  <2>1. Becomes(EventFailed(Goes(w, "error")))
    BY <1>2, <1>4
  <2>q. QED BY <1>3, <2>1, BecomesGood
<1>5. CASE w.ret # "fail"
  <2>1. Becomes(w)
    BY <1>2, <1>5
  <2>q. QED BY <1>3, <1>5, <2>1, BecomesGood
<1>q. QED BY <1>4, <1>5

\* The session is given up when it has waited too long.
LEMMA TimeoutGood ==
    ASSUME IInv, Timeout
    PROVE  IInv'
<1>1. conn.state # "closed" /\ sess.st \in Early
  BY DEF Timeout, Early
<1>2. CASE sess.st = "connecting" /\ sess.cands > 0
  <2>1. PICK w \in TryNextCandidate([Now EXCEPT !.sess.open = FALSE]) :
            Becomes(IF w.ret = "fail" THEN TickFailed(Goes(w, "error")) ELSE w)
    BY <1>2 DEF Timeout
  <2>2. /\ w.ret # "fail" => Settled(w, FALSE)
        /\ Settled(TickFailed(Goes(w, "error")), FALSE)
    BY <1>1, <2>1, RetryGood
  <2>3. CASE w.ret = "fail"
    <3>1. Becomes(TickFailed(Goes(w, "error")))
      BY <2>1, <2>3
    <3>q. QED BY <2>2, <3>1, BecomesGood
  <2>4. CASE w.ret # "fail"
    <3>1. Becomes(w)
      BY <2>1, <2>4
    <3>q. QED BY <2>2, <2>4, <3>1, BecomesGood
  <2>q. QED BY <2>3, <2>4
<1>3. CASE ~(sess.st = "connecting" /\ sess.cands > 0)
  <2>1. Becomes(TickFailed(Goes(Now, "error")))
    BY <1>3 DEF Timeout
  <2>2. PICK n : n = Now
    OBVIOUS
  <2>3. Mid(n, FALSE)
    BY <1>1, <2>2, NowIs
  <2>4. PICK e : e = Goes(n, "error")
    OBVIOUS
  <2>5. Mid(e, FALSE) /\ e.sess.st = "error"
    BY <2>3, <2>4, ErrorGood
  <2>6. Settled(TickFailed(e), FALSE)
    BY <2>5, FailedGood
  <2>7. Becomes(TickFailed(e))
    BY <2>1, <2>2, <2>4
  <2>q. QED BY <2>6, <2>7, BecomesGood
<1>q. QED BY <1>2, <1>3

\* An event has been reported.
LEMMA ReportedGood ==
    ASSUME IInv, sess.open
    PROVE  Mid(Reported, FALSE) /\ Reported.ret = "progress" /\ Reported.sess = sess
<1>1. PICK n : n = Now
  OBVIOUS
<1>2. n \in Calls /\ Mid(n, FALSE) /\ n.up \in Upstreams /\ n.sess = sess /\ n.ret = "progress"
  BY <1>1, NowIs
<1>3. PICK u : u = [n.up EXCEPT !.edge = FALSE]
  OBVIOUS
<1>4. u \in Upstreams /\ u.got = n.up.got /\ u.sent = n.up.sent
  BY ONLY <1>2, <1>3 DEF Upstreams
<1>5. PICK r : r = [n EXCEPT !.up = u]
  OBVIOUS
<1>6. /\ r \in Calls /\ r.sess = n.sess /\ r.conn = n.conn /\ r.pool = n.pool /\ r.client = n.client
      /\ r.up = u /\ r.ret = n.ret
  BY ONLY <1>2, <1>4, <1>5 DEF Calls
<1>7. Mid(r, FALSE)
  BY <1>2, <1>4, <1>6, TunedGood
<1>8. Reported = r
  BY <1>1, <1>2, <1>3, <1>5 DEF Reported, Calls
<1>q. QED BY <1>2, <1>6, <1>7, <1>8

\* The connection to the server is there.
LEMMA ConnectedGood ==
    ASSUME IInv, Connected
    PROVE  IInv'
<1>1. PICK r : r = Reported
  OBVIOUS
<1>2. PICK sent \in {"all", "part", "fail"} :
          LET w == OnConnected(r)
          IN  Becomes(IF w.ret = "fail" THEN EventFailed(w) ELSE HandleEvent(w, sent))
  BY <1>1 DEF Connected
<1>3. PICK w : w = OnConnected(r)
  OBVIOUS
<1>4. Mid(r, FALSE) /\ r.ret # "fail" /\ r.sess.st \in Early
  BY <1>1, ReportedGood DEF Connected, Early
<1>5. Stepped(w)
  BY <1>3, <1>4, OnConnectedGood
<1>6. CASE w.ret = "fail"
  <2>1. Becomes(EventFailed(w))
    BY <1>2, <1>3, <1>6
  <2>2. Settled(EventFailed(w), FALSE)
    BY <1>5, <1>6, FailedGood DEF Stepped
  <2>q. QED BY <2>1, <2>2, BecomesGood
<1>7. CASE w.ret # "fail"
  <2>1. Becomes(HandleEvent(w, sent))
    BY <1>2, <1>3, <1>7
  <2>2. Settled(HandleEvent(w, sent), FALSE)
    <3>1. sent \in {"none", "all", "part", "fail"} /\ Mid(w, FALSE)
      BY <1>5 DEF Stepped
    <3>q. QED BY <1>7, <3>1, HandleEventGood
  <2>q. QED BY <2>1, <2>2, BecomesGood
<1>q. QED BY <1>6, <1>7

\* What arrived at the server's socket leaves the connection in order.
LEMMA SocketEventGood ==
    ASSUME IInv, SocketEvent
    PROVE  IInv'
<1>1. PICK r : r = Reported
  OBVIOUS
<1>2. PICK sent \in {"none", "all", "part", "fail"} : Becomes(HandleEvent(r, sent))
  BY <1>1 DEF SocketEvent
<1>3. Mid(r, FALSE) /\ r.ret # "fail"
  BY <1>1, ReportedGood DEF SocketEvent
<1>4. Settled(HandleEvent(r, sent), FALSE)
  BY <1>3, HandleEventGood
<1>q. QED BY <1>2, <1>4, BecomesGood

\* The client is written to.
LEMMA DrainWritesGood ==
    ASSUME IInv, DrainWrites
    PROVE  IInv'
<1>1. PICK n : n = Now
  OBVIOUS
<1>2. Settled(n, FALSE) /\ n.conn.scheduled /\ n.ret = "progress"
  BY <1>1, NowIs DEF IInv, DrainWrites
<1>3. PICK u : u = [n EXCEPT !.conn.scheduled = FALSE]
  OBVIOUS
<1>4. Settled(HandleWrite(u), FALSE)
  BY <1>2, <1>3, HandleWriteGood
<1>5. Becomes(HandleWrite(u))
  BY <1>1, <1>3 DEF DrainWrites
<1>q. QED BY <1>4, <1>5, BecomesGood

\* There is room in the client's socket again.
LEMMA ClientWritableGood ==
    ASSUME IInv, ClientWritable
    PROVE  IInv'
<1>1. PICK n : n = Now
  OBVIOUS
<1>2. /\ n \in Calls /\ Settled(n, FALSE) /\ n.conn.state # "closed" /\ n.conn \in Conns
  BY <1>1, NowIs DEF IInv, ClientWritable
<1>3. PICK c : c = [n.conn EXCEPT !.scheduled = TRUE]
  OBVIOUS
<1>4. Told(n.conn, c)
  BY <1>2, <1>3 DEF Told, Kept, Idle, Conns
<1>5. PICK v : v = [n EXCEPT !.conn = c]
  OBVIOUS
<1>6. Settled(v, FALSE)
  BY <1>2, <1>4, <1>5, ToldGood
<1>7. v = [n EXCEPT !.conn.scheduled = TRUE]
  BY <1>2, <1>3, <1>5 DEF Calls
<1>8. Becomes(v)
  BY <1>1, <1>7 DEF ClientWritable
<1>q. QED BY <1>6, <1>8, BecomesGood

\* The client leaves.
LEMMA ClientLeavesGood ==
    ASSUME IInv, ClientLeaves
    PROVE  IInv'
<1>1. PICK n : n = Now
  OBVIOUS
<1>2. /\ n \in Calls /\ Single(n) /\ Course(n) /\ Young(n) /\ (Fills => Aligned(n))
  BY <1>1 DEF IInv, Settled, Waking
<1>3. PICK end \in Ends : end = "left"
  BY DEF Ends
<1>4. Settled(Close(n, end), FALSE)
  BY <1>2, CloseGood
<1>5. Becomes(Close(n, end))
  BY <1>1, <1>3 DEF ClientLeaves
<1>q. QED BY <1>4, <1>5, BecomesGood

\* The client reads.
LEMMA ClientReadsGood ==
    ASSUME IInv, ClientReads
    PROVE  IInv'
<1>1. PICK n : n = Now
  OBVIOUS
<1>2. n \in Calls /\ Settled(n, FALSE) /\ n.client \in Clients
  BY <1>1, NowIs DEF IInv
<1>3. PICK l : l = [n.client EXCEPT !.room = ClientRoom]
  OBVIOUS
<1>4. ClientRoom \in Nat
  BY Heads
<1>5. l \in Clients /\ l.seen = n.client.seen
  BY ONLY <1>2, <1>3, <1>4 DEF Clients
<1>6. PICK v : v = [n EXCEPT !.client = l]
  OBVIOUS
<1>7. /\ v \in Calls /\ v.sess = n.sess /\ v.conn = n.conn /\ v.pool = n.pool /\ v.client = l
      /\ v.up = n.up
  BY ONLY <1>2, <1>5, <1>6 DEF Calls
<1>8. Settled(v, FALSE)
  BY <1>2, <1>5, <1>7, SettledSame
<1>9. v = [n EXCEPT !.client.room = ClientRoom]
  BY <1>2, <1>3, <1>6 DEF Calls
<1>10. Becomes(v)
  BY <1>1, <1>9 DEF ClientReads
<1>q. QED BY <1>8, <1>10, BecomesGood

\* Whole buffers after whole buffers.
LEMMA WholeSum ==
    ASSUME NEW a \in Nat, NEW b \in Nat, Whole(a), Whole(b)
    PROVE  Whole(a + b)
<1>1. PICK k \in Nat : a = BufferUnits * k
  BY DEF Whole
<1>2. PICK m \in Nat : b = BufferUnits * m
  BY DEF Whole
<1>3. a + b = BufferUnits * (k + m) /\ k + m \in Nat
  BY <1>1, <1>2, Sizes
<1>q. QED BY <1>3 DEF Whole

\* The server answers.
LEMMA UpstreamSendsGood ==
    ASSUME IInv, UpstreamSends
    PROVE  IInv'
<1>1. PICK n : n = Now
  OBVIOUS
<1>2. /\ n \in Calls /\ Settled(n, FALSE) /\ n.up \in Upstreams /\ n.conn.state # "closed"
      /\ n.up.sent = up.sent
  BY <1>1, NowIs DEF IInv, UpstreamSends
<1>3. PICK k \in (IF up.sent < HeadUnits THEN 1..(HeadUnits - up.sent) ELSE Segments) :
          Becomes([n EXCEPT !.up.sent = @ + k, !.up.edge = TRUE])
  BY <1>1 DEF UpstreamSends
<1>4. n.up.sent \in Nat /\ n.up.got \in Nat /\ HeadUnits \in Nat
  BY <1>2, Heads DEF Upstreams
<1>5. k \in Nat
  <2>1. CASE up.sent < HeadUnits
    BY <1>3, <2>1
  <2>2. CASE ~(up.sent < HeadUnits)
    BY <1>3, <2>2, Heads
  <2>q. QED BY <2>1, <2>2
<1>6. PICK m \in Nat : m = n.up.sent + k
  BY <1>4, <1>5
<1>7. PICK u : u = [n.up EXCEPT !.sent = m, !.edge = TRUE]
  OBVIOUS
<1>8. u \in Upstreams /\ u.sent = m /\ u.got = n.up.got
  BY ONLY <1>2, <1>7, m \in Nat DEF Upstreams
<1>9. PICK v : v = [n EXCEPT !.up = u]
  OBVIOUS
<1>10. /\ v \in Calls /\ v.sess = n.sess /\ v.conn = n.conn /\ v.pool = n.pool /\ v.client = n.client
       /\ v.up = u
  BY ONLY <1>2, <1>8, <1>9 DEF Calls
<1>11. Becomes(v)
  <2>1. v = [n EXCEPT !.up.sent = @ + k, !.up.edge = TRUE]
    BY <1>2, <1>6, <1>7, <1>9 DEF Calls
  <2>q. QED BY <1>3, <2>1
<1>12. Fills => Aligned(v)
  <2>1. SUFFICES ASSUME Fills PROVE Aligned(v)
    OBVIOUS
  <2>2. Aligned(n)
    BY <1>2, <2>1 DEF Settled, Waking
  <2>3. ASSUME m > HeadUnits PROVE Whole(m - HeadUnits)
    <3>1. ~(n.up.sent < HeadUnits)
      <4>1. ASSUME n.up.sent < HeadUnits PROVE FALSE
        <5>1. k \in 1..(HeadUnits - n.up.sent)
          BY <1>2, <1>3, <4>1
        <5>2. n.up.sent + k <= HeadUnits
          BY <1>4, <5>1
        <5>q. QED BY <1>4, <1>6, <2>3, <5>2
      <4>q. QED BY <4>1
    <3>2. k \in Segments
      BY <1>2, <1>3, <3>1
    <3>3. k % BufferUnits = 0
      BY <2>1, <3>2 DEF Fills
    <3>4. Whole(k)
      BY <1>5, <3>3, WholeIs
    <3>5. CASE n.up.sent = HeadUnits
      <4>1. m - HeadUnits = k
        BY <1>4, <1>5, <1>6, <3>5
      <4>q. QED BY <3>4, <4>1
    <3>6. CASE n.up.sent # HeadUnits
      <4>1. n.up.sent > HeadUnits
        BY <1>4, <3>1, <3>6
      <4>2. PICK a \in Nat : a = n.up.sent - HeadUnits
        BY <1>4, <4>1
      <4>3. Whole(a)
        BY <2>2, <4>1, <4>2 DEF Aligned
      <4>4. Whole(a + k)
        BY <1>5, <3>4, <4>3, WholeSum
      <4>5. m - HeadUnits = a + k
        BY <1>4, <1>5, <1>6, <4>2
      <4>q. QED BY <4>4, <4>5
    <3>q. QED BY <3>5, <3>6
  <2>q. QED BY <1>8, <1>10, <2>2, <2>3 DEF Aligned
<1>13. Settled(v, FALSE)
  <2>1. KindsOf(v) = KindsOf(n)
    BY <1>10 DEF KindsOf
  <2>2. Single(v)
    BY <1>2, <1>10, <2>1 DEF Settled, Single
  <2>3. n.up.got <= m
    <3>1. n.up.got <= n.up.sent
      BY <1>2 DEF Settled, Course
    <3>q. QED BY <1>4, <1>5, <1>6, <3>1
  <2>4. Course(v)
    BY <1>2, <1>8, <1>10, <2>3 DEF Settled, Course
  <2>5. Young(v)
    BY <1>2, <1>8, <1>10 DEF Settled, Young
  <2>6. Shut(v)
    BY <1>2, <1>10 DEF Shut
  <2>7. ~v.conn.headersSent => Untouched(v)
    BY <1>2, <1>10 DEF Settled, Untouched
  <2>8. Waking(v, FALSE)
    BY <1>2, <1>10, <1>12 DEF Settled, Waking, Lazy, Pause
  <2>q. QED BY <1>10, <2>2, <2>4, <2>5, <2>6, <2>7, <2>8 DEF Settled
<1>q. QED BY <1>11, <1>13, BecomesGood

\* The upstream socket has something to report.
LEMMA EdgeGood ==
    ASSUME IInv, NEW fin \in {"open", "eof", "reset"},
           NEW v, v = [Now EXCEPT !.up = [up EXCEPT !.fin = fin, !.edge = TRUE]]
    PROVE  Settled(v, FALSE)
<1>1. PICK n : n = Now
  OBVIOUS
<1>2. n \in Calls /\ Settled(n, FALSE) /\ n.up \in Upstreams /\ n.up = up
  BY <1>1, NowIs DEF IInv
<1>3. PICK u : u = [n.up EXCEPT !.fin = fin, !.edge = TRUE]
  OBVIOUS
<1>4. u \in Upstreams /\ u.sent = n.up.sent /\ u.got = n.up.got
  BY ONLY <1>2, <1>3, fin \in {"open", "eof", "reset"} DEF Upstreams
<1>5. v = [n EXCEPT !.up = u]
  BY <1>1, <1>2, <1>3
<1>6. /\ v \in Calls /\ v.sess = n.sess /\ v.conn = n.conn /\ v.pool = n.pool /\ v.client = n.client
      /\ v.up = u
  BY ONLY <1>2, <1>4, <1>5 DEF Calls
<1>q. QED BY <1>2, <1>4, <1>6, SettledSame

\* A server that stops or resets leaves the connection in order.
LEMMA UpstreamEndsGood ==
    ASSUME IInv, UpstreamEnds
    PROVE  IInv'
<1>1. PICK fin \in {"open", "eof", "reset"} : Becomes([Now EXCEPT !.up.fin = fin, !.up.edge = TRUE])
  BY DEF UpstreamEnds
<1>2. PICK v : v = [Now EXCEPT !.up = [up EXCEPT !.fin = fin, !.edge = TRUE]]
  OBVIOUS
<1>3. Settled(v, FALSE)
  BY <1>2, EdgeGood
<1>4. v = [Now EXCEPT !.up.fin = fin, !.up.edge = TRUE]
  BY <1>2, NowIs DEF Calls, Upstreams
<1>q. QED BY <1>1, <1>3, <1>4, BecomesGood

\* So does one that takes what was written to it.
LEMMA UpstreamTakesGood ==
    ASSUME IInv, UpstreamTakes
    PROVE  IInv'
<1>1. PICK fin \in {"open", "eof", "reset"} : fin = up.fin
  BY NowIs DEF Upstreams
<1>2. PICK v : v = [Now EXCEPT !.up = [up EXCEPT !.fin = fin, !.edge = TRUE]]
  OBVIOUS
<1>3. Settled(v, FALSE)
  BY <1>2, EdgeGood
<1>4. v = [Now EXCEPT !.up.edge = TRUE]
  BY <1>1, <1>2, NowIs DEF Calls, Upstreams
<1>5. Becomes(v)
  BY <1>4 DEF UpstreamTakes
<1>q. QED BY <1>3, <1>5, BecomesGood

\* The pool changes.
LEMMA PoolSettled ==
    ASSUME IInv, NEW p \in Pools, NEW v, v = [Now EXCEPT !.pool = p]
    PROVE  Settled(v, FALSE)
<1>1. PICK n : n = Now
  OBVIOUS
<1>2. n \in Calls /\ Settled(n, FALSE)
  BY <1>1, NowIs DEF IInv
<1>3. v = [n EXCEPT !.pool = p]
  BY <1>1
<1>4. /\ v \in Calls /\ v.sess = n.sess /\ v.conn = n.conn /\ v.client = n.client /\ v.up = n.up
  BY ONLY <1>2, <1>3, p \in Pools DEF Calls
<1>q. QED BY <1>2, <1>4, SettledSame

\* The other connections take buffers and give them back.
LEMMA OthersGood ==
    ASSUME IInv, OthersTake \/ OthersReturn
    PROVE  IInv'
<1>1. pool \in Pools /\ pool.free \in Nat /\ pool.num \in Nat /\ Len(conn.queue) \in Nat
      /\ Now.pool = pool
  <2>1. conn.queue \in Seq(BufferType)
    BY NowIs DEF Conns
  <2>q. QED BY <2>1, NowIs, LenProperties, Sizes DEF Pools
<1>2. PICK o \in Int : o = Others
  BY <1>1 DEF Others
<1>3. CASE OthersTake
  <2>1. PICK p : p = IF pool.free > 0 THEN pool ELSE Expanded(pool)
    OBVIOUS
  <2>2. p \in Pools
    BY <1>1, <2>1, ExpandedOnce
  <2>3. PICK m \in Nat : m = OthersMax - o
    BY <1>2, <1>3, Heads DEF OthersTake
  <2>4. p.free \in Nat
    BY <2>2 DEF Pools
  <2>5. Min({p.free, m}) = IF p.free <= m THEN p.free ELSE m
    BY <2>4, MinOfTwo
  <2>6. PICK f \in Nat : f = p.free - Min({p.free, m})
    <3>1. p.free - Min({p.free, m}) \in Nat
      BY <2>4, <2>5
    <3>q. QED BY <3>1
  <2>7. PICK r \in Pools : r = [p EXCEPT !.free = f]
    BY <2>2 DEF Pools
  <2>8. Becomes([Now EXCEPT !.pool = r])
    <3>1. r = [p EXCEPT !.free = @ - Min({@, OthersMax - Others})]
      BY <1>2, <2>3, <2>6, <2>7
    <3>2. Becomes([Now EXCEPT !.pool = [p EXCEPT !.free = @ - Min({@, OthersMax - Others})]])
      BY <1>3, <2>1 DEF OthersTake
    <3>q. QED BY <3>1, <3>2
  <2>9. PICK v : v = [Now EXCEPT !.pool = r]
    OBVIOUS
  <2>10. Settled(v, FALSE)
    BY <2>9, PoolSettled
  <2>q. QED BY <2>8, <2>9, <2>10, BecomesGood
<1>4. CASE OthersReturn
  <2>1. o \in Nat
    BY <1>2, <1>4 DEF OthersReturn
  <2>2. PICK r \in Pools : r = Put(pool, o)
    BY <1>1, <2>1, PutGood
  <2>3. Becomes([Now EXCEPT !.pool = r])
    BY <1>1, <1>2, <1>4, <2>2 DEF OthersReturn
  <2>4. PICK v : v = [Now EXCEPT !.pool = r]
    OBVIOUS
  <2>5. Settled(v, FALSE)
    BY <2>4, PoolSettled
  <2>q. QED BY <2>3, <2>4, <2>5, BecomesGood
<1>q. QED BY <1>3, <1>4

\* A tick of the worker.
LEMMA TickGood ==
    ASSUME IInv, Tick
    PROVE  IInv'
<1>1. PICK n : n = Now
  OBVIOUS
<1>2. n \in Calls /\ Settled(n, FALSE) /\ n.pool \in Pools /\ n.conn \in Conns
  BY <1>1, NowIs DEF IInv
<1>3. PICK long \in BOOLEAN :
        Becomes([n EXCEPT !.pool = IF CanShrink(@) THEN Shrunk(@) ELSE @,
                          !.conn.since = IF long /\ @ = "new" THEN "old" ELSE @])
  BY <1>1 DEF Tick
<1>4. PICK p \in Pools : p = IF CanShrink(n.pool) THEN Shrunk(n.pool) ELSE n.pool
  <2>1. CASE CanShrink(n.pool)
    <3>1. n.pool.num \in 0..MaxBuffers /\ n.pool.free \in Nat
      BY <1>2 DEF Pools
    <3>2. PICK a \in 0..MaxBuffers : a = n.pool.num - ExpandBuffers
      BY <2>1, <3>1, Sizes DEF CanShrink
    <3>3. PICK b \in Nat : b = n.pool.free - ExpandBuffers
      BY <2>1, <3>1, Sizes DEF CanShrink
    <3>4. [n.pool EXCEPT !.num = a, !.free = b] \in Pools
      BY <1>2 DEF Pools
    <3>5. Shrunk(n.pool) = [n.pool EXCEPT !.num = a, !.free = b]
      BY <3>2, <3>3 DEF Shrunk
    <3>q. QED BY <2>1, <3>4, <3>5
  <2>2. CASE ~CanShrink(n.pool)
    BY <1>2, <2>2
  <2>q. QED BY <2>1, <2>2
<1>5. PICK since \in {"none", "new", "old"} :
        since = IF long /\ n.conn.since = "new" THEN "old" ELSE n.conn.since
  BY <1>2 DEF Conns
<1>6. PICK c : c = [n.conn EXCEPT !.since = since]
  OBVIOUS
<1>7. /\ c \in Conns /\ c.state = n.conn.state /\ c.queue = n.conn.queue /\ c.armed = n.conn.armed
      /\ c.scheduled = n.conn.scheduled /\ c.headersSent = n.conn.headersSent
      /\ c.slow = n.conn.slow /\ c.since = since
  BY ONLY <1>2, <1>6, since \in {"none", "new", "old"} DEF Conns
<1>8. PICK v : v = [n EXCEPT !.pool = p, !.conn = c]
  OBVIOUS
<1>9. /\ v \in Calls /\ v.conn = c /\ v.sess = n.sess /\ v.up = n.up /\ v.client = n.client
  BY ONLY <1>2, <1>7, <1>8, p \in Pools DEF Calls
<1>10. Settled(v, FALSE)
  BY <1>2, <1>5, <1>7, <1>9, SettledSame
<1>11. v = [n EXCEPT !.pool = IF CanShrink(@) THEN Shrunk(@) ELSE @,
                     !.conn.since = IF long /\ @ = "new" THEN "old" ELSE @]
  BY <1>2, <1>4, <1>5, <1>6, <1>8 DEF Calls
<1>q. QED BY <1>3, <1>10, <1>11, BecomesGood

\* The program starts.
LEMMA InitGood ==
    ASSUME Init
    PROVE  IInv
<1>1. PICK e \in Seq(BufferType) : e = <<>>
  BY EmptySeq
<1>2. NewConnection = [state |-> "streaming", queue |-> e, armed |-> FALSE, scheduled |-> FALSE,
                       headersSent |-> FALSE, avg |-> 0, slow |-> FALSE, since |-> "none"]
  BY <1>1 DEF NewConnection
<1>3. PICK c : c = NewConnection
  OBVIOUS
<1>4. /\ c \in Conns /\ c.state = "streaming" /\ c.queue = e /\ ~c.headersSent /\ ~c.slow
      /\ c.since = "none"
  BY ONLY <1>2, <1>3, e \in Seq(BufferType) DEF Conns
<1>5. NewPool \in Pools
  BY Sizes DEF NewPool, Pools
<1>6. /\ NewSession \in Sessions /\ NewSession.st = "init" /\ ~NewSession.paused /\ NewSession.pos = 0
  BY Heads DEF NewSession, Sessions, Stages
<1>7. NewUpstream \in Upstreams /\ NewUpstream.sent = 0 /\ NewUpstream.got = 0
  BY DEF NewUpstream, Upstreams
<1>8. NewClient \in Clients /\ NewClient.seen = {}
  BY Heads DEF NewClient, Clients, Ends
<1>9. PICK n : n = Now
  OBVIOUS
<1>10. /\ n \in Calls /\ n.conn = c /\ n.pool = NewPool /\ n.sess = NewSession /\ n.up = NewUpstream
       /\ n.client = NewClient
  BY <1>3, <1>4, <1>5, <1>6, <1>7, <1>8, <1>9 DEF Now, Init, Calls
<1>11. KindsOf(n) = {}
  <2>1. Whats(<<>>) = {}
    BY DEF Whats
  <2>q. QED BY <1>1, <1>4, <1>8, <1>10, <2>1 DEF KindsOf
<1>12. Single(n)
  BY <1>11 DEF Single
<1>13. Course(n)
  BY <1>4, <1>6, <1>7, <1>10 DEF Course
<1>14. Young(n)
  BY <1>6, <1>7, <1>10, Heads DEF Young
<1>15. Shut(n) /\ Untouched(n)
  BY <1>1, <1>4, <1>8, <1>10 DEF Shut, Untouched
<1>16. Waking(n, FALSE)
  BY <1>6, <1>7, <1>10, Heads DEF Waking, Aligned, Lazy, Pause
<1>17. Settled(n, FALSE)
  BY <1>10, <1>12, <1>13, <1>14, <1>15, <1>16 DEF Settled
<1>q. QED BY <1>9, <1>17 DEF IInv

\* Every step leaves the connection in order.
LEMMA NextGood ==
    ASSUME IInv, [Next]_vars
    PROVE  IInv'
<1>1. CASE Connect
  BY <1>1, ConnectGood
<1>2. CASE ConnectFails
  BY <1>2, ConnectFailsGood
<1>3. CASE Connected
  BY <1>3, ConnectedGood
<1>4. CASE SocketEvent
  BY <1>4, SocketEventGood
<1>5. CASE Timeout
  BY <1>5, TimeoutGood
<1>6. CASE DrainWrites
  BY <1>6, DrainWritesGood
<1>7. CASE ClientWritable
  BY <1>7, ClientWritableGood
<1>8. CASE ClientLeaves
  BY <1>8, ClientLeavesGood
<1>9. CASE ClientReads
  BY <1>9, ClientReadsGood
<1>10. CASE UpstreamSends
  BY <1>10, UpstreamSendsGood
<1>11. CASE UpstreamEnds
  BY <1>11, UpstreamEndsGood
<1>12. CASE UpstreamTakes
  BY <1>12, UpstreamTakesGood
<1>13. CASE OthersTake \/ OthersReturn
  BY <1>13, OthersGood
<1>14. CASE Tick
  BY <1>14, TickGood
<1>15. CASE UNCHANGED vars
  <2>1. Now' = Now
    BY <1>15 DEF vars, Now
  <2>q. QED BY <2>1 DEF IInv
<1>q. QED BY <1>1, <1>2, <1>3, <1>4, <1>5, <1>6, <1>7, <1>8, <1>9, <1>10, <1>11, <1>12, <1>13, <1>14, <1>15 DEF Next

-----------------------------------------------------------------------------
(* The theorems. *)

\* Between any two steps of the worker a relayed connection is in order: what the
\* client was given agrees with how far the session has come, whatever the sizes of
\* buffers and pool, and whenever the server, the client and the pool fail.
THEOREM RelayInOrder == Spec => []IInv
<1>1. Init => IInv
  BY InitGood
<1>2. IInv /\ [Next]_vars => IInv'
  BY NextGood
<1>q. QED BY <1>1, <1>2, PTL DEF Spec

\* A connection in order has not been answered twice.
LEMMA InOrderIsOneAnswer ==
    ASSUME IInv
    PROVE  OneAnswer
<1>1. Single(Now)
  BY DEF IInv, Settled
<1>2. Now.conn = conn /\ Now.client = client
  BY NowIs
<1>3. client.seen \union {b.what : b \in ToSet(conn.queue)} = KindsOf(Now)
  BY <1>2 DEF KindsOf, Whats, ToSet
<1>q. QED BY <1>1, <1>3 DEF Single, OneAnswer

\* A connection in order that holds its server back is going to be written to.
LEMMA InOrderIsWoken ==
    ASSUME IInv, Fills
    PROVE  PausedHasWaker
<1>1. Pause(Now, FALSE)
  BY DEF IInv, Settled, Waking
<1>2. Now.conn = conn /\ Now.sess = sess
  BY NowIs
<1>q. QED BY <1>1, <1>2 DEF Pause, Idle, PausedHasWaker

\* A client is answered once (http_proxy.c, worker.c): the 503 of a failed session
\* never follows a part of another answer, nor is it followed by one, for every pool
\* and limit, also where a pool without buffers cuts either answer short.
THEOREM AnsweredOnce == Spec => []OneAnswer
<1>1. IInv => OneAnswer
  BY InOrderIsOneAnswer
<1>q. QED BY <1>1, RelayInOrder, PTL

\* While a server is held back somebody is going to write to the client, and so to
\* resume it (connection.c, http_proxy.c), provided input fills its buffers and so
\* many of them that a relay is paused make a batch.
THEOREM HeldBackIsWoken == ASSUME Fills PROVE Spec => []PausedHasWaker
<1>1. IInv => PausedHasWaker
  BY InOrderIsWoken
<1>q. QED BY <1>1, RelayInOrder, PTL
=============================================================================
