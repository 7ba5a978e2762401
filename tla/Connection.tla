----------------------------- MODULE Connection -----------------------------
(***************************************************************************)
(* The output side of a client connection: its send queue (send_queue.c),  *)
(* the worker's pool of packet buffers it is filled from (buffer_pool.c),  *)
(* the limit that follows from the state of the pool and from how slow the *)
(* client has been, and the watermarks a relay is paused and resumed by    *)
(* (connection.c).  Operators only; HttpProxy gives them their state.      *)
(*                                                                         *)
(* Memory is counted in tenths of a buffer, what a buffer carries in       *)
(* units, of which BufferUnits fill one.                                   *)
(***************************************************************************)
EXTENDS Integers, SequencesExt

CONSTANTS
    MaxBuffers,      \* buffer-pool-max-size
    InitialBuffers, ExpandBuffers, LowWatermark, HighWatermark,   \* BUFFER_POOL_...
    MinBuffers, BaseBuffers,   \* CONN_QUEUE_MIN_BUFFERS, CONN_QUEUE_BASE_BUFFERS
    FloorBuffers,    \* the least limit there is, 4 buffers
    BufferUnits,     \* BUFFER_POOL_BUFFER_SIZE
    BatchUnits,      \* SEND_QUEUE_BATCH_BYTES
    WriteBudget,     \* what one call of connection_handle_write() sends
    ActiveStreams    \* streams of the worker, this one among them

ASSUME ConnectionAssumption ==
    /\ {InitialBuffers, ExpandBuffers, MinBuffers, BaseBuffers, FloorBuffers,
        BufferUnits, BatchUnits, WriteBudget, ActiveStreams} \subseteq Nat \ {0}
    /\ {LowWatermark, HighWatermark} \subseteq Nat
    /\ MaxBuffers \in Nat /\ MaxBuffers >= InitialBuffers /\ ExpandBuffers > LowWatermark

\* F(x): x by a name.
With(x, F(_)) == F(x)

\* connection_t: an entry of the queue says what it carries, from which unit
\* on and how many; since is slow_candidate_since, "old" three seconds later.
NewConnection == [state |-> "streaming", queue |-> <<>>, armed |-> FALSE, scheduled |-> FALSE,
                  headersSent |-> FALSE, avg |-> 0, slow |-> FALSE, since |-> "none"]

\* buffer_pool_t; dry is set for good once an allocation has failed.
NewPool == [num |-> InitialBuffers, free |-> InitialBuffers, dry |-> FALSE]

-----------------------------------------------------------------------------
(* The pool. *)

\* buffer_pool_expand(), when the free buffers are few or none.
Expanded(p) ==
    IF p.free > LowWatermark /\ p.free > 0 THEN p
    ELSE LET more == Min({ExpandBuffers, MaxBuffers - p.num})
         IN  [p EXCEPT !.num = @ + more, !.free = @ + more]

\* buffer_pool_alloc_from(): the pool afterwards; without a buffer it is dry.
Alloc(p) ==
    LET q == Expanded(p)
    IN  IF q.free = 0 THEN [q EXCEPT !.dry = TRUE] ELSE [q EXCEPT !.free = @ - 1]

CanAlloc(p) == Expanded(p).free > 0

Put(p, n) == [p EXCEPT !.free = @ + n]

\* buffer_pool_try_shrink_pool() for one segment without a buffer in use.
CanShrink(p) ==
    p.free > HighWatermark /\ p.free >= ExpandBuffers /\ p.num - ExpandBuffers >= InitialBuffers

Shrunk(p) == [p EXCEPT !.num = @ - ExpandBuffers, !.free = @ - ExpandBuffers]

-----------------------------------------------------------------------------
(* The limit of the queue. *)

Memory(c) == 10 * Len(c.queue)
Add(n, b) == n + b.n
Payload(q) == FoldLeft(Add, 0, q)

\* fair_bytes of connection_prepare_queue_limit_inputs().
Fair(p) ==
    LET total == Max({p.num, Min({BaseBuffers, MaxBuffers})})
    IN  10 * Max({MinBuffers, total \div ActiveStreams})

\* burst_factor there, in tenths.
Burst(p) ==
    LET used == p.num - p.free
    IN  CASE p.free < LowWatermark \div 2 \/ 100 * used >= 95 * MaxBuffers -> 10
          [] ~(p.free < LowWatermark \div 2 \/ 100 * used >= 95 * MaxBuffers)
             /\ (p.num >= MaxBuffers \/ 100 * used >= 85 * MaxBuffers) -> 15
          [] OTHER -> 30

\* connection_compute_limit_bytes().
LimitBytes(fair, burst) ==
    LET cap == 10 * (IF MaxBuffers > MinBuffers THEN MaxBuffers - MinBuffers ELSE MaxBuffers)
    IN  Max({10 * FloorBuffers, Min({cap, (fair * burst) \div 10})})

SlowClamp(burst, slow) == IF slow THEN Min({burst, 8}) ELSE burst

\* connection_compute_queue_limit().
QueueLimit(c, p) == LimitBytes(Fair(p), SlowClamp(Burst(p), c.slow))

\* The thresholds of slowness, before the clamp.
SlowAbove(fair, bursted) == Min({(15 * fair) \div 10, (9 * bursted) \div 10})

SlowBelow(fair, bursted) ==
    With(Min({(11 * fair) \div 10, (75 * bursted) \div 100}), LAMBDA exit :
        IF exit >= SlowAbove(fair, bursted) THEN (75 * SlowAbove(fair, bursted)) \div 100
        ELSE exit)

\* The state machine of connection_update_queue_limit(), for a new average.
Judged(c, avg, above, below) ==
    IF avg <= above
    THEN [c EXCEPT !.avg = avg, !.since = "none", !.slow = @ /\ avg >= below]
    ELSE [c EXCEPT !.avg = avg, !.since = IF @ = "none" THEN "new" ELSE @,
                   !.slow = @ \/ c.since = "old"]

\* The rest of it.
Sampled(c, p) ==
    With([fair |-> Fair(p), bursted |-> LimitBytes(Fair(p), Burst(p))], LAMBDA in :
        Judged(c, IF c.avg <= 0 THEN Memory(c) ELSE (8 * c.avg + 2 * Memory(c)) \div 10,
               SlowAbove(in.fair, in.bursted), SlowBelow(in.fair, in.bursted)))

\* connection_should_pause_upstream() and connection_can_resume_upstream(),
\* each with the way out before the limit is computed.
ShouldPause(c, p) ==
    4 * Memory(c) >= 30 * MinBuffers /\ 4 * Memory(c) >= 3 * QueueLimit(c, p)

CanResume(c, p) ==
    2 * Memory(c) <= 10 * MinBuffers \/ 2 * Memory(c) <= QueueLimit(c, p)

-----------------------------------------------------------------------------
(* Writing. *)

\* connection_schedule_write().
Schedule(c) == IF c.armed THEN c ELSE [c EXCEPT !.scheduled = TRUE]

\* connection_queue_buffer(): a buffer beyond the limit is dropped.
Queued(c, b) ==
    With([c EXCEPT !.queue = Append(@, b)], LAMBDA d :
        IF Payload(d.queue) >= BatchUnits THEN Schedule(d) ELSE d)

QueueBuffer(c, p, b) ==
    With(Sampled(c, p), LAMBDA d :
        IF Memory(d) + 10 > QueueLimit(d, p) THEN [conn |-> d, ok |-> FALSE]
        ELSE [conn |-> Queued(d, b), ok |-> TRUE])

\* Output cut into buffers: n units of a kind from the first on.
Buffers(what, first, n) ==
    LET count == (n + BufferUnits - 1) \div BufferUnits
    IN  [i \in 1..count |->
            [what |-> what, from |-> first + (i - 1) * BufferUnits,
             n |-> Min({BufferUnits, n - (i - 1) * BufferUnits})]]

\* connection_queue_output(): r has the connection, the pool and whether it
\* went well so far; what was queued before a failure stays.
OutputBuffer(r, b) ==
    With(Alloc(r.pool), LAMBDA p :
        IF ~CanAlloc(r.pool) THEN [r EXCEPT !.pool = p, !.ok = FALSE]
        ELSE With(QueueBuffer(r.conn, p, b), LAMBDA q :
                [conn |-> q.conn, ok |-> q.ok, pool |-> IF q.ok THEN p ELSE Put(p, 1)]))

OutputOn(r, b) == IF r.ok THEN OutputBuffer(r, b) ELSE r

QueueOutput(r, bs) == FoldLeft(OutputOn, r, bs)

\* send_queue_send() and send_queue_consume_memory(): the whole buffers among
\* the first k units, and the queue without these units.
Gone(q, k) == Max({i \in 0..Len(q) : Payload(SubSeq(q, 1, i)) <= k})

ConsumedUnmoved(q, k) ==
    LET i == Gone(q, k)
        part == k - Payload(SubSeq(q, 1, i))
    IN  IF part = 0 THEN SubSeq(q, i + 1, Len(q))
        ELSE <<[q[i + 1] EXCEPT !.n = @ - part]>> \o SubSeq(q, i + 2, Len(q))

Consumed(q, k) ==
    LET i == Gone(q, k)
        part == k - Payload(SubSeq(q, 1, i))
    IN  IF part = 0 THEN SubSeq(q, i + 1, Len(q))
        ELSE <<[q[i + 1] EXCEPT !.from = @ + part, !.n = @ - part]>> \o SubSeq(q, i + 2, Len(q))

\* The units taken from the queue, as entries of it.
Taken(q, k) ==
    LET i == Gone(q, k)
        part == k - Payload(SubSeq(q, 1, i))
    IN  SubSeq(q, 1, i) \o (IF part = 0 THEN <<>> ELSE <<[q[i + 1] EXCEPT !.n = part]>>)
=============================================================================
