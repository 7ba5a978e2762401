----------------------------- MODULE HttpProxy ------------------------------
(***************************************************************************)
(* A client connection that relays the answer of an HTTP server            *)
(* (http_proxy.c), from the first attempt to connect to the end of the     *)
(* client: the session and its upstream socket, the client's send queue    *)
(* with its back pressure (Connection), and what the worker's loop does    *)
(* with both (worker.c).                                                   *)
(*                                                                         *)
(* Both sockets are edge triggered.  The answer is a number of units, the  *)
(* head of it and then the body; a playlist is collected, rewritten and    *)
(* sent at the end, a unit for a unit; any other body is passed through.   *)
(* Left out: the text of heads and playlists, the cookie, the pool a 503   *)
(* is taken from before a session has started, and hangups                 *)
(* reported without input, which epoll does not do.                        *)
(***************************************************************************)
EXTENDS Connection

CONSTANTS
    Responses,     \* what may be asked for and answered: see ResponseType
    Candidates,    \* addresses the server's name resolves to
    HeadUnits,     \* units of a head
    HeadRoom,      \* HTTP_PROXY_RESPONSE_BUFFER_SIZE
    ScratchUnits,  \* temp_buf of a playlist's recv()
    MaxRewrite,    \* REWRITE_MAX_BODY_SIZE
    Segments,      \* how many units of a body may arrive at a time
    ClientRoom,    \* what the client's socket takes before the client reads
    OthersMax      \* bound: buffers other connections hold

ResponseType == [head : BOOLEAN, m3u : BOOLEAN, fits : BOOLEAN, valid : BOOLEAN,
                 framing : {"length", "close", "chunked"}, size : Nat]

ASSUME HttpProxyAssumption ==
    /\ Responses \subseteq ResponseType
    /\ {Candidates, HeadUnits, HeadRoom, ScratchUnits, MaxRewrite, ClientRoom} \subseteq Nat \ {0}
    /\ HeadRoom > HeadUnits /\ OthersMax \in Nat
    /\ Segments \subseteq Nat \ {0}

\* What it takes that a server held back is resumed: input fills the buffers it is
\* read into, and so many of them that a relay is paused are enough to be written.
Fills ==
    /\ \A n \in Segments \union {HeadRoom - HeadUnits} : n % BufferUnits = 0
    /\ 4 * BatchUnits <= 3 * MinBuffers * BufferUnits

VARIABLES
    resp,     \* the request and the answer the server has for it
    conn,     \* connection_t
    pool,     \* send_buffer_state.pool
    sess,     \* http_proxy_session_t
    up,       \* the upstream socket
    client    \* the client's end of the connection

vars == <<resp, conn, pool, sess, up, client>>

\* connect_next, the socket, upstream_paused, needs_body_rewrite,
\* response_buffer_pos, bytes_received, rewrite_body_buffer_used.
NewSession == [st |-> "init", cands |-> Candidates, open |-> FALSE, paused |-> FALSE,
               rewrite |-> FALSE, pos |-> 0, rcvd |-> 0, used |-> 0]

\* Units sent by the server and read from the socket; how it ended; an event
\* that has not been reported yet.
NewUpstream == [sent |-> 0, got |-> 0, fin |-> "open", edge |-> FALSE]

\* Room in the client's socket, the last unit of the body it was sent, the
\* kinds of answers it has seen, and how its connection ended.
NewClient == [room |-> ClientRoom, last |-> 0, seen |-> {}, end |-> "none"]

Init ==
    /\ resp \in Responses
    /\ conn = NewConnection /\ pool = NewPool
    /\ sess = NewSession /\ up = NewUpstream /\ client = NewClient

\* What a call works on, and what it has returned so far.
Now == [conn |-> conn, pool |-> pool, sess |-> sess, up |-> up, client |-> client,
        ret |-> "progress"]

Becomes(w) ==
    /\ conn' = w.conn /\ pool' = w.pool /\ sess' = w.sess /\ up' = w.up
    /\ client' = w.client /\ UNCHANGED resp

Returns(w, r) == [w EXCEPT !.ret = r]
Goes(w, st) == [w EXCEPT !.sess.st = st]

-----------------------------------------------------------------------------
(* The client's connection. *)

\* worker_close_and_free_connection(): the buffers go back to the pool.
Close(w, end) ==
    [w EXCEPT !.conn = [@ EXCEPT !.state = "closed", !.queue = <<>>, !.armed = FALSE,
                                 !.scheduled = FALSE],
              !.pool = Put(@, Len(w.conn.queue)),
              !.sess.open = FALSE, !.sess.paused = FALSE, !.client.end = end]

Output(w, bs) ==
    With(QueueOutput([conn |-> w.conn, pool |-> w.pool, ok |-> TRUE], bs), LAMBDA r :
        [w EXCEPT !.conn = r.conn, !.pool = r.pool, !.ret = IF r.ok THEN @ ELSE "fail"])

BeginDrainClose(w) ==
    IF w.conn.state = "closing" THEN w
    ELSE [w EXCEPT !.conn = Schedule([@ EXCEPT !.state = "closing"])]

\* http_send_503(): that the headers did not fit goes unnoticed.
Send503(w) ==
    With([Output(w, Buffers("503", 1, 1)) EXCEPT !.conn.headersSent = TRUE, !.ret = "progress"],
         LAMBDA h :
            With(IF resp.head THEN h ELSE Output(h, Buffers("503", 2, 1)), LAMBDA b :
                IF b.ret = "fail" THEN b
                ELSE [b EXCEPT !.conn = [Schedule(@) EXCEPT !.state = "closing"]]))

-----------------------------------------------------------------------------
(* Receiving. *)

Available(w) == w.up.sent - w.up.got
Take(w, n) == [w EXCEPT !.up.got = @ + n]

Entire(w) == resp.framing = "length" /\ w.sess.rcvd >= resp.size
Counted(w, n) == [w EXCEPT !.sess.rcvd = @ + n]

\* http_proxy_finalize_rewrite().
FinalizeRewrite(w) ==
    With(Output(w, Buffers("head", 1, 1) \o Buffers("body", 1, w.sess.used)), LAMBDA v :
        IF v.ret = "fail" THEN v
        ELSE Goes([v EXCEPT !.conn.headersSent = TRUE, !.ret = "progress"], "complete"))

\* http_proxy_consume_rewrite_body(); the last unit of a chunked body has the
\* chunk that ends it.
ConsumeRewrite(w, n) ==
    With([w EXCEPT !.sess.used = @ + n, !.ret = "progress"], LAMBDA v :
        IF v.sess.used > MaxRewrite THEN Returns(w, "fail")
        ELSE IF Entire(v) \/ (resp.framing = "chunked" /\ v.sess.used = resp.size)
             THEN FinalizeRewrite(v)
             ELSE v)

\* http_proxy_handle_upstream_end().
UpstreamEnd(w) ==
    IF ~w.sess.rewrite THEN Returns(Goes(w, "complete"), "nothing")
    ELSE IF resp.framing = "chunked" /\ w.sess.used < resp.size THEN Returns(w, "fail")
         ELSE FinalizeRewrite(w)

\* recv() with nothing to read.
NoInput(w) == IF w.up.fin = "open" THEN Returns(w, "nothing") ELSE UpstreamEnd(w)

\* A part of a body that is to be rewritten.
ReceiveRewrite(w) ==
    LET n == Min({Available(w), ScratchUnits})
    IN  IF n = 0 THEN NoInput(w) ELSE ConsumeRewrite(Counted(Take(w, n), n), n)

\* A part of any other body, straight into a buffer.  The check for room comes
\* before the buffer is taken and before the queue judges how slow the client is.
EndIfEntire(w) == IF Entire(w) THEN Goes(w, "complete") ELSE w

QueueBody(w, n) ==
    LET b == [what |-> "body", from |-> w.up.got - HeadUnits + 1, n |-> n]
    IN  With(QueueBuffer(w.conn, w.pool, b), LAMBDA q :
            IF q.ok THEN EndIfEntire(Counted([Take(w, n) EXCEPT !.conn = q.conn], n))
            ELSE Returns([Take(w, n) EXCEPT !.conn = q.conn, !.pool = Put(@, 1)], "fail"))

ReceiveBuffer(w) ==
    With([w EXCEPT !.pool = Alloc(@)], LAMBDA v :
        IF ~CanAlloc(w.pool) THEN Returns(v, "fail")
        ELSE IF Available(w) = 0 THEN NoInput([v EXCEPT !.pool = Put(@, 1)])
        ELSE QueueBody(Returns(v, "progress"), Min({Available(w), BufferUnits})))

ReceiveBody(w) ==
    IF ShouldPause(w.conn, w.pool) THEN Returns([w EXCEPT !.sess.paused = TRUE], "nothing")
    ELSE ReceiveBuffer(w)

\* http_proxy_parse_response_headers() for a complete head: the head is passed
\* on in two parts, the blank line being the second; that of a playlist is kept.
ToRewrite ==
    resp.m3u /\ ~resp.head /\ (resp.framing = "length" => resp.size \in 1..MaxRewrite)

ForwardHead(w) ==
    With(Output(w, Buffers("head", 1, 1) \o Buffers("head", 2, 1)), LAMBDA v :
        IF v.ret = "fail" THEN v
        ELSE [v EXCEPT !.conn = Schedule([@ EXCEPT !.headersSent = TRUE])])

ParseHead(w) ==
    IF ~resp.valid THEN Returns(w, "fail")
    ELSE With(IF ToRewrite THEN w ELSE ForwardHead(w), LAMBDA v :
            IF v.ret = "fail" THEN v
            ELSE IF resp.head THEN Goes([v EXCEPT !.sess.pos = 0], "complete")
            ELSE Goes([v EXCEPT !.sess.pos = @ - HeadUnits, !.sess.rewrite = ToRewrite],
                      "streaming"))

\* The body that came along with the head.
ForwardInitial(w) ==
    LET n == w.sess.pos
        e == [w EXCEPT !.sess.pos = 0]
    IN  IF w.ret = "fail" \/ n = 0 THEN w
        ELSE IF w.sess.rewrite THEN ConsumeRewrite(Counted(e, n), n)
        ELSE With(Output(e, Buffers("body", 1, n)), LAMBDA v :
                IF v.ret = "fail" THEN v ELSE EndIfEntire(Counted(v, n)))

ReceiveHead(w) ==
    LET n == Min({Available(w), HeadRoom - w.sess.pos})
    IN  IF n = 0
        THEN CASE w.up.fin = "open" -> Returns(w, "nothing")
               [] w.up.fin = "eof" -> Returns(Goes(w, "complete"), "nothing")
               [] w.up.fin = "reset" -> Returns(w, "fail")
        ELSE With(Returns([Take(w, n) EXCEPT !.sess.pos = @ + n], "progress"), LAMBDA v :
                IF v.sess.pos < HeadUnits THEN v
                ELSE With(ParseHead(v), ForwardInitial))

\* http_proxy_try_receive_response().
TryReceive(w) ==
    CASE w.sess.st = "streaming" /\ w.sess.rewrite -> ReceiveRewrite(w)
      [] w.sess.st = "streaming" /\ ~w.sess.rewrite -> ReceiveBody(w)
      [] w.sess.st = "awaiting" -> ReceiveHead(w)

\* Its callers repeat it until there is nothing to read, it fails or the session
\* is in another state; every call that makes progress reads a unit.
Rounds(w) == [i \in 1..(Available(w) + 2) |-> i]

ReceiveOn(w, i) ==
    IF w.ret = "progress" /\ w.sess.st \in {"awaiting", "streaming"} THEN TryReceive(w) ELSE w

StreamOn(w, i) == IF w.ret = "progress" /\ w.sess.st = "streaming" THEN TryReceive(w) ELSE w

ReceiveAll(w) == FoldLeft(ReceiveOn, Returns(w, "progress"), Rounds(w))
StreamAll(w) == FoldLeft(StreamOn, Returns(w, "progress"), Rounds(w))

ResumeUnread(w) == [w EXCEPT !.sess.paused = FALSE]

\* http_proxy_resume_upstream(), from stream_on_client_drain(): that receiving
\* failed has no consequence here.
Resume(w) ==
    With(StreamAll([w EXCEPT !.sess.paused = FALSE]), LAMBDA v :
        IF v.sess.st = "complete" THEN BeginDrainClose([v EXCEPT !.sess.open = FALSE]) ELSE v)

OnClientDrain(w) == IF w.sess.paused /\ CanResume(w.conn, w.pool) THEN Resume(w) ELSE w

-----------------------------------------------------------------------------
(* The upstream socket. *)

\* http_proxy_on_connected(): the request may be too large to be built.
OnConnected(w) == IF resp.fits THEN Goes(w, "sending") ELSE Returns(Goes(w, "error"), "fail")

\* http_proxy_try_next_candidate(): how it may end.  Candidates that fail at
\* once are passed over.
Exhausted(w) == Returns([w EXCEPT !.sess.cands = 0, !.sess.open = FALSE], "fail")

TryNextCandidate(w) ==
    LET opened(k) == [w EXCEPT !.sess.cands = k, !.sess.open = TRUE, !.up.edge = FALSE]
        left == 0..(w.sess.cands - 1)
    IN  {Exhausted(w)}
        \union {Goes(opened(k), "connecting") : k \in left}
        \union {OnConnected([opened(k) EXCEPT !.up.edge = TRUE]) : k \in left}

\* stream_handle_fd_event() < 0 in worker_run_event_loop().
EventFailed(w) ==
    IF ~w.conn.headersSent /\ w.conn.state # "closing" THEN Send503(w) ELSE Close(w, "cut")

\* stream_tick() < 0 there.
TickFailed(w) == IF w.conn.headersSent THEN Close(w, "cut") ELSE Send503(w)

\* stream_context_init_for_worker(), and what connection_handle_read() and its
\* caller do when it fails.
NotStarted(w) ==
    With(Send503(Goes([w EXCEPT !.sess.open = FALSE], "error")), LAMBDA v :
        IF v.conn.queue = <<>> THEN Close(v, "cut") ELSE [v EXCEPT !.conn.state = "closing"])

Connect ==
    /\ sess.st = "init" /\ conn.state = "streaming"
    /\ \E w \in TryNextCandidate(Now) : Becomes(IF w.ret = "fail" THEN NotStarted(w) ELSE w)

\* http_proxy_try_send_pending() from an event with POLLER_OUT: all of the
\* request that is left goes out, or not all of it, or sending fails.
SendPending(w, sent) ==
    CASE w.sess.st # "sending" \/ sent = "none" -> w
      [] w.sess.st = "sending" /\ sent = "part" -> w
      [] w.sess.st = "sending" /\ sent = "all" -> Goes(w, "awaiting")
      [] w.sess.st = "sending" /\ sent = "fail" -> Returns(Goes(w, "error"), "fail")

ReceiveEvent(w) ==
    IF w.ret = "fail" \/ (Available(w) = 0 /\ w.up.fin = "open") THEN w
    ELSE With(ReceiveAll(w), LAMBDA v :
            IF v.ret = "fail" THEN Goes(v, "error") ELSE Returns(v, "progress"))

\* POLLER_ERR, after the data has been read.
ErrorEvent(w) ==
    IF w.ret = "fail" \/ w.up.fin # "reset" \/ w.sess.st = "complete" THEN w
    ELSE With(IF w.sess.st = "streaming" THEN UpstreamEnd(w) ELSE Returns(w, "fail"), LAMBDA v :
            IF v.ret = "fail" THEN Goes(v, "error") ELSE Returns(v, "progress"))

EndEvent(w) ==
    IF w.ret = "fail" THEN EventFailed(w)
    ELSE IF w.sess.st = "complete" THEN BeginDrainClose([w EXCEPT !.sess.open = FALSE])
    ELSE w

\* http_proxy_handle_socket_event() and the worker around it.
HandleEvent(w, sent) ==
    With(With(With(SendPending(w, sent), ReceiveEvent), ErrorEvent), EndEvent)

Reported == [Now EXCEPT !.up.edge = FALSE]

\* An attempt to connect comes to nothing.
ConnectFails ==
    /\ sess.open /\ sess.st = "connecting"
    /\ \E w \in TryNextCandidate([Now EXCEPT !.sess.open = FALSE]) :
          Becomes(IF w.ret = "fail" THEN EventFailed(Goes(w, "error")) ELSE w)

\* It succeeds, and the same event says that the socket is writable.
Connected ==
    /\ sess.open /\ sess.st = "connecting"
    /\ \E sent \in {"all", "part", "fail"} :
          LET w == OnConnected(Reported)
          IN  Becomes(IF w.ret = "fail" THEN EventFailed(w) ELSE HandleEvent(w, sent))

\* Any other event of the upstream socket.
SocketEvent ==
    /\ sess.open /\ sess.st # "connecting" /\ up.edge
    /\ \E sent \in {"none", "all", "part", "fail"} :
          /\ sess.st # "sending" => sent = "none"
          /\ Becomes(HandleEvent(Reported, sent))

TimeoutUnnoticed ==
    /\ conn.state # "closed" /\ sess.st \in {"connecting", "sending", "awaiting"}
    /\ Becomes(TickFailed(Now))

\* http_proxy_session_tick() three seconds after the last change of state.
Timeout ==
    /\ conn.state # "closed" /\ sess.st \in {"connecting", "sending", "awaiting"}
    /\ IF sess.st = "connecting" /\ sess.cands > 0
       THEN \E w \in TryNextCandidate([Now EXCEPT !.sess.open = FALSE]) :
               Becomes(IF w.ret = "fail" THEN TickFailed(Goes(w, "error")) ELSE w)
       ELSE Becomes(TickFailed(Goes(Now, "error")))

-----------------------------------------------------------------------------
(* The client's socket. *)

\* What the client is sent, and its last unit of the body.
LastOf(last, b) == IF b.what = "body" THEN b.from + b.n - 1 ELSE last
LastOfBody(q, before) == FoldLeft(LastOf, before, q)

Given(l, taken, k) ==
    [l EXCEPT !.room = @ - k, !.last = LastOfBody(taken, @),
              !.seen = @ \union {b.what : b \in ToSet(taken)}]

Written(w, k) ==
    LET q == w.conn.queue
    IN  [w EXCEPT !.conn.queue = Consumed(q, k), !.pool = Put(@, Gone(q, k)),
                  !.client = Given(@, Taken(q, k), k)]

\* connection_handle_write(), for a connection worker_drain_writes() found in
\* its queue; a broken socket is one the client has left.
Drained(w, k) == IF k > 0 THEN OnClientDrain(w) ELSE w

AfterWriteHasty(w, k) ==
    LET idle == [w EXCEPT !.conn.armed = FALSE]
    IN  CASE w.conn.state = "closing" -> Close(w, "drained")
          [] w.conn.state # "closing" /\ w.conn.queue = <<>> -> Drained(idle, k)
          [] w.conn.state # "closing" /\ w.conn.queue # <<>> -> Drained([w EXCEPT !.conn.armed = TRUE], k)

AfterWriteUnarmed(w, k) ==
    LET idle == [w EXCEPT !.conn.armed = FALSE]
    IN  CASE w.conn.queue = <<>> /\ w.conn.state = "closing" -> Close(w, "drained")
          [] w.conn.queue = <<>> /\ w.conn.state # "closing" -> Drained(idle, k)
          [] w.conn.queue # <<>> -> Drained([w EXCEPT !.conn.scheduled = k = WriteBudget], k)

AfterWrite(w, k) ==
    LET idle == [w EXCEPT !.conn.armed = FALSE]
    IN  CASE w.conn.queue = <<>> /\ w.conn.state = "closing" -> Close(w, "drained")
          [] w.conn.queue = <<>> /\ w.conn.state # "closing" ->
                With(Drained(idle, k), LAMBDA v :
                    IF v.conn.queue = <<>> THEN v ELSE [v EXCEPT !.conn = Schedule(@)])
          [] w.conn.queue # <<>> /\ k = WriteBudget ->
                [Drained(idle, k) EXCEPT !.conn.scheduled = TRUE]
          [] w.conn.queue # <<>> /\ k # WriteBudget ->
                Drained([w EXCEPT !.conn.armed = TRUE], k)

HandleWrite(w) ==
    With(Min({Payload(w.conn.queue), w.client.room, WriteBudget}), LAMBDA k :
        With(Written(w, k), LAMBDA v : AfterWrite(v, k)))

DrainWrites ==
    /\ conn.scheduled
    /\ Becomes(HandleWrite([Now EXCEPT !.conn.scheduled = FALSE]))

\* POLLER_OUT of the client.
ClientWritable ==
    /\ conn.armed /\ client.room > 0
    /\ Becomes([Now EXCEPT !.conn.scheduled = TRUE])

\* The client is gone: a hangup, an error, or the end of its input.
ClientLeaves == conn.state # "closed" /\ Becomes(Close(Now, "left"))

-----------------------------------------------------------------------------
(* The surroundings. *)

ClientReads ==
    /\ conn.state # "closed" /\ client.room < ClientRoom
    /\ Becomes([Now EXCEPT !.client.room = ClientRoom])

\* The server answers once it has the request, and may end at any time.
UpstreamSends ==
    /\ sess.open /\ sess.st \in {"awaiting", "streaming", "error"} /\ up.fin = "open"
    /\ LET total == HeadUnits + (IF resp.head THEN 0 ELSE resp.size)
       IN  \E n \in (IF up.sent < HeadUnits THEN 1..(HeadUnits - up.sent) ELSE Segments) :
             /\ up.sent + n <= total
             /\ Becomes([Now EXCEPT !.up.sent = @ + n, !.up.edge = TRUE])

UpstreamEnds ==
    /\ sess.open /\ sess.st \notin {"init", "connecting"} /\ up.fin = "open"
    /\ \E fin \in {"eof", "reset"} : Becomes([Now EXCEPT !.up.fin = fin, !.up.edge = TRUE])

\* The socket is writable again.
UpstreamTakes ==
    /\ sess.open /\ sess.st = "sending" /\ ~up.edge
    /\ Becomes([Now EXCEPT !.up.edge = TRUE])

\* The other connections of the worker take buffers and give them back.
Others == pool.num - pool.free - Len(conn.queue)

OthersTake ==
    /\ conn.state # "closed" /\ Others < OthersMax
    /\ LET p == IF pool.free > 0 THEN pool ELSE Expanded(pool)
       IN  /\ p.free > 0
           /\ Becomes([Now EXCEPT !.pool = [p EXCEPT !.free = @ - Min({@, OthersMax - Others})]])

OthersReturn ==
    /\ conn.state # "closed" /\ Others > 0 /\ Becomes([Now EXCEPT !.pool = Put(@, Others)])

\* A tick shrinks the pool where it can; it may be three seconds since the client
\* was first found slow.
Tick ==
    \E long \in BOOLEAN :
        Becomes([Now EXCEPT !.pool = IF CanShrink(@) THEN Shrunk(@) ELSE @,
                            !.conn.since = IF long /\ @ = "new" THEN "old" ELSE @])

Next ==
    \/ Connect \/ ConnectFails \/ Connected \/ SocketEvent \/ Timeout
    \/ DrainWrites \/ ClientWritable \/ ClientLeaves \/ ClientReads
    \/ UpstreamSends \/ UpstreamEnds \/ UpstreamTakes
    \/ OthersTake \/ OthersReturn \/ Tick

\* The worker takes up what it is told of, the client reads, and the server
\* answers and ends; nobody has to leave.  This is weak fairness of Connect,
\* SocketEvent, Timeout, DrainWrites, ClientWritable, ClientReads and
\* UpstreamEnds, written out: the guard of the action, and a step only this
\* action takes while the guard holds (a session changes but finitely often).
MayConnect == sess.st = "init" /\ conn.state = "streaming"
MayReport == sess.open /\ sess.st # "connecting" /\ up.edge
MayTimeOut == conn.state # "closed" /\ sess.st \in {"connecting", "sending", "awaiting"}
MayWrite == conn.armed /\ client.room > 0 /\ ~conn.scheduled
MayRead == conn.state # "closed" /\ client.room < ClientRoom
MayEnd == sess.open /\ sess.st \notin {"init", "connecting"} /\ up.fin = "open"

Fairness ==
    /\ []<>~MayConnect \/ []<><<sess' # sess>>_vars
    /\ []<>~MayReport \/ []<><<up.edge /\ ~up'.edge>>_vars
    /\ []<>~MayTimeOut \/ []<><<sess' # sess>>_vars
    /\ []<>~conn.scheduled
       \/ []<><<conn.scheduled /\ (~conn'.scheduled \/ client'.room < client.room)>>_vars
    /\ []<>~MayWrite \/ []<><<MayWrite /\ conn'.scheduled>>_vars
    /\ []<>~MayRead \/ []<><<client'.room > client.room>>_vars
    /\ []<>~MayEnd \/ []<><<up'.fin # up.fin>>_vars

Spec == Init /\ [][Next]_vars /\ Fairness

-----------------------------------------------------------------------------
(* Properties. *)

Forwarded == LastOfBody(conn.queue, client.last)

BufferType == [what : {"head", "body", "503"}, from : Nat, n : 1..BufferUnits]

\* Every variable has its type; a buffer is free, queued here or held by another
\* connection, and the queue holds no more than the limit can ever be.
TypeOK ==
    /\ resp \in Responses
    /\ conn \in [state : {"streaming", "closing", "closed"}, queue : Seq(BufferType),
                 armed : BOOLEAN, scheduled : BOOLEAN, headersSent : BOOLEAN,
                 avg : Nat, slow : BOOLEAN, since : {"none", "new", "old"}]
    /\ pool \in [num : 1..MaxBuffers, free : Nat, dry : BOOLEAN]
    /\ sess \in [st : {"init", "connecting", "sending", "awaiting", "streaming", "complete",
                       "error"},
                 cands : 0..Candidates, open : BOOLEAN, paused : BOOLEAN, rewrite : BOOLEAN,
                 pos : 0..HeadRoom, rcvd : Nat, used : 0..(MaxRewrite + ScratchUnits)]
    /\ up \in [sent : Nat, got : Nat, fin : {"open", "eof", "reset"}, edge : BOOLEAN]
    /\ client \in [room : 0..ClientRoom, last : Nat, seen : SUBSET {"head", "body", "503"},
                   end : {"none", "drained", "cut", "left"}]
    /\ Others \in 0..OthersMax /\ up.got <= up.sent

\* What the client has been sent and what is queued for it is the body from its
\* beginning, in order and without a gap (http_proxy.c: no bytes are dropped in
\* the middle of a body, the server is held back instead).  A session that calls
\* itself complete has passed on everything the server sent before it ended, and
\* a client whose connection was then drained and closed was sent all of that:
\* neither a pause nor a rewrite leaves a rest behind.  A server that resets the
\* connection may take the rest with it.
AllPassedOn(units) ==
    sess.st = "complete" /\ ~resp.head /\ up.fin # "reset" /\ up.sent > HeadUnits => units = up.sent - HeadUnits

BodyInOrder ==
    /\ TypeOK
    /\ \A i \in 1..Len(conn.queue) :
          conn.queue[i].what = "body" =>
              conn.queue[i].from = 1 + LastOfBody(SubSeq(conn.queue, 1, i - 1), client.last)
    /\ conn.state # "closed" => AllPassedOn(Forwarded)
    /\ client.end = "drained" => AllPassedOn(client.last)

\* While the server is held back, something will write to the client: the
\* connection is in the worker's queue, or waits for room in the socket
\* (connection.c: relays resume when the queue falls below the low mark).
PausedHasWaker == sess.paused /\ sess.open => conn.scheduled \/ conn.armed

\* A client is answered once: the 503 of a failed session follows no part of
\* another answer, and no late answer follows the 503, however short of buffers
\* the pool is while either is put together.
OneAnswer ==
    LET kinds == client.seen \union {b.what : b \in ToSet(conn.queue)}
    IN  "503" \in kinds => kinds = {"503"}

\* A client's connection is closed in the end, provided the server's answer
\* ends and the pool never runs out of buffers.
Settles == [](~pool.dry) => <>(conn.state = "closed")
=============================================================================
