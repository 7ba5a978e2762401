-------------------------------- MODULE Rtsp --------------------------------
(***************************************************************************)
(* An RTSP session (rtsp.c) with its control connection and its STUN       *)
(* exchange (stun.c), the client it plays for, and what the worker's loop  *)
(* does with both (stream.c, worker.c).                                    *)
(*                                                                         *)
(* The control socket is edge triggered: what an event leaves unread waits *)
(* for the next arrival or the next change of the interest.  It carries    *)
(* whole items: an interleaved frame, a request of the server, the answer  *)
(* to a request, the first part of an answer.  The server answers anything *)
(* that fits the request, late or never, and may close or reset at any     *)
(* time.  Time is abstract: a deadline may have passed in any state that   *)
(* has one.  Left out: what headers say beyond the transport, the          *)
(* arithmetic of digests, failures of allocation and of the poller, and    *)
(* bytes that are none of the items above.                                 *)
(***************************************************************************)
EXTENDS Integers, FiniteSets, Sequences, SequencesExt

CONSTANTS
    Kinds,          \* what the client may ask for: "stream", "duration", "metadata", or
                    \* "portless", a stream on a host without a free pair of UDP ports
    Stun,           \* rtsp_stun_server is set
    Credentials,    \* the URL has a user name
    Candidates,     \* addresses the server's name resolves to
    MaxRedirects,   \* RTSP_MAX_REDIRECTS
    MaxChallenges,  \* how often a request may be challenged
    Redirecting,    \* requests a server may answer with a redirect
    BufferItems,    \* RTSP_RESPONSE_BUFFER_SIZE
    Room,           \* frames the client's queue takes before reading pauses
    MaxItems,       \* bound: frames and requests the server sends
    MaxKeepalives   \* bound: keepalives

ASSUME RtspAssumption ==
    /\ Kinds \subseteq {"stream", "portless", "duration", "metadata"} /\ Kinds # {}
    /\ {Stun, Credentials} \subseteq BOOLEAN
    /\ {Candidates, BufferItems, Room} \subseteq Nat \ {0}
    /\ {MaxRedirects, MaxChallenges, MaxItems, MaxKeepalives} \subseteq Nat

VARIABLES
    kind,     \* what the client asked for
    sess,     \* rtsp_session_t
    link,     \* the control connection, seen from the server
    viewer    \* the client's connection

vars == <<kind, sess, link, viewer>>

\* state, socket, the candidates left, pending_request and whether a part of it
\* went out, awaiting_response, keepalive_pending, awaiting_keepalive_response,
\* use_get_parameter, session_id, the transport, the UDP sockets, the STUN
\* exchange, the mapping it found and the one DESCRIBE has named,
\* describe_waiting_for_stun, first_media_received, teardown_requested,
\* teardown_reconnect_done, redirect_count, auth_retry_count, upstream_paused,
\* response_buffer, peer_closed, POLLER_OUT, initialized.
NewSession ==
    [st |-> "INIT", open |-> FALSE, left |-> 0, pend |-> "none", part |-> FALSE,
     awaiting |-> FALSE, kaQueued |-> FALSE, kaAwaited |-> FALSE, useGet |-> TRUE,
     sid |-> FALSE, tcp |-> FALSE, udp |-> FALSE, stun |-> "idle", map |-> "none",
     named |-> "none", parked |-> FALSE, media |-> FALSE, tearing |-> FALSE,
     reconnected |-> FALSE, redirects |-> 0, auths |-> 0, paused |-> FALSE, buf |-> <<>>,
     eof |-> FALSE, out |-> FALSE, live |-> TRUE]

\* Requests the server has not answered, what it has sent that is unread, how
\* it ended, an event not yet reported, whether it plays interleaved, and
\* whether a request it was sent is cut short.
NewLink == [todo |-> <<>>, wire |-> <<>>, fin |-> "open", edge |-> FALSE, plays |-> FALSE,
            torn |-> FALSE]

\* The connection's state, headers_sent, room in its queue, items the server
\* sent of itself, frames forwarded, keepalives so far, and the redirects
\* followed.
NewViewer == [conn |-> "streaming", headers |-> FALSE, room |-> Room, sent |-> 0,
              got |-> 0, kas |-> 0, moves |-> 0]

Init == kind \in Kinds /\ sess = NewSession /\ link = NewLink /\ viewer = NewViewer

\* What a call works on; gen tells the connections apart, mod whether the
\* interest was set anew, ret is what it returns.
Now == [sess |-> sess, link |-> link, viewer |-> viewer, gen |-> 0, mod |-> FALSE, ret |-> "ok"]

Becomes(x) ==
    /\ sess' = x.sess /\ link' = x.link /\ viewer' = x.viewer /\ UNCHANGED kind

With(x, F(_)) == F(x)

Returns(x, r) == [x EXCEPT !.ret = r]
Goes(x, st) == [x EXCEPT !.sess.st = st]

Ready(x) == x.link.wire # <<>> \/ x.link.fin # "open"

\* poller_mod().
Interest(x, out) == [x EXCEPT !.sess.out = out, !.mod = TRUE]

-----------------------------------------------------------------------------
(* Sockets. *)

\* rtsp_setup_udp_sockets().
SetupUdpSockets(s) == [s EXCEPT !.udp = kind # "portless"]

\* rtsp_close_udp_sockets(): a mapping found for them is nobody's any more.
CloseUdp(s) == [s EXCEPT !.udp = FALSE, !.map = IF @ = "own" THEN "stale" ELSE @]

\* rtsp_force_cleanup(); what a finished session still holds does not matter.
ForceCleanup(x) ==
    [x EXCEPT !.sess = [NewSession EXCEPT !.live = FALSE], !.link = NewLink]

\* rtsp_session_set_state(RTSP_STATE_ERROR).
Fails(x) == Returns(ForceCleanup(x), "close")

\* rtsp_try_next_candidate(): how it may end.  Candidates that fail at once are
\* passed over; with another family the UDP sockets and STUN start again.  A
\* request of which a part went out, went out on the connection before.
Opened(x, left, switch) ==
    LET s == IF switch /\ x.sess.udp
             THEN [CloseUdp(x.sess) EXCEPT !.stun = "idle", !.map = "none"] ELSE x.sess
        st == IF s.st = "RECONNECTING" THEN s.st ELSE "CONNECTING"
    IN  [x EXCEPT !.link = NewLink, !.gen = @ + 1,
                  !.sess = [s EXCEPT !.st = st, !.open = TRUE, !.left = left, !.out = TRUE,
                                     !.part = FALSE]]

TryNextCandidate(x) ==
    {Returns([x EXCEPT !.sess.left = 0, !.sess.open = FALSE], "failed")}
    \union {Opened(x, left, switch) : left \in 0..(x.sess.left - 1), switch \in BOOLEAN}

\* rtsp_connect(), and the STUN request that may go out before.
EarlyStun(x) ==
    IF kind # "metadata" /\ Stun /\ ~x.sess.udp /\ x.sess.stun = "idle"
    THEN LET s == SetupUdpSockets(x.sess)
         IN  {[x EXCEPT !.sess = [s EXCEPT !.stun = to]] :
              to \in IF s.udp THEN {"idle", "asking"} ELSE {"idle"}}
    ELSE {x}

RtspConnect(x) ==
    UNION {TryNextCandidate(y) :
           y \in EarlyStun([x EXCEPT !.sess.eof = FALSE, !.sess.left = Candidates])}

-----------------------------------------------------------------------------
(* Requests. *)

\* rtsp_prepare_request(): a request that is half sent is forgotten.
Prepare(x, m) ==
    [x EXCEPT !.sess.pend = m, !.sess.part = FALSE, !.link.torn = @ \/ x.sess.part]

\* rtsp_nat_endpoint().
Endpoint(s) == s.map

\* rtsp_state_machine_advance().
DescribeAtOnce(x) ==
    Goes(Prepare([x EXCEPT !.sess.parked = FALSE, !.sess.named = Endpoint(x.sess)], "DESCRIBE"),
         "SENDING_DESCRIBE")

Describe(x) ==
    IF x.sess.stun = "asking" THEN [x EXCEPT !.sess.parked = TRUE] ELSE DescribeAtOnce(x)

Advance(x) ==
    CASE x.sess.st = "CONNECTED" -> Goes(Prepare(x, "OPTIONS"), "SENDING_OPTIONS")
      [] x.sess.st = "AWAITING_OPTIONS" -> Describe(x)
      [] x.sess.st = "DESCRIBED" ->
            Goes(Prepare([x EXCEPT !.sess = SetupUdpSockets(@)], "SETUP"), "SENDING_SETUP")
      [] x.sess.st = "SETUP" -> Goes(Prepare(x, "PLAY"), "SENDING_PLAY")
      [] x.sess.st = "RECONNECTING" ->
            IF x.sess.tearing THEN Goes(Prepare(x, "TEARDOWN"), "SENDING_TEARDOWN") ELSE Fails(x)
      [] x.sess.st = "TEARDOWN_COMPLETE" -> Returns(ForceCleanup(x), "close")
      [] OTHER -> x

AwaitingAfter ==
    [SENDING_OPTIONS |-> "AWAITING_OPTIONS", SENDING_DESCRIBE |-> "AWAITING_DESCRIBE",
     SENDING_SETUP |-> "AWAITING_SETUP", SENDING_PLAY |-> "AWAITING_PLAY",
     SENDING_TEARDOWN |-> "AWAITING_TEARDOWN", PLAYING |-> "PLAYING"]

\* rtsp_try_send_pending() from an event that says writable: all, or a part; any
\* other event sends nothing.
SentEntirely(x) ==
    LET s == x.sess
    IN  Interest([x EXCEPT
            !.link.todo = Append(@, IF x.link.torn THEN "BROKEN" ELSE s.pend),
            !.link.torn = FALSE,
            !.sess = [s EXCEPT !.pend = "none", !.part = FALSE, !.awaiting = TRUE,
                               !.buf = IF s.tcp /\ s.st = "PLAYING" THEN s.buf ELSE <<>>,
                               !.kaAwaited = s.kaAwaited \/ s.kaQueued, !.kaQueued = FALSE,
                               !.st = AwaitingAfter[s.st]]], FALSE)

SendPending(x, sent) ==
    IF x.sess.pend = "none" \/ sent = "none" THEN x
    ELSE CASE sent = "all" -> SentEntirely(x)
           [] sent = "part" -> [x EXCEPT !.sess.part = TRUE]
           [] sent = "fail" -> Fails(x)

-----------------------------------------------------------------------------
(* Interleaved media. *)

\* stream_process_rtp_payload() for a frame.
Forward(x) ==
    IF x.sess.tearing THEN x
    ELSE [x EXCEPT !.sess.media = TRUE, !.viewer.headers = TRUE, !.viewer.got = @ + 1,
                   !.viewer.room = IF @ = 0 THEN 0 ELSE @ - 1]

\* rtsp_process_interleaved_buffer(): frames and requests of the server up to
\* the first answer.
Consume(x, i) ==
    LET k == Head(x.sess.buf).k
        y == [x EXCEPT !.sess.buf = Tail(@)]
    IN  IF x.ret # "ok" \/ x.sess.buf = <<>> THEN x
        ELSE CASE k = "frame" -> Forward(y)
               [] k = "request" -> y
               [] k = "announce" -> Returns(y, "end")
               [] OTHER -> x

ProcessBuffer(x) == FoldLeft(Consume, x, x.sess.buf)

\* recv() into what is left of the buffer.
Fits(x) ==
    LET space == BufferItems - Len(x.sess.buf)
    IN  IF Len(x.link.wire) < space THEN Len(x.link.wire) ELSE space

Recv(x) ==
    [x EXCEPT !.sess.buf = @ \o SubSeq(x.link.wire, 1, Fits(x)),
              !.link.wire = SubSeq(@, Fits(x) + 1, Len(@))]

\* rtsp_handle_tcp_interleaved_data(): a round of its loop, which ends when the
\* client's queue is full, the socket has no more, or nothing fits any more.
ReadRound(x) ==
    IF x.viewer.room = 0 THEN Returns([x EXCEPT !.sess.paused = x.sess.tcp], "stop")
    ELSE With(Recv(x), LAMBDA r : With(ProcessBuffer(r), LAMBDA y :
            CASE y.ret = "end" -> y
              [] y.ret # "end" /\ Len(r.sess.buf) < BufferItems ->
                    Returns(y, IF r.link.fin = "open" THEN "stop" ELSE "end")
              [] OTHER -> IF Len(y.sess.buf) = BufferItems THEN Returns(y, "stop") ELSE y))

ReadOn(x, i) == IF x.ret = "ok" THEN ReadRound(x) ELSE x

ReadMedia(x) ==
    With(FoldLeft(ReadOn, x, [i \in 1..(Len(x.link.wire) + 2) |-> i]),
         LAMBDA y : IF y.ret = "end" THEN y ELSE Returns(y, "ok"))

\* The upstream has ended: what the client is still owed is sent first.
Drains(x) ==
    Returns([ForceCleanup(x) EXCEPT
                !.viewer.conn = IF @ = "streaming" THEN "closing" ELSE @], "ok")

PlayOn(x) == With(ReadMedia(x), LAMBDA y : IF y.ret = "end" THEN Drains(y) ELSE y)

-----------------------------------------------------------------------------
(* Answers. *)

\* rtsp_handle_redirect(): what the old server gave is dropped with it.
Redirect(x) ==
    IF x.sess.redirects >= MaxRedirects THEN {Returns(x, "error")}
    ELSE LET y == [x EXCEPT !.sess.redirects = @ + 1, !.sess.sid = FALSE, !.sess.buf = <<>>]
         IN  {IF z.ret = "failed" THEN Returns(z, "error")
              ELSE [z EXCEPT !.viewer.moves = @ + 1] : z \in RtspConnect(y)}

\* A challenge: the state is set back so that the request is sent again.
BackBefore ==
    [AWAITING_OPTIONS |-> "CONNECTED", AWAITING_DESCRIBE |-> "AWAITING_OPTIONS",
     AWAITING_SETUP |-> "DESCRIBED", AWAITING_PLAY |-> "SETUP"]

Challenge(x) ==
    IF x.sess.auths >= MaxChallenges \/ ~Credentials THEN Returns(x, "error")
    ELSE [x EXCEPT !.sess.auths = @ + 1,
                   !.sess.st = IF @ \in DOMAIN BackBefore THEN BackBefore[@] ELSE @]

\* rtsp_parse_transport_header().
Transport(x, tcp) ==
    LET s == [x.sess EXCEPT !.tcp = tcp, !.sid = TRUE, !.named = "none",
                            !.kaQueued = FALSE, !.useGet = TRUE]
    IN  [x EXCEPT !.sess = IF tcp THEN CloseUdp(s) ELSE s]

\* rtsp_parse_response_header() for an answer that is complete.
Understood(x, code, was) ==
    CASE code = "redirect" -> Redirect(x)
      [] code = "challenge" -> {Challenge(x)}
      [] code = "unsupported" /\ was /\ x.sess.useGet -> {[x EXCEPT !.sess.useGet = FALSE]}
      [] code \in {"tcp", "udp"} -> {Transport(x, code = "tcp")}
      [] code = "ok" -> {x}
      [] OTHER -> {Returns(x, "error")}

\* The rest of rtsp_try_receive_response(): before and after are the frames
\* around the answer.
ResponseTaken(x, was, before, after) ==
    LET clean == [x EXCEPT !.sess.buf = <<>>]
        describe == CASE kind = "metadata" -> Returns(clean, "metadata")
                      [] kind = "duration" -> Returns(clean, "duration")
                      [] kind \in {"stream", "portless"} ->
                            Returns(Goes(clean, "DESCRIBED"), "advance")
    IN  CASE was -> Returns([x EXCEPT !.sess.buf = before \o after], "keepalive")
          [] ~was /\ x.sess.st = "AWAITING_OPTIONS" -> Returns(clean, "advance")
          [] ~was /\ x.sess.st = "AWAITING_DESCRIBE" -> describe
          [] ~was /\ x.sess.st = "AWAITING_SETUP" -> Returns(Goes(clean, "SETUP"), "advance")
          [] ~was /\ x.sess.st = "AWAITING_PLAY" ->
                Goes([clean EXCEPT !.sess.buf = IF x.sess.tcp THEN after ELSE <<>>], "PLAYING")
          [] ~was /\ x.sess.st = "AWAITING_TEARDOWN" -> Goes(clean, "TEARDOWN_COMPLETE")
          [] OTHER -> clean

\* Where the text of an answer starts, and whether all of it is there.
NeedMore(x) ==
    IF x.sess.eof THEN Returns(x, "error")
    ELSE IF x.sess.tcp /\ x.sess.buf # <<>> /\ Head(x.sess.buf).k = "frame"
    THEN With(ProcessBuffer(x), LAMBDA y : IF y.ret = "end" THEN Returns(y, "error") ELSE y)
    ELSE x

Parse(x) ==
    LET b == x.sess.buf
        text == {i \in DOMAIN b : b[i].k # "frame"}
        at == CHOOSE i \in text : \A j \in text : i <= j
        end == IF b[at].k = "lead" THEN at + 1 ELSE at
        was == x.sess.kaAwaited
        y == [x EXCEPT !.sess.awaiting = FALSE, !.sess.kaAwaited = FALSE]
    IN  IF text = {} \/ (b[at].k = "lead" /\ end > Len(b)) THEN {NeedMore(x)}
        ELSE IF b[at].k \in {"request", "announce"} THEN {Returns(y, "error")}
        ELSE {IF z.ret = "error" \/ z.gen > x.gen THEN z
              ELSE ResponseTaken(z, was, SubSeq(b, 1, at - 1), SubSeq(b, end + 1, Len(b))) :
              z \in Understood(y, b[end].code, was)}

\* rtsp_try_receive_response().
Receive(x) ==
    IF Len(x.sess.buf) = BufferItems THEN Parse(x)
    ELSE CASE x.link.fin = "reset" -> {Returns(x, "error")}
           [] x.link.fin # "reset" /\ x.link.wire # <<>> -> Parse(Recv(x))
           [] x.link.fin = "open" /\ x.link.wire = <<>> -> {x}
           [] x.link.fin = "eof" /\ x.link.wire = <<>> ->
                 IF x.sess.buf = <<>> THEN {Returns(x, "error")}
                 ELSE Parse([x EXCEPT !.sess.eof = TRUE])

\* While the socket is closing it is called again as long as the buffer grows.
Received(y) == {[now |-> z, grew |-> Len(z.sess.buf) > Len(y.sess.buf)] : z \in Receive(y)}

ReceivedOn(S, i) ==
    UNION {IF p.now.ret = "ok" /\ p.now.sess.awaiting /\ p.grew THEN Received(p.now) ELSE {p} :
           p \in S}

ReceiveAll(x, hup) ==
    {p.now : p \in IF hup THEN FoldLeft(ReceivedOn, Received(x),
                                        [i \in 1..(Len(x.link.wire) + 1) |-> i])
                   ELSE Received(x)}

-----------------------------------------------------------------------------
(* Events of the control socket. *)

InterleavedPlay(s) == s.st = "PLAYING" /\ s.tcp

\* rtsp_handle_terminal_socket_event().
Terminal(x) ==
    CASE x.sess.st \in {"SENDING_TEARDOWN", "AWAITING_TEARDOWN"} ->
            Returns(ForceCleanup(x), "close")
      [] x.sess.st = "PLAYING" -> Drains(x)
      [] OTHER -> Fails(x)

\* What rtsp_handle_socket_event() does with the answer it got.
Acts(y) ==
    With(Returns(IF y.ret = "advance" THEN Interest(y, TRUE) ELSE y, "ok"), LAMBDA z :
        IF z.sess.awaiting THEN z
        ELSE With(Advance(z), LAMBDA v :
                IF v.ret = "ok" /\ v.sess.st = "PLAYING" THEN PlayOn(v) ELSE v))

KeepaliveDone(y) ==
    IF ~y.sess.tcp THEN Returns(y, "ok")
    ELSE With(ProcessBuffer(Returns(y, "ok")), LAMBDA z : IF z.ret = "end" THEN Fails(z) ELSE z)

Answered(y, hup) ==
    LET closed == y.sess.eof \/ hup
        own == y.gen = 0
    IN  CASE y.ret = "error" -> Fails(y)
          [] y.ret \in {"duration", "metadata"} -> y
          [] y.ret \notin {"error", "duration", "metadata"} /\ own /\ closed
             /\ ~InterleavedPlay(y.sess) -> Terminal(y)
          [] y.ret = "keepalive" /\ ~closed -> KeepaliveDone(y)
          [] OTHER -> Acts(y)

Readable(x, hup) ==
    IF x.sess.awaiting THEN {Answered(y, hup) : y \in ReceiveAll(x, hup)}
    ELSE IF x.sess.st = "PLAYING" THEN {PlayOn(x)}
    ELSE {x}

\* rtsp_handle_socket_event() once it is connected; a closed socket is readable.
HandleEventHasty(x, sent) ==
    LET in == Ready(x)
        hup == x.link.fin # "open"
    IN  IF hup /\ ~x.sess.awaiting THEN {Terminal(x)}
        ELSE UNION {IF y.ret = "close" \/ ~in THEN {y} ELSE Readable(y, hup) :
                    y \in {SendPending(x, sent)}}

HandleEvent(x, sent) ==
    LET in == Ready(x)
        hup == x.link.fin # "open"
    IN  IF hup /\ ~(x.sess.awaiting \/ InterleavedPlay(x.sess)) THEN {Terminal(x)}
        ELSE UNION {IF y.ret = "close" \/ ~in THEN {y} ELSE Readable(y, hup) :
                    y \in {SendPending(x, sent)}}

\* rtsp_capture_control_endpoints(): the local address may differ from that of
\* the connection before.
CaptureControlEndpoints(s, moved) == IF moved THEN CloseUdp(s) ELSE s

\* The part of it that finds the connection made.
HandleConnected(x, sent, moved) ==
    LET s == [CaptureControlEndpoints(x.sess, moved)
              EXCEPT !.left = 0, !.st = IF @ = "CONNECTING" THEN "CONNECTED" ELSE @]
    IN  UNION {IF y.ret = "close" \/ ~Ready(y) THEN {y} ELSE Readable(y, FALSE) :
               y \in {With(Advance(Interest([x EXCEPT !.sess = s], TRUE)), LAMBDA v :
                          IF v.ret = "close" THEN v ELSE SendPending(v, sent))}}

-----------------------------------------------------------------------------
(* The client's connection. *)

Freed(x) == [ForceCleanup(x) EXCEPT !.viewer.conn = "freed"]

\* rtsp_session_cleanup() for a session that plays: TEARDOWN over this
\* connection or, if it is broken, over another.
Teardown(x) ==
    LET s == [CloseUdp(x.sess) EXCEPT !.tearing = TRUE]
        here == Interest([Goes(Prepare([x EXCEPT !.sess = s], "TEARDOWN"), "SENDING_TEARDOWN")
                          EXCEPT !.sess = [@ EXCEPT !.kaQueued = FALSE, !.kaAwaited = FALSE,
                                                    !.awaiting = FALSE, !.buf = <<>>],
                                 !.viewer.conn = "deferred"], TRUE)
        again == [x EXCEPT !.sess = [s EXCEPT !.reconnected = TRUE, !.open = FALSE],
                           !.viewer.conn = "deferred"]
    IN  IF x.link.fin # "reset" THEN {here}
        ELSE {IF y.ret = "failed" THEN Freed(y) ELSE Goes(y, "RECONNECTING") :
              y \in RtspConnect(again)}

\* worker_close_and_free_connection().
CloseConnection(x) ==
    IF x.sess.live /\ x.sess.st \in {"PLAYING", "SETUP"} /\ x.viewer.conn # "deferred"
    THEN Teardown(x) ELSE {Freed(x)}

\* worker_run_event_loop() with what the event returned.
Unavailable(x) == [x EXCEPT !.viewer.headers = TRUE, !.viewer.conn = "closing"]

Served(x) ==
    CASE x.ret = "ok" -> {x}
      [] x.ret = "duration" -> {Unavailable(x)}
      [] x.ret = "metadata" -> {Unavailable(ForceCleanup(x))}
      [] x.ret = "close" ->
            IF ~x.viewer.headers /\ x.viewer.conn = "streaming" THEN {Unavailable(x)}
            ELSE CloseConnection(x)

TickFailed(x) ==
    IF ~x.viewer.headers /\ x.viewer.conn # "deferred" THEN {Unavailable(x)}
    ELSE CloseConnection(x)

\* A change of the interest reports what is ready.
Rearmed(x) == [x EXCEPT !.link.edge = @ \/ (x.mod /\ Ready(x))]

-----------------------------------------------------------------------------
(* Steps of the worker. *)

Serve(outcomes) == \E x \in outcomes : \E y \in Served(Rearmed(x)) : Becomes(y)

Watched == viewer.conn \in {"streaming", "closing"}

\* stream_init_rtsp_control(); a stream that cannot start gets a 503.
Start ==
    /\ sess.live /\ sess.st = "INIT" /\ viewer.conn = "streaming"
    /\ \E x \in RtspConnect(Now) :
          Becomes(IF x.ret = "failed" THEN Unavailable(ForceCleanup(x)) ELSE x)

Connecting == sess.live /\ sess.st \in {"CONNECTING", "RECONNECTING"}

\* The attempt to connect succeeds, which makes the socket writable, or fails.
Connected ==
    /\ Connecting
    /\ \E sent \in {"all", "part", "fail"}, moved \in {FALSE, sess.udp} :
          Serve(HandleConnected(Now, sent, moved))

ConnectFails ==
    /\ Connecting
    /\ Serve({IF x.ret = "failed" THEN Fails(x) ELSE x :
              x \in TryNextCandidate([Now EXCEPT !.sess.open = FALSE])})

Writable == sess.out /\ sess.pend # "none"

SocketReady == sess.live /\ sess.open /\ ~Connecting /\ (link.edge \/ Writable)

SocketEvent ==
    /\ SocketReady
    /\ \E sent \in IF Writable THEN {"all", "part", "fail"} ELSE {"none"} :
          Serve(HandleEvent([Now EXCEPT !.link.edge = FALSE], sent))

\* rtsp_session_tick(): states with a deadline, when it has passed.
HasDeadlineExceptTeardown(s) ==
    \/ s.st \in {"CONNECTING", "AWAITING_OPTIONS"} /\ ~s.parked
    \/ s.st \in {"AWAITING_DESCRIBE", "AWAITING_SETUP", "AWAITING_PLAY", "RECONNECTING"}
    \/ s.st = "PLAYING" /\ ~s.media

HasDeadline(s) ==
    \/ s.st \in {"CONNECTING", "AWAITING_OPTIONS"} /\ ~s.parked
    \/ s.st \in {"AWAITING_DESCRIBE", "AWAITING_SETUP", "AWAITING_PLAY", "RECONNECTING",
                 "SENDING_TEARDOWN", "AWAITING_TEARDOWN"}
    \/ s.st = "PLAYING" /\ ~s.media

MayTimeOut == sess.live /\ viewer.conn # "freed" /\ HasDeadline(sess)

Timeout ==
    /\ MayTimeOut
    /\ LET next == IF Connecting /\ sess.left > 0
                   THEN TryNextCandidate([Now EXCEPT !.sess.open = FALSE])
                   ELSE {Returns(Now, "failed")}
       IN  \E x \in next :
              IF x.ret = "failed" THEN \E y \in TickFailed(ForceCleanup(x)) : Becomes(y)
              ELSE Becomes(x)

\* The STUN exchange ends: stun_parse_response() in rtsp_handle_udp_rtp_data(),
\* or stun_check_timeout() in rtsp_session_tick().
UnparkAlways(x) == Interest(DescribeAtOnce(x), TRUE)

Unpark(x) == IF x.sess.parked THEN Interest(DescribeAtOnce(x), TRUE) ELSE x

StunAnswered ==
    /\ sess.live /\ sess.udp /\ sess.stun = "asking"
    /\ Becomes(Rearmed(Unpark([Now EXCEPT !.sess.stun = "done", !.sess.map = "own"])))

StunGivesUp ==
    /\ sess.live /\ sess.stun = "asking" /\ sess.parked
    /\ Becomes(Rearmed(Unpark([Now EXCEPT !.sess.stun = "done"])))

\* A datagram with media: rtsp_handle_udp_rtp_data().
Datagram ==
    /\ sess.live /\ sess.udp /\ sess.st \in {"AWAITING_PLAY", "PLAYING"} /\ ~sess.media
    /\ Becomes([Now EXCEPT !.sess.media = TRUE, !.viewer.headers = TRUE])

\* rtsp_send_keepalive() from rtsp_session_tick(), when the interval has passed.
Busy(s) == s.pend # "none" \/ s.awaiting \/ s.kaQueued \/ s.kaAwaited

Keepalive ==
    /\ sess.live /\ sess.st = "PLAYING" /\ sess.sid /\ ~Busy(sess)
    /\ viewer.kas < MaxKeepalives
    /\ Becomes(Rearmed(Interest(Prepare(
          [Now EXCEPT !.sess.kaQueued = TRUE, !.viewer.kas = @ + 1], "KEEPALIVE"), TRUE)))

-----------------------------------------------------------------------------
(* The client and the server. *)

\* The client reads: rtsp_resume_upstream() from stream_on_client_drain().
ViewerReads ==
    /\ Watched /\ viewer.room < Room
    /\ LET x == [Now EXCEPT !.viewer.room = Room]
       IN  Becomes(IF sess.paused THEN PlayOn([x EXCEPT !.sess.paused = FALSE]) ELSE x)

\* It has all there is for it, or hangs up.
Drained ==
    /\ viewer.conn = "closing"
    /\ \E x \in CloseConnection(Now) : Becomes(Rearmed(x))

Leaves ==
    /\ Watched
    /\ \E x \in CloseConnection(Now) : Becomes(Rearmed(x))

Codes(m) ==
    {"challenge", "refuse"} \union (IF m \in Redirecting THEN {"redirect"} ELSE {})
    \union CASE m = "SETUP" -> IF sess.udp THEN {"tcp", "udp"} ELSE {"tcp"}
             [] m = "KEEPALIVE" -> {"ok", "unsupported"}
             [] OTHER -> {"ok"}

Arrives(items) == [link EXCEPT !.wire = @ \o items, !.edge = TRUE]
Item(k) == [k |-> k]
Answer(m, code) == [k |-> "answer", to |-> m, code |-> code]

Asked == link.todo # <<>> /\ link.fin = "open"
Unfinished(items) == IF items = <<>> THEN FALSE ELSE Last(items).k = "lead"
MidAnswer == Unfinished(IF link.wire = <<>> THEN sess.buf ELSE link.wire)

\* An answer comes at once or in two parts.
ServerAnswers ==
    /\ Asked
    /\ \E code \in IF Head(link.todo) = "BROKEN" THEN {"refuse"} ELSE Codes(Head(link.todo)) :
          link' = [Arrives(<<Answer(Head(link.todo), code)>>)
                   EXCEPT !.todo = Tail(@),
                          !.plays = @ \/ (Head(link.todo) = "PLAY" /\ code = "ok" /\ sess.tcp)]
    /\ UNCHANGED <<kind, sess, viewer>>

ServerBegins ==
    /\ Asked /\ ~MidAnswer
    /\ link' = Arrives(<<Item("lead")>>)
    /\ UNCHANGED <<kind, sess, viewer>>

ServerPlays ==
    /\ link.plays /\ link.fin = "open" /\ ~MidAnswer /\ viewer.sent < MaxItems
    /\ link' = Arrives(<<Item("frame")>>)
    /\ viewer' = [viewer EXCEPT !.sent = @ + 1]
    /\ UNCHANGED <<kind, sess>>

ServerRequests ==
    /\ link.plays /\ link.fin = "open" /\ ~MidAnswer /\ viewer.sent < MaxItems
    /\ \E k \in {"request", "announce"} : link' = Arrives(<<Item(k)>>)
    /\ viewer' = [viewer EXCEPT !.sent = @ + 1]
    /\ UNCHANGED <<kind, sess>>

\* It closes, or resets what has not been read with it.
ServerEnds ==
    /\ sess.live /\ sess.open /\ ~Connecting /\ link.fin = "open"
    /\ \E fin \in {"eof", "reset"} :
          link' = [link EXCEPT !.fin = fin, !.edge = TRUE,
                               !.wire = IF fin = "reset" THEN <<>> ELSE @]
    /\ UNCHANGED <<kind, sess, viewer>>

Next ==
    \/ Start \/ Connected \/ ConnectFails \/ SocketEvent \/ Timeout
    \/ StunAnswered \/ StunGivesUp \/ Datagram \/ Keepalive
    \/ ViewerReads \/ Drained \/ Leaves
    \/ ServerAnswers \/ ServerBegins \/ ServerPlays \/ ServerRequests \/ ServerEnds

\* The loop reports events and ticks as long as it runs: an event that is ready
\* and a deadline that has passed are taken up.  Servers and clients owe nothing.
Fairness ==
    /\ []<>~SocketReady \/ []<><<sess' # sess \/ link'.edge # link.edge>>_vars
    /\ []<>~MayTimeOut \/ []<><<sess' # sess>>_vars

Spec == Init /\ [][Next]_vars /\ Fairness

-----------------------------------------------------------------------------
(* Properties. *)

States ==
    {"INIT", "CONNECTING", "RECONNECTING", "SENDING_OPTIONS", "AWAITING_OPTIONS",
     "SENDING_DESCRIBE", "AWAITING_DESCRIBE", "SENDING_SETUP", "AWAITING_SETUP",
     "SENDING_PLAY", "AWAITING_PLAY", "PLAYING", "SENDING_TEARDOWN", "AWAITING_TEARDOWN"}

\* The session rests in no passing state, a request is prepared exactly in the
\* states that send it (one may be left over while it connects), and the buffers
\* are within their size.
TypeOK ==
    /\ sess.st \in States
    /\ sess.pend \in {"none", "OPTIONS", "DESCRIBE", "SETUP", "PLAY", "TEARDOWN", "KEEPALIVE"}
    /\ Len(sess.buf) <= BufferItems
    /\ viewer.conn \in {"streaming", "closing", "deferred", "freed"}
    /\ \/ sess.st \in {"CONNECTING", "RECONNECTING"}
       \/ sess.pend # "none" <=> (sess.st \in DOMAIN AwaitingAfter \ {"PLAYING"} \/ sess.kaQueued)

Answers(items) == Cardinality({i \in DOMAIN items : items[i].k = "answer"})

\* "resuming in the latter would pipeline DESCRIBE behind an unanswered
\* OPTIONS" (rtsp.h): answers are matched to requests by nothing but their
\* order, so there is never a second request before the first is answered.
\* Only TEARDOWN does not wait for a keepalive.
OneExchange ==
    /\ TypeOK
    /\ (IF sess.pend = "none" THEN 0 ELSE 1)
       + Len(link.todo) + Answers(link.wire) + Answers(sess.buf)
         <= IF sess.tearing THEN 2 ELSE 1

\* DESCRIBE is held back for STUN so that SETUP does not advertise another
\* endpoint than the x-NAT header of DESCRIBE did.
SameEndpoint == sess.pend = "SETUP" => Endpoint(sess) = sess.named

\* When the server ends an interleaved stream the client gets every frame that
\* arrived before the end, or before the announcement of it, unless the answer
\* to a keepalive lies between them.
FramesBeforeEnd(items) ==
    LET ends == {i \in DOMAIN items : items[i].k = "announce"}
    IN  Cardinality({i \in DOMAIN items : items[i].k = "frame" /\ \A j \in ends : i < j})

LastMediaIsForwarded ==
    [][InterleavedPlay(sess) /\ ~sess.awaiting /\ viewer.conn = "streaming" /\ viewer.headers
          /\ viewer'.conn = "closing"
       => viewer'.got = viewer.got + FramesBeforeEnd(sess.buf \o link.wire)]_vars

\* A client that has gone while its session played is forgotten in the end,
\* whatever becomes of TEARDOWN, if no redirect answers that.
LeftMeansGone == viewer.conn = "deferred" ~> viewer.conn = "freed"
=============================================================================
