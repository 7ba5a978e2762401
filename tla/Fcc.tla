-------------------------------- MODULE Fcc --------------------------------
(***************************************************************************)
(* One Fast Channel Change session (fcc.c, fcc_telecom.c, fcc_huawei.c):   *)
(* the client asks an FCC server for a unicast burst that starts behind    *)
(* the live multicast, joins the multicast when told to, and hands over    *)
(* once the burst has caught up.  Every message is a UDP datagram.         *)
(*                                                                         *)
(* A step is one datagram taken from a socket, one tick of the worker, or  *)
(* the end of the connection; the worker runs them one at a time.          *)
(***************************************************************************)
EXTENDS ReorderWindow, SequencesExt

CONSTANTS
    Vendors,       \* the protocols a service may ask for
    Servers,       \* FCC server endpoints
    FirstServer,   \* the one the service names
    NoServer,      \* a response that names no endpoint
    MaxRedirects,  \* FCC_MAX_REDIRECTS
    SignalTicks,   \* FCC_TIMEOUT_SIGNALING_MS, in ticks of the worker
    UnicastTicks,  \* FCC_TIMEOUT_UNICAST_SEC
    McastTicks,    \* MCAST_TIMEOUT_SEC
    SyncTicks,     \* FCC_TIMEOUT_SYNC_WAIT_SEC
    Start,         \* the packet the burst starts at
    Lag,           \* how many packets the burst starts behind the live ones
    Kinds,         \* what the control messages may say
    MaxControl,    \* bound: control messages the servers send
    MaxFlight,     \* how far a packet of the burst may overtake another
    MaxPacket,     \* bound: the last packet of the source
    MaxLosses,     \* bound: media packets that get lost
    SendMayFail,   \* sendto() may fail
    JoinMayFail    \* mcast_session_join() may fail

ASSUME FccAssumption ==
    /\ Vendors \subseteq {"telecom", "huawei"}
    /\ FirstServer \in Servers /\ NoServer \notin Servers
    /\ MaxRedirects \in Nat
    /\ SignalTicks \in Nat \ {0} /\ UnicastTicks \in Nat \ {0}
    /\ McastTicks \in Nat \ {0} /\ SyncTicks \in Nat \ {0}
    /\ Start \in Nat /\ Lag \in Nat /\ MaxControl \in Nat /\ MaxFlight \in Nat /\ MaxPacket \in Nat
    /\ MaxLosses \in Nat
    /\ Kinds \subseteq {"error", "noUnicast", "unicast", "redirect", "unknown", "sync"}
    /\ {SendMayFail, JoinMayFail} \subseteq BOOLEAN

\* What a seamless handover needs of the network: a burst and the multicast that
\* follows it are less than half the sequence numbers apart, and what may overtake
\* a packet fits into the window with those collected before delivery begins.
Near ==
    /\ 1 <= MaxFlight /\ InitCollect - 1 + MaxFlight <= W
    /\ Lag <= M \div 2 /\ MaxPacket + 1 - Start <= M \div 2

VARIABLES
    vendor,     \* type
    state,      \* fcc_state_t, "CLOSED" once the stream is cleaned up
    server,     \* fcc_server
    verify,     \* verify_server_ip
    redirects,  \* redirect_count
    termSent,   \* fcc_term_sent
    termSeq,    \* fcc_term_seqn
    pending,    \* the chain at pending_list_head
    win,        \* the stream's reorder window
    joined,     \* the stream's mcast session has a source
    failed,     \* mcast_session_t.failed
    idle,       \* ticks since last_data_time, -1 while the next one comes at once
    waited,     \* ticks since unicast_start_time, -1 while that is zero
    quiet,      \* ticks since the multicast source's last_data_time
    flight,     \* unicast packets under way
    nextUni,    \* the next packet of the burst
    live,       \* the next packet of the multicast
    control,    \* control messages the servers may still send
    losses,     \* media packets lost so far, or dropped by the session
    requests,   \* requests sent
    terms,      \* termination messages sent and to whom, and ones that sendto() refused
    promised,   \* the endpoints that a burst was accepted for
    fell,       \* the session went to multicast without a handover
    last, out   \* what the viewer got: see InOrderDelivery

session == <<vendor, state, server, verify, redirects, termSent, termSeq, joined, failed>>
media == <<pending, win, last, out>>
clocks == <<idle, waited, quiet>>
network == <<flight, nextUni, live, control, losses>>
ghosts == <<requests, terms, promised, fell>>
vars == <<session, media, clocks, network, ghosts>>

Stream == INSTANCE InOrderDelivery

Signalling == {"REQUESTED", "UNICAST_PENDING"}
OnMcast == {"MCAST_REQUESTED", "MCAST_ACTIVE"}
States == Signalling \union OnMcast \union {"UNICAST_ACTIVE", "CLOSED"}
Open == state # "CLOSED"

\* Whether a call that may fail succeeds.
Outcomes(mayFail) == IF mayFail THEN BOOLEAN ELSE {TRUE}

\* A clock after one more tick; it stops once it cannot matter any more.
After(clock, limit) == IF clock < limit THEN clock + 1 ELSE clock

\* last_data_time = now.  Between a datagram and the next tick lies anything
\* up to a tick: one that comes at once finds no time to have passed.
Now == {-1, 0}

Init ==
    /\ vendor \in Vendors /\ state = "REQUESTED"
    /\ server = FirstServer /\ verify = FALSE /\ redirects = 0
    /\ termSent = FALSE /\ termSeq = 0
    /\ pending = <<>> /\ win = Fresh
    /\ joined = FALSE /\ failed = FALSE
    /\ idle \in Now /\ waited = -1 /\ quiet = 0
    /\ flight = {} /\ nextUni = Start /\ live = Start + Lag /\ control = MaxControl /\ losses = 0
    /\ requests = 1 /\ terms = [sent |-> 0, refused |-> 0, told |-> {}]
    /\ promised = {} /\ fell = FALSE
    /\ last = -1 /\ out = <<>>

-----------------------------------------------------------------------------
(* What the handlers are made of. *)

\* mcast_session_join(): a session that has a source keeps it.  q is the
\* quiet time of that source.
Join(q) ==
    /\ IF joined THEN UNCHANGED joined /\ quiet' = q
       ELSE \E ok \in Outcomes(JoinMayFail) : joined' = ok /\ quiet' = 0

\* The session gives up on the burst and takes the multicast as it comes.
FallBack(q) ==
    /\ state' = "MCAST_ACTIVE" /\ fell' = TRUE
    /\ Join(q)

\* fcc_handle_sync_notification(), told by the server or out of patience.
Sync(q) ==
    IF state \in OnMcast
    THEN quiet' = q /\ UNCHANGED <<state, fell, joined>>
    ELSE /\ state' = "MCAST_REQUESTED"
         /\ UNCHANGED fell
         /\ Join(q)

\* fcc_send_termination_message() and the copy that cleanup sends: to is the
\* server in use.
SendTerm(ok, to) ==
    /\ termSent' = ok
    /\ terms' = IF ok THEN [terms EXCEPT !.sent = @ + 1, !.told = @ \union {to}]
                      ELSE [terms EXCEPT !.refused = @ + 1]

\* fcc_session_cleanup() with the rest of stream_context_cleanup().
Cleanup(to) ==
    /\ state' = "CLOSED"
    /\ IF termSent THEN UNCHANGED <<termSent, terms>>
       ELSE \E ok \in Outcomes(SendMayFail) : SendTerm(ok, to)
    /\ pending' = <<>> /\ joined' = FALSE /\ win' = Fresh /\ flight' = {}

\* The connection closes: the viewer leaves, or the session has failed.
Closing ==
    /\ Cleanup(server)
    /\ out' = <<>>
    /\ UNCHANGED <<vendor, server, verify, redirects, termSeq, failed, last, nextUni, live,
                   control, losses, requests, promised, fell>>

Deliver(res) ==
    /\ win' = res.r
    /\ out' = res.out
    /\ last' = Stream!Newest(res.out, last)

\* rtp_reorder_insert() for each packet of a chain.
InsertAll(r, ps) ==
    FoldLeft(LAMBDA acc, p : LET res == Insert(acc.r, p, FALSE)
                             IN  [r |-> res.r, out |-> acc.out \o res.out],
             Quiet(r), ps)

-----------------------------------------------------------------------------
(* Control messages.  Any of the servers may send one at any time, so a    *)
(* message may also be a copy of an earlier one, or come late.             *)

\* A redirect back to the server in use is a copy of the one that led there.
\* Past the limit the session falls back, else it asks the new server: a
\* request that cannot be sent ends the connection.
Redirect(to) ==
    LET target == IF to = NoServer THEN server ELSE to
        follow == redirects < MaxRedirects
    IN  IF redirects > 0 /\ target = server
        THEN UNCHANGED <<state, server, verify, redirects, joined, quiet, fell, requests,
                         waited, termSent, terms, pending, win, flight>>
        ELSE /\ redirects' = redirects + 1
             /\ IF vendor = "telecom" \/ follow
                THEN server' = target /\ verify' = (verify \/ to # NoServer)
                ELSE UNCHANGED <<server, verify>>
             /\ UNCHANGED waited
             /\ IF ~follow
                THEN FallBack(quiet) /\ UNCHANGED <<requests, termSent, terms, pending, win, flight>>
                ELSE \E ok \in Outcomes(SendMayFail) :
                       IF ok
                       THEN /\ state' = "REQUESTED" /\ requests' = requests + 1
                            /\ UNCHANGED <<joined, quiet, fell, termSent, terms, pending, win, flight>>
                       ELSE Cleanup(target) /\ UNCHANGED <<quiet, fell, requests>>

\* The burst is on its way.  A Telecom server may name an endpoint in any
\* response, a Huawei one only here, for NAT traversal, and in a redirect.
Accepted ==
    /\ state' = "UNICAST_PENDING"
    /\ waited' = 0
    /\ UNCHANGED <<redirects, joined, quiet, fell, requests, termSent, terms, pending, win, flight>>

TakeEndpoint(to) ==
    /\ server' = (IF to = NoServer THEN server ELSE to)
    /\ verify' = (verify \/ to # NoServer)

Refused ==
    /\ FallBack(quiet)
    /\ UNCHANGED <<redirects, waited, requests, termSent, terms, pending, win, flight>>

\* fcc_telecom_handle_server_response() and its Huawei counterpart.
Response(kind, to) ==
    /\ CASE kind = "error" -> Refused /\ UNCHANGED <<server, verify>>
         [] kind \in {"noUnicast", "unknown"} ->
               /\ Refused
               /\ IF vendor = "telecom" THEN TakeEndpoint(to) ELSE UNCHANGED <<server, verify>>
         [] kind = "unicast" -> Accepted /\ TakeEndpoint(to)
         [] kind = "redirect" -> Redirect(to)
    /\ promised' = IF kind = "unicast" THEN promised \union {server'} ELSE promised

ResponseInAnyState(from, kind, to) ==
    /\ Open /\ control > 0
    /\ verify => from = server
    /\ control' = control - 1 /\ idle' \in Now /\ out' = <<>>
    /\ IF kind = "sync"
       THEN Sync(quiet) /\ UNCHANGED <<server, verify, redirects, waited, requests,
                                termSent, terms, promised, pending, win, flight>>
       ELSE Response(kind, to)
    /\ UNCHANGED <<vendor, termSeq, failed, nextUni, live, losses, last>>

\* A control message from the server the session listens to.  A response only
\* counts while one is awaited, a sync notification always.
ControlMessage(from, kind, to) ==
    /\ Open /\ control > 0
    /\ verify => from = server
    /\ control' = control - 1 /\ idle' \in Now /\ out' = <<>>
    /\ CASE kind = "sync" ->
              Sync(quiet) /\ UNCHANGED <<server, verify, redirects, waited, requests,
                                  termSent, terms, promised, pending, win, flight>>
         [] kind # "sync" /\ state = "REQUESTED" -> Response(kind, to)
         [] kind # "sync" /\ state # "REQUESTED" ->
              UNCHANGED <<state, server, verify, redirects, joined, quiet, fell, waited,
                          requests, termSent, terms, promised, pending, win, flight>>
    /\ UNCHANGED <<vendor, termSeq, failed, nextUni, live, losses, last>>

-----------------------------------------------------------------------------
(* Media. *)

\* The server sends the next packet of the burst, never one from the future.
ServerSends ==
    /\ Open /\ nextUni < live /\ \A p \in flight : nextUni - p < MaxFlight
    /\ flight' = flight \union {nextUni}
    /\ nextUni' = nextUni + 1
    /\ out' = <<>>
    /\ UNCHANGED <<session, pending, win, last, clocks, live, control, losses, ghosts>>

UnicastLost ==
    /\ losses < MaxLosses /\ losses' = losses + 1
    /\ \E p \in flight : flight' = flight \ {p}
    /\ out' = <<>>
    /\ UNCHANGED <<session, pending, win, last, clocks, nextUni, live, control, ghosts>>

CaughtUpEarly(r) ==
    termSent /\ r.phase = 2 /\ Ahead((r.base - 1) % M, (termSeq - 1) % M) >= -1

\* Everything up to the termination sequence has been delivered.
CaughtUp(r) ==
    termSent /\ r.phase = 2 /\ Ahead((r.base - 1) % M, (termSeq - 1) % M) >= 0

\* The state once a datagram of the burst has been dealt with, r being the
\* window then: the one that completes the burst makes the handover.
Progress(r) ==
    CASE CaughtUp(r) -> "MCAST_ACTIVE"
      [] ~CaughtUp(r) /\ state = "UNICAST_PENDING" -> "UNICAST_ACTIVE"
      [] OTHER -> state

\* fcc_handle_unicast_media(): packets of the burst reach the viewer in every
\* state but MCAST_ACTIVE.  Once a server has named an endpoint, the packets of
\* others are not taken.
UnicastMedia(from, p) ==
    /\ Open /\ p \in flight
    /\ verify => from = server
    /\ flight' = flight \ {p}
    /\ idle' \in Now
    /\ IF state = "MCAST_ACTIVE"
       THEN out' = <<>> /\ UNCHANGED <<state, win, last>>
       ELSE LET res == Insert(win, p, FALSE)
            IN  Deliver(res) /\ state' = Progress(res.r)
    /\ UNCHANGED <<vendor, server, verify, redirects, termSent, termSeq, joined, failed,
                   pending, waited, quiet, nextUni, live, control, losses, ghosts>>

\* A packet of the burst that the session itself throws away: it comes from a
\* server the session does not listen to, or the pool has no buffer for it,
\* which still counts as a sign of life.
UnicastDropped(from, p) ==
    /\ Open /\ p \in flight
    /\ losses < MaxLosses /\ losses' = losses + 1
    /\ flight' = flight \ {p}
    /\ \/ idle' \in Now
       \/ verify /\ from # server /\ UNCHANGED idle
    /\ out' = <<>>
    /\ UNCHANGED <<session, pending, win, last, waited, quiet, nextUni, live, control, ghosts>>

\* Control messages there is no buffer for are lost as well.
ControlDropped ==
    /\ Open /\ control > 0
    /\ control' = control - 1 /\ idle' \in Now /\ out' = <<>>
    /\ UNCHANGED <<session, pending, win, last, waited, quiet, flight, nextUni, live, losses,
                   ghosts>>

\* A datagram with nothing in it for the viewer: a report, a packet that is not
\* RTP or has been delivered before.  There may be any number of them, and all
\* postpone the timeouts; those that look like media also move the session on.
Chatter ==
    /\ Open
    /\ idle' \in Now /\ out' = <<>>
    /\ state' \in {state, Progress(win)}
    /\ UNCHANGED <<vendor, server, verify, redirects, termSent, termSeq, joined, failed,
                   pending, win, last, waited, quiet, network, ghosts>>

\* fcc_handle_mcast_transition(): the first packet of the multicast ends the
\* burst there, and is kept with its successors until the handover.
Transition(p) ==
    /\ out' = <<>>
    /\ UNCHANGED <<win, last>>
    /\ IF termSent
       THEN pending' = Append(pending, p) /\ UNCHANGED <<termSent, termSeq, terms, failed>>
       ELSE \E ok \in Outcomes(SendMayFail) :
              /\ termSeq' = SeqNum(p)
              /\ SendTerm(ok, server)
              /\ failed' = ~ok
              /\ pending' = (IF ok THEN Append(pending, p) ELSE pending)

ActivePastWindow(p) ==
    /\ out' = Append(pending, p) /\ last' = p
    /\ pending' = <<>>
    /\ UNCHANGED <<win, termSent, termSeq, terms, failed>>

\* fcc_handle_mcast_active(): what was kept goes first.
Active(p) ==
    /\ Deliver(InsertAll(win, Append(pending, p)))
    /\ pending' = <<>>
    /\ UNCHANGED <<termSent, termSeq, terms, failed>>

\* The source emits a packet; mcast_deliver_packet() hands it to the session.
McastMedia ==
    /\ Open /\ joined /\ live <= MaxPacket
    /\ live' = live + 1 /\ quiet' = 0
    /\ IF failed
       THEN out' = <<>> /\ UNCHANGED <<pending, win, last, termSent, termSeq, terms, failed>>
       ELSE IF state = "MCAST_ACTIVE" THEN Active(live) ELSE Transition(live)
    /\ UNCHANGED <<vendor, state, server, verify, redirects, joined, idle, waited,
                   flight, nextUni, control, losses, requests, promised, fell>>

\* A packet of the multicast that nobody has joined the group for, that the
\* network drops, or the source for want of a buffer: then it has been heard.
McastLost ==
    /\ Open /\ live <= MaxPacket
    /\ live' = live + 1
    /\ IF joined
       THEN losses < MaxLosses /\ losses' = losses + 1 /\ quiet' \in {quiet, 0}
       ELSE UNCHANGED <<losses, quiet>>
    /\ out' = <<>>
    /\ UNCHANGED <<session, pending, win, last, idle, waited, flight, nextUni, control, ghosts>>

-----------------------------------------------------------------------------
(* The worker's tick and the end of the connection. *)

SourceSilent == joined /\ (failed \/ After(quiet, McastTicks) = McastTicks)

SignalTimeout == state \in Signalling /\ After(idle, UnicastTicks) >= SignalTicks
BurstTimeout ==
    state \in {"UNICAST_ACTIVE", "MCAST_REQUESTED"} /\ After(idle, UnicastTicks) >= UnicastTicks
SyncTimeoutIfSilent == state = "UNICAST_ACTIVE" /\ waited >= 0 /\ After(idle, SyncTicks) = SyncTicks
SyncTimeout ==
    state = "UNICAST_ACTIVE" /\ waited >= 0 /\ After(waited, SyncTicks) = SyncTicks

TicksPass ==
    /\ Open
    /\ idle' = After(idle, UnicastTicks)
    /\ waited' = (IF waited < 0 THEN waited ELSE After(waited, SyncTicks))

\* mcast_session_tick() fails: no data for too long, or the handover failed.
TickCloses ==
    /\ TicksPass /\ SourceSilent
    /\ Closing
    /\ UNCHANGED quiet

\* fcc_session_tick().
Tick ==
    /\ TicksPass /\ ~SourceSilent
    /\ LET q == IF joined THEN After(quiet, McastTicks) ELSE quiet
       IN  CASE SignalTimeout \/ BurstTimeout -> FallBack(q)
             [] ~BurstTimeout /\ SyncTimeout -> Sync(q)
             [] OTHER -> quiet' = q /\ UNCHANGED <<state, fell, joined>>
    /\ out' = <<>>
    /\ UNCHANGED <<vendor, server, verify, redirects, termSent, termSeq, failed, pending, win,
                   last, network, requests, terms, promised>>

ViewerLeaves == Open /\ Closing /\ UNCHANGED clocks

Control == \E from \in Servers, kind \in Kinds, to \in Servers \union {NoServer} :
    ControlMessage(from, kind, to)

Unicast == \E from \in Servers, p \in flight : UnicastMedia(from, p)

Dropped == ControlDropped \/ \E from \in Servers, p \in flight : UnicastDropped(from, p)

Next == \/ Control \/ ServerSends \/ UnicastLost \/ Unicast \/ Dropped \/ Chatter
        \/ McastMedia \/ McastLost \/ Tick \/ TickCloses \/ ViewerLeaves

\* The worker runs its tick whatever the network does.  Datagrams may lie in
\* the socket: a handler that finds no buffer leaves the rest unread.
Fairness == WF_vars(Tick \/ TickCloses)

Spec == Init /\ [][Next]_vars /\ Fairness

-----------------------------------------------------------------------------
TypeOK ==
    /\ vendor \in Vendors /\ state \in States
    /\ server \in Servers /\ verify \in BOOLEAN /\ redirects \in 0..(MaxRedirects + 1)
    /\ termSent \in BOOLEAN /\ termSeq \in SeqNums
    /\ pending \in Seq(Nat)
    /\ joined \in BOOLEAN /\ failed \in BOOLEAN
    /\ idle \in -1..UnicastTicks /\ waited \in -1..SyncTicks /\ quiet \in 0..McastTicks
    /\ flight \subseteq Nat /\ nextUni \in Nat /\ live \in Nat
    /\ control \in 0..MaxControl /\ losses \in 0..MaxLosses
    /\ requests \in Nat /\ terms \in [sent : Nat, refused : Nat, told : SUBSET Servers]
    /\ promised \subseteq Servers /\ fell \in BOOLEAN

\* Who is told to end the burst has somewhere to take the stream from: the
\* termination is sent only after the multicast has been joined, and packets
\* are kept for the handover only after the burst's end has been fixed.
TermAfterJoin ==
    Open => /\ termSent => joined /\ state \in OnMcast
            /\ pending # <<>> => termSent

\* fcc.h:92: cleanup must not send a second termination.
OneTermination == terms.sent <= 1

\* Whoever has promised a burst is told to stop when the session is over,
\* whatever way it ended, unless the message could not be sent; so is the server
\* in use, which may send one whose promise got lost.  A server that was
\* left for another one before it promised anything is told nothing.
EndsBurst ==
    state = "CLOSED" => \/ terms.refused > 0
                        \/ promised \union {server} \subseteq terms.told

\* Copies of a redirect and redirects in a circle cost a bounded number of
\* requests: the first one and one for each redirect that was followed.
BoundedRequests == requests <= MaxRedirects + 1

\* The viewer sees the burst and the multicast as one stream: in order, and
\* nothing twice, although both carry the packets around the handover.
InOrderOnce == Stream!Spec

\* If no packet of the burst or of the multicast is lost, neither on the way
\* nor for want of a buffer nor because it came from a server that is not
\* listened to, a session that hands over, rather than falling back, has no gap
\* at the joint: the packets of the multicast that it kept go on where the burst
\* has got to, or earlier, and miss none.
Seamless ==
    /\ TypeOK
    /\ state = "MCAST_ACTIVE" /\ ~fell /\ losses = 0 /\ pending # <<>> =>
           /\ Head(pending) <= last + 1
           /\ \A k \in 1..Len(pending) : pending[k] = Head(pending) + k - 1

\* Whose datagrams keep coming can keep a session where it is: one that sends
\* media or reports without an answer, without a packet of the burst, or
\* without ever reaching the termination sequence (fcc.c:445).
HeldUp == idle <= 0 /\ state \in Signalling \union {"MCAST_REQUESTED"}

\* A viewer is never left waiting for a silent FCC server: sooner or later the
\* session takes the multicast or is closed, unless a server holds it up as
\* said; and once the burst runs, no datagrams can, because the server's sync
\* notification is awaited for a limited time whatever comes.
ReachesMcast == <>(state \in {"MCAST_ACTIVE", "CLOSED"}) \/ []<>HeldUp
=============================================================================
