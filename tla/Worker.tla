------------------------------- MODULE Worker -------------------------------
(***************************************************************************)
(* The event loop of a worker (worker.c): it waits for a batch of ready    *)
(* sockets, looks up each one's connection in the fd map and handles it.   *)
(* A connection owns its client socket and perhaps an RTSP control socket; *)
(* multicast sockets belong to sources that connections share              *)
(* (multicast.c).  The kernel reuses the lowest free descriptor.           *)
(***************************************************************************)
EXTENDS Integers, Sequences, SequencesExt, FiniteSetsExt

CONSTANTS
    Fds,         \* the descriptors a worker may have
    Listener,    \* the listening socket, not one of them
    Conns,       \* connection_t objects, used again once freed
    Groups,      \* multicast sources: one for each group that is watched
    None,        \* no descriptor, no connection, no owner
    MaxClients   \* bound: clients that connect

ASSUME WorkerAssumption ==
    /\ Fds \subseteq Nat /\ IsFiniteSet(Fds) /\ Listener \notin Fds
    /\ None \notin Fds \union {Listener} \union Conns \union Groups
    /\ None \notin ({"client", "rtsp"} \X Conns) \union ({"source"} \X Groups)
    /\ MaxClients \in Nat

VARIABLES
    owner,     \* what an open descriptor is: a client's, RTSP or a source's socket
    fdMap,     \* fd_map
    polled,    \* descriptors registered with the poller
    conn,      \* the connections
    subs,      \* source->subscribers, newest first
    backlog,   \* clients in the listen queue
    clients,   \* clients that have connected so far
    gone,      \* connections whose client has hung up
    batch      \* events that poller_wait() has returned and are still to be handled

fds == <<owner, fdMap, polled>>
workerVars == <<fds, conn, subs, backlog, clients, gone, batch>>

\* reading: the request; streaming: c->streaming; closing: CONN_CLOSING, the
\* response is on its way; teardown: freed once RTSP TEARDOWN is through.
NoConn == [st |-> "free", fd |-> None, rtsp |-> None, group |-> None]

Free == {f \in Fds : owner[f] = None}
Live(c) == conn[c].st # "free"
SourceFds(g) == {f \in Fds : owner[f] = <<"source", g>>}

WorkerInit ==
    /\ owner = [f \in Fds |-> None] /\ fdMap = [f \in Fds |-> None] /\ polled = {}
    /\ conn = [c \in Conns |-> NoConn]
    /\ subs = [g \in Groups |-> <<>>]
    /\ backlog = 0 /\ clients = 0
    /\ gone = {} /\ batch = <<>>

-----------------------------------------------------------------------------
(* The world outside. *)

Connect ==
    /\ clients < MaxClients
    /\ clients' = clients + 1 /\ backlog' = backlog + 1
    /\ UNCHANGED <<fds, conn, subs, gone, batch>>

HangUp(c) ==
    /\ conn[c].fd # None /\ c \notin gone
    /\ gone' = gone \union {c}
    /\ UNCHANGED <<fds, conn, subs, backlog, clients, batch>>

\* What the poller may report of a descriptor: data at any time, a hang-up of
\* the client that has hung up.
Ready == (IF backlog > 0 THEN {<<Listener, "in">>} ELSE {}) \union
         {<<f, "in">> : f \in polled} \union
         {<<conn[c].fd, "hup">> : c \in gone}

\* poller_wait(): some of the ready descriptors, one event for each, in the
\* order of the kernel's ready list.
Poll ==
    /\ batch = <<>>
    /\ \E some \in SUBSET Ready :
         /\ some # {}
         /\ \A e1, e2 \in some : e1[1] = e2[1] => e1 = e2
         /\ batch' \in SetToSeqs(some)
    /\ UNCHANGED <<fds, conn, subs, backlog, clients, gone>>

-----------------------------------------------------------------------------
(* Closing a connection. *)

\* worker_cleanup_socket_from_epoll() for a set of sockets.
Closed(tab, fs) == [f \in DOMAIN tab |-> IF f \in fs THEN None ELSE tab[f]]

DetachKeepingMap(c) ==
    LET g == conn[c].group
        left == RemoveFirst(subs[g], c)
    IN  [subs  |-> [subs EXCEPT ![g] = left],
         shut  |-> IF left = <<>> THEN SourceFds(g) ELSE {},
         fdMap |-> fdMap]

\* mcast_session_cleanup(): the last subscriber closes the source, any other
\* hands its events over to the newest one that is left.
Detach(c) ==
    LET g == conn[c].group
        left == RemoveFirst(subs[g], c)
    IN  [subs  |-> [subs EXCEPT ![g] = left],
         shut  |-> IF left = <<>> THEN SourceFds(g) ELSE {},
         fdMap |-> IF left = <<>> THEN fdMap
                   ELSE [f \in Fds |-> IF f \in SourceFds(g) THEN Head(left) ELSE fdMap[f]]]

LeaveGroup(c) ==
    IF conn[c].group = None THEN [subs |-> subs, shut |-> {}, fdMap |-> fdMap] ELSE Detach(c)

ClientSocket(c) == {conn[c].fd} \ {None}

Sockets(c) == {conn[c].fd, conn[c].rtsp} \ {None}

\* The connection object is freed, and what it still owns with it.
Freed(c) ==
    LET l == LeaveGroup(c)
        shut == Sockets(c) \union l.shut
    IN  /\ owner' = Closed(owner, shut) /\ fdMap' = Closed(l.fdMap, shut) /\ polled' = polled \ shut
        /\ subs' = l.subs
        /\ conn' = [conn EXCEPT ![c] = NoConn]
        /\ gone' = gone \ {c}

\* RTSP TEARDOWN is sent first: only the client's socket is closed now.
Deferred(c) ==
    /\ owner' = Closed(owner, {conn[c].fd})
    /\ fdMap' = Closed(fdMap, {conn[c].fd})
    /\ polled' = polled \ {conn[c].fd}
    /\ conn' = [conn EXCEPT ![c].st = "teardown", ![c].fd = None]
    /\ gone' = gone \ {c}
    /\ UNCHANGED subs

\* worker_close_and_free_connection().  TEARDOWN takes time if the session has
\* got far enough and its socket is still usable.
Close(c) ==
    \/ Freed(c)
    \/ conn[c].st = "streaming" /\ conn[c].rtsp # None /\ Deferred(c)

-----------------------------------------------------------------------------
(* Handling an event. *)

Rest == batch' = Tail(batch)

Event(f, kind) == batch # <<>> /\ Head(batch) = <<f, kind>>

\* accept() until the queue is empty; one client per step.
Accept ==
    /\ Event(Listener, "in") /\ backlog > 0 /\ Free # {}
    /\ \E c \in Conns :
         /\ ~Live(c)
         /\ LET f == Min(Free)
            IN  /\ owner' = [owner EXCEPT ![f] = <<"client", c>>]
                /\ fdMap' = [fdMap EXCEPT ![f] = c]
                /\ polled' = polled \union {f}
                /\ conn' = [conn EXCEPT ![c] = [NoConn EXCEPT !.st = "reading", !.fd = f]]
    /\ backlog' = backlog - 1
    /\ UNCHANGED <<subs, clients, gone, batch>>

AcceptDone ==
    /\ Event(Listener, "in")
    /\ backlog = 0 \/ Free = {} \/ \A c \in Conns : Live(c)
    /\ Rest
    /\ UNCHANGED <<fds, conn, subs, backlog, clients, gone>>

\* A descriptor that is in nobody's name any more.
Unclaimed(f) ==
    /\ Event(f, "in") \/ Event(f, "hup")
    /\ f \in Fds /\ fdMap[f] = None
    /\ Rest
    /\ UNCHANGED <<fds, conn, subs, backlog, clients, gone>>

\* POLLER_HUP or POLLER_RDHUP on a client's socket.
ClientGone(c) ==
    /\ Event(conn[c].fd, "hup") /\ fdMap[conn[c].fd] = c
    /\ Close(c)
    /\ Rest
    /\ UNCHANGED <<backlog, clients>>

\* mcast_session_join() for a client's request.
Watch(c, g) ==
    /\ conn' = [conn EXCEPT ![c].st = "streaming", ![c].group = g]
    /\ subs' = [subs EXCEPT ![g] = <<c>> \o @]
    /\ IF subs[g] = <<>>
       THEN /\ Free # {}
            /\ owner' = [owner EXCEPT ![Min(Free)] = <<"source", g>>]
            /\ fdMap' = [fdMap EXCEPT ![Min(Free)] = c]
            /\ polled' = polled \union {Min(Free)}
       ELSE /\ fdMap' = [f \in Fds |-> IF f \in SourceFds(g) THEN c ELSE fdMap[f]]
            /\ UNCHANGED <<owner, polled>>

PlayRtsp(c) ==
    /\ Free # {}
    /\ owner' = [owner EXCEPT ![Min(Free)] = <<"rtsp", c>>]
    /\ fdMap' = [fdMap EXCEPT ![Min(Free)] = c]
    /\ polled' = polled \union {Min(Free)}
    /\ conn' = [conn EXCEPT ![c].st = "streaming", ![c].rtsp = Min(Free)]
    /\ UNCHANGED subs

\* Data from a client: perhaps a request, for a stream, or for a page; once
\* there has been one, what the client sends is read and dropped.  A read that
\* finds the client gone closes the connection.
ClientData(c) ==
    /\ Event(conn[c].fd, "in") /\ fdMap[conn[c].fd] = c
    /\ \/ UNCHANGED <<fds, conn, subs, gone>>
       \/ c \in gone /\ Close(c)
       \/ /\ conn[c].st = "reading"
          /\ \/ \E g \in Groups : Watch(c, g)
             \/ PlayRtsp(c)
             \/ /\ conn' = [conn EXCEPT ![c].st = "closing"]
                /\ UNCHANGED <<fds, subs>>
          /\ UNCHANGED gone
    /\ Rest
    /\ UNCHANGED <<backlog, clients>>

\* A HEAD request that only probes has its answer: the RTSP socket is closed first,
\* so that nothing it may still report can close the client.
ProbeAnswered(c) ==
    /\ owner' = Closed(owner, {conn[c].rtsp})
    /\ fdMap' = Closed(fdMap, {conn[c].rtsp})
    /\ polled' = polled \ {conn[c].rtsp}
    /\ conn' = [conn EXCEPT ![c].st = "closing", ![c].rtsp = None]
    /\ UNCHANGED <<subs, gone>>

\* Anything on another socket of a connection.  The RTSP server may end the
\* session, as it does when TEARDOWN is through, or answer a probe.
Upstream(c, f) ==
    /\ Event(f, "in") \/ Event(f, "hup")
    /\ f \in Fds /\ fdMap[f] = c /\ f # conn[c].fd
    /\ \/ UNCHANGED <<fds, conn, subs, gone>>
       \/ f = conn[c].rtsp /\ Close(c)
       \/ f = conn[c].rtsp /\ conn[c].st = "streaming" /\ ProbeAnswered(c)
    /\ Rest
    /\ UNCHANGED <<backlog, clients>>

\* Between two batches: a response has been sent, a stream has timed out, or
\* the TEARDOWN has.
Tick(c) ==
    /\ batch = <<>>
    /\ conn[c].st \in {"closing", "streaming", "teardown"}
    /\ Close(c)
    /\ UNCHANGED <<backlog, clients, batch>>

Handle == \/ Accept \/ AcceptDone
          \/ \E f \in Fds : Unclaimed(f)
          \/ \E c \in Conns : \/ ClientGone(c) \/ ClientData(c)
                              \/ \E f \in Fds : Upstream(c, f)

WorkerNext ==
    \/ Connect \/ Poll \/ Handle
    \/ \E c \in Conns : HangUp(c) \/ Tick(c)

\* The loop handles the events it has been given.
WorkerFairness == WF_workerVars(Handle)

WorkerSpec == WorkerInit /\ [][WorkerNext]_workerVars /\ WorkerFairness

-----------------------------------------------------------------------------
Owners == {None} \union ({"client", "rtsp"} \X Conns) \union ({"source"} \X Groups)

WorkerTypeOK ==
    /\ owner \in [Fds -> Owners] /\ fdMap \in [Fds -> Conns \union {None}] /\ polled \subseteq Fds
    /\ conn \in [Conns -> [st : {"free", "reading", "streaming", "closing", "teardown"},
                           fd : Fds \union {None}, rtsp : Fds \union {None},
                           group : Groups \union {None}]]
    /\ subs \in [Groups -> Seq(Conns)]
    /\ backlog \in 0..MaxClients /\ clients \in 0..MaxClients
    /\ gone \subseteq Conns
    /\ batch \in Seq((Fds \union {Listener}) \X {"in", "hup"})

\* The fd map never leads to a freed connection, nor to one that has nothing to
\* do with the socket: whoever of several viewers of a source leaves first, and
\* while a connection waits for its TEARDOWN.
MapLeadsToOwner ==
    WorkerTypeOK /\ \A f \in Fds : fdMap[f] # None =>
        LET c == fdMap[f]
        IN  /\ Live(c)
            /\ owner[f] \in {<<"client", c>>, <<"rtsp", c>>, <<"source", conn[c].group>>}

\* No descriptor is forgotten: an open one is polled, its events find a
\* connection, and that connection's end will close it.
NothingLeaks ==
    \A f \in Fds : owner[f] # None =>
        /\ f \in polled /\ fdMap[f] # None
        /\ \E c \in Conns :
             \/ owner[f] = <<"client", c>> /\ conn[c].fd = f
             \/ owner[f] = <<"rtsp", c>> /\ conn[c].rtsp = f
             \/ owner[f] = <<"source", conn[c].group>>
=============================================================================
