----------------------------- MODULE Multicast -----------------------------
(***************************************************************************)
(* One shared multicast source of a worker (multicast.c) and the viewers   *)
(* attached to it.  Ordinary viewers share one reordering window and the   *)
(* batches filled from it; a viewer in a channel change or taking a        *)
(* snapshot has a window of its own, and is moved to the batches later;    *)
(* in-band FEC moves everybody to windows of their own.                    *)
(*                                                                         *)
(* Left out: a separate FEC port, which makes all windows private from the *)
(* beginning; bare TS datagrams among RTP; a failing termination message   *)
(* (see Fcc); the collecting of datagrams between two receives; and the    *)
(* periodic rejoin, which touches none of this state.                      *)
(*                                                                         *)
(* A step is one call from the worker's loop: a datagram, a tick, a viewer *)
(* that comes, goes or makes progress.                                     *)
(***************************************************************************)
EXTENDS ReorderWindow, SequencesExt

CONSTANTS
    Viewers,       \* the streams that may be attached, each of them once
    Modes,         \* how they may join
    Media,         \* what the source sends: "rtp", or bare "ts"
    BatchMax,      \* packets that fit in a batch
    ExactFit,      \* BatchMax packets fill a batch to the last byte
    First,         \* the packet the source is at in the beginning
    MaxLoss,       \* the longest run of packets the network loses
    MaxLate,       \* how far behind the newest one a packet may arrive
    MaxPacket,     \* bound: the last packet of the source
    MaxTrouble     \* bound: 1 for a packet out of turn or parity, 2 for what fails

ASSUME MulticastAssumption ==
    /\ Modes \subseteq {"plain", "waiting", "snapshot"}
    /\ Media \subseteq {"rtp", "ts"}
    /\ BatchMax \in Nat \ {0} /\ ExactFit \in BOOLEAN
    /\ {First, MaxLoss, MaxLate, MaxPacket, MaxTrouble} \subseteq Nat

VARIABLES
    media,      \* packet_type of the source
    src,        \* mcast_source_t
    view,       \* for each viewer its mcast_session_t and stream context
    newest,     \* the newest packet the source has received
    trouble,    \* how often something was out of the ordinary
    due,        \* for each viewer the packets that came in time and that it is owed
    last, out   \* for each viewer what it was given: see InOrderDelivery

vars == <<media, src, view, newest, trouble, due, last, out>>

Viewer(v) == INSTANCE InOrderDelivery WITH last <- last[v], out <- out[v]

\* A datagram with FEC parity on the media port.
Parity == -2

\* refs, batch_clients, packet_subscribers and shared_output; no batch is the
\* empty one.  Without viewers there is no source.
NewSource == [refs |-> 0, clients |-> 0, private |-> {}, shared |-> TRUE, failed |-> FALSE,
              win |-> Fresh, batch |-> <<>>]

\* mode is "waiting" and "active" in a channel change that is still waiting for
\* the end of the burst, and past it; "plain" with no channel change.
Detached(s) == [st |-> s, mode |-> "plain", batched |-> FALSE, failed |-> FALSE,
                closing |-> FALSE, pending |-> <<>>, win |-> Fresh, fec |-> FALSE]

Init ==
    /\ media \in Media
    /\ src = NewSource
    /\ view = [v \in Viewers |-> Detached("new")]
    /\ newest = -1 /\ trouble = 0
    /\ due = [v \in Viewers |-> {}]
    /\ last = [v \in Viewers |-> -1] /\ out = [v \in Viewers |-> <<>>]

\* What a call works on: the source, the viewers, what each is owed and what
\* the call gives it.
Now == [src |-> src, view |-> view, due |-> due, out |-> [v \in Viewers |-> <<>>]]

Becomes(w) ==
    /\ src' = w.src /\ view' = w.view /\ out' = w.out
    /\ last' = [v \in Viewers |-> Viewer(v)!Newest(w.out[v], last[v])]
    /\ due' = [v \in Viewers |->
                  IF w.view[v].st = "on" THEN w.due[v] \ ToSet(w.out[v]) ELSE {}]
    /\ UNCHANGED media

Attached(w) == {v \in Viewers : w.view[v].st = "on"}
Served(w) == {v \in Attached(w) : ~w.view[v].failed /\ ~w.view[v].closing}
Batched(w) == {v \in Attached(w) : w.view[v].batched}

\* The viewers whose view of a buffer cannot be allocated in a call, and
\* whether the pool of batches is exhausted.
Plenty == [views |-> {}, batch |-> FALSE]
Shortages ==
    [views : {{v} : v \in Viewers} \union {{}}, batch : BOOLEAN] \ {Plenty}

Lacks == {Plenty} \union (IF trouble + 2 <= MaxTrouble THEN Shortages ELSE {})

Trouble(n) == trouble + n <= MaxTrouble /\ trouble' = trouble + n
Short(lack) == IF lack = Plenty THEN 0 ELSE 2

-----------------------------------------------------------------------------
(* The shared way. *)

\* A viewer for whom there is no memory.
FailsIf(lacking, r) == [r EXCEPT !.failed = @ \/ lacking]

\* mcast_source_fanout(): a single viewer needs no view of its own.
Fanout(w, ps, lack) ==
    LET to == Batched(w) \intersect Served(w)
        short == IF w.src.refs = 1 THEN {} ELSE to \intersect lack.views
    IN  [w EXCEPT !.view = [v \in Viewers |-> FailsIf(v \in short, @[v])],
                  !.out = [v \in Viewers |-> IF v \in to \ short THEN @[v] \o ps ELSE @[v]]]

\* mcast_source_flush().
Flush(w, lack) ==
    IF w.src.batch = <<>> THEN w
    ELSE Fanout([w EXCEPT !.src.batch = <<>>], w.src.batch, lack)

\* Into the batch, which is there or can be had, or past it to the viewers.
IntoBatch(w, p, lack) ==
    IF w.src.batch = <<>> /\ lack.batch THEN Fanout(w, <<p>>, lack)
    ELSE LET into == [w EXCEPT !.src.batch = Append(@, p)]
         IN  IF ExactFit /\ Len(into.src.batch) = BatchMax THEN Flush(into, lack) ELSE into

\* mcast_source_append().
AppendPacket(w, p, lack) ==
    IF w.src.clients = 0 THEN w
    ELSE IntoBatch(IF Len(w.src.batch) = BatchMax THEN Flush(w, lack) ELSE w, p, lack)

\* The source's own window and what comes out of it.
Shared(w, p, lack) ==
    LET res == IF media = "rtp" THEN Insert(w.src.win, p, FALSE) ELSE [r |-> Fresh, out |-> <<p>>]
    IN  FoldLeft(LAMBDA acc, q : AppendPacket(acc, q, lack), [w EXCEPT !.src.win = res.r], res.out)

-----------------------------------------------------------------------------
(* The private way. *)

\* stream_process_rtp_payload(): parity turns FEC on; what a snapshot takes
\* from the window does not reach the viewer.
Process(r, p) ==
    LET res == CASE p = Parity -> Quiet(r.win)
                 [] p # Parity /\ media = "ts" -> [r |-> r.win, out |-> <<p>>]
                 [] p # Parity /\ media = "rtp" -> Insert(r.win, p, r.fec)
    IN  [r   |-> [r EXCEPT !.win = res.r, !.fec = @ \/ p = Parity],
         out |-> IF r.mode = "snapshot" THEN <<>> ELSE res.out]

ProcessAll(r, ps) ==
    FoldLeft(LAMBDA acc, p : LET one == Process(acc.r, p)
                             IN  [r |-> one.r, out |-> acc.out \o one.out],
             Quiet(r), ps)

\* fcc_handle_mcast_transition() keeps a packet, fcc_handle_mcast_active()
\* goes through the kept ones first.
Take(r, p) ==
    IF r.mode = "waiting"
    THEN Quiet([r EXCEPT !.pending = Append(@, p)])
    ELSE ProcessAll([r EXCEPT !.pending = <<>>], Append(r.pending, p))

\* mcast_deliver_packet() for every viewer with a window of its own.
DeliverPrivate(w, p, lack) ==
    LET single == w.src.refs = 1 /\ ~w.src.shared
        to == (w.src.private \intersect Served(w)) \ (IF single THEN {} ELSE lack.views)
    IN  [w EXCEPT !.view = [v \in Viewers |-> IF v \in to THEN Take(@[v], p).r ELSE @[v]],
                  !.out = [v \in Viewers |-> IF v \in to THEN @[v] \o Take(w.view[v], p).out ELSE @[v]]]

-----------------------------------------------------------------------------
(* From one to the other. *)

SameBoundary(a, b) == a.phase = 2 /\ b.phase = 2 /\ b.count = 0 /\ a.base = b.base

Ready(w, v) ==
    LET r == w.view[v]
    IN  /\ v \in Served(w) /\ r.mode # "snapshot" /\ ~r.fec
        /\ r.mode # "waiting" /\ r.pending = <<>>
        /\ media = "ts" \/ SameBoundary(w.src.win, r.win)

BatchedIf(ready, r) == [r EXCEPT !.batched = @ \/ ready]

PromoteUnflushed(w, lack) ==
    LET ready == {v \in w.src.private : Ready(w, v)}
    IN  [w EXCEPT !.src.private = @ \ ready, !.src.clients = @ + Cardinality(ready),
                  !.view = [v \in Viewers |-> BatchedIf(v \in ready, @[v])]]

\* mcast_source_promote_ready(): what is in the batch is not for them.
PromoteReady(w, lack) ==
    LET ready == {v \in w.src.private : Ready(w, v)}
    IN  IF ready = {} THEN w
        ELSE [Flush(w, lack) EXCEPT
                !.src.private = @ \ ready, !.src.clients = @ + Cardinality(ready),
                !.view = [v \in Viewers |-> BatchedIf(v \in ready, @[v])]]

PrivateFecWithoutSlots(w, lack) ==
    LET f == Flush(w, lack)
    IN  [f EXCEPT !.src.shared = FALSE, !.src.clients = 0, !.src.win = Fresh,
                  !.src.private = @ \union Batched(f),
                  !.view = [v \in Viewers |->
                      IF v \in Batched(f)
                      THEN [@[v] EXCEPT !.batched = FALSE,
                                        !.win = [f.src.win EXCEPT !.slots = Fresh.slots, !.count = 0]]
                      ELSE @[v]]]

\* mcast_source_enable_private_fec(): everybody goes on with a copy of the
\* shared window.
EnablePrivateFec(w, lack) ==
    LET f == Flush(w, lack)
    IN  [f EXCEPT !.src.shared = FALSE, !.src.clients = 0, !.src.win = Fresh,
                  !.src.private = @ \union Batched(f),
                  !.view = [v \in Viewers |->
                      IF v \in Batched(f)
                      THEN FailsIf(v \in lack.views,
                                   [@[v] EXCEPT !.batched = FALSE, !.win = f.src.win])
                      ELSE @[v]]]

-----------------------------------------------------------------------------
(* The network.  Parity belongs to packets that are long delivered: it     *)
(* turns FEC on, and there is nothing to recover.                          *)

Arrivals ==
    CASE newest = -1 -> {First}
      [] newest # -1 /\ media = "ts" -> {newest + 1} \intersect 0..MaxPacket
      [] newest # -1 /\ media = "rtp" ->
             ((newest - MaxLate)..(newest + 1 + MaxLoss)) \intersect 0..MaxPacket

Receiving == src.refs > 0 /\ ~src.failed

\* FEC keeps delivered packets in their slots; this says that none of them is
\* old enough to be in the way of a new one.
RingIsFresh(v) ==
    view[v].fec => \A i \in Slots : view[v].win.slots[i] # NoPkt => newest - view[v].win.slots[i] < W

\* A packet less than a window late is owed to those it can be given to, but a
\* viewer that has got nothing yet need not start at a late one.
Owing(p, lack) ==
    [Now EXCEPT !.due = [v \in Viewers |->
        IF /\ v \in Served(Now) \ lack.views /\ view[v].mode # "snapshot" /\ RingIsFresh(v)
           /\ newest - p < W /\ p > (IF last[v] = -1 THEN newest ELSE last[v])
        THEN @[v] \union {p} ELSE @[v]]]

\* mcast_source_process_packet(): private windows first, then the shared one.
Packet(p, lack) ==
    /\ Receiving
    /\ Trouble(Short(lack) + (IF newest # -1 /\ p # newest + 1 THEN 1 ELSE 0))
    /\ LET heard == DeliverPrivate(Owing(p, lack), p, lack)
       IN  Becomes(IF src.shared THEN PromoteReady(Shared(heard, p, lack), lack) ELSE heard)
    /\ newest' = (IF p > newest THEN p ELSE newest)

ParityPacket(lack) ==
    /\ Receiving /\ media = "rtp"
    /\ Trouble(Short(lack) + 1)
    /\ Becomes(DeliverPrivate(IF src.shared THEN EnablePrivateFec(Now, lack) ELSE Now, Parity, lack))
    /\ UNCHANGED newest

-----------------------------------------------------------------------------
(* Viewers. *)

\* mcast_session_join() to this source, if it has not failed; a join that fails
\* for want of a socket or memory leaves all as it is.  A viewer starts behind
\* the batch that is being filled.
Join(v, mode, lack) ==
    /\ view[v].st = "new" /\ ~src.failed
    /\ Trouble(Short(lack))
    /\ LET f == Flush(Now, lack)
           batched == src.shared /\ mode = "plain"
       IN  Becomes([f EXCEPT
               !.src.refs = @ + 1,
               !.src.clients = IF batched THEN @ + 1 ELSE @,
               !.src.private = IF batched THEN @ ELSE @ \union {v},
               !.view[v] = [Detached("on") EXCEPT !.mode = mode, !.batched = batched]])
    /\ UNCHANGED newest

GoneUncounted(v) ==
    LET left == [src EXCEPT !.refs = @ - 1, !.private = @ \ {v}]
    IN  [Now EXCEPT !.src = IF left.refs = 0 THEN NewSource ELSE left,
                    !.view[v] = Detached("gone")]

\* mcast_session_cleanup(): the last one takes the source with it.
Gone(v) ==
    LET left == [src EXCEPT !.refs = @ - 1,
                            !.clients = IF view[v].batched THEN @ - 1 ELSE @,
                            !.private = IF view[v].batched THEN @ ELSE @ \ {v}]
    IN  [Now EXCEPT !.src = IF left.refs = 0 THEN NewSource ELSE left,
                    !.view[v] = Detached("gone")]

Leave(v) ==
    /\ view[v].st = "on"
    /\ Becomes(Gone(v))
    /\ UNCHANGED <<newest, trouble>>

\* The connection gets its last response, and is closed once that is sent.
StartClosing(v) ==
    /\ view[v].st = "on" /\ ~view[v].closing
    /\ Becomes([Now EXCEPT !.view[v].closing = TRUE])
    /\ UNCHANGED newest
    /\ Trouble(2)

\* A packet of the burst.  The server has been told to end it at the first
\* packet that was kept.
Burst(v, p) ==
    /\ view[v].st = "on" /\ view[v].mode = "waiting" /\ media = "rtp"
    /\ view[v].pending # <<>> /\ p \in (Head(view[v].pending) - MaxLate)..Head(view[v].pending)
    /\ LET res == Process(view[v], p)
       IN  Becomes([Now EXCEPT !.view[v] = res.r, !.out[v] = res.out])
    /\ UNCHANGED <<newest, trouble>>

\* The channel change is over: the burst is complete, or given up.
HandOver(v) ==
    /\ view[v].st = "on" /\ view[v].mode = "waiting"
    /\ Becomes([Now EXCEPT !.view[v].mode = "active"])
    /\ UNCHANGED <<newest, trouble>>

\* snapshot_fallback_to_streaming(): no picture in time, the viewer gets the
\* stream instead.
SnapshotFallback(v) ==
    /\ view[v].st = "on" /\ view[v].mode = "snapshot"
    /\ Becomes([Now EXCEPT !.view[v].mode = "plain"])
    /\ UNCHANGED <<newest, trouble>>

-----------------------------------------------------------------------------
(* mcast_session_tick() and what fails without it. *)

\* A session, or its source, has failed: the worker closes the connection.
TickCloses(v) == (view[v].failed \/ src.failed) /\ Leave(v)

\* A batch that has waited for 100 ms is sent.
TickFlushes(v, lack) ==
    /\ view[v].st = "on" /\ ~view[v].failed /\ ~src.failed
    /\ src.batch # <<>>
    /\ Trouble(Short(lack))
    /\ Becomes(Flush(Now, lack))
    /\ UNCHANGED newest

\* Three seconds without data, or an error of the socket.
SourceFails ==
    /\ Receiving
    /\ Becomes([Now EXCEPT !.src.failed = TRUE])
    /\ UNCHANGED newest
    /\ Trouble(2)

Network == \E lack \in Lacks : ParityPacket(lack) \/ \E p \in Arrivals : Packet(p, lack)

Tick == \E v \in Viewers : TickCloses(v) \/ \E lack \in Lacks : TickFlushes(v, lack)

Next ==
    \/ Network \/ Tick \/ SourceFails
    \/ \E v \in Viewers :
         \/ \E mode \in Modes, lack \in Lacks : Join(v, mode, lack)
         \/ \E p \in 0..MaxPacket : Burst(v, p)
         \/ Leave(v) \/ StartClosing(v) \/ HandOver(v) \/ SnapshotFallback(v)

Spec == Init /\ [][Next]_vars

-----------------------------------------------------------------------------
Packets == Nat \union {NoPkt}
Windows == [slots : [Slots -> Packets], base : SeqNums, count : SeqNums, phase : 0..2]

TypeOK ==
    /\ media \in Media
    /\ src \in [refs : Nat, clients : Nat, private : SUBSET Viewers, shared : BOOLEAN,
                failed : BOOLEAN, win : Windows, batch : Seq(Nat)]
    /\ view \in [Viewers -> [st : {"new", "on", "gone"}, mode : Modes \union {"plain", "active"},
                             batched : BOOLEAN, failed : BOOLEAN, closing : BOOLEAN,
                             pending : Seq(Nat \union {Parity}), win : Windows, fec : BOOLEAN]]
    /\ due \in [Viewers -> SUBSET Nat]
    /\ newest \in Packets /\ trouble \in 0..MaxTrouble
    /\ last \in [Viewers -> Packets] /\ out \in [Viewers -> Seq(Nat)]
    /\ Len(src.batch) <= BatchMax

\* Every attached viewer is served in exactly one of the two ways, and the
\* counters that decide on freeing the source, on filling a batch and on
\* making views agree with that.
OneWayEach ==
    /\ TypeOK
    /\ src.refs = Cardinality(Attached(Now))
    /\ src.clients = Cardinality(Batched(Now))
    /\ src.private = Attached(Now) \ Batched(Now)
    /\ ~src.shared => src.clients = 0 /\ src.batch = <<>>

KeptFor(v) ==
    LET held(r) == {r.slots[i] : i \in Slots}
    IN  IF view[v].batched THEN held(src.win) \union ToSet(src.batch)
        ELSE held(view[v].win) \union ToSet(view[v].pending)

\* test_multicast_shared.py:87, "Late joins and departures must not replay,
\* skip or overwrite payloads": whichever way a viewer is served, and however
\* often it changes, what it gets is in order and without repetition ...
InOrderOnce == [][\A v \in Viewers : RingIsFresh(v)' => Viewer(v)!HandOut]_vars

\* ... and a packet that came in time is kept for a viewer until it gets it:
\* no move from one way to the other, no flush and no FEC loses one.
NothingDueIsLost ==
    \A v \in Served(Now) : RingIsFresh(v) => \A p \in due[v] : p > last[v] /\ p \in KeptFor(v)
=============================================================================
