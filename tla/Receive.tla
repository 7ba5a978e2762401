------------------------------ MODULE Receive -------------------------------
(***************************************************************************)
(* When a worker reads its multicast sockets (multicast.c, worker.c,       *)
(* poller_epoll.c).  A source whose receive buffer is large enough is      *)
(* registered for one notification: the first datagram is read at once,    *)
(* what follows is left to collect for a millisecond or two and is read by *)
(* a task of the worker's own; a read that finds nothing asks for the next *)
(* notification.  A busy source, or one with a small buffer, is registered *)
(* for as long as it has data.  What becomes of the datagrams is the       *)
(* module Multicast, who the viewers of a source are as well.              *)
(*                                                                         *)
(* Time is that of the worker's clock, which goes on while it works.       *)
(***************************************************************************)
EXTENDS Integers, FiniteSets, SequencesExt, FiniteSetsExt

CONSTANTS
    Sources,       \* sockets, whose numbers are used again
    Buffers,       \* receive buffers the kernel may grant, in units of a packet's share
    Large, Medium, \* buffers that permit the long delay and the short one
    LimitMax,      \* the cap of receive_packet_limit
    Few,           \* up to so many packets a read may be followed by the long delay
    MaxRead,       \* datagrams after which a read yields
    Window,        \* time over which the rate of a busy source is assessed
    Room,          \* datagrams a socket holds
    MaxTime,       \* bound: the clock
    MaxPackets,    \* bound: datagrams
    MaxTrouble     \* bound: calls that fail

ASSUME ReceiveAssumption ==
    /\ IsFiniteSet(Sources)
    /\ {Buffers, {Large, Medium, LimitMax, Few, MaxRead, Window, Room}} \subseteq SUBSET (Nat \ {0})
    /\ Medium <= Large /\ LimitMax <= MaxRead /\ Few <= MaxRead /\ {MaxTime, MaxPackets, MaxTrouble} \subseteq Nat

VARIABLES
    src,      \* mcast_source_t, with its socket and its place in the poller
    list,     \* receive_head and what follows
    batch,    \* events that are still to be handled
    todo,     \* tasks mcast_worker_receive() has not come to
    pc,       \* where the worker is in its loop
    clock,    \* get_time_ms()
    now,      \* the time the worker has last taken
    packets, trouble

worker == <<batch, todo, pc, now>>
receiveVars == <<src, list, worker, clock, packets, trouble>>

\* next is next_receive, 0 for none; delay, limit, coalesced, since and checked
\* the fields receive_*; armed whether the poller will notify; unread what the
\* socket holds, and waited how long the worker has slept since it does.
NoSource == [open |-> FALSE, failed |-> FALSE, delay |-> 0, limit |-> 0, coalesced |-> FALSE, armed |-> FALSE,
             next |-> 0, since |-> 0, checked |-> 0, unread |-> 0, waited |-> 0]

DelayOf(bytes) == CASE bytes >= Large -> 2 [] bytes \in Medium..(Large - 1) -> 1 [] OTHER -> 0
LimitOf(bytes) == Min({bytes, LimitMax})

\* The part of mcast_session_join() that opens a source.
NewSource(bytes) ==
    [NoSource EXCEPT !.open = TRUE, !.delay = DelayOf(bytes), !.limit = LimitOf(bytes),
                     !.coalesced = DelayOf(bytes) # 0, !.armed = TRUE]

ReceiveInit ==
    /\ src = [s \in Sources |-> NoSource] /\ list = <<>> /\ batch = <<>> /\ todo = <<>>
    /\ pc = "events" /\ clock = 1 /\ now = 1 /\ packets = 0 /\ trouble = 0
-----------------------------------------------------------------------------
(* Scheduling: a is a source, and p whether the poller lets it be rearmed. *)

Outcomes == IF trouble < MaxTrouble THEN BOOLEAN ELSE {TRUE}
Costs(ok) == trouble' = trouble + (IF ok THEN 0 ELSE 1)

Rearm(a, coalesced, p) == IF p THEN [a EXCEPT !.coalesced = coalesced, !.armed = TRUE] ELSE [a EXCEPT !.failed = TRUE]

\* A source that is notified all the time, and its rate.
Assess(a, count, p) ==
    LET b == [a EXCEPT !.next = 0, !.checked = @ + count]
        calm == b.checked * b.delay * 2 < (now - b.since) * b.limit
    IN  IF b.delay = 0 THEN [a EXCEPT !.next = 0]
        ELSE IF now - b.since < Window THEN b
        ELSE [(IF calm THEN Rearm(b, TRUE, p) ELSE b) EXCEPT !.since = now, !.checked = 0]

Schedule(a, count, p) ==
    CASE a.failed -> [a EXCEPT !.next = 0]
      [] ~a.failed /\ ~a.coalesced -> Assess(a, count, p)
      [] ~a.failed /\ a.coalesced /\ count >= a.limit ->
            [Rearm(a, FALSE, p) EXCEPT !.next = 0, !.since = now, !.checked = 0]
      [] ~a.failed /\ a.coalesced /\ count \in 1..(a.limit - 1) ->
            [a EXCEPT !.next = now + (IF @ # 0 /\ count < Few THEN a.delay ELSE 1)]
      [] OTHER -> [Rearm(a, TRUE, p) EXCEPT !.next = 0]

Unlinked(s) == RemoveFirst(list, s)

\* Its place in the list, from which a task that is due has been taken.
Linked(s, a, tasks) ==
    CASE a.next = 0 -> RemoveFirst(tasks, s)
      [] a.next # 0 /\ s \notin ToSet(tasks) -> <<s>> \o tasks
      [] OTHER -> tasks

\* What a read takes: a source that will be notified again may stop early.
CountsHasty(a) == IF a.unread = 0 THEN {0} ELSE 1..Min({a.unread, MaxRead})

Counts(a) ==
    IF a.coalesced \/ a.unread = 0 THEN {Min({a.unread, MaxRead})} ELSE 1..Min({a.unread, MaxRead})

Taken(a, n, ok) ==
    [a EXCEPT !.unread = @ - n, !.waited = IF n = a.unread THEN 0 ELSE @, !.failed = @ \/ ~ok]

\* mcast_source_receive() and mcast_source_schedule_receive().
ReadSource(s, tasks) ==
    \E n \in Counts(src[s]), ok \in Outcomes : \E p \in IF ok THEN Outcomes ELSE {TRUE} :
        LET a == Schedule(Taken(src[s], n, ok), n, p)
        IN  /\ src' = [src EXCEPT ![s] = a] /\ list' = Linked(s, a, tasks)
            /\ Costs(ok /\ p)
-----------------------------------------------------------------------------
(* The worker's loop.                                                      *)

Ready == {s \in Sources : src[s].open /\ src[s].armed /\ src[s].unread > 0}

Sleep ==
    /\ pc = "tasks" /\ todo = <<>>
    /\ pc' = "asleep" /\ now' = clock
    /\ UNCHANGED <<src, list, batch, todo, clock, packets, trouble>>

\* poller_wait() returns for a source, for another socket, for the tick or for a
\* task; a notification asked for once is given once.
Wake ==
    /\ pc = "asleep" /\ pc' = "events" /\ now' = clock
    /\ batch' \in SetToSeqs(Ready)
    /\ src' = [s \in Sources |-> IF s \in Ready THEN [src[s] EXCEPT !.armed = ~src[s].coalesced] ELSE src[s]]
    /\ UNCHANGED <<list, todo, clock, packets, trouble>>

\* The number of the socket may be nobody's any more, or another's.
HandleEvent ==
    /\ pc = "events" /\ batch # <<>> /\ batch' = Tail(batch)
    /\ IF src[Head(batch)].open THEN ReadSource(Head(batch), list) ELSE UNCHANGED <<src, list, trouble>>
    /\ UNCHANGED <<todo, pc, clock, now, packets>>

EventsDone ==
    /\ pc = "events" /\ batch = <<>> /\ pc' = "tasks" /\ todo' = list
    /\ UNCHANGED <<src, list, batch, clock, now, packets, trouble>>

\* mcast_worker_receive().
RunTask ==
    /\ pc = "tasks" /\ todo # <<>> /\ todo' = Tail(todo)
    /\ IF src[Head(todo)].next <= now THEN ReadSource(Head(todo), Unlinked(Head(todo)))
       ELSE UNCHANGED <<src, list, trouble>>
    /\ UNCHANGED <<batch, pc, clock, now, packets>>

\* The first viewer comes, with a request; the last one goes, at any event or
\* in the tick.
Open(s) ==
    /\ pc = "events" /\ ~src[s].open
    /\ \E bytes \in Buffers : src' = [src EXCEPT ![s] = NewSource(bytes)]
    /\ UNCHANGED <<list, worker, clock, packets, trouble>>

Close(s) ==
    /\ pc = "events" \/ (pc = "tasks" /\ todo = <<>>)
    /\ src[s].open
    /\ src' = [src EXCEPT ![s] = NoSource] /\ list' = Unlinked(s)
    /\ UNCHANGED <<worker, clock, packets, trouble>>

\* Nobody looks between the tasks, so they arrive before or after.
Arrive(s) ==
    /\ pc # "tasks" /\ src[s].open /\ src[s].unread < Room
    /\ packets < MaxPackets /\ packets' = packets + 1
    /\ src' = [src EXCEPT ![s].unread = @ + 1]
    /\ UNCHANGED <<list, worker, clock, trouble>>

\* mcast_worker_timeout(): the worker sleeps until it is woken or a task is due.
TasksDue == {s \in ToSet(list) : src[s].next <= clock}

TimePasses ==
    /\ clock < MaxTime /\ clock' = clock + 1
    /\ (pc = "events" /\ batch = <<>>) \/ (pc = "asleep" /\ Ready = {} /\ TasksDue = {})
    /\ src' = [s \in Sources |->
          IF pc = "asleep" /\ src[s].unread > 0 THEN [src[s] EXCEPT !.waited = @ + 1] ELSE src[s]]
    /\ UNCHANGED <<list, worker, packets, trouble>>

ReceiveNext ==
    \/ Sleep \/ Wake \/ HandleEvent \/ EventsDone \/ RunTask \/ TimePasses
    \/ \E s \in Sources : Open(s) \/ Close(s) \/ Arrive(s)

ReceiveSpec == ReceiveInit /\ [][ReceiveNext]_receiveVars
-----------------------------------------------------------------------------
\* test_multicast_shared.py:376, "Idle gaps and a busy initial burst must not
\* strand either subscriber": whichever way a source is read, and however often
\* that changes, no datagram lies in its socket for longer than the delay its
\* buffer permits while the worker sleeps, unless the source has failed; and the
\* tasks are those of sources that are still there.
NothingLiesUnread ==
    /\ \A s \in Sources : src[s].open /\ ~src[s].failed => src[s].waited <= src[s].delay
    /\ \A i \in DOMAIN list : src[list[i]].open /\ src[list[i]].next # 0
    /\ IsInjective(list)
=============================================================================
