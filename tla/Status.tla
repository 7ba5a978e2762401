------------------------------- MODULE Status -------------------------------
(***************************************************************************)
(* The status table that the workers and the supervisor share (status.c):  *)
(* workers reserve, publish, update and give back slots for the clients    *)
(* they stream to; status pages read any slot at any time; a disconnect    *)
(* request made at one worker reaches the client of another through the    *)
(* slot and the notification pipes; the supervisor takes back what a dead  *)
(* worker held.  A step here is one access to the shared memory.           *)
(***************************************************************************)
EXTENDS Integers, FiniteSets, FiniteSetsExt, Sequences, SequencesExt

CONSTANTS
    Slots,        \* clients[], a set of naturals without 0
    Indexes,      \* worker indexes
    Pages,        \* those whose workers have a status page connected
    Pids,         \* process numbers, in the order they are used; 0 is nobody
    Clients,      \* bound: 1..n, media requests in the order they arrive
    IpOf,         \* the address each comes from
    MaxClients,   \* config.maxclients
    MaxBlocked,   \* STATUS_MAX_BLOCKED_IPS
    MaxUpdates,   \* bound: statistics updates
    MaxAsks,      \* bound: disconnect requests
    DiesInGuard   \* workers may also die while they hold the block-list guard

ASSUME StatusAssumption ==
    /\ Slots \subseteq Nat \ {0} /\ IsFiniteSet(Slots)
    /\ Pids \subseteq Nat \ {0} /\ IsFiniteSet(Pids) /\ Indexes # {} /\ Pages \subseteq Indexes
    /\ Injection(Indexes, Pids) # {}
    /\ Clients \subseteq Nat \ {0} /\ DOMAIN IpOf = Clients
    /\ MaxClients \in 1..Cardinality(Slots) /\ MaxBlocked \in Nat \ {0}
    /\ MaxUpdates \in Nat /\ MaxAsks \in Nat /\ DiesInGuard \in BOOLEAN

VARIABLES
    slot,        \* status_shared->clients
    admission,   \* client_admission_owner_pid
    guard,       \* blocked_ip_owner_pid
    blocked,     \* blocked_ips, the one that expires first at the head
    pipe,        \* kinds of bytes in each worker's notification pipe
    proc,        \* the worker processes: what each is doing; since is the slot's
                 \* generation when a reader took ver from it, which no code knows
    conns,       \* their connections that are registered: client and status_index
    next,        \* the client that arrives next
    born,        \* where and under which generation a client was registered
    credit,      \* how often a client's bytes went into client_bytes_cumulative
    updates,     \* updates so far
    asked,       \* clients that some page asked to be disconnected
    granted,     \* those whose request was answered with success
    expelled     \* clients that a worker closed because it found a request

locks == <<admission, guard, blocked>>
history == <<next, born, credit, updates, asked, granted, expelled>>
vars == <<slot, locks, pipe, proc, conns, history>>

NoPay == [id |-> 0, a |-> 0, b |-> 0]   \* client_stats_payload_t: identity, two statistics
FreeSlot == [owner |-> 0, active |-> FALSE, gen |-> 0, disc |-> 0, ver |-> 0, pay |-> NoPay]
Unborn == [pc |-> "unborn", at |-> CHOOSE i \in Indexes : TRUE, slot |-> 0, who |-> 0, gen |-> 0, since |-> 0,
           ver |-> 0, pay |-> NoPay, sweep |-> FALSE, todo |-> {}]

Alive(p) == proc[p].pc \notin {"unborn", "dead", "reaped"}
Idle(p) == proc[p].pc = "idle"
Become(p, r) == proc' = [proc EXCEPT ![p] = r]
Goto(p, pc) == Become(p, [proc[p] EXCEPT !.pc = pc])

\* What a process does once the job in hand is done: the rest of its pipe's
\* events, or back to the event loop.
Rest(p, todo) ==
    [proc[p] EXCEPT !.pc = IF proc[p].sweep \/ todo # {} THEN "sweep" ELSE "idle", !.todo = todo,
                    !.slot = 0, !.who = 0, !.gen = 0, !.since = 0, !.ver = 0, !.pay = NoPay]
Done(p) == Become(p, Rest(p, proc[p].todo))

\* A byte in every worker's pipe, without the updates that a worker with no
\* status page would read and drop.
Tell(event) ==
    pipe' = [i \in Indexes |-> IF event = "update" /\ i \notin Pages THEN pipe[i] ELSE pipe[i] \union {event}]

Init ==
    /\ slot = [s \in Slots |-> FreeSlot] /\ admission = 0 /\ guard = 0 /\ blocked = <<>>
    /\ pipe = [i \in Indexes |-> {}]
    /\ LET first == CHOOSE f \in Injection(Indexes, Pids) : TRUE
       IN  proc = [p \in Pids |-> IF p \in Range(first)
                     THEN [Unborn EXCEPT !.pc = "idle", !.at = CHOOSE i \in Indexes : first[i] = p]
                     ELSE Unborn]
    /\ conns = [p \in Pids |-> {}]
    /\ next = 1 /\ born = [c \in Clients |-> <<0, 0>>] /\ credit = [c \in Clients |-> 0]
    /\ updates = 0 /\ asked = {} /\ granted = {} /\ expelled = {}

-----------------------------------------------------------------------------
(* A media request: the block list, a reservation, then a slot of its own.  *)

Arrive(p) ==
    /\ Idle(p) /\ next \in Clients
    /\ Become(p, [proc[p] EXCEPT !.pc = "asking", !.who = next]) /\ next' = next + 1
    /\ UNCHANGED <<slot, locks, pipe, conns, born, credit, updates, asked, granted, expelled>>

\* lock_blocked_ips(): spins until nobody holds it
LockGuard(p) ==
    /\ proc[p].pc \in {"asking", "found"} /\ guard = 0
    /\ guard' = p
    /\ Goto(p, IF proc[p].pc = "asking" THEN "checking" ELSE "blocking")
    /\ UNCHANGED <<slot, admission, blocked, pipe, conns, history>>

\* status_client_addr_is_blocked(): 429, or on to status_register_client()
Check(p) ==
    /\ proc[p].pc = "checking"
    /\ guard' = 0
    /\ IF IpOf[proc[p].who] \in Range(blocked) THEN Done(p) ELSE Goto(p, "entering")
    /\ UNCHANGED <<slot, admission, blocked, pipe, conns, history>>

\* STATUS_DISCONNECT_IP_BLOCK_MS have passed for the oldest entry
Expire ==
    /\ blocked # <<>>
    /\ blocked' = Tail(blocked)
    /\ UNCHANGED <<slot, admission, guard, pipe, proc, conns, history>>

LockAdmissionHeld(p) ==
    /\ proc[p].pc = "entering"
    /\ admission' = p /\ Goto(p, "counting")
    /\ UNCHANGED <<slot, guard, blocked, pipe, conns, history>>
LockAdmission(p) ==
    /\ proc[p].pc = "entering" /\ admission = 0
    /\ admission' = p /\ Goto(p, "counting")
    /\ UNCHANGED <<slot, guard, blocked, pipe, conns, history>>

Reserved == {s \in Slots : slot[s].owner # 0}

\* client_capacity_is_available(), which reads the slots one after the other;
\* they can only become fewer while the guard is held
Count(p) ==
    /\ proc[p].pc = "counting"
    /\ IF Cardinality(Reserved) < MaxClients
       THEN Goto(p, "reserving") /\ UNCHANGED admission
       ELSE Done(p) /\ admission' = 0
    /\ UNCHANGED <<slot, guard, blocked, pipe, conns, history>>

Reserve(p) ==
    /\ proc[p].pc = "reserving"
    /\ LET s == Min(Slots \ Reserved)
       IN  slot' = [slot EXCEPT ![s].owner = p] /\ Become(p, [proc[p] EXCEPT !.pc = "reserved", !.slot = s])
    /\ UNCHANGED <<locks, pipe, conns, history>>

Unlock(p) ==
    /\ proc[p].pc = "reserved"
    /\ admission' = (IF admission = p THEN 0 ELSE admission) /\ Goto(p, "wiping")
    /\ UNCHANGED <<slot, guard, blocked, pipe, conns, history>>

\* reset_client_payload()
Wiped(r) == [r EXCEPT !.pay = NoPay, !.disc = 0, !.ver = 0]

Wipe(p) ==
    /\ proc[p].pc = "wiping"
    /\ slot' = [slot EXCEPT ![proc[p].slot] = Wiped(@)] /\ Goto(p, "numbering")
    /\ UNCHANGED <<locks, pipe, conns, history>>

NumberUnchanged(p) ==
    /\ proc[p].pc = "numbering"
    /\ slot' = [slot EXCEPT ![proc[p].slot].gen = 1]
    /\ born' = [born EXCEPT ![proc[p].who] = <<proc[p].slot, 1>>]
    /\ Goto(p, "filling")
    /\ UNCHANGED <<locks, pipe, conns, next, credit, updates, asked, granted, expelled>>
Number(p) ==
    /\ proc[p].pc = "numbering"
    /\ slot' = [slot EXCEPT ![proc[p].slot].gen = @ + 1]
    /\ born' = [born EXCEPT ![proc[p].who] = <<proc[p].slot, slot'[proc[p].slot].gen>>]
    /\ Goto(p, "filling")
    /\ UNCHANGED <<locks, pipe, conns, next, credit, updates, asked, granted, expelled>>

Fill(p) ==
    /\ proc[p].pc = "filling"
    /\ slot' = [slot EXCEPT ![proc[p].slot].pay.id = proc[p].who] /\ Goto(p, "publishing")
    /\ UNCHANGED <<locks, pipe, conns, history>>

Publish(p) ==
    /\ proc[p].pc = "publishing"
    /\ slot' = [slot EXCEPT ![proc[p].slot].active = TRUE]
    /\ conns' = [conns EXCEPT ![p] = @ \union {[who |-> proc[p].who, slot |-> proc[p].slot]}]
    /\ Goto(p, "telling")
    /\ UNCHANGED <<locks, pipe, history>>

\* status_trigger_event(STATUS_EVENT_SSE_UPDATE)
TellUpdate(p) ==
    /\ proc[p].pc = "telling"
    /\ Tell("update") /\ Done(p)
    /\ UNCHANGED <<slot, locks, conns, history>>

-----------------------------------------------------------------------------
(* Statistics of a registered client, and its end.                          *)

\* status_update_client_bytes(), _state() and _queue(): between two bumps of
\* data_version; only _state() tells the pages
Update(p) ==
    /\ \/ /\ Idle(p) /\ updates < MaxUpdates
          /\ \E c \in conns[p] :
                /\ slot[c.slot].owner = p /\ slot[c.slot].active
                /\ slot' = [slot EXCEPT ![c.slot].ver = @ + 1]
                /\ Become(p, [proc[p] EXCEPT !.pc = "writing a", !.slot = c.slot])
                /\ updates' = updates + 1
       \/ /\ proc[p].pc = "writing a"
          /\ slot' = [slot EXCEPT ![proc[p].slot].pay.a = 1]
          /\ Goto(p, "writing b") /\ UNCHANGED updates
       \/ /\ proc[p].pc = "writing b"
          /\ slot' = [slot EXCEPT ![proc[p].slot].pay.b = 1]
          /\ Goto(p, "written") /\ UNCHANGED updates
       \/ /\ proc[p].pc = "written"
          /\ slot' = [slot EXCEPT ![proc[p].slot].ver = @ + 1]
          /\ Goto(p, "telling") \/ Done(p)
          /\ UNCHANGED updates
    /\ UNCHANGED <<locks, pipe, conns, next, born, credit, asked, granted, expelled>>

\* connection_free() calls status_unregister_client()
Deactivate(p, c) ==
    IF slot[c.slot].owner = p /\ slot[c.slot].active
    THEN /\ slot' = [slot EXCEPT ![c.slot].active = FALSE]
         /\ Become(p, [proc[p] EXCEPT !.pc = "leaving", !.slot = c.slot, !.who = c.who, !.todo = @ \ {c}])
         /\ conns' = [conns EXCEPT ![p] = @ \ {c}]
    ELSE /\ conns' = [conns EXCEPT ![p] = @ \ {c}]
         /\ Become(p, Rest(p, proc[p].todo \ {c})) /\ UNCHANGED slot

Leave(p) ==
    /\ Idle(p)
    /\ \E c \in conns[p] : Deactivate(p, c)
    /\ UNCHANGED <<locks, pipe, history>>

Accounted(id) == credit' = (IF id \in Clients THEN [credit EXCEPT ![id] = @ + 1] ELSE credit)

AccumulateReleasing(p) ==
    /\ proc[p].pc = "leaving"
    /\ Accounted(slot[proc[p].slot].pay.id)
    /\ slot' = [slot EXCEPT ![proc[p].slot] = [Wiped(@) EXCEPT !.owner = 0]] /\ Goto(p, "releasing")
    /\ UNCHANGED <<locks, pipe, conns, next, born, updates, asked, granted, expelled>>
Accumulate(p) ==
    /\ proc[p].pc = "leaving"
    /\ Accounted(slot[proc[p].slot].pay.id)
    /\ slot' = [slot EXCEPT ![proc[p].slot] = Wiped(@)] /\ Goto(p, "releasing")
    /\ UNCHANGED <<locks, pipe, conns, next, born, updates, asked, granted, expelled>>

Release(p) ==
    /\ proc[p].pc = "releasing"
    /\ slot' = [slot EXCEPT ![proc[p].slot].owner = 0] /\ Goto(p, "telling")
    /\ UNCHANGED <<locks, pipe, conns, history>>

-----------------------------------------------------------------------------
(* Reading the table: snapshot_client(), for a status page (who = 0) and for *)
(* the handler of a disconnect request (who is the client asked for).  Three *)
(* attempts in the code; here a reader may try again or pass on.             *)

From(s) == {t \in Slots : t > s}

PassOn(p) ==
    IF From(proc[p].slot) = {} THEN Done(p)
    ELSE Become(p, [proc[p] EXCEPT !.pc = "looking", !.slot = Min(From(@)), !.gen = 0, !.since = 0, !.ver = 0,
                                   !.pay = NoPay])
TryAgain(p) == Become(p, [proc[p] EXCEPT !.pc = "looking", !.gen = 0, !.since = 0, !.ver = 0, !.pay = NoPay])

\* What was read before the copy has to be as before.
RecheckNothing(p, same, pc) == Goto(p, pc)
Recheck(p, same, pc) == IF same THEN Goto(p, pc) ELSE TryAgain(p) \/ PassOn(p)

\* handle_disconnect_client(), for a client of any worker
Ask(p) ==
    /\ Idle(p) /\ Cardinality(asked) < MaxAsks
    /\ \E c \in {d \in Clients : d < next} \ asked :
          /\ Become(p, [proc[p] EXCEPT !.pc = "looking", !.who = c, !.slot = Min(Slots)])
          /\ asked' = asked \union {c}
    /\ UNCHANGED <<slot, locks, pipe, conns, next, born, credit, updates, granted, expelled>>

Look(p) ==
    LET s == proc[p].slot  r == slot[s]
    IN  /\ \/ /\ proc[p].pc = "looking"
              /\ IF r.active THEN Goto(p, "version") ELSE PassOn(p)
           \/ /\ proc[p].pc = "version"
              /\ IF r.ver % 2 = 1 THEN TryAgain(p) \/ PassOn(p)
                 ELSE Become(p, [proc[p] EXCEPT !.pc = "generation", !.ver = r.ver, !.since = r.gen])
           \/ /\ proc[p].pc = "generation"
              /\ Become(p, [proc[p] EXCEPT !.pc = "copying", !.gen = r.gen])
           \/ /\ proc[p].pc = "copying"
              /\ Become(p, [proc[p] EXCEPT !.pc = "copied", !.pay = [id |-> r.pay.id, a |-> r.pay.a, b |-> 0]])
           \/ /\ proc[p].pc = "copied"
              /\ Become(p, [proc[p] EXCEPT !.pc = "version again", !.pay = [@ EXCEPT !.b = r.pay.b]])
           \/ proc[p].pc = "version again" /\ Recheck(p, r.ver = proc[p].ver, "generation again")
           \/ proc[p].pc = "generation again" /\ Recheck(p, r.gen = proc[p].gen, "still active")
           \/ proc[p].pc = "still active" /\ Recheck(p, r.active, "seen")
        /\ UNCHANGED <<slot, locks, pipe, conns, history>>

\* The page adds the client to its list; the handler compares client_id and
\* leaves its request in the slot.
Seen(p) ==
    /\ proc[p].pc = "seen"
    /\ IF proc[p].who # 0 /\ proc[p].pay.id = proc[p].who
       THEN /\ slot' = [slot EXCEPT ![proc[p].slot].disc = proc[p].gen]
            /\ Goto(p, "confirming")
       ELSE PassOn(p) /\ UNCHANGED slot
    /\ UNCHANGED <<locks, pipe, conns, history>>

Confirm(p) ==
    /\ proc[p].pc = "confirming"
    /\ IF slot[proc[p].slot].active /\ slot[proc[p].slot].gen = proc[p].gen
       THEN Goto(p, "found") ELSE PassOn(p)
    /\ UNCHANGED <<slot, locks, pipe, conns, history>>

\* status_block_client_addr(), holding the guard: a known address is blocked
\* anew, the oldest makes room in a full list
BlockIp(p) ==
    /\ proc[p].pc = "blocking"
    /\ LET ip == IpOf[proc[p].who]
           others == RemoveFirst(blocked, ip)
       IN  blocked' = Append(IF Len(others) = MaxBlocked THEN Tail(others) ELSE others, ip)
    /\ guard' = 0 /\ Goto(p, "asking its worker")
    /\ UNCHANGED <<slot, admission, pipe, conns, history>>

\* status_trigger_event(STATUS_EVENT_DISCONNECT_REQUEST), and the answer
TellDisconnect(p) ==
    /\ proc[p].pc = "asking its worker"
    /\ Tell("disconnect") /\ granted' = granted \union {proc[p].who} /\ Done(p)
    /\ UNCHANGED <<slot, locks, conns, next, born, credit, updates, asked, expelled>>

-----------------------------------------------------------------------------
(* The notification pipe in the event loop of worker.c: all bytes are read, *)
(* the pages are brought up to date, then the worker's own connections are  *)
(* compared with the requests in their slots.                               *)

ReadPipeElse(p) ==
    /\ Idle(p) /\ pipe[proc[p].at] # {}
    /\ Become(p, IF "update" \in pipe[proc[p].at] THEN [proc[p] EXCEPT !.pc = "looking", !.slot = Min(Slots)]
                 ELSE [proc[p] EXCEPT !.pc = "sweep", !.sweep = TRUE])
    /\ pipe' = [pipe EXCEPT ![proc[p].at] = {}]
    /\ UNCHANGED <<slot, locks, conns, history>>
ReadPipe(p) ==
    /\ Idle(p) /\ pipe[proc[p].at] # {}
    /\ LET events == pipe[proc[p].at]
           sweep == "disconnect" \in events
       IN  Become(p, IF "update" \in events
                     THEN [proc[p] EXCEPT !.pc = "looking", !.slot = Min(Slots), !.sweep = sweep]
                     ELSE [proc[p] EXCEPT !.pc = IF sweep THEN "sweep" ELSE "idle", !.sweep = sweep])
    /\ pipe' = [pipe EXCEPT ![proc[p].at] = {}]
    /\ UNCHANGED <<slot, locks, conns, history>>

\* Of one's own slot only disc changes under one's feet.
Wanted(c) == slot[c.slot].disc # 0 /\ slot[c.slot].disc = slot[c.slot].gen /\ slot[c.slot].active

Sweep(p) ==
    /\ proc[p].pc = "sweep"
    /\ IF proc[p].sweep
       THEN Become(p, [proc[p] EXCEPT !.sweep = FALSE, !.todo = conns[p]]) /\ UNCHANGED <<slot, conns, expelled>>
       ELSE IF proc[p].todo = {}
       THEN Done(p) /\ UNCHANGED <<slot, conns, expelled>>
       ELSE \E c \in proc[p].todo :
              IF Wanted(c)
              THEN Deactivate(p, c) /\ expelled' = expelled \union {c.who}
              ELSE Become(p, Rest(p, proc[p].todo \ {c})) /\ UNCHANGED <<slot, conns, expelled>>
    /\ UNCHANGED <<locks, pipe, next, born, credit, updates, asked, granted>>

-----------------------------------------------------------------------------
(* Workers die; the supervisor takes back what they held before their index *)
(* is used again.  No more of them die than can be replaced (a bound).       *)

Die(p) ==
    /\ Alive(p)
    /\ Cardinality({q \in Pids : proc[q].pc = "dead"}) < Cardinality({q \in Pids : proc[q].pc = "unborn"})
    /\ DiesInGuard \/ guard # p
    /\ Goto(p, "dead")
    /\ UNCHANGED <<slot, locks, pipe, conns, history>>

\* status_reap_worker(), then the fork of the worker that takes the index
Reap(p) ==
    /\ proc[p].pc = "dead" /\ \E q \in Pids : proc[q].pc = "unborn"
    /\ LET held == {s \in Slots : slot[s].owner = p}
           lost == {slot[s].pay.id : s \in {t \in held : slot[t].active}}
           heir == Min({q \in Pids : proc[q].pc = "unborn"})
       IN  /\ slot' = [s \in Slots |-> IF s \in held
                           THEN [Wiped(slot[s]) EXCEPT !.active = FALSE, !.owner = 0] ELSE slot[s]]
           /\ credit' = [c \in Clients |-> IF c \in lost THEN credit[c] + 1 ELSE credit[c]]
           /\ IF held # {} THEN Tell("update") ELSE UNCHANGED pipe
           /\ proc' = [proc EXCEPT ![p] = [Unborn EXCEPT !.pc = "reaped"],
                                   ![heir] = [Unborn EXCEPT !.pc = "idle", !.at = proc[p].at]]
    /\ admission' = (IF admission = p THEN 0 ELSE admission)
    /\ conns' = [conns EXCEPT ![p] = {}]
    /\ UNCHANGED <<guard, blocked, next, born, updates, asked, granted, expelled>>

Step(p) ==
    \/ Arrive(p) \/ LockGuard(p) \/ Check(p) \/ LockAdmission(p) \/ Count(p) \/ Reserve(p) \/ Unlock(p)
    \/ Wipe(p) \/ Number(p) \/ Fill(p) \/ Publish(p) \/ TellUpdate(p)
    \/ Update(p) \/ Leave(p) \/ Accumulate(p) \/ Release(p)
    \/ Ask(p) \/ Look(p) \/ Seen(p) \/ Confirm(p) \/ BlockIp(p) \/ TellDisconnect(p)
    \/ ReadPipe(p) \/ Sweep(p)

Next == Expire \/ \E p \in Pids : Step(p) \/ Die(p) \/ Reap(p)

Spec == Init /\ [][Next]_vars

-----------------------------------------------------------------------------
TypeOK ==
    /\ slot \in [Slots -> [owner : {0} \union Pids, active : BOOLEAN, gen : Nat, disc : Nat, ver : Nat,
                           pay : [id : {0} \union Clients, a : 0..1, b : 0..1]]]
    /\ admission \in {0} \union Pids /\ guard \in {0} \union Pids
    /\ blocked \in Seq(Range(IpOf)) /\ Len(blocked) =< MaxBlocked
    /\ pipe \in [Indexes -> SUBSET {"update", "disconnect"}]
    /\ Cardinality(Reserved) =< MaxClients

\* The clients a process has registered and those it is registering or removing.
Holding(p) == {c.slot : c \in conns[p]} \union
    (IF proc[p].pc \in {"reserved", "wiping", "numbering", "filling", "publishing", "leaving", "releasing"}
     THEN {proc[p].slot} ELSE {})

\* However workers and their deaths interleave, a slot belongs to the process
\* that uses it and to no other: a worker that lives owns exactly the slots of
\* its clients, one each, published under that client's name and generation;
\* a worker that was reaped owns none and holds up nobody's admission; no
\* client's bytes are accumulated twice.
SlotsAreOwned ==
    /\ TypeOK
    /\ \A p \in Pids : Alive(p) =>
          /\ {s \in Slots : slot[s].owner = p} = Holding(p)
          /\ \A c \in conns[p] : /\ slot[c.slot].active /\ slot[c.slot].pay.id = c.who
                                 /\ born[c.who] = <<c.slot, slot[c.slot].gen>>
                                 /\ \A d \in conns[p] : d.slot = c.slot => d = c
    /\ \A p \in Pids : proc[p].pc = "reaped" => admission # p /\ \A s \in Slots : slot[s].owner # p
    /\ \A c \in Clients : credit[c] =< 1

\* A snapshot that is accepted, for a page or to disconnect somebody, never
\* mixes two users of a slot: it names the client registered under the
\* generation it is filed under, or nobody; and if the slot was that client's
\* when its version was read, it holds no half of an update.
SnapshotIsOneClient ==
    \A p \in Pids : proc[p].pc = "seen" =>
        LET r == proc[p]
        IN  /\ r.pay.id = 0 \/ born[r.pay.id] = <<r.slot, r.gen>>
            /\ r.pay.id # 0 /\ slot[r.slot].pay.id = r.pay.id /\ r.since = r.gen => r.pay.a = r.pay.b

\* A client is closed by request only if its own disconnection was asked for,
\* though slots are handed on to other clients while a request is under way.
DisconnectHitsTarget == expelled \subseteq asked

\* A request that was answered with success and still stands in the slot is
\* not forgotten: the byte that wakes its worker is in the pipe, or the worker
\* is on its way to the slot.
AnsweredIsPending ==
    \A p \in Pids : Alive(p) => \A c \in conns[p] :
        c.who \in granted /\ Wanted(c) =>
            "disconnect" \in pipe[proc[p].at] \/ proc[p].sweep \/ c \in proc[p].todo
=============================================================================
