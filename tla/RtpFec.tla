------------------------------- MODULE RtpFec -------------------------------
(***************************************************************************)
(* Forward error correction of one stream (rtp_fec.c) with the reordering  *)
(* window that stores its packets: groups of K packets with parity that    *)
(* arrives on a port of its own or between the media, recovery of the      *)
(* packet the window waits for, and the release of what a group kept.      *)
(*                                                                         *)
(* As in ReorderWindow a packet is its index in the source's numbering; a  *)
(* group is the index of its first packet.  A stream without FEC is that   *)
(* of RtpReorder.                                                          *)
(***************************************************************************)
EXTENDS RtpReorder, Functions

CONSTANTS
    K,            \* packets of a group
    Parities,     \* parity packets of a group
    MaxGroups,    \* FEC_MAX_GROUPS
    Begin,        \* the packet the stream of a client with FEC starts at
    MaxGap,       \* the longest run of packets of it the network loses
    MaxBehind,    \* how far behind the newest one a packet of it may arrive
    MaxRepaired,  \* bound: the last packet of a source with FEC
    Networks,     \* "plain": no FEC; "repairable": enough of each group arrives
                  \* in time; "lossy"
    MaxFaulty     \* bound: the last packet of a source behind a lossy network

ASSUME FecAssumption ==
    /\ K \in 1..W
    /\ Parities \in Nat \ {0}
    /\ MaxGroups \in Nat \ {0}
    /\ {Begin, MaxGap, MaxBehind, MaxRepaired, MaxFaulty} \subseteq Nat
    /\ Networks \subseteq {"plain", "repairable", "lossy"}

VARIABLES groups,   \* fec->groups
          minEnd,   \* fec->min_end_seq, NoPkt while not valid
          port,     \* the stream names a FEC port
          active,   \* fec->fec_active
          network   \* what becomes of the packets on their way

fecVars == <<groups, minEnd, port, active, network>>

\* What a decoder makes of pieces that do not belong together.
Garbage == -2

Indexes == 1..MaxGroups
NoGroup == [begin |-> NoPkt, got |-> {}]
InUse(gs) == {i \in Indexes : gs[i] # NoGroup}

End(b) == SeqNum(b + K - 1)
GroupOf(p) == p - (p % K)

\* fec_is_enabled().
Enabled(on) == port \/ on

\* rtp_reorder_get(): only the number is compared.
Has(r, p) == LET held == r.slots[Slot(SeqNum(p))]
             IN  held # NoPkt /\ SeqNum(held) = SeqNum(p)

\* rtp_reorder_release_range().
ReleaseRange(r, begins) ==
    [r EXCEPT !.slots = [i \in Slots |->
        IF \E b \in begins, n \in 0..(K - 1) : Slot(SeqNum(b + n)) = i /\ Has(r, b + n)
        THEN NoPkt ELSE r.slots[i]]]

\* fec_recalc_min_end_seq().
MinEndOf(gs) ==
    IF InUse(gs) = {} THEN NoPkt
    ELSE LET ends == {End(gs[i].begin) : i \in InUse(gs)}
         IN  CHOOSE e \in ends : \A f \in ends : Ahead(f, e) >= 0

Expired(base, b) == Ahead(base, End(b)) > 0

\* fec_release_expired_groups(), and the test that precedes it at the end of
\* flush_consecutive(): s is [win, groups, minEnd, out, exact].
ReleaseExpired(s) ==
    LET gone == {i \in InUse(s.groups) : Expired(s.win.base, s.groups[i].begin)}
        kept == [i \in Indexes |-> IF i \in gone THEN NoGroup ELSE s.groups[i]]
    IN  IF s.minEnd = NoPkt \/ Ahead(s.win.base, s.minEnd) <= 0 THEN s
        ELSE [s EXCEPT !.win = ReleaseRange(s.win, {s.groups[i].begin : i \in gone}),
                       !.groups = kept,
                       !.minEnd = MinEndOf(kept)]

Flushed(s) ==
    LET f == FlushConsecutive(s.win, Enabled(active))
    IN  ReleaseExpired([s EXCEPT !.win = f.r, !.out = @ \o f.out])

\* The group that covers a number, 0 if there is none.
Covering(gs, s) ==
    LET those == {i \in InUse(gs) : Ahead(s, SeqNum(gs[i].begin)) \in 0..(K - 1)}
    IN  IF those = {} THEN 0 ELSE CHOOSE i \in those : \A j \in those : i <= j

\* rs_fec_decode(): any K of the pieces of a group determine the others, if all
\* of them are of this group.
Decoded(r, g, p) ==
    LET have == {n \in 0..(K - 1) : Has(r, g.begin + n)}
    IN  IF \A n \in have : r.slots[Slot(SeqNum(g.begin + n))] = g.begin + n THEN p ELSE Garbage

MoreThanEnoughReceived(r, g) ==
    Cardinality({n \in 0..(K - 1) : Has(r, g.begin + n)}) + Cardinality(g.got) > K

EnoughReceived(r, g) ==
    Cardinality({n \in 0..(K - 1) : Has(r, g.begin + n)}) + Cardinality(g.got) >= K

\* fec_attempt_recovery(): the packet at base, one that has arrived meanwhile or one
\* that can be decoded; <<>> if neither.  ok: memory is there and decoding works.
Recovery(s, ok) ==
    LET i == Covering(s.groups, s.win.base)
        g == s.groups[i]
        p == g.begin + Ahead(s.win.base, SeqNum(g.begin))
    IN  IF ~Enabled(active) \/ i = 0 \/ K > W \/ ~ok THEN <<>>
        ELSE IF Has(s.win, s.win.base) THEN <<At(s.win, 0)>>
        ELSE IF EnoughReceived(s.win, g) THEN <<Decoded(s.win, g, p)>>
        ELSE <<>>

\* The end of rtp_reorder_insert(): what was recovered is handed out, base
\* moves past it, and what follows is flushed.  exact: it was none that count still
\* counts.
Recovered(s, ok) ==
    LET got == Recovery(s, ok)
    IN  IF got = <<>> THEN s
        ELSE Flushed([s EXCEPT !.out = @ \o got, !.win.base = (@ + 1) % M,
                               !.exact = ~Has(s.win, s.win.base)])

-----------------------------------------------------------------------------
\* rtp_reorder_insert() of a stream with FEC.

StartFec(s, p) == [s EXCEPT !.win = InsertFirst(@, p).r]

CollectFec(s, p) ==
    LET c == Collect(s.win, p)
    IN  IF c.count >= InitCollect THEN Flushed([s EXCEPT !.win = [c EXCEPT !.phase = 2]])
        ELSE [s EXCEPT !.win = c]

ExpectedFec(s, p) ==
    IF s.win.count = 0 /\ ~Enabled(active) /\ At(s.win, 0) = NoPkt
    THEN LET direct == InsertExpected(s.win, p, FALSE)
         IN  [s EXCEPT !.win = direct.r, !.out = direct.out]
    ELSE Flushed([s EXCEPT !.win = Store(@, p)])

\* A packet that fits, after room was made if it did not.
EarlyFec(s, p, ok) ==
    LET made == IF Ahead(SeqNum(p), s.win.base) < W THEN Quiet(s.win)
                ELSE ForceFlushUntil(s.win, SeqNum(p))
        room == [s EXCEPT !.win = made.r, !.out = made.out]
    IN  IF Has(made.r, p) THEN room
        ELSE Recovered([room EXCEPT !.win = Store(@, p)], ok)

InsertWithFec(s, p, ok) ==
    LET d == Ahead(SeqNum(p), s.win.base)
    IN  CASE s.win.phase = 0 -> StartFec(s, p)
          [] s.win.phase = 1 -> CollectFec(s, p)
          [] s.win.phase = 2 /\ d = 0 -> ExpectedFec(s, p)
          [] s.win.phase = 2 /\ d < 0 -> s
          [] s.win.phase = 2 /\ d > 0 -> EarlyFec(s, p, ok)

-----------------------------------------------------------------------------
\* fec_find_or_create_group(): the place of the group of parity that is not
\* expired: its own, an empty one, or that of the group that begins
\* furthest before it, which is given up.
Place(gs, b) ==
    LET own == {i \in InUse(gs) : SeqNum(gs[i].begin) = SeqNum(b)}
        free == Indexes \ InUse(gs)
        behind(i) == Ahead(SeqNum(b), SeqNum(gs[i].begin))
        oldest == {i \in Indexes : behind(i) > 0 /\ \A j \in Indexes : behind(i) >= behind(j)}
        those == CASE own # {} -> own
                   [] own = {} /\ free # {} -> free
                   [] own = {} /\ free = {} /\ oldest # {} -> oldest
                   [] OTHER -> {1}
    IN  CHOOSE i \in those : \A j \in those : i <= j

Evicted(gs, b) ==
    LET g == gs[Place(gs, b)]
    IN  IF g = NoGroup \/ SeqNum(g.begin) = SeqNum(b) THEN {} ELSE {g.begin}

\* The minimum once there is a group at b.
MinWith(min, b) == IF min = NoPkt \/ Ahead(End(b), min) < 0 THEN End(b) ELSE min

WithGroup(s, b, ok) ==
    LET new == [s.groups EXCEPT ![Place(s.groups, b)] =
                    IF ok THEN [begin |-> b, got |-> {}] ELSE NoGroup]
    IN  [s EXCEPT !.win = ReleaseRange(@, Evicted(s.groups, b)),
                  !.groups = new,
                  !.minEnd = IF ~ok THEN @
                             ELSE IF MinWith(@, b) = @ /\ Evicted(s.groups, b) # {}
                             THEN MinEndOf(new)
                             ELSE MinWith(@, b)]

\* fec_process_packet() of valid parity j of the group at b.
Processed(s, b, j, ok) ==
    LET i == Place(s.groups, b)
        known == s.groups[i] # NoGroup /\ SeqNum(s.groups[i].begin) = SeqNum(b)
        t == IF known THEN s ELSE WithGroup(s, b, ok)
    IN  IF Expired(s.win.base, b) THEN s
        ELSE IF t.groups[i] = NoGroup THEN t
        ELSE [t EXCEPT !.groups[i].got = @ \union {j}]

-----------------------------------------------------------------------------
FecInit ==
    /\ Init
    /\ groups = [i \in Indexes |-> NoGroup]
    /\ minEnd = NoPkt
    /\ network \in Networks
    /\ port \in (IF network = "plain" THEN {FALSE} ELSE BOOLEAN)
    /\ active = FALSE

State == [win |-> win, groups |-> groups, minEnd |-> minEnd, out |-> <<>>,
          exact |-> TRUE]

\* No packet in the window is a window old when n is the newest.
RingIsFresh(n) == \A i \in Slots : win.slots[i] = NoPkt \/ n - win.slots[i] < W

TakeFec(s, n) ==
    /\ Take(n, [r |-> s.win, out |-> s.out])
    /\ groups' = s.groups
    /\ minEnd' = s.minEnd
    /\ UNCHANGED <<port, network>>

Outcomes == IF network = "lossy" THEN BOOLEAN ELSE {TRUE}

\* A network that every loss can be repaired in: parity of a group arrives
\* before the last of its packets and in the number of those still missing,
\* MaxGap packets at most are missing at a time, FEC is known before delivery
\* begins, and nothing arrives of a group that began before the client joined.
Missing(p) == {q \in (IF last = -1 THEN Begin ELSE last + 1)..(p - 1) : q \notin Range(win.slots)}

Protected(b, p) ==
    \E i \in Indexes : /\ groups[i].begin = b
                       /\ Cardinality(Missing(p) \intersect b..(b + K - 1)) <= Cardinality(groups[i].got)

Repairable(p) ==
    /\ p >= Begin
    /\ Enabled(active) \/ win.count < InitCollect - 1
    /\ Cardinality(Missing(p)) <= MaxGap
    /\ \A q \in (newest + 1)..p : q % K = K - 1 => Protected(GroupOf(q), p)

\* A network that loses what it likes, and a source that ends before a packet in
\* the window is a window old or one is recovered that count still counts.
Due(p) ==
    \/ newest = -1
    \/ network = "repairable" /\ Repairable(p)
    \/ network = "lossy" /\ p <= MaxFaulty /\ RingIsFresh(p)

MediaArrives(p, ok) ==
    /\ network # "plain"
    /\ IF newest = -1 THEN p = Begin
       ELSE p \in (newest - MaxBehind)..(newest + 1 + MaxGap) /\ p \in 0..MaxRepaired
    /\ Due(p)
    /\ \E s \in {InsertWithFec(State, p, ok)} :
          (network = "lossy" => s.exact) /\ TakeFec(s, p)
    /\ UNCHANGED active

\* stream_process_rtp_payload() and the FEC socket: parity of the group the
\* source is at or of the one before, the first of them first.
ParityArrives(b, j, ok) ==
    /\ network # "plain"
    /\ newest # -1
    /\ b \in {GroupOf(newest + 1), GroupOf(newest + 1) - K}
    /\ j > 1 => \E i \in Indexes : groups[i].begin = b /\ j - 1 \in groups[i].got
    /\ TakeFec(Processed(State, b, j, ok), newest)
    /\ active' = TRUE

Plain == network = "plain" /\ Next /\ UNCHANGED fecVars

FecNext ==
    \/ Plain
    \/ \E p \in 0..MaxRepaired, ok \in Outcomes : MediaArrives(p, ok)
    \/ \E b \in 0..MaxRepaired, j \in 1..Parities, ok \in Outcomes : ParityArrives(b, j, ok)

FecSpec == FecInit /\ [][FecNext]_<<vars, fecVars>>

-----------------------------------------------------------------------------
\* As long as every loss can be repaired the viewer gets the whole stream: what
\* leaves the window, recovered packets included, follows what left it before
\* without a gap.
Whole ==
    [][network = "repairable" =>
          \A i \in 1..Len(out') :
              out'[i] = (IF i > 1 THEN out'[i - 1] ELSE IF last = -1 THEN Begin - 1 ELSE last) + 1]_vars
=============================================================================
