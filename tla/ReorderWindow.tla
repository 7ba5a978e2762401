--------------------------- MODULE ReorderWindow ---------------------------
(***************************************************************************)
(* The RTP reordering window (rtp_reorder.c) as a value: a record with the *)
(* fields of rtp_reorder_t, and one operator per function, each returning  *)
(* the new window and the packets handed to deliver_packet().              *)
(*                                                                         *)
(* A packet is its index in the source's unbounded numbering; the window   *)
(* only ever sees the index modulo M, the RTP sequence number.             *)
(***************************************************************************)
EXTENDS Integers, Sequences, FiniteSets

CONSTANTS
    W,            \* slots of the window: 32, or 512 with FEC
    M,            \* sequence numbers: 2^16
    InitCollect   \* RTP_REORDER_INIT_COLLECT

ASSUME WindowAssumption ==
    /\ W \in Nat \ {0}
    /\ M \in Nat \ {0}
    /\ M % W = 0
    /\ 2 * W <= M
    /\ InitCollect \in 2..W

NoPkt == -1
Slots == 0..(W - 1)
SeqNums == 0..(M - 1)

SeqNum(p) == p % M

\* (int16_t)(a - b): how far a is ahead of b, negative when it is behind.
Ahead(a, b) == LET d == (a - b) % M IN IF d < M \div 2 THEN d ELSE d - M

Slot(s) == s % W

Fresh == [slots |-> [i \in Slots |-> NoPkt], base |-> 0, count |-> 0, phase |-> 0]

At(r, k) == r.slots[Slot(r.base + k)]

\* The packet goes into its slot whatever the slot held before.
Store(r, p) == [r EXCEPT !.slots[Slot(SeqNum(p))] = p, !.count = (@ + 1) % M]

\* How many packets flush_consecutive() hands out: up to the first empty slot,
\* but no more than count.  Without FEC every slot it passes is emptied, so it
\* never goes round twice.
FlushLen(r, keep) ==
    LET most == IF keep \/ r.count < W THEN r.count ELSE W
    IN  CHOOSE n \in 0..most :
            /\ \A k \in 0..(n - 1) : At(r, k) # NoPkt
            /\ n < most => At(r, n) = NoPkt

Emptied(r, n) ==
    [i \in Slots |-> IF \E k \in 0..(n - 1) : i = Slot(r.base + k)
                     THEN NoPkt ELSE r.slots[i]]

\* keep: FEC is enabled, delivered packets stay in their slots.
FlushConsecutive(r, keep) ==
    LET n == FlushLen(r, keep)
    IN  [r   |-> [r EXCEPT !.slots = IF keep THEN @ ELSE Emptied(r, n),
                           !.base = (@ + n) % M,
                           !.count = @ - n],
         out |-> [k \in 1..n |-> At(r, k - 1)]]

\* The numbers of a finite set, the least first.
Ascending(S) ==
    [i \in 1..Cardinality(S) |-> CHOOSE k \in S : Cardinality({j \in S : j <= k}) = i]

\* How far ahead of base the first n numbers are that are held.
HeldWithin(r, n) == {k \in 0..(n - 1) : k < W /\ At(r, k) # NoPkt}

\* The window moves up n numbers: the packets it passes are handed out and
\* released, the empty slots it passes are lost packets.
Advance(r, n) ==
    LET passed == Ascending(HeldWithin(r, n))
        out == [i \in DOMAIN passed |-> At(r, passed[i])]
    IN  [r   |-> [r EXCEPT !.slots = Emptied(r, n),
                           !.base = (@ + n) % M,
                           !.count = (@ - Len(out)) % M],
         out |-> out]

ForceFlushShort(r, s) == Advance(r, Ahead(s, r.base) - W)

\* Moves the window up until s fits in it.
ForceFlushUntil(r, s) == Advance(r, Ahead(s, r.base) - W + 1)

Quiet(r) == [r |-> r, out |-> <<>>]

\* phase 0: the first packet opens the collecting phase.
InsertFirst(r, p) ==
    Quiet([Store([r EXCEPT !.count = 0], p) EXCEPT !.base = SeqNum(p), !.phase = 1])

\* phase 1: an occupied slot turns the packet away, base follows the earliest.
Collect(r, p) ==
    IF r.slots[Slot(SeqNum(p))] # NoPkt
    THEN r
    ELSE [Store(r, p) EXCEPT !.base = IF Ahead(SeqNum(p), @) < 0 THEN SeqNum(p) ELSE @]

InsertCollecting(r, p, keep) ==
    LET c == Collect(r, p)
    IN  IF c.count >= InitCollect
        THEN FlushConsecutive([c EXCEPT !.phase = 2], keep)
        ELSE Quiet(c)

\* phase 2, the packet at base: handed out at once when there is nothing to
\* keep, else stored over whatever the slot holds and flushed.
InsertExpected(r, p, keep) ==
    IF r.count = 0 /\ ~keep /\ At(r, 0) = NoPkt
    THEN [r |-> [r EXCEPT !.base = (@ + 1) % M], out |-> <<p>>]
    ELSE FlushConsecutive(Store(r, p), keep)

\* phase 2, a packet ahead of base that fits in the window.  A packet with the
\* same number is dropped; one left from an earlier round is replaced, and
\* is not taken off count.
InsertAhead(r, p) ==
    LET held == r.slots[Slot(SeqNum(p))]
    IN  IF held # NoPkt /\ SeqNum(held) = SeqNum(p) THEN Quiet(r) ELSE Quiet(Store(r, p))

\* Gives up what is buffered and starts over at the new packet.
InsertResync(r, p) ==
    FlushConsecutive(Store([Fresh EXCEPT !.base = SeqNum(p), !.phase = 2], p), FALSE)

\* phase 2, a packet beyond the window: room is made, then it is stored.
InsertBeyond(r, p) ==
    LET made == ForceFlushUntil(r, SeqNum(p))
    IN  [made EXCEPT !.r = InsertAhead(made.r, p).r]

\* rtp_reorder_insert(): the whole call, for the owners of a window.
Insert(r, p, keep) ==
    LET d == Ahead(SeqNum(p), r.base)
    IN  CASE r.phase = 0 -> InsertFirst(r, p)
          [] r.phase = 1 -> InsertCollecting(r, p, keep)
          [] r.phase = 2 /\ d = 0 -> InsertExpected(r, p, keep)
          [] r.phase = 2 /\ d < 0 -> Quiet(r)
          [] r.phase = 2 /\ d > 0 /\ d < W -> InsertAhead(r, p)
          [] r.phase = 2 /\ d >= W -> InsertBeyond(r, p)
=============================================================================
