----------------------------- MODULE RtpReorder -----------------------------
(***************************************************************************)
(* The reordering window of one stream without FEC, behind a network that  *)
(* loses, reorders and duplicates packets.                                 *)
(***************************************************************************)
EXTENDS ReorderWindow

CONSTANTS
    First,        \* the packets a client's stream may start at
    FirstLoss,    \* the longest run of packets the network loses, and how far
    FirstLate,    \* behind the newest a packet arrives, before delivery begins
    MaxLoss,      \* the same two once it has begun
    MaxLate,
    MaxPacket     \* bound: the last packet of the source

ASSUME NetworkAssumption ==
    /\ First \subseteq Nat
    /\ {FirstLoss, FirstLate, MaxLoss, MaxLate, MaxPacket} \subseteq Nat

\* What a viewer's stream needs of the network: the packets that are collected
\* before delivery begins fit in the window, whether one of them is late or none.
\* From then on a number is never half the sequence space away from base.
ASSUME ReachAssumption ==
    /\ (InitCollect - 1) * (FirstLoss + 1) < W
    /\ FirstLate + (InitCollect - 2) * (FirstLoss + 1) < W
    /\ 2 * (W + MaxLoss + 1) < M
    /\ 2 * (MaxLate + 1) < M

VARIABLES win,     \* the window
          newest,  \* the newest packet that has arrived, -1 before the first
          last,    \* the newest packet handed out, -1 before the first
          out      \* the packets the latest insert handed out

vars == <<win, newest, last, out>>

Stream == INSTANCE InOrderDelivery

Loss == IF win.phase = 2 THEN MaxLoss ELSE FirstLoss
Lateness == IF win.phase = 2 THEN MaxLate ELSE FirstLate

\* What the network may bring next: a packet that is late, a copy included, or
\* one that follows a run of lost ones.
Arrivals == IF newest = -1 THEN First
            ELSE {p \in (newest - Lateness)..(newest + 1 + Loss) : p >= 0 /\ p <= MaxPacket}

Init == win = Fresh /\ newest = -1 /\ last = -1 /\ out = <<>>

Take(p, res) ==
    /\ win' = res.r
    /\ out' = res.out
    /\ last' = Stream!Newest(res.out, last)
    /\ newest' = IF p > newest THEN p ELSE newest

Start == \E p \in Arrivals : win.phase = 0 /\ Take(p, Insert(win, p, FALSE))

Collecting == \E p \in Arrivals : win.phase = 1 /\ Take(p, Insert(win, p, FALSE))

Expected == \E p \in Arrivals :
    win.phase = 2 /\ Ahead(SeqNum(p), win.base) = 0 /\ Take(p, Insert(win, p, FALSE))

Late == \E p \in Arrivals :
    win.phase = 2 /\ Ahead(SeqNum(p), win.base) < 0 /\ Take(p, Insert(win, p, FALSE))

Early == \E p \in Arrivals :
    win.phase = 2 /\ Ahead(SeqNum(p), win.base) \in 1..(W - 1) /\ Take(p, Insert(win, p, FALSE))

Beyond == \E p \in Arrivals :
    win.phase = 2 /\ Ahead(SeqNum(p), win.base) >= W /\ Take(p, Insert(win, p, FALSE))

Next == Start \/ Collecting \/ Expected \/ Late \/ Early \/ Beyond

Spec == Init /\ [][Next]_vars

-----------------------------------------------------------------------------
\* A packet is passed over for good only when one at least W ahead of it has
\* arrived: anything that comes within the window is still delivered in place.
NoPrematureSkip ==
    [][LET from == IF last = -1 THEN Head(out') ELSE last + 1
       IN  out' # <<>> =>
             \A p \in from..last' :
                 (\A k \in 1..Len(out') : out'[k] # p) => newest' - p >= W]_vars

\* What leaves the window is the source's order, each packet once.
InOrderOnce == Stream!Spec
=============================================================================
