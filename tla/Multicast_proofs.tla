-------------------------- MODULE Multicast_proofs --------------------------
(***************************************************************************)
(* However many viewers come and go, fail, close or change the way they    *)
(* are served, each is served in one way and the source's counters say so. *)
(***************************************************************************)
EXTENDS Multicast, Lemmas

\* The source, the viewers and what a call works on, each of its kind.
Sources == [refs : Nat, clients : Nat, private : SUBSET Viewers, shared : BOOLEAN,
            failed : BOOLEAN, win : Windows, batch : Seq(Nat)]

Streams == [st : {"new", "on", "gone"}, mode : Modes \union {"plain", "active"},
            batched : BOOLEAN, failed : BOOLEAN, closing : BOOLEAN,
            pending : Seq(Nat \union {Parity}), win : Windows, fec : BOOLEAN]

Calls == [src : Sources, view : [Viewers -> Streams], due : [Viewers -> SUBSET Nat],
          out : [Viewers -> Seq(Nat)]]

\* The counters and lists agree with the way each viewer is served.
Counted(w) ==
    /\ IsFiniteSet(Attached(w))
    /\ w.src.refs = Cardinality(Attached(w))
    /\ w.src.clients = Cardinality(Batched(w))
    /\ w.src.private = Attached(w) \ Batched(w)
    /\ ~w.src.shared => w.src.clients = 0 /\ w.src.batch = <<>>
    /\ Len(w.src.batch) <= BatchMax

Good == {w \in Calls : Counted(w)}

IInv ==
    /\ media \in Media /\ Now \in Good
    /\ newest \in Packets /\ trouble \in 0..MaxTrouble
    /\ last \in [Viewers -> Packets] /\ out \in [Viewers -> Seq(Nat)]

\* Nobody comes or goes or is moved to the other way.
SameWays(w, x) ==
    /\ x.src.refs = w.src.refs /\ x.src.clients = w.src.clients
    /\ x.src.private = w.src.private /\ x.src.shared = w.src.shared
    /\ \A v \in Viewers : x.view[v].st = w.view[v].st /\ x.view[v].batched = w.view[v].batched

-----------------------------------------------------------------------------
(* The window. *)

\* The sizes of a window.
LEMMA Sizes ==
    /\ W \in Nat \ {0} /\ M \in Nat \ {0} /\ BatchMax \in Nat \ {0}
    /\ 0 \in SeqNums /\ NoPkt \in Packets
    /\ \A i \in Int : i % M \in SeqNums /\ Slot(i) \in Slots
<1>1. W \in Nat \ {0} /\ M \in Nat \ {0} /\ BatchMax \in Nat \ {0}
  BY WindowAssumption, MulticastAssumption
<1>2. \A i \in Int : i % M \in 0..(M - 1) /\ i % W \in 0..(W - 1)
  BY <1>1
<1>3. 0 \in 0..(M - 1)
  BY <1>1
<1>q. QED BY <1>1, <1>2, <1>3 DEF SeqNums, Slots, Slot, NoPkt, Packets

\* What a window's parts are.
LEMMA WindowParts ==
    ASSUME NEW r \in Windows
    PROVE  /\ r.slots \in [Slots -> Packets] /\ r.base \in Int /\ r.count \in Nat /\ r.count < M
           /\ r.phase \in 0..2
           /\ \A k \in Int : At(r, k) \in Packets
<1>1. /\ r.slots \in [Slots -> Packets] /\ r.base \in SeqNums /\ r.count \in SeqNums
      /\ r.phase \in 0..2
  BY DEF Windows
<1>2. r.base \in Int /\ r.count \in Nat /\ r.count < M
  BY <1>1, Sizes DEF SeqNums
<1>3. ASSUME NEW k \in Int PROVE At(r, k) \in Packets
  <2>1. r.base + k \in Int
    BY <1>2
  <2>2. Slot(r.base + k) \in Slots
    BY <2>1, Sizes
  <2>q. QED BY <1>1, <2>2 DEF At
<1>q. QED BY <1>1, <1>2, <1>3

\* A window whose parts are changed to others of their kinds.
LEMMA WindowOf ==
    ASSUME NEW r \in Windows, NEW s \in [Slots -> Packets], NEW b \in SeqNums, NEW c \in SeqNums
    PROVE  /\ [r EXCEPT !.slots = s, !.base = b, !.count = c] \in Windows
           /\ [r EXCEPT !.slots = s, !.count = c] \in Windows
           /\ [r EXCEPT !.base = b, !.count = c] \in Windows
           /\ [r EXCEPT !.base = b] \in Windows
           /\ [r EXCEPT !.count = c] \in Windows
           /\ \A f \in 0..2 : [r EXCEPT !.phase = f] \in Windows
                              /\ [r EXCEPT !.base = b, !.phase = f] \in Windows
BY DEF Windows

\* The empty window.
LEMMA FreshIsOne == Fresh \in Windows
<1>1. [i \in Slots |-> NoPkt] \in [Slots -> Packets]
  BY Sizes
<1>2. 0 \in 0..2
  OBVIOUS
<1>q. QED BY <1>1, <1>2, Sizes DEF Fresh, Windows

\* Storing a packet.
LEMMA StoreType ==
    ASSUME NEW r \in Windows, NEW p \in Nat
    PROVE  Store(r, p) \in Windows
<1> DEFINE i == Slot(SeqNum(p))
           s == [r.slots EXCEPT ![i] = p]
           c == (r.count + 1) % M
<1>1. c \in SeqNums
  <2>1. r.count + 1 \in Int
    BY WindowParts
  <2>q. QED BY <2>1, Sizes
<1>2. s \in [Slots -> Packets]
  <2>1. r.slots \in [Slots -> Packets] /\ p \in Packets
    BY WindowParts DEF Packets
  <2>q. QED BY <2>1
<1>3. Store(r, p) = [r EXCEPT !.slots = s, !.count = c]
  BY DEF Store
<1> HIDE DEF s, c
<1>4. [r EXCEPT !.slots = s, !.count = c] \in Windows
  BY <1>1, <1>2, Sizes, WindowOf
<1>q. QED BY <1>3, <1>4

\* Emptying slots.
LEMMA EmptiedType ==
    ASSUME NEW r \in Windows, NEW n
    PROVE  Emptied(r, n) \in [Slots -> Packets]
<1>1. r.slots \in [Slots -> Packets]
  BY WindowParts
<1>q. QED BY <1>1, Sizes DEF Emptied

\* flush_consecutive() hands out packets.
LEMMA FlushType ==
    ASSUME NEW r \in Windows, NEW keep \in BOOLEAN
    PROVE  FlushConsecutive(r, keep).r \in Windows /\ FlushConsecutive(r, keep).out \in Seq(Nat)
<1> DEFINE most == IF keep \/ r.count < W THEN r.count ELSE W
           Z == {k \in 0..most : At(r, k) = NoPkt}
           n == FlushLen(r, keep)
           got == [k \in 1..n |-> At(r, k - 1)]
           f == FlushConsecutive(r, keep)
<1>1. r.count \in Nat /\ r.count < M /\ most \in Nat /\ most <= r.count
  <2>1. r.count \in Nat /\ r.count < M /\ W \in Nat
    BY WindowParts, Sizes
  <2>q. QED BY <2>1
<1>2. n = CHOOSE m \in 0..most : /\ \A k \in 0..(m - 1) : At(r, k) # NoPkt
                                 /\ m < most => At(r, m) = NoPkt
  BY DEF FlushLen
<1> HIDE DEF most
<1>3. PICK m \in 0..most : (\A k \in 0..(m - 1) : k \notin Z) /\ (m < most => m \in Z)
  <2> HIDE DEF Z
  <2>q. QED BY <1>1, FirstHit
<1>4. (\A k \in 0..(m - 1) : At(r, k) # NoPkt) /\ (m < most => At(r, m) = NoPkt)
  <2>1. \A k \in 0..(m - 1) : k \in 0..most
    BY <1>1
  <2>q. QED BY <1>3, <2>1
<1> HIDE DEF n, Z
<1>5. n \in 0..most /\ \A k \in 0..(n - 1) : At(r, k) # NoPkt
  BY <1>2, <1>4
<1>6. n \in Nat /\ n <= r.count /\ r.count - n \in SeqNums
  <2>1. n \in Nat /\ n <= most
    BY <1>1, <1>5
  <2>2. r.count - n \in 0..(M - 1)
    BY <1>1, <2>1, Sizes
  <2>q. QED BY <1>1, <2>1, <2>2 DEF SeqNums
<1>7. got \in Seq(Nat)
  <2>1. ASSUME NEW k \in 1..n PROVE At(r, k - 1) \in Nat
    <3>1. k - 1 \in Int /\ k - 1 \in 0..(n - 1)
      BY <1>6
    <3>2. At(r, k - 1) \in Packets /\ At(r, k - 1) # NoPkt
      BY <3>1, <1>5, WindowParts
    <3>q. QED BY <3>2 DEF Packets
  <2>2. got \in [1..n -> Nat]
    BY <2>1
  <2>q. QED BY <1>6, <2>2, IsASeq
<1>8. f = [r |-> [r EXCEPT !.slots = IF keep THEN @ ELSE Emptied(r, n),
                           !.base = (@ + n) % M, !.count = @ - n],
           out |-> got]
  BY DEF FlushConsecutive, n
<1>9. f.r = [r EXCEPT !.slots = IF keep THEN @ ELSE Emptied(r, n),
                      !.base = (@ + n) % M, !.count = @ - n] /\ f.out = got
  BY <1>8
<1> HIDE DEF f, got
<1> DEFINE s == IF keep THEN r.slots ELSE Emptied(r, n)
           b == (r.base + n) % M
           c == r.count - n
<1>10. s \in [Slots -> Packets]
  BY EmptiedType, WindowParts
<1>11. b \in SeqNums
  <2>1. r.base + n \in Int
    BY <1>6, WindowParts
  <2>q. QED BY <2>1, Sizes
<1>12. f.r = [r EXCEPT !.slots = s, !.base = b, !.count = c] /\ c \in SeqNums
  BY <1>6, <1>9
<1> HIDE DEF s, b, c
<1>13. [r EXCEPT !.slots = s, !.base = b, !.count = c] \in Windows
  BY <1>10, <1>11, <1>12, WindowOf
<1>q. QED BY <1>7, <1>9, <1>12, <1>13 DEF f

\* Moving the window up hands out packets.
LEMMA AdvanceType ==
    ASSUME NEW r \in Windows, NEW n \in Int
    PROVE  Advance(r, n).r \in Windows /\ Advance(r, n).out \in Seq(Nat)
<1> DEFINE S == HeldWithin(r, n)
           m == Cardinality(S)
           a == Ascending(S)
           got == [i \in DOMAIN a |-> At(r, a[i])]
           f == Advance(r, n)
<1>1. S \in SUBSET Int /\ IsFiniteSet(S) /\ \A k \in S : At(r, k) # NoPkt
  <2>1. 0 \in Int /\ n - 1 \in Int
    OBVIOUS
  <2>2. IsFiniteSet(0..(n - 1))
    BY <2>1, FS_Interval
  <2>3. S \in SUBSET (0..(n - 1)) /\ \A k \in S : At(r, k) # NoPkt
    BY DEF HeldWithin
  <2>4. S \in SUBSET Int
    BY <2>3
  <2>q. QED BY <2>2, <2>3, <2>4, FS_Subset
<1> HIDE DEF S
<1>2. m \in Nat /\ \A i \in 1..m : \E k \in S : Rank(S, k) = i
  BY <1>1, RanksRise, FS_CardinalityType
<1>3. a = [i \in 1..m |-> CHOOSE k \in S : Rank(S, k) = i]
  BY DEF Ascending, Rank
<1> HIDE DEF a, m
<1>4. \A i \in 1..m : a[i] \in S
  BY <1>2, <1>3
<1>5. got \in Seq(Nat) /\ Len(got) \in Int
  <2>1. ASSUME NEW i \in 1..m PROVE At(r, a[i]) \in Nat
    <3>1. a[i] \in Int /\ At(r, a[i]) # NoPkt
      BY <1>1, <1>4
    <3>2. At(r, a[i]) \in Packets
      BY <3>1, WindowParts
    <3>q. QED BY <3>1, <3>2 DEF Packets
  <2>2. DOMAIN a = 1..m
    BY <1>3
  <2>3. got \in [1..m -> Nat]
    BY <2>1, <2>2
  <2>4. got \in Seq(Nat)
    BY <1>2, <2>3, IsASeq
  <2> HIDE DEF got
  <2>q. QED BY <2>4, LenProperties
<1>6. f = [r |-> [r EXCEPT !.slots = Emptied(r, n), !.base = (@ + n) % M,
                           !.count = (@ - Len(got)) % M],
           out |-> got]
  BY DEF Advance, S, a
<1>7. f.r = [r EXCEPT !.slots = Emptied(r, n), !.base = (@ + n) % M,
                      !.count = (@ - Len(got)) % M] /\ f.out = got
  BY <1>6
<1> HIDE DEF f, got
<1> DEFINE s == Emptied(r, n)
           b == (r.base + n) % M
           c == (r.count - Len(got)) % M
<1>8. s \in [Slots -> Packets]
  BY EmptiedType
<1>9. b \in SeqNums /\ c \in SeqNums
  <2>1. r.base + n \in Int /\ r.count - Len(got) \in Int
    BY <1>5, WindowParts
  <2>q. QED BY <2>1, Sizes
<1>10. f.r = [r EXCEPT !.slots = s, !.base = b, !.count = c]
  BY <1>7
<1> HIDE DEF s, b, c
<1>11. [r EXCEPT !.slots = s, !.base = b, !.count = c] \in Windows
  BY <1>8, <1>9, WindowOf
<1>q. QED BY <1>5, <1>7, <1>10, <1>11 DEF f

\* A packet that is put into the window ahead of base.
LEMMA AheadType ==
    ASSUME NEW r \in Windows, NEW p \in Nat
    PROVE  InsertAhead(r, p).r \in Windows /\ InsertAhead(r, p).out = <<>>
<1>1. Store(r, p) \in Windows
  BY StoreType
<1>q. QED BY <1>1 DEF InsertAhead, Quiet

\* The first packet, and those collected before delivery begins.
LEMMA CollectType ==
    ASSUME NEW r \in Windows, NEW p \in Nat, NEW keep \in BOOLEAN
    PROVE  /\ InsertFirst(r, p).r \in Windows /\ InsertFirst(r, p).out \in Seq(Nat)
           /\ InsertCollecting(r, p, keep).r \in Windows /\ InsertCollecting(r, p, keep).out \in Seq(Nat)
<1>0. SeqNum(p) \in SeqNums /\ <<>> \in Seq(Nat) /\ 1 \in 0..2 /\ 2 \in 0..2 /\ 0 \in SeqNums
  BY Sizes DEF SeqNum
<1>1. InsertFirst(r, p).r \in Windows /\ InsertFirst(r, p).out \in Seq(Nat)
  <2> DEFINE e == [r EXCEPT !.count = 0]
             t == Store(e, p)
  <2>1. e \in Windows
    BY <1>0 DEF Windows
  <2> HIDE DEF e
  <2>2. t \in Windows
    BY <2>1, StoreType
  <2>3. InsertFirst(r, p) = Quiet([t EXCEPT !.base = SeqNum(p), !.phase = 1])
    BY DEF InsertFirst, e
  <2> HIDE DEF t
  <2>4. [t EXCEPT !.base = SeqNum(p), !.phase = 1] \in Windows
    BY <2>2, <1>0 DEF Windows
  <2>q. QED BY <2>3, <2>4, <1>0 DEF Quiet
<1> DEFINE c == Collect(r, p)
<1>2. c \in Windows
  <2>1. Store(r, p) \in Windows
    BY StoreType
  <2> DEFINE t == Store(r, p)
             b == IF Ahead(SeqNum(p), t.base) < 0 THEN SeqNum(p) ELSE t.base
  <2>2. c = r \/ c = [t EXCEPT !.base = b]
    BY DEF Collect
  <2>3. b \in SeqNums
    BY <2>1, <1>0 DEF Windows
  <2> HIDE DEF t, b
  <2>4. [t EXCEPT !.base = b] \in Windows
    BY <2>1, <2>3 DEF Windows, t
  <2>q. QED BY <2>2, <2>4
<1>3. [c EXCEPT !.phase = 2] \in Windows
  <2> HIDE DEF c
  <2>q. QED BY <1>0, <1>2 DEF Windows
<1>4. /\ FlushConsecutive([c EXCEPT !.phase = 2], keep).r \in Windows
      /\ FlushConsecutive([c EXCEPT !.phase = 2], keep).out \in Seq(Nat)
  <2> HIDE DEF c
  <2>q. QED BY <1>3, FlushType
<1>5. \/ InsertCollecting(r, p, keep) = FlushConsecutive([c EXCEPT !.phase = 2], keep)
      \/ InsertCollecting(r, p, keep) = Quiet(c)
  BY DEF InsertCollecting
<1> DEFINE f == FlushConsecutive([c EXCEPT !.phase = 2], keep)
<1> HIDE DEF c, f
<1>6. Quiet(c).r = c /\ Quiet(c).out = <<>>
  BY DEF Quiet
<1>7. CASE InsertCollecting(r, p, keep) = f
  BY <1>1, <1>4, <1>7 DEF f
<1>8. CASE InsertCollecting(r, p, keep) = Quiet(c)
  BY <1>0, <1>1, <1>2, <1>6, <1>8
<1>q. QED BY <1>5, <1>7, <1>8 DEF f

\* The packet at base, and one beyond the window.
LEMMA DeliverType ==
    ASSUME NEW r \in Windows, NEW p \in Nat, NEW keep \in BOOLEAN
    PROVE  /\ InsertExpected(r, p, keep).r \in Windows /\ InsertExpected(r, p, keep).out \in Seq(Nat)
           /\ InsertBeyond(r, p).r \in Windows /\ InsertBeyond(r, p).out \in Seq(Nat)
<1>0. SeqNum(p) \in SeqNums /\ <<p>> \in Seq(Nat)
  BY Sizes DEF SeqNum
<1>1. InsertExpected(r, p, keep).r \in Windows /\ InsertExpected(r, p, keep).out \in Seq(Nat)
  <2> DEFINE b == (r.base + 1) % M
             f == FlushConsecutive(Store(r, p), keep)
  <2>1. b \in SeqNums
    <3>1. r.base + 1 \in Int
      BY WindowParts
    <3>q. QED BY <3>1, Sizes
  <2>2. InsertExpected(r, p, keep) = f
        \/ InsertExpected(r, p, keep) = [r |-> [r EXCEPT !.base = b], out |-> <<p>>]
    BY DEF InsertExpected
  <2>3. f.r \in Windows /\ f.out \in Seq(Nat)
    BY StoreType, FlushType
  <2> HIDE DEF b, f
  <2>4. [r EXCEPT !.base = b] \in Windows
    BY <2>1 DEF Windows
  <2>5. CASE InsertExpected(r, p, keep) = f
    BY <2>3, <2>5
  <2>6. CASE InsertExpected(r, p, keep) = [r |-> [r EXCEPT !.base = b], out |-> <<p>>]
    BY <2>4, <2>6, <1>0
  <2>q. QED BY <2>2, <2>5, <2>6
<1>2. Ahead(SeqNum(p), r.base) - W + 1 \in Int
  <2> DEFINE d == (SeqNum(p) - r.base) % M
  <2>1. SeqNum(p) - r.base \in Int
    BY <1>0, Sizes, WindowParts DEF SeqNums
  <2>2. d \in Int /\ M \in Int /\ W \in Int /\ M \div 2 \in Int
    BY <2>1, Sizes DEF SeqNums
  <2>3. Ahead(SeqNum(p), r.base) = IF d < M \div 2 THEN d ELSE d - M
    BY DEF Ahead
  <2> HIDE DEF d
  <2>q. QED BY <2>2, <2>3
<1> DEFINE made == ForceFlushUntil(r, SeqNum(p))
<1>3. made.r \in Windows /\ made.out \in Seq(Nat)
  BY <1>2, AdvanceType DEF ForceFlushUntil
<1>4. made = [r |-> made.r, out |-> made.out]
  BY DEF ForceFlushUntil, Advance
<1>5. InsertBeyond(r, p) = [made EXCEPT !.r = InsertAhead(made.r, p).r]
  BY DEF InsertBeyond
<1> HIDE DEF made
<1>6. InsertAhead(made.r, p).r \in Windows
  BY <1>3, AheadType
<1>7. InsertBeyond(r, p).r = InsertAhead(made.r, p).r /\ InsertBeyond(r, p).out = made.out
  BY <1>4, <1>5
<1>q. QED BY <1>1, <1>3, <1>6, <1>7

\* rtp_reorder_insert() leaves a window and hands out packets.
LEMMA InsertType ==
    ASSUME NEW r \in Windows, NEW p \in Nat, NEW keep \in BOOLEAN
    PROVE  Insert(r, p, keep).r \in Windows /\ Insert(r, p, keep).out \in Seq(Nat)
<1> DEFINE d == Ahead(SeqNum(p), r.base)
<1>1. d \in Int
  <2> DEFINE e == (SeqNum(p) - r.base) % M
  <2>1. SeqNum(p) - r.base \in Int
    <3>1. SeqNum(p) \in Int
      BY Sizes DEF SeqNums, SeqNum
    <3>q. QED BY <3>1, WindowParts
  <2>2. e \in Int /\ M \in Int /\ M \div 2 \in Int
    BY <2>1, Sizes DEF SeqNums
  <2>3. d = IF e < M \div 2 THEN e ELSE e - M
    BY DEF Ahead
  <2> HIDE DEF e, d
  <2>q. QED BY <2>2, <2>3
<1>2. Quiet(r).r = r /\ Quiet(r).out = <<>> /\ <<>> \in Seq(Nat)
  BY DEF Quiet
<1>3. Insert(r, p, keep) =
        CASE r.phase = 0 -> InsertFirst(r, p)
          [] r.phase = 1 -> InsertCollecting(r, p, keep)
          [] r.phase = 2 /\ d = 0 -> InsertExpected(r, p, keep)
          [] r.phase = 2 /\ d < 0 -> Quiet(r)
          [] r.phase = 2 /\ d > 0 /\ d < W -> InsertAhead(r, p)
          [] r.phase = 2 /\ d >= W -> InsertBeyond(r, p)
  BY DEF Insert
<1> HIDE DEF d
<1>4. \/ r.phase = 0
      \/ r.phase = 1
      \/ r.phase = 2 /\ d = 0
      \/ r.phase = 2 /\ d < 0
      \/ r.phase = 2 /\ d > 0 /\ d < W
      \/ r.phase = 2 /\ d >= W
  <2>1. r.phase \in 0..2 /\ W \in Int
    BY WindowParts, Sizes
  <2>q. QED BY <1>1, <2>1
<1>5. Insert(r, p, keep) \in {InsertFirst(r, p), InsertCollecting(r, p, keep), InsertExpected(r, p, keep),
                              Quiet(r), InsertAhead(r, p), InsertBeyond(r, p)}
  BY <1>3, <1>4
<1>q. QED BY <1>2, <1>5, CollectType, DeliverType, AheadType
-----------------------------------------------------------------------------
(* Calls that leave the ways alone. *)

\* The kinds and parts of what a call works on.
LEMMA CallParts ==
    ASSUME NEW w \in Good
    PROVE  /\ w \in Calls /\ Counted(w) /\ w.src \in Sources /\ w.view \in [Viewers -> Streams]
           /\ w.due \in [Viewers -> SUBSET Nat] /\ w.out \in [Viewers -> Seq(Nat)]
           /\ w.src.batch \in Seq(Nat) /\ w.src.win \in Windows
           /\ w.src.private \in SUBSET Viewers
           /\ w.src.refs \in Nat /\ w.src.clients \in Nat /\ w.src.shared \in BOOLEAN
           /\ \A v \in Viewers : w.view[v] \in Streams
BY DEF Good, Calls, Sources

\* A call that leaves the ways alone, and the batch within its size.
LEMMA SameIsGood ==
    ASSUME NEW w \in Good, NEW x \in Calls, SameWays(w, x), Len(x.src.batch) <= BatchMax,
           ~w.src.shared => x.src.batch = <<>>
    PROVE  x \in Good
<1>1. Counted(w)
  BY CallParts
<1>2. Attached(x) = Attached(w) /\ Batched(x) = Batched(w)
  BY DEF SameWays, Attached, Batched
<1>3. Counted(x)
  BY <1>1, <1>2 DEF Counted, SameWays
<1>q. QED BY <1>3 DEF Good

\* A viewer that fails is served in the same way.
LEMMA FailsIfKeeps ==
    ASSUME NEW r \in Streams, NEW lacking
    PROVE  /\ FailsIf(lacking, r) \in Streams
           /\ FailsIf(lacking, r).st = r.st /\ FailsIf(lacking, r).batched = r.batched
<1> DEFINE b == r.failed \/ lacking
<1>1. b \in BOOLEAN
  OBVIOUS
<1>2. FailsIf(lacking, r) = [r EXCEPT !.failed = b]
  BY DEF FailsIf
<1> HIDE DEF b
<1>3. /\ [r EXCEPT !.failed = b] \in Streams
      /\ [r EXCEPT !.failed = b].st = r.st /\ [r EXCEPT !.failed = b].batched = r.batched
  BY <1>1 DEF Streams
<1>q. QED BY <1>2, <1>3

\* mcast_source_fanout() only hands out, and fails those it finds no memory for.
LEMMA FanoutGood ==
    ASSUME NEW w \in Good, NEW ps \in Seq(Nat), NEW lack
    PROVE  LET x == Fanout(w, ps, lack)
           IN  x \in Good /\ SameWays(w, x) /\ x.src = w.src
<1> DEFINE x == Fanout(w, ps, lack)
           to == Batched(w) \intersect Served(w)
           short == IF w.src.refs = 1 THEN {} ELSE to \intersect lack.views
           view2 == [v \in Viewers |-> FailsIf(v \in short, w.view[v])]
           out2 == [v \in Viewers |-> IF v \in to \ short THEN w.out[v] \o ps ELSE w.out[v]]
<1>1. x = [w EXCEPT !.view = view2, !.out = out2]
  BY Zenon DEF Fanout
<1>2. view2 \in [Viewers -> Streams]
  <2>1. \A v \in Viewers : FailsIf(v \in short, w.view[v]) \in Streams
    BY CallParts, FailsIfKeeps
  <2>q. QED BY <2>1
<1>3. \A v \in Viewers : view2[v].st = w.view[v].st /\ view2[v].batched = w.view[v].batched
  BY CallParts, FailsIfKeeps
<1> HIDE DEF to, short, view2
<1>4. out2 \in [Viewers -> Seq(Nat)]
  <2>1. \A v \in Viewers : w.out[v] \in Seq(Nat) /\ w.out[v] \o ps \in Seq(Nat)
    BY CallParts, ConcatProperties
  <2>q. QED BY <2>1
<1> HIDE DEF x, out2
<1>5. x \in Calls /\ x.src = w.src /\ x.view = view2
  BY <1>1, <1>2, <1>4, CallParts DEF Calls
<1>6. SameWays(w, x)
  BY <1>3, <1>5 DEF SameWays
<1>7. Len(x.src.batch) <= BatchMax /\ (~w.src.shared => x.src.batch = <<>>)
  BY <1>5, CallParts DEF Counted
<1>q. QED BY <1>5, <1>6, <1>7, SameIsGood DEF x

\* Another batch, if it fits.
LEMMA BatchGood ==
    ASSUME NEW w \in Good, NEW b \in Seq(Nat), Len(b) <= BatchMax, b = <<>> \/ w.src.shared
    PROVE  LET x == [w EXCEPT !.src.batch = b]
           IN  x \in Good /\ SameWays(w, x) /\ x.src.batch = b
<1> DEFINE x == [w EXCEPT !.src.batch = b]
<1>1. x \in Calls /\ x.src = [w.src EXCEPT !.batch = b] /\ x.view = w.view
  BY CallParts DEF Calls, Sources
<1>2. /\ x.src.batch = b /\ x.src.refs = w.src.refs /\ x.src.clients = w.src.clients
      /\ x.src.private = w.src.private /\ x.src.shared = w.src.shared
  BY <1>1, CallParts DEF Sources
<1> HIDE DEF x
<1>3. SameWays(w, x)
  BY <1>1, <1>2 DEF SameWays
<1>4. Len(x.src.batch) <= BatchMax /\ (~w.src.shared => x.src.batch = <<>>)
  BY <1>2
<1>q. QED BY <1>1, <1>2, <1>3, <1>4, SameIsGood DEF x

\* Two such calls, one after the other.
LEMMA SameTwice ==
    ASSUME NEW w, NEW x, NEW y, SameWays(w, x), SameWays(x, y)
    PROVE  SameWays(w, y)
BY DEF SameWays

\* mcast_source_flush() empties the batch.
LEMMA FlushGood ==
    ASSUME NEW w \in Good, NEW lack
    PROVE  LET x == Flush(w, lack)
           IN  x \in Good /\ SameWays(w, x) /\ x.src.batch = <<>>
<1> DEFINE e == [w EXCEPT !.src.batch = <<>>]
           x == Flush(w, lack)
<1>1. CASE w.src.batch = <<>>
  BY <1>1 DEF Flush, SameWays
<1>2. CASE w.src.batch # <<>>
  <2>0. <<>> \in Seq(Nat) /\ Len(<<>>) <= BatchMax
    BY Sizes
  <2>1. e \in Good /\ SameWays(w, e) /\ e.src.batch = <<>>
    BY <2>0, BatchGood
  <2>2. x = Fanout(e, w.src.batch, lack)
    BY <1>2 DEF Flush
  <2> HIDE DEF e, x
  <2>3. x \in Good /\ SameWays(e, x) /\ x.src = e.src
    BY <2>1, <2>2, FanoutGood, CallParts
  <2>q. QED BY <2>1, <2>3, SameTwice DEF x
<1>q. QED BY <1>1, <1>2

\* mcast_source_append() keeps the batch within its size.
LEMMA AppendGood ==
    ASSUME NEW w \in Good, NEW p \in Nat, NEW lack
    PROVE  AppendPacket(w, p, lack) \in Good /\ SameWays(w, AppendPacket(w, p, lack))
<1>1. CASE w.src.clients = 0
  BY <1>1 DEF AppendPacket, SameWays
<1>2. CASE w.src.clients # 0
  <2>0. w.src.shared
    BY <1>2, CallParts DEF Counted
  <2> DEFINE x == IF Len(w.src.batch) = BatchMax THEN Flush(w, lack) ELSE w
             y == IntoBatch(x, p, lack)
  <2>1. x \in Good /\ SameWays(w, x) /\ Len(x.src.batch) < BatchMax
    <3>1. CASE Len(w.src.batch) = BatchMax
      <4>1. Len(<<>>) = 0 /\ 0 < BatchMax
        BY Sizes
      <4>q. QED BY <3>1, <4>1, FlushGood
    <3>2. CASE Len(w.src.batch) # BatchMax
      <4>1. Len(w.src.batch) \in Nat /\ Len(w.src.batch) <= BatchMax /\ BatchMax \in Nat
        BY CallParts, LenProperties, Sizes DEF Counted
      <4>2. Len(w.src.batch) < BatchMax
        BY <3>2, <4>1
      <4>q. QED BY <3>2, <4>2 DEF SameWays
    <3>q. QED BY <3>1, <3>2
  <2>2. AppendPacket(w, p, lack) = y
    BY <1>2 DEF AppendPacket
  <2> HIDE DEF x
  <2>3. x.src.shared
    BY <2>0, <2>1 DEF SameWays
  <2>4. y \in Good /\ SameWays(x, y)
    <3>1. CASE x.src.batch = <<>> /\ lack.batch
      <4>1. <<p>> \in Seq(Nat) /\ y = Fanout(x, <<p>>, lack)
        BY <3>1 DEF IntoBatch
      <4>q. QED BY <2>1, <4>1, FanoutGood
    <3>2. CASE ~(x.src.batch = <<>> /\ lack.batch)
      <4> DEFINE b == Append(x.src.batch, p)
                 into == [x EXCEPT !.src.batch = b]
      <4>1. b \in Seq(Nat) /\ Len(b) <= BatchMax
        <5>1. x.src.batch \in Seq(Nat)
          BY <2>1, CallParts
        <5>2. b \in Seq(Nat) /\ Len(b) = Len(x.src.batch) + 1 /\ Len(x.src.batch) \in Nat
          BY <5>1, AppendProperties, LenProperties
        <5>3. BatchMax \in Nat
          BY Sizes
        <5> HIDE DEF b
        <5>q. QED BY <5>2, <5>3, <2>1
      <4>2. into \in Good /\ SameWays(x, into)
        <5> HIDE DEF b
        <5>q. QED BY <2>1, <2>3, <4>1, BatchGood
      <4>3. y = into \/ y = Flush(into, lack)
        BY <3>2 DEF IntoBatch
      <4> HIDE DEF b, into
      <4>4. Flush(into, lack) \in Good /\ SameWays(into, Flush(into, lack))
        BY <4>2, FlushGood
      <4>q. QED BY <4>2, <4>3, <4>4, SameTwice
    <3>q. QED BY <3>1, <3>2
  <2>q. QED BY <2>1, <2>2, <2>4, SameTwice
<1>q. QED BY <1>1, <1>2
\* A run of packets that is appended.
AppendAll(w, ps, lack) == FoldLeft(LAMBDA acc, q : AppendPacket(acc, q, lack), w, ps)

\* Appending packets one after the other leaves the ways alone.
LEMMA AppendAllGood ==
    ASSUME NEW w \in Good, NEW ps \in Seq(Nat), NEW lack
    PROVE  AppendAll(w, ps, lack) \in Good /\ SameWays(w, AppendAll(w, ps, lack))
<1> DEFINE n == Len(ps)
           T == {x \in Good : SameWays(w, x)}
           step(h, s) == IF s = {} THEN w ELSE AppendPacket(h[s \ {Max(s)}], ps[Max(s)], lack)
           IsIt(h) == h = [s \in SUBSET DOMAIN ps |-> step(h, s)]
           g == [z \in T \X (1..n) |-> AppendPacket(z[1], ps[z[2]], lack)]
           iter == CHOOSE h : IsIt(h)
           x == AppendAll(w, ps, lack)
<1>1. n \in Nat /\ DOMAIN ps = 1..n /\ \A k \in 1..n : ps[k] \in Nat
  BY LenProperties, ElementOfSeq
<1>2. w \in T
  BY DEF SameWays
<1>3. \A y \in T, k \in 1..n : AppendPacket(y, ps[k], lack) \in T
  BY <1>1, AppendGood, SameTwice
<1>4. x = iter[DOMAIN ps]
  BY Zenon DEF AppendAll, FoldLeft, MapThenFoldSet
<1> HIDE DEF n, T
<1>5. \E h : IsIt(h)
  <2>1. g \in [T \X (1..n) -> T]
    BY <1>3
  <2> HIDE DEF g
  <2>2. PICK h \in [SUBSET (1..n) -> T] : \A s \in SUBSET (1..n) : h[s] = Folded(h, s, w, g)
    <3>1. n \in Nat
      BY <1>1
    <3>2. \E h : Folds(h, n, T, w, g)
      BY <3>1, <1>2, <2>1, FoldExists
    <3>q. QED BY <3>2 DEF Folds
  <2>3. ASSUME NEW s \in SUBSET (1..n) PROVE h[s] = step(h, s)
    <3>1. CASE s = {}
      BY <3>1, <2>2 DEF Folded
    <3>2. CASE s # {}
      <4>1. Max(s) \in 1..n
        BY <1>1, <3>2, MaxIsGreatest
      <4>2. h[s \ {Max(s)}] \in T
        OBVIOUS
      <4>3. h[s] = g[<<h[s \ {Max(s)}], Max(s)>>]
        BY <3>2, <2>2 DEF Folded
      <4>q. QED BY <3>2, <4>1, <4>2, <4>3 DEF g
    <3>q. QED BY <3>1, <3>2
  <2>4. h = [s \in SUBSET (1..n) |-> step(h, s)]
    BY <2>3
  <2>q. QED BY <1>1, <2>4
<1>6. IsIt(iter)
  BY <1>5
<1>7. PICK i : i = iter
  OBVIOUS
<1>8. \A s \in SUBSET (1..n) : i[s] = step(i, s)
  <2>1. i = [s \in SUBSET (1..n) |-> step(i, s)]
    BY <1>1, <1>6, <1>7
  <2>q. QED BY <2>1
<1>9. i[{}] \in T
  BY <1>2, <1>8
<1>10. ASSUME NEW k \in 1..n, i[1..(k - 1)] \in T PROVE i[1..k] \in T
  <2>1. 1..k \in SUBSET (1..n) /\ 1..k # {} /\ Max(1..k) = k /\ (1..k) \ {k} = 1..(k - 1)
    BY <1>1, FirstPlaces
  <2>2. i[1..k] = AppendPacket(i[1..(k - 1)], ps[k], lack)
    BY <1>8, <2>1
  <2>q. QED BY <2>2, <1>3, <1>10
<1>11. i[1..n] \in T
  BY <1>1, <1>9, <1>10, FoldedStays
<1>12. x \in T
  BY <1>1, <1>4, <1>7, <1>11
<1>q. QED BY <1>12 DEF T

\* The shared window hands its packets to the batch.
LEMMA SharedGood ==
    ASSUME NEW w \in Good, NEW p \in Nat, NEW lack, media \in Media
    PROVE  Shared(w, p, lack) \in Good /\ SameWays(w, Shared(w, p, lack))
<1> DEFINE res == IF media = "rtp" THEN Insert(w.src.win, p, FALSE) ELSE [r |-> Fresh, out |-> <<p>>]
           x == [w EXCEPT !.src.win = res.r]
           y == AppendAll(x, res.out, lack)
<1>1. res.r \in Windows /\ res.out \in Seq(Nat)
  <2>1. Insert(w.src.win, p, FALSE).r \in Windows /\ Insert(w.src.win, p, FALSE).out \in Seq(Nat)
    BY CallParts, InsertType
  <2>2. <<p>> \in Seq(Nat) /\ Fresh \in Windows
    BY FreshIsOne
  <2>3. CASE media = "rtp"
    BY <2>1, <2>3
  <2>4. CASE media # "rtp"
    BY <2>2, <2>4
  <2>q. QED BY <2>3, <2>4
<1>2. Shared(w, p, lack) = y
  BY Zenon DEF Shared, AppendAll
<1> HIDE DEF res
<1>3. x \in Calls /\ x.view = w.view /\ x.src = [w.src EXCEPT !.win = res.r]
  BY <1>1, CallParts DEF Calls, Sources
<1>4. /\ x.src.batch = w.src.batch /\ x.src.refs = w.src.refs /\ x.src.clients = w.src.clients
      /\ x.src.private = w.src.private /\ x.src.shared = w.src.shared
  BY <1>3, CallParts DEF Sources
<1> HIDE DEF x
<1>5. SameWays(w, x)
  BY <1>3, <1>4 DEF SameWays
<1>6. Len(x.src.batch) <= BatchMax /\ (~w.src.shared => x.src.batch = <<>>)
  BY <1>4, CallParts DEF Counted
<1>7. x \in Good
  BY <1>3, <1>5, <1>6, SameIsGood
<1>8. y \in Good /\ SameWays(x, y)
  BY <1>1, <1>7, AppendAllGood
<1> HIDE DEF y
<1>q. QED BY <1>2, <1>5, <1>8, SameTwice

\* stream_process_rtp_payload() leaves the viewer served in the same way.
LEMMA ProcessType ==
    ASSUME NEW r \in Streams, NEW p \in Nat \union {Parity}, media \in Media
    PROVE  /\ Process(r, p).r \in Streams /\ Process(r, p).out \in Seq(Nat)
           /\ Process(r, p).r.st = r.st /\ Process(r, p).r.batched = r.batched
<1> DEFINE res == CASE p = Parity -> Quiet(r.win)
                    [] p # Parity /\ media = "ts" -> [r |-> r.win, out |-> <<p>>]
                    [] p # Parity /\ media = "rtp" -> Insert(r.win, p, r.fec)
           f == r.fec \/ p = Parity
           t == [r EXCEPT !.win = res.r, !.fec = f]
<1>1. r.win \in Windows /\ r.fec \in BOOLEAN /\ f \in BOOLEAN
  BY DEF Streams
<1>2. media = "ts" \/ media = "rtp"
  BY MulticastAssumption
<1>3. res.r \in Windows /\ res.out \in Seq(Nat)
  <2>1. CASE p = Parity
    <3>1. res = Quiet(r.win)
      BY <2>1
    <3>2. Quiet(r.win).r = r.win /\ Quiet(r.win).out = <<>> /\ <<>> \in Seq(Nat)
      BY DEF Quiet
    <3>q. QED BY <1>1, <3>1, <3>2
  <2>2. CASE p # Parity /\ media = "ts"
    <3>1. res = [r |-> r.win, out |-> <<p>>] /\ <<p>> \in Seq(Nat)
      BY <2>2
    <3> HIDE DEF res
    <3>q. QED BY <1>1, <3>1
  <2>3. CASE p # Parity /\ media = "rtp"
    <3>1. res = Insert(r.win, p, r.fec)
      BY <2>3
    <3>2. p \in Nat
      BY <2>3
    <3>3. Insert(r.win, p, r.fec).r \in Windows /\ Insert(r.win, p, r.fec).out \in Seq(Nat)
      BY <1>1, <3>2, InsertType
    <3> HIDE DEF res
    <3>q. QED BY <3>1, <3>3
  <2> HIDE DEF res
  <2>q. QED BY <1>2, <2>1, <2>2, <2>3
<1>4. Process(r, p) = [r |-> t, out |-> IF r.mode = "snapshot" THEN <<>> ELSE res.out]
  BY DEF Process
<1> HIDE DEF res, f
<1>5. t \in Streams /\ t.st = r.st /\ t.batched = r.batched
  BY <1>1, <1>3 DEF Streams
<1> HIDE DEF t
<1>6. Process(r, p).r = t /\ (Process(r, p).out = <<>> \/ Process(r, p).out = res.out)
  BY <1>4
<1>7. Process(r, p).out \in Seq(Nat)
  <2>1. <<>> \in Seq(Nat)
    OBVIOUS
  <2>2. CASE Process(r, p).out = <<>>
    BY <2>1, <2>2
  <2>3. CASE Process(r, p).out = res.out
    BY <1>3, <2>3
  <2>q. QED BY <1>6, <2>2, <2>3
<1>q. QED BY <1>5, <1>6, <1>7

\* What a run of packets through a viewer's own window makes of the viewer.
Runs(r) == {acc \in [r : Streams, out : Seq(Nat)] : acc.r.st = r.st /\ acc.r.batched = r.batched}

\* A run of packets through a viewer's own window.
LEMMA ProcessAllType ==
    ASSUME NEW r \in Streams, NEW ps \in Seq(Nat \union {Parity}), media \in Media
    PROVE  ProcessAll(r, ps) \in Runs(r)
<1> DEFINE n == Len(ps)
           T == Runs(r)
           Then(acc, p) == LET one == Process(acc.r, p) IN [r |-> one.r, out |-> acc.out \o one.out]
           step(h, s) == IF s = {} THEN Quiet(r) ELSE Then(h[s \ {Max(s)}], ps[Max(s)])
           IsIt(h) == h = [s \in SUBSET DOMAIN ps |-> step(h, s)]
           g == [z \in T \X (1..n) |-> Then(z[1], ps[z[2]])]
           iter == CHOOSE h : IsIt(h)
           x == ProcessAll(r, ps)
<1>1. n \in Nat /\ DOMAIN ps = 1..n /\ \A k \in 1..n : ps[k] \in Nat \union {Parity}
  BY LenProperties, ElementOfSeq
<1>2. Quiet(r) \in T
  <2>1. <<>> \in Seq(Nat)
    OBVIOUS
  <2>q. QED BY <2>1 DEF Quiet, Runs
<1>3. \A y \in T, k \in 1..n : Then(y, ps[k]) \in T
  <2>1. ASSUME NEW y \in T, NEW p \in Nat \union {Parity} PROVE Then(y, p) \in T
    <3>1. y.r \in Streams /\ y.out \in Seq(Nat) /\ y.r.st = r.st /\ y.r.batched = r.batched
      BY DEF Runs
    <3> DEFINE one == Process(y.r, p)
               o == y.out \o one.out
    <3>2. /\ one.r \in Streams /\ one.out \in Seq(Nat)
          /\ one.r.st = y.r.st /\ one.r.batched = y.r.batched
      BY <3>1, ProcessType
    <3>3. o \in Seq(Nat)
      BY <3>1, <3>2, ConcatProperties
    <3>4. Then(y, p) = [r |-> one.r, out |-> o]
      OBVIOUS
    <3> HIDE DEF one, o
    <3>5. [r |-> one.r, out |-> o] \in Runs(r)
      BY <3>1, <3>2, <3>3 DEF Runs
    <3>q. QED BY <3>4, <3>5
  <2>q. QED BY <1>1, <2>1
<1>4. x = iter[DOMAIN ps]
  BY Zenon DEF ProcessAll, FoldLeft, MapThenFoldSet
<1> HIDE DEF n, T, Then
<1>5. \E h : IsIt(h)
  <2>1. g \in [T \X (1..n) -> T]
    BY <1>3
  <2> HIDE DEF g
  <2>2. PICK h \in [SUBSET (1..n) -> T] : \A s \in SUBSET (1..n) : h[s] = Folded(h, s, Quiet(r), g)
    <3>1. n \in Nat
      BY <1>1
    <3>2. \E h : Folds(h, n, T, Quiet(r), g)
      BY <3>1, <1>2, <2>1, FoldExists
    <3>q. QED BY <3>2 DEF Folds
  <2>3. ASSUME NEW s \in SUBSET (1..n) PROVE h[s] = step(h, s)
    <3>1. CASE s = {}
      BY <3>1, <2>2 DEF Folded
    <3>2. CASE s # {}
      <4>1. Max(s) \in 1..n
        BY <1>1, <3>2, MaxIsGreatest
      <4>2. h[s \ {Max(s)}] \in T
        OBVIOUS
      <4>3. h[s] = g[<<h[s \ {Max(s)}], Max(s)>>]
        BY <3>2, <2>2 DEF Folded
      <4>q. QED BY <3>2, <4>1, <4>2, <4>3 DEF g
    <3>q. QED BY <3>1, <3>2
  <2>4. h = [s \in SUBSET (1..n) |-> step(h, s)]
    BY <2>3
  <2>q. QED BY <1>1, <2>4
<1>6. IsIt(iter)
  BY <1>5
<1>7. PICK i : i = iter
  OBVIOUS
<1>8. \A s \in SUBSET (1..n) : i[s] = step(i, s)
  <2>1. i = [s \in SUBSET (1..n) |-> step(i, s)]
    BY <1>1, <1>6, <1>7
  <2>q. QED BY <2>1
<1>9. i[{}] \in T
  BY <1>2, <1>8
<1>10. ASSUME NEW k \in 1..n, i[1..(k - 1)] \in T PROVE i[1..k] \in T
  <2>1. 1..k \in SUBSET (1..n) /\ 1..k # {} /\ Max(1..k) = k /\ (1..k) \ {k} = 1..(k - 1)
    BY <1>1, FirstPlaces
  <2>2. i[1..k] = Then(i[1..(k - 1)], ps[k])
    BY <1>8, <2>1
  <2>q. QED BY <2>2, <1>3, <1>10
<1>11. i[1..n] \in T
  BY <1>1, <1>9, <1>10, FoldedStays
<1>12. x \in T
  BY <1>1, <1>4, <1>7, <1>11
<1>q. QED BY <1>12 DEF T

\* A packet that is kept, or that goes through the window after those kept.
LEMMA TakeType ==
    ASSUME NEW r \in Streams, NEW p \in Nat \union {Parity}, media \in Media
    PROVE  Take(r, p) \in Runs(r)
<1>1. r.pending \in Seq(Nat \union {Parity})
  BY DEF Streams
<1> DEFINE b == Append(r.pending, p)
<1>2. b \in Seq(Nat \union {Parity}) /\ <<>> \in Seq(Nat \union {Parity}) /\ <<>> \in Seq(Nat)
  BY <1>1, AppendProperties
<1>3. CASE r.mode = "waiting"
  <2> DEFINE t == [r EXCEPT !.pending = b]
  <2>1. Take(r, p) = Quiet(t)
    BY <1>3 DEF Take
  <2> HIDE DEF b
  <2>2. t \in Streams /\ t.st = r.st /\ t.batched = r.batched
    BY <1>2 DEF Streams
  <2> HIDE DEF t
  <2>q. QED BY <1>2, <2>1, <2>2 DEF Quiet, Runs
<1>4. CASE r.mode # "waiting"
  <2> DEFINE t == [r EXCEPT !.pending = <<>>]
  <2>1. Take(r, p) = ProcessAll(t, b)
    BY <1>4 DEF Take
  <2>2. t \in Streams /\ t.st = r.st /\ t.batched = r.batched
    BY <1>2 DEF Streams
  <2> HIDE DEF t, b
  <2>3. ProcessAll(t, b) \in Runs(t)
    BY <1>2, <2>2, ProcessAllType
  <2>q. QED BY <2>1, <2>2, <2>3 DEF Runs
<1>q. QED BY <1>3, <1>4

\* mcast_deliver_packet() leaves the ways and the source alone.
LEMMA DeliverPrivateGood ==
    ASSUME NEW w \in Good, NEW p \in Nat \union {Parity}, NEW lack, media \in Media
    PROVE  LET x == DeliverPrivate(w, p, lack)
           IN  x \in Good /\ SameWays(w, x) /\ x.src = w.src
<1> DEFINE x == DeliverPrivate(w, p, lack)
           to == (w.src.private \intersect Served(w))
                   \ (IF w.src.refs = 1 /\ ~w.src.shared THEN {} ELSE lack.views)
           view2 == [v \in Viewers |-> IF v \in to THEN Take(w.view[v], p).r ELSE w.view[v]]
           out2 == [v \in Viewers |-> IF v \in to THEN w.out[v] \o Take(w.view[v], p).out ELSE w.out[v]]
<1>1. x = [w EXCEPT !.view = view2, !.out = out2]
  BY Zenon DEF DeliverPrivate
<1> HIDE DEF to
<1>2. \A v \in Viewers : /\ Take(w.view[v], p).r \in Streams /\ Take(w.view[v], p).out \in Seq(Nat)
                         /\ Take(w.view[v], p).r.st = w.view[v].st
                         /\ Take(w.view[v], p).r.batched = w.view[v].batched
  BY CallParts, TakeType DEF Runs
<1>3. view2 \in [Viewers -> Streams]
  BY <1>2, CallParts
<1>4. \A v \in Viewers : view2[v].st = w.view[v].st /\ view2[v].batched = w.view[v].batched
  BY <1>2, CallParts
<1>5. out2 \in [Viewers -> Seq(Nat)]
  <2>1. \A v \in Viewers : w.out[v] \in Seq(Nat) /\ w.out[v] \o Take(w.view[v], p).out \in Seq(Nat)
    BY <1>2, CallParts, ConcatProperties
  <2>q. QED BY <2>1
<1> HIDE DEF x, view2, out2
<1>6. x \in Calls /\ x.src = w.src /\ x.view = view2
  BY <1>1, <1>3, <1>5, CallParts DEF Calls
<1>7. SameWays(w, x)
  BY <1>4, <1>6 DEF SameWays
<1>8. Len(x.src.batch) <= BatchMax /\ (~w.src.shared => x.src.batch = <<>>)
  BY <1>6, CallParts DEF Counted
<1>q. QED BY <1>6, <1>7, <1>8, SameIsGood DEF x

\* mcast_source_promote_ready() moves viewers with windows of their own to the batches.
LEMMA PromoteGood ==
    ASSUME NEW w \in Good, NEW lack, w.src.shared
    PROVE  PromoteReady(w, lack) \in Good
<1> DEFINE ready == {v \in w.src.private : Ready(w, v)}
           f == Flush(w, lack)
           priv2 == f.src.private \ ready
           clients2 == f.src.clients + Cardinality(ready)
           view2 == [v \in Viewers |-> BatchedIf(v \in ready, f.view[v])]
           x == PromoteReady(w, lack)
<1>1. CASE ready = {}
  BY <1>1 DEF PromoteReady
<1>2. CASE ready # {}
  <2>1. x = [f EXCEPT !.src.private = priv2, !.src.clients = clients2, !.view = view2]
    BY <1>2 DEF PromoteReady
  <2>2. f \in Good /\ SameWays(w, f) /\ f.src.batch = <<>>
    BY FlushGood
  <2> HIDE DEF f
  <2>3. /\ IsFiniteSet(Attached(f)) /\ f.src.refs = Cardinality(Attached(f))
        /\ f.src.clients = Cardinality(Batched(f)) /\ f.src.private = Attached(f) \ Batched(f)
        /\ f.src.shared
    BY <2>2, CallParts DEF Counted, SameWays
  <2>4. ready \in SUBSET f.src.private /\ ready \in SUBSET Attached(f)
    BY <2>2, <2>3 DEF SameWays
  <2> HIDE DEF ready
  <2>5. IsFiniteSet(ready) /\ Cardinality(ready) \in Nat /\ clients2 \in Nat
    <3>1. IsFiniteSet(ready)
      BY <2>3, <2>4, FS_Subset
    <3>q. QED BY <2>2, <3>1, FS_CardinalityType, CallParts
  <2>6. view2 \in [Viewers -> Streams]
        /\ \A v \in Viewers : view2[v].st = f.view[v].st
                              /\ (view2[v].batched <=> f.view[v].batched \/ v \in ready)
    <3>1. ASSUME NEW r \in Streams, NEW b
          PROVE  /\ BatchedIf(b, r) \in Streams /\ BatchedIf(b, r).st = r.st
                 /\ (BatchedIf(b, r).batched <=> r.batched \/ b)
      <4> DEFINE c == r.batched \/ b
      <4>1. c \in BOOLEAN /\ (c <=> r.batched \/ b)
        OBVIOUS
      <4>2. BatchedIf(b, r) = [r EXCEPT !.batched = c]
        BY DEF BatchedIf
      <4> HIDE DEF c
      <4>3. [r EXCEPT !.batched = c] \in Streams /\ [r EXCEPT !.batched = c].st = r.st
            /\ [r EXCEPT !.batched = c].batched = c
        BY <4>1 DEF Streams
      <4>q. QED BY <4>1, <4>2, <4>3
    <3>2. \A v \in Viewers : view2[v] = BatchedIf(v \in ready, f.view[v]) /\ f.view[v] \in Streams
      BY <2>2, CallParts
    <3> HIDE DEF view2
    <3>4. ASSUME NEW v \in Viewers
          PROVE  /\ view2[v] \in Streams /\ view2[v].st = f.view[v].st
                 /\ (view2[v].batched <=> f.view[v].batched \/ v \in ready)
      <4> DEFINE b == v \in ready
      <4>1. view2[v] = BatchedIf(b, f.view[v]) /\ f.view[v] \in Streams
        BY <3>2
      <4> HIDE DEF b
      <4>2. /\ BatchedIf(b, f.view[v]) \in Streams /\ BatchedIf(b, f.view[v]).st = f.view[v].st
            /\ (BatchedIf(b, f.view[v]).batched <=> f.view[v].batched \/ b)
        BY <4>1, <3>1
      <4>q. QED BY <4>1, <4>2 DEF b
    <3>5. view2 \in [Viewers -> Streams]
      BY <3>4 DEF view2
    <3>q. QED BY <3>4, <3>5
  <2> HIDE DEF view2
  <2>7. priv2 \in SUBSET Viewers
    BY <2>2, CallParts
  <2> HIDE DEF priv2, clients2, x
  <2>8. x \in Calls /\ x.view = view2
        /\ x.src = [f.src EXCEPT !.private = priv2, !.clients = clients2]
    BY <2>1, <2>2, <2>5, <2>6, <2>7, CallParts DEF Calls, Sources
  <2>9. /\ x.src.refs = f.src.refs /\ x.src.private = priv2 /\ x.src.clients = clients2
        /\ x.src.shared = f.src.shared /\ x.src.batch = <<>>
    BY <2>2, <2>8, CallParts DEF Sources
  <2>10. Attached(x) = Attached(f) /\ Batched(x) = Batched(f) \union ready
    <3>1. Attached(x) = Attached(f)
      BY <2>6, <2>8 DEF Attached
    <3>2. \A v \in Viewers : x.view[v].batched <=> f.view[v].batched \/ v \in ready
      BY <2>6, <2>8
    <3>3. Attached(f) \in SUBSET Viewers
      BY DEF Attached
    <3>q. QED BY <2>4, <3>1, <3>2, <3>3 DEF Batched
  <2>11. clients2 = Cardinality(Batched(x))
    <3>1. IsFiniteSet(Batched(f)) /\ Batched(f) \intersect ready = {}
      <4>1. Batched(f) \in SUBSET Attached(f) /\ Batched(f) \intersect ready = {}
        BY <2>3, <2>4 DEF Batched
      <4>q. QED BY <2>3, <4>1, FS_Subset
    <3>2. Cardinality(Batched(f) \union ready) = Cardinality(Batched(f)) + Cardinality(ready)
      <4>1. Cardinality(Batched(f) \union ready)
              = Cardinality(Batched(f)) + Cardinality(ready) - Cardinality(Batched(f) \intersect ready)
        BY <2>5, <3>1, FS_Union
      <4>2. Cardinality(Batched(f) \intersect ready) = 0
        BY <3>1, FS_EmptySet
      <4>3. Cardinality(Batched(f)) \in Nat /\ Cardinality(ready) \in Nat
        BY <2>5, <3>1, FS_CardinalityType
      <4>q. QED BY <4>1, <4>2, <4>3
    <3>q. QED BY <2>3, <2>10, <3>2 DEF clients2
  <2>12. priv2 = Attached(x) \ Batched(x)
    BY <2>3, <2>10 DEF priv2
  <2>13. Len(<<>>) <= BatchMax
    BY Sizes
  <2>14. Counted(x)
    BY <2>3, <2>9, <2>10, <2>11, <2>12, <2>13 DEF Counted
  <2>q. QED BY <2>8, <2>14 DEF Good, x
<1>q. QED BY <1>1, <1>2

\* mcast_source_enable_private_fec() moves everybody to windows of their own.
LEMMA PrivateFecGood ==
    ASSUME NEW w \in Good, NEW lack
    PROVE  EnablePrivateFec(w, lack) \in Good
<1> DEFINE f == Flush(w, lack)
           B == Batched(f)
           priv2 == f.src.private \union B
           alone(v) == [f.view[v] EXCEPT !.batched = FALSE, !.win = f.src.win]
           view2 == [v \in Viewers |-> IF v \in B THEN FailsIf(v \in lack.views, alone(v)) ELSE f.view[v]]
           x == EnablePrivateFec(w, lack)
<1>1. x = [f EXCEPT !.src.shared = FALSE, !.src.clients = 0, !.src.win = Fresh,
                    !.src.private = priv2, !.view = view2]
  BY DEF EnablePrivateFec
<1>2. f \in Good /\ f.src.batch = <<>>
  BY FlushGood
<1> HIDE DEF f
<1>3. /\ IsFiniteSet(Attached(f)) /\ f.src.refs = Cardinality(Attached(f))
      /\ f.src.private = Attached(f) \ B
  BY <1>2, CallParts DEF Counted
<1>4. B = {v \in Attached(f) : f.view[v].batched} /\ B \in SUBSET Attached(f)
      /\ Attached(f) = {v \in Viewers : f.view[v].st = "on"}
  BY DEF Batched, Attached
<1> HIDE DEF B
<1>5. priv2 = Attached(f) /\ priv2 \in SUBSET Viewers
  BY <1>3, <1>4
<1>6. view2 \in [Viewers -> Streams]
      /\ \A v \in Viewers : view2[v].st = f.view[v].st
                            /\ (view2[v].batched => f.view[v].batched /\ v \notin B)
  <2>1. ASSUME NEW v \in Viewers
        PROVE  /\ FailsIf(v \in lack.views, alone(v)) \in Streams
               /\ FailsIf(v \in lack.views, alone(v)).st = f.view[v].st
               /\ ~FailsIf(v \in lack.views, alone(v)).batched
    <3>1. f.view[v] \in Streams /\ f.src.win \in Windows
      BY <1>2, CallParts
    <3>2. alone(v) \in Streams /\ alone(v).st = f.view[v].st /\ ~alone(v).batched
      BY <3>1 DEF Streams
    <3> HIDE DEF alone
    <3>q. QED BY <3>2, FailsIfKeeps
  <2>2. \A v \in Viewers : f.view[v] \in Streams
    BY <1>2, CallParts
  <2> HIDE DEF alone
  <2>q. QED BY <2>1, <2>2
<1> HIDE DEF priv2, view2, x
<1> DEFINE s == [f.src EXCEPT !.shared = FALSE, !.clients = 0, !.win = Fresh, !.private = priv2]
<1>a. /\ s \in Sources /\ s.refs = f.src.refs /\ s.private = priv2 /\ s.clients = 0
      /\ s.shared = FALSE /\ s.batch = <<>>
  <2>1. f.src \in Sources
    BY <1>2, CallParts
  <2>2. s \in Sources
    BY <1>5, <2>1, FreshIsOne DEF Sources
  <2>q. QED BY <1>2, <2>1, <2>2 DEF Sources
<1>b. x = [f EXCEPT !.src = s, !.view = view2]
  <2>1. f = [src |-> f.src, view |-> f.view, due |-> f.due, out |-> f.out]
    BY <1>2, CallParts DEF Calls
  <2>q. QED BY <1>1, <2>1
<1> HIDE DEF s
<1>7. x \in Calls /\ x.view = view2 /\ x.src = s
  BY <1>2, <1>6, <1>a, <1>b, CallParts DEF Calls
<1>8. /\ x.src.refs = f.src.refs /\ x.src.private = priv2 /\ x.src.clients = 0
      /\ x.src.shared = FALSE /\ x.src.batch = <<>>
  BY <1>7, <1>a
<1>9. Attached(x) = Attached(f) /\ Batched(x) = {}
  <2>1. Attached(x) = Attached(f)
    BY <1>6, <1>7 DEF Attached
  <2>q. QED BY <1>4, <1>6, <1>7, <2>1 DEF Batched
<1>10. Cardinality({}) = 0 /\ Len(<<>>) <= BatchMax
  BY Sizes, FS_EmptySet
<1>11. Counted(x)
  BY <1>3, <1>5, <1>8, <1>9, <1>10 DEF Counted
<1>q. QED BY <1>7, <1>11 DEF Good, x
-----------------------------------------------------------------------------
(* Steps. *)

\* What a call leaves becomes the state.
LEMMA BecomesGood ==
    ASSUME IInv, NEW w \in Good, Becomes(w), newest' \in Packets, trouble' \in 0..MaxTrouble
    PROVE  IInv'
<1> DEFINE none == [v \in Viewers |-> <<>>]
           x == [src |-> src', view |-> view', due |-> due', out |-> none]
<1>1. src' = w.src /\ view' = w.view /\ out' = w.out /\ media' = media
  BY DEF Becomes
<1>2. src' \in Sources /\ view' \in [Viewers -> Streams] /\ out' \in [Viewers -> Seq(Nat)] /\ Counted(w)
  BY <1>1, CallParts
<1>3. due' \in [Viewers -> SUBSET Nat]
  <2>1. \A v \in Viewers : (IF w.view[v].st = "on" THEN w.due[v] \ ToSet(w.out[v]) ELSE {}) \in SUBSET Nat
    BY CallParts
  <2>2. due' = [v \in Viewers |-> IF w.view[v].st = "on" THEN w.due[v] \ ToSet(w.out[v]) ELSE {}]
    BY DEF Becomes
  <2>q. QED BY <2>1, <2>2
<1>4. last' \in [Viewers -> Packets]
  <2>1. last' = [v \in Viewers |-> IF w.out[v] = <<>> THEN last[v] ELSE w.out[v][Len(w.out[v])]]
    BY DEF Becomes, Viewer!Newest
  <2>2. \A v \in Viewers : (IF w.out[v] = <<>> THEN last[v] ELSE w.out[v][Len(w.out[v])]) \in Packets
    <3>1. ASSUME NEW s \in Seq(Nat), s # <<>> PROVE s[Len(s)] \in Packets
      <4>1. Len(s) \in 1..Len(s)
        BY <3>1, EmptySeq, LenProperties
      <4>q. QED BY <4>1, ElementOfSeq DEF Packets
    <3>2. \A v \in Viewers : last[v] \in Packets /\ w.out[v] \in Seq(Nat)
      BY CallParts DEF IInv
    <3>q. QED BY <3>1, <3>2
  <2>q. QED BY <2>1, <2>2
<1>5. none \in [Viewers -> Seq(Nat)]
  OBVIOUS
<1> HIDE DEF none
<1>6. x \in Calls /\ x.src = w.src /\ x.view = w.view
  <2>1. x \in Calls
    BY <1>2, <1>3, <1>5 DEF Calls
  <2>q. QED BY <1>1, <2>1
<1>7. Attached(x) = Attached(w) /\ Batched(x) = Batched(w)
  <2> HIDE DEF x
  <2>q. QED BY <1>6 DEF Attached, Batched
<1>8. x \in Good
  <2> HIDE DEF x
  <2>q. QED BY <1>2, <1>6, <1>7 DEF Good, Counted
<1>9. Now' = x
  BY DEF Now, none
<1>q. QED BY <1>1, <1>2, <1>4, <1>8, <1>9 DEF IInv

\* Another view of a viewer who is served in the same way, and what it is given.
LEMMA ViewGood ==
    ASSUME NEW w \in Good, NEW v \in Viewers, NEW r \in Streams, NEW o \in Seq(Nat),
           r.st = w.view[v].st, r.batched = w.view[v].batched
    PROVE  [w EXCEPT !.view[v] = r] \in Good /\ [w EXCEPT !.view[v] = r, !.out[v] = o] \in Good
<1> DEFINE view2 == [w.view EXCEPT ![v] = r]
           out2 == [w.out EXCEPT ![v] = o]
           x == [w EXCEPT !.view = view2]
           y == [w EXCEPT !.view = view2, !.out = out2]
<1>1. view2 \in [Viewers -> Streams] /\ out2 \in [Viewers -> Seq(Nat)]
      /\ \A u \in Viewers : view2[u].st = w.view[u].st /\ view2[u].batched = w.view[u].batched
  BY CallParts
<1>2. [w EXCEPT !.view[v] = r] = x /\ [w EXCEPT !.view[v] = r, !.out[v] = o] = y
  BY CallParts DEF Calls
<1> HIDE DEF view2, out2
<1>3. x \in Calls /\ y \in Calls /\ x.src = w.src /\ y.src = w.src /\ x.view = view2 /\ y.view = view2
  BY <1>1, CallParts DEF Calls
<1> HIDE DEF x, y
<1>4. SameWays(w, x) /\ SameWays(w, y)
  BY <1>1, <1>3 DEF SameWays
<1>5. Len(w.src.batch) <= BatchMax /\ (~w.src.shared => w.src.batch = <<>>)
  BY CallParts DEF Counted
<1>6. x \in Good /\ y \in Good
  BY <1>3, <1>4, <1>5, SameIsGood
<1>q. QED BY <1>2, <1>6

\* A viewer that is not attached.
LEMMA DetachedType ==
    /\ Detached("on") \in Streams /\ Detached("gone") \in Streams /\ Detached("new") \in Streams
    /\ NewSource \in Sources
<1>1. \A s \in {"new", "on", "gone"} : Detached(s) \in Streams
  <2>1. <<>> \in Seq(Nat \union {Parity})
    OBVIOUS
  <2>q. QED BY <2>1, FreshIsOne DEF Detached, Streams
<1>2. NewSource \in Sources
  <2>1. <<>> \in Seq(Nat)
    OBVIOUS
  <2>q. QED BY <2>1, FreshIsOne DEF NewSource, Sources
<1>q. QED BY <1>1, <1>2

\* What is done out of the ordinary stays within its bound.
LEMMA TroubleType ==
    ASSUME IInv
    PROVE  /\ \A n \in Nat : Trouble(n) => trouble' \in 0..MaxTrouble
           /\ \A lack : Short(lack) \in Nat
           /\ UNCHANGED trouble => trouble' \in 0..MaxTrouble
           /\ UNCHANGED newest => newest' \in Packets
<1>1. trouble \in 0..MaxTrouble /\ MaxTrouble \in Nat /\ newest \in Packets
  BY MulticastAssumption DEF IInv
<1>2. ASSUME NEW n \in Nat, Trouble(n) PROVE trouble' \in 0..MaxTrouble
  <2>1. trouble' = trouble + n /\ trouble + n <= MaxTrouble
    BY <1>2 DEF Trouble
  <2>q. QED BY <1>1, <2>1
<1>q. QED BY <1>1, <1>2 DEF Short

\* A datagram is a packet.
LEMMA ArrivalsType ==
    ASSUME IInv, NEW p \in Arrivals
    PROVE  p \in Nat
<1>1. First \in Nat /\ (media = "ts" \/ media = "rtp")
  BY MulticastAssumption DEF IInv
<1>2. 0..MaxPacket \subseteq Nat
  BY MulticastAssumption
<1> DEFINE far == (newest - MaxLate)..(newest + 1 + MaxLoss)
<1>3. p \in {First} \/ p \in {newest + 1} \intersect 0..MaxPacket \/ p \in far \intersect 0..MaxPacket
  BY <1>1 DEF Arrivals
<1> HIDE DEF far
<1>q. QED BY <1>1, <1>2, <1>3

\* mcast_source_process_packet() keeps the invariant.
LEMMA PacketKeeps ==
    ASSUME IInv, NEW lack, NEW p \in Arrivals, Packet(p, lack)
    PROVE  IInv'
<1>1. p \in Nat /\ media \in Media /\ newest \in Packets
  BY ArrivalsType DEF IInv
<1> DEFINE due2 == [v \in Viewers |->
                IF /\ v \in Served(Now) \ lack.views /\ view[v].mode # "snapshot" /\ RingIsFresh(v)
                   /\ newest - p < W /\ p > (IF last[v] = -1 THEN newest ELSE last[v])
                THEN due[v] \union {p} ELSE due[v]]
           owing == Owing(p, lack)
           heard == DeliverPrivate(owing, p, lack)
           given == IF src.shared THEN PromoteReady(Shared(heard, p, lack), lack) ELSE heard
<1>2. owing \in Good /\ owing.src = src
  <2>1. Now \in Good /\ Now.src = src /\ Now.due = due
    BY DEF IInv, Now
  <2>2. owing = [Now EXCEPT !.due = due2]
    BY <2>1 DEF Owing
  <2>3. due2 \in [Viewers -> SUBSET Nat]
    <3>1. \A v \in Viewers : due[v] \in SUBSET Nat /\ due[v] \union {p} \in SUBSET Nat
      BY <1>1, <2>1, CallParts
    <3>q. QED BY <3>1
  <2> HIDE DEF due2, owing
  <2>4. owing \in Calls /\ owing.src = src /\ owing.view = Now.view
    BY <2>1, <2>2, <2>3, CallParts DEF Calls
  <2>5. SameWays(Now, owing)
    BY <2>1, <2>4 DEF SameWays
  <2>6. Len(owing.src.batch) <= BatchMax /\ (~Now.src.shared => owing.src.batch = <<>>)
    BY <2>1, <2>4, CallParts DEF Counted
  <2>q. QED BY <2>1, <2>4, <2>5, <2>6, SameIsGood DEF owing
<1> HIDE DEF owing
<1>3. heard \in Good /\ heard.src = src
  BY <1>1, <1>2, DeliverPrivateGood
<1>4. given \in Good
  <2> HIDE DEF heard
  <2>1. CASE src.shared
    <3> DEFINE x == Shared(heard, p, lack)
    <3>1. x \in Good /\ SameWays(heard, x)
      BY <1>1, <1>3, SharedGood
    <3> HIDE DEF x
    <3>2. x.src.shared
      BY <1>3, <2>1, <3>1 DEF SameWays
    <3>3. PromoteReady(x, lack) \in Good
      BY <3>1, <3>2, PromoteGood
    <3>q. QED BY <2>1, <3>3 DEF x
  <2>2. CASE ~src.shared
    BY <1>3, <2>2
  <2>q. QED BY <2>1, <2>2
<1>5. Becomes(given)
  BY DEF Packet, owing
<1> HIDE DEF given
<1>6. newest' \in Packets
  <2>1. newest' = IF p > newest THEN p ELSE newest
    BY DEF Packet
  <2>q. QED BY <1>1, <2>1 DEF Packets
<1>7. trouble' \in 0..MaxTrouble
  <2> DEFINE n == Short(lack) + (IF newest # -1 /\ p # newest + 1 THEN 1 ELSE 0)
  <2>1. n \in Nat
    BY TroubleType
  <2>2. Trouble(n)
    BY DEF Packet
  <2> HIDE DEF n
  <2>q. QED BY <2>1, <2>2, TroubleType
<1>q. QED BY <1>4, <1>5, <1>6, <1>7, BecomesGood

\* Parity keeps the invariant.
LEMMA ParityKeeps ==
    ASSUME IInv, NEW lack, ParityPacket(lack)
    PROVE  IInv'
<1> DEFINE x == IF src.shared THEN EnablePrivateFec(Now, lack) ELSE Now
           given == DeliverPrivate(x, Parity, lack)
<1>1. Now \in Good /\ media \in Media /\ newest \in Packets
  BY DEF IInv
<1>2. x \in Good
  BY <1>1, PrivateFecGood
<1>3. Becomes(given) /\ UNCHANGED newest /\ Trouble(Short(lack) + 1)
  BY DEF ParityPacket
<1> HIDE DEF x
<1>4. given \in Good
  BY <1>1, <1>2, DeliverPrivateGood
<1> HIDE DEF given
<1>5. Short(lack) + 1 \in Nat
  BY TroubleType
<1>q. QED BY <1>1, <1>3, <1>4, <1>5, TroubleType, BecomesGood

\* mcast_session_join() counts the newcomer once, in one of the two ways.
LEMMA JoinKeeps ==
    ASSUME IInv, NEW v \in Viewers, NEW mode \in Modes, NEW lack, Join(v, mode, lack)
    PROVE  IInv'
<1> DEFINE f == Flush(Now, lack)
           batched == src.shared /\ mode = "plain"
           new == [Detached("on") EXCEPT !.mode = mode, !.batched = batched]
           clients2 == IF batched THEN f.src.clients + 1 ELSE f.src.clients
           priv2 == IF batched THEN f.src.private ELSE f.src.private \union {v}
           s == [f.src EXCEPT !.refs = f.src.refs + 1, !.clients = clients2, !.private = priv2]
           view2 == [f.view EXCEPT ![v] = new]
           x == [f EXCEPT !.src = s, !.view = view2]
           given == [f EXCEPT !.src.refs = @ + 1,
                              !.src.clients = IF batched THEN @ + 1 ELSE @,
                              !.src.private = IF batched THEN @ ELSE @ \union {v},
                              !.view[v] = [Detached("on") EXCEPT !.mode = mode, !.batched = batched]]
<1>1. Now \in Good /\ Now.src = src /\ Now.view = view /\ newest \in Packets
  BY DEF IInv, Now
<1>2. f \in Good /\ SameWays(Now, f) /\ f.src.batch = <<>>
  BY <1>1, FlushGood
<1>3. Becomes(given) /\ view[v].st = "new" /\ UNCHANGED newest /\ Trouble(Short(lack))
  BY DEF Join
<1> HIDE DEF f
<1>4. given = x
  <2>1. f = [src |-> f.src, view |-> f.view, due |-> f.due, out |-> f.out]
    BY <1>2, CallParts DEF Calls
  <2>q. QED BY <2>1
<1>5. batched \in BOOLEAN /\ (batched => f.src.shared)
  BY <1>1, <1>2 DEF SameWays
<1> HIDE DEF given, batched
<1>6. new \in Streams /\ new.st = "on" /\ new.batched = batched
  <2>1. Detached("on") \in Streams /\ Detached("on").st = "on"
    BY DetachedType DEF Detached
  <2>q. QED BY <1>5, <2>1 DEF Streams
<1>7. /\ f.view[v].st = "new"
      /\ IsFiniteSet(Attached(f)) /\ f.src.refs = Cardinality(Attached(f))
      /\ f.src.clients = Cardinality(Batched(f)) /\ f.src.private = Attached(f) \ Batched(f)
      /\ (~f.src.shared => f.src.clients = 0)
  BY <1>1, <1>2, <1>3, CallParts DEF Counted, SameWays
<1>8. v \notin Attached(f) /\ Batched(f) \in SUBSET Attached(f) /\ Attached(f) \in SUBSET Viewers
  BY <1>7 DEF Attached, Batched
<1> HIDE DEF new
<1>9. view2 \in [Viewers -> Streams] /\ view2[v] = new
      /\ \A u \in Viewers : u # v => view2[u] = f.view[u]
  BY <1>2, <1>6, CallParts
<1>10. clients2 \in Nat /\ priv2 \in SUBSET Viewers /\ f.src.refs + 1 \in Nat
  BY <1>2, CallParts
<1> HIDE DEF view2, clients2, priv2
<1>11. /\ s \in Sources /\ s.refs = f.src.refs + 1 /\ s.clients = clients2 /\ s.private = priv2
       /\ s.shared = f.src.shared /\ s.batch = <<>>
  <2>1. f.src \in Sources
    BY <1>2, CallParts
  <2>q. QED BY <1>2, <1>10, <2>1 DEF Sources
<1> HIDE DEF s
<1>12. x \in Calls /\ x.src = s /\ x.view = view2
  BY <1>2, <1>9, <1>11, CallParts DEF Calls
<1> HIDE DEF x
<1>13. Attached(x) = Attached(f) \union {v}
  BY <1>6, <1>9, <1>12 DEF Attached
<1>14. Batched(x) = IF batched THEN Batched(f) \union {v} ELSE Batched(f)
  BY <1>5, <1>6, <1>8, <1>9, <1>12, <1>13 DEF Batched
<1>15. IsFiniteSet(Attached(x)) /\ Cardinality(Attached(x)) = f.src.refs + 1
  BY <1>7, <1>8, <1>13, FS_AddElement
<1>16. clients2 = Cardinality(Batched(x))
  <2>1. IsFiniteSet(Batched(f)) /\ v \notin Batched(f)
    BY <1>7, <1>8, FS_Subset
  <2>2. Cardinality(Batched(f) \union {v}) = Cardinality(Batched(f)) + 1
    BY <2>1, FS_AddElement
  <2>q. QED BY <1>7, <1>14, <2>2 DEF clients2
<1>17. priv2 = Attached(x) \ Batched(x)
  BY <1>7, <1>8, <1>13, <1>14 DEF priv2
<1>18. ~f.src.shared => clients2 = 0
  BY <1>5, <1>7 DEF clients2
<1>19. Len(<<>>) <= BatchMax
  BY Sizes
<1>20. Counted(x)
  BY <1>11, <1>12, <1>15, <1>16, <1>17, <1>18, <1>19 DEF Counted
<1>21. given \in Good
  BY <1>4, <1>12, <1>20 DEF Good
<1>22. Short(lack) \in Nat
  BY TroubleType
<1>q. QED BY <1>1, <1>3, <1>21, <1>22, TroubleType, BecomesGood

\* mcast_session_cleanup() takes a viewer out of the counts it is in.
LEMMA GoneGood ==
    ASSUME IInv, NEW v \in Viewers, view[v].st = "on"
    PROVE  Gone(v) \in Good
<1> DEFINE clients2 == IF view[v].batched THEN src.clients - 1 ELSE src.clients
           priv2 == IF view[v].batched THEN src.private ELSE src.private \ {v}
           left == [src EXCEPT !.refs = src.refs - 1, !.clients = clients2, !.private = priv2]
           s == IF left.refs = 0 THEN NewSource ELSE left
           view2 == [view EXCEPT ![v] = Detached("gone")]
           x == [Now EXCEPT !.src = s, !.view = view2]
<1>1. Now \in Good /\ Now.src = src /\ Now.view = view
  BY DEF IInv, Now
<1>2. Gone(v) = x
  BY DEF Gone, Now
<1>3. /\ IsFiniteSet(Attached(Now)) /\ src.refs = Cardinality(Attached(Now))
      /\ src.clients = Cardinality(Batched(Now)) /\ src.private = Attached(Now) \ Batched(Now)
      /\ (~src.shared => src.clients = 0 /\ src.batch = <<>>)
      /\ Len(src.batch) <= BatchMax
      /\ src \in Sources /\ view \in [Viewers -> Streams]
  BY <1>1, CallParts DEF Counted
<1>4. /\ v \in Attached(Now) /\ (v \in Batched(Now) <=> view[v].batched)
      /\ Batched(Now) \in SUBSET Attached(Now)
  BY <1>1 DEF Attached, Batched
<1>5. IsFiniteSet(Batched(Now)) /\ src.clients \in Nat /\ src.refs \in Nat
  BY <1>1, <1>3, <1>4, FS_Subset, CallParts
<1>6. /\ IsFiniteSet(Attached(Now) \ {v})
      /\ Cardinality(Attached(Now) \ {v}) = src.refs - 1 /\ src.refs - 1 \in Nat
  <2>1. IsFiniteSet(Attached(Now) \ {v}) /\ Cardinality(Attached(Now) \ {v}) = src.refs - 1
    BY <1>3, <1>4, FS_RemoveElement
  <2>q. QED BY <2>1, FS_CardinalityType
<1>7. clients2 = Cardinality(Batched(Now) \ {v}) /\ clients2 \in Nat /\ (~src.shared => clients2 = 0)
  <2>1. IsFiniteSet(Batched(Now) \ {v}) /\ Cardinality(Batched(Now) \ {v}) \in Nat
    BY <1>5, FS_Subset, FS_CardinalityType
  <2>2. CASE view[v].batched
    <3>1. Cardinality(Batched(Now) \ {v}) = src.clients - 1
      BY ZenonT(60), <1>3, <1>4, <1>5, <2>2, FS_RemoveElement
    <3>2. src.shared
      <4>1. src.clients - 1 \in Nat
        BY <2>1, <3>1
      <4>2. src.clients # 0
        BY <4>1
      <4>q. QED BY <1>3, <4>2
    <3>q. QED BY <2>1, <2>2, <3>1, <3>2
  <2>3. CASE ~view[v].batched
    <3>1. Batched(Now) \ {v} = Batched(Now)
      BY <1>4, <2>3
    <3>q. QED BY <1>3, <1>5, <2>3, <3>1
  <2>q. QED BY <2>2, <2>3
<1>8. priv2 = (Attached(Now) \ {v}) \ (Batched(Now) \ {v}) /\ priv2 \in SUBSET Viewers
  <2>1. src.private \in SUBSET Viewers
    BY <1>1, CallParts
  <2>q. QED BY <1>3, <1>4, <2>1
<1> HIDE DEF clients2, priv2
<1>9. /\ left \in Sources /\ left.refs = src.refs - 1 /\ left.clients = clients2
      /\ left.private = priv2 /\ left.shared = src.shared /\ left.batch = src.batch
  BY <1>3, <1>6, <1>7, <1>8 DEF Sources
<1>10. Detached("gone") \in Streams /\ Detached("gone").st = "gone"
  BY DetachedType DEF Detached
<1>11. view2 \in [Viewers -> Streams] /\ view2[v].st = "gone"
       /\ \A u \in Viewers : u # v => view2[u] = view[u]
  BY <1>3, <1>10
<1> HIDE DEF left, view2
<1>12. s \in Sources
  BY <1>9, DetachedType
<1> HIDE DEF s
<1>13. x \in Calls /\ x.src = s /\ x.view = view2
  BY <1>1, <1>11, <1>12, CallParts DEF Calls
<1> HIDE DEF x
<1>14. Attached(x) = Attached(Now) \ {v}
  BY <1>1, <1>11, <1>13 DEF Attached
<1>15. Batched(x) = Batched(Now) \ {v}
  <2>1. Attached(Now) \in SUBSET Viewers
    BY DEF Attached
  <2>2. \A u \in Viewers : u # v => x.view[u] = Now.view[u]
    BY <1>1, <1>11, <1>13
  <2>3. \A u : u \in Batched(x) <=> u \in Attached(Now) /\ u # v /\ x.view[u].batched
    BY <1>14 DEF Batched
  <2>4. \A u : u \in Batched(Now) <=> u \in Attached(Now) /\ Now.view[u].batched
    BY DEF Batched
  <2>q. QED BY <2>1, <2>2, <2>3, <2>4
<1>16. CASE src.refs - 1 = 0
  <2>1. s = NewSource
    BY <1>9, <1>16 DEF s
  <2>2. Attached(x) = {} /\ Batched(x) = {}
    <3>1. Attached(x) = {}
      BY <1>6, <1>14, <1>16, FS_EmptySet
    <3>q. QED BY <3>1 DEF Batched
  <2>3. /\ s.refs = 0 /\ s.clients = 0 /\ s.private = {} /\ s.batch = <<>>
    BY <2>1 DEF NewSource
  <2>4. Cardinality({}) = 0 /\ IsFiniteSet({}) /\ Len(<<>>) <= BatchMax
    BY FS_EmptySet, Sizes
  <2>q. QED BY <1>2, <1>13, <2>2, <2>3, <2>4 DEF Good, Counted
<1>17. CASE src.refs - 1 # 0
  <2>1. s = left
    BY <1>9, <1>17 DEF s
  <2>2. Counted(x)
    BY <1>3, <1>6, <1>7, <1>8, <1>9, <1>13, <1>14, <1>15, <2>1 DEF Counted
  <2>q. QED BY <1>2, <1>13, <2>2 DEF Good
<1>q. QED BY <1>16, <1>17

\* A viewer that leaves.
LEMMA LeaveKeeps ==
    ASSUME IInv, NEW v \in Viewers, Leave(v)
    PROVE  IInv'
<1>1. view[v].st = "on" /\ Becomes(Gone(v)) /\ UNCHANGED newest /\ UNCHANGED trouble
  BY DEF Leave
<1>2. Gone(v) \in Good
  BY <1>1, GoneGood
<1>q. QED BY <1>1, <1>2, TroubleType, BecomesGood

\* What changes nothing but a viewer's progress.
LEMMA ProgressKeeps ==
    ASSUME IInv, NEW v \in Viewers,
           \/ StartClosing(v)
           \/ HandOver(v)
           \/ SnapshotFallback(v)
           \/ \E p \in 0..MaxPacket : Burst(v, p)
    PROVE  IInv'
<1>1. Now \in Good /\ Now.view = view /\ view[v] \in Streams
  <2>1. Now \in Good /\ Now.view = view
    BY DEF IInv, Now
  <2>q. QED BY <2>1, CallParts
<1>2. view[v].st \in {"new", "on", "gone"} /\ "plain" \in Modes \union {"plain", "active"}
      /\ "active" \in Modes \union {"plain", "active"}
  BY <1>1 DEF Streams
<1>3. /\ UNCHANGED newest => newest' \in Packets
      /\ UNCHANGED trouble => trouble' \in 0..MaxTrouble
      /\ Trouble(2) => trouble' \in 0..MaxTrouble
  BY TroubleType
<1>4. CASE StartClosing(v)
  <2> DEFINE r == [view[v] EXCEPT !.closing = TRUE]
             x == [Now EXCEPT !.view[v] = r]
  <2>1. r \in Streams /\ r.st = view[v].st /\ r.batched = view[v].batched
    BY <1>1 DEF Streams
  <2>2. Becomes([Now EXCEPT !.view[v].closing = TRUE]) /\ UNCHANGED newest /\ Trouble(2)
    BY <1>4 DEF StartClosing
  <2>3. [Now EXCEPT !.view[v].closing = TRUE] = x
    BY <1>1 DEF Now
  <2> HIDE DEF r
  <2>4. x \in Good
    BY <1>1, <2>1, ViewGood, EmptySeq
  <2>q. QED BY <1>3, <2>2, <2>3, <2>4, BecomesGood
<1>5. CASE HandOver(v)
  <2> DEFINE r == [view[v] EXCEPT !.mode = "active"]
             x == [Now EXCEPT !.view[v] = r]
  <2>1. r \in Streams /\ r.st = view[v].st /\ r.batched = view[v].batched
    BY <1>1, <1>2 DEF Streams
  <2>2. Becomes([Now EXCEPT !.view[v].mode = "active"]) /\ UNCHANGED newest /\ UNCHANGED trouble
    BY <1>5 DEF HandOver
  <2>3. [Now EXCEPT !.view[v].mode = "active"] = x
    BY <1>1 DEF Now
  <2> HIDE DEF r
  <2>4. x \in Good
    BY <1>1, <2>1, ViewGood, EmptySeq
  <2>q. QED BY <1>3, <2>2, <2>3, <2>4, BecomesGood
<1>6. CASE SnapshotFallback(v)
  <2> DEFINE r == [view[v] EXCEPT !.mode = "plain"]
             x == [Now EXCEPT !.view[v] = r]
  <2>1. r \in Streams /\ r.st = view[v].st /\ r.batched = view[v].batched
    BY <1>1, <1>2 DEF Streams
  <2>2. Becomes([Now EXCEPT !.view[v].mode = "plain"]) /\ UNCHANGED newest /\ UNCHANGED trouble
    BY <1>6 DEF SnapshotFallback
  <2>3. [Now EXCEPT !.view[v].mode = "plain"] = x
    BY <1>1 DEF Now
  <2> HIDE DEF r
  <2>4. x \in Good
    BY <1>1, <2>1, ViewGood, EmptySeq
  <2>q. QED BY <1>3, <2>2, <2>3, <2>4, BecomesGood
<1>7. ASSUME NEW p \in 0..MaxPacket, Burst(v, p) PROVE IInv'
  <2> DEFINE res == Process(view[v], p)
             x == [Now EXCEPT !.view[v] = res.r, !.out[v] = res.out]
  <2>1. p \in Nat \union {Parity} /\ media \in Media
    BY MulticastAssumption DEF IInv
  <2>2. /\ res.r \in Streams /\ res.out \in Seq(Nat)
        /\ res.r.st = view[v].st /\ res.r.batched = view[v].batched
    BY <1>1, <2>1, ProcessType
  <2>3. Becomes(x) /\ UNCHANGED newest /\ UNCHANGED trouble
    BY <1>7 DEF Burst
  <2> HIDE DEF res
  <2>4. x \in Good
    BY <1>1, <2>2, ViewGood
  <2> HIDE DEF x
  <2>q. QED BY <1>3, <2>3, <2>4, BecomesGood
<1>q. QED BY <1>4, <1>5, <1>6, <1>7

\* What a tick does, and a source that fails.
LEMMA TickKeeps ==
    ASSUME IInv, Tick \/ SourceFails
    PROVE  IInv'
<1>1. Now \in Good /\ Now.src = src /\ Now.view = view
  BY DEF IInv, Now
<1>2. ASSUME NEW v \in Viewers, TickCloses(v) PROVE IInv'
  BY <1>2, LeaveKeeps DEF TickCloses
<1>3. ASSUME NEW v \in Viewers, NEW lack, TickFlushes(v, lack) PROVE IInv'
  <2>1. Becomes(Flush(Now, lack)) /\ UNCHANGED newest /\ Trouble(Short(lack))
    BY <1>3 DEF TickFlushes
  <2>2. Flush(Now, lack) \in Good
    BY <1>1, FlushGood
  <2>q. QED BY <2>1, <2>2, TroubleType, BecomesGood
<1>4. CASE SourceFails
  <2> DEFINE s == [src EXCEPT !.failed = TRUE]
             x == [Now EXCEPT !.src = s]
  <2>1. Becomes([Now EXCEPT !.src.failed = TRUE]) /\ UNCHANGED newest /\ Trouble(2)
    BY <1>4 DEF SourceFails
  <2>2. [Now EXCEPT !.src.failed = TRUE] = x
    BY DEF Now
  <2>3. /\ s \in Sources /\ s.refs = src.refs /\ s.clients = src.clients
        /\ s.private = src.private /\ s.shared = src.shared /\ s.batch = src.batch
    <3>1. src \in Sources
      BY <1>1, CallParts
    <3>q. QED BY <3>1 DEF Sources
  <2> HIDE DEF s
  <2>4. x \in Calls /\ x.src = s /\ x.view = Now.view
    BY <1>1, <2>3, CallParts DEF Calls
  <2> HIDE DEF x
  <2>5. SameWays(Now, x)
    BY <1>1, <2>3, <2>4 DEF SameWays
  <2>6. Len(x.src.batch) <= BatchMax /\ (~Now.src.shared => x.src.batch = <<>>)
    BY <1>1, <2>3, <2>4, CallParts DEF Counted
  <2>7. x \in Good
    BY <1>1, <2>4, <2>5, <2>6, SameIsGood
  <2>8. Becomes(x) /\ trouble' \in 0..MaxTrouble /\ newest' \in Packets
    BY <2>1, <2>2, TroubleType
  <2>q. QED BY <2>7, <2>8, BecomesGood
<1>q. QED BY <1>2, <1>3, <1>4 DEF Tick

-----------------------------------------------------------------------------
\* In the beginning nobody is attached.
LEMMA InitIsRight == Init => IInv
<1> SUFFICES ASSUME Init PROVE IInv
  OBVIOUS
<1>1. /\ Now.src = NewSource /\ Now.view = [v \in Viewers |-> Detached("new")]
      /\ Now.due = [v \in Viewers |-> {}] /\ Now.out = [v \in Viewers |-> <<>>]
      /\ Now = [src |-> Now.src, view |-> Now.view, due |-> Now.due, out |-> Now.out]
  BY DEF Init, Now
<1>2. Detached("new") \in Streams /\ NewSource \in Sources /\ Detached("new").st = "new"
  BY DetachedType DEF Detached
<1>3. Now \in Calls
  <2>1. <<>> \in Seq(Nat) /\ {} \in SUBSET Nat
    OBVIOUS
  <2>q. QED BY <1>1, <1>2, <2>1 DEF Calls
<1>4. Attached(Now) = {} /\ Batched(Now) = {}
  BY <1>1, <1>2 DEF Attached, Batched
<1>5. /\ Now.src.refs = 0 /\ Now.src.clients = 0 /\ Now.src.private = {} /\ Now.src.batch = <<>>
  BY <1>1 DEF NewSource
<1>6. Cardinality({}) = 0 /\ IsFiniteSet({}) /\ Len(<<>>) <= BatchMax
  BY FS_EmptySet, Sizes
<1>7. Counted(Now)
  BY <1>4, <1>5, <1>6 DEF Counted
<1>8. media \in Media /\ newest \in Packets /\ trouble \in 0..MaxTrouble
      /\ last \in [Viewers -> Packets] /\ out \in [Viewers -> Seq(Nat)]
  <2>1. MaxTrouble \in Nat /\ -1 \in Packets /\ <<>> \in Seq(Nat)
    BY MulticastAssumption DEF Packets, NoPkt
  <2>q. QED BY <2>1 DEF Init
<1>q. QED BY <1>3, <1>7, <1>8 DEF IInv, Good

\* What no call changes keeps the invariant.
LEMMA StutterKeeps == IInv /\ UNCHANGED vars => IInv'
<1> SUFFICES ASSUME IInv, UNCHANGED vars PROVE IInv'
  OBVIOUS
<1>1. Now' = Now
  BY DEF vars, Now
<1>q. QED BY <1>1 DEF IInv, vars

\* Every step keeps the invariant.
LEMMA NextKeeps == IInv /\ [Next]_vars => IInv'
<1> SUFFICES ASSUME IInv, [Next]_vars PROVE IInv'
  OBVIOUS
<1>1. CASE UNCHANGED vars
  BY <1>1, StutterKeeps
<1>2. CASE Network
  <2>1. ASSUME NEW lack \in Lacks, ParityPacket(lack) PROVE IInv'
    BY <2>1, ParityKeeps
  <2>2. ASSUME NEW lack \in Lacks, NEW p \in Arrivals, Packet(p, lack) PROVE IInv'
    BY <2>2, PacketKeeps
  <2>q. QED BY <1>2, <2>1, <2>2 DEF Network
<1>3. CASE Tick \/ SourceFails
  BY <1>3, TickKeeps
<1>4. ASSUME NEW v \in Viewers, NEW mode \in Modes, NEW lack \in Lacks, Join(v, mode, lack) PROVE IInv'
  BY <1>4, JoinKeeps
<1>5. ASSUME NEW v \in Viewers, Leave(v) PROVE IInv'
  BY <1>5, LeaveKeeps
<1>6. ASSUME NEW v \in Viewers,
             \/ StartClosing(v)
             \/ HandOver(v)
             \/ SnapshotFallback(v)
             \/ \E p \in 0..MaxPacket : Burst(v, p)
      PROVE  IInv'
  BY <1>6, ProgressKeeps
<1>q. QED BY <1>1, <1>2, <1>3, <1>4, <1>5, <1>6 DEF Next

\* The invariant is more than what is promised.
LEMMA IInvGives == IInv => OneWayEach
<1> SUFFICES ASSUME IInv PROVE OneWayEach
  OBVIOUS
<1>1. Now \in Good /\ Now.src = src /\ Now.view = view /\ Now.due = due
  BY DEF IInv, Now
<1>2. /\ src \in Sources /\ view \in [Viewers -> Streams] /\ due \in [Viewers -> SUBSET Nat]
      /\ Counted(Now)
  BY <1>1, CallParts
<1>3. TypeOK
  BY <1>1, <1>2 DEF TypeOK, IInv, Counted, Sources, Streams
<1>q. QED BY <1>1, <1>2, <1>3 DEF OneWayEach, Counted

\* Every attached viewer is served in exactly one of the two ways, and the
\* counters by which mcast_session_cleanup() frees the source and
\* mcast_source_append() fills a batch agree with that.
THEOREM EveryViewerHasOneWay == Spec => []OneWayEach
<1>1. Spec => []IInv
  BY InitIsRight, NextKeeps, PTL DEF Spec
<1>q. QED BY <1>1, IInvGives, PTL
=============================================================================
