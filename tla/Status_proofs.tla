---------------------------- MODULE Status_proofs ----------------------------
(***************************************************************************)
(* For any number of slots, workers, clients, updates and requests, and    *)
(* wherever workers die: slots have one owner, snapshots one client,       *)
(* disconnect requests hit their target and are not forgotten.             *)
(***************************************************************************)
EXTENDS Status, Lemmas

\* Where a process is: on its way in with a client that has no number yet, in
\* the admission section, using a slot it serves nobody from, writing
\* statistics, reading a slot.
Gone == {"unborn", "dead", "reaped"}
Entering == {"asking", "checking", "entering", "counting", "reserving", "reserved", "wiping", "numbering"}
Locked == {"counting", "reserving", "reserved"}
Placed == {"reserved", "wiping", "numbering", "filling", "publishing", "leaving", "releasing"}
Writing == {"writing a", "writing b", "written"}
Accepted == {"seen", "confirming", "found", "blocking", "asking its worker"}
Checked == Accepted \union {"still active"}
Copied == Checked \union {"copied", "version again", "generation again"}
Versioned == Copied \union {"generation", "copying"}
Reading == Versioned \union {"looking", "version"}
Points == Gone \union Entering \union Placed \union Writing \union Reading \union {"idle", "telling", "sweep"}

Registrations == [who : Clients, slot : Slots]
Payloads == [id : {0} \union Clients, a : 0..1, b : 0..1]
Entries == [owner : {0} \union Pids, active : BOOLEAN, gen : Nat, disc : Nat, ver : Nat, pay : Payloads]
Processes == [pc : Points, at : Indexes, slot : {0} \union Slots, who : {0} \union Clients, gen : Nat, since : Nat,
              ver : Nat, pay : Payloads, sweep : BOOLEAN, todo : SUBSET Registrations]

Types ==
    /\ slot \in [Slots -> Entries]
    /\ proc \in [Pids -> Processes] /\ conns \in [Pids -> SUBSET Registrations]
    /\ next \in Nat /\ born \in [Clients -> ({0} \union Slots) \X Nat] /\ credit \in [Clients -> 0..1]
    /\ asked \subseteq Clients /\ granted \subseteq Clients

\* The variables no other part speaks of.
Rest0 ==
    /\ admission \in {0} \union Pids /\ guard \in {0} \union Pids
    /\ blocked \in Seq(Range(IpOf)) /\ Len(blocked) <= MaxBlocked
    /\ pipe \in [Indexes -> SUBSET {"update", "disconnect"}]

\* A slot that names a client is that client's, which has not been accounted
\* for yet; unless it is being written it holds no half of an update; a
\* request it bears was made for a client of that generation.
SlotRight(s) ==
    LET r == slot[s]
    IN  /\ r.pay.id # 0 => born[r.pay.id] = <<s, r.gen>> /\ credit[r.pay.id] = 0
        /\ r.active => r.owner # 0
        /\ r.ver % 2 = 0 => r.pay.a = r.pay.b
        /\ r.disc # 0 => \E c \in asked : born[c] = <<s, r.disc>>

\* Clients that have been numbered, each under a number of its own.
BornRight(c) ==
    /\ born[c][1] = 0 => born[c] = <<0, 0>>
    /\ born[c][1] # 0 => born[c][2] <= slot[born[c][1]].gen /\ c < next
    /\ \A d \in Clients : born[c] = born[d] /\ born[c][1] # 0 => c = d
    /\ ~(c < next) => credit[c] = 0

\* The connections of a process are those of slots it has published.
Serves(p) ==
    \A c \in conns[p] : /\ slot[c.slot].owner = p /\ slot[c.slot].active /\ slot[c.slot].pay.id = c.who
                        /\ \A d \in conns[p] : d.slot = c.slot => d = c

\* What a process owns: the slots of its connections, and the one it is placed in.
Owns(p, r) ==
    /\ r.todo \subseteq conns[p]
    /\ r.pc = "idle" => r.who = 0 /\ ~r.sweep /\ r.todo = {}
    /\ r.pc \in {"unborn", "reaped"} => conns[p] = {} /\ \A s \in Slots : slot[s].owner # p
    /\ r.pc \in Placed => r.slot \in Slots /\ slot[r.slot].owner = p /\ ~slot[r.slot].active
    /\ r.pc \notin Gone => \A s \in Slots :
          slot[s].owner = p => (\E c \in conns[p] : c.slot = s) \/ (r.pc \in Placed /\ r.slot = s)

\* Admission is one process's, which has counted the slots.
Admits(p, r) ==
    /\ r.pc \in Locked => admission = p
    /\ r.pc \in {"unborn", "reaped"} => admission # p
Counted(r) == r.pc = "reserving" => Cardinality(Reserved) < MaxClients

\* A client on its way in, and the slot made ready for it.
Registers(r) ==
    /\ r.pc \in Entering => r.who \in Clients /\ r.who < next /\ born[r.who] = <<0, 0>> /\ credit[r.who] = 0
    /\ r.pc \in {"numbering", "filling", "publishing"} => slot[r.slot].ver = 0
    /\ r.pc \in {"numbering", "filling"} => slot[r.slot].pay = NoPay
    /\ r.pc = "filling" => /\ r.who \in Clients /\ born[r.who] = <<r.slot, slot[r.slot].gen>>
                           /\ credit[r.who] = 0
    /\ r.pc = "publishing" => r.who \in Clients /\ slot[r.slot].pay.id = r.who

\* The version of a slot is odd exactly while its statistics are written, one
\* after the other.
Writes(p, r) ==
    /\ r.pc \in Writing => /\ r.slot \in Slots /\ \E c \in conns[p] : c.slot = r.slot
                           /\ slot[r.slot].ver % 2 = 1
    /\ r.pc = "writing b" => slot[r.slot].pay.a = 1
    /\ r.pc = "written" => slot[r.slot].pay.a = slot[r.slot].pay.b
    /\ r.pc \notin Gone => \A c \in conns[p] :
          slot[c.slot].ver % 2 = 0 \/ (r.pc \in Writing /\ r.slot = c.slot)

\* A slot that has a client, or is about to.
Live(s) == slot[s].pay.id # 0 \/ \E q \in Pids : proc[q].pc = "filling" /\ proc[q].slot = s

\* What a reader knows of the slot.
Reads(r) ==
    LET s == slot[r.slot]
        same == r.since = s.gen /\ r.pay.id # 0 /\ s.pay.id = r.pay.id
    IN  /\ r.pc \in Reading => r.slot \in Slots
        /\ r.pc \in Versioned => /\ r.since <= s.gen /\ r.ver % 2 = 0
                                 /\ r.since = s.gen /\ Live(r.slot) => r.ver <= s.ver
        /\ r.pc \in Versioned \ {"generation"} => r.since <= r.gen /\ r.gen <= s.gen
        /\ r.pc \in Copied /\ r.pay.id # 0 => born[r.pay.id][1] = r.slot /\ r.gen <= born[r.pay.id][2]
        /\ r.pc \in Checked /\ r.pay.id # 0 => born[r.pay.id] = <<r.slot, r.gen>>
        /\ r.pc = "copied" /\ same /\ s.ver = r.ver => r.pay.a = s.pay.a
        /\ r.pc = "version again" /\ same /\ s.ver = r.ver => r.pay.a = s.pay.a /\ r.pay.b = s.pay.b
        /\ r.pc \in Checked \union {"generation again"} /\ same => r.pay.a = r.pay.b

\* Whoever asks for a disconnection asks for that one, once.
Asks(r) ==
    /\ r.pc \in Reading /\ r.who # 0 => r.who \in asked /\ r.who \notin granted
    /\ r.pc \in Accepted \ {"seen"} => r.who # 0 /\ r.pay.id = r.who

\* Two processes do not get in each other's way.
Apart(r, t) ==
    /\ r.pc \in Entering /\ t.pc \in Entering => r.who # t.who
    /\ r.pc \in Reading /\ t.pc \in Reading /\ r.who # 0 => r.who # t.who
    /\ r.pc \notin {"unborn", "reaped"} /\ t.pc \notin {"unborn", "reaped"} => r.at # t.at
    /\ r.pc \in Copied /\ r.pay.id # 0 /\ t.pc = "filling" => t.who # r.pay.id
    /\ r.pc \in Accepted /\ r.pay.id # 0 /\ t.pc = "publishing" => t.who # r.pay.id

\* A client whose disconnection was granted has been registered.
GrantedRight(c) ==
    c \in granted => born[c][1] # 0 /\ \A q \in Pids : proc[q].pc \in {"filling", "publishing"} => proc[q].who # c

Pending(p) ==
    Alive(p) => \A c \in conns[p] :
        c.who \in granted /\ Wanted(c) => "disconnect" \in pipe[proc[p].at] \/ proc[p].sweep \/ c \in proc[p].todo

IInv ==
    /\ Types /\ Rest0
    /\ Cardinality(Reserved) <= MaxClients
    /\ \A s \in Slots : SlotRight(s)
    /\ \A c \in Clients : BornRight(c) /\ GrantedRight(c)
    /\ \A p \in Pids : /\ Serves(p) /\ Owns(p, proc[p]) /\ Admits(p, proc[p]) /\ Counted(proc[p])
                       /\ Registers(proc[p]) /\ Writes(p, proc[p]) /\ Reads(proc[p]) /\ Asks(proc[p])
                       /\ Pending(p)
    /\ \A p, q \in Pids : p # q => Apart(proc[p], proc[q])
    /\ expelled \subseteq asked /\ granted \subseteq asked

\* A record a process may change to while it touches nothing shared.
Fits(p, r) ==
    /\ r \in Processes /\ r.pc \notin {"filling", "publishing"}
    /\ Owns(p, r) /\ Counted(r) /\ Writes(p, r) /\ Reads(r)
    /\ \A q \in Pids \ {p} : Apart(r, proc[q]) /\ Apart(proc[q], r)

-----------------------------------------------------------------------------
\* The constants, one by one.
LEMMA Constants ==
    /\ Slots \subseteq Nat \ {0} /\ IsFiniteSet(Slots) /\ Pids \subseteq Nat \ {0}
    /\ Clients \subseteq Nat \ {0} /\ DOMAIN IpOf = Clients
    /\ MaxClients \in Nat /\ MaxClients <= Cardinality(Slots) /\ MaxBlocked \in Nat \ {0}
<1>1. Cardinality(Slots) \in Nat
  BY StatusAssumption, FS_CardinalityType
<1>q. QED BY <1>1, StatusAssumption

\* While a process touches nothing shared, the others stay as they were.
LEMMA OthersStay ==
    ASSUME IInv, NEW p \in Pids, NEW r \in Processes, Become(p, r), UNCHANGED <<slot, conns, born, credit>>,
           r.pc # "filling", NEW n \in Nat, next' = n, next <= n, asked \subseteq asked',
           \A q \in Pids \ {p} : admission' = q <=> admission = q,
           \A q \in Pids \ {p} : Asks(proc[q])'
    PROVE  /\ proc' \in [Pids -> Processes] /\ proc'[p] = r /\ \A q \in Pids \ {p} : proc'[q] = proc[q]
           /\ Cardinality(Reserved') <= MaxClients
           /\ \A s \in Slots : SlotRight(s)' /\ (Live(s)' => Live(s))
           /\ \A c \in Clients : BornRight(c)'
           /\ \A q \in Pids : Serves(q)'
           /\ \A q \in Pids \ {p} :
                 /\ Owns(q, proc[q])' /\ Admits(q, proc[q])' /\ Counted(proc[q])' /\ Registers(proc[q])'
                 /\ Writes(q, proc[q])' /\ Reads(proc[q])'
           /\ \A q1, q2 \in Pids \ {p} : q1 # q2 => Apart(proc[q1], proc[q2])'
<1>1. proc' \in [Pids -> Processes] /\ proc'[p] = r /\ \A q \in Pids \ {p} : proc'[q] = proc[q]
  BY DEF IInv, Types, Become
<1>2. Reserved' = Reserved
  BY DEF Reserved
<1>3. ASSUME NEW s \in Slots PROVE SlotRight(s)' /\ (Live(s)' => Live(s))
  <2>1. SlotRight(s)
    BY DEF IInv
  <2>2. SlotRight(s)'
    BY <2>1 DEF SlotRight
  <2>3. Live(s)' => Live(s)
    BY <1>1 DEF Live
  <2>q. QED BY <2>2, <2>3
<1>4. ASSUME NEW c \in Clients PROVE BornRight(c)'
  <2>1. BornRight(c) /\ c \in Nat /\ next \in Nat
    BY Constants DEF IInv, Types
  <2>2. (c < next => c < n) /\ (~(c < n) => ~(c < next))
    BY <2>1
  <2>q. QED BY <2>1, <2>2 DEF BornRight
<1>5. ASSUME NEW q \in Pids PROVE Serves(q)'
  BY DEF IInv, Serves
<1>6. ASSUME NEW q \in Pids \ {p}
      PROVE  /\ Owns(q, proc[q])' /\ Admits(q, proc[q])' /\ Counted(proc[q])' /\ Registers(proc[q])'
             /\ Writes(q, proc[q])' /\ Reads(proc[q])'
  <2>0. PICK t : t = proc[q]
    OBVIOUS
  <2>1. /\ Owns(q, t) /\ Admits(q, t) /\ Counted(t) /\ Registers(t) /\ Writes(q, t) /\ Reads(t)
        /\ t \in Processes
    BY <2>0 DEF IInv, Types
  <2>2. proc'[q] = t
    BY <1>1, <2>0
  <2>3. Owns(q, t)' /\ Counted(t)' /\ Writes(q, t)'
    BY <1>2, <2>1 DEF Owns, Counted, Writes
  <2>4. Admits(q, t)'
    BY <2>1 DEF Admits
  <2>5. Registers(t)'
    <3>1. t.who \in Clients /\ t.who < next => t.who < n
      <4>1. next \in Nat
        BY DEF IInv, Types
      <4>2. t.who \in Clients => t.who \in Nat
        BY Constants
      <4>q. QED BY <4>1, <4>2
    <3>q. QED BY <2>1, <3>1 DEF Registers
  <2>6. Reads(t)'
    <3>1. t.pc \in Versioned => t.pc \in Reading
      BY DEF Reading
    <3>2. t.pc \in Versioned => t.slot \in Slots
      BY <2>1, <3>1 DEF Reads
    <3>3. t.pc \in Versioned => (Live(t.slot)' => Live(t.slot))
      BY <1>3, <3>2
    <3>q. QED BY <2>1, <3>3 DEF Reads
  <2>q. QED BY <2>2, <2>3, <2>4, <2>5, <2>6
<1>7. \A q1, q2 \in Pids \ {p} : q1 # q2 => Apart(proc[q1], proc[q2])'
  BY <1>1 DEF IInv, Apart
<1>q. QED BY <1>1, <1>2, <1>3, <1>4, <1>5, <1>6, <1>7 DEF IInv

\* A step of one process that touches nothing shared but admission, the guard,
\* the block list and the pipes.
LEMMA StillKeeps ==
    ASSUME IInv, NEW p \in Pids, NEW r, Become(p, r), Fits(p, r), UNCHANGED <<slot, conns, born, credit>>,
           NEW n \in Nat, next' = n, next <= n, asked \subseteq asked', asked' \subseteq Clients,
           granted' \subseteq asked', expelled' \subseteq asked',
           \A q \in Pids \ {p} : admission' = q <=> admission = q,
           \A q \in Pids \ {p} : Asks(proc[q])',
           Registers(r)', Asks(r)', Admits(p, r)', Rest0',
           \A c \in Clients : GrantedRight(c)', \A q \in Pids : Pending(q)'
    PROVE  IInv'
<1>1. r \in Processes /\ r.pc # "filling"
  BY DEF Fits
<1>2. /\ proc' \in [Pids -> Processes] /\ proc'[p] = r /\ \A q \in Pids \ {p} : proc'[q] = proc[q]
      /\ Cardinality(Reserved') <= MaxClients
      /\ \A s \in Slots : SlotRight(s)' /\ (Live(s)' => Live(s))
      /\ \A c \in Clients : BornRight(c)'
      /\ \A q \in Pids : Serves(q)'
      /\ \A q \in Pids \ {p} :
            /\ Owns(q, proc[q])' /\ Admits(q, proc[q])' /\ Counted(proc[q])' /\ Registers(proc[q])'
            /\ Writes(q, proc[q])' /\ Reads(proc[q])'
      /\ \A q1, q2 \in Pids \ {p} : q1 # q2 => Apart(proc[q1], proc[q2])'
  BY <1>1, OthersStay
<1>3. Types'
  BY <1>2 DEF IInv, Types
<1>4. Owns(p, r)' /\ Counted(r)' /\ Writes(p, r)'
  <2>1. Reserved' = Reserved
    BY DEF Reserved
  <2>q. QED BY <2>1 DEF Fits, Owns, Counted, Writes
<1>5. Reads(r)'
  <2>1. r.pc \in Versioned => r.pc \in Reading
    BY DEF Reading
  <2>2. r.pc \in Versioned => r.slot \in Slots
    BY <2>1 DEF Fits, Reads
  <2>3. r.pc \in Versioned => (Live(r.slot)' => Live(r.slot))
    BY <1>2, <2>2
  <2>q. QED BY <2>3 DEF Fits, Reads
<1>6. ASSUME NEW q1 \in Pids, NEW q2 \in Pids, q1 # q2 PROVE Apart(proc[q1], proc[q2])'
  BY <1>2, <1>6 DEF Fits, Apart
<1>7. ASSUME NEW q \in Pids
      PROVE  /\ Owns(q, proc[q])' /\ Admits(q, proc[q])' /\ Counted(proc[q])' /\ Registers(proc[q])'
             /\ Writes(q, proc[q])' /\ Reads(proc[q])' /\ Asks(proc[q])'
  <2>1. CASE q = p
    <3>1. proc'[q] = r
      BY <1>2, <2>1
    <3>2. Owns(q, proc[q])' /\ Admits(q, proc[q])' /\ Writes(q, proc[q])'
      BY <1>4, <2>1, <3>1
    <3>3. Counted(proc[q])' /\ Registers(proc[q])' /\ Reads(proc[q])' /\ Asks(proc[q])'
      BY <1>4, <1>5, <3>1
    <3>q. QED BY <3>2, <3>3
  <2>2. CASE q # p
    <3>1. PICK t : t = proc[q]
      OBVIOUS
    <3>2. proc'[q] = t /\ Asks(t)'
      BY <1>2, <2>2, <3>1 DEF Asks
    <3>q. QED BY <1>2, <2>2, <3>1, <3>2 DEF Asks
  <2>q. QED BY <2>1, <2>2
<1>q. QED BY <1>2, <1>3, <1>6, <1>7 DEF IInv

\* Such a step of a process that goes on, on which no request depends.
LEMMA QuietKeeps ==
    ASSUME IInv, NEW p \in Pids, NEW r, Become(p, r), Fits(p, r), UNCHANGED <<slot, conns, born, credit>>,
           NEW n \in Nat, next' = n, next <= n, UNCHANGED <<asked, granted, expelled>>,
           \A q \in Pids \ {p} : admission' = q <=> admission = q,
           Registers(r)', Asks(r), Admits(p, r)', Rest0',
           \A i \in Indexes : pipe[i] \subseteq pipe'[i],
           Alive(p), r.sweep = proc[p].sweep, r.todo = proc[p].todo, r.at = proc[p].at
    PROVE  IInv'
<1>1. proc \in [Pids -> Processes] /\ proc'[p] = r /\ \A q \in Pids \ {p} : proc'[q] = proc[q]
  BY DEF IInv, Types, Become
<1>2. ASSUME NEW c \in Clients PROVE GrantedRight(c)'
  <2>1. GrantedRight(c)
    BY DEF IInv
  <2>q. QED BY <1>1, <2>1 DEF GrantedRight, Fits
<1>3. ASSUME NEW q \in Pids PROVE Pending(q)'
  <2>1. Pending(q) /\ proc[q].at \in Indexes
    BY DEF IInv, Types, Processes
  <2>2. proc'[q].at = proc[q].at /\ proc'[q].sweep = proc[q].sweep /\ proc'[q].todo = proc[q].todo
    BY <1>1
  <2>3. Alive(q)' => Alive(q)
    BY <1>1 DEF Alive
  <2>q. QED BY <2>1, <2>2, <2>3 DEF Pending, Wanted
<1>4. ASSUME NEW q \in Pids \ {p} PROVE Asks(proc[q])'
  <2>1. Asks(proc[q])
    BY DEF IInv
  <2>q. QED BY <1>1, <2>1 DEF Asks
<1>5. Asks(r)' /\ asked' \subseteq Clients /\ granted' \subseteq asked' /\ expelled' \subseteq asked'
      /\ asked \subseteq asked'
  BY DEF Asks, IInv, Types
<1>q. QED BY <1>2, <1>3, <1>4, <1>5, StillKeeps
-----------------------------------------------------------------------------
\* What a step may do to a slot (o before it, x after it; l and m say whether
\* it was and is live) under the eyes of a reader: end its client, begin a new
\* one, or change the statistics and with them the version.
Harmless(t, o, x, l, m) ==
    /\ o.gen <= x.gen
    /\ \/ x.pay.id = 0 /\ ~m
       \/ t.since # x.gen
       \/ /\ x.gen = o.gen /\ l /\ o.ver <= x.ver /\ (t.pc \in Copied => t.pay.id # x.pay.id)
       \/ /\ x.gen = o.gen /\ (m => l) /\ x.pay.id = o.pay.id
          /\ (o.ver = x.ver /\ x.pay = o.pay) \/ (o.ver <= x.ver /\ x.ver % 2 = 1) \/ (o.ver < x.ver /\ o.pay.id # 0)

\* What a reader knows stays true.
LEMMA ReadsKept ==
    ASSUME NEW t \in Processes, Reads(t), NEW o \in Entries, NEW x \in Entries,
           t.pc \in Versioned => o = slot[t.slot] /\ slot'[t.slot] = x /\ Harmless(t, o, x, Live(t.slot), Live(t.slot)'),
           t.pc \in Copied /\ t.pay.id # 0 => born'[t.pay.id] = born[t.pay.id]
    PROVE  Reads(t)'
<1>1. CASE t.pc \notin Versioned
  BY <1>1 DEF Reads, Versioned, Copied, Checked
<1>2. CASE t.pc \in Versioned
  <2>1. /\ o = slot[t.slot] /\ slot'[t.slot] = x /\ Harmless(t, o, x, Live(t.slot), Live(t.slot)')
        /\ t.slot \in Slots
    BY <1>2 DEF Reads, Reading
  <2>2. /\ o.gen \in Nat /\ o.ver \in Nat /\ x.gen \in Nat /\ x.ver \in Nat /\ t.gen \in Nat /\ t.since \in Nat
        /\ t.ver \in Nat
    BY DEF Entries, Processes
  <2>3. t.pc \in Checked => t.pc \in Copied
    BY DEF Copied
  <2>4. t.pc \in Copied => t.pc \in Versioned
    BY DEF Versioned
  <2> DEFINE l == Live(t.slot)
             m == Live(t.slot)'
  <2>a. /\ t.pc \in Versioned => t.since <= o.gen /\ t.ver % 2 = 0 /\ (t.since = o.gen /\ l => t.ver <= o.ver)
        /\ t.pc \in Versioned \ {"generation"} => t.since <= t.gen /\ t.gen <= o.gen
    BY <2>1 DEF Reads
  <2>b. Harmless(t, o, x, l, m)
    BY <2>1
  <2> HIDE DEF l, m
  <2>c. o.gen <= x.gen /\ (t.since = x.gen /\ m /\ t.pc \in Versioned => o.gen = x.gen /\ l /\ o.ver <= x.ver)
    BY <2>2, <2>a, <2>b DEF Harmless
  <2>5. t.pc \in Versioned => t.since <= x.gen /\ t.ver % 2 = 0 /\ (t.since = x.gen /\ m => t.ver <= x.ver)
    BY <2>2, <2>a, <2>c
  <2>6. t.pc \in Versioned \ {"generation"} => t.since <= t.gen /\ t.gen <= x.gen
    BY <2>2, <2>a, <2>c
  <2> DEFINE was == t.since = o.gen /\ t.pay.id # 0 /\ o.pay.id = t.pay.id
             is == t.since = x.gen /\ t.pay.id # 0 /\ x.pay.id = t.pay.id
  <2>7. t.pc \in Copied /\ is => was /\ ((o.ver = x.ver /\ x.pay = o.pay) \/ x.ver # t.ver)
    <3>1. SUFFICES ASSUME t.pc \in Copied, is PROVE was /\ ((o.ver = x.ver /\ x.pay = o.pay) \/ x.ver # t.ver)
      OBVIOUS
    <3>2. /\ x.gen = o.gen /\ x.pay.id = o.pay.id
          /\ (o.ver = x.ver /\ x.pay = o.pay) \/ (o.ver <= x.ver /\ x.ver % 2 = 1) \/ (o.ver < x.ver /\ o.pay.id # 0)
      BY <2>b, <3>1 DEF Harmless
    <3>3. t.ver % 2 = 0 /\ (o.pay.id # 0 => t.ver <= o.ver)
      <4>1. o.pay.id # 0 => l
        BY <2>1 DEF Live, l
      <4>2. t.pc \in Versioned /\ t.since = o.gen
        BY <2>4, <3>1, <3>2
      <4>q. QED BY <2>a, <4>1, <4>2
    <3>4. was
      BY <3>1, <3>2
    <3>5. x.ver % 2 = 1 => x.ver # t.ver
      BY <3>3
    <3>6. o.ver < x.ver /\ o.pay.id # 0 => x.ver # t.ver
      BY <2>2, <3>3
    <3>q. QED BY <3>2, <3>4, <3>5, <3>6
  <2>8. /\ t.pc \in Copied /\ t.pay.id # 0 => born'[t.pay.id][1] = t.slot /\ t.gen <= born'[t.pay.id][2]
        /\ t.pc \in Checked /\ t.pay.id # 0 => born'[t.pay.id] = <<t.slot, t.gen>>
    BY <2>3 DEF Reads
  <2>9. /\ t.pc = "copied" /\ was /\ o.ver = t.ver => t.pay.a = o.pay.a
        /\ t.pc = "version again" /\ was /\ o.ver = t.ver => t.pay.a = o.pay.a /\ t.pay.b = o.pay.b
        /\ t.pc \in Checked \union {"generation again"} /\ was => t.pay.a = t.pay.b
    BY <2>1 DEF Reads
  <2> HIDE DEF was
  <2>10. /\ t.pc = "copied" /\ is /\ x.ver = t.ver => t.pay.a = x.pay.a
         /\ t.pc = "version again" /\ is /\ x.ver = t.ver => t.pay.a = x.pay.a /\ t.pay.b = x.pay.b
         /\ t.pc \in Checked \union {"generation again"} /\ is => t.pay.a = t.pay.b
    BY <2>7, <2>9 DEF Copied
  <2>q. QED BY <2>1, <2>5, <2>6, <2>8, <2>10 DEF Reads, m
<1>q. QED BY <1>1, <1>2

\* The clients of the others that are on their way in are left alone.
EntrantsStay(p, b, d) ==
    \A q \in Pids \ {p} : proc[q].pc \in Entering \union {"filling"} =>
        b[proc[q].who] = born[proc[q].who] /\ d[proc[q].who] = credit[proc[q].who]

\* A step of one process at a slot that is its own or nobody's.
LEMMA OwnSlotKeeps ==
    ASSUME IInv, NEW p \in Pids, NEW r \in Processes, Become(p, r),
           NEW s \in Slots, NEW x \in Entries, slot' = [slot EXCEPT ![s] = x],
           slot[s].owner \in {0, p}, x.owner \in {0, p},
           x.owner = 0 \/ slot[s].owner = p \/ proc[p].pc = "reserving",
           NEW k \in SUBSET Registrations, conns' = [conns EXCEPT ![p] = k],
           UNCHANGED <<admission, guard, blocked, pipe, next, asked, granted>>, expelled' \subseteq asked,
           NEW b \in [Clients -> ({0} \union Slots) \X Nat], born' = b, NEW d \in [Clients -> 0..1], credit' = d,
           EntrantsStay(p, b, d),
           \A t \in Slots : SlotRight(t)',
           \A c \in Clients : BornRight(c)' /\ GrantedRight(c)',
           Cardinality(Reserved') <= MaxClients,
           \A q \in Pids \ {p} : Reads(proc[q])' /\ Apart(r, proc[q]) /\ Apart(proc[q], r),
           Serves(p)', Owns(p, r)', Admits(p, r)', Counted(r)', Registers(r)', Writes(p, r)', Reads(r)', Asks(r)',
           Pending(p)'
    PROVE  IInv'
<1>1. proc' \in [Pids -> Processes] /\ proc'[p] = r /\ \A q \in Pids \ {p} : proc'[q] = proc[q]
  BY DEF IInv, Types, Become
<1>2. slot' \in [Slots -> Entries] /\ slot'[s] = x /\ \A t \in Slots \ {s} : slot'[t] = slot[t]
  BY DEF IInv, Types
<1>3. /\ conns' \in [Pids -> SUBSET Registrations] /\ conns'[p] = k
      /\ \A q \in Pids \ {p} : conns'[q] = conns[q]
  BY DEF IInv, Types
<1>4. Types' /\ Rest0'
  <2>1. Types'
    BY <1>1, <1>2, <1>3 DEF IInv, Types
  <2>2. Rest0'
    BY DEF IInv, Rest0
  <2>q. QED BY <2>1, <2>2
<1>5. ASSUME NEW q \in Pids \ {p}, NEW t \in Slots, slot[t].owner = q
      PROVE  t # s /\ slot'[t] = slot[t]
  <2>1. q # 0
    BY Constants
  <2>q. QED BY <1>2, <1>5, <2>1
<1>6. ASSUME NEW q \in Pids \ {p}, NEW t \in Slots
      PROVE  slot'[t].owner = q <=> slot[t].owner = q
  <2>1. q # 0
    BY Constants
  <2>q. QED BY <1>2, <2>1
<1>7. ASSUME NEW q \in Pids \ {p}
      PROVE  /\ Serves(q)' /\ Owns(q, proc[q])' /\ Admits(q, proc[q])' /\ Counted(proc[q])' /\ Registers(proc[q])'
             /\ Writes(q, proc[q])' /\ Asks(proc[q])' /\ Pending(q)'
  <2>0. PICK t : t = proc[q]
    OBVIOUS
  <2>1. /\ Serves(q) /\ Owns(q, t) /\ Admits(q, t) /\ Counted(t) /\ Registers(t) /\ Writes(q, t)
        /\ Asks(t) /\ Pending(q) /\ t \in Processes
    BY <2>0 DEF IInv, Types
  <2>2. proc'[q] = t /\ conns'[q] = conns[q]
    BY <1>1, <1>3, <2>0
  <2>3. \A c \in conns[q] : c.slot \in Slots /\ slot'[c.slot] = slot[c.slot]
    <3>1. \A c \in conns[q] : c.slot \in Slots
      BY DEF IInv, Types, Registrations
    <3>q. QED BY <1>5, <2>1, <3>1 DEF Serves
  <2>4. t.pc \in Placed => slot'[t.slot] = slot[t.slot]
    BY <1>5, <2>1 DEF Owns
  <2>5. Serves(q)'
    BY <2>1, <2>2, <2>3 DEF Serves
  <2>6. Owns(q, t)'
    BY <1>6, <2>1, <2>2, <2>4 DEF Owns
  <2>7. Admits(q, t)'
    BY <2>1 DEF Admits
  <2>8. Counted(t)'
    <3>1. SUFFICES ASSUME t.pc = "reserving" PROVE Cardinality(Reserved') < MaxClients
      BY DEF Counted
    <3>2. admission = q /\ q # p
      BY <2>1, <3>1 DEF Admits, Locked
    <3>3. proc[p].pc # "reserving"
      <4>1. Admits(p, proc[p])
        BY DEF IInv
      <4>q. QED BY <3>2, <4>1 DEF Admits, Locked
    <3>4. Reserved' \subseteq Reserved
      <4>1. p # 0
        BY Constants
      <4>q. QED BY <1>2, <3>3, <4>1 DEF Reserved
    <3>5. IsFiniteSet(Reserved) /\ Cardinality(Reserved) \in Nat
      <4>1. Reserved \subseteq Slots
        BY DEF Reserved
      <4>q. QED BY <4>1, Constants, FS_Subset, FS_CardinalityType
    <3>6. IsFiniteSet(Reserved') /\ Cardinality(Reserved') <= Cardinality(Reserved)
      BY <3>4, <3>5, FS_Subset
    <3>7. Cardinality(Reserved') \in Nat
      BY <3>6, FS_CardinalityType
    <3>q. QED BY <2>1, <3>1, <3>5, <3>6, <3>7, Constants DEF Counted
  <2>9. Registers(t)'
    <3>1. t.pc \in Entering \union {"filling"} => born'[t.who] = born[t.who] /\ credit'[t.who] = credit[t.who]
      BY <2>0 DEF EntrantsStay
    <3>2. t.pc \in {"numbering", "filling", "publishing"} => slot'[t.slot] = slot[t.slot]
      BY <2>4 DEF Placed
    <3>q. QED BY <2>1, <3>1, <3>2 DEF Registers
  <2>10. Writes(q, t)'
    <3>1. t.pc \in Writing => slot'[t.slot] = slot[t.slot]
      BY <2>1, <2>3 DEF Writes
    <3>2. t.pc \in {"writing b", "written"} => t.pc \in Writing
      BY DEF Writing
    <3>q. QED BY ZenonT(60), <2>1, <2>2, <2>3, <3>1, <3>2 DEF Writes
  <2>11. Asks(t)'
    BY <2>1 DEF Asks
  <2>12. Pending(q)'
    BY <2>1, <2>2, <2>3, <2>0 DEF Pending, Alive, Wanted
  <2>q. QED BY <2>2, <2>5, <2>6, <2>7, <2>8, <2>9, <2>10, <2>11, <2>12
<1>8. ASSUME NEW q \in Pids
      PROVE  /\ Serves(q)' /\ Owns(q, proc[q])' /\ Admits(q, proc[q])' /\ Counted(proc[q])' /\ Registers(proc[q])'
             /\ Writes(q, proc[q])' /\ Reads(proc[q])' /\ Asks(proc[q])' /\ Pending(q)'
  <2>1. CASE q = p
    <3>1. proc'[q] = r
      BY <1>1, <2>1
    <3>2. Serves(q)' /\ Owns(q, proc[q])' /\ Admits(q, proc[q])' /\ Writes(q, proc[q])' /\ Pending(q)'
      BY <2>1, <3>1
    <3>3. Counted(proc[q])' /\ Registers(proc[q])' /\ Reads(proc[q])' /\ Asks(proc[q])'
      BY <3>1
    <3>q. QED BY <3>2, <3>3
  <2>2. CASE q # p
    BY <1>7, <2>2
  <2>q. QED BY <2>1, <2>2
<1>9. ASSUME NEW q1 \in Pids, NEW q2 \in Pids, q1 # q2 PROVE Apart(proc[q1], proc[q2])'
  BY <1>1, <1>9 DEF IInv, Apart
<1>q. QED BY <1>4, <1>8, <1>9 DEF IInv
-----------------------------------------------------------------------------
\* What a process may count on.
LEMMA Known ==
    ASSUME IInv, NEW p \in Pids
    PROVE  /\ proc[p] \in Processes /\ Serves(p) /\ Owns(p, proc[p]) /\ Admits(p, proc[p]) /\ Counted(proc[p])
           /\ Registers(proc[p]) /\ Writes(p, proc[p]) /\ Reads(proc[p]) /\ Asks(proc[p]) /\ Pending(p)
           /\ \A q \in Pids \ {p} : Apart(proc[p], proc[q]) /\ Apart(proc[q], proc[p])
           /\ proc[p].todo \subseteq conns[p] /\ conns[p] \subseteq Registrations
BY DEF IInv, Types, Owns

\* A process that uses no slot may go on with anything that needs none.
LEMMA FreeFits ==
    ASSUME IInv, NEW p \in Pids, proc[p].pc \notin Gone \union Writing \union Placed,
           NEW r \in Processes, r.pc \notin Gone \union Writing \union Placed,
           r.at = proc[p].at, r.todo \subseteq conns[p], r.pc = "idle" => r.who = 0 /\ ~r.sweep /\ r.todo = {},
           Counted(r), Reads(r),
           r.pc \in Entering => (proc[p].pc \in Entering /\ r.who = proc[p].who) \/ r.who = next,
           r.pc \in Reading /\ r.who # 0 => (proc[p].pc \in Reading /\ r.who = proc[p].who) \/ r.who \notin asked,
           r.pc \in Copied /\ r.pay.id # 0 =>
               \A q \in Pids \ {p} : proc[q].pc = "filling" => proc[q].who # r.pay.id,
           r.pc \in Accepted /\ r.pay.id # 0 =>
               \A q \in Pids \ {p} : proc[q].pc = "publishing" => proc[q].who # r.pay.id
    PROVE  Fits(p, r)
<1>1. /\ proc[p] \in Processes /\ Owns(p, proc[p]) /\ Writes(p, proc[p])
      /\ \A q \in Pids \ {p} : Apart(proc[p], proc[q]) /\ Apart(proc[q], proc[p])
  BY Known
<1>2. r.pc \notin {"filling", "publishing"}
  BY DEF Placed
<1>3. Owns(p, r)
  BY <1>1 DEF Owns, Gone
<1>4. Writes(p, r)
  BY <1>1 DEF Writes, Writing
<1>5. ASSUME NEW q \in Pids \ {p} PROVE Apart(r, proc[q]) /\ Apart(proc[q], r)
  <2>1. Registers(proc[q]) /\ Asks(proc[q]) /\ proc[q] \in Processes
    BY Known
  <2>2. Apart(proc[p], proc[q]) /\ Apart(proc[q], proc[p])
    BY <1>1
  <2>3. r.pc \in Entering /\ proc[q].pc \in Entering => r.who # proc[q].who
    <3>1. next \in Nat
      BY DEF IInv, Types
    <3>2. proc[q].pc \in Entering => proc[q].who \in Nat /\ proc[q].who < next
      BY <2>1, Constants DEF Registers
    <3>q. QED BY <2>2, <3>1, <3>2 DEF Apart
  <2>4. r.pc \in Reading /\ proc[q].pc \in Reading /\ r.who # 0 => r.who # proc[q].who
    BY <2>1, <2>2 DEF Apart, Asks
  <2>5. proc[p].pc \notin {"unborn", "reaped"}
    BY DEF Gone
  <2>q. QED BY <1>2, <2>2, <2>3, <2>4, <2>5 DEF Apart
<1>q. QED BY <1>2, <1>3, <1>4, <1>5 DEF Fits

\* The record of a process that has done a job.
LEMMA RestRecord ==
    ASSUME IInv, NEW p \in Pids, NEW todo \in SUBSET proc[p].todo
    PROVE  /\ Rest(p, todo) \in Processes /\ Rest(p, todo).pc \in {"idle", "sweep"} /\ Rest(p, todo).who = 0
           /\ Rest(p, todo).sweep = proc[p].sweep /\ Rest(p, todo).todo = todo /\ Rest(p, todo).at = proc[p].at
           /\ Rest(p, todo).pc = "idle" => ~proc[p].sweep /\ todo = {}
<1> DEFINE r == Rest(p, todo)
<1>1. proc[p] \in Processes /\ proc[p].todo \subseteq conns[p]
  BY Known
<1>2. /\ r.pc = (IF proc[p].sweep \/ todo # {} THEN "sweep" ELSE "idle") /\ r.who = 0
      /\ r.sweep = proc[p].sweep /\ r.todo = todo /\ r.at = proc[p].at
  BY <1>1 DEF Rest, Processes
<1>3. r \in Processes
  <2>1. NoPay \in Payloads
    BY DEF NoPay, Payloads
  <2>2. (IF proc[p].sweep \/ todo # {} THEN "sweep" ELSE "idle") \in Points
    BY DEF Points
  <2>q. QED BY <1>1, <2>1, <2>2 DEF Rest, Processes
<1> HIDE DEF r
<1>4. r.pc \in {"idle", "sweep"} /\ (r.pc = "idle" => ~proc[p].sweep /\ todo = {})
  BY <1>2
<1>q. QED BY <1>2, <1>3, <1>4 DEF r

\* It fits in, and has nothing to do with requests and admissions any more.
LEMMA RestFits ==
    ASSUME IInv, NEW p \in Pids, proc[p].pc \notin Gone \union Writing \union Placed,
           NEW todo \in SUBSET proc[p].todo
    PROVE  /\ Rest(p, todo) \in Processes /\ Rest(p, todo).pc \in {"idle", "sweep"} /\ Rest(p, todo).who = 0
           /\ Rest(p, todo).sweep = proc[p].sweep /\ Rest(p, todo).todo = todo /\ Rest(p, todo).at = proc[p].at
           /\ Fits(p, Rest(p, todo))
<1>1. proc[p].todo \subseteq conns[p]
  BY Known
<1>a. PICK r : r = Rest(p, todo)
  OBVIOUS
<1>2. /\ r \in Processes /\ r.pc \in {"idle", "sweep"} /\ r.who = 0 /\ r.sweep = proc[p].sweep /\ r.todo = todo
      /\ r.at = proc[p].at
  BY <1>a, RestRecord
<1>6. r.pc = "idle" => r.who = 0 /\ ~r.sweep /\ r.todo = {}
  BY <1>a, <1>2, RestRecord
<1>3. r.pc \notin Gone \union Writing \union Placed \union Reading \union Entering \union Copied \union Accepted
  BY <1>2 DEF Gone, Writing, Placed, Reading, Entering, Copied, Checked, Accepted, Versioned
<1>4. Counted(r) /\ Reads(r)
  BY <1>2, <1>3 DEF Counted, Reads, Reading, Versioned, Copied
<1>5. Fits(p, r)
  BY <1>1, <1>2, <1>3, <1>4, <1>6, FreeFits
<1>q. QED BY <1>2, <1>5, <1>a

\* Such a process meets what is asked of an entrant or a reader.
LEMMA RestIsQuiet ==
    ASSUME IInv, NEW r, r.pc \in {"idle", "sweep"}, NEW p \in Pids
    PROVE  Registers(r)' /\ Asks(r) /\ Asks(r)' /\ Admits(p, r)'
BY DEF Registers, Asks, Admits, Entering, Reading, Versioned, Copied, Checked, Accepted, Locked
-----------------------------------------------------------------------------
\* A process that moves on and keeps the rest of its record.
LEMMA Moved ==
    ASSUME NEW t \in Processes, NEW pc \in Points
    PROVE  LET r == [t EXCEPT !.pc = pc]
           IN  /\ r \in Processes /\ r.pc = pc /\ r.at = t.at /\ r.slot = t.slot /\ r.who = t.who /\ r.gen = t.gen
               /\ r.since = t.since /\ r.ver = t.ver /\ r.pay = t.pay /\ r.sweep = t.sweep /\ r.todo = t.todo
BY DEF Processes

\* The job is done and nothing shared but a lock or the pipes was touched.
LEMMA DoneKeeps ==
    ASSUME IInv, NEW p \in Pids, proc[p].pc \notin Gone \union Writing \union Placed, Done(p),
           UNCHANGED <<slot, conns, born, credit, next, asked, granted, expelled>>,
           \A q \in Pids \ {p} : admission' = q <=> admission = q,
           Rest0', \A i \in Indexes : pipe[i] \subseteq pipe'[i]
    PROVE  IInv'
<1>1. /\ proc[p].todo \in SUBSET proc[p].todo /\ next \in Nat /\ Alive(p)
  BY DEF IInv, Types, Alive, Gone
<1> DEFINE r == Rest(p, proc[p].todo)
<1>2. /\ r.pc \in {"idle", "sweep"} /\ r.sweep = proc[p].sweep /\ r.todo = proc[p].todo /\ r.at = proc[p].at
      /\ Fits(p, r)
  BY <1>1, RestFits
<1>3. Become(p, r)
  BY DEF Done
<1>a. PICK t : t = r
  OBVIOUS
<1> HIDE DEF r
<1>4. Become(p, t) /\ Fits(p, t) /\ t.pc \in {"idle", "sweep"}
      /\ t.sweep = proc[p].sweep /\ t.todo = proc[p].todo /\ t.at = proc[p].at
  BY <1>2, <1>3, <1>a
<1>5. Registers(t)' /\ Asks(t) /\ Admits(p, t)'
  BY <1>4, RestIsQuiet
<1>6. next' = next /\ next <= next
  BY <1>1
<1>q. QED BY <1>1, <1>4, <1>5, <1>6, QuietKeeps

\* A request arrives under a name nobody has had.
LEMMA ArriveKeeps ==
    ASSUME IInv, NEW p \in Pids, Arrive(p)
    PROVE  IInv'
<1> DEFINE r == [proc[p] EXCEPT !.pc = "asking", !.who = next]
<1>1. /\ proc[p].pc = "idle" /\ next \in Clients /\ Become(p, r) /\ next' = next + 1
      /\ UNCHANGED <<slot, admission, guard, blocked, pipe, conns, born, credit, asked, granted, expelled>>
  BY DEF Arrive, Idle, locks
<1>2. proc[p] \in Processes /\ proc[p].todo \subseteq conns[p]
  BY Known
<1>3. /\ r \in Processes /\ r.pc = "asking" /\ r.who = next /\ r.at = proc[p].at /\ r.sweep = proc[p].sweep
      /\ r.todo = proc[p].todo
  BY <1>1, <1>2 DEF Processes, Points, Entering
<1>a. PICK t : t = r
  OBVIOUS
<1> HIDE DEF r
<1>4. /\ t \in Processes /\ t.pc = "asking" /\ t.who = next /\ t.at = proc[p].at /\ t.sweep = proc[p].sweep
      /\ t.todo = proc[p].todo /\ Become(p, t)
  BY <1>1, <1>3, <1>a
<1>5. Counted(t) /\ Reads(t) /\ Asks(t) /\ Admits(p, t)'
  BY <1>4 DEF Counted, Reads, Asks, Admits, Reading, Versioned, Copied, Checked, Accepted, Locked
<1>6. Fits(p, t)
  BY <1>1, <1>2, <1>4, <1>5, FreeFits
     DEF Gone, Writing, Placed, Reading, Versioned, Copied, Checked, Accepted, Entering
<1>7. Registers(t)'
  <2>1. BornRight(next) /\ next \in Nat
    BY <1>1, Constants DEF IInv
  <2>2. born[next] = <<0, 0>> /\ credit[next] = 0
    BY <2>1 DEF BornRight
  <2>3. next < next + 1
    BY <2>1
  <2>q. QED BY <1>1, <1>4, <2>2, <2>3 DEF Registers
<1>8. Rest0' /\ Alive(p) /\ next \in Nat
  BY <1>1 DEF IInv, Types, Rest0, Alive
<1>9. next + 1 \in Nat /\ next <= next + 1
  BY <1>8
<1>q. QED BY <1>1, <1>4, <1>5, <1>6, <1>7, <1>8, <1>9, QuietKeeps

\* A step within the way in, that touches only the locks.
LEMMA EnteringKeeps ==
    ASSUME IInv, NEW p \in Pids, NEW pc, Goto(p, pc),
           proc[p].pc \in {"asking", "checking", "entering", "counting"},
           pc \in {"checking", "entering", "counting", "reserving"},
           UNCHANGED <<slot, pipe, conns, born, credit, next, asked, granted, expelled>>,
           \A q \in Pids \ {p} : admission' = q <=> admission = q,
           pc \in Locked => admission' = p,
           pc = "reserving" => Cardinality(Reserved) < MaxClients, Rest0'
    PROVE  IInv'
<1> DEFINE r == [proc[p] EXCEPT !.pc = pc]
<1>1. proc[p] \in Processes /\ proc[p].todo \subseteq conns[p] /\ Registers(proc[p])
  BY Known
<1>2. pc \in Points
  BY DEF Points, Entering
<1>3. /\ r \in Processes /\ r.pc = pc /\ r.who = proc[p].who /\ r.at = proc[p].at /\ r.sweep = proc[p].sweep
      /\ r.todo = proc[p].todo /\ Become(p, r)
  BY <1>1, <1>2, Moved DEF Goto
<1>a. PICK t : t = r
  OBVIOUS
<1> HIDE DEF r
<1>4. /\ t \in Processes /\ t.pc = pc /\ t.who = proc[p].who /\ t.at = proc[p].at /\ t.sweep = proc[p].sweep
      /\ t.todo = proc[p].todo /\ Become(p, t)
  BY <1>3, <1>a
<1>5. Counted(t) /\ Reads(t) /\ Asks(t) /\ Admits(p, t)'
  BY <1>4 DEF Counted, Reads, Asks, Admits, Reading, Versioned, Copied, Checked, Accepted
<1>6. Fits(p, t)
  BY <1>1, <1>4, <1>5, FreeFits DEF Gone, Writing, Placed, Reading, Versioned, Copied, Checked, Accepted, Entering
<1>7. Registers(t)'
  BY <1>1, <1>4 DEF Registers, Entering
<1>8. Alive(p) /\ next \in Nat /\ next <= next
  BY DEF IInv, Types, Alive
<1>q. QED BY <1>4, <1>5, <1>6, <1>7, <1>8, QuietKeeps

\* Whether its address is blocked or not, no slot is touched.
LEMMA CheckKeeps ==
    ASSUME IInv, NEW p \in Pids, Check(p)
    PROVE  IInv'
<1>1. Rest0'
  BY DEF IInv, Rest0, Check
<1>2. proc[p].pc = "checking"
  BY DEF Check
<1>3. UNCHANGED <<slot, admission, blocked, pipe, conns, next, born, credit, asked, granted, expelled>>
  BY DEF Check, history
<1>4. CASE Done(p)
  BY <1>1, <1>2, <1>3, <1>4, DoneKeeps DEF Gone, Writing, Placed
<1>5. CASE Goto(p, "entering")
  BY <1>1, <1>2, <1>3, <1>5, EnteringKeeps DEF Locked
<1>q. QED BY <1>4, <1>5 DEF Check

\* One process is admitted at a time.
LEMMA LockAdmissionKeeps ==
    ASSUME IInv, NEW p \in Pids, LockAdmission(p)
    PROVE  IInv'
<1>1. Rest0'
  BY DEF IInv, Rest0, LockAdmission
<1>2. \A q \in Pids : q # 0
  BY Constants
<1>3. \A q \in Pids \ {p} : admission' = q <=> admission = q
  BY <1>2 DEF LockAdmission
<1>q. QED BY <1>1, <1>3, EnteringKeeps DEF LockAdmission, history

\* Who has counted fewer slots than may be taken may take one: nobody else can meanwhile.
LEMMA CountKeeps ==
    ASSUME IInv, NEW p \in Pids, Count(p)
    PROVE  IInv'
<1>1. Rest0'
  BY DEF IInv, Rest0, Count
<1>2. proc[p].pc = "counting" /\ admission = p
  <2>1. Admits(p, proc[p])
    BY Known
  <2>q. QED BY <2>1 DEF Count, Admits, Locked
<1>3. \A q \in Pids \ {p} : admission' = q <=> admission = q
  <2>1. \A q \in Pids : q # 0
    BY Constants
  <2>q. QED BY <1>2, <2>1 DEF Count
<1>4. UNCHANGED <<slot, guard, blocked, pipe, conns, next, born, credit, asked, granted, expelled>>
  BY DEF Count, history
<1>5. CASE Cardinality(Reserved) < MaxClients /\ Goto(p, "reserving") /\ UNCHANGED admission
  BY <1>1, <1>2, <1>3, <1>4, <1>5, EnteringKeeps
<1>6. CASE Done(p)
  BY <1>1, <1>2, <1>3, <1>4, <1>6, DoneKeeps DEF Gone, Writing, Placed
<1>q. QED BY <1>5, <1>6 DEF Count

\* Bytes are added to the pipes, never taken out.
LEMMA TellUpdateKeeps ==
    ASSUME IInv, NEW p \in Pids, TellUpdate(p)
    PROVE  IInv'
<1>1. Rest0' /\ \A i \in Indexes : pipe[i] \subseteq pipe'[i]
  BY DEF IInv, Rest0, TellUpdate, Tell, locks
<1>q. QED BY <1>1, DoneKeeps DEF TellUpdate, locks, history, Gone, Writing, Placed

\* A list loses its oldest entry.
LEMMA ExpireKeeps ==
    ASSUME IInv, Expire
    PROVE  IInv'
<1>1. /\ UNCHANGED <<slot, admission, guard, pipe, proc, conns, next, born, credit, asked, granted, expelled>>
      /\ blocked # <<>> /\ blocked' = Tail(blocked)
  BY DEF Expire, history
<1>2. blocked \in Seq(Range(IpOf)) /\ Len(blocked) <= MaxBlocked
  BY DEF IInv, Rest0
<1>3. Tail(blocked) \in Seq(Range(IpOf)) /\ Len(Tail(blocked)) = Len(blocked) - 1 /\ Len(blocked) \in Nat
  BY <1>1, <1>2, HeadTailProperties, LenProperties
<1>4. Len(Tail(blocked)) <= MaxBlocked
  BY <1>2, <1>3, Constants
<1>5. Rest0'
  BY <1>1, <1>3, <1>4 DEF IInv, Rest0
<1>6. Types' /\ Cardinality(Reserved') <= MaxClients
  BY <1>1 DEF IInv, Types, Reserved
<1>7. /\ \A s \in Slots : SlotRight(s)'
      /\ \A c \in Clients : BornRight(c)' /\ GrantedRight(c)'
  BY <1>1 DEF IInv, SlotRight, BornRight, GrantedRight
<1>8. ASSUME NEW p \in Pids
      PROVE  /\ Serves(p)' /\ Owns(p, proc[p])' /\ Admits(p, proc[p])' /\ Counted(proc[p])' /\ Registers(proc[p])'
             /\ Writes(p, proc[p])' /\ Reads(proc[p])' /\ Asks(proc[p])' /\ Pending(p)'
  <2>1. Serves(p)' /\ Owns(p, proc[p])' /\ Admits(p, proc[p])' /\ Counted(proc[p])' /\ Registers(proc[p])'
    <3>1. Serves(p)' /\ Owns(p, proc[p])'
      BY <1>1, Known DEF Serves, Owns
    <3>2. Admits(p, proc[p])' /\ Counted(proc[p])'
      BY <1>1, Known DEF Admits, Counted, Reserved
    <3>3. Registers(proc[p])'
      BY <1>1, Known DEF Registers
    <3>q. QED BY <3>1, <3>2, <3>3
  <2>2. Writes(p, proc[p])' /\ Reads(proc[p])' /\ Asks(proc[p])' /\ Pending(p)'
    BY <1>1, Known DEF Writes, Reads, Live, Asks, Pending, Alive, Wanted
  <2>q. QED BY <2>1, <2>2
<1>9. \A p, q \in Pids : p # q => Apart(proc[p], proc[q])'
  BY <1>1 DEF IInv, Apart
<1>q. QED BY <1>1, <1>5, <1>6, <1>7, <1>8, <1>9 DEF IInv

\* Admission is given back by the process that holds it.
LEMMA UnlockKeeps ==
    ASSUME IInv, NEW p \in Pids, Unlock(p)
    PROVE  IInv'
<1> DEFINE r == [proc[p] EXCEPT !.pc = "wiping"]
<1>1. /\ proc[p] \in Processes /\ Owns(p, proc[p]) /\ Registers(proc[p]) /\ Writes(p, proc[p])
      /\ \A q \in Pids \ {p} : Apart(proc[p], proc[q]) /\ Apart(proc[q], proc[p])
  BY Known
<1>2. /\ proc[p].pc = "reserved" /\ Become(p, r) /\ admission' = (IF admission = p THEN 0 ELSE admission)
      /\ UNCHANGED <<slot, guard, blocked, pipe, conns, next, born, credit, asked, granted, expelled>>
  BY DEF Unlock, Goto, history
<1>3. /\ r \in Processes /\ r.pc = "wiping" /\ r.who = proc[p].who /\ r.at = proc[p].at /\ r.sweep = proc[p].sweep
      /\ r.todo = proc[p].todo /\ r.slot = proc[p].slot
  BY <1>1, Moved DEF Points, Placed
<1>a. PICK t : t = r
  OBVIOUS
<1> HIDE DEF r
<1>4. /\ t \in Processes /\ t.pc = "wiping" /\ t.who = proc[p].who /\ t.at = proc[p].at /\ t.sweep = proc[p].sweep
      /\ t.todo = proc[p].todo /\ t.slot = proc[p].slot /\ Become(p, t)
  BY <1>2, <1>3, <1>a
<1>5. Counted(t) /\ Reads(t) /\ Asks(t) /\ Admits(p, t)'
  BY <1>4 DEF Counted, Reads, Asks, Admits, Reading, Versioned, Copied, Checked, Accepted, Locked
<1>6. Fits(p, t)
  <2>1. Owns(p, t)
    BY <1>1, <1>2, <1>4 DEF Owns, Gone, Placed
  <2>2. Writes(p, t)
    BY <1>1, <1>2, <1>4 DEF Writes, Gone, Writing
  <2>3. \A q \in Pids \ {p} : Apart(t, proc[q]) /\ Apart(proc[q], t)
    BY <1>1, <1>2, <1>4 DEF Apart, Entering, Reading, Versioned, Copied, Checked, Accepted
  <2>q. QED BY <1>4, <1>5, <2>1, <2>2, <2>3 DEF Fits
<1>7. Registers(t)'
  BY <1>1, <1>2, <1>4 DEF Registers, Entering
<1>8. \A q \in Pids \ {p} : admission' = q <=> admission = q
  BY <1>2, Constants
<1>9. Alive(p) /\ next \in Nat /\ next <= next /\ Rest0'
  BY <1>2 DEF IInv, Types, Alive, Rest0
<1>q. QED BY <1>2, <1>4, <1>5, <1>6, <1>7, <1>8, <1>9, QuietKeeps

-----------------------------------------------------------------------------
\* A step of a reader that leaves the shared memory alone.
LEMMA ReaderKeeps ==
    ASSUME IInv, NEW p \in Pids, proc[p].pc \in Reading, NEW t \in Processes, Become(p, t), t.pc \in Reading,
           t.at = proc[p].at, t.sweep = proc[p].sweep, t.todo = proc[p].todo, t.who = proc[p].who,
           UNCHANGED <<slot, admission, pipe, conns, next, born, credit, asked, granted, expelled>>, Rest0',
           Reads(t),
           t.pc \in Copied /\ t.pay.id # 0 => (proc[p].pc \in Copied /\ t.pay.id = proc[p].pay.id) \/
               \A q \in Pids \ {p} : proc[q].pc = "filling" => proc[q].who # t.pay.id,
           t.pc \in Accepted /\ t.pay.id # 0 => (proc[p].pc \in Accepted /\ t.pay.id = proc[p].pay.id) \/
               \A q \in Pids \ {p} : proc[q].pc = "publishing" => proc[q].who # t.pay.id,
           t.pc \in Accepted \ {"seen"} => t.who # 0 /\ t.pay.id = t.who
    PROVE  IInv'
<1>1. /\ proc[p] \in Processes /\ proc[p].todo \subseteq conns[p] /\ Asks(proc[p])
      /\ \A q \in Pids \ {p} : Apart(proc[p], proc[q]) /\ Apart(proc[q], proc[p])
  BY Known
<1>2. proc[p].pc \notin Gone \union Writing \union Placed \union Entering /\ t.pc # "idle"
      /\ t.pc \notin Gone \union Writing \union Placed \union Entering \union Locked \union {"reserving"}
  BY DEF Reading, Versioned, Copied, Checked, Accepted, Gone, Writing, Placed, Entering, Locked
<1>3. Counted(t) /\ Registers(t)' /\ Admits(p, t)'
  BY <1>2 DEF Counted, Registers, Admits, Gone, Placed
<1>4. Asks(t)
  BY <1>1 DEF Asks
<1>5. Fits(p, t)
  <2>1. t.pc \in Copied /\ t.pay.id # 0 => \A q \in Pids \ {p} : proc[q].pc = "filling" => proc[q].who # t.pay.id
    BY <1>1 DEF Apart
  <2>2. t.pc \in Accepted /\ t.pay.id # 0 =>
           \A q \in Pids \ {p} : proc[q].pc = "publishing" => proc[q].who # t.pay.id
    BY <1>1 DEF Apart
  <2>q. QED BY <1>1, <1>2, <1>3, <2>1, <2>2, FreeFits
<1>6. Alive(p) /\ next \in Nat /\ next <= next
  BY <1>2 DEF IInv, Types, Alive, Gone
<1>q. QED BY <1>3, <1>4, <1>5, <1>6, QuietKeeps

\* The guard of the block list, on the way in or for a request.
LEMMA LockGuardKeeps ==
    ASSUME IInv, NEW p \in Pids, LockGuard(p)
    PROVE  IInv'
<1>1. Rest0' /\ UNCHANGED <<slot, admission, pipe, conns, next, born, credit, asked, granted, expelled>>
  BY DEF IInv, Rest0, LockGuard, history
<1>2. CASE proc[p].pc = "asking"
  <2>1. Goto(p, "checking")
    BY <1>2 DEF LockGuard
  <2>q. QED BY <1>1, <1>2, <2>1, EnteringKeeps DEF Locked
<1>3. CASE proc[p].pc = "found"
  <2> DEFINE r == [proc[p] EXCEPT !.pc = "blocking"]
  <2>1. Become(p, r)
    BY <1>3 DEF LockGuard, Goto
  <2>2. proc[p] \in Processes /\ Reads(proc[p]) /\ Asks(proc[p])
    BY Known
  <2>3. /\ r \in Processes /\ r.pc = "blocking" /\ r.at = proc[p].at /\ r.slot = proc[p].slot /\ r.who = proc[p].who
        /\ r.gen = proc[p].gen /\ r.since = proc[p].since /\ r.ver = proc[p].ver /\ r.pay = proc[p].pay
        /\ r.sweep = proc[p].sweep /\ r.todo = proc[p].todo
    BY <2>2, Moved DEF Points, Reading, Versioned, Copied, Checked, Accepted
  <2> HIDE DEF r
  <2>4. Reads(r)
    BY <1>3, <2>2, <2>3 DEF Reads, Reading, Versioned, Copied, Checked, Accepted
  <2>5. /\ proc[p].pc \in Reading /\ proc[p].pc \in Copied /\ proc[p].pc \in Accepted /\ proc[p].pc # "seen"
        /\ r.pc \in Reading
    BY <1>3, <2>3 DEF Reading, Versioned, Copied, Checked, Accepted
  <2>6. r.who # 0 /\ r.pay.id = r.who
    BY <2>2, <2>3, <2>5 DEF Asks
  <2>q. QED BY <1>1, <2>1, <2>3, <2>4, <2>5, <2>6, ReaderKeeps
<1>q. QED BY <1>2, <1>3 DEF LockGuard

\* A known address moves to the end of the list, a new one takes the place of
\* the oldest.
LEMMA BlockedList ==
    ASSUME NEW T, NEW l \in Seq(T), NEW n \in Nat \ {0}, Len(l) <= n, NEW ip \in T
    PROVE  LET others == RemoveFirst(l, ip)
               m == Append(IF Len(others) = n THEN Tail(others) ELSE others, ip)
           IN  m \in Seq(T) /\ Len(m) <= n
<1> DEFINE others == RemoveFirst(l, ip)
<1>1. others \in Seq(T) /\ Len(others) <= n
  <2>1. CASE ip \in ToSet(l)
    <3>1. PICK k \in 1..Len(l) : others = RemoveAt(l, k)
      BY <2>1, PlaceOfElement
    <3>2. Len(l) \in Nat
      BY LenProperties
    <3>3. others \in Seq(T) /\ Len(others) = Len(l) - 1
      BY <3>1, RemoveAtElements
    <3>q. QED BY <3>2, <3>3
  <2>2. CASE ip \notin ToSet(l)
    <3>1. DOMAIN l = 1..Len(l)
      BY LenProperties
    <3>2. ~\E i \in 1..Len(l) : l[i] = ip
      BY <2>2, <3>1 DEF ToSet
    <3>3. others = l
      BY <3>2 DEF RemoveFirst
    <3>q. QED BY <3>3
  <2>q. QED BY <2>1, <2>2
<1> HIDE DEF others
<1>2. Len(others) \in Nat
  BY <1>1, LenProperties
<1> DEFINE rest == IF Len(others) = n THEN Tail(others) ELSE others
<1>3. rest \in Seq(T) /\ Len(rest) < n
  <2>1. CASE Len(others) = n
    <3>1. others # <<>>
      <4>1. Len(<<>>) = 0
        OBVIOUS
      <4>q. QED BY <2>1, <4>1
    <3>2. Tail(others) \in Seq(T) /\ Len(Tail(others)) = n - 1
      BY <1>1, <2>1, <3>1, HeadTailProperties
    <3>q. QED BY <2>1, <3>2
  <2>2. CASE Len(others) # n
    BY <1>1, <1>2, <2>2
  <2>q. QED BY <2>1, <2>2
<1> HIDE DEF rest
<1>4. Append(rest, ip) \in Seq(T) /\ Len(Append(rest, ip)) = Len(rest) + 1 /\ Len(rest) \in Nat
  BY <1>3, AppendProperties, LenProperties
<1>q. QED BY <1>3, <1>4 DEF rest, others

\* The block list stays a list of addresses within its bound.
LEMMA BlockIpKeeps ==
    ASSUME IInv, NEW p \in Pids, BlockIp(p)
    PROVE  IInv'
<1> DEFINE r == [proc[p] EXCEPT !.pc = "asking its worker"]
<1>1. /\ proc[p].pc = "blocking" /\ Become(p, r) /\ guard' = 0
      /\ UNCHANGED <<slot, admission, pipe, conns, next, born, credit, asked, granted, expelled>>
  BY DEF BlockIp, Goto, history
<1>2. proc[p] \in Processes /\ Reads(proc[p]) /\ Asks(proc[p])
  BY Known
<1>3. /\ r \in Processes /\ r.pc = "asking its worker" /\ r.at = proc[p].at /\ r.slot = proc[p].slot
      /\ r.who = proc[p].who /\ r.gen = proc[p].gen /\ r.since = proc[p].since /\ r.ver = proc[p].ver
      /\ r.pay = proc[p].pay /\ r.sweep = proc[p].sweep /\ r.todo = proc[p].todo
  BY ZenonT(60), <1>2, Moved DEF Points, Reading, Versioned, Copied, Checked, Accepted
<1> HIDE DEF r
<1>4. Reads(r)
  BY <1>1, <1>2, <1>3 DEF Reads, Reading, Versioned, Copied, Checked, Accepted
<1>5. /\ proc[p].pc \in Reading /\ proc[p].pc \in Copied /\ proc[p].pc \in Accepted /\ proc[p].pc # "seen"
      /\ r.pc \in Reading
  BY <1>1, <1>3 DEF Reading, Versioned, Copied, Checked, Accepted
<1>6. r.who # 0 /\ r.pay.id = r.who /\ proc[p].who \in Clients
  BY <1>2, <1>3, <1>5 DEF Asks, Processes
<1>7. Rest0'
  <2>1. IpOf[proc[p].who] \in Range(IpOf)
    BY <1>6, Constants DEF Range
  <2>2. blocked \in Seq(Range(IpOf)) /\ Len(blocked) <= MaxBlocked
    BY DEF IInv, Rest0
  <2>3. blocked' \in Seq(Range(IpOf)) /\ Len(blocked)' <= MaxBlocked
    BY <2>1, <2>2, Constants, BlockedList DEF BlockIp
  <2>q. QED BY <1>1, <2>3 DEF IInv, Rest0
<1>q. QED BY <1>1, <1>3, <1>4, <1>5, <1>6, <1>7, ReaderKeeps

\* A reader that starts over with a slot.
LEMMA AfreshKeeps ==
    ASSUME IInv, NEW p \in Pids, proc[p].pc \in Reading, NEW s \in Slots,
           Become(p, [proc[p] EXCEPT !.pc = "looking", !.slot = s, !.gen = 0, !.since = 0, !.ver = 0, !.pay = NoPay]),
           UNCHANGED <<slot, locks, pipe, conns, history>>
    PROVE  IInv'
<1> DEFINE r == [proc[p] EXCEPT !.pc = "looking", !.slot = s, !.gen = 0, !.since = 0, !.ver = 0, !.pay = NoPay]
<1>1. Rest0' /\ UNCHANGED <<slot, admission, pipe, conns, next, born, credit, asked, granted, expelled>>
  BY DEF IInv, Rest0, locks, history
<1>2. proc[p] \in Processes /\ NoPay \in Payloads
  BY Known DEF NoPay, Payloads
<1>3. /\ r \in Processes /\ r.pc = "looking" /\ r.slot = s /\ r.at = proc[p].at /\ r.who = proc[p].who
      /\ r.sweep = proc[p].sweep /\ r.todo = proc[p].todo
  BY <1>2 DEF Processes, Points, Reading
<1>4. Become(p, r)
  OBVIOUS
<1> HIDE DEF r
<1>5. Reads(r) /\ r.pc \in Reading /\ r.pc \notin Copied /\ r.pc \notin Accepted
  BY <1>3 DEF Reads, Reading, Versioned, Copied, Checked, Accepted
<1>q. QED BY <1>1, <1>3, <1>4, <1>5, ReaderKeeps

\* A reader goes on to the next slot, or is through with the table.
LEMMA PassOnKeeps ==
    ASSUME IInv, NEW p \in Pids, proc[p].pc \in Reading, PassOn(p),
           UNCHANGED <<slot, locks, pipe, conns, history>>
    PROVE  IInv'
<1>1. CASE From(proc[p].slot) = {}
  <2>1. Done(p)
    BY <1>1 DEF PassOn
  <2>2. Rest0' /\ UNCHANGED <<slot, conns, born, credit, next, asked, granted, expelled, admission, pipe>>
    BY DEF IInv, Rest0, locks, history
  <2>3. proc[p].pc \notin Gone \union Writing \union Placed
    BY DEF Reading, Versioned, Copied, Checked, Accepted, Gone, Writing, Placed
  <2>q. QED BY <2>1, <2>2, <2>3, DoneKeeps
<1>2. CASE From(proc[p].slot) # {}
  <2> DEFINE s == Min(From(proc[p].slot))
  <2>1. From(proc[p].slot) \subseteq Slots
    BY DEF From
  <2>2. s \in Slots
    BY <1>2, <2>1, Constants, MinIsLeast
  <2>3. proc[p] \in Processes
    BY Known
  <2>4. Become(p, [proc[p] EXCEPT !.pc = "looking", !.slot = s, !.gen = 0, !.since = 0, !.ver = 0, !.pay = NoPay])
    BY <1>2 DEF PassOn
  <2> HIDE DEF s
  <2>q. QED BY <2>2, <2>4, AfreshKeeps
<1>q. QED BY <1>1, <1>2

\* A reader starts over with the slot it is at.
LEMMA TryAgainKeeps ==
    ASSUME IInv, NEW p \in Pids, proc[p].pc \in Reading, TryAgain(p),
           UNCHANGED <<slot, locks, pipe, conns, history>>
    PROVE  IInv'
<1>1. proc[p] \in Processes /\ proc[p].slot \in Slots
  BY Known DEF Reads
<1>2. Become(p, [proc[p] EXCEPT !.pc = "looking", !.slot = proc[p].slot, !.gen = 0, !.since = 0, !.ver = 0,
                                !.pay = NoPay])
  BY <1>1 DEF TryAgain, Processes
<1>q. QED BY <1>1, <1>2, AfreshKeeps

\* A reader that reads on: r is what it was, t what it becomes.
LEMMA ReadOnKeeps ==
    ASSUME IInv, NEW p \in Pids, proc[p].pc \in Reading, NEW t \in Processes, Become(p, t), t.pc \in Reading,
           t.slot = proc[p].slot,
           t.at = proc[p].at, t.sweep = proc[p].sweep, t.todo = proc[p].todo, t.who = proc[p].who,
           UNCHANGED <<slot, locks, pipe, conns, history>>,
           Reads(t), t.pc \notin Accepted \ {"seen"},
           t.pc \in Copied => (proc[p].pc \in Copied /\ t.pay.id = proc[p].pay.id) \/ t.pay.id = slot[t.slot].pay.id,
           t.pc \in Accepted => slot[t.slot].active
    PROVE  IInv'
<1>1. Rest0' /\ UNCHANGED <<slot, admission, pipe, conns, next, born, credit, asked, granted, expelled>>
  BY DEF IInv, Rest0, locks, history
<1>2. t.slot \in Slots /\ SlotRight(t.slot) /\ slot[t.slot] \in Entries
  BY DEF IInv, Types, Reads
<1>3. ASSUME t.pay.id # 0, t.pay.id = slot[t.slot].pay.id, NEW q \in Pids \ {p}, proc[q].pc = "filling"
      PROVE  proc[q].who # t.pay.id
  <2>1. born[t.pay.id] = <<t.slot, slot[t.slot].gen>>
    BY <1>2, <1>3 DEF SlotRight
  <2>2. Registers(proc[q])
    BY Known
  <2>3. born[proc[q].who] = <<proc[q].slot, slot[proc[q].slot].gen>> /\ slot[proc[q].slot].pay = NoPay
    BY <1>3, <2>2 DEF Registers
  <2>4. t.slot # proc[q].slot
    BY <1>3, <2>3 DEF NoPay
  <2>q. QED BY <2>1, <2>3, <2>4
<1>4. ASSUME t.pc \in Accepted, t.pay.id # 0, NEW q \in Pids \ {p}, proc[q].pc = "publishing"
      PROVE  proc[q].who # t.pay.id
  <2>1. born[t.pay.id] = <<t.slot, t.gen>>
    BY <1>4 DEF Reads, Checked
  <2>2. Registers(proc[q]) /\ Owns(q, proc[q])
    BY Known
  <2>3. /\ proc[q].slot \in Slots /\ ~slot[proc[q].slot].active /\ proc[q].who \in Clients
        /\ slot[proc[q].slot].pay.id = proc[q].who
    BY <1>4, <2>2 DEF Registers, Owns, Placed
  <2>4. SlotRight(proc[q].slot) /\ proc[q].who # 0
    BY <2>3, Constants DEF IInv
  <2>5. born[proc[q].who] = <<proc[q].slot, slot[proc[q].slot].gen>>
    BY <2>3, <2>4 DEF SlotRight
  <2>6. t.slot # proc[q].slot
    BY <1>4, <2>3
  <2>q. QED BY <2>1, <2>5, <2>6
<1>q. QED BY <1>1, <1>3, <1>4, ReaderKeeps

\* A request is confirmed or given up.
LEMMA ConfirmKeeps ==
    ASSUME IInv, NEW p \in Pids, Confirm(p)
    PROVE  IInv'
<1>1. proc[p].pc = "confirming" /\ UNCHANGED <<slot, locks, pipe, conns, history>>
  BY DEF Confirm
<1>2. proc[p].pc \in Reading /\ proc[p].pc \in Copied /\ proc[p].pc \in Accepted /\ proc[p].pc # "seen"
  BY <1>1 DEF Reading, Versioned, Copied, Checked, Accepted
<1>3. CASE PassOn(p)
  BY <1>1, <1>2, <1>3, PassOnKeeps
<1>4. CASE Goto(p, "found")
  <2> DEFINE r == [proc[p] EXCEPT !.pc = "found"]
  <2>1. Become(p, r)
    BY <1>4 DEF Goto
  <2>2. proc[p] \in Processes /\ Reads(proc[p]) /\ Asks(proc[p])
    BY Known
  <2>3. /\ r \in Processes /\ r.pc = "found" /\ r.at = proc[p].at /\ r.slot = proc[p].slot /\ r.who = proc[p].who
        /\ r.gen = proc[p].gen /\ r.since = proc[p].since /\ r.ver = proc[p].ver /\ r.pay = proc[p].pay
        /\ r.sweep = proc[p].sweep /\ r.todo = proc[p].todo
    BY ZenonT(60), <2>2, Moved DEF Points, Reading, Versioned, Copied, Checked, Accepted
  <2> HIDE DEF r
  <2>4. Reads(r) /\ r.pc \in Reading
    BY <1>1, <2>2, <2>3 DEF Reads, Reading, Versioned, Copied, Checked, Accepted
  <2>5. r.who # 0 /\ r.pay.id = r.who
    BY <1>2, <2>2, <2>3 DEF Asks
  <2>6. Rest0' /\ UNCHANGED <<slot, admission, pipe, conns, next, born, credit, asked, granted, expelled>>
    BY <1>1 DEF IInv, Rest0, locks, history
  <2>q. QED BY <1>2, <2>1, <2>3, <2>4, <2>5, <2>6, ReaderKeeps
<1>q. QED BY <1>3, <1>4 DEF Confirm

\* A pair is made of its parts.
LEMMA PairParts ==
    ASSUME NEW A, NEW B, NEW z \in A \X B
    PROVE  z = <<z[1], z[2]>> /\ z[1] \in A /\ z[2] \in B
OBVIOUS

\* The eight reads of a snapshot.
LEMMA LookKeeps ==
    ASSUME IInv, NEW p \in Pids, Look(p)
    PROVE  IInv'
<1>0. UNCHANGED <<slot, locks, pipe, conns, history>>
  BY DEF Look
<1>a. PICK t : t = proc[p]
  OBVIOUS
<1>b. PICK s : s = slot[t.slot]
  OBVIOUS
<1>1. /\ t \in Processes /\ Reads(t) /\ t.gen \in Nat /\ t.since \in Nat /\ t.ver \in Nat /\ t.pay \in Payloads
  BY <1>a, Known DEF Processes
<1>2. t.pc \in Reading => /\ t.slot \in Slots /\ s \in Entries /\ SlotRight(t.slot)
  BY <1>1, <1>b DEF Reads, IInv, Types
<1>3. PassOn(p) /\ t.pc \in Reading => IInv'
  BY <1>0, <1>a, PassOnKeeps
<1>4. TryAgain(p) /\ t.pc \in Reading => IInv'
  BY <1>0, <1>a, TryAgainKeeps
<1>5. ASSUME NEW pc \in Reading, Goto(p, pc), t.pc \in Reading, Reads([t EXCEPT !.pc = pc]),
             pc \notin Accepted \ {"seen"}, pc \in Copied => t.pc \in Copied, pc \in Accepted => s.active
      PROVE  IInv'
  <2> DEFINE r == [t EXCEPT !.pc = pc]
  <2>1. Become(p, r) /\ Reads(r)
    BY <1>5, <1>a DEF Goto
  <2>2. pc \in Points
    BY DEF Points
  <2>3. /\ r \in Processes /\ r.pc = pc /\ r.at = t.at /\ r.slot = t.slot /\ r.who = t.who
        /\ r.pay = t.pay /\ r.sweep = t.sweep /\ r.todo = t.todo
    BY <1>1, <2>2, Moved
  <2> HIDE DEF r
  <2>q. QED BY <1>0, <1>5, <1>a, <1>b, <2>1, <2>3, ReadOnKeeps
<1>6. CASE t.pc = "looking" /\ (IF s.active THEN Goto(p, "version") ELSE PassOn(p))
  <2>1. t.pc \in Reading /\ "version" \in Reading
    BY <1>6 DEF Reading
  <2>2. CASE PassOn(p)
    BY <1>3, <2>1, <2>2
  <2>3. CASE Goto(p, "version")
    <3> DEFINE r == [t EXCEPT !.pc = "version"]
    <3>1. r.pc = "version" /\ r.slot = t.slot
      BY <1>1 DEF Processes
    <3> HIDE DEF r
    <3>2. Reads(r)
      BY <1>2, <2>1, <3>1 DEF Reads, Versioned, Copied, Checked, Accepted
    <3>q. QED BY <1>5, <2>1, <2>3, <3>2 DEF r, Copied, Checked, Accepted
  <2>q. QED BY <1>6, <2>2, <2>3
<1>7. CASE t.pc = "version" /\ (IF s.ver % 2 = 1 THEN TryAgain(p) \/ PassOn(p)
             ELSE Become(p, [t EXCEPT !.pc = "generation", !.ver = s.ver, !.since = s.gen]))
  <2>1. t.pc \in Reading
    BY <1>7 DEF Reading
  <2>2. CASE TryAgain(p) \/ PassOn(p)
    BY <1>3, <1>4, <2>1, <2>2
  <2>3. CASE s.ver % 2 # 1 /\ Become(p, [t EXCEPT !.pc = "generation", !.ver = s.ver, !.since = s.gen])
    <3> DEFINE r == [t EXCEPT !.pc = "generation", !.ver = s.ver, !.since = s.gen]
    <3>0. s.ver \in Nat /\ s.gen \in Nat
      BY <1>2, <2>1 DEF Entries
    <3>1. /\ r \in Processes /\ r.pc = "generation" /\ r.at = t.at /\ r.slot = t.slot /\ r.who = t.who
          /\ r.ver = s.ver /\ r.since = s.gen /\ r.sweep = t.sweep /\ r.todo = t.todo /\ Become(p, r)
      BY <1>1, <2>3, <3>0 DEF Processes, Points, Reading, Versioned
    <3> HIDE DEF r
    <3>2. r.ver % 2 = 0
      BY <2>3, <3>0, <3>1
    <3>3. r.pc \in Reading /\ r.pc \notin Copied /\ r.pc \notin Accepted /\ r.pc \notin Checked
      BY <3>1 DEF Reading, Versioned, Copied, Checked, Accepted
    <3>4. Reads(r)
      <4>1. s.gen <= s.gen /\ s.ver <= s.ver
        BY <3>0
      <4>q. QED BY <1>2, <2>1, <3>1, <3>2, <3>3, <4>1, <1>b DEF Reads
    <3>q. QED BY <1>0, <1>a, <2>1, <3>1, <3>3, <3>4, ReadOnKeeps
  <2>q. QED BY <1>7, <2>2, <2>3
<1>8. CASE t.pc = "generation" /\ Become(p, [t EXCEPT !.pc = "copying", !.gen = s.gen])
  <2>1. t.pc \in Reading /\ t.pc \in Versioned
    BY <1>8 DEF Reading, Versioned
  <2> DEFINE r == [t EXCEPT !.pc = "copying", !.gen = s.gen]
  <2>2. s.gen \in Nat
    BY <1>2, <2>1 DEF Entries
  <2>3. /\ r \in Processes /\ r.pc = "copying" /\ r.at = t.at /\ r.slot = t.slot /\ r.who = t.who
        /\ r.ver = t.ver /\ r.since = t.since /\ r.gen = s.gen /\ r.sweep = t.sweep /\ r.todo = t.todo /\ Become(p, r)
    BY <1>1, <1>8, <2>2 DEF Processes, Points, Reading, Versioned
  <2> HIDE DEF r
  <2>4. r.pc \in Reading /\ r.pc \notin Copied /\ r.pc \notin Accepted /\ r.pc \notin Checked
    BY <2>3 DEF Reading, Versioned, Copied, Checked, Accepted
  <2>5. Reads(r)
    <3>1. s.gen <= s.gen
      BY <2>2
    <3>2. t.since <= s.gen /\ t.ver % 2 = 0 /\ (t.since = s.gen /\ Live(t.slot) => t.ver <= s.ver)
      BY <1>1, <2>1, <1>b DEF Reads
    <3>q. QED BY <1>2, <2>1, <2>3, <2>4, <3>1, <3>2, <1>b DEF Reads
  <2>q. QED BY <1>0, <1>a, <2>1, <2>3, <2>4, <2>5, ReadOnKeeps
<1>9. CASE t.pc = "copying" /\ Become(p, [t EXCEPT !.pc = "copied", !.pay = [id |-> s.pay.id, a |-> s.pay.a, b |-> 0]])
  <2>1. t.pc \in Reading /\ t.pc \in Versioned \ {"generation"}
    BY <1>9 DEF Reading, Versioned
  <2> DEFINE r == [t EXCEPT !.pc = "copied", !.pay = [id |-> s.pay.id, a |-> s.pay.a, b |-> 0]]
  <2>2. s.gen \in Nat /\ [id |-> s.pay.id, a |-> s.pay.a, b |-> 0] \in Payloads
    BY <1>2, <2>1 DEF Entries, Payloads
  <2>3. /\ r \in Processes /\ r.pc = "copied" /\ r.at = t.at /\ r.slot = t.slot /\ r.who = t.who
        /\ r.ver = t.ver /\ r.since = t.since /\ r.gen = t.gen /\ r.sweep = t.sweep /\ r.todo = t.todo /\ Become(p, r)
        /\ r.pay.id = s.pay.id /\ r.pay.a = s.pay.a
    BY <1>1, <1>9, <2>2 DEF Processes, Points, Reading, Versioned, Copied
  <2> HIDE DEF r
  <2>4. r.pc \in Reading /\ r.pc \in Copied /\ r.pc \notin Accepted /\ r.pc \notin Checked
    BY <2>3 DEF Reading, Versioned, Copied, Checked, Accepted
  <2>5. t.since <= t.gen /\ t.gen <= s.gen /\ t.since <= s.gen /\ t.ver % 2 = 0
        /\ (t.since = s.gen /\ Live(t.slot) => t.ver <= s.ver)
    BY <1>1, <2>1, <1>b DEF Reads
  <2>6. s.pay.id # 0 => born[s.pay.id] = <<t.slot, s.gen>>
    BY <1>2, <2>1, <1>b DEF SlotRight
  <2>7. r.pay.id # 0 => born[r.pay.id][1] = r.slot /\ r.gen <= born[r.pay.id][2]
    BY <2>3, <2>5, <2>6
  <2>8. Reads(r)
    BY <1>2, <2>1, <2>3, <2>4, <2>5, <2>7, <1>b DEF Reads
  <2>q. QED BY <1>0, <1>a, <1>b, <2>1, <2>3, <2>4, <2>8, ReadOnKeeps
<1>10. CASE t.pc = "copied" /\ Become(p, [t EXCEPT !.pc = "version again", !.pay = [t.pay EXCEPT !.b = s.pay.b]])
  <2>1. t.pc \in Reading /\ t.pc \in Versioned \ {"generation"} /\ t.pc \in Copied
    BY <1>10 DEF Reading, Versioned, Copied
  <2> DEFINE r == [t EXCEPT !.pc = "version again", !.pay = [t.pay EXCEPT !.b = s.pay.b]]
  <2>2. /\ [t.pay EXCEPT !.b = s.pay.b] \in Payloads /\ [t.pay EXCEPT !.b = s.pay.b].id = t.pay.id
        /\ [t.pay EXCEPT !.b = s.pay.b].a = t.pay.a /\ [t.pay EXCEPT !.b = s.pay.b].b = s.pay.b
    BY <1>1, <1>2, <2>1 DEF Entries, Payloads
  <2>3. /\ r \in Processes /\ r.pc = "version again" /\ r.at = t.at /\ r.slot = t.slot /\ r.who = t.who
        /\ r.ver = t.ver /\ r.since = t.since /\ r.gen = t.gen /\ r.sweep = t.sweep /\ r.todo = t.todo /\ Become(p, r)
        /\ r.pay.id = t.pay.id /\ r.pay.a = t.pay.a /\ r.pay.b = s.pay.b
    BY <1>1, <1>10, <2>2 DEF Processes, Points, Reading, Versioned, Copied
  <2> HIDE DEF r
  <2>4. r.pc \in Reading /\ r.pc \in Copied /\ r.pc \notin Accepted /\ r.pc \notin Checked
    BY <2>3 DEF Reading, Versioned, Copied, Checked, Accepted
  <2>5. t.since <= t.gen /\ t.gen <= s.gen /\ t.since <= s.gen /\ t.ver % 2 = 0
        /\ (t.since = s.gen /\ Live(t.slot) => t.ver <= s.ver)
    BY <1>1, <2>1, <1>b DEF Reads
  <2>6. /\ t.pay.id # 0 => born[t.pay.id][1] = t.slot /\ t.gen <= born[t.pay.id][2]
        /\ t.since = s.gen /\ t.pay.id # 0 /\ s.pay.id = t.pay.id /\ s.ver = t.ver => t.pay.a = s.pay.a
    BY <1>1, <1>10, <2>1, <1>b DEF Reads
  <2>7. Reads(r)
    BY <1>2, <2>1, <2>3, <2>4, <2>5, <2>6, <1>b DEF Reads
  <2>q. QED BY <1>0, <1>a, <2>1, <2>3, <2>4, <2>7, ReadOnKeeps
<1>11. CASE t.pc = "version again" /\ Recheck(p, s.ver = t.ver, "generation again")
  <2>1. /\ t.pc \in Reading /\ t.pc \in Versioned \ {"generation"} /\ t.pc \in Copied /\ "generation again" \in Reading
        /\ "generation again" \notin Accepted
    BY <1>11 DEF Reading, Versioned, Copied, Checked, Accepted
  <2>2. CASE s.ver = t.ver /\ Goto(p, "generation again")
    <3> DEFINE r == [t EXCEPT !.pc = "generation again"]
    <3>1. /\ r.pc = "generation again" /\ r.slot = t.slot /\ r.ver = t.ver /\ r.since = t.since /\ r.gen = t.gen
          /\ r.pay = t.pay
      BY <1>1 DEF Processes
    <3> HIDE DEF r
    <3>2. r.pc \in Reading /\ r.pc \in Versioned \ {"generation"} /\ r.pc \in Copied /\ r.pc \notin Checked
      BY <3>1 DEF Reading, Versioned, Copied, Checked, Accepted
    <3>3. t.since <= t.gen /\ t.gen <= s.gen /\ t.since <= s.gen /\ t.ver % 2 = 0
          /\ (t.since = s.gen /\ Live(t.slot) => t.ver <= s.ver)
      BY <1>1, <2>1, <1>b DEF Reads
    <3>4. /\ t.pay.id # 0 => born[t.pay.id][1] = t.slot /\ t.gen <= born[t.pay.id][2]
          /\ t.since = s.gen /\ t.pay.id # 0 /\ s.pay.id = t.pay.id => t.pay.a = s.pay.a /\ t.pay.b = s.pay.b
      BY <1>1, <1>11, <2>1, <2>2, <1>b DEF Reads
    <3>5. s.pay.a = s.pay.b
      BY <1>2, <2>1, <2>2, <3>3, <1>b DEF SlotRight
    <3>6. Reads(r)
      BY <1>2, <2>1, <3>1, <3>2, <3>3, <3>4, <3>5, <1>b DEF Reads
    <3>q. QED BY <1>5, <2>1, <2>2, <3>6 DEF r
  <2>q. QED BY <1>3, <1>4, <1>11, <2>1, <2>2 DEF Recheck
<1>12. CASE t.pc = "generation again" /\ Recheck(p, s.gen = t.gen, "still active")
  <2>1. /\ t.pc \in Reading /\ t.pc \in Versioned \ {"generation"} /\ t.pc \in Copied /\ "still active" \in Reading
        /\ "still active" \notin Accepted
    BY <1>12 DEF Reading, Versioned, Copied, Checked, Accepted
  <2>2. CASE s.gen = t.gen /\ Goto(p, "still active")
    <3> DEFINE r == [t EXCEPT !.pc = "still active"]
    <3>1. /\ r.pc = "still active" /\ r.slot = t.slot /\ r.ver = t.ver /\ r.since = t.since /\ r.gen = t.gen
          /\ r.pay = t.pay
      BY <1>1 DEF Processes
    <3> HIDE DEF r
    <3>2. r.pc \in Reading /\ r.pc \in Versioned \ {"generation"} /\ r.pc \in Copied /\ r.pc \in Checked
      BY <3>1 DEF Reading, Versioned, Copied, Checked, Accepted
    <3>3. t.since <= t.gen /\ t.gen <= s.gen /\ t.since <= s.gen /\ t.ver % 2 = 0
          /\ (t.since = s.gen /\ Live(t.slot) => t.ver <= s.ver)
      BY <1>1, <2>1, <1>b DEF Reads
    <3>4. /\ t.pay.id # 0 => born[t.pay.id][1] = t.slot /\ t.gen <= born[t.pay.id][2]
          /\ t.since = s.gen /\ t.pay.id # 0 /\ s.pay.id = t.pay.id => t.pay.a = t.pay.b
      BY <1>1, <1>12, <2>1, <1>b DEF Reads
    <3>5. ASSUME t.pay.id # 0 PROVE born[t.pay.id] = <<t.slot, t.gen>>
      <4>1. t.pay.id \in Clients
        BY <1>1, <3>5 DEF Payloads
      <4>2. PICK z \in ({0} \union Slots) \X Nat : z = born[t.pay.id]
        BY <4>1 DEF IInv, Types
      <4>3. z = <<z[1], z[2]>> /\ z[2] \in Nat
        BY PairParts
      <4>4. z[1] = t.slot /\ t.gen <= z[2]
        BY <3>4, <3>5, <4>2
      <4>5. BornRight(t.pay.id) /\ t.slot # 0
        BY <1>2, <2>1, <4>1, Constants DEF IInv
      <4>6. z[2] <= s.gen
        BY <4>2, <4>4, <4>5, <1>b DEF BornRight
      <4>7. z[2] = t.gen
        <5>1. PICK v \in Nat : v = z[2]
          BY <4>3
        <5>2. t.gen <= v /\ v <= t.gen /\ t.gen \in Nat
          BY <1>1, <2>2, <4>4, <4>6, <5>1
        <5>q. QED BY <5>1, <5>2
      <4>q. QED BY <4>2, <4>3, <4>4, <4>7
    <3>6. Reads(r)
      BY <1>2, <2>1, <3>1, <3>2, <3>3, <3>4, <3>5, <1>b DEF Reads
    <3>q. QED BY <1>5, <2>1, <2>2, <3>6 DEF r
  <2>q. QED BY <1>3, <1>4, <1>12, <2>1, <2>2 DEF Recheck
<1>13. CASE t.pc = "still active" /\ Recheck(p, s.active, "seen")
  <2>1. /\ t.pc \in Reading /\ t.pc \in Versioned \ {"generation"} /\ t.pc \in Copied /\ t.pc \in Checked
        /\ "seen" \in Reading
    BY <1>13 DEF Reading, Versioned, Copied, Checked, Accepted
  <2>2. CASE s.active /\ Goto(p, "seen")
    <3> DEFINE r == [t EXCEPT !.pc = "seen"]
    <3>1. /\ r.pc = "seen" /\ r.slot = t.slot /\ r.ver = t.ver /\ r.since = t.since /\ r.gen = t.gen
          /\ r.pay = t.pay
      BY <1>1 DEF Processes
    <3> HIDE DEF r
    <3>2. r.pc \in Reading /\ r.pc \in Versioned \ {"generation"} /\ r.pc \in Copied /\ r.pc \in Checked
      BY <3>1 DEF Reading, Versioned, Copied, Checked, Accepted
    <3>3. Reads(r)
      BY <1>1, <2>1, <3>1, <3>2 DEF Reads
    <3>q. QED BY <1>5, <2>1, <2>2, <3>3 DEF r
  <2>q. QED BY <1>3, <1>4, <1>13, <2>1, <2>2 DEF Recheck
<1>q. QED BY <1>6, <1>7, <1>8, <1>9, <1>10, <1>11, <1>12, <1>13, <1>a, <1>b DEF Look
-----------------------------------------------------------------------------
\* There is a first slot.
LEMMA FirstSlot == Min(Slots) \in Slots
<1>1. Slots # {}
  BY StatusAssumption, FS_EmptySet
<1>q. QED BY <1>1, Constants, MinIsLeast

\* What the requests of the others depend on, when one process moves.
LEMMA OthersPend ==
    ASSUME IInv, NEW p \in Pids, NEW r \in Processes, Become(p, r), UNCHANGED <<slot, conns>>,
           granted' = granted, \A q \in Pids \ {p} : Alive(q) => pipe[proc[q].at] \subseteq pipe'[proc[q].at]
    PROVE  \A q \in Pids \ {p} : Pending(q)'
<1>1. SUFFICES ASSUME NEW q \in Pids \ {p} PROVE Pending(q)'
  OBVIOUS
<1>2. proc'[q] = proc[q] /\ Pending(q)
  BY DEF IInv, Types, Become
<1>3. Alive(q)' => Alive(q)
  BY <1>2 DEF Alive
<1>q. QED BY <1>2, <1>3 DEF Pending, Wanted

\* A client whose disconnection was granted stays one that has been registered.
LEMMA GrantedStays ==
    ASSUME IInv, NEW p \in Pids, NEW r \in Processes, Become(p, r), r.pc \notin {"filling", "publishing"},
           granted' = granted, born' = born
    PROVE  \A c \in Clients : GrantedRight(c)'
<1>1. SUFFICES ASSUME NEW c \in Clients PROVE GrantedRight(c)'
  OBVIOUS
<1>2. proc'[p] = r /\ GrantedRight(c) /\ \A q \in Pids \ {p} : proc'[q] = proc[q]
  BY DEF IInv, Types, Become
<1>q. QED BY <1>2 DEF GrantedRight

\* A request is made for a client that nobody asked for before.
LEMMA AskKeeps ==
    ASSUME IInv, NEW p \in Pids, Ask(p)
    PROVE  IInv'
<1>1. PICK c \in {d \in Clients : d < next} \ asked :
          /\ Become(p, [proc[p] EXCEPT !.pc = "looking", !.who = c, !.slot = Min(Slots)])
          /\ asked' = asked \union {c}
  BY DEF Ask
<1>2. /\ proc[p].pc = "idle"
      /\ UNCHANGED <<slot, admission, guard, blocked, pipe, conns, next, born, credit, granted, expelled>>
  BY DEF Ask, Idle, locks
<1> DEFINE r == [proc[p] EXCEPT !.pc = "looking", !.who = c, !.slot = Min(Slots)]
<1>3. proc[p] \in Processes /\ proc[p].todo \subseteq conns[p]
  BY Known
<1>4. /\ r \in Processes /\ r.pc = "looking" /\ r.who = c /\ r.slot \in Slots /\ r.at = proc[p].at
      /\ r.sweep = proc[p].sweep /\ r.todo = proc[p].todo /\ Become(p, r)
  BY <1>1, <1>3, FirstSlot DEF Processes, Points, Reading
<1>a. PICK t : t = r
  OBVIOUS
<1> HIDE DEF r
<1>5. /\ t \in Processes /\ t.pc = "looking" /\ t.who = c /\ t.slot \in Slots /\ t.at = proc[p].at
      /\ t.sweep = proc[p].sweep /\ t.todo = proc[p].todo /\ Become(p, t)
  BY <1>4, <1>a
<1>6. /\ Counted(t) /\ Reads(t) /\ Registers(t)' /\ Admits(p, t)'
  BY <1>5 DEF Counted, Reads, Registers, Admits, Entering, Reading, Versioned, Copied, Checked, Accepted, Locked
<1>7. Fits(p, t)
  BY <1>1, <1>2, <1>3, <1>5, <1>6, FreeFits
     DEF Gone, Writing, Placed, Reading, Versioned, Copied, Checked, Accepted, Entering
<1>8. asked \subseteq asked' /\ asked' \subseteq Clients /\ granted' \subseteq asked' /\ expelled' \subseteq asked'
  BY <1>1, <1>2 DEF IInv, Types
<1>9. Asks(t)'
  <2>1. c \notin granted
    BY <1>1 DEF IInv
  <2>q. QED BY <1>1, <1>2, <1>5, <2>1 DEF Asks, Accepted
<1>10. ASSUME NEW q \in Pids \ {p} PROVE Asks(proc[q])'
  <2>1. Asks(proc[q]) /\ proc'[q] = proc[q]
    BY <1>5 DEF IInv, Types, Become
  <2>q. QED BY <1>1, <1>2, <2>1 DEF Asks
<1>11. Rest0' /\ next \in Nat /\ next <= next
  BY <1>2 DEF IInv, Types, Rest0
<1>12. \A d \in Clients : GrantedRight(d)'
  BY <1>2, <1>5, GrantedStays
<1>13. \A q \in Pids : Pending(q)'
  <2>1. \A q \in Pids \ {p} : Pending(q)'
    BY <1>2, <1>5, OthersPend
  <2>2. Pending(p)'
    <3>1. proc'[p] = t /\ Pending(p) /\ Alive(p)
      BY <1>2, <1>5 DEF IInv, Types, Become, Alive
    <3>q. QED BY <1>2, <1>5, <3>1 DEF Pending, Wanted
  <2>q. QED BY <2>1, <2>2
<1>q. QED BY <1>2, <1>5, <1>6, <1>7, <1>8, <1>9, <1>10, <1>11, <1>12, <1>13, StillKeeps

\* The answer is given when every worker has been told.
LEMMA TellDisconnectKeeps ==
    ASSUME IInv, NEW p \in Pids, TellDisconnect(p)
    PROVE  IInv'
<1>1. /\ proc[p].pc = "asking its worker" /\ Tell("disconnect") /\ granted' = granted \union {proc[p].who}
      /\ UNCHANGED <<slot, admission, guard, blocked, conns, next, born, credit, asked, expelled>>
      /\ Become(p, Rest(p, proc[p].todo))
  BY DEF TellDisconnect, locks, Done
<1>2. /\ proc[p] \in Processes /\ Reads(proc[p]) /\ Asks(proc[p])
      /\ \A q \in Pids \ {p} : Apart(proc[p], proc[q]) /\ Apart(proc[q], proc[p])
  BY Known
<1>3. /\ proc[p].pc \in Reading /\ proc[p].pc \in Copied /\ proc[p].pc \in Checked /\ proc[p].pc \in Accepted \ {"seen"}
      /\ proc[p].pc \notin Gone \union Writing \union Placed
  BY <1>1 DEF Reading, Versioned, Copied, Checked, Accepted, Gone, Writing, Placed
<1>4. PICK w \in Clients : w = proc[p].who /\ w # 0 /\ proc[p].pay.id = w /\ w \in asked /\ w \notin granted
  BY <1>2, <1>3, Constants DEF Asks, Processes
<1>a. PICK t : t = Rest(p, proc[p].todo)
  OBVIOUS
<1>5. /\ t \in Processes /\ t.pc \in {"idle", "sweep"} /\ t.sweep = proc[p].sweep /\ t.todo = proc[p].todo
      /\ t.at = proc[p].at /\ Fits(p, t) /\ Become(p, t)
  <2>1. proc[p].todo \in SUBSET proc[p].todo
    OBVIOUS
  <2>2. /\ Rest(p, proc[p].todo) \in Processes /\ Rest(p, proc[p].todo).pc \in {"idle", "sweep"}
        /\ Rest(p, proc[p].todo).sweep = proc[p].sweep /\ Rest(p, proc[p].todo).todo = proc[p].todo
        /\ Rest(p, proc[p].todo).at = proc[p].at /\ Fits(p, Rest(p, proc[p].todo))
    BY <1>3, <2>1, RestFits
  <2>q. QED BY <1>1, <1>a, <2>2
<1>6. Registers(t)' /\ Asks(t)' /\ Admits(p, t)'
  BY <1>5, RestIsQuiet
<1>7. /\ proc'[p] = t /\ \A q \in Pids \ {p} : proc'[q] = proc[q]
  BY <1>5 DEF IInv, Types, Become
<1>8. ASSUME NEW q \in Pids \ {p} PROVE Asks(proc[q])'
  <2>1. Asks(proc[q]) /\ Apart(proc[p], proc[q])
    BY <1>2 DEF IInv
  <2>2. proc[q].pc \in Reading /\ proc[q].who # 0 => proc[q].who # w
    BY <1>3, <1>4, <2>1 DEF Apart
  <2>q. QED BY <1>1, <1>4, <1>7, <2>1, <2>2 DEF Asks
<1>9. \A i \in Indexes : pipe'[i] = pipe[i] \union {"disconnect"}
  BY <1>1 DEF Tell
<1>10. Rest0' /\ next \in Nat /\ next <= next
  <2>1. pipe \in [Indexes -> SUBSET {"update", "disconnect"}] /\ pipe' = [i \in Indexes |-> pipe[i] \union {"disconnect"}]
    BY <1>1 DEF IInv, Rest0, Tell
  <2>2. pipe' \in [Indexes -> SUBSET {"update", "disconnect"}]
    BY <2>1
  <2>3. Rest0'
    BY <1>1, <2>2 DEF IInv, Rest0
  <2>4. next \in Nat /\ next <= next
    BY DEF IInv, Types
  <2>q. QED BY <2>3, <2>4
<1>11. asked \subseteq asked' /\ asked' \subseteq Clients /\ granted' \subseteq asked' /\ expelled' \subseteq asked'
  BY <1>1, <1>4 DEF IInv, Types
<1>12. ASSUME NEW c \in Clients PROVE GrantedRight(c)'
  <2>1. GrantedRight(c)
    BY DEF IInv
  <2>2. CASE c # w
    BY <1>1, <1>4, <1>5, <1>7, <2>1, <2>2 DEF GrantedRight
  <2>3. CASE c = w
    <3>1. born[w] = <<proc[p].slot, proc[p].gen>> /\ proc[p].slot \in Slots
      BY <1>2, <1>3, <1>4 DEF Reads
    <3>2. born[w][1] # 0
      BY <3>1, Constants
    <3>3. ASSUME NEW q \in Pids, proc[q].pc \in {"filling", "publishing"} PROVE proc[q].who # w
      <4>1. q # p
        BY <1>3, <3>3 DEF Placed
      <4>2. Apart(proc[p], proc[q])
        BY <1>2, <4>1
      <4>q. QED BY <1>3, <1>4, <3>3, <4>2 DEF Apart
    <3>4. \A q \in Pids : proc'[q].pc \in {"filling", "publishing"} => proc'[q].who # w
      BY <1>5, <1>7, <3>3
    <3>q. QED BY <1>1, <2>3, <3>2, <3>4 DEF GrantedRight
  <2>q. QED BY <2>2, <2>3
<1>13. ASSUME NEW q \in Pids PROVE Pending(q)'
  <2>1. proc'[q].at \in Indexes
    BY <1>5, <1>7 DEF IInv, Types, Processes
  <2>q. QED BY <1>9, <2>1 DEF Pending
<1>q. QED BY <1>1, <1>5, <1>6, <1>8, <1>10, <1>11, <1>12, <1>13, StillKeeps

\* Bytes read from the pipe become work the process has still to do.
LEMMA ReadPipeKeeps ==
    ASSUME IInv, NEW p \in Pids, ReadPipe(p)
    PROVE  IInv'
<1> DEFINE sweep == "disconnect" \in pipe[proc[p].at]
           r == IF "update" \in pipe[proc[p].at]
                THEN [proc[p] EXCEPT !.pc = "looking", !.slot = Min(Slots), !.sweep = sweep]
                ELSE [proc[p] EXCEPT !.pc = IF sweep THEN "sweep" ELSE "idle", !.sweep = sweep]
<1>1. /\ proc[p].pc = "idle" /\ pipe' = [pipe EXCEPT ![proc[p].at] = {}] /\ Become(p, r)
      /\ UNCHANGED <<slot, admission, guard, blocked, conns, next, born, credit, asked, granted, expelled>>
  BY DEF ReadPipe, Idle, locks, history
<1>2. /\ proc[p] \in Processes /\ proc[p].todo \subseteq conns[p] /\ Owns(p, proc[p]) /\ Pending(p)
      /\ \A q \in Pids \ {p} : Apart(proc[p], proc[q])
  BY Known
<1>3. proc[p].who = 0 /\ ~proc[p].sweep /\ proc[p].todo = {} /\ proc[p].at \in Indexes
  BY <1>1, <1>2 DEF Owns, Processes
<1>c. sweep \in BOOLEAN
  OBVIOUS
<1> HIDE DEF sweep
<1>b. PICK w \in BOOLEAN : w = sweep
  BY <1>c
<1>4. /\ r \in Processes /\ r.at = proc[p].at /\ r.who = 0 /\ r.sweep = w /\ r.todo = {}
      /\ \/ r.pc = "looking" /\ r.slot \in Slots
         \/ r.pc = "sweep"
         \/ r.pc = "idle" /\ ~w
  <2>1. CASE "update" \in pipe[proc[p].at]
    <3>1. r = [proc[p] EXCEPT !.pc = "looking", !.slot = Min(Slots), !.sweep = w]
      BY <1>b, <2>1
    <3>q. QED BY <1>2, <1>3, <3>1, FirstSlot DEF Processes, Points, Reading
  <2>2. CASE "update" \notin pipe[proc[p].at]
    <3>1. r = [proc[p] EXCEPT !.pc = IF w THEN "sweep" ELSE "idle", !.sweep = w]
      BY <1>b, <2>2
    <3>q. QED BY ZenonT(60), <1>2, <1>3, <3>1 DEF Processes, Points
  <2>q. QED BY <2>1, <2>2
<1>a. PICK t : t = r
  OBVIOUS
<1> HIDE DEF r
<1>5. /\ t \in Processes /\ t.at = proc[p].at /\ t.who = 0 /\ t.sweep = w /\ t.todo = {} /\ Become(p, t)
      /\ \/ t.pc = "looking" /\ t.slot \in Slots
         \/ t.pc = "sweep"
         \/ t.pc = "idle" /\ ~w
  BY <1>1, <1>4, <1>a
<1>6. /\ t.pc \notin Gone \union Writing \union Placed \union Entering \union Locked \union Versioned
      /\ t.pc \notin Copied /\ t.pc \notin Accepted /\ t.pc \notin Checked
      /\ proc[p].pc \notin Gone \union Writing \union Placed
  BY <1>1, <1>5 DEF Gone, Writing, Placed, Entering, Locked, Versioned, Copied, Checked, Accepted
<1>7. /\ Counted(t) /\ Reads(t) /\ Registers(t)' /\ Admits(p, t)' /\ Asks(t)'
  <2>1. Counted(t) /\ Reads(t)
    BY <1>5, <1>6 DEF Counted, Reads, Reading, Copied, Locked, Versioned
  <2>2. Registers(t)' /\ Admits(p, t)' /\ Asks(t)'
    BY <1>5, <1>6 DEF Registers, Admits, Asks, Placed, Gone
  <2>q. QED BY <2>1, <2>2
<1>8. Fits(p, t)
  BY <1>5, <1>6, <1>7, FreeFits
<1>9. Rest0' /\ next \in Nat /\ next <= next
  <2>1. pipe \in [Indexes -> SUBSET {"update", "disconnect"}] /\ {} \in SUBSET {"update", "disconnect"}
    BY DEF IInv, Rest0
  <2>2. pipe' \in [Indexes -> SUBSET {"update", "disconnect"}]
    BY <1>1, <1>3, <2>1
  <2>q. QED BY <1>1, <2>2 DEF IInv, Types, Rest0
<1>10. /\ asked \subseteq asked' /\ asked' \subseteq Clients /\ granted' \subseteq asked' /\ expelled' \subseteq asked'
       /\ \A c \in Clients : GrantedRight(c)'
  <2>1. t.pc \notin {"filling", "publishing"}
    BY <1>5
  <2>q. QED BY <1>1, <1>5, <2>1, GrantedStays DEF IInv, Types
<1>11. ASSUME NEW q \in Pids \ {p} PROVE Asks(proc[q])'
  <2>1. Asks(proc[q]) /\ proc'[q] = proc[q]
    BY <1>5 DEF IInv, Types, Become
  <2>q. QED BY <1>1, <2>1 DEF Asks
<1>12. \A q \in Pids : Pending(q)'
  <2>1. ASSUME NEW q \in Pids \ {p}, Alive(q) PROVE pipe[proc[q].at] \subseteq pipe'[proc[q].at]
    <3>1. proc[q].at # proc[p].at
      BY <1>1, <1>2, <2>1 DEF Apart, Alive
    <3>2. proc[q].at \in Indexes /\ pipe \in [Indexes -> SUBSET {"update", "disconnect"}]
      BY DEF IInv, Types, Processes, Rest0
    <3>q. QED BY <1>1, <3>1, <3>2
  <2>2. \A q \in Pids \ {p} : Pending(q)'
    BY <1>1, <1>5, <2>1, OthersPend
  <2>3. Pending(p)'
    <3>1. proc'[p] = t /\ Alive(p)
      BY <1>1, <1>5 DEF IInv, Types, Become, Alive
    <3>2. \A c \in conns[p] : c.who \in granted /\ Wanted(c) => sweep
      BY <1>2, <1>3, <3>1 DEF Pending, sweep
    <3>q. QED BY <1>1, <1>5, <1>b, <3>1, <3>2 DEF Pending, Wanted
  <2>q. QED BY <2>2, <2>3
<1>q. QED BY <1>1, <1>5, <1>7, <1>8, <1>9, <1>10, <1>11, <1>12, StillKeeps

\* A sweep that closes nobody.
LEMMA SweepPasses ==
    ASSUME IInv, NEW p \in Pids, proc[p].pc = "sweep", NEW t \in Processes, Become(p, t), t.pc \in {"idle", "sweep"},
           t.at = proc[p].at, Fits(p, t), UNCHANGED <<slot, locks, pipe, conns, history>>,
           \A c \in conns[p] : Wanted(c) /\ (proc[p].sweep \/ c \in proc[p].todo) => t.sweep \/ c \in t.todo
    PROVE  IInv'
<1>1. UNCHANGED <<slot, admission, guard, blocked, pipe, conns, next, born, credit, asked, granted, expelled>>
  BY DEF locks, history
<1>2. Registers(t)' /\ Asks(t)' /\ Admits(p, t)'
  BY RestIsQuiet
<1>3. Rest0' /\ next \in Nat /\ next <= next
  BY <1>1 DEF IInv, Types, Rest0
<1>4. /\ asked \subseteq asked' /\ asked' \subseteq Clients /\ granted' \subseteq asked' /\ expelled' \subseteq asked'
      /\ \A c \in Clients : GrantedRight(c)'
  <2>1. t.pc \notin {"filling", "publishing"}
    OBVIOUS
  <2>q. QED BY <1>1, <2>1, GrantedStays DEF IInv, Types
<1>5. ASSUME NEW q \in Pids \ {p} PROVE Asks(proc[q])'
  <2>1. Asks(proc[q]) /\ proc'[q] = proc[q]
    BY DEF IInv, Types, Become
  <2>q. QED BY <1>1, <2>1 DEF Asks
<1>6. \A q \in Pids : Pending(q)'
  <2>1. \A q \in Pids \ {p} : Pending(q)'
    BY <1>1, OthersPend
  <2>2. Pending(p)'
    <3>1. proc'[p] = t /\ Pending(p) /\ Alive(p)
      BY DEF IInv, Types, Become, Alive
    <3>q. QED BY <1>1, <3>1 DEF Pending, Wanted
  <2>q. QED BY <2>1, <2>2
<1>q. QED BY <1>1, <1>2, <1>3, <1>4, <1>5, <1>6, StillKeeps

\* A process that dies leaves everything as it was.
LEMMA DieKeeps ==
    ASSUME IInv, NEW p \in Pids, Die(p)
    PROVE  IInv'
<1> DEFINE r == [proc[p] EXCEPT !.pc = "dead"]
<1>1. /\ Alive(p) /\ Become(p, r)
      /\ UNCHANGED <<slot, admission, guard, blocked, pipe, conns, next, born, credit, asked, granted, expelled>>
  BY DEF Die, Goto, locks, history
<1>2. /\ proc[p] \in Processes /\ proc[p].todo \subseteq conns[p]
      /\ \A q \in Pids \ {p} : Apart(proc[p], proc[q]) /\ Apart(proc[q], proc[p])
  BY Known
<1>3. /\ r \in Processes /\ r.pc = "dead" /\ r.at = proc[p].at /\ r.todo = proc[p].todo
  BY <1>2, Moved DEF Points, Gone
<1>a. PICK t : t = r
  OBVIOUS
<1> HIDE DEF r
<1>4. /\ t \in Processes /\ t.pc = "dead" /\ t.at = proc[p].at /\ t.todo = proc[p].todo /\ Become(p, t)
  BY <1>1, <1>3, <1>a
<1>5. /\ t.pc \notin Writing \union Placed \union Entering \union Locked \union Versioned \union Reading
      /\ t.pc \notin Copied /\ t.pc \notin Accepted /\ t.pc \notin Checked /\ t.pc \in Gone
  BY <1>4 DEF Gone, Writing, Placed, Entering, Locked, Reading, Versioned, Copied, Checked, Accepted
<1>6. Counted(t) /\ Reads(t) /\ Owns(p, t) /\ Writes(p, t)
  <2>1. Counted(t) /\ Reads(t)
    BY <1>4, <1>5 DEF Counted, Reads
  <2>2. Owns(p, t) /\ Writes(p, t)
    BY <1>2, <1>4, <1>5 DEF Owns, Writes
  <2>q. QED BY <2>1, <2>2
<1>7. Registers(t)' /\ Admits(p, t)' /\ Asks(t)'
  BY <1>4, <1>5 DEF Registers, Admits, Asks
<1>8. Fits(p, t)
  <2>1. \A q \in Pids \ {p} : Apart(t, proc[q]) /\ Apart(proc[q], t)
    BY <1>1, <1>2, <1>4, <1>5 DEF Apart, Alive
  <2>q. QED BY <1>4, <1>6, <2>1 DEF Fits
<1>9. Rest0' /\ next \in Nat /\ next <= next
  BY <1>1 DEF IInv, Types, Rest0
<1>10. /\ asked \subseteq asked' /\ asked' \subseteq Clients /\ granted' \subseteq asked' /\ expelled' \subseteq asked'
       /\ \A c \in Clients : GrantedRight(c)'
  <2>1. t.pc \notin {"filling", "publishing"}
    BY <1>4
  <2>q. QED BY <1>1, <1>4, <2>1, GrantedStays DEF IInv, Types
<1>11. ASSUME NEW q \in Pids \ {p} PROVE Asks(proc[q])'
  <2>1. Asks(proc[q]) /\ proc'[q] = proc[q]
    BY <1>4 DEF IInv, Types, Become
  <2>q. QED BY <1>1, <2>1 DEF Asks
<1>12. \A q \in Pids : Pending(q)'
  <2>1. \A q \in Pids \ {p} : Pending(q)'
    BY <1>1, <1>4, OthersPend
  <2>2. Pending(p)'
    <3>1. proc'[p] = t
      BY <1>4 DEF IInv, Types, Become
    <3>q. QED BY <1>4, <3>1 DEF Pending, Alive
  <2>q. QED BY <2>1, <2>2
<1>q. QED BY <1>1, <1>4, <1>7, <1>8, <1>9, <1>10, <1>11, <1>12, StillKeeps
-----------------------------------------------------------------------------
\* Nobody loses a number.
NumbersStay(b) == \A c \in Clients : born[c] # <<0, 0>> => b[c] = born[c]

\* What the others know of the slots stays true when what happens to one slot
\* is harmless.
LEMMA OthersRead ==
    ASSUME IInv, NEW p \in Pids, NEW r \in Processes, Become(p, r), NEW s \in Slots, NEW x \in Entries,
           slot' = [slot EXCEPT ![s] = x], NEW b, born' = b, NumbersStay(b),
           r.pc = "filling" => r.slot = s,
           \A q \in Pids \ {p} : proc[q].pc \in Versioned /\ proc[q].slot = s =>
                 Harmless(proc[q], slot[s], x, Live(s), Live(s)')
    PROVE  \A q \in Pids \ {p} : Reads(proc[q])'
<1>1. SUFFICES ASSUME NEW q \in Pids \ {p} PROVE Reads(proc[q])'
  OBVIOUS
<1>2. PICK t : t = proc[q]
  OBVIOUS
<1>3. /\ t \in Processes /\ Reads(t) /\ proc'[q] = t /\ proc'[p] = r /\ \A u \in Pids \ {p} : proc'[u] = proc[u]
  BY <1>2 DEF IInv, Types, Become
<1>4. t.pc \in Copied /\ t.pay.id # 0 => b[t.pay.id] = born[t.pay.id]
  <2>1. SUFFICES ASSUME t.pc \in Copied, t.pay.id # 0 PROVE b[t.pay.id] = born[t.pay.id]
    OBVIOUS
  <2>2. t.pay.id \in Clients /\ t.pc \in Reading
    BY <1>3, <2>1 DEF Processes, Payloads, Reading, Versioned
  <2>3. born[t.pay.id][1] = t.slot /\ t.slot # 0
    BY <1>3, <2>1, <2>2, Constants DEF Reads
  <2>4. born[t.pay.id] # <<0, 0>>
    BY <2>3
  <2>q. QED BY <2>2, <2>4 DEF NumbersStay
<1>5. slot' \in [Slots -> Entries] /\ slot'[s] = x /\ \A u \in Slots \ {s} : slot'[u] = slot[u]
  BY DEF IInv, Types
<1>6. CASE t.pc \notin Versioned
  <2>1. PICK o \in Entries : o = slot[s]
    BY DEF IInv, Types
  <2>2. t.pc \in Copied => t.pc \in Versioned
    BY DEF Versioned
  <2>3. Reads(t)'
    BY <1>3, <1>6, <2>1, <2>2, ReadsKept
  <2>q. QED BY <1>3, <2>3
<1>7. CASE t.pc \in Versioned
  <2>1. t.slot \in Slots
    BY <1>3, <1>7 DEF Reads, Reading
  <2>2. PICK o \in Entries : o = slot[t.slot]
    BY <2>1 DEF IInv, Types
  <2>3. PICK y \in Entries : y = slot'[t.slot]
    BY <1>5, <2>1
  <2>4. Harmless(t, o, y, Live(t.slot), Live(t.slot)')
    <3>1. CASE t.slot = s
      BY <1>2, <1>5, <1>7, <2>2, <2>3, <3>1
    <3>2. CASE t.slot # s
      <4>1. o = y
        BY <1>5, <2>1, <2>2, <2>3, <3>2
      <4>2. Live(t.slot)' => Live(t.slot)
        BY <1>3, <1>5, <2>1, <3>2 DEF Live
      <4>3. o.gen <= o.gen
        BY DEF Entries
      <4>q. QED BY <4>1, <4>2, <4>3 DEF Harmless
    <3>q. QED BY <3>1, <3>2
  <2>5. Reads(t)'
    BY <1>3, <1>4, <2>2, <2>3, <2>4, ReadsKept
  <2>q. QED BY <1>3, <2>5
<1>q. QED BY <1>6, <1>7

\* A process at a slot of its own gets in nobody's way.
LEMMA OwnApart ==
    ASSUME IInv, NEW p \in Pids, NEW r \in Processes, proc[p].pc \notin {"unborn", "reaped"}, r.at = proc[p].at,
           r.pc \notin Reading,
           r.pc \in Entering => proc[p].pc \in Entering /\ r.who = proc[p].who,
           r.pc = "filling" => proc[p].pc \in Entering /\ r.who = proc[p].who,
           r.pc = "publishing" => proc[p].pc = "filling" /\ r.who = proc[p].who
    PROVE  \A q \in Pids \ {p} : Apart(r, proc[q]) /\ Apart(proc[q], r)
<1>1. SUFFICES ASSUME NEW q \in Pids \ {p} PROVE Apart(r, proc[q]) /\ Apart(proc[q], r)
  OBVIOUS
<1>2. /\ Apart(proc[p], proc[q]) /\ Apart(proc[q], proc[p]) /\ Registers(proc[p]) /\ Reads(proc[q])
      /\ proc[q] \in Processes
  BY Known
<1>3. r.pc \notin Copied /\ r.pc \notin Accepted
  BY DEF Reading, Versioned, Copied, Checked
<1>4. r.pc = "filling" /\ proc[q].pc \in Copied /\ proc[q].pay.id # 0 => r.who # proc[q].pay.id
  <2>1. SUFFICES ASSUME r.pc = "filling", proc[q].pc \in Copied, proc[q].pay.id # 0 PROVE r.who # proc[q].pay.id
    OBVIOUS
  <2>2. born[r.who] = <<0, 0>>
    BY <1>2, <2>1 DEF Registers
  <2>3. proc[q].pc \in Reading
    BY <2>1 DEF Reading, Versioned
  <2>4. born[proc[q].pay.id][1] = proc[q].slot /\ proc[q].slot # 0
    BY <1>2, <2>1, <2>3, Constants DEF Reads
  <2>q. QED BY <2>2, <2>4
<1>5. r.pc = "publishing" /\ proc[q].pc \in Accepted /\ proc[q].pay.id # 0 => r.who # proc[q].pay.id
  <2>1. proc[q].pc \in Accepted => proc[q].pc \in Copied
    BY DEF Copied, Checked
  <2>q. QED BY <1>2, <2>1 DEF Apart
<1>6. Apart(r, proc[q])
  BY <1>2, <1>3 DEF Apart
<1>7. Apart(proc[q], r)
  BY <1>2, <1>3, <1>4, <1>5 DEF Apart
<1>q. QED BY <1>6, <1>7

\* The other slots do not notice when a client is numbered or accounted for.
LEMMA OtherSlots ==
    ASSUME IInv, NEW s \in Slots, NEW x, slot' = [slot EXCEPT ![s] = x], NEW b, born' = b, NEW d, credit' = d,
           \A c \in Clients : born[c] # <<0, 0>> => b[c] = born[c],
           \A c \in Clients : born[c] # <<0, 0>> /\ born[c][1] # s => d[c] = credit[c],
           asked' = asked
    PROVE  \A t \in Slots \ {s} : SlotRight(t)'
<1>1. SUFFICES ASSUME NEW t \in Slots \ {s} PROVE SlotRight(t)'
  OBVIOUS
<1>2. slot'[t] = slot[t] /\ SlotRight(t) /\ slot[t] \in Entries /\ t # 0
  BY Constants DEF IInv, Types
<1>3. ASSUME NEW c \in Clients, NEW g, born[c] = <<t, g>> PROVE b[c] = born[c] /\ d[c] = credit[c]
  <2>1. born[c][1] = t /\ born[c] # <<0, 0>>
    BY <1>2, <1>3
  <2>q. QED BY <2>1
<1>4. slot[t].pay.id # 0 => b[slot[t].pay.id] = <<t, slot[t].gen>> /\ d[slot[t].pay.id] = 0
  <2>1. slot[t].pay.id # 0 => slot[t].pay.id \in Clients
    BY <1>2 DEF Entries, Payloads
  <2>q. QED BY <1>2, <1>3, <2>1 DEF SlotRight
<1>5. slot[t].disc # 0 => \E c \in asked : b[c] = <<t, slot[t].disc>>
  <2>1. asked \subseteq Clients
    BY DEF IInv, Types
  <2>q. QED BY <1>2, <1>3, <2>1 DEF SlotRight
<1>q. QED BY <1>2, <1>4, <1>5 DEF SlotRight

\* The usual step at one's own slot: nobody is numbered or accounted for.
LEMMA OwnSlotStep ==
    ASSUME IInv, NEW p \in Pids, proc[p].pc \notin Gone, NEW r \in Processes, Become(p, r),
           NEW s \in Slots, NEW x \in Entries, slot' = [slot EXCEPT ![s] = x], x.gen = slot[s].gen,
           slot[s].owner \in {0, p}, x.owner \in {0, p},
           x.owner = 0 \/ slot[s].owner = p \/ proc[p].pc = "reserving",
           NEW k \in SUBSET Registrations, conns' = [conns EXCEPT ![p] = k],
           UNCHANGED <<admission, guard, blocked, pipe, next, born, credit, asked, granted>>, expelled' \subseteq asked,
           r.at = proc[p].at, r.pc \notin Reading, r.pc \notin {"filling", "reserving"},
           r.pc \in Entering => proc[p].pc \in Entering /\ r.who = proc[p].who,
           r.pc = "publishing" => proc[p].pc = "filling" /\ r.who = proc[p].who,
           SlotRight(s)', Cardinality(Reserved') <= MaxClients,
           \A q \in Pids \ {p} : proc[q].pc \in Versioned /\ proc[q].slot = s =>
                 Harmless(proc[q], slot[s], x, Live(s), Live(s)'),
           Serves(p)', Owns(p, r)', Admits(p, r)', Registers(r)', Writes(p, r)', Pending(p)'
    PROVE  IInv'
<1>1. PICK b \in [Clients -> ({0} \union Slots) \X Nat], d \in [Clients -> 0..1] : b = born /\ d = credit
  BY DEF IInv, Types
<1>2. born' = b /\ credit' = d
  BY <1>1
<1>3. \A q \in Pids \ {p} : Reads(proc[q])'
  <2>1. NumbersStay(b)
    BY <1>1 DEF NumbersStay
  <2>q. QED BY <1>2, <2>1, OthersRead
<1>4. \A q \in Pids \ {p} : Apart(r, proc[q]) /\ Apart(proc[q], r)
  BY OwnApart DEF Gone
<1>5. \A t \in Slots : SlotRight(t)'
  <2>1. \A t \in Slots \ {s} : SlotRight(t)'
    BY <1>1, <1>2, OtherSlots
  <2>q. QED BY <2>1
<1>6. ASSUME NEW c \in Clients PROVE BornRight(c)' /\ GrantedRight(c)'
  <2>1. BornRight(c) /\ GrantedRight(c) /\ born[c] \in ({0} \union Slots) \X Nat
    BY DEF IInv, Types
  <2>2. \A t \in Slots : slot'[t].gen = slot[t].gen
    BY DEF IInv, Types
  <2>3. born[c][1] # 0 => born[c][1] \in Slots
    BY <2>1
  <2>4. BornRight(c)'
    BY <2>1, <2>2, <2>3 DEF BornRight
  <2>5. proc'[p] = r /\ \A q \in Pids \ {p} : proc'[q] = proc[q]
    BY DEF IInv, Types, Become
  <2>6. GrantedRight(c)'
    BY <2>1, <2>5 DEF GrantedRight
  <2>q. QED BY <2>4, <2>6
<1>7. Counted(r)' /\ Reads(r)' /\ Asks(r)'
  <2>1. r.pc \notin Versioned /\ r.pc \notin Copied /\ r.pc \notin Checked /\ r.pc \notin Accepted
    BY DEF Reading, Versioned, Copied, Checked
  <2>2. r.pc \notin {"copied", "version again", "generation again"}
    BY <2>1 DEF Copied
  <2>q. QED BY <2>1, <2>2 DEF Counted, Reads, Asks
<1>8. EntrantsStay(p, b, d)
  BY <1>1 DEF EntrantsStay
<1>q. QED BY <1>1, <1>2, <1>3, <1>4, <1>5, <1>6, <1>7, <1>8, OwnSlotKeeps
-----------------------------------------------------------------------------
\* A step at a slot that no connection of the process has yet or any more.
LEMMA ApartFromConnections ==
    ASSUME IInv, NEW p \in Pids, proc[p].pc \notin Gone \union Writing, NEW r \in Processes, Become(p, r),
           NEW s \in Slots, NEW x, slot' = [slot EXCEPT ![s] = x], conns' = conns, UNCHANGED <<pipe, granted>>,
           slot[s].owner = 0 \/ ~slot[s].active, proc[p].pc \in Placed => proc[p].slot = s,
           r.pc \notin Gone \union Writing \union {"idle"},
           r.at = proc[p].at, r.sweep = proc[p].sweep, r.todo = proc[p].todo,
           \/ r.pc \in Placed /\ r.slot = s /\ x.owner = p /\ ~x.active
           \/ r.pc \notin Placed /\ x.owner = 0
    PROVE  Serves(p)' /\ Owns(p, r)' /\ Writes(p, r)' /\ Pending(p)'
<1>1. /\ proc[p] \in Processes /\ Serves(p) /\ Owns(p, proc[p]) /\ Writes(p, proc[p]) /\ Pending(p)
      /\ conns[p] \subseteq Registrations /\ proc[p].todo \subseteq conns[p] /\ p # 0
  BY Known, Constants
<1>2. slot'[s] = x /\ (\A u \in Slots \ {s} : slot'[u] = slot[u]) /\ proc'[p] = r
  BY DEF IInv, Types, Become
<1>3. \A c \in conns[p] : c.slot \in Slots /\ c.slot # s /\ slot'[c.slot] = slot[c.slot]
  BY <1>1, <1>2 DEF Serves, Registrations
<1>4. Serves(p)'
  BY <1>1, <1>3 DEF Serves
<1>5. Owns(p, r)'
  <2>1. ASSUME NEW u \in Slots, slot'[u].owner = p
        PROVE  (\E c \in conns[p] : c.slot = u) \/ (r.pc \in Placed /\ r.slot = u)
    BY <1>1, <1>2, <2>1 DEF Owns
  <2>2. r.pc \notin {"unborn", "reaped"}
    BY DEF Gone
  <2>q. QED BY <1>1, <1>2, <2>1, <2>2 DEF Owns
<1>6. Writes(p, r)'
  <2>1. r.pc \notin {"writing b", "written"}
    BY DEF Writing
  <2>q. QED BY <1>1, <1>3, <2>1 DEF Writes
<1>7. Pending(p)'
  BY <1>1, <1>2, <1>3 DEF Pending, Wanted, Alive, Gone
<1>q. QED BY <1>4, <1>5, <1>6, <1>7

\* A slot does not come alive under another's eyes.
LEMMA LiveStays ==
    ASSUME IInv, NEW p \in Pids, NEW r \in Processes, Become(p, r), r.pc # "filling", NEW s \in Slots, NEW x,
           slot' = [slot EXCEPT ![s] = x], x.pay.id \in {0, slot[s].pay.id}
    PROVE  Live(s)' => Live(s)
<1>1. slot'[s] = x /\ proc'[p] = r /\ \A u \in Pids \ {p} : proc'[u] = proc[u]
  BY DEF IInv, Types, Become
<1>2. ASSUME NEW q \in Pids, proc'[q].pc = "filling", proc'[q].slot = s PROVE Live(s)
  <2>1. q # p
    BY <1>1, <1>2
  <2>q. QED BY <1>1, <1>2, <2>1 DEF Live
<1>3. slot'[s].pay.id # 0 => Live(s)
  BY <1>1 DEF Live
<1>q. QED BY <1>2, <1>3 DEF Live

\* The set of taken slots shrinks or stays.
LEMMA NoMoreReserved ==
    ASSUME IInv, NEW p \in Pids, NEW s \in Slots, NEW x, slot' = [slot EXCEPT ![s] = x],
           x.owner = 0 \/ slot[s].owner = p
    PROVE  Cardinality(Reserved') <= MaxClients
<1>1. p # 0
  BY Constants
<1>2. Reserved' \subseteq Reserved
  BY <1>1 DEF Reserved, IInv, Types
<1>3. Reserved \subseteq Slots
  BY DEF Reserved
<1>4. IsFiniteSet(Reserved) /\ Cardinality(Reserved) \in Nat
  BY <1>3, Constants, FS_Subset, FS_CardinalityType
<1>5. IsFiniteSet(Reserved') /\ Cardinality(Reserved') <= Cardinality(Reserved)
  BY <1>2, <1>4, FS_Subset
<1>6. Cardinality(Reserved') \in Nat
  BY <1>5, FS_CardinalityType
<1>q. QED BY <1>4, <1>5, <1>6, Constants DEF IInv

\* A free slot is taken by the process that was admitted, the bound still kept.
LEMMA ReserveKeeps ==
    ASSUME IInv, NEW p \in Pids, Reserve(p)
    PROVE  IInv'
<1> DEFINE m == Min(Slots \ Reserved)
<1>1. /\ proc[p].pc = "reserving" /\ slot' = [slot EXCEPT ![m].owner = p]
      /\ Become(p, [proc[p] EXCEPT !.pc = "reserved", !.slot = m])
      /\ UNCHANGED <<admission, guard, blocked, pipe, conns, next, born, credit, asked, granted, expelled>>
  BY DEF Reserve, locks, history
<1>2. /\ proc[p] \in Processes /\ Admits(p, proc[p]) /\ Counted(proc[p]) /\ Registers(proc[p])
      /\ conns[p] \subseteq Registrations
  BY Known
<1>3. /\ IsFiniteSet(Reserved) /\ Cardinality(Reserved) \in Nat /\ Reserved \subseteq Slots
      /\ Cardinality(Reserved) < MaxClients
  <2>1. Reserved \subseteq Slots
    BY DEF Reserved
  <2>2. IsFiniteSet(Reserved) /\ Cardinality(Reserved) \in Nat
    BY <2>1, Constants, FS_Subset, FS_CardinalityType
  <2>q. QED BY <1>1, <1>2, <2>1, <2>2 DEF Counted
<1>4. m \in Slots /\ m \notin Reserved
  <2>1. Slots \ Reserved # {}
    <3>1. SUFFICES ASSUME Slots \subseteq Reserved PROVE FALSE
      OBVIOUS
    <3>2. Reserved = Slots
      BY <1>3, <3>1
    <3>3. Cardinality(Slots) < MaxClients /\ MaxClients <= Cardinality(Slots) /\ Cardinality(Slots) \in Nat
      BY <1>3, <3>2, Constants
    <3>q. QED BY <3>3, Constants
  <2>q. QED BY <2>1, Constants, MinIsLeast
<1> HIDE DEF m
<1>5. PICK s \in Slots : s = m /\ s \notin Reserved /\ slot[s].owner = 0
  BY <1>4 DEF Reserved
<1>6. PICK o \in Entries : o = slot[s]
  BY DEF IInv, Types
<1>a. PICK x : x = [o EXCEPT !.owner = p]
  OBVIOUS
<1>7. /\ x \in Entries /\ x.owner = p /\ x.active = o.active /\ x.gen = o.gen /\ x.disc = o.disc /\ x.ver = o.ver
      /\ x.pay = o.pay
  BY <1>a DEF Entries
<1>8. slot' = [slot EXCEPT ![s] = x]
  BY <1>1, <1>5, <1>6, <1>a
<1>b. PICK t : t = [proc[p] EXCEPT !.pc = "reserved", !.slot = m]
  OBVIOUS
<1>9. /\ t \in Processes /\ t.pc = "reserved" /\ t.slot = s /\ t.who = proc[p].who /\ t.at = proc[p].at
      /\ t.sweep = proc[p].sweep /\ t.todo = proc[p].todo
  BY <1>2, <1>5, <1>b DEF Processes, Points, Placed
<1>10. Become(p, t) /\ SlotRight(s) /\ ~o.active /\ p # 0
  BY <1>1, <1>5, <1>6, <1>b, Constants DEF IInv, SlotRight
<1>11. /\ proc[p].pc \notin Gone \union Writing \union Placed /\ proc[p].pc \in Entering \intersect Locked
       /\ t.pc \in Placed /\ t.pc \notin Gone \union Writing \union {"idle", "filling", "publishing", "reserving"}
       /\ t.pc \notin Reading /\ t.pc \in Entering
  BY <1>1, <1>9 DEF Gone, Writing, Placed, Entering, Locked, Reading, Versioned, Copied, Checked, Accepted
<1>12. Serves(p)' /\ Owns(p, t)' /\ Writes(p, t)' /\ Pending(p)'
  <2>1. t.pc \in Placed /\ t.slot = s /\ x.owner = p /\ ~x.active
    BY <1>7, <1>9, <1>10, <1>11
  <2>2. /\ proc[p].pc \notin Gone \union Writing /\ (proc[p].pc \in Placed => proc[p].slot = s)
        /\ t.pc \notin Gone \union Writing \union {"idle"} /\ (slot[s].owner = 0 \/ ~slot[s].active)
    BY <1>5, <1>6, <1>11
  <2>3. conns' = conns /\ UNCHANGED <<pipe, granted>> /\ Become(p, t) /\ t \in Processes
    BY <1>1, <1>9, <1>10 DEF history
  <2>q. QED BY <1>5, <1>8, <1>9, <2>1, <2>2, <2>3, ApartFromConnections
<1>13. SlotRight(s)'
  <2>1. slot'[s] = x
    BY <1>8 DEF IInv, Types
  <2>q. QED BY <1>1, <1>6, <1>7, <1>10, <2>1 DEF SlotRight
<1>14. Cardinality(Reserved') <= MaxClients
  <2>1. Reserved' = Reserved \union {s}
    BY <1>3, <1>5, <1>7, <1>8, <1>10 DEF Reserved, IInv, Types
  <2>2. Cardinality(Reserved') = Cardinality(Reserved) + 1
    BY <1>3, <1>5, <2>1, FS_AddElement
  <2>q. QED BY <1>3, <2>2, Constants
<1>15. Admits(p, t)' /\ Registers(t)'
  BY <1>1, <1>2, <1>9, <1>11 DEF Admits, Registers
<1>16. ASSUME NEW q \in Pids \ {p} PROVE Harmless(proc[q], slot[s], x, Live(s), Live(s)')
  <2>1. slot'[s] = x /\ proc'[p] = t /\ \A u \in Pids \ {p} : proc'[u] = proc[u]
    BY <1>8, <1>10 DEF IInv, Types, Become
  <2>2. Live(s)' => Live(s)
    BY <1>6, <1>7, <1>8, <1>9, <1>10, LiveStays
  <2>3. o.gen <= o.gen
    BY DEF Entries
  <2>q. QED BY <1>6, <1>7, <2>2, <2>3 DEF Harmless
<1>17. expelled' \subseteq asked /\ conns' = [conns EXCEPT ![p] = conns[p]]
  BY <1>1 DEF IInv, Types
<1>q. QED
  BY <1>1, <1>2, <1>5, <1>6, <1>7, <1>8, <1>9, <1>10, <1>11, <1>12, <1>13, <1>14, <1>15, <1>16, <1>17, OwnSlotStep

\* A step at the slot a process is placed in, which nobody is served from.
LEMMA PlacedStep ==
    ASSUME IInv, NEW p \in Pids, proc[p].pc \in Placed, NEW t \in Processes, Become(p, t),
           t.at = proc[p].at, t.sweep = proc[p].sweep, t.todo = proc[p].todo, t.who = proc[p].who,
           NEW s \in Slots, s = proc[p].slot, t.slot = s, NEW x \in Entries, slot' = [slot EXCEPT ![s] = x],
           x.gen = slot[s].gen, ~x.active,
           UNCHANGED <<admission, guard, blocked, pipe, conns, next, born, credit, asked, granted, expelled>>,
           \/ t.pc = "numbering" /\ proc[p].pc = "wiping" /\ x.owner = p
           \/ t.pc = "publishing" /\ proc[p].pc = "filling" /\ x.owner = p
           \/ t.pc = "telling" /\ x.owner = 0,
           SlotRight(s)', Registers(t)',
           \A q \in Pids \ {p} : proc[q].pc \in Versioned /\ proc[q].slot = s =>
                 Harmless(proc[q], slot[s], x, Live(s), Live(s)')
    PROVE  IInv'
<1>1. /\ Owns(p, proc[p]) /\ conns[p] \in SUBSET Registrations
  BY Known
<1>2. slot[s].owner = p /\ ~slot[s].active
  BY <1>1 DEF Owns
<1>3. /\ proc[p].pc \notin Gone \union Writing
      /\ t.pc \notin Gone \union Writing \union {"idle", "filling", "reserving"}
      /\ t.pc \notin Reading /\ t.pc \notin Locked
  BY DEF Gone, Writing, Placed, Entering, Locked, Reading, Versioned, Copied, Checked, Accepted
<1>4. (t.pc \in Placed /\ x.owner = p) \/ (t.pc \notin Placed /\ x.owner = 0)
  BY DEF Placed
<1>5. t.pc \in Entering => proc[p].pc \in Entering
  BY DEF Entering
<1>6. Serves(p)' /\ Owns(p, t)' /\ Writes(p, t)' /\ Pending(p)'
  BY <1>2, <1>3, <1>4, ApartFromConnections
<1>7. Cardinality(Reserved') <= MaxClients
  BY <1>2, NoMoreReserved
<1>8. Admits(p, t)'
  BY <1>3 DEF Admits, Gone
<1>9. expelled' \subseteq asked /\ conns' = [conns EXCEPT ![p] = conns[p]]
  BY DEF IInv, Types
<1>10. x.owner \in {0, p} /\ slot[s].owner \in {0, p}
  BY <1>2
<1>11. t.pc = "publishing" => proc[p].pc = "filling"
  OBVIOUS
<1>q. QED BY <1>1, <1>2, <1>3, <1>5, <1>6, <1>7, <1>8, <1>9, <1>10, <1>11, OwnSlotStep

\* What is known of the slot a process is placed in.
LEMMA PlacedAt ==
    ASSUME IInv, NEW p \in Pids, proc[p].pc \in Placed
    PROVE  /\ proc[p].slot \in Slots /\ slot[proc[p].slot] \in Entries /\ SlotRight(proc[p].slot)
           /\ slot[proc[p].slot].owner = p /\ ~slot[proc[p].slot].active
           /\ \A q \in Pids \ {p} : proc[q].pc \in Placed => proc[q].slot # proc[p].slot
<1>1. proc[p].slot \in Slots /\ slot[proc[p].slot].owner = p /\ ~slot[proc[p].slot].active
  BY Known DEF Owns
<1>2. slot[proc[p].slot] \in Entries /\ SlotRight(proc[p].slot)
  BY <1>1 DEF IInv, Types
<1>3. \A q \in Pids \ {p} : proc[q].pc \in Placed => proc[q].slot # proc[p].slot
  BY <1>1, Known DEF Owns
<1>q. QED BY <1>1, <1>2, <1>3

\* What the last user left in the slot is erased.
LEMMA WipeKeeps ==
    ASSUME IInv, NEW p \in Pids, Wipe(p)
    PROVE  IInv'
<1>1. /\ proc[p].pc = "wiping" /\ slot' = [slot EXCEPT ![proc[p].slot] = Wiped(slot[proc[p].slot])]
      /\ Become(p, [proc[p] EXCEPT !.pc = "numbering"])
      /\ UNCHANGED <<admission, guard, blocked, pipe, conns, next, born, credit, asked, granted, expelled>>
  BY DEF Wipe, Goto, locks, history
<1>2. proc[p] \in Processes /\ Registers(proc[p]) /\ proc[p].pc \in Placed /\ proc[p].pc \in Entering
  BY <1>1, Known DEF Placed, Entering
<1>3. PICK s \in Slots : /\ s = proc[p].slot /\ slot[s] \in Entries /\ SlotRight(s) /\ slot[s].owner = p
                         /\ ~slot[s].active
  BY <1>2, PlacedAt
<1>4. PICK o \in Entries : o = slot[s]
  BY <1>3
<1>a. PICK x : x = Wiped(o)
  OBVIOUS
<1>5. /\ x \in Entries /\ x.owner = p /\ ~x.active /\ x.gen = o.gen /\ x.disc = 0 /\ x.ver = 0 /\ x.pay = NoPay
      /\ NoPay.id = 0 /\ NoPay.a = 0 /\ NoPay.b = 0
  <2>1. NoPay \in Payloads /\ NoPay.id = 0 /\ NoPay.a = 0 /\ NoPay.b = 0
    BY DEF NoPay, Payloads
  <2>2. x = [o EXCEPT !.pay = NoPay, !.disc = 0, !.ver = 0]
    BY <1>a DEF Wiped
  <2>q. QED BY <1>3, <1>4, <2>1, <2>2 DEF Entries
<1>b. PICK t : t = [proc[p] EXCEPT !.pc = "numbering"]
  OBVIOUS
<1>6. /\ t \in Processes /\ t.pc = "numbering" /\ t.slot = s /\ t.who = proc[p].who /\ t.at = proc[p].at
      /\ t.sweep = proc[p].sweep /\ t.todo = proc[p].todo
  BY <1>2, <1>3, <1>b DEF Processes, Points, Placed
<1>7. Become(p, t) /\ slot' = [slot EXCEPT ![s] = x]
  BY <1>1, <1>3, <1>4, <1>a, <1>b
<1>8. slot'[s] = x /\ proc'[p] = t /\ \A u \in Pids \ {p} : proc'[u] = proc[u]
  BY <1>7 DEF IInv, Types, Become
<1>9. SlotRight(s)'
  <2>1. 0 % 2 = 0
    OBVIOUS
  <2>q. QED BY <1>5, <1>8, <2>1 DEF SlotRight
<1>10. Registers(t)'
  BY <1>1, <1>2, <1>5, <1>6, <1>8 DEF Registers, Entering
<1>11. ASSUME NEW q \in Pids \ {p} PROVE Harmless(proc[q], slot[s], x, Live(s), Live(s)')
  <2>1. ~Live(s)'
    <3>1. ASSUME NEW u \in Pids, proc'[u].pc = "filling" PROVE proc'[u].slot # s
      <4>1. u # p /\ proc[u].pc \in Placed /\ proc'[u] = proc[u]
        BY <1>6, <1>8, <3>1 DEF Placed
      <4>q. QED BY <1>2, <1>3, <4>1, PlacedAt
    <3>q. QED BY <1>5, <1>8, <3>1 DEF Live
  <2>2. o.gen <= o.gen
    BY DEF Entries
  <2>q. QED BY <1>4, <1>5, <2>1, <2>2 DEF Harmless
<1>q. QED BY <1>1, <1>2, <1>3, <1>4, <1>5, <1>6, <1>7, <1>9, <1>10, <1>11, PlacedStep

\* The client that was numbered is written into its slot.
LEMMA FillKeeps ==
    ASSUME IInv, NEW p \in Pids, Fill(p)
    PROVE  IInv'
<1>1. /\ proc[p].pc = "filling" /\ slot' = [slot EXCEPT ![proc[p].slot].pay.id = proc[p].who]
      /\ Become(p, [proc[p] EXCEPT !.pc = "publishing"])
      /\ UNCHANGED <<admission, guard, blocked, pipe, conns, next, born, credit, asked, granted, expelled>>
  BY DEF Fill, Goto, locks, history
<1>2. /\ proc[p] \in Processes /\ Registers(proc[p]) /\ proc[p].pc \in Placed
      /\ \A q \in Pids \ {p} : Apart(proc[q], proc[p])
  BY <1>1, Known DEF Placed
<1>3. PICK s \in Slots : /\ s = proc[p].slot /\ slot[s] \in Entries /\ SlotRight(s) /\ slot[s].owner = p
                         /\ ~slot[s].active
  BY <1>2, PlacedAt
<1>4. PICK o \in Entries : o = slot[s]
  BY <1>3
<1>5. PICK w \in Clients : w = proc[p].who /\ w # 0 /\ born[w] = <<s, o.gen>> /\ credit[w] = 0
  BY <1>1, <1>2, <1>3, <1>4, Constants DEF Registers
<1>6. o.pay = NoPay /\ o.ver = 0
  BY <1>1, <1>2, <1>3, <1>4 DEF Registers
<1>7. PICK z : z = [o.pay EXCEPT !.id = w]
  OBVIOUS
<1>8. z \in Payloads /\ z.id = w /\ z.a = 0 /\ z.b = 0
  BY <1>6, <1>7 DEF NoPay, Payloads
<1>a. PICK x : x = [o EXCEPT !.pay = z]
  OBVIOUS
<1>9. /\ x \in Entries /\ x.owner = p /\ ~x.active /\ x.gen = o.gen /\ x.disc = o.disc /\ x.ver = o.ver /\ x.pay = z
  BY <1>3, <1>4, <1>8, <1>a DEF Entries
<1>b. PICK t : t = [proc[p] EXCEPT !.pc = "publishing"]
  OBVIOUS
<1>10. /\ t \in Processes /\ t.pc = "publishing" /\ t.slot = s /\ t.who = w /\ t.at = proc[p].at
       /\ t.sweep = proc[p].sweep /\ t.todo = proc[p].todo
  BY <1>2, <1>3, <1>5, <1>b DEF Processes, Points, Placed
<1>11. Become(p, t) /\ slot' = [slot EXCEPT ![s] = x]
  <2>1. [slot EXCEPT ![s].pay.id = w] = [slot EXCEPT ![s] = [o EXCEPT !.pay = [o.pay EXCEPT !.id = w]]]
    BY <1>4
  <2>q. QED BY <1>1, <1>3, <1>5, <1>7, <1>a, <1>b, <2>1
<1>12. slot'[s] = x /\ proc'[p] = t /\ \A u \in Pids \ {p} : proc'[u] = proc[u]
  BY <1>11 DEF IInv, Types, Become
<1>13. SlotRight(s)'
  BY SMTT(30), <1>1, <1>3, <1>4, <1>5, <1>8, <1>9, <1>12 DEF SlotRight
<1>14. Registers(t)'
  <2>1. t.pc \notin Entering
    BY <1>10 DEF Entering
  <2>q. QED BY <1>5, <1>6, <1>8, <1>9, <1>10, <1>12, <2>1 DEF Registers
<1>15. ASSUME NEW q \in Pids \ {p} PROVE Harmless(proc[q], slot[s], x, Live(s), Live(s)')
  <2>1. Live(s)
    BY <1>1, <1>3 DEF Live
  <2>2. proc[q].pc \in Copied => proc[q].pay.id # w
    BY <1>1, <1>2, <1>5 DEF Apart
  <2>3. o.gen <= o.gen /\ o.ver <= o.ver
    BY DEF Entries
  <2>q. QED BY <1>4, <1>8, <1>9, <2>1, <2>2, <2>3 DEF Harmless
<1>16. t.who = proc[p].who /\ x.gen = slot[s].gen
  BY <1>4, <1>5, <1>9, <1>10
<1>q. QED BY <1>1, <1>2, <1>3, <1>9, <1>10, <1>11, <1>13, <1>14, <1>15, <1>16, PlacedStep

\* An erased slot is given back.
LEMMA ReleaseKeeps ==
    ASSUME IInv, NEW p \in Pids, Release(p)
    PROVE  IInv'
<1>1. /\ proc[p].pc = "releasing" /\ slot' = [slot EXCEPT ![proc[p].slot].owner = 0]
      /\ Become(p, [proc[p] EXCEPT !.pc = "telling"])
      /\ UNCHANGED <<admission, guard, blocked, pipe, conns, next, born, credit, asked, granted, expelled>>
  BY DEF Release, Goto, locks, history
<1>2. proc[p] \in Processes /\ proc[p].pc \in Placed
  BY <1>1, Known DEF Placed
<1>3. PICK s \in Slots : /\ s = proc[p].slot /\ slot[s] \in Entries /\ SlotRight(s) /\ slot[s].owner = p
                         /\ ~slot[s].active
  BY <1>2, PlacedAt
<1>4. PICK o \in Entries : o = slot[s]
  BY <1>3
<1>a. PICK x : x = [o EXCEPT !.owner = 0]
  OBVIOUS
<1>5. /\ x \in Entries /\ x.owner = 0 /\ ~x.active /\ x.gen = o.gen /\ x.disc = o.disc /\ x.ver = o.ver
      /\ x.pay = o.pay
  BY <1>3, <1>4, <1>a DEF Entries
<1>b. PICK t : t = [proc[p] EXCEPT !.pc = "telling"]
  OBVIOUS
<1>6. /\ t \in Processes /\ t.pc = "telling" /\ t.slot = s /\ t.who = proc[p].who /\ t.at = proc[p].at
      /\ t.sweep = proc[p].sweep /\ t.todo = proc[p].todo
  BY <1>2, <1>3, <1>b DEF Processes, Points, Placed
<1>7. Become(p, t) /\ slot' = [slot EXCEPT ![s] = x]
  BY <1>1, <1>3, <1>4, <1>a, <1>b
<1>8. slot'[s] = x
  BY <1>7 DEF IInv, Types
<1>9. SlotRight(s)'
  BY <1>1, <1>3, <1>4, <1>5, <1>8 DEF SlotRight
<1>10. Registers(t)'
  BY <1>6 DEF Registers, Entering
<1>11. ASSUME NEW q \in Pids \ {p} PROVE Harmless(proc[q], slot[s], x, Live(s), Live(s)')
  <2>1. Live(s)' => Live(s)
    BY <1>4, <1>5, <1>6, <1>7, LiveStays
  <2>2. o.gen <= o.gen
    BY DEF Entries
  <2>q. QED BY <1>4, <1>5, <2>1, <2>2 DEF Harmless
<1>q. QED BY <1>1, <1>2, <1>3, <1>4, <1>5, <1>6, <1>7, <1>9, <1>10, <1>11, PlacedStep

\* A client gets a number that no client has had.
LEMMA NumberKeeps ==
    ASSUME IInv, NEW p \in Pids, Number(p)
    PROVE  IInv'
<1>1. /\ proc[p].pc = "numbering" /\ slot' = [slot EXCEPT ![proc[p].slot].gen = slot[proc[p].slot].gen + 1]
      /\ born' = [born EXCEPT ![proc[p].who] = <<proc[p].slot, slot'[proc[p].slot].gen>>]
      /\ Become(p, [proc[p] EXCEPT !.pc = "filling"])
      /\ UNCHANGED <<admission, guard, blocked, pipe, conns, next, credit, asked, granted, expelled>>
  BY DEF Number, Goto, locks
<1>2. /\ proc[p] \in Processes /\ Registers(proc[p]) /\ proc[p].pc \in Placed /\ proc[p].pc \in Entering
      /\ conns[p] \in SUBSET Registrations /\ \A q \in Pids \ {p} : Apart(proc[p], proc[q]) /\ Apart(proc[q], proc[p])
  BY <1>1, Known DEF Placed, Entering
<1>3. PICK s \in Slots : /\ s = proc[p].slot /\ slot[s] \in Entries /\ SlotRight(s) /\ slot[s].owner = p
                         /\ ~slot[s].active
  BY <1>2, PlacedAt
<1>4. PICK o \in Entries : o = slot[s]
  BY <1>3
<1>c. PICK g \in Nat : g = o.gen
  BY DEF Entries
<1>5. PICK w \in Clients : w = proc[p].who /\ w < next /\ born[w] = <<0, 0>> /\ credit[w] = 0
  BY <1>2 DEF Registers
<1>6. o.pay = NoPay /\ o.ver = 0 /\ NoPay.id = 0 /\ NoPay.a = NoPay.b
  BY <1>1, <1>2, <1>3, <1>4 DEF Registers, NoPay
<1>a. PICK x : x = [o EXCEPT !.gen = g + 1]
  OBVIOUS
<1>7. /\ x \in Entries /\ x.owner = p /\ ~x.active /\ x.gen = g + 1 /\ x.disc = o.disc /\ x.ver = o.ver
      /\ x.pay = o.pay
  <2>1. g + 1 \in Nat
    BY <1>c
  <2>q. QED BY <1>3, <1>4, <1>a, <2>1 DEF Entries
<1>8. slot' = [slot EXCEPT ![s] = x]
  BY <1>1, <1>3, <1>4, <1>c, <1>a
<1>9. slot'[s] = x /\ \A u \in Slots \ {s} : slot'[u] = slot[u]
  BY <1>8 DEF IInv, Types
<1>d. PICK b : b = [born EXCEPT ![w] = <<s, g + 1>>]
  OBVIOUS
<1>10. /\ born' = b /\ b \in [Clients -> ({0} \union Slots) \X Nat] /\ b[w] = <<s, g + 1>>
       /\ \A c \in Clients \ {w} : b[c] = born[c]
  <2>1. g + 1 \in Nat
    BY <1>c
  <2>q. QED BY ZenonT(60), <1>1, <1>3, <1>5, <1>7, <1>9, <1>d, <2>1 DEF IInv, Types
<1>b. PICK t : t = [proc[p] EXCEPT !.pc = "filling"]
  OBVIOUS
<1>11. /\ t \in Processes /\ t.pc = "filling" /\ t.slot = s /\ t.who = w /\ t.at = proc[p].at
       /\ t.sweep = proc[p].sweep /\ t.todo = proc[p].todo /\ Become(p, t)
  BY <1>1, <1>2, <1>3, <1>5, <1>b DEF Processes, Points, Placed
<1>12. proc'[p] = t /\ \A u \in Pids \ {p} : proc'[u] = proc[u]
  BY <1>11 DEF IInv, Types, Become
<1>13. /\ proc[p].pc \notin Gone \union Writing
       /\ t.pc \in Placed /\ t.pc \notin Gone \union Writing \union {"idle", "reserving", "publishing"} \union Entering
       /\ t.pc \notin Reading /\ t.pc \notin Locked
       /\ t.pc \notin Versioned /\ t.pc \notin Copied /\ t.pc \notin Checked /\ t.pc \notin Accepted
  BY <1>1, <1>11 DEF Gone, Writing, Placed, Entering, Locked, Reading, Versioned, Copied, Checked, Accepted
<1>14. \A c \in Clients : born[c] # <<0, 0>> => c # w /\ b[c] = born[c]
  BY <1>5, <1>10
<1>15. s # 0 /\ \A c \in Clients : born[c][1] # 0 => born[c] # <<0, 0>>
  BY Constants
<1>16. \A u \in Slots : SlotRight(u)'
  <2>1. credit' = credit /\ \A u \in Slots \ {s} : SlotRight(u)'
    <3>1. PICK d : d = credit
      OBVIOUS
    <3>2. credit' = d /\ \A c \in Clients : d[c] = credit[c]
      BY <1>1, <3>1
    <3>q. QED BY <1>1, <1>8, <1>10, <1>14, <3>2, OtherSlots
  <2>2. SlotRight(s)'
    <3>1. o.disc # 0 => \E c \in asked : b[c] = <<s, o.disc>>
      <4>1. SUFFICES ASSUME o.disc # 0 PROVE \E c \in asked : b[c] = <<s, o.disc>>
        OBVIOUS
      <4>2. PICK c \in asked : born[c] = <<s, o.disc>>
        BY <1>3, <1>4, <4>1 DEF SlotRight
      <4>3. c \in Clients /\ born[c] # <<0, 0>>
        BY <4>2, <1>15 DEF IInv, Types
      <4>q. QED BY <1>14, <4>2, <4>3
    <3>q. QED BY <1>1, <1>6, <1>7, <1>9, <1>10, <3>1 DEF SlotRight
  <2>q. QED BY <2>1, <2>2
<1>17. ASSUME NEW c \in Clients, c # w PROVE b[c] # <<s, g + 1>>
  <2>1. SUFFICES ASSUME born[c] = <<s, g + 1>> PROVE FALSE
    BY <1>10, <1>17
  <2>2. born[c][1] = s /\ born[c][2] = g + 1 /\ BornRight(c)
    BY <2>1 DEF IInv
  <2>3. g + 1 <= g
    BY <1>4, <1>c, <1>15, <2>2 DEF BornRight
  <2>q. QED BY <1>c, <2>3
<1>18. ASSUME NEW c \in Clients PROVE BornRight(c)' /\ GrantedRight(c)'
  <2>1. BornRight(c) /\ GrantedRight(c)
    BY DEF IInv
  <2>2. ~(c < next) => credit[c] = 0
    BY <2>1 DEF BornRight
  <2>3. CASE c = w
    <3>1. /\ b[c][1] = s /\ b[c][2] = g + 1 /\ slot'[s].gen = g + 1 /\ g + 1 <= g + 1
      BY <1>7, <1>9, <1>10, <1>c, <2>3
    <3>2. \A d \in Clients : b[c] = b[d] => c = d
      BY <1>10, <1>17, <2>3
    <3>3. BornRight(c)'
      BY <1>1, <1>5, <1>10, <1>15, <2>3, <3>1, <3>2 DEF BornRight
    <3>4. c \notin granted
      BY <1>5, <2>1, <2>3 DEF GrantedRight
    <3>q. QED BY <1>1, <3>3, <3>4 DEF GrantedRight
  <2>4. CASE c # w
    <3>1. b[c] = born[c]
      BY <1>10, <2>4
    <3>2. born[c][1] # 0 => born[c][2] <= slot'[born[c][1]].gen
      <4>1. SUFFICES ASSUME born[c][1] # 0 PROVE born[c][2] <= slot'[born[c][1]].gen
        OBVIOUS
      <4>2. PICK u \in Slots, v \in Nat : u = born[c][1] /\ v = born[c][2]
        BY <4>1 DEF IInv, Types
      <4>3. v <= slot[u].gen
        BY <2>1, <4>1, <4>2 DEF BornRight
      <4>4. CASE u = s
        <5>1. v <= g
          BY <1>4, <1>c, <4>3, <4>4
        <5>2. v <= g + 1
          BY <5>1
        <5>q. QED BY <1>7, <1>9, <4>2, <4>4, <5>2
      <4>5. CASE u # s
        BY <1>9, <4>2, <4>3, <4>5
      <4>q. QED BY <4>4, <4>5
    <3>3. \A d \in Clients : b[c] = b[d] /\ b[c][1] # 0 => c = d
      <4>1. ASSUME NEW d \in Clients, b[c] = b[d], b[c][1] # 0 PROVE c = d
        <5>1. d # w
          BY <1>10, <1>17, <2>4, <4>1
        <5>q. QED BY <1>10, <2>1, <3>1, <4>1, <5>1 DEF BornRight
      <4>q. QED BY <4>1
    <3>4. BornRight(c)'
      BY <1>1, <1>10, <2>1, <3>1, <3>2, <3>3 DEF BornRight
    <3>5. c \in granted => \A q \in Pids : proc'[q].pc \in {"filling", "publishing"} => proc'[q].who # c
      BY <1>11, <1>12, <2>1, <2>4 DEF GrantedRight
    <3>6. GrantedRight(c)'
      BY <1>1, <1>10, <2>1, <3>1, <3>5 DEF GrantedRight
    <3>q. QED BY <3>4, <3>6
  <2>q. QED BY <2>3, <2>4
<1>19. \A q \in Pids \ {p} : Reads(proc[q])'
  <2>1. ASSUME NEW q \in Pids \ {p}, proc[q].pc \in Versioned, proc[q].slot = s
        PROVE  Harmless(proc[q], slot[s], x, Live(s), Live(s)')
    <3>1. PICK v \in Nat : v = proc[q].since
      BY DEF IInv, Types, Processes
    <3>2. v <= g
      BY <1>4, <1>c, <2>1, <3>1, Known DEF Reads
    <3>3. v # g + 1 /\ g <= g + 1
      BY <3>2
    <3>q. QED BY <1>4, <1>7, <1>c, <3>1, <3>3 DEF Harmless
  <2>2. /\ NumbersStay(b)
        /\ x \in Entries /\ born' = b /\ t \in Processes /\ Become(p, t) /\ t.slot = s
    BY <1>7, <1>10, <1>11, <1>14 DEF NumbersStay
  <2>3. \A q \in Pids \ {p} : proc[q].pc \in Versioned /\ proc[q].slot = s =>
                 Harmless(proc[q], slot[s], x, Live(s), Live(s)')
    BY <2>1
  <2>q. QED BY <1>8, <2>2, <2>3, OthersRead
<1>20. \A q \in Pids \ {p} : Apart(t, proc[q]) /\ Apart(proc[q], t)
  BY <1>2, <1>5, <1>11, <1>13, OwnApart DEF Gone
<1>21. Serves(p)' /\ Owns(p, t)' /\ Writes(p, t)' /\ Pending(p)'
  <2>1. t.pc \in Placed /\ t.slot = s /\ x.owner = p /\ ~x.active
    BY <1>7, <1>11, <1>13
  <2>2. conns' = conns /\ UNCHANGED <<pipe, granted>> /\ ~slot[s].active /\ proc[p].slot = s
    BY <1>1, <1>3
  <2>3. t.pc \notin Gone \union Writing \union {"idle"} /\ proc[p].pc \notin Gone \union Writing
    BY <1>13
  <2>q. QED BY <1>8, <1>11, <2>1, <2>2, <2>3, ApartFromConnections
<1>22. Admits(p, t)' /\ Counted(t)' /\ Reads(t)' /\ Asks(t)'
  <2>1. Admits(p, t)' /\ Counted(t)'
    BY <1>13 DEF Admits, Counted, Gone
  <2>2. Reads(t)' /\ Asks(t)'
    BY <1>11, <1>13 DEF Reads, Asks
  <2>q. QED BY <2>1, <2>2
<1>23. Registers(t)'
  <2>1. /\ slot'[t.slot] = x /\ x.ver = 0 /\ x.pay = NoPay /\ born'[t.who] = <<t.slot, x.gen>>
        /\ credit'[t.who] = 0 /\ t.who \in Clients
    BY <1>1, <1>5, <1>6, <1>7, <1>9, <1>10, <1>11
  <2>2. t.pc \notin Entering /\ t.pc # "publishing"
    BY <1>11, <1>13
  <2>q. QED BY <2>1, <2>2 DEF Registers
<1>24. \A q \in Pids \ {p} : proc[q].pc \in Entering \union {"filling"} => b[proc[q].who] = born[proc[q].who]
  <2>1. SUFFICES ASSUME NEW q \in Pids \ {p}, proc[q].pc \in Entering \union {"filling"}
                 PROVE  b[proc[q].who] = born[proc[q].who]
    OBVIOUS
  <2>2. Registers(proc[q]) /\ Owns(q, proc[q]) /\ Apart(proc[p], proc[q])
    BY <1>2, Known
  <2>3. proc[q].who \in Clients
    BY <2>1, <2>2 DEF Registers
  <2>4. CASE proc[q].pc \in Entering
    BY <1>2, <1>5, <1>10, <2>2, <2>3, <2>4 DEF Apart
  <2>5. CASE proc[q].pc = "filling"
    <3>1. proc[q].slot # 0 /\ born[proc[q].who] = <<proc[q].slot, slot[proc[q].slot].gen>>
      BY <2>2, <2>5, Constants DEF Registers, Owns, Placed
    <3>q. QED BY <1>14, <2>3, <3>1
  <2>q. QED BY <2>1, <2>4, <2>5
<1>25. PICK d \in [Clients -> 0..1] : d = credit /\ credit' = d
  BY <1>1 DEF IInv, Types
<1>26. Cardinality(Reserved') <= MaxClients
  BY <1>3, <1>8, NoMoreReserved
<1>27. expelled' \subseteq asked /\ conns' = [conns EXCEPT ![p] = conns[p]]
  BY <1>1 DEF IInv, Types
<1>28. slot[s].owner \in {0, p} /\ x.owner \in {0, p} /\ slot[s].owner = p
  BY <1>3, <1>7
<1>29. /\ UNCHANGED <<admission, guard, blocked, pipe, next, asked, granted>>
       /\ EntrantsStay(p, b, d)
  BY <1>1, <1>24, <1>25 DEF EntrantsStay
<1>30. \A q \in Pids \ {p} : Reads(proc[q])' /\ Apart(t, proc[q]) /\ Apart(proc[q], t)
  BY <1>19, <1>20
<1>31. /\ t \in Processes /\ Become(p, t) /\ x \in Entries /\ born' = b
       /\ b \in [Clients -> ({0} \union Slots) \X Nat] /\ conns[p] \in SUBSET Registrations
  BY <1>2, <1>7, <1>10, <1>11
<1>32. \A c \in Clients : BornRight(c)' /\ GrantedRight(c)'
  BY <1>18
<1>q. QED
  BY <1>8, <1>16, <1>21, <1>22, <1>23, <1>25, <1>26, <1>27, <1>28, <1>29, <1>30, <1>31, <1>32, OwnSlotKeeps

\* What is erased is nobody's, and nobody brings it to life.
LEMMA ErasedIsHarmless ==
    ASSUME IInv, NEW p \in Pids, proc[p].pc \in Placed, NEW t \in Processes, Become(p, t), t.pc # "filling",
           NEW s \in Slots, s = proc[p].slot, NEW x \in Entries, slot' = [slot EXCEPT ![s] = x],
           x.pay.id = 0, x.gen = slot[s].gen
    PROVE  \A q \in Pids \ {p} : Harmless(proc[q], slot[s], x, Live(s), Live(s)')
<1>1. slot'[s] = x /\ proc'[p] = t /\ \A u \in Pids \ {p} : proc'[u] = proc[u]
  BY DEF IInv, Types, Become
<1>2. ASSUME NEW u \in Pids, proc'[u].pc = "filling" PROVE proc'[u].slot # s
  <2>1. u # p /\ proc[u].pc \in Placed /\ proc'[u] = proc[u]
    BY <1>1, <1>2 DEF Placed
  <2>q. QED BY <2>1, PlacedAt
<1>3. ~Live(s)'
  BY <1>1, <1>2 DEF Live
<1>4. x.gen <= x.gen
  BY DEF Entries
<1>q. QED BY <1>3, <1>4 DEF Harmless

\* A client that leaves is accounted for once and erased from its slot.
LEMMA AccumulateKeeps ==
    ASSUME IInv, NEW p \in Pids, Accumulate(p)
    PROVE  IInv'
<1>1. /\ proc[p].pc = "leaving" /\ slot' = [slot EXCEPT ![proc[p].slot] = Wiped(slot[proc[p].slot])]
      /\ Become(p, [proc[p] EXCEPT !.pc = "releasing"]) /\ Accounted(slot[proc[p].slot].pay.id)
      /\ UNCHANGED <<admission, guard, blocked, pipe, conns, next, born, asked, granted, expelled>>
  BY DEF Accumulate, Goto, locks
<1>2. proc[p] \in Processes /\ proc[p].pc \in Placed /\ conns[p] \in SUBSET Registrations
  BY <1>1, Known DEF Placed
<1>3. PICK s \in Slots : /\ s = proc[p].slot /\ slot[s] \in Entries /\ SlotRight(s) /\ slot[s].owner = p
                         /\ ~slot[s].active
  BY <1>2, PlacedAt
<1>4. PICK o \in Entries : o = slot[s]
  BY <1>3
<1>a. PICK x : x = Wiped(o)
  OBVIOUS
<1>5. /\ x \in Entries /\ x.owner = p /\ ~x.active /\ x.gen = o.gen /\ x.disc = 0 /\ x.ver = 0 /\ x.pay = NoPay
      /\ NoPay.id = 0 /\ NoPay.a = 0 /\ NoPay.b = 0
  <2>1. NoPay \in Payloads /\ NoPay.id = 0 /\ NoPay.a = 0 /\ NoPay.b = 0
    BY DEF NoPay, Payloads
  <2>2. x = [o EXCEPT !.pay = NoPay, !.disc = 0, !.ver = 0]
    BY <1>a DEF Wiped
  <2>q. QED BY <1>3, <1>4, <2>1, <2>2 DEF Entries
<1>b. PICK t : t = [proc[p] EXCEPT !.pc = "releasing"]
  OBVIOUS
<1>6. /\ t \in Processes /\ t.pc = "releasing" /\ t.slot = s /\ t.who = proc[p].who /\ t.at = proc[p].at
      /\ t.sweep = proc[p].sweep /\ t.todo = proc[p].todo
  BY <1>2, <1>3, <1>b DEF Processes, Points, Placed
<1>7. Become(p, t) /\ slot' = [slot EXCEPT ![s] = x]
  BY <1>1, <1>3, <1>4, <1>a, <1>b
<1>8. slot'[s] = x /\ \A u \in Slots \ {s} : slot'[u] = slot[u]
  BY <1>7 DEF IInv, Types
<1>c. PICK i : i = o.pay.id
  OBVIOUS
<1>d. PICK d : d = IF i \in Clients THEN [credit EXCEPT ![i] = credit[i] + 1] ELSE credit
  OBVIOUS
<1>9. credit' = d
  BY <1>1, <1>3, <1>4, <1>c, <1>d DEF Accounted
<1>10. i \in Clients => i # 0 /\ born[i] = <<s, o.gen>> /\ credit[i] = 0
  BY <1>3, <1>4, <1>c, Constants DEF SlotRight
<1>11. d \in [Clients -> 0..1] /\ \A c \in Clients : c # i => d[c] = credit[c]
  BY <1>10, <1>d DEF IInv, Types
<1>12. s # 0
  BY Constants
<1>13. /\ proc[p].pc \notin Gone \union Writing
       /\ t.pc \in Placed /\ t.pc \notin Gone \union Writing \union {"idle", "filling", "reserving"}
       /\ t.pc \notin Entering /\ t.pc \notin {"numbering", "filling", "publishing"}
       /\ t.pc \notin Reading /\ t.pc \notin Locked
       /\ t.pc \notin Versioned /\ t.pc \notin Copied /\ t.pc \notin Checked /\ t.pc \notin Accepted
  BY <1>1, <1>6 DEF Gone, Writing, Placed, Entering, Locked, Reading, Versioned, Copied, Checked, Accepted
<1>14. Serves(p)' /\ Owns(p, t)' /\ Writes(p, t)' /\ Pending(p)'
  <2>1. t.pc \in Placed /\ t.slot = s /\ x.owner = p /\ ~x.active
    BY <1>5, <1>6, <1>13
  <2>2. conns' = conns /\ UNCHANGED <<pipe, granted>> /\ ~slot[s].active /\ proc[p].slot = s
    BY <1>1, <1>3
  <2>3. t.pc \notin Gone \union Writing \union {"idle"} /\ proc[p].pc \notin Gone \union Writing
    BY <1>13
  <2>q. QED BY <1>6, <1>7, <2>1, <2>2, <2>3, ApartFromConnections
<1>15. PICK b \in [Clients -> ({0} \union Slots) \X Nat] : b = born
  BY DEF IInv, Types
<1>16. born' = b /\ NumbersStay(b)
  BY <1>1, <1>15 DEF NumbersStay
<1>17. \A q \in Pids \ {p} : Reads(proc[q])'
  <2>1. \A q \in Pids \ {p} : Harmless(proc[q], slot[s], x, Live(s), Live(s)')
    BY <1>2, <1>3, <1>4, <1>5, <1>6, <1>7, ErasedIsHarmless
  <2>q. QED BY <1>5, <1>6, <1>7, <1>16, <2>1, OthersRead
<1>18. \A q \in Pids \ {p} : Apart(t, proc[q]) /\ Apart(proc[q], t)
  BY <1>6, <1>13, OwnApart DEF Gone
<1>19. \A u \in Slots : SlotRight(u)'
  <2>1. \A c \in Clients : born[c] # <<0, 0>> => b[c] = born[c]
    BY <1>15
  <2>2. \A c \in Clients : born[c] # <<0, 0>> /\ born[c][1] # s => d[c] = credit[c]
    BY <1>10, <1>11
  <2>3. \A u \in Slots \ {s} : SlotRight(u)'
    BY <1>1, <1>7, <1>9, <1>16, <2>1, <2>2, OtherSlots
  <2>4. SlotRight(s)'
    BY <1>5, <1>8 DEF SlotRight
  <2>q. QED BY <2>3, <2>4
<1>20. ASSUME NEW c \in Clients PROVE BornRight(c)' /\ GrantedRight(c)'
  <2>1. BornRight(c) /\ GrantedRight(c) /\ born[c] \in ({0} \union Slots) \X Nat
    BY DEF IInv, Types
  <2>2. \A u \in Slots : slot'[u].gen = slot[u].gen
    BY <1>4, <1>5, <1>8
  <2>3. born[c][1] # 0 => born[c][1] \in Slots
    BY <2>1
  <2>4. ~(c < next) => d[c] = 0
    BY <1>10, <1>11, <1>12, <2>1 DEF BornRight
  <2>5. BornRight(c)'
    BY <1>1, <1>9, <2>1, <2>2, <2>3, <2>4 DEF BornRight
  <2>6. proc'[p] = t /\ \A q \in Pids \ {p} : proc'[q] = proc[q]
    BY <1>7 DEF IInv, Types, Become
  <2>7. GrantedRight(c)'
    BY <1>1, <1>13, <2>1, <2>6 DEF GrantedRight
  <2>q. QED BY <2>5, <2>7
<1>21. EntrantsStay(p, b, d)
  <2>1. SUFFICES ASSUME NEW q \in Pids \ {p}, proc[q].pc \in Entering \union {"filling"}
                 PROVE  d[proc[q].who] = credit[proc[q].who]
    BY <1>15 DEF EntrantsStay
  <2>2. Registers(proc[q])
    BY Known
  <2>3. proc[q].who \in Clients
    BY <2>1, <2>2 DEF Registers
  <2>4. CASE proc[q].pc \in Entering
    <3>1. born[proc[q].who] = <<0, 0>>
      BY <2>2, <2>4 DEF Registers
    <3>q. QED BY <1>10, <1>11, <1>12, <2>3, <3>1
  <2>5. CASE proc[q].pc = "filling"
    <3>1. proc[q].slot # s
      BY <1>2, <1>3, <2>5, PlacedAt DEF Placed
    <3>2. born[proc[q].who] = <<proc[q].slot, slot[proc[q].slot].gen>>
      BY <2>2, <2>5 DEF Registers
    <3>q. QED BY <1>10, <1>11, <2>3, <3>1, <3>2
  <2>q. QED BY <2>1, <2>4, <2>5
<1>22. Admits(p, t)' /\ Counted(t)' /\ Reads(t)' /\ Asks(t)' /\ Registers(t)'
  <2>1. Admits(p, t)' /\ Counted(t)' /\ Registers(t)'
    BY <1>13 DEF Admits, Counted, Gone, Registers
  <2>2. Reads(t)' /\ Asks(t)'
    BY <1>6, <1>13 DEF Reads, Asks
  <2>q. QED BY <2>1, <2>2
<1>23. Cardinality(Reserved') <= MaxClients
  BY <1>3, <1>7, NoMoreReserved
<1>24. expelled' \subseteq asked /\ conns' = [conns EXCEPT ![p] = conns[p]]
  BY <1>1 DEF IInv, Types
<1>25. slot[s].owner \in {0, p} /\ x.owner \in {0, p} /\ slot[s].owner = p
  BY <1>3, <1>5
<1>26. UNCHANGED <<admission, guard, blocked, pipe, next, asked, granted>>
  BY <1>1
<1>27. \A q \in Pids \ {p} : Reads(proc[q])' /\ Apart(t, proc[q]) /\ Apart(proc[q], t)
  BY <1>17, <1>18
<1>28. t \in Processes /\ x \in Entries /\ d \in [Clients -> 0..1] /\ conns[p] \in SUBSET Registrations
  BY <1>2, <1>5, <1>6, <1>11
<1>29. \A c \in Clients : BornRight(c)' /\ GrantedRight(c)'
  BY <1>20
<1>q. QED
  BY <1>7, <1>9, <1>14, <1>15, <1>16, <1>19, <1>21, <1>22, <1>23, <1>24, <1>25, <1>26, <1>27, <1>28, <1>29,
     OwnSlotKeeps

\* A slot is shown to others when it names its client.
LEMMA PublishKeeps ==
    ASSUME IInv, NEW p \in Pids, Publish(p)
    PROVE  IInv'
<1>1. /\ proc[p].pc = "publishing" /\ slot' = [slot EXCEPT ![proc[p].slot].active = TRUE]
      /\ conns' = [conns EXCEPT ![p] = conns[p] \union {[who |-> proc[p].who, slot |-> proc[p].slot]}]
      /\ Become(p, [proc[p] EXCEPT !.pc = "telling"])
      /\ UNCHANGED <<admission, guard, blocked, pipe, next, born, credit, asked, granted, expelled>>
  BY DEF Publish, Goto, locks, history
<1>2. /\ proc[p] \in Processes /\ Registers(proc[p]) /\ proc[p].pc \in Placed /\ conns[p] \in SUBSET Registrations
      /\ Serves(p) /\ Owns(p, proc[p]) /\ Writes(p, proc[p]) /\ Pending(p) /\ proc[p].todo \subseteq conns[p]
  BY <1>1, Known DEF Placed
<1>3. PICK s \in Slots : /\ s = proc[p].slot /\ slot[s] \in Entries /\ SlotRight(s) /\ slot[s].owner = p
                         /\ ~slot[s].active
  BY <1>2, PlacedAt
<1>4. PICK o \in Entries : o = slot[s]
  BY <1>3
<1>5. PICK w \in Clients : w = proc[p].who /\ o.pay.id = w /\ o.ver = 0 /\ w # 0
  BY <1>1, <1>2, <1>3, <1>4, Constants DEF Registers
<1>6. w \notin granted
  <2>1. GrantedRight(w)
    BY DEF IInv
  <2>q. QED BY <1>1, <1>5, <2>1 DEF GrantedRight
<1>a. PICK x : x = [o EXCEPT !.active = TRUE]
  OBVIOUS
<1>7. /\ x \in Entries /\ x.owner = p /\ x.active /\ x.gen = o.gen /\ x.disc = o.disc /\ x.ver = o.ver
      /\ x.pay = o.pay
  BY <1>3, <1>4, <1>a DEF Entries
<1>b. PICK t : t = [proc[p] EXCEPT !.pc = "telling"]
  OBVIOUS
<1>8. /\ t \in Processes /\ t.pc = "telling" /\ t.slot = s /\ t.who = w /\ t.at = proc[p].at
      /\ t.sweep = proc[p].sweep /\ t.todo = proc[p].todo
  BY <1>2, <1>3, <1>5, <1>b DEF Processes, Points, Placed
<1>c. PICK e : e = [who |-> w, slot |-> s]
  OBVIOUS
<1>9. e \in Registrations /\ e.who = w /\ e.slot = s
  BY <1>c DEF Registrations
<1>d. PICK k : k = conns[p] \union {e}
  OBVIOUS
<1>10. /\ Become(p, t) /\ slot' = [slot EXCEPT ![s] = x] /\ conns' = [conns EXCEPT ![p] = k]
       /\ k \in SUBSET Registrations
  BY <1>1, <1>2, <1>3, <1>4, <1>5, <1>9, <1>a, <1>b, <1>c, <1>d
<1>11. /\ slot'[s] = x /\ (\A u \in Slots \ {s} : slot'[u] = slot[u]) /\ proc'[p] = t /\ conns'[p] = k
  BY <1>10 DEF IInv, Types, Become
<1>12. \A c \in conns[p] : c.slot \in Slots /\ c.slot # s /\ slot'[c.slot] = slot[c.slot]
  BY <1>2, <1>3, <1>11 DEF Serves, Registrations
<1>13. /\ proc[p].pc \notin Gone \union Writing /\ t.pc \notin Placed /\ t.pc \notin Gone \union Writing
       /\ t.pc \notin Reading /\ t.pc \notin Locked /\ t.pc \notin Entering
  BY <1>1, <1>8 DEF Gone, Writing, Placed, Entering, Locked, Reading, Versioned, Copied, Checked, Accepted
<1>14. Serves(p)'
  <2>1. ASSUME NEW c \in k
        PROVE  /\ slot'[c.slot].owner = p /\ slot'[c.slot].active /\ slot'[c.slot].pay.id = c.who
               /\ \A f \in k : f.slot = c.slot => f = c
    <3>1. CASE c = e
      BY <1>3, <1>5, <1>7, <1>9, <1>11, <1>12, <1>d, <3>1
    <3>2. CASE c \in conns[p]
      BY <1>2, <1>9, <1>12, <1>d, <3>2 DEF Serves
    <3>q. QED BY <1>d, <3>1, <3>2
  <2>q. QED BY <1>11, <2>1 DEF Serves
<1>15. Owns(p, t)'
  <2>1. ASSUME NEW u \in Slots, slot'[u].owner = p PROVE \E c \in k : c.slot = u
    BY <1>2, <1>3, <1>9, <1>11, <1>13, <1>d, <2>1 DEF Owns
  <2>2. t.pc \notin {"unborn", "reaped"} /\ t.pc # "idle" /\ t.todo \subseteq k
    BY <1>2, <1>8, <1>d
  <2>q. QED BY <1>11, <1>13, <2>1, <2>2 DEF Owns
<1>16. Writes(p, t)'
  <2>1. 0 % 2 = 0
    OBVIOUS
  <2>2. \A c \in k : slot'[c.slot].ver % 2 = 0
    <3>1. slot'[e.slot].ver % 2 = 0
      BY <1>5, <1>7, <1>9, <1>11, <2>1
    <3>2. \A c \in conns[p] : slot'[c.slot].ver % 2 = 0
      BY <1>2, <1>12, <1>13 DEF Writes
    <3>q. QED BY <1>d, <3>1, <3>2
  <2>3. t.pc \notin {"writing b", "written"}
    BY <1>8
  <2>q. QED BY <1>11, <1>13, <2>2, <2>3 DEF Writes
<1>17. Pending(p)'
  <2>1. \A c \in conns[p] : c.who \in granted /\ Wanted(c) =>
            "disconnect" \in pipe[proc[p].at] \/ proc[p].sweep \/ c \in proc[p].todo
    BY <1>2, <1>13 DEF Pending, Alive, Gone
  <2>2. \A c \in conns[p] : c.who \in granted' /\ Wanted(c)' =>
            "disconnect" \in pipe'[t.at] \/ t.sweep \/ c \in t.todo
    BY <1>1, <1>8, <1>12, <2>1 DEF Wanted
  <2>3. e.who \notin granted'
    BY <1>1, <1>6, <1>9
  <2>q. QED BY <1>11, <1>d, <2>2, <2>3 DEF Pending
<1>18. SlotRight(s)'
  BY SMTT(30), <1>1, <1>3, <1>4, <1>7, <1>11, Constants DEF SlotRight
<1>19. Registers(t)' /\ Admits(p, t)'
  BY <1>8, <1>13 DEF Registers, Admits
<1>20. \A q \in Pids \ {p} : proc[q].pc \in Versioned /\ proc[q].slot = s =>
                 Harmless(proc[q], slot[s], x, Live(s), Live(s)')
  <2>1. Live(s)
    BY <1>4, <1>5 DEF Live
  <2>2. o.gen <= o.gen
    BY DEF Entries
  <2>q. QED BY <1>4, <1>7, <2>1, <2>2 DEF Harmless
<1>21. Cardinality(Reserved') <= MaxClients
  BY <1>3, <1>10, NoMoreReserved
<1>22. expelled' \subseteq asked
  BY <1>1 DEF IInv
<1>23. /\ slot[s].owner \in {0, p} /\ x.owner \in {0, p} /\ slot[s].owner = p /\ x.gen = slot[s].gen
       /\ t.pc \notin {"filling", "reserving"} /\ t.pc # "publishing" /\ proc[p].pc \notin Gone
  BY <1>3, <1>4, <1>7, <1>8, <1>13
<1>q. QED
  BY <1>1, <1>7, <1>8, <1>10, <1>13, <1>14, <1>15, <1>16, <1>17, <1>18, <1>19, <1>20, <1>21, <1>22, <1>23, OwnSlotStep

\* A connection is closed, by itself or on request.
LEMMA DeactivateKeeps ==
    ASSUME IInv, NEW p \in Pids, proc[p].pc \in {"idle", "sweep"}, NEW c \in conns[p], Deactivate(p, c),
           UNCHANGED <<locks, pipe, next, born, credit, asked, granted>>, expelled' \subseteq asked
    PROVE  IInv'
<1>1. /\ proc[p] \in Processes /\ conns[p] \in SUBSET Registrations /\ Serves(p) /\ Owns(p, proc[p])
      /\ Writes(p, proc[p]) /\ Pending(p) /\ proc[p].todo \subseteq conns[p]
  BY Known
<1>2. PICK s \in Slots, w \in Clients : s = c.slot /\ w = c.who
  BY <1>1 DEF Registrations
<1>3. slot[s].owner = p /\ slot[s].active /\ slot[s].pay.id = w /\ w # 0
  BY <1>1, <1>2, Constants DEF Serves
<1>4. PICK o \in Entries : o = slot[s] /\ SlotRight(s)
  BY DEF IInv, Types
<1>a. PICK x : x = [o EXCEPT !.active = FALSE]
  OBVIOUS
<1>5. /\ x \in Entries /\ x.owner = p /\ ~x.active /\ x.gen = o.gen /\ x.disc = o.disc /\ x.ver = o.ver
      /\ x.pay = o.pay
  BY <1>3, <1>4, <1>a DEF Entries
<1>b. PICK t : t = [proc[p] EXCEPT !.pc = "leaving", !.slot = s, !.who = w, !.todo = proc[p].todo \ {c}]
  OBVIOUS
<1>6. /\ t \in Processes /\ t.pc = "leaving" /\ t.slot = s /\ t.who = w /\ t.at = proc[p].at
      /\ t.sweep = proc[p].sweep /\ t.todo = proc[p].todo \ {c}
  BY <1>1, <1>b DEF Processes, Points, Placed
<1>c. PICK k : k = conns[p] \ {c}
  OBVIOUS
<1>7. /\ Become(p, t) /\ slot' = [slot EXCEPT ![s] = x] /\ conns' = [conns EXCEPT ![p] = k]
      /\ k \in SUBSET Registrations
  BY <1>1, <1>2, <1>3, <1>4, <1>a, <1>b, <1>c DEF Deactivate
<1>8. /\ slot'[s] = x /\ (\A u \in Slots \ {s} : slot'[u] = slot[u]) /\ proc'[p] = t /\ conns'[p] = k
  BY <1>7 DEF IInv, Types, Become
<1>9. UNCHANGED <<admission, guard, blocked, pipe, next, born, credit, asked, granted>>
  BY DEF locks
<1>10. \A f \in k : f \in conns[p] /\ f.slot \in Slots /\ f.slot # s /\ slot'[f.slot] = slot[f.slot]
  BY <1>1, <1>2, <1>8, <1>c DEF Serves, Registrations
<1>11. /\ proc[p].pc \notin Gone \union Writing \union Placed /\ t.pc \in Placed
       /\ t.pc \notin Gone \union Writing \union {"idle"}
       /\ t.pc \notin Reading /\ t.pc \notin Locked /\ t.pc \notin Entering
  BY <1>6 DEF Gone, Writing, Placed, Entering, Locked, Reading, Versioned, Copied, Checked, Accepted
<1>12. Serves(p)'
  BY <1>1, <1>8, <1>10 DEF Serves
<1>13. Owns(p, t)'
  <2>1. ASSUME NEW u \in Slots, slot'[u].owner = p PROVE (\E f \in k : f.slot = u) \/ t.slot = u
    BY <1>1, <1>2, <1>6, <1>8, <1>11, <1>c, <2>1 DEF Owns
  <2>2. t.pc \notin {"unborn", "reaped"} /\ t.pc # "idle" /\ t.todo \subseteq k
    BY <1>1, <1>6, <1>c
  <2>q. QED BY <1>5, <1>6, <1>8, <1>11, <2>1, <2>2 DEF Owns
<1>14. Writes(p, t)'
  <2>1. \A f \in k : slot'[f.slot].ver % 2 = 0
    BY <1>1, <1>10, <1>11 DEF Writes
  <2>2. t.pc \notin {"writing b", "written"}
    BY <1>6
  <2>q. QED BY <1>8, <1>11, <2>1, <2>2 DEF Writes
<1>15. Pending(p)'
  <2>1. \A f \in conns[p] : f.who \in granted /\ Wanted(f) =>
            "disconnect" \in pipe[proc[p].at] \/ proc[p].sweep \/ f \in proc[p].todo
    BY <1>1, <1>11 DEF Pending, Alive, Gone
  <2>2. \A f \in k : f.who \in granted' /\ Wanted(f)' =>
            "disconnect" \in pipe'[t.at] \/ t.sweep \/ f \in t.todo
    BY <1>6, <1>9, <1>10, <1>c, <2>1 DEF Wanted
  <2>q. QED BY <1>8, <2>2 DEF Pending
<1>16. SlotRight(s)'
  BY <1>4, <1>5, <1>8, <1>9 DEF SlotRight
<1>17. Registers(t)' /\ Admits(p, t)'
  BY <1>6, <1>11 DEF Registers, Admits
<1>18. \A q \in Pids \ {p} : proc[q].pc \in Versioned /\ proc[q].slot = s =>
                 Harmless(proc[q], slot[s], x, Live(s), Live(s)')
  <2>1. Live(s)
    BY <1>3 DEF Live
  <2>2. o.gen <= o.gen
    BY DEF Entries
  <2>q. QED BY <1>4, <1>5, <2>1, <2>2 DEF Harmless
<1>19. Cardinality(Reserved') <= MaxClients
  BY <1>3, <1>7, NoMoreReserved
<1>20. /\ slot[s].owner \in {0, p} /\ x.owner \in {0, p} /\ slot[s].owner = p /\ x.gen = slot[s].gen
       /\ t.pc \notin {"filling", "reserving"} /\ t.pc # "publishing" /\ proc[p].pc \notin Gone
  BY <1>3, <1>4, <1>5, <1>6, <1>11
<1>q. QED
  BY <1>5, <1>6, <1>7, <1>9, <1>11, <1>12, <1>13, <1>14, <1>15, <1>16, <1>17, <1>18, <1>19, <1>20, OwnSlotStep

\* A client ends by itself.
LEMMA LeaveKeeps ==
    ASSUME IInv, NEW p \in Pids, Leave(p)
    PROVE  IInv'
<1>1. PICK c \in conns[p] : Deactivate(p, c)
  BY DEF Leave
<1>2. /\ proc[p].pc \in {"idle", "sweep"} /\ UNCHANGED <<locks, pipe, next, born, credit, asked, granted>>
      /\ expelled' \subseteq asked
  BY DEF Leave, Idle, history, IInv
<1>q. QED BY <1>1, <1>2, DeactivateKeeps

\* A request in a connection's slot was made for that connection's client.
LEMMA WantedWasAsked ==
    ASSUME IInv, NEW p \in Pids, NEW c \in conns[p], Wanted(c)
    PROVE  c.who \in asked
<1>1. /\ conns[p] \subseteq Registrations /\ Serves(p)
  BY Known
<1>2. PICK s \in Slots, w \in Clients : s = c.slot /\ w = c.who
  BY <1>1 DEF Registrations
<1>3. /\ slot[s].pay.id = w /\ w # 0 /\ SlotRight(s) /\ BornRight(w) /\ s # 0
      /\ slot[s].disc # 0 /\ slot[s].disc = slot[s].gen
  BY <1>1, <1>2, Constants DEF Serves, Wanted, IInv
<1>4. PICK a \in asked : born[a] = <<s, slot[s].disc>>
  BY <1>3 DEF SlotRight
<1>5. born[w] = <<s, slot[s].gen>>
  BY <1>3 DEF SlotRight
<1>6. a \in Clients /\ born[w] = born[a] /\ born[w][1] # 0
  BY <1>3, <1>4, <1>5 DEF IInv, Types
<1>7. w = a
  BY <1>3, <1>6 DEF BornRight
<1>q. QED BY <1>2, <1>4, <1>7

\* A process goes through its connections and closes those whose slots bear a request.
LEMMA SweepKeeps ==
    ASSUME IInv, NEW p \in Pids, Sweep(p)
    PROVE  IInv'
<1>1. proc[p].pc = "sweep" /\ UNCHANGED <<locks, pipe, next, born, credit, updates, asked, granted>>
  BY DEF Sweep
<1>2. proc[p] \in Processes /\ proc[p].todo \subseteq conns[p] /\ conns[p] \subseteq Registrations
  BY Known
<1>3. proc[p].pc \notin Gone \union Writing \union Placed
  BY <1>1 DEF Gone, Writing, Placed
<1>4. CASE /\ proc[p].sweep /\ Become(p, [proc[p] EXCEPT !.sweep = FALSE, !.todo = conns[p]])
           /\ UNCHANGED <<slot, conns, expelled>>
  <2>1. PICK t : t = [proc[p] EXCEPT !.sweep = FALSE, !.todo = conns[p]]
    OBVIOUS
  <2>2. t \in Processes /\ t.pc = "sweep" /\ t.at = proc[p].at /\ t.todo = conns[p] /\ Become(p, t)
    BY <1>1, <1>2, <1>4, <2>1 DEF Processes
  <2>3. /\ t.pc \notin Gone \union Writing \union Placed /\ t.pc \notin Entering /\ t.pc \notin Reading
        /\ t.pc \notin Versioned /\ t.pc \notin Copied /\ t.pc \notin Checked /\ t.pc \notin Accepted
    BY <2>2 DEF Gone, Writing, Placed, Entering, Reading, Versioned, Copied, Checked, Accepted
  <2>4. Counted(t) /\ Reads(t)
    BY <2>2, <2>3 DEF Counted, Reads
  <2>5. Fits(p, t)
    BY <1>3, <2>2, <2>3, <2>4, FreeFits
  <2>6. UNCHANGED <<slot, locks, pipe, conns, history>>
    BY <1>1, <1>4 DEF history
  <2>q. QED BY <1>1, <2>2, <2>5, <2>6, SweepPasses
<1>5. CASE Done(p) /\ UNCHANGED <<slot, conns, expelled>>
  <2>1. Rest0' /\ UNCHANGED <<slot, conns, born, credit, next, asked, granted, expelled, admission, pipe>>
    BY <1>1, <1>5 DEF IInv, Rest0, locks
  <2>q. QED BY <1>3, <1>5, <2>1, DoneKeeps
<1>6. ASSUME NEW c \in proc[p].todo, ~proc[p].sweep, ~Wanted(c), Become(p, Rest(p, proc[p].todo \ {c})),
             UNCHANGED <<slot, conns, expelled>>
      PROVE  IInv'
  <2>1. PICK rest : rest = proc[p].todo \ {c}
    OBVIOUS
  <2>2. rest \in SUBSET proc[p].todo
    BY <2>1
  <2>3. PICK t : t = Rest(p, rest)
    OBVIOUS
  <2>4. /\ t \in Processes /\ t.pc \in {"idle", "sweep"} /\ t.todo = rest /\ t.at = proc[p].at /\ Fits(p, t)
    BY <1>3, <2>2, <2>3, RestFits
  <2>5. Become(p, t) /\ UNCHANGED <<slot, locks, pipe, conns, history>>
    BY <1>1, <1>6, <2>1, <2>3 DEF history
  <2>6. \A f \in conns[p] : Wanted(f) /\ (proc[p].sweep \/ f \in proc[p].todo) => t.sweep \/ f \in t.todo
    BY <1>6, <2>1, <2>4
  <2>q. QED BY <1>1, <2>4, <2>5, <2>6, SweepPasses
<1>7. ASSUME NEW c \in proc[p].todo, Wanted(c), Deactivate(p, c), expelled' = expelled \union {c.who}
      PROVE  IInv'
  <2>1. c \in conns[p]
    BY <1>2
  <2>2. c.who \in asked
    BY <1>7, <2>1, WantedWasAsked
  <2>3. expelled' \subseteq asked
    BY <1>7, <2>2 DEF IInv
  <2>q. QED BY <1>1, <1>7, <2>1, <2>3, DeactivateKeeps
<1>q. QED BY <1>4, <1>5, <1>6, <1>7 DEF Sweep
-----------------------------------------------------------------------------
\* A version that is bumped changes its parity.
LEMMA Parity ==
    ASSUME NEW v \in Nat
    PROVE  (v % 2 = 0 => (v + 1) % 2 = 1) /\ (v % 2 = 1 => (v + 1) % 2 = 0)
OBVIOUS

\* What a worker's step leaves its slot in while it writes statistics.
StillWrites(t, s, o, x) ==
    /\ t.pc \in Writing => t.slot = s /\ x.ver % 2 = 1
    /\ t.pc \notin Writing => x.ver % 2 = 0 /\ x.pay.a = x.pay.b
    /\ t.pc = "writing b" => x.pay.a = 1
    /\ t.pc = "written" => x.pay.a = x.pay.b
    /\ (o.ver <= x.ver /\ x.ver % 2 = 1) \/ o.ver < x.ver

\* A step of a worker that brings a connection's statistics up to date.
LEMMA WriteStep ==
    ASSUME IInv, NEW p \in Pids, proc[p].pc \in Writing \union {"idle"}, NEW t \in Processes, Become(p, t),
           t.pc \in Writing \union {"telling", "idle", "sweep"},
           t.at = proc[p].at, t.sweep = proc[p].sweep, t.todo = proc[p].todo,
           t.pc = "idle" => t.who = 0 /\ ~t.sweep /\ t.todo = {},
           NEW c \in conns[p], NEW s \in Slots, s = c.slot, proc[p].pc \in Writing => proc[p].slot = s,
           NEW x \in Entries, slot' = [slot EXCEPT ![s] = x], x.owner = slot[s].owner, x.active = slot[s].active,
           x.gen = slot[s].gen, x.disc = slot[s].disc, x.pay.id = slot[s].pay.id,
           UNCHANGED <<locks, pipe, conns, next, born, credit, asked, granted, expelled>>,
           StillWrites(t, s, slot[s], x)
    PROVE  IInv'
<1>1. /\ conns[p] \in SUBSET Registrations /\ Serves(p) /\ Owns(p, proc[p]) /\ Writes(p, proc[p]) /\ Pending(p)
      /\ proc[p].todo \subseteq conns[p]
  BY Known
<1>2. PICK o \in Entries : o = slot[s] /\ SlotRight(s)
  BY DEF IInv, Types
<1>3. o.owner = p /\ o.active /\ o.pay.id = c.who /\ c.who # 0
  BY <1>1, <1>2, Constants DEF Serves, Registrations
<1>4. /\ slot'[s] = x /\ (\A u \in Slots \ {s} : slot'[u] = slot[u]) /\ proc'[p] = t /\ conns' = conns
  BY DEF IInv, Types, Become
<1>5. /\ proc[p].pc \notin Gone \union Placed /\ t.pc \notin Placed \union Gone
      /\ t.pc \notin Reading /\ t.pc \notin Locked /\ t.pc \notin Entering
      /\ t.pc \notin {"filling", "reserving"} /\ t.pc # "publishing"
  BY DEF Gone, Writing, Placed, Entering, Locked, Reading, Versioned, Copied, Checked, Accepted
<1>6. \A f \in conns[p] : f.slot \in Slots /\ (f.slot # s => slot'[f.slot] = slot[f.slot])
  BY <1>1, <1>4 DEF Registrations
<1>7. UNCHANGED <<admission, guard, blocked, pipe, next, born, credit, asked, granted>>
  BY DEF locks
<1>8. Serves(p)'
  <2>1. ASSUME NEW f \in conns[p]
        PROVE  /\ slot'[f.slot].owner = p /\ slot'[f.slot].active /\ slot'[f.slot].pay.id = f.who
               /\ \A d \in conns[p] : d.slot = f.slot => d = f
    <3>1. /\ slot[f.slot].owner = p /\ slot[f.slot].active /\ slot[f.slot].pay.id = f.who
          /\ \A d \in conns[p] : d.slot = f.slot => d = f
      BY <1>1 DEF Serves
    <3>2. CASE f.slot = s
      BY <1>2, <1>4, <3>1, <3>2
    <3>3. CASE f.slot # s
      BY <1>6, <3>1, <3>3
    <3>q. QED BY <3>2, <3>3
  <2>q. QED BY <1>4, <2>1 DEF Serves
<1>9. Owns(p, t)'
  <2>1. \A u \in Slots : slot'[u].owner = slot[u].owner
    BY <1>4
  <2>2. \A u \in Slots : slot'[u].owner = p => \E f \in conns[p] : f.slot = u
    BY <1>1, <1>5, <2>1 DEF Owns
  <2>3. t.pc \notin {"unborn", "reaped"} /\ t.todo \subseteq conns[p]
    BY <1>1, <1>5 DEF Gone
  <2>4. t.pc = "idle" => t.who = 0 /\ ~t.sweep /\ t.todo = {}
    OBVIOUS
  <2>q. QED BY <1>4, <1>5, <2>2, <2>3, <2>4 DEF Owns
<1>10. Writes(p, t)'
  <2>1. ASSUME NEW f \in conns[p] PROVE slot'[f.slot].ver % 2 = 0 \/ (t.pc \in Writing /\ t.slot = f.slot)
    <3>1. CASE f.slot = s
      <4>1. slot'[f.slot].ver = x.ver
        BY <1>4, <3>1
      <4>q. QED BY <3>1, <4>1 DEF StillWrites
    <3>2. CASE f.slot # s
      <4>1. slot[f.slot].ver % 2 = 0 /\ slot'[f.slot] = slot[f.slot]
        BY <1>1, <1>5, <1>6, <3>2 DEF Writes
      <4>q. QED BY <4>1
    <3>q. QED BY <3>1, <3>2
  <2>2. /\ t.pc \in Writing => t.slot = s /\ x.ver % 2 = 1
        /\ t.pc = "writing b" => t.slot = s /\ x.pay.a = 1
        /\ t.pc = "written" => t.slot = s /\ x.pay.a = x.pay.b
    BY DEF StillWrites, Writing
  <2>q. QED BY ZenonT(60), <1>4, <1>5, <2>1, <2>2 DEF Writes
<1>11. Pending(p)'
  <2>1. ASSUME NEW f \in conns[p] PROVE Wanted(f)' => Wanted(f)
    <3>1. CASE f.slot = s
      BY <1>4, <3>1 DEF Wanted
    <3>2. CASE f.slot # s
      BY <1>6, <3>2 DEF Wanted
    <3>q. QED BY <3>1, <3>2
  <2>2. \A f \in conns[p] : f.who \in granted /\ Wanted(f) =>
            "disconnect" \in pipe[proc[p].at] \/ proc[p].sweep \/ f \in proc[p].todo
    BY <1>1, <1>5 DEF Pending, Alive, Gone
  <2>q. QED BY <1>4, <1>7, <2>1, <2>2 DEF Pending
<1>12. SlotRight(s)'
  <2>1. x.ver % 2 = 0 => x.pay.a = x.pay.b
    <3>1. CASE t.pc \in Writing
      <4>1. PICK v \in Int : v = x.ver % 2
        BY DEF Entries
      <4>2. v = 1
        BY <3>1, <4>1 DEF StillWrites
      <4>q. QED BY <4>1, <4>2
    <3>2. CASE t.pc \notin Writing
      BY <3>2 DEF StillWrites
    <3>q. QED BY <3>1, <3>2
  <2>2. /\ x.pay.id # 0 => born[x.pay.id] = <<s, x.gen>> /\ credit[x.pay.id] = 0
        /\ x.active => x.owner # 0
        /\ x.disc # 0 => \E a \in asked : born[a] = <<s, x.disc>>
    BY <1>2 DEF SlotRight
  <2>q. QED BY <1>4, <1>7, <2>1, <2>2 DEF SlotRight
<1>13. Registers(t)' /\ Admits(p, t)'
  BY <1>5 DEF Registers, Admits, Placed, Gone
<1>14. \A q \in Pids \ {p} : proc[q].pc \in Versioned /\ proc[q].slot = s =>
                 Harmless(proc[q], slot[s], x, Live(s), Live(s)')
  <2>1. Live(s)
    BY <1>2, <1>3 DEF Live
  <2>2. o.gen \in Nat /\ o.gen = x.gen /\ o.active = x.active /\ o.pay.id = x.pay.id /\ o.pay.id # 0
    BY <1>2, <1>3 DEF Entries
  <2>3. (o.ver <= x.ver /\ x.ver % 2 = 1) \/ o.ver < x.ver
    BY <1>2 DEF StillWrites
  <2>q. QED BY <1>2, <2>1, <2>2, <2>3 DEF Harmless
<1>15. Cardinality(Reserved') <= MaxClients
  BY <1>2, <1>3, NoMoreReserved
<1>16. /\ slot[s].owner \in {0, p} /\ x.owner \in {0, p} /\ slot[s].owner = p
       /\ expelled' \subseteq asked /\ conns' = [conns EXCEPT ![p] = conns[p]] /\ proc[p].pc \notin Gone
  BY <1>2, <1>3, <1>5 DEF IInv, Types
<1>q. QED
  BY <1>1, <1>5, <1>7, <1>8, <1>9, <1>10, <1>11, <1>12, <1>13, <1>14, <1>15, <1>16, OwnSlotStep

\* Entries whose version or statistics are changed.
LEMMA Written ==
    ASSUME NEW o \in Entries
    PROVE  /\ LET x == [o EXCEPT !.ver = o.ver + 1]
              IN  /\ x \in Entries /\ x.owner = o.owner /\ x.active = o.active /\ x.gen = o.gen /\ x.disc = o.disc
                  /\ x.pay = o.pay /\ x.ver = o.ver + 1
           /\ LET x == [o EXCEPT !.pay.a = 1]
              IN  /\ x \in Entries /\ x.owner = o.owner /\ x.active = o.active /\ x.gen = o.gen /\ x.disc = o.disc
                  /\ x.pay.id = o.pay.id /\ x.pay.a = 1 /\ x.pay.b = o.pay.b /\ x.ver = o.ver
           /\ LET x == [o EXCEPT !.pay.b = 1]
              IN  /\ x \in Entries /\ x.owner = o.owner /\ x.active = o.active /\ x.gen = o.gen /\ x.disc = o.disc
                  /\ x.pay.id = o.pay.id /\ x.pay.a = o.pay.a /\ x.pay.b = 1 /\ x.ver = o.ver
<1>1. o.ver + 1 \in Nat
  BY DEF Entries
<1>2. o.pay \in Payloads
  BY DEF Entries
<1>3. PICK y : y = [o.pay EXCEPT !.a = 1]
  OBVIOUS
<1>4. y \in Payloads /\ y.id = o.pay.id /\ y.a = 1 /\ y.b = o.pay.b
  BY <1>2, <1>3 DEF Payloads
<1>5. PICK z : z = [o.pay EXCEPT !.b = 1]
  OBVIOUS
<1>6. z \in Payloads /\ z.id = o.pay.id /\ z.a = o.pay.a /\ z.b = 1
  BY <1>2, <1>5 DEF Payloads
<1>7. [o EXCEPT !.pay.a = 1] = [o EXCEPT !.pay = y] /\ [o EXCEPT !.pay.b = 1] = [o EXCEPT !.pay = z]
  BY <1>3, <1>5
<1>q. QED BY <1>1, <1>4, <1>6, <1>7 DEF Entries

\* Statistics of a connection, brought up to date from the first bump of the
\* version to the second.
LEMMA UpdateKeeps ==
    ASSUME IInv, NEW p \in Pids, Update(p)
    PROVE  IInv'
<1>1. /\ proc[p] \in Processes /\ Writes(p, proc[p]) /\ Serves(p) /\ Owns(p, proc[p])
      /\ conns[p] \in SUBSET Registrations /\ proc[p].todo \in SUBSET proc[p].todo
  BY Known
<1>2. UNCHANGED <<locks, pipe, conns, next, born, credit, asked, granted, expelled>>
  BY DEF Update
<1>3. ASSUME proc[p].pc \in Writing
      PROVE  \E c \in conns[p], s \in Slots : s = c.slot /\ proc[p].slot = s /\ slot[s].ver % 2 = 1
  BY <1>1, <1>3 DEF Writes
<1>4. ASSUME NEW c \in conns[p], Idle(p), slot' = [slot EXCEPT ![c.slot].ver = @ + 1],
             Become(p, [proc[p] EXCEPT !.pc = "writing a", !.slot = c.slot])
      PROVE  IInv'
  <2>1. PICK s \in Slots : s = c.slot
    BY <1>1 DEF Registrations
  <2>2. PICK o \in Entries : o = slot[s]
    BY DEF IInv, Types
  <2>3. PICK x : x = [o EXCEPT !.ver = o.ver + 1]
    OBVIOUS
  <2>4. /\ x \in Entries /\ x.owner = o.owner /\ x.active = o.active /\ x.gen = o.gen /\ x.disc = o.disc
        /\ x.pay = o.pay /\ x.ver = o.ver + 1
    BY <2>2, <2>3, Written
  <2>5. slot' = [slot EXCEPT ![s] = x]
    BY <1>4, <2>1, <2>2, <2>3 DEF IInv, Types
  <2>6. PICK t : t = [proc[p] EXCEPT !.pc = "writing a", !.slot = s]
    OBVIOUS
  <2>7. /\ t \in Processes /\ t.pc = "writing a" /\ t.slot = s /\ t.at = proc[p].at /\ t.sweep = proc[p].sweep
        /\ t.todo = proc[p].todo /\ Become(p, t)
    BY <1>1, <1>4, <2>1, <2>6 DEF Processes, Points, Writing
  <2>8. PICK v \in Nat : v = o.ver
    BY DEF Entries
  <2>9. v % 2 = 0
    BY <1>1, <1>4, <2>1, <2>2, <2>8 DEF Writes, Idle, Gone, Writing
  <2>10. StillWrites(t, s, slot[s], x)
    <3>1. o.ver < x.ver /\ x.ver % 2 = 1
      BY <2>4, <2>8, <2>9, Parity
    <3>q. QED BY <2>2, <2>7, <3>1 DEF StillWrites, Writing
  <2>11. proc[p].pc = "idle" /\ proc[p].pc \notin Writing
    BY <1>4 DEF Idle, Writing
  <2>12. /\ proc[p].pc \in Writing \union {"idle"} /\ t.pc \in Writing \union {"telling", "idle", "sweep"}
         /\ t.pc # "idle"
    BY <2>7, <2>11 DEF Writing
  <2>13. /\ x.owner = slot[s].owner /\ x.active = slot[s].active /\ x.gen = slot[s].gen /\ x.disc = slot[s].disc
         /\ x.pay.id = slot[s].pay.id
    BY <2>2, <2>4
  <2>q. QED BY <1>2, <2>1, <2>4, <2>5, <2>7, <2>10, <2>11, <2>12, <2>13, WriteStep
<1>5. ASSUME proc[p].pc = "writing a", slot' = [slot EXCEPT ![proc[p].slot].pay.a = 1], Goto(p, "writing b")
      PROVE  IInv'
  <2>1. PICK c \in conns[p], s \in Slots : s = c.slot /\ proc[p].slot = s /\ slot[s].ver % 2 = 1
    BY <1>3, <1>5 DEF Writing
  <2>2. PICK o \in Entries : o = slot[s]
    BY DEF IInv, Types
  <2>3. PICK x : x = [o EXCEPT !.pay.a = 1]
    OBVIOUS
  <2>4. /\ x \in Entries /\ x.owner = o.owner /\ x.active = o.active /\ x.gen = o.gen /\ x.disc = o.disc
        /\ x.pay.id = o.pay.id /\ x.pay.a = 1 /\ x.ver = o.ver
    BY <2>2, <2>3, Written
  <2>5. slot' = [slot EXCEPT ![s] = x]
    BY <1>5, <2>1, <2>2, <2>3 DEF IInv, Types
  <2>6. PICK t : t = [proc[p] EXCEPT !.pc = "writing b"]
    OBVIOUS
  <2>7. /\ t \in Processes /\ t.pc = "writing b" /\ t.slot = s /\ t.at = proc[p].at /\ t.sweep = proc[p].sweep
        /\ t.todo = proc[p].todo /\ Become(p, t)
    BY <1>1, <1>5, <2>1, <2>6 DEF Processes, Points, Writing, Goto
  <2>10. StillWrites(t, s, slot[s], x)
    <3>1. o.ver <= x.ver /\ x.ver % 2 = 1
      BY <2>1, <2>2, <2>4 DEF Entries
    <3>q. QED BY <2>2, <2>4, <2>7, <3>1 DEF StillWrites, Writing
  <2>12. /\ proc[p].pc \in Writing \union {"idle"} /\ t.pc \in Writing \union {"telling", "idle", "sweep"}
         /\ t.pc # "idle"
    BY <1>5, <2>7 DEF Writing
  <2>13. /\ x.owner = slot[s].owner /\ x.active = slot[s].active /\ x.gen = slot[s].gen /\ x.disc = slot[s].disc
         /\ x.pay.id = slot[s].pay.id
    BY <2>2, <2>4
  <2>q. QED BY <1>2, <2>1, <2>4, <2>5, <2>7, <2>10, <2>12, <2>13, WriteStep
<1>6. ASSUME proc[p].pc = "writing b", slot' = [slot EXCEPT ![proc[p].slot].pay.b = 1], Goto(p, "written")
      PROVE  IInv'
  <2>1. PICK c \in conns[p], s \in Slots : s = c.slot /\ proc[p].slot = s /\ slot[s].ver % 2 = 1
    BY <1>3, <1>6 DEF Writing
  <2>2. PICK o \in Entries : o = slot[s]
    BY DEF IInv, Types
  <2>3. PICK x : x = [o EXCEPT !.pay.b = 1]
    OBVIOUS
  <2>4. /\ x \in Entries /\ x.owner = o.owner /\ x.active = o.active /\ x.gen = o.gen /\ x.disc = o.disc
        /\ x.pay.id = o.pay.id /\ x.pay.a = o.pay.a /\ x.pay.b = 1 /\ x.ver = o.ver
    BY <2>2, <2>3, Written
  <2>5. slot' = [slot EXCEPT ![s] = x]
    BY <1>6, <2>1, <2>2, <2>3 DEF IInv, Types
  <2>6. PICK t : t = [proc[p] EXCEPT !.pc = "written"]
    OBVIOUS
  <2>7. /\ t \in Processes /\ t.pc = "written" /\ t.slot = s /\ t.at = proc[p].at /\ t.sweep = proc[p].sweep
        /\ t.todo = proc[p].todo /\ Become(p, t)
    BY <1>1, <1>6, <2>1, <2>6 DEF Processes, Points, Writing, Goto
  <2>10. StillWrites(t, s, slot[s], x)
    <3>1. o.ver <= x.ver /\ x.ver % 2 = 1
      BY <2>1, <2>2, <2>4 DEF Entries
    <3>2. o.pay.a = 1
      BY <1>1, <1>6, <2>1, <2>2 DEF Writes
    <3>q. QED BY <2>2, <2>4, <2>7, <3>1, <3>2 DEF StillWrites, Writing
  <2>12. /\ proc[p].pc \in Writing \union {"idle"} /\ t.pc \in Writing \union {"telling", "idle", "sweep"}
         /\ t.pc # "idle"
    BY <1>6, <2>7 DEF Writing
  <2>13. /\ x.owner = slot[s].owner /\ x.active = slot[s].active /\ x.gen = slot[s].gen /\ x.disc = slot[s].disc
         /\ x.pay.id = slot[s].pay.id
    BY <2>2, <2>4
  <2>q. QED BY <1>2, <2>1, <2>4, <2>5, <2>7, <2>10, <2>12, <2>13, WriteStep
<1>7. ASSUME proc[p].pc = "written", slot' = [slot EXCEPT ![proc[p].slot].ver = @ + 1],
             Goto(p, "telling") \/ Done(p)
      PROVE  IInv'
  <2>1. PICK c \in conns[p], s \in Slots : s = c.slot /\ proc[p].slot = s /\ slot[s].ver % 2 = 1
    BY <1>3, <1>7 DEF Writing
  <2>2. PICK o \in Entries : o = slot[s]
    BY DEF IInv, Types
  <2>3. PICK x : x = [o EXCEPT !.ver = o.ver + 1]
    OBVIOUS
  <2>4. /\ x \in Entries /\ x.owner = o.owner /\ x.active = o.active /\ x.gen = o.gen /\ x.disc = o.disc
        /\ x.pay = o.pay /\ x.ver = o.ver + 1
    BY <2>2, <2>3, Written
  <2>5. slot' = [slot EXCEPT ![s] = x]
    BY <1>7, <2>1, <2>2, <2>3 DEF IInv, Types
  <2>6. PICK t : t = IF Goto(p, "telling") THEN [proc[p] EXCEPT !.pc = "telling"] ELSE Rest(p, proc[p].todo)
    OBVIOUS
  <2>7. /\ t \in Processes /\ t.pc \in {"telling", "idle", "sweep"} /\ t.at = proc[p].at
        /\ t.sweep = proc[p].sweep /\ t.todo = proc[p].todo /\ Become(p, t)
        /\ (t.pc = "idle" => t.who = 0 /\ ~t.sweep /\ t.todo = {})
    <3>1. CASE Goto(p, "telling")
      BY <1>1, <2>6, <3>1 DEF Processes, Points, Goto
    <3>2. CASE ~Goto(p, "telling")
      <4>1. t = Rest(p, proc[p].todo) /\ Become(p, t)
        BY <1>7, <2>6, <3>2 DEF Done
      <4>2. /\ t \in Processes /\ t.pc \in {"idle", "sweep"} /\ t.who = 0
            /\ t.sweep = proc[p].sweep /\ t.todo = proc[p].todo /\ t.at = proc[p].at
        BY <1>1, <4>1, RestRecord
      <4>3. t.pc = "idle" => ~proc[p].sweep /\ proc[p].todo = {}
        BY <1>1, <4>1, RestRecord
      <4>q. QED BY <4>1, <4>2, <4>3
    <3>q. QED BY <3>1, <3>2
  <2>8. PICK v \in Nat : v = o.ver
    BY DEF Entries
  <2>10. StillWrites(t, s, slot[s], x)
    <3>1. o.ver < x.ver /\ x.ver % 2 = 0
      BY <2>1, <2>2, <2>4, <2>8, Parity
    <3>2. o.pay.a = o.pay.b
      BY <1>1, <1>7, <2>1, <2>2 DEF Writes
    <3>q. QED BY <2>2, <2>4, <2>7, <3>1, <3>2 DEF StillWrites, Writing
  <2>12. proc[p].pc \in Writing \union {"idle"} /\ t.pc \in Writing \union {"telling", "idle", "sweep"}
    BY <1>7, <2>7 DEF Writing
  <2>13. /\ x.owner = slot[s].owner /\ x.active = slot[s].active /\ x.gen = slot[s].gen /\ x.disc = slot[s].disc
         /\ x.pay.id = slot[s].pay.id
    BY <2>2, <2>4
  <2>q. QED BY <1>2, <2>1, <2>4, <2>5, <2>7, <2>10, <2>12, <2>13, WriteStep
<1>q. QED BY <1>4, <1>5, <1>6, <1>7 DEF Update
-----------------------------------------------------------------------------
\* Who owns a slot, its client, generation and version are left alone.
OnlyRequests(y) ==
    \A u \in Slots : /\ y[u].owner = slot[u].owner /\ y[u].active = slot[u].active /\ y[u].gen = slot[u].gen
                     /\ y[u].ver = slot[u].ver /\ y[u].pay = slot[u].pay

\* What is asked of a process does not depend on the requests in the slots.
LEMMA RequestsApart ==
    ASSUME IInv, NEW y \in [Slots -> Entries], slot' = y, OnlyRequests(y),
           UNCHANGED <<admission, conns, next, born, credit, asked, granted>>,
           \A u \in Slots : Live(u)' => Live(u),
           NEW q \in Pids, NEW r \in Processes,
           Owns(q, r), Admits(q, r), Counted(r), Registers(r), Writes(q, r), Reads(r), Asks(r)
    PROVE  /\ Serves(q)' /\ Owns(q, r)' /\ Admits(q, r)' /\ Counted(r)' /\ Registers(r)' /\ Writes(q, r)'
           /\ Reads(r)' /\ Asks(r)'
<1>1. Serves(q) /\ conns[q] \in SUBSET Registrations
  BY Known
<1>2. \A c \in conns[q] : c.slot \in Slots
  BY <1>1 DEF Registrations
<1>3. Serves(q)'
  BY <1>1, <1>2 DEF Serves, OnlyRequests
<1>4. Owns(q, r)'
  <2>1. r.pc \in Placed => r.slot \in Slots
    BY DEF Owns
  <2>q. QED BY <2>1 DEF Owns, OnlyRequests
<1>5. Admits(q, r)' /\ Asks(r)'
  BY DEF Admits, Asks
<1>6. Counted(r)'
  <2>1. Reserved' = Reserved
    BY DEF Reserved, OnlyRequests
  <2>q. QED BY <2>1 DEF Counted
<1>7. Registers(r)'
  <2>1. r.pc \in {"numbering", "filling", "publishing"} => r.slot \in Slots
    BY DEF Owns, Placed
  <2>q. QED BY <2>1 DEF Registers, OnlyRequests
<1>8. Writes(q, r)'
  <2>1. r.pc \in Writing => r.slot \in Slots
    BY DEF Writes
  <2>2. {"writing b", "written"} \subseteq Writing
    BY DEF Writing
  <2>q. QED BY <1>2, <2>1, <2>2 DEF Writes, OnlyRequests
<1>9. Reads(r)'
  <2>1. CASE r.pc \notin Reading
    BY <2>1 DEF Reads, Reading, Versioned, Copied
  <2>2. CASE r.pc \in Reading
    <3>1. r.slot \in Slots
      BY <2>2 DEF Reads
    <3>2. PICK o \in Entries, x \in Entries : o = slot[r.slot] /\ x = y[r.slot]
      BY <3>1 DEF IInv, Types
    <3>3. o.gen = x.gen /\ o.ver = x.ver /\ o.pay = x.pay /\ o.gen \in Nat
      BY <3>1, <3>2 DEF OnlyRequests, Entries
    <3>4. Harmless(r, o, x, Live(r.slot), Live(r.slot)')
      BY <3>1, <3>3 DEF Harmless
    <3>q. QED BY <3>2, <3>4, ReadsKept
  <2>q. QED BY <2>1, <2>2
<1>q. QED BY <1>3, <1>4, <1>5, <1>6, <1>7, <1>8, <1>9

\* A request is written into the slot of the client it was made for.
LEMMA RequestStep ==
    ASSUME IInv, NEW p \in Pids, proc[p].pc = "seen", NEW s \in Slots, NEW w \in asked, NEW g \in Nat,
           w \notin granted, born[w] = <<s, g>>, proc[p].who = w, proc[p].pay.id = w, proc[p].slot = s, w # 0,
           NEW x \in Entries, slot' = [slot EXCEPT ![s] = x], x.owner = slot[s].owner, x.active = slot[s].active,
           x.gen = slot[s].gen, x.pay = slot[s].pay, x.ver = slot[s].ver, x.disc = g,
           NEW t \in Processes, Become(p, t), t.pc = "confirming", t.slot = s, t.at = proc[p].at,
           t.sweep = proc[p].sweep, t.todo = proc[p].todo, t.who = w, t.pay = proc[p].pay, t.gen = proc[p].gen,
           t.since = proc[p].since, t.ver = proc[p].ver,
           UNCHANGED <<locks, pipe, conns, history>>
    PROVE  IInv'
<1>1. PICK y \in [Slots -> Entries] : y = slot'
  BY DEF IInv, Types
<1>2. y[s] = x /\ (\A u \in Slots \ {s} : y[u] = slot[u]) /\ OnlyRequests(y)
  BY <1>1 DEF IInv, Types, OnlyRequests
<1>3. /\ proc' \in [Pids -> Processes] /\ proc'[p] = t /\ \A q \in Pids \ {p} : proc'[q] = proc[q]
  BY DEF IInv, Types, Become
<1>4. UNCHANGED <<admission, guard, blocked, pipe, conns, next, born, credit, asked, granted, expelled>>
  BY DEF locks, history
<1>5. ASSUME NEW u \in Slots PROVE Live(u)' => Live(u)
  <2>1. slot'[u].pay = slot[u].pay
    BY <1>1, <1>2 DEF OnlyRequests
  <2>2. \A q \in Pids : proc'[q].pc = "filling" => proc'[q] = proc[q]
    BY <1>3
  <2>q. QED BY <2>1, <2>2 DEF Live
<1>6. ASSUME NEW q \in Pids
      PROVE  /\ Serves(q)' /\ Owns(q, proc[q])' /\ Admits(q, proc[q])' /\ Counted(proc[q])' /\ Registers(proc[q])'
             /\ Writes(q, proc[q])' /\ Reads(proc[q])' /\ Asks(proc[q])'
  <2>1. PICK r : r = proc'[q]
    OBVIOUS
  <2>2. r \in Processes
    BY <1>3, <2>1
  <2>3. /\ Owns(q, r) /\ Admits(q, r) /\ Counted(r) /\ Registers(r) /\ Writes(q, r) /\ Reads(r) /\ Asks(r)
    <3>1. PICK o : o = proc[q]
      OBVIOUS
    <3>2. /\ Owns(q, o) /\ Admits(q, o) /\ Counted(o) /\ Registers(o) /\ Writes(q, o) /\ Reads(o) /\ Asks(o)
      BY <3>1, Known
    <3>3. CASE q # p
      BY <1>3, <2>1, <3>1, <3>2, <3>3
    <3>4. CASE q = p
      <4>1. /\ r = t /\ o.pc = "seen" /\ r.pc = "confirming"
        BY <1>3, <2>1, <3>1, <3>4
      <4>2. /\ r.slot = o.slot /\ r.at = o.at /\ r.sweep = o.sweep /\ r.todo = o.todo /\ r.who = o.who
            /\ r.pay = o.pay /\ r.gen = o.gen /\ r.since = o.since /\ r.ver = o.ver /\ r.who = w /\ r.pay.id = w
        BY <4>1, <3>1, <3>4
      <4>3. Owns(q, r) /\ Admits(q, r) /\ Counted(r) /\ Registers(r)
        BY <3>2, <4>1, <4>2 DEF Owns, Admits, Counted, Registers, Gone, Locked, Placed, Entering
      <4>4. Writes(q, r) /\ Asks(r)
        BY <3>2, <4>1, <4>2 DEF Writes, Asks, Writing, Gone, Reading, Versioned, Copied, Checked, Accepted
      <4>5. Reads(r)
        BY <3>2, <4>1, <4>2 DEF Reads, Reading, Versioned, Copied, Checked, Accepted
      <4>q. QED BY <4>3, <4>4, <4>5
    <3>q. QED BY <3>3, <3>4
  <2>4. /\ Serves(q)' /\ Owns(q, r)' /\ Admits(q, r)' /\ Counted(r)' /\ Registers(r)' /\ Writes(q, r)'
        /\ Reads(r)' /\ Asks(r)'
    BY <1>1, <1>2, <1>4, <1>5, <2>2, <2>3, RequestsApart
  <2>q. QED BY <2>1, <2>4
<1>7. ASSUME NEW u \in Slots PROVE SlotRight(u)'
  <2>1. SlotRight(u)
    BY DEF IInv
  <2>2. CASE u # s
    BY <1>1, <1>2, <1>4, <2>1, <2>2 DEF SlotRight
  <2>3. CASE u = s
    <3>1. slot'[u] = x /\ UNCHANGED <<born, credit, asked>>
      BY <1>1, <1>2, <1>4, <2>3
    <3>q. QED BY <2>1, <2>3, <3>1 DEF SlotRight
  <2>q. QED BY <2>2, <2>3
<1>8. ASSUME NEW c \in Clients PROVE BornRight(c)' /\ GrantedRight(c)'
  <2>1. BornRight(c) /\ GrantedRight(c) /\ born[c] \in ({0} \union Slots) \X Nat
    BY DEF IInv, Types
  <2>2. born[c][1] # 0 => slot'[born[c][1]].gen = slot[born[c][1]].gen
    BY <1>1, <1>2, <2>1 DEF OnlyRequests
  <2>3. BornRight(c)'
    BY <1>4, <2>1, <2>2 DEF BornRight
  <2>4. GrantedRight(c)'
    BY <1>3, <1>4, <2>1 DEF GrantedRight
  <2>q. QED BY <2>3, <2>4
<1>9. ASSUME NEW q \in Pids PROVE Pending(q)'
  <2>1. /\ Pending(q) /\ Serves(q) /\ conns[q] \in SUBSET Registrations
    BY Known
  <2>2. /\ proc'[q].at = proc[q].at /\ proc'[q].sweep = proc[q].sweep /\ proc'[q].todo = proc[q].todo
        /\ (Alive(q)' => Alive(q))
    BY <1>3 DEF Alive
  <2>3. ASSUME NEW c \in conns[q], c.who \in granted, Wanted(c)' PROVE Wanted(c)
    <3>1. PICK u \in Slots, v \in Clients : u = c.slot /\ v = c.who
      BY <2>1 DEF Registrations
    <3>4. slot[c.slot].pay.id = c.who
      BY <2>1 DEF Serves
    <3>2. CASE u # s
      BY <1>1, <1>2, <2>3, <3>1, <3>2 DEF Wanted
    <3>3. CASE u = s
      <4>1. x.gen = g /\ slot[s].gen = g
        BY <1>1, <1>2, <2>3, <3>1, <3>3 DEF Wanted
      <4>6. slot[s].pay.id = v
        BY <3>1, <3>3, <3>4
      <4>2. v # 0 /\ slot[s].pay.id = v /\ SlotRight(s) /\ BornRight(v)
        BY <4>6, Constants DEF IInv
      <4>3. born[v] = <<s, g>> /\ born[v][1] # 0
        BY <4>1, <4>2, Constants DEF SlotRight
      <4>4. w \in Clients
        BY DEF IInv, Types
      <4>5. v = w
        BY <4>2, <4>3, <4>4 DEF BornRight
      <4>q. QED BY <2>3, <3>1, <4>5
    <3>q. QED BY <3>2, <3>3
  <2>q. QED BY <1>4, <2>1, <2>2, <2>3 DEF Pending
<1>10. ASSUME NEW q1 \in Pids, NEW q2 \in Pids, q1 # q2 PROVE Apart(proc[q1], proc[q2])'
  <2>1. Apart(proc[q1], proc[q2])
    BY <1>10 DEF IInv
  <2>2. /\ "seen" \in Copied /\ "seen" \in Accepted /\ "seen" \in Reading /\ "seen" \notin Entering
        /\ "confirming" \in Copied /\ "confirming" \in Accepted /\ "confirming" \in Reading
        /\ "confirming" \notin Entering
    BY DEF Reading, Versioned, Copied, Checked, Accepted, Entering
  <2>3. CASE q1 = p
    <3>1. proc'[q1] = t /\ proc'[q2] = proc[q2]
      BY <1>3, <1>10, <2>3
    <3>q. QED BY <2>1, <2>2, <2>3, <3>1 DEF Apart
  <2>4. CASE q2 = p
    <3>1. proc'[q2] = t /\ proc'[q1] = proc[q1]
      BY <1>3, <1>10, <2>4
    <3>q. QED BY <2>1, <2>2, <2>4, <3>1 DEF Apart
  <2>5. CASE q1 # p /\ q2 # p
    BY <1>3, <2>1, <2>5
  <2>q. QED BY <2>3, <2>4, <2>5
<1>11. Types' /\ Rest0' /\ Reserved' = Reserved
  BY <1>1, <1>2, <1>3, <1>4 DEF IInv, Types, Rest0, Reserved, OnlyRequests
<1>q. QED BY <1>4, <1>6, <1>7, <1>8, <1>9, <1>10, <1>11 DEF IInv

\* A request that is left in a slot was made for the client it names.
LEMMA SeenKeeps ==
    ASSUME IInv, NEW p \in Pids, Seen(p)
    PROVE  IInv'
<1>1. proc[p].pc = "seen" /\ UNCHANGED <<locks, pipe, conns, history>>
  BY DEF Seen
<1>2. /\ proc[p] \in Processes /\ Reads(proc[p]) /\ Asks(proc[p]) /\ proc[p].todo \subseteq conns[p]
  BY Known
<1>3. /\ proc[p].pc \in Reading /\ proc[p].pc \in Versioned /\ proc[p].pc \in Copied /\ proc[p].pc \in Checked
      /\ proc[p].pc \in Accepted /\ proc[p].pc \notin Gone \union Writing \union Placed \union Entering
      /\ proc[p].pc # "idle"
  BY <1>1 DEF Reading, Versioned, Copied, Checked, Accepted, Gone, Writing, Placed, Entering
<1>4. CASE PassOn(p) /\ UNCHANGED slot
  BY <1>1, <1>3, <1>4, PassOnKeeps
<1>5. ASSUME proc[p].who # 0, proc[p].pay.id = proc[p].who,
             slot' = [slot EXCEPT ![proc[p].slot].disc = proc[p].gen], Goto(p, "confirming")
      PROVE  IInv'
  <2>1. PICK s \in Slots, w \in asked : s = proc[p].slot /\ w = proc[p].who
    BY <1>2, <1>3, <1>5 DEF Reads, Asks
  <2>2. PICK g \in Nat : g = proc[p].gen
    BY <1>2 DEF Processes
  <2>3. w \in Clients /\ w # 0 /\ w \notin granted /\ born[w] = <<s, g>>
    BY <1>2, <1>3, <1>5, <2>1, <2>2 DEF Reads, Asks, IInv, Types
  <2>4. PICK o \in Entries : o = slot[s] /\ SlotRight(s)
    BY DEF IInv, Types
  <2>5. PICK x : x = [o EXCEPT !.disc = g]
    OBVIOUS
  <2>6. /\ x \in Entries /\ x.owner = o.owner /\ x.active = o.active /\ x.gen = o.gen /\ x.disc = g
        /\ x.pay = o.pay /\ x.ver = o.ver
    BY <2>5 DEF Entries
  <2>7. slot' = [slot EXCEPT ![s] = x]
    BY <1>5, <2>1, <2>2, <2>4, <2>5 DEF IInv, Types
  <2>9. PICK t : t = [proc[p] EXCEPT !.pc = "confirming"]
    OBVIOUS
  <2>10. /\ t \in Processes /\ t.pc = "confirming" /\ t.slot = s /\ t.at = proc[p].at /\ t.sweep = proc[p].sweep
         /\ t.todo = proc[p].todo /\ t.who = w /\ t.pay = proc[p].pay /\ t.gen = proc[p].gen
         /\ t.since = proc[p].since /\ t.ver = proc[p].ver /\ Become(p, t)
    BY <1>2, <1>5, <2>1, <2>9 DEF Processes, Points, Reading, Versioned, Copied, Checked, Accepted, Goto
  <2>11. /\ x.owner = slot[s].owner /\ x.active = slot[s].active /\ x.gen = slot[s].gen
         /\ x.pay = slot[s].pay /\ x.ver = slot[s].ver /\ x.disc = g
    BY <2>4, <2>6
  <2>12. proc[p].who = w /\ proc[p].pay.id = w /\ proc[p].slot = s
    BY <1>5, <2>1
  <2>q. QED BY <1>1, <2>3, <2>6, <2>7, <2>10, <2>11, <2>12, RequestStep
<1>q. QED BY <1>4, <1>5 DEF Seen
-----------------------------------------------------------------------------
\* What the supervisor does to the slots of the dead p, and to the accounts
\* of its clients.
Erased(p, y) ==
    \A u \in Slots :
        IF slot[u].owner = p
        THEN /\ y[u].owner = 0 /\ ~y[u].active /\ y[u].gen = slot[u].gen /\ y[u].disc = 0 /\ y[u].ver = 0
             /\ y[u].pay = NoPay
        ELSE y[u] = slot[u]
Settled(p, d) ==
    \A c \in Clients : d[c] # credit[c] => \E u \in Slots : slot[u].owner = p /\ slot[u].pay.id = c

\* It erases those slots and settles those accounts, once each, and puts one
\* worker that was not yet born in the dead one's place.
LEMMA ReapEffects ==
    ASSUME IInv, NEW p \in Pids, Reap(p)
    PROVE  /\ proc[p].pc = "dead"
           /\ slot' \in [Slots -> Entries] /\ Erased(p, slot')
           /\ credit' \in [Clients -> 0..1] /\ Settled(p, credit')
           /\ pipe' \in [Indexes -> SUBSET {"update", "disconnect"}] /\ \A i \in Indexes : pipe[i] \subseteq pipe'[i]
           /\ \E h \in Pids \ {p} :
                 /\ proc[h].pc = "unborn"
                 /\ proc' = [proc EXCEPT ![p] = [Unborn EXCEPT !.pc = "reaped"],
                                         ![h] = [Unborn EXCEPT !.pc = "idle", !.at = proc[p].at]]
<1> DEFINE held == {s \in Slots : slot[s].owner = p}
           lost == {slot[s].pay.id : s \in {t \in held : slot[t].active}}
           U == {q \in Pids : proc[q].pc = "unborn"}
<1>1. /\ proc[p].pc = "dead" /\ U # {}
      /\ slot' = [s \in Slots |-> IF s \in held
                           THEN [Wiped(slot[s]) EXCEPT !.active = FALSE, !.owner = 0] ELSE slot[s]]
      /\ credit' = [c \in Clients |-> IF c \in lost THEN credit[c] + 1 ELSE credit[c]]
      /\ IF held # {} THEN Tell("update") ELSE UNCHANGED pipe
      /\ proc' = [proc EXCEPT ![p] = [Unborn EXCEPT !.pc = "reaped"],
                              ![Min(U)] = [Unborn EXCEPT !.pc = "idle", !.at = proc[p].at]]
  BY DEF Reap
<1>2. Min(U) \in U
  BY <1>1, Constants, MinIsLeast
<1>3. ASSUME NEW u \in Slots
      PROVE  /\ slot'[u] \in Entries
             /\ IF slot[u].owner = p
                THEN /\ slot'[u].owner = 0 /\ ~slot'[u].active /\ slot'[u].gen = slot[u].gen
                     /\ slot'[u].disc = 0 /\ slot'[u].ver = 0 /\ slot'[u].pay = NoPay
                ELSE slot'[u] = slot[u]
  <2>1. PICK o \in Entries : o = slot[u]
    BY DEF IInv, Types
  <2>2. CASE o.owner = p
    <3>1. slot'[u] = [Wiped(o) EXCEPT !.active = FALSE, !.owner = 0]
      BY <1>1, <2>1, <2>2
    <3>2. NoPay \in Payloads
      BY DEF NoPay, Payloads
    <3>3. PICK x : x = [Wiped(o) EXCEPT !.active = FALSE, !.owner = 0]
      OBVIOUS
    <3>4. /\ x.owner = 0 /\ x.active = FALSE /\ x.gen = o.gen /\ x.disc = 0 /\ x.ver = 0 /\ x.pay = NoPay
          /\ x \in Entries
      BY <3>2, <3>3 DEF Wiped, Entries
    <3>q. QED BY <2>1, <2>2, <3>1, <3>3, <3>4
  <2>3. CASE o.owner # p
    BY <1>1, <2>1, <2>3
  <2>q. QED BY <2>2, <2>3
<1>4. ASSUME NEW c \in Clients
      PROVE  /\ credit'[c] \in 0..1
             /\ credit'[c] # credit[c] => \E u \in Slots : slot[u].owner = p /\ slot[u].pay.id = c
  <2>1. credit[c] \in 0..1
    BY DEF IInv, Types
  <2>2. CASE c \notin lost
    BY <1>1, <2>1, <2>2
  <2>3. CASE c \in lost
    <3>1. PICK u \in Slots : slot[u].owner = p /\ slot[u].pay.id = c
      BY <2>3
    <3>2. SlotRight(u) /\ c # 0
      BY Constants DEF IInv
    <3>3. credit[c] = 0
      BY <3>1, <3>2 DEF SlotRight
    <3>4. credit'[c] = 1
      <4>1. credit'[c] = credit[c] + 1
        BY <1>1, <2>3
      <4> HIDE DEF lost, held, U
      <4>q. QED BY <3>3, <4>1
    <3>q. QED BY <3>1, <3>4
  <2>q. QED BY <2>2, <2>3
<1>5. /\ pipe' \in [Indexes -> SUBSET {"update", "disconnect"}] /\ \A i \in Indexes : pipe[i] \subseteq pipe'[i]
  <2>1. pipe \in [Indexes -> SUBSET {"update", "disconnect"}]
    BY DEF IInv, Rest0
  <2>2. CASE UNCHANGED pipe
    BY <2>1, <2>2
  <2>3. CASE Tell("update")
    BY <2>1, <2>3 DEF Tell
  <2>q. QED BY <1>1, <2>2, <2>3
<1>6. /\ slot' = [s \in Slots |-> slot'[s]] /\ credit' = [c \in Clients |-> credit'[c]]
  BY <1>1
<1>7. slot' \in [Slots -> Entries] /\ Erased(p, slot')
  BY <1>3, <1>6 DEF Erased
<1>8. credit' \in [Clients -> 0..1] /\ Settled(p, credit')
  BY <1>4, <1>6 DEF Settled
<1>9. Min(U) \in Pids \ {p} /\ proc[Min(U)].pc = "unborn"
  BY <1>1, <1>2
<1> HIDE DEF U, held, lost
<1>q. QED BY <1>1, <1>5, <1>7, <1>8, <1>9

\* Whose account is settled was a client of the dead one's.
LEMMA SettledWasHeld ==
    ASSUME IInv, NEW p \in Pids, NEW d, Settled(p, d), NEW c \in Clients, d[c] # credit[c]
    PROVE  \E u \in Slots : slot[u].owner = p /\ born[c] = <<u, slot[u].gen>> /\ u # 0
<1>1. PICK u \in Slots : slot[u].owner = p /\ slot[u].pay.id = c
  BY DEF Settled
<1>2. SlotRight(u) /\ c # 0 /\ u # 0
  BY Constants DEF IInv
<1>3. born[c] = <<u, slot[u].gen>>
  BY <1>1, <1>2 DEF SlotRight
<1>q. QED BY <1>1, <1>2, <1>3

\* The other processes do not notice.
LEMMA ReapOthers ==
    ASSUME IInv, NEW p \in Pids, NEW y \in [Slots -> Entries], slot' = y, Erased(p, y),
           NEW d \in [Clients -> 0..1], credit' = d, Settled(p, d),
           UNCHANGED <<next, born, asked, granted>>, \A i \in Indexes : pipe[i] \subseteq pipe'[i],
           admission' = (IF admission = p THEN 0 ELSE admission), Cardinality(Reserved') <= Cardinality(Reserved),
           Cardinality(Reserved') \in Nat, Cardinality(Reserved) \in Nat,
           \A u \in Slots : IF slot[u].owner = p THEN ~Live(u)' ELSE Live(u)' => Live(u),
           NEW q \in Pids \ {p}, proc'[q] = proc[q], conns'[q] = conns[q]
    PROVE  /\ Serves(q)' /\ Owns(q, proc[q])' /\ Admits(q, proc[q])' /\ Counted(proc[q])' /\ Registers(proc[q])'
           /\ Writes(q, proc[q])' /\ Reads(proc[q])' /\ Asks(proc[q])' /\ Pending(q)'
<1>0. PICK t : t = proc[q]
  OBVIOUS
<1>1. /\ t \in Processes /\ Serves(q) /\ Owns(q, t) /\ Admits(q, t) /\ Counted(t) /\ Registers(t)
      /\ Writes(q, t) /\ Reads(t) /\ Asks(t) /\ Pending(q) /\ conns[q] \in SUBSET Registrations
  BY <1>0, Known
<1>2. proc'[q] = t /\ p # 0 /\ q # 0 /\ p # q
  BY <1>0, Constants
<1>3. ASSUME NEW u \in Slots PROVE (y[u].owner = q <=> slot[u].owner = q) /\ (slot[u].owner = q => y[u] = slot[u])
  BY <1>2 DEF Erased
<1>4. \A c \in conns[q] : c.slot \in Slots /\ y[c.slot] = slot[c.slot]
  <2>1. \A c \in conns[q] : c.slot \in Slots /\ slot[c.slot].owner = q
    BY <1>1 DEF Serves, Registrations
  <2>q. QED BY <1>3, <2>1
<1>5. t.pc \in Placed => t.slot \in Slots /\ y[t.slot] = slot[t.slot] /\ slot[t.slot].owner = q
  BY <1>1, <1>3 DEF Owns
<1>6. Serves(q)'
  BY <1>1, <1>4 DEF Serves
<1>7. Owns(q, t)'
  BY <1>1, <1>3, <1>5 DEF Owns
<1>8. Admits(q, t)' /\ Asks(t)'
  BY <1>1, <1>2 DEF Admits, Asks
<1>9. Counted(t)'
  <2>1. MaxClients \in Nat
    BY Constants
  <2>q. QED BY <1>1, <2>1 DEF Counted
<1>10. Registers(t)'
  <2>1. t.pc \in Entering => d[t.who] = credit[t.who]
    <3>1. SUFFICES ASSUME t.pc \in Entering, d[t.who] # credit[t.who] PROVE FALSE
      OBVIOUS
    <3>2. t.who \in Clients /\ born[t.who] = <<0, 0>>
      BY <1>1, <3>1 DEF Registers
    <3>3. \E u \in Slots : slot[u].owner = p /\ born[t.who] = <<u, slot[u].gen>> /\ u # 0
      BY <3>1, <3>2, SettledWasHeld
    <3>q. QED BY <3>2, <3>3
  <2>2. t.pc = "filling" => d[t.who] = credit[t.who]
    <3>1. SUFFICES ASSUME t.pc = "filling", d[t.who] # credit[t.who] PROVE FALSE
      OBVIOUS
    <3>2. t.who \in Clients /\ born[t.who] = <<t.slot, slot[t.slot].gen>>
      BY <1>1, <3>1 DEF Registers
    <3>3. PICK u \in Slots : slot[u].owner = p /\ born[t.who] = <<u, slot[u].gen>>
      BY <3>1, <3>2, SettledWasHeld
    <3>4. u = t.slot
      BY <3>2, <3>3
    <3>q. QED BY <1>2, <1>5, <3>1, <3>3, <3>4 DEF Placed
  <2>3. t.pc \in {"numbering", "filling", "publishing"} => y[t.slot] = slot[t.slot]
    BY <1>5 DEF Placed
  <2>q. QED BY <1>1, <2>1, <2>2, <2>3 DEF Registers
<1>11. Writes(q, t)'
  <2>1. t.pc \in Writing => t.slot \in Slots /\ y[t.slot] = slot[t.slot]
    BY <1>1, <1>4 DEF Writes
  <2>2. {"writing b", "written"} \subseteq Writing
    BY DEF Writing
  <2>q. QED BY <1>1, <1>4, <2>1, <2>2 DEF Writes
<1>12. Reads(t)'
  <2>1. CASE t.pc \notin Versioned
    <3>1. t.pc \notin Copied /\ t.pc \notin Checked
      BY <2>1 DEF Versioned, Copied
    <3>q. QED BY <1>1, <2>1, <3>1 DEF Reads, Copied
  <2>2. CASE t.pc \in Versioned
    <3>1. t.slot \in Slots
      BY <1>1, <2>2 DEF Reads, Reading
    <3>2. PICK o \in Entries, x \in Entries : o = slot[t.slot] /\ x = y[t.slot]
      BY <3>1 DEF IInv, Types
    <3>3. Harmless(t, o, x, Live(t.slot), Live(t.slot)')
      <4>1. o.gen \in Nat /\ o.gen <= o.gen
        BY DEF Entries
      <4>2. CASE slot[t.slot].owner = p
        BY <3>1, <3>2, <4>1, <4>2 DEF Harmless, Erased, NoPay
      <4>3. CASE slot[t.slot].owner # p
        BY <3>1, <3>2, <4>1, <4>3 DEF Harmless, Erased
      <4>q. QED BY <4>2, <4>3
    <3>q. QED BY <1>1, <3>2, <3>3, ReadsKept
  <2>q. QED BY <2>1, <2>2
<1>13. Pending(q)'
  <2>1. t.at \in Indexes
    BY <1>1 DEF Processes
  <2>q. QED BY <1>0, <1>1, <1>2, <1>4, <2>1 DEF Pending, Alive, Wanted
<1>q. QED BY <1>0, <1>6, <1>7, <1>8, <1>9, <1>10, <1>11, <1>12, <1>13

\* A worker that was reaped, and one that begins in its place.
LEMMA ReapedAndHeir ==
    ASSUME NEW i \in Indexes
    PROVE  /\ LET r == [Unborn EXCEPT !.pc = "reaped"]
              IN  r \in Processes /\ r.pc = "reaped" /\ r.todo = {}
           /\ LET r == [Unborn EXCEPT !.pc = "idle", !.at = i]
              IN  r \in Processes /\ r.pc = "idle" /\ r.at = i /\ r.todo = {} /\ r.who = 0 /\ ~r.sweep
<1>1. Unborn.at \in Indexes
  BY StatusAssumption DEF Unborn
<1>2. NoPay \in Payloads
  BY DEF NoPay, Payloads
<1>q. QED BY <1>1, <1>2 DEF Unborn, Processes, Points, Gone

\* The supervisor takes back all that a dead worker held.
LEMMA ReapKeeps ==
    ASSUME IInv, NEW p \in Pids, Reap(p)
    PROVE  IInv'
<1>1. /\ proc[p].pc = "dead" /\ slot' \in [Slots -> Entries] /\ Erased(p, slot')
      /\ credit' \in [Clients -> 0..1] /\ Settled(p, credit')
      /\ pipe' \in [Indexes -> SUBSET {"update", "disconnect"}] /\ \A i \in Indexes : pipe[i] \subseteq pipe'[i]
  BY ReapEffects
<1>2. PICK h \in Pids \ {p} :
         /\ proc[h].pc = "unborn"
         /\ proc' = [proc EXCEPT ![p] = [Unborn EXCEPT !.pc = "reaped"],
                                 ![h] = [Unborn EXCEPT !.pc = "idle", !.at = proc[p].at]]
  BY ReapEffects
<1>3. /\ admission' = (IF admission = p THEN 0 ELSE admission) /\ conns' = [conns EXCEPT ![p] = {}]
      /\ UNCHANGED <<guard, blocked, next, born, asked, granted, expelled>>
  BY DEF Reap
<1>4. PICK y \in [Slots -> Entries], d \in [Clients -> 0..1] : y = slot' /\ d = credit'
  BY <1>1
<1>5. PICK i \in Indexes : i = proc[p].at
  BY DEF IInv, Types, Processes
<1>6. PICK r : r = [Unborn EXCEPT !.pc = "reaped"]
  OBVIOUS
<1>7. PICK t : t = [Unborn EXCEPT !.pc = "idle", !.at = i]
  OBVIOUS
<1>8. /\ r \in Processes /\ r.pc = "reaped" /\ r.todo = {}
      /\ t \in Processes /\ t.pc = "idle" /\ t.at = i /\ t.todo = {} /\ t.who = 0 /\ ~t.sweep
  BY <1>6, <1>7, ReapedAndHeir
<1>9. /\ proc' \in [Pids -> Processes] /\ proc'[p] = r /\ proc'[h] = t
      /\ \A q \in Pids \ {p, h} : proc'[q] = proc[q]
  BY <1>2, <1>5, <1>6, <1>7, <1>8 DEF IInv, Types
<1>10. /\ conns' \in [Pids -> SUBSET Registrations] /\ conns'[p] = {} /\ \A q \in Pids \ {p} : conns'[q] = conns[q]
  BY <1>3 DEF IInv, Types
<1>11. p # 0 /\ h # 0 /\ p # h /\ \A q \in Pids : q # 0
  BY Constants
<1>12. \A q \in Pids : proc'[q].pc \in {"filling", "publishing"} => q \in Pids \ {p, h} /\ proc'[q] = proc[q]
  BY <1>8, <1>9
<1>13. ASSUME NEW u \in Slots
       PROVE  IF slot[u].owner = p THEN ~Live(u)' ELSE Live(u)' => Live(u)
  <2>1. ASSUME NEW q \in Pids, proc'[q].pc = "filling", proc'[q].slot = u PROVE proc[q].pc = "filling" /\ proc[q].slot = u
    BY <1>12, <2>1
  <2>2. CASE slot[u].owner = p
    <3>1. slot'[u].pay.id = 0
      BY <1>1, <2>2 DEF Erased, NoPay
    <3>2. ASSUME NEW q \in Pids, proc'[q].pc = "filling", proc'[q].slot = u PROVE FALSE
      <4>1. proc[q].pc \in Placed /\ proc[q].slot = u /\ q # p
        BY <1>12, <2>1, <3>2 DEF Placed
      <4>2. slot[u].owner = q
        BY <4>1, Known DEF Owns
      <4>q. QED BY <2>2, <4>1, <4>2
    <3>q. QED BY <2>2, <3>1, <3>2 DEF Live
  <2>3. CASE slot[u].owner # p
    <3>1. slot'[u] = slot[u]
      BY <1>1, <2>3 DEF Erased
    <3>q. QED BY <2>1, <2>3, <3>1 DEF Live
  <2>q. QED BY <2>2, <2>3
<1>14. /\ Cardinality(Reserved') <= Cardinality(Reserved) /\ Cardinality(Reserved') \in Nat
       /\ Cardinality(Reserved) \in Nat /\ Cardinality(Reserved') <= MaxClients
  <2>1. Reserved' \subseteq Reserved
    BY <1>1, <1>11 DEF Reserved, Erased
  <2>2. Reserved \subseteq Slots
    BY DEF Reserved
  <2>3. IsFiniteSet(Reserved) /\ Cardinality(Reserved) \in Nat
    BY <2>2, Constants, FS_Subset, FS_CardinalityType
  <2>4. IsFiniteSet(Reserved') /\ Cardinality(Reserved') <= Cardinality(Reserved)
    BY <2>1, <2>3, FS_Subset
  <2>5. Cardinality(Reserved') \in Nat
    BY <2>4, FS_CardinalityType
  <2>q. QED BY <2>3, <2>4, <2>5, Constants DEF IInv
<1>15. ASSUME NEW q \in Pids \ {p, h}
       PROVE  /\ Serves(q)' /\ Owns(q, proc[q])' /\ Admits(q, proc[q])' /\ Counted(proc[q])' /\ Registers(proc[q])'
              /\ Writes(q, proc[q])' /\ Reads(proc[q])' /\ Asks(proc[q])' /\ Pending(q)'
  <2>1. q \in Pids \ {p} /\ proc'[q] = proc[q] /\ conns'[q] = conns[q] /\ slot' = y /\ credit' = d
    BY <1>4, <1>9, <1>10
  <2>2. Erased(p, y) /\ Settled(p, d)
    BY <1>1, <1>4
  <2>q. QED BY <1>1, <1>3, <1>13, <1>14, <2>1, <2>2, ReapOthers
<1>16. /\ Serves(p)' /\ Owns(p, proc[p])' /\ Admits(p, proc[p])' /\ Counted(proc[p])' /\ Registers(proc[p])'
       /\ Writes(p, proc[p])' /\ Reads(proc[p])' /\ Asks(proc[p])' /\ Pending(p)'
  <2>1. Serves(p)' /\ Pending(p)'
    BY <1>8, <1>9, <1>10 DEF Serves, Pending, Alive
  <2>2. \A u \in Slots : slot'[u].owner # p
    BY <1>1, <1>11 DEF Erased
  <2>3. Owns(p, r)' /\ Admits(p, r)'
    BY <1>3, <1>8, <1>10, <1>11, <2>2 DEF Owns, Admits, Locked, Placed, Gone
  <2>4. Counted(r)' /\ Registers(r)' /\ Writes(p, r)' /\ Reads(r)' /\ Asks(r)'
    BY <1>8, <1>10 DEF Counted, Registers, Writes, Reads, Asks, Entering, Writing, Gone, Reading, Versioned, Copied, Checked, Accepted
  <2>q. QED BY <1>9, <2>1, <2>3, <2>4
<1>17. /\ Serves(h)' /\ Owns(h, proc[h])' /\ Admits(h, proc[h])' /\ Counted(proc[h])' /\ Registers(proc[h])'
       /\ Writes(h, proc[h])' /\ Reads(proc[h])' /\ Asks(proc[h])' /\ Pending(h)'
  <2>1. conns'[h] = {} /\ \A u \in Slots : slot[u].owner # h
    BY <1>2, <1>10, Known DEF Owns
  <2>2. Serves(h)' /\ Pending(h)'
    BY <2>1 DEF Serves, Pending
  <2>3. \A u \in Slots : slot'[u].owner # h
    BY <1>1, <1>11, <2>1 DEF Erased
  <2>4. Owns(h, t)' /\ Admits(h, t)'
    BY <1>8, <2>1, <2>3 DEF Owns, Admits, Locked, Placed, Gone
  <2>5. Counted(t)' /\ Registers(t)' /\ Writes(h, t)' /\ Reads(t)' /\ Asks(t)'
    BY <1>8, <2>1 DEF Counted, Registers, Writes, Reads, Asks, Entering, Writing, Gone, Reading, Versioned, Copied, Checked, Accepted
  <2>q. QED BY <1>9, <2>2, <2>4, <2>5
<1>18. ASSUME NEW q \in Pids
       PROVE  /\ Serves(q)' /\ Owns(q, proc[q])' /\ Admits(q, proc[q])' /\ Counted(proc[q])' /\ Registers(proc[q])'
              /\ Writes(q, proc[q])' /\ Reads(proc[q])' /\ Asks(proc[q])' /\ Pending(q)'
  <2>1. CASE q = p
    BY <1>16, <2>1
  <2>2. CASE q = h
    BY <1>17, <2>2
  <2>3. CASE q \in Pids \ {p, h}
    BY <1>15, <2>3
  <2>q. QED BY <2>1, <2>2, <2>3
<1>19. ASSUME NEW q1 \in Pids, NEW q2 \in Pids, q1 # q2 PROVE Apart(proc[q1], proc[q2])'
  <2>2. /\ r.pc \notin Entering /\ r.pc \notin Reading /\ r.pc \notin Copied /\ r.pc \notin Accepted
        /\ t.pc \notin Entering /\ t.pc \notin Reading /\ t.pc \notin Copied /\ t.pc \notin Accepted
        /\ r.pc \notin {"filling", "publishing"} /\ t.pc \notin {"filling", "publishing"}
    BY <1>8 DEF Entering, Reading, Versioned, Copied, Checked, Accepted
  <2>3. CASE q1 = p \/ q2 = p
    BY <1>8, <1>9, <2>2, <2>3 DEF Apart
  <2>4. CASE q1 = h /\ q2 \notin {p, h}
    <3>1. Apart(proc[p], proc[q2]) /\ proc'[q2] = proc[q2] /\ proc'[q1] = t
      BY <1>9, <2>4 DEF IInv
    <3>2. proc[q2].pc \notin {"unborn", "reaped"} => i # proc[q2].at
      BY <1>1, <1>5, <3>1 DEF Apart
    <3>q. QED BY <1>8, <2>2, <3>1, <3>2 DEF Apart
  <2>5. CASE q2 = h /\ q1 \notin {p, h}
    <3>1. Apart(proc[q1], proc[p]) /\ proc'[q1] = proc[q1] /\ proc'[q2] = t
      BY <1>9, <2>5 DEF IInv
    <3>2. proc[q1].pc \notin {"unborn", "reaped"} => proc[q1].at # i
      BY <1>1, <1>5, <3>1 DEF Apart
    <3>q. QED BY <1>8, <2>2, <3>1, <3>2 DEF Apart
  <2>6. CASE q1 \notin {p, h} /\ q2 \notin {p, h}
    <3>1. Apart(proc[q1], proc[q2]) /\ proc'[q1] = proc[q1] /\ proc'[q2] = proc[q2]
      BY <1>9, <1>19, <2>6 DEF IInv
    <3>q. QED BY <3>1 DEF Apart
  <2>q. QED BY <1>19, <2>3, <2>4, <2>5, <2>6
<1>20. ASSUME NEW u \in Slots PROVE SlotRight(u)'
  <2>1. CASE slot[u].owner = p
    BY <1>1, <2>1 DEF SlotRight, Erased, NoPay
  <2>2. CASE slot[u].owner # p
    <3>1. slot'[u] = slot[u] /\ SlotRight(u) /\ slot[u].pay \in Payloads
      BY <1>1, <2>2 DEF Erased, IInv, Types, Entries
    <3>2. slot[u].pay.id # 0 => credit'[slot[u].pay.id] = 0
      <4>1. SUFFICES ASSUME NEW c \in Clients, c = slot[u].pay.id, c # 0, credit'[c] # 0 PROVE FALSE
        BY <3>1 DEF Payloads
      <4>2. born[c] = <<u, slot[u].gen>> /\ d[c] # credit[c] /\ Settled(p, d)
        BY <1>1, <1>4, <3>1, <4>1 DEF SlotRight
      <4>3. PICK v \in Slots : slot[v].owner = p /\ born[c] = <<v, slot[v].gen>>
        BY <4>2, SettledWasHeld
      <4>4. u = v
        BY <4>2, <4>3
      <4>q. QED BY <2>2, <4>3, <4>4
    <3>q. QED BY <1>3, <3>1, <3>2 DEF SlotRight
  <2>q. QED BY <2>1, <2>2
<1>21. ASSUME NEW c \in Clients PROVE BornRight(c)' /\ GrantedRight(c)'
  <2>1. BornRight(c) /\ GrantedRight(c) /\ born[c] \in ({0} \union Slots) \X Nat
    BY DEF IInv, Types
  <2>2. \A u \in Slots : slot'[u].gen = slot[u].gen
    BY <1>1 DEF Erased
  <2>3. born[c][1] # 0 => born[c][1] \in Slots
    BY <2>1
  <2>4. ~(c < next) => credit'[c] = 0
    <3>1. SUFFICES ASSUME ~(c < next), d[c] # credit[c] PROVE FALSE
      BY <1>4, <2>1 DEF BornRight
    <3>2. Settled(p, d)
      BY <1>1, <1>4
    <3>3. PICK u \in Slots : born[c] = <<u, slot[u].gen>> /\ u # 0
      BY <3>1, <3>2, SettledWasHeld
    <3>q. QED BY <2>1, <3>1, <3>3 DEF BornRight
  <2>5. BornRight(c)'
    BY <1>3, <2>1, <2>2, <2>3, <2>4 DEF BornRight
  <2>6. GrantedRight(c)'
    BY <1>3, <1>12, <2>1 DEF GrantedRight
  <2>q. QED BY <2>5, <2>6
<1>22. Types' /\ Rest0'
  <2>1. Types'
    BY <1>1, <1>3, <1>9, <1>10 DEF IInv, Types
  <2>2. Rest0'
    BY <1>1, <1>3 DEF IInv, Rest0
  <2>q. QED BY <2>1, <2>2
<1>23. expelled' \subseteq asked' /\ granted' \subseteq asked'
  BY <1>3 DEF IInv
<1>q. QED BY <1>14, <1>18, <1>19, <1>20, <1>21, <1>22, <1>23 DEF IInv
-----------------------------------------------------------------------------
\* It holds to begin with: the first workers have indexes of their own, and
\* all slots are free.
LEMMA InitHolds ==
    ASSUME Init
    PROVE  IInv
<1> DEFINE f == CHOOSE f \in Injection(Indexes, Pids) : TRUE
<1>1. f \in Injection(Indexes, Pids)
  BY StatusAssumption
<1>2. f \in [Indexes -> Pids] /\ \A i, j \in Indexes : f[i] = f[j] => i = j
  BY <1>1 DEF Injection, IsInjective
<1>3. proc = [p \in Pids |-> IF p \in Range(f)
                     THEN [Unborn EXCEPT !.pc = "idle", !.at = CHOOSE i \in Indexes : f[i] = p]
                     ELSE Unborn]
  BY DEF Init
<1>4. ASSUME NEW p \in Pids, p \in Range(f)
      PROVE  (CHOOSE i \in Indexes : f[i] = p) \in Indexes /\ f[CHOOSE i \in Indexes : f[i] = p] = p
  <2>1. \E i \in Indexes : f[i] = p
    BY <1>2, <1>4 DEF Range
  <2>q. QED BY <2>1
<1> HIDE DEF f
<1>5. ASSUME NEW p \in Pids
      PROVE  /\ proc[p] \in Processes /\ proc[p].pc \in {"idle", "unborn"} /\ proc[p].who = 0 /\ ~proc[p].sweep
             /\ proc[p].todo = {} /\ (proc[p].pc = "idle" => f[proc[p].at] = p)
  <2>0. Unborn \in Processes /\ Unborn.pc = "unborn" /\ Unborn.who = 0 /\ ~Unborn.sweep /\ Unborn.todo = {}
    <3>1. NoPay \in Payloads /\ (CHOOSE i \in Indexes : TRUE) \in Indexes
      BY StatusAssumption DEF NoPay, Payloads
    <3>q. QED BY <3>1 DEF Unborn, Processes, Points, Gone
  <2>1. CASE p \notin Range(f)
    <3>1. proc[p] = Unborn
      BY <1>3, <2>1
    <3>q. QED BY <2>0, <3>1
  <2>2. CASE p \in Range(f)
    <3>1. PICK j \in Indexes : j = (CHOOSE i \in Indexes : f[i] = p) /\ f[j] = p
      BY <1>4, <2>2
    <3>2. proc[p] = [Unborn EXCEPT !.pc = "idle", !.at = j]
      BY <1>3, <2>2, <3>1
    <3>3. PICK t : t = [Unborn EXCEPT !.pc = "idle", !.at = j]
      OBVIOUS
    <3>4. /\ t \in Processes /\ t.pc = "idle" /\ t.at = j /\ t.todo = {} /\ t.who = 0 /\ ~t.sweep
      BY <3>3, ReapedAndHeir
    <3>q. QED BY <3>1, <3>2, <3>3, <3>4
  <2>q. QED BY <2>1, <2>2
<1>6. /\ slot = [s \in Slots |-> FreeSlot] /\ admission = 0 /\ guard = 0 /\ blocked = <<>>
      /\ pipe = [i \in Indexes |-> {}] /\ conns = [p \in Pids |-> {}]
      /\ next = 1 /\ born = [c \in Clients |-> <<0, 0>>] /\ credit = [c \in Clients |-> 0]
      /\ asked = {} /\ granted = {} /\ expelled = {}
  BY DEF Init
<1>7. FreeSlot \in Entries /\ FreeSlot.owner = 0 /\ ~FreeSlot.active /\ FreeSlot.ver = 0 /\ FreeSlot.disc = 0
      /\ FreeSlot.pay = NoPay /\ NoPay.id = 0 /\ NoPay.a = 0 /\ NoPay.b = 0
  BY DEF FreeSlot, NoPay, Entries, Payloads
<1>8. Types
  <2>1. proc \in [Pids -> Processes]
    BY <1>3, <1>5
  <2>2. \A c \in Clients : <<0, 0>> \in ({0} \union Slots) \X Nat
    OBVIOUS
  <2>q. QED BY <1>6, <1>7, <2>1, <2>2 DEF Types
<1>9. Rest0
  <2>1. <<>> \in Seq(Range(IpOf)) /\ Len(<<>>) = 0
    OBVIOUS
  <2>q. QED BY <1>6, <2>1, Constants DEF Rest0
<1>10. Cardinality(Reserved) <= MaxClients
  <2>1. Reserved = {}
    BY <1>6, <1>7 DEF Reserved
  <2>q. QED BY <2>1, Constants, FS_EmptySet
<1>11. \A s \in Slots : SlotRight(s)
  BY <1>6, <1>7 DEF SlotRight
<1>12. \A c \in Clients : BornRight(c) /\ GrantedRight(c)
  BY <1>6 DEF BornRight, GrantedRight
<1>13. ASSUME NEW p \in Pids
       PROVE  /\ Serves(p) /\ Owns(p, proc[p]) /\ Admits(p, proc[p]) /\ Counted(proc[p]) /\ Registers(proc[p])
              /\ Writes(p, proc[p]) /\ Reads(proc[p]) /\ Asks(proc[p]) /\ Pending(p)
  <2>1. PICK t : t = proc[p]
    OBVIOUS
  <2>2. /\ t.pc \in {"idle", "unborn"} /\ t.who = 0 /\ ~t.sweep /\ t.todo = {} /\ conns[p] = {} /\ p # 0
    BY <1>5, <1>6, <2>1, Constants
  <2>3. Serves(p) /\ Pending(p)
    BY <2>2 DEF Serves, Pending
  <2>4. \A s \in Slots : slot[s].owner # p
    BY <1>6, <1>7, <2>2
  <2>5. Owns(p, t) /\ Admits(p, t)
    BY <1>6, <2>2, <2>4 DEF Owns, Admits, Locked, Placed, Gone
  <2>6. Counted(t) /\ Registers(t) /\ Writes(p, t) /\ Reads(t) /\ Asks(t)
    BY <2>2 DEF Counted, Registers, Writes, Reads, Asks, Entering, Writing, Gone, Reading, Versioned, Copied, Checked, Accepted
  <2>q. QED BY <2>1, <2>3, <2>5, <2>6
<1>14. ASSUME NEW p \in Pids, NEW q \in Pids, p # q PROVE Apart(proc[p], proc[q])
  <2>1. /\ proc[p].pc \in {"idle", "unborn"} /\ proc[q].pc \in {"idle", "unborn"}
        /\ (proc[p].pc = "idle" => f[proc[p].at] = p) /\ (proc[q].pc = "idle" => f[proc[q].at] = q)
    BY <1>5
  <2>q. QED BY <1>14, <2>1 DEF Apart, Entering, Reading, Versioned, Copied, Checked, Accepted
<1>q. QED BY <1>6, <1>8, <1>9, <1>10, <1>11, <1>12, <1>13, <1>14 DEF IInv

\* Every step keeps it.
LEMMA StepKeeps ==
    ASSUME IInv, NEW p \in Pids, Step(p)
    PROVE  IInv'
<1>1. CASE Arrive(p) \/ LockGuard(p) \/ Check(p) \/ LockAdmission(p) \/ Count(p) \/ Reserve(p) \/ Unlock(p)
  BY <1>1, ArriveKeeps, LockGuardKeeps, CheckKeeps, LockAdmissionKeeps, CountKeeps, ReserveKeeps, UnlockKeeps
<1>2. CASE Wipe(p) \/ Number(p) \/ Fill(p) \/ Publish(p) \/ TellUpdate(p)
  BY <1>2, WipeKeeps, NumberKeeps, FillKeeps, PublishKeeps, TellUpdateKeeps
<1>3. CASE Update(p) \/ Leave(p) \/ Accumulate(p) \/ Release(p)
  BY <1>3, UpdateKeeps, LeaveKeeps, AccumulateKeeps, ReleaseKeeps
<1>4. CASE Ask(p) \/ Look(p) \/ Seen(p) \/ Confirm(p) \/ BlockIp(p) \/ TellDisconnect(p)
  BY <1>4, AskKeeps, LookKeeps, SeenKeeps, ConfirmKeeps, BlockIpKeeps, TellDisconnectKeeps
<1>5. CASE ReadPipe(p) \/ Sweep(p)
  BY <1>5, ReadPipeKeeps, SweepKeeps
<1>q. QED BY <1>1, <1>2, <1>3, <1>4, <1>5 DEF Step

\* While nothing happens, nothing changes.
LEMMA StutterKeeps ==
    ASSUME IInv, UNCHANGED vars
    PROVE  IInv'
<1>1. UNCHANGED <<slot, admission, guard, blocked, pipe, proc, conns, next, born, credit, updates, asked, granted, expelled>>
  BY DEF vars, locks, history
<1>2. Types' /\ Rest0' /\ Reserved' = Reserved
  BY <1>1 DEF IInv, Types, Rest0, Reserved
<1>3. ASSUME NEW s \in Slots PROVE SlotRight(s)'
  BY <1>1 DEF IInv, SlotRight
<1>4. ASSUME NEW c \in Clients PROVE BornRight(c)' /\ GrantedRight(c)'
  BY <1>1 DEF IInv, BornRight, GrantedRight
<1>5. ASSUME NEW p \in Pids
      PROVE  /\ Serves(p)' /\ Owns(p, proc[p])' /\ Admits(p, proc[p])' /\ Counted(proc[p])' /\ Registers(proc[p])'
             /\ Writes(p, proc[p])' /\ Reads(proc[p])' /\ Asks(proc[p])' /\ Pending(p)'
  <2>1. /\ Serves(p) /\ Owns(p, proc[p]) /\ Admits(p, proc[p]) /\ Counted(proc[p]) /\ Registers(proc[p])
        /\ Writes(p, proc[p]) /\ Reads(proc[p]) /\ Asks(proc[p]) /\ Pending(p)
    BY Known
  <2>2. \A s : Live(s)' <=> Live(s)
    BY <1>1 DEF Live
  <2>3. Serves(p)' /\ Owns(p, proc[p])' /\ Admits(p, proc[p])' /\ Asks(proc[p])'
    BY <1>1, <2>1 DEF Serves, Owns, Admits, Asks
  <2>4. Counted(proc[p])' /\ Registers(proc[p])'
    BY <1>1, <1>2, <2>1 DEF Counted, Registers
  <2>5. Writes(p, proc[p])' /\ Pending(p)'
    BY <1>1, <2>1 DEF Writes, Pending, Alive, Wanted
  <2>6. Reads(proc[p])'
    BY ZenonT(60), <1>1, <2>1, <2>2 DEF Reads
  <2>q. QED BY <2>3, <2>4, <2>5, <2>6
<1>6. ASSUME NEW p \in Pids, NEW q \in Pids, p # q PROVE Apart(proc[p], proc[q])'
  BY <1>1, <1>6 DEF IInv, Apart
<1>q. QED BY <1>1, <1>2, <1>3, <1>4, <1>5, <1>6 DEF IInv

\* Every step of the specification keeps the invariant.
LEMMA NextKeeps ==
    ASSUME IInv, [Next]_vars
    PROVE  IInv'
<1>1. CASE UNCHANGED vars
  BY <1>1, StutterKeeps
<1>2. CASE Expire
  BY <1>2, ExpireKeeps
<1>3. ASSUME NEW p \in Pids, Step(p) \/ Die(p) \/ Reap(p) PROVE IInv'
  BY <1>3, StepKeeps, DieKeeps, ReapKeeps
<1>q. QED BY <1>1, <1>2, <1>3 DEF Next

\* The inductive invariant always holds.
LEMMA AlwaysIInv == Spec => []IInv
<1>1. Init => IInv
  BY InitHolds
<1>2. IInv /\ [Next]_vars => IInv'
  BY NextKeeps
<1>q. QED BY <1>1, <1>2, PTL DEF Spec
-----------------------------------------------------------------------------
\* However workers and their deaths interleave, a slot belongs to the process
\* that uses it and to no other, names that process's client under the number
\* it was given, and is accounted for at most once.
THEOREM SlotsHaveOneOwner == Spec => []SlotsAreOwned
<1>1. ASSUME IInv PROVE SlotsAreOwned
  <2>1. TypeOK
    BY <1>1 DEF IInv, Types, Rest0, TypeOK, Entries, Payloads
  <2>2. ASSUME NEW p \in Pids, Alive(p)
        PROVE  /\ {s \in Slots : slot[s].owner = p} = Holding(p)
               /\ \A c \in conns[p] : /\ slot[c.slot].active /\ slot[c.slot].pay.id = c.who
                                      /\ born[c.who] = <<c.slot, slot[c.slot].gen>>
                                      /\ \A d \in conns[p] : d.slot = c.slot => d = c
    <3>1. /\ Serves(p) /\ Owns(p, proc[p]) /\ conns[p] \subseteq Registrations /\ proc[p].pc \notin Gone
      BY <1>1, <2>2, Known DEF Alive, Gone
    <3>2. \A c \in conns[p] : c.slot \in Slots /\ slot[c.slot].owner = p /\ c.who # 0
      BY <3>1, Constants DEF Serves, Registrations
    <3>3. proc[p].pc \in Placed => proc[p].slot \in Slots /\ slot[proc[p].slot].owner = p
      BY <3>1 DEF Owns
    <3>4. \A s \in Slots : slot[s].owner = p => (\E c \in conns[p] : c.slot = s) \/ (proc[p].pc \in Placed /\ proc[p].slot = s)
      BY <3>1 DEF Owns
    <3>5. Holding(p) = {c.slot : c \in conns[p]} \union (IF proc[p].pc \in Placed THEN {proc[p].slot} ELSE {})
      BY DEF Holding, Placed
    <3>6. {s \in Slots : slot[s].owner = p} = Holding(p)
      BY <3>2, <3>3, <3>4, <3>5
    <3>7. \A c \in conns[p] : born[c.who] = <<c.slot, slot[c.slot].gen>>
      <4>1. ASSUME NEW c \in conns[p] PROVE born[c.who] = <<c.slot, slot[c.slot].gen>>
        <5>1. slot[c.slot].pay.id = c.who /\ c.who # 0 /\ SlotRight(c.slot)
          BY <1>1, <3>1, <3>2 DEF Serves, IInv
        <5>q. QED BY <5>1 DEF SlotRight
      <4>q. QED BY <4>1
    <3>q. QED BY <3>1, <3>6, <3>7 DEF Serves
  <2>3. ASSUME NEW p \in Pids, proc[p].pc = "reaped" PROVE admission # p /\ \A s \in Slots : slot[s].owner # p
    BY <1>1, <2>3, Known DEF Owns, Admits
  <2>4. \A c \in Clients : credit[c] <= 1
    BY <1>1 DEF IInv, Types
  <2>q. QED BY <2>1, <2>2, <2>3, <2>4 DEF SlotsAreOwned
<1>q. QED BY <1>1, AlwaysIInv, PTL

\* A snapshot that was accepted names the client registered under the number
\* it is filed under, or nobody, and holds no half of an update if the slot was
\* that client's from the reading of its version on.
THEOREM SnapshotsAreWhole == Spec => []SnapshotIsOneClient
<1>1. ASSUME IInv PROVE SnapshotIsOneClient
  <2>1. ASSUME NEW p \in Pids, proc[p].pc = "seen"
        PROVE  /\ proc[p].pay.id = 0 \/ born[proc[p].pay.id] = <<proc[p].slot, proc[p].gen>>
               /\ proc[p].pay.id # 0 /\ slot[proc[p].slot].pay.id = proc[p].pay.id
                     /\ proc[p].since = slot[proc[p].slot].gen
                  => proc[p].pay.a = proc[p].pay.b
    <3>1. PICK r : r = proc[p]
      OBVIOUS
    <3>2. Reads(r) /\ r.pc \in Checked
      BY <1>1, <2>1, <3>1, Known DEF Checked, Accepted
    <3>3. r.pay.id = 0 \/ born[r.pay.id] = <<r.slot, r.gen>>
      BY <3>2 DEF Reads
    <3>q. QED BY <3>1, <3>2, <3>3 DEF Reads
  <2>2. ASSUME NEW p \in Pids, proc[p].pc = "seen", proc[p].pay.id # 0,
               slot[proc[p].slot].pay.id = proc[p].pay.id, proc[p].since = proc[p].gen
        PROVE  proc[p].pay.a = proc[p].pay.b
    <3>1. PICK r : r = proc[p]
      OBVIOUS
    <3>2. Reads(r) /\ r \in Processes /\ r.pc \in Checked /\ r.pc \in Reading
      BY <1>1, <2>2, <3>1, Known DEF Checked, Accepted, Reading, Versioned, Copied
    <3>3. PICK s \in Slots, c \in Clients : s = r.slot /\ c = r.pay.id /\ c # 0
      BY <2>2, <3>1, <3>2 DEF Reads, Processes, Payloads
    <3>4. SlotRight(s)
      BY <1>1 DEF IInv
    <3>5. born[c] = <<s, slot[s].gen>> /\ born[c] = <<s, r.gen>>
      BY <2>2, <3>1, <3>2, <3>3, <3>4 DEF SlotRight, Reads
    <3>6. r.since = slot[s].gen
      BY <2>2, <3>1, <3>5
    <3>q. QED BY <2>1, <2>2, <3>1, <3>3, <3>6
  <2>q. QED BY <2>1, <2>2 DEF SnapshotIsOneClient
<1>q. QED BY <1>1, AlwaysIInv, PTL

\* Nobody is closed by request whose disconnection was not asked for.
THEOREM TheRightOneIsClosed == Spec => []DisconnectHitsTarget
<1>1. IInv => DisconnectHitsTarget
  BY DEF IInv, DisconnectHitsTarget
<1>q. QED BY <1>1, AlwaysIInv, PTL

\* A request that was answered with success and still stands in the slot is
\* on its way to the worker that serves the client.
THEOREM AnswersAreKept == Spec => []AnsweredIsPending
<1>1. IInv => AnsweredIsPending
  BY DEF IInv, Pending, AnsweredIsPending
<1>q. QED BY <1>1, AlwaysIInv, PTL
=============================================================================
