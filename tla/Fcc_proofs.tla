----------------------------- MODULE Fcc_proofs -----------------------------
(***************************************************************************)
(* What holds of every FCC session, for all servers, limits and bounds:    *)
(* the burst is ended once, after the multicast has been joined, by any    *)
(* way out; copies of a redirect cost a bounded number of requests; and    *)
(* where burst and multicast meet, the client misses and repeats nothing.  *)
(***************************************************************************)
EXTENDS Fcc, Lemmas

\* The counts of what was sent, against what the session remembers of it.
Counted ==
    /\ termSent \in BOOLEAN
    /\ terms \in [sent : Nat, refused : Nat, told : SUBSET Servers]
    /\ terms.sent = (IF termSent THEN 1 ELSE 0)
    /\ redirects \in Nat /\ requests \in Nat
    /\ requests <= redirects + 1 /\ requests <= MaxRedirects + 1

\* A session that is over has sent the termination, or has tried to.
Ended == state = "CLOSED" => terms.sent = 1 \/ terms.refused > 0

\* A session that has joined never goes back to asking the server, so what
\* TermAfterJoin says of joined and state stays true.
OnlyForward ==
    /\ state \in States /\ joined \in BOOLEAN
    /\ Open /\ joined => state \in OnMcast
    /\ TermAfterJoin
    /\ Ended

IInv == Counted /\ OnlyForward

\* A burst is promised by the answer a session awaits, after which the server
\* in use stays the same; and that server is the one told.
Informed ==
    /\ server \in Servers
    /\ promised \subseteq {server}
    /\ state = "REQUESTED" => promised = {}
    /\ termSent => server \in terms.told

-----------------------------------------------------------------------------
\* Whether a call succeeds is a truth value.
LEMMA OutcomeKinds ==
    ASSUME NEW mayFail \in BOOLEAN, NEW ok \in Outcomes(mayFail)
    PROVE  ok \in BOOLEAN
BY DEF Outcomes

\* A bound of one more than a counter still holds when the counter grows.
LEMMA BoundGrows ==
    ASSUME NEW p \in Nat, NEW q \in Nat, NEW r \in Nat, p <= q + 1, r >= q
    PROVE  p <= r + 1
OBVIOUS

\* What Counted says of the requests, for redirects that only grow.
LEMMA RequestsBounded ==
    ASSUME IInv, redirects' \in Nat, redirects' >= redirects, requests' = requests
    PROVE  /\ requests' \in Nat
           /\ requests' <= redirects' + 1 /\ requests' <= MaxRedirects + 1
<1>1. /\ redirects \in Nat /\ requests \in Nat
      /\ requests <= redirects + 1 /\ requests <= MaxRedirects + 1
  BY DEF IInv, Counted
<1>2. requests <= redirects' + 1
  BY <1>1, BoundGrows
<1>q. QED BY <1>1, <1>2

\* The first termination is either sent or refused.
LEMMA SendCounts ==
    ASSUME Counted, ~termSent, NEW ok \in BOOLEAN, NEW to \in Servers, SendTerm(ok, to)
    PROVE  /\ termSent' = ok
           /\ terms' \in [sent : Nat, refused : Nat, told : SUBSET Servers]
           /\ terms'.sent = (IF termSent' THEN 1 ELSE 0)
           /\ ~termSent' => terms'.refused > 0
           /\ termSent' => to \in terms'.told
<1>1. /\ terms \in [sent : Nat, refused : Nat, told : SUBSET Servers] /\ terms.sent = 0
      /\ termSent' = ok
      /\ terms' = IF ok THEN [terms EXCEPT !.sent = @ + 1, !.told = @ \union {to}]
                        ELSE [terms EXCEPT !.refused = @ + 1]
  BY DEF Counted, SendTerm
<1>2. CASE ok
  <2> DEFINE all == terms.told \union {to}
  <2>1. terms' = [terms EXCEPT !.sent = terms.sent + 1, !.told = all]
    BY <1>1, <1>2
  <2>2. PICK r \in Nat, t \in SUBSET Servers : terms = [sent |-> 0, refused |-> r, told |-> t]
    BY <1>1
  <2>3. all \in SUBSET Servers /\ to \in all
    BY <2>2
  <2> HIDE DEF all
  <2>n. terms.sent + 1 = 1
    BY <1>1
  <2>4. terms' = [sent |-> 1, refused |-> r, told |-> all]
    BY ONLY <2>1, <2>2, <2>n
  <2>5. /\ terms' \in [sent : Nat, refused : Nat, told : SUBSET Servers] /\ terms'.sent = 1
        /\ to \in terms'.told
    BY <2>2, <2>3, <2>4
  <2>q. QED BY <1>1, <1>2, <2>5
<1>3. CASE ~ok
  <2>0. terms' = [terms EXCEPT !.refused = terms.refused + 1]
    BY <1>1, <1>3
  <2>1. PICK r \in Nat, t \in SUBSET Servers : /\ terms = [sent |-> 0, refused |-> r, told |-> t]
                                               /\ terms' = [sent |-> 0, refused |-> r + 1, told |-> t]
    BY <1>1, <2>0
  <2>2. /\ terms' \in [sent : Nat, refused : Nat, told : SUBSET Servers] /\ terms'.sent = 0
        /\ terms'.refused > 0
    BY <2>1
  <2>q. QED BY <1>1, <1>3, <2>2
<1>q. QED BY <1>2, <1>3

\* The clean-up sends the termination unless the session has, and closes it.
LEMMA CleanupCounts ==
    ASSUME Counted, NEW to \in Servers, Cleanup(to)
    PROVE  /\ state' = "CLOSED" /\ termSent' \in BOOLEAN
           /\ terms' \in [sent : Nat, refused : Nat, told : SUBSET Servers]
           /\ terms'.sent = (IF termSent' THEN 1 ELSE 0)
           /\ terms'.sent = 1 \/ terms'.refused > 0
           /\ termSent' => IF termSent THEN terms' = terms ELSE to \in terms'.told
<1>1. state' = "CLOSED"
  BY DEF Cleanup
<1>2. CASE termSent
  BY <1>1, <1>2 DEF Counted, Cleanup
<1>3. CASE ~termSent
  <2>1. PICK ok \in Outcomes(SendMayFail) : SendTerm(ok, to)
    BY <1>3 DEF Cleanup
  <2>2. ok \in BOOLEAN
    BY OutcomeKinds, FccAssumption
  <2>3. /\ termSent' = ok /\ terms' \in [sent : Nat, refused : Nat, told : SUBSET Servers]
        /\ terms'.sent = (IF termSent' THEN 1 ELSE 0)
        /\ ~termSent' => terms'.refused > 0
        /\ termSent' => to \in terms'.told
    BY <1>3, <2>1, <2>2, SendCounts
  <2>q. QED BY <1>1, <1>3, <2>2, <2>3
<1>q. QED BY <1>2, <1>3

\* What the counts may do while the clean-up runs keeps the invariant.
LEMMA CleanupKeeps ==
    ASSUME IInv, NEW to \in Servers, Cleanup(to), redirects' \in Nat, redirects' >= redirects, requests' = requests
    PROVE  IInv'
<1>1. Counted
  BY DEF IInv
<1>2. /\ state' = "CLOSED" /\ termSent' \in BOOLEAN
      /\ terms' \in [sent : Nat, refused : Nat, told : SUBSET Servers]
      /\ terms'.sent = (IF termSent' THEN 1 ELSE 0)
      /\ terms'.sent = 1 \/ terms'.refused > 0
  BY <1>1, CleanupCounts
<1>3. joined' = FALSE
  BY DEF Cleanup
<1>4. Counted'
  <2>1. /\ requests' \in Nat
        /\ requests' <= redirects' + 1 /\ requests' <= MaxRedirects + 1
    BY RequestsBounded
  <2>q. QED BY <1>2, <2>1 DEF Counted
<1>5. OnlyForward'
  BY <1>2, <1>3 DEF OnlyForward, States, Open, TermAfterJoin, Ended
<1>q. QED BY <1>4, <1>5 DEF IInv

\* A step of an open session that sends no termination and keeps nothing may
\* join the multicast, never leave it, and once it has joined is there to stay.
LEMMA Moves ==
    ASSUME IInv, Open, state' \in States \ {"CLOSED"}, joined' \in BOOLEAN,
           joined => joined', joined' => state' \in OnMcast,
           UNCHANGED <<termSent, terms, pending>>,
           redirects' \in Nat, requests' \in Nat,
           requests' <= redirects' + 1, requests' <= MaxRedirects + 1
    PROVE  IInv'
<1>1. Counted'
  BY DEF IInv, Counted
<1>2. OnlyForward'
  BY DEF IInv, OnlyForward, Open, TermAfterJoin, Ended
<1>q. QED BY <1>1, <1>2 DEF IInv

\* A step that leaves the session and its counts alone.
LEMMA Stays ==
    ASSUME IInv,
           UNCHANGED <<state, joined, termSent, terms, pending, redirects, requests>>
    PROVE  IInv'
BY DEF IInv, Counted, OnlyForward, Open, TermAfterJoin, Ended

\* Joining leaves a session that has joined as it is.
LEMMA JoinKeeps ==
    ASSUME joined \in BOOLEAN, NEW q, Join(q)
    PROVE  joined' \in BOOLEAN /\ (joined => joined')
<1>1. CASE joined
  BY <1>1 DEF Join
<1>2. CASE ~joined
  <2>1. PICK ok \in Outcomes(JoinMayFail) : joined' = ok
    BY <1>2 DEF Join
  <2>2. ok \in BOOLEAN
    BY OutcomeKinds, FccAssumption
  <2>q. QED BY <1>2, <2>1, <2>2
<1>q. QED BY <1>1, <1>2

\* Falling back and being told to join keep the invariant.
LEMMA FallBackKeeps ==
    ASSUME IInv, Open, NEW q, FallBack(q),
           UNCHANGED <<termSent, terms, pending, requests>>,
           redirects' \in Nat, redirects' >= redirects
    PROVE  IInv'
<1>1. state' = "MCAST_ACTIVE" /\ Join(q)
  BY DEF FallBack
<1>2. joined' \in BOOLEAN /\ (joined => joined')
  BY <1>1, JoinKeeps DEF IInv, OnlyForward
<1>3. state' \in States \ {"CLOSED"} /\ state' \in OnMcast
  BY <1>1 DEF States, OnMcast
<1>4. /\ requests' \in Nat
      /\ requests' <= redirects' + 1 /\ requests' <= MaxRedirects + 1
  BY RequestsBounded
<1>q. QED BY <1>2, <1>3, <1>4, Moves

\* The server telling the client to join at once.
LEMMA SyncKeeps ==
    ASSUME IInv, Open, NEW q, Sync(q),
           UNCHANGED <<termSent, terms, pending, requests, redirects>>
    PROVE  IInv'
<1>1. CASE state \in OnMcast
  BY <1>1, Stays DEF Sync
<1>2. CASE state \notin OnMcast
  <2>1. state' = "MCAST_REQUESTED" /\ Join(q)
    BY <1>2 DEF Sync
  <2>2. joined' \in BOOLEAN /\ (joined => joined')
    BY <2>1, JoinKeeps DEF IInv, OnlyForward
  <2>3. state' \in States \ {"CLOSED"} /\ state' \in OnMcast
    BY <2>1 DEF States, OnMcast
  <2>4. /\ redirects' \in Nat /\ requests' \in Nat
        /\ requests' <= redirects' + 1 /\ requests' <= MaxRedirects + 1
    BY DEF IInv, Counted
  <2>q. QED BY <2>2, <2>3, <2>4, Moves
<1>q. QED BY <1>1, <1>2

-----------------------------------------------------------------------------
\* A counter below a limit may be advanced once.
LEMMA OneMore ==
    ASSUME NEW p \in Nat, NEW q \in Nat, NEW n \in Nat, p <= q + 1, q < n
    PROVE  /\ p + 1 \in Nat /\ q + 1 \in Nat
           /\ p + 1 <= (q + 1) + 1 /\ p + 1 <= n + 1
OBVIOUS

\* Following a redirect costs a request, and the limit is on the redirects.
LEMMA RedirectKeeps ==
    ASSUME IInv, Informed, Open, state = "REQUESTED", NEW to \in Servers \union {NoServer}, Redirect(to)
    PROVE  IInv'
<1>1. /\ redirects \in Nat /\ requests \in Nat
      /\ requests <= redirects + 1 /\ requests <= MaxRedirects + 1
  BY DEF IInv, Counted
<1>2. CASE UNCHANGED <<state, joined, termSent, terms, pending, redirects, requests>>
  BY <1>2, Stays
<1>3. CASE /\ redirects' = redirects + 1 /\ FallBack(quiet)
           /\ UNCHANGED <<termSent, terms, pending, requests>>
  <2>1. redirects' \in Nat /\ redirects' >= redirects
    BY <1>1, <1>3
  <2>q. QED BY <1>3, <2>1, FallBackKeeps
<1>4. CASE /\ redirects' = redirects + 1 /\ requests' = requests + 1
           /\ redirects < MaxRedirects /\ state' = "REQUESTED"
           /\ UNCHANGED <<joined, termSent, terms, pending>>
  <2>1. /\ requests' \in Nat /\ redirects' \in Nat
        /\ requests' <= redirects' + 1 /\ requests' <= MaxRedirects + 1
    <3>1. MaxRedirects \in Nat
      BY FccAssumption
    <3>2. /\ requests + 1 \in Nat /\ redirects + 1 \in Nat
          /\ requests + 1 <= (redirects + 1) + 1 /\ requests + 1 <= MaxRedirects + 1
      BY <1>1, <1>4, <3>1, OneMore
    <3>q. QED BY <1>4, <3>2
  <2>2. ~joined /\ joined \in BOOLEAN
    BY DEF IInv, OnlyForward, OnMcast
  <2>3. state' \in States \ {"CLOSED"}
    BY <1>4 DEF States, Signalling
  <2>q. QED BY <1>4, <2>1, <2>2, <2>3, Moves
<1> DEFINE target == IF to = NoServer THEN server ELSE to
<1>5. CASE redirects' = redirects + 1 /\ Cleanup(target) /\ requests' = requests
  <2>1. redirects' \in Nat /\ redirects' >= redirects
    BY <1>1, <1>5
  <2>2. target \in Servers
    BY DEF Informed
  <2>q. QED BY <1>5, <2>1, <2>2, CleanupKeeps
<1>q. QED BY <1>2, <1>3, <1>4, <1>5 DEF Redirect

\* A response counts while one is awaited, when nothing has been joined yet.
LEMMA ResponseKeeps ==
    ASSUME IInv, Informed, Open, state = "REQUESTED", NEW kind \in Kinds \ {"sync"},
           NEW to \in Servers \union {NoServer}, Response(kind, to)
    PROVE  IInv'
<1>1. redirects \in Nat /\ redirects >= redirects
  BY DEF IInv, Counted
<1>2. CASE kind \in {"error", "noUnicast", "unknown"}
  <2>1. Refused
    BY <1>2 DEF Response
  <2>q. QED BY <1>1, <2>1, FallBackKeeps DEF Refused
<1>3. CASE kind = "unicast"
  <2>1. Accepted
    BY <1>3 DEF Response
  <2>2. ~joined /\ joined \in BOOLEAN
    BY DEF IInv, OnlyForward, OnMcast
  <2>3. state' \in States \ {"CLOSED"}
    BY <2>1 DEF Accepted, States, Signalling
  <2>4. /\ redirects' \in Nat /\ requests' \in Nat
        /\ requests' <= redirects' + 1 /\ requests' <= MaxRedirects + 1
    BY <2>1 DEF Accepted, IInv, Counted
  <2>q. QED BY <2>1, <2>2, <2>3, <2>4, Moves DEF Accepted
<1>4. CASE kind = "redirect"
  BY <1>4, RedirectKeeps DEF Response
<1>5. kind \in {"error", "noUnicast", "unicast", "redirect", "unknown"}
  BY FccAssumption
<1>q. QED BY <1>2, <1>3, <1>4, <1>5

\* A packet on the control port, whatever it says.
LEMMA ControlKeeps ==
    ASSUME IInv, Informed, Control
    PROVE  IInv'
<1>1. PICK from \in Servers, kind \in Kinds, to \in Servers \union {NoServer} :
         ControlMessage(from, kind, to)
  BY DEF Control
<1>2. Open
  BY <1>1 DEF ControlMessage
<1>3. CASE kind = "sync"
  <2>1. Sync(quiet) /\ UNCHANGED <<termSent, terms, pending, requests, redirects>>
    BY <1>1, <1>3 DEF ControlMessage
  <2>q. QED BY <1>2, <2>1, SyncKeeps
<1>4. CASE kind # "sync" /\ state = "REQUESTED"
  <2>1. Response(kind, to)
    BY <1>1, <1>4 DEF ControlMessage
  <2>q. QED BY <1>2, <1>4, <2>1, ResponseKeeps
<1>5. CASE kind # "sync" /\ state # "REQUESTED"
  BY <1>1, <1>5, Stays DEF ControlMessage
<1>q. QED BY <1>3, <1>4, <1>5

-----------------------------------------------------------------------------
\* A packet of the burst moves the session on, never back.
LEMMA UnicastKeeps ==
    ASSUME IInv, Unicast
    PROVE  IInv'
<1>1. PICK from \in Servers, p \in flight : UnicastMedia(from, p)
  BY DEF Unicast
<1>2. /\ Open
      /\ UNCHANGED <<joined, termSent, terms, pending, redirects, requests>>
  BY <1>1 DEF UnicastMedia, ghosts
<1>3. CASE state' = state
  BY <1>2, <1>3, Stays
<1>4. CASE state' # state
  <2>1. \/ state' = "MCAST_ACTIVE"
        \/ state = "UNICAST_PENDING" /\ state' = "UNICAST_ACTIVE"
    BY <1>1, <1>4 DEF UnicastMedia, Progress
  <2>2. joined \in BOOLEAN /\ (joined => state \in OnMcast)
    BY <1>2 DEF IInv, OnlyForward
  <2>3. state' \in States \ {"CLOSED"} /\ (joined => state' \in OnMcast)
    BY <2>1, <2>2 DEF States, OnMcast
  <2>4. /\ redirects' \in Nat /\ requests' \in Nat
        /\ requests' <= redirects' + 1 /\ requests' <= MaxRedirects + 1
    BY <1>2 DEF IInv, Counted
  <2>q. QED BY <1>2, <2>2, <2>3, <2>4, Moves
<1>q. QED BY <1>3, <1>4

\* So does a datagram with nothing in it.
LEMMA ChatterKeeps ==
    ASSUME IInv, Chatter
    PROVE  IInv'
<1>1. /\ Open
      /\ UNCHANGED <<joined, termSent, terms, pending, redirects, requests>>
  BY DEF Chatter, ghosts
<1>2. CASE state' = state
  BY <1>1, <1>2, Stays
<1>3. CASE state' # state
  <2>1. \/ state' = "MCAST_ACTIVE"
        \/ state = "UNICAST_PENDING" /\ state' = "UNICAST_ACTIVE"
    BY <1>3 DEF Chatter, Progress
  <2>2. joined \in BOOLEAN /\ (joined => state \in OnMcast)
    BY <1>1 DEF IInv, OnlyForward
  <2>3. state' \in States \ {"CLOSED"} /\ (joined => state' \in OnMcast)
    BY <2>1, <2>2 DEF States, OnMcast
  <2>4. /\ redirects' \in Nat /\ requests' \in Nat
        /\ requests' <= redirects' + 1 /\ requests' <= MaxRedirects + 1
    BY <1>1 DEF IInv, Counted
  <2>q. QED BY <1>1, <2>2, <2>3, <2>4, Moves
<1>q. QED BY <1>2, <1>3

\* The first packet of the multicast sends the termination, the only one.
LEMMA McastKeeps ==
    ASSUME IInv, Informed, McastMedia
    PROVE  IInv'
<1>1. /\ Open /\ joined
      /\ UNCHANGED <<state, joined, redirects, requests>>
  BY DEF McastMedia
<1>2. /\ state \in OnMcast /\ state' # "CLOSED" /\ joined'
  BY <1>1 DEF IInv, OnlyForward, Open
<1>3. /\ termSent' \in BOOLEAN
      /\ terms' \in [sent : Nat, refused : Nat, told : SUBSET Servers]
      /\ terms'.sent = (IF termSent' THEN 1 ELSE 0)
      /\ pending' # <<>> => termSent'
  <2>1. CASE UNCHANGED <<termSent, terms>> /\ (pending' = pending \/ pending' = <<>> \/ termSent)
    BY <1>1, <2>1 DEF IInv, Counted, OnlyForward, TermAfterJoin
  <2>2. CASE /\ ~termSent
             /\ \E ok \in Outcomes(SendMayFail) :
                  SendTerm(ok, server) /\ pending' = (IF ok THEN Append(pending, live) ELSE pending)
    <3>1. PICK ok \in Outcomes(SendMayFail) :
             SendTerm(ok, server) /\ pending' = (IF ok THEN Append(pending, live) ELSE pending)
      BY <2>2
    <3>2. ok \in BOOLEAN
      BY OutcomeKinds, FccAssumption
    <3>4. /\ termSent' = ok /\ terms' \in [sent : Nat, refused : Nat, told : SUBSET Servers]
          /\ terms'.sent = (IF termSent' THEN 1 ELSE 0)
      BY <2>2, <3>1, <3>2, SendCounts DEF IInv, Informed
    <3>5. ~ok => pending' = <<>>
      BY <1>1, <2>2, <3>1, <3>2 DEF IInv, OnlyForward, TermAfterJoin
    <3>q. QED BY <3>2, <3>4, <3>5
  <2>3. \/ failed /\ UNCHANGED <<pending, termSent, terms>>
        \/ Active(live)
        \/ Transition(live)
    BY DEF McastMedia
  <2>q. QED BY <2>1, <2>2, <2>3 DEF Active, Transition
<1>4. Counted'
  BY <1>1, <1>3 DEF IInv, Counted
<1>5. OnlyForward'
  BY <1>1, <1>2, <1>3 DEF IInv, OnlyForward, Open, TermAfterJoin, Ended
<1>q. QED BY <1>4, <1>5 DEF IInv

-----------------------------------------------------------------------------
\* A tick may fall back, join, or change nothing but the clocks.
LEMMA TickKeeps ==
    ASSUME IInv, Tick
    PROVE  IInv'
<1>1. /\ Open
      /\ UNCHANGED <<termSent, terms, pending, requests, redirects>>
  BY DEF Tick, TicksPass
<1>2. redirects' \in Nat /\ redirects' >= redirects
  BY <1>1 DEF IInv, Counted
<1>3. \E q : FallBack(q) \/ Sync(q) \/ UNCHANGED <<state, joined>>
  BY DEF Tick
<1>4. ASSUME NEW q, FallBack(q) PROVE IInv'
  BY <1>1, <1>2, <1>4, FallBackKeeps
<1>5. ASSUME NEW q, Sync(q) PROVE IInv'
  BY <1>1, <1>5, SyncKeeps
<1>6. CASE UNCHANGED <<state, joined>>
  BY <1>1, <1>6, Stays
<1>q. QED BY <1>3, <1>4, <1>5, <1>6

\* The stream ends, with or without a session to end.
LEMMA ClosingKeeps ==
    ASSUME IInv, Informed, Closing
    PROVE  IInv'
<1>1. Cleanup(server) /\ UNCHANGED <<requests, redirects>>
  BY DEF Closing
<1>2. redirects' \in Nat /\ redirects' >= redirects
  BY <1>1 DEF IInv, Counted
<1>q. QED BY <1>1, <1>2, CleanupKeeps DEF Informed

\* A session starts with nothing sent.
LEMMA Initially == Init => IInv
<1> SUFFICES ASSUME Init PROVE IInv
  OBVIOUS
<1>1. Counted
  <2>1. requests = 1 /\ redirects = 0 /\ termSent = FALSE /\ terms = [sent |-> 0, refused |-> 0, told |-> {}]
    BY DEF Init
  <2>2. MaxRedirects \in Nat
    BY FccAssumption
  <2>3. /\ redirects \in Nat /\ requests \in Nat
        /\ requests <= redirects + 1 /\ requests <= MaxRedirects + 1
    BY <2>1, <2>2
  <2>4. /\ termSent \in BOOLEAN /\ terms \in [sent : Nat, refused : Nat, told : SUBSET Servers]
        /\ terms.sent = (IF termSent THEN 1 ELSE 0)
    BY <2>1
  <2>q. QED BY <2>3, <2>4 DEF Counted
<1>2. OnlyForward
  BY DEF Init, OnlyForward, States, Signalling, Open, TermAfterJoin, Ended
<1>q. QED BY <1>1, <1>2 DEF IInv

\* Every step of the client keeps IInv.
LEMMA Inductive == IInv /\ Informed /\ [Next]_vars => IInv'
<1> SUFFICES ASSUME IInv, Informed, [Next]_vars PROVE IInv'
  OBVIOUS
<1>1. CASE Control
  BY <1>1, ControlKeeps
<1>2. CASE ServerSends
  BY <1>2, Stays DEF ServerSends, session, ghosts
<1>3. CASE UnicastLost
  BY <1>3, Stays DEF UnicastLost, session, ghosts
<1>4. CASE Unicast
  BY <1>4, UnicastKeeps
<1>5. CASE McastMedia
  BY <1>5, McastKeeps
<1>6. CASE McastLost
  BY <1>6, Stays DEF McastLost, session, ghosts
<1>7. CASE Tick
  BY <1>7, TickKeeps
<1>8. CASE TickCloses
  BY <1>8, ClosingKeeps DEF TickCloses
<1>9. CASE ViewerLeaves
  BY <1>9, ClosingKeeps DEF ViewerLeaves
<1>10. CASE UNCHANGED vars
  BY <1>10, Stays DEF vars, session, media, ghosts
<1>11. CASE Dropped
  BY <1>11, Stays DEF Dropped, ControlDropped, UnicastDropped, session, ghosts
<1>12. CASE Chatter
  BY <1>12, ChatterKeeps
<1>q. QED BY <1>1, <1>2, <1>3, <1>4, <1>5, <1>6, <1>7, <1>8, <1>9, <1>10, <1>11, <1>12 DEF Next

-----------------------------------------------------------------------------
\* A step that leaves the server, and what it was told, alone.
LEMMA SameServer ==
    ASSUME Informed, UNCHANGED <<server, promised, termSent, terms>>,
           state' = "REQUESTED" => state = "REQUESTED"
    PROVE  Informed'
BY DEF Informed

\* Being told to join does not make a session ask again.
LEMMA SyncAsksNobody ==
    ASSUME NEW q, Sync(q)
    PROVE  state' = "REQUESTED" => state = "REQUESTED"
BY DEF Sync

\* A response is the first to promise anything, and nothing has been sent yet.
LEMMA ResponseInforms ==
    ASSUME IInv, Informed, Open, state = "REQUESTED", NEW kind \in Kinds \ {"sync"},
           NEW to \in Servers \union {NoServer}, Response(kind, to)
    PROVE  Informed'
<1> DEFINE target == IF to = NoServer THEN server ELSE to
<1>1. /\ server \in Servers /\ target \in Servers /\ promised = {} /\ termSent = FALSE
      /\ Counted
  BY DEF Informed, IInv, Counted, OnlyForward, TermAfterJoin, OnMcast
<1>2. promised' = IF kind = "unicast" THEN promised \union {server'} ELSE promised
  BY DEF Response
<1>3. CASE kind \in {"error", "noUnicast", "unknown"}
  <2>1. server' \in {server, target} /\ termSent' = termSent
    BY <1>3 DEF Response, Refused, TakeEndpoint
  <2>2. promised' = {}
    BY <1>1, <1>2, <1>3
  <2>q. QED BY <1>1, <2>1, <2>2 DEF Informed
<1>4. CASE kind = "unicast"
  <2>1. server' = target /\ termSent' = termSent /\ state' = "UNICAST_PENDING"
    BY <1>4 DEF Response, Accepted, TakeEndpoint
  <2>2. promised' = {server'}
    BY <1>1, <1>2, <1>4
  <2>q. QED BY <1>1, <2>1, <2>2 DEF Informed
<1>5. CASE kind = "redirect"
  <2>1. promised' = {} /\ Redirect(to)
    BY <1>1, <1>2, <1>5 DEF Response
  <2>2. \/ server' \in {server, target} /\ termSent' = termSent
        \/ server' = target /\ Cleanup(target)
    BY <2>1 DEF Redirect
  <2>3. CASE server' \in {server, target} /\ termSent' = termSent
    BY <1>1, <2>1, <2>3 DEF Informed
  <2>4. CASE server' = target /\ Cleanup(target)
    <3> HIDE DEF target
    <3>1. termSent' => target \in terms'.told
      BY <1>1, <2>4, CleanupCounts
    <3>q. QED BY <1>1, <2>1, <2>4, <3>1 DEF Informed
  <2>q. QED BY <2>2, <2>3, <2>4
<1>6. kind \in {"error", "noUnicast", "unicast", "redirect", "unknown"}
  BY FccAssumption
<1>q. QED BY <1>3, <1>4, <1>5, <1>6

\* The end of the session tells the server in use, unless that has been done.
LEMMA ClosingInforms ==
    ASSUME IInv, Informed, Closing
    PROVE  Informed'
<1>1. Cleanup(server) /\ UNCHANGED <<server, promised>> /\ server \in Servers /\ Counted
  BY DEF Closing, Informed, IInv
<1>2. /\ state' = "CLOSED"
      /\ termSent' => IF termSent THEN terms' = terms ELSE server \in terms'.told
  BY <1>1, CleanupCounts
<1>q. QED BY <1>1, <1>2 DEF Informed

\* The first packet of the multicast tells the server in use.
LEMMA McastInforms ==
    ASSUME IInv, Informed, McastMedia
    PROVE  Informed'
<1>1. UNCHANGED <<state, server, promised>> /\ Counted /\ server \in Servers
  BY DEF McastMedia, IInv, Informed
<1>2. UNCHANGED <<termSent, terms>> \/ (~termSent /\ \E ok \in Outcomes(SendMayFail) : SendTerm(ok, server))
  BY DEF McastMedia, Active, Transition
<1>3. CASE UNCHANGED <<termSent, terms>>
  BY <1>1, <1>3, SameServer
<1>4. CASE ~termSent /\ \E ok \in Outcomes(SendMayFail) : SendTerm(ok, server)
  <2>1. PICK ok \in Outcomes(SendMayFail) : SendTerm(ok, server)
    BY <1>4
  <2>2. ok \in BOOLEAN
    BY OutcomeKinds, FccAssumption
  <2>3. termSent' => server \in terms'.told
    BY <1>1, <1>4, <2>1, <2>2, SendCounts
  <2>q. QED BY <1>1, <2>3 DEF Informed
<1>q. QED BY <1>2, <1>3, <1>4

\* Every step keeps who has promised a burst and who has been told.
LEMMA InformedKept ==
    ASSUME IInv, Informed, [Next]_vars
    PROVE  Informed'
<1>1. CASE Control
  <2>1. PICK from \in Servers, kind \in Kinds, to \in Servers \union {NoServer} :
           ControlMessage(from, kind, to)
    BY <1>1 DEF Control
  <2>2. CASE kind = "sync"
    <3>1. Sync(quiet) /\ UNCHANGED <<server, promised, termSent, terms>>
      BY <2>1, <2>2 DEF ControlMessage
    <3>q. QED BY <3>1, SyncAsksNobody, SameServer
  <2>3. CASE kind # "sync" /\ state = "REQUESTED"
    <3>1. Response(kind, to) /\ Open
      BY <2>1, <2>3 DEF ControlMessage
    <3>q. QED BY <2>3, <3>1, ResponseInforms
  <2>4. CASE kind # "sync" /\ state # "REQUESTED"
    <3>1. UNCHANGED <<state, server, promised, termSent, terms>>
      BY <2>1, <2>4 DEF ControlMessage
    <3>q. QED BY <3>1, SameServer
  <2>q. QED BY <2>2, <2>3, <2>4
<1>2. CASE ServerSends \/ UnicastLost \/ McastLost \/ Dropped
  <2>1. UNCHANGED <<state, server, promised, termSent, terms>>
    BY <1>2 DEF ServerSends, UnicastLost, McastLost, Dropped, ControlDropped, UnicastDropped,
                session, ghosts
  <2>q. QED BY <2>1, SameServer
<1>3. CASE Unicast
  <2>1. PICK from \in Servers, p \in flight : UnicastMedia(from, p)
    BY <1>3 DEF Unicast
  <2>2. /\ UNCHANGED <<server, promised, termSent, terms>>
        /\ state' = "REQUESTED" => state = "REQUESTED"
    BY <2>1 DEF UnicastMedia, Progress, ghosts
  <2>q. QED BY <2>2, SameServer
<1>4. CASE Chatter
  <2>1. /\ UNCHANGED <<server, promised, termSent, terms>>
        /\ state' = "REQUESTED" => state = "REQUESTED"
    BY <1>4 DEF Chatter, Progress, ghosts
  <2>q. QED BY <2>1, SameServer
<1>5. CASE McastMedia
  BY <1>5, McastInforms
<1>6. CASE Tick
  <2>1. UNCHANGED <<server, promised, termSent, terms>>
    BY <1>6 DEF Tick
  <2>2. \E q : FallBack(q) \/ Sync(q) \/ state' = state
    BY <1>6 DEF Tick
  <2>3. state' = "REQUESTED" => state = "REQUESTED"
    BY <2>2, SyncAsksNobody DEF FallBack
  <2>q. QED BY <2>1, <2>3, SameServer
<1>7. CASE TickCloses \/ ViewerLeaves
  BY <1>7, ClosingInforms DEF TickCloses, ViewerLeaves
<1>8. CASE UNCHANGED vars
  <2>1. UNCHANGED <<state, server, promised, termSent, terms>>
    BY <1>8 DEF vars, session, ghosts
  <2>q. QED BY <2>1, SameServer
<1>q. QED BY <1>1, <1>2, <1>3, <1>4, <1>5, <1>6, <1>7, <1>8 DEF Next

\* At first nothing is promised.
LEMMA InformedInitially == Init => Informed
BY FccAssumption DEF Init, Informed

\* What is told when the session is over is told to all whom it concerns.
LEMMA ToldAll ==
    ASSUME IInv, Informed
    PROVE  EndsBurst
<1>1. ASSUME state = "CLOSED", ~(terms.refused > 0)
      PROVE  promised \union {server} \subseteq terms.told
  <2>1. terms.sent = 1
    BY <1>1 DEF IInv, OnlyForward, Ended
  <2>2. termSent
    BY <2>1 DEF IInv, Counted
  <2>q. QED BY <2>2 DEF Informed
<1>q. QED BY <1>1 DEF EndsBurst

\* IInv holds of every behaviour, and everybody is informed.
THEOREM Invariance == Spec => [](IInv /\ Informed)
<1>1. Init => IInv /\ Informed
  BY Initially, InformedInitially
<1>2. IInv /\ Informed /\ [Next]_vars => IInv' /\ Informed'
  BY Inductive, InformedKept
<1>q. QED BY <1>1, <1>2, PTL DEF Spec

-----------------------------------------------------------------------------
\* fcc_session_cleanup() and the handover both send the termination; whatever
\* order they come in and whichever sends fail, the server gets at most one.
THEOREM AtMostOneTermination == Spec => []OneTermination
<1>1. IInv => OneTermination
  BY DEF IInv, Counted, OneTermination
<1>q. QED BY <1>1, Invariance, PTL

\* Whoever promised a burst, and the server in use, has been told to stop when
\* the session is over, however it ended, unless sendto() refused: after the
\* answer that promises one no message moves the session to another server.
THEOREM BurstIsEnded == Spec => []EndsBurst
<1>1. IInv /\ Informed => EndsBurst
  BY ToldAll
<1>q. QED BY <1>1, Invariance, PTL

\* The burst is ended only once the multicast has been joined, and packets are
\* kept for the handover only once the end of the burst is fixed.
THEOREM JoinsBeforeTermination == Spec => []TermAfterJoin
<1>1. IInv => TermAfterJoin
  BY DEF IInv, OnlyForward
<1>q. QED BY <1>1, Invariance, PTL

\* Whatever the servers answer, copies and redirects in a circle included, a
\* session sends at most one request more than FCC_MAX_REDIRECTS.
THEOREM RequestsAreBounded == Spec => []BoundedRequests
<1>1. IInv => BoundedRequests
  BY DEF IInv, Counted, BoundedRequests
<1>q. QED BY <1>1, Invariance, PTL
-----------------------------------------------------------------------------
(* No gap at the joint.  While no packet is lost, the window never has     *)
(* to be moved up: a packet of the burst that is missing is under way, and *)
(* those that overtake it fit into the window behind it.                   *)

Windows == [slots : [Slots -> Int], base : SeqNums, count : SeqNums, phase : 0..2]

\* base stands for packet B, and the window has the packets S and no others.
Holds(r, B, S) ==
    /\ r \in Windows /\ r.base = B % M
    /\ S \subseteq B..(B + W - 1) /\ r.count = Cardinality(S)
    /\ \A p \in S : r.slots[p % W] = p
    /\ \A i \in Slots : r.slots[i] # NoPkt => r.slots[i] \in S /\ r.slots[i] % W = i

\* The packets of the burst that have come.
Received == (Start..(nextUni - 1)) \ flight

\* The window r has what it should of the packets R, of a burst that is sent up
\* to n, when end is the last packet handed out: either all of them, or those
\* beyond the first that is missing, everything before having been handed out.
InStep(r, R, end, n) ==
    \/ r = Fresh /\ R = {} /\ end = -1
    \/ /\ r.phase = 1 /\ end = -1
       /\ \E B \in R : (\A p \in R : B <= p) /\ Holds(r, B, R) /\ r.count < InitCollect
    \/ /\ r.phase = 2
       /\ \E B \in Start..n : B \notin R /\ Holds(r, B, {p \in R : p > B}) /\ end = B - 1

\* How far the burst and the multicast may have got.
Reach ==
    /\ flight \subseteq Start..(nextUni - 1)
    /\ \A p \in flight : nextUni - p <= MaxFlight
    /\ nextUni \in Nat /\ live \in Nat
    /\ Start <= nextUni /\ nextUni <= live /\ live - Start <= M \div 2

\* The sizes.
LEMMA Sizes ==
    /\ W \in Nat \ {0} /\ M \in Nat \ {0} /\ M % W = 0 /\ InitCollect \in Nat /\ InitCollect >= 2
    /\ InitCollect <= W /\ 2 * W <= M
    /\ Start \in Nat /\ MaxFlight \in Nat
BY WindowAssumption, FccAssumption

\* A packet that is up to half the sequence space away is seen to be ahead
\* exactly when it is, and less than half away Ahead() tells the distance.
LEMMA AheadIsDistance ==
    ASSUME NEW p \in Int, NEW B \in Int, p - B < M \div 2, B - p <= M \div 2
    PROVE  Ahead(SeqNum(p), B % M) = p - B
<1>1. ((p % M) - (B % M)) % M = (p - B) % M
  BY Sizes, ModCong
<1> DEFINE d == (p - B) % M
           h == M \div 2
<1>2. Ahead(SeqNum(p), B % M) = IF d < h THEN d ELSE d - M
  BY <1>1 DEF Ahead, SeqNum
<1>3. h \in Int /\ 2 * h <= M /\ M <= 2 * h + 1
  BY Sizes
<1>4. p - B >= 0 => d = p - B
  <2>1. p - B >= 0 => p - B \in 0..(M - 1) /\ p - B = M * 0 + (p - B)
    BY Sizes
  <2>q. QED BY <2>1, Sizes, RemainderIs
<1>5. p - B < 0 => d = p - B + M
  <2>1. p - B < 0 => p - B + M \in 0..(M - 1) /\ p - B = M * (-1) + (p - B + M)
    BY Sizes
  <2>q. QED BY <2>1, Sizes, RemainderIs
<1>6. p - B < h /\ B - p <= h
  OBVIOUS
<1> HIDE DEF d, h
<1>q. QED BY <1>2, <1>3, <1>4, <1>5, <1>6, Sizes

\* The slot of a number is that of the packet.
LEMMA SlotOfPacket ==
    ASSUME NEW p \in Int, NEW k \in Int
    PROVE  /\ Slot((p % M) + k) = (p + k) % W /\ Slot(SeqNum(p)) = p % W
           /\ p % W \in Slots /\ p % M \in SeqNums
           /\ ((p % M) + k) % M = (p + k) % M
<1>1. ((p % M) + k) % W = (p + k) % W /\ (p % M) % W = p % W
  BY Sizes, ModMod
<1>3. p % W \in 0..(W - 1) /\ p % M \in 0..(M - 1)
  BY Sizes, DivMod
<1>4. ((p % M) + k) % M = (p + k) % M
  BY Sizes, ModCong
<1>q. QED BY <1>1, <1>3, <1>4 DEF Slot, SeqNum, Slots, SeqNums

\* What the window has k numbers ahead of base.
LEMMA HeldAt ==
    ASSUME NEW r, NEW B \in Nat, NEW S, Holds(r, B, S), NEW k \in 0..(W - 1)
    PROVE  /\ B + k \in S => At(r, k) = B + k /\ At(r, k) # NoPkt
           /\ B + k \notin S => At(r, k) = NoPkt
<1>0. k \in Int /\ B + k \in Int /\ 0 <= k /\ k < W /\ B + k # NoPkt
  BY Sizes DEF NoPkt
<1>1. (B + k) % W \in Slots /\ Slot((B % M) + k) = (B + k) % W
  BY <1>0, SlotOfPacket
<1>2. At(r, k) = r.slots[(B + k) % W]
  BY <1>1 DEF At, Holds
<1>3. B + k \in S => At(r, k) = B + k
  BY <1>2 DEF Holds
<1>4. ASSUME At(r, k) # NoPkt PROVE B + k \in S
  <2> DEFINE q == At(r, k)
  <2>1. q \in S /\ q % W = (B + k) % W
    BY <1>1, <1>2, <1>4 DEF Holds
  <2>2. S \subseteq B..(B + W - 1)
    BY DEF Holds
  <2> HIDE DEF q
  <2>3. q \in Int /\ q - (B + k) < W /\ (B + k) - q < W
    BY <1>0, <2>1, <2>2, Sizes
  <2>4. q = B + k
    BY <1>0, <2>1, <2>3, Sizes, ModSame
  <2>q. QED BY <2>1, <2>4
<1>q. QED BY <1>0, <1>3, <1>4

\* How many packets the window has, and that the set is finite.
LEMMA HowMany ==
    ASSUME NEW B \in Nat, NEW S, S \subseteq B..(B + W - 1)
    PROVE  /\ IsFiniteSet(S) /\ Cardinality(S) \in Nat /\ Cardinality(S) <= W
           /\ \A n \in 0..W : S \ (B..(B + n - 1)) = {q \in S : q >= B + n}
<1>1. IsFiniteSet(B..(B + W - 1)) /\ Cardinality(B..(B + W - 1)) = W
  <2>1. B + W - 1 \in Int /\ ~(B > B + W - 1) /\ (B + W - 1) - B + 1 = W /\ B \in Int
    BY Sizes
  <2>q. QED BY <2>1, FS_Interval
<1>2. IsFiniteSet(S) /\ Cardinality(S) <= W
  BY <1>1, FS_Subset
<1>3. Cardinality(S) \in Nat
  BY <1>2, FS_CardinalityType
<1>4. ASSUME NEW n \in 0..W PROVE S \ (B..(B + n - 1)) = {q \in S : q >= B + n}
  <2>1. \A q \in S : q \in Int /\ q >= B
    BY Sizes
  <2>2. n \in Int
    BY Sizes
  <2>3. \A q \in S : ~(q \in B..(B + n - 1)) <=> q >= B + n
    BY <2>1, <2>2
  <2>q. QED BY <2>3
<1>q. QED BY <1>2, <1>3, <1>4

-----------------------------------------------------------------------------
\* A packet within the window that it does not have goes into its slot, which
\* is free.
LEMMA StoreKeeps ==
    ASSUME NEW r, NEW B \in Nat, NEW S, Holds(r, B, S),
           NEW p \in Nat, p \notin S, B <= p, p < B + W
    PROVE  /\ Holds(Store(r, p), B, S \union {p})
           /\ Store(r, p).phase = r.phase /\ Store(r, p).base = r.base
           /\ Store(r, p).count = r.count + 1
           /\ r.slots[p % W] = NoPkt
<1>1. p % W \in Slots /\ Slot(SeqNum(p)) = p % W
  BY SlotOfPacket
<1>2. S \subseteq B..(B + W - 1) /\ S \union {p} \subseteq B..(B + W - 1)
  BY Sizes DEF Holds
<1>3. r.count + 1 = Cardinality(S \union {p}) /\ r.count + 1 \in 0..W
  <2>1. IsFiniteSet(S) /\ Cardinality(S) \in Nat
    BY <1>2, HowMany
  <2>2. Cardinality(S \union {p}) = Cardinality(S) + 1
    BY <2>1, FS_AddElement
  <2>3. Cardinality(S \union {p}) <= W /\ Cardinality(S \union {p}) \in Nat
    BY <1>2, HowMany
  <2>q. QED BY <2>1, <2>2, <2>3, Sizes DEF Holds
<1>4. (r.count + 1) % M = r.count + 1 /\ r.count + 1 \in SeqNums
  <2> DEFINE c == r.count + 1
  <2>1. c \in 0..(M - 1) /\ c = M * 0 + c
    BY <1>3, Sizes
  <2> HIDE DEF c
  <2>2. c % M = c
    BY <2>1, Sizes, RemainderIs
  <2>q. QED BY <2>1, <2>2 DEF c, SeqNums
<1>5. r.slots[p % W] = NoPkt
  <2> DEFINE q == r.slots[p % W]
  <2>1. SUFFICES ASSUME q # NoPkt PROVE FALSE
    OBVIOUS
  <2>2. q \in S /\ q % W = p % W
    BY <1>1, <2>1 DEF Holds
  <2> HIDE DEF q
  <2>3. q \in Int /\ q - p < W /\ p - q < W
    BY <1>2, <2>2, Sizes
  <2>4. q = p
    <3>1. p \in Int /\ W \in Nat \ {0}
      BY Sizes
    <3>q. QED BY <2>2, <2>3, <3>1, ModSame
  <2>q. QED BY <2>2, <2>4
<1>6. /\ Store(r, p) \in Windows
      /\ Store(r, p).slots = [r.slots EXCEPT ![p % W] = p]
      /\ Store(r, p).phase = r.phase /\ Store(r, p).base = r.base
      /\ Store(r, p).count = r.count + 1
  <2> DEFINE s == p % W
             c == r.count + 1
             t == [r.slots EXCEPT ![s] = p]
  <2>1. Store(r, p) = [r EXCEPT !.slots[s] = p, !.count = c] /\ s \in Slots /\ c \in SeqNums
    BY <1>1, <1>4 DEF Store
  <2>2. r \in Windows
    BY DEF Holds
  <2> HIDE DEF s, c
  <2>3. t \in [Slots -> Int]
    BY <2>1, <2>2 DEF Windows
  <2>4. Store(r, p) = [r EXCEPT !.slots = t, !.count = c]
    BY <2>1, <2>2 DEF Windows
  <2> HIDE DEF t
  <2>5. /\ Store(r, p) \in Windows /\ Store(r, p).slots = t
        /\ Store(r, p).phase = r.phase /\ Store(r, p).base = r.base /\ Store(r, p).count = c
    BY <2>1, <2>2, <2>3, <2>4 DEF Windows
  <2>q. QED BY <2>5 DEF s, c, t
<1>7. /\ Store(r, p).slots[p % W] = p
      /\ \A i \in Slots : i # p % W => Store(r, p).slots[i] = r.slots[i]
  BY <1>1, <1>6 DEF Holds, Windows
<1>8. ASSUME NEW q \in S \union {p} PROVE Store(r, p).slots[q % W] = q
  <2>1. CASE q = p
    BY <2>1, <1>7
  <2>2. CASE q # p
    <3>1. q \in S /\ r.slots[q % W] = q /\ q # NoPkt /\ q \in Int
      BY <2>2, <1>2, Sizes DEF Holds, NoPkt
    <3>2. q % W \in Slots /\ q % W # p % W
      BY <3>1, <1>5, SlotOfPacket
    <3>q. QED BY <3>1, <3>2, <1>7
  <2>q. QED BY <2>1, <2>2
<1>9. ASSUME NEW i \in Slots, Store(r, p).slots[i] # NoPkt
      PROVE  Store(r, p).slots[i] \in S \union {p} /\ Store(r, p).slots[i] % W = i
  BY <1>7, <1>9 DEF Holds
<1>10. Holds(Store(r, p), B, S \union {p})
  BY <1>2, <1>3, <1>6, <1>8, <1>9 DEF Holds
<1>q. QED BY <1>5, <1>6, <1>10

\* The window moves past n packets that it has.
LEMMA EmptiedKeeps ==
    ASSUME NEW r, NEW B \in Nat, NEW S, Holds(r, B, S), NEW n \in 0..W, B..(B + n - 1) \subseteq S
    PROVE  LET s == [r EXCEPT !.slots = Emptied(r, n), !.base = (@ + n) % M, !.count = @ - n]
           IN  Holds(s, B + n, {q \in S : q >= B + n}) /\ s.phase = r.phase
<1> DEFINE s == [r EXCEPT !.slots = Emptied(r, n), !.base = (@ + n) % M, !.count = @ - n]
           T == {q \in S : q >= B + n}
           c == r.count - n
<1>0. n \in Nat /\ n <= W /\ B + n \in Nat
  BY Sizes
<1>1. (r.base + n) % M = (B + n) % M /\ (B + n) % M \in SeqNums
  BY <1>0, SlotOfPacket DEF Holds
<1>2. S \subseteq B..(B + W - 1) /\ T \subseteq (B + n)..(B + n + W - 1)
  <2>1. S \subseteq B..(B + W - 1)
    BY DEF Holds
  <2>2. ASSUME NEW q \in T PROVE q \in (B + n)..(B + n + W - 1)
    <3>1. q \in B..(B + W - 1) /\ q >= B + n
      BY <2>1
    <3>q. QED BY <3>1, <1>0, Sizes
  <2>q. QED BY <2>1, <2>2
<1>3. c = Cardinality(T) /\ c \in SeqNums
  <2>1. IsFiniteSet(S) /\ Cardinality(S) \in Nat /\ Cardinality(S) <= W /\ S \ (B..(B + n - 1)) = T
    BY <1>2, HowMany
  <2>2. S \cap (B..(B + n - 1)) = B..(B + n - 1)
    OBVIOUS
  <2>3. Cardinality(B..(B + n - 1)) = n
    <3>1. B \in Int /\ B + n - 1 \in Int /\ (n > 0 => ~(B > B + n - 1)) /\ (n = 0 => B > B + n - 1)
          /\ (B + n - 1) - B + 1 = n
      BY <1>0
    <3>q. QED BY <3>1, <1>0, FS_Interval
  <2>4. Cardinality(T) = Cardinality(S) - n
    <3> DEFINE D == B..(B + n - 1)
    <3>1. IsFiniteSet(S) /\ S \ D = T /\ S \cap D = D /\ Cardinality(D) = n
      BY <2>1, <2>2, <2>3
    <3> HIDE DEF D, T
    <3>2. Cardinality(S \ D) = Cardinality(S) - Cardinality(S \cap D)
      BY <3>1, FS_Difference
    <3>q. QED BY <3>1, <3>2
  <2>5. Cardinality(T) \in Nat
    BY <1>0, <1>2, HowMany
  <2> HIDE DEF T
  <2>6. c = Cardinality(T)
    BY <2>4 DEF Holds
  <2>7. Cardinality(T) \in 0..(M - 1)
    BY <2>1, <2>4, <2>5, <1>0, Sizes
  <2>q. QED BY <2>6, <2>7 DEF SeqNums
<1>4. Emptied(r, n) \in [Slots -> Int]
  BY DEF Emptied, Holds, Windows, NoPkt
<1>5. /\ s \in Windows /\ s.base = (B + n) % M /\ s.slots = Emptied(r, n) /\ s.phase = r.phase
      /\ s.count = c
  <2>1. s = [r EXCEPT !.slots = Emptied(r, n), !.base = (B + n) % M, !.count = c] /\ r \in Windows
    BY <1>1 DEF Holds, Windows
  <2> HIDE DEF s, c
  <2>q. QED BY <1>1, <1>3, <1>4, <2>1 DEF Windows
<1>6. ASSUME NEW i \in Slots, Emptied(r, n)[i] # NoPkt
      PROVE  Emptied(r, n)[i] \in T /\ Emptied(r, n)[i] % W = i
  <2> DEFINE q == r.slots[i]
  <2>1. Emptied(r, n)[i] = q /\ ~(\E k \in 0..(n - 1) : i = Slot(r.base + k))
    BY <1>6 DEF Emptied
  <2>2. q \in S /\ q % W = i /\ r.base = B % M
    BY <1>6, <2>1 DEF Holds
  <2> DEFINE e == q - B
  <2>3. q \in Int /\ e \in Int /\ e >= 0 /\ B + e = q /\ B \in Int
    <3>1. q \in B..(B + W - 1)
      BY <1>2, <2>2
    <3>2. B \in Int /\ B + W - 1 \in Int
      BY Sizes
    <3>q. QED BY <3>1, <3>2
  <2> HIDE DEF q, e
  <2>4. Slot((B % M) + e) = i
    BY <2>2, <2>3, SlotOfPacket
  <2>5. ~(e \in 0..(n - 1))
    BY <2>1, <2>2, <2>4
  <2>6. q >= B + n
    BY <2>3, <2>5, <1>0
  <2>q. QED BY <2>1, <2>2, <2>6
<1>7. ASSUME NEW q \in T PROVE Emptied(r, n)[q % W] = q
  <2>1. q \in S /\ q \in Int /\ q >= B + n /\ q < B + W /\ r.slots[q % W] = q /\ q % W \in Slots
    <3>1. q \in S /\ q >= B + n /\ r.slots[q % W] = q
      BY DEF Holds
    <3>2. q \in Int /\ q < B + W
      BY <1>2, <3>1, Sizes
    <3>q. QED BY <3>1, <3>2, SlotOfPacket
  <2>2. ASSUME NEW k \in 0..(n - 1), q % W = Slot(r.base + k) PROVE FALSE
    <3>1. k \in Int /\ B + k \in Int /\ q - (B + k) < W /\ (B + k) - q < W /\ q # B + k
      BY <1>0, <2>1, Sizes
    <3>2. q % W = (B + k) % W
      BY <3>1, <2>2, SlotOfPacket DEF Holds
    <3>q. QED BY <2>1, <3>1, <3>2, Sizes, ModSame
  <2>q. QED BY <2>1, <2>2 DEF Emptied
<1> HIDE DEF s, T, c
<1>8. Holds(s, B + n, T)
  <2>1. T \subseteq (B + n)..((B + n) + W - 1)
    BY <1>2
  <2>q. QED BY <1>3, <1>5, <1>6, <1>7, <2>1 DEF Holds
<1>q. QED BY <1>5, <1>8 DEF s, T

\* The window r hands out its packets from B on up to the first that it does not
\* have, and is left with the others.
Flushes(r, f, B, S) ==
    \E n \in 1..W :
        /\ B..(B + n - 1) \subseteq S /\ B + n \notin S
        /\ Holds(f.r, B + n, {q \in S : q >= B + n}) /\ f.r.phase = r.phase
        /\ f.out = [k \in 1..n |-> B + (k - 1)]

\* flush_consecutive() hands out the packets from base on up to the first that
\* the window does not have.
LEMMA FlushKeeps ==
    ASSUME NEW r, NEW B \in Nat, NEW S, Holds(r, B, S), B \in S,
           NEW f, f = FlushConsecutive(r, FALSE)
    PROVE  Flushes(r, f, B, S)
<1> DEFINE most == IF FALSE \/ r.count < W THEN r.count ELSE W
           Z == {k \in 0..most : At(r, k) = NoPkt}
           n == FlushLen(r, FALSE)
<1>1. r \in Windows /\ S \subseteq B..(B + W - 1) /\ r.count = Cardinality(S)
  BY DEF Holds
<1>2. IsFiniteSet(S) /\ r.count \in Nat /\ r.count <= W
  BY <1>1, HowMany
<1>3. r.count > 0
  <2>1. r.count # 0
    BY <1>1, <1>2, FS_EmptySet
  <2>q. QED BY <1>2, <2>1
<1>4. most = r.count
  BY <1>2, Sizes
<1>5. n = CHOOSE k \in 0..most : /\ \A j \in 0..(k - 1) : At(r, j) # NoPkt
                                 /\ k < most => At(r, k) = NoPkt
  BY DEF FlushLen
<1>6. f.r = [r EXCEPT !.slots = Emptied(r, n), !.base = (@ + n) % M, !.count = @ - n]
      /\ f.out = [k \in 1..n |-> At(r, k - 1)]
  BY DEF FlushConsecutive
<1> HIDE DEF most, n
<1>7. PICK k \in 0..most : (\A j \in 0..(k - 1) : j \notin Z) /\ (k < most => k \in Z)
  <2> HIDE DEF Z
  <2>1. most \in Nat
    BY <1>2, <1>4
  <2>q. QED BY <2>1, FirstHit
<1>8. (\A j \in 0..(k - 1) : At(r, j) # NoPkt) /\ (k < most => At(r, k) = NoPkt)
  <2>1. \A j \in 0..(k - 1) : j \in 0..most
    BY <1>2, <1>4
  <2>q. QED BY <1>7, <2>1
<1>9. /\ n \in 0..most /\ \A j \in 0..(n - 1) : At(r, j) # NoPkt
      /\ n < most => At(r, n) = NoPkt
  BY <1>5, <1>8
<1>10. n \in 0..W /\ n \in Nat /\ n <= r.count
  BY <1>2, <1>4, <1>9, Sizes
<1>11. ASSUME NEW j \in 0..(n - 1) PROVE B + j \in S /\ At(r, j) = B + j
  <2>1. j \in 0..(W - 1)
    BY <1>10, Sizes
  <2>q. QED BY <2>1, <1>9, <1>11, HeldAt
<1>12. B..(B + n - 1) \subseteq S
  <2>1. ASSUME NEW q \in B..(B + n - 1) PROVE q \in S
    <3>1. q - B \in 0..(n - 1) /\ B + (q - B) = q
      BY <1>10
    <3>q. QED BY <3>1, <1>11
  <2>q. QED BY <2>1
<1>13. B + n \notin S
  <2>1. CASE n = W
    BY <2>1, <1>1, Sizes
  <2>2. CASE n < most /\ n # W
    <3>1. n \in 0..(W - 1)
      BY <2>2, <1>10, Sizes
    <3>q. QED BY <3>1, <2>2, <1>9, HeldAt
  <2>3. CASE n = r.count
    <3>1. Cardinality(B..(B + n - 1)) = n
      <4>1. B \in Int /\ B + n - 1 \in Int /\ ~(B > B + n - 1) /\ (B + n - 1) - B + 1 = n
        BY <1>2, <1>3, <1>10, <2>3
      <4>q. QED BY <4>1, FS_Interval
    <3>2. B..(B + n - 1) = S
      BY <1>1, <1>2, <1>12, <2>3, <3>1, FS_Subset
    <3>3. B + n \notin B..(B + n - 1)
      BY <1>10
    <3>q. QED BY <3>2, <3>3
  <2>q. QED BY <1>2, <1>4, <1>10, <2>1, <2>2, <2>3, Sizes
<1>14. n # 0
  <2>1. B + 0 = B
    OBVIOUS
  <2>q. QED BY <1>13, <2>1
<1>15. f.out = [j \in 1..n |-> B + (j - 1)]
  <2>1. \A j \in 1..n : j - 1 \in 0..(n - 1)
    BY <1>10
  <2>2. \A j \in 1..n : At(r, j - 1) = B + (j - 1)
    BY <2>1, <1>11
  <2>q. QED BY <1>6, <2>2
<1>16. Holds(f.r, B + n, {q \in S : q >= B + n}) /\ f.r.phase = r.phase
  <2> DEFINE s == [r EXCEPT !.slots = Emptied(r, n), !.base = (@ + n) % M, !.count = @ - n]
             T == {q \in S : q >= B + n}
  <2>1. Holds(s, B + n, T) /\ s.phase = r.phase
    BY <1>10, <1>12, EmptiedKeeps
  <2>2. f.r = s
    BY <1>6
  <2> HIDE DEF s, T
  <2>3. Holds(f.r, B + n, T) /\ f.r.phase = r.phase
    BY <2>1, <2>2
  <2>q. QED BY <2>3 DEF T
<1>17. n \in 1..W
  BY <1>10, <1>14, Sizes
<1>q. QED BY <1>12, <1>13, <1>15, <1>16, <1>17 DEF Flushes

\* Where base is put, and in which phase, is not what the window has.
LEMMA Rebased ==
    ASSUME NEW r, NEW B \in Nat, NEW S, Holds(r, B, S),
           NEW A \in Nat, S \subseteq A..(A + W - 1), NEW h \in 0..2,
           NEW s, s = [r EXCEPT !.base = A % M, !.phase = h]
    PROVE  Holds(s, A, S) /\ s.phase = h /\ s.count = r.count /\ s.slots = r.slots
<1>1. A % M \in SeqNums /\ r \in Windows
  BY SlotOfPacket DEF Holds
<1>2. /\ s \in Windows /\ s.base = A % M /\ s.phase = h
      /\ s.count = r.count /\ s.slots = r.slots
  BY <1>1 DEF Windows
<1>3. Holds(s, A, S)
  BY <1>2 DEF Holds
<1>q. QED BY <1>2, <1>3

\* s is window r with packet p added to the packets S it has, from low on.
Adds(r, S, p, s, low, h) ==
    /\ r.slots[p % W] = NoPkt
    /\ Holds(s, low, S \union {p}) /\ s.phase = h /\ s.count = r.count + 1

\* A packet is added to the ones collected so far, all of them within a
\* window of the start of the burst, and base becomes that of low.
LEMMA Gathered ==
    ASSUME NEW r, NEW B \in Nat, NEW S, Holds(r, B, S), S \subseteq Start..(Start + W - 1),
           NEW p \in Start..(Start + W - 1), p \notin S,
           NEW low \in Nat, S \union {p} \subseteq low..(low + W - 1), NEW h \in 0..2,
           NEW s, s = [Store(r, p) EXCEPT !.base = low % M, !.phase = h]
    PROVE  Adds(r, S, p, s, low, h)
<1> DEFINE t == [r EXCEPT !.base = Start % M, !.phase = r.phase]
<1>0. /\ r \in Windows /\ r.phase \in 0..2 /\ Start \in Nat
      /\ p \in Nat /\ Start <= p /\ p < Start + W
  BY Sizes DEF Holds, Windows
<1>1. Holds(t, Start, S) /\ t.count = r.count /\ t.slots = r.slots
  <2>1. t = [r EXCEPT !.base = Start % M, !.phase = r.phase]
    OBVIOUS
  <2> HIDE DEF t
  <2> DEFINE g == r.phase
  <2>2. g \in 0..2 /\ t = [r EXCEPT !.base = Start % M, !.phase = g] /\ Start \in Nat
    BY <1>0, <2>1
  <2> HIDE DEF g
  <2>3. Holds(r, B, S) /\ B \in Nat /\ S \subseteq Start..(Start + W - 1)
    OBVIOUS
  <2>4. Holds(t, Start, S)
    BY ONLY <2>2, <2>3, Rebased
  <2>5. t.count = r.count /\ t.slots = r.slots
    BY <2>1, <1>0 DEF Windows
  <2>q. QED BY <2>4, <2>5
<1>2. t \in Windows
  BY <1>1 DEF Holds
<1> HIDE DEF t
<1>3. /\ Holds(Store(t, p), Start, S \union {p}) /\ Store(t, p).count = t.count + 1
      /\ t.slots[p % W] = NoPkt
  BY <1>0, <1>1, StoreKeeps
<1> DEFINE u == [Store(t, p) EXCEPT !.base = low % M, !.phase = h]
<1>4. Holds(u, low, S \union {p}) /\ u.phase = h /\ u.count = Store(t, p).count
  <2> DEFINE v == Store(t, p)
             S2 == S \union {p}
  <2>1. Holds(v, Start, S2) /\ u = [v EXCEPT !.base = low % M, !.phase = h] /\ S2 \subseteq low..(low + W - 1)
    BY <1>3
  <2> HIDE DEF v, u, S2
  <2>2. Holds(u, low, S2)
    BY <1>0, <2>1, Rebased
  <2>3. v \in Windows /\ h \in 0..2
    BY <2>1 DEF Holds
  <2>4. u.phase = h /\ u.count = v.count
    BY ONLY <2>1, <2>3 DEF Windows
  <2>q. QED BY <2>2, <2>4 DEF v, S2
<1>5. u = s
  <2> DEFINE i == Slot(SeqNum(p))
             c == (r.count + 1) % M
             e == [r.slots EXCEPT ![i] = p]
  <2>1. Store(r, p) = [r EXCEPT !.slots = e, !.count = c]
    BY <1>0 DEF Store, Windows
  <2>2. Store(t, p) = [t EXCEPT !.slots = e, !.count = c]
    BY <1>1, <1>2 DEF Store, Windows
  <2>3. t = [r EXCEPT !.base = Start % M, !.phase = r.phase]
    BY DEF t
  <2> HIDE DEF e, c
  <2>q. QED BY <1>0, <2>1, <2>2, <2>3 DEF Windows
<1> HIDE DEF u
<1>q. QED BY <1>1, <1>3, <1>4, <1>5 DEF Adds

\* While fewer packets have come than are collected, no packet of the burst is
\* a window or more from its start.
LEMMA CollectedFits ==
    ASSUME Near, Reach, Cardinality(Received) < InitCollect
    PROVE  nextUni - Start <= W
<1>1. /\ flight \subseteq Start..(nextUni - 1) /\ nextUni \in Nat /\ Start <= nextUni
      /\ \A p \in flight : nextUni - p <= MaxFlight
  BY DEF Reach
<1>2. Received \subseteq Start..(nextUni - 1) /\ IsFiniteSet(Start..(nextUni - 1))
  <2>1. Start \in Int /\ nextUni - 1 \in Int
    BY <1>1, Sizes
  <2>q. QED BY <2>1, FS_Interval DEF Received
<1>3. IsFiniteSet(Received)
  BY <1>2, FS_Subset
<1>4. Cardinality(Received) \in Nat
  BY <1>3, FS_CardinalityType
<1>5. ASSUME NEW f \in Nat, Start <= f, f <= nextUni, \A p \in flight : f <= p
      PROVE  f - Start <= Cardinality(Received)
  <2>1. Start..(f - 1) \subseteq Received
    <3>1. ASSUME NEW k \in Start..(f - 1) PROVE k \in Received
      <4>1. k \in Start..(nextUni - 1) /\ ~(f <= k)
        BY <1>1, <1>5, Sizes
      <4>q. QED BY <4>1, <1>5 DEF Received
    <3>q. QED BY <3>1
  <2>2. Cardinality(Start..(f - 1)) = f - Start
    <3>1. /\ Start \in Int /\ f - 1 \in Int /\ (f - 1) - Start + 1 = f - Start
          /\ (Start > f - 1 => f - Start = 0)
      BY <1>5, Sizes
    <3>q. QED BY <3>1, FS_Interval
  <2>q. QED BY <1>3, <2>1, <2>2, FS_Subset
<1>6. CASE flight = {}
  <2>1. nextUni - Start <= Cardinality(Received)
    BY <1>1, <1>5, <1>6
  <2>q. QED BY <2>1, <1>1, <1>4, Sizes
<1>7. CASE flight # {}
  <2>1. flight \subseteq Nat
    BY <1>1, Sizes
  <2> DEFINE f == Min(flight)
  <2>2. f \in flight /\ \A p \in flight : f <= p
    BY <1>7, <2>1, MinIsLeast
  <2> HIDE DEF f
  <2>3. f \in Nat /\ Start <= f /\ f <= nextUni /\ nextUni - f <= MaxFlight
    BY <1>1, <2>1, <2>2, Sizes
  <2>4. f - Start <= Cardinality(Received)
    BY <1>5, <2>2, <2>3
  <2>q. QED BY <2>3, <2>4, <1>1, <1>4, Sizes DEF Near
<1>q. QED BY <1>6, <1>7

\* The newest of a run of packets.
LEMMA NewestOfRun ==
    ASSUME NEW B \in Nat, NEW n \in Nat \ {0}, NEW s, NEW e, s = [k \in 1..n |-> B + (k - 1)]
    PROVE  Stream!Newest(s, e) = B + n - 1
<1>1. s \in Seq(Int) /\ Len(s) = n /\ s # <<>>
  OBVIOUS
<1>2. s[n] = B + n - 1
  OBVIOUS
<1>q. QED BY <1>1, <1>2 DEF Stream!Newest

\* When nothing is handed out, the newest packet is what it was.
LEMMA NewestOfNone == \A e : Stream!Newest(<<>>, e) = e
BY DEF Stream!Newest

\* A packet of the burst that is under way.
LEMMA Arrival ==
    ASSUME Reach, NEW p \in flight
    PROVE  /\ p \in Nat /\ Start <= p /\ p < nextUni /\ p \notin Received
           /\ nextUni \in Nat /\ nextUni - p <= MaxFlight
           /\ nextUni - Start <= M \div 2 /\ M \div 2 \in Int /\ W <= M \div 2
           /\ \A q \in Received : q \in Nat /\ Start <= q /\ q < nextUni
           /\ \A q \in Nat : Start <= q /\ q < nextUni /\ q \notin Received =>
                 nextUni - q <= MaxFlight
<1>1. /\ flight \subseteq Start..(nextUni - 1) /\ nextUni \in Nat /\ live \in Nat
      /\ \A q \in flight : nextUni - q <= MaxFlight
      /\ Start <= nextUni /\ nextUni <= live /\ live - Start <= M \div 2
  BY DEF Reach
<1>2. p \in Nat /\ Start <= p /\ p < nextUni /\ p \notin Received /\ nextUni - p <= MaxFlight
  BY <1>1, Sizes DEF Received
<1>3. M \div 2 \in Int /\ W <= M \div 2
  BY Sizes
<1>4. nextUni - Start <= M \div 2
  BY <1>1, <1>3, Sizes
<1>5. \A q \in Received : q \in Nat /\ Start <= q /\ q < nextUni
  BY <1>1, Sizes DEF Received
<1>6. ASSUME NEW q \in Nat, Start <= q, q < nextUni, q \notin Received
      PROVE  nextUni - q <= MaxFlight
  <2>1. q \in Start..(nextUni - 1)
    BY <1>1, <1>6, Sizes
  <2>q. QED BY <2>1, <1>1, <1>6 DEF Received
<1>q. QED BY <1>1, <1>2, <1>3, <1>4, <1>5, <1>6

\* The first packet opens the window.
LEMMA FirstArrives ==
    ASSUME Near, Reach, win = Fresh, Received = {}, last = -1, NEW p \in flight,
           NEW res, res = Insert(win, p, FALSE)
    PROVE  InStep(res.r, Received \union {p}, Stream!Newest(res.out, last), nextUni)
<1>1. p \in Nat /\ Start <= p /\ p < nextUni /\ nextUni \in Nat
  BY Arrival
<1>2. nextUni - Start <= W
  <2>1. Cardinality(Received) < InitCollect
    BY FS_EmptySet, Sizes
  <2>q. QED BY <2>1, CollectedFits
<1>3. /\ Fresh \in Windows /\ Fresh.base = 0 /\ Fresh.count = 0 /\ Fresh.phase = 0
      /\ \A i \in Slots : Fresh.slots[i] = NoPkt
  BY Sizes DEF Fresh, Windows, SeqNums, NoPkt
<1>4. Holds(Fresh, 0, {})
  <2>1. 0 % M = 0
    <3>1. 0 \in 0..(M - 1) /\ 0 = M * 0 + 0
      BY Sizes
    <3>q. QED BY <3>1, Sizes, RemainderIs
  <2>q. QED BY <1>3, <2>1, FS_EmptySet DEF Holds
<1> DEFINE s == [Store(Fresh, p) EXCEPT !.base = p % M, !.phase = 1]
<1>5. Holds(s, p, {p}) /\ s.phase = 1 /\ s.count = 1
  <2> DEFINE S == {}
  <2>1. /\ S \subseteq Start..(Start + W - 1) /\ p \in Start..(Start + W - 1) /\ p \notin S
        /\ S \union {p} \subseteq p..(p + W - 1) /\ S \union {p} = {p}
    BY <1>1, <1>2, Sizes
  <2>2. Holds(Fresh, 0, S)
    BY <1>4
  <2>0. s = [Store(Fresh, p) EXCEPT !.base = p % M, !.phase = 1] /\ 1 \in 0..2 /\ 0 \in Nat
    OBVIOUS
  <2> HIDE DEF S, s
  <2>3. Adds(Fresh, S, p, s, p, 1)
    BY ONLY <1>1, <2>0, <2>1, <2>2, Gathered
  <2>4. Fresh.count + 1 = 1
    BY <1>3
  <2>q. QED BY <2>1, <2>3, <2>4 DEF Adds
<1>6. res = [r |-> s, out |-> <<>>]
  <2>1. [Fresh EXCEPT !.count = 0] = Fresh
    BY <1>3 DEF Windows
  <2>2. Insert(win, p, FALSE) = InsertFirst(Fresh, p)
    BY <1>3 DEF Insert
  <2>q. QED BY <2>1, <2>2 DEF InsertFirst, Quiet, SeqNum
<1> HIDE DEF s
<1>7. res.r = s /\ Stream!Newest(res.out, last) = -1
  <2>1. res.r = s /\ res.out = <<>>
    BY ONLY <1>6
  <2>q. QED BY <2>1, NewestOfNone
<1>8. 1 < InitCollect /\ p <= p
  BY <1>1, Sizes
<1>q. QED BY <1>5, <1>7, <1>8 DEF InStep

\* Further packets are collected; the one that makes enough starts delivery.
LEMMA CollectedArrives ==
    ASSUME Near, Reach, win.phase = 1, last = -1, NEW B \in Received,
           \A q \in Received : B <= q, Holds(win, B, Received), win.count < InitCollect,
           NEW p \in flight, NEW res, res = Insert(win, p, FALSE)
    PROVE  InStep(res.r, Received \union {p}, Stream!Newest(res.out, last), nextUni)
<1> DEFINE R == Received
           T == R \union {p}
           low == IF p < B THEN p ELSE B
           s == [Store(win, p) EXCEPT !.base = low % M, !.phase = 1]
<1>1. /\ p \in Nat /\ Start <= p /\ p < nextUni /\ nextUni \in Nat /\ p \notin R
      /\ \A q \in R : q \in Nat /\ Start <= q /\ q < nextUni
      /\ nextUni - Start <= M \div 2 /\ M \div 2 \in Int /\ W <= M \div 2
  BY Arrival
<1>2. B \in Nat /\ Start <= B /\ B < nextUni
  BY <1>1
<1>3. nextUni - Start <= W
  <2>1. Cardinality(Received) < InitCollect
    BY DEF Holds
  <2>q. QED BY <2>1, CollectedFits
<1>4. low \in Nat /\ low \in T /\ \A q \in T : low <= q
  <2>1. CASE p < B
    <3>1. \A q \in R : p <= q
      BY <1>1, <1>2, <2>1
    <3>q. QED BY <1>1, <2>1, <3>1
  <2>2. CASE ~(p < B)
    BY <1>1, <1>2, <2>2
  <2>q. QED BY <2>1, <2>2
<1>5. /\ R \subseteq Start..(Start + W - 1) /\ p \in Start..(Start + W - 1)
      /\ T \subseteq low..(low + W - 1)
  <2>1. \A q \in T : q \in Nat /\ Start <= q /\ q < Start + W
    BY <1>1, <1>3, Sizes
  <2>2. Start <= low /\ Start \in Nat /\ W \in Nat
    BY <1>4, <2>1, Sizes
  <2> HIDE DEF low
  <2>3. ASSUME NEW q \in T PROVE q \in Start..(Start + W - 1) /\ q \in low..(low + W - 1)
    BY <1>4, <2>1, <2>2
  <2>q. QED BY <2>3
<1>6. /\ win.slots[p % W] = NoPkt
      /\ Holds(s, low, T) /\ s.phase = 1 /\ s.count = win.count + 1
  <2>1. Holds(win, B, R) /\ p \notin R /\ s = [Store(win, p) EXCEPT !.base = low % M, !.phase = 1]
    BY <1>1
  <2>2. 1 \in 0..2 /\ B \in Nat /\ low \in Nat
    BY <1>2, <1>4
  <2>3. /\ R \subseteq Start..(Start + W - 1) /\ p \in Start..(Start + W - 1)
        /\ R \union {p} \subseteq low..(low + W - 1)
    BY <1>5
  <2> HIDE DEF low, R, s
  <2>4. Adds(win, R, p, s, low, 1)
    BY ONLY <2>1, <2>2, <2>3, Gathered
  <2>q. QED BY <2>4 DEF Adds
<1>7. Collect(win, p) = s
  <2>1. Slot(SeqNum(p)) = p % W
    BY <1>1, SlotOfPacket
  <2>2. win.base = B % M /\ win \in Windows
    BY DEF Holds
  <2>3. Ahead(SeqNum(p), B % M) = p - B
    <3>1. p \in Int /\ B \in Int /\ p - B < M \div 2 /\ B - p <= M \div 2
      BY <1>1, <1>2, <1>3, Sizes
    <3>q. QED BY <3>1, AheadIsDistance
  <2>4. Store(win, p).base = B % M /\ Store(win, p).phase = 1
    BY <2>2 DEF Store, Windows
  <2>5. Collect(win, p) = [Store(win, p) EXCEPT !.base = IF p - B < 0 THEN p % M ELSE B % M]
    BY <1>6, <2>1, <2>3, <2>4 DEF Collect, SeqNum
  <2>6. p - B < 0 <=> p < B
    BY <1>1, <1>2
  <2>7. Collect(win, p) = [Store(win, p) EXCEPT !.base = low % M]
    BY <2>5, <2>6
  <2>8. \E f, g, h, i : Store(win, p) = [slots |-> f, base |-> g, count |-> h, phase |-> i]
    <3> DEFINE i == Slot(SeqNum(p))
               c == (win.count + 1) % M
               e == [win.slots EXCEPT ![i] = p]
    <3>1. Store(win, p) = [win EXCEPT !.slots = e, !.count = c]
      BY <2>2 DEF Store, Windows
    <3> HIDE DEF e, c
    <3>2. Store(win, p) = [slots |-> e, base |-> win.base, count |-> c, phase |-> win.phase]
      BY <2>2, <3>1 DEF Windows
    <3>q. QED BY <3>2
  <2>q. QED BY <2>4, <2>7, <2>8
<1>8. Insert(win, p, FALSE) = InsertCollecting(win, p, FALSE)
  BY DEF Insert
<1> HIDE DEF s, low
<1>9. CASE s.count < InitCollect
  <2>1. res = [r |-> s, out |-> <<>>]
    <3>1. s.count \in Int
      BY <1>6, Sizes DEF Holds, Windows, SeqNums
    <3>2. ~(s.count >= InitCollect)
      BY <1>9, <3>1, Sizes
    <3>q. QED BY <1>7, <1>8, <3>2 DEF InsertCollecting, Quiet
  <2>2. res.r = s /\ Stream!Newest(res.out, last) = -1
    <3>1. res.r = s /\ res.out = <<>>
      BY ONLY <2>1
    <3>q. QED BY <3>1, NewestOfNone
  <2>q. QED BY <1>4, <1>6, <1>9, <2>2 DEF InStep
<1>10. CASE s.count >= InitCollect
  <2> DEFINE d == [s EXCEPT !.phase = 2]
             f == FlushConsecutive(d, FALSE)
  <2>1. res = f
    BY <1>7, <1>8, <1>10 DEF InsertCollecting
  <2>2. d = [s EXCEPT !.base = low % M, !.phase = 2]
    BY <1>6 DEF Holds, Windows
  <2>3. d.phase = 2
    BY <1>6 DEF Holds, Windows
  <2> HIDE DEF d, T
  <2>4. Holds(d, low, T)
    <3>1. T \subseteq low..(low + W - 1) /\ Holds(s, low, T) /\ low \in Nat /\ 2 \in 0..2
      BY <1>4, <1>5, <1>6
    <3>q. QED BY <2>2, <3>1, Rebased
  <2>5. PICK n \in 1..W :
           /\ low..(low + n - 1) \subseteq T /\ low + n \notin T
           /\ Holds(f.r, low + n, {q \in T : q >= low + n}) /\ f.r.phase = d.phase
           /\ f.out = [k \in 1..n |-> low + (k - 1)]
    <3>1. Holds(d, low, T) /\ low \in T /\ low \in Nat /\ f = FlushConsecutive(d, FALSE)
      BY <1>4, <2>4
    <3> HIDE DEF f
    <3>2. Flushes(d, f, low, T)
      BY ONLY <3>1, FlushKeeps
    <3>q. QED BY <3>2 DEF Flushes
  <2> HIDE DEF f
  <2>6. n \in Nat \ {0} /\ Stream!Newest(f.out, last) = low + n - 1
    <3>1. n \in Nat \ {0}
      BY Sizes
    <3>q. QED BY <1>4, <2>5, <3>1, NewestOfRun
  <2>7. low + n \in Start..nextUni
    <3>1. low + n - 1 \in T
      <4>1. low + n - 1 \in low..(low + n - 1)
        BY <1>4, <2>6
      <4>q. QED BY <2>5, <4>1
    <3>2. low + n - 1 < nextUni
      BY <1>1, <3>1 DEF T
    <3>3. Start <= low
      BY <1>1, <1>4 DEF T
    <3>q. QED BY <1>1, <1>4, <2>6, <3>2, <3>3, Sizes
  <2>8. {q \in T : q >= low + n} = {q \in T : q > low + n}
    <3>1. \A q \in T : q \in Nat /\ q # low + n
      BY <1>1, <2>5 DEF T
    <3>2. \A q \in T : q >= low + n <=> q > low + n
      BY <1>4, <2>6, <3>1
    <3>q. QED BY <3>2
  <2>9. InStep(f.r, T, low + n - 1, nextUni)
    <3>1. f.r.phase = 2
      BY <2>3, <2>5
    <3>2. \E A \in Start..nextUni : A \notin T /\ Holds(f.r, A, {q \in T : q > A}) /\ low + n - 1 = A - 1
      <4> DEFINE A == low + n
      <4>1. A \notin T /\ A \in Start..nextUni /\ Holds(f.r, A, {q \in T : q >= A})
        BY <2>5, <2>7
      <4>2. {q \in T : q >= A} = {q \in T : q > A}
        BY <2>8
      <4>3. low + n - 1 = A - 1
        BY <1>4, <2>6
      <4> HIDE DEF A
      <4>4. Holds(f.r, A, {q \in T : q > A})
        BY Zenon, <4>1, <4>2
      <4>q. QED BY <4>1, <4>3, <4>4
    <3>q. QED BY <3>1, <3>2 DEF InStep
  <2>q. QED BY <2>1, <2>6, <2>9 DEF T
<1>11. s.count < InitCollect \/ s.count >= InitCollect
  <2>1. s.count \in Int
    BY <1>6, Sizes DEF Holds, Windows, SeqNums
  <2>q. QED BY <2>1, Sizes
<1>q. QED BY <1>9, <1>10, <1>11

\* Once delivery has begun, a packet is handed out when it is the next, kept
\* when it has overtaken that one, and of no use when it is late.
LEMMA DeliveredArrives ==
    ASSUME Near, Reach, win.phase = 2, NEW B \in Start..nextUni, B \notin Received,
           Holds(win, B, {q \in Received : q > B}), last = B - 1,
           NEW p \in flight, NEW res, res = Insert(win, p, FALSE)
    PROVE  InStep(res.r, Received \union {p}, Stream!Newest(res.out, last), nextUni)
<1> DEFINE R == Received
           S == {q \in R : q > B}
           T == R \union {p}
<1>1. /\ p \in Nat /\ Start <= p /\ p < nextUni /\ nextUni \in Nat /\ p \notin R
      /\ \A q \in R : q \in Nat /\ Start <= q /\ q < nextUni
      /\ nextUni - Start <= M \div 2 /\ M \div 2 \in Int /\ W <= M \div 2
  BY Arrival
<1>2. B \in Nat /\ Start <= B /\ B <= nextUni /\ Start \in Nat
  BY <1>1, Sizes
<1>3. p > B => p - B < W
  <2>1. p > B => nextUni - B <= MaxFlight
    <3>1. \A q \in Nat : Start <= q /\ q < nextUni /\ q \notin R => nextUni - q <= MaxFlight
      BY Arrival
    <3>q. QED BY <1>1, <1>2, <3>1
  <2>q. QED BY <2>1, <1>1, <1>2, Sizes DEF Near
<1>4. Ahead(SeqNum(p), win.base) = p - B
  <2>1. p \in Int /\ B \in Int /\ p - B < M \div 2 /\ B - p <= M \div 2
    BY <1>1, <1>2, <1>3, Sizes
  <2>2. win.base = B % M
    BY DEF Holds
  <2>q. QED BY <2>1, <2>2, AheadIsDistance
<1>5. S \union {B} \subseteq Nat /\ Holds(win, B, S) /\ win \in Windows /\ B \notin S /\ p \notin S
  BY <1>1, <1>2 DEF Holds
<1>6. CASE p < B
  <2>1. Insert(win, p, FALSE) = Quiet(win)
    <3> DEFINE d == Ahead(SeqNum(p), win.base)
    <3>1. d < 0 /\ d # 0 /\ ~(d > 0) /\ ~(d >= W)
      BY <1>1, <1>2, <1>4, <1>6, Sizes
    <3>2. win.phase = 2 /\ win.phase # 0 /\ win.phase # 1
      OBVIOUS
    <3>3. Insert(win, p, FALSE) =
            CASE win.phase = 0 -> InsertFirst(win, p)
              [] win.phase = 1 -> InsertCollecting(win, p, FALSE)
              [] win.phase = 2 /\ d = 0 -> InsertExpected(win, p, FALSE)
              [] win.phase = 2 /\ d < 0 -> Quiet(win)
              [] win.phase = 2 /\ d > 0 /\ d < W -> InsertAhead(win, p)
              [] win.phase = 2 /\ d >= W -> InsertBeyond(win, p)
      BY DEF Insert
    <3> HIDE DEF d
    <3>q. QED BY Zenon, <3>1, <3>2, <3>3
  <2>2. res.r = win /\ Stream!Newest(res.out, last) = B - 1
    <3>1. res = [r |-> win, out |-> <<>>]
      BY <2>1 DEF Quiet
    <3>2. res.r = win /\ res.out = <<>>
      BY ONLY <3>1
    <3>q. QED BY <3>2, NewestOfNone
  <2>3. {q \in T : q > B} = S /\ B \notin T
    <3>1. ~(p > B) /\ p # B
      BY <1>1, <1>2, <1>6
    <3>q. QED BY <3>1
  <2>4. InStep(win, T, B - 1, nextUni)
    BY <1>5, <2>3 DEF InStep
  <2>q. QED BY <2>2, <2>4
<1>7. CASE p > B
  <2>1. Store(win, p).phase = 2 /\ Holds(Store(win, p), B, S \union {p}) /\ win.slots[p % W] = NoPkt
    <3>1. B <= p /\ p < B + W
      BY <1>1, <1>2, <1>3, <1>7, Sizes
    <3> HIDE DEF S
    <3>2. B \in Nat /\ Holds(win, B, S) /\ p \in Nat /\ p \notin S /\ B <= p /\ p < B + W
      BY <1>1, <1>2, <1>5, <3>1
    <3>3. /\ Holds(Store(win, p), B, S \union {p}) /\ Store(win, p).phase = win.phase
          /\ win.slots[p % W] = NoPkt
      BY ONLY <3>2, StoreKeeps
    <3>q. QED BY <3>3
  <2>2. Insert(win, p, FALSE) = Quiet(Store(win, p))
    <3>1. p - B > 0 /\ p - B < W /\ p - B # 0 /\ ~(p - B < 0) /\ ~(p - B >= W)
      BY <1>1, <1>2, <1>3, <1>7, Sizes
    <3>2. Slot(SeqNum(p)) = p % W
      BY <1>1, SlotOfPacket
    <3>3. Insert(win, p, FALSE) = InsertAhead(win, p)
      BY <1>4, <3>1 DEF Insert
    <3>q. QED BY <2>1, <3>2, <3>3 DEF InsertAhead
  <2>3. res.r = Store(win, p) /\ Stream!Newest(res.out, last) = B - 1
    <3>1. res = [r |-> Store(win, p), out |-> <<>>]
      BY <2>2 DEF Quiet
    <3>2. res.r = Store(win, p) /\ res.out = <<>>
      BY ONLY <3>1
    <3>q. QED BY <3>2, NewestOfNone
  <2>4. {q \in T : q > B} = S \union {p} /\ B \notin T
    <3>1. p > B /\ p # B
      BY <1>1, <1>2, <1>7
    <3>q. QED BY <3>1
  <2>5. InStep(Store(win, p), T, B - 1, nextUni)
    BY <2>1, <2>4 DEF InStep
  <2>q. QED BY <2>3, <2>5
<1>8. CASE p = B
  <2>1. Insert(win, p, FALSE) = InsertExpected(win, p, FALSE)
    <3> DEFINE d == Ahead(SeqNum(p), win.base)
    <3>1. d = 0 /\ ~(d < 0) /\ ~(d > 0) /\ ~(d >= W)
      BY <1>1, <1>2, <1>4, <1>8, Sizes
    <3>2. win.phase = 2 /\ win.phase # 0 /\ win.phase # 1
      OBVIOUS
    <3>3. Insert(win, p, FALSE) =
            CASE win.phase = 0 -> InsertFirst(win, p)
              [] win.phase = 1 -> InsertCollecting(win, p, FALSE)
              [] win.phase = 2 /\ d = 0 -> InsertExpected(win, p, FALSE)
              [] win.phase = 2 /\ d < 0 -> Quiet(win)
              [] win.phase = 2 /\ d > 0 /\ d < W -> InsertAhead(win, p)
              [] win.phase = 2 /\ d >= W -> InsertBeyond(win, p)
      BY DEF Insert
    <3> HIDE DEF d
    <3>q. QED BY Zenon, <3>1, <3>2, <3>3
  <2>2. CASE win.count = 0 /\ At(win, 0) = NoPkt
    <3> DEFINE s == [win EXCEPT !.base = (B + 1) % M, !.phase = 2]
    <3>1. res = [r |-> s, out |-> <<p>>]
      <4>1. (win.base + 1) % M = (B + 1) % M
        BY <1>2, SlotOfPacket DEF Holds
      <4>2. [win EXCEPT !.base = (B + 1) % M] = s
        BY <1>5 DEF Windows
      <4>q. QED BY <2>1, <2>2, <4>1, <4>2 DEF InsertExpected
    <3>2. S = {}
      <4>1. IsFiniteSet(S)
        <5>1. S \subseteq B..(B + W - 1)
          BY <1>5 DEF Holds
        <5>q. QED BY <1>2, <5>1, HowMany
      <4>2. Cardinality(S) = 0
        BY <1>5, <2>2 DEF Holds
      <4>q. QED BY <4>1, <4>2, FS_EmptySet
    <3>3. Holds(s, B + 1, S)
      <4>1. B + 1 \in Nat /\ S \subseteq (B + 1)..((B + 1) + W - 1) /\ 2 \in 0..2
        BY <1>2, <3>2
      <4>2. s = [win EXCEPT !.base = (B + 1) % M, !.phase = 2]
        OBVIOUS
      <4> HIDE DEF s, S
      <4>q. QED BY <1>2, <1>5, <4>1, <4>2, Rebased
    <3>4. s.phase = 2
      BY <1>5 DEF Windows
    <3>5. {q \in T : q > B + 1} = S /\ B + 1 \notin T /\ B + 1 \in Start..nextUni
      <4>1. \A q \in T : ~(q > B)
        BY <1>1, <1>2, <1>8, <3>2
      <4>2. B + 1 \in Start..nextUni
        BY <1>1, <1>2, <1>8
      <4>3. \A q \in T : ~(q > B + 1) /\ q # B + 1
        BY <1>1, <1>2, <4>1
      <4>q. QED BY <3>2, <4>2, <4>3
    <3>6. res.r = s /\ Stream!Newest(res.out, last) = B
      <4>1. res.r = s /\ res.out = <<p>>
        BY ONLY <3>1
      <4>2. Len(<<p>>) = 1 /\ <<p>>[1] = p /\ <<p>> # <<>>
        OBVIOUS
      <4>q. QED BY <1>8, <4>1, <4>2 DEF Stream!Newest
    <3> HIDE DEF s, S, T
    <3>7. InStep(s, T, B, nextUni)
      <4> DEFINE A == B + 1
      <4>1. A \in Start..nextUni /\ A \notin T /\ Holds(s, A, S) /\ S = {q \in T : q > A} /\ B = A - 1
        BY <1>2, <3>3, <3>5
      <4> HIDE DEF A
      <4>2. Holds(s, A, {q \in T : q > A})
        BY Zenon, <4>1
      <4>q. QED BY <3>4, <4>1, <4>2 DEF InStep
    <3>q. QED BY <3>6, <3>7 DEF T
  <2>3. CASE ~(win.count = 0 /\ At(win, 0) = NoPkt)
    <3> DEFINE d == Store(win, p)
               f == FlushConsecutive(d, FALSE)
               U == S \union {B}
    <3>1. res = f
      BY <2>1, <2>3 DEF InsertExpected
    <3>2. Holds(d, B, U) /\ d.phase = 2
      <4>1. B <= B /\ B < B + W
        BY <1>2, Sizes
      <4> HIDE DEF S
      <4>2. B \in Nat /\ Holds(win, B, S) /\ B \notin S /\ B <= B /\ B < B + W
        BY <1>2, <1>5, <4>1
      <4>3. Holds(Store(win, B), B, S \union {B}) /\ Store(win, B).phase = win.phase
        BY ONLY <4>2, StoreKeeps
      <4>q. QED BY <1>8, <4>3
    <3>3. B \in U
      OBVIOUS
    <3> HIDE DEF d, U
    <3>4. PICK n \in 1..W :
             /\ B..(B + n - 1) \subseteq U /\ B + n \notin U
             /\ Holds(f.r, B + n, {q \in U : q >= B + n}) /\ f.r.phase = d.phase
             /\ f.out = [k \in 1..n |-> B + (k - 1)]
      <4>1. Holds(d, B, U) /\ B \in U /\ B \in Nat /\ f = FlushConsecutive(d, FALSE)
        BY <1>2, <3>2, <3>3
      <4> HIDE DEF f
      <4>2. Flushes(d, f, B, U)
        BY ONLY <4>1, FlushKeeps
      <4>q. QED BY <4>2 DEF Flushes
    <3> HIDE DEF f
    <3>5. n \in Nat \ {0} /\ Stream!Newest(f.out, last) = B + n - 1
      <4>1. n \in Nat \ {0}
        BY Sizes
      <4>q. QED BY <1>2, <3>4, <4>1, NewestOfRun
    <3>6. U = {q \in T : q >= B}
      <4>1. \A q \in R : q \in Nat /\ q # B
        BY <1>1
      <4>2. \A q \in R : q > B <=> q >= B
        BY <1>2, <4>1
      <4>3. B >= B
        BY <1>2
      <4>q. QED BY <1>8, <4>2, <4>3 DEF U
    <3>7. B + n \in Start..nextUni
      <4>1. B + n - 1 \in T
        <5>1. B + n - 1 \in B..(B + n - 1)
          BY <1>2, <3>5
        <5>2. B + n - 1 \in U
          BY <3>4, <5>1
        <5>q. QED BY <3>6, <5>2
      <4>2. B + n - 1 < nextUni
        BY <1>1, <4>1
      <4>q. QED BY <1>1, <1>2, <3>5, <4>2
    <3>8. {q \in U : q >= B + n} = {q \in T : q > B + n} /\ B + n \notin T
      <4>1. B + n \notin T
        <5>1. B + n >= B
          BY <1>2, <3>5
        <5>q. QED BY <3>4, <3>6, <5>1
      <4>2. \A q \in T : q \in Nat /\ q # B + n
        BY <1>1, <4>1
      <4>3. \A q \in T : (q >= B /\ q >= B + n) <=> q > B + n
        BY <1>2, <3>5, <4>2
      <4> HIDE DEF T
      <4>4. {q \in U : q >= B + n} = {q \in T : q >= B /\ q >= B + n}
        BY <3>6
      <4>q. QED BY <4>1, <4>3, <4>4
    <3> HIDE DEF T
    <3>9. InStep(f.r, T, B + n - 1, nextUni)
      <4> DEFINE A == B + n
                 V == {q \in U : q >= B + n}
      <4>1. A \notin T /\ A \in Start..nextUni /\ Holds(f.r, A, V) /\ V = {q \in T : q > A}
        BY <3>4, <3>7, <3>8
      <4>2. B + n - 1 = A - 1
        BY <1>2, <3>5
      <4> HIDE DEF A, V
      <4>3. Holds(f.r, A, {q \in T : q > A})
        BY Zenon, <4>1
      <4>4. f.r.phase = 2
        BY <3>2, <3>4
      <4>q. QED BY <4>1, <4>2, <4>3, <4>4 DEF InStep
    <3>q. QED BY <3>1, <3>5, <3>9 DEF T
  <2>q. QED BY <2>2, <2>3
<1>9. p < B \/ p > B \/ p = B
  BY <1>1, <1>2
<1>q. QED BY <1>6, <1>7, <1>8, <1>9

-----------------------------------------------------------------------------
\* The values of what IInv and Reach say nothing of; a session that asks has
\* followed no more redirects than it may.
Ranges ==
    /\ vendor \in Vendors /\ server \in Servers /\ verify \in BOOLEAN
    /\ redirects \in 0..(MaxRedirects + 1)
    /\ state = "REQUESTED" => redirects <= MaxRedirects
    /\ termSeq \in SeqNums /\ pending \in Seq(Nat) /\ failed \in BOOLEAN
    /\ idle \in -1..UnicastTicks /\ waited \in -1..SyncTicks /\ quiet \in 0..McastTicks
    /\ control \in 0..MaxControl /\ losses \in 0..MaxLosses /\ fell \in BOOLEAN

\* A clock stays within its limit.
LEMMA AfterKeeps ==
    ASSUME NEW lo \in Int, NEW limit \in Nat, NEW c \in lo..limit
    PROVE  After(c, limit) \in lo..limit
BY DEF After

\* The clocks' limits.
LEMMA Limits ==
    /\ UnicastTicks \in Nat \ {0} /\ SyncTicks \in Nat \ {0} /\ McastTicks \in Nat \ {0}
    /\ MaxRedirects \in Nat /\ MaxControl \in Nat /\ MaxLosses \in Nat
BY FccAssumption

\* Joining starts the quiet time of the source or leaves it as it is.
LEMMA JoinRanges ==
    ASSUME NEW q \in 0..McastTicks, Join(q)
    PROVE  quiet' \in 0..McastTicks
<1>1. quiet' = q \/ quiet' = 0
  BY DEF Join
<1>2. 0 \in 0..McastTicks
  BY Limits
<1>q. QED BY <1>1, <1>2

\* Neither giving up on the burst nor a notification makes the session ask.
LEMMA FallBackRanges ==
    ASSUME NEW q \in 0..McastTicks, FallBack(q)
    PROVE  quiet' \in 0..McastTicks /\ fell' \in BOOLEAN /\ state' # "REQUESTED"
<1>1. Join(q) /\ fell' = TRUE /\ state' = "MCAST_ACTIVE"
  BY DEF FallBack
<1>q. QED BY <1>1, JoinRanges

\* The same of a notification.
LEMMA SyncRanges ==
    ASSUME NEW q \in 0..McastTicks, Sync(q), fell \in BOOLEAN
    PROVE  quiet' \in 0..McastTicks /\ fell' \in BOOLEAN /\ state' # "REQUESTED"
<1>1. CASE state \in OnMcast
  <2>1. quiet' = q /\ fell' = fell /\ state' = state
    BY <1>1 DEF Sync
  <2>2. state # "REQUESTED"
    BY <1>1 DEF OnMcast
  <2>q. QED BY <2>1, <2>2
<1>2. CASE state \notin OnMcast
  <2>1. Join(q) /\ fell' = fell /\ state' = "MCAST_REQUESTED"
    BY <1>2 DEF Sync
  <2>q. QED BY <2>1, JoinRanges
<1>q. QED BY <1>1, <1>2

\* A control message changes who is asked, and how often it has been.
LEMMA Answered ==
    ASSUME Ranges, UNCHANGED <<vendor, termSeq, failed, losses>>,
           server' \in Servers, verify' \in BOOLEAN, redirects' \in 0..(MaxRedirects + 1),
           state' = "REQUESTED" => redirects' <= MaxRedirects,
           pending' \in {pending, <<>>}, idle' \in Now, waited' \in {waited, 0}, quiet' \in 0..McastTicks,
           control > 0, control' = control - 1, fell' \in BOOLEAN
    PROVE  Ranges'
<1>1. pending' \in Seq(Nat)
  <2>1. <<>> \in Seq(Nat) /\ pending \in Seq(Nat)
    BY DEF Ranges
  <2>q. QED BY <2>1
<1>2. idle' \in -1..UnicastTicks /\ waited' \in -1..SyncTicks /\ control' \in 0..MaxControl
  BY Limits DEF Ranges, Now
<1>q. QED BY <1>1, <1>2 DEF Ranges

\* The endpoint a message names, if it does.
LEMMA EndpointKnown ==
    ASSUME Ranges, NEW to \in Servers \union {NoServer}
    PROVE  /\ (IF to = NoServer THEN server ELSE to) \in Servers
           /\ (verify \/ to # NoServer) \in BOOLEAN
<1>1. (IF to = NoServer THEN server ELSE to) \in Servers
  BY DEF Ranges
<1>2. (verify \/ to # NoServer) \in BOOLEAN
  BY Zenon
<1>q. QED BY <1>1, <1>2

\* A response, one of which is a redirect.
LEMMA ResponseRanges ==
    ASSUME Ranges, state = "REQUESTED", NEW kind \in Kinds \ {"sync"},
           NEW to \in Servers \union {NoServer}, Response(kind, to)
    PROVE  /\ server' \in Servers /\ verify' \in BOOLEAN
           /\ redirects' \in 0..(MaxRedirects + 1)
           /\ state' = "REQUESTED" => redirects' <= MaxRedirects
           /\ pending' \in {pending, <<>>} /\ waited' \in {waited, 0}
           /\ quiet' \in 0..McastTicks /\ fell' \in BOOLEAN
<1>1. /\ server \in Servers /\ verify \in BOOLEAN /\ quiet \in 0..McastTicks /\ fell \in BOOLEAN
      /\ redirects \in 0..(MaxRedirects + 1) /\ redirects <= MaxRedirects
  BY DEF Ranges
<1> DEFINE target == IF to = NoServer THEN server ELSE to
           named == verify \/ to # NoServer
<1>2. target \in Servers /\ named \in BOOLEAN
  BY EndpointKnown
<1>3. CASE kind \in {"error", "noUnicast", "unknown"}
  <2>1. Refused /\ (UNCHANGED <<server, verify>> \/ TakeEndpoint(to))
    BY <1>3 DEF Response
  <2>2. server' \in Servers /\ verify' \in BOOLEAN
    BY <1>1, <1>2, <2>1 DEF TakeEndpoint
  <2>3. FallBack(quiet) /\ UNCHANGED <<redirects, waited, pending>>
    BY <2>1 DEF Refused
  <2>4. quiet' \in 0..McastTicks /\ fell' \in BOOLEAN /\ state' # "REQUESTED"
    BY <1>1, <2>3, FallBackRanges
  <2>q. QED BY <1>1, <2>2, <2>3, <2>4
<1>4. CASE kind = "unicast"
  <2>1. Accepted /\ TakeEndpoint(to)
    BY <1>4 DEF Response
  <2>2. server' \in Servers /\ verify' \in BOOLEAN
    BY <1>2, <2>1 DEF TakeEndpoint
  <2>3. UNCHANGED <<redirects, quiet, fell, pending>> /\ waited' = 0 /\ state' = "UNICAST_PENDING"
    BY <2>1 DEF Accepted
  <2>q. QED BY <1>1, <2>2, <2>3
<1>5. CASE kind = "redirect"
  <2>0. Redirect(to)
    BY <1>5 DEF Response
  <2>1. CASE redirects > 0 /\ target = server
    <3>1. UNCHANGED <<state, server, verify, redirects, quiet, fell, waited, pending>>
      BY <2>0, <2>1 DEF Redirect
    <3>q. QED BY <1>1, <3>1
  <2>2. CASE ~(redirects > 0 /\ target = server)
    <3>1. /\ redirects' = redirects + 1 /\ waited' = waited
          /\ \/ server' = target /\ verify' = named
             \/ UNCHANGED <<server, verify>>
          /\ \/ FallBack(quiet) /\ UNCHANGED pending
             \/ /\ redirects < MaxRedirects /\ UNCHANGED <<quiet, fell>>
                /\ \/ state' = "REQUESTED" /\ pending' = pending
                   \/ Cleanup(target)
      BY <2>0, <2>2 DEF Redirect
    <3>2. server' \in Servers /\ verify' \in BOOLEAN
      BY <1>1, <1>2, <3>1
    <3>3. redirects' \in 0..(MaxRedirects + 1)
      BY <1>1, <3>1, Limits
    <3>4. CASE FallBack(quiet) /\ UNCHANGED pending
      <4>1. quiet' \in 0..McastTicks /\ fell' \in BOOLEAN /\ state' # "REQUESTED"
        BY <1>1, <3>4, FallBackRanges
      <4>q. QED BY <3>1, <3>2, <3>3, <3>4, <4>1
    <3>5. CASE /\ redirects < MaxRedirects /\ UNCHANGED <<quiet, fell>>
               /\ \/ state' = "REQUESTED" /\ pending' = pending
                  \/ Cleanup(target)
      <4>1. redirects' <= MaxRedirects
        BY <1>1, <3>1, <3>5, Limits
      <4>2. pending' \in {pending, <<>>}
        BY <3>5 DEF Cleanup
      <4>q. QED BY <1>1, <3>1, <3>2, <3>3, <3>5, <4>1, <4>2
    <3>q. QED BY <3>1, <3>4, <3>5
  <2>q. QED BY <2>1, <2>2
<1>6. kind \in {"error", "noUnicast", "unicast", "redirect", "unknown"}
  BY FccAssumption
<1>q. QED BY <1>3, <1>4, <1>5, <1>6

\* Any control message.
LEMMA ControlRanges ==
    ASSUME Ranges, Control
    PROVE  Ranges'
<1>1. PICK from \in Servers, kind \in Kinds, to \in Servers \union {NoServer} :
         ControlMessage(from, kind, to)
  BY DEF Control
<1>2. /\ control > 0 /\ control' = control - 1 /\ idle' \in Now
      /\ UNCHANGED <<vendor, termSeq, failed, losses>>
  BY <1>1 DEF ControlMessage
<1>3. /\ server \in Servers /\ verify \in BOOLEAN /\ quiet \in 0..McastTicks /\ fell \in BOOLEAN
      /\ redirects \in 0..(MaxRedirects + 1)
  BY DEF Ranges
<1>4. CASE kind = "sync"
  <2>1. Sync(quiet) /\ UNCHANGED <<server, verify, redirects, waited, pending>>
    BY <1>1, <1>4 DEF ControlMessage
  <2>2. quiet' \in 0..McastTicks /\ fell' \in BOOLEAN /\ state' # "REQUESTED"
    BY <1>3, <2>1, SyncRanges
  <2>q. QED BY <1>2, <1>3, <2>1, <2>2, Answered
<1>5. CASE kind # "sync" /\ state = "REQUESTED"
  <2>1. Response(kind, to) /\ kind \in Kinds \ {"sync"}
    BY <1>1, <1>5 DEF ControlMessage
  <2>2. /\ server' \in Servers /\ verify' \in BOOLEAN
        /\ redirects' \in 0..(MaxRedirects + 1)
        /\ state' = "REQUESTED" => redirects' <= MaxRedirects
        /\ pending' \in {pending, <<>>} /\ waited' \in {waited, 0}
        /\ quiet' \in 0..McastTicks /\ fell' \in BOOLEAN
    BY <1>5, <2>1, ResponseRanges
  <2>q. QED BY <1>2, <2>2, Answered
<1>6. CASE kind # "sync" /\ state # "REQUESTED"
  <2>1. UNCHANGED <<state, server, verify, redirects, quiet, fell, waited, pending>>
    BY <1>1, <1>6 DEF ControlMessage
  <2>q. QED BY <1>2, <1>3, <1>6, <2>1, Answered
<1>q. QED BY <1>4, <1>5, <1>6

\* A tick moves the clocks, and may move the session.
LEMMA TickRanges ==
    ASSUME Ranges, Tick
    PROVE  Ranges'
<1>1. /\ idle \in -1..UnicastTicks /\ waited \in -1..SyncTicks /\ quiet \in 0..McastTicks
      /\ fell \in BOOLEAN
  BY DEF Ranges
<1> DEFINE q == IF joined THEN After(quiet, McastTicks) ELSE quiet
<1>2. /\ After(idle, UnicastTicks) \in -1..UnicastTicks /\ After(waited, SyncTicks) \in -1..SyncTicks
      /\ q \in 0..McastTicks
  <2>1. After(idle, UnicastTicks) \in -1..UnicastTicks
    BY <1>1, Limits, AfterKeeps
  <2>2. After(waited, SyncTicks) \in -1..SyncTicks
    BY <1>1, Limits, AfterKeeps
  <2>3. After(quiet, McastTicks) \in 0..McastTicks
    BY <1>1, Limits, AfterKeeps
  <2>q. QED BY <1>1, <2>1, <2>2, <2>3
<1>3. /\ idle' = After(idle, UnicastTicks)
      /\ waited' = (IF waited < 0 THEN waited ELSE After(waited, SyncTicks))
  BY DEF Tick, TicksPass
<1>4. FallBack(q) \/ Sync(q) \/ (quiet' = q /\ UNCHANGED <<state, fell>>)
  BY DEF Tick
<1>5. /\ UNCHANGED <<vendor, server, verify, redirects, termSeq, pending, failed, control, losses>>
  BY DEF Tick, network
<1> HIDE DEF q
<1>6. quiet' \in 0..McastTicks /\ fell' \in BOOLEAN /\ (state' = "REQUESTED" => state = "REQUESTED")
  <2>1. CASE FallBack(q)
    BY <1>2, <2>1, FallBackRanges
  <2>2. CASE Sync(q)
    BY <1>1, <1>2, <2>2, SyncRanges
  <2>3. CASE quiet' = q /\ UNCHANGED <<state, fell>>
    BY <1>1, <1>2, <2>3
  <2>q. QED BY <1>4, <2>1, <2>2, <2>3
<1>7. idle' \in -1..UnicastTicks /\ waited' \in -1..SyncTicks
  BY <1>1, <1>2, <1>3
<1>q. QED BY <1>5, <1>6, <1>7 DEF Ranges

\* A packet of the multicast may fix the end of the burst, and is kept.
LEMMA McastRanges ==
    ASSUME Ranges, live \in Nat, McastMedia
    PROVE  Ranges'
<1>1. /\ quiet' = 0
      /\ UNCHANGED <<vendor, state, server, verify, redirects, idle, waited, control, losses, fell>>
  BY DEF McastMedia
<1>2. /\ pending \in Seq(Nat) /\ termSeq \in SeqNums /\ failed \in BOOLEAN
  BY DEF Ranges
<1>3. /\ Append(pending, live) \in Seq(Nat) /\ <<>> \in Seq(Nat)
      /\ SeqNum(live) \in SeqNums
  BY <1>2, SlotOfPacket DEF SeqNum
<1>4. \/ UNCHANGED <<pending, termSeq, failed>>
      \/ pending' = <<>> /\ UNCHANGED <<termSeq, failed>>
      \/ pending' = Append(pending, live) /\ UNCHANGED <<termSeq, failed>>
      \/ /\ termSeq' = SeqNum(live) /\ failed' \in BOOLEAN
         /\ pending' \in {pending, Append(pending, live)}
  <2>1. CASE Transition(live) /\ ~termSent
    <3>1. PICK ok \in Outcomes(SendMayFail) :
             /\ termSeq' = SeqNum(live) /\ failed' = ~ok
             /\ pending' = (IF ok THEN Append(pending, live) ELSE pending)
      BY <2>1 DEF Transition
    <3>2. failed' \in BOOLEAN
      BY Zenon, <3>1
    <3>q. QED BY <3>1, <3>2
  <2>2. CASE Transition(live) /\ termSent
    BY <2>2 DEF Transition
  <2>3. CASE Active(live)
    BY <2>3 DEF Active
  <2>4. CASE failed /\ UNCHANGED <<pending, termSeq, failed>>
    BY <2>4
  <2>q. QED BY <2>1, <2>2, <2>3, <2>4 DEF McastMedia
<1>5. pending' \in Seq(Nat) /\ termSeq' \in SeqNums /\ failed' \in BOOLEAN
  BY <1>2, <1>3, <1>4
<1>6. quiet' \in 0..McastTicks
  BY <1>1, Limits
<1>q. QED BY <1>1, <1>5, <1>6 DEF Ranges

\* What is dropped is counted.
LEMMA DropRanges ==
    ASSUME Ranges, Dropped
    PROVE  Ranges'
<1>1. /\ idle \in -1..UnicastTicks /\ control \in 0..MaxControl /\ losses \in 0..MaxLosses
      /\ Now \subseteq -1..UnicastTicks
  BY Limits DEF Ranges, Now
<1>2. CASE ControlDropped
  <2>1. idle' \in -1..UnicastTicks /\ control' \in 0..MaxControl
    BY <1>1, <1>2, Limits DEF ControlDropped
  <2>q. QED BY <1>2, <2>1 DEF ControlDropped, session, ghosts, Ranges
<1>3. CASE \E from \in Servers, p \in flight : UnicastDropped(from, p)
  <2>0. /\ losses < MaxLosses /\ losses' = losses + 1
        /\ idle' \in Now \/ idle' = idle
    BY <1>3 DEF UnicastDropped
  <2>1. losses' \in 0..MaxLosses
    BY <1>1, <2>0, Limits
  <2>2. idle' \in -1..UnicastTicks
    BY <1>1, <2>0
  <2>q. QED BY <1>3, <2>1, <2>2 DEF UnicastDropped, session, ghosts, Ranges
<1>q. QED BY <1>2, <1>3 DEF Dropped

\* Every step keeps the ranges.
LEMMA RangesKept ==
    ASSUME Ranges, live \in Nat, [Next]_vars
    PROVE  Ranges'
<1>1. CASE Control
  BY <1>1, ControlRanges
<1>2. CASE ServerSends
  BY <1>2 DEF ServerSends, session, clocks, ghosts, Ranges
<1>3. CASE UnicastLost
  <2>1. losses' \in 0..MaxLosses
    BY <1>3, Limits DEF UnicastLost, Ranges
  <2>q. QED BY <1>3, <2>1 DEF UnicastLost, session, clocks, ghosts, Ranges
<1>4. CASE Unicast
  <2>1. PICK from \in Servers, p \in flight : UnicastMedia(from, p)
    BY <1>4 DEF Unicast
  <2>2. /\ idle' \in Now /\ (state' = "REQUESTED" => state = "REQUESTED")
        /\ UNCHANGED <<vendor, server, verify, redirects, termSeq, failed, pending,
                       waited, quiet, control, losses, fell>>
    BY <2>1 DEF UnicastMedia, Progress, ghosts
  <2>3. idle' \in -1..UnicastTicks
    BY <2>2, Limits DEF Now
  <2>q. QED BY <2>2, <2>3 DEF Ranges
<1>5. CASE McastMedia
  BY <1>5, McastRanges
<1>6. CASE McastLost
  <2>1. losses' \in 0..MaxLosses /\ quiet' \in 0..McastTicks
    BY <1>6, Limits DEF McastLost, Ranges
  <2>q. QED BY <1>6, <2>1 DEF McastLost, session, ghosts, Ranges
<1>7. CASE Tick
  BY <1>7, TickRanges
<1>8. CASE Closing /\ UNCHANGED quiet /\ TicksPass
  <2>1. /\ idle \in -1..UnicastTicks /\ waited \in -1..SyncTicks
    BY DEF Ranges
  <2>2. /\ After(idle, UnicastTicks) \in -1..UnicastTicks /\ After(waited, SyncTicks) \in -1..SyncTicks
    BY <2>1, Limits, AfterKeeps
  <2>3. idle' \in -1..UnicastTicks /\ waited' \in -1..SyncTicks
    BY <1>8, <2>1, <2>2 DEF TicksPass
  <2>4. state' = "CLOSED" /\ pending' = <<>>
    BY <1>8 DEF Closing, Cleanup
  <2>q. QED BY <1>8, <2>3, <2>4 DEF Closing, Ranges
<1>9. CASE ViewerLeaves
  <2>1. state' = "CLOSED" /\ pending' = <<>>
    BY <1>9 DEF ViewerLeaves, Closing, Cleanup
  <2>q. QED BY <1>9, <2>1 DEF ViewerLeaves, Closing, clocks, Ranges
<1>10. CASE UNCHANGED vars
  BY <1>10 DEF vars, session, media, clocks, network, ghosts, Ranges
<1>11. CASE Chatter
  <2>1. /\ idle' \in Now /\ (state' = "REQUESTED" => state = "REQUESTED")
        /\ UNCHANGED <<vendor, server, verify, redirects, termSeq, failed, pending,
                       waited, quiet, control, losses, fell>>
    BY <1>11 DEF Chatter, Progress, network, ghosts
  <2>2. idle' \in -1..UnicastTicks
    BY <2>1, Limits DEF Now
  <2>q. QED BY <2>1, <2>2 DEF Ranges
<1>12. CASE Dropped
  BY <1>12, DropRanges
<1>q. QED BY <1>1, <1>2, <1>3, <1>4, <1>5, <1>6, <1>7, <1>8, <1>9, <1>10, <1>11, <1>12
          DEF Next, TickCloses

-----------------------------------------------------------------------------
\* What is kept for the handover: the packets of the multicast from the one at
\* which the burst was ended up to the newest, without a gap.
Kept ==
    /\ Open /\ failed => ~termSent
    /\ pending # <<>> => Open /\ termSent
    /\ losses = 0 => \A k \in 1..Len(pending) :
                        pending[k] = live - Len(pending) + k - 1 /\ Start <= pending[k]
    /\ termSent /\ state = "MCAST_REQUESTED" => pending # <<>> /\ termSeq = SeqNum(pending[1])

\* Until the session takes the multicast, the window is in step with the burst.
Stepped ==
    losses = 0 /\ state \notin {"MCAST_ACTIVE", "CLOSED"} => InStep(win, Received, last, nextUni)

\* After the handover what is kept goes on where the burst has got to.
Joint == state = "MCAST_ACTIVE" /\ ~fell /\ losses = 0 /\ pending # <<>> => pending[1] <= last + 1

Core == Reach /\ Kept /\ Stepped /\ Joint

\* A step that moves the session but touches no packet.
LEMMA MoveKeeps ==
    ASSUME Core, Open, state' # "CLOSED",
           UNCHANGED <<pending, win, last, flight, nextUni, live, losses, termSent, termSeq, failed>>,
           state' = "MCAST_REQUESTED" => state = "MCAST_REQUESTED" \/ ~termSent,
           state' = "MCAST_ACTIVE" => fell' \/ (state = "MCAST_ACTIVE" /\ fell' = fell),
           state = "MCAST_ACTIVE" => state' = "MCAST_ACTIVE"
    PROVE  Core'
<1>1. Reach'
  BY DEF Core, Reach
<1>2. Kept'
  BY DEF Core, Kept, Open
<1>3. Stepped'
  <2>1. Received' = Received
    BY DEF Received
  <2>2. state' \notin {"MCAST_ACTIVE", "CLOSED"} => state \notin {"MCAST_ACTIVE", "CLOSED"}
    BY DEF Open
  <2>q. QED BY <2>1, <2>2 DEF Core, Stepped
<1>4. Joint'
  BY DEF Core, Joint
<1>q. QED BY <1>1, <1>2, <1>3, <1>4 DEF Core

\* The end of the session.
LEMMA EndKeeps ==
    ASSUME Core, NEW to, Cleanup(to), UNCHANGED <<nextUni, live, losses>>
    PROVE  Core'
<1>1. state' = "CLOSED" /\ pending' = <<>> /\ flight' = {}
  BY DEF Cleanup
<1>2. Reach'
  BY <1>1 DEF Core, Reach
<1>3. Kept'
  <2>1. 1..Len(pending') = {}
    BY <1>1
  <2>q. QED BY <1>1, <2>1 DEF Kept, Open
<1>4. Stepped' /\ Joint'
  BY <1>1 DEF Stepped, Joint
<1>q. QED BY <1>2, <1>3, <1>4 DEF Core

\* The session gives up on the burst.
LEMMA FallBackMoves ==
    ASSUME Core, Open, NEW q, FallBack(q),
           UNCHANGED <<pending, win, last, flight, nextUni, live, losses, termSent, termSeq, failed>>
    PROVE  Core'
<1>1. state' = "MCAST_ACTIVE" /\ fell' = TRUE
  BY DEF FallBack
<1>q. QED BY <1>1, MoveKeeps

\* The session is told to join.
LEMMA SyncMoves ==
    ASSUME IInv, Core, Open, NEW q, Sync(q),
           UNCHANGED <<pending, win, last, flight, nextUni, live, losses, termSent, termSeq, failed>>
    PROVE  Core'
<1>1. CASE state \in OnMcast
  <2>1. state' = state /\ fell' = fell
    BY <1>1 DEF Sync
  <2>q. QED BY <2>1, MoveKeeps DEF Open
<1>2. CASE state \notin OnMcast
  <2>1. state' = "MCAST_REQUESTED" /\ state # "MCAST_ACTIVE" /\ ~termSent
    BY <1>2 DEF Sync, OnMcast, IInv, OnlyForward, TermAfterJoin
  <2>q. QED BY <2>1, MoveKeeps
<1>q. QED BY <1>1, <1>2

\* A response while one is awaited.
LEMMA ResponseMoves ==
    ASSUME Core, Open, state = "REQUESTED", NEW kind \in Kinds \ {"sync"}, NEW to,
           Response(kind, to), UNCHANGED <<last, nextUni, live, losses, termSeq, failed>>
    PROVE  Core'
<1>1. CASE kind \in {"error", "noUnicast", "unknown"}
  <2>1. FallBack(quiet) /\ UNCHANGED <<pending, win, flight, termSent>>
    BY <1>1 DEF Response, Refused
  <2>q. QED BY <2>1, FallBackMoves
<1>2. CASE kind = "unicast"
  <2>1. state' = "UNICAST_PENDING" /\ UNCHANGED <<pending, win, flight, termSent>>
    BY <1>2 DEF Response, Accepted
  <2>q. QED BY <2>1, MoveKeeps
<1>3. CASE kind = "redirect"
  <2>0. Redirect(to)
    BY <1>3 DEF Response
  <2>1. \/ FallBack(quiet) /\ UNCHANGED <<pending, win, flight, termSent>>
        \/ state' = "REQUESTED" /\ UNCHANGED <<pending, win, flight, termSent>>
        \/ \E target : Cleanup(target)
    BY <2>0 DEF Redirect
  <2>2. CASE FallBack(quiet) /\ UNCHANGED <<pending, win, flight, termSent>>
    BY <2>2, FallBackMoves
  <2>3. CASE state' = "REQUESTED" /\ UNCHANGED <<pending, win, flight, termSent>>
    BY <2>3, MoveKeeps
  <2>4. CASE \E target : Cleanup(target)
    BY <2>4, EndKeeps
  <2>q. QED BY <2>1, <2>2, <2>3, <2>4
<1>4. kind \in {"error", "noUnicast", "unicast", "redirect", "unknown"}
  BY FccAssumption
<1>q. QED BY <1>1, <1>2, <1>3, <1>4

\* Any control message.
LEMMA ControlMoves ==
    ASSUME IInv, Core, Control
    PROVE  Core'
<1>1. PICK from \in Servers, kind \in Kinds, to \in Servers \union {NoServer} :
         ControlMessage(from, kind, to)
  BY DEF Control
<1>2. Open /\ UNCHANGED <<last, nextUni, live, losses, termSeq, failed>>
  BY <1>1 DEF ControlMessage
<1>3. CASE kind = "sync"
  <2>1. Sync(quiet) /\ UNCHANGED <<pending, win, flight, termSent>>
    BY <1>1, <1>3 DEF ControlMessage
  <2>q. QED BY <1>2, <2>1, SyncMoves
<1>4. CASE kind # "sync" /\ state = "REQUESTED"
  <2>1. Response(kind, to)
    BY <1>1, <1>4 DEF ControlMessage
  <2>q. QED BY <1>2, <1>4, <2>1, ResponseMoves
<1>5. CASE kind # "sync" /\ state # "REQUESTED"
  <2>1. UNCHANGED <<state, fell, pending, win, flight, termSent>>
    BY <1>1, <1>5 DEF ControlMessage
  <2>q. QED BY <1>2, <2>1, MoveKeeps DEF Open
<1>q. QED BY <1>3, <1>4, <1>5

\* A tick.
LEMMA TickMoves ==
    ASSUME IInv, Core, Tick
    PROVE  Core'
<1>1. /\ Open
      /\ UNCHANGED <<pending, win, last, flight, nextUni, live, losses, termSent, termSeq, failed>>
  BY DEF Tick, TicksPass, network
<1>2. \E q : FallBack(q) \/ Sync(q) \/ UNCHANGED <<state, fell>>
  BY DEF Tick
<1>3. ASSUME NEW q, FallBack(q) PROVE Core'
  BY <1>1, <1>3, FallBackMoves
<1>4. ASSUME NEW q, Sync(q) PROVE Core'
  BY <1>1, <1>4, SyncMoves
<1>5. CASE UNCHANGED <<state, fell>>
  BY <1>1, <1>5, MoveKeeps DEF Open
<1>q. QED BY <1>2, <1>3, <1>4, <1>5

-----------------------------------------------------------------------------
\* The server sends the next packet of the burst.
LEMMA SendsOn ==
    ASSUME Near, Core, ServerSends
    PROVE  Core'
<1>1. /\ nextUni < live /\ \A p \in flight : nextUni - p < MaxFlight
      /\ flight' = flight \union {nextUni} /\ nextUni' = nextUni + 1
      /\ UNCHANGED <<state, fell, pending, win, last, live, losses, termSent, termSeq, failed>>
  BY DEF ServerSends, session, ghosts
<1>2. /\ flight \subseteq Start..(nextUni - 1) /\ nextUni \in Nat /\ live \in Nat /\ Start \in Nat
      /\ Start <= nextUni /\ nextUni <= live /\ live - Start <= M \div 2
      /\ MaxFlight \in Nat /\ 1 <= MaxFlight
  BY Sizes DEF Core, Reach, Near
<1>3. Reach'
  <2>1. ASSUME NEW p \in flight \union {nextUni}
        PROVE  p \in Start..((nextUni + 1) - 1) /\ (nextUni + 1) - p <= MaxFlight
    <3>1. CASE p \in flight
      <4>1. p \in Start..(nextUni - 1) /\ nextUni - p < MaxFlight
        BY <1>1, <1>2, <3>1
      <4>q. QED BY <4>1, <1>2
    <3>2. CASE p = nextUni
      BY <3>2, <1>2
    <3>q. QED BY <3>1, <3>2
  <2>2. nextUni + 1 \in Nat /\ Start <= nextUni + 1 /\ nextUni + 1 <= live
    BY <1>1, <1>2
  <2>q. QED BY <2>1, <2>2, <1>1, <1>2 DEF Reach
<1>4. Kept' /\ Joint'
  BY <1>1 DEF Core, Kept, Joint, Open
<1>5. Received' = Received
  <2>1. ASSUME NEW q \in Start..((nextUni + 1) - 1), q \notin flight \union {nextUni}
        PROVE  q \in Start..(nextUni - 1) /\ q \notin flight
    BY <1>2, <2>1
  <2>2. ASSUME NEW q \in Start..(nextUni - 1), q \notin flight
        PROVE  q \in Start..((nextUni + 1) - 1) /\ q \notin flight \union {nextUni}
    BY <1>2, <2>2
  <2>q. QED BY <2>1, <2>2, <1>1 DEF Received
<1>6. Stepped'
  <2>1. SUFFICES ASSUME InStep(win, Received, last, nextUni) PROVE InStep(win, Received, last, nextUni + 1)
    BY <1>1, <1>5 DEF Core, Stepped
  <2>2. Start..nextUni \subseteq Start..(nextUni + 1)
    BY <1>2
  <2>q. QED BY <2>1, <2>2 DEF InStep
<1>q. QED BY <1>3, <1>4, <1>6 DEF Core

\* A packet of the burst is lost or dropped: nothing is promised any more.
LEMMA LossKeeps ==
    ASSUME Core, Ranges, NEW p \in flight, flight' = flight \ {p}, losses' = losses + 1,
           UNCHANGED <<state, fell, pending, win, last, nextUni, live, termSent, termSeq, failed>>
    PROVE  Core'
<1>1. losses' # 0
  BY Limits DEF Ranges
<1>2. Reach'
  BY DEF Core, Reach
<1>3. Kept' /\ Stepped' /\ Joint'
  BY <1>1 DEF Core, Kept, Stepped, Joint, Open
<1>q. QED BY <1>2, <1>3 DEF Core

\* A packet of the burst arrives in the window.
LEMMA ArrivalKeeps ==
    ASSUME Near, Reach, InStep(win, Received, last, nextUni), NEW p \in flight,
           NEW res, res = Insert(win, p, FALSE)
    PROVE  InStep(res.r, Received \union {p}, Stream!Newest(res.out, last), nextUni)
<1>1. CASE win = Fresh /\ Received = {} /\ last = -1
  BY <1>1, FirstArrives
<1>2. CASE /\ win.phase = 1 /\ last = -1
           /\ \E B \in Received : (\A q \in Received : B <= q) /\ Holds(win, B, Received)
                                  /\ win.count < InitCollect
  <2>1. PICK B \in Received : (\A q \in Received : B <= q) /\ Holds(win, B, Received)
                              /\ win.count < InitCollect
    BY <1>2
  <2>q. QED BY <1>2, <2>1, CollectedArrives
<1>3. CASE /\ win.phase = 2
           /\ \E B \in Start..nextUni : B \notin Received /\ Holds(win, B, {q \in Received : q > B})
                                        /\ last = B - 1
  <2>1. PICK B \in Start..nextUni : B \notin Received /\ Holds(win, B, {q \in Received : q > B})
                                    /\ last = B - 1
    BY <1>3
  <2>q. QED BY <1>3, <2>1, DeliveredArrives
<1>q. QED BY <1>1, <1>2, <1>3 DEF InStep

\* The handover is made only when everything before the packets that are kept
\* has been handed out.
LEMMA HandsOver ==
    ASSUME IInv, Ranges, Reach, Kept, Open, state # "MCAST_ACTIVE", losses = 0,
           NEW r, NEW R, NEW end, InStep(r, R, end, nextUni), CaughtUp(r)
    PROVE  pending[1] <= end + 1
<1>1. /\ termSent /\ r.phase = 2
      /\ Ahead((r.base - 1) % M, (termSeq - 1) % M) >= 0
  BY DEF CaughtUp
<1>2. PICK B \in Start..nextUni : Holds(r, B, {q \in R : q > B}) /\ end = B - 1
  <2>1. Fresh.phase = 0
    BY DEF Fresh
  <2>q. QED BY <1>1, <2>1 DEF InStep
<1>3. state = "MCAST_REQUESTED"
  BY <1>1 DEF IInv, OnlyForward, TermAfterJoin, OnMcast
<1> DEFINE h == pending[1]
           n == Len(pending)
<1>4. /\ pending # <<>> /\ termSeq = SeqNum(h)
      /\ \A k \in 1..n : pending[k] = live - n + k - 1 /\ Start <= pending[k]
  BY <1>1, <1>3 DEF Kept
<1>5. /\ nextUni \in Nat /\ live \in Nat /\ Start \in Nat /\ M \div 2 \in Int
      /\ Start <= nextUni /\ nextUni <= live /\ live - Start <= M \div 2
  BY Sizes DEF Reach
<1>6. h \in Int /\ Start <= h /\ h < live
  <2>1. n \in Nat /\ n # 0
    <3>1. pending \in Seq(Nat)
      BY DEF Ranges
    <3>q. QED BY <1>4, <3>1
  <2>2. h = live - n + 1 - 1 /\ Start <= h
    <3>1. 1 \in 1..n
      BY <2>1
    <3>q. QED BY <3>1, <1>4
  <2> HIDE DEF h, n
  <2>q. QED BY <2>1, <2>2, <1>5
<1> HIDE DEF h
<1>7. (r.base - 1) % M = SeqNum(B - 1) /\ (termSeq - 1) % M = (h - 1) % M
  <2>1. B \in Int /\ -1 \in Int /\ r.base = B % M /\ termSeq = h % M
    BY <1>2, <1>4, <1>5 DEF Holds, SeqNum
  <2>2. ((B % M) + (-1)) % M = (B + (-1)) % M /\ ((h % M) + (-1)) % M = (h + (-1)) % M
    BY <2>1, <1>6, SlotOfPacket
  <2>3. /\ B % M \in Int /\ h % M \in Int
    BY <2>1, <1>6, Sizes, DivMod
  <2>4. (B % M) + (-1) = r.base - 1 /\ (h % M) + (-1) = termSeq - 1 /\ B + (-1) = B - 1 /\ h + (-1) = h - 1
    BY <2>1, <2>3, <1>6
  <2>q. QED BY <2>2, <2>4 DEF SeqNum
<1>8. ASSUME B < h PROVE FALSE
  <2> DEFINE a == B - 1
             b == h - 1
  <2>1. a \in Int /\ b \in Int /\ a - b < M \div 2 /\ b - a <= M \div 2 /\ a - b < 0
    BY <1>2, <1>5, <1>6, <1>8
  <2> HIDE DEF a, b
  <2>2. Ahead(SeqNum(a), b % M) = a - b
    BY <2>1, AheadIsDistance
  <2>3. Ahead(SeqNum(a), b % M) >= 0
    BY <1>1, <1>7 DEF a, b
  <2>q. QED BY <2>1, <2>2, <2>3
<1>q. QED BY <1>2, <1>5, <1>6, <1>8 DEF h

\* A packet of the burst goes into the window, and may make the handover.
LEMMA BurstKeeps ==
    ASSUME Near, IInv, Ranges, Core, Unicast
    PROVE  Core'
<1>1. PICK from \in Servers, p \in flight : UnicastMedia(from, p)
  BY DEF Unicast
<1>2. /\ Open /\ flight' = flight \ {p}
      /\ UNCHANGED <<fell, pending, nextUni, live, losses, termSent, termSeq, failed>>
  BY <1>1 DEF UnicastMedia, ghosts
<1>3. Reach'
  BY <1>2 DEF Core, Reach
<1>4. CASE state = "MCAST_ACTIVE"
  <2>1. UNCHANGED <<state, win, last>>
    BY <1>1, <1>4 DEF UnicastMedia
  <2>2. Kept' /\ Stepped' /\ Joint'
    BY <1>2, <1>4, <2>1 DEF Core, Kept, Stepped, Joint, Open
  <2>q. QED BY <1>3, <2>2 DEF Core
<1>5. CASE state # "MCAST_ACTIVE"
  <2> DEFINE res == Insert(win, p, FALSE)
  <2>1. /\ win' = res.r /\ last' = Stream!Newest(res.out, last)
        /\ state' = Progress(res.r)
    BY <1>1, <1>5 DEF UnicastMedia, Deliver
  <2> HIDE DEF res
  <2>2. /\ state' = "MCAST_ACTIVE" => CaughtUp(res.r)
        /\ state' = "MCAST_REQUESTED" => state = "MCAST_REQUESTED"
        /\ state' # "CLOSED"
    BY <1>2, <1>5, <2>1 DEF Open, Progress
  <2>3. Received' = Received \union {p}
    <3>1. p \in Start..(nextUni - 1)
      BY DEF Core, Reach
    <3>q. QED BY <1>2, <3>1 DEF Received
  <2>4. losses = 0 => InStep(res.r, Received \union {p}, Stream!Newest(res.out, last), nextUni)
    <3>1. losses = 0 => InStep(win, Received, last, nextUni)
      BY <1>2, <1>5 DEF Core, Stepped, Open
    <3>q. QED BY <3>1, ArrivalKeeps DEF Core, res
  <2>5. Stepped'
    BY <1>2, <2>1, <2>3, <2>4 DEF Stepped
  <2>6. Kept'
    BY <1>2, <2>2 DEF Core, Kept, Open
  <2>7. Joint'
    <3>1. losses = 0 /\ CaughtUp(res.r) => pending[1] <= Stream!Newest(res.out, last) + 1
      BY <1>2, <1>5, <2>4, HandsOver DEF Core
    <3>q. QED BY <1>2, <2>1, <2>2, <3>1 DEF Joint
  <2>q. QED BY <1>3, <2>5, <2>6, <2>7 DEF Core
<1>q. QED BY <1>4, <1>5

\* A datagram with nothing in it may find that the burst is complete.
LEMMA ChatterMoves ==
    ASSUME IInv, Ranges, Core, Chatter
    PROVE  Core'
<1>1. /\ Open /\ state' \in {state, Progress(win)}
      /\ UNCHANGED <<fell, pending, win, last, flight, nextUni, live, losses, termSent, termSeq, failed>>
  BY DEF Chatter, network, ghosts
<1>2. CASE state' = state
  BY <1>1, <1>2, MoveKeeps DEF Open
<1>3. CASE state' # state
  <2>1. /\ state # "MCAST_ACTIVE" => (state' = "MCAST_ACTIVE" => CaughtUp(win))
        /\ state' # "MCAST_REQUESTED" /\ state' # "CLOSED"
        /\ state # "MCAST_ACTIVE"
    BY <1>1, <1>3 DEF Progress
  <2>2. Reach'
    BY <1>1 DEF Core, Reach
  <2>3. Kept'
    BY <1>1, <2>1 DEF Core, Kept, Open
  <2>4. losses = 0 => InStep(win, Received, last, nextUni)
    BY <1>1, <2>1 DEF Core, Stepped, Open
  <2>5. Received' = Received
    BY <1>1 DEF Received
  <2>6. Stepped'
    BY <1>1, <2>4, <2>5 DEF Stepped
  <2>7. Joint'
    <3>1. losses = 0 /\ CaughtUp(win) => pending[1] <= last + 1
      BY <1>1, <2>1, <2>4, HandsOver DEF Core
    <3>q. QED BY <1>1, <2>1, <3>1 DEF Joint
  <2>q. QED BY <2>2, <2>3, <2>6, <2>7 DEF Core
<1>q. QED BY <1>2, <1>3

\* A packet of the multicast is kept with the ones before it, or handed out
\* after them.
LEMMA LiveKeeps ==
    ASSUME Near, IInv, Ranges, Core, McastMedia
    PROVE  Core'
<1>1. /\ Open /\ joined /\ live <= MaxPacket /\ live' = live + 1
      /\ UNCHANGED <<state, fell, flight, nextUni, losses>>
  BY DEF McastMedia
<1>2. Reach'
  <2>1. MaxPacket \in Nat /\ MaxPacket + 1 - Start <= M \div 2 /\ M \div 2 \in Int /\ Start \in Nat
    BY FccAssumption, Sizes DEF Near
  <2>2. live \in Nat /\ nextUni \in Nat /\ nextUni <= live
    BY DEF Core, Reach
  <2>3. live + 1 \in Nat /\ nextUni <= live + 1 /\ (live + 1) - Start <= M \div 2
    BY <1>1, <2>1, <2>2
  <2>q. QED BY <1>1, <2>3 DEF Core, Reach
<1>3. CASE state = "MCAST_ACTIVE" /\ pending' = <<>>
  <2>1. 1..Len(pending') = {}
    BY <1>3
  <2>2. termSent' = termSent /\ failed' = failed
    BY <1>3 DEF McastMedia, Active
  <2>3. Kept' /\ Stepped' /\ Joint'
    BY <1>1, <1>3, <2>1, <2>2 DEF Core, Kept, Stepped, Joint, Open
  <2>q. QED BY <1>2, <2>3 DEF Core
<1>4. CASE failed /\ UNCHANGED <<pending, win, last, termSent, termSeq, failed>>
  <2>1. pending = <<>>
    BY <1>1, <1>4 DEF Core, Kept
  <2>2. 1..Len(pending) = {}
    BY <2>1
  <2>3. Received' = Received
    BY <1>1 DEF Received
  <2>4. Kept' /\ Stepped' /\ Joint'
    BY <1>1, <1>4, <2>1, <2>2, <2>3 DEF Core, Kept, Stepped, Joint, Open
  <2>q. QED BY <1>2, <2>4 DEF Core
<1>5. CASE ~failed /\ state # "MCAST_ACTIVE" /\ Transition(live)
  <2>1. UNCHANGED <<win, last>> /\ Received' = Received
    BY <1>1, <1>5 DEF Transition, Received
  <2>2. Stepped' /\ Joint'
    BY <1>1, <1>5, <2>1 DEF Core, Stepped, Joint
  <2>3. state = "MCAST_REQUESTED" /\ pending \in Seq(Nat) /\ live \in Nat /\ Start <= live /\ Start \in Nat
    <3>1. state = "MCAST_REQUESTED" /\ pending \in Seq(Nat)
      BY <1>1, <1>5 DEF IInv, OnlyForward, OnMcast, Ranges
    <3>2. live \in Nat /\ Start <= live /\ Start \in Nat
      BY Sizes DEF Core, Reach
    <3>q. QED BY <3>1, <3>2
  <2> DEFINE n == Len(pending)
  <2>4. /\ n \in Nat /\ Len(Append(pending, live)) = n + 1
        /\ \A k \in 1..n : Append(pending, live)[k] = pending[k]
        /\ Append(pending, live)[n + 1] = live /\ Append(pending, live) # <<>>
    BY <2>3, AppendProperties, LenProperties
  <2>5. CASE termSent
    <3>1. pending' = Append(pending, live) /\ UNCHANGED <<termSent, termSeq, failed>>
      BY <1>5, <2>5 DEF Transition
    <3>2. /\ pending # <<>> /\ termSeq = SeqNum(pending[1]) /\ 1 \in 1..n
      <4>1. pending # <<>> /\ termSeq = SeqNum(pending[1])
        BY <2>3, <2>5 DEF Core, Kept
      <4>2. n # 0
        BY <2>3, <4>1
      <4>q. QED BY <2>4, <4>1, <4>2
    <3>3. losses = 0 => \A k \in 1..(n + 1) :
             /\ Append(pending, live)[k] = (live + 1) - (n + 1) + k - 1
             /\ Start <= Append(pending, live)[k]
      <4>1. SUFFICES ASSUME losses = 0, NEW k \in 1..(n + 1)
                     PROVE  /\ Append(pending, live)[k] = (live + 1) - (n + 1) + k - 1
                            /\ Start <= Append(pending, live)[k]
        OBVIOUS
      <4>2. \A i \in 1..n : pending[i] = live - n + i - 1 /\ Start <= pending[i]
        BY <4>1 DEF Core, Kept
      <4> HIDE DEF n
      <4>3. CASE k \in 1..n
        <5>1. Append(pending, live)[k] = live - n + k - 1 /\ Start <= Append(pending, live)[k]
          BY <2>4, <4>2, <4>3
        <5>2. live - n + k - 1 = (live + 1) - (n + 1) + k - 1
          BY <2>3, <2>4
        <5>q. QED BY <5>1, <5>2
      <4>4. CASE k = n + 1
        BY <2>3, <2>4, <4>4
      <4>q. QED BY <2>4, <4>3, <4>4
    <3>4. Append(pending, live)[1] = pending[1]
      BY <2>4, <3>2
    <3> HIDE DEF n
    <3>5. Kept'
      BY <1>1, <1>5, <2>3, <2>4, <2>5, <3>1, <3>2, <3>3, <3>4 DEF Kept, Open, n
    <3>q. QED BY <1>2, <2>2, <3>5 DEF Core
  <2>6. CASE ~termSent
    <3>1. PICK ok \in Outcomes(SendMayFail) :
             /\ termSeq' = SeqNum(live) /\ SendTerm(ok, server) /\ failed' = ~ok
             /\ pending' = (IF ok THEN Append(pending, live) ELSE pending)
      BY <1>5, <2>6 DEF Transition
    <3>2. pending = <<>> /\ ok \in BOOLEAN /\ termSent' = ok
      <4>1. ok \in BOOLEAN
        BY OutcomeKinds, FccAssumption
      <4>q. QED BY <2>6, <3>1, <4>1 DEF Core, Kept, SendTerm
    <3>3. CASE ok
      <4>1. pending' = <<live>> /\ termSent' /\ ~failed'
        <5>1. Append(<<>>, live) = <<live>>
          OBVIOUS
        <5>q. QED BY <3>1, <3>2, <3>3, <5>1
      <4>2. /\ Len(pending') = 1 /\ pending'[1] = live /\ pending' # <<>>
        BY <4>1
      <4>3. \A k \in 1..Len(pending') : pending'[k] = live' - Len(pending') + k - 1 /\ Start <= pending'[k]
        <5>1. \A k \in 1..1 : k = 1
          OBVIOUS
        <5>2. live = (live + 1) - 1 + 1 - 1
          BY <2>3
        <5>q. QED BY <1>1, <2>3, <4>2, <5>1, <5>2
      <4>4. Kept'
        BY <1>1, <3>1, <4>1, <4>2, <4>3 DEF Kept, Open
      <4>q. QED BY <1>2, <2>2, <4>4 DEF Core
    <3>4. CASE ~ok
      <4>1. pending' = <<>> /\ ~termSent' /\ 1..Len(pending') = {}
        BY <3>1, <3>2, <3>4
      <4>2. Kept'
        BY <1>1, <4>1 DEF Kept
      <4>q. QED BY <1>2, <2>2, <4>2 DEF Core
    <3>q. QED BY <3>3, <3>4
  <2>q. QED BY <2>5, <2>6
<1>6. \/ failed /\ UNCHANGED <<pending, win, last, termSent, termSeq, failed>>
      \/ state = "MCAST_ACTIVE" /\ pending' = <<>>
      \/ ~failed /\ state # "MCAST_ACTIVE" /\ Transition(live)
  BY DEF McastMedia, Active
<1>q. QED BY <1>3, <1>4, <1>5, <1>6

\* A packet of the multicast that does not come is missed only by a session
\* that has joined, and then it counts as lost.
LEMMA MissKeeps ==
    ASSUME Near, IInv, Ranges, Core, McastLost
    PROVE  Core'
<1>1. /\ Open /\ live <= MaxPacket /\ live' = live + 1
      /\ UNCHANGED <<state, fell, flight, nextUni, pending, win, last, termSent, termSeq, failed, joined>>
      /\ joined => losses' = losses + 1
      /\ ~joined => losses' = losses
  BY DEF McastLost, session, ghosts
<1>2. Reach'
  <2>1. MaxPacket \in Nat /\ MaxPacket + 1 - Start <= M \div 2 /\ M \div 2 \in Int /\ Start \in Nat
    BY FccAssumption, Sizes DEF Near
  <2>2. live \in Nat /\ nextUni \in Nat /\ nextUni <= live
    BY DEF Core, Reach
  <2>3. live + 1 \in Nat /\ nextUni <= live + 1 /\ (live + 1) - Start <= M \div 2
    BY <1>1, <2>1, <2>2
  <2>q. QED BY <1>1, <2>3 DEF Core, Reach
<1>3. CASE joined
  <2>1. losses' # 0
    BY <1>1, <1>3, Limits DEF Ranges
  <2>2. Kept' /\ Stepped' /\ Joint'
    BY <1>1, <2>1 DEF Core, Kept, Stepped, Joint, Open
  <2>q. QED BY <1>2, <2>2 DEF Core
<1>4. CASE ~joined
  <2>1. pending = <<>> /\ ~termSent
    BY <1>1, <1>4 DEF IInv, OnlyForward, TermAfterJoin
  <2>2. 1..Len(pending) = {} /\ Received' = Received
    BY <1>1, <2>1 DEF Received
  <2>3. Kept' /\ Stepped' /\ Joint'
    BY <1>1, <1>4, <2>1, <2>2 DEF Core, Kept, Stepped, Joint, Open
  <2>q. QED BY <1>2, <2>3 DEF Core
<1>q. QED BY <1>3, <1>4

-----------------------------------------------------------------------------
\* Every step keeps burst and multicast together.
LEMMA CoreKept ==
    ASSUME Near, IInv, Ranges, Core, [Next]_vars
    PROVE  Core'
<1>1. CASE Control
  BY <1>1, ControlMoves
<1>2. CASE ServerSends
  BY <1>2, SendsOn
<1>3. CASE UnicastLost
  <2>1. \E p \in flight : flight' = flight \ {p}
    BY <1>3 DEF UnicastLost
  <2>q. QED BY <1>3, <2>1, LossKeeps DEF UnicastLost, session, ghosts
<1>4. CASE Unicast
  BY <1>4, BurstKeeps
<1>5. CASE McastMedia
  BY <1>5, LiveKeeps
<1>6. CASE McastLost
  BY <1>6, MissKeeps
<1>7. CASE Tick
  BY <1>7, TickMoves
<1>8. CASE TickCloses \/ ViewerLeaves
  <2>1. Cleanup(server) /\ UNCHANGED <<nextUni, live, losses>>
    BY <1>8 DEF TickCloses, ViewerLeaves, Closing
  <2>q. QED BY <2>1, EndKeeps
<1>9. CASE UNCHANGED vars
  <2>1. UNCHANGED <<state, fell, flight, nextUni, pending, win, last, live, losses, termSent, termSeq, failed>>
    BY <1>9 DEF vars, session, media, network, ghosts
  <2>2. Received' = Received
    BY <2>1 DEF Received
  <2>q. QED BY <2>1, <2>2 DEF Core, Reach, Kept, Stepped, Joint, Open
<1>10. CASE ControlDropped
  <2>1. UNCHANGED <<state, fell, flight, nextUni, pending, win, last, live, losses, termSent, termSeq, failed>>
    BY <1>10 DEF ControlDropped, session, ghosts
  <2>q. QED BY <1>10, <2>1, MoveKeeps DEF ControlDropped, Open
<1>11. CASE \E from \in Servers, p \in flight : UnicastDropped(from, p)
  <2>1. PICK from \in Servers, p \in flight : UnicastDropped(from, p)
    BY <1>11
  <2>2. /\ flight' = flight \ {p} /\ losses' = losses + 1
        /\ UNCHANGED <<state, fell, pending, win, last, nextUni, live, termSent, termSeq, failed>>
    BY <2>1 DEF UnicastDropped, session, ghosts
  <2>q. QED BY <2>2, LossKeeps
<1>12. CASE Chatter
  BY <1>12, ChatterMoves
<1>q. QED BY <1>1, <1>2, <1>3, <1>4, <1>5, <1>6, <1>7, <1>8, <1>9, <1>10, <1>11, <1>12
          DEF Next, Dropped

\* A burst starts behind the multicast, with nothing received.
LEMMA CoreInitially ==
    ASSUME Near, Init
    PROVE  Ranges /\ Core
<1>1. Ranges
  <2>1. 0 \in 0..(MaxRedirects + 1) /\ 0 <= MaxRedirects /\ 0 \in SeqNums
        /\ Now \subseteq -1..UnicastTicks /\ -1 \in -1..SyncTicks /\ 0 \in 0..McastTicks
        /\ MaxControl \in 0..MaxControl /\ 0 \in 0..MaxLosses
    BY Limits, Sizes DEF SeqNums, Now
  <2>2. <<>> \in Seq(Nat) /\ FirstServer \in Servers
    BY FccAssumption
  <2>q. QED BY <2>1, <2>2 DEF Init, Ranges
<1>2. Start \in Nat /\ Lag \in Nat /\ Lag <= M \div 2 /\ M \div 2 \in Int
  BY FccAssumption, Sizes DEF Near
<1>3. flight = {} /\ nextUni = Start /\ live = Start + Lag /\ pending = <<>> /\ last = -1 /\ win = Fresh
      /\ state = "REQUESTED" /\ termSent = FALSE /\ failed = FALSE
  BY DEF Init
<1>4. Reach
  <2>1. Start <= Start + Lag /\ Start + Lag \in Nat /\ (Start + Lag) - Start <= M \div 2
    BY <1>2
  <2>q. QED BY <1>2, <1>3, <2>1 DEF Reach
<1>5. Kept
  <2>1. 1..Len(pending) = {}
    BY <1>3
  <2>q. QED BY <1>3, <2>1 DEF Kept
<1>6. Received = {}
  BY <1>2, <1>3 DEF Received
<1>7. Stepped /\ Joint
  BY <1>3, <1>6 DEF Stepped, Joint, InStep
<1>q. QED BY <1>1, <1>4, <1>5, <1>7 DEF Core

\* What is kept has no gap, and goes on where the burst ends.
LEMMA NoGap ==
    ASSUME IInv, Informed, Ranges, Core
    PROVE  Seamless
<1>1. TypeOK
  <2>1. flight \subseteq Nat /\ nextUni \in Nat /\ live \in Nat
    BY Sizes DEF Core, Reach
  <2>2. promised \subseteq Servers
    BY DEF Informed
  <2>q. QED BY <2>1, <2>2 DEF TypeOK, IInv, Counted, OnlyForward, Ranges
<1>2. ASSUME state = "MCAST_ACTIVE" /\ ~fell /\ losses = 0 /\ pending # <<>>
      PROVE  /\ Head(pending) <= last + 1
             /\ \A k \in 1..Len(pending) : pending[k] = Head(pending) + k - 1
  <2>1. Head(pending) = pending[1] /\ Len(pending) \in Nat /\ 1 \in 1..Len(pending)
    <3>1. pending \in Seq(Nat)
      BY DEF Ranges
    <3>2. Len(pending) \in Nat /\ Len(pending) # 0
      BY <1>2, <3>1
    <3>3. 1 \in 1..Len(pending)
      BY <3>2
    <3>q. QED BY <3>2, <3>3
  <2>2. pending[1] <= last + 1
    BY <1>2 DEF Core, Joint
  <2> DEFINE n == Len(pending)
  <2>3. \A k \in 1..n : pending[k] = live - n + k - 1
    BY <1>2 DEF Core, Kept
  <2>4. live \in Nat /\ n \in Nat
    BY <2>1 DEF Core, Reach
  <2> HIDE DEF n
  <2>5. ASSUME NEW k \in 1..n PROVE pending[k] = pending[1] + k - 1
    <3>1. pending[k] = live - n + k - 1 /\ pending[1] = live - n + 1 - 1
      BY <2>1, <2>3 DEF n
    <3>q. QED BY <2>4, <3>1
  <2>q. QED BY <2>1, <2>2, <2>5 DEF n
<1>q. QED BY <1>1, <1>2 DEF Seamless

\* If no packet is lost or dropped, a session that hands over rather than falling
\* back shows the viewer no gap where the burst ends and the multicast begins:
\* fcc_handle_unicast_media() hands over only once everything before the first
\* packet kept has been handed out, and none of those that follow is missed.
THEOREM HandoverIsSeamless ==
    ASSUME Near
    PROVE  Spec => []Seamless
<1> DEFINE Whole == IInv /\ Informed /\ Ranges /\ Core
<1>1. Init => Whole
  BY Initially, InformedInitially, CoreInitially
<1>2. Whole /\ [Next]_vars => Whole'
  <2>1. SUFFICES ASSUME Whole, [Next]_vars PROVE Whole'
    OBVIOUS
  <2>2. live \in Nat
    BY <2>1 DEF Core, Reach
  <2>q. QED BY <2>1, <2>2, Inductive, InformedKept, RangesKept, CoreKept
<1>3. Whole => Seamless
  BY NoGap
<1> HIDE DEF Whole
<1>q. QED BY <1>1, <1>2, <1>3, PTL DEF Spec
=============================================================================
