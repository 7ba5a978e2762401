----------------------------- MODULE Rtsp_proofs -----------------------------
(***************************************************************************)
(* For any buffers, addresses, limits and servers, whatever a server       *)
(* answers, late or never, with whatever redirects and challenges, and     *)
(* wherever the session is closed: a session never has a second request on *)
(* its way before the first is answered, and SETUP advertises the endpoint *)
(* that DESCRIBE has named.                                                *)
(*                                                                         *)
(* A call of the session works on a record (Now) through many operators;   *)
(* Good is what each of them keeps of that record, and IInv says that the  *)
(* record between two calls is good and rests in no passing state.         *)
(***************************************************************************)
EXTENDS Rtsp, Lemmas

-----------------------------------------------------------------------------
(* Sequences of items. *)

Requests == {"OPTIONS", "DESCRIBE", "SETUP", "PLAY", "TEARDOWN", "KEEPALIVE"}
Todo == Requests \union {"BROKEN"}
AllCodes == {"ok", "tcp", "udp", "unsupported", "challenge", "refuse", "redirect"}

\* What the server sends; only the answer to SETUP names a transport.
Items ==
    [k : {"frame", "request", "announce", "lead"}]
    \union {a \in [k : {"answer"}, to : Todo, code : AllCodes] :
                a.code \in {"tcp", "udp"} => a.to = "SETUP"}

\* Items other than answers to SETUP.
Others == {a \in Items : a.k = "answer" => a.to # "SETUP"}

\* Where the answers of a sequence are.
Places(q) == {i \in DOMAIN q : q[i].k = "answer"}

\* What is sent in two parts is not interrupted.
Follows(q) == \A i \in 1..(Len(q) - 1) : q[i].k = "lead" => q[i + 1].k = "answer"

\* The places of the answers in a sequence are finitely many.
LEMMA AnswersType ==
    ASSUME NEW q \in Seq(Items)
    PROVE  IsFiniteSet(Places(q)) /\ Answers(q) = Cardinality(Places(q)) /\ Answers(q) \in Nat
<1>1. Len(q) \in Nat /\ DOMAIN q = 1..Len(q)
  BY LenProperties
<1>2. IsFiniteSet(1..Len(q))
  BY <1>1, FS_Interval
<1>3. Places(q) \in SUBSET (1..Len(q))
  BY <1>1 DEF Places
<1>4. IsFiniteSet(Places(q))
  BY <1>2, <1>3, FS_Subset
<1>5. Cardinality(Places(q)) \in Nat
  BY <1>4, FS_CardinalityType
<1>6. Answers(q) = Cardinality(Places(q))
  BY Zenon DEF Answers, Places
<1>q. QED BY <1>4, <1>5, <1>6

\* A part of a sequence has the answers that are in it.
LEMMA AnswersAdd ==
    ASSUME NEW p \in Seq(Items), NEW q \in Seq(Items)
    PROVE  p \o q \in Seq(Items) /\ Answers(p \o q) = Answers(p) + Answers(q)
<1> DEFINE n == Len(p)
           S == {i + n : i \in Places(q)}
           r == p \o q
<1>1. n \in Nat /\ Len(q) \in Nat /\ DOMAIN p = 1..n /\ DOMAIN q = 1..Len(q)
  BY LenProperties
<1>2. r \in Seq(Items) /\ Len(r) = n + Len(q) /\ DOMAIN r = 1..(n + Len(q))
      /\ \A i \in 1..(n + Len(q)) : r[i] = IF i <= n THEN p[i] ELSE q[i - n]
  BY <1>1, ConcatProperties, LenProperties
<1>3. \A i \in 1..n : i \in 1..(n + Len(q)) /\ i <= n
  BY <1>1
<1>4. \A i \in 1..Len(q) : i + n \in 1..(n + Len(q)) /\ ~(i + n <= n) /\ (i + n) - n = i
  BY <1>1
<1>5. \A i \in 1..(n + Len(q)) : ~(i <= n) => i - n \in 1..Len(q) /\ i = (i - n) + n
  BY <1>1
<1>6. \A i \in 1..(n + Len(q)) : i <= n => i \in 1..n
  BY <1>1
<1> HIDE DEF n, r
<1>7. Places(r) = Places(p) \union S
  <2>1. \A i \in Places(r) : i \in Places(p) \/ i \in S
    <3>1. TAKE i \in Places(r)
    <3>2. i \in 1..(n + Len(q)) /\ r[i].k = "answer"
      BY <1>2 DEF Places
    <3>3. CASE i <= n
      BY <1>1, <1>2, <1>6, <3>2, <3>3 DEF Places
    <3>4. CASE ~(i <= n)
      <4>1. i - n \in Places(q)
        BY <1>1, <1>2, <1>5, <3>2, <3>4 DEF Places
      <4>q. QED BY <1>5, <3>2, <3>4, <4>1
    <3>q. QED BY <3>3, <3>4
  <2>2. \A i \in Places(p) : i \in Places(r)
    BY <1>1, <1>2, <1>3 DEF Places
  <2>3. \A i \in Places(q) : i + n \in Places(r)
    BY <1>1, <1>2, <1>4 DEF Places
  <2>q. QED BY <2>1, <2>2, <2>3
<1>8. IsFiniteSet(Places(p)) /\ IsFiniteSet(Places(q)) /\ Answers(p) = Cardinality(Places(p))
      /\ Answers(q) = Cardinality(Places(q)) /\ Answers(r) = Cardinality(Places(r))
      /\ Answers(p) \in Nat /\ Answers(q) \in Nat
  BY <1>2, AnswersType
<1>9. IsFiniteSet(S) /\ Cardinality(S) = Cardinality(Places(q))
  <2> DEFINE f == [i \in Places(q) |-> i + n]
  <2>1. \A i \in Places(q) : i \in Nat
    BY <1>1 DEF Places
  <2>2. f \in Bijection(Places(q), S)
    <3>1. f \in [Places(q) -> S]
      OBVIOUS
    <3>2. \A i, j \in Places(q) : f[i] = f[j] => i = j
      BY <1>1, <2>1
    <3>3. \A s \in S : \E i \in Places(q) : f[i] = s
      OBVIOUS
    <3>q. QED BY <3>1, <3>2, <3>3 DEF Bijection, Injection, Surjection, IsInjective
  <2>3. ExistsBijection(Places(q), S)
    BY <2>2 DEF ExistsBijection
  <2>q. QED BY <1>8, <2>3, FS_Bijection
<1>10. Places(p) \cap S = {}
  <2>1. ASSUME NEW i \in Places(p), NEW j \in Places(q), i = j + n PROVE FALSE
    <3>1. i \in 1..n /\ j \in 1..Len(q)
      BY <1>1 DEF Places
    <3>q. QED BY <1>4, <2>1, <3>1
  <2>q. QED BY <2>1
<1>11. Cardinality(Places(p) \union S) = Cardinality(Places(p)) + Cardinality(S) - Cardinality(Places(p) \cap S)
  BY <1>8, <1>9, FS_Union
<1>12. Cardinality({}) = 0
  BY FS_EmptySet
<1>13. Answers(r) = Answers(p) + Answers(q)
  <2> HIDE DEF S
  <2>1. PICK a, b, c \in Nat : a = Cardinality(Places(p)) /\ b = Cardinality(S) /\ c = Cardinality(Places(r))
    BY <1>2, <1>8, <1>9, AnswersType
  <2>2. c = (a + b) - 0
    <3>1. Cardinality(Places(r)) = Cardinality(Places(p)) + Cardinality(S) - Cardinality({})
      BY <1>7, <1>10, <1>11
    <3>q. QED BY <1>12, <2>1, <3>1
  <2>3. Answers(p) = a /\ Answers(q) = b /\ Answers(r) = c
    BY <1>8, <1>9, <2>1
  <2>q. QED BY <2>1, <2>2, <2>3
<1>q. QED BY <1>2, <1>13 DEF r

\* A sequence of no items has no answer, and one of a single item at most one.
LEMMA AnswersOfOne ==
    /\ Answers(<<>>) = 0
    /\ \A e \in Items : Answers(<<e>>) = IF e.k = "answer" THEN 1 ELSE 0
<1>1. Places(<<>>) = {} /\ <<>> \in Seq(Items)
  BY DEF Places
<1>2. Answers(<<>>) = 0
  BY <1>1, AnswersType, FS_EmptySet
<1>3. ASSUME NEW e \in Items PROVE Answers(<<e>>) = IF e.k = "answer" THEN 1 ELSE 0
  <2>1. <<e>> \in Seq(Items) /\ DOMAIN <<e>> = {1} /\ <<e>>[1] = e
    OBVIOUS
  <2>2. Answers(<<e>>) = Cardinality(Places(<<e>>))
    BY <2>1, AnswersType
  <2>3. CASE e.k = "answer"
    <3>1. Places(<<e>>) = {1}
      BY <2>1, <2>3 DEF Places
    <3>2. Cardinality({1}) = 1
      BY FS_Singleton
    <3>q. QED BY <2>2, <2>3, <3>1, <3>2
  <2>4. CASE e.k # "answer"
    <3>1. Places(<<e>>) = {}
      BY <2>1, <2>4 DEF Places
    <3>q. QED BY <2>2, <2>4, <3>1, FS_EmptySet
  <2>q. QED BY <2>3, <2>4
<1>q. QED BY <1>2, <1>3

\* A sequence without an answer has none to SETUP; one with an answer has one.
LEMMA NoAnswers ==
    ASSUME NEW q \in Seq(Items)
    PROVE  /\ Answers(q) = 0 => q \in Seq(Others)
           /\ \A i \in DOMAIN q : q[i].k = "answer" => Answers(q) >= 1
<1>1. Len(q) \in Nat /\ DOMAIN q = 1..Len(q) /\ \A i \in 1..Len(q) : q[i] \in Items
  BY LenProperties, ElementOfSeq
<1>2. IsFiniteSet(Places(q)) /\ Answers(q) = Cardinality(Places(q)) /\ Answers(q) \in Nat
  BY AnswersType
<1>3. Cardinality(Places(q)) = 0 => Places(q) = {}
  BY <1>2, FS_EmptySet
<1>4. ASSUME Answers(q) = 0 PROVE q \in Seq(Others)
  <2>1. Places(q) = {}
    BY <1>2, <1>3, <1>4
  <2>2. \A i \in 1..Len(q) : q[i].k # "answer"
    BY <1>1, <2>1 DEF Places
  <2>3. \A i \in 1..Len(q) : q[i] \in Others
    BY <1>1, <2>2 DEF Others
  <2>4. q = [i \in 1..Len(q) |-> q[i]]
    BY LenProperties
  <2>q. QED BY <1>1, <2>3, <2>4, IsASeq
<1>5. ASSUME NEW i \in DOMAIN q, q[i].k = "answer" PROVE Answers(q) >= 1
  <2>1. Places(q) # {}
    BY <1>5 DEF Places
  <2>2. Answers(q) # 0
    BY <1>2, <1>3, <2>1
  <2>q. QED BY <1>2, <2>2
<1>q. QED BY <1>4, <1>5

\* Where a sequence is cut.
LEMMA CutInTwo ==
    ASSUME NEW T, NEW s \in Seq(T), NEW k \in 0..Len(s)
    PROVE  /\ SubSeq(s, 1, k) \in Seq(T) /\ SubSeq(s, k + 1, Len(s)) \in Seq(T)
           /\ SubSeq(s, 1, k) \o SubSeq(s, k + 1, Len(s)) = s
           /\ Len(SubSeq(s, 1, k)) = k /\ Len(SubSeq(s, k + 1, Len(s))) = Len(s) - k
           /\ \A i \in 1..k : SubSeq(s, 1, k)[i] = s[i]
<1>1. Len(s) \in Nat /\ \A i \in 1..Len(s) : s[i] \in T
  BY LenProperties, ElementOfSeq
<1>2. /\ SubSeq(s, 1, k) \in Seq(T) /\ Len(SubSeq(s, 1, k)) = IF 1 <= k THEN k - 1 + 1 ELSE 0
      /\ \A i \in 1..(k - 1 + 1) : SubSeq(s, 1, k)[i] = s[1 + i - 1]
  <2>1. \A i \in 1..k : s[i] \in T
    BY <1>1
  <2>2. 1 \in Int /\ k \in Int
    OBVIOUS
  <2>q. QED BY <2>1, <2>2, SubSeqProperties
<1>3. /\ SubSeq(s, k + 1, Len(s)) \in Seq(T)
      /\ Len(SubSeq(s, k + 1, Len(s))) = IF k + 1 <= Len(s) THEN Len(s) - (k + 1) + 1 ELSE 0
  <2>1. \A i \in (k + 1)..Len(s) : s[i] \in T
    BY <1>1
  <2>2. Len(s) \in Int /\ k + 1 \in Int
    BY <1>1
  <2>q. QED BY <2>1, <2>2, SubSeqProperties
<1>4. SubSeq(s, 1, k) \o SubSeq(s, k + 1, Len(s)) = SubSeq(s, 1, Len(s))
  <2>1. 1 \in 1..(Len(s) + 1) /\ k \in (1 - 1)..Len(s) /\ Len(s) \in k..Len(s)
    BY <1>1
  <2>q. QED BY <2>1, ConcatAdjacentSubSeq
<1>5. SubSeq(s, 1, Len(s)) = s
  BY SubSeqFull
<1>6. \A i \in 1..k : SubSeq(s, 1, k)[i] = s[i]
  <2>1. \A i \in 1..k : i \in 1..(k - 1 + 1) /\ 1 + i - 1 = i
    OBVIOUS
  <2>q. QED BY <1>2, <2>1
<1>7. Len(SubSeq(s, 1, k)) = k
  BY <1>2
<1>8. Len(SubSeq(s, k + 1, Len(s))) = Len(s) - k
  <2>1. PICK n \in Nat : n = Len(s)
    BY <1>1
  <2>q. QED BY <1>3, <2>1
<1>9. SubSeq(s, 1, k) \o SubSeq(s, k + 1, Len(s)) = s
  BY <1>4, <1>5
<1>q. QED BY <1>2, <1>3, <1>6, <1>7, <1>8, <1>9

\* Three sequences of items in a row.
LEMMA Regroup ==
    ASSUME NEW p \in Seq(Items), NEW q \in Seq(Items), NEW r \in Seq(Items)
    PROVE  (p \o q) \o r = p \o (q \o r)
BY ConcatAssociative

\* The parts of a sequence that is not interrupted are not.
LEMMA FollowsParts ==
    ASSUME NEW p \in Seq(Items), NEW q \in Seq(Items), Follows(p \o q)
    PROVE  Follows(p) /\ Follows(q)
<1> DEFINE n == Len(p)
           m == Len(q)
           r == p \o q
<1>1. n \in Nat /\ m \in Nat /\ Len(r) = n + m
      /\ \A i \in 1..(n + m) : r[i] = IF i <= n THEN p[i] ELSE q[i - n]
  BY ConcatProperties, LenProperties
<1>2. \A i \in 1..(Len(r) - 1) : r[i].k = "lead" => r[i + 1].k = "answer"
  BY DEF Follows
<1> HIDE DEF n, m, r
<1>3. ASSUME NEW i \in 1..(n - 1), p[i].k = "lead" PROVE p[i + 1].k = "answer"
  <2>1. i \in 1..(n + m) /\ i + 1 \in 1..(n + m) /\ i <= n /\ i + 1 <= n /\ i \in 1..((n + m) - 1)
    BY <1>1
  <2>2. r[i] = p[i] /\ r[i + 1] = p[i + 1]
    BY <1>1, <2>1
  <2>q. QED BY <1>1, <1>2, <1>3, <2>1, <2>2
<1>4. ASSUME NEW i \in 1..(m - 1), q[i].k = "lead" PROVE q[i + 1].k = "answer"
  <2>1. PICK j : j = i + n
    OBVIOUS
  <2>2. j \in 1..(n + m) /\ j + 1 \in 1..(n + m) /\ ~(j <= n) /\ ~(j + 1 <= n) /\ j \in 1..((n + m) - 1)
        /\ j - n = i /\ (j + 1) - n = i + 1
    BY <1>1, <2>1
  <2>3. r[j] = q[i] /\ r[j + 1] = q[i + 1]
    BY <1>1, <2>2
  <2>q. QED BY <1>1, <1>2, <1>4, <2>2, <2>3
<1>q. QED BY <1>3, <1>4 DEF Follows, n, m

\* What comes before may be any items that are whole.
LEMMA FollowsAfter ==
    ASSUME NEW p \in Seq(Items), NEW q \in Seq(Items), Follows(q),
           \A i \in 1..Len(p) : p[i].k # "lead"
    PROVE  Follows(p \o q)
<1> DEFINE n == Len(p)
           m == Len(q)
           r == p \o q
<1>1. n \in Nat /\ m \in Nat /\ Len(r) = n + m
      /\ \A i \in 1..(n + m) : r[i] = IF i <= n THEN p[i] ELSE q[i - n]
  BY ConcatProperties, LenProperties
<1>2. \A i \in 1..(m - 1) : q[i].k = "lead" => q[i + 1].k = "answer"
  BY DEF Follows
<1>0. \A i \in 1..n : p[i].k # "lead"
  OBVIOUS
<1> HIDE DEF n, m, r
<1>3. ASSUME NEW i \in 1..((n + m) - 1), r[i].k = "lead" PROVE r[i + 1].k = "answer"
  <2>1. ~(i <= n)
    <3>1. i <= n => i \in 1..n /\ i \in 1..(n + m)
      BY <1>1
    <3>q. QED BY <1>0, <1>1, <1>3, <3>1
  <2>2. PICK j : j = i - n
    OBVIOUS
  <2>3. i \in 1..(n + m) /\ i + 1 \in 1..(n + m) /\ ~(i + 1 <= n) /\ j \in 1..(m - 1) /\ (i + 1) - n = j + 1
    BY <1>1, <2>1, <2>2
  <2>4. r[i] = q[j] /\ r[i + 1] = q[j + 1]
    BY <1>1, <2>1, <2>2, <2>3
  <2>q. QED BY <1>2, <1>3, <2>3, <2>4
<1>4. Len(r) = n + m
  BY <1>1
<1>q. QED BY <1>3, <1>4 DEF Follows, r

\* A sequence grows by an answer, or by anything once it is whole.
LEMMA FollowsAppend ==
    ASSUME NEW q \in Seq(Items), NEW e \in Items, Follows(q),
           e.k = "answer" \/ Len(q) = 0 \/ q[Len(q)].k # "lead"
    PROVE  Follows(Append(q, e))
<1> DEFINE n == Len(q)
           r == Append(q, e)
<1>1. n \in Nat /\ Len(r) = n + 1 /\ r[n + 1] = e /\ \A i \in 1..n : r[i] = q[i]
  BY AppendProperties, LenProperties
<1>2. \A i \in 1..(n - 1) : q[i].k = "lead" => q[i + 1].k = "answer"
  BY DEF Follows
<1>3. e.k = "answer" \/ n = 0 \/ q[n].k # "lead"
  OBVIOUS
<1> HIDE DEF n, r
<1>4. ASSUME NEW i \in 1..((n + 1) - 1), r[i].k = "lead" PROVE r[i + 1].k = "answer"
  <2>1. i \in 1..n /\ r[i] = q[i]
    BY <1>1, <1>4
  <2>2. CASE i = n
    BY <1>1, <1>3, <1>4, <2>1, <2>2
  <2>3. CASE i # n
    <3>1. i \in 1..(n - 1) /\ i + 1 \in 1..n
      BY <1>1, <2>1, <2>3
    <3>q. QED BY <1>1, <1>2, <1>4, <2>1, <3>1
  <2>q. QED BY <2>2, <2>3
<1>q. QED BY <1>1, <1>4 DEF Follows, r

-----------------------------------------------------------------------------
(* What a call works on, and what holds of it. *)

Passing == {"CONNECTED", "DESCRIBED", "SETUP", "TEARDOWN_COMPLETE"}
Mappings == {"none", "own", "stale"}

Sessions ==
    [st : States \union Passing, open : BOOLEAN, left : Nat, pend : Requests \union {"none"},
     part : BOOLEAN, awaiting : BOOLEAN, kaQueued : BOOLEAN, kaAwaited : BOOLEAN,
     useGet : BOOLEAN, sid : BOOLEAN, tcp : BOOLEAN, udp : BOOLEAN,
     stun : {"idle", "asking", "done"}, map : Mappings, named : Mappings, parked : BOOLEAN,
     media : BOOLEAN, tearing : BOOLEAN, reconnected : BOOLEAN, redirects : Nat, auths : Nat,
     paused : BOOLEAN, buf : Seq(Items), eof : BOOLEAN, out : BOOLEAN, live : BOOLEAN]

Links ==
    [todo : Seq(Todo), wire : Seq(Items), fin : {"open", "eof", "reset"}, edge : BOOLEAN,
     plays : BOOLEAN, torn : BOOLEAN]

Viewers ==
    [conn : {"streaming", "closing", "deferred", "freed"}, headers : BOOLEAN, room : Nat,
     sent : Nat, got : Nat, kas : Nat, moves : Nat]

Results ==
    {"ok", "failed", "close", "stop", "end", "error", "advance", "keepalive", "duration", "metadata"}

Calls ==
    [sess : Sessions, link : Links, viewer : Viewers, gen : Nat, mod : BOOLEAN, ret : Results]

RequestOf ==
    [SENDING_OPTIONS |-> "OPTIONS", SENDING_DESCRIBE |-> "DESCRIBE", SENDING_SETUP |-> "SETUP",
     SENDING_PLAY |-> "PLAY", SENDING_TEARDOWN |-> "TEARDOWN"]

Sending == DOMAIN RequestOf
Moving == {"CONNECTING", "RECONNECTING", "CONNECTED"}
Tearing == {"SENDING_TEARDOWN", "AWAITING_TEARDOWN", "TEARDOWN_COMPLETE"}
Naming == {"SENDING_DESCRIBE", "AWAITING_DESCRIBE", "DESCRIBED", "SENDING_SETUP", "AWAITING_SETUP"}

\* The request in hand is that of the state, or a keepalive that waits for
\* nothing; what a session that connects has left over is no SETUP; an answer is awaited only where one is taken, and DESCRIBE is held
\* back only after the answer to OPTIONS.
PendRight(s) ==
    /\ s.st \in Sending => s.pend = RequestOf[s.st]
    /\ s.st \notin Sending \union Moving => s.pend = IF s.kaQueued THEN "KEEPALIVE" ELSE "none"
    /\ s.st \in Moving => s.pend # "SETUP"
    /\ s.kaQueued => ~s.awaiting /\ s.st \in {"PLAYING", "RECONNECTING", "SENDING_TEARDOWN"}
    /\ s.kaAwaited => s.st \in {"PLAYING", "RECONNECTING", "SENDING_TEARDOWN", "AWAITING_TEARDOWN"}
    /\ s.awaiting => s.st \in {"AWAITING_OPTIONS", "AWAITING_DESCRIBE", "AWAITING_SETUP", "AWAITING_PLAY",
                               "PLAYING", "RECONNECTING", "SENDING_TEARDOWN", "AWAITING_TEARDOWN"}
    /\ s.parked => s.st = "AWAITING_OPTIONS" /\ ~s.awaiting

\* From DESCRIBE to SETUP the endpoint that was named is the one there is.
NamedRight(s) == s.st \in Naming => s.map = s.named /\ s.stun # "asking"

\* Requests and answers on their way.
Outstanding(x) == Len(x.link.todo) + Answers(x.sess.buf) + Answers(x.link.wire)

Counts(x) ==
    /\ x.sess.st \in Tearing =>
          x.sess.tearing /\ Outstanding(x) + (IF x.sess.pend = "none" THEN 0 ELSE 1) <= 2
    /\ x.sess.st \notin Tearing => Outstanding(x) <= IF x.sess.awaiting THEN 1 ELSE 0
    /\ x.sess.st = "RECONNECTING" => x.sess.tearing

\* Nothing of a SETUP is under way but while its answer is awaited.
SetupRight(x) ==
    x.sess.st # "AWAITING_SETUP" =>
        /\ x.link.todo \in Seq(Todo \ {"SETUP"})
        /\ x.sess.buf \in Seq(Others) /\ x.link.wire \in Seq(Others)

Whole(x) == Follows(x.sess.buf \o x.link.wire) /\ Len(x.sess.buf) <= BufferItems

Good == {x \in Calls : /\ PendRight(x.sess) /\ NamedRight(x.sess)
                       /\ Counts(x) /\ SetupRight(x) /\ Whole(x)}

Rests(x) == x \in Good /\ x.sess.st \in States

\* What a step that only moves bytes leaves alone.
SameCourse(x, y) ==
    /\ y.sess.st = x.sess.st /\ y.sess.pend = x.sess.pend /\ y.sess.awaiting = x.sess.awaiting
    /\ y.sess.kaQueued = x.sess.kaQueued /\ y.sess.kaAwaited = x.sess.kaAwaited
    /\ y.sess.map = x.sess.map /\ y.sess.named = x.sess.named /\ y.sess.stun = x.sess.stun
    /\ y.sess.parked = x.sess.parked /\ y.sess.tearing = x.sess.tearing
    /\ y.link.todo = x.link.todo /\ y.gen = x.gen

SameBytes(x, y) == y.sess.buf = x.sess.buf /\ y.link.wire = x.link.wire

\* A call that keeps to its course and moves no bytes stays good.
LEMMA CourseGood ==
    ASSUME NEW x \in Good, NEW y \in Calls, SameCourse(x, y), SameBytes(x, y)
    PROVE  y \in Good /\ (Rests(x) => Rests(y))
<1>1. PendRight(x.sess) /\ NamedRight(x.sess) /\ Counts(x) /\ SetupRight(x) /\ Whole(x)
  BY DEF Good
<1>2. PendRight(y.sess) /\ NamedRight(y.sess)
  BY <1>1 DEF PendRight, NamedRight, SameCourse
<1>3. Counts(y) /\ SetupRight(y) /\ Whole(y)
  BY <1>1 DEF Counts, SetupRight, Whole, Outstanding, SameCourse, SameBytes
<1>4. y \in Good
  BY <1>2, <1>3 DEF Good
<1>q. QED BY <1>4 DEF Rests, SameCourse

\* The result of a call, its interest and what the client gets do not change
\* the course.
LEMMA ReturnsGood ==
    ASSUME NEW x \in Calls, NEW r \in Results, NEW b \in BOOLEAN
    PROVE  /\ Returns(x, r) \in Calls /\ SameCourse(x, Returns(x, r)) /\ SameBytes(x, Returns(x, r))
           /\ Interest(x, b) \in Calls /\ SameCourse(x, Interest(x, b)) /\ SameBytes(x, Interest(x, b))
<1>1. Returns(x, r) \in Calls /\ SameCourse(x, Returns(x, r)) /\ SameBytes(x, Returns(x, r))
  BY DEF Returns, Calls, SameCourse, SameBytes
<1>2. Interest(x, b) \in Calls /\ SameCourse(x, Interest(x, b)) /\ SameBytes(x, Interest(x, b))
  BY ZenonT(60) DEF Interest, Calls, Sessions, SameCourse, SameBytes
<1>q. QED BY <1>1, <1>2

\* A frame that is forwarded changes neither the course of the session nor what is
\* on the connection.
LEMMA ForwardGood ==
    ASSUME NEW x \in Calls
    PROVE  Forward(x) \in Calls /\ SameCourse(x, Forward(x)) /\ SameBytes(x, Forward(x)) /\ Forward(x).ret = x.ret
<1>1. x.viewer.room \in Nat /\ x.viewer.got \in Nat /\ (x.viewer.room # 0 => x.viewer.room - 1 \in Nat)
  BY DEF Calls, Viewers
<1>2. CASE x.sess.tearing
  BY <1>2 DEF Forward, SameCourse, SameBytes
<1>3. CASE ~x.sess.tearing
  <2>1. PICK r \in Nat : r = IF x.viewer.room = 0 THEN 0 ELSE x.viewer.room - 1
    BY <1>1
  <2>2. PICK g \in Nat : g = x.viewer.got + 1
    BY <1>1
  <2> DEFINE y == [x EXCEPT !.sess.media = TRUE, !.viewer.headers = TRUE, !.viewer.got = g, !.viewer.room = r]
  <2>3. y \in Calls /\ SameCourse(x, y) /\ SameBytes(x, y) /\ y.ret = x.ret
    BY ZenonT(60) DEF SameCourse, SameBytes, Calls, Sessions, Viewers
  <2>4. Forward(x) = y
    BY <1>3, <2>1, <2>2 DEF Forward, Calls, Viewers
  <2>q. QED BY <2>3, <2>4
<1>q. QED BY <1>2, <1>3

\* A finished session is at rest.
LEMMA CleanupGood ==
    ASSUME NEW x \in Calls
    PROVE  /\ Rests(ForceCleanup(x)) /\ ForceCleanup(x).ret = x.ret
           /\ Rests(Fails(x)) /\ Fails(x).ret = "close"
           /\ Rests(Drains(x)) /\ Drains(x).ret = "ok"
<1> DEFINE y == ForceCleanup(x)
<1>1. <<>> \in Seq(Items) /\ <<>> \in Seq(Others) /\ <<>> \in Seq(Todo) /\ <<>> \in Seq(Todo \ {"SETUP"}) /\ Len(<<>>) = 0
      /\ <<>> \o <<>> = <<>>
  BY EmptySeq, ConcatEmptySeq
<1>2. y \in Calls
  <2>1. NewLink \in Links
    BY <1>1 DEF NewLink, Links
  <2>2. [NewSession EXCEPT !.live = FALSE] \in Sessions
    BY <1>1 DEF NewSession, Sessions, Mappings, States
  <2>q. QED BY <2>1, <2>2 DEF ForceCleanup, Calls
<1>3. y.sess.st = "INIT" /\ y.sess.pend = "none" /\ ~y.sess.awaiting /\ ~y.sess.kaQueued /\ ~y.sess.kaAwaited
      /\ ~y.sess.parked /\ y.sess.buf = <<>> /\ y.link.wire = <<>> /\ y.link.todo = <<>> /\ y.ret = x.ret
  BY DEF ForceCleanup, NewSession, NewLink, Calls
<1> HIDE DEF y
<1>4. PendRight(y.sess) /\ NamedRight(y.sess)
  BY <1>3 DEF PendRight, NamedRight, Sending, RequestOf, Moving, Naming
<1>5. Counts(y) /\ SetupRight(y)
  BY <1>1, <1>3, AnswersOfOne DEF Counts, Outstanding, SetupRight, Tearing
<1>6. Whole(y)
  BY <1>1, <1>3, RtspAssumption DEF Whole, Follows
<1>7. y \in Good /\ Rests(y)
  BY <1>2, <1>3, <1>4, <1>5, <1>6 DEF Good, Rests, States
<1>8. Rests(Fails(x)) /\ Fails(x).ret = "close"
  <2>1. Fails(x) = Returns(y, "close") /\ "close" \in Results
    BY DEF Fails, y, Results
  <2>2. Fails(x) \in Calls /\ SameCourse(y, Fails(x)) /\ SameBytes(y, Fails(x))
    BY <1>2, <2>1, ReturnsGood
  <2>3. Fails(x).ret = "close"
    BY <1>2, <2>1 DEF Returns, Calls
  <2>q. QED BY <1>7, <2>2, <2>3, CourseGood
<1>9. Rests(Drains(x)) /\ Drains(x).ret = "ok"
  <2> DEFINE z == [y EXCEPT !.viewer.conn = IF @ = "streaming" THEN "closing" ELSE @]
  <2>1. Drains(x) = Returns(z, "ok") /\ "ok" \in Results
    BY DEF Drains, y, Results
  <2>2. z \in Calls /\ SameCourse(y, z) /\ SameBytes(y, z)
    BY <1>2 DEF Calls, Viewers, SameCourse, SameBytes
  <2> HIDE DEF z
  <2>3. Rests(z)
    BY <1>7, <2>2, CourseGood
  <2>4. Drains(x) \in Calls /\ SameCourse(z, Drains(x)) /\ SameBytes(z, Drains(x))
    BY <2>1, <2>2, ReturnsGood
  <2>5. Drains(x).ret = "ok"
    BY <2>1, <2>2 DEF Returns, Calls
  <2>6. z \in Good
    BY <2>3 DEF Rests
  <2>q. QED BY <2>2, <2>3, <2>4, <2>5, <2>6, CourseGood
<1>q. QED BY <1>3, <1>7, <1>8, <1>9 DEF y

\* Bytes that are taken, or move on, leave a call good when no answer is made
\* of them and none is cut in two.
LEMMA BytesGood ==
    ASSUME NEW x \in Good, NEW y \in Calls, SameCourse(x, y),
           Answers(y.sess.buf) + Answers(y.link.wire) <= Answers(x.sess.buf) + Answers(x.link.wire),
           SetupRight(y), Whole(y)
    PROVE  y \in Good /\ (Rests(x) => Rests(y))
<1>1. PendRight(x.sess) /\ NamedRight(x.sess) /\ Counts(x)
  BY DEF Good
<1>2. PendRight(y.sess) /\ NamedRight(y.sess)
  BY <1>1 DEF PendRight, NamedRight, SameCourse
<1>3. Counts(y)
  <2>1. x.sess.buf \in Seq(Items) /\ x.link.wire \in Seq(Items) /\ y.sess.buf \in Seq(Items) /\ y.link.wire \in Seq(Items)
        /\ x.link.todo \in Seq(Todo)
    BY DEF Good, Calls, Sessions, Links
  <2>2. PICK a, b, c, d, n \in Nat : /\ a = Answers(x.sess.buf) /\ b = Answers(x.link.wire)
                                     /\ c = Answers(y.sess.buf) /\ d = Answers(y.link.wire) /\ n = Len(x.link.todo)
    BY <2>1, AnswersType, LenProperties
  <2>3. Outstanding(x) = n + a + b /\ Outstanding(y) = n + c + d /\ c + d <= a + b
    BY <2>2 DEF Outstanding, SameCourse
  <2>0. c + d <= a + b
    BY <2>3
  <2>9. a \in Nat /\ b \in Nat /\ c \in Nat /\ d \in Nat /\ n \in Nat
    OBVIOUS
  <2>4. \A k, z \in Int : n + a + b + k <= z => n + c + d + k <= z
    BY ONLY <2>0, <2>9
  <2>5. \A z \in Int : n + a + b <= z => n + c + d <= z
    BY ONLY <2>0, <2>9
  <2>6. 0 \in Int /\ 1 \in Int /\ 2 \in Int
    OBVIOUS
  <2>7. SameCourse(x, y)
    OBVIOUS
  <2>q. QED BY <1>1, <2>3, <2>4, <2>5, <2>6, <2>7 DEF Counts, SameCourse
<1>4. y \in Good
  BY <1>2, <1>3 DEF Good
<1>q. QED BY <1>4 DEF Rests, SameCourse

\* The first item of the buffer is taken off it.
LEMMA TakenGood ==
    ASSUME NEW x \in Good, x.sess.buf # <<>>, NEW y, y = [x EXCEPT !.sess.buf = Tail(@)]
    PROVE  y \in Good /\ SameCourse(x, y) /\ y.ret = x.ret
<1> DEFINE b == x.sess.buf
           w == x.link.wire
           t == Tail(x.sess.buf)
           h == <<Head(x.sess.buf)>>
<1>1. b \in Seq(Items) /\ w \in Seq(Items) /\ (b \in Seq(Others) => t \in Seq(Others))
      /\ Len(b) <= BufferItems /\ Follows(b \o w)
  BY HeadTailProperties DEF Good, Calls, Sessions, Links, Whole
<1>2. Head(b) \in Items /\ t \in Seq(Items) /\ Len(t) = Len(b) - 1 /\ Len(b) \in Nat
  BY <1>1, HeadTailProperties, LenProperties
<1>3. h \in Seq(Items) /\ h \o t = b
  <2>1. 1 \in 0..Len(b)
    <3>1. Len(b) # 0
      BY <1>1, EmptySeq
    <3>q. QED BY <1>2, <3>1
  <2>2. SubSeq(b, 1, 1) \o SubSeq(b, 1 + 1, Len(b)) = b
    BY <1>1, <2>1, CutInTwo
  <2>3. t = SubSeq(b, 2, Len(b))
    BY <1>1, TailIsSubSeq
  <2>4. SubSeq(b, 1, 1) = h
    <3>1. /\ SubSeq(b, 1, 1) \in Seq(Items) /\ Len(SubSeq(b, 1, 1)) = 1 /\ SubSeq(b, 1, 1)[1] = b[1]
      BY <1>1, <2>1, CutInTwo
    <3>2. b[1] = Head(b)
      BY <1>1
    <3>3. h \in Seq(Items) /\ Len(h) = 1 /\ h[1] = Head(b)
      BY <1>2
    <3>4. \A i \in 1..Len(SubSeq(b, 1, 1)) : SubSeq(b, 1, 1)[i] = h[i]
      BY <3>1, <3>2, <3>3
    <3>q. QED BY <3>1, <3>3, <3>4, SeqEqual
  <2>q. QED BY <1>2, <2>2, <2>3, <2>4
<1> HIDE DEF b, w, t, h
<1>4. Follows(t \o w)
  <2>1. h \o (t \o w) = b \o w
    <3>0. h \in Seq(Items) /\ t \in Seq(Items) /\ w \in Seq(Items)
      BY <1>1, <1>2, <1>3
    <3>1. (h \o t) \o w = h \o (t \o w)
      BY <3>0, Regroup
    <3>q. QED BY <1>3, <3>1
  <2>2. t \o w \in Seq(Items)
    BY <1>1, <1>2, ConcatProperties
  <2>q. QED BY <1>1, <1>3, <2>1, <2>2, FollowsParts
<1>5. Answers(t) <= Answers(b)
  <2>1. Answers(b) = Answers(h) + Answers(t)
    BY <1>2, <1>3, AnswersAdd
  <2>2. Answers(h) \in Nat /\ Answers(t) \in Nat
    BY <1>2, <1>3, AnswersType
  <2>q. QED BY <2>1, <2>2
<1>6. y \in Calls /\ y.sess.buf = t /\ y.link.wire = w /\ SameCourse(x, y) /\ y.ret = x.ret
  BY <1>2 DEF Good, Calls, Sessions, SameCourse, t, w
<1>7. Whole(y)
  <2>1. Len(t) <= BufferItems
    BY <1>1, <1>2, RtspAssumption
  <2>q. QED BY <1>4, <1>6, <2>1 DEF Whole
<1>8. SetupRight(y)
  <2>1. SetupRight(x)
    BY DEF Good
  <2>q. QED BY <1>1, <1>6, <2>1 DEF SetupRight, SameCourse, b, w
<1>9. Answers(y.sess.buf) + Answers(y.link.wire) <= Answers(x.sess.buf) + Answers(x.link.wire)
  <2>1. Answers(w) \in Nat /\ Answers(t) \in Nat /\ Answers(b) \in Nat
    BY <1>1, <1>2, AnswersType
  <2>2. Answers(t) + Answers(w) <= Answers(b) + Answers(w)
    BY <1>5, <2>1
  <2>q. QED BY <1>6, <2>2 DEF b, w
<1>q. QED BY <1>6, <1>7, <1>8, <1>9, BytesGood

\* What a step of the buffer's reading keeps.
Along(x) == {y \in Good : SameCourse(x, y)}

\* Two such steps are one.
LEMMA AlongTwice ==
    ASSUME NEW x, NEW y \in Along(x), NEW z \in Along(y)
    PROVE  z \in Along(x)
BY DEF Along, SameCourse

\* Along the same course, the result is the same or that the media has ended.
Ending(x) == {y \in Along(x) : y.ret \in {x.ret, "end"}}

\* An item of the buffer that is no answer is taken.
LEMMA ConsumeGood ==
    ASSUME NEW x \in Good, NEW i
    PROVE  Consume(x, i) \in Ending(x)
<1> DEFINE y == [x EXCEPT !.sess.buf = Tail(@)]
<1>1. x \in Along(x)
  BY DEF Along, SameCourse
<1>2. CASE x.ret # "ok" \/ x.sess.buf = <<>>
  <2>1. Consume(x, i) = x
    BY Zenon, <1>2 DEF Consume
  <2>q. QED BY <1>1, <2>1 DEF Ending
<1>3. CASE ~(x.ret # "ok" \/ x.sess.buf = <<>>)
  <2>1. y \in Good /\ SameCourse(x, y) /\ y.ret = x.ret
    BY <1>3, TakenGood
  <2>2. y \in Along(x)
    BY <2>1 DEF Along
  <2>3. \/ Consume(x, i) = Forward(y) \/ Consume(x, i) = y
        \/ Consume(x, i) = Returns(y, "end") \/ Consume(x, i) = x
    <3>1. CASE Head(x.sess.buf).k = "frame"
      BY Zenon, <1>3, <3>1 DEF Consume
    <3>2. CASE Head(x.sess.buf).k = "request"
      BY Zenon, <1>3, <3>2 DEF Consume
    <3>3. CASE Head(x.sess.buf).k = "announce"
      BY Zenon, <1>3, <3>3 DEF Consume
    <3>4. CASE Head(x.sess.buf).k \notin {"frame", "request", "announce"}
      BY Zenon, <1>3, <3>4 DEF Consume
    <3>q. QED BY <3>1, <3>2, <3>3, <3>4
  <2> HIDE DEF y
  <2>4. "end" \in Results /\ y \in Calls
    BY <2>1 DEF Good, Results
  <2>5. Forward(y) \in Along(y)
    BY <2>1, <2>4, ForwardGood, CourseGood DEF Along
  <2>6. Returns(y, "end") \in Along(y)
    BY <2>1, <2>4, ReturnsGood, CourseGood DEF Along
  <2>7. Forward(y).ret = y.ret /\ Returns(y, "end").ret = "end"
    BY <2>4, ForwardGood DEF Returns, Calls
  <2>q. QED BY <1>1, <2>1, <2>2, <2>3, <2>5, <2>6, <2>7, AlongTwice DEF Ending
<1>q. QED BY <1>2, <1>3

\* The buffer's items are taken one after the other.
LEMMA ProcessBufferGood ==
    ASSUME NEW w \in Good
    PROVE  ProcessBuffer(w) \in Ending(w) /\ ProcessBuffer(w) \in Along(w)
<1> DEFINE ps == w.sess.buf
           n == Len(ps)
           T == Ending(w)
           step(h, s) == IF s = {} THEN w ELSE Consume(h[s \ {Max(s)}], ps[Max(s)])
           IsIt(h) == h = [s \in SUBSET DOMAIN ps |-> step(h, s)]
           g == [z \in T \X (1..n) |-> Consume(z[1], ps[z[2]])]
           iter == CHOOSE h : IsIt(h)
           x == ProcessBuffer(w)
<1>1. n \in Nat /\ DOMAIN ps = 1..n
  <2>1. ps \in Seq(Items)
    BY DEF Good, Calls, Sessions
  <2>q. QED BY <2>1, LenProperties
<1>2. w \in T
  BY DEF Ending, Along, SameCourse
<1>3. \A y \in T, k \in 1..n : Consume(y, ps[k]) \in T
  <2>1. TAKE y \in T, k \in 1..n
  <2>2. y \in Good /\ y \in Along(w) /\ y.ret \in {w.ret, "end"}
    BY DEF Along, Ending
  <2>3. Consume(y, ps[k]) \in Ending(y)
    BY <2>2, ConsumeGood
  <2>q. QED BY <2>2, <2>3, AlongTwice DEF Ending
<1>4. x = iter[DOMAIN ps]
  BY Zenon DEF ProcessBuffer, FoldLeft, MapThenFoldSet
<1> HIDE DEF n, T
<1>5. \E h : IsIt(h)
  <2>1. g \in [T \X (1..n) -> T]
    BY <1>3
  <2> HIDE DEF g
  <2>2. PICK h \in [SUBSET (1..n) -> T] : \A s \in SUBSET (1..n) : h[s] = Folded(h, s, w, g)
    <3>1. n \in Nat
      BY <1>1
    <3>2. \E h : Folds(h, n, T, w, g)
      BY <3>1, <1>2, <2>1, FoldExists
    <3>q. QED BY <3>2 DEF Folds
  <2>3. ASSUME NEW s \in SUBSET (1..n) PROVE h[s] = step(h, s)
    <3>1. CASE s = {}
      BY <3>1, <2>2 DEF Folded
    <3>2. CASE s # {}
      <4>1. Max(s) \in 1..n
        BY <1>1, <3>2, MaxIsGreatest
      <4>2. h[s \ {Max(s)}] \in T
        OBVIOUS
      <4>3. h[s] = g[<<h[s \ {Max(s)}], Max(s)>>]
        BY <3>2, <2>2 DEF Folded
      <4>q. QED BY <3>2, <4>1, <4>2, <4>3 DEF g
    <3>q. QED BY <3>1, <3>2
  <2>4. h = [s \in SUBSET (1..n) |-> step(h, s)]
    BY <2>3
  <2>q. QED BY <1>1, <2>4
<1>6. IsIt(iter)
  BY <1>5
<1>7. PICK i : i = iter
  OBVIOUS
<1>8. \A s \in SUBSET (1..n) : i[s] = step(i, s)
  <2>1. i = [s \in SUBSET (1..n) |-> step(i, s)]
    BY <1>1, <1>6, <1>7
  <2>q. QED BY <2>1
<1>9. i[{}] \in T
  BY <1>2, <1>8
<1>10. ASSUME NEW k \in 1..n, i[1..(k - 1)] \in T PROVE i[1..k] \in T
  <2>1. 1..k \in SUBSET (1..n) /\ 1..k # {} /\ Max(1..k) = k /\ (1..k) \ {k} = 1..(k - 1)
    BY <1>1, FirstPlaces
  <2>2. i[1..k] = Consume(i[1..(k - 1)], ps[k])
    BY <1>8, <2>1
  <2>q. QED BY <2>2, <1>3, <1>10
<1>11. i[1..n] \in T
  BY <1>1, <1>9, <1>10, FoldedStays
<1>12. x \in T
  BY <1>1, <1>4, <1>7, <1>11
<1>q. QED BY <1>12 DEF T, Ending

\* What is read off the socket goes to the end of the buffer.
LEMMA RecvGood ==
    ASSUME NEW x \in Good
    PROVE  Recv(x) \in Along(x) /\ Recv(x).ret = x.ret
<1> DEFINE b == x.sess.buf
           w == x.link.wire
           k == Fits(x)
           p == SubSeq(w, 1, k)
           q == SubSeq(w, k + 1, Len(w))
           y == Recv(x)
<1>1. b \in Seq(Items) /\ w \in Seq(Items) /\ Len(b) <= BufferItems /\ Follows(b \o w)
      /\ Len(b) \in Nat /\ Len(w) \in Nat
  BY LenProperties DEF Good, Calls, Sessions, Links, Whole
<1>2. k \in 0..Len(w) /\ Len(b) + k <= BufferItems
  <2>1. PICK m, n, z \in Nat : m = Len(b) /\ n = Len(w) /\ z = BufferItems
    BY <1>1, RtspAssumption
  <2>2. k = IF n < z - m THEN n ELSE z - m
    BY <2>1 DEF Fits
  <2>3. m <= z
    BY <1>1, <2>1
  <2> HIDE DEF k
  <2>4. k \in 0..n /\ m + k <= z
    BY <2>2, <2>3
  <2>q. QED BY <2>1, <2>4
<1>3. p \in Seq(Items) /\ q \in Seq(Items) /\ p \o q = w /\ Len(p) = k
      /\ (w \in Seq(Others) => p \in Seq(Others) /\ q \in Seq(Others))
  <2> HIDE DEF k, w
  <2>q. QED BY <1>1, <1>2, CutInTwo
<1> HIDE DEF k, p, q, w, b
<1>4. b \o p \in Seq(Items) /\ Len(b \o p) = Len(b) + k
  BY <1>1, <1>3, ConcatProperties
<1>5. y \in Calls /\ y.sess.buf = b \o p /\ y.link.wire = q /\ SameCourse(x, y) /\ y.ret = x.ret
  <2>1. PICK bp \in Seq(Items) : bp = b \o p
    BY <1>4
  <2>2. x \in Calls
    BY DEF Good
  <2>3. y = [x EXCEPT !.sess.buf = bp, !.link.wire = q]
    BY <2>1, <2>2 DEF Recv, b, p, w, q, k, Calls, Sessions, Links
  <2> HIDE DEF y
  <2>4. y \in Calls /\ y.sess.buf = bp /\ y.link.wire = q /\ SameCourse(x, y) /\ y.ret = x.ret
    BY ZenonT(60), <1>3, <2>2, <2>3 DEF Calls, Sessions, Links, SameCourse
  <2>q. QED BY <2>1, <2>4
<1> HIDE DEF y
<1>6. Whole(y)
  <2>0. b \in Seq(Items) /\ p \in Seq(Items) /\ q \in Seq(Items)
    BY <1>1, <1>3
  <2>1. (b \o p) \o q = b \o (p \o q)
    BY <2>0, Regroup
  <2>2. Len(b \o p) <= BufferItems
    BY <1>2, <1>4
  <2>q. QED BY <1>1, <1>3, <1>5, <2>1, <2>2 DEF Whole
<1>7. SetupRight(y)
  <2>1. SetupRight(x)
    BY DEF Good
  <2>2. b \in Seq(Others) /\ p \in Seq(Others) => b \o p \in Seq(Others)
    BY ConcatProperties
  <2>q. QED BY <1>3, <1>5, <2>1, <2>2 DEF SetupRight, SameCourse, b, w
<1>8. Answers(y.sess.buf) + Answers(y.link.wire) <= Answers(x.sess.buf) + Answers(x.link.wire)
  <2>1. Answers(b \o p) = Answers(b) + Answers(p) /\ Answers(p \o q) = Answers(p) + Answers(q)
    BY <1>1, <1>3, AnswersAdd
  <2>2. PICK i, j, l \in Nat : i = Answers(b) /\ j = Answers(p) /\ l = Answers(q)
    BY <1>1, <1>3, AnswersType
  <2>3. Answers(y.sess.buf) = i + j /\ Answers(y.link.wire) = l /\ Answers(x.sess.buf) = i /\ Answers(x.link.wire) = j + l
    BY <1>3, <1>5, <2>1, <2>2 DEF b, w
  <2>q. QED BY <2>2, <2>3
<1>9. y \in Good
  BY <1>5, <1>6, <1>7, <1>8, BytesGood
<1>q. QED BY <1>5, <1>9 DEF Along, y

\* A round of the socket's reading.
LEMMA ReadRoundGood ==
    ASSUME NEW x \in Good
    PROVE  ReadRound(x) \in Along(x)
<1> DEFINE r == Recv(x)
           y == ProcessBuffer(r)
           p == [x EXCEPT !.sess.paused = x.sess.tcp]
<1>1. CASE x.viewer.room = 0
  <2>1. p \in Calls /\ SameCourse(x, p) /\ SameBytes(x, p) /\ "stop" \in Results
    BY DEF Good, Calls, Sessions, SameCourse, SameBytes, Results
  <2>2. p \in Good /\ p \in Along(x)
    BY <2>1, CourseGood DEF Along
  <2>3. ReadRound(x) = Returns(p, "stop")
    BY <1>1 DEF ReadRound
  <2> HIDE DEF p
  <2>4. Returns(p, "stop") \in Along(p)
    BY <2>1, <2>2, ReturnsGood, CourseGood DEF Along
  <2>q. QED BY <2>2, <2>3, <2>4, AlongTwice
<1>2. CASE x.viewer.room # 0
  <2>1. r \in Along(x) /\ r \in Good
    BY RecvGood DEF Along
  <2> HIDE DEF r
  <2>2. y \in Along(r) /\ y \in Good
    BY <2>1, ProcessBufferGood DEF Along
  <2>3. y \in Along(x)
    BY <2>1, <2>2, AlongTwice
  <2>4. \E o \in Results : ReadRound(x) = Returns(y, o) \/ ReadRound(x) = y
    <3>1. ReadRound(x) = (CASE y.ret = "end" -> y
              [] y.ret # "end" /\ Len(r.sess.buf) < BufferItems ->
                    Returns(y, IF r.link.fin = "open" THEN "stop" ELSE "end")
              [] OTHER -> IF Len(y.sess.buf) = BufferItems THEN Returns(y, "stop") ELSE y)
      BY <1>2 DEF ReadRound, With, r
    <3> HIDE DEF y
    <3>0. "stop" \in Results /\ "end" \in Results
      BY DEF Results
    <3>2. CASE y.ret = "end"
      <4>1. ReadRound(x) = y
        BY Zenon, <3>1, <3>2
      <4>q. QED BY <3>0, <4>1
    <3>3. CASE y.ret # "end" /\ Len(r.sess.buf) < BufferItems
      <4>1. ReadRound(x) = Returns(y, IF r.link.fin = "open" THEN "stop" ELSE "end")
        BY Zenon, <3>1, <3>3
      <4>q. QED BY <3>0, <4>1
    <3>4. CASE y.ret # "end" /\ ~(Len(r.sess.buf) < BufferItems)
      <4>1. ReadRound(x) = IF Len(y.sess.buf) = BufferItems THEN Returns(y, "stop") ELSE y
        BY Zenon, <3>1, <3>4
      <4>q. QED BY <3>0, <4>1
    <3>q. QED BY <3>2, <3>3, <3>4
  <2>5. \A o \in Results : Returns(y, o) \in Along(y)
    <3> HIDE DEF y
    <3>1. y \in Calls
      BY <2>2 DEF Good
    <3>q. QED BY <2>2, <3>1, ReturnsGood, CourseGood DEF Along
  <2> HIDE DEF y
  <2>q. QED BY <2>3, <2>4, <2>5, AlongTwice
<1>q. QED BY <1>1, <1>2

\* So does a round that is made only if the one before was not the last.
LEMMA ReadOnGood ==
    ASSUME NEW x \in Good, NEW i
    PROVE  ReadOn(x, i) \in Along(x)
<1>1. x \in Along(x)
  BY DEF Along, SameCourse
<1>q. QED BY <1>1, ReadRoundGood DEF ReadOn

\* The rounds of a reading.
ReadRounds(x) == FoldLeft(ReadOn, x, [j \in 1..(Len(x.link.wire) + 2) |-> j])

\* The socket is read round by round.
LEMMA ReadRoundsGood ==
    ASSUME NEW w \in Good
    PROVE  ReadRounds(w) \in Along(w)
<1> DEFINE ps == [j \in 1..(Len(w.link.wire) + 2) |-> j]
           n == Len(ps)
           T == Along(w)
           step(h, s) == IF s = {} THEN w ELSE ReadOn(h[s \ {Max(s)}], ps[Max(s)])
           IsIt(h) == h = [s \in SUBSET DOMAIN ps |-> step(h, s)]
           g == [z \in T \X (1..n) |-> ReadOn(z[1], ps[z[2]])]
           iter == CHOOSE h : IsIt(h)
           x == ReadRounds(w)
<1>1. n \in Nat /\ DOMAIN ps = 1..n
  <2>1. Len(w.link.wire) \in Nat
    BY LenProperties DEF Good, Calls, Links
  <2>2. ps \in Seq(Nat)
    BY <2>1
  <2> HIDE DEF ps
  <2>q. QED BY <2>2, LenProperties
<1>2. w \in T
  BY DEF Along, SameCourse
<1>3. \A y \in T, k \in 1..n : ReadOn(y, ps[k]) \in T
  <2>1. TAKE y \in T, k \in 1..n
  <2>2. y \in Good
    BY DEF Along
  <2>3. ReadOn(y, ps[k]) \in Along(y)
    BY <2>2, ReadOnGood
  <2>q. QED BY <2>3, AlongTwice
<1>4. x = iter[DOMAIN ps]
  BY Zenon DEF ReadRounds, FoldLeft, MapThenFoldSet
<1> HIDE DEF n, T
<1>5. \E h : IsIt(h)
  <2>1. g \in [T \X (1..n) -> T]
    BY <1>3
  <2> HIDE DEF g
  <2>2. PICK h \in [SUBSET (1..n) -> T] : \A s \in SUBSET (1..n) : h[s] = Folded(h, s, w, g)
    <3>1. n \in Nat
      BY <1>1
    <3>2. \E h : Folds(h, n, T, w, g)
      BY <3>1, <1>2, <2>1, FoldExists
    <3>q. QED BY <3>2 DEF Folds
  <2>3. ASSUME NEW s \in SUBSET (1..n) PROVE h[s] = step(h, s)
    <3>1. CASE s = {}
      BY <3>1, <2>2 DEF Folded
    <3>2. CASE s # {}
      <4>1. Max(s) \in 1..n
        BY <1>1, <3>2, MaxIsGreatest
      <4>2. h[s \ {Max(s)}] \in T
        OBVIOUS
      <4>3. h[s] = g[<<h[s \ {Max(s)}], Max(s)>>]
        BY <3>2, <2>2 DEF Folded
      <4>q. QED BY <3>2, <4>1, <4>2, <4>3 DEF g
    <3>q. QED BY <3>1, <3>2
  <2>4. h = [s \in SUBSET (1..n) |-> step(h, s)]
    BY <2>3
  <2>q. QED BY <1>1, <2>4
<1>6. IsIt(iter)
  BY <1>5
<1>7. PICK i : i = iter
  OBVIOUS
<1>8. \A s \in SUBSET (1..n) : i[s] = step(i, s)
  <2>1. i = [s \in SUBSET (1..n) |-> step(i, s)]
    BY <1>1, <1>6, <1>7
  <2>q. QED BY <2>1
<1>9. i[{}] \in T
  BY <1>2, <1>8
<1>10. ASSUME NEW k \in 1..n, i[1..(k - 1)] \in T PROVE i[1..k] \in T
  <2>1. 1..k \in SUBSET (1..n) /\ 1..k # {} /\ Max(1..k) = k /\ (1..k) \ {k} = 1..(k - 1)
    BY <1>1, FirstPlaces
  <2>2. i[1..k] = ReadOn(i[1..(k - 1)], ps[k])
    BY <1>8, <2>1
  <2>q. QED BY <2>2, <1>3, <1>10
<1>11. i[1..n] \in T
  BY <1>1, <1>9, <1>10, FoldedStays
<1>12. x \in T
  BY <1>1, <1>4, <1>7, <1>11
<1>q. QED BY <1>12 DEF T

\* Reading the media of a session that plays leaves it at rest, and nothing for
\* the loop to do.
LEMMA PlayOnGood ==
    ASSUME NEW x, Rests(x)
    PROVE  Rests(PlayOn(x)) /\ PlayOn(x).ret = "ok"
<1> DEFINE y == ReadRounds(x)
           z == ReadMedia(x)
<1>1. x \in Good
  BY DEF Rests
<1>2. y \in Along(x) /\ y \in Good
  BY <1>1, ReadRoundsGood DEF Along
<1>3. z = IF y.ret = "end" THEN y ELSE Returns(y, "ok")
  BY DEF ReadMedia, With, ReadRounds
<1> HIDE DEF y, z
<1>4. "ok" \in Results /\ y \in Calls
  BY <1>2 DEF Results, Good
<1>5. Rests(y)
  BY <1>2 DEF Along, Rests, SameCourse
<1>6. Rests(Returns(y, "ok"))
  BY <1>2, <1>4, <1>5, ReturnsGood, CourseGood
<1>7. Rests(z) /\ z \in Calls /\ (z.ret = "end" \/ z.ret = "ok")
  <2>1. Returns(y, "ok").ret = "ok"
    BY <1>4 DEF Returns, Calls
  <2>q. QED BY <1>3, <1>5, <1>6, <2>1 DEF Rests, Good
<1>8. PlayOn(x) = IF z.ret = "end" THEN Drains(z) ELSE z
  BY DEF PlayOn, With, z
<1>q. QED BY <1>7, <1>8, CleanupGood

-----------------------------------------------------------------------------
(* Requests. *)

SameLoad(x, y) == SameBytes(x, y) /\ y.link.todo = x.link.todo /\ y.gen = x.gen

\* What putting a request in hand changes.
LEMMA PrepareGives ==
    ASSUME NEW x \in Calls, NEW m \in Requests
    PROVE  /\ Prepare(x, m) \in Calls
           /\ Prepare(x, m).sess = [x.sess EXCEPT !.pend = m, !.part = FALSE]
           /\ SameLoad(x, Prepare(x, m)) /\ Prepare(x, m).ret = x.ret
<1>1. (x.link.torn \/ x.sess.part) \in BOOLEAN
  BY Zenon
<1>2. PICK t \in BOOLEAN : t = (x.link.torn \/ x.sess.part)
  BY Zenon, <1>1
<1> DEFINE y == [x EXCEPT !.sess.pend = m, !.sess.part = FALSE, !.link.torn = t]
<1>3. Prepare(x, m) = y
  BY Zenon, <1>2 DEF Prepare
<1>4. y \in Calls /\ SameLoad(x, y) /\ y.ret = x.ret
  BY ZenonT(60) DEF Calls, Sessions, Links, SameLoad, SameBytes
<1>5. y.sess = [x.sess EXCEPT !.pend = m, !.part = FALSE]
  BY DEF Calls, Sessions
<1> HIDE DEF y
<1>q. QED BY <1>3, <1>4, <1>5

\* A request put in hand when nothing is awaited, or the TEARDOWN of a session
\* that has connected for it, is the one of the state.
LEMMA AsksGood ==
    ASSUME NEW x \in Good, NEW y \in Calls, SameLoad(x, y),
           y.sess.st \in Sending, y.sess.pend = RequestOf[y.sess.st], ~y.sess.parked,
           y.sess.awaiting = x.sess.awaiting, y.sess.kaQueued = x.sess.kaQueued,
           y.sess.kaAwaited = x.sess.kaAwaited, y.sess.tearing = x.sess.tearing,
           NamedRight(y.sess),
           \/ /\ y.sess.st # "SENDING_TEARDOWN" /\ ~x.sess.awaiting
              /\ x.sess.st \in {"CONNECTED", "AWAITING_OPTIONS", "DESCRIBED", "SETUP"}
           \/ y.sess.st = "SENDING_TEARDOWN" /\ x.sess.st = "RECONNECTING"
    PROVE  Rests(y) /\ y.sess.st \notin Moving
<1>1. PendRight(x.sess) /\ Counts(x) /\ SetupRight(x) /\ Whole(x)
  BY DEF Good
<1>2. Sending = {"SENDING_OPTIONS", "SENDING_DESCRIBE", "SENDING_SETUP", "SENDING_PLAY", "SENDING_TEARDOWN"}
  BY DEF Sending, RequestOf
<1>3. y.sess.st \in States /\ y.sess.st \notin Moving
  BY <1>2 DEF States, Moving
<1>4. PendRight(y.sess)
  <2>1. y.sess.kaQueued => ~y.sess.awaiting /\ y.sess.st = "SENDING_TEARDOWN"
    BY <1>1 DEF PendRight
  <2>2. y.sess.kaAwaited => y.sess.st = "SENDING_TEARDOWN"
    BY <1>1 DEF PendRight
  <2>3. y.sess.awaiting => y.sess.st = "SENDING_TEARDOWN"
    OBVIOUS
  <2>q. QED BY <1>3, <2>1, <2>2, <2>3 DEF PendRight
<1>5. Counts(y)
  <2>1. Outstanding(y) = Outstanding(x) /\ Outstanding(x) \in Nat
    <3>1. Len(x.link.todo) \in Nat /\ Answers(x.sess.buf) \in Nat /\ Answers(x.link.wire) \in Nat
      BY AnswersType, LenProperties DEF Good, Calls, Sessions, Links
    <3>q. QED BY <3>1 DEF Outstanding, SameLoad, SameBytes
  <2>2. CASE y.sess.st # "SENDING_TEARDOWN"
    <3>1. x.sess.st \notin Tearing /\ y.sess.st \notin Tearing /\ y.sess.st # "RECONNECTING"
      BY <1>2, <2>2 DEF Tearing
    <3>q. QED BY <1>1, <2>1, <2>2, <3>1 DEF Counts
  <2>3. CASE y.sess.st = "SENDING_TEARDOWN"
    <3>1. x.sess.st \notin Tearing /\ y.sess.tearing
      BY <1>1, <2>3 DEF Tearing, Counts
    <3>2. Outstanding(x) <= 1
      BY <1>1, <2>1, <3>1 DEF Counts
    <3>q. QED BY <2>1, <2>3, <3>1, <3>2 DEF Counts, Tearing
  <2>q. QED BY <2>2, <2>3
<1>6. SetupRight(y) /\ Whole(y)
  <2>1. x.sess.st # "AWAITING_SETUP"
    OBVIOUS
  <2>q. QED BY <1>1, <2>1 DEF SetupRight, Whole, SameLoad, SameBytes
<1>q. QED BY <1>3, <1>4, <1>5, <1>6 DEF Good, Rests

\* DESCRIBE names the endpoint there is when no answer of the STUN server is to come.
LEMMA DescribeAtOnceGood ==
    ASSUME NEW x \in Good, x.sess.st = "AWAITING_OPTIONS", ~x.sess.awaiting, x.sess.stun # "asking"
    PROVE  /\ Rests(DescribeAtOnce(x)) /\ DescribeAtOnce(x).sess.st = "SENDING_DESCRIBE"
           /\ DescribeAtOnce(x).ret = x.ret
<1> DEFINE w == [x EXCEPT !.sess.parked = FALSE, !.sess.named = Endpoint(x.sess)]
           p == Prepare(w, "DESCRIBE")
           y == [p EXCEPT !.sess.st = "SENDING_DESCRIBE"]
<1>1. w \in Calls /\ w.sess = [x.sess EXCEPT !.parked = FALSE, !.named = x.sess.map] /\ SameLoad(x, w) /\ w.ret = x.ret
  BY DEF Good, Calls, Sessions, Endpoint, SameLoad, SameBytes
<1>2. DescribeAtOnce(x) = y
  BY DEF DescribeAtOnce, Goes
<1> HIDE DEF w
<1>3. p \in Calls /\ p.sess = [w.sess EXCEPT !.pend = "DESCRIBE", !.part = FALSE] /\ SameLoad(w, p) /\ p.ret = w.ret
  BY <1>1, PrepareGives DEF Requests
<1> HIDE DEF p
<1>4. y \in Calls /\ y.sess = [p.sess EXCEPT !.st = "SENDING_DESCRIBE"] /\ SameLoad(p, y) /\ y.ret = p.ret
  BY <1>3 DEF Calls, Sessions, States, SameLoad, SameBytes
<1> HIDE DEF y
<1>5. y.sess.st = "SENDING_DESCRIBE" /\ y.sess.pend = "DESCRIBE" /\ ~y.sess.parked
      /\ y.sess.awaiting = x.sess.awaiting /\ y.sess.kaQueued = x.sess.kaQueued
      /\ y.sess.kaAwaited = x.sess.kaAwaited /\ y.sess.tearing = x.sess.tearing
      /\ y.sess.named = x.sess.map /\ y.sess.map = x.sess.map /\ y.sess.stun = x.sess.stun
  BY <1>1, <1>3, <1>4 DEF Good, Calls, Sessions
<1>6. SameLoad(x, y)
  BY <1>1, <1>3, <1>4 DEF SameLoad, SameBytes
<1>7. NamedRight(y.sess) /\ y.sess.st \in Sending /\ RequestOf[y.sess.st] = y.sess.pend
  BY <1>5 DEF NamedRight, Sending, RequestOf
<1>8. Rests(y)
  BY <1>4, <1>5, <1>6, <1>7, AsksGood
<1>q. QED BY <1>1, <1>2, <1>3, <1>4, <1>5, <1>8

\* A request of another kind that takes its turn.
LEMMA TurnGood ==
    ASSUME NEW x \in Good, NEW w \in Calls, SameLoad(x, w), w.ret = x.ret,
           w.sess.awaiting = x.sess.awaiting, w.sess.kaQueued = x.sess.kaQueued,
           w.sess.kaAwaited = x.sess.kaAwaited, w.sess.tearing = x.sess.tearing,
           w.sess.parked = x.sess.parked,
           w.sess.map = x.sess.map, w.sess.named = x.sess.named, w.sess.stun = x.sess.stun,
           NEW to \in Sending \ {"SENDING_DESCRIBE"},
           to = "SENDING_SETUP" => x.sess.st = "DESCRIBED",
           \/ /\ to # "SENDING_TEARDOWN" /\ ~x.sess.awaiting
              /\ x.sess.st \in {"CONNECTED", "DESCRIBED", "SETUP"}
           \/ to = "SENDING_TEARDOWN" /\ x.sess.st = "RECONNECTING"
    PROVE  /\ Rests(Goes(Prepare(w, RequestOf[to]), to))
           /\ Goes(Prepare(w, RequestOf[to]), to).sess.st = to
           /\ Goes(Prepare(w, RequestOf[to]), to).ret = x.ret
<1> DEFINE m == RequestOf[to]
           p == Prepare(w, m)
           y == Goes(p, to)
<1>1. Sending = {"SENDING_OPTIONS", "SENDING_DESCRIBE", "SENDING_SETUP", "SENDING_PLAY", "SENDING_TEARDOWN"}
      /\ m \in Requests
  BY DEF Sending, RequestOf, Requests
<1> HIDE DEF m
<1>2. p \in Calls /\ p.sess = [w.sess EXCEPT !.pend = m, !.part = FALSE] /\ SameLoad(w, p) /\ p.ret = w.ret
  BY <1>1, PrepareGives
<1> HIDE DEF p
<1>3. y \in Calls /\ y.sess = [p.sess EXCEPT !.st = to] /\ SameLoad(p, y) /\ y.ret = p.ret
  <2>1. to \in States
    BY <1>1 DEF States
  <2>q. QED BY ZenonT(60), <1>2, <2>1 DEF Goes, Calls, Sessions, SameLoad, SameBytes
<1> HIDE DEF y
<1>4. PendRight(x.sess) /\ NamedRight(x.sess)
  BY DEF Good
<1>5. y.sess.st = to /\ y.sess.pend = m
      /\ y.sess.awaiting = x.sess.awaiting /\ y.sess.kaQueued = x.sess.kaQueued
      /\ y.sess.kaAwaited = x.sess.kaAwaited /\ y.sess.tearing = x.sess.tearing /\ y.sess.parked = x.sess.parked
      /\ y.sess.named = x.sess.named /\ y.sess.map = x.sess.map /\ y.sess.stun = x.sess.stun
  BY <1>2, <1>3 DEF Calls, Sessions
<1>6. SameLoad(x, y)
  BY <1>2, <1>3 DEF SameLoad, SameBytes
<1>7. ~y.sess.parked
  BY <1>4, <1>5 DEF PendRight
<1>8. NamedRight(y.sess)
  BY <1>1, <1>4, <1>5 DEF NamedRight, Naming
<1>9. Rests(y)
  <2>1. y.sess.st \in Sending /\ y.sess.pend = RequestOf[y.sess.st]
    BY <1>5 DEF m
  <2>q. QED BY <1>3, <1>5, <1>6, <1>7, <1>8, <2>1, AsksGood
<1>q. QED BY <1>2, <1>3, <1>5, <1>9 DEF y, p, m

\* The next request takes its turn.
LEMMA AdvanceGood ==
    ASSUME NEW x \in Good, ~x.sess.awaiting \/ x.sess.st = "RECONNECTING"
    PROVE  /\ Rests(Advance(x))
           /\ Advance(x).ret \in {"close", x.ret}
           /\ x.sess.st # "CONNECTING" => Advance(x).sess.st \notin Moving
<1>0. x \in Calls /\ SameLoad(x, x) /\ PendRight(x.sess) /\ NamedRight(x.sess)
  BY DEF Good, SameLoad, SameBytes
<1>1. Sending = {"SENDING_OPTIONS", "SENDING_DESCRIBE", "SENDING_SETUP", "SENDING_PLAY", "SENDING_TEARDOWN"}
  BY DEF Sending, RequestOf
<1>2. RequestOf["SENDING_OPTIONS"] = "OPTIONS" /\ RequestOf["SENDING_SETUP"] = "SETUP"
      /\ RequestOf["SENDING_PLAY"] = "PLAY" /\ RequestOf["SENDING_TEARDOWN"] = "TEARDOWN"
  BY DEF RequestOf
<1>3. ForceCleanup(x).sess.st = "INIT" /\ Fails(x).sess.st = "INIT" /\ Returns(ForceCleanup(x), "close").sess.st = "INIT"
      /\ Returns(ForceCleanup(x), "close") = Fails(x)
  BY <1>0 DEF ForceCleanup, Fails, Returns, NewSession, Calls
<1>4. Rests(Fails(x)) /\ Fails(x).ret = "close"
  BY <1>0, CleanupGood
<1>5. CASE x.sess.st = "CONNECTED"
  <2>1. Advance(x) = Goes(Prepare(x, "OPTIONS"), "SENDING_OPTIONS")
    BY Zenon, <1>5 DEF Advance
  <2>2. "SENDING_OPTIONS" \in Sending \ {"SENDING_DESCRIBE"}
    BY <1>1
  <2>3. Rests(Advance(x)) /\ Advance(x).ret = x.ret /\ Advance(x).sess.st = "SENDING_OPTIONS"
    BY <1>0, <1>2, <1>5, <2>1, <2>2, TurnGood
  <2>q. QED BY <2>3 DEF Moving
<1>6. CASE x.sess.st = "AWAITING_OPTIONS"
  <2>1. Advance(x) = Describe(x)
    BY Zenon, <1>6 DEF Advance
  <2>2. CASE x.sess.stun = "asking"
    <3> DEFINE y == [x EXCEPT !.sess.parked = TRUE]
    <3>1. Advance(x) = y
      BY <2>1, <2>2 DEF Describe
    <3>2. y \in Calls /\ y.sess = [x.sess EXCEPT !.parked = TRUE] /\ SameLoad(x, y) /\ y.ret = x.ret
      BY <1>0 DEF Calls, Sessions, SameLoad, SameBytes
    <3> HIDE DEF y
    <3>3. y.sess.st = "AWAITING_OPTIONS" /\ y.sess.pend = x.sess.pend /\ ~y.sess.awaiting
          /\ y.sess.kaQueued = x.sess.kaQueued /\ y.sess.kaAwaited = x.sess.kaAwaited /\ y.sess.tearing = x.sess.tearing
      BY <1>0, <1>6, <3>2 DEF Calls, Sessions
    <3>4. PendRight(y.sess) /\ NamedRight(y.sess)
      BY <1>0, <1>6, <3>3 DEF PendRight, NamedRight, Naming
    <3>5. Counts(y) /\ SetupRight(y) /\ Whole(y)
      <4>1. Counts(x) /\ SetupRight(x) /\ Whole(x) /\ ~x.sess.awaiting
        BY <1>6 DEF Good
      <4>2. Counts(y)
        BY <1>6, <3>2, <3>3, <4>1 DEF Counts, Tearing, Outstanding, SameLoad, SameBytes
      <4>q. QED BY <1>6, <3>2, <3>3, <4>1, <4>2 DEF SetupRight, Whole, SameLoad, SameBytes
    <3>6. Rests(y) /\ y.sess.st \notin Moving
      BY <3>2, <3>3, <3>4, <3>5 DEF Rests, Good, States, Moving
    <3>q. QED BY <3>1, <3>2, <3>6
  <2>3. CASE x.sess.stun # "asking"
    <3>1. Advance(x) = DescribeAtOnce(x)
      BY <2>1, <2>3 DEF Describe
    <3>2. Rests(Advance(x)) /\ Advance(x).sess.st = "SENDING_DESCRIBE" /\ Advance(x).ret = x.ret
      BY <1>6, <2>3, <3>1, DescribeAtOnceGood
    <3>q. QED BY <3>2 DEF Moving
  <2>q. QED BY <2>2, <2>3
<1>7. CASE x.sess.st = "DESCRIBED"
  <2> DEFINE w == [x EXCEPT !.sess = SetupUdpSockets(@)]
  <2>1. Advance(x) = Goes(Prepare(w, "SETUP"), "SENDING_SETUP")
    BY Zenon, <1>7 DEF Advance
  <2>2. PICK u \in BOOLEAN : u = (kind # "portless")
    BY Zenon
  <2>3. w = [x EXCEPT !.sess.udp = u]
    BY <1>0, <2>2 DEF SetupUdpSockets, Calls, Sessions
  <2> HIDE DEF w
  <2>4. w \in Calls /\ SameLoad(x, w) /\ w.ret = x.ret /\ w.sess = [x.sess EXCEPT !.udp = u]
    BY <1>0, <2>3 DEF Calls, Sessions, SameLoad, SameBytes
  <2>5. w.sess.awaiting = x.sess.awaiting /\ w.sess.kaQueued = x.sess.kaQueued
        /\ w.sess.kaAwaited = x.sess.kaAwaited /\ w.sess.tearing = x.sess.tearing /\ w.sess.parked = x.sess.parked
        /\ w.sess.map = x.sess.map /\ w.sess.named = x.sess.named /\ w.sess.stun = x.sess.stun
    BY <1>0, <2>4 DEF Calls, Sessions
  <2>6. "SENDING_SETUP" \in Sending \ {"SENDING_DESCRIBE"}
    BY <1>1
  <2>7. Rests(Advance(x)) /\ Advance(x).ret = x.ret /\ Advance(x).sess.st = "SENDING_SETUP"
    <3>1. ~x.sess.awaiting
      BY <1>7
    <3>2. /\ Rests(Goes(Prepare(w, RequestOf["SENDING_SETUP"]), "SENDING_SETUP"))
          /\ Goes(Prepare(w, RequestOf["SENDING_SETUP"]), "SENDING_SETUP").sess.st = "SENDING_SETUP"
          /\ Goes(Prepare(w, RequestOf["SENDING_SETUP"]), "SENDING_SETUP").ret = x.ret
      BY <1>7, <2>4, <2>5, <2>6, <3>1, TurnGood
    <3>q. QED BY <1>2, <2>1, <3>2
  <2>q. QED BY <2>7 DEF Moving
<1>8. CASE x.sess.st = "SETUP"
  <2>1. Advance(x) = Goes(Prepare(x, "PLAY"), "SENDING_PLAY")
    BY Zenon, <1>8 DEF Advance
  <2>2. "SENDING_PLAY" \in Sending \ {"SENDING_DESCRIBE"}
    BY <1>1
  <2>3. Rests(Advance(x)) /\ Advance(x).ret = x.ret /\ Advance(x).sess.st = "SENDING_PLAY"
    BY <1>0, <1>2, <1>8, <2>1, <2>2, TurnGood
  <2>q. QED BY <2>3 DEF Moving
<1>9. CASE x.sess.st = "RECONNECTING"
  <2>1. Advance(x) = IF x.sess.tearing THEN Goes(Prepare(x, "TEARDOWN"), "SENDING_TEARDOWN") ELSE Fails(x)
    BY Zenon, <1>9 DEF Advance
  <2>2. CASE x.sess.tearing
    <3>1. "SENDING_TEARDOWN" \in Sending \ {"SENDING_DESCRIBE"}
      BY <1>1
    <3>2. Rests(Advance(x)) /\ Advance(x).ret = x.ret /\ Advance(x).sess.st = "SENDING_TEARDOWN"
      BY <1>0, <1>2, <1>9, <2>1, <2>2, <3>1, TurnGood
    <3>q. QED BY <3>2 DEF Moving
  <2>3. CASE ~x.sess.tearing
    BY <1>3, <1>4, <2>1, <2>3 DEF Moving
  <2>q. QED BY <2>2, <2>3
<1>10. CASE x.sess.st = "TEARDOWN_COMPLETE"
  <2>1. Advance(x) = Returns(ForceCleanup(x), "close")
    BY Zenon, <1>10 DEF Advance
  <2>q. QED BY <1>3, <1>4, <2>1 DEF Moving
<1>11. CASE x.sess.st \notin {"CONNECTED", "AWAITING_OPTIONS", "DESCRIBED", "SETUP", "RECONNECTING", "TEARDOWN_COMPLETE"}
  <2>1. Advance(x) = x
    BY Zenon, <1>11 DEF Advance
  <2>2. x.sess.st \in States /\ (x.sess.st # "CONNECTING" => x.sess.st \notin Moving)
    BY <1>0, <1>11 DEF Calls, Sessions, Passing, Moving
  <2>q. QED BY <2>1, <2>2 DEF Rests
<1>q. QED BY <1>5, <1>6, <1>7, <1>8, <1>9, <1>10, <1>11

\* What goes out entirely is awaited.
LEMMA SentGood ==
    ASSUME NEW x \in Good, x.sess.st \notin Moving, x.sess.pend # "none"
    PROVE  Rests(SentEntirely(x)) /\ SentEntirely(x).ret = x.ret /\ SentEntirely(x).sess.st \notin Moving
<1> DEFINE s == x.sess
           m == IF x.link.torn THEN "BROKEN" ELSE s.pend
           b == IF s.tcp /\ s.st = "PLAYING" THEN s.buf ELSE <<>>
           t == Append(x.link.todo, m)
           to == AwaitingAfter[s.st]
           y == SentEntirely(x)
<1>0. x \in Calls /\ PendRight(s) /\ NamedRight(s) /\ Counts(x) /\ SetupRight(x) /\ Whole(x)
  BY DEF Good
<1>1. x.link.todo \in Seq(Todo) /\ s.buf \in Seq(Items) /\ x.link.wire \in Seq(Items) /\ s.pend \in Requests
  BY <1>0 DEF Calls, Sessions, Links
<1>2. Sending = {"SENDING_OPTIONS", "SENDING_DESCRIBE", "SENDING_SETUP", "SENDING_PLAY", "SENDING_TEARDOWN"}
  BY DEF Sending, RequestOf
<1>3. /\ RequestOf["SENDING_OPTIONS"] = "OPTIONS" /\ RequestOf["SENDING_DESCRIBE"] = "DESCRIBE"
      /\ RequestOf["SENDING_SETUP"] = "SETUP" /\ RequestOf["SENDING_PLAY"] = "PLAY"
      /\ RequestOf["SENDING_TEARDOWN"] = "TEARDOWN"
  BY DEF RequestOf
<1>4. /\ AwaitingAfter["SENDING_OPTIONS"] = "AWAITING_OPTIONS" /\ AwaitingAfter["SENDING_DESCRIBE"] = "AWAITING_DESCRIBE"
      /\ AwaitingAfter["SENDING_SETUP"] = "AWAITING_SETUP" /\ AwaitingAfter["SENDING_PLAY"] = "AWAITING_PLAY"
      /\ AwaitingAfter["SENDING_TEARDOWN"] = "AWAITING_TEARDOWN" /\ AwaitingAfter["PLAYING"] = "PLAYING"
  BY DEF AwaitingAfter
<1>5. s.st \in Sending \/ (s.st = "PLAYING" /\ s.kaQueued /\ s.pend = "KEEPALIVE")
  <2>1. ASSUME s.st \notin Sending PROVE s.st = "PLAYING" /\ s.kaQueued /\ s.pend = "KEEPALIVE"
    <3>1. s.pend = IF s.kaQueued THEN "KEEPALIVE" ELSE "none"
      BY <1>0, <2>1 DEF PendRight
    <3>2. s.kaQueued
      BY <3>1
    <3>3. s.st \in {"PLAYING", "RECONNECTING", "SENDING_TEARDOWN"}
      BY <1>0, <3>2 DEF PendRight
    <3>q. QED BY <1>2, <2>1, <3>1, <3>2, <3>3 DEF Moving
  <2>q. QED BY <2>1
<1>6. s.st \in Sending => s.pend = RequestOf[s.st]
  BY <1>0 DEF PendRight
<1>7. m \in Todo /\ (s.st # "SENDING_SETUP" => m # "SETUP")
  <2>1. s.st # "SENDING_SETUP" => s.pend # "SETUP"
    BY <1>2, <1>3, <1>5, <1>6
  <2>q. QED BY <1>1, <2>1 DEF Todo, Requests
<1>8. (s.kaAwaited \/ s.kaQueued) \in BOOLEAN
  BY Zenon
<1>9. PICK a \in BOOLEAN : a = (s.kaAwaited \/ s.kaQueued)
  BY Zenon, <1>8
<1>10. b \in Seq(Items) /\ (s.buf \in Seq(Others) => b \in Seq(Others)) /\ Answers(b) <= Answers(s.buf)
       /\ Follows(b \o x.link.wire) /\ Len(b) <= BufferItems
  <2>1. CASE b = s.buf
    <3>1. Answers(s.buf) \in Nat
      BY <1>1, AnswersType
    <3>q. QED BY <1>0, <1>1, <2>1, <3>1 DEF Whole
  <2>2. CASE b = <<>>
    <3>1. Answers(s.buf) \in Nat
      BY <1>1, AnswersType
    <3>2. Follows(x.link.wire)
      BY <1>0, <1>1, FollowsParts DEF Whole
    <3>3. <<>> \o x.link.wire = x.link.wire
      BY <1>1, ConcatEmptySeq
    <3>4. <<>> \in Seq(Items) /\ <<>> \in Seq(Others) /\ Len(<<>>) = 0
      BY EmptySeq
    <3> HIDE DEF b
    <3>q. QED BY <2>2, <3>1, <3>2, <3>3, <3>4, AnswersOfOne, RtspAssumption
  <2>q. QED BY <2>1, <2>2
<1>11. t \in Seq(Todo) /\ Len(t) = Len(x.link.todo) + 1
       /\ (m # "SETUP" /\ x.link.todo \in Seq(Todo \ {"SETUP"}) => t \in Seq(Todo \ {"SETUP"}))
  <2> HIDE DEF m
  <2>1. t \in Seq(Todo) /\ Len(t) = Len(x.link.todo) + 1
    BY <1>1, <1>7, AppendProperties
  <2>2. ASSUME m # "SETUP", x.link.todo \in Seq(Todo \ {"SETUP"}) PROVE t \in Seq(Todo \ {"SETUP"})
    <3>1. m \in Todo \ {"SETUP"}
      BY <1>7, <2>2
    <3>q. QED BY <2>2, <3>1, AppendProperties
  <2>q. QED BY <2>1, <2>2
<1>12. to \in {"AWAITING_OPTIONS", "AWAITING_DESCRIBE", "AWAITING_SETUP", "AWAITING_PLAY", "AWAITING_TEARDOWN", "PLAYING"}
       /\ (to = "AWAITING_TEARDOWN" <=> s.st = "SENDING_TEARDOWN") /\ (to = "PLAYING" <=> s.st = "PLAYING")
       /\ (to = "AWAITING_SETUP" <=> s.st = "SENDING_SETUP") /\ (to = "AWAITING_DESCRIBE" <=> s.st = "SENDING_DESCRIBE")
  BY <1>2, <1>4, <1>5
<1> HIDE DEF m, b, t, to, s
<1> DEFINE z == [x EXCEPT !.link.todo = t, !.link.torn = FALSE, !.mod = TRUE,
                          !.sess = [s EXCEPT !.pend = "none", !.part = FALSE, !.awaiting = TRUE, !.buf = b,
                                             !.kaAwaited = a, !.kaQueued = FALSE, !.st = to, !.out = FALSE]]
<1>13. y = z
  BY ZenonT(60), <1>0, <1>9 DEF SentEntirely, Interest, s, b, t, m, to, Calls, Sessions, Links
<1>14. z \in Calls
  <2>1. to \in States
    BY <1>12 DEF States
  <2>2. s \in Sessions
    BY <1>0 DEF Calls, s
  <2>3. [s EXCEPT !.pend = "none", !.part = FALSE, !.awaiting = TRUE, !.buf = b, !.kaAwaited = a,
                   !.kaQueued = FALSE, !.st = to, !.out = FALSE] \in Sessions
    BY ZenonT(60), <1>10, <2>1, <2>2 DEF Sessions
  <2>4. PICK n \in Sessions : n = [s EXCEPT !.pend = "none", !.part = FALSE, !.awaiting = TRUE, !.buf = b,
                                            !.kaAwaited = a, !.kaQueued = FALSE, !.st = to, !.out = FALSE]
    BY <2>3
  <2>5. z = [x EXCEPT !.link.todo = t, !.link.torn = FALSE, !.mod = TRUE, !.sess = n]
    BY <2>4
  <2> HIDE DEF z
  <2>q. QED BY <1>0, <1>11, <2>5 DEF Calls, Links
<1>15. /\ z.sess.st = to /\ z.sess.pend = "none" /\ z.sess.awaiting /\ z.sess.buf = b /\ (z.sess.kaAwaited <=> a)
       /\ ~z.sess.kaQueued /\ z.sess.parked = s.parked /\ z.sess.map = s.map /\ z.sess.named = s.named
       /\ z.sess.stun = s.stun /\ z.sess.tearing = s.tearing /\ z.link.todo = t /\ z.link.wire = x.link.wire
       /\ z.ret = x.ret
  <2>1. s \in Sessions
    BY <1>0 DEF Calls, s
  <2>q. QED BY <1>0, <2>1 DEF Calls, Sessions, Links
<1> HIDE DEF y, z
<1>16. PendRight(z.sess)
  <2>1. ~z.sess.parked
    BY <1>0, <1>2, <1>5, <1>15 DEF PendRight
  <2>2. z.sess.kaAwaited => z.sess.st \in {"PLAYING", "AWAITING_TEARDOWN"}
    <3>1. s.kaAwaited \/ s.kaQueued => s.st \in {"PLAYING", "SENDING_TEARDOWN"}
      BY <1>0, <1>2, <1>5 DEF PendRight
    <3>q. QED BY <1>9, <1>12, <1>15, <3>1
  <2>q. QED BY <1>2, <1>12, <1>15, <2>1, <2>2 DEF PendRight, Moving
<1>17. NamedRight(z.sess)
  BY <1>0, <1>12, <1>15 DEF NamedRight, Naming
<1>18. Counts(z)
  <2>1. PICK i, j, k, l \in Nat : i = Len(x.link.todo) /\ j = Answers(s.buf) /\ k = Answers(x.link.wire) /\ l = Answers(b)
    BY <1>1, <1>10, AnswersType, LenProperties
  <2>2. Outstanding(z) = (i + 1) + l + k /\ Outstanding(x) = i + j + k /\ l <= j
    BY <1>10, <1>11, <1>15, <2>1 DEF Outstanding, s
  <2>3. CASE s.st = "SENDING_TEARDOWN"
    <3>1. s.tearing /\ i + j + k + 1 <= 2
      <4>1. s.pend # "none"
        BY DEF s
      <4>q. QED BY <1>0, <2>2, <2>3, <4>1 DEF Counts, Tearing, s
    <3>2. (i + 1) + l + k + 0 <= 2
      BY <2>2, <3>1
    <3>q. QED BY <1>12, <1>15, <2>2, <2>3, <3>1, <3>2 DEF Counts, Tearing
  <2>4. CASE s.st # "SENDING_TEARDOWN"
    <3>1. ~s.awaiting
      BY <1>0, <1>2, <1>5, <2>4 DEF PendRight
    <3>2. i + j + k <= 0
      BY <1>0, <1>2, <1>5, <2>2, <2>4, <3>1 DEF Counts, Tearing, s
    <3>3. (i + 1) + l + k <= 1
      BY <2>2, <3>2
    <3>4. z.sess.st \notin Tearing /\ z.sess.st # "RECONNECTING"
      BY <1>12, <1>15, <2>4 DEF Tearing
    <3>q. QED BY <1>15, <2>2, <3>3, <3>4 DEF Counts
  <2>q. QED BY <2>3, <2>4
<1>19. SetupRight(z)
  <2>1. CASE s.st = "SENDING_SETUP"
    BY <1>12, <1>15, <2>1 DEF SetupRight
  <2>2. CASE s.st # "SENDING_SETUP"
    <3>1. s.st # "AWAITING_SETUP"
      BY <1>2, <1>5
    <3>q. QED BY <1>0, <1>7, <1>10, <1>11, <1>15, <2>2, <3>1 DEF SetupRight, s
  <2>q. QED BY <2>1, <2>2
<1>20. Whole(z)
  BY <1>10, <1>15 DEF Whole
<1>21. Rests(z) /\ z.sess.st \notin Moving
  BY <1>12, <1>14, <1>15, <1>16, <1>17, <1>18, <1>19, <1>20 DEF Good, Rests, States, Moving
<1>q. QED BY <1>13, <1>15, <1>21 DEF y

\* An event that says writable sends all of the request, a part of it, or fails.
LEMMA SendPendingGood ==
    ASSUME NEW x, Rests(x), x.sess.st \notin Moving, NEW sent \in {"all", "part", "fail", "none"}
    PROVE  /\ Rests(SendPending(x, sent)) /\ SendPending(x, sent).sess.st \notin Moving
           /\ SendPending(x, sent).ret \in {x.ret, "close"}
<1>1. x \in Good /\ x \in Calls
  BY DEF Rests, Good
<1>2. CASE x.sess.pend = "none" \/ sent = "none"
  BY <1>2 DEF SendPending
<1>3. CASE x.sess.pend # "none" /\ sent = "all"
  <2>1. SendPending(x, sent) = SentEntirely(x)
    BY Zenon, <1>3 DEF SendPending
  <2>q. QED BY <1>1, <1>3, <2>1, SentGood
<1>4. CASE x.sess.pend # "none" /\ sent = "part"
  <2> DEFINE y == [x EXCEPT !.sess.part = TRUE]
  <2>1. SendPending(x, sent) = y
    BY Zenon, <1>4 DEF SendPending
  <2>2. y \in Calls /\ SameCourse(x, y) /\ SameBytes(x, y) /\ y.ret = x.ret
    BY <1>1 DEF Calls, Sessions, SameCourse, SameBytes
  <2> HIDE DEF y
  <2>3. Rests(y)
    BY <1>1, <2>2, CourseGood
  <2>q. QED BY <2>1, <2>2, <2>3 DEF SameCourse
<1>5. CASE x.sess.pend # "none" /\ sent = "fail"
  <2>1. SendPending(x, sent) = Fails(x)
    BY Zenon, <1>5 DEF SendPending
  <2>2. Fails(x).sess.st = "INIT"
    BY <1>1 DEF ForceCleanup, Fails, Returns, NewSession, Calls
  <2>q. QED BY <1>1, <2>1, <2>2, CleanupGood DEF Moving
<1>q. QED BY <1>2, <1>3, <1>4, <1>5

-----------------------------------------------------------------------------
(* Connections. *)

\* What a new connection leaves of a session.
Reaches(x, z) ==
    /\ z.link = NewLink /\ z.ret = x.ret /\ z.gen = x.gen + 1 /\ z.viewer = x.viewer
    /\ z.sess.st = IF x.sess.st = "RECONNECTING" THEN "RECONNECTING" ELSE "CONNECTING"
    /\ z.sess.awaiting = x.sess.awaiting /\ z.sess.kaQueued = x.sess.kaQueued
    /\ z.sess.kaAwaited = x.sess.kaAwaited /\ z.sess.parked = x.sess.parked
    /\ z.sess.tearing = x.sess.tearing /\ z.sess.buf = x.sess.buf /\ z.sess.pend = x.sess.pend

\* A new link carries nothing.
LEMMA NewLinkIsOne ==
    /\ NewLink \in Links /\ NewLink.todo = <<>> /\ NewLink.wire = <<>>
    /\ <<>> \in Seq(Others) /\ <<>> \in Seq(Items) /\ <<>> \in Seq(Todo \ {"SETUP"}) /\ Len(<<>>) = 0
<1>1. <<>> \in Seq(Items) /\ <<>> \in Seq(Others) /\ <<>> \in Seq(Todo) /\ <<>> \in Seq(Todo \ {"SETUP"}) /\ Len(<<>>) = 0
  BY EmptySeq
<1>q. QED BY <1>1 DEF NewLink, Links

\* Closing the UDP sockets changes them and the mapping alone.
LEMMA CloseUdpGives ==
    ASSUME NEW s \in Sessions
    PROVE  /\ CloseUdp(s) \in Sessions
           /\ CloseUdp(s).st = s.st /\ (CloseUdp(s).awaiting <=> s.awaiting)
           /\ (CloseUdp(s).kaAwaited <=> s.kaAwaited) /\ (CloseUdp(s).kaQueued <=> s.kaQueued)
           /\ CloseUdp(s).parked = s.parked /\ CloseUdp(s).tearing = s.tearing /\ CloseUdp(s).pend = s.pend
           /\ CloseUdp(s).buf = s.buf /\ CloseUdp(s).tcp = s.tcp
<1>1. PICK m : m = IF s.map = "own" THEN "stale" ELSE s.map
  OBVIOUS
<1>2. m \in Mappings
  BY <1>1 DEF Sessions, Mappings
<1> DEFINE c == [s EXCEPT !.udp = FALSE, !.map = m]
<1>3. CloseUdp(s) = c
  BY <1>1 DEF CloseUdp, Sessions
<1>4. c \in Sessions /\ c.st = s.st /\ c.awaiting = s.awaiting /\ c.kaAwaited = s.kaAwaited /\ c.kaQueued = s.kaQueued
      /\ c.parked = s.parked /\ c.tearing = s.tearing /\ c.pend = s.pend /\ c.buf = s.buf /\ c.tcp = s.tcp
  BY <1>2 DEF Sessions
<1> HIDE DEF c
<1>q. QED BY <1>3, <1>4

\* A candidate that is tried.
LEMMA OpenedGives ==
    ASSUME NEW x \in Calls, NEW left \in Nat, NEW switch \in BOOLEAN
    PROVE  Opened(x, left, switch) \in Calls /\ Reaches(x, Opened(x, left, switch))
<1> DEFINE m == IF x.sess.map = "own" THEN "stale" ELSE x.sess.map
           c == [x.sess EXCEPT !.udp = FALSE, !.map = m]
           s == IF switch /\ x.sess.udp THEN [CloseUdp(x.sess) EXCEPT !.stun = "idle", !.map = "none"] ELSE x.sess
           st == IF s.st = "RECONNECTING" THEN s.st ELSE "CONNECTING"
           n == [s EXCEPT !.st = st, !.open = TRUE, !.left = left, !.out = TRUE, !.part = FALSE]
           y == [x EXCEPT !.link = NewLink, !.gen = x.gen + 1, !.sess = n]
<1>0. x.sess \in Sessions /\ m \in Mappings
  BY DEF Calls, Sessions, Mappings
<1>1. CloseUdp(x.sess) = c
  BY <1>0 DEF CloseUdp, Sessions
<1>2. s \in Sessions /\ s.st = x.sess.st /\ s.awaiting = x.sess.awaiting /\ s.kaQueued = x.sess.kaQueued
      /\ s.kaAwaited = x.sess.kaAwaited /\ s.parked = x.sess.parked /\ s.tearing = x.sess.tearing /\ s.buf = x.sess.buf
      /\ s.pend = x.sess.pend
  <2>1. CASE switch /\ x.sess.udp
    <3>1. s = [x.sess EXCEPT !.udp = FALSE, !.map = "none", !.stun = "idle"]
      BY <1>0, <1>1, <2>1 DEF Sessions
    <3> HIDE DEF s
    <3>q. QED BY ZenonT(60), <1>0, <3>1 DEF Sessions, Mappings
  <2>2. CASE ~(switch /\ x.sess.udp)
    BY <1>0, <2>2
  <2>q. QED BY <2>1, <2>2
<1>3. Opened(x, left, switch) = y
  BY DEF Opened
<1> HIDE DEF s, m
<1>4. st \in States
  BY DEF States
<1>5. n \in Sessions /\ n.st = st /\ n.awaiting = s.awaiting /\ n.kaQueued = s.kaQueued
      /\ n.kaAwaited = s.kaAwaited /\ n.parked = s.parked /\ n.tearing = s.tearing /\ n.buf = s.buf
      /\ n.pend = s.pend
  <2> HIDE DEF st
  <2>q. QED BY ZenonT(60), <1>2, <1>4 DEF Sessions
<1>6. y \in Calls /\ y.sess = n /\ y.link = NewLink /\ y.gen = x.gen + 1 /\ y.ret = x.ret /\ y.viewer = x.viewer
  <2>1. NewLink \in Links
    BY NewLinkIsOne
  <2>2. PICK v \in Sessions : v = n
    BY <1>5
  <2>3. PICK g \in Nat : g = x.gen + 1
    BY DEF Calls
  <2>4. y = [x EXCEPT !.link = NewLink, !.gen = g, !.sess = v]
    BY <2>2, <2>3
  <2> HIDE DEF n, y
  <2>5. y \in Calls /\ y.sess = v /\ y.link = NewLink /\ y.gen = g /\ y.ret = x.ret /\ y.viewer = x.viewer
    BY <2>1, <2>4 DEF Calls
  <2>q. QED BY <2>2, <2>3, <2>5
<1> HIDE DEF n, y
<1>7. Reaches(x, y)
  BY <1>2, <1>5, <1>6 DEF Reaches
<1>q. QED BY <1>3, <1>6, <1>7

\* A try with what candidates are left.
LEMMA TryGives ==
    ASSUME NEW x \in Calls, NEW z \in TryNextCandidate(x)
    PROVE  z \in Calls /\ ((z.ret = "failed" /\ z.viewer = x.viewer) \/ Reaches(x, z))
<1> DEFINE f == Returns([x EXCEPT !.sess.left = 0, !.sess.open = FALSE], "failed")
<1>1. z = f \/ \E left \in 0..(x.sess.left - 1), switch \in BOOLEAN : z = Opened(x, left, switch)
  BY DEF TryNextCandidate
<1>2. CASE z = f
  BY ZenonT(60), <1>2 DEF Returns, Calls, Sessions, Results
<1>3. ASSUME NEW left \in 0..(x.sess.left - 1), NEW switch \in BOOLEAN, z = Opened(x, left, switch)
      PROVE z \in Calls /\ Reaches(x, z)
  <2>1. x.sess.left \in Nat
    BY DEF Calls, Sessions
  <2>2. left \in Nat
    BY <2>1
  <2>q. QED BY <1>3, <2>2, OpenedGives
<1>q. QED BY <1>1, <1>2, <1>3

\* A connection that is made, with the STUN request that may go out before.
LEMMA ConnectGives ==
    ASSUME NEW x \in Calls, NEW z \in RtspConnect(x)
    PROVE  z \in Calls /\ ((z.ret = "failed" /\ z.viewer = x.viewer) \/ Reaches(x, z))
<1> DEFINE w == [x EXCEPT !.sess.eof = FALSE, !.sess.left = Candidates]
<1>1. w \in Calls /\ w.sess = [x.sess EXCEPT !.eof = FALSE, !.left = Candidates]
      /\ w.ret = x.ret /\ w.gen = x.gen /\ w.viewer = x.viewer /\ w.link = x.link
  <2>1. Candidates \in Nat
    BY RtspAssumption
  <2>q. QED BY <2>1 DEF Calls, Sessions
<1>2. PICK y \in EarlyStun(w) : z \in TryNextCandidate(y)
  BY DEF RtspConnect
<1> HIDE DEF w
<1>3. y = w \/ \E to \in {"idle", "asking"} : y = [w EXCEPT !.sess = [SetupUdpSockets(w.sess) EXCEPT !.stun = to]]
  <2>1. CASE kind # "metadata" /\ Stun /\ ~w.sess.udp /\ w.sess.stun = "idle"
    <3>1. EarlyStun(w) = {[w EXCEPT !.sess = [SetupUdpSockets(w.sess) EXCEPT !.stun = to]] :
                          to \in IF SetupUdpSockets(w.sess).udp THEN {"idle", "asking"} ELSE {"idle"}}
      BY <2>1 DEF EarlyStun
    <3>q. QED BY <1>2, <3>1
  <2>2. CASE ~(kind # "metadata" /\ Stun /\ ~w.sess.udp /\ w.sess.stun = "idle")
    BY <1>2, <2>2 DEF EarlyStun
  <2>q. QED BY <2>1, <2>2
<1>4. y \in Calls /\ y.sess.st = x.sess.st /\ y.sess.awaiting = x.sess.awaiting /\ y.sess.kaQueued = x.sess.kaQueued
      /\ y.sess.kaAwaited = x.sess.kaAwaited /\ y.sess.parked = x.sess.parked /\ y.sess.tearing = x.sess.tearing
      /\ y.sess.buf = x.sess.buf /\ y.sess.pend = x.sess.pend /\ y.ret = x.ret /\ y.gen = x.gen /\ y.viewer = x.viewer
  <2>0. x.sess \in Sessions
    BY DEF Calls
  <2>1. CASE y = w
    BY <1>1, <2>0, <2>1 DEF Sessions
  <2>2. CASE y # w
    <3>0. PICK to \in {"idle", "asking"} : y = [w EXCEPT !.sess = [SetupUdpSockets(w.sess) EXCEPT !.stun = to]]
      BY <1>3, <2>2
    <3>1. PICK u \in BOOLEAN : u = (kind # "portless")
      BY Zenon
    <3>2. w.sess \in Sessions
      BY <1>1 DEF Calls
    <3>3. y = [w EXCEPT !.sess = [w.sess EXCEPT !.udp = u, !.stun = to]]
      BY <3>0, <3>1, <3>2 DEF SetupUdpSockets, Sessions
    <3>4. y \in Calls /\ y.sess = [w.sess EXCEPT !.udp = u, !.stun = to]
          /\ y.ret = w.ret /\ y.gen = w.gen /\ y.viewer = w.viewer
      <4>1. [w.sess EXCEPT !.udp = u, !.stun = to] \in Sessions
        BY <3>2 DEF Sessions
      <4>2. PICK v \in Sessions : v = [w.sess EXCEPT !.udp = u, !.stun = to]
        BY <4>1
      <4>3. y = [w EXCEPT !.sess = v]
        BY <3>3, <4>2
      <4>4. y \in Calls /\ y.sess = v /\ y.ret = w.ret /\ y.gen = w.gen /\ y.viewer = w.viewer
        BY <1>1, <4>3 DEF Calls
      <4>q. QED BY <4>2, <4>4
    <3>5. y.sess.st = w.sess.st /\ y.sess.awaiting = w.sess.awaiting /\ y.sess.kaQueued = w.sess.kaQueued
          /\ y.sess.kaAwaited = w.sess.kaAwaited /\ y.sess.parked = w.sess.parked /\ y.sess.tearing = w.sess.tearing
          /\ y.sess.buf = w.sess.buf /\ y.sess.pend = w.sess.pend
      BY <3>2, <3>4 DEF Sessions
    <3>6. w.sess.st = x.sess.st /\ w.sess.awaiting = x.sess.awaiting /\ w.sess.kaQueued = x.sess.kaQueued
          /\ w.sess.kaAwaited = x.sess.kaAwaited /\ w.sess.parked = x.sess.parked /\ w.sess.tearing = x.sess.tearing
          /\ w.sess.buf = x.sess.buf /\ w.sess.pend = x.sess.pend
      BY <1>1, <2>0 DEF Sessions
    <3>q. QED BY <1>1, <3>4, <3>5, <3>6
  <2>q. QED BY <2>1, <2>2
<1>5. z \in Calls /\ ((z.ret = "failed" /\ z.viewer = y.viewer) \/ Reaches(y, z))
  BY <1>2, <1>4, TryGives
<1>q. QED BY <1>4, <1>5 DEF Reaches

\* A session that connects, with what the connection before has left it.
LEMMA ReachedGood ==
    ASSUME NEW z \in Calls, z.link = NewLink, z.sess.st \in {"CONNECTING", "RECONNECTING"},
           z.sess.kaQueued => ~z.sess.awaiting /\ z.sess.st = "RECONNECTING",
           z.sess.kaAwaited => z.sess.st = "RECONNECTING", z.sess.awaiting => z.sess.st = "RECONNECTING",
           ~z.sess.parked, z.sess.st = "RECONNECTING" => z.sess.tearing, z.sess.pend # "SETUP",
           Answers(z.sess.buf) <= IF z.sess.awaiting THEN 1 ELSE 0,
           z.sess.buf \in Seq(Others), Follows(z.sess.buf), Len(z.sess.buf) <= BufferItems
    PROVE  Rests(z)
<1>1. z.link.todo = <<>> /\ z.link.wire = <<>> /\ <<>> \in Seq(Others) /\ <<>> \in Seq(Todo \ {"SETUP"}) /\ Len(<<>>) = 0
  BY NewLinkIsOne
<1>2. PendRight(z.sess) /\ NamedRight(z.sess)
  BY DEF PendRight, NamedRight, Sending, RequestOf, Moving, Naming
<1>3. z.sess.buf \in Seq(Items)
  BY DEF Calls, Sessions
<1>4. Counts(z)
  <2>1. PICK a \in Nat : a = Answers(z.sess.buf)
    BY <1>3, AnswersType
  <2>2. Outstanding(z) = 0 + a + 0
    BY <1>1, <2>1, AnswersOfOne DEF Outstanding
  <2>q. QED BY <2>1, <2>2 DEF Counts, Tearing
<1>5. SetupRight(z)
  BY <1>1 DEF SetupRight
<1>6. Whole(z)
  <2>1. z.sess.buf \o <<>> = z.sess.buf
    BY <1>3, ConcatEmptySeq
  <2>q. QED BY <1>1, <2>1 DEF Whole
<1>q. QED BY <1>2, <1>4, <1>5, <1>6 DEF Good, Rests, States

\* The next candidate is tried by a session that connects.
LEMMA RetryGood ==
    ASSUME NEW x \in Good, x.sess.st \in {"CONNECTING", "RECONNECTING"},
           NEW z \in TryNextCandidate([x EXCEPT !.sess.open = FALSE])
    PROVE  z \in Calls /\ (z.ret = "failed" \/ (Rests(z) /\ z.ret = x.ret))
<1> DEFINE y == [x EXCEPT !.sess.open = FALSE]
<1>1. y \in Calls /\ SameCourse(x, y) /\ SameBytes(x, y) /\ y.ret = x.ret
  BY ZenonT(60) DEF Good, Calls, Sessions, SameCourse, SameBytes
<1> HIDE DEF y
<1>2. z \in Calls /\ (z.ret = "failed" \/ Reaches(y, z))
  BY <1>1, TryGives DEF y
<1>3. ASSUME Reaches(y, z) PROVE Rests(z) /\ z.ret = x.ret
  <2>1. PendRight(x.sess) /\ Counts(x) /\ SetupRight(x) /\ Whole(x) /\ x \in Calls
    BY DEF Good
  <2>2. z.sess.st = x.sess.st /\ z.sess.awaiting = x.sess.awaiting /\ z.sess.kaQueued = x.sess.kaQueued
        /\ z.sess.kaAwaited = x.sess.kaAwaited /\ z.sess.parked = x.sess.parked /\ z.sess.tearing = x.sess.tearing
        /\ z.sess.buf = x.sess.buf /\ z.sess.pend = x.sess.pend /\ z.link = NewLink /\ z.ret = x.ret
    BY <1>1, <1>3 DEF Reaches, SameCourse, SameBytes
  <2>3. x.sess.buf \in Seq(Items) /\ x.link.wire \in Seq(Items) /\ x.link.todo \in Seq(Todo)
    BY <2>1 DEF Calls, Sessions, Links
  <2>4. Follows(x.sess.buf) /\ Len(x.sess.buf) <= BufferItems /\ x.sess.buf \in Seq(Others)
    BY <2>1, <2>3, FollowsParts DEF Whole, SetupRight
  <2>5. Answers(x.sess.buf) <= IF x.sess.awaiting THEN 1 ELSE 0
    <3>1. PICK i, j, k \in Nat : i = Len(x.link.todo) /\ j = Answers(x.sess.buf) /\ k = Answers(x.link.wire)
      BY <2>3, AnswersType, LenProperties
    <3>2. i + j + k <= IF x.sess.awaiting THEN 1 ELSE 0
      BY <2>1, <3>1 DEF Counts, Outstanding, Tearing
    <3>q. QED BY <3>1, <3>2
  <2>6. /\ z.sess.kaQueued => ~z.sess.awaiting /\ z.sess.st = "RECONNECTING"
        /\ z.sess.kaAwaited => z.sess.st = "RECONNECTING"
        /\ z.sess.awaiting => z.sess.st = "RECONNECTING"
        /\ ~z.sess.parked
        /\ z.sess.st = "RECONNECTING" => z.sess.tearing
        /\ z.sess.pend # "SETUP"
    BY <2>1, <2>2 DEF PendRight, Counts, Moving
  <2>7. Rests(z)
    BY <1>2, <2>2, <2>4, <2>5, <2>6, ReachedGood
  <2>q. QED BY <2>2, <2>7
<1>q. QED BY <1>2, <1>3

-----------------------------------------------------------------------------
(* Answers. *)

\* What is left of the buffer without the answer that is taken.
Shed(x, b) ==
    /\ b \in Seq(Items) /\ Answers(b) + 1 <= Answers(x.sess.buf)
    /\ Follows(b \o x.link.wire) /\ Len(b) <= BufferItems
    /\ x.sess.buf \in Seq(Others) => b \in Seq(Others)

\* The answer is taken out from between the frames around it.
LEMMA ShedGood ==
    ASSUME NEW x \in Good, NEW at \in 1..Len(x.sess.buf), NEW end \in at..Len(x.sess.buf),
           x.sess.buf[end].k = "answer", \A i \in 1..(at - 1) : x.sess.buf[i].k = "frame"
    PROVE  /\ Shed(x, <<>>)
           /\ Shed(x, SubSeq(x.sess.buf, end + 1, Len(x.sess.buf)))
           /\ Shed(x, SubSeq(x.sess.buf, 1, at - 1) \o SubSeq(x.sess.buf, end + 1, Len(x.sess.buf)))
<1> DEFINE b == x.sess.buf
           w == x.link.wire
           n == Len(b)
           p == SubSeq(b, 1, at - 1)
           m == SubSeq(b, at, end)
           q == SubSeq(b, end + 1, n)
           r == SubSeq(b, at, n)
<1>0. b \in Seq(Items) /\ w \in Seq(Items) /\ n \in Nat /\ n <= BufferItems /\ Follows(b \o w) /\ BufferItems \in Nat
      /\ at \in 1..n /\ end \in at..n /\ b[end].k = "answer" /\ \A i \in 1..(at - 1) : b[i].k = "frame"
  BY LenProperties, RtspAssumption DEF Good, Calls, Sessions, Links, Whole
<1>1. at - 1 \in 0..n /\ (at - 1) + 1 = at /\ end \in 0..n /\ at \in Int /\ end \in Int
  BY <1>0
<1>2. p \in Seq(Items) /\ r \in Seq(Items) /\ p \o r = b /\ Len(p) = at - 1 /\ Len(r) = n - (at - 1)
      /\ \A i \in 1..(at - 1) : p[i] = b[i]
  <2> HIDE DEF b
  <2>1. /\ SubSeq(b, 1, at - 1) \in Seq(Items) /\ SubSeq(b, (at - 1) + 1, Len(b)) \in Seq(Items)
        /\ SubSeq(b, 1, at - 1) \o SubSeq(b, (at - 1) + 1, Len(b)) = b
        /\ Len(SubSeq(b, 1, at - 1)) = at - 1 /\ Len(SubSeq(b, (at - 1) + 1, Len(b))) = Len(b) - (at - 1)
        /\ \A i \in 1..(at - 1) : SubSeq(b, 1, at - 1)[i] = b[i]
    BY SMTT(30), <1>0, <1>1, CutInTwo
  <2>q. QED BY <1>1, <2>1
<1>3. q \in Seq(Items) /\ Len(q) = n - end
  <2> HIDE DEF b
  <2>q. QED BY <1>0, <1>1, CutInTwo
<1>4. m \in Seq(Items) /\ Len(m) = end - at + 1 /\ \A i \in 1..(end - at + 1) : m[i] = b[at + i - 1]
  <2> HIDE DEF b
  <2>1. \A i \in at..end : b[i] \in Items
    <3>1. \A i \in at..end : i \in 1..n
      BY <1>0
    <3>2. \A i \in 1..n : b[i] \in Items
      BY <1>0, ElementOfSeq
    <3>q. QED BY <3>1, <3>2
  <2>2. at <= end
    BY <1>0
  <2>q. QED BY <1>1, <2>1, <2>2, SubSeqProperties
<1>5. m \o q = r
  <2> HIDE DEF b
  <2>1. at \in 1..(Len(b) + 1) /\ end \in (at - 1)..Len(b) /\ Len(b) \in end..Len(b)
    BY <1>0
  <2>q. QED BY <1>0, <2>1, ConcatAdjacentSubSeq
<1>6. x.sess.buf \in Seq(Others) => p \in Seq(Others) /\ q \in Seq(Others)
  <2>1. ASSUME b \in Seq(Others) PROVE p \in Seq(Others) /\ q \in Seq(Others)
    <3> HIDE DEF b
    <3>q. QED BY <1>1, <2>1, CutInTwo
  <2>q. QED BY <2>1
<1> HIDE DEF b, w, n, p, m, q, r
<1>7. Answers(m) >= 1
  <2>1. PICK k : k = end - at + 1
    OBVIOUS
  <2>2. k \in 1..(end - at + 1) /\ at + k - 1 = end
    BY <1>0, <2>1
  <2>3. k \in DOMAIN m /\ m[k].k = "answer"
    <3>1. DOMAIN m = 1..(end - at + 1)
      BY <1>4, LenProperties
    <3>q. QED BY <1>0, <1>4, <2>2, <3>1
  <2>q. QED BY <1>4, <2>3, NoAnswers
<1>8. Answers(b) = Answers(p) + (Answers(m) + Answers(q)) /\ Answers(p \o q) = Answers(p) + Answers(q)
      /\ p \o q \in Seq(Items)
  <2>1. Answers(p \o r) = Answers(p) + Answers(r)
    BY <1>2, AnswersAdd
  <2>2. Answers(m \o q) = Answers(m) + Answers(q)
    BY <1>3, <1>4, AnswersAdd
  <2>3. Answers(p \o q) = Answers(p) + Answers(q) /\ p \o q \in Seq(Items)
    BY <1>2, <1>3, AnswersAdd
  <2>q. QED BY <1>2, <1>5, <2>1, <2>2, <2>3
<1>9. PICK i, j, k \in Nat : i = Answers(p) /\ j = Answers(m) /\ k = Answers(q)
  BY <1>2, <1>3, <1>4, AnswersType
<1>10. Answers(b) = i + (j + k) /\ j >= 1 /\ Answers(p \o q) = i + k
  BY <1>7, <1>8, <1>9
<1>11. Follows(q \o w) /\ Follows(w) /\ Follows((p \o q) \o w)
  <2>1. p \in Seq(Items) /\ q \in Seq(Items) /\ m \in Seq(Items) /\ w \in Seq(Items) /\ r \in Seq(Items)
    BY <1>0, <1>2, <1>3, <1>4
  <2>2. (p \o r) \o w = p \o (r \o w)
    BY SMTT(30), <2>1, Regroup
  <2>3. (m \o q) \o w = m \o (q \o w)
    BY SMTT(30), <2>1, Regroup
  <2>4. (p \o q) \o w = p \o (q \o w)
    BY SMTT(30), <2>1, Regroup
  <2>5. r \o w \in Seq(Items) /\ q \o w \in Seq(Items)
    BY <2>1, ConcatProperties
  <2>6. Follows(p \o (r \o w))
    BY <1>0, <1>2, <2>2
  <2>7. Follows(r \o w)
    BY <2>1, <2>5, <2>6, FollowsParts
  <2>8. Follows(m \o (q \o w))
    BY <1>5, <2>3, <2>7
  <2>9. Follows(q \o w)
    BY <2>1, <2>5, <2>8, FollowsParts
  <2>10. Follows(w)
    BY <2>1, <2>9, FollowsParts
  <2>11. \A h \in 1..Len(p) : p[h].k # "lead"
    BY <1>0, <1>2
  <2>12. Follows(p \o (q \o w))
    BY <2>1, <2>5, <2>9, <2>11, FollowsAfter
  <2>q. QED BY <2>4, <2>9, <2>10, <2>12
<1>12. Len(q) <= BufferItems /\ Len(p \o q) <= BufferItems /\ 0 <= BufferItems
  <2>1. Len(p \o q) = Len(p) + Len(q)
    BY <1>2, <1>3, ConcatProperties
  <2>2. Len(p \o q) = (at - 1) + (n - end)
    BY <1>2, <1>3, <2>1
  <2>q. QED BY <1>0, <1>3, <2>2
<1>13. Shed(x, q)
  <2>1. k + 1 <= i + (j + k)
    BY <1>9, <1>10
  <2>2. Answers(q) + 1 <= Answers(x.sess.buf)
    BY <1>9, <1>10, <2>1 DEF b
  <2>q. QED BY <1>3, <1>6, <1>11, <1>12, <2>2 DEF Shed, w
<1>14. Shed(x, p \o q)
  <2>1. (i + k) + 1 <= i + (j + k)
    BY <1>9, <1>10
  <2>2. Answers(p \o q) + 1 <= Answers(x.sess.buf)
    BY <1>10, <2>1 DEF b
  <2>3. p \in Seq(Others) /\ q \in Seq(Others) => p \o q \in Seq(Others)
    BY ConcatProperties
  <2>q. QED BY <1>6, <1>8, <1>11, <1>12, <2>2, <2>3 DEF Shed, w
<1>15. Shed(x, <<>>)
  <2>1. 0 + 1 <= i + (j + k)
    BY <1>9, <1>10
  <2>2. Answers(<<>>) + 1 <= Answers(x.sess.buf)
    BY <1>10, <2>1, AnswersOfOne DEF b
  <2>3. <<>> \o w = w
    BY <1>0, ConcatEmptySeq
  <2>q. QED BY <1>11, <1>12, <2>2, <2>3, NewLinkIsOne DEF Shed, w
<1>q. QED BY <1>13, <1>14, <1>15 DEF p, q, b, n

\* Where the session may be after the answer it awaited.
Answering(from, to) ==
    \/ to = from
    \/ from = "AWAITING_OPTIONS" /\ to = "CONNECTED"
    \/ from = "AWAITING_DESCRIBE" /\ to \in {"AWAITING_OPTIONS", "DESCRIBED"}
    \/ from = "AWAITING_SETUP" /\ to \in {"DESCRIBED", "SETUP"}
    \/ from = "AWAITING_PLAY" /\ to \in {"SETUP", "PLAYING"}
    \/ from = "AWAITING_TEARDOWN" /\ to = "TEARDOWN_COMPLETE"

\* A session that has taken the answer it awaited is good.
LEMMA AnswerTakenGood ==
    ASSUME NEW x \in Good, x.sess.awaiting, x.sess.st \notin Moving,
           NEW y \in Calls, ~y.sess.awaiting, ~y.sess.kaAwaited, ~y.sess.kaQueued,
           y.sess.parked = x.sess.parked, y.sess.tearing = x.sess.tearing, y.sess.pend = x.sess.pend,
           y.link = x.link, Shed(x, y.sess.buf), NamedRight(y.sess), Answering(x.sess.st, y.sess.st)
    PROVE  y \in Good /\ y.sess.st # "RECONNECTING"
<1>1. PendRight(x.sess) /\ Counts(x) /\ SetupRight(x)
  BY DEF Good
<1>2. Sending = {"SENDING_OPTIONS", "SENDING_DESCRIBE", "SENDING_SETUP", "SENDING_PLAY", "SENDING_TEARDOWN"}
  BY DEF Sending, RequestOf
<1>3. x.sess.st \in {"AWAITING_OPTIONS", "AWAITING_DESCRIBE", "AWAITING_SETUP", "AWAITING_PLAY",
                     "PLAYING", "SENDING_TEARDOWN", "AWAITING_TEARDOWN"} /\ ~x.sess.parked
  BY <1>1 DEF PendRight, Moving
<1>4. PendRight(y.sess)
  <2>1. CASE x.sess.st = "SENDING_TEARDOWN"
    <3>1. y.sess.st = x.sess.st
      BY <2>1 DEF Answering
    <3>q. QED BY <1>1, <1>2, <1>3, <2>1, <3>1 DEF PendRight
  <2>2. CASE x.sess.st # "SENDING_TEARDOWN"
    <3>1. x.sess.pend = "none"
      BY <1>1, <1>2, <1>3, <2>2 DEF PendRight, Moving
    <3>2. y.sess.st \notin Sending
      BY <1>2, <1>3, <2>2 DEF Answering
    <3>q. QED BY <1>3, <3>1, <3>2 DEF PendRight
  <2>q. QED BY <2>1, <2>2
<1>5. PICK a, b, c, n \in Nat : /\ a = Answers(x.sess.buf) /\ b = Answers(x.link.wire)
                                /\ c = Answers(y.sess.buf) /\ n = Len(x.link.todo)
  BY AnswersType, LenProperties DEF Good, Calls, Sessions, Links
<1>6. Outstanding(x) = n + a + b /\ Outstanding(y) = n + c + b /\ c + 1 <= a
  BY <1>5 DEF Outstanding, Shed
<1>7. Counts(y) /\ (x.sess.st \notin Tearing => n = 0 /\ c = 0 /\ b = 0)
  <2>1. CASE x.sess.st \in Tearing
    <3>1. y.sess.st \in Tearing /\ y.sess.st # "RECONNECTING"
      BY <1>3, <2>1 DEF Answering, Tearing
    <3>2. PICK k \in Nat : k = IF x.sess.pend = "none" THEN 0 ELSE 1
      OBVIOUS
    <3>3. n + a + b + k <= 2 /\ x.sess.tearing
      BY <1>1, <1>6, <2>1, <3>2 DEF Counts
    <3>4. n + c + b + k <= 2
      <4>1. a \in Nat /\ b \in Nat /\ c \in Nat /\ n \in Nat /\ k \in Nat /\ c + 1 <= a /\ n + a + b + k <= 2
        BY <1>6, <3>3
      <4>q. QED BY ONLY <4>1
    <3>q. QED BY <1>6, <2>1, <3>1, <3>2, <3>3, <3>4 DEF Counts
  <2>2. CASE x.sess.st \notin Tearing
    <3>1. y.sess.st \notin Tearing /\ y.sess.st # "RECONNECTING"
      BY <1>3, <2>2 DEF Answering, Tearing
    <3>2. n + a + b <= 1
      BY <1>1, <1>6, <2>2 DEF Counts
    <3>3. n = 0 /\ c = 0 /\ b = 0 /\ n + c + b <= 0
      BY SMTT(30), <1>5, <1>6, <3>2
    <3>q. QED BY <1>6, <3>1, <3>3 DEF Counts
  <2>q. QED BY <2>1, <2>2
<1>8. SetupRight(y)
  <2>1. CASE x.sess.st # "AWAITING_SETUP"
    BY <1>1, <2>1 DEF SetupRight, Shed
  <2>2. CASE x.sess.st = "AWAITING_SETUP"
    <3>1. n = 0 /\ c = 0 /\ b = 0
      BY <1>7, <2>2 DEF Tearing
    <3>2. x.link.todo = <<>>
      <4>1. x.link.todo \in Seq(Todo)
        BY DEF Good, Calls, Links
      <4>2. Len(x.link.todo) = 0
        BY <1>5, <3>1
      <4>q. QED BY <4>1, <4>2, EmptySeq
    <3>3. x.link.wire \in Seq(Others)
      <4>1. x.link.wire \in Seq(Items)
        BY DEF Good, Calls, Links
      <4>q. QED BY <1>5, <3>1, <4>1, NoAnswers
    <3>4. y.sess.buf \in Seq(Others)
      BY <1>5, <3>1, NoAnswers DEF Shed
    <3>q. QED BY <3>2, <3>3, <3>4, NewLinkIsOne DEF SetupRight
  <2>q. QED BY <2>1, <2>2
<1>9. Whole(y)
  BY DEF Whole, Shed
<1>10. y.sess.st # "RECONNECTING"
  BY <1>3 DEF Answering
<1>q. QED BY <1>4, <1>7, <1>8, <1>9, <1>10 DEF Good

\* What a call that takes an answer may come to.
Outcome(z) ==
    /\ z \in Calls
    /\ z.ret # "error" =>
          /\ z \in Good /\ z.sess.st # "RECONNECTING"
          /\ z.ret \in {"keepalive", "duration", "metadata"} => z.sess.st \in States

\* What an answer that is understood has changed so far.
Mild(x, u) ==
    /\ u.link = x.link /\ u.ret = x.ret
    /\ ~u.sess.awaiting /\ ~u.sess.kaAwaited /\ ~u.sess.kaQueued
    /\ u.sess.parked = x.sess.parked /\ u.sess.tearing = x.sess.tearing /\ u.sess.pend = x.sess.pend
    /\ \/ /\ u.sess.st = x.sess.st \/ (x.sess.st \in DOMAIN BackBefore /\ u.sess.st = BackBefore[x.sess.st])
          /\ u.sess.map = x.sess.map /\ u.sess.named = x.sess.named /\ u.sess.stun = x.sess.stun
       \/ x.sess.st = "AWAITING_SETUP" /\ u.sess.st = "AWAITING_SETUP"

\* The answer is off the buffer and the session where it leads.
LEMMA TakenForm ==
    ASSUME NEW x \in Good, x.sess.awaiting, x.sess.st \notin Moving,
           NEW u \in Calls, Mild(x, u), NEW b, Shed(x, b),
           NEW to \in States \union Passing, Answering(x.sess.st, to),
           to \in Naming => u.sess.map = u.sess.named /\ u.sess.stun # "asking",
           NEW r \in {"ok", "advance", "keepalive", "duration", "metadata"},
           r \in {"keepalive", "duration", "metadata"} => to \in States
    PROVE  Outcome([u EXCEPT !.sess.buf = b, !.sess.st = to, !.ret = r])
<1> DEFINE z == [u EXCEPT !.sess.buf = b, !.sess.st = to, !.ret = r]
<1>1. b \in Seq(Items) /\ r \in Results
  BY DEF Shed, Results
<1>2. z \in Calls /\ z.sess = [u.sess EXCEPT !.buf = b, !.st = to] /\ z.link = u.link /\ z.ret = r
  BY <1>1 DEF Calls, Sessions
<1> HIDE DEF z
<1>3. u.sess \in Sessions
  BY DEF Calls
<1>4. /\ z.sess.st = to /\ z.sess.buf = b /\ z.sess.pend = u.sess.pend /\ z.sess.awaiting = u.sess.awaiting
      /\ z.sess.kaQueued = u.sess.kaQueued /\ z.sess.kaAwaited = u.sess.kaAwaited /\ z.sess.parked = u.sess.parked
      /\ z.sess.tearing = u.sess.tearing /\ z.sess.map = u.sess.map /\ z.sess.named = u.sess.named
      /\ z.sess.stun = u.sess.stun
  BY <1>2, <1>3 DEF Sessions
<1>5. ~z.sess.awaiting /\ ~z.sess.kaAwaited /\ ~z.sess.kaQueued /\ z.sess.parked = x.sess.parked
      /\ z.sess.tearing = x.sess.tearing /\ z.sess.pend = x.sess.pend /\ z.link = x.link
  BY <1>2, <1>4 DEF Mild
<1>6. NamedRight(z.sess)
  BY <1>4 DEF NamedRight
<1>7. z \in Good /\ z.sess.st # "RECONNECTING"
  BY <1>2, <1>4, <1>5, <1>6, AnswerTakenGood
<1>q. QED BY <1>2, <1>4, <1>7 DEF Outcome, z

\* The rest of taking an answer.
LEMMA ResponseTakenGood ==
    ASSUME NEW x \in Good, x.sess.awaiting, x.sess.st \notin Moving, x.ret = "ok", kind \in Kinds,
           NEW u \in Calls, Mild(x, u), NEW before, NEW after,
           Shed(x, <<>>), Shed(x, after), Shed(x, before \o after)
    PROVE  Outcome(ResponseTaken(u, x.sess.kaAwaited, before, after))
<1> DEFINE z == ResponseTaken(u, x.sess.kaAwaited, before, after)
           clean == [u EXCEPT !.sess.buf = <<>>]
           F(b, to, r) == [u EXCEPT !.sess.buf = b, !.sess.st = to, !.ret = r]
<1>0. u.sess \in Sessions /\ u.ret = "ok" /\ PendRight(x.sess) /\ NamedRight(x.sess)
  BY DEF Calls, Good, Mild
<1>1. /\ DOMAIN BackBefore = {"AWAITING_OPTIONS", "AWAITING_DESCRIBE", "AWAITING_SETUP", "AWAITING_PLAY"}
      /\ BackBefore["AWAITING_OPTIONS"] = "CONNECTED" /\ BackBefore["AWAITING_DESCRIBE"] = "AWAITING_OPTIONS"
      /\ BackBefore["AWAITING_SETUP"] = "DESCRIBED" /\ BackBefore["AWAITING_PLAY"] = "SETUP"
  BY DEF BackBefore
<1>2. x.sess.st \in {"AWAITING_OPTIONS", "AWAITING_DESCRIBE", "AWAITING_SETUP", "AWAITING_PLAY",
                     "PLAYING", "SENDING_TEARDOWN", "AWAITING_TEARDOWN"}
  BY <1>0 DEF PendRight, Moving
<1>3. \/ u.sess.st = x.sess.st
      \/ x.sess.st = "AWAITING_OPTIONS" /\ u.sess.st = "CONNECTED"
      \/ x.sess.st = "AWAITING_DESCRIBE" /\ u.sess.st = "AWAITING_OPTIONS"
      \/ x.sess.st = "AWAITING_SETUP" /\ u.sess.st = "DESCRIBED"
      \/ x.sess.st = "AWAITING_PLAY" /\ u.sess.st = "SETUP"
  BY <1>1 DEF Mild
<1>4. u.sess.st \in States \union Passing
  BY <1>0 DEF Sessions
<1>5. u.sess.st \in Naming /\ u.sess.st # "AWAITING_SETUP" => u.sess.map = u.sess.named /\ u.sess.stun # "asking"
  <2>1. ASSUME u.sess.st \in Naming, u.sess.st # "AWAITING_SETUP"
        PROVE u.sess.map = u.sess.named /\ u.sess.stun # "asking"
    <3>1. x.sess.st \in Naming
      BY <1>2, <1>3, <2>1 DEF Naming
    <3>2. u.sess.map = x.sess.map /\ u.sess.named = x.sess.named /\ u.sess.stun = x.sess.stun
      BY <2>1 DEF Mild
    <3>q. QED BY <1>0, <3>1, <3>2 DEF NamedRight
  <2>q. QED BY <2>1
<1>6. CASE x.sess.kaAwaited
  <2>1. z = Returns([u EXCEPT !.sess.buf = before \o after], "keepalive")
    BY Zenon, <1>6 DEF ResponseTaken
  <2>2. PICK b \in Seq(Items) : b = before \o after
    BY DEF Shed
  <2>3. z = F(b, u.sess.st, "keepalive")
    BY ZenonT(60), <1>0, <2>1, <2>2 DEF Returns, Calls, Sessions
  <2>4. x.sess.st \in {"PLAYING", "SENDING_TEARDOWN", "AWAITING_TEARDOWN"}
    BY <1>0, <1>2, <1>6 DEF PendRight
  <2>5. u.sess.st = x.sess.st
    BY <1>3, <2>4
  <2> HIDE DEF z
  <2>6. u.sess.st \in States /\ u.sess.st \notin Naming /\ Answering(x.sess.st, u.sess.st)
    BY <2>4, <2>5 DEF States, Naming, Answering
  <2>7. Shed(x, b)
    BY <2>2
  <2>8. Outcome(F(b, u.sess.st, "keepalive"))
    BY <2>6, <2>7, TakenForm
  <2>q. QED BY <2>3, <2>8 DEF z
<1>7. CASE ~x.sess.kaAwaited
  <2>0. Shed(x, <<>>) /\ <<>> \in Seq(Items)
    BY EmptySeq
  <2>1. CASE u.sess.st = "AWAITING_OPTIONS"
    <3>1. z = Returns(clean, "advance")
      BY Zenon, <1>7, <2>1 DEF ResponseTaken
    <3>2. z = F(<<>>, u.sess.st, "advance")
      BY ZenonT(60), <1>0, <3>1 DEF Returns, Calls, Sessions
    <3>3. Answering(x.sess.st, u.sess.st) /\ u.sess.st \notin Naming
      BY <1>3, <2>1 DEF Answering, Naming
    <3> HIDE DEF z
    <3>4. Outcome(F(<<>>, u.sess.st, "advance"))
      BY <1>4, <2>0, <3>3, TakenForm
    <3>q. QED BY <3>2, <3>4 DEF z
  <2>2. CASE u.sess.st = "AWAITING_DESCRIBE"
    <3>0. u.sess.st = x.sess.st /\ u.sess.map = u.sess.named /\ u.sess.stun # "asking"
      BY <1>3, <1>5, <2>2 DEF Naming
    <3>1. CASE kind = "metadata"
      <4>1. z = Returns(clean, "metadata")
        BY Zenon, <1>7, <2>2, <3>1 DEF ResponseTaken
      <4>2. z = F(<<>>, u.sess.st, "metadata")
        BY ZenonT(60), <1>0, <4>1 DEF Returns, Calls, Sessions
      <4>3. Answering(x.sess.st, u.sess.st) /\ u.sess.st \in States
        BY <2>2, <3>0 DEF Answering, States
      <4> HIDE DEF z
      <4>4. Outcome(F(<<>>, u.sess.st, "metadata"))
        BY <1>4, <2>0, <3>0, <4>3, TakenForm
      <4>q. QED BY <4>2, <4>4 DEF z
    <3>2. CASE kind = "duration"
      <4>1. z = Returns(clean, "duration")
        BY Zenon, <1>7, <2>2, <3>2 DEF ResponseTaken
      <4>2. z = F(<<>>, u.sess.st, "duration")
        BY ZenonT(60), <1>0, <4>1 DEF Returns, Calls, Sessions
      <4>3. Answering(x.sess.st, u.sess.st) /\ u.sess.st \in States
        BY <2>2, <3>0 DEF Answering, States
      <4> HIDE DEF z
      <4>4. Outcome(F(<<>>, u.sess.st, "duration"))
        BY <1>4, <2>0, <3>0, <4>3, TakenForm
      <4>q. QED BY <4>2, <4>4 DEF z
    <3>3. CASE kind \in {"stream", "portless"}
      <4>1. z = Returns(Goes(clean, "DESCRIBED"), "advance")
        BY Zenon, <1>7, <2>2, <3>3 DEF ResponseTaken
      <4>2. z = F(<<>>, "DESCRIBED", "advance")
        BY <1>0, <4>1 DEF Returns, Goes, Calls, Sessions
      <4>3. Answering(x.sess.st, "DESCRIBED") /\ "DESCRIBED" \in States \union Passing
        BY <2>2, <3>0 DEF Answering, Passing
      <4> HIDE DEF z
      <4>4. Outcome(F(<<>>, "DESCRIBED", "advance"))
        BY <2>0, <3>0, <4>3, TakenForm
      <4>q. QED BY <4>2, <4>4 DEF z
    <3>q. QED BY <3>1, <3>2, <3>3, RtspAssumption
  <2>3. CASE u.sess.st = "AWAITING_SETUP"
    <3>1. z = Returns(Goes(clean, "SETUP"), "advance")
      BY Zenon, <1>7, <2>3 DEF ResponseTaken
    <3>2. z = F(<<>>, "SETUP", "advance")
      BY <1>0, <3>1 DEF Returns, Goes, Calls, Sessions
    <3>3. Answering(x.sess.st, "SETUP") /\ "SETUP" \in States \union Passing /\ "SETUP" \notin Naming
      BY <1>3, <2>3 DEF Answering, Passing, Naming
    <3> HIDE DEF z
    <3>4. Outcome(F(<<>>, "SETUP", "advance"))
      BY <2>0, <3>3, TakenForm
    <3>q. QED BY <3>2, <3>4 DEF z
  <2>4. CASE u.sess.st = "AWAITING_PLAY"
    <3>1. z = Goes([clean EXCEPT !.sess.buf = IF u.sess.tcp THEN after ELSE <<>>], "PLAYING")
      BY Zenon, <1>7, <2>4 DEF ResponseTaken
    <3>2. PICK b : b = IF u.sess.tcp THEN after ELSE <<>>
      OBVIOUS
    <3>3. b \in Seq(Items) /\ Shed(x, b)
      BY <2>0, <3>2 DEF Shed
    <3>4. z = F(b, "PLAYING", "ok")
      <4>1. z = Goes([clean EXCEPT !.sess.buf = b], "PLAYING")
        BY <3>1, <3>2
      <4> HIDE DEF z
      <4>q. QED BY ZenonT(60), <1>0, <4>1 DEF Goes, Calls, Sessions
    <3>5. Answering(x.sess.st, "PLAYING") /\ "PLAYING" \in States /\ "PLAYING" \notin Naming
      BY <1>3, <2>4 DEF Answering, States, Naming
    <3> HIDE DEF z
    <3>6. Outcome(F(b, "PLAYING", "ok"))
      BY <3>3, <3>5, TakenForm
    <3>q. QED BY <3>4, <3>6 DEF z
  <2>5. CASE u.sess.st = "AWAITING_TEARDOWN"
    <3>1. z = Goes(clean, "TEARDOWN_COMPLETE")
      BY Zenon, <1>7, <2>5 DEF ResponseTaken
    <3>2. z = F(<<>>, "TEARDOWN_COMPLETE", "ok")
      BY ZenonT(60), <1>0, <3>1 DEF Goes, Calls, Sessions
    <3>3. Answering(x.sess.st, "TEARDOWN_COMPLETE") /\ "TEARDOWN_COMPLETE" \in States \union Passing
          /\ "TEARDOWN_COMPLETE" \notin Naming
      BY <1>3, <2>5 DEF Answering, Passing, Naming
    <3> HIDE DEF z
    <3>4. Outcome(F(<<>>, "TEARDOWN_COMPLETE", "ok"))
      BY <2>0, <3>3, TakenForm
    <3>q. QED BY <3>2, <3>4 DEF z
  <2>6. CASE u.sess.st \notin {"AWAITING_OPTIONS", "AWAITING_DESCRIBE", "AWAITING_SETUP", "AWAITING_PLAY", "AWAITING_TEARDOWN"}
    <3>1. z = clean
      BY Zenon, <1>7, <2>6 DEF ResponseTaken
    <3>2. z = F(<<>>, u.sess.st, "ok")
      <4>1. PICK st, ret : st = u.sess.st /\ ret = u.ret
        OBVIOUS
      <4>2. clean = F(<<>>, st, ret)
        BY ZenonT(60), <1>0, <4>1 DEF Calls, Sessions
      <4> HIDE DEF z, clean
      <4>q. QED BY <1>0, <3>1, <4>1, <4>2
    <3>3. Answering(x.sess.st, u.sess.st)
      BY <1>3, <2>6 DEF Answering
    <3>4. u.sess.st \in Naming => u.sess.map = u.sess.named /\ u.sess.stun # "asking"
      BY <1>5, <2>6
    <3> HIDE DEF z
    <3>5. Outcome(F(<<>>, u.sess.st, "ok"))
      BY <1>4, <2>0, <3>3, <3>4, TakenForm
    <3>q. QED BY <3>2, <3>5 DEF z
  <2>q. QED BY <2>1, <2>2, <2>3, <2>4, <2>5, <2>6
<1>q. QED BY <1>6, <1>7

\* A redirect that is followed leaves the session connecting to the new server.
LEMMA RedirectGood ==
    ASSUME NEW y \in Calls, ~y.sess.awaiting, ~y.sess.kaAwaited, ~y.sess.kaQueued, ~y.sess.parked,
           y.sess.st # "RECONNECTING", y.sess.pend # "SETUP", y.ret = "ok", NEW z \in Redirect(y)
    PROVE  z \in Calls /\ (z.ret = "error" \/ (Rests(z) /\ z.sess.st = "CONNECTING" /\ z.gen > y.gen /\ z.ret = "ok"))
<1> DEFINE w == [y EXCEPT !.sess.redirects = @ + 1, !.sess.sid = FALSE, !.sess.buf = <<>>]
<1>0. "error" \in Results /\ <<>> \in Seq(Items) /\ <<>> \in Seq(Others) /\ Len(<<>>) = 0
  BY EmptySeq DEF Results
<1>1. CASE y.sess.redirects >= MaxRedirects
  <2>1. z = Returns(y, "error")
    BY <1>1 DEF Redirect
  <2>q. QED BY <1>0, <2>1 DEF Returns, Calls
<1>2. CASE ~(y.sess.redirects >= MaxRedirects)
  <2>1. PICK v \in RtspConnect(w) : z = IF v.ret = "failed" THEN Returns(v, "error") ELSE [v EXCEPT !.viewer.moves = @ + 1]
    BY <1>2 DEF Redirect
  <2>2. PICK n \in Nat : n = y.sess.redirects + 1
    BY DEF Calls, Sessions
  <2>3. w = [y EXCEPT !.sess.redirects = n, !.sess.sid = FALSE, !.sess.buf = <<>>]
    BY <2>2 DEF Calls, Sessions
  <2> HIDE DEF w
  <2>4. w \in Calls /\ w.sess = [y.sess EXCEPT !.redirects = n, !.sid = FALSE, !.buf = <<>>] /\ w.ret = "ok" /\ w.gen = y.gen
    BY <1>0, <2>3 DEF Calls, Sessions
  <2>5. y.sess \in Sessions
    BY DEF Calls
  <2>6. w.sess.st = y.sess.st /\ ~w.sess.awaiting /\ ~w.sess.kaAwaited /\ ~w.sess.kaQueued /\ ~w.sess.parked /\ w.sess.buf = <<>>
        /\ w.sess.pend # "SETUP"
    BY <2>4, <2>5 DEF Sessions
  <2>7. v \in Calls /\ (v.ret = "failed" \/ Reaches(w, v))
    BY <2>1, <2>4, ConnectGives
  <2>8. CASE v.ret = "failed"
    <3>1. z = Returns(v, "error")
      BY <2>1, <2>8
    <3>q. QED BY <1>0, <2>7, <3>1 DEF Returns, Calls
  <2>9. CASE v.ret # "failed"
    <3>0. Reaches(w, v)
      BY <2>7, <2>9
    <3>1. v.link = NewLink /\ v.sess.st = "CONNECTING" /\ ~v.sess.awaiting /\ ~v.sess.kaAwaited /\ ~v.sess.kaQueued
          /\ ~v.sess.parked /\ v.sess.buf = <<>> /\ v.gen = y.gen + 1 /\ v.ret = "ok" /\ v.sess.pend # "SETUP"
      BY <2>4, <2>6, <3>0 DEF Reaches
    <3>2. Rests(v)
      <4>1. Follows(<<>>) /\ Answers(<<>>) <= 0 /\ Len(<<>>) <= BufferItems
        BY <1>0, AnswersOfOne, RtspAssumption DEF Follows
      <4>q. QED BY <1>0, <2>7, <3>1, <4>1, ReachedGood
    <3>3. PICK m \in Nat : m = v.viewer.moves + 1
      BY <2>7 DEF Calls, Viewers
    <3>4. z = [v EXCEPT !.viewer.moves = m]
      BY <2>1, <2>7, <2>9, <3>3 DEF Calls, Viewers
    <3>5. z \in Calls /\ SameCourse(v, z) /\ SameBytes(v, z) /\ z.ret = v.ret
      BY <2>7, <3>4 DEF Calls, Viewers, SameCourse, SameBytes
    <3>6. Rests(z)
      BY <3>2, <3>5, CourseGood DEF Rests
    <3>7. z.gen > y.gen
      <4>1. y.gen \in Nat
        BY DEF Calls
      <4>q. QED BY <3>1, <3>5, <4>1 DEF SameCourse
    <3>q. QED BY <3>1, <3>5, <3>6, <3>7 DEF SameCourse
  <2>q. QED BY <2>8, <2>9
<1>q. QED BY <1>1, <1>2

\* What is made of the answer: the connection is another, the answer an error,
\* or little has changed.
LEMMA UnderstoodGives ==
    ASSUME NEW x \in Good, x.sess.awaiting, x.sess.st \notin Moving, x.ret = "ok",
           NEW code \in AllCodes, code \in {"tcp", "udp"} => x.sess.st = "AWAITING_SETUP",
           NEW z \in Understood([x EXCEPT !.sess.awaiting = FALSE, !.sess.kaAwaited = FALSE], code, x.sess.kaAwaited)
    PROVE  /\ z \in Calls
           /\ \/ z.ret = "error"
              \/ z.gen > x.gen /\ Outcome(z)
              \/ z.gen = x.gen /\ Mild(x, z)
<1> DEFINE y == [x EXCEPT !.sess.awaiting = FALSE, !.sess.kaAwaited = FALSE]
           was == x.sess.kaAwaited
<1>0. x \in Calls /\ x.sess \in Sessions /\ PendRight(x.sess) /\ "error" \in Results
  BY DEF Good, Calls, Results
<1>1. y \in Calls /\ y.sess = [x.sess EXCEPT !.awaiting = FALSE, !.kaAwaited = FALSE] /\ y.link = x.link
      /\ y.gen = x.gen /\ y.ret = "ok"
  <2>1. [x.sess EXCEPT !.awaiting = FALSE, !.kaAwaited = FALSE] \in Sessions
    <3>1. PICK s \in Sessions : s = x.sess
      BY <1>0
    <3>2. [s EXCEPT !.awaiting = FALSE, !.kaAwaited = FALSE] \in Sessions
      BY DEF Sessions
    <3>q. QED BY <3>1, <3>2
  <2>2. PICK v \in Sessions : v = [x.sess EXCEPT !.awaiting = FALSE, !.kaAwaited = FALSE]
    BY <2>1
  <2>3. y = [x EXCEPT !.sess = v]
    BY <1>0, <2>2 DEF Calls
  <2> HIDE DEF y
  <2>4. y \in Calls /\ y.sess = v /\ y.link = x.link /\ y.gen = x.gen /\ y.ret = x.ret
    BY <1>0, <2>3 DEF Calls
  <2>q. QED BY <2>2, <2>4
<1> HIDE DEF y
<1>2. y.sess.st = x.sess.st /\ ~y.sess.awaiting /\ ~y.sess.kaAwaited /\ y.sess.kaQueued = x.sess.kaQueued
      /\ y.sess.parked = x.sess.parked /\ y.sess.tearing = x.sess.tearing /\ y.sess.pend = x.sess.pend
      /\ y.sess.map = x.sess.map /\ y.sess.named = x.sess.named /\ y.sess.stun = x.sess.stun
  BY <1>0, <1>1 DEF Sessions
<1>3. ~x.sess.kaQueued /\ ~x.sess.parked /\ x.sess.st # "RECONNECTING" /\ y.sess \in Sessions
  BY <1>0, <1>1 DEF PendRight, Moving, Calls
<1>13. x.sess.pend # "SETUP"
  BY <1>0 DEF PendRight, Moving, Sending, RequestOf
<1>4. z \in Understood(y, code, was)
  BY DEF y
<1> DEFINE e == Returns(y, "error")
<1>5. e \in Calls /\ e.ret = "error"
  BY <1>0, <1>1 DEF Returns, Calls
<1>6. Mild(x, y)
  BY <1>1, <1>2, <1>3 DEF Mild
<1>7. CASE code = "redirect"
  <2>1. Understood(y, code, was) = Redirect(y)
    BY Zenon, <1>7 DEF Understood
  <2>2. z \in Redirect(y)
    BY <1>4, <2>1
  <2>3. z \in Calls /\ (z.ret = "error" \/ (Rests(z) /\ z.sess.st = "CONNECTING" /\ z.gen > y.gen /\ z.ret = "ok"))
    BY <1>1, <1>2, <1>3, <1>13, <2>2, RedirectGood
  <2>q. QED BY <1>1, <2>3 DEF Outcome, Rests
<1>8. CASE code = "challenge"
  <2>1. Understood(y, code, was) = {Challenge(y)}
    BY Zenon, <1>8 DEF Understood
  <2>2. z = Challenge(y)
    BY <1>4, <2>1
  <2>3. CASE y.sess.auths >= MaxChallenges \/ ~Credentials
    <3>1. z = e
      BY <2>2, <2>3 DEF Challenge
    <3>q. QED BY <1>5, <3>1
  <2>4. CASE ~(y.sess.auths >= MaxChallenges \/ ~Credentials)
    <3>1. PICK n \in Nat : n = y.sess.auths + 1
      BY <1>3 DEF Sessions
    <3>2. PICK to : to = IF y.sess.st \in DOMAIN BackBefore THEN BackBefore[y.sess.st] ELSE y.sess.st
      OBVIOUS
    <3>3. to \in States \union Passing
      BY <1>3, <3>2 DEF BackBefore, States, Passing, Sessions
    <3>4. z = [y EXCEPT !.sess.auths = n, !.sess.st = to]
      BY <1>1, <1>3, <2>2, <2>4, <3>1, <3>2 DEF Challenge, Calls, Sessions
    <3>5. z \in Calls /\ z.sess = [y.sess EXCEPT !.auths = n, !.st = to] /\ z.link = y.link /\ z.gen = y.gen /\ z.ret = y.ret
      BY ZenonT(60), <1>1, <3>3, <3>4 DEF Calls, Sessions
    <3>6. z.sess.st = to /\ z.sess.awaiting = y.sess.awaiting /\ z.sess.kaAwaited = y.sess.kaAwaited
          /\ z.sess.kaQueued = y.sess.kaQueued /\ z.sess.parked = y.sess.parked /\ z.sess.tearing = y.sess.tearing
          /\ z.sess.pend = y.sess.pend /\ z.sess.map = y.sess.map /\ z.sess.named = y.sess.named /\ z.sess.stun = y.sess.stun
      BY <1>3, <3>5 DEF Sessions
    <3>7. to = x.sess.st \/ (x.sess.st \in DOMAIN BackBefore /\ to = BackBefore[x.sess.st])
      BY <1>2, <3>2
    <3>8. Mild(x, z)
      BY <1>1, <1>2, <1>3, <3>5, <3>6, <3>7 DEF Mild
    <3>q. QED BY <1>1, <3>5, <3>8
  <2>q. QED BY <2>3, <2>4
<1>9. CASE code = "unsupported"
  <2>1. CASE was /\ y.sess.useGet
    <3>1. Understood(y, code, was) = {[y EXCEPT !.sess.useGet = FALSE]}
      BY Zenon, <1>9, <2>1 DEF Understood
    <3>2. z = [y EXCEPT !.sess.useGet = FALSE]
      BY <1>4, <3>1
    <3>3. z \in Calls /\ z.sess = [y.sess EXCEPT !.useGet = FALSE] /\ z.link = y.link /\ z.gen = y.gen /\ z.ret = y.ret
      BY ZenonT(60), <1>1, <3>2 DEF Calls, Sessions
    <3>4. z.sess.st = y.sess.st /\ z.sess.awaiting = y.sess.awaiting /\ z.sess.kaAwaited = y.sess.kaAwaited
          /\ z.sess.kaQueued = y.sess.kaQueued /\ z.sess.parked = y.sess.parked /\ z.sess.tearing = y.sess.tearing
          /\ z.sess.pend = y.sess.pend /\ z.sess.map = y.sess.map /\ z.sess.named = y.sess.named /\ z.sess.stun = y.sess.stun
      BY <1>3, <3>3 DEF Sessions
    <3>5. Mild(x, z)
      BY <1>1, <1>2, <1>3, <3>3, <3>4 DEF Mild
    <3>q. QED BY <1>1, <3>3, <3>5
  <2>2. CASE ~(was /\ y.sess.useGet)
    <3>1. Understood(y, code, was) = {e}
      BY Zenon, <1>9, <2>2 DEF Understood
    <3>q. QED BY <1>4, <1>5, <3>1
  <2>q. QED BY <2>1, <2>2
<1>10. CASE code \in {"tcp", "udp"}
  <2>1. Understood(y, code, was) = {Transport(y, code = "tcp")}
    BY Zenon, <1>10 DEF Understood
  <2>2. PICK t \in BOOLEAN : t = (code = "tcp")
    BY Zenon
  <2>3. z = Transport(y, t)
    BY <1>4, <2>1, <2>2
  <2> DEFINE s == [y.sess EXCEPT !.tcp = t, !.sid = TRUE, !.named = "none", !.kaQueued = FALSE, !.useGet = TRUE]
  <2>4. s \in Sessions /\ s.st = y.sess.st /\ ~s.awaiting /\ ~s.kaAwaited /\ ~s.kaQueued
        /\ s.parked = y.sess.parked /\ s.tearing = y.sess.tearing /\ s.pend = y.sess.pend
    BY ZenonT(60), <1>2, <1>3 DEF Sessions, Mappings
  <2>5. z = [y EXCEPT !.sess = IF t THEN CloseUdp(s) ELSE s]
    BY <2>3 DEF Transport
  <2> HIDE DEF s
  <2>6. CloseUdp(s) \in Sessions /\ CloseUdp(s).st = s.st /\ ~CloseUdp(s).awaiting /\ ~CloseUdp(s).kaAwaited
        /\ ~CloseUdp(s).kaQueued /\ CloseUdp(s).parked = s.parked /\ CloseUdp(s).tearing = s.tearing
        /\ CloseUdp(s).pend = s.pend
    BY <2>4, CloseUdpGives
  <2>7. PICK r \in Sessions : r = IF t THEN CloseUdp(s) ELSE s
    BY <2>4, <2>6
  <2>8. z \in Calls /\ z.sess = r /\ z.link = y.link /\ z.gen = y.gen /\ z.ret = y.ret
    BY <1>1, <2>5, <2>7 DEF Calls
  <2>9. r.st = y.sess.st /\ ~r.awaiting /\ ~r.kaAwaited /\ ~r.kaQueued /\ r.parked = y.sess.parked
        /\ r.tearing = y.sess.tearing /\ r.pend = y.sess.pend
    BY <2>4, <2>6, <2>7
  <2>10. Mild(x, z)
    BY <1>1, <1>2, <1>10, <2>8, <2>9 DEF Mild
  <2>q. QED BY <1>1, <2>8, <2>10
<1>11. CASE code = "ok"
  <2>1. Understood(y, code, was) = {y}
    BY Zenon, <1>11 DEF Understood
  <2>2. z = y
    BY <1>4, <2>1
  <2>q. QED BY <1>1, <1>6, <2>2
<1>12. CASE code = "refuse"
  <2>1. Understood(y, code, was) = {e}
    BY Zenon, <1>12 DEF Understood
  <2>q. QED BY <1>4, <1>5, <2>1
<1>q. QED BY <1>7, <1>8, <1>9, <1>10, <1>11, <1>12 DEF AllCodes

\* A session that waits for an answer and may take it.
Waits(x) == x \in Good /\ x.sess.awaiting /\ x.sess.st \notin Moving /\ x.ret = "ok"

\* Along the same course it still waits, or comes to an error.
LEMMA AlongWaits ==
    ASSUME NEW x, Waits(x), NEW y \in Along(x)
    PROVE  Outcome(y) /\ (y.ret = "ok" => Waits(y)) /\ Outcome(Returns(y, "error"))
<1>1. y \in Good /\ y.sess.st = x.sess.st /\ y.sess.awaiting = x.sess.awaiting /\ y \in Calls
  BY DEF Along, SameCourse, Good
<1>2. x.sess.st \in States /\ x.sess.st # "RECONNECTING"
  <2>1. PendRight(x.sess)
    BY DEF Waits, Good
  <2>q. QED BY <2>1 DEF Waits, PendRight, Moving, States
<1>3. Returns(y, "error") \in Calls /\ Returns(y, "error").ret = "error"
  BY <1>1 DEF Returns, Calls, Results
<1>q. QED BY <1>1, <1>2, <1>3 DEF Outcome, Waits

\* An answer that is not all there is waited for.
LEMMA NeedMoreGood ==
    ASSUME NEW x, Waits(x)
    PROVE  Outcome(NeedMore(x))
<1> DEFINE y == ProcessBuffer(x)
<1>1. x \in Along(x) /\ x \in Good
  BY DEF Along, SameCourse, Waits
<1>2. y \in Along(x)
  BY <1>1, ProcessBufferGood
<1>3. \/ NeedMore(x) = Returns(x, "error") \/ NeedMore(x) = x
      \/ NeedMore(x) = Returns(y, "error") \/ NeedMore(x) = y
  BY DEF NeedMore, With, y
<1> HIDE DEF y
<1>q. QED BY <1>1, <1>2, <1>3, AlongWaits

\* The first item that is no frame.
LEMMA FirstText ==
    ASSUME NEW b \in Seq(Items), NEW t, t = {i \in DOMAIN b : b[i].k # "frame"}, t # {}
    PROVE  /\ \E at \in t : \A j \in t : at <= j
           /\ \A at \in t : (\A j \in t : at <= j) =>
                 at \in 1..Len(b) /\ b[at].k # "frame" /\ \A i \in 1..(at - 1) : b[i].k = "frame"
<1>1. PICK n \in Nat : n = Len(b)
  BY LenProperties
<1>2. DOMAIN b = 1..n
  BY <1>1, LenProperties
<1>3. t \in SUBSET Nat
  BY <1>2
<1>4. \E i \in t : \A j \in t : i <= j
  BY <1>3, MinIsLeast
<1>5. ASSUME NEW at \in t, \A j \in t : at <= j
      PROVE  at \in 1..n /\ b[at].k # "frame" /\ \A i \in 1..(at - 1) : b[i].k = "frame"
  <2>1. at \in 1..n /\ b[at].k # "frame"
    BY <1>2, <1>5
  <2>2. n \in Nat /\ at \in 1..n
    BY <2>1
  <2>3. \A i \in 1..(at - 1) : i \in 1..n /\ ~(at <= i)
    BY ONLY <2>2
  <2>4. \A i \in 1..(at - 1) : b[i].k = "frame"
    BY <1>2, <1>5, <2>3
  <2>q. QED BY <2>1, <2>4
<1>q. QED BY <1>1, <1>4, <1>5

\* Where the part of an answer that tells its outcome lies.
LEMMA AnswerPlace ==
    ASSUME NEW b \in Seq(Items), Follows(b), NEW at \in 1..Len(b), b[at].k \notin {"frame", "request", "announce"},
           NEW end, end = IF b[at].k = "lead" THEN at + 1 ELSE at,
           ~(b[at].k = "lead" /\ end > Len(b))
    PROVE  end \in at..Len(b) /\ b[end].k = "answer"
<1>1. PICK n \in Nat : n = Len(b)
  BY LenProperties
<1>2. at \in 1..n /\ b[at] \in Items
  BY <1>1, ElementOfSeq
<1>3. b[at].k \in {"lead", "answer"}
  BY <1>2 DEF Items
<1>4. CASE b[at].k = "lead"
  <2>1. end = at + 1 /\ ~(end > n)
    BY <1>1, <1>4
  <2>2. n \in Nat /\ at \in 1..n
    BY <1>2
  <2>3. at \in 1..(n - 1) /\ end \in at..n
    BY ONLY <2>1, <2>2
  <2>4. b[at + 1].k = "answer"
    BY <1>1, <1>4, <2>3 DEF Follows
  <2>q. QED BY <1>1, <2>1, <2>3, <2>4
<1>5. CASE b[at].k = "answer"
  <2>1. end = at
    BY <1>5
  <2>2. n \in Nat /\ at \in 1..n
    BY <1>2
  <2>3. at \in at..n
    BY ONLY <2>2
  <2>q. QED BY <1>1, <1>5, <2>1, <2>3
<1>q. QED BY <1>3, <1>4, <1>5

\* What has come so far is understood, or more is needed.
LEMMA ParseGood ==
    ASSUME NEW x, Waits(x), kind \in Kinds, NEW z \in Parse(x)
    PROVE  Outcome(z)
<1> DEFINE b == x.sess.buf
           text == {i \in DOMAIN b : b[i].k # "frame"}
           at == CHOOSE i \in text : \A j \in text : i <= j
           end == IF b[at].k = "lead" THEN at + 1 ELSE at
           y == [x EXCEPT !.sess.awaiting = FALSE, !.sess.kaAwaited = FALSE]
           before == SubSeq(b, 1, at - 1)
           after == SubSeq(b, end + 1, Len(b))
<1>0. x \in Good /\ x \in Calls /\ b \in Seq(Items) /\ x.link.wire \in Seq(Items) /\ Follows(b) /\ SetupRight(x)
      /\ x.sess.awaiting /\ x.sess.st \notin Moving /\ x.ret = "ok"
  BY FollowsParts DEF Waits, Good, Calls, Sessions, Links, Whole
<1>1. CASE text = {} \/ (b[at].k = "lead" /\ end > Len(b))
  <2>1. z = NeedMore(x)
    BY <1>1 DEF Parse
  <2>q. QED BY <2>1, NeedMoreGood
<1>2. CASE ~(text = {} \/ (b[at].k = "lead" /\ end > Len(b))) /\ b[at].k \in {"request", "announce"}
  <2>1. z = Returns(y, "error")
    BY Zenon, <1>2 DEF Parse
  <2>2. z \in Calls /\ z.ret = "error"
    <3>1. x.sess \in Sessions /\ "error" \in Results
      BY <1>0 DEF Calls, Results
    <3>2. PICK s \in Sessions : s = x.sess
      BY <3>1
    <3>3. [s EXCEPT !.awaiting = FALSE, !.kaAwaited = FALSE] \in Sessions
      BY DEF Sessions
    <3>4. PICK v \in Sessions : v = [s EXCEPT !.awaiting = FALSE, !.kaAwaited = FALSE]
      BY <3>3
    <3>5. y = [x EXCEPT !.sess = v]
      BY <1>0, <3>2, <3>4 DEF Calls
    <3> HIDE DEF y
    <3>q. QED BY <1>0, <2>1, <3>1, <3>5 DEF Returns, Calls
  <2>q. QED BY <2>2 DEF Outcome
<1>3. CASE ~(text = {} \/ (b[at].k = "lead" /\ end > Len(b))) /\ b[at].k \notin {"request", "announce"}
  <2>1. PICK u \in Understood(y, b[end].code, x.sess.kaAwaited) :
           z = IF u.ret = "error" \/ u.gen > x.gen THEN u
               ELSE ResponseTaken(u, x.sess.kaAwaited, before, after)
    BY <1>3 DEF Parse
  <2>2. at \in 1..Len(b) /\ end \in at..Len(b) /\ b[end].k = "answer"
        /\ \A i \in 1..(at - 1) : b[i].k = "frame"
    <3>1. text # {} /\ ~(b[at].k = "lead" /\ end > Len(b)) /\ b[at].k \notin {"request", "announce"}
      BY <1>3
    <3>2. PICK t : t = text
      OBVIOUS
    <3>3. at = CHOOSE i \in t : \A j \in t : i <= j
      BY Zenon, <3>2
    <3>4. t = {i \in DOMAIN b : b[i].k # "frame"} /\ t # {}
      BY <3>1, <3>2
    <3>5. end = IF b[at].k = "lead" THEN at + 1 ELSE at
      OBVIOUS
    <3> HIDE DEF b, text, at, end
    <3>6. b \in Seq(Items) /\ Follows(b)
      BY <1>0
    <3>7. /\ \E c \in t : \A j \in t : c <= j
          /\ \A c \in t : (\A j \in t : c <= j) =>
                c \in 1..Len(b) /\ b[c].k # "frame" /\ \A i \in 1..(c - 1) : b[i].k = "frame"
      BY <3>4, <3>6, FirstText
    <3>8. at \in 1..Len(b) /\ b[at].k # "frame" /\ \A i \in 1..(at - 1) : b[i].k = "frame"
      <4>1. at \in t /\ \A j \in t : at <= j
        BY <3>3, <3>7
      <4>q. QED BY <3>7, <4>1
    <3>9. end \in at..Len(b) /\ b[end].k = "answer"
      BY ONLY <3>1, <3>5, <3>6, <3>8, AnswerPlace
    <3>q. QED BY <3>8, <3>9
  <2> HIDE DEF text, at, end
  <2>3. Shed(x, <<>>) /\ Shed(x, after) /\ Shed(x, before \o after)
    BY <1>0, <2>2, ShedGood
  <2>4. end \in 1..Len(b) /\ Len(b) \in Nat
    <3>1. Len(b) \in Nat
      BY <1>0, LenProperties
    <3>q. QED BY <2>2, <3>1
  <2>5. b[end] \in Items /\ b[end].k = "answer"
    <3> HIDE DEF b
    <3>q. QED BY <1>0, <2>2, <2>4, ElementOfSeq
  <2>6. b[end].code \in AllCodes /\ (b[end].code \in {"tcp", "udp"} => b[end].to = "SETUP")
    BY <2>5 DEF Items
  <2>7. b[end].code \in {"tcp", "udp"} => x.sess.st = "AWAITING_SETUP"
    <3>1. ASSUME b \in Seq(Others) PROVE b[end].to # "SETUP"
      <4> HIDE DEF b
      <4>1. b[end] \in Others
        BY <2>4, <3>1, ElementOfSeq
      <4>q. QED BY <2>5, <4>1 DEF Others
    <3>q. QED BY <1>0, <2>6, <3>1 DEF SetupRight
  <2> DEFINE code == b[end].code
  <2>8. u \in Understood(y, code, x.sess.kaAwaited)
    OBVIOUS
  <2> HIDE DEF code
  <2>9. code \in AllCodes /\ (code \in {"tcp", "udp"} => x.sess.st = "AWAITING_SETUP")
    BY <2>6, <2>7 DEF code
  <2>10. /\ u \in Calls
         /\ \/ u.ret = "error"
            \/ u.gen > x.gen /\ Outcome(u)
            \/ u.gen = x.gen /\ Mild(x, u)
    BY <1>0, <2>8, <2>9, UnderstoodGives
  <2> HIDE DEF before, after, y
  <2>11. CASE u.ret = "error"
    BY <2>1, <2>10, <2>11 DEF Outcome
  <2>12. CASE u.ret # "error" /\ u.gen > x.gen
    <3>1. x.gen \in Nat
      BY <1>0 DEF Calls
    <3>2. Outcome(u)
      BY <2>10, <2>12, <3>1
    <3>q. QED BY <2>1, <2>12, <3>2
  <2>13. CASE u.ret # "error" /\ ~(u.gen > x.gen)
    <3>1. Mild(x, u)
      BY <2>10, <2>13
    <3>2. z = ResponseTaken(u, x.sess.kaAwaited, before, after)
      BY <2>1, <2>13
    <3>q. QED BY <1>0, <2>3, <2>10, <3>1, <3>2, ResponseTakenGood
  <2>q. QED BY <2>11, <2>12, <2>13
<1>q. QED BY <1>1, <1>2, <1>3

\* An answer is looked for in what has come, and in what can be read.
LEMMA ReceiveGood ==
    ASSUME NEW x, Waits(x), kind \in Kinds, NEW z \in Receive(x)
    PROVE  Outcome(z)
<1> DEFINE r == Recv(x)
           y == [x EXCEPT !.sess.eof = TRUE]
<1>0. x \in Good /\ x \in Calls /\ x \in Along(x) /\ x.link.fin \in {"open", "eof", "reset"}
  BY DEF Waits, Along, SameCourse, Good, Calls, Links
<1>1. Outcome(Returns(x, "error")) /\ Outcome(x)
  BY <1>0, AlongWaits
<1>2. Waits(r)
  <2>1. r \in Along(x) /\ r.ret = x.ret
    BY <1>0, RecvGood
  <2>2. x.ret = "ok"
    BY DEF Waits
  <2> HIDE DEF r
  <2>q. QED BY <2>1, <2>2, AlongWaits
<1>3. Waits(y)
  <2>1. y \in Calls /\ SameCourse(x, y) /\ SameBytes(x, y) /\ y.ret = x.ret
    BY <1>0 DEF Calls, Sessions, SameCourse, SameBytes
  <2> HIDE DEF y
  <2>2. y \in Along(x)
    BY <1>0, <2>1, CourseGood DEF Along
  <2>3. y.ret = "ok"
    BY <2>1 DEF Waits
  <2>q. QED BY <2>2, <2>3, AlongWaits
<1>4. CASE Len(x.sess.buf) = BufferItems
  BY <1>4, ParseGood DEF Receive
<1>5. CASE Len(x.sess.buf) # BufferItems /\ x.link.fin = "reset"
  <2>1. Receive(x) = {Returns(x, "error")}
    BY Zenon, <1>5 DEF Receive
  <2>q. QED BY <1>1, <2>1
<1>6. CASE Len(x.sess.buf) # BufferItems /\ x.link.fin # "reset" /\ x.link.wire # <<>>
  <2>1. Receive(x) = Parse(r)
    BY Zenon, <1>6 DEF Receive
  <2> HIDE DEF r
  <2>q. QED BY <1>2, <2>1, ParseGood
<1>7. CASE Len(x.sess.buf) # BufferItems /\ x.link.fin = "open" /\ x.link.wire = <<>>
  <2>1. Receive(x) = {x}
    BY Zenon, <1>7 DEF Receive
  <2>q. QED BY <1>1, <2>1
<1>8. CASE Len(x.sess.buf) # BufferItems /\ x.link.fin = "eof" /\ x.link.wire = <<>>
  <2>1. Receive(x) = IF x.sess.buf = <<>> THEN {Returns(x, "error")} ELSE Parse(y)
    BY Zenon, <1>8 DEF Receive
  <2> HIDE DEF y
  <2>q. QED BY <1>1, <1>3, <2>1, ParseGood
<1>q. QED BY <1>0, <1>4, <1>5, <1>6, <1>7, <1>8

\* An outcome that still awaits an answer may take it.
LEMMA OutcomeWaits ==
    ASSUME NEW z, Outcome(z), z.ret = "ok", z.sess.awaiting
    PROVE  Waits(z)
<1>1. z \in Good /\ z.sess.st # "RECONNECTING" /\ PendRight(z.sess)
  BY DEF Outcome, Good
<1>q. QED BY <1>1 DEF Waits, PendRight, Moving

\* What a round of receiving may end with.
Rounds == {[now |-> o, grew |-> t] : o \in {c \in Calls : Outcome(c)}, t \in BOOLEAN}

\* A round of receiving.
LEMMA ReceivedGood ==
    ASSUME NEW x, Waits(x), kind \in Kinds
    PROVE  Received(x) \in SUBSET Rounds
<1>1. ASSUME NEW p \in Received(x) PROVE p \in Rounds
  <2>1. PICK z \in Receive(x) : p = [now |-> z, grew |-> Len(z.sess.buf) > Len(x.sess.buf)]
    BY <1>1 DEF Received
  <2>2. (Len(z.sess.buf) > Len(x.sess.buf)) \in BOOLEAN
    <3>1. z \in Calls /\ x \in Calls
      BY ReceiveGood DEF Outcome, Waits, Good
    <3>2. z.sess.buf \in Seq(Items) /\ x.sess.buf \in Seq(Items)
      BY <3>1 DEF Calls, Sessions
    <3>3. PICK m, n \in Nat : m = Len(z.sess.buf) /\ n = Len(x.sess.buf)
      BY <3>2, LenProperties
    <3>4. (m > n) \in BOOLEAN
      BY ONLY <3>3
    <3>q. QED BY <3>3, <3>4, Zenon
  <2>3. PICK t \in BOOLEAN : t = (Len(z.sess.buf) > Len(x.sess.buf))
    BY Zenon, <2>2
  <2>4. p = [now |-> z, grew |-> t]
    BY Zenon, <2>1, <2>3
  <2>5. Outcome(z) /\ z \in Calls
    BY ReceiveGood DEF Outcome
  <2>q. QED BY <2>4, <2>5 DEF Rounds
<1>q. QED BY <1>1

\* The rounds that follow those that have filled the buffer further.
LEMMA ReceivedOnGood ==
    ASSUME NEW S \in SUBSET Rounds, kind \in Kinds, NEW i
    PROVE  ReceivedOn(S, i) \in SUBSET Rounds
<1>1. ASSUME NEW p \in S, NEW q, q \in IF p.now.ret = "ok" /\ p.now.sess.awaiting /\ p.grew THEN Received(p.now) ELSE {p}
      PROVE  q \in Rounds
  <2>1. CASE p.now.ret = "ok" /\ p.now.sess.awaiting /\ p.grew
    <3>1. q \in Received(p.now)
      BY <1>1, <2>1
    <3>2. Outcome(p.now)
      BY DEF Rounds
    <3>3. Waits(p.now)
      BY <2>1, <3>2, OutcomeWaits
    <3>q. QED BY <3>1, <3>3, ReceivedGood
  <2>2. CASE ~(p.now.ret = "ok" /\ p.now.sess.awaiting /\ p.grew)
    BY <1>1, <2>2
  <2>q. QED BY <2>1, <2>2
<1>q. QED BY <1>1 DEF ReceivedOn

\* The rounds of receiving while the socket is closing.
ReceiveRounds(x) == FoldLeft(ReceivedOn, Received(x), [j \in 1..(Len(x.link.wire) + 1) |-> j])

\* What has come is received round by round.
LEMMA ReceiveRoundsGood ==
    ASSUME NEW w, Waits(w), kind \in Kinds
    PROVE  ReceiveRounds(w) \in SUBSET Rounds
<1> DEFINE ps == [j \in 1..(Len(w.link.wire) + 1) |-> j]
           n == Len(ps)
           T == SUBSET Rounds
           base == Received(w)
           step(h, s) == IF s = {} THEN base ELSE ReceivedOn(h[s \ {Max(s)}], ps[Max(s)])
           IsIt(h) == h = [s \in SUBSET DOMAIN ps |-> step(h, s)]
           g == [z \in T \X (1..n) |-> ReceivedOn(z[1], ps[z[2]])]
           iter == CHOOSE h : IsIt(h)
           x == ReceiveRounds(w)
<1>1. n \in Nat /\ DOMAIN ps = 1..n
  <2>1. Len(w.link.wire) \in Nat
    BY LenProperties DEF Waits, Good, Calls, Links
  <2>2. ps \in Seq(Nat)
    BY <2>1
  <2> HIDE DEF ps
  <2>q. QED BY <2>2, LenProperties
<1>2. base \in T
  BY ReceivedGood
<1>3. \A y \in T, k \in 1..n : ReceivedOn(y, ps[k]) \in T
  BY ReceivedOnGood
<1>4. x = iter[DOMAIN ps]
  BY Zenon DEF ReceiveRounds, FoldLeft, MapThenFoldSet
<1> HIDE DEF n, T, base
<1>5. \E h : IsIt(h)
  <2>1. g \in [T \X (1..n) -> T]
    BY <1>3
  <2> HIDE DEF g
  <2>2. PICK h \in [SUBSET (1..n) -> T] : \A s \in SUBSET (1..n) : h[s] = Folded(h, s, base, g)
    <3>1. n \in Nat
      BY <1>1
    <3>2. \E h : Folds(h, n, T, base, g)
      BY <3>1, <1>2, <2>1, FoldExists
    <3>q. QED BY <3>2 DEF Folds
  <2>3. ASSUME NEW s \in SUBSET (1..n) PROVE h[s] = step(h, s)
    <3>1. CASE s = {}
      BY <3>1, <2>2 DEF Folded
    <3>2. CASE s # {}
      <4>1. Max(s) \in 1..n
        BY <1>1, <3>2, MaxIsGreatest
      <4>2. h[s \ {Max(s)}] \in T
        OBVIOUS
      <4>3. h[s] = g[<<h[s \ {Max(s)}], Max(s)>>]
        BY <3>2, <2>2 DEF Folded
      <4>q. QED BY <3>2, <4>1, <4>2, <4>3 DEF g
    <3>q. QED BY <3>1, <3>2
  <2>4. h = [s \in SUBSET (1..n) |-> step(h, s)]
    BY <2>3
  <2>q. QED BY <1>1, <2>4
<1>6. IsIt(iter)
  BY <1>5
<1>7. PICK i : i = iter
  OBVIOUS
<1>8. \A s \in SUBSET (1..n) : i[s] = step(i, s)
  <2>1. i = [s \in SUBSET (1..n) |-> step(i, s)]
    BY <1>1, <1>6, <1>7
  <2>q. QED BY <2>1
<1>9. i[{}] \in T
  BY <1>2, <1>8
<1>10. ASSUME NEW k \in 1..n, i[1..(k - 1)] \in T PROVE i[1..k] \in T
  <2>1. 1..k \in SUBSET (1..n) /\ 1..k # {} /\ Max(1..k) = k /\ (1..k) \ {k} = 1..(k - 1)
    BY <1>1, FirstPlaces
  <2>2. i[1..k] = ReceivedOn(i[1..(k - 1)], ps[k])
    BY <1>8, <2>1
  <2>q. QED BY <2>2, <1>3, <1>10
<1>11. i[1..n] \in T
  BY <1>1, <1>9, <1>10, FoldedStays
<1>12. x \in T
  BY <1>1, <1>4, <1>7, <1>11
<1>q. QED BY <1>12 DEF T

\* However much is received, an answer is taken or waited for.
LEMMA ReceiveAllGood ==
    ASSUME NEW x, Waits(x), kind \in Kinds, NEW hup, NEW z \in ReceiveAll(x, hup)
    PROVE  Outcome(z)
<1>1. ReceiveAll(x, hup) = {p.now : p \in IF hup THEN ReceiveRounds(x) ELSE Received(x)}
  BY DEF ReceiveAll, ReceiveRounds
<1>2. PICK p : p \in (IF hup THEN ReceiveRounds(x) ELSE Received(x)) /\ z = p.now
  BY <1>1
<1>3. p \in Rounds
  BY <1>2, ReceivedGood, ReceiveRoundsGood
<1>q. QED BY <1>2, <1>3 DEF Rounds

-----------------------------------------------------------------------------
(* Events of the control socket. *)

\* What an event may return to the worker.
Ends == {"ok", "close", "duration", "metadata"}

\* An event ends with a session at rest.
Settles(z) == Rests(z) /\ z.ret \in Ends

\* The end of a socket ends the session or its stream.
LEMMA TerminalGood ==
    ASSUME NEW x \in Calls
    PROVE  Settles(Terminal(x))
<1>1. Terminal(x) = Fails(x) \/ Terminal(x) = Drains(x)
  <2>1. CASE x.sess.st \in {"SENDING_TEARDOWN", "AWAITING_TEARDOWN"}
    BY Zenon, <2>1 DEF Terminal, Fails
  <2>2. CASE x.sess.st = "PLAYING"
    BY Zenon, <2>2 DEF Terminal
  <2>3. CASE x.sess.st \notin {"SENDING_TEARDOWN", "AWAITING_TEARDOWN", "PLAYING"}
    BY Zenon, <2>3 DEF Terminal
  <2>q. QED BY <2>1, <2>2, <2>3
<1>q. QED BY <1>1, CleanupGood DEF Settles, Ends

\* The answer that was taken leads to the next request, or to the stream.
LEMMA ActsGood ==
    ASSUME NEW y \in Good, y.sess.st # "RECONNECTING"
    PROVE  Settles(Acts(y))
<1> DEFINE i == IF y.ret = "advance" THEN Interest(y, TRUE) ELSE y
           z == Returns(i, "ok")
           v == Advance(z)
<1>1. i \in Good /\ i.sess.st = y.sess.st
  <2>1. y \in Calls
    BY DEF Good
  <2>2. Interest(y, TRUE) \in Good /\ Interest(y, TRUE).sess.st = y.sess.st
    <3>1. Interest(y, TRUE) \in Calls /\ SameCourse(y, Interest(y, TRUE)) /\ SameBytes(y, Interest(y, TRUE))
      BY <2>1, ReturnsGood DEF Results
    <3>q. QED BY <3>1, CourseGood DEF SameCourse
  <2>q. QED BY <2>2
<1> HIDE DEF i
<1>2. z \in Good /\ z.sess.st = y.sess.st /\ z.ret = "ok"
  <2>1. i \in Calls /\ "ok" \in Results
    BY <1>1 DEF Good, Results
  <2>2. z \in Calls /\ SameCourse(i, z) /\ SameBytes(i, z)
    BY <2>1, ReturnsGood
  <2>3. z.ret = "ok"
    BY <2>1 DEF Returns, Calls
  <2> HIDE DEF z
  <2>q. QED BY <1>1, <2>2, <2>3, CourseGood DEF SameCourse
<1>3. Acts(y) = IF z.sess.awaiting THEN z
                ELSE IF v.ret = "ok" /\ v.sess.st = "PLAYING" THEN PlayOn(v) ELSE v
  BY DEF Acts, With, i
<1> HIDE DEF z
<1>4. CASE z.sess.awaiting
  <2>1. PendRight(z.sess)
    BY <1>2 DEF Good
  <2>2. z.sess.st \in States
    BY <1>4, <2>1 DEF PendRight, States
  <2>q. QED BY <1>2, <1>3, <1>4, <2>2 DEF Settles, Rests, Ends
<1>5. CASE ~z.sess.awaiting
  <2>1. Rests(v) /\ v.ret \in {"close", "ok"}
    BY <1>2, <1>5, AdvanceGood
  <2> HIDE DEF v
  <2>2. Rests(PlayOn(v)) /\ PlayOn(v).ret = "ok"
    BY <2>1, PlayOnGood
  <2>q. QED BY <1>3, <1>5, <2>1, <2>2 DEF Settles, Ends
<1>q. QED BY <1>4, <1>5

\* The answer to a keepalive leaves the stream where it was.
LEMMA KeepaliveDoneGood ==
    ASSUME NEW y, Rests(y)
    PROVE  Settles(KeepaliveDone(y))
<1> DEFINE k == Returns(y, "ok")
           z == ProcessBuffer(k)
<1>1. y \in Good /\ y \in Calls /\ "ok" \in Results
  BY DEF Rests, Good, Results
<1>2. Rests(k) /\ k \in Good /\ k.ret = "ok"
  <2>1. k \in Calls /\ SameCourse(y, k) /\ SameBytes(y, k)
    BY <1>1, ReturnsGood
  <2>2. k.ret = "ok"
    BY <1>1 DEF Returns, Calls
  <2> HIDE DEF k
  <2>q. QED BY <1>1, <2>1, <2>2, CourseGood
<1>3. KeepaliveDone(y) = IF ~y.sess.tcp THEN k ELSE IF z.ret = "end" THEN Fails(z) ELSE z
  BY DEF KeepaliveDone, With
<1> HIDE DEF k
<1>4. Rests(z) /\ z \in Calls /\ z.ret \in {"ok", "end"}
  BY <1>2, ProcessBufferGood DEF Ending, Along, SameCourse, Rests, Good
<1> HIDE DEF z
<1>q. QED BY <1>2, <1>3, <1>4, CleanupGood DEF Settles, Ends

\* Whatever came of an answer, the event ends with a session at rest.
LEMMA AnsweredGood ==
    ASSUME NEW y, Outcome(y), NEW hup
    PROVE  Settles(Answered(y, hup))
<1> DEFINE z == Answered(y, hup)
           closed == y.sess.eof \/ hup
           own == y.gen = 0
<1>0. y \in Calls
  BY DEF Outcome
<1>1. \/ y.ret = "error" /\ z = Fails(y)
      \/ y.ret \in {"duration", "metadata"} /\ z = y
      \/ z = Terminal(y)
      \/ y.ret = "keepalive" /\ z = KeepaliveDone(y)
      \/ y.ret \notin {"error", "duration", "metadata"} /\ z = Acts(y)
  <2> HIDE DEF closed, own
  <2>0. z = CASE y.ret = "error" -> Fails(y)
          [] y.ret \in {"duration", "metadata"} -> y
          [] y.ret \notin {"error", "duration", "metadata"} /\ own /\ closed
             /\ ~InterleavedPlay(y.sess) -> Terminal(y)
          [] y.ret = "keepalive" /\ ~closed -> KeepaliveDone(y)
          [] OTHER -> Acts(y)
    BY Zenon DEF Answered, closed, own
  <2> HIDE DEF z
  <2>1. CASE y.ret = "error"
    BY Zenon, <2>0, <2>1
  <2>2. CASE y.ret \in {"duration", "metadata"}
    <3>1. y.ret # "error"
      BY <2>2
    <3>q. QED BY Zenon, <2>0, <2>2, <3>1
  <2>3. CASE y.ret \notin {"error", "duration", "metadata"} /\ own /\ closed /\ ~InterleavedPlay(y.sess)
    <3>1. ~(y.ret = "error") /\ ~(y.ret \in {"duration", "metadata"}) /\ ~(y.ret = "keepalive" /\ ~closed)
      BY Zenon, <2>3
    <3>q. QED BY Zenon, <2>0, <2>3, <3>1
  <2>4. CASE y.ret = "keepalive" /\ ~closed
    <3>1. ~(y.ret = "error") /\ ~(y.ret \in {"duration", "metadata"})
      BY <2>4
    <3>q. QED BY Zenon, <2>0, <2>4, <3>1
  <2>5. CASE /\ y.ret \notin {"error", "duration", "metadata"} /\ ~(own /\ closed /\ ~InterleavedPlay(y.sess))
             /\ ~(y.ret = "keepalive" /\ ~closed)
    <3>1. ~(y.ret = "error") /\ ~(y.ret \in {"duration", "metadata"})
          /\ ~(y.ret \notin {"error", "duration", "metadata"} /\ own /\ closed /\ ~InterleavedPlay(y.sess))
      BY Zenon, <2>5
    <3>q. QED BY Zenon, <2>0, <2>5, <3>1
  <2>q. QED BY Zenon, <2>1, <2>2, <2>3, <2>4, <2>5
<1> HIDE DEF z
<1>2. CASE y.ret = "error" /\ z = Fails(y)
  BY <1>0, <1>2, CleanupGood DEF Settles, Ends, z
<1>3. CASE y.ret \in {"duration", "metadata"} /\ z = y
  BY <1>3 DEF Outcome, Rests, Settles, Ends, z
<1>4. CASE z = Terminal(y)
  BY <1>0, <1>4, TerminalGood DEF z
<1>5. CASE y.ret = "keepalive" /\ z = KeepaliveDone(y)
  <2>1. Rests(y)
    BY <1>5 DEF Outcome, Rests
  <2>q. QED BY <1>5, <2>1, KeepaliveDoneGood DEF z
<1>6. CASE y.ret \notin {"error", "duration", "metadata"} /\ z = Acts(y)
  <2>1. y \in Good /\ y.sess.st # "RECONNECTING"
    BY <1>6 DEF Outcome
  <2>q. QED BY <1>6, <2>1, ActsGood DEF z
<1>q. QED BY <1>1, <1>2, <1>3, <1>4, <1>5, <1>6

\* What can be read is the answer that is awaited, or media.
LEMMA ReadableGood ==
    ASSUME NEW x, Settles(x), x.ret = "ok", x.sess.st \notin Moving, kind \in Kinds, NEW hup,
           NEW z \in Readable(x, hup)
    PROVE  Settles(z)
<1>1. CASE x.sess.awaiting
  <2>1. Waits(x)
    BY <1>1 DEF Waits, Settles, Rests
  <2>2. PICK y \in ReceiveAll(x, hup) : z = Answered(y, hup)
    BY <1>1 DEF Readable
  <2>3. Outcome(y)
    BY <2>1, ReceiveAllGood
  <2>q. QED BY <2>2, <2>3, AnsweredGood
<1>2. CASE ~x.sess.awaiting /\ x.sess.st = "PLAYING"
  <2>1. z = PlayOn(x)
    BY <1>2 DEF Readable
  <2>2. Rests(x)
    BY DEF Settles
  <2>q. QED BY <2>1, <2>2, PlayOnGood DEF Settles, Ends
<1>3. CASE ~x.sess.awaiting /\ x.sess.st # "PLAYING"
  BY <1>3 DEF Readable
<1>q. QED BY <1>1, <1>2, <1>3

\* An event of a connected socket.
LEMMA HandleEventGood ==
    ASSUME NEW x, Rests(x), x.ret = "ok", x.sess.st \notin Moving, kind \in Kinds,
           NEW sent \in {"all", "part", "fail", "none"}, NEW z \in HandleEvent(x, sent)
    PROVE  Settles(z)
<1> DEFINE y == SendPending(x, sent)
           hup == x.link.fin # "open"
<1>1. z = Terminal(x) \/ z = y \/ (y.ret # "close" /\ z \in Readable(y, hup))
  BY DEF HandleEvent
<1>2. x \in Calls
  BY DEF Rests, Good
<1>3. Settles(y) /\ y.sess.st \notin Moving /\ y.ret \in {"ok", "close"}
  <2>1. Rests(y) /\ y.sess.st \notin Moving /\ y.ret \in {"ok", "close"}
    BY SendPendingGood
  <2>q. QED BY <2>1 DEF Settles, Ends
<1> HIDE DEF y, hup
<1>q. QED BY <1>1, <1>2, <1>3, TerminalGood, ReadableGood

\* The event that finds the connection made.
LEMMA HandleConnectedGood ==
    ASSUME NEW x, Rests(x), x.ret = "ok", x.sess.st \in {"CONNECTING", "RECONNECTING"}, kind \in Kinds,
           NEW sent \in {"all", "part", "fail", "none"}, NEW moved \in BOOLEAN,
           NEW z \in HandleConnected(x, sent, moved)
    PROVE  Settles(z)
<1> DEFINE c == CaptureControlEndpoints(x.sess, moved)
           s == [c EXCEPT !.left = 0, !.st = IF @ = "CONNECTING" THEN "CONNECTED" ELSE @]
           h == [x EXCEPT !.sess = s]
           w == Interest(h, TRUE)
           v == Advance(w)
           y == IF v.ret = "close" THEN v ELSE SendPending(v, sent)
<1>0. x \in Good /\ x \in Calls /\ x.sess \in Sessions /\ PendRight(x.sess) /\ Counts(x) /\ SetupRight(x) /\ Whole(x)
  BY DEF Rests, Good, Calls
<1>1. /\ c \in Sessions
      /\ c.st = x.sess.st /\ (c.awaiting <=> x.sess.awaiting)
      /\ (c.kaAwaited <=> x.sess.kaAwaited) /\ (c.kaQueued <=> x.sess.kaQueued)
      /\ c.parked = x.sess.parked /\ c.tearing = x.sess.tearing /\ c.pend = x.sess.pend
      /\ c.buf = x.sess.buf
  <2>1. CASE moved
    <3>1. c = CloseUdp(x.sess)
      BY <2>1 DEF CaptureControlEndpoints
    <3> HIDE DEF c
    <3>q. QED BY <1>0, <3>1, CloseUdpGives
  <2>2. CASE ~moved
    BY <1>0, <2>2 DEF CaptureControlEndpoints
  <2>q. QED BY <2>1, <2>2
<1>2. z = y \/ (y.ret # "close" /\ z \in Readable(y, FALSE))
  BY DEF HandleConnected, With
<1> HIDE DEF c
<1>3. PICK to : to = IF c.st = "CONNECTING" THEN "CONNECTED" ELSE c.st
  OBVIOUS
<1>4. to \in {"CONNECTED", "RECONNECTING"} /\ (to = "CONNECTED" <=> x.sess.st = "CONNECTING")
      /\ (to = "RECONNECTING" <=> x.sess.st = "RECONNECTING")
  BY <1>1, <1>3
<1>5. s \in Sessions /\ s.st = to /\ (s.awaiting <=> c.awaiting) /\ (s.kaAwaited <=> c.kaAwaited)
      /\ (s.kaQueued <=> c.kaQueued) /\ s.parked = c.parked /\ s.tearing = c.tearing /\ s.pend = c.pend /\ s.buf = c.buf
  <2>1. s = [c EXCEPT !.left = 0, !.st = to]
    BY <1>1, <1>3 DEF Sessions
  <2>2. to \in States \union Passing
    BY <1>4 DEF States, Passing
  <2> HIDE DEF s
  <2>q. QED BY ZenonT(60), <1>1, <2>1, <2>2 DEF Sessions
<1> HIDE DEF s
<1>6. h \in Calls /\ h.sess = s /\ h.link = x.link /\ h.ret = "ok"
  BY <1>0, <1>5 DEF Calls
<1> HIDE DEF h
<1>7. h \in Good
  <2>1. PendRight(h.sess) /\ NamedRight(h.sess)
    BY <1>0, <1>1, <1>4, <1>5, <1>6 DEF PendRight, NamedRight, Sending, RequestOf, Moving, Naming
  <2>2. Counts(h)
    BY <1>0, <1>1, <1>4, <1>5, <1>6 DEF Counts, Outstanding, Tearing
  <2>3. SetupRight(h) /\ Whole(h)
    BY <1>0, <1>1, <1>4, <1>5, <1>6 DEF SetupRight, Whole
  <2>q. QED BY <1>6, <2>1, <2>2, <2>3 DEF Good
<1>8. w \in Good /\ w.ret = "ok" /\ w.sess.st = to /\ w.sess.awaiting = h.sess.awaiting
  <2>1. w \in Calls /\ SameCourse(h, w) /\ SameBytes(h, w)
    BY <1>6, ReturnsGood DEF Results
  <2>2. w.ret = "ok"
    BY <1>6 DEF Interest, Calls
  <2> HIDE DEF w
  <2>q. QED BY <1>5, <1>6, <1>7, <2>1, <2>2, CourseGood DEF SameCourse
<1> HIDE DEF w
<1>9. Rests(v) /\ v.ret \in {"close", "ok"} /\ v.sess.st \notin Moving
  <2>1. ~w.sess.awaiting \/ w.sess.st = "RECONNECTING"
    BY <1>0, <1>1, <1>4, <1>5, <1>6, <1>8 DEF PendRight
  <2>2. w.sess.st # "CONNECTING"
    BY <1>4, <1>8
  <2>q. QED BY <1>8, <2>1, <2>2, AdvanceGood
<1> HIDE DEF v
<1>10. Settles(y) /\ y.sess.st \notin Moving /\ y.ret \in {"ok", "close"}
  <2>1. Rests(SendPending(v, sent)) /\ SendPending(v, sent).sess.st \notin Moving
        /\ SendPending(v, sent).ret \in {v.ret, "close"}
    BY <1>9, SendPendingGood
  <2>q. QED BY <1>9, <2>1 DEF Settles, Ends
<1> HIDE DEF y
<1>q. QED BY <1>2, <1>10, ReadableGood

-----------------------------------------------------------------------------
(* The client's connection. *)

\* What happens to the client, to the interest and to the events not yet
\* reported does not change the course.
LEMMA ClientGood ==
    ASSUME NEW x, Rests(x), NEW conn \in {"streaming", "closing", "deferred", "freed"}, NEW headers \in BOOLEAN,
           NEW edge \in BOOLEAN
    PROVE  Rests([x EXCEPT !.viewer.headers = headers, !.viewer.conn = conn])
           /\ Rests([x EXCEPT !.link.edge = edge])
<1> DEFINE y == [x EXCEPT !.viewer.headers = headers, !.viewer.conn = conn]
           z == [x EXCEPT !.link.edge = edge]
<1>1. x \in Good /\ x \in Calls
  BY DEF Rests, Good
<1>2. y \in Calls /\ SameCourse(x, y) /\ SameBytes(x, y)
  BY <1>1 DEF Calls, Viewers, SameCourse, SameBytes
<1>3. z \in Calls /\ SameCourse(x, z) /\ SameBytes(x, z)
  BY <1>1 DEF Calls, Links, SameCourse, SameBytes
<1> HIDE DEF y, z
<1>4. Rests(y) /\ Rests(z)
  BY <1>1, <1>2, <1>3, CourseGood
<1>q. QED BY <1>4 DEF y, z

\* A client that is told that there is no stream.
LEMMA UnavailableGood ==
    ASSUME NEW x, Rests(x)
    PROVE  Rests(Unavailable(x))
<1>1. TRUE \in BOOLEAN /\ "closing" \in {"streaming", "closing", "deferred", "freed"} /\ FALSE \in BOOLEAN
  OBVIOUS
<1>2. Rests([x EXCEPT !.viewer.headers = TRUE, !.viewer.conn = "closing"])
  BY <1>1, ClientGood
<1>q. QED BY <1>2 DEF Unavailable

\* A change of the interest that reports what is ready.
LEMMA RearmedGood ==
    ASSUME NEW x, Rests(x)
    PROVE  Rests(Rearmed(x)) /\ Rearmed(x).ret = x.ret
<1>1. (x.link.edge \/ (x.mod /\ Ready(x))) \in BOOLEAN
  BY Zenon
<1>2. PICK t \in BOOLEAN : t = (x.link.edge \/ (x.mod /\ Ready(x)))
  BY Zenon, <1>1
<1>3. Rearmed(x) = [x EXCEPT !.link.edge = t]
  BY Zenon, <1>2 DEF Rearmed
<1>4. Rests([x EXCEPT !.link.edge = t])
  BY ClientGood
<1>5. x \in Calls
  BY DEF Rests, Good
<1>q. QED BY <1>3, <1>4, <1>5 DEF Calls

\* A connection that is freed leaves no session.
LEMMA FreedGood ==
    ASSUME NEW x \in Calls
    PROVE  Rests(Freed(x))
<1> DEFINE c == ForceCleanup(x)
<1>1. Rests(c)
  BY CleanupGood
<1>2. c \in Calls
  BY <1>1 DEF Rests, Good
<1>3. Freed(x) = [c EXCEPT !.viewer.conn = "freed"]
  BY DEF Freed
<1> HIDE DEF c
<1> DEFINE y == [c EXCEPT !.viewer.conn = "freed"]
<1>4. y \in Calls /\ SameCourse(c, y) /\ SameBytes(c, y)
  BY <1>2 DEF Calls, Viewers, SameCourse, SameBytes
<1> HIDE DEF y
<1>5. Rests(y)
  BY <1>1, <1>4, CourseGood DEF Rests
<1>q. QED BY <1>3, <1>5 DEF y

\* The TEARDOWN of a session that plays goes over its connection.
LEMMA TeardownHereGood ==
    ASSUME NEW x, Rests(x), x.sess.st = "PLAYING",
           NEW z \in Calls, z.sess.st = "SENDING_TEARDOWN", z.sess.pend = "TEARDOWN", ~z.sess.awaiting,
           ~z.sess.kaQueued, ~z.sess.kaAwaited, z.sess.buf = <<>>, z.sess.tearing, z.sess.parked = x.sess.parked,
           z.link.todo = x.link.todo, z.link.wire = x.link.wire
    PROVE  Rests(z)
<1>1. x \in Calls /\ PendRight(x.sess) /\ Counts(x) /\ SetupRight(x) /\ Whole(x)
  BY DEF Rests, Good
<1>2. x.sess.buf \in Seq(Items) /\ x.link.wire \in Seq(Items) /\ x.link.todo \in Seq(Todo)
  BY <1>1 DEF Calls, Sessions, Links
<1>3. PendRight(z.sess)
  <2>1. RequestOf["SENDING_TEARDOWN"] = "TEARDOWN" /\ "SENDING_TEARDOWN" \in Sending
    BY DEF RequestOf, Sending
  <2>q. QED BY <1>1, <2>1 DEF PendRight
<1>4. NamedRight(z.sess)
  BY DEF NamedRight, Naming
<1>5. Counts(z)
  <2>1. PICK i, j, k \in Nat : i = Len(x.link.todo) /\ j = Answers(x.sess.buf) /\ k = Answers(x.link.wire)
    BY <1>2, AnswersType, LenProperties
  <2>2. i + j + k <= 1
    BY <1>1, <2>1 DEF Counts, Outstanding, Tearing
  <2>3. Outstanding(z) = i + 0 + k
    BY <2>1, AnswersOfOne DEF Outstanding
  <2>q. QED BY <2>1, <2>2, <2>3 DEF Counts, Tearing
<1>6. SetupRight(z)
  BY <1>1, NewLinkIsOne DEF SetupRight
<1>7. Whole(z)
  <2>1. Follows(x.link.wire)
    BY <1>1, <1>2, FollowsParts DEF Whole
  <2>2. <<>> \o x.link.wire = x.link.wire
    BY <1>2, ConcatEmptySeq
  <2>q. QED BY <2>1, <2>2, NewLinkIsOne, RtspAssumption DEF Whole
<1>q. QED BY <1>3, <1>4, <1>5, <1>6, <1>7 DEF Good, Rests, States

\* A session that is taken down is at rest, over whichever connection it goes.
LEMMA TeardownGood ==
    ASSUME NEW x, Rests(x), x.sess.st = "PLAYING", NEW z \in Teardown(x)
    PROVE  Rests(z)
<1> DEFINE c == CloseUdp(x.sess)
           s == [c EXCEPT !.tearing = TRUE]
           u == [x EXCEPT !.sess = s]
           p == Prepare(u, "TEARDOWN")
           g == Goes(p, "SENDING_TEARDOWN")
           f == [g.sess EXCEPT !.kaQueued = FALSE, !.kaAwaited = FALSE, !.awaiting = FALSE, !.buf = <<>>]
           h == [g EXCEPT !.sess = f, !.viewer.conn = "deferred"]
           a == [s EXCEPT !.reconnected = TRUE, !.open = FALSE]
           again == [x EXCEPT !.sess = a, !.viewer.conn = "deferred"]
<1>0. x \in Calls /\ x.sess \in Sessions /\ PendRight(x.sess) /\ Counts(x) /\ SetupRight(x) /\ Whole(x)
  BY DEF Rests, Good, Calls
<1>1. c \in Sessions /\ c.st = x.sess.st /\ (c.awaiting <=> x.sess.awaiting)
      /\ (c.kaAwaited <=> x.sess.kaAwaited) /\ (c.kaQueued <=> x.sess.kaQueued)
      /\ c.parked = x.sess.parked /\ c.tearing = x.sess.tearing /\ c.pend = x.sess.pend
      /\ c.buf = x.sess.buf /\ c.tcp = x.sess.tcp
  BY <1>0, CloseUdpGives
<1>2. Teardown(x) = IF x.link.fin # "reset" THEN {Interest(h, TRUE)}
                    ELSE {IF y.ret = "failed" THEN Freed(y) ELSE Goes(y, "RECONNECTING") : y \in RtspConnect(again)}
  BY DEF Teardown
<1> HIDE DEF c
<1>3. s \in Sessions /\ s.st = c.st /\ s.tearing /\ (s.awaiting <=> c.awaiting) /\ (s.kaAwaited <=> c.kaAwaited)
      /\ (s.kaQueued <=> c.kaQueued) /\ s.parked = c.parked /\ s.buf = c.buf /\ s.pend = c.pend
  BY ZenonT(60), <1>1 DEF Sessions
<1> HIDE DEF s
<1>4. CASE x.link.fin # "reset"
  <2>1. u \in Calls /\ u.sess = s /\ u.link = x.link
    BY <1>0, <1>3 DEF Calls
  <2> HIDE DEF u
  <2>2. p \in Calls /\ p.sess = [u.sess EXCEPT !.pend = "TEARDOWN", !.part = FALSE] /\ SameLoad(u, p)
    BY <2>1, PrepareGives DEF Requests
  <2> HIDE DEF p
  <2>3. g \in Calls /\ g.sess = [p.sess EXCEPT !.st = "SENDING_TEARDOWN"] /\ SameLoad(p, g)
    BY <2>2 DEF Goes, Calls, Sessions, States, SameLoad, SameBytes
  <2>4. g.sess.st = "SENDING_TEARDOWN" /\ g.sess.pend = "TEARDOWN" /\ g.sess.tearing /\ g.sess.parked = s.parked
    <3>1. p.sess.pend = "TEARDOWN" /\ p.sess.tearing = s.tearing /\ p.sess.parked = s.parked /\ p.sess \in Sessions
      BY ZenonT(60), <1>3, <2>1, <2>2 DEF Sessions, Calls
    <3>2. g.sess.st = "SENDING_TEARDOWN" /\ g.sess.pend = p.sess.pend /\ g.sess.tearing = p.sess.tearing
          /\ g.sess.parked = p.sess.parked
      BY <2>3, <3>1 DEF Sessions
    <3>q. QED BY <1>3, <3>1, <3>2
  <2>5. g.link.todo = x.link.todo /\ g.link.wire = x.link.wire
    BY <2>1, <2>2, <2>3 DEF SameLoad, SameBytes
  <2> HIDE DEF g
  <2>6. f \in Sessions /\ f.st = g.sess.st /\ f.pend = g.sess.pend /\ (f.tearing <=> g.sess.tearing) /\ f.parked = g.sess.parked
        /\ ~f.kaQueued /\ ~f.kaAwaited /\ ~f.awaiting /\ f.buf = <<>>
    <3>1. g.sess \in Sessions
      BY <2>3 DEF Calls
    <3>q. QED BY ZenonT(60), <3>1, NewLinkIsOne DEF Sessions
  <2> HIDE DEF f
  <2>7. h \in Calls /\ h.sess = f /\ h.link = g.link
    BY <2>3, <2>6 DEF Calls, Viewers
  <2> HIDE DEF h
  <2>8. Interest(h, TRUE) \in Calls /\ SameCourse(h, Interest(h, TRUE)) /\ SameBytes(h, Interest(h, TRUE))
    BY <2>7, ReturnsGood DEF Results
  <2>9. Rests(h)
    BY <1>1, <1>3, <2>4, <2>5, <2>6, <2>7, TeardownHereGood
  <2>10. Rests(Interest(h, TRUE))
    BY <2>8, <2>9, CourseGood DEF Rests
  <2>q. QED BY <1>2, <1>4, <2>10
<1>5. CASE x.link.fin = "reset"
  <2>1. PICK y \in RtspConnect(again) : z = IF y.ret = "failed" THEN Freed(y) ELSE Goes(y, "RECONNECTING")
    BY <1>2, <1>5
  <2>2. a \in Sessions /\ a.st = s.st /\ (a.tearing <=> s.tearing) /\ (a.awaiting <=> s.awaiting)
        /\ (a.kaAwaited <=> s.kaAwaited) /\ (a.kaQueued <=> s.kaQueued) /\ a.parked = s.parked /\ a.buf = s.buf
        /\ a.pend = s.pend
    BY ZenonT(60), <1>3 DEF Sessions
  <2> HIDE DEF a
  <2>3. again \in Calls /\ again.sess = a
    BY <1>0, <2>2 DEF Calls, Viewers
  <2> HIDE DEF again
  <2>4. y \in Calls /\ (y.ret = "failed" \/ Reaches(again, y))
    BY <2>1, <2>3, ConnectGives
  <2>5. CASE y.ret = "failed"
    BY <2>1, <2>4, <2>5, FreedGood
  <2>6. CASE y.ret # "failed"
    <3>0. Reaches(again, y) /\ z = Goes(y, "RECONNECTING")
      BY <2>1, <2>4, <2>6
    <3>1. y.sess \in Sessions /\ y.link = NewLink /\ (y.sess.awaiting <=> x.sess.awaiting)
          /\ (y.sess.kaQueued <=> x.sess.kaQueued) /\ (y.sess.kaAwaited <=> x.sess.kaAwaited)
          /\ y.sess.parked = x.sess.parked /\ y.sess.tearing /\ y.sess.buf = x.sess.buf
          /\ y.sess.pend = x.sess.pend
      BY <1>1, <1>3, <2>2, <2>3, <2>4, <3>0 DEF Reaches, Calls
    <3>2. z \in Calls /\ z.sess = [y.sess EXCEPT !.st = "RECONNECTING"] /\ z.link = y.link
      BY SMTT(30), <2>4, <3>0 DEF Goes, Calls, Sessions, States
    <3>3. z.sess.st = "RECONNECTING" /\ (z.sess.awaiting <=> x.sess.awaiting)
          /\ (z.sess.kaQueued <=> x.sess.kaQueued) /\ (z.sess.kaAwaited <=> x.sess.kaAwaited)
          /\ z.sess.parked = x.sess.parked /\ z.sess.tearing /\ z.sess.buf = x.sess.buf /\ z.link = NewLink
          /\ z.sess.pend = x.sess.pend
      BY <3>1, <3>2 DEF Sessions
    <3>4. x.sess.buf \in Seq(Items) /\ x.link.wire \in Seq(Items) /\ x.link.todo \in Seq(Todo)
      BY <1>0 DEF Calls, Sessions, Links
    <3>5. Follows(x.sess.buf) /\ Len(x.sess.buf) <= BufferItems /\ x.sess.buf \in Seq(Others)
      BY <1>0, <3>4, FollowsParts DEF Whole, SetupRight
    <3>6. Answers(x.sess.buf) <= IF x.sess.awaiting THEN 1 ELSE 0
      <4>1. PICK i, j, k \in Nat : i = Len(x.link.todo) /\ j = Answers(x.sess.buf) /\ k = Answers(x.link.wire)
        BY <3>4, AnswersType, LenProperties
      <4>2. i + j + k <= IF x.sess.awaiting THEN 1 ELSE 0
        BY <1>0, <4>1 DEF Counts, Outstanding, Tearing
      <4>q. QED BY <4>1, <4>2
    <3>7. ~z.sess.parked /\ (z.sess.kaQueued => ~z.sess.awaiting) /\ z.sess.pend # "SETUP"
      BY <1>0, <3>3 DEF PendRight, Moving, Sending, RequestOf
    <3>8. Answers(z.sess.buf) <= IF z.sess.awaiting THEN 1 ELSE 0
      BY <3>3, <3>6
    <3>q. QED BY <3>2, <3>3, <3>5, <3>7, <3>8, ReachedGood
  <2>q. QED BY <2>5, <2>6
<1>q. QED BY <1>4, <1>5

\* A connection that is closed leaves a session at rest, or its TEARDOWN.
LEMMA CloseConnectionGood ==
    ASSUME NEW x, Rests(x), NEW z \in CloseConnection(x)
    PROVE  Rests(z)
<1>1. x \in Calls /\ x.sess.st \in States
  BY DEF Rests, Good
<1>2. z = Freed(x) \/ (x.sess.st = "PLAYING" /\ z \in Teardown(x))
  BY <1>1 DEF CloseConnection, States
<1>q. QED BY <1>1, <1>2, FreedGood, TeardownGood

\* What the worker does with the end of an event.
LEMMA ServedGood ==
    ASSUME NEW x, Settles(x), NEW z \in Served(x)
    PROVE  Rests(z)
<1>0. Rests(x) /\ x \in Calls
  BY DEF Settles, Rests, Good
<1>1. CASE x.ret = "ok"
  <2>1. Served(x) = {x}
    BY Zenon, <1>1 DEF Served
  <2>q. QED BY <1>0, <2>1
<1>2. CASE x.ret = "duration"
  <2>1. Served(x) = {Unavailable(x)}
    BY Zenon, <1>2 DEF Served
  <2>q. QED BY <1>0, <2>1, UnavailableGood
<1>3. CASE x.ret = "metadata"
  <2>1. Served(x) = {Unavailable(ForceCleanup(x))}
    BY Zenon, <1>3 DEF Served
  <2>2. Rests(ForceCleanup(x))
    BY <1>0, CleanupGood
  <2>q. QED BY <2>1, <2>2, UnavailableGood
<1>4. CASE x.ret = "close"
  <2>1. Served(x) = IF ~x.viewer.headers /\ x.viewer.conn = "streaming" THEN {Unavailable(x)}
                    ELSE CloseConnection(x)
    BY Zenon, <1>4 DEF Served
  <2>q. QED BY <1>0, <2>1, UnavailableGood, CloseConnectionGood
<1>q. QED BY <1>1, <1>2, <1>3, <1>4 DEF Settles, Ends

\* What a tick does with a session that has failed.
LEMMA TickFailedGood ==
    ASSUME NEW x, Rests(x), NEW z \in TickFailed(x)
    PROVE  Rests(z)
<1>1. z = Unavailable(x) \/ z \in CloseConnection(x)
  BY DEF TickFailed
<1>q. QED BY <1>1, UnavailableGood, CloseConnectionGood

-----------------------------------------------------------------------------
(* The steps of the worker. *)

\* Between the steps the session rests.
IInv == Rests(Now) /\ kind \in Kinds

\* What a step leaves of the call it made.
Then(x) == [sess |-> x.sess, link |-> x.link, viewer |-> x.viewer, gen |-> 0, mod |-> FALSE, ret |-> "ok"]

\* A step that becomes what its call has left keeps the session at rest.
LEMMA BecomesGood ==
    ASSUME IInv, NEW x, Rests(x), Becomes(x)
    PROVE  IInv'
<1>1. x \in Calls /\ PendRight(x.sess) /\ NamedRight(x.sess) /\ Counts(x) /\ SetupRight(x) /\ Whole(x)
      /\ x.sess.st \in States
  BY DEF Rests, Good
<1> DEFINE t == Then(x)
<1>2. t \in Calls /\ t.sess = x.sess /\ t.link = x.link
  BY <1>1 DEF Then, Calls, Results
<1>3. Now' = t
  BY DEF Becomes, Now, Then
<1> HIDE DEF t
<1>4. PendRight(t.sess) /\ NamedRight(t.sess)
  BY <1>1, <1>2
<1>5. Counts(t) /\ SetupRight(t) /\ Whole(t)
  BY <1>1, <1>2 DEF Counts, Outstanding, SetupRight, Whole
<1>6. Rests(t)
  BY <1>1, <1>2, <1>4, <1>5 DEF Rests, Good
<1>7. Rests(Now)'
  BY <1>3, <1>6
<1>8. kind' \in Kinds
  BY DEF Becomes, IInv
<1>q. QED BY <1>7, <1>8 DEF IInv

\* The call a step starts from.
LEMMA NowGood ==
    ASSUME IInv
    PROVE  /\ Rests(Now) /\ Now \in Good /\ Now \in Calls /\ kind \in Kinds
           /\ sess \in Sessions /\ link \in Links /\ viewer \in Viewers
           /\ Now.sess = sess /\ Now.link = link /\ Now.viewer = viewer /\ Now.ret = "ok"
           /\ sess.st \in States /\ PendRight(sess) /\ NamedRight(sess)
<1>1. Rests(Now) /\ Now \in Good /\ Now \in Calls /\ kind \in Kinds
  BY DEF IInv, Rests, Good
<1>2. Now.sess = sess /\ Now.link = link /\ Now.viewer = viewer /\ Now.ret = "ok"
  BY DEF Now
<1>3. sess \in Sessions /\ link \in Links /\ viewer \in Viewers
  BY <1>1, <1>2 DEF Calls
<1>4. sess.st \in States /\ PendRight(sess) /\ NamedRight(sess)
  BY <1>1, <1>2 DEF Rests, Good
<1>q. QED BY <1>1, <1>2, <1>3, <1>4

\* An event that the worker serves.
LEMMA ServeGood ==
    ASSUME IInv, NEW outcomes, Serve(outcomes), \A x \in outcomes : Settles(x)
    PROVE  IInv'
<1>0. PICK x \in outcomes : \E y \in Served(Rearmed(x)) : Becomes(y)
  BY DEF Serve
<1>1. PICK y \in Served(Rearmed(x)) : Becomes(y)
  BY <1>0
<1>2. Rests(x) /\ Settles(x)
  BY DEF Settles
<1>3. Settles(Rearmed(x))
  BY <1>2, RearmedGood DEF Settles
<1>4. Rests(y)
  BY <1>3, ServedGood
<1>q. QED BY <1>1, <1>4, BecomesGood

\* A stream starts by connecting, or not at all.
LEMMA StartGood ==
    ASSUME IInv, Start
    PROVE  IInv'
<1>1. PICK x \in RtspConnect(Now) : Becomes(IF x.ret = "failed" THEN Unavailable(ForceCleanup(x)) ELSE x)
  BY DEF Start
<1>2. x \in Calls /\ (x.ret = "failed" \/ Reaches(Now, x))
  BY NowGood, ConnectGives
<1>3. CASE x.ret = "failed"
  <2>1. Rests(Unavailable(ForceCleanup(x)))
    BY <1>2, CleanupGood, UnavailableGood
  <2>q. QED BY <1>1, <1>3, <2>1, BecomesGood
<1>4. CASE x.ret # "failed"
  <2>1. Now \in Calls /\ PendRight(sess) /\ Counts(Now) /\ SetupRight(Now) /\ Whole(Now) /\ Now.sess = sess
        /\ Now.link = link /\ sess.st = "INIT"
    BY NowGood DEF Good, Start
  <2>2. sess.buf \in Seq(Items) /\ link.wire \in Seq(Items) /\ link.todo \in Seq(Todo)
    BY NowGood DEF Sessions, Links
  <2>3. Follows(sess.buf) /\ Len(sess.buf) <= BufferItems /\ sess.buf \in Seq(Others)
    BY <2>1, <2>2, FollowsParts DEF Whole, SetupRight
  <2>4. ~sess.awaiting /\ ~sess.kaQueued /\ ~sess.kaAwaited /\ ~sess.parked /\ sess.pend # "SETUP"
    BY <2>1 DEF PendRight, Moving, Sending, RequestOf
  <2>5. Answers(sess.buf) <= 0
    <3>1. PICK i, j, k \in Nat : i = Len(link.todo) /\ j = Answers(sess.buf) /\ k = Answers(link.wire)
      BY <2>2, AnswersType, LenProperties
    <3>2. i + j + k <= 0
      BY <2>1, <2>4, <3>1 DEF Counts, Outstanding, Tearing
    <3>q. QED BY <3>1, <3>2
  <2>6. x.link = NewLink /\ x.sess.st = "CONNECTING" /\ x.sess.awaiting = sess.awaiting
        /\ x.sess.kaQueued = sess.kaQueued /\ x.sess.kaAwaited = sess.kaAwaited /\ x.sess.parked = sess.parked
        /\ x.sess.buf = sess.buf /\ x.sess.pend = sess.pend
    BY <1>2, <1>4, <2>1 DEF Reaches
  <2>7. Rests(x)
    BY <1>2, <2>3, <2>4, <2>5, <2>6, ReachedGood
  <2>q. QED BY <1>1, <1>4, <2>7, BecomesGood
<1>q. QED BY <1>3, <1>4

\* A connection is made.
LEMMA ConnectedGood ==
    ASSUME IInv, Connected
    PROVE  IInv'
<1>1. PICK sent \in {"all", "part", "fail"}, moved \in {FALSE, sess.udp} : Serve(HandleConnected(Now, sent, moved))
  BY DEF Connected
<1>2. moved \in BOOLEAN
  BY NowGood DEF Sessions
<1>3. Now.sess.st \in {"CONNECTING", "RECONNECTING"}
  BY NowGood DEF Connected, Connecting
<1>4. \A z \in HandleConnected(Now, sent, moved) : Settles(z)
  BY <1>2, <1>3, NowGood, HandleConnectedGood
<1>q. QED BY <1>1, <1>4, ServeGood

\* A connection fails.
LEMMA ConnectFailsGood ==
    ASSUME IInv, ConnectFails
    PROVE  IInv'
<1> DEFINE outcomes == {IF x.ret = "failed" THEN Fails(x) ELSE x :
                        x \in TryNextCandidate([Now EXCEPT !.sess.open = FALSE])}
<1>1. Serve(outcomes)
  BY DEF ConnectFails
<1>2. Now.sess.st \in {"CONNECTING", "RECONNECTING"}
  BY NowGood DEF ConnectFails, Connecting
<1>3. ASSUME NEW x \in TryNextCandidate([Now EXCEPT !.sess.open = FALSE])
      PROVE  Settles(IF x.ret = "failed" THEN Fails(x) ELSE x)
  <2>1. x \in Calls /\ (x.ret = "failed" \/ (Rests(x) /\ x.ret = Now.ret))
    BY <1>2, NowGood, RetryGood
  <2>q. QED BY <2>1, NowGood, CleanupGood DEF Settles, Ends
<1>4. \A z \in outcomes : Settles(z)
  BY <1>3
<1> HIDE DEF outcomes
<1>q. QED BY <1>1, <1>4, ServeGood

\* An event of the socket.
LEMMA SocketEventGood ==
    ASSUME IInv, SocketEvent
    PROVE  IInv'
<1> DEFINE x == [Now EXCEPT !.link.edge = FALSE]
<1>1. PICK sent \in {"all", "part", "fail", "none"} : Serve(HandleEvent(x, sent))
  BY DEF SocketEvent
<1>2. Rests(x)
  BY NowGood, ClientGood
<1>3. x.sess.st = sess.st /\ x.ret = "ok"
  BY DEF Now
<1>4. sess.st \notin Moving
  BY NowGood DEF SocketEvent, SocketReady, Connecting, Moving, States
<1> HIDE DEF x
<1>5. \A z \in HandleEvent(x, sent) : Settles(z)
  BY <1>2, <1>3, <1>4, NowGood, HandleEventGood
<1>q. QED BY <1>1, <1>5, ServeGood

\* A deadline has passed.
LEMMA TimeoutGood ==
    ASSUME IInv, Timeout
    PROVE  IInv'
<1> DEFINE f == Returns(Now, "failed")
           tries == TryNextCandidate([Now EXCEPT !.sess.open = FALSE])
<1>1. PICK x \in IF Connecting /\ sess.left > 0 THEN tries ELSE {f} :
         IF x.ret = "failed" THEN \E y \in TickFailed(ForceCleanup(x)) : Becomes(y) ELSE Becomes(x)
  BY DEF Timeout
<1>2. f \in Calls /\ f.ret = "failed"
  BY NowGood DEF Returns, Calls, Results
<1>3. x \in Calls /\ (x.ret = "failed" \/ Rests(x))
  <2>1. CASE Connecting /\ sess.left > 0
    <3>1. x \in tries
      BY <1>1, <2>1
    <3>2. Now.sess.st \in {"CONNECTING", "RECONNECTING"}
      BY <2>1, NowGood DEF Connecting
    <3>q. QED BY <3>1, <3>2, NowGood, RetryGood
  <2>2. CASE ~(Connecting /\ sess.left > 0)
    BY <1>1, <1>2, <2>2
  <2>q. QED BY <2>1, <2>2
<1> HIDE DEF f, tries
<1>4. CASE x.ret = "failed"
  <2>1. PICK y \in TickFailed(ForceCleanup(x)) : Becomes(y)
    BY <1>1, <1>4
  <2>2. Rests(ForceCleanup(x))
    BY <1>3, CleanupGood
  <2>3. Rests(y)
    BY <2>2, TickFailedGood
  <2>q. QED BY <2>1, <2>3, BecomesGood
<1>5. CASE x.ret # "failed"
  BY <1>1, <1>3, <1>5, BecomesGood
<1>q. QED BY <1>4, <1>5

\* The STUN exchange has come to its end.
LEMMA UnparkGood ==
    ASSUME NEW x, Rests(x), x.sess.stun # "asking"
    PROVE  Rests(Unpark(x))
<1>1. x \in Good /\ PendRight(x.sess)
  BY DEF Rests, Good
<1>2. CASE x.sess.parked
  <2>1. x.sess.st = "AWAITING_OPTIONS" /\ ~x.sess.awaiting
    BY <1>1, <1>2 DEF PendRight
  <2> DEFINE d == DescribeAtOnce(x)
  <2>2. Rests(d)
    BY <1>1, <2>1, DescribeAtOnceGood
  <2>3. Unpark(x) = Interest(d, TRUE)
    BY <1>2 DEF Unpark
  <2> HIDE DEF d
  <2>4. d \in Good /\ d \in Calls
    BY <2>2 DEF Rests, Good
  <2>5. Interest(d, TRUE) \in Calls /\ SameCourse(d, Interest(d, TRUE)) /\ SameBytes(d, Interest(d, TRUE))
    BY <2>4, ReturnsGood DEF Results
  <2>q. QED BY <2>2, <2>3, <2>4, <2>5, CourseGood
<1>3. CASE ~x.sess.parked
  BY <1>3 DEF Unpark
<1>q. QED BY <1>2, <1>3

\* While the exchange goes on no endpoint has been named, so that its end may
\* change what is known of it.
LEMMA StunEndsGood ==
    ASSUME NEW x \in Good, Rests(x), x.sess.stun = "asking", NEW m \in Mappings,
           NEW y, y = [x EXCEPT !.sess.stun = "done", !.sess.map = m]
    PROVE  Rests(y) /\ y.sess.stun = "done"
<1>1. x \in Calls /\ PendRight(x.sess) /\ NamedRight(x.sess) /\ Counts(x) /\ SetupRight(x) /\ Whole(x)
  BY DEF Good
<1>2. y \in Calls /\ y.sess = [x.sess EXCEPT !.stun = "done", !.map = m] /\ y.link = x.link
  BY <1>1 DEF Calls, Sessions
<1>3. x.sess \in Sessions
  BY <1>1 DEF Calls
<1>4. /\ y.sess.st = x.sess.st /\ y.sess.pend = x.sess.pend /\ (y.sess.awaiting <=> x.sess.awaiting)
      /\ (y.sess.kaQueued <=> x.sess.kaQueued) /\ (y.sess.kaAwaited <=> x.sess.kaAwaited)
      /\ (y.sess.parked <=> x.sess.parked) /\ (y.sess.tearing <=> x.sess.tearing)
      /\ y.sess.buf = x.sess.buf /\ y.sess.stun = "done"
  <2>1. PICK s, v : s = x.sess /\ v = y.sess
    OBVIOUS
  <2>2. s \in Sessions /\ v = [s EXCEPT !.stun = "done", !.map = m]
    BY <1>2, <1>3, <2>1
  <2>3. /\ v.st = s.st /\ v.pend = s.pend /\ (v.awaiting <=> s.awaiting)
        /\ (v.kaQueued <=> s.kaQueued) /\ (v.kaAwaited <=> s.kaAwaited)
        /\ (v.parked <=> s.parked) /\ (v.tearing <=> s.tearing)
        /\ v.buf = s.buf /\ v.stun = "done"
    BY ONLY <2>2 DEF Sessions
  <2>q. QED BY <2>1, <2>3
<1>5. PendRight(y.sess)
  BY <1>1, <1>4 DEF PendRight
<1>6. NamedRight(y.sess)
  BY <1>1, <1>4 DEF NamedRight
<1>7. Counts(y) /\ SetupRight(y) /\ Whole(y)
  BY <1>1, <1>2, <1>4 DEF Counts, Outstanding, SetupRight, Whole
<1>q. QED BY <1>2, <1>4, <1>5, <1>6, <1>7 DEF Good, Rests

\* The STUN server answers.
LEMMA StunAnsweredGood ==
    ASSUME IInv, StunAnswered
    PROVE  IInv'
<1>1. PICK y : y = [Now EXCEPT !.sess.stun = "done", !.sess.map = "own"]
  OBVIOUS
<1>2. Rests(y) /\ y.sess.stun = "done"
  <2>1. Now.sess.stun = "asking" /\ "own" \in Mappings
    BY NowGood DEF StunAnswered, Mappings
  <2>q. QED BY <1>1, <2>1, NowGood, StunEndsGood
<1>3. Rests(Rearmed(Unpark(y)))
  BY <1>2, UnparkGood, RearmedGood
<1>4. Becomes(Rearmed(Unpark(y)))
  BY <1>1 DEF StunAnswered
<1>q. QED BY <1>3, <1>4, BecomesGood

\* It has not answered in time.
LEMMA StunGivesUpGood ==
    ASSUME IInv, StunGivesUp
    PROVE  IInv'
<1>1. PICK y : y = [Now EXCEPT !.sess.stun = "done"]
  OBVIOUS
<1>2. Rests(y) /\ y.sess.stun = "done"
  <2>1. Now.sess.stun = "asking" /\ sess.map \in Mappings /\ Now.sess.map = sess.map
    BY NowGood DEF StunGivesUp, Sessions
  <2>2. y = [Now EXCEPT !.sess.stun = "done", !.sess.map = sess.map]
    BY <1>1, <2>1, NowGood DEF Calls, Sessions
  <2>q. QED BY <2>1, <2>2, NowGood, StunEndsGood
<1>3. Rests(Rearmed(Unpark(y)))
  BY <1>2, UnparkGood, RearmedGood
<1>4. Becomes(Rearmed(Unpark(y)))
  BY <1>1 DEF StunGivesUp
<1>q. QED BY <1>3, <1>4, BecomesGood

\* A datagram brings media.
LEMMA DatagramGood ==
    ASSUME IInv, Datagram
    PROVE  IInv'
<1> DEFINE y == [Now EXCEPT !.sess.media = TRUE, !.viewer.headers = TRUE]
<1>1. y \in Calls /\ SameCourse(Now, y) /\ SameBytes(Now, y)
  BY ZenonT(60), NowGood DEF Calls, Sessions, Viewers, SameCourse, SameBytes
<1>2. Becomes(y)
  BY DEF Datagram
<1> HIDE DEF y
<1>3. Rests(y)
  BY <1>1, NowGood, CourseGood
<1>q. QED BY <1>2, <1>3, BecomesGood

\* A keepalive is queued by a session that plays and waits for nothing.
LEMMA KeepaliveGood ==
    ASSUME IInv, Keepalive
    PROVE  IInv'
<1> DEFINE u == [Now EXCEPT !.sess.kaQueued = TRUE, !.viewer.kas = @ + 1]
           p == Prepare(u, "KEEPALIVE")
           y == Interest(p, TRUE)
<1>1. Becomes(Rearmed(y))
  BY DEF Keepalive
<1>2. sess.st = "PLAYING" /\ ~sess.awaiting
  BY DEF Keepalive, Busy
<1>3. u \in Calls /\ u.sess = [sess EXCEPT !.kaQueued = TRUE] /\ u.link = link
  <2>1. PICK n \in Nat : n = viewer.kas + 1
    BY NowGood DEF Viewers
  <2>2. u = [Now EXCEPT !.sess.kaQueued = TRUE, !.viewer.kas = n]
    BY <2>1, NowGood DEF Calls, Viewers
  <2> HIDE DEF u
  <2>q. QED BY ZenonT(60), <2>2, NowGood DEF Calls, Sessions, Viewers
<1> HIDE DEF u
<1>4. p \in Calls /\ p.sess = [u.sess EXCEPT !.pend = "KEEPALIVE", !.part = FALSE] /\ SameLoad(u, p)
  BY <1>3, PrepareGives DEF Requests
<1> HIDE DEF p
<1>5. /\ p.sess.st = "PLAYING" /\ p.sess.pend = "KEEPALIVE" /\ ~p.sess.awaiting /\ p.sess.kaQueued
      /\ (p.sess.kaAwaited <=> sess.kaAwaited) /\ (p.sess.parked <=> sess.parked)
      /\ (p.sess.tearing <=> sess.tearing) /\ p.sess.buf = sess.buf
  <2>1. PICK s, v, w : s = sess /\ v = u.sess /\ w = p.sess
    OBVIOUS
  <2>2. s \in Sessions /\ v = [s EXCEPT !.kaQueued = TRUE] /\ w = [v EXCEPT !.pend = "KEEPALIVE", !.part = FALSE]
    BY <1>3, <1>4, <2>1, NowGood
  <2>3. v \in Sessions /\ v.st = s.st /\ v.kaQueued /\ (v.awaiting <=> s.awaiting) /\ (v.kaAwaited <=> s.kaAwaited)
        /\ (v.parked <=> s.parked) /\ (v.tearing <=> s.tearing) /\ v.buf = s.buf
    BY ONLY <2>2 DEF Sessions
  <2>4. w.st = v.st /\ w.pend = "KEEPALIVE" /\ (w.kaQueued <=> v.kaQueued) /\ (w.awaiting <=> v.awaiting)
        /\ (w.kaAwaited <=> v.kaAwaited) /\ (w.parked <=> v.parked) /\ (w.tearing <=> v.tearing) /\ w.buf = v.buf
    BY ONLY <2>2, <2>3 DEF Sessions
  <2>q. QED BY <1>2, <2>1, <2>3, <2>4
<1>6. p.link.todo = link.todo /\ p.link.wire = link.wire
  BY <1>3, <1>4 DEF SameLoad, SameBytes
<1>7. Counts(Now) /\ SetupRight(Now) /\ Whole(Now) /\ PendRight(sess) /\ Now.sess = sess /\ Now.link = link
  BY NowGood DEF Good
<1>8. PendRight(p.sess) /\ NamedRight(p.sess)
  BY <1>2, <1>5, <1>7 DEF PendRight, NamedRight, Sending, RequestOf, Moving, Naming
<1>9. Counts(p)
  BY <1>2, <1>5, <1>6, <1>7 DEF Counts, Outstanding, Tearing
<1>10. SetupRight(p) /\ Whole(p)
  BY <1>2, <1>5, <1>6, <1>7 DEF SetupRight, Whole
<1>11. Rests(p) /\ p \in Good
  BY <1>4, <1>5, <1>8, <1>9, <1>10 DEF Good, Rests, States
<1>12. y \in Calls /\ SameCourse(p, y) /\ SameBytes(p, y)
  BY <1>4, ReturnsGood DEF Results
<1> HIDE DEF y
<1>13. Rests(Rearmed(y))
  BY <1>11, <1>12, CourseGood, RearmedGood
<1>q. QED BY <1>1, <1>13, BecomesGood

-----------------------------------------------------------------------------
(* The steps of the client and of the server. *)

\* The client reads, and the reading of the upstream goes on.
LEMMA ViewerReadsGood ==
    ASSUME IInv, ViewerReads
    PROVE  IInv'
<1> DEFINE x == [Now EXCEPT !.viewer.room = Room]
           y == [x EXCEPT !.sess.paused = FALSE]
<1>1. Becomes(IF sess.paused THEN PlayOn(y) ELSE x)
  BY DEF ViewerReads
<1>2. x \in Calls /\ SameCourse(Now, x) /\ SameBytes(Now, x)
  BY NowGood, RtspAssumption DEF Calls, Viewers, SameCourse, SameBytes
<1> HIDE DEF x
<1>3. Rests(x) /\ x \in Good
  BY <1>2, NowGood, CourseGood
<1>4. y \in Calls /\ SameCourse(x, y) /\ SameBytes(x, y)
  BY ZenonT(60), <1>2 DEF Calls, Sessions, SameCourse, SameBytes
<1> HIDE DEF y
<1>5. Rests(y)
  BY <1>3, <1>4, CourseGood
<1>6. Rests(PlayOn(y))
  BY <1>5, PlayOnGood
<1>q. QED BY <1>1, <1>3, <1>6, BecomesGood

\* The client has all there is for it, or hangs up.
LEMMA ClosesGood ==
    ASSUME IInv, Drained \/ Leaves
    PROVE  IInv'
<1>1. PICK x \in CloseConnection(Now) : Becomes(Rearmed(x))
  BY DEF Drained, Leaves
<1>2. Rests(Rearmed(x))
  BY NowGood, CloseConnectionGood, RearmedGood
<1>q. QED BY <1>1, <1>2, BecomesGood

\* What the server's steps make of the call that the next step starts from.
LEMMA ServedNextGood ==
    ASSUME IInv, UNCHANGED <<kind, sess>>, Rests(Now')
    PROVE  IInv'
BY DEF IInv

\* Something arrives that the server has sent whole, or that goes on with what
\* it has begun.
LEMMA ArrivesGood ==
    ASSUME NEW x, Rests(x), NEW e \in Items, NEW y \in Calls, y.sess = x.sess,
           y.link.wire = x.link.wire \o <<e>>, ~Unfinished(IF x.link.wire = <<>> THEN x.sess.buf ELSE x.link.wire) \/ e.k = "answer",
           x.sess.st = "AWAITING_SETUP" \/ e \in Others,
           \/ e.k # "answer" /\ y.link.todo = x.link.todo
           \/ e.k = "answer" /\ x.link.todo # <<>> /\ y.link.todo = Tail(x.link.todo)
    PROVE  Rests(y)
<1> DEFINE b == x.sess.buf
           w == x.link.wire
           q == x.link.todo
           t == y.link.todo
<1>0. x \in Calls /\ PendRight(x.sess) /\ NamedRight(x.sess) /\ Counts(x) /\ SetupRight(x) /\ Whole(x)
      /\ x.sess.st \in States
  BY DEF Rests, Good
<1>1. b \in Seq(Items) /\ w \in Seq(Items) /\ q \in Seq(Todo) /\ <<e>> \in Seq(Items) /\ t \in Seq(Todo)
  BY <1>0 DEF Calls, Sessions, Links
<1>2. PICK c, d, n, m, z \in Nat : /\ c = Answers(b) /\ d = Answers(w) /\ n = Len(q) /\ m = Len(t)
                                   /\ z = Answers(w \o <<e>>)
  <2>1. w \o <<e>> \in Seq(Items)
    BY <1>1, AnswersAdd
  <2>q. QED BY <1>1, <2>1, AnswersType, LenProperties
<1>3. m + z = n + d
  <2>1. z = d + IF e.k = "answer" THEN 1 ELSE 0
    BY <1>1, <1>2, AnswersAdd, AnswersOfOne
  <2>2. m = IF e.k = "answer" THEN n - 1 ELSE n
    <3>1. q # <<>> => Len(Tail(q)) = Len(q) - 1
      <4> HIDE DEF q
      <4>q. QED BY <1>1, HeadTailProperties
    <3>q. QED BY <1>2, <3>1
  <2>3. CASE e.k = "answer"
    <3>1. z = d + 1 /\ m = n - 1
      BY <2>1, <2>2, <2>3
    <3>q. QED BY ONLY SMTT(30), <1>2, <3>1
  <2>4. CASE e.k # "answer"
    <3>1. z = d + 0 /\ m = n
      BY <2>1, <2>2, <2>4
    <3>q. QED BY <1>2, <3>1
  <2>q. QED BY <2>3, <2>4
<1>4. Outstanding(y) = Outstanding(x)
  <2>1. Outstanding(y) = m + c + z /\ Outstanding(x) = n + c + d
    BY <1>2 DEF Outstanding
  <2>2. m \in Nat /\ n \in Nat /\ c \in Nat /\ d \in Nat /\ z \in Nat
    OBVIOUS
  <2>3. m + c + z = n + c + d
    BY ONLY <1>3, <2>2
  <2>q. QED BY <2>1, <2>3
<1>5. Counts(y)
  BY <1>0, <1>4 DEF Counts
<1>6. SetupRight(y)
  <2>1. ASSUME x.sess.st # "AWAITING_SETUP"
        PROVE  t \in Seq(Todo \ {"SETUP"}) /\ b \in Seq(Others) /\ w \o <<e>> \in Seq(Others)
    <3>1. q \in Seq(Todo \ {"SETUP"}) /\ b \in Seq(Others) /\ w \in Seq(Others) /\ <<e>> \in Seq(Others)
      BY <1>0, <2>1 DEF SetupRight
    <3>2. w \o <<e>> \in Seq(Others)
      BY <3>1, ConcatProperties
    <3>3. q # <<>> => Tail(q) \in Seq(Todo \ {"SETUP"})
      <4> HIDE DEF q
      <4>q. QED BY <3>1, HeadTailProperties
    <3>q. QED BY <3>1, <3>2, <3>3
  <2>q. QED BY <2>1 DEF SetupRight
<1>7. Whole(y)
  <2>1. Follows(b \o w) /\ b \o w \in Seq(Items) /\ Len(b) <= BufferItems
    BY <1>0, <1>1, AnswersAdd DEF Whole
  <2>2. e.k = "answer" \/ Len(b \o w) = 0 \/ (b \o w)[Len(b \o w)].k # "lead"
    <3>1. CASE e.k = "answer"
      BY <3>1
    <3>2. CASE e.k # "answer" /\ w = <<>>
      <4>1. b \o w = b
        BY <1>1, <3>2, ConcatEmptySeq
      <4>2. ~Unfinished(b)
        BY <3>2
      <4>3. b = <<>> \/ b[Len(b)].k # "lead"
        BY <4>2 DEF Unfinished, Last
      <4>4. b = <<>> => Len(b) = 0
        BY EmptySeq
      <4>q. QED BY <4>1, <4>3, <4>4
    <3>3. CASE e.k # "answer" /\ w # <<>>
      <4>1. ~Unfinished(w)
        BY <3>3
      <4>2. w[Len(w)].k # "lead"
        BY <3>3, <4>1 DEF Unfinished, Last
      <4>3. PICK i, j \in Nat : i = Len(b) /\ j = Len(w)
        BY <1>1, LenProperties
      <4>4. j # 0
        <5> HIDE DEF w
        <5>q. QED BY <1>1, <3>3, <4>3, EmptySeq
      <4>5. Len(b \o w) = i + j /\ \A k \in 1..(i + j) : (b \o w)[k] = IF k <= i THEN b[k] ELSE w[k - i]
        <5> HIDE DEF b, w
        <5>q. QED BY <1>1, <4>3, ConcatProperties
      <4>6. i + j \in 1..(i + j) /\ ~(i + j <= i) /\ (i + j) - i = j
        <5>1. i \in Nat /\ j \in Nat /\ j # 0
          BY <4>4
        <5>q. QED BY ONLY <5>1
      <4>7. (b \o w)[i + j] = w[j]
        BY <4>5, <4>6
      <4>q. QED BY <4>2, <4>3, <4>5, <4>7
    <3>q. QED BY <3>1, <3>2, <3>3
  <2>3. Follows(Append(b \o w, e))
    BY <2>1, <2>2, FollowsAppend
  <2>4. Append(b \o w, e) = b \o (w \o <<e>>)
    <3> HIDE DEF b, w
    <3>1. Append(b \o w, e) = (b \o w) \o <<e>>
      BY <2>1, AppendIsConcat
    <3>q. QED BY <1>1, <3>1, Regroup
  <2>q. QED BY <2>1, <2>3, <2>4 DEF Whole
<1>q. QED BY <1>0, <1>5, <1>6, <1>7 DEF Good, Rests

\* A step of the server that sends an item.
LEMMA ServerGood ==
    ASSUME IInv, UNCHANGED <<kind, sess>>, link' \in Links, viewer' \in Viewers, NEW e \in Items,
           link'.wire = link.wire \o <<e>>, ~MidAnswer \/ e.k = "answer",
           sess.st = "AWAITING_SETUP" \/ e \in Others,
           \/ e.k # "answer" /\ link'.todo = link.todo
           \/ e.k = "answer" /\ link.todo # <<>> /\ link'.todo = Tail(link.todo)
    PROVE  IInv'
<1> DEFINE y == [sess |-> sess, link |-> link', viewer |-> viewer', gen |-> 0, mod |-> FALSE, ret |-> "ok"]
<1>1. y \in Calls /\ y.sess = sess /\ y.link = link'
  BY NowGood DEF Calls, Results
<1>2. Now' = y
  BY DEF Now
<1> HIDE DEF y
<1>3. ~Unfinished(IF Now.link.wire = <<>> THEN Now.sess.buf ELSE Now.link.wire) \/ e.k = "answer"
  BY NowGood DEF MidAnswer
<1>4. Rests(y)
  <2>1. y.sess = Now.sess /\ y.link.wire = Now.link.wire \o <<e>> /\ (Now.sess.st = "AWAITING_SETUP" \/ e \in Others)
    BY <1>1, NowGood
  <2>2. \/ e.k # "answer" /\ y.link.todo = Now.link.todo
        \/ e.k = "answer" /\ Now.link.todo # <<>> /\ y.link.todo = Tail(Now.link.todo)
    BY <1>1, NowGood
  <2>q. QED BY <1>1, <1>3, <2>1, <2>2, NowGood, ArrivesGood
<1>q. QED BY <1>2, <1>4, ServedNextGood

\* The server answers the request that has waited longest.
LEMMA ServerAnswersGood ==
    ASSUME IInv, ServerAnswers
    PROVE  IInv'
<1> DEFINE m == Head(link.todo)
           q == link.todo
<1>1. PICK code \in IF m = "BROKEN" THEN {"refuse"} ELSE Codes(m) :
         link' = [Arrives(<<Answer(m, code)>>)
                  EXCEPT !.todo = Tail(@), !.plays = @ \/ (m = "PLAY" /\ code = "ok" /\ sess.tcp)]
  BY DEF ServerAnswers
<1> DEFINE e == Answer(m, code)
<1>2. q # <<>> /\ UNCHANGED <<kind, sess, viewer>>
  BY DEF ServerAnswers, Asked
<1>3. q \in Seq(Todo) /\ link.wire \in Seq(Items) /\ link \in Links
  BY NowGood DEF Links
<1>4. m \in Todo /\ Tail(q) \in Seq(Todo) /\ (q \in Seq(Todo \ {"SETUP"}) => m \in Todo \ {"SETUP"})
  <2> HIDE DEF q
  <2>1. Head(q) \in Todo /\ Tail(q) \in Seq(Todo)
    BY <1>2, <1>3, HeadTailProperties
  <2>2. q \in Seq(Todo \ {"SETUP"}) => Head(q) \in Todo \ {"SETUP"}
    BY <1>2, HeadTailProperties
  <2>q. QED BY <2>1, <2>2 DEF q
<1>5. code \in AllCodes /\ (code \in {"tcp", "udp"} => m = "SETUP")
  <2>1. CASE m = "BROKEN"
    BY <1>1, <2>1 DEF AllCodes
  <2>2. CASE m # "BROKEN"
    <3>0. code \in Codes(m)
      BY <1>1, <2>2
    <3> HIDE DEF m
    <3>1. CASE m = "SETUP"
      <4>1. Codes(m) = {"challenge", "refuse"} \union (IF m \in Redirecting THEN {"redirect"} ELSE {})
                       \union (IF sess.udp THEN {"tcp", "udp"} ELSE {"tcp"})
        BY Zenon, <3>1 DEF Codes
      <4>q. QED BY <3>0, <3>1, <4>1 DEF AllCodes
    <3>2. CASE m = "KEEPALIVE"
      <4>1. Codes(m) = {"challenge", "refuse"} \union (IF m \in Redirecting THEN {"redirect"} ELSE {})
                       \union {"ok", "unsupported"}
        <5>1. m # "SETUP"
          BY <3>2
        <5>q. QED BY Zenon, <3>2, <5>1 DEF Codes
      <4>q. QED BY <3>0, <4>1 DEF AllCodes
    <3>3. CASE m \notin {"SETUP", "KEEPALIVE"}
      <4>1. Codes(m) = {"challenge", "refuse"} \union (IF m \in Redirecting THEN {"redirect"} ELSE {})
                       \union {"ok"}
        <5>1. m # "SETUP" /\ m # "KEEPALIVE"
          BY <3>3
        <5>q. QED BY Zenon, <5>1 DEF Codes
      <4>q. QED BY <3>0, <4>1 DEF AllCodes
    <3>q. QED BY <3>1, <3>2, <3>3
  <2>q. QED BY <2>1, <2>2
<1> HIDE DEF m
<1>6. e \in Items /\ e.k = "answer" /\ e.to = m
  BY <1>4, <1>5 DEF Answer, Items
<1> HIDE DEF e
<1>7. link' \in Links /\ link'.wire = link.wire \o <<e>> /\ link'.todo = Tail(q)
  <2>1. (link.plays \/ (m = "PLAY" /\ code = "ok" /\ sess.tcp)) \in BOOLEAN
    BY Zenon
  <2>2. PICK t \in BOOLEAN : t = (link.plays \/ (m = "PLAY" /\ code = "ok" /\ sess.tcp))
    BY Zenon, <2>1
  <2>3. link.wire \o <<e>> \in Seq(Items)
    BY <1>3, <1>6, AnswersAdd
  <2>4. PICK v \in Seq(Items), l \in Seq(Todo) : v = link.wire \o <<e>> /\ l = Tail(q)
    BY <1>4, <2>3
  <2>5. PICK r : r = [link EXCEPT !.wire = v, !.edge = TRUE]
    OBVIOUS
  <2>6. r \in Links /\ r.todo = q /\ r.wire = v /\ (r.plays <=> link.plays)
    BY <1>3, <2>5 DEF Links
  <2>7. link' = [r EXCEPT !.todo = l, !.plays = t]
    <3>1. Arrives(<<e>>) = r
      BY <2>4, <2>5 DEF Arrives
    <3>2. link' = [r EXCEPT !.todo = Tail(r.todo), !.plays = r.plays \/ (m = "PLAY" /\ code = "ok" /\ sess.tcp)]
      BY <1>1, <3>1 DEF e, m
    <3>3. r.plays = link.plays
      BY <1>3, <2>5 DEF Links
    <3>4. (r.plays \/ (m = "PLAY" /\ code = "ok" /\ sess.tcp)) = t
      BY Zenon, <2>2, <3>3
    <3>q. QED BY <2>4, <2>6, <3>2, <3>4
  <2>8. link' \in Links /\ link'.wire = v /\ link'.todo = l
    BY <2>6, <2>7 DEF Links
  <2>q. QED BY <2>4, <2>8
<1>8. sess.st = "AWAITING_SETUP" \/ e \in Others
  <2>1. sess.st # "AWAITING_SETUP" => q \in Seq(Todo \ {"SETUP"})
    BY NowGood DEF Good, SetupRight
  <2>q. QED BY <1>4, <1>6, <2>1 DEF Others
<1>9. viewer' \in Viewers
  BY <1>2, NowGood
<1> HIDE DEF q
<1>q. QED BY <1>2, <1>6, <1>7, <1>8, <1>9, ServerGood DEF q

\* What the server sends of itself, or begins, is no answer.
LEMMA SendsGood ==
    ASSUME IInv, UNCHANGED <<kind, sess>>, viewer' \in Viewers, ~MidAnswer,
           NEW k \in {"frame", "request", "announce", "lead"}, link' = Arrives(<<Item(k)>>)
    PROVE  IInv'
<1> DEFINE e == Item(k)
<1>1. e \in Items /\ e \in Others /\ e.k # "answer"
  BY DEF Item, Items, Others
<1> HIDE DEF e
<1>2. link \in Links /\ link.wire \in Seq(Items)
  BY NowGood DEF Links
<1>3. link.wire \o <<e>> \in Seq(Items)
  BY <1>1, <1>2, AnswersAdd
<1>4. PICK v \in Seq(Items) : v = link.wire \o <<e>>
  BY <1>3
<1>5. link' = [link EXCEPT !.wire = v, !.edge = TRUE]
  BY <1>4 DEF Arrives, e
<1>6. link' \in Links /\ link'.wire = v /\ link'.todo = link.todo
  <2>1. PICK r : r = [link EXCEPT !.wire = v, !.edge = TRUE]
    OBVIOUS
  <2>2. r \in Links /\ r.wire = v /\ r.todo = link.todo
    BY ONLY <1>2, <2>1, v \in Seq(Items) DEF Links
  <2>q. QED BY <1>5, <2>1, <2>2
<1>q. QED BY <1>1, <1>4, <1>6, ServerGood

\* It begins an answer, or sends something of itself.
LEMMA ServerSendsGood ==
    ASSUME IInv, ServerBegins \/ ServerPlays \/ ServerRequests
    PROVE  IInv'
<1>1. viewer' \in Viewers /\ UNCHANGED <<kind, sess>> /\ ~MidAnswer
  <2>1. viewer' = viewer \/ viewer' = [viewer EXCEPT !.sent = @ + 1]
    BY DEF ServerBegins, ServerPlays, ServerRequests
  <2>2. PICK n \in Nat : n = viewer.sent + 1
    BY NowGood DEF Viewers
  <2>3. [viewer EXCEPT !.sent = n] \in Viewers
    BY NowGood DEF Viewers
  <2>4. viewer' = viewer \/ viewer' = [viewer EXCEPT !.sent = n]
    BY <2>1, <2>2, NowGood DEF Viewers
  <2>5. UNCHANGED <<kind, sess>> /\ ~MidAnswer
    BY DEF ServerBegins, ServerPlays, ServerRequests
  <2>q. QED BY <2>3, <2>4, <2>5, NowGood
<1>2. PICK k \in {"frame", "request", "announce", "lead"} : link' = Arrives(<<Item(k)>>)
  BY DEF ServerBegins, ServerPlays, ServerRequests
<1>q. QED BY <1>1, <1>2, SendsGood

\* It closes, or resets what has not been read with it.
LEMMA ServerEndsGood ==
    ASSUME IInv, ServerEnds
    PROVE  IInv'
<1>1. PICK fin \in {"eof", "reset"} :
         link' = [link EXCEPT !.fin = fin, !.edge = TRUE, !.wire = IF fin = "reset" THEN <<>> ELSE @]
  BY DEF ServerEnds
<1>2. UNCHANGED <<kind, sess, viewer>>
  BY DEF ServerEnds
<1> DEFINE w == link.wire
<1>3. link \in Links /\ w \in Seq(Items) /\ <<>> \in Seq(Items) /\ <<>> \in Seq(Others) /\ sess.buf \in Seq(Items)
  BY NowGood, NewLinkIsOne DEF Links, Sessions
<1>4. PICK v \in Seq(Items) : v = IF fin = "reset" THEN <<>> ELSE w
  BY <1>3
<1>5. link' \in Links /\ link'.wire = v /\ link'.todo = link.todo
  <2>1. PICK r : r = [link EXCEPT !.fin = fin, !.edge = TRUE, !.wire = v]
    OBVIOUS
  <2>2. r \in Links /\ r.wire = v /\ r.todo = link.todo
    BY <1>3, <2>1 DEF Links
  <2>3. link' = r
    BY <1>1, <1>3, <1>4, <2>1 DEF Links
  <2>q. QED BY <2>2, <2>3
<1> DEFINE y == [sess |-> sess, link |-> link', viewer |-> viewer, gen |-> 0, mod |-> FALSE, ret |-> "ok"]
<1>6. y \in Calls /\ y.sess = sess /\ y.link = link' /\ SameCourse(Now, y)
  BY <1>5, NowGood DEF Calls, Results, SameCourse, Now
<1>7. Now' = y
  BY <1>2 DEF Now
<1> HIDE DEF y
<1>8. SetupRight(Now) /\ Whole(Now) /\ Now.sess = sess /\ Now.link = link
  BY NowGood DEF Good
<1>9. SetupRight(y)
  BY <1>3, <1>4, <1>5, <1>6, <1>8 DEF SetupRight
<1>10. Whole(y)
  <2>1. Follows(sess.buf \o w) /\ Len(sess.buf) <= BufferItems
    BY <1>8 DEF Whole
  <2>2. Follows(sess.buf)
    BY <1>3, <2>1, FollowsParts
  <2>3. sess.buf \o <<>> = sess.buf
    BY <1>3, ConcatEmptySeq
  <2>4. Follows(sess.buf \o v)
    BY <1>4, <2>1, <2>2, <2>3
  <2>q. QED BY <1>5, <1>6, <2>1, <2>4 DEF Whole
<1>11. Answers(y.sess.buf) + Answers(y.link.wire) <= Answers(Now.sess.buf) + Answers(Now.link.wire)
  <2>1. PICK i, j, k \in Nat : i = Answers(sess.buf) /\ j = Answers(w) /\ k = Answers(v)
    BY <1>3, AnswersType
  <2>2. k <= j
    BY <1>4, <2>1, AnswersOfOne
  <2>3. i + k <= i + j
    BY <2>1, <2>2
  <2>q. QED BY <1>5, <1>6, <1>8, <2>1, <2>3
<1>12. Rests(y)
  BY <1>6, <1>9, <1>10, <1>11, NowGood, BytesGood
<1>q. QED BY <1>2, <1>7, <1>12, ServedNextGood

-----------------------------------------------------------------------------
(* The specification. *)

\* A session that has not started rests.
LEMMA InitGood ==
    ASSUME Init
    PROVE  IInv
<1>1. <<>> \in Seq(Items) /\ <<>> \in Seq(Others) /\ <<>> \in Seq(Todo) /\ <<>> \in Seq(Todo \ {"SETUP"}) /\ Len(<<>>) = 0
      /\ <<>> \o <<>> = <<>>
  BY EmptySeq, ConcatEmptySeq
<1>2. NewSession \in Sessions /\ NewLink \in Links
  BY <1>1 DEF NewSession, Sessions, Mappings, States, NewLink, Links
<1>3. NewViewer \in Viewers
  BY RtspAssumption DEF NewViewer, Viewers
<1>4. Now \in Calls /\ Now.sess = NewSession /\ Now.link = NewLink
  BY <1>2, <1>3 DEF Now, Init, Calls, Results
<1>5. Now.sess.st = "INIT" /\ Now.sess.pend = "none" /\ ~Now.sess.awaiting /\ ~Now.sess.kaQueued /\ ~Now.sess.kaAwaited
      /\ ~Now.sess.parked /\ Now.sess.buf = <<>> /\ Now.link.wire = <<>> /\ Now.link.todo = <<>>
  BY <1>4 DEF NewSession, NewLink
<1>6. PendRight(Now.sess) /\ NamedRight(Now.sess)
  BY <1>5 DEF PendRight, NamedRight, Sending, RequestOf, Moving, Naming
<1>7. Counts(Now) /\ SetupRight(Now)
  BY <1>1, <1>5, AnswersOfOne DEF Counts, Outstanding, SetupRight, Tearing
<1>8. Whole(Now)
  BY <1>1, <1>5, RtspAssumption DEF Whole, Follows
<1>9. Rests(Now)
  BY <1>4, <1>5, <1>6, <1>7, <1>8 DEF Good, Rests, States
<1>q. QED BY <1>9 DEF IInv, Init

\* Every step leaves the session at rest.
LEMMA NextGood ==
    ASSUME IInv, [Next]_vars
    PROVE  IInv'
<1>1. CASE Start
  BY <1>1, StartGood
<1>2. CASE Connected
  BY <1>2, ConnectedGood
<1>3. CASE ConnectFails
  BY <1>3, ConnectFailsGood
<1>4. CASE SocketEvent
  BY <1>4, SocketEventGood
<1>5. CASE Timeout
  BY <1>5, TimeoutGood
<1>6. CASE StunAnswered
  BY <1>6, StunAnsweredGood
<1>7. CASE StunGivesUp
  BY <1>7, StunGivesUpGood
<1>8. CASE Datagram
  BY <1>8, DatagramGood
<1>9. CASE Keepalive
  BY <1>9, KeepaliveGood
<1>10. CASE ViewerReads
  BY <1>10, ViewerReadsGood
<1>11. CASE Drained \/ Leaves
  BY <1>11, ClosesGood
<1>12. CASE ServerAnswers
  BY <1>12, ServerAnswersGood
<1>13. CASE ServerBegins \/ ServerPlays \/ ServerRequests
  BY <1>13, ServerSendsGood
<1>14. CASE ServerEnds
  BY <1>14, ServerEndsGood
<1>15. CASE UNCHANGED vars
  BY <1>15 DEF vars, IInv, Now
<1>q. QED BY <1>1, <1>2, <1>3, <1>4, <1>5, <1>6, <1>7, <1>8, <1>9, <1>10, <1>11, <1>12, <1>13, <1>14, <1>15 DEF Next

\* A session at rest has no second request in flight before the first is answered.
LEMMA RestsIsOneExchange ==
    ASSUME IInv
    PROVE  OneExchange
<1>1. PendRight(sess) /\ Counts(Now) /\ Whole(Now) /\ Now.sess = sess /\ Now.link = link /\ sess.st \in States
      /\ sess \in Sessions /\ link \in Links /\ viewer \in Viewers
  BY NowGood DEF Good
<1>2. Sending = {"SENDING_OPTIONS", "SENDING_DESCRIBE", "SENDING_SETUP", "SENDING_PLAY", "SENDING_TEARDOWN"}
      /\ DOMAIN AwaitingAfter \ {"PLAYING"} = Sending
  BY DEF Sending, RequestOf, AwaitingAfter
<1>3. \A st \in Sending : RequestOf[st] # "none"
  BY DEF Sending, RequestOf
<1>4. TypeOK
  <2>1. sess.pend \in {"none", "OPTIONS", "DESCRIBE", "SETUP", "PLAY", "TEARDOWN", "KEEPALIVE"}
    BY <1>1 DEF Sessions, Requests
  <2>2. Len(sess.buf) <= BufferItems
    BY <1>1 DEF Whole
  <2>3. viewer.conn \in {"streaming", "closing", "deferred", "freed"}
    BY <1>1 DEF Viewers
  <2>4. \/ sess.st \in {"CONNECTING", "RECONNECTING"}
        \/ sess.pend # "none" <=> (sess.st \in DOMAIN AwaitingAfter \ {"PLAYING"} \/ sess.kaQueued)
    <3>1. CASE sess.st \in Sending
      BY <1>1, <1>2, <1>3, <3>1 DEF PendRight
    <3>2. CASE sess.st \notin Sending /\ sess.st \notin {"CONNECTING", "RECONNECTING"}
      <4>1. sess.st \notin Sending \union Moving
        BY <1>1, <3>2 DEF Moving, States
      <4>q. QED BY <1>1, <1>2, <3>2, <4>1 DEF PendRight
    <3>q. QED BY <3>1, <3>2
  <2>q. QED BY <1>1, <2>1, <2>2, <2>3, <2>4 DEF TypeOK
<1>5. PICK i, j, k \in Nat : i = Len(link.todo) /\ j = Answers(sess.buf) /\ k = Answers(link.wire)
  BY <1>1, AnswersType, LenProperties DEF Sessions, Links
<1>6. Outstanding(Now) = i + j + k
  BY <1>1, <1>5 DEF Outstanding
<1>7. PICK p \in {0, 1} : p = IF sess.pend = "none" THEN 0 ELSE 1
  OBVIOUS
<1>8. PICK t \in Nat : t = i + j + k
  OBVIOUS
<1>9. p \in {0, 1} /\ i \in Nat /\ j \in Nat /\ k \in Nat /\ t \in Nat
  OBVIOUS
<1>10. p + i + k + j = t + p
  BY ONLY <1>8, <1>9
<1>11. t + p <= IF sess.tearing THEN 2 ELSE 1
  <2>1. CASE sess.st \in Tearing
    <3>1. sess.tearing /\ t + p <= 2
      BY <1>1, <1>6, <1>7, <1>8, <2>1 DEF Counts
    <3>q. QED BY <3>1
  <2>2. CASE sess.st \notin Tearing
    <3>1. t <= IF sess.awaiting THEN 1 ELSE 0
      BY <1>1, <1>6, <1>8, <2>2 DEF Counts
    <3>2. CASE sess.tearing
      <4>1. t <= 1
        BY <3>1
      <4>2. t + p <= 2
        BY ONLY <1>9, <4>1
      <4>q. QED BY <3>2, <4>2
    <3>3. CASE ~sess.tearing
      <4>1. sess.awaiting => sess.st \notin Sending \union Moving /\ ~sess.kaQueued
        <5>1. sess.st # "RECONNECTING"
          BY <1>1, <3>3 DEF Counts
        <5>q. QED BY <1>1, <1>2, <2>2, <5>1 DEF PendRight, Moving, Tearing
      <4>2. sess.awaiting => sess.pend = "none"
        BY <1>1, <4>1 DEF PendRight
      <4>3. t = 0 \/ (t <= 1 /\ p = 0)
        <5>1. CASE sess.awaiting
          BY <1>7, <3>1, <4>2, <5>1
        <5>2. CASE ~sess.awaiting
          BY <1>9, <3>1, <5>2
        <5>q. QED BY <5>1, <5>2
      <4>4. t + p <= 1
        BY ONLY <1>9, <4>3
      <4>q. QED BY <3>3, <4>4
    <3>q. QED BY <3>2, <3>3
  <2>q. QED BY <2>1, <2>2
<1>12. p + i + k + j <= IF sess.tearing THEN 2 ELSE 1
  BY <1>11, <1>10
<1>q. QED BY <1>4, <1>5, <1>7, <1>12 DEF OneExchange

\* The SETUP of a session at rest names what its DESCRIBE has.
LEMMA RestsIsSameEndpoint ==
    ASSUME IInv
    PROVE  SameEndpoint
<1>1. PendRight(sess) /\ NamedRight(sess) /\ sess.st \in States
  BY NowGood
<1>2. ASSUME sess.pend = "SETUP" PROVE sess.st = "SENDING_SETUP"
  BY <1>1, <1>2 DEF PendRight, Sending, RequestOf
<1>3. sess.st = "SENDING_SETUP" => sess.map = sess.named
  BY <1>1 DEF NamedRight, Naming
<1>q. QED BY <1>2, <1>3 DEF SameEndpoint, Endpoint

\* Every session rests between the steps of the worker: the request in hand is
\* that of its state, what was named to the server is still so, and what has
\* come is whole.
THEOREM SessionRests == Spec => []IInv
<1>1. Init => IInv
  BY InitGood
<1>2. IInv /\ [Next]_vars => IInv'
  BY NextGood
<1>q. QED BY <1>1, <1>2, PTL DEF Spec

\* Answers are matched to requests by their order alone (rtsp.c): with any
\* server, any number of redirects and challenges and wherever the connection
\* breaks, no request follows one that is not answered, but TEARDOWN.
THEOREM RequestsWaitForAnswers == Spec => []OneExchange
<1>1. IInv => OneExchange
  BY RestsIsOneExchange
<1>q. QED BY <1>1, SessionRests, PTL

\* The endpoint that SETUP advertises is the one that DESCRIBE has named, whenever
\* the STUN exchange ends and however often the session connects again.
THEOREM SetupNamesWhatDescribeDid == Spec => []SameEndpoint
<1>1. IInv => SameEndpoint
  BY RestsIsSameEndpoint
<1>q. QED BY <1>1, SessionRests, PTL
=============================================================================
