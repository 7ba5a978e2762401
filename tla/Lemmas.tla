------------------------------- MODULE Lemmas -------------------------------
(***************************************************************************)
(* Facts the proofs share: remainders, the least of a set of numbers, and  *)
(* lists without repetitions into which elements are put and from which    *)
(* they are unlinked.                                                      *)
(***************************************************************************)
EXTENDS Integers, SequencesExt, FiniteSetsExt, FiniteSetTheorems, SequenceTheorems,
        WellFoundedInduction, TLAPS

\* A number, its quotient and its remainder.
LEMMA DivMod ==
  ASSUME NEW a \in Int, NEW m \in Nat \ {0}
  PROVE a = (m * (a \div m)) + (a % m) /\ a % m \in 0..(m-1) /\ a \div m \in Int
OBVIOUS

\* A multiple that is smaller than the divisor is none.
LEMMA SmallMultiple ==
  ASSUME NEW m \in Nat \ {0}, NEW q \in Int, NEW r \in Int, m * q = r, r < m, -m < r
  PROVE q = 0
<1>1. q >= 1 => m * q >= m
  OBVIOUS
<1>2. q <= -1 => m * q <= -m
  OBVIOUS
<1>q. QED BY <1>1, <1>2

\* Quotient and remainder are unique.
LEMMA QuotientIsUnique ==
  ASSUME NEW m \in Nat \ {0}, NEW q \in Int, NEW r \in 0..(m-1), NEW q2 \in Int, NEW r2 \in 0..(m-1), m*q + r = m*q2 + r2
  PROVE q = q2 /\ r = r2
<1>1. m * (q - q2) = r2 - r
  OBVIOUS
<1>2. q - q2 = 0
  BY <1>1, SmallMultiple
<1>q. QED BY <1>1, <1>2

\* Of numbers less than m apart, no two have the same remainder.
LEMMA ModSame ==
  ASSUME NEW a \in Int, NEW b \in Int, NEW m \in Nat \ {0}, a % m = b % m, a - b < m, b - a < m
  PROVE a = b
<1> DEFINE qa == a \div m
           qb == b \div m
<1>1. qa \in Int /\ qb \in Int /\ a = (m * qa) + (a % m) /\ b = (m * qb) + (b % m) /\ a % m \in 0..(m-1)
  BY DivMod
<1> HIDE DEF qa, qb
<1>2. m * (qa - qb) = a - b
  BY <1>1
<1>3. qa - qb = 0
  BY <1>1, <1>2, SmallMultiple
<1>q. QED BY <1>1, <1>2, <1>3

\* How to recognise a remainder.
LEMMA RemainderIs ==
  ASSUME NEW a \in Int, NEW m \in Nat \ {0}, NEW q \in Int, NEW r \in 0..(m-1), a = m*q + r
  PROVE a % m = r
<1> DEFINE qa == a \div m
           ra == a % m
<1>1. qa \in Int /\ a = (m * qa) + ra /\ ra \in 0..(m-1)
  BY DivMod
<1> HIDE DEF qa, ra
<1>2. ra = r
  BY <1>1, QuotientIsUnique
<1>q. QED BY <1>2 DEF ra

\* a and b are a multiple of m apart.
Congruent(a, b, m) == \E q \in Int : a = b + (m * q)

\* Numbers a multiple of m apart have the same remainder.
LEMMA ModPlus ==
  ASSUME NEW a \in Int, NEW b \in Int, NEW m \in Nat \ {0}, Congruent(a, b, m)
  PROVE a % m = b % m
<1>0. PICK q \in Int : a = b + (m * q)
  BY DEF Congruent
<1> DEFINE qb == b \div m
           rb == b % m
<1>1. qb \in Int /\ b = (m * qb) + rb /\ rb \in 0..(m-1)
  BY DivMod
<1> HIDE DEF qb, rb
<1>2. a = m * (qb + q) + rb /\ qb + q \in Int
  BY <1>0, <1>1
<1>3. a % m = rb
  BY <1>1, <1>2, RemainderIs
<1>q. QED BY <1>3 DEF rb

\* Remainders add up and subtract as the numbers do.
LEMMA ModCong ==
  ASSUME NEW a \in Int, NEW b \in Int, NEW m \in Nat \ {0}
  PROVE /\ ((a % m) + b) % m = (a + b) % m
        /\ ((a % m) - (b % m)) % m = (a - b) % m
<1> DEFINE qa == a \div m
           ra == a % m
           qb == b \div m
           rb == b % m
<1>1. qa \in Int /\ a = (m * qa) + ra /\ ra \in 0..(m-1)
  BY DivMod
<1>2. qb \in Int /\ b = (m * qb) + rb /\ rb \in 0..(m-1)
  BY DivMod
<1> HIDE DEF qa, ra, qb, rb
<1>4. (a + b) % m = (ra + b) % m
  <2>1. a + b \in Int /\ ra + b \in Int /\ a + b = (ra + b) + (m * qa)
    BY <1>1
  <2>2. Congruent(a + b, ra + b, m)
    BY <2>1, <1>1 DEF Congruent
  <2>q. QED BY <2>1, <2>2, ModPlus
<1>5. (a - b) % m = (ra - rb) % m
  <2>1. a - b \in Int /\ ra - rb \in Int /\ qa - qb \in Int /\ a - b = (ra - rb) + (m * (qa - qb))
    BY <1>1, <1>2
  <2>2. Congruent(a - b, ra - rb, m)
    BY <2>1 DEF Congruent
  <2>q. QED BY <2>1, <2>2, ModPlus
<1>q. QED BY <1>4, <1>5 DEF ra, rb

\* A remainder modulo a multiple of w still has the same remainder modulo w.
LEMMA ModMod ==
  ASSUME NEW a \in Int, NEW w \in Nat \ {0}, NEW m \in Nat \ {0}, m % w = 0, NEW k \in Int
  PROVE ((a % m) + k) % w = (a + k) % w /\ (a % m) % w = a % w
<1> DEFINE qa == a \div m
           ra == a % m
           z == m \div w
<1>1. qa \in Int /\ a = (m * qa) + ra /\ ra \in 0..(m-1)
  BY DivMod
<1>2. z \in Int /\ m = w * z
  BY DivMod
<1> HIDE DEF qa, ra, z
<1>3. m * qa = w * (z * qa) /\ z * qa \in Int
  BY <1>1, <1>2
<1>4. (a + k) % w = (ra + k) % w
  <2>1. a + k \in Int /\ ra + k \in Int /\ a + k = (ra + k) + (w * (z * qa))
    BY <1>1, <1>3
  <2>2. Congruent(a + k, ra + k, w)
    BY <2>1, <1>3 DEF Congruent
  <2>q. QED BY <2>1, <2>2, ModPlus
<1>5. a % w = ra % w
  <2>1. ra \in Int /\ a = ra + (w * (z * qa))
    BY <1>1, <1>3
  <2>2. Congruent(a, ra, w)
    BY <2>1, <1>3 DEF Congruent
  <2>q. QED BY <2>1, <2>2, ModPlus
<1>q. QED BY <1>4, <1>5 DEF ra

-----------------------------------------------------------------------------
\* A set of natural numbers that is not empty has a least element, which Min is.
LEMMA MinIsLeast ==
    ASSUME NEW S \in SUBSET Nat, S # {}
    PROVE  Min(S) \in S /\ \A y \in S : Min(S) <= y
<1>1. \E x \in S : \A y \in S : ~(<<y, x>> \in OpToRel(<, Nat))
  BY NatLessThanWellFounded, WFMin
<1>2. PICK x \in S : \A y \in S : ~(<<y, x>> \in OpToRel(<, Nat))
  BY <1>1
<1>3. \A y \in S : ~(y < x)
  BY <1>2 DEF OpToRel
<1>4. \A y \in S : x <= y
  BY <1>3
<1>5. \E z \in S : \A y \in S : z <= y
  BY <1>4
<1>q. QED BY <1>5 DEF Min

\* Where the only entry of an element of a list is.
LEMMA PlaceOfElement ==
    ASSUME NEW T, NEW s \in Seq(T), NEW c \in ToSet(s)
    PROVE  \E k \in 1..Len(s) : s[k] = c /\ RemoveFirst(s, c) = RemoveAt(s, k)
<1> DEFINE I == {i \in 1..Len(s) : s[i] = c}
<1>1. I # {} /\ I \subseteq Nat
  BY LenProperties DEF ToSet
<1>2. Min(I) \in I
  BY <1>1, MinIsLeast
<1>3. RemoveFirst(s, c) = RemoveAt(s, Min(I))
  BY <1>1 DEF RemoveFirst, SelectInSeq
<1>q. QED BY <1>2, <1>3

\* RemoveAt() closes the gap and leaves the rest in its order.
LEMMA RemoveAtElements ==
    ASSUME NEW T, NEW s \in Seq(T), NEW k \in 1..Len(s)
    PROVE  /\ RemoveAt(s, k) \in Seq(T)
           /\ Len(RemoveAt(s, k)) = Len(s) - 1
           /\ \A i \in 1..(Len(s) - 1) : RemoveAt(s, k)[i] = IF i < k THEN s[i] ELSE s[i + 1]
<1>0. Len(s) \in Nat /\ \A i \in 1..Len(s) : s[i] \in T
  BY LenProperties, ElementOfSeq
<1>1. /\ SubSeq(s, 1, k - 1) \in Seq(T)
      /\ Len(SubSeq(s, 1, k - 1)) = k - 1
      /\ \A i \in 1..(k - 1) : SubSeq(s, 1, k - 1)[i] = s[i]
  BY <1>0, SubSeqProperties
<1>2. /\ SubSeq(s, k + 1, Len(s)) \in Seq(T)
      /\ Len(SubSeq(s, k + 1, Len(s))) = Len(s) - k
      /\ \A i \in 1..(Len(s) - k) : SubSeq(s, k + 1, Len(s))[i] = s[k + i]
  BY <1>0, SubSeqProperties
<1> DEFINE a == SubSeq(s, 1, k - 1)
           b == SubSeq(s, k + 1, Len(s))
<1> HIDE DEF a, b
<1>3. /\ a \in Seq(T) /\ Len(a) = k - 1 /\ \A i \in 1..(k - 1) : a[i] = s[i]
      /\ b \in Seq(T) /\ Len(b) = Len(s) - k /\ \A i \in 1..(Len(s) - k) : b[i] = s[k + i]
  BY <1>1, <1>2 DEF a, b
<1>4. /\ a \o b \in Seq(T)
      /\ Len(a \o b) = Len(a) + Len(b)
      /\ \A i \in 1..(Len(a) + Len(b)) : (a \o b)[i] = IF i <= Len(a) THEN a[i] ELSE b[i - Len(a)]
  BY <1>3, ConcatProperties
<1>5. ASSUME NEW i \in 1..(Len(s) - 1) PROVE (a \o b)[i] = IF i < k THEN s[i] ELSE s[i + 1]
  <2>0. i < k \/ (i >= k /\ ~(i < k))
    BY <1>0
  <2>1. CASE i < k
    BY <2>1, <1>0, <1>3, <1>4
  <2>2. CASE i >= k
    <3>1. i - (k - 1) \in 1..(Len(s) - k) /\ k + (i - (k - 1)) = i + 1
      BY <2>2, <1>0
    <3>2. b[i - (k - 1)] = s[i + 1]
      BY <3>1, <1>3
    <3>3. (a \o b)[i] = b[i - (k - 1)]
      BY <2>2, <1>0, <1>3, <1>4
    <3>q. QED BY <2>2, <3>2, <3>3, <1>0
  <2>q. QED BY <2>0, <2>1, <2>2
<1>6. RemoveAt(s, k) = a \o b
  BY DEF RemoveAt, a, b
<1>7. Len(a) + Len(b) = Len(s) - 1
  BY <1>0, <1>3
<1>q. QED BY <1>4, <1>5, <1>6, <1>7

\* A list without repetitions from which an element is unlinked.
LEMMA UnlinkedList ==
    ASSUME NEW T, NEW s \in Seq(T), IsInjective(s), NEW c \in ToSet(s)
    PROVE  /\ RemoveFirst(s, c) \in Seq(T)
           /\ IsInjective(RemoveFirst(s, c))
           /\ ToSet(RemoveFirst(s, c)) = ToSet(s) \ {c}
<1> DEFINE r == RemoveFirst(s, c)
<1>1. PICK k \in 1..Len(s) : s[k] = c /\ r = RemoveAt(s, k)
  BY PlaceOfElement
<1>2. Len(s) \in Nat /\ DOMAIN s = 1..Len(s)
  BY LenProperties
<1>3. /\ r \in Seq(T) /\ DOMAIN r = 1..(Len(s) - 1)
      /\ \A i \in 1..(Len(s) - 1) : r[i] = IF i < k THEN s[i] ELSE s[i + 1]
  BY <1>1, <1>2, RemoveAtElements, LenProperties
<1> HIDE DEF r
<1>4. IsInjective(r)
  <2>1. SUFFICES ASSUME NEW i \in DOMAIN r, NEW j \in DOMAIN r, r[i] = r[j] PROVE i = j
    BY DEF IsInjective
  <2>2. \A m, n \in 1..Len(s) : s[m] = s[n] => m = n
    BY <1>2 DEF IsInjective
  <2>q. QED BY <2>1, <2>2, <1>2, <1>3
<1>5. ASSUME NEW i \in DOMAIN r PROVE r[i] \in ToSet(s) \ {c}
  <2>1. PICK m \in 1..Len(s) : m # k /\ r[i] = s[m]
    <3>1. CASE i < k
      BY <3>1, <1>2, <1>3
    <3>2. CASE ~(i < k)
      <4>1. i + 1 \in 1..Len(s) /\ i + 1 # k /\ r[i] = s[i + 1]
        BY <3>2, <1>2, <1>3
      <4>q. QED BY <4>1
    <3>q. QED BY <3>1, <3>2
  <2>2. s[m] # c
    BY <2>1, <1>1, <1>2 DEF IsInjective
  <2>q. QED BY <2>1, <2>2, <1>2 DEF ToSet
<1>6. ASSUME NEW x \in ToSet(s) \ {c} PROVE x \in ToSet(r)
  <2>1. PICK i \in 1..Len(s) : s[i] = x
    BY <1>2 DEF ToSet
  <2>2. CASE i < k
    BY <2>1, <2>2, <1>1, <1>2, <1>3 DEF ToSet
  <2>3. CASE i > k
    <3>1. i - 1 \in DOMAIN r /\ r[i - 1] = x
      BY <2>1, <2>3, <1>1, <1>2, <1>3
    <3>q. QED BY <3>1 DEF ToSet
  <2>q. QED BY <2>1, <2>2, <2>3, <1>1
<1>7. ToSet(r) = ToSet(s) \ {c}
  BY <1>5, <1>6 DEF ToSet
<1>q. QED BY <1>3, <1>4, <1>7 DEF r

\* An element that is not in a list yet is put before it.
LEMMA PushedList ==
    ASSUME NEW T, NEW s \in Seq(T), IsInjective(s), NEW c \in T, c \notin ToSet(s)
    PROVE  /\ <<c>> \o s \in Seq(T) /\ IsInjective(<<c>> \o s)
           /\ ToSet(<<c>> \o s) = ToSet(s) \union {c}
<1>0. Len(s) \in Nat /\ DOMAIN s = 1..Len(s) /\ \A i \in 1..Len(s) : s[i] \in T
  BY LenProperties, ElementOfSeq
<1> DEFINE t == <<c>> \o s
<1>1. <<c>> \in Seq(T) /\ Len(<<c>>) = 1 /\ <<c>>[1] = c
  OBVIOUS
<1>2. /\ t \in Seq(T) /\ Len(t) = 1 + Len(s)
      /\ \A i \in 1..(1 + Len(s)) : t[i] = IF i <= 1 THEN <<c>>[i] ELSE s[i - 1]
  BY <1>1, ConcatProperties
<1>3. DOMAIN t = 1..(1 + Len(s))
  BY <1>2, LenProperties
<1>4. t[1] = c /\ \A i \in 1..Len(s) : t[i + 1] = s[i]
  <2>1. 1 \in 1..(1 + Len(s))
    BY <1>0
  <2>2. t[1] = c
    BY <1>1, <1>2, <2>1
  <2>3. ASSUME NEW i \in 1..Len(s) PROVE t[i + 1] = s[i]
    <3>1. i + 1 \in 1..(1 + Len(s)) /\ ~(i + 1 <= 1) /\ (i + 1) - 1 = i
      BY <1>0
    <3>q. QED BY <3>1, <1>2
  <2>q. QED BY <2>2, <2>3
<1> HIDE DEF t
<1>5. \A i \in 1..(1 + Len(s)) : i = 1 \/ (i - 1 \in 1..Len(s) /\ t[i] = s[i - 1])
  <2>1. ASSUME NEW i \in 1..(1 + Len(s)), i # 1
        PROVE  i - 1 \in 1..Len(s) /\ t[i] = s[i - 1]
    <3>1. i - 1 \in 1..Len(s) /\ (i - 1) + 1 = i
      BY <2>1, <1>0
    <3>q. QED BY <3>1, <1>4
  <2>q. QED BY <2>1
<1>6. \A i \in 1..Len(s) : i + 1 \in 1..(1 + Len(s))
  BY <1>0
<1>7. \A i \in 1..Len(s) : s[i] # c
  BY <1>0 DEF ToSet
<1>8. IsInjective(t)
  <2>1. ASSUME NEW i \in 1..(1 + Len(s)), NEW j \in 1..(1 + Len(s)), t[i] = t[j]
        PROVE  i = j
    <3>1. CASE i = 1 /\ j = 1
      BY <3>1
    <3>2. CASE i = 1 /\ j # 1
      BY <3>2, <2>1, <1>4, <1>5, <1>7
    <3>3. CASE i # 1 /\ j = 1
      BY <3>3, <2>1, <1>4, <1>5, <1>7
    <3>4. CASE i # 1 /\ j # 1
      <4>1. i - 1 \in 1..Len(s) /\ j - 1 \in 1..Len(s) /\ s[i - 1] = s[j - 1]
        BY <3>4, <2>1, <1>5
      <4>2. i - 1 = j - 1
        BY <4>1, <1>0 DEF IsInjective
      <4>q. QED BY <4>2, <1>0
    <3>q. QED BY <3>1, <3>2, <3>3, <3>4
  <2>q. QED BY <2>1, <1>3 DEF IsInjective
<1>9. ToSet(t) = ToSet(s) \union {c}
  <2>1. 1 \in 1..(1 + Len(s))
    BY <1>0
  <2>2. ToSet(t) = {t[i] : i \in 1..(1 + Len(s))} /\ ToSet(s) = {s[i] : i \in 1..Len(s)}
    BY <1>0, <1>3 DEF ToSet
  <2>3. ASSUME NEW x \in ToSet(t) PROVE x \in ToSet(s) \union {c}
    <3>1. PICK i \in 1..(1 + Len(s)) : x = t[i]
      BY <2>2
    <3>q. QED BY <3>1, <2>2, <1>4, <1>5
  <2>4. ASSUME NEW x \in ToSet(s) PROVE x \in ToSet(t)
    <3>1. PICK i \in 1..Len(s) : x = s[i]
      BY <2>2
    <3>q. QED BY <3>1, <2>2, <1>4, <1>6
  <2>5. c \in ToSet(t)
    BY <2>1, <2>2, <1>4
  <2>q. QED BY <2>3, <2>4, <2>5
<1>q. QED BY <1>2, <1>8, <1>9 DEF t

-----------------------------------------------------------------------------
\* The first of the numbers up to most that is in Z, or most if none is.
LEMMA FirstHit ==
    ASSUME NEW most \in Nat, NEW Z
    PROVE  \E n \in 0..most : (\A k \in 0..(n - 1) : k \notin Z) /\ (n < most => n \in Z)
<1> DEFINE S == {k \in 0..most : k = most \/ k \in Z}
<1>1. S \in SUBSET Nat /\ most \in S
  OBVIOUS
<1>2. Min(S) \in S /\ \A y \in S : Min(S) <= y
  <2> HIDE DEF S
  <2>q. QED BY <1>1, MinIsLeast
<1>3. PICK n \in S : \A y \in S : n <= y
  BY <1>2
<1>4. n \in 0..most /\ (n < most => n \in Z)
  OBVIOUS
<1>5. \A k \in 0..(n - 1) : k \notin Z
  <2>1. SUFFICES ASSUME NEW k \in 0..(n - 1), k \in Z PROVE FALSE
    OBVIOUS
  <2>2. k \in 0..most /\ k < n
    BY <1>4
  <2>3. k \in S
    BY <2>1, <2>2
  <2>q. QED BY <1>3, <1>4, <2>2, <2>3
<1>q. QED BY <1>4, <1>5

\* The rank of an element of a finite set of numbers: how many are not above it.
Rank(S, k) == Cardinality({j \in S : j <= k})

\* Ranks rise with the elements, and every rank is somebody's.
LEMMA RanksRise ==
    ASSUME NEW S \in SUBSET Int, IsFiniteSet(S)
    PROVE  /\ \A j, k \in S : j < k => Rank(S, j) < Rank(S, k)
           /\ \A i \in 1..Cardinality(S) : \E k \in S : Rank(S, k) = i
<1> DEFINE m == Cardinality(S)
           upTo(k) == {j \in S : j <= k}
           rank == [k \in S |-> Cardinality(upTo(k))]
<1>1. m \in Nat
  BY FS_CardinalityType
<1>2. \A k \in S : /\ upTo(k) \in SUBSET S /\ k \in upTo(k) /\ IsFiniteSet(upTo(k))
                   /\ Cardinality(upTo(k)) \in Nat /\ Cardinality(upTo(k)) <= m
  BY FS_Subset, FS_CardinalityType
<1>3. \A k \in S : Cardinality(upTo(k)) # 0
  <2>1. ASSUME NEW k \in S, Cardinality(upTo(k)) = 0 PROVE FALSE
    <3>1. upTo(k) = {}
      BY <1>2, <2>1, FS_EmptySet
    <3>q. QED BY <1>2, <3>1
  <2>q. QED BY <2>1
<1>4. \A j, k \in S : j < k => Cardinality(upTo(j)) < Cardinality(upTo(k))
  <2>1. ASSUME NEW j \in S, NEW k \in S, j < k
        PROVE  Cardinality(upTo(j)) < Cardinality(upTo(k))
    <3>0. j \in Int /\ k \in Int /\ \A x \in S : x \in Int
      OBVIOUS
    <3>a. ~(k <= j) /\ \A x \in S : x <= j => x <= k
      BY <2>1, <3>0
    <3>b. upTo(j) \subseteq upTo(k)
      BY <3>a
    <3>1. upTo(j) \in SUBSET upTo(k) /\ k \notin upTo(j)
      BY <3>a, <3>b
    <3>2. IsFiniteSet(upTo(k)) /\ k \in upTo(k) /\ Cardinality(upTo(k)) \in Nat /\ Cardinality(upTo(j)) \in Nat
      BY <1>2
    <3> HIDE DEF upTo
    <3>3. Cardinality(upTo(j)) <= Cardinality(upTo(k)) /\ Cardinality(upTo(j)) # Cardinality(upTo(k))
      BY <3>1, <3>2, FS_Subset
    <3>q. QED BY <3>2, <3>3
  <2>q. QED BY <2>1
<1> HIDE DEF upTo
<1>5. rank \in [S -> 1..m]
  BY <1>1, <1>2, <1>3
<1>6. rank \in Injection(S, 1..m)
  <2>1. \A j, k \in S : rank[j] = rank[k] => j = k
    <3>1. ASSUME NEW j \in S, NEW k \in S, rank[j] = rank[k] PROVE j = k
      <4>1. ~(j < k) /\ ~(k < j)
        BY <1>2, <1>4, <3>1
      <4>2. j \in Int /\ k \in Int
        OBVIOUS
      <4>q. QED BY <4>1, <4>2
    <3>q. QED BY <3>1
  <2>q. QED BY <1>5, <2>1 DEF Injection, IsInjective
<1>7. IsFiniteSet(1..m) /\ Cardinality(1..m) = m
  BY <1>1, FS_Interval
<1>8. rank \in Surjection(S, 1..m)
  BY <1>6, <1>7, FS_Injection
<1>9. \A i \in 1..m : \E k \in S : Cardinality(upTo(k)) = i
  BY <1>8 DEF Surjection
<1>q. QED BY <1>4, <1>9 DEF Rank, upTo

-----------------------------------------------------------------------------
\* A set of the numbers 0..n that is not empty has a greatest element, which Max is.
LEMMA MaxUpTo ==
    ASSUME NEW n \in Nat, NEW S \in SUBSET (0..n), S # {}
    PROVE  Max(S) \in S /\ \A y \in S : Max(S) >= y
<1> DEFINE R == {n - x : x \in S}
<1>0. \A x \in S : x \in Nat /\ x <= n /\ n - x \in Nat
  OBVIOUS
<1>1. R \in SUBSET Nat /\ R # {}
  BY <1>0
<1>2. Min(R) \in R /\ \A y \in R : Min(R) <= y
  BY <1>1, MinIsLeast
<1>3. PICK x \in S : Min(R) = n - x
  BY <1>2
<1>4. ASSUME NEW y \in S PROVE x >= y
  <2>1. n - y \in R
    OBVIOUS
  <2>2. n - x <= n - y
    BY <1>2, <1>3, <2>1
  <2>3. x \in Nat /\ y \in Nat
    BY <1>0
  <2>q. QED BY <2>2, <2>3
<1>5. \E z \in S : \A y \in S : z >= y
  BY <1>4
<1>q. QED BY <1>5 DEF Max

\* The same for the numbers 1..n.
LEMMA MaxIsGreatest ==
    ASSUME NEW n \in Nat, NEW S \in SUBSET (1..n), S # {}
    PROVE  Max(S) \in S /\ \A y \in S : Max(S) >= y
<1>1. S \in SUBSET (0..n)
  OBVIOUS
<1>q. QED BY <1>1, MaxUpTo

\* What is true of the fold of nothing and kept by each step is true of the whole.
LEMMA FoldedStays ==
    ASSUME NEW n \in Nat, NEW T, NEW f, f[{}] \in T,
           \A k \in 1..n : f[1..(k - 1)] \in T => f[1..k] \in T
    PROVE  f[1..n] \in T
<1> DEFINE Bad == {k \in 0..n : f[1..k] \notin T}
<1>1. SUFFICES ASSUME Bad # {} PROVE FALSE
  OBVIOUS
<1>0. Bad \in SUBSET Nat
  OBVIOUS
<1>2. Min(Bad) \in Bad /\ \A y \in Bad : Min(Bad) <= y
  <2> HIDE DEF Bad
  <2>q. QED BY <1>0, <1>1, MinIsLeast
<1>3. PICK k \in 0..n : f[1..k] \notin T /\ \A y \in Bad : k <= y
  BY <1>2
<1>4. k # 0
  <2>1. 1..0 = {}
    OBVIOUS
  <2>q. QED BY <1>3, <2>1
<1>5. k \in 1..n /\ k - 1 \in 0..n /\ ~(k <= k - 1)
  BY <1>4
<1>6. f[1..(k - 1)] \in T
  BY <1>3, <1>5
<1>q. QED BY <1>3, <1>5, <1>6

\* One step of a fold over the set s of places.
Folded(h, s, base, g) == IF s = {} THEN base ELSE g[<<h[s \ {Max(s)}], Max(s)>>]

\* h is the fold of every set of the first n places.
Folds(h, n, T, base, g) ==
    /\ h \in [SUBSET (1..n) -> T]
    /\ \A s \in SUBSET (1..n) : h[s] = Folded(h, s, base, g)

\* Folding with a function from states and places to states is well defined.
LEMMA FoldExists ==
    ASSUME NEW n \in Nat, NEW T, NEW base \in T, NEW g, g \in [T \X (1..n) -> T]
    PROVE  \E h : Folds(h, n, T, base, g)
<1> DEFINE Upto(k) == \E h : Folds(h, k, T, base, g)
           Bad == {k \in 0..n : ~Upto(k)}
<1>1. SUFFICES ASSUME Bad # {} PROVE FALSE
  <2>1. n \in 0..n
    OBVIOUS
  <2>2. n \notin Bad => Upto(n)
    <3> HIDE DEF Upto
    <3>q. QED BY <2>1
  <2>q. QED BY <1>1, <2>2
<1>0. Bad \in SUBSET Nat
  OBVIOUS
<1>2. Min(Bad) \in Bad /\ \A y \in Bad : Min(Bad) <= y
  <2> HIDE DEF Bad
  <2>q. QED BY <1>0, <1>1, MinIsLeast
<1>3. PICK k \in 0..n : ~Upto(k) /\ \A y \in Bad : k <= y
  BY <1>2
<1>4. k # 0
  <2>1. Upto(0)
    <3> DEFINE h == [s \in SUBSET (1..0) |-> base]
    <3>1. SUBSET (1..0) = {{}}
      OBVIOUS
    <3>2. h \in [SUBSET (1..0) -> T] /\ \A s \in SUBSET (1..0) : h[s] = Folded(h, s, base, g)
      BY <3>1 DEF Folded
    <3> HIDE DEF h
    <3>q. QED BY <3>2 DEF Folds
  <2>q. QED BY <1>3, <2>1
<1>5. k \in 1..n /\ k - 1 \in 0..n /\ ~(k <= k - 1)
  BY <1>4
<1>6. Upto(k - 1)
  BY <1>3, <1>5
<1>7. PICK f \in [SUBSET (1..(k - 1)) -> T] :
        \A s \in SUBSET (1..(k - 1)) : f[s] = Folded(f, s, base, g)
  BY <1>6 DEF Folds
<1> HIDE DEF Upto, Bad
<1> DEFINE h == [s \in SUBSET (1..k) |-> Folded(f, s, base, g)]
<1>8. ASSUME NEW s \in SUBSET (1..k), s # {}
      PROVE  Max(s) \in 1..n /\ s \ {Max(s)} \in SUBSET (1..(k - 1))
  <2>0. k \in Nat
    BY <1>5
  <2>1. Max(s) \in s /\ \A y \in s : Max(s) >= y
    BY <2>0, <1>8, MaxIsGreatest
  <2>2. Max(s) \in 1..k
    BY <2>1
  <2>3. ASSUME NEW y \in s \ {Max(s)} PROVE y \in 1..(k - 1)
    <3>1. y \in 1..k /\ Max(s) >= y /\ y # Max(s)
      BY <2>1
    <3>q. QED BY <3>1, <2>2
  <2>4. Max(s) \in 1..n
    BY <2>2, <1>5
  <2>5. s \ {Max(s)} \subseteq 1..(k - 1)
    BY <2>3
  <2>q. QED BY <2>4, <2>5
<1>9. \A s \in SUBSET (1..k) : Folded(f, s, base, g) \in T
  <2>1. ASSUME NEW s \in SUBSET (1..k) PROVE Folded(f, s, base, g) \in T
    <3>1. CASE s = {}
      BY <3>1 DEF Folded
    <3>2. CASE s # {}
      <4>1. Max(s) \in 1..n /\ f[s \ {Max(s)}] \in T
        BY <1>8, <3>2
      <4>q. QED BY <4>1, <3>2 DEF Folded
    <3>q. QED BY <3>1, <3>2
  <2>q. QED BY <2>1
<1>10. h \in [SUBSET (1..k) -> T]
  BY <1>9
<1>11. ASSUME NEW s \in SUBSET (1..k) PROVE h[s] = Folded(h, s, base, g)
  <2>1. CASE s = {}
    BY <2>1 DEF Folded
  <2>2. CASE s # {}
    <3> DEFINE t == s \ {Max(s)}
    <3>1. t \in SUBSET (1..(k - 1))
      BY <1>8, <2>2
    <3>2. t \in SUBSET (1..k)
      BY <3>1, <1>5
    <3>3. h[t] = f[t]
      BY <3>1, <3>2, <1>7
    <3>4. h[s] = g[<<f[t], Max(s)>>]
      BY <2>2 DEF Folded
    <3>5. Folded(h, s, base, g) = g[<<h[t], Max(s)>>]
      BY <2>2 DEF Folded
    <3>q. QED BY <3>3, <3>4, <3>5
  <2>q. QED BY <2>1, <2>2
<1>12. Upto(k)
  <2> HIDE DEF h
  <2>q. QED BY <1>10, <1>11 DEF Upto, Folds
<1>q. QED BY <1>3, <1>12

\* The greatest of the first k places, and what is left without it.
LEMMA FirstPlaces ==
    ASSUME NEW n \in Nat, NEW k \in 1..n
    PROVE  /\ 1..k \in SUBSET (1..n) /\ 1..k # {} /\ Max(1..k) = k /\ (1..k) \ {k} = 1..(k - 1)
           /\ 1..n \in SUBSET (1..n) /\ {} \in SUBSET (1..n)
<1> DEFINE S == 1..k
<1>1. S \in SUBSET (1..n) /\ k \in S /\ S # {} /\ k \in Int /\ \A y \in S : y \in Int /\ y <= k
  OBVIOUS
<1>2. (1..k) \ {k} = 1..(k - 1)
  OBVIOUS
<1> HIDE DEF S
<1>3. Max(S) \in S /\ \A y \in S : Max(S) >= y
  BY <1>1, MaxIsGreatest
<1>4. Max(S) = k
  <2> DEFINE t == Max(S)
  <2>1. t \in Int /\ t <= k /\ t >= k
    BY <1>1, <1>3
  <2> HIDE DEF t
  <2>2. t = k
    BY <2>1, <1>1
  <2>q. QED BY <2>2 DEF t
<1>q. QED BY <1>1, <1>2, <1>4 DEF S
=============================================================================
