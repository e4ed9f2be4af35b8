--------------------------- MODULE Lv2SchedProofs ---------------------------
(***************************************************************************)
(* Proofs about the scheduler of module Lv2Sched, for every set of         *)
(* threads, every set of priorities and every number of hardware threads:  *)
(* where the threads are (IndInv), and then that no signal, notification   *)
(* or timeout of an earlier wait is left over (Clean).                     *)
(***************************************************************************)
EXTENDS Lv2Sched, FiniteSetTheorems, TLAPS

\* The backend of every leaf that does not name another one.
USE ZenonT(30)

-----------------------------------------------------------------------------
\* A set of natural numbers that is not empty has a least element.
LEMMA SmallestOf ==
  ASSUME NEW T, T \subseteq Nat, T # {}
  PROVE  /\ Min(T) \in T
         /\ \A y \in T : Min(T) <= y
<1>1. PICK x \in T : \A y \in T : ~(<<y, x>> \in OpToRel(<, Nat))
  <2> DEFINE R == OpToRel(<, Nat)
  <2>1. IsWellFoundedOn(R, Nat)
    BY NatLessThanWellFounded
  <2> HIDE DEF R
  <2>2. \E x \in T : \A y \in T : ~(<<y, x>> \in R)
    BY <2>1, WFMin
  <2>3. QED
    BY <2>2 DEF R
<1>2. ASSUME NEW y \in T
      PROVE  ~(y < x)
  BY <1>1, <1>2 DEF OpToRel
<1>3. \A y \in T : x <= y
  BY <1>2, SMT
<1>4. QED
  BY <1>3 DEF Min

\* A piece of a sequence, position by position.
LEMMA Piece ==
  ASSUME NEW S, NEW q \in Seq(S), NEW m \in 1 .. Len(q) + 1, NEW n \in m - 1 .. Len(q)
  PROVE  /\ SubSeq(q, m, n) \in Seq(S)
         /\ Len(SubSeq(q, m, n)) = n - m + 1
         /\ \A j \in 1 .. n - m + 1 : SubSeq(q, m, n)[j] = q[m + j - 1]
<1>1. /\ Len(q) \in Nat
      /\ \A j \in 1 .. Len(q) : q[j] \in S
  BY SMT
<1> DEFINE a == SubSeq(q, m, n)
<1>2. \A j \in m .. n : q[j] \in S
  BY <1>1, SMT
<1>3. /\ a \in Seq(S)
      /\ Len(a) = IF m <= n THEN n - m + 1 ELSE 0
      /\ \A j \in 1 .. n - m + 1 : a[j] = q[m + j - 1]
  BY <1>1, <1>2, SMT
<1> HIDE DEF a
<1>4. Len(a) = n - m + 1
  BY <1>1, <1>3, SMT
<1>5. QED
  BY <1>3, <1>4 DEF a

\* One sequence after the other, position by position.
LEMMA Joined ==
  ASSUME NEW S, NEW p \in Seq(S), NEW q \in Seq(S)
  PROVE  /\ p \o q \in Seq(S)
         /\ Len(p \o q) = Len(p) + Len(q)
         /\ \A j \in 1 .. Len(p) + Len(q) :
              (p \o q)[j] = IF j <= Len(p) THEN p[j] ELSE q[j - Len(p)]
  BY SMT

\* What a sequence is once the element at i is taken out.
LEMMA UnlinkElements ==
  ASSUME NEW q \in Seq(Threads), NEW i \in 1 .. Len(q)
  PROVE  /\ Unlink(q, i) \in Seq(Threads)
         /\ Len(Unlink(q, i)) = Len(q) - 1
         /\ \A j \in 1 .. Len(q) - 1 :
              Unlink(q, i)[j] = IF j < i THEN q[j] ELSE q[j + 1]
<1> DEFINE a == SubSeq(q, 1, i - 1)
           b == SubSeq(q, i + 1, Len(q))
<1>1. Len(q) \in Nat
  BY SMT
<1>2. /\ a \in Seq(Threads)
      /\ Len(a) = i - 1
      /\ \A j \in 1 .. i - 1 : a[j] = q[j]
  <2>1. /\ 1 \in 1 .. Len(q) + 1 /\ i - 1 \in 1 - 1 .. Len(q)
        /\ (i - 1) - 1 + 1 = i - 1
        /\ \A j \in 1 .. i - 1 : 1 + j - 1 = j
    BY <1>1, SMT
  <2>2. QED
    BY <2>1, Piece, SMT
<1>3. /\ b \in Seq(Threads)
      /\ Len(b) = Len(q) - i
      /\ \A j \in 1 .. Len(q) - i : b[j] = q[i + j]
  <2>1. /\ i + 1 \in 1 .. Len(q) + 1 /\ Len(q) \in (i + 1) - 1 .. Len(q)
    BY <1>1, SMT
  <2>2. /\ b \in Seq(Threads)
        /\ Len(b) = Len(q) - (i + 1) + 1
        /\ \A j \in 1 .. Len(q) - (i + 1) + 1 : b[j] = q[(i + 1) + j - 1]
    BY <2>1, Piece
  <2> HIDE DEF b
  <2>3. QED
    BY <2>2, <1>1, SMT
<1>4. Unlink(q, i) = a \o b
  BY DEF Unlink
<1> HIDE DEF a, b
<1>5. /\ a \o b \in Seq(Threads)
      /\ Len(a \o b) = Len(a) + Len(b)
      /\ \A j \in 1 .. Len(a) + Len(b) :
           (a \o b)[j] = IF j <= Len(a) THEN a[j] ELSE b[j - Len(a)]
  BY <1>2, <1>3, Joined
<1>6. ASSUME NEW j \in 1 .. Len(q) - 1
      PROVE  (a \o b)[j] = IF j < i THEN q[j] ELSE q[j + 1]
  <2>1. (a \o b)[j] = IF j <= i - 1 THEN a[j] ELSE b[j - (i - 1)]
    BY <1>1, <1>2, <1>3, <1>5, SMT
  <2>2. CASE j < i
    BY <2>1, <2>2, <1>1, <1>2, SMT
  <2>3. CASE ~(j < i)
    <3>1. j - (i - 1) \in 1 .. Len(q) - i /\ i + (j - (i - 1)) = j + 1
      BY <2>3, <1>1, SMT
    <3>2. (a \o b)[j] = b[j - (i - 1)]
      BY <2>1, <2>3, <1>1, SMT
    <3>3. b[j - (i - 1)] = q[j + 1]
      BY <3>1, <1>3
    <3>4. QED
      BY <3>2, <3>3, <2>3
  <2>4. QED
    BY <2>2, <2>3
<1>7. QED
  BY <1>1, <1>2, <1>3, <1>4, <1>5, <1>6, SMT

\* r is q with u put in before position i.
LinkedTo(r, q, i, u) ==
  /\ r \in Seq(Threads)
  /\ Len(r) = Len(q) + 1
  /\ \A j \in 1 .. Len(q) + 1 :
       r[j] = IF j < i THEN q[j] ELSE IF j = i THEN u ELSE q[j - 1]

\* Link puts the thread where it says.
LEMMA LinkElements ==
  ASSUME NEW q \in Seq(Threads), NEW i \in 1 .. Len(q) + 1, NEW u \in Threads
  PROVE  LinkedTo(Link(q, i, u), q, i, u)
<1> DEFINE a == SubSeq(q, 1, i - 1)
           b == SubSeq(q, i, Len(q))
           c == a \o <<u>>
<1>1. Len(q) \in Nat
  BY SMT
<1>2. /\ a \in Seq(Threads)
      /\ Len(a) = i - 1
      /\ \A j \in 1 .. i - 1 : a[j] = q[j]
  <2>1. /\ 1 \in 1 .. Len(q) + 1 /\ i - 1 \in 1 - 1 .. Len(q)
        /\ (i - 1) - 1 + 1 = i - 1
        /\ \A j \in 1 .. i - 1 : 1 + j - 1 = j
    BY <1>1, SMT
  <2>2. QED
    BY <2>1, Piece, SMT
<1>3. /\ b \in Seq(Threads)
      /\ Len(b) = Len(q) - i + 1
      /\ \A j \in 1 .. Len(q) - i + 1 : b[j] = q[i + j - 1]
  <2>1. Len(q) \in i - 1 .. Len(q)
    BY <1>1, SMT
  <2>2. QED
    BY <2>1, Piece
<1>4. Link(q, i, u) = c \o b
  BY DEF Link
<1> HIDE DEF a, b
<1>5. <<u>> \in Seq(Threads) /\ Len(<<u>>) = 1 /\ <<u>>[1] = u
  BY SMT
<1>6. /\ c \in Seq(Threads)
      /\ Len(c) = Len(a) + Len(<<u>>)
      /\ \A j \in 1 .. Len(a) + Len(<<u>>) :
           c[j] = IF j <= Len(a) THEN a[j] ELSE <<u>>[j - Len(a)]
  BY <1>2, <1>5, SMT
<1> HIDE DEF c
<1>7. /\ Len(c) = i
      /\ c[i] = u
      /\ \A j \in 1 .. i - 1 : c[j] = q[j]
  <2>1. Len(c) = i
    BY <1>1, <1>2, <1>5, <1>6, SMT
  <2>2. i \in 1 .. Len(a) + Len(<<u>>) /\ ~(i <= Len(a)) /\ i - Len(a) = 1
    BY <1>1, <1>2, <1>5, SMT
  <2>3. c[i] = <<u>>[1]
    BY <2>2, <1>6
  <2>4. ASSUME NEW j \in 1 .. i - 1
        PROVE  c[j] = q[j]
    <3>1. j \in 1 .. Len(a) + Len(<<u>>) /\ j <= Len(a)
      BY <1>1, <1>2, <1>5, SMT
    <3>2. QED
      BY <3>1, <1>2, <1>6
  <2>5. QED
    BY <2>1, <2>3, <2>4, <1>5
<1> c \in Seq(Threads) /\ b \in Seq(Threads)
  BY <1>3, <1>6
<1>8. /\ c \o b \in Seq(Threads)
      /\ Len(c \o b) = Len(c) + Len(b)
      /\ \A j \in 1 .. Len(c) + Len(b) :
           (c \o b)[j] = IF j <= Len(c) THEN c[j] ELSE b[j - Len(c)]
  BY SMT
<1>9. ASSUME NEW j \in 1 .. Len(q) + 1
      PROVE  (c \o b)[j] = IF j < i THEN q[j] ELSE IF j = i THEN u ELSE q[j - 1]
  <2>1. (c \o b)[j] = IF j <= i THEN c[j] ELSE b[j - i]
    BY <1>1, <1>3, <1>7, <1>8, SMT
  <2>2. CASE j <= i
    BY <2>1, <2>2, <1>1, <1>7, SMT
  <2>3. CASE ~(j <= i)
    <3>1. j - i \in 1 .. Len(q) - i + 1 /\ i + (j - i) - 1 = j - 1
      BY <2>3, <1>1, SMT
    <3>2. b[j - i] = q[i + (j - i) - 1]
      BY ONLY <3>1, <1>3, Zenon
    <3>3. (c \o b)[j] = q[j - 1]
      BY <3>1, <3>2, <2>1, <2>3
    <3>4. ~(j < i) /\ j # i
      BY <2>3, SMT
    <3>5. QED
      BY <3>3, <3>4
  <2>4. QED
    BY <2>2, <2>3
<1>10. QED
  BY <1>1, <1>3, <1>4, <1>7, <1>8, <1>9, SMT DEF LinkedTo

-----------------------------------------------------------------------------
\* No thread is in a run queue twice.
Distinct(q) == \A i, j \in DOMAIN q : i # j => q[i] # q[j]

\* The most urgent threads come first.
Sorted(q, p) == \A i, j \in DOMAIN q : i < j => p[q[i]] <= p[q[j]]

RunQueue(q, p) == q \in Seq(Threads) /\ Distinct(q) /\ Sorted(q, p)

\* There are not more places than hardware threads.
LEMMA PlacesBounded ==
  ASSUME NEW q \in Seq(Threads)
  PROVE  /\ Placed(q) \subseteq Threads
         /\ IsFiniteSet(Placed(q))
         /\ Cardinality(Placed(q)) <= ppu_threads
<1>1. ppu_threads \in Nat
  BY SchedAssumption DEF SchedAssumption
<1>2. /\ Len(q) \in Nat /\ DOMAIN q = 1 .. Len(q)
      /\ \A j \in DOMAIN q : q[j] \in Threads
  BY SMT
<1> DEFINE J == {j \in DOMAIN q : j <= ppu_threads}
           P == {q[j] : j \in J}
           f == [j \in J |-> q[j]]
<1>3. IsFiniteSet(1 .. ppu_threads) /\ Cardinality(1 .. ppu_threads) = ppu_threads
  BY <1>1, FS_Interval, SMT
<1>4. J \in SUBSET (1 .. ppu_threads)
  BY <1>1, <1>2, SMT
<1>5. IsFiniteSet(J) /\ Cardinality(J) <= ppu_threads
  <2> HIDE DEF J
  <2>1. QED
    BY <1>3, <1>4, FS_Subset
<1>6. f \in Surjection(J, P)
  BY DEF Surjection
<1>7. /\ IsFiniteSet(P) /\ Cardinality(P) <= Cardinality(J)
  <2> HIDE DEF J, P, f
  <2>1. QED
    BY <1>5, <1>6, FS_Surjection
<1>8. Cardinality(J) \in Nat /\ Cardinality(P) \in Nat
  <2> HIDE DEF J, P
  <2>1. QED
    BY <1>5, <1>7, FS_CardinalityType
<1>9. P \subseteq Threads
  BY <1>2
<1>10. Placed(q) = P
  BY DEF Placed
<1>11. QED
  <2> HIDE DEF J, P
  <2>1. QED
    BY <1>1, <1>5, <1>7, <1>8, <1>9, <1>10, SMT

\* A thread of the queue has a place or not, and not both.
LEMMA PlacedOrNot ==
  ASSUME NEW q \in Seq(Threads), Distinct(q)
  PROVE  /\ Members(q) = Placed(q) \union OutOfPlace(q)
         /\ Placed(q) \intersect OutOfPlace(q) = {}
         /\ Members(q) \subseteq Threads
<1>1. ppu_threads \in Nat
  BY SchedAssumption DEF SchedAssumption
<1>2. /\ Len(q) \in Nat /\ DOMAIN q = 1 .. Len(q)
      /\ \A j \in DOMAIN q : q[j] \in Threads
  BY SMT
<1>3. \A j \in DOMAIN q : j \in Nat /\ (j <= ppu_threads \/ j > ppu_threads)
  BY <1>1, <1>2, SMT
<1>4. Members(q) \subseteq Placed(q) \union OutOfPlace(q)
  BY <1>3 DEF Members, Placed, OutOfPlace
<1>5. Placed(q) \union OutOfPlace(q) \subseteq Members(q)
  BY DEF Members, Placed, OutOfPlace
<1>6. ASSUME NEW i \in DOMAIN q, NEW j \in DOMAIN q,
             i <= ppu_threads, j > ppu_threads
      PROVE  q[i] # q[j]
  <2>1. i # j
    BY <1>1, <1>3, <1>6, SMT
  <2>2. QED
    BY <2>1 DEF Distinct
<1>7. Placed(q) \intersect OutOfPlace(q) = {}
  BY <1>6 DEF Placed, OutOfPlace
<1>8. QED
  BY <1>2, <1>4, <1>5, <1>7 DEF Members

\* Putting a new thread in: the members, and still none twice.
LEMMA LinkMembers ==
  ASSUME NEW q \in Seq(Threads), Distinct(q), NEW i \in 1 .. Len(q) + 1,
         NEW u \in Threads, u \notin Members(q)
  PROVE  /\ Link(q, i, u) \in Seq(Threads)
         /\ Distinct(Link(q, i, u))
         /\ Members(Link(q, i, u)) = Members(q) \union {u}
<1>1. LinkedTo(Link(q, i, u), q, i, u)
  BY LinkElements
<1> DEFINE r == Link(q, i, u)
           n == Len(q)
           at(k) == IF k < i THEN k ELSE k - 1
<1>2. /\ n \in Nat /\ DOMAIN q = 1 .. n
      /\ r \in Seq(Threads)
      /\ Len(r) = n + 1
      /\ \A j \in 1 .. n + 1 : r[j] = IF j < i THEN q[j] ELSE IF j = i THEN u ELSE q[j - 1]
  BY <1>1, SMT DEF LinkedTo
<1>3. DOMAIN r = 1 .. n + 1
  BY <1>2, SMT
<1> HIDE DEF r, n
<1>4. i \in DOMAIN r /\ r[i] = u
  BY <1>2, <1>3, SMT DEF n
<1>5. ASSUME NEW k \in DOMAIN r, k # i
      PROVE  at(k) \in DOMAIN q /\ r[k] = q[at(k)]
  BY <1>2, <1>3, <1>5, SMT DEF n
<1>6. ASSUME NEW k \in DOMAIN r, k # i, NEW l \in DOMAIN r, l # i, at(k) = at(l)
      PROVE  k = l
  BY <1>2, <1>3, <1>6, SMT DEF n
<1>7. ASSUME NEW k \in DOMAIN q
      PROVE  \E l \in DOMAIN r : r[l] = q[k]
  <2>1. CASE k < i
    <3>1. k \in 1 .. n + 1 /\ r[k] = q[k]
      BY <2>1, <1>2, SMT
    <3>2. QED
      BY <3>1, <1>3
  <2>2. CASE ~(k < i)
    <3>1. k + 1 \in 1 .. n + 1 /\ ~(k + 1 < i) /\ k + 1 # i /\ (k + 1) - 1 = k
      BY <2>2, <1>2, SMT DEF n
    <3>2. r[k + 1] = q[k]
      BY <3>1, <1>2, SMT
    <3>3. QED
      BY <3>1, <3>2, <1>3
  <2>3. QED
    BY <2>1, <2>2
<1>8. \A k \in DOMAIN q : q[k] # u
  BY DEF Members
<1> HIDE DEF at
<1>9. Distinct(r)
  <2>1. ASSUME NEW k \in DOMAIN r, NEW l \in DOMAIN r, k # l
        PROVE  r[k] # r[l]
    <3>1. CASE k = i
      BY <3>1, <2>1, <1>4, <1>5, <1>8
    <3>2. CASE l = i
      BY <3>2, <2>1, <1>4, <1>5, <1>8
    <3>3. CASE k # i /\ l # i
      BY <3>3, <2>1, <1>5, <1>6 DEF Distinct
    <3>4. QED
      BY <3>1, <3>2, <3>3
  <2>2. QED
    BY <2>1 DEF Distinct
<1>10. Members(r) = Members(q) \union {u}
  BY <1>4, <1>5, <1>7, SMT DEF Members
<1>11. QED
  BY <1>2, <1>9, <1>10 DEF r

\* insert puts a thread behind those that are at least as urgent.
LEMMA InsertSorted ==
  ASSUME prio \in [Threads -> Int], NEW q, RunQueue(q, prio),
         NEW u \in Threads, u \notin Members(q), NEW p \in Int
  PROVE  /\ RunQueue(insert(q, u, p), [prio EXCEPT ![u] = p])
         /\ Members(insert(q, u, p)) = Members(q) \union {u}
<1> DEFINE n == Len(q)
           Above == {i \in DOMAIN q : prio[q[i]] > p} \union {Len(q) + 1}
           i == Min(Above)
           r == Link(q, i, u)
           np == [prio EXCEPT ![u] = p]
<1> q \in Seq(Threads) /\ Distinct(q) /\ Sorted(q, prio)
  BY DEF RunQueue
<1>1. /\ n \in Nat /\ DOMAIN q = 1 .. n
      /\ \A j \in DOMAIN q : q[j] \in Threads /\ prio[q[j]] \in Int /\ q[j] # u
  BY SMT DEF Members
<1>2. i \in Above /\ \A y \in Above : i <= y
  <2>1. Above \subseteq Nat /\ Above # {}
    BY <1>1, SMT
  <2> HIDE DEF Above
  <2>2. QED
    BY <2>1, SmallestOf
<1>3. i \in 1 .. Len(q) + 1
  <2> HIDE DEF i
  <2>1. QED
    BY <1>1, <1>2, SMT
<1>4. ASSUME NEW j \in DOMAIN q
      PROVE  /\ j < i => prio[q[j]] <= p
             /\ j >= i => prio[q[j]] >= p
  <2> HIDE DEF i
  <2>1. CASE j < i
    <3>1. j \notin Above
      BY <2>1, <1>1, <1>2, <1>3, SMT
    <3>2. QED
      BY <3>1, <2>1, <1>1, <1>3, SMT
  <2>2. CASE j >= i
    <3>1. i \in DOMAIN q /\ prio[q[i]] > p
      BY <2>2, <1>1, <1>2, <1>3, SMT
    <3>2. prio[q[i]] <= prio[q[j]]
      <4>1. CASE i = j
        BY <4>1, <1>1, SMT
      <4>2. CASE i < j
        BY <4>2, <3>1 DEF Sorted
      <4>3. QED
        BY <4>1, <4>2, <2>2, <1>1, <1>3, SMT
    <3>3. QED
      BY <3>1, <3>2, <2>2, <1>1, <1>3, SMT
  <2>3. QED
    BY <2>1, <2>2, <1>1, <1>3
<1> HIDE DEF i, Above
<1>5. /\ r \in Seq(Threads) /\ Distinct(r) /\ Members(r) = Members(q) \union {u}
  BY <1>3, LinkMembers
<1>6. /\ Len(r) = n + 1
      /\ \A j \in 1 .. n + 1 : r[j] = IF j < i THEN q[j] ELSE IF j = i THEN u ELSE q[j - 1]
  <2>1. LinkedTo(r, q, i, u)
    BY <1>3, LinkElements
  <2> HIDE DEF r
  <2>2. QED
    BY <2>1 DEF LinkedTo
<1>7. DOMAIN r = 1 .. n + 1
  BY <1>5, <1>6, SMT
<1>8. np[u] = p /\ \A j \in DOMAIN q : np[q[j]] = prio[q[j]]
  BY <1>1
<1>9. \A j, k \in DOMAIN q : j < k => prio[q[j]] <= prio[q[k]]
  BY DEF Sorted
<1> HIDE DEF r, n, np
<1>10. ASSUME NEW j \in DOMAIN r, NEW k \in DOMAIN r, j < k
       PROVE  np[r[j]] <= np[r[k]]
  <2>1. i \in 1 .. n + 1
    BY <1>3 DEF n
  <2>2. CASE k < i
    <3>1. j \in DOMAIN q /\ k \in DOMAIN q /\ r[j] = q[j] /\ r[k] = q[k]
      BY <2>1, <2>2, <1>10, <1>1, <1>6, <1>7, SMT
    <3>2. QED
      BY <3>1, <1>8, <1>9, <1>10
  <2>3. CASE k = i
    <3>1. j \in DOMAIN q /\ j < i /\ r[j] = q[j] /\ r[k] = u
      BY <2>1, <2>3, <1>10, <1>1, <1>6, <1>7, SMT
    <3>2. QED
      BY <3>1, <1>4, <1>8
  <2>4. CASE k > i
    <3>1. k - 1 \in DOMAIN q /\ k - 1 >= i /\ r[k] = q[k - 1]
      BY <2>1, <2>4, <1>10, <1>1, <1>6, <1>7, SMT
    <3>2. CASE j < i
      <4>1. j \in DOMAIN q /\ r[j] = q[j] /\ j < k - 1
        BY <2>1, <2>4, <3>2, <1>10, <1>1, <1>6, <1>7, SMT
      <4>2. QED
        BY <3>1, <4>1, <1>8, <1>9
    <3>3. CASE j = i
      <4>1. r[j] = u
        BY <3>3, <1>6, <1>7, SMT
      <4>2. QED
        BY <4>1, <3>1, <1>4, <1>8
    <3>4. CASE j > i
      <4>1. j - 1 \in DOMAIN q /\ r[j] = q[j - 1] /\ j - 1 < k - 1
        BY <2>1, <3>4, <1>10, <1>1, <1>6, <1>7, SMT
      <4>2. QED
        BY <3>1, <4>1, <1>8, <1>9
    <3>5. QED
      BY <3>2, <3>3, <3>4, <2>1, <1>7, <1>1, SMT
  <2>5. QED
    BY <2>2, <2>3, <2>4, <2>1, <1>7, <1>1, SMT
<1>11. Sorted(r, np)
  BY <1>10 DEF Sorted
<1>12. insert(q, u, p) = r
  BY DEF insert, r, i, Above
<1>13. QED
  BY <1>5, <1>11, <1>12 DEF RunQueue, np

\* emplace keeps the queue in order, and the thread is in it.
LEMMA EmplaceQueue ==
  ASSUME prio \in [Threads -> Int], NEW q, RunQueue(q, prio), NEW u \in Threads
  PROVE  /\ RunQueue(emplace(q, u), prio)
         /\ Members(emplace(q, u)) = Members(q) \union {u}
<1>1. CASE u \in Members(q)
  BY <1>1 DEF emplace
<1>2. CASE u \notin Members(q)
  <2>1. prio[u] \in Int /\ [prio EXCEPT ![u] = prio[u]] = prio
    OBVIOUS
  <2>2. emplace(q, u) = insert(q, u, prio[u])
    BY <1>2 DEF emplace
  <2>3. /\ RunQueue(insert(q, u, prio[u]), [prio EXCEPT ![u] = prio[u]])
        /\ Members(insert(q, u, prio[u])) = Members(q) \union {u}
    BY <2>1, <1>2, InsertSorted
  <2>4. QED
    BY <2>1, <2>2, <2>3
<1>3. QED
  BY <1>1, <1>2

\* Taking a thread out lets the others move up.
LEMMA UnqueueQueue ==
  ASSUME NEW p, NEW q, RunQueue(q, p), NEW u
  PROVE  /\ RunQueue(unqueue(q, u), p)
         /\ Members(unqueue(q, u)) = Members(q) \ {u}
         /\ Placed(q) \ {u} \subseteq Placed(unqueue(q, u))
         /\ OutOfPlace(unqueue(q, u)) \subseteq OutOfPlace(q)
<1>1. CASE u \notin Members(q)
  <2>1. unqueue(q, u) = q
    BY <1>1 DEF unqueue
  <2>2. QED
    BY <2>1, <1>1
<1>2. CASE u \in Members(q)
  <2> DEFINE n == Len(q)
             i == CHOOSE k \in DOMAIN q : q[k] = u
             r == Unlink(q, i)
             at(k) == IF k < i THEN k ELSE k + 1
  <2> q \in Seq(Threads) /\ Distinct(q) /\ Sorted(q, p)
    BY DEF RunQueue
  <2>1. n \in Nat /\ DOMAIN q = 1 .. n
    BY SMT
  <2>2. i \in DOMAIN q /\ q[i] = u
    BY <1>2 DEF Members
  <2> HIDE DEF i
  <2>3. /\ r \in Seq(Threads)
        /\ Len(r) = n - 1
        /\ \A k \in 1 .. n - 1 : r[k] = IF k < i THEN q[k] ELSE q[k + 1]
    BY <2>1, <2>2, UnlinkElements
  <2>4. DOMAIN r = 1 .. n - 1
    BY <2>3, SMT
  <2>5. ppu_threads \in Nat
    BY SchedAssumption DEF SchedAssumption
  <2> HIDE DEF r, n
  <2>6. ASSUME NEW k \in DOMAIN r
        PROVE  /\ at(k) \in DOMAIN q /\ at(k) # i /\ r[k] = q[at(k)]
               /\ k > ppu_threads => at(k) > ppu_threads
               /\ \A l \in DOMAIN r : k < l => at(k) < at(l)
    BY <2>1, <2>2, <2>3, <2>4, <2>5, SMT
  <2>7. ASSUME NEW k \in DOMAIN q, k # i
        PROVE  \E l \in DOMAIN r :
                 r[l] = q[k] /\ (k <= ppu_threads => l <= ppu_threads)
    <3>1. CASE k < i
      <4>1. k \in DOMAIN r /\ r[k] = q[k]
        BY <3>1, <2>1, <2>2, <2>3, <2>4, SMT
      <4>2. QED
        BY <4>1
    <3>2. CASE ~(k < i)
      <4>1. /\ k - 1 \in DOMAIN r /\ ~(k - 1 < i) /\ (k - 1) + 1 = k
            /\ k <= ppu_threads => k - 1 <= ppu_threads
        BY <3>2, <2>1, <2>2, <2>4, <2>5, <2>7, SMT
      <4>2. r[k - 1] = q[k]
        BY <4>1, <2>3, <2>4
      <4>3. QED
        BY <4>1, <4>2
    <3>3. QED
      BY <3>1, <3>2
  <2>8. \A k, l \in DOMAIN r : k # l => k < l \/ l < k
    BY <2>1, <2>4, SMT
  <2>9. \A k, l \in DOMAIN q : k < l => k # l
    BY <2>1, SMT
  <2> HIDE DEF at
  <2>10. Distinct(r)
    <3>1. ASSUME NEW k \in DOMAIN r, NEW l \in DOMAIN r, k < l
          PROVE  r[k] # r[l]
      <4>1. at(k) \in DOMAIN q /\ at(l) \in DOMAIN q /\ at(k) # at(l)
        BY <3>1, <2>6, <2>9
      <4>2. QED
        BY <4>1, <2>6 DEF Distinct
    <3>2. QED
      BY <3>1, <2>8 DEF Distinct
  <2>11. Sorted(r, p)
    <3>1. ASSUME NEW k \in DOMAIN r, NEW l \in DOMAIN r, k < l
          PROVE  p[r[k]] <= p[r[l]]
      <4>1. at(k) \in DOMAIN q /\ at(l) \in DOMAIN q /\ at(k) < at(l)
        BY <3>1, <2>6
      <4>2. QED
        BY <4>1, <2>6 DEF Sorted
    <3>2. QED
      BY <3>1 DEF Sorted
  <2>12. \A k \in DOMAIN r : r[k] # u
    BY <2>2, <2>6 DEF Distinct
  <2>13. Members(r) = Members(q) \ {u}
    BY <2>2, <2>6, <2>7, <2>12, SMT DEF Members
  <2>14. Placed(q) \ {u} \subseteq Placed(r)
    BY <2>2, <2>7 DEF Placed
  <2>15. OutOfPlace(r) \subseteq OutOfPlace(q)
    BY <2>6 DEF OutOfPlace
  <2>16. unqueue(q, u) = r
    BY <1>2 DEF unqueue, r, i
  <2>17. QED
    BY <2>3, <2>10, <2>11, <2>13, <2>14, <2>15, <2>16 DEF RunQueue
<1>3. QED
  BY <1>1, <1>2

\* Moving a thread behind others of its priority, as yield does.
LEMMA RotateQueue ==
  ASSUME NEW p \in [Threads -> Int], NEW q, RunQueue(q, p),
         NEW i \in DOMAIN q, NEW j \in i .. Len(q),
         \A k \in i .. j : p[q[k]] = p[q[i]]
  PROVE  LET r == Link(Unlink(q, i), j, q[i])
         IN  /\ RunQueue(r, p)
             /\ Members(r) = Members(q)
             /\ j = i \/ j <= ppu_threads =>
                  Placed(q) \subseteq Placed(r) /\ OutOfPlace(r) \subseteq OutOfPlace(q)
<1> DEFINE n == Len(q)
           m == Unlink(q, i)
           r == Link(m, j, q[i])
           at(k) == IF k < i \/ k > j THEN k ELSE IF k = j THEN i ELSE k + 1
           back(k) == IF k < i \/ k > j THEN k ELSE IF k = i THEN j ELSE k - 1
<1> q \in Seq(Threads) /\ Distinct(q) /\ Sorted(q, p)
  BY DEF RunQueue
<1>1. /\ n \in Nat /\ DOMAIN q = 1 .. n
      /\ i \in 1 .. n /\ j \in 1 .. n /\ i <= j
      /\ \A k \in DOMAIN q : q[k] \in Threads /\ p[q[k]] \in Int
  BY SMT
<1>2. /\ m \in Seq(Threads)
      /\ Len(m) = n - 1
      /\ \A k \in 1 .. n - 1 : m[k] = IF k < i THEN q[k] ELSE q[k + 1]
  BY <1>1, UnlinkElements
<1> m \in Seq(Threads)
  BY <1>2
<1> HIDE DEF m
<1>3. /\ r \in Seq(Threads)
      /\ Len(r) = n
      /\ \A k \in 1 .. n : r[k] = IF k < j THEN m[k] ELSE IF k = j THEN q[i] ELSE m[k - 1]
  <2>1. Len(m) + 1 = n
    BY <1>1, <1>2, SMT
  <2>2. q[i] \in Threads /\ j \in 1 .. Len(m) + 1
    BY <2>1, <1>1
  <2>3. /\ r \in Seq(Threads)
        /\ Len(r) = Len(m) + 1
        /\ \A k \in 1 .. Len(m) + 1 :
             r[k] = IF k < j THEN m[k] ELSE IF k = j THEN q[i] ELSE m[k - 1]
    <3>1. LinkedTo(r, m, j, q[i])
      BY <2>2, LinkElements
    <3> HIDE DEF r
    <3>2. QED
      BY <3>1 DEF LinkedTo
  <2>4. QED
    BY <2>1, <2>3
<1>4. DOMAIN r = 1 .. n
  BY <1>3, SMT
<1>5. ppu_threads \in Nat
  BY SchedAssumption DEF SchedAssumption
<1> HIDE DEF r, n
<1>6. ASSUME NEW k \in DOMAIN r
      PROVE  at(k) \in DOMAIN q /\ r[k] = q[at(k)]
  <2>1. CASE k < i
    <3>1. k \in 1 .. n - 1 /\ k < j
      BY <2>1, <1>1, <1>4, SMT
    <3>2. r[k] = m[k] /\ m[k] = q[k]
      BY <3>1, <2>1, <1>2, <1>3, <1>4
    <3>3. at(k) = k /\ k \in DOMAIN q
      BY <2>1, <1>1, <1>4
    <3>4. QED
      BY <3>2, <3>3
  <2>2. CASE k > j
    <3>1. k - 1 \in 1 .. n - 1 /\ ~(k - 1 < i) /\ (k - 1) + 1 = k
      BY <2>2, <1>1, <1>4, SMT
    <3>2. r[k] = m[k - 1]
      <4>1. k \in 1 .. n /\ ~(k < j) /\ k # j
        BY <2>2, <1>1, <1>4, SMT
      <4>2. QED
        BY <4>1, <1>3
    <3>3. m[k - 1] = q[k]
      BY <3>1, <1>2
    <3>4. QED
      BY <3>2, <3>3, <2>2, <1>1, <1>4
  <2>3. CASE k = j
    BY <2>3, <1>1, <1>3, <1>4, SMT
  <2>4. CASE ~(k < i) /\ k < j
    <3>1. k \in 1 .. n - 1
      BY <2>4, <1>1, <1>4, SMT
    <3>2. r[k] = m[k] /\ m[k] = q[k + 1]
      BY <3>1, <2>4, <1>1, <1>2, <1>3, <1>4
    <3>3. at(k) = k + 1 /\ k + 1 \in DOMAIN q
      BY <3>1, <2>4, <1>1, <1>4, SMT
    <3>4. QED
      BY <3>2, <3>3
  <2>5. QED
    BY <2>1, <2>2, <2>3, <2>4, <1>1, <1>4, SMT
<1>7. ASSUME NEW k \in DOMAIN q
      PROVE  back(k) \in DOMAIN r /\ at(back(k)) = k
  BY <1>1, <1>4, SMT
<1>8. ASSUME NEW k \in DOMAIN r, NEW l \in DOMAIN r, k < l
      PROVE  \/ at(k) < at(l)
             \/ at(k) # at(l) /\ at(k) \in i .. j /\ at(l) \in i .. j
  <2>1. k \in Int /\ l \in Int /\ i \in Int /\ j \in Int /\ i <= j /\ k < l
    BY <1>1, <1>4, <1>8, SMT
  <2>2. CASE k < i \/ l > j
    BY ONLY <2>1, <2>2, SMT
  <2>3. CASE ~(k < i) /\ ~(l > j)
    BY ONLY <2>1, <2>3, SMT
  <2>4. QED
    BY <2>2, <2>3
<1>9. ASSUME j = i \/ j <= ppu_threads
      PROVE  /\ \A k \in DOMAIN q : k <= ppu_threads => back(k) <= ppu_threads
             /\ \A k \in DOMAIN r : k > ppu_threads => at(k) > ppu_threads
  BY <1>1, <1>4, <1>5, <1>9, SMT
<1>10. \A k, l \in DOMAIN r : k # l => k < l \/ l < k
  BY <1>1, <1>4, SMT
<1>11. \A k, l \in DOMAIN q : k < l => k # l
  BY <1>1, SMT
<1> HIDE DEF at, back
<1>12. Distinct(r)
  <2>1. ASSUME NEW k \in DOMAIN r, NEW l \in DOMAIN r, k < l
        PROVE  r[k] # r[l]
    <3>1. at(k) \in DOMAIN q /\ at(l) \in DOMAIN q /\ at(k) # at(l)
      BY <2>1, <1>6, <1>8, <1>11
    <3>2. QED
      BY <3>1, <1>6, SMT DEF Distinct
  <2>2. QED
    BY <2>1, <1>10 DEF Distinct
<1>13. Sorted(r, p)
  <2>1. ASSUME NEW k \in DOMAIN r, NEW l \in DOMAIN r, k < l
        PROVE  p[r[k]] <= p[r[l]]
    <3>1. at(k) \in DOMAIN q /\ at(l) \in DOMAIN q
      BY <1>6
    <3>2. CASE at(k) < at(l)
      BY <3>1, <3>2, <1>6 DEF Sorted
    <3>3. CASE at(k) \in i .. j /\ at(l) \in i .. j
      <4>1. p[q[at(k)]] = p[q[i]] /\ p[q[at(l)]] = p[q[i]] /\ p[q[i]] \in Int
        BY <3>3, <1>1
      <4>2. p[q[i]] <= p[q[i]]
        BY <4>1, SMT
      <4>3. QED
        BY <4>1, <4>2, <1>6
    <3>4. QED
      BY <2>1, <3>2, <3>3, <1>8
  <2>2. QED
    BY <2>1 DEF Sorted
<1>14. Members(r) = Members(q)
  <2>1. \A k \in DOMAIN q : back(k) \in DOMAIN r /\ r[back(k)] = q[k]
    BY <1>6, <1>7
  <2>2. QED
    BY <2>1, <1>6, SMT DEF Members
<1>15. ASSUME j = i \/ j <= ppu_threads
       PROVE  Placed(q) \subseteq Placed(r) /\ OutOfPlace(r) \subseteq OutOfPlace(q)
  <2>1. \A k \in DOMAIN q : back(k) \in DOMAIN r /\ r[back(k)] = q[k]
    BY <1>6, <1>7
  <2>2. QED
    BY <2>1, <1>6, <1>9, <1>15, SMT DEF Placed, OutOfPlace
<1>16. QED
  BY <1>3, <1>12, <1>13, <1>14, <1>15 DEF RunQueue, r, m

-----------------------------------------------------------------------------
(***************************************************************************)
(* What every call under g_mutex keeps.  A thread occupies a hardware      *)
(* thread as long as it is not suspended or has not said that it stopped;  *)
(* the last conjunct bounds those, and is what TopRuns and PendingCounts   *)
(* need to imply AtMostHw.                                                 *)
(***************************************************************************)
Occupants == (Threads \ suspend) \union ack_suspend

Places ==
  /\ RunQueue(g_ppu, prio)
  /\ suspend \subseteq Threads
  /\ ack_suspend \subseteq suspend
  /\ g_pending = Cardinality(ack_suspend)
  /\ Threads \ suspend \subseteq Placed(g_ppu)
  /\ OutOfPlace(g_ppu) \subseteq suspend
  /\ g_pending = 0 => Placed(g_ppu) \intersect suspend = {}
  /\ Cardinality(Occupants) <= ppu_threads

\* A part of a set of threads is finite, and no larger.
LEMMA PartOfThreads ==
  ASSUME NEW A, NEW B, A \subseteq B, B \subseteq Threads
  PROVE  /\ IsFiniteSet(A) /\ Cardinality(A) \in Nat
         /\ Cardinality(B) \in Nat
         /\ Cardinality(A) <= Cardinality(B)
         /\ Cardinality(A) = 0 <=> A = {}
<1>1. IsFiniteSet(Threads)
  BY SchedAssumption DEF SchedAssumption
<1>2. IsFiniteSet(B)
  BY <1>1, FS_Subset
<1>3. IsFiniteSet(A) /\ Cardinality(A) <= Cardinality(B)
  BY <1>2, FS_Subset
<1>4. Cardinality(A) \in Nat /\ Cardinality(B) \in Nat
  BY <1>2, <1>3, FS_CardinalityType
<1>5. QED
  BY <1>3, <1>4, FS_EmptySet

\* schedule_all: with no thread left to stop, the threads with a place run.
LEMMA ScheduleAllPlaces ==
  ASSUME NEW q, NEW w, NEW s, NEW cur,
         RunQueue(q, prio'),
         s \subseteq Threads,
         ack_suspend' \subseteq s,
         g_pending' = Cardinality(ack_suspend'),
         Threads \ s \subseteq Placed(q),
         OutOfPlace(q) \subseteq s,
         Cardinality((Threads \ s) \union ack_suspend') <= ppu_threads,
         schedule_all(q, w, s, cur)
  PROVE  Places' /\ g_ppu' = q /\ suspend' \subseteq s
<1> q \in Seq(Threads) /\ Distinct(q)
  BY DEF RunQueue
<1>1. g_ppu' = q
  BY DEF schedule_all
<1>2. CASE g_pending' = 0
  <2>1. suspend' = s \ Placed(q)
    BY <1>2 DEF schedule_all, MaySchedule
  <2>2. ack_suspend' = {}
    <3>1. ack_suspend' \subseteq Threads
      OBVIOUS
    <3>2. QED
      BY <3>1, <1>2, PartOfThreads
  <2>3. Placed(q) \subseteq Threads /\ Cardinality(Placed(q)) <= ppu_threads
    BY PlacesBounded
  <2>4. Placed(q) \intersect OutOfPlace(q) = {}
    BY PlacedOrNot
  <2>5. Occupants' = Placed(q)
    BY <2>1, <2>2, <2>3 DEF Occupants
  <2>6. Cardinality(Occupants') <= ppu_threads
    BY <2>3, <2>5
  <2>7. /\ Threads \ suspend' \subseteq Placed(q)
        /\ OutOfPlace(q) \subseteq suspend'
        /\ Placed(q) \intersect suspend' = {}
        /\ suspend' \subseteq s
    BY <2>1, <2>4
  <2>8. Placed(g_ppu)' = Placed(q) /\ OutOfPlace(g_ppu)' = OutOfPlace(q)
    BY <1>1 DEF Placed, OutOfPlace
  <2>9. RunQueue(g_ppu, prio)'
    BY <1>1 DEF RunQueue, Distinct, Sorted
  <2>10. Places'
    BY <2>2, <2>6, <2>7, <2>8, <2>9 DEF Places
  <2>11. QED
    BY <1>1, <2>7, <2>10
<1>3. CASE g_pending' # 0
  <2>1. suspend' = s
    BY <1>3 DEF schedule_all, MaySchedule
  <2>2. Cardinality(Occupants') <= ppu_threads
    BY <2>1 DEF Occupants
  <2>3. Placed(g_ppu)' = Placed(q) /\ OutOfPlace(g_ppu)' = OutOfPlace(q)
    BY <1>1 DEF Placed, OutOfPlace
  <2>4. RunQueue(g_ppu, prio)'
    BY <1>1 DEF RunQueue, Distinct, Sorted
  <2>5. Places'
    BY <1>3, <2>1, <2>2, <2>3, <2>4 DEF Places
  <2>6. QED
    BY <1>1, <2>1, <2>5
<1>4. QED
  BY <1>2, <1>3

\* The end of awake: whoever loses its place is counted until it has stopped.
LEMMA AwakePlaces ==
  ASSUME NEW q, NEW w, NEW s, NEW acks, NEW pending, NEW cur,
         RunQueue(q, prio'),
         s \subseteq Threads,
         acks \subseteq s,
         pending = Cardinality(acks),
         Threads \ s \subseteq Members(q),
         Cardinality((Threads \ s) \union acks) <= ppu_threads,
         awake(q, w, s, acks, pending, cur)
  PROVE  /\ Places' /\ g_ppu' = q
         /\ \A t \in Threads \ {cur} :
              t \notin s \/ t \in acks => t \notin suspend' \/ t \in ack_suspend'
<1> DEFINE over == ToSuspend(q, s)
           owed == acks \union over
           done == owed \intersect {cur}
<1> q \in Seq(Threads) /\ Distinct(q)
  BY DEF RunQueue
<1>1. /\ ack_suspend' = owed \ done
      /\ g_pending' = pending + Cardinality(over) - Cardinality(done)
      /\ schedule_all(q, w, s \union over, cur)
  BY DEF awake
<1>2. /\ Members(q) = Placed(q) \union OutOfPlace(q)
      /\ Members(q) \subseteq Threads
  BY PlacedOrNot
<1>3. over = OutOfPlace(q) \ s
  BY DEF ToSuspend
<1> HIDE DEF over
<1>4. /\ over \subseteq Threads /\ over \intersect acks = {}
      /\ owed \subseteq s \union over /\ owed \subseteq Threads
      /\ OutOfPlace(q) \subseteq s \union over
      /\ Threads \ (s \union over) \subseteq Placed(q)
  BY <1>2, <1>3
<1>5. Cardinality(owed) = pending + Cardinality(over)
  <2>1. IsFiniteSet(acks) /\ IsFiniteSet(over)
    BY <1>4, PartOfThreads
  <2>2. Cardinality(acks \union over)
          = Cardinality(acks) + Cardinality(over) - Cardinality(acks \intersect over)
    BY <2>1, FS_Union
  <2>3. acks \intersect over = {} /\ Cardinality({}) = 0
    BY <1>4, FS_EmptySet
  <2>4. Cardinality(acks) \in Nat /\ Cardinality(over) \in Nat
    BY <2>1, FS_CardinalityType
  <2>5. Cardinality(acks \union over) = Cardinality(acks) + Cardinality(over) - 0
    BY <2>2, <2>3
  <2>6. Cardinality(acks \union over) = Cardinality(acks) + Cardinality(over)
    BY <2>4, <2>5, SMT
  <2>7. QED
    BY <2>6
<1> HIDE DEF owed
<1>6. g_pending' = Cardinality(ack_suspend')
  <2>1. IsFiniteSet(owed)
    BY <1>4, PartOfThreads
  <2>2. /\ Cardinality(owed \ done) = Cardinality(owed) - Cardinality(owed \intersect done)
    BY <2>1, FS_Difference
  <2>3. owed \intersect done = done
    OBVIOUS
  <2> HIDE DEF done
  <2>4. Cardinality(owed \ done) = Cardinality(owed) - Cardinality(done)
    BY <2>2, <2>3
  <2>5. Cardinality(ack_suspend') = Cardinality(owed \ done)
    BY <1>1
  <2>6. g_pending' = Cardinality(owed) - Cardinality(done)
    <3>1. g_pending' = pending + Cardinality(over) - Cardinality(done)
      BY <1>1
    <3>2. /\ Cardinality(acks) \in Nat /\ Cardinality(over) \in Nat
          /\ Cardinality(done) \in Nat
      <4>1. acks \subseteq Threads /\ over \subseteq Threads /\ done \subseteq Threads
        BY <1>4 DEF done
      <4>2. QED
        BY <4>1, PartOfThreads
    <3>3. QED
      BY <3>1, <3>2, <1>5, SMT
  <2>7. QED
    BY <2>4, <2>5, <2>6
<1>7. ack_suspend' \subseteq s \union over
  BY <1>1, <1>4
<1>8. Cardinality((Threads \ (s \union over)) \union ack_suspend') <= ppu_threads
  <2> DEFINE A == (Threads \ (s \union over)) \union ack_suspend'
             B == (Threads \ s) \union acks
  <2>1. A \subseteq B /\ B \subseteq Threads
    BY <1>1, <1>3, <1>4 DEF owed
  <2>2. Cardinality(B) <= ppu_threads /\ ppu_threads \in Nat
    BY SchedAssumption DEF SchedAssumption
  <2> HIDE DEF A, B
  <2>3. Cardinality(A) <= Cardinality(B) /\ Cardinality(A) \in Nat /\ Cardinality(B) \in Nat
    BY <2>1, PartOfThreads
  <2>4. Cardinality(A) <= ppu_threads
    BY <2>2, <2>3, SMT
  <2>5. QED
    BY <2>4 DEF A
<1>9. s \union over \subseteq Threads
  BY <1>4
<1>10. Places' /\ g_ppu' = q /\ suspend' \subseteq s \union over
  <2> DEFINE so == s \union over
  <2>1. /\ so \subseteq Threads
        /\ ack_suspend' \subseteq so
        /\ Threads \ so \subseteq Placed(q)
        /\ OutOfPlace(q) \subseteq so
        /\ Cardinality((Threads \ so) \union ack_suspend') <= ppu_threads
        /\ schedule_all(q, w, so, cur)
    BY <1>1, <1>4, <1>7, <1>8, <1>9
  <2> HIDE DEF so
  <2>2. Places' /\ g_ppu' = q /\ suspend' \subseteq so
    BY <2>1, <1>6, ScheduleAllPlaces
  <2>3. QED
    BY <2>2 DEF so
<1>11. ASSUME NEW t \in Threads \ {cur}, t \notin s \/ t \in acks
       PROVE  t \notin suspend' \/ t \in ack_suspend'
  BY <1>1, <1>10, <1>11 DEF owed
<1>12. QED
  BY <1>10, <1>11

-----------------------------------------------------------------------------
Typing ==
  /\ prio \in [Threads -> Prios]
  /\ pc \in [Threads -> Labels]
  /\ sleeping \in [Threads -> {"no", "call", "called"}]
  /\ queued \subseteq Threads

\* Guest code runs only on an occupied hardware thread, and in the run queue.
Running ==
  \A t \in Threads : pc[t] = "guest" =>
    t \in Members(g_ppu) /\ (t \notin suspend \/ t \in ack_suspend)

\* cpu_sleep is called from check_state.
Calling ==
  \A t \in Threads : sleeping[t] = "call" => pc[t] \in {"resched", "leave"}

IndInv == Typing /\ Places /\ Running /\ Calling

\* Priorities can be compared.
LEMMA PriosAreIntegers ==
  ASSUME prio \in [Threads -> Prios]
  PROVE  prio \in [Threads -> Int]
BY SchedAssumption DEF SchedAssumption

\* What holds in Places about the members of the queue.
LEMMA PlacesFacts ==
  ASSUME Places
  PROVE  /\ Placed(g_ppu) \subseteq Members(g_ppu)
         /\ Threads \ suspend \subseteq Members(g_ppu)
         /\ Members(g_ppu) \subseteq Threads
         /\ ack_suspend \subseteq Threads
<1>1. /\ Members(g_ppu) = Placed(g_ppu) \union OutOfPlace(g_ppu)
      /\ Members(g_ppu) \subseteq Threads
  BY PlacedOrNot DEF Places, RunQueue
<1>2. QED
  BY <1>1 DEF Places

\* emplace_all, for one thread or two.
LEMMA EmplaceAllQueue ==
  ASSUME prio \in [Threads -> Int], NEW q, RunQueue(q, prio),
         NEW u \in Threads, NEW v \in Threads
  PROVE  /\ RunQueue(emplace_all(q, u, v), prio)
         /\ Members(emplace_all(q, u, v)) = Members(q) \union {u, v}
<1> DEFINE r == emplace(q, u)
<1>1. RunQueue(r, prio) /\ Members(r) = Members(q) \union {u}
  BY EmplaceQueue
<1> HIDE DEF r
<1>2. RunQueue(emplace(r, v), prio) /\ Members(emplace(r, v)) = Members(r) \union {v}
  BY <1>1, EmplaceQueue
<1>3. emplace_all(q, u, v) = emplace(r, v)
  BY DEF emplace_all, r
<1>4. QED
  BY <1>1, <1>2, <1>3

(***************************************************************************)
(* A call of awake with the flags and the count as they are: the caller,   *)
(* if it is a PPU thread, does not run guest code afterwards.              *)
(***************************************************************************)
LEMMA AwakeStep ==
  ASSUME IndInv, NEW q, NEW w, NEW cur,
         RunQueue(q, prio'),
         Members(g_ppu) \subseteq Members(q),
         awake(q, w, suspend, ack_suspend, g_pending, cur),
         \A t \in Threads : pc'[t] = "guest" => pc[t] = "guest" /\ t # cur
  PROVE  Places' /\ Running'
<1> Places /\ Running
  BY DEF IndInv
<1>1. /\ Threads \ suspend \subseteq Members(q)
      /\ suspend \subseteq Threads /\ ack_suspend \subseteq suspend
      /\ g_pending = Cardinality(ack_suspend)
      /\ Cardinality((Threads \ suspend) \union ack_suspend) <= ppu_threads
  BY PlacesFacts DEF Places, Occupants
<1>2. /\ Places' /\ g_ppu' = q
      /\ \A t \in Threads \ {cur} :
           t \notin suspend \/ t \in ack_suspend => t \notin suspend' \/ t \in ack_suspend'
  BY <1>1, AwakePlaces
<1>3. ASSUME NEW t \in Threads, pc'[t] = "guest"
      PROVE  t \in Members(g_ppu)' /\ (t \notin suspend' \/ t \in ack_suspend')
  <2>1. pc[t] = "guest" /\ t \in Threads \ {cur}
    BY <1>3
  <2>2. t \in Members(g_ppu) /\ (t \notin suspend \/ t \in ack_suspend)
    BY <2>1 DEF Running
  <2>3. Members(g_ppu)' = Members(q)
    BY <1>2 DEF Members
  <2>4. QED
    BY <2>1, <2>2, <2>3, <1>2
<1>4. QED
  BY <1>2, <1>3 DEF Running

\* A call that only comes to schedule_all, with the queue as it is or changed
\* within the places.
LEMMA ScheduleStep ==
  ASSUME IndInv, NEW q, NEW w, NEW cur,
         RunQueue(q, prio'),
         Members(g_ppu) \subseteq Members(q),
         Placed(g_ppu) \subseteq Placed(q),
         OutOfPlace(q) \subseteq OutOfPlace(g_ppu),
         UNCHANGED <<ack_suspend, g_pending>>,
         schedule_all(q, w, suspend, cur),
         \A t \in Threads : pc'[t] = "guest" => pc[t] = "guest"
  PROVE  Places' /\ Running'
<1> Places /\ Running
  BY DEF IndInv
<1>1. /\ Threads \ suspend \subseteq Placed(q)
      /\ OutOfPlace(q) \subseteq suspend
      /\ suspend \subseteq Threads /\ ack_suspend' \subseteq suspend
      /\ g_pending' = Cardinality(ack_suspend')
      /\ Cardinality((Threads \ suspend) \union ack_suspend') <= ppu_threads
  BY DEF Places, Occupants
<1>2. Places' /\ g_ppu' = q /\ suspend' \subseteq suspend
  BY <1>1, ScheduleAllPlaces
<1>3. Members(g_ppu)' = Members(q)
  BY <1>2 DEF Members
<1>4. Running'
  BY <1>2, <1>3 DEF Running
<1>5. QED
  BY <1>2, <1>4

\* Steps that leave the queue, the suspended threads and the count alone.
LEMMA QuietStep ==
  ASSUME Places, UNCHANGED <<g_ppu, prio, suspend, ack_suspend, g_pending>>
  PROVE  /\ Places'
         /\ Members(g_ppu)' = Members(g_ppu)
<1>1. /\ Placed(g_ppu)' = Placed(g_ppu) /\ OutOfPlace(g_ppu)' = OutOfPlace(g_ppu)
      /\ Members(g_ppu)' = Members(g_ppu) /\ Occupants' = Occupants
  BY DEF Placed, OutOfPlace, Members, Occupants
<1>2. RunQueue(g_ppu, prio)'
  BY DEF Places, RunQueue, Distinct, Sorted
<1>3. QED
  BY <1>1, <1>2 DEF Places

-----------------------------------------------------------------------------
\* The threads start with the places that the queue gives them.
LEMMA InitInv ==
  Init => IndInv
<1> SUFFICES ASSUME Init PROVE IndInv
  OBVIOUS
<1> USE DEF Init
<1>1. /\ g_ppu \in Seq(Threads) /\ Members(g_ppu) = Threads
      /\ prio \in [Threads -> Prios]
      /\ \A i, j \in DOMAIN g_ppu : i < j =>
           g_ppu[i] # g_ppu[j] /\ prio[g_ppu[i]] <= prio[g_ppu[j]]
  BY SchedAssumption DEF SchedAssumption
<1>2. RunQueue(g_ppu, prio)
  <2>1. \A i, j \in DOMAIN g_ppu : i # j => i < j \/ j < i
    BY <1>1, SMT
  <2>2. Distinct(g_ppu)
    BY <1>1, <2>1 DEF Distinct
  <2>3. QED
    BY <1>1, <2>2 DEF RunQueue, Sorted
<1>3. /\ Threads = Placed(g_ppu) \union OutOfPlace(g_ppu)
      /\ Placed(g_ppu) \intersect OutOfPlace(g_ppu) = {}
      /\ Cardinality(Placed(g_ppu)) <= ppu_threads
  BY <1>1, <1>2, PlacedOrNot, PlacesBounded DEF RunQueue
<1>4. Occupants = Placed(g_ppu)
  BY <1>3 DEF Occupants
<1>5. Places
  BY <1>2, <1>3, <1>4, FS_EmptySet DEF Places
<1>6. Typing
  BY <1>1 DEF Typing, Labels
<1>7. Running
  BY <1>1 DEF Running
<1>8. Calling
  BY DEF Calling
<1>9. QED
  BY <1>5, <1>6, <1>7, <1>8 DEF IndInv

\* The threads that awake_all brings in.
LEMMA AwakeAllStep ==
  ASSUME IndInv, NEW u \in queued, NEW v \in queued, NEW cur,
         awake_all(u, v, cur), UNCHANGED prio,
         \A t \in Threads : pc'[t] = "guest" => pc[t] = "guest" /\ t # cur
  PROVE  Places' /\ Running'
<1> DEFINE q == emplace_all(g_ppu, u, v)
           w == Unregister_all(g_ppu, g_waiting, u, v)
<1>1. prio \in [Threads -> Int] /\ u \in Threads /\ v \in Threads /\ RunQueue(g_ppu, prio)
  BY PriosAreIntegers DEF IndInv, Typing, Places
<1>2. RunQueue(q, prio) /\ Members(q) = Members(g_ppu) \union {u, v}
  BY <1>1, EmplaceAllQueue, SMT
<1>3. awake(q, w, suspend, ack_suspend, g_pending, cur)
  BY DEF awake_all
<1> HIDE DEF q, w
<1>4. RunQueue(q, prio') /\ Members(g_ppu) \subseteq Members(q)
  BY <1>2
<1>5. QED
  BY <1>3, <1>4, AwakeStep

\* awake_all by a host thread.
LEMMA HostAwakeInv ==
  ASSUME IndInv, HostAwake
  PROVE  IndInv'
<1>1. PICK u, v \in queued : awake_all(u, v, Host) /\ queued' = queued \ {u, v}
  BY DEF HostAwake
<1>2. UNCHANGED <<prio, pc, sleeping, timed>>
  BY DEF HostAwake
<1>3. Host \notin Threads
  BY SchedAssumption DEF SchedAssumption
<1>4. Places' /\ Running'
  <2>1. \A t \in Threads : pc'[t] = "guest" => pc[t] = "guest" /\ t # Host
    BY <1>2, <1>3
  <2>2. QED
    BY <2>1, <1>1, <1>2, AwakeAllStep
<1>5. Typing' /\ Calling'
  BY <1>1, <1>2 DEF IndInv, Typing, Calling
<1>6. QED
  BY <1>4, <1>5 DEF IndInv

\* awake_all by a PPU thread.
LEMMA AwakeInv ==
  ASSUME IndInv, NEW t \in Threads, Awake(t)
  PROVE  IndInv'
<1>1. PICK u, v \in queued : awake_all(u, v, t) /\ queued' = queued \ {u, v}
  BY DEF Awake
<1>2. /\ UNCHANGED <<prio, sleeping, timed>> /\ pc[t] = "guest"
      /\ pc' = [pc EXCEPT ![t] = "leave"]
  BY DEF Awake, Goto
<1>3. Places' /\ Running'
  <2>1. \A x \in Threads : pc'[x] = "guest" => pc[x] = "guest" /\ x # t
    BY <1>2 DEF IndInv, Typing
  <2>2. QED
    BY <2>1, <1>1, <1>2, AwakeAllStep
<1>4. Typing' /\ Calling'
  BY <1>1, <1>2 DEF IndInv, Typing, Calling, Labels
<1>5. QED
  BY <1>3, <1>4 DEF IndInv

\* sleep: the thread leaves the queue, those behind it move up, and it is
\* counted no more.
LEMMA SleepInv ==
  ASSUME IndInv, NEW t \in Threads, Sleep(t)
  PROVE  IndInv'
<1> DEFINE ok == t \notin signal
           s == IF ok THEN suspend \union {t} ELSE suspend
           q == IF ok THEN unqueue(g_ppu, t) ELSE g_ppu
           acks == ack_suspend \ {t}
           pending == g_pending - Cardinality(ack_suspend \intersect {t})
<1>1. /\ UNCHANGED <<prio, sleeping>> /\ pc[t] = "guest"
      /\ pc' = [pc EXCEPT ![t] = "wait"]
  BY DEF Sleep, Goto
<1>2. PICK w :
        \/ /\ ack_suspend' = acks
           /\ g_pending' = pending
           /\ schedule_all(q, w, s, t)
           /\ queued' = queued \union {t}
        \/ \E u, v \in queued :
             /\ awake(emplace_all(q, u, v), Unregister_all(q, w, u, v), s, acks, pending, t)
             /\ queued' = (queued \ {u, v}) \union {t}
  BY DEF Sleep
<1> Places /\ Typing /\ Running /\ Calling
  BY DEF IndInv
<1>3. /\ RunQueue(q, prio)
      /\ Members(g_ppu) \ {t} \subseteq Members(q)
      /\ Placed(g_ppu) \ {t} \subseteq Placed(q)
      /\ OutOfPlace(q) \subseteq OutOfPlace(g_ppu)
      /\ ok \/ Placed(g_ppu) \subseteq Placed(q)
  <2>1. RunQueue(g_ppu, prio)
    BY DEF Places
  <2>2. CASE ok
    BY <2>1, <2>2, UnqueueQueue
  <2>3. CASE ~ok
    BY <2>1, <2>3
  <2>4. QED
    BY <2>2, <2>3
<1>4. /\ s \subseteq Threads /\ acks \subseteq s
      /\ suspend \subseteq s /\ s \subseteq suspend \union {t}
      /\ Threads \ s \subseteq Placed(q)
      /\ OutOfPlace(q) \subseteq s
      /\ (Threads \ s) \union acks \subseteq Occupants
  <2> HIDE DEF q
  <2>1. QED
    BY <1>3 DEF Places, Occupants
<1>5. Cardinality((Threads \ s) \union acks) <= ppu_threads
  <2> DEFINE A == (Threads \ s) \union acks
  <2>1. A \subseteq Occupants /\ Occupants \subseteq Threads
    BY <1>4 DEF Occupants, Places
  <2>2. Cardinality(Occupants) <= ppu_threads /\ ppu_threads \in Nat
    BY SchedAssumption DEF SchedAssumption, Places
  <2> HIDE DEF A
  <2>3. /\ Cardinality(A) <= Cardinality(Occupants)
        /\ Cardinality(A) \in Nat /\ Cardinality(Occupants) \in Nat
    BY <2>1, PartOfThreads
  <2>4. Cardinality(A) <= ppu_threads
    BY <2>2, <2>3, SMT
  <2>5. QED
    BY <2>4 DEF A
<1>6. pending = Cardinality(acks)
  <2>1. IsFiniteSet(ack_suspend)
    BY PartOfThreads DEF Places
  <2>2. Cardinality(ack_suspend \ {t})
          = Cardinality(ack_suspend) - Cardinality(ack_suspend \intersect {t})
    BY <2>1, FS_Difference
  <2>3. QED
    BY <2>2 DEF Places
<1>7. \A x \in Threads : pc'[x] = "guest" => pc[x] = "guest" /\ x # t
  BY <1>1 DEF Typing
<1>8. ASSUME NEW x \in Threads, pc'[x] = "guest"
      PROVE  /\ x \in Threads \ {t} /\ x \in Members(q)
             /\ x \notin s \/ x \in acks
  <2> HIDE DEF q
  <2>1. QED
    BY <1>3, <1>4, <1>7, <1>8 DEF Running
<1> HIDE DEF q, s, acks, pending
<1>9. CASE /\ ack_suspend' = acks
           /\ g_pending' = pending
           /\ schedule_all(q, w, s, t)
           /\ queued' = queued \union {t}
  <2>1. RunQueue(q, prio')
    BY <1>1, <1>3
  <2>2. Places' /\ g_ppu' = q /\ suspend' \subseteq s
    BY <2>1, <1>4, <1>5, <1>6, <1>9, ScheduleAllPlaces
  <2>3. Members(g_ppu)' = Members(q)
    BY <2>2 DEF Members
  <2>4. Running'
    BY <2>2, <2>3, <1>8, <1>9 DEF Running
  <2>5. Typing' /\ Calling'
    BY <1>1, <1>9 DEF Typing, Calling, Labels
  <2>6. QED
    BY <2>2, <2>4, <2>5 DEF IndInv
<1>10. ASSUME NEW u \in queued, NEW v \in queued,
              awake(emplace_all(q, u, v), Unregister_all(q, w, u, v), s, acks, pending, t),
              queued' = (queued \ {u, v}) \union {t}
       PROVE  IndInv'
  <2> DEFINE r == emplace_all(q, u, v)
             z == Unregister_all(q, w, u, v)
  <2>1. prio \in [Threads -> Int] /\ u \in Threads /\ v \in Threads
    BY PriosAreIntegers DEF Typing
  <2>2. RunQueue(r, prio) /\ Members(r) = Members(q) \union {u, v}
    BY <2>1, <1>3, EmplaceAllQueue, SMT
  <2>3. Members(q) = Placed(q) \union OutOfPlace(q)
    BY <1>3, PlacedOrNot DEF RunQueue
  <2>4. awake(r, z, s, acks, pending, t)
    BY <1>10
  <2> HIDE DEF r, z
  <2>5. RunQueue(r, prio') /\ Threads \ s \subseteq Members(r)
    BY <2>2, <2>3, <1>1, <1>4
  <2>6. /\ Places' /\ g_ppu' = r
        /\ \A x \in Threads \ {t} :
             x \notin s \/ x \in acks => x \notin suspend' \/ x \in ack_suspend'
    BY <2>4, <2>5, <1>4, <1>5, <1>6, AwakePlaces
  <2>7. Members(g_ppu)' = Members(r)
    BY <2>6 DEF Members
  <2>8. Running'
    BY <2>2, <2>6, <2>7, <1>8 DEF Running
  <2>9. Typing' /\ Calling'
    BY <1>1, <1>10 DEF Typing, Calling, Labels
  <2>10. QED
    BY <2>6, <2>8, <2>9 DEF IndInv
<1>11. QED
  BY <1>2, <1>9, <1>10

\* The steps of the wait loops and of the poll: the thread does not run guest
\* code, before or after.
LEMMA WaitInv ==
  ASSUME IndInv, NEW t \in Threads,
         WaitSignal(t) \/ WaitTimeout(t) \/ Recheck(t) \/ Poll(t)
  PROVE  IndInv'
<1> Places /\ Typing /\ Running /\ Calling
  BY DEF IndInv
<1>1. /\ UNCHANGED <<g_ppu, prio, suspend, ack_suspend, g_pending, sleeping>>
      /\ pc[t] \in {"wait", "recheck", "guest"}
      /\ pc' \in {[pc EXCEPT ![t] = "leave"], [pc EXCEPT ![t] = "resched"]}
      /\ queued' \subseteq queued
  BY DEF WaitSignal, WaitTimeout, Recheck, Poll, Goto, flags, waits
<1>2. Places' /\ Members(g_ppu)' = Members(g_ppu)
  BY <1>1, QuietStep
<1>3. Running'
  BY <1>1, <1>2 DEF Running, Typing
<1>4. Typing' /\ Calling'
  BY <1>1 DEF Typing, Calling, Labels
<1>5. QED
  BY <1>2, <1>3, <1>4 DEF IndInv

\* check_state lets a thread back to guest code only if it has a place.
LEMMA CheckStateInv ==
  ASSUME IndInv, NEW t \in Threads, CheckState(t)
  PROVE  IndInv'
<1> Places /\ Typing /\ Running /\ Calling
  BY DEF IndInv
<1>1. /\ UNCHANGED <<g_ppu, prio, suspend, ack_suspend, g_pending, queued>>
      /\ pc[t] \in {"resched", "leave"}
  BY DEF CheckState, waits
<1>2. Places' /\ Members(g_ppu)' = Members(g_ppu)
  BY <1>1, QuietStep
<1>3. CASE Leaves(t)
  <2>1. /\ pc' \in {[pc EXCEPT ![t] = "recheck"], [pc EXCEPT ![t] = "guest"]}
        /\ sleeping' = [sleeping EXCEPT ![t] = "no"]
        /\ t \notin suspend
    BY <1>3 DEF CheckState, Leaves, Goto
  <2>2. t \in Members(g_ppu)
    BY <2>1, PlacesFacts
  <2>3. Running'
    BY <1>1, <1>2, <2>1, <2>2 DEF Running, Typing
  <2>4. Typing' /\ Calling'
    BY <1>1, <2>1 DEF Typing, Calling, Labels
  <2>5. QED
    BY <1>2, <2>3, <2>4 DEF IndInv
<1>4. CASE ~Leaves(t)
  <2>1. /\ UNCHANGED pc
        /\ \/ sleeping' = [sleeping EXCEPT ![t] = "call"]
           \/ sleeping' = sleeping
    BY <1>4 DEF CheckState, Typing
  <2>2. Running'
    BY <1>1, <1>2, <2>1 DEF Running
  <2>3. Typing' /\ Calling'
    BY <1>1, <2>1 DEF Typing, Calling
  <2>4. QED
    BY <1>2, <2>2, <2>3 DEF IndInv
<1>5. QED
  BY <1>3, <1>4

\* cpu_sleep is called outside guest code.
LEMMA CpuSleepInv ==
  ASSUME IndInv, NEW t \in Threads, CpuSleep(t)
  PROVE  IndInv'
<1> DEFINE q == emplace(g_ppu, t)
           w == Unregister(g_ppu, g_waiting, t)
<1>1. /\ UNCHANGED <<prio, pc, queued>> /\ sleeping[t] = "call"
      /\ sleeping' = [sleeping EXCEPT ![t] = "called"]
      /\ awake(q, w, suspend, ack_suspend, g_pending, t)
  BY DEF CpuSleep, waits
<1>2. prio \in [Threads -> Int] /\ RunQueue(g_ppu, prio)
  BY PriosAreIntegers DEF IndInv, Typing, Places
<1>3. RunQueue(q, prio) /\ Members(q) = Members(g_ppu) \union {t}
  BY <1>2, EmplaceQueue
<1> HIDE DEF q, w
<1>4. RunQueue(q, prio') /\ Members(g_ppu) \subseteq Members(q)
  BY <1>1, <1>3
<1>5. \A x \in Threads : pc'[x] = "guest" => pc[x] = "guest" /\ x # t
  BY <1>1 DEF IndInv, Calling
<1>6. Places' /\ Running'
  BY <1>1, <1>4, <1>5, AwakeStep
<1>7. Typing' /\ Calling'
  BY <1>1 DEF IndInv, Typing, Calling
<1>8. QED
  BY <1>6, <1>7 DEF IndInv

\* yield finds the thread in the queue, and the last one of its priority
\* behind it.
LEMMA LastEqualInQueue ==
  ASSUME NEW i \in DOMAIN g_ppu, g_ppu \in Seq(Threads)
  PROVE  /\ LastEqual(i) \in i .. Len(g_ppu)
         /\ \A k \in i .. LastEqual(i) : prio[g_ppu[k]] = prio[g_ppu[i]]
<1> DEFINE n == Len(g_ppu)
           E == {j \in i .. n : \A k \in i .. j : prio[g_ppu[k]] = prio[g_ppu[i]]}
           B == {n - j : j \in E}
<1>1. n \in Nat /\ i \in 1 .. n
  BY SMT
<1>2. i \in E
  <2>1. \A k \in i .. i : k = i
    BY <1>1, SMT
  <2>2. QED
    BY <1>1, <2>1, SMT
<1>3. E \subseteq i .. n
  OBVIOUS
<1> HIDE DEF E
<1>4. B \subseteq Nat /\ B # {}
  BY <1>1, <1>2, <1>3, SMT
<1>5. PICK b \in B : \A y \in B : b <= y
  <2> HIDE DEF B
  <2>1. QED
    BY <1>4, SmallestOf
<1>6. PICK m \in E : b = n - m
  BY <1>5
<1>7. \A j \in E : m >= j
  <2>1. ASSUME NEW j \in E
        PROVE  m >= j
    <3>1. n - m <= n - j
      BY <1>5, <1>6
    <3>2. QED
      BY <3>1, <1>1, <1>3, SMT
  <2>2. QED
    BY <2>1
<1>8. Max(E) \in E
  BY <1>7 DEF Max
<1>9. LastEqual(i) = Max(E)
  BY DEF LastEqual, E
<1>10. QED
  BY <1>3, <1>8, <1>9 DEF E

\* yield moves the thread within the queue.
LEMMA YieldInv ==
  ASSUME IndInv, NEW t \in Threads, Yield(t)
  PROVE  IndInv'
<1> DEFINE i == CHOOSE k \in DOMAIN g_ppu : g_ppu[k] = t
           j == LastEqual(i)
           q == Link(Unlink(g_ppu, i), j, t)
<1> Places /\ Typing /\ Running /\ Calling
  BY DEF IndInv
<1>1. /\ UNCHANGED <<prio, sleeping, queued>> /\ pc[t] = "guest"
      /\ pc' = [pc EXCEPT ![t] = "leave"]
  BY DEF Yield, Goto, waits
<1>2. \/ UNCHANGED <<g_ppu, flags, ack_suspend, g_pending, g_waiting>>
      \/ /\ j = i \/ j <= ppu_threads
         /\ UNCHANGED <<ack_suspend, g_pending>>
         /\ schedule_all(q, g_waiting, suspend, t)
      \/ awake(q, g_waiting, suspend, ack_suspend, g_pending, t)
  BY DEF Yield
<1>3. i \in DOMAIN g_ppu /\ g_ppu[i] = t
  BY <1>1 DEF Running, Members
<1> HIDE DEF i
<1>4. /\ j \in i .. Len(g_ppu)
      /\ \A k \in i .. j : prio[g_ppu[k]] = prio[g_ppu[i]]
  BY <1>3, LastEqualInQueue DEF Places, RunQueue
<1> HIDE DEF j
<1>5. /\ RunQueue(q, prio)
      /\ Members(q) = Members(g_ppu)
      /\ j = i \/ j <= ppu_threads =>
           Placed(g_ppu) \subseteq Placed(q) /\ OutOfPlace(q) \subseteq OutOfPlace(g_ppu)
  <2>1. prio \in [Threads -> Int] /\ RunQueue(g_ppu, prio)
    BY PriosAreIntegers DEF Typing, Places
  <2>2. QED
    BY <2>1, <1>3, <1>4, RotateQueue
<1> HIDE DEF q
<1>6. RunQueue(q, prio') /\ Members(g_ppu) \subseteq Members(q)
  BY <1>1, <1>5
<1>7. \A x \in Threads : pc'[x] = "guest" => pc[x] = "guest" /\ x # t
  BY <1>1 DEF Typing
<1>8. Places' /\ Running'
  <2>1. CASE UNCHANGED <<g_ppu, flags, ack_suspend, g_pending, g_waiting>>
    <3>1. UNCHANGED <<g_ppu, prio, suspend, ack_suspend, g_pending>>
      BY <2>1, <1>1 DEF flags
    <3>2. Places' /\ Members(g_ppu)' = Members(g_ppu)
      BY <3>1, QuietStep
    <3>3. QED
      BY <3>1, <3>2, <1>7 DEF Running
  <2>2. CASE /\ j = i \/ j <= ppu_threads
             /\ UNCHANGED <<ack_suspend, g_pending>>
             /\ schedule_all(q, g_waiting, suspend, t)
    BY <2>2, <1>5, <1>6, <1>7, ScheduleStep
  <2>3. CASE awake(q, g_waiting, suspend, ack_suspend, g_pending, t)
    BY <2>3, <1>6, <1>7, AwakeStep
  <2>4. QED
    BY <2>1, <2>2, <2>3, <1>2
<1>9. Typing' /\ Calling'
  BY <1>1 DEF Typing, Calling, Labels
<1>10. QED
  BY <1>8, <1>9 DEF IndInv

\* A thread whose priority changes is queued anew.
LEMMA SetPriorityInv ==
  ASSUME IndInv, NEW t \in Threads, SetPriority(t)
  PROVE  IndInv'
<1> Places /\ Typing /\ Running /\ Calling
  BY DEF IndInv
<1>1. /\ UNCHANGED <<sleeping, queued>> /\ pc[t] = "guest"
      /\ pc' = [pc EXCEPT ![t] = "leave"]
  BY DEF SetPriority, Goto, waits
<1>2. PICK u \in Targets, p \in Prios :
        /\ prio' = [prio EXCEPT ![u] = p]
        /\ IF u \in Members(g_ppu)
           THEN awake(insert(unqueue(g_ppu, u), u, p),
                      Unregister(unqueue(g_ppu, u), g_waiting, u),
                      suspend, ack_suspend, g_pending, t)
           ELSE /\ UNCHANGED <<ack_suspend, g_pending>>
                /\ schedule_all(g_ppu, g_waiting, suspend, t)
  BY DEF SetPriority
<1>3. u \in Threads /\ p \in Int
  BY SchedAssumption DEF SchedAssumption
<1>4. prio \in [Threads -> Int] /\ RunQueue(g_ppu, prio)
  BY PriosAreIntegers DEF Typing, Places
<1>5. \A x \in Threads : pc'[x] = "guest" => pc[x] = "guest" /\ x # t
  BY <1>1 DEF Typing
<1>6. CASE u \in Members(g_ppu)
  <2> DEFINE r == unqueue(g_ppu, u)
             q == insert(r, u, p)
             w == Unregister(r, g_waiting, u)
  <2>1. RunQueue(r, prio) /\ Members(r) = Members(g_ppu) \ {u}
    BY <1>4, UnqueueQueue
  <2>2. awake(q, w, suspend, ack_suspend, g_pending, t)
    BY <1>2, <1>6
  <2> HIDE DEF r
  <2>3. RunQueue(q, [prio EXCEPT ![u] = p]) /\ Members(q) = Members(r) \union {u}
    BY <2>1, <1>3, <1>4, InsertSorted
  <2> HIDE DEF q, w
  <2>4. RunQueue(q, prio') /\ Members(g_ppu) \subseteq Members(q)
    BY <2>1, <2>3, <1>2
  <2>5. QED
    <3>1. Places' /\ Running'
      BY <2>2, <2>4, <1>5, AwakeStep
    <3>2. Typing' /\ Calling'
      BY <1>1, <1>2, <1>3 DEF Typing, Calling, Labels
    <3>3. QED
      BY <3>1, <3>2 DEF IndInv
<1>7. CASE u \notin Members(g_ppu)
  <2>1. /\ UNCHANGED <<ack_suspend, g_pending>>
        /\ schedule_all(g_ppu, g_waiting, suspend, t)
    BY <1>2, <1>7
  <2>2. RunQueue(g_ppu, prio')
    <3>1. \A k \in DOMAIN g_ppu : g_ppu[k] \in Threads /\ g_ppu[k] # u
      BY <1>4, <1>7, SMT DEF RunQueue, Members
    <3>2. \A k \in DOMAIN g_ppu : prio'[g_ppu[k]] = prio[g_ppu[k]]
      BY <3>1, <1>2, <1>3, <1>4
    <3>3. QED
      BY <3>2, <1>4 DEF RunQueue, Sorted
  <2>3. Places' /\ Running'
    BY <2>1, <2>2, <1>5, ScheduleStep
  <2>4. Typing' /\ Calling'
    BY <1>1, <1>2, <1>3 DEF Typing, Calling, Labels
  <2>5. QED
    BY <2>3, <2>4 DEF IndInv
<1>8. QED
  BY <1>6, <1>7

\* Every step keeps the invariant.
LEMMA NextInv ==
  IndInv /\ [Next]_vars => IndInv'
<1> SUFFICES ASSUME IndInv, [Next]_vars PROVE IndInv'
  OBVIOUS
<1>1. CASE HostAwake
  BY <1>1, HostAwakeInv
<1>2. ASSUME NEW t \in Threads,
             \/ Awake(t) \/ Sleep(t) \/ WaitSignal(t) \/ WaitTimeout(t)
             \/ Recheck(t) \/ Poll(t) \/ CheckState(t) \/ CpuSleep(t) \/ Yield(t)
             \/ SetPriority(t)
      PROVE  IndInv'
  BY <1>2, AwakeInv, SleepInv, WaitInv, CheckStateInv, CpuSleepInv, YieldInv,
     SetPriorityInv
<1>3. CASE UNCHANGED vars
  <2>1. UNCHANGED <<g_ppu, prio, suspend, ack_suspend, g_pending, pc, sleeping, queued>>
    BY <1>3 DEF vars, flags, waits
  <2>2. Places' /\ Members(g_ppu)' = Members(g_ppu)
    BY <2>1, QuietStep DEF IndInv
  <2>3. Typing' /\ Running' /\ Calling'
    BY <2>1, <2>2 DEF IndInv, Typing, Running, Calling
  <2>4. QED
    BY <2>2, <2>3 DEF IndInv
<1>4. QED
  BY <1>1, <1>2, <1>3 DEF Next

(***************************************************************************)
(* The invariant of the scheduler holds in every reachable state.          *)
(***************************************************************************)
THEOREM Invariance ==
  Spec => []IndInv
BY InitInv, NextInv, PTL DEF Spec

(***************************************************************************)
(* However many threads there are, and however they sleep, awake each      *)
(* other, yield and change priorities: g_pending is the number of threads  *)
(* that awake_unlocked has told to stop and that have not.                 *)
(***************************************************************************)
THEOREM Counted ==
  Spec => []PendingCounts
<1>1. IndInv => PendingCounts
  BY DEF IndInv, Places, PendingCounts
<1>2. QED
  BY <1>1, Invariance, PTL

(***************************************************************************)
(* The run queue stays sorted, threads without a place are suspended, and  *)
(* once all have stopped, those with a place are not (awake_unlocked,      *)
(* schedule_all).                                                          *)
(***************************************************************************)
THEOREM UrgentFirst ==
  Spec => []TopRuns
<1>1. IndInv => TopRuns
  BY DEF IndInv, Places, TopRuns, RunQueue, Sorted
<1>2. QED
  BY <1>1, Invariance, PTL

(***************************************************************************)
(* Not more than ppu_threads threads run guest code at a time: each of     *)
(* them occupies a hardware thread (schedule_all).                         *)
(***************************************************************************)
THEOREM Bounded ==
  Spec => []AtMostHw
<1>1. ASSUME IndInv PROVE AtMostHw
  <2> DEFINE G == {t \in Threads : pc[t] = "guest"}
  <2>1. G \subseteq Occupants /\ Occupants \subseteq Threads
    BY <1>1 DEF IndInv, Running, Places, Occupants
  <2>2. Cardinality(Occupants) <= ppu_threads /\ ppu_threads \in Nat
    BY <1>1, SchedAssumption DEF IndInv, Places, SchedAssumption
  <2> HIDE DEF G
  <2>3. /\ Cardinality(G) <= Cardinality(Occupants)
        /\ Cardinality(G) \in Nat /\ Cardinality(Occupants) \in Nat
    BY <2>1, PartOfThreads
  <2>4. Cardinality(G) <= ppu_threads
    BY <2>2, <2>3, SMT
  <2>5. QED
    BY <2>4 DEF AtMostHw, G
<1>2. QED
  BY <1>1, Invariance, PTL

-----------------------------------------------------------------------------
(***************************************************************************)
(* A thread that comes to sleep carries nothing over from an earlier wait. *)
(***************************************************************************)
\* The timeouts in w are of threads that neither q nor a notification awakes.
TimeoutsFor(w, q) ==
  /\ w \in Seq(Threads) /\ Distinct(w)
  /\ Members(w) \intersect (Members(q) \union notify) = {}

Clean ==
  /\ TimeoutsFor(g_waiting, g_ppu)
  /\ \A t \in Threads : pc[t] = "guest" => t \notin signal \union notify

\* A list of timeouts without one thread.
LEMMA UnqueueTimeout ==
  ASSUME NEW w \in Seq(Threads), Distinct(w), NEW u
  PROVE  /\ unqueue(w, u) \in Seq(Threads) /\ Distinct(unqueue(w, u))
         /\ Members(unqueue(w, u)) = Members(w) \ {u}
<1> DEFINE p == [t \in Threads |-> 0]
<1>1. \A i \in DOMAIN w : p[w[i]] = 0
  BY SMT
<1>2. RunQueue(w, p)
  BY <1>1, SMT DEF RunQueue, Sorted
<1> HIDE DEF p
<1>3. QED
  BY <1>2, UnqueueQueue DEF RunQueue

\* emplace_thread unregisters the timeout of the thread that it queues.
LEMMA UnregisterTimeout ==
  ASSUME NEW w, NEW q, TimeoutsFor(w, q), NEW u, NEW r, Members(r) = Members(q) \union {u}
  PROVE  TimeoutsFor(Unregister(q, w, u), r)
<1>1. CASE u \in Members(q)
  BY <1>1 DEF TimeoutsFor, Unregister
<1>2. CASE u \notin Members(q)
  <2> DEFINE z == unqueue(w, u)
  <2>1. z \in Seq(Threads) /\ Distinct(z) /\ Members(z) = Members(w) \ {u}
    BY UnqueueTimeout DEF TimeoutsFor
  <2>2. Unregister(q, w, u) = z
    BY <1>2 DEF Unregister
  <2> HIDE DEF z
  <2>3. QED
    BY <2>1, <2>2 DEF TimeoutsFor
<1>3. QED
  BY <1>1, <1>2

\* awake_unlocked queues two threads one after the other.
LEMMA UnregisterBoth ==
  ASSUME prio \in [Threads -> Int], NEW q, RunQueue(q, prio), NEW w, TimeoutsFor(w, q),
         NEW u \in Threads, NEW v \in Threads
  PROVE  TimeoutsFor(Unregister_all(q, w, u, v), emplace_all(q, u, v))
<1> DEFINE r == emplace(q, u)
           z == Unregister(q, w, u)
<1>1. RunQueue(r, prio) /\ Members(r) = Members(q) \union {u}
  BY EmplaceQueue
<1>2. TimeoutsFor(z, r)
  BY <1>1, UnregisterTimeout
<1> HIDE DEF r, z
<1>3. Members(emplace(r, v)) = Members(r) \union {v}
  BY <1>1, EmplaceQueue
<1>4. TimeoutsFor(Unregister(r, z, v), emplace(r, v))
  BY <1>2, <1>3, UnregisterTimeout
<1>5. QED
  BY <1>4 DEF r, z, Unregister_all, emplace_all

\* schedule_all notifies the threads whose timeouts it takes off, and signals
\* threads that have stopped.
LEMMA ScheduleClean ==
  ASSUME Clean, NEW q, NEW w, TimeoutsFor(w, q), NEW s, NEW cur, schedule_all(q, w, s, cur),
         IndInv',
         \A t \in Threads : pc'[t] = "guest" =>
           pc[t] = "guest" /\ (t \notin s \/ t \in ack_suspend')
  PROVE  Clean'
<1>1. /\ g_ppu' = q /\ \A t \in signal' : t \in signal \/ (g_pending' = 0 /\ t \in s)
  BY DEF schedule_all, MaySchedule
<1>2. PICK n \in 0 .. Len(w) :
        /\ g_waiting' = SubSeq(w, n + 1, Len(w))
        /\ notify' = notify \union (Members(SubSeq(w, 1, n)) \ {cur})
  BY DEF schedule_all
<1>3. w \in Seq(Threads) /\ Len(w) \in Nat /\ DOMAIN w = 1 .. Len(w) /\ Distinct(w)
  BY SMT DEF TimeoutsFor
<1> DEFINE a == SubSeq(w, 1, n)
           b == SubSeq(w, n + 1, Len(w))
<1>4. /\ a \in Seq(Threads) /\ Len(a) = n /\ \A j \in 1 .. n : a[j] = w[j]
  <2>1. 1 \in 1 .. Len(w) + 1 /\ n \in 1 - 1 .. Len(w) /\ n - 1 + 1 = n
    BY <1>3, SMT
  <2>2. \A j \in 1 .. n : 1 + j - 1 = j
    BY <1>3, SMT
  <2>3. QED
    BY <1>3, <2>1, <2>2, Piece, SMT
<1>5. /\ b \in Seq(Threads) /\ Len(b) = Len(w) - n
      /\ \A j \in 1 .. Len(w) - n : b[j] = w[n + j]
  <2>1. n + 1 \in 1 .. Len(w) + 1 /\ Len(w) \in (n + 1) - 1 .. Len(w)
        /\ Len(w) - (n + 1) + 1 = Len(w) - n
    BY <1>3, SMT
  <2>2. \A j \in 1 .. Len(w) - n : (n + 1) + j - 1 = n + j
    BY <1>3, SMT
  <2> DEFINE m == n + 1
             l == Len(w)
  <2>3. m \in 1 .. Len(w) + 1 /\ l \in m - 1 .. Len(w)
    BY <2>1
  <2> HIDE DEF m, l
  <2>4. /\ SubSeq(w, m, l) \in Seq(Threads) /\ Len(SubSeq(w, m, l)) = l - m + 1
        /\ \A j \in 1 .. l - m + 1 : SubSeq(w, m, l)[j] = w[m + j - 1]
    BY <1>3, <2>3, Piece
  <2>5. QED
    BY <2>1, <2>2, <2>4 DEF m, l
<1> HIDE DEF a, b
<1>6. DOMAIN a = 1 .. n /\ DOMAIN b = 1 .. Len(w) - n
  BY <1>3, <1>4, <1>5, SMT
<1>7. \A j \in DOMAIN b : n + j \in DOMAIN w /\ n + j > n /\ b[j] = w[n + j]
  BY <1>3, <1>5, <1>6, SMT
<1>8. \A j \in DOMAIN a : j \in DOMAIN w /\ j <= n /\ a[j] = w[j]
  BY <1>3, <1>4, <1>6, SMT
<1>9. Distinct(b)
  <2>1. ASSUME NEW i \in DOMAIN b, NEW j \in DOMAIN b, i # j
        PROVE  b[i] # b[j]
    <3>1. n + i # n + j
      BY <1>3, <1>6, <2>1, SMT
    <3>2. QED
      BY <1>3, <1>7, <3>1 DEF Distinct
  <2>2. QED
    BY <2>1 DEF Distinct
<1>10. Members(a) \subseteq Members(w) /\ Members(b) \subseteq Members(w)
  BY <1>7, <1>8 DEF Members
<1>11. Members(a) \intersect Members(b) = {}
  <2>1. ASSUME NEW i \in DOMAIN a, NEW j \in DOMAIN b
        PROVE  a[i] # b[j]
    <3>1. i # n + j
      BY <1>3, <1>6, <1>7, <1>8, SMT
    <3>2. QED
      BY <1>3, <1>7, <1>8, <3>1 DEF Distinct
  <2>2. QED
    BY <2>1 DEF Members
<1>12. g_waiting' = b /\ notify' = notify \union (Members(a) \ {cur})
  BY <1>2 DEF a, b
<1>13. TimeoutsFor(g_waiting, g_ppu)'
  <2>1. Members(b) \intersect (Members(q) \union notify') = {}
    BY <1>10, <1>11, <1>12 DEF TimeoutsFor
  <2>2. Members(g_waiting)' = Members(b) /\ Members(g_ppu)' = Members(q)
    BY <1>1, <1>12 DEF Members
  <2>3. Distinct(g_waiting)'
    BY <1>9, <1>12 DEF Distinct
  <2>4. QED
    BY <1>5, <1>12, <2>1, <2>2, <2>3 DEF TimeoutsFor
<1>14. ASSUME NEW t \in Threads, pc'[t] = "guest"
       PROVE  t \notin signal' \union notify'
  <2>1. t \notin signal /\ t \notin notify /\ (t \notin s \/ t \in ack_suspend')
    BY <1>14 DEF Clean
  <2>2. t \in Members(q)
    <3>1. t \in Members(g_ppu)'
      BY <1>14 DEF IndInv, Running
    <3>2. QED
      BY <1>1, <3>1 DEF Members
  <2>3. t \notin notify'
    BY <1>10, <1>12, <2>1, <2>2 DEF TimeoutsFor
  <2>4. t \notin signal'
    <3>1. g_pending' = Cardinality(ack_suspend') /\ ack_suspend' \subseteq Threads
      BY DEF IndInv, Places
    <3>2. g_pending' = 0 => ack_suspend' = {}
      BY <3>1, PartOfThreads
    <3>3. QED
      BY <1>1, <2>1, <3>2
  <2>5. QED
    BY <2>3, <2>4
<1>15. QED
  BY <1>13, <1>14 DEF Clean

\* The same for the end of awake.
LEMMA AwakeClean ==
  ASSUME Clean, NEW q, NEW w, TimeoutsFor(w, q), NEW s, NEW acks, NEW pending, NEW cur,
         awake(q, w, s, acks, pending, cur), IndInv',
         \A t \in Threads : pc'[t] = "guest" =>
           pc[t] = "guest" /\ t # cur /\ (t \notin s \/ t \in acks)
  PROVE  Clean'
<1> DEFINE over == ToSuspend(q, s)
           so == s \union over
<1>1. /\ ack_suspend' = (acks \union over) \ ((acks \union over) \intersect {cur})
      /\ schedule_all(q, w, so, cur)
  BY DEF awake
<1> HIDE DEF over
<1>2. \A t \in Threads : pc'[t] = "guest" =>
        pc[t] = "guest" /\ (t \notin so \/ t \in ack_suspend')
  BY <1>1
<1> HIDE DEF so
<1>3. QED
  BY <1>1, <1>2, ScheduleClean

\* awake_all
LEMMA AwakeAllClean ==
  ASSUME IndInv, Clean, IndInv', NEW u \in queued, NEW v \in queued, NEW cur,
         awake_all(u, v, cur),
         \A t \in Threads : pc'[t] = "guest" => pc[t] = "guest" /\ t # cur
  PROVE  Clean'
<1> DEFINE q == emplace_all(g_ppu, u, v)
           w == Unregister_all(g_ppu, g_waiting, u, v)
<1>1. prio \in [Threads -> Int] /\ u \in Threads /\ v \in Threads /\ RunQueue(g_ppu, prio)
  BY PriosAreIntegers DEF IndInv, Typing, Places
<1>2. TimeoutsFor(w, q)
  BY <1>1, UnregisterBoth DEF Clean
<1>3. awake(q, w, suspend, ack_suspend, g_pending, cur)
  BY DEF awake_all
<1> HIDE DEF q, w
<1>4. \A t \in Threads : pc'[t] = "guest" =>
        pc[t] = "guest" /\ t # cur /\ (t \notin suspend \/ t \in ack_suspend)
  BY DEF IndInv, Running
<1>5. QED
  BY <1>2, <1>3, <1>4, AwakeClean

\* awake_all by a PPU thread or by a host thread
LEMMA AwakesClean ==
  ASSUME IndInv, Clean, IndInv', HostAwake \/ \E t \in Threads : Awake(t)
  PROVE  Clean'
<1>1. CASE HostAwake
  <2>1. PICK u, v \in queued : awake_all(u, v, Host)
    BY <1>1 DEF HostAwake
  <2>2. \A t \in Threads : pc'[t] = "guest" => pc[t] = "guest" /\ t # Host
    BY <1>1, SchedAssumption DEF HostAwake, SchedAssumption
  <2>3. QED
    BY <2>1, <2>2, AwakeAllClean
<1>2. ASSUME NEW t \in Threads, Awake(t)
      PROVE  Clean'
  <2>1. PICK u, v \in queued : awake_all(u, v, t)
    BY <1>2 DEF Awake
  <2>2. \A x \in Threads : pc'[x] = "guest" => pc[x] = "guest" /\ x # t
    BY <1>2 DEF Awake, Goto, IndInv, Typing
  <2>3. QED
    BY <2>1, <2>2, AwakeAllClean
<1>3. QED
  BY <1>1, <1>2

\* sleep does not fail, and a timeout that it registers is the only one of
\* the thread.
LEMMA SleepClean ==
  ASSUME IndInv, Clean, IndInv', NEW t \in Threads, Sleep(t)
  PROVE  Clean'
<1> DEFINE s == suspend \union {t}
           q == unqueue(g_ppu, t)
           acks == ack_suspend \ {t}
           pending == g_pending - Cardinality(ack_suspend \intersect {t})
<1>1. pc[t] = "guest" /\ pc' = [pc EXCEPT ![t] = "wait"]
  BY DEF Sleep, Goto
<1>2. t \notin signal /\ t \notin notify /\ t \in Members(g_ppu)
  BY <1>1 DEF Clean, IndInv, Running
<1>3. PICK expires \in BOOLEAN, i \in 1 .. Len(g_waiting) + 1 :
        LET w == IF expires THEN Link(g_waiting, i, t) ELSE g_waiting
        IN  \/ ack_suspend' = acks /\ schedule_all(q, w, s, t)
            \/ \E u, v \in queued :
                 awake(emplace_all(q, u, v), Unregister_all(q, w, u, v), s, acks, pending, t)
  BY <1>2 DEF Sleep
<1> DEFINE w == IF expires THEN Link(g_waiting, i, t) ELSE g_waiting
<1>4. RunQueue(g_ppu, prio) /\ prio \in [Threads -> Int] /\ queued \subseteq Threads
  BY PriosAreIntegers DEF IndInv, Places, Typing
<1>5. RunQueue(q, prio) /\ Members(q) = Members(g_ppu) \ {t}
  BY <1>4, UnqueueQueue
<1>6. TimeoutsFor(w, q)
  <2>1. /\ g_waiting \in Seq(Threads) /\ Distinct(g_waiting)
        /\ Members(g_waiting) \intersect (Members(g_ppu) \union notify) = {}
    BY DEF Clean, TimeoutsFor
  <2>2. t \notin Members(g_waiting)
    BY <1>2, <2>1
  <2> DEFINE r == Link(g_waiting, i, t)
  <2>3. r \in Seq(Threads) /\ Distinct(r) /\ Members(r) = Members(g_waiting) \union {t}
    BY <2>1, <2>2, LinkMembers
  <2> HIDE DEF q, r
  <2>4. TimeoutsFor(g_waiting, q) /\ TimeoutsFor(r, q)
    BY <1>2, <1>5, <2>1, <2>3 DEF TimeoutsFor
  <2>5. QED
    BY <2>4 DEF r
<1>7. \A x \in Threads : pc'[x] = "guest" =>
        pc[x] = "guest" /\ x # t /\ (x \notin s \/ x \in acks)
  BY <1>1 DEF IndInv, Typing, Running
<1>8. \/ ack_suspend' = acks /\ schedule_all(q, w, s, t)
      \/ \E u, v \in queued :
           awake(emplace_all(q, u, v), Unregister_all(q, w, u, v), s, acks, pending, t)
  BY <1>3
<1> HIDE DEF q, w, s, acks, pending
<1>9. CASE ack_suspend' = acks /\ schedule_all(q, w, s, t)
  BY <1>6, <1>7, <1>9, ScheduleClean
<1>10. ASSUME NEW u \in queued, NEW v \in queued,
              awake(emplace_all(q, u, v), Unregister_all(q, w, u, v), s, acks, pending, t)
       PROVE  Clean'
  <2>1. TimeoutsFor(Unregister_all(q, w, u, v), emplace_all(q, u, v))
    BY <1>4, <1>5, <1>6, UnregisterBoth
  <2>2. QED
    BY <1>7, <1>10, <2>1, AwakeClean
<1>11. QED
  BY <1>8, <1>9, <1>10

\* The steps that leave the run queue and the timeouts alone: check_state
\* takes signal and notify off before it returns.
LEMMA FlagsClean ==
  ASSUME IndInv, Clean, NEW t \in Threads,
         WaitSignal(t) \/ WaitTimeout(t) \/ Recheck(t) \/ Poll(t) \/ CheckState(t)
  PROVE  Clean'
<1>1. /\ UNCHANGED <<g_ppu, g_waiting>> /\ signal' \subseteq signal /\ notify' \subseteq notify
      /\ pc \in [Threads -> Labels]
  BY DEF WaitSignal, WaitTimeout, Recheck, Poll, CheckState, flags, IndInv, Typing
<1>2. \A x \in Threads : pc'[x] = "guest" =>
        pc[x] = "guest" \/ x \notin signal' \union notify'
  BY <1>1 DEF WaitSignal, WaitTimeout, Recheck, Poll, CheckState, Goto
<1>3. TimeoutsFor(g_waiting, g_ppu)'
  BY <1>1, SMT DEF Clean, TimeoutsFor, Distinct, Members
<1>4. QED
  BY <1>1, <1>2, <1>3 DEF Clean

\* cpu_sleep
LEMMA CpuSleepClean ==
  ASSUME IndInv, Clean, IndInv', NEW t \in Threads, CpuSleep(t)
  PROVE  Clean'
<1> DEFINE q == emplace(g_ppu, t)
           w == Unregister(g_ppu, g_waiting, t)
<1>1. /\ awake(q, w, suspend, ack_suspend, g_pending, t) /\ pc' = pc
      /\ sleeping[t] = "call"
  BY DEF CpuSleep
<1>2. pc[t] # "guest"
  BY <1>1 DEF IndInv, Calling
<1>3. prio \in [Threads -> Int] /\ RunQueue(g_ppu, prio)
  BY PriosAreIntegers DEF IndInv, Typing, Places
<1>4. Members(q) = Members(g_ppu) \union {t}
  BY <1>3, EmplaceQueue
<1>5. TimeoutsFor(w, q)
  BY <1>4, UnregisterTimeout DEF Clean
<1> HIDE DEF q, w
<1>6. \A x \in Threads : pc'[x] = "guest" =>
        pc[x] = "guest" /\ x # t /\ (x \notin suspend \/ x \in ack_suspend)
  BY <1>1, <1>2 DEF IndInv, Running
<1>7. QED
  BY <1>1, <1>5, <1>6, AwakeClean

\* yield keeps the members of the queue.
LEMMA YieldClean ==
  ASSUME IndInv, Clean, IndInv', NEW t \in Threads, Yield(t)
  PROVE  Clean'
<1> DEFINE i == CHOOSE k \in DOMAIN g_ppu : g_ppu[k] = t
           j == LastEqual(i)
           q == Link(Unlink(g_ppu, i), j, t)
<1>1. pc[t] = "guest" /\ pc' = [pc EXCEPT ![t] = "leave"]
  BY DEF Yield, Goto
<1>2. \/ UNCHANGED <<g_ppu, flags, ack_suspend, g_pending, g_waiting>>
      \/ /\ UNCHANGED <<ack_suspend, g_pending>>
         /\ schedule_all(q, g_waiting, suspend, t)
      \/ awake(q, g_waiting, suspend, ack_suspend, g_pending, t)
  BY DEF Yield
<1>3. i \in DOMAIN g_ppu /\ g_ppu[i] = t
  BY <1>1 DEF IndInv, Running, Members
<1> HIDE DEF i
<1>4. /\ j \in i .. Len(g_ppu)
      /\ \A k \in i .. j : prio[g_ppu[k]] = prio[g_ppu[i]]
  BY <1>3, LastEqualInQueue DEF IndInv, Places, RunQueue
<1> HIDE DEF j
<1>5. Members(q) = Members(g_ppu)
  <2>1. prio \in [Threads -> Int] /\ RunQueue(g_ppu, prio)
    BY PriosAreIntegers DEF IndInv, Typing, Places
  <2>2. QED
    BY <2>1, <1>3, <1>4, RotateQueue
<1> HIDE DEF q
<1>6. TimeoutsFor(g_waiting, q)
  BY <1>5 DEF Clean, TimeoutsFor
<1>7. \A x \in Threads : pc'[x] = "guest" =>
        pc[x] = "guest" /\ x # t /\ (x \notin suspend \/ x \in ack_suspend)
  BY <1>1 DEF IndInv, Typing, Running
<1>8. CASE UNCHANGED <<g_ppu, flags, ack_suspend, g_pending, g_waiting>>
  <2>1. UNCHANGED <<g_ppu, g_waiting, signal, notify>>
    BY <1>8 DEF flags
  <2>2. TimeoutsFor(g_waiting, g_ppu)'
    BY <2>1 DEF Clean, TimeoutsFor, Distinct, Members
  <2>3. QED
    BY <2>1, <2>2, <1>7 DEF Clean
<1>9. CASE /\ UNCHANGED <<ack_suspend, g_pending>>
           /\ schedule_all(q, g_waiting, suspend, t)
  BY <1>6, <1>7, <1>9, ScheduleClean
<1>10. CASE awake(q, g_waiting, suspend, ack_suspend, g_pending, t)
  BY <1>6, <1>7, <1>10, AwakeClean
<1>11. QED
  BY <1>2, <1>8, <1>9, <1>10

\* A thread whose priority changes was in the queue and stays there, or was
\* not and does not enter it.
LEMMA SetPriorityClean ==
  ASSUME IndInv, Clean, IndInv', NEW t \in Threads, SetPriority(t)
  PROVE  Clean'
<1>1. pc[t] = "guest" /\ pc' = [pc EXCEPT ![t] = "leave"]
  BY DEF SetPriority, Goto
<1>2. PICK u \in Targets, p \in Prios :
        IF u \in Members(g_ppu)
        THEN awake(insert(unqueue(g_ppu, u), u, p),
                   Unregister(unqueue(g_ppu, u), g_waiting, u),
                   suspend, ack_suspend, g_pending, t)
        ELSE /\ UNCHANGED <<ack_suspend, g_pending>>
             /\ schedule_all(g_ppu, g_waiting, suspend, t)
  BY DEF SetPriority
<1>3. u \in Threads /\ p \in Int
  BY SchedAssumption DEF SchedAssumption
<1>4. prio \in [Threads -> Int] /\ RunQueue(g_ppu, prio)
  BY PriosAreIntegers DEF IndInv, Typing, Places
<1>5. \A x \in Threads : pc'[x] = "guest" =>
        pc[x] = "guest" /\ x # t /\ (x \notin suspend \/ x \in ack_suspend)
  BY <1>1 DEF IndInv, Typing, Running
<1>6. CASE u \in Members(g_ppu)
  <2> DEFINE r == unqueue(g_ppu, u)
             q == insert(r, u, p)
             w == Unregister(r, g_waiting, u)
  <2>1. RunQueue(r, prio) /\ Members(r) = Members(g_ppu) \ {u}
    BY <1>4, UnqueueQueue
  <2>2. awake(q, w, suspend, ack_suspend, g_pending, t)
    BY <1>2, <1>6
  <2> HIDE DEF r
  <2>3. Members(q) = Members(r) \union {u}
    BY <2>1, <1>3, <1>4, InsertSorted
  <2>4. TimeoutsFor(g_waiting, r)
    BY <2>1 DEF Clean, TimeoutsFor
  <2> HIDE DEF q
  <2>5. TimeoutsFor(w, q)
    BY <2>3, <2>4, UnregisterTimeout
  <2> HIDE DEF w
  <2>6. QED
    BY <2>2, <2>5, <1>5, AwakeClean
<1>7. CASE u \notin Members(g_ppu)
  <2>1. schedule_all(g_ppu, g_waiting, suspend, t)
    BY <1>2, <1>7
  <2>2. TimeoutsFor(g_waiting, g_ppu)
    BY DEF Clean
  <2>3. \A x \in Threads : pc'[x] = "guest" =>
          pc[x] = "guest" /\ (x \notin suspend \/ x \in ack_suspend')
    BY <1>2, <1>5, <1>7
  <2>4. QED
    BY <2>1, <2>2, <2>3, ScheduleClean
<1>8. QED
  BY <1>6, <1>7

\* Every step keeps both.
LEMMA NextClean ==
  IndInv /\ Clean /\ [Next]_vars => Clean'
<1> SUFFICES ASSUME IndInv, Clean, [Next]_vars PROVE Clean'
  OBVIOUS
<1>1. IndInv'
  BY NextInv
<1>2. CASE HostAwake
  BY <1>1, <1>2, AwakesClean
<1>3. ASSUME NEW t \in Threads,
             \/ Awake(t) \/ Sleep(t) \/ WaitSignal(t) \/ WaitTimeout(t)
             \/ Recheck(t) \/ Poll(t) \/ CheckState(t) \/ CpuSleep(t) \/ Yield(t)
             \/ SetPriority(t)
      PROVE  Clean'
  BY <1>1, <1>3, AwakesClean, SleepClean, FlagsClean, CpuSleepClean, YieldClean,
     SetPriorityClean
<1>4. CASE UNCHANGED vars
  <2>1. UNCHANGED <<g_ppu, g_waiting, signal, notify, pc>>
    BY <1>4 DEF vars, flags, waits
  <2>2. QED
    BY <2>1 DEF Clean, TimeoutsFor, Distinct, Members
<1>5. QED
  BY <1>2, <1>3, <1>4 DEF Next

(***************************************************************************)
(* A thread that runs guest code is in the run queue and has neither a     *)
(* signal nor a notification of an earlier wait left over, so that the     *)
(* next sleep does not fail; and no timeout stays registered for a thread  *)
(* that is runnable or has been notified (sleep_unlocked, awake_unlocked,  *)
(* schedule_all, check_state).                                             *)
(***************************************************************************)
THEOREM CleanCalls ==
  Spec => []CleanCall
<1>1. Init => Clean
  <2>1. <<>> \in Seq(Threads) /\ Distinct(<<>>) /\ Members(<<>>) = {}
    BY SMT DEF Distinct, Members
  <2>2. QED
    BY <2>1 DEF Init, Clean, TimeoutsFor
<1>2. IndInv /\ Clean => CleanCall
  BY DEF IndInv, Running, Clean, TimeoutsFor, CleanCall
<1>3. QED
  BY <1>1, <1>2, Invariance, NextClean, PTL DEF Spec

=============================================================================
