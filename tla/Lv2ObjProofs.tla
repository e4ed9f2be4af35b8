---------------------------- MODULE Lv2ObjProofs ----------------------------
(***************************************************************************)
(* Facts about the sleep queues of module Lv2Obj: what emplace, unqueue    *)
(* and schedule do to the length and to the members of a queue, and what   *)
(* the queue that is appended to another one leaves of both.               *)
(***************************************************************************)
EXTENDS Lv2Obj, WellFoundedInduction, TLAPS

-----------------------------------------------------------------------------
\* One sequence after the other, position by position.
LEMMA ConcatElements ==
  ASSUME NEW S, NEW p \in Seq(S), NEW q \in Seq(S)
  PROVE  /\ p \o q \in Seq(S)
         /\ Len(p \o q) = Len(p) + Len(q)
         /\ \A j \in 1 .. Len(p) + Len(q) :
              (p \o q)[j] = IF j <= Len(p) THEN p[j] ELSE q[j - Len(p)]
  OBVIOUS

\* The first n elements of a sequence.
LEMMA PrefixElements ==
  ASSUME NEW S, NEW s \in Seq(S), NEW n \in 0 .. Len(s)
  PROVE  /\ SubSeq(s, 1, n) \in Seq(S)
         /\ Len(SubSeq(s, 1, n)) = n
         /\ \A j \in 1 .. n : SubSeq(s, 1, n)[j] = s[j]
  OBVIOUS

\* The elements of a sequence after position i.
LEMMA SuffixElements ==
  ASSUME NEW S, NEW s \in Seq(S), NEW i \in 1 .. Len(s)
  PROVE  /\ SubSeq(s, i + 1, Len(s)) \in Seq(S)
         /\ Len(SubSeq(s, i + 1, Len(s))) = Len(s) - i
         /\ \A j \in 1 .. Len(s) - i : SubSeq(s, i + 1, Len(s))[j] = s[i + j]
  OBVIOUS

\* What Unlink leaves, position by position.
LEMMA UnlinkElements ==
  ASSUME NEW S, NEW s \in Seq(S), NEW i \in 1 .. Len(s)
  PROVE  /\ Unlink(s, i) \in Seq(S)
         /\ Len(Unlink(s, i)) = Len(s) - 1
         /\ \A j \in 1 .. Len(s) - 1 :
              Unlink(s, i)[j] = IF j < i THEN s[j] ELSE s[j + 1]
<1> DEFINE a == SubSeq(s, 1, i - 1)
           b == SubSeq(s, i + 1, Len(s))
<1>1. /\ Len(s) \in Nat
      /\ \A j \in 1 .. Len(s) : s[j] \in S
  OBVIOUS
<1>2. /\ a \in Seq(S)
      /\ Len(a) = i - 1
      /\ \A j \in 1 .. i - 1 : a[j] = s[j]
  BY <1>1, PrefixElements
<1>3. /\ b \in Seq(S)
      /\ Len(b) = Len(s) - i
      /\ \A j \in 1 .. Len(s) - i : b[j] = s[i + j]
  BY SuffixElements
<1> DEFINE c == a \o b
<1>4. Unlink(s, i) = c
  BY DEF Unlink
<1> HIDE DEF a, b
<1>5. /\ c \in Seq(S)
      /\ Len(c) = Len(a) + Len(b)
      /\ \A j \in 1 .. Len(a) + Len(b) :
           c[j] = IF j <= Len(a) THEN a[j] ELSE b[j - Len(a)]
  BY <1>2, <1>3, ConcatElements, Zenon
<1> HIDE DEF c
<1>6. ASSUME NEW j \in 1 .. Len(s) - 1
      PROVE  c[j] = IF j < i THEN s[j] ELSE s[j + 1]
  <2>1. c[j] = IF j <= i - 1 THEN a[j] ELSE b[j - (i - 1)]
    BY <1>1, <1>2, <1>3, <1>5
  <2>2. CASE j < i
    BY <2>1, <2>2, <1>1, <1>2
  <2>3. CASE ~(j < i)
    <3>1. j - (i - 1) \in 1 .. Len(s) - i /\ i + (j - (i - 1)) = j + 1
      BY <2>3, <1>1
    <3>2. b[j - (i - 1)] = s[j + 1]
      BY <3>1, <1>3
    <3>3. QED
      BY <3>2, <2>1, <2>3
  <2>4. QED
    BY <2>2, <2>3
<1>7. QED
  BY <1>1, <1>2, <1>3, <1>4, <1>5, <1>6

\* Removing one position takes one thread out, and only that one.
LEMMA UnlinkQueue ==
  ASSUME NEW sq \in Seq(Threads), NEW i \in DOMAIN sq
  PROVE  /\ Unlink(sq, i) \in Seq(Threads)
         /\ Len(Unlink(sq, i)) = Len(sq) - 1
         /\ Queued(Unlink(sq, i)) \subseteq Queued(sq)
         /\ Queued(sq) \subseteq Queued(Unlink(sq, i)) \union {sq[i]}
         /\ sq[i] \in Threads
         /\ NoDuplicates(sq) => /\ NoDuplicates(Unlink(sq, i))
                                /\ sq[i] \notin Queued(Unlink(sq, i))
<1> DEFINE r == Unlink(sq, i)
           n == Len(sq)
<1>1. n \in Nat /\ DOMAIN sq = 1 .. n /\ i \in 1 .. n
  OBVIOUS
<1>2. /\ r \in Seq(Threads)
      /\ Len(r) = n - 1
      /\ \A j \in 1 .. n - 1 : r[j] = IF j < i THEN sq[j] ELSE sq[j + 1]
  BY <1>1, UnlinkElements, Zenon
<1>3. DOMAIN r = 1 .. n - 1
  BY <1>2
<1> HIDE DEF r, n
<1>4. Queued(r) \subseteq Queued(sq)
  <2>1. ASSUME NEW j \in DOMAIN r
        PROVE  \E k \in DOMAIN sq : r[j] = sq[k]
    <3>1. j \in DOMAIN sq /\ j + 1 \in DOMAIN sq
      BY <1>1, <1>3
    <3>2. r[j] = sq[j] \/ r[j] = sq[j + 1]
      BY <1>2, <1>3
    <3>3. QED
      BY <3>1, <3>2
  <2>2. QED
    BY <2>1 DEF Queued
<1>5. Queued(sq) \subseteq Queued(r) \union {sq[i]}
  <2>1. ASSUME NEW k \in DOMAIN sq, sq[k] # sq[i]
        PROVE  \E j \in DOMAIN r : sq[k] = r[j]
    <3>1. CASE k < i
      <4>1. k \in 1 .. n - 1 /\ r[k] = sq[k]
        BY <1>1, <1>2, <3>1
      <4>2. QED
        BY <4>1, <1>3
    <3>2. CASE ~(k < i)
      <4>1. k # i
        BY <2>1
      <4>2. k - 1 \in 1 .. n - 1 /\ ~(k - 1 < i) /\ (k - 1) + 1 = k
        BY <1>1, <3>2, <4>1
      <4>3. r[k - 1] = sq[k]
        BY <1>2, <4>2
      <4>4. QED
        BY <4>2, <4>3, <1>3
    <3>3. QED
      BY <3>1, <3>2
  <2>2. QED
    BY <2>1 DEF Queued
<1>6. sq[i] \in Threads
  BY <1>1 DEF n
<1>7. ASSUME NoDuplicates(sq)
      PROVE  NoDuplicates(r) /\ sq[i] \notin Queued(r)
  <2>1. ASSUME NEW j \in DOMAIN r, NEW k \in DOMAIN r, r[j] = r[k]
        PROVE  j = k
    <3> DEFINE at(x) == IF x < i THEN x ELSE x + 1
    <3>1. /\ at(j) \in DOMAIN sq /\ r[j] = sq[at(j)]
          /\ at(k) \in DOMAIN sq /\ r[k] = sq[at(k)]
      BY <1>1, <1>2, <1>3
    <3>2. at(j) = at(k)
      <4> HIDE DEF at
      <4>1. QED
        BY <3>1, <2>1, <1>7, Zenon DEF NoDuplicates
    <3>3. QED
      BY <3>2, <1>1, <1>3
  <2>2. ASSUME NEW j \in DOMAIN r
        PROVE  r[j] # sq[i]
    <3> DEFINE k == IF j < i THEN j ELSE j + 1
    <3>1. k \in DOMAIN sq /\ r[j] = sq[k] /\ k # i /\ i \in DOMAIN sq
      BY <1>1, <1>2, <1>3
    <3> HIDE DEF k
    <3>2. QED
      BY <3>1, <1>7 DEF NoDuplicates
  <2>3. QED
    BY <2>1, <2>2 DEF NoDuplicates, Queued
<1>8. QED
  BY <1>1, <1>2, <1>4, <1>5, <1>6, <1>7 DEF r, n

\* emplace adds the thread, and keeps the queue free of duplicates.
LEMMA EmplaceQueue ==
  ASSUME NEW sq \in Seq(Threads), NEW t \in Threads
  PROVE  /\ emplace(sq, t) \in Seq(Threads)
         /\ Len(emplace(sq, t)) = Len(sq) + 1
         /\ Queued(emplace(sq, t)) = Queued(sq) \union {t}
         /\ NoDuplicates(sq) /\ t \notin Queued(sq) => NoDuplicates(emplace(sq, t))
<1> DEFINE e == Append(sq, t)
           n == Len(sq)
<1>1. n \in Nat /\ DOMAIN sq = 1 .. n
  OBVIOUS
<1>2. /\ e \in Seq(Threads)
      /\ Len(e) = n + 1
      /\ \A i \in 1 .. n : e[i] = sq[i]
      /\ e[n + 1] = t
  OBVIOUS
<1>3. DOMAIN e = 1 .. n + 1
  BY <1>2
<1> HIDE DEF e, n
<1>4. Queued(e) = Queued(sq) \union {t}
  <2>1. ASSUME NEW i \in DOMAIN e
        PROVE  e[i] = t \/ (i \in DOMAIN sq /\ e[i] = sq[i])
    BY <1>1, <1>2, <1>3
  <2>2. ASSUME NEW i \in DOMAIN sq
        PROVE  i \in DOMAIN e /\ e[i] = sq[i]
    BY <1>1, <1>2, <1>3
  <2>3. n + 1 \in DOMAIN e
    BY <1>1, <1>3
  <2>4. QED
    BY <2>1, <2>2, <2>3, <1>2 DEF Queued
<1>5. ASSUME NoDuplicates(sq), t \notin Queued(sq),
             NEW i \in DOMAIN e, NEW j \in DOMAIN e, e[i] = e[j]
      PROVE  i = j
  <2>1. ASSUME NEW k \in DOMAIN sq
        PROVE  sq[k] # t
    BY <1>5 DEF Queued
  <2>2. QED
    BY <2>1, <1>1, <1>2, <1>3, <1>5 DEF NoDuplicates
<1>6. QED
  BY <1>2, <1>4, <1>5 DEF NoDuplicates, e, n, emplace

\* unqueue finds the thread and takes it out.
LEMMA UnqueueQueue ==
  ASSUME NEW sq \in Seq(Threads), NEW t \in Queued(sq)
  PROVE  /\ unqueue(sq, t) \in Seq(Threads)
         /\ Len(unqueue(sq, t)) = Len(sq) - 1
         /\ Queued(unqueue(sq, t)) \subseteq Queued(sq)
         /\ Queued(sq) \subseteq Queued(unqueue(sq, t)) \union {t}
         /\ NoDuplicates(sq) => /\ NoDuplicates(unqueue(sq, t))
                             /\ t \notin Queued(unqueue(sq, t))
<1> DEFINE i == CHOOSE k \in DOMAIN sq : sq[k] = t
<1>1. i \in DOMAIN sq /\ sq[i] = t
  BY DEF Queued
<1>2. unqueue(sq, t) = Unlink(sq, i)
  BY DEF unqueue
<1> HIDE DEF i
<1>3. QED
  BY <1>1, <1>2, UnlinkQueue

-----------------------------------------------------------------------------
\* A set of natural numbers that is not empty has a least element.
LEMMA LeastNatural ==
  ASSUME NEW T, T \subseteq Nat, T # {}
  PROVE  \E x \in T : \A y \in T : x <= y
<1>1. PICK x \in T : \A y \in T : ~(<<y, x>> \in OpToRel(<, Nat))
  <2> DEFINE R == OpToRel(<, Nat)
  <2>1. IsWellFoundedOn(R, Nat)
    BY NatLessThanWellFounded, Zenon
  <2> HIDE DEF R
  <2>2. \E x \in T : \A y \in T : ~(<<y, x>> \in R)
    BY <2>1, WFMin, Zenon
  <2>3. QED
    BY <2>2, Zenon DEF R
<1>2. ASSUME NEW y \in T
      PROVE  ~(y < x)
  BY <1>1, <1>2, Zenon DEF OpToRel
<1>3. QED
  BY <1>2

\* schedule finds a waiter in a queue that is not empty (the ensure of the
\* wake-up loops), and the protocol prefers no other.
LEMMA SchedulePrefers ==
  ASSUME NEW sq \in Seq(Threads), Len(sq) > 0
  PROVE  /\ schedule(sq) \in DOMAIN sq
         /\ \A j \in DOMAIN sq :
              IF Protocol = FIFO
              THEN schedule(sq) <= j
              ELSE \/ Prio[sq[schedule(sq)]] < Prio[sq[j]]
                   \/ Prio[sq[schedule(sq)]] = Prio[sq[j]] /\ schedule(sq) <= j
<1>1. Len(sq) \in Nat /\ DOMAIN sq = 1 .. Len(sq)
  OBVIOUS
<1>2. CASE Protocol = FIFO
  BY <1>1, <1>2 DEF schedule
<1>3. CASE Protocol # FIFO
  <2> DEFINE P(i) == Prio[sq[i]] + 512
             Ps == {P(i) : i \in DOMAIN sq}
  <2>1. \A i \in DOMAIN sq : Prio[sq[i]] \in Int /\ P(i) \in Nat
    BY <1>1, Lv2Assumption DEF Lv2Assumption
  <2>2. Ps \subseteq Nat /\ Ps # {}
    BY <2>1, <1>1
  <2>3. PICK p \in Ps : \A q \in Ps : p <= q
    <3> HIDE DEF Ps
    <3>1. QED
      BY <2>2, LeastNatural, Zenon
  <2> DEFINE Is == {i \in DOMAIN sq : P(i) = p}
  <2>4. Is \subseteq Nat /\ Is # {}
    BY <1>1, <2>3
  <2>5. PICK i \in Is : \A j \in Is : i <= j
    <3> HIDE DEF Is
    <3>1. QED
      BY <2>4, LeastNatural, Zenon
  <2>6. ASSUME NEW j \in DOMAIN sq
        PROVE  \/ Prio[sq[i]] < Prio[sq[j]]
               \/ Prio[sq[i]] = Prio[sq[j]] /\ i <= j
    <3>1. P(i) <= P(j)
      BY <2>3, <2>5
    <3>2. P(i) = P(j) => i <= j
      BY <2>5
    <3>3. QED
      BY <3>1, <3>2, <2>1, <2>5
  <2>7. i \in DOMAIN sq
    BY <2>5
  <2> HIDE DEF P, Ps, Is
  <2>8. QED
    BY <2>6, <2>7, <1>3, Zenon DEF schedule
<1>4. QED
  BY <1>2, <1>3

\* What schedule returns is a position of the queue.
LEMMA ScheduleInQueue ==
  ASSUME NEW sq \in Seq(Threads), Len(sq) > 0
  PROVE  schedule(sq) \in DOMAIN sq
  BY SchedulePrefers

\* One queue after the other.
LEMMA ConcatQueue ==
  ASSUME NEW q \in Seq(Threads), NEW s \in Seq(Threads), NoDuplicates(q), NoDuplicates(s),
         Queued(q) \intersect Queued(s) = {}
  PROVE  q \o s \in Seq(Threads) /\ NoDuplicates(q \o s) /\ Queued(q \o s) = Queued(q) \union Queued(s)
<1> DEFINE r == q \o s
<1>1. /\ Len(q) \in Nat /\ DOMAIN q = 1 .. Len(q)
      /\ Len(s) \in Nat /\ DOMAIN s = 1 .. Len(s)
  OBVIOUS
<1>2. /\ r \in Seq(Threads) /\ Len(r) = Len(q) + Len(s)
      /\ \A i \in 1 .. Len(q) + Len(s) : r[i] = IF i <= Len(q) THEN q[i] ELSE s[i - Len(q)]
  OBVIOUS
<1> HIDE DEF r
<1>3. DOMAIN r = 1 .. Len(q) + Len(s)
  BY <1>2
<1>4. ASSUME NEW i \in DOMAIN r
      PROVE  \/ i \in DOMAIN q /\ r[i] = q[i] /\ r[i] \in Queued(q)
             \/ i > Len(q) /\ i - Len(q) \in DOMAIN s /\ r[i] = s[i - Len(q)] /\ r[i] \in Queued(s)
  <2>1. CASE i <= Len(q)
    <3>1. i \in DOMAIN q /\ r[i] = q[i]
      BY <2>1, <1>1, <1>2, <1>3
    <3>2. QED
      BY <3>1 DEF Queued
  <2>2. CASE i > Len(q)
    <3>1. i - Len(q) \in DOMAIN s /\ r[i] = s[i - Len(q)]
      BY <2>2, <1>1, <1>2, <1>3
    <3>2. QED
      BY <2>2, <3>1 DEF Queued
  <2>3. QED
    BY <2>1, <2>2, <1>1, <1>3
<1>5. NoDuplicates(r)
  <2>1. SUFFICES ASSUME NEW i \in DOMAIN r, NEW j \in DOMAIN r, r[i] = r[j] PROVE i = j
    BY DEF NoDuplicates
  <2>2. CASE i \in DOMAIN q /\ r[i] = q[i] /\ r[i] \in Queued(q)
    <3>1. j \in DOMAIN q /\ r[j] = q[j]
      BY <2>1, <2>2, <1>4, Zenon
    <3>2. QED
      BY <2>1, <2>2, <3>1, Zenon DEF NoDuplicates
  <2>3. CASE i > Len(q) /\ i - Len(q) \in DOMAIN s /\ r[i] = s[i - Len(q)] /\ r[i] \in Queued(s)
    <3>1. j > Len(q) /\ j - Len(q) \in DOMAIN s /\ r[j] = s[j - Len(q)]
      BY <2>1, <2>3, <1>4, Zenon
    <3>2. i - Len(q) = j - Len(q)
      BY <2>1, <2>3, <3>1, Zenon DEF NoDuplicates
    <3>3. QED
      BY <3>2, <1>1, <1>3
  <2>4. QED
    BY <2>2, <2>3, <1>4
<1>6. Queued(r) = Queued(q) \union Queued(s)
  <2>1. Queued(r) \subseteq Queued(q) \union Queued(s)
    <3>1. SUFFICES ASSUME NEW i \in DOMAIN r PROVE r[i] \in Queued(q) \union Queued(s)
      BY DEF Queued
    <3>2. QED
      BY <1>4
  <2>2. ASSUME NEW x \in Queued(q) PROVE x \in Queued(r)
    <3>1. PICK i \in DOMAIN q : x = q[i]
      BY DEF Queued
    <3>2. i \in DOMAIN r /\ r[i] = x
      BY <3>1, <1>1, <1>2, <1>3
    <3>3. QED
      BY <3>2 DEF Queued
  <2>3. ASSUME NEW x \in Queued(s) PROVE x \in Queued(r)
    <3>1. PICK i \in DOMAIN s : x = s[i]
      BY DEF Queued
    <3>2. i + Len(q) \in DOMAIN r /\ r[i + Len(q)] = x
      BY <3>1, <1>1, <1>2, <1>3
    <3>3. QED
      BY <3>2 DEF Queued
  <2>4. QED
    BY <2>1, <2>2, <2>3
<1>7. QED
  BY <1>2, <1>5, <1>6 DEF r

\* A queue without its first thread.
LEMMA TailQueue ==
  ASSUME NEW s \in Seq(Threads), NoDuplicates(s), s # <<>>
  PROVE  /\ s[1] \in Queued(s) /\ Tail(s) \in Seq(Threads) /\ NoDuplicates(Tail(s))
         /\ Queued(Tail(s)) = Queued(s) \ {s[1]}
<1>1. Len(s) \in Nat /\ Len(s) > 0 /\ DOMAIN s = 1 .. Len(s)
  OBVIOUS
<1>2. /\ Tail(s) \in Seq(Threads) /\ Len(Tail(s)) = Len(s) - 1
      /\ \A i \in 1 .. Len(s) - 1 : Tail(s)[i] = s[i + 1]
  OBVIOUS
<1>3. DOMAIN Tail(s) = 1 .. Len(s) - 1
  BY <1>2
<1>4. s[1] \in Queued(s)
  BY <1>1 DEF Queued
<1>5. NoDuplicates(Tail(s))
  BY <1>1, <1>2, <1>3 DEF NoDuplicates
<1>6. Queued(Tail(s)) = Queued(s) \ {s[1]}
  <2>1. ASSUME NEW i \in DOMAIN Tail(s) PROVE Tail(s)[i] \in Queued(s) \ {s[1]}
    <3>1. i + 1 \in DOMAIN s /\ 1 \in DOMAIN s /\ i + 1 # 1 /\ Tail(s)[i] = s[i + 1]
      BY <1>1, <1>2, <1>3
    <3>2. s[i + 1] # s[1]
      BY <3>1 DEF NoDuplicates
    <3>3. QED
      BY <3>1, <3>2 DEF Queued
  <2>2. ASSUME NEW x \in Queued(s) \ {s[1]} PROVE x \in Queued(Tail(s))
    <3>1. PICK i \in DOMAIN s : x = s[i] /\ i # 1
      BY DEF Queued
    <3>2. i - 1 \in DOMAIN Tail(s) /\ Tail(s)[i - 1] = x
      BY <3>1, <1>1, <1>2, <1>3
    <3>3. QED
      BY <3>2 DEF Queued
  <2>3. QED
    BY <2>1, <2>2 DEF Queued
<1>7. QED
  BY <1>2, <1>4, <1>5, <1>6

=============================================================================
