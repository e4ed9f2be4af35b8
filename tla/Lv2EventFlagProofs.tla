------------------------- MODULE Lv2EventFlagProofs -------------------------
(***************************************************************************)
(* The invariants of the LV2 event flag and what a set may do to it, for   *)
(* any number of threads, all priorities, any set of bits and whatever     *)
(* waits, sets and clears are called with.                                 *)
(*                                                                         *)
(* The loops of set are recursive functions.  What they compute is shown   *)
(* from the least number of rounds after which it would not hold.          *)
(***************************************************************************)
EXTENDS Lv2EventFlag, Lv2ObjProofs

\* The backend of every leaf that does not name another one.
USE ZenonT(30)

-----------------------------------------------------------------------------
\* The removal loop after n waiters.
KeptAfter(f, S, n) ==
  IF n = 0 THEN <<>>
  ELSE IF sq[n] \in S THEN f[n - 1] ELSE Append(f[n - 1], sq[n])

\* The removal loop is well defined: what it has after n waiters depends on what
\* it has after n - 1.
LEMMA KeptDefined ==
  ASSUME NEW S, NEW N \in Nat
  PROVE  \E f : f = [n \in 0 .. N |-> KeptAfter(f, S, n)]
<1> DEFINE Def(f, m) == f = [n \in 0 .. m |-> KeptAfter(f, S, n)]
           T == {m \in Nat : ~ \E f : Def(f, m)}
<1>1. SUFFICES T = {}
  OBVIOUS
<1>2. SUFFICES ASSUME T # {} PROVE FALSE
  OBVIOUS
<1>3. PICK m \in T : \A k \in T : m <= k
  <2>1. T \subseteq Nat
    OBVIOUS
  <2> HIDE DEF T
  <2>2. QED
    BY <2>1, <1>2, LeastNatural
<1>4. CASE m = 0
  <2> DEFINE f == [n \in 0 .. 0 |-> <<>>]
  <2>1. Def(f, 0)
    BY SMT DEF KeptAfter
  <2>2. QED
    BY <2>1, <1>3, <1>4
<1>5. CASE m # 0
  <2>1. m \in Nat /\ m - 1 \in Nat /\ ~(m <= m - 1)
    BY <1>3, <1>5, SMT
  <2>2. m - 1 \notin T
    BY <2>1, <1>3
  <2>3. PICK f : Def(f, m - 1)
    BY <2>1, <2>2
  <2> DEFINE g == [n \in 0 .. m |-> IF n = m THEN KeptAfter(f, S, m) ELSE f[n]]
  <2>4. ASSUME NEW n \in 0 .. m PROVE g[n] = KeptAfter(g, S, n)
    <3>1. n = 0 \/ (n # 0 /\ n - 1 \in 0 .. m /\ n - 1 \in 0 .. m - 1 /\ n - 1 # m)
      BY <2>1, SMT
    <3>2. KeptAfter(g, S, n) = KeptAfter(f, S, n)
      <4>1. CASE n = 0
        BY <4>1 DEF KeptAfter
      <4>2. CASE n # 0
        <5>1. g[n - 1] = f[n - 1]
          BY <3>1, <4>2
        <5> HIDE DEF g
        <5>2. QED
          BY <5>1 DEF KeptAfter
      <4>3. QED
        BY <4>1, <4>2
    <3>3. CASE n = m
      BY <3>2, <3>3
    <3>4. CASE n # m
      <4>1. n \in 0 .. m - 1
        BY <3>4, <2>1, SMT
      <4>2. f[n] = KeptAfter(f, S, n)
        BY <4>1, <2>3
      <4>3. QED
        BY <3>2, <3>4, <4>2
    <3>5. QED
      BY <3>3, <3>4
  <2>5. Def(g, m)
    <3>1. g = [n \in 0 .. m |-> g[n]]
      OBVIOUS
    <3> HIDE DEF g
    <3>2. QED
      BY <3>1, <2>4
  <2>6. QED
    BY <2>5, <1>3
<1>6. QED
  BY <1>4, <1>5

\* The removal loop takes the threads off the queue, and nothing else.
LEMMA RemoveQueue ==
  ASSUME sq \in Seq(Threads), NoDuplicates(sq), NEW S
  PROVE  /\ RemoveWaiters(S) \in Seq(Threads)
         /\ NoDuplicates(RemoveWaiters(S))
         /\ Queued(RemoveWaiters(S)) = Queued(sq) \ S
<1> DEFINE N == Len(sq)
           G(f) == [n \in 0 .. Len(sq) |->
                      IF n = 0 THEN <<>>
                      ELSE IF sq[n] \in S THEN f[n - 1] ELSE Append(f[n - 1], sq[n])]
           f == CHOOSE g : g = G(g)
           First(n) == {sq[i] : i \in 1 .. n}
           Right(n) == /\ f[n] \in Seq(Threads)
                       /\ NoDuplicates(f[n])
                       /\ Queued(f[n]) = First(n) \ S
           T == {n \in 0 .. N : ~Right(n)}
<1>1. N \in Nat /\ DOMAIN sq = 1 .. N /\ \A i \in 1 .. N : sq[i] \in Threads
  BY SMT
<1>2. RemoveWaiters(S) = f[N]
  BY DEF RemoveWaiters
<1>3. \A n \in 0 .. N : f[n] = KeptAfter(f, S, n)
  <2>1. PICK g : g = [n \in 0 .. N |-> KeptAfter(g, S, n)]
    BY <1>1, KeptDefined
  <2>2. g = G(g)
    BY <2>1 DEF KeptAfter
  <2>3. f = G(f)
    BY <2>2
  <2>4. \A n \in 0 .. N : f[n] = G(f)[n]
    BY <2>3
  <2> HIDE DEF f
  <2>5. QED
    BY <2>4 DEF KeptAfter
<1> HIDE DEF f
<1>4. T = {}
  <2>1. SUFFICES ASSUME T # {} PROVE FALSE
    OBVIOUS
  <2>2. PICK m \in T : \A k \in T : m <= k
    <3>1. T \subseteq Nat
      BY <1>1, SMT
    <3> HIDE DEF T
    <3>2. QED
      BY <3>1, <2>1, LeastNatural
  <2>3. m \in 0 .. N /\ ~Right(m)
    BY <2>2
  <2>4. m # 0
    <3>1. SUFFICES ASSUME m = 0 PROVE Right(0)
      BY <2>3
    <3>2. f[0] = <<>>
      BY <3>1, <2>3, <1>3 DEF KeptAfter
    <3>3. First(0) = {}
      BY SMT
    <3>4. <<>> \in Seq(Threads) /\ NoDuplicates(<<>>) /\ Queued(<<>>) = {}
      BY SMT DEF NoDuplicates, Queued
    <3> HIDE DEF First
    <3>5. QED
      BY <3>2, <3>3, <3>4
  <2>5. /\ m - 1 \in 0 .. N /\ ~(m <= m - 1) /\ m \in 1 .. N
        /\ \A i : i \in 1 .. m <=> i \in 1 .. m - 1 \/ i = m
        /\ \A i \in 1 .. m - 1 : i \in 1 .. N /\ i # m
    BY <2>3, <2>4, <1>1, SMT
  <2>6. Right(m - 1)
    BY <2>2, <2>5
  <2>7. First(m) = First(m - 1) \union {sq[m]}
    BY <2>5
  <2>8. sq[m] \notin First(m - 1) /\ sq[m] \in Threads
    BY <2>5, <1>1 DEF NoDuplicates
  <2>9. f[m] = IF sq[m] \in S THEN f[m - 1] ELSE Append(f[m - 1], sq[m])
    BY <1>3, <2>3, <2>4 DEF KeptAfter
  <2> HIDE DEF First
  <2>10. CASE sq[m] \in S
    BY <2>10, <2>3, <2>6, <2>7, <2>9
  <2>11. CASE sq[m] \notin S
    <3>1. sq[m] \notin Queued(f[m - 1])
      BY <2>6, <2>8
    <3>2. f[m] = emplace(f[m - 1], sq[m])
      BY <2>9, <2>11 DEF emplace
    <3>3. f[m - 1] \in Seq(Threads) /\ NoDuplicates(f[m - 1])
      BY <2>6
    <3>4. /\ f[m] \in Seq(Threads) /\ NoDuplicates(f[m])
          /\ Queued(f[m]) = Queued(f[m - 1]) \union {sq[m]}
      <4> HIDE DEF Right, T
      <4>1. QED
        BY ONLY <2>8, <3>1, <3>2, <3>3, EmplaceQueue, Zenon
    <3>5. QED
      BY <2>3, <2>6, <2>7, <2>11, <3>4
  <2>12. QED
    BY <2>10, <2>11
<1>5. First(N) = Queued(sq)
  BY <1>1 DEF Queued
<1>6. N \in 0 .. N
  BY <1>1, SMT
<1>7. QED
  BY <1>2, <1>4, <1>5, <1>6

-----------------------------------------------------------------------------
\* The loop over the waiters after n rounds.
LoopAfter(f, p, b, n) == IF n = 0 THEN Unvisited(p, b) ELSE Visit(f[n - 1], b)

IsLoop(f, p, b, N) == f = [n \in 0 .. N |-> LoopAfter(f, p, b, n)]

\* The loop over the waiters is well defined.
LEMMA LoopDefined ==
  ASSUME NEW p, NEW b, NEW N \in Nat
  PROVE  \E f : IsLoop(f, p, b, N)
<1> DEFINE Def(f, m) == f = [n \in 0 .. m |-> LoopAfter(f, p, b, n)]
           T == {m \in Nat : ~ \E f : Def(f, m)}
<1>1. SUFFICES T = {}
  BY DEF IsLoop
<1>2. SUFFICES ASSUME T # {} PROVE FALSE
  OBVIOUS
<1>3. PICK m \in T : \A k \in T : m <= k
  <2>1. T \subseteq Nat
    OBVIOUS
  <2> HIDE DEF T
  <2>2. QED
    BY <2>1, <1>2, LeastNatural
<1>4. CASE m = 0
  <2> DEFINE f == [n \in 0 .. 0 |-> Unvisited(p, b)]
  <2>1. Def(f, 0)
    BY SMT DEF LoopAfter
  <2>2. QED
    BY <2>1, <1>3, <1>4
<1>5. CASE m # 0
  <2>1. m \in Nat /\ m - 1 \in Nat /\ ~(m <= m - 1)
    BY <1>3, <1>5, SMT
  <2>2. m - 1 \notin T
    BY <2>1, <1>3
  <2>3. PICK f : Def(f, m - 1)
    BY <2>1, <2>2
  <2> DEFINE g == [n \in 0 .. m |-> IF n = m THEN LoopAfter(f, p, b, m) ELSE f[n]]
  <2>4. ASSUME NEW n \in 0 .. m PROVE g[n] = LoopAfter(g, p, b, n)
    <3>1. n = 0 \/ (n # 0 /\ n - 1 \in 0 .. m /\ n - 1 \in 0 .. m - 1 /\ n - 1 # m)
      BY <2>1, SMT
    <3>2. LoopAfter(g, p, b, n) = LoopAfter(f, p, b, n)
      <4>1. CASE n = 0
        BY <4>1 DEF LoopAfter
      <4>2. CASE n # 0
        <5>1. g[n - 1] = f[n - 1]
          BY <3>1, <4>2
        <5> HIDE DEF g
        <5>2. QED
          BY <5>1 DEF LoopAfter
      <4>3. QED
        BY <4>1, <4>2
    <3>3. CASE n = m
      BY <3>2, <3>3
    <3>4. CASE n # m
      <4>1. n \in 0 .. m - 1
        BY <3>4, <2>1, SMT
      <4>2. f[n] = LoopAfter(f, p, b, n)
        BY <4>1, <2>3
      <4>3. QED
        BY <3>2, <3>4, <4>2
    <3>5. QED
      BY <3>3, <3>4
  <2>5. Def(g, m)
    <3>1. g = [n \in 0 .. m |-> g[n]]
      OBVIOUS
    <3> HIDE DEF g
    <3>2. QED
      BY <3>1, <2>4
  <2>6. QED
    BY <2>5, <1>3
<1>6. QED
  BY <1>4, <1>5

\* With more bits a request is met all the more.
LEMMA MetGrows ==
  ASSUME NEW p, NEW q, q \subseteq p, NEW r, Met(q, r)
  PROVE  Met(p, r)
  BY DEF Met

\* Clearing takes bits away, and those that were asked for.
LEMMA ClearedBits ==
  ASSUME NEW r \in RequestType, NEW p
  PROVE  Cleared(p, r) \subseteq p /\ (r.clear # "no" => r.bits \intersect Cleared(p, r) = {})
<1>1. r.clear \in {"no", "bits", "all"}
  BY DEF RequestType
<1>2. QED
  BY <1>1 DEF Cleared

\* Every call has a request of some kind.
CallsTyped == \A u \in Threads : call[u].req \in RequestType

\* The values of the loop over the waiters.
Accs == [rest : Seq(Threads), woken : SUBSET Threads, unmet : SUBSET Threads,
         left : SUBSET Bits, mask : SUBSET Bits, gpr6 : [Threads -> SUBSET Bits]]

\* What the loop has decided: a woken thread reports bits that satisfy it and the
\* bits it clears are gone, the others are not satisfied by what is left.
Judged(acc, p, b) ==
  /\ acc \in Accs
  /\ acc.left \subseteq p \union b
  /\ Queued(sq) = acc.woken \union acc.unmet \union Queued(acc.rest)
  /\ \A u \in Threads \ acc.woken : acc.gpr6[u] = gpr6[u]
  /\ \A u \in acc.unmet : ~Met(acc.left, call[u].req)
  /\ \A u \in acc.woken :
       /\ Met(acc.gpr6[u], call[u].req)
       /\ call[u].req.clear # "no" => call[u].req.bits \intersect acc.left = {}

\* One round of the loop keeps this, and looks at one waiter.
LEMMA VisitStep ==
  ASSUME NEW p, NEW b, NEW acc, Judged(acc, p, b), ~Ended(acc),
         CallsTyped
  PROVE  Judged(Visit(acc, b), p, b) /\ Len(Visit(acc, b).rest) = Len(acc.rest) - 1
<1> DEFINE i == get_next(acc.rest)
           t == acc.rest[i]
           r == call[t].req
           rest == Unlink(acc.rest, i)
           w == Visit(acc, b)
<1>1. /\ acc.rest \in Seq(Threads) /\ acc.woken \subseteq Threads /\ acc.unmet \subseteq Threads
      /\ acc.left \subseteq Bits /\ acc.mask \subseteq Bits
      /\ acc.gpr6 \in [Threads -> SUBSET Bits]
  BY DEF Judged, Accs
<1>2. Len(acc.rest) > 0
  BY <1>1, SMT DEF Ended
<1>3. i \in DOMAIN acc.rest
  BY <1>1, <1>2, ScheduleInQueue DEF get_next
<1>4. /\ rest \in Seq(Threads) /\ Len(rest) = Len(acc.rest) - 1 /\ t \in Threads
      /\ Queued(rest) \subseteq Queued(acc.rest)
      /\ Queued(acc.rest) \subseteq Queued(rest) \union {t}
  <2> HIDE DEF i
  <2>1. QED
    BY <1>1, <1>3, UnlinkQueue
<1>5. t \in Queued(acc.rest)
  BY <1>3 DEF Queued
<1>6. r \in RequestType /\ r.bits \subseteq Bits
  <2>1. r \in RequestType
    BY <1>4 DEF CallsTyped
  <2> HIDE DEF r
  <2>2. QED
    BY <2>1 DEF RequestType
<1>7. /\ Cleared(acc.left, r) \subseteq acc.left
      /\ r.clear # "no" => r.bits \intersect Cleared(acc.left, r) = {}
  BY <1>6, ClearedBits
<1>8. Queued(sq) = acc.woken \union acc.unmet \union {t} \union Queued(rest)
  <2> HIDE DEF t, rest
  <2>1. QED
    BY <1>4, <1>5 DEF Judged
<1>9. CASE Met(acc.left, r)
  <2> DEFINE g == [acc.gpr6 EXCEPT ![t] = acc.left]
             d == DependantMask(acc.left, b, r)
  <2>1. w = [rest |-> rest, woken |-> acc.woken \union {t}, unmet |-> acc.unmet,
             left |-> Cleared(acc.left, r), mask |-> acc.mask \union d, gpr6 |-> g]
    BY <1>9 DEF Visit
  <2>2. d \subseteq Bits
    BY <1>6 DEF DependantMask
  <2>3. /\ g \in [Threads -> SUBSET Bits] /\ g[t] = acc.left
        /\ \A u \in Threads \ {t} : g[u] = acc.gpr6[u]
    BY <1>1, <1>4
  <2> HIDE DEF w, g, d, i, t, rest
  <2>4. /\ w.rest = rest /\ w.woken = acc.woken \union {t} /\ w.unmet = acc.unmet
        /\ w.left = Cleared(acc.left, r) /\ w.mask = acc.mask \union d /\ w.gpr6 = g
    BY <2>1
  <2> HIDE DEF r
  <2>5. w \in Accs
    <3>1. /\ acc.woken \union {t} \in SUBSET Threads /\ acc.unmet \in SUBSET Threads
          /\ Cleared(acc.left, r) \in SUBSET Bits /\ acc.mask \union d \in SUBSET Bits
      BY <1>1, <1>4, <1>7, <2>2
    <3>2. QED
      BY <2>1, <3>1, <2>3, <1>4 DEF Accs
  <2>6. w.left \subseteq acc.left
    BY <1>7, <2>4
  <2>7. w.left \subseteq p \union b
    BY <2>6 DEF Judged
  <2>8. \A u \in Threads \ w.woken : w.gpr6[u] = gpr6[u]
    BY <2>3, <2>4 DEF Judged
  <2>9. \A u \in w.unmet : ~Met(w.left, call[u].req)
    BY <2>4, <2>6, MetGrows DEF Judged
  <2>10. ASSUME NEW u \in w.woken
         PROVE  /\ Met(w.gpr6[u], call[u].req)
                /\ call[u].req.clear # "no" => call[u].req.bits \intersect w.left = {}
    <3>1. CASE u = t
      BY <3>1, <1>7, <1>9, <2>3, <2>4 DEF r
    <3>2. CASE u # t
      <4>1. u \in acc.woken /\ u \in Threads
        BY <3>2, <2>4, <1>1
      <4>2. w.gpr6[u] = acc.gpr6[u]
        BY <4>1, <3>2, <2>3, <2>4
      <4>3. QED
        BY <4>1, <4>2, <2>6 DEF Judged
    <3>3. QED
      BY <3>1, <3>2
  <2>11. Queued(sq) = w.woken \union w.unmet \union Queued(w.rest)
    BY <1>8, <2>4
  <2>12. QED
    BY <2>4, <2>5, <2>7, <2>8, <2>9, <2>10, <2>11, <1>4 DEF Judged, w
<1>10. CASE ~Met(acc.left, r)
  <2>1. w = [rest |-> rest, woken |-> acc.woken, unmet |-> acc.unmet \union {t},
             left |-> acc.left, mask |-> acc.mask, gpr6 |-> acc.gpr6]
    BY <1>10 DEF Visit
  <2> HIDE DEF w, i, t, rest
  <2>2. /\ w \in Accs /\ w.rest = rest /\ w.unmet = acc.unmet \union {t}
        /\ w.woken = acc.woken /\ w.left = acc.left /\ w.gpr6 = acc.gpr6
    <3>1. acc.unmet \union {t} \in SUBSET Threads
      BY <1>1, <1>4
    <3>2. QED
      BY <2>1, <3>1, <1>1, <1>4 DEF Accs
  <2>3. Queued(sq) = w.woken \union w.unmet \union Queued(w.rest)
    BY <1>8, <2>2
  <2>4. \A u \in w.unmet : ~Met(w.left, call[u].req)
    BY <1>10, <2>2 DEF Judged
  <2>5. QED
    BY <2>2, <2>3, <2>4, <1>4 DEF Judged, w
<1>11. QED
  BY <1>9, <1>10

\* What the loop over the waiters leaves.
Outcome(w, p, b) ==
  /\ w.woken \subseteq Queued(sq) /\ w.unmet \subseteq Queued(sq)
  /\ w.left \subseteq p \union b
  /\ w.gpr6 \in [Threads -> SUBSET Bits]
  /\ \A u \in Threads \ w.woken : w.gpr6[u] = gpr6[u]
  /\ \A u \in w.unmet : ~Met(w.left, call[u].req)
  /\ \A u \in w.woken :
       /\ Met(w.gpr6[u], call[u].req)
       /\ call[u].req.clear # "no" => call[u].req.bits \intersect w.left = {}
  /\ Queued(sq) \subseteq w.woken \union w.unmet \/ (w.woken # {} /\ w.left = {})

\* The loop decides about every waiter, unless it has woken some and no bit is left.
LEMMA ProcessOutcome ==
  ASSUME sq \in Seq(Threads), gpr6 \in [Threads -> SUBSET Bits],
         CallsTyped,
         NEW p \in SUBSET Bits, NEW b \in SUBSET Bits
  PROVE  Outcome(ProcessWaiters(p, b), p, b)
<1> DEFINE N == Len(sq)
<1>1. N \in Nat /\ DOMAIN sq = 1 .. N /\ Queued(sq) \subseteq Threads
  BY SMT DEF Queued
<1>2. /\ N \in 0 .. N /\ N - N = 0 /\ N - 0 = N /\ 0 .. N \subseteq Nat
      /\ \A m \in 0 .. N \ {0} :
           m - 1 \in 0 .. N /\ ~(m <= m - 1) /\ N - (m - 1) - 1 = N - m
  BY <1>1, SMT
<1>3. \E g : IsLoop(g, p, b, N)
  BY <1>1, LoopDefined
<1> DEFINE G(f) == [n \in 0 .. Len(sq) |->
                      IF n = 0 THEN Unvisited(p, b) ELSE Visit(f[n - 1], b)]
           f == CHOOSE g : g = G(g)
           w == ProcessWaiters(p, b)
           Right(n) == Judged(f[n], p, b) /\ (Ended(f[n]) \/ Len(f[n].rest) = N - n)
           T == {n \in 0 .. N : ~Right(n)}
<1>4. w = [f[N] EXCEPT !.mask = @ \ b]
  BY DEF ProcessWaiters
<1>5. \A n \in 0 .. N : f[n] = LoopAfter(f, p, b, n)
  <2>1. PICK g : IsLoop(g, p, b, N)
    BY <1>3
  <2>2. g = G(g)
    BY <2>1 DEF IsLoop, LoopAfter
  <2>3. f = G(f)
    BY <2>2
  <2>4. \A n \in 0 .. N : f[n] = G(f)[n]
    BY <2>3
  <2> HIDE DEF f
  <2>5. QED
    BY <2>4 DEF LoopAfter
<1> HIDE DEF f, w
<1>6. T = {}
  <2>1. SUFFICES ASSUME T # {} PROVE FALSE
    OBVIOUS
  <2>2. PICK m \in T : \A k \in T : m <= k
    <3>1. T \subseteq Nat
      BY <1>2
    <3> HIDE DEF T
    <3>2. QED
      BY <3>1, <2>1, LeastNatural
  <2>3. m \in 0 .. N /\ ~Right(m)
    BY <2>2
  <2>4. m # 0
    <3>1. SUFFICES ASSUME m = 0 PROVE Right(0)
      BY <2>3
    <3>2. f[0] = Unvisited(p, b)
      BY <3>1, <2>3, <1>5 DEF LoopAfter
    <3>3. N = N - 0
      BY <1>2
    <3> DEFINE u == Unvisited(p, b)
    <3>4. /\ u.rest = sq /\ u.woken = {} /\ u.unmet = {} /\ u.left = p \union b
          /\ u.gpr6 = gpr6
      BY DEF Unvisited
    <3>5. u \in Accs
      <4>1. {} \in SUBSET Threads /\ {} \in SUBSET Bits /\ p \union b \in SUBSET Bits
        OBVIOUS
      <4>2. QED
        BY <4>1 DEF Unvisited, Accs
    <3> HIDE DEF u
    <3>6. Judged(u, p, b)
      BY <3>4, <3>5 DEF Judged
    <3>7. QED
      BY <3>2, <3>3, <3>4, <3>6 DEF u
  <2>5. m - 1 \in 0 .. N /\ ~(m <= m - 1) /\ N - (m - 1) - 1 = N - m
    BY <2>3, <2>4, <1>2
  <2>6. Right(m - 1)
    BY <2>2, <2>5
  <2>7. f[m] = Visit(f[m - 1], b)
    BY <1>5, <2>3, <2>4 DEF LoopAfter
  <2>8. CASE Ended(f[m - 1])
    BY <2>8, <2>3, <2>6, <2>7 DEF Visit
  <2>9. CASE ~Ended(f[m - 1])
    <3>1. Judged(f[m], p, b) /\ Len(f[m].rest) = Len(f[m - 1].rest) - 1
      <4> DEFINE acc == f[m - 1]
      <4>1. Judged(acc, p, b) /\ ~Ended(acc)
        BY <2>6, <2>9
      <4> HIDE DEF acc, N, T, Right, G
      <4>2. Judged(Visit(acc, b), p, b) /\ Len(Visit(acc, b).rest) = Len(acc.rest) - 1
        BY ONLY <4>1, CallsTyped, VisitStep, Zenon
      <4>3. QED
        BY ONLY <4>2, <2>7, Zenon DEF acc
    <3>2. QED
      BY <3>1, <2>3, <2>5, <2>6, <2>9
  <2>10. QED
    BY <2>8, <2>9
<1>7. N \in 0 .. N /\ N - N = 0
  BY <1>2
<1>8. Right(N)
  BY <1>6, <1>7
<1> DEFINE e == f[N]
<1>9. Judged(e, p, b) /\ (Ended(e) \/ Len(e.rest) = 0)
  BY <1>7, <1>8
<1>10. e \in Accs /\ w = [e EXCEPT !.mask = @ \ b]
  BY <1>4, <1>9 DEF Judged
<1> HIDE DEF e
<1>11. w.woken = e.woken /\ w.unmet = e.unmet /\ w.left = e.left /\ w.gpr6 = e.gpr6
  BY <1>10, SMT DEF Accs
<1>12. e.rest \in Seq(Threads) /\ e.gpr6 \in [Threads -> SUBSET Bits]
  BY <1>10 DEF Accs
<1>13. Len(e.rest) = 0 => e.rest = <<>>
  BY <1>12, SMT
<1>14. Queued(<<>>) = {}
  BY SMT DEF Queued
<1>15. Queued(sq) \subseteq e.woken \union e.unmet \/ (e.woken # {} /\ e.left = {})
  BY <1>9, <1>13, <1>14 DEF Ended, Judged
<1>16. QED
  BY <1>9, <1>11, <1>12, <1>15 DEF Judged, Outcome, w

-----------------------------------------------------------------------------
\* A thread that left its system call for a savestate, or has yet to leave.
Leaving(t) == t \in stopped /\ pc[t] \in {"idle", "again"}

\* What is known of a thread in the queue: the pattern does not satisfy it, and the
\* verdict that an attempt of set has left in its registers is not made up.
WaiterInv(t) ==
  /\ exists
  /\ InWaitLoop(t) \/ Leaving(t)
  /\ pc[t] = "again" => call[t].name = "wait"
  /\ ~Met(pattern, call[t].req)
  /\ gpr3[t] = OK => Met(gpr6[t], call[t].req)
  /\ pc[t] = "wait" /\ t \notin stopped => run[t] = "asleep"

\* A load waits until the thread sleeps again, and nobody else does anything.
LoadInv(t) ==
  /\ t \in loading =>
       /\ pc[t] \in {"again", "wait_lock"} /\ call[t].name = "wait"
       /\ t \notin Queued(sq)
       /\ exists /\ ~Met(pattern, call[t].req)
  /\ loading # {} =>
       /\ t \notin stopped /\ t \notin signal
       /\ pc[t] = "wait_lock" => t \in loading
       /\ pc[t] \notin {"set_lock", "set_commit", "recheck"}
       /\ InWaitLoop(t) => run[t] # "running"

\* Where a thread may be.
ThreadInv(t) ==
  /\ mutex = t <=> pc[t] = "set_commit"
  /\ pc[t] = "set_commit" => pattern \subseteq loaded[t]
  /\ pc[t] = "idle" => call[t] = NoCall
  /\ InWaitLoop(t) \/ pc[t] = "wait_lock" => call[t].name = "wait"
  /\ pc[t] = "wait_lock" => exists /\ gpr3[t] = NoResult
  /\ t \in Queued(sq) => WaiterInv(t)
  /\ Answered(t) => /\ gpr3[t] \in {OK, ECANCELED}
                    /\ gpr3[t] = OK => Met(gpr6[t], call[t].req)
  /\ run[t] = "asleep" => t \in Queued(sq)
  /\ run[t] # "running" \/ t \in signal => InWaitLoop(t) \/ Leaving(t)
  /\ t \in signal \/ pc[t] = "recheck" => run[t] = "running"
  /\ pc[t] = "recheck" => t \notin signal
  /\ LoadInv(t)

\* A flag for one waiter has one, before and after a load.
SingleInv == Type = SINGLE => \A t, u \in Queued(sq) \union loading : t = u

ThreadsInv == \A t \in Threads : ThreadInv(t)

IndInv == TypeOK /\ SingleInv /\ ThreadsInv

-----------------------------------------------------------------------------
Labels == WaitLabels \union {"wait_lock", "set_lock", "set_commit"}
Calls == [name : {"none", "wait", "set", "cancel"}, timed : BOOLEAN, req : RequestType]
Results == {OK, ECANCELED, NoResult}

\* A request for some bits only; without bits nothing satisfies it.
LEMMA OnlyBitsValue ==
  ASSUME NEW b \in SUBSET Bits
  PROVE  /\ OnlyBits(b) \in RequestType /\ OnlyBits(b).bits = b
         /\ \A p : ~Met(p, OnlyBits({}))
<1>1. FALSE \in BOOLEAN /\ "no" \in {"no", "bits", "all"}
  OBVIOUS
<1>2. OnlyBits(b) \in RequestType /\ OnlyBits(b).bits = b
  BY <1>1 DEF RequestType, OnlyBits
<1>3. \A p : ~Met(p, OnlyBits({}))
  BY DEF Met, OnlyBits
<1>4. QED
  BY <1>2, <1>3

\* The calls that the model makes.
LEMMA CallValues ==
  ASSUME NEW name \in {"none", "wait", "set", "cancel"}, NEW timed \in BOOLEAN, NEW r \in RequestType
  PROVE  Call(name, timed, r) \in Calls /\ Call(name, timed, r).name = name
         /\ Call(name, timed, r).req = r
  BY DEF Call, Calls

\* No call: a thread outside of one is not satisfied by any pattern.
LEMMA NoCallValue ==
  NoCall \in Calls /\ NoCall.name = "none" /\ \A p : ~Met(p, NoCall.req)
<1>1. {} \in SUBSET Bits /\ "none" \in {"none", "wait", "set", "cancel"} /\ FALSE \in BOOLEAN
  OBVIOUS
<1>2. OnlyBits({}) \in RequestType /\ \A p : ~Met(p, OnlyBits({}))
  BY <1>1, OnlyBitsValue
<1> DEFINE r == OnlyBits({})
<1>3. NoCall = Call("none", FALSE, r)
  BY DEF NoCall
<1> HIDE DEF r
<1>4. Call("none", FALSE, r) \in Calls /\ Call("none", FALSE, r).name = "none"
      /\ Call("none", FALSE, r).req = r
  BY <1>1, <1>2, CallValues DEF r
<1>5. QED
  BY <1>2, <1>3, <1>4 DEF r

\* One thread goes on in its system call; the others are not concerned.
Told(t) ==
  /\ pc' \in [Threads -> Labels]
  /\ call' \in [Threads -> Calls]
  /\ \A u \in Threads \ {t} : pc'[u] = pc[u] /\ call'[u] = call[u]

\* What a thread finds in its registers is its own affair.
OwnRegs(t) ==
  /\ gpr3' \in [Threads -> Results] /\ gpr6' \in [Threads -> SUBSET Bits]
  /\ \A u \in Threads \ {t} : gpr3'[u] = gpr3[u] /\ gpr6'[u] = gpr6[u]

\* The thread returns.
LEMMA ReturnStep ==
  ASSUME TypeOK, NEW t \in Threads, Return(t)
  PROVE  Told(t) /\ pc'[t] = "idle" /\ call'[t] = NoCall
<1>1. pc' \in [Threads -> Labels] /\ pc'[t] = "idle" /\ \A u \in Threads \ {t} : pc'[u] = pc[u]
  BY DEF TypeOK, Return, Goto, Labels, WaitLabels
<1>2. /\ call' \in [Threads -> Calls] /\ call'[t] = NoCall
      /\ \A u \in Threads \ {t} : call'[u] = call[u]
  BY NoCallValue DEF TypeOK, Return, Calls
<1>3. QED
  BY <1>1, <1>2 DEF Told

\* The wait ends.
LEMMA EndWaitStep ==
  ASSUME TypeOK, NEW t \in Threads, EndWait(t)
  PROVE  /\ Told(t) /\ pc'[t] = "idle" /\ call'[t] = NoCall
         /\ OwnRegs(t) /\ gpr3'[t] = NoResult
<1>1. Told(t) /\ pc'[t] = "idle" /\ call'[t] = NoCall
  BY ReturnStep DEF EndWait
<1>2. NoResult \in Results /\ {} \in SUBSET Bits
  BY DEF Results
<1>3. OwnRegs(t) /\ gpr3'[t] = NoResult
  BY <1>2 DEF TypeOK, EndWait, OwnRegs, Results
<1>4. QED
  BY <1>1, <1>3

\* The thread goes on in the same call.
LEMMA ContinueStep ==
  ASSUME TypeOK, NEW t \in Threads, NEW l \in Labels, Continue(t, l)
  PROVE  Told(t) /\ pc'[t] = l /\ call'[t] = call[t]
  BY DEF TypeOK, Continue, Goto, Told, Labels, Calls

\* The thread begins a call, or begins it again.
LEMMA BeginStep ==
  ASSUME TypeOK, NEW t \in Threads, NEW c \in Calls, NEW l \in Labels,
         Goto(t, l), call' = [call EXCEPT ![t] = c]
  PROVE  Told(t) /\ pc'[t] = l /\ call'[t] = c
  BY DEF TypeOK, Goto, Told, Labels, Calls

\* Neither.
LEMMA StayStep ==
  ASSUME TypeOK, NEW t \in Threads
  PROVE  /\ UNCHANGED <<pc, call>> => Told(t)
         /\ UNCHANGED regVars => OwnRegs(t)
  BY DEF TypeOK, Told, OwnRegs, Labels, Calls, regVars, Results

-----------------------------------------------------------------------------
(***************************************************************************)
(* What a step may do to a thread that does not take it: leave it where it *)
(* is, perhaps with a new verdict in its registers, or take it off the     *)
(* queue with an answer.                                                   *)
(***************************************************************************)
Frame(u) ==
  /\ pc'[u] = pc[u] /\ call'[u] = call[u] /\ loaded'[u] = loaded[u]
  /\ u \in signal' <=> u \in signal
  /\ u \in stopped' <=> u \in stopped
  /\ u \in loading' <=> u \in loading
  /\ mutex' = u <=> mutex = u

Kept(u) ==
  /\ Frame(u)
  /\ run'[u] = run[u]
  /\ u \in Queued(sq') <=> u \in Queued(sq)
  /\ \/ pattern' \subseteq pattern
     \/ /\ pc[u] # "set_commit" /\ u \notin loading
        /\ u \in Queued(sq) => ~Met(pattern', call[u].req)
  /\ exists => exists' \/ (pc[u] # "wait_lock" /\ u \notin Queued(sq) /\ u \notin loading)
  /\ \/ gpr3'[u] = gpr3[u] /\ gpr6'[u] = gpr6[u]
     \/ u \in Queued(sq) /\ (gpr3'[u] = OK => Met(gpr6'[u], call[u].req))

Released(u) ==
  /\ Frame(u)
  /\ run'[u] = IF run[u] = "asleep" THEN "ready" ELSE run[u]
  /\ u \in Queued(sq) /\ u \notin Queued(sq')
  /\ loading = {} /\ loading' = {}
  /\ gpr3'[u] \in {OK, ECANCELED}
  /\ gpr3'[u] = OK => Met(gpr6'[u], call[u].req)

\* A thread that is kept is where it may be.
LEMMA KeptThread ==
  ASSUME NEW u \in Threads, ThreadInv(u), Kept(u), loading' \subseteq loading
  PROVE  ThreadInv(u)'
<1>1. /\ pc'[u] = pc[u] /\ call'[u] = call[u] /\ loaded'[u] = loaded[u] /\ run'[u] = run[u]
      /\ u \in signal' <=> u \in signal
      /\ u \in stopped' <=> u \in stopped
      /\ u \in loading' <=> u \in loading
      /\ mutex' = u <=> mutex = u
      /\ u \in Queued(sq') <=> u \in Queued(sq)
      /\ InWaitLoop(u)' <=> InWaitLoop(u)
      /\ Leaving(u)' <=> Leaving(u)
      /\ Answered(u)' <=> Answered(u)
  BY DEF Kept, Frame, InWaitLoop, Leaving, Answered
<1>2. /\ exists /\ (pc[u] = "wait_lock" \/ u \in Queued(sq) \/ u \in loading) => exists'
      /\ pc[u] = "set_commit" => pattern' \subseteq pattern
      /\ u \notin Queued(sq) => gpr3'[u] = gpr3[u] /\ gpr6'[u] = gpr6[u]
  BY DEF Kept
<1>3. ASSUME u \in Queued(sq) \/ u \in loading, ~Met(pattern, call[u].req)
      PROVE  ~Met(pattern', call'[u].req)
  BY <1>1, <1>3, MetGrows DEF Kept
<1>4. ASSUME u \in Queued(sq), gpr3[u] = OK => Met(gpr6[u], call[u].req)
      PROVE  gpr3'[u] = OK => Met(gpr6'[u], call'[u].req)
  BY <1>1, <1>4 DEF Kept
<1>5. LoadInv(u)'
  BY <1>1, <1>2, <1>3 DEF ThreadInv, LoadInv
<1>6. u \in Queued(sq') => WaiterInv(u)'
  BY <1>1, <1>2, <1>3, <1>4 DEF ThreadInv, WaiterInv
<1>7. Answered(u) \/ pc[u] = "wait_lock" => gpr3'[u] = gpr3[u] /\ gpr6'[u] = gpr6[u]
  BY <1>2 DEF Answered, ThreadInv, WaiterInv, InWaitLoop, Leaving
<1>8. QED
  BY <1>1, <1>2, <1>5, <1>6, <1>7 DEF ThreadInv

\* A thread that is taken off the queue is where it may be.
LEMMA ReleasedThread ==
  ASSUME NEW u \in Threads, ThreadInv(u), Released(u)
  PROVE  ThreadInv(u)'
<1>1. LoadInv(u)'
  BY DEF Released, LoadInv, Frame
<1>2. pc[u] # "set_commit" /\ pc[u] # "wait_lock"
  BY DEF Released, ThreadInv, WaiterInv, InWaitLoop, Leaving
<1>3. QED
  BY <1>1, <1>2 DEF Released, Frame, ThreadInv, WaiterInv, InWaitLoop, Leaving, Answered

\* A step: the thread that takes it is looked at, the others follow.
LEMMA StepInv ==
  ASSUME IndInv, NEW t \in Threads, TypeOK', SingleInv', loading' \subseteq loading,
         \A u \in Threads \ {t} : Kept(u) \/ Released(u), ThreadInv(t)'
  PROVE  IndInv'
<1>1. ASSUME NEW u \in Threads PROVE ThreadInv(u)'
  <2>1. ThreadInv(u)
    BY DEF IndInv, ThreadsInv
  <2>2. CASE u = t
    BY <2>2
  <2>3. CASE u # t
    BY <2>1, <2>3, KeptThread, ReleasedThread
  <2>4. QED
    BY <2>2, <2>3
<1>2. QED
  BY <1>1 DEF IndInv, ThreadsInv

\* A step that leaves the queue alone and adds no bit.
Local(t) ==
  /\ Told(t) /\ OwnRegs(t)
  /\ run' \in [Threads -> RunStates] /\ loaded' \in [Threads -> SUBSET Bits]
  /\ signal' \subseteq Threads /\ stopped' \subseteq Threads /\ loading' \subseteq loading
  /\ \A u \in Threads \ {t} :
       /\ run'[u] = run[u] /\ loaded'[u] = loaded[u]
       /\ u \in signal' <=> u \in signal
       /\ u \in stopped' <=> u \in stopped
       /\ u \in loading' <=> u \in loading
       /\ mutex' = u <=> mutex = u
  /\ mutex' \in Threads \union {NoThread}
  /\ pattern' \subseteq pattern
  /\ UNCHANGED <<exists, sq>>

\* For such a step it is enough to look at the thread.
LEMMA LocalInv ==
  ASSUME IndInv, NEW t \in Threads, Local(t), ThreadInv(t)'
  PROVE  IndInv'
<1>1. TypeOK'
  BY DEF IndInv, TypeOK, ThreadsTypeOK, Local, Told, OwnRegs, Labels, Calls, Results
<1>2. SingleInv'
  BY DEF IndInv, SingleInv, Local
<1>3. exists => exists'
  BY SMT DEF Local
<1>4. \A u \in Threads \ {t} : Kept(u)
  BY <1>3 DEF Kept, Frame, Local, Told, OwnRegs
<1>5. QED
  BY <1>1, <1>2, <1>4, StepInv DEF Local

\* What is known of the thread that takes a step.
Known(t) ==
  /\ TypeOK /\ ThreadInv(t)
  /\ run \in [Threads -> RunStates] /\ loaded \in [Threads -> SUBSET Bits]
  /\ signal \subseteq Threads /\ stopped \subseteq Threads /\ loading \subseteq Threads
  /\ mutex \in Threads \union {NoThread} /\ pattern \subseteq Bits
  /\ call[t] \in Calls /\ call[t].req \in RequestType
  /\ NoThread \notin Threads

\* The invariant says this of every thread.
LEMMA Own ==
  ASSUME IndInv, NEW t \in Threads
  PROVE  Known(t)
<1>1. call[t] \in Calls
  BY DEF IndInv, TypeOK, Calls
<1>2. call[t].req \in RequestType
  BY <1>1 DEF Calls
<1>3. QED
  BY <1>1, <1>2, Lv2Assumption DEF Known, IndInv, ThreadsInv, TypeOK, ThreadsTypeOK, Lv2Assumption

\* A flag that is not destroyed is there.
LEMMA StillExists ==
  ASSUME exists, UNCHANGED exists
  PROVE  exists'
  BY SMT

\* A thread that may enter a system call.
LEMMA EnterFacts ==
  ASSUME IndInv, NEW t \in Threads, pc[t] \in {"idle", "again"}, t \notin stopped
  PROVE  /\ t \notin Queued(sq) /\ t \notin signal /\ run[t] = "running" /\ mutex # t
         /\ t \in loading => pc[t] = "again" /\ call[t].name = "wait"
<1>1. ThreadInv(t)
  BY Own DEF Known
<1>2. QED
  BY <1>1 DEF ThreadInv, WaiterInv, LoadInv, Leaving, InWaitLoop

\* A thread that is out of its system calls.
LEMMA IdleThread ==
  ASSUME NEW t \in Threads, pc'[t] = "idle", call'[t] = NoCall, mutex' # t,
         t \in Queued(sq') => exists' /\ t \in stopped' /\ gpr3'[t] # OK,
         run'[t] = "asleep" => t \in Queued(sq'),
         run'[t] # "running" \/ t \in signal' => t \in stopped',
         t \in signal' => run'[t] = "running",
         t \notin loading', loading' # {} => t \notin stopped' /\ t \notin signal'
  PROVE  ThreadInv(t)'
<1>1. ~Met(pattern', call'[t].req)
  BY NoCallValue
<1>2. t \in Queued(sq') => WaiterInv(t)'
  BY <1>1 DEF WaiterInv, Leaving
<1>3. LoadInv(t)'
  BY DEF LoadInv, InWaitLoop
<1>4. QED
  BY <1>2, <1>3 DEF ThreadInv, InWaitLoop, Leaving, Answered

-----------------------------------------------------------------------------
(***************************************************************************)
(* The steps of wait.                                                      *)
(***************************************************************************)
\* The first look at the pattern.
LEMMA WaitInv ==
  ASSUME IndInv, NEW t \in Threads, NEW r \in Requests, NEW timed \in Timed, Wait(t, r, timed)
  PROVE  IndInv'
<1> DEFINE c == Call("wait", timed, r)
<1>0. Known(t)
  BY Own
<1>1. /\ exists /\ t \notin stopped /\ (t \in loading \/ loading = {})
      /\ pc[t] = "idle" \/ (pc[t] = "again" /\ call[t] = c)
      /\ gpr3' = [gpr3 EXCEPT ![t] = NoResult]
      /\ UNCHANGED <<exists, sq, mutex, run, signal, stopped, loading, loaded, gpr6>>
  BY DEF Wait, Enters, CanEnter, threadVars
<1>2. r \in RequestType /\ timed \in BOOLEAN /\ "wait" \in {"none", "wait", "set", "cancel"}
  BY EventFlagAssumption DEF EventFlagAssumption
<1>3. c \in Calls /\ c.name = "wait" /\ c.req = r
  BY <1>2 DEF Call, Calls
<1> HIDE DEF c
<1>4. /\ t \notin Queued(sq) /\ t \notin signal /\ run[t] = "running" /\ mutex # t
      /\ t \in loading => pc[t] = "again"
  BY <1>1, EnterFacts
<1>5. t \in loading => ~Met(pattern, r)
  BY <1>0, <1>1, <1>3, <1>4 DEF Known, ThreadInv, LoadInv
<1>6. OwnRegs(t) /\ gpr3'[t] = NoResult
  BY <1>0, <1>1 DEF Known, TypeOK, OwnRegs, Results
<1>7. exists'
  BY <1>1, StillExists
<1>8. CASE Met(pattern, r)
  <2>1. pattern' = Cleared(pattern, r) /\ Return(t)
    BY <1>8 DEF Wait
  <2>2. Told(t) /\ pc'[t] = "idle" /\ call'[t] = NoCall
    BY <2>1, <1>0, ReturnStep DEF Known
  <2>3. pattern' \subseteq pattern
    BY <2>1, <1>2, ClearedBits
  <2>4. Local(t)
    BY <2>2, <2>3, <1>0, <1>1, <1>6 DEF Known, Local
  <2>5. loading = {}
    BY <1>1, <1>5, <1>8
  <2>6. ThreadInv(t)'
    BY <2>2, <2>5, <1>1, <1>4, IdleThread
  <2>7. QED
    BY <2>4, <2>6, LocalInv
<1>9. CASE ~Met(pattern, r)
  <2>1. Goto(t, "wait_lock") /\ call' = [call EXCEPT ![t] = c] /\ UNCHANGED pattern
    BY <1>9 DEF Wait, c
  <2>2. "wait_lock" \in Labels
    BY DEF Labels
  <2>3. Told(t) /\ pc'[t] = "wait_lock" /\ call'[t] = c
    BY <2>1, <2>2, <1>0, <1>3, BeginStep DEF Known
  <2>4. Local(t)
    BY <2>1, <2>3, <1>0, <1>1, <1>6 DEF Known, Local
  <2>5. LoadInv(t)'
    BY <2>1, <2>3, <1>0, <1>1, <1>3, <1>4, <1>7, <1>9 DEF Known, ThreadInv, LoadInv, InWaitLoop
  <2>6. ThreadInv(t)'
    BY <2>3, <2>5, <1>1, <1>3, <1>4, <1>6, <1>7 DEF ThreadInv, InWaitLoop, Answered
  <2>7. QED
    BY <2>4, <2>6, LocalInv
<1>10. QED
  BY <1>8, <1>9

\* The critical section of wait, if the thread does not sleep.
LEMMA WaitLockReturnInv ==
  ASSUME IndInv, NEW t \in Threads, pc[t] = "wait_lock", mutex = NoThread, Return(t),
         t \notin loading, pattern' \subseteq pattern,
         UNCHANGED <<exists, sq, mutex, run, signal, stopped, loading, loaded, gpr3, gpr6>>
  PROVE  IndInv'
<1>0. Known(t)
  BY Own
<1>1. Told(t) /\ pc'[t] = "idle" /\ call'[t] = NoCall
  BY <1>0, ReturnStep DEF Known
<1>2. OwnRegs(t)
  BY <1>0, StayStep DEF Known, regVars
<1>3. Local(t)
  BY <1>1, <1>2, <1>0 DEF Known, Local
<1>4. /\ t \notin Queued(sq) /\ run[t] = "running" /\ t \notin signal /\ mutex # t
      /\ loading # {} => t \in loading
  BY <1>0 DEF Known, ThreadInv, WaiterInv, LoadInv, InWaitLoop, Leaving
<1>5. ThreadInv(t)'
  BY <1>1, <1>4, IdleThread
<1>6. QED
  BY <1>3, <1>5, LocalInv

\* The critical section of wait, if it does.
LEMMA WaitLockSleepInv ==
  ASSUME IndInv, NEW t \in Threads, pc[t] = "wait_lock", mutex = NoThread,
         ~Met(pattern, call[t].req), Type = MULTIPLE \/ sq = <<>>,
         run' = sleep(t), loading' = slept(t), sq' = emplace(sq, t), Continue(t, "wait"),
         UNCHANGED <<exists, pattern, mutex, signal, stopped, loaded, gpr3, gpr6>>
  PROVE  IndInv'
<1>0. Known(t)
  BY Own
<1>1. "wait" \in Labels
  BY DEF Labels, WaitLabels
<1>2. Told(t) /\ pc'[t] = "wait" /\ call'[t] = call[t]
  BY <1>0, <1>1, ContinueStep DEF Known
<1>3. /\ t \notin Queued(sq) /\ run[t] = "running" /\ t \notin signal /\ mutex # t /\ exists
      /\ call[t].name = "wait" /\ gpr3[t] = NoResult
      /\ loading # {} => t \in loading /\ t \notin stopped
  BY <1>0 DEF Known, ThreadInv, WaiterInv, LoadInv, InWaitLoop, Leaving
<1>4. /\ sq' \in Seq(Threads) /\ NoDuplicates(sq') /\ Queued(sq') = Queued(sq) \union {t}
  BY <1>0, <1>3, EmplaceQueue DEF Known, TypeOK
<1>5. /\ run' \in [Threads -> RunStates] /\ run'[t] = "asleep"
      /\ \A u \in Threads \ {t} : run'[u] = run[u]
  BY <1>0, <1>3 DEF Known, sleep, RunStates
<1>6. loading' = loading \ {t}
  BY DEF slept
<1>7. TypeOK'
  BY <1>0, <1>2, <1>4, <1>5, <1>6 DEF Known, TypeOK, ThreadsTypeOK, Told, Labels, Calls
<1>8. SingleInv'
  <2>1. SUFFICES ASSUME Type = SINGLE, NEW x \in Queued(sq') \union loading' PROVE x = t
    BY DEF SingleInv
  <2>2. sq = <<>>
    BY <2>1 DEF SINGLE, MULTIPLE
  <2>3. Queued(sq) = {}
    BY <2>2, SMT DEF Queued
  <2>4. x \in loading => x = t
    BY <2>1, <1>3 DEF IndInv, SingleInv
  <2>5. QED
    BY <2>1, <2>3, <2>4, <1>4, <1>6
<1>9. exists'
  BY <1>3, StillExists
<1>10. \A u \in Threads \ {t} : Kept(u)
  BY <1>2, <1>4, <1>5, <1>6, <1>9 DEF Kept, Frame, Told
<1>11. LoadInv(t)'
  BY <1>2, <1>3, <1>5, <1>6 DEF LoadInv, InWaitLoop
<1>12. WaiterInv(t)'
  BY <1>2, <1>3, <1>5, <1>9 DEF WaiterInv, InWaitLoop, OK, NoResult
<1>13. ThreadInv(t)'
  BY <1>2, <1>3, <1>4, <1>5, <1>11, <1>12 DEF ThreadInv, InWaitLoop, Answered
<1>14. QED
  BY <1>6, <1>7, <1>8, <1>10, <1>13, StepInv

\* The critical section of wait: a thread that a load waits for is not refused.
LEMMA WaitLockInv ==
  ASSUME IndInv, NEW t \in Threads, WaitLock(t)
  PROVE  IndInv'
<1>0. Known(t)
  BY Own
<1>1. /\ pc[t] = "wait_lock" /\ mutex = NoThread
      /\ UNCHANGED <<exists, mutex, signal, stopped, loaded, gpr3, gpr6>>
  BY DEF WaitLock, regVars
<1>2. CASE /\ Met(pattern, call[t].req) /\ pattern' = Cleared(pattern, call[t].req)
           /\ Return(t) /\ UNCHANGED <<sq, run, loading>>
  <2>1. pattern' \subseteq pattern
    BY <1>2, <1>0, ClearedBits DEF Known
  <2>2. t \notin loading
    BY <1>2, <1>0 DEF Known, ThreadInv, LoadInv
  <2>3. QED
    BY <2>1, <2>2, <1>1, <1>2, WaitLockReturnInv
<1>3. CASE /\ ~Met(pattern, call[t].req) /\ Type = SINGLE /\ sq # <<>>
           /\ Return(t) /\ UNCHANGED <<pattern, sq, run, loading>>
  <2>1. PICK x : x \in Queued(sq)
    <3>1. sq \in Seq(Threads) /\ sq # <<>>
      BY <1>0, <1>3 DEF Known, TypeOK
    <3>2. 1 \in DOMAIN sq
      BY <3>1, SMT
    <3>3. QED
      BY <3>2 DEF Queued
  <2>2. t \notin loading
    <3>1. t \in loading => x = t
      BY <2>1, <1>3 DEF IndInv, SingleInv
    <3>2. t \in loading => t \notin Queued(sq)
      BY <1>0 DEF Known, ThreadInv, LoadInv
    <3>3. QED
      BY <2>1, <3>1, <3>2
  <2>3. QED
    BY <2>2, <1>1, <1>3, WaitLockReturnInv
<1>4. CASE /\ ~Met(pattern, call[t].req) /\ (Type = MULTIPLE \/ sq = <<>>)
           /\ run' = sleep(t) /\ loading' = slept(t) /\ sq' = emplace(sq, t)
           /\ Continue(t, "wait") /\ UNCHANGED pattern
  BY <1>1, <1>4, WaitLockSleepInv
<1>5. QED
  BY <1>2, <1>3, <1>4 DEF WaitLock, MetLocked

\* The wait loop sees cpu_flag::signal.
LEMMA WaitSignalInv ==
  ASSUME IndInv, NEW t \in Threads, WaitSignal(t)
  PROVE  IndInv'
<1>0. Known(t)
  BY Own
<1>1. /\ pc[t] = "wait" /\ t \in signal /\ signal' = signal \ {t} /\ EndWait(t)
      /\ UNCHANGED <<exists, pattern, sq, mutex, run, stopped, loading, loaded>>
  BY DEF WaitSignal, WaitEnds, objVars
<1>2. /\ Told(t) /\ pc'[t] = "idle" /\ call'[t] = NoCall /\ OwnRegs(t) /\ gpr3'[t] = NoResult
  BY <1>0, <1>1, EndWaitStep DEF Known
<1>3. Local(t)
  BY <1>0, <1>1, <1>2 DEF Known, Local
<1>4. /\ run[t] = "running" /\ mutex # t /\ t \notin loading /\ loading = {}
      /\ t \in Queued(sq) => exists /\ t \in stopped
  BY <1>0, <1>1 DEF Known, ThreadInv, WaiterInv, LoadInv
<1>5. t \in Queued(sq) => exists'
  BY <1>1, <1>4, StillExists
<1>6. gpr3'[t] # OK
  BY <1>2 DEF OK, NoResult
<1>7. ThreadInv(t)'
  BY <1>1, <1>2, <1>4, <1>5, <1>6, IdleThread
<1>8. QED
  BY <1>3, <1>7, LocalInv

\* The wait loop sees a stop flag.
LEMMA WaitStoppedInv ==
  ASSUME IndInv, NEW t \in Threads, WaitStopped(t)
  PROVE  IndInv'
<1>0. Known(t)
  BY Own
<1>1. /\ pc[t] = "wait" /\ t \in stopped /\ mutex = NoThread
      /\ UNCHANGED <<exists, pattern, sq, mutex, run, signal, stopped, loading, loaded>>
  BY DEF WaitStopped, objVars, threadVars
<1>2. mutex # t /\ loading = {} /\ call[t].name = "wait"
  BY <1>0, <1>1 DEF Known, ThreadInv, LoadInv, InWaitLoop
<1>3. CASE t \in Queued(sq)
  <2>1. Continue(t, "again") /\ "again" \in Labels /\ UNCHANGED regVars
    BY <1>3 DEF WaitStopped, Labels, WaitLabels
  <2>2. Told(t) /\ pc'[t] = "again" /\ call'[t] = call[t] /\ OwnRegs(t)
        /\ gpr3'[t] = gpr3[t] /\ gpr6'[t] = gpr6[t]
    BY <2>1, <1>0, ContinueStep, StayStep DEF Known, regVars
  <2>3. Local(t)
    BY <2>2, <1>0, <1>1 DEF Known, Local
  <2>4. exists'
    BY <1>0, <1>1, <1>3, StillExists DEF Known, ThreadInv, WaiterInv
  <2>5. WaiterInv(t)'
    BY <2>2, <2>4, <1>0, <1>1, <1>2, <1>3 DEF Known, ThreadInv, WaiterInv, Leaving
  <2>6. ThreadInv(t)'
    BY <2>2, <2>5, <1>0, <1>1, <1>2, <1>3
       DEF Known, ThreadInv, LoadInv, Leaving, InWaitLoop, Answered
  <2>7. QED
    BY <2>3, <2>6, LocalInv
<1>4. CASE t \notin Queued(sq)
  <2>1. EndWait(t)
    BY <1>4 DEF WaitStopped
  <2>2. Told(t) /\ pc'[t] = "idle" /\ call'[t] = NoCall /\ OwnRegs(t)
    BY <2>1, <1>0, EndWaitStep DEF Known
  <2>3. Local(t)
    BY <2>2, <1>0, <1>1 DEF Known, Local
  <2>4. run[t] # "asleep" /\ (t \in signal => run[t] = "running")
    BY <1>0, <1>4 DEF Known, ThreadInv
  <2>5. ThreadInv(t)'
    BY <2>2, <2>4, <1>1, <1>2, <1>4, IdleThread
  <2>6. QED
    BY <2>3, <2>5, LocalInv
<1>5. QED
  BY <1>3, <1>4

\* A thread that stays in its wait loop, in another place.
LEMMA LoopStepInv ==
  ASSUME IndInv, NEW t \in Threads, InWaitLoop(t), pc'[t] \in {"wait", "resched", "recheck"},
         Told(t), call'[t] = call[t],
         run' \in [Threads -> RunStates], signal' \subseteq Threads,
         \A u \in Threads \ {t} : run'[u] = run[u] /\ (u \in signal' <=> u \in signal),
         run[t] # "asleep" => run'[t] # "asleep",
         t \in signal' => run'[t] = "running",
         pc'[t] = "recheck" => run'[t] = "running" /\ t \notin signal',
         pc'[t] = "wait" => t \in stopped,
         loading # {} => pc'[t] # "recheck" /\ run'[t] # "running" /\ t \notin signal',
         UNCHANGED <<exists, pattern, sq, mutex, stopped, loading, loaded, gpr3, gpr6>>
  PROVE  IndInv'
<1>0. Known(t)
  BY Own
<1>1. OwnRegs(t)
  BY <1>0, StayStep DEF Known, regVars
<1>2. Local(t)
  BY <1>0, <1>1 DEF Known, Local
<1>3. InWaitLoop(t)'
  BY DEF InWaitLoop
<1>4. t \in Queued(sq) => exists'
  BY <1>0, StillExists DEF Known, ThreadInv, WaiterInv
<1>5. t \in Queued(sq) => WaiterInv(t)'
  BY <1>0, <1>3, <1>4 DEF Known, ThreadInv, WaiterInv, InWaitLoop
<1>6. LoadInv(t)'
  BY <1>0 DEF Known, ThreadInv, LoadInv, InWaitLoop
<1>7. ThreadInv(t)'
  BY <1>0, <1>3, <1>5, <1>6 DEF Known, ThreadInv, InWaitLoop, Answered
<1>8. QED
  BY <1>2, <1>7, LocalInv

\* The time of a wait is over.
LEMMA WaitTimeoutInv ==
  ASSUME IndInv, NEW t \in Threads, WaitTimeout(t)
  PROVE  IndInv'
<1>0. Known(t)
  BY Own
<1>1. /\ pc[t] = "wait" /\ Continue(t, "resched") /\ "resched" \in Labels
      /\ UNCHANGED <<exists, pattern, sq, mutex, run, signal, stopped, loading, loaded, gpr3, gpr6>>
  BY DEF WaitTimeout, wait_timeout, Continue, objVars, regVars, Labels, WaitLabels
<1>2. Told(t) /\ pc'[t] = "resched" /\ call'[t] = call[t]
  BY <1>0, <1>1, ContinueStep DEF Known
<1>3. InWaitLoop(t) /\ (t \in signal => run[t] = "running")
      /\ (loading # {} => run[t] # "running" /\ t \notin signal)
  BY <1>0, <1>1 DEF Known, ThreadInv, LoadInv, InWaitLoop
<1>4. QED
  BY <1>0, <1>1, <1>2, <1>3, LoopStepInv DEF Known

\* check_state after a timeout.
LEMMA CheckStateInv ==
  ASSUME IndInv, NEW t \in Threads, CheckState(t)
  PROVE  IndInv'
<1>0. Known(t)
  BY Own
<1>1. /\ pc[t] = "resched" /\ InWaitLoop(t)
      /\ UNCHANGED <<exists, pattern, sq, mutex, call, stopped, loading, loaded, gpr3, gpr6>>
  BY DEF CheckState, cpu_sleep, check_state, objVars, regVars, InWaitLoop
<1>2. /\ t \in signal => run[t] = "running"
      /\ loading # {} => run[t] # "running" /\ t \notin signal /\ t \notin stopped
  BY <1>0, <1>1 DEF Known, ThreadInv, LoadInv
<1>3. CASE cpu_sleep(t)
  <2>1. /\ run[t] = "asleep" /\ run' = awake({t}) /\ UNCHANGED <<pc, signal>>
    BY <1>3 DEF cpu_sleep
  <2>2. Told(t) /\ pc'[t] = "resched" /\ call'[t] = call[t]
    BY <2>1, <1>0, <1>1, StayStep DEF Known
  <2>3. /\ run' \in [Threads -> RunStates] /\ run'[t] = "ready"
        /\ \A u \in Threads \ {t} : run'[u] = run[u]
    BY <2>1, <1>0 DEF Known, awake, RunStates
  <2>4. QED
    BY <2>1, <2>2, <2>3, <1>0, <1>1, <1>2, LoopStepInv DEF Known
<1>4. CASE check_state(t)
  <2> DEFINE l == IF t \in stopped THEN "wait" ELSE "recheck"
  <2>1. /\ t \in stopped \/ run[t] = "running"
        /\ Continue(t, l) /\ l \in Labels /\ UNCHANGED run
    BY <1>1, <1>4 DEF check_state, unsignal, Continue, Labels, WaitLabels
  <2>2. signal' = signal \ {t}
    BY <1>4 DEF check_state, unsignal
  <2>3. Told(t) /\ pc'[t] = l /\ call'[t] = call[t]
    BY <2>1, <1>0, ContinueStep DEF Known
  <2>4. /\ pc'[t] \in {"wait", "recheck"} /\ (pc'[t] = "wait" => t \in stopped)
        /\ pc'[t] = "recheck" => run[t] = "running"
    BY <2>1, <2>3
  <2>5. loading = {}
    BY <2>1, <1>2
  <2> HIDE DEF l
  <2>6. QED
    BY <2>1, <2>2, <2>3, <2>4, <2>5, <1>0, <1>1, LoopStepInv DEF Known
<1>5. QED
  BY <1>3, <1>4 DEF CheckState

\* The end of a timeout.
LEMMA WaitRecheckInv ==
  ASSUME IndInv, NEW t \in Threads, WaitRecheck(t)
  PROVE  IndInv'
<1>0. Known(t)
  BY Own
<1>1. /\ pc[t] = "recheck" /\ sq' = unqueueSelf(t) /\ EndWait(t)
      /\ UNCHANGED <<exists, pattern, mutex, run, signal, stopped, loading, loaded>>
  BY DEF WaitRecheck, threadVars
<1>2. Told(t) /\ pc'[t] = "idle" /\ call'[t] = NoCall /\ OwnRegs(t)
  BY <1>0, <1>1, EndWaitStep DEF Known
<1>3. /\ run[t] = "running" /\ t \notin signal /\ mutex # t /\ loading = {}
  BY <1>0, <1>1 DEF Known, ThreadInv, LoadInv
<1>4. sq \in Seq(Threads) /\ NoDuplicates(sq)
  BY <1>0 DEF Known, TypeOK
<1>5. sq' \in Seq(Threads) /\ NoDuplicates(sq') /\ Queued(sq') = Queued(sq) \ {t}
  <2>1. CASE t \in Queued(sq)
    BY <2>1, <1>1, <1>4, UnqueueQueue DEF unqueueSelf
  <2>2. CASE t \notin Queued(sq)
    BY <2>2, <1>1, <1>4 DEF unqueueSelf
  <2>3. QED
    BY <2>1, <2>2
<1>6. TypeOK'
  BY <1>0, <1>1, <1>2, <1>5 DEF Known, TypeOK, ThreadsTypeOK, Told, OwnRegs, Labels, Calls, Results
<1>7. SingleInv'
  BY <1>1, <1>5 DEF IndInv, SingleInv
<1>8. exists => exists'
  BY <1>1, StillExists
<1>9. \A u \in Threads \ {t} : Kept(u)
  BY <1>1, <1>2, <1>5, <1>8 DEF Kept, Frame, Told, OwnRegs
<1>10. ThreadInv(t)'
  BY <1>1, <1>2, <1>3, <1>5, IdleThread
<1>11. QED
  BY <1>1, <1>6, <1>7, <1>9, <1>10, StepInv

-----------------------------------------------------------------------------
(***************************************************************************)
(* The operations that take no lock, the scheduler and savestates.         *)
(***************************************************************************)
\* trywait and clear take bits away.
LEMMA TakeBitsInv ==
  ASSUME IndInv, NEW t \in Threads, Idle(t), pattern' \subseteq pattern,
         UNCHANGED <<exists, sq, mutex, threadVars, pc, call, loaded, regVars>>
  PROVE  IndInv'
<1>0. Known(t)
  BY Own
<1>1. Told(t) /\ OwnRegs(t)
  BY <1>0, StayStep DEF Known
<1>2. Local(t)
  BY <1>0, <1>1 DEF Known, Local, threadVars
<1>3. pc[t] = "idle" /\ call[t] = NoCall /\ t \notin stopped /\ loading = {}
  BY <1>0 DEF Known, ThreadInv, Idle
<1>4. t \notin Queued(sq) /\ t \notin signal /\ run[t] = "running" /\ mutex # t
  BY <1>3, EnterFacts
<1>5. ThreadInv(t)'
  BY <1>3, <1>4, IdleThread DEF threadVars
<1>6. QED
  BY <1>2, <1>5, LocalInv

\* schedule_all grants the processor.
LEMMA ScheduleInv ==
  ASSUME IndInv, NEW t \in Threads, Schedule(t)
  PROVE  IndInv'
<1>0. Known(t)
  BY Own
<1>1. /\ run[t] = "ready" /\ loading = {} /\ run' = [run EXCEPT ![t] = "running"]
      /\ signal' = signal \union {t}
      /\ UNCHANGED <<pc, call, stopped, loading, exists, pattern, sq, mutex, loaded, regVars>>
  BY DEF Schedule, schedule_all, objVars
<1>2. /\ run' \in [Threads -> RunStates] /\ run'[t] = "running"
      /\ \A u \in Threads \ {t} : run'[u] = run[u]
  BY <1>0, <1>1 DEF Known, RunStates
<1>3. Told(t) /\ OwnRegs(t)
  BY <1>0, <1>1, StayStep DEF Known
<1>4. Local(t)
  BY <1>0, <1>1, <1>2, <1>3 DEF Known, Local
<1>5. InWaitLoop(t) \/ Leaving(t)
  BY <1>0, <1>1 DEF Known, ThreadInv
<1>6. t \in Queued(sq) => exists'
  BY <1>0, <1>1, StillExists DEF Known, ThreadInv, WaiterInv
<1>7. t \in Queued(sq) => WaiterInv(t)'
  BY <1>0, <1>1, <1>2, <1>6 DEF Known, ThreadInv, WaiterInv, InWaitLoop, Leaving, regVars
<1>8. ThreadInv(t)'
  BY <1>0, <1>1, <1>2, <1>5, <1>7
     DEF Known, ThreadInv, LoadInv, InWaitLoop, Leaving, Answered, regVars
<1>9. QED
  BY <1>4, <1>8, LocalInv

\* A thread gets its stop flag.
LEMMA StopInv ==
  ASSUME IndInv, NEW t \in Threads, Stop(t)
  PROVE  IndInv'
<1>0. Known(t)
  BY Own
<1>1. /\ t \notin stopped /\ loading = {} /\ stopped' = stopped \union {t}
      /\ UNCHANGED <<pc, call, run, signal, loading, exists, pattern, sq, mutex, loaded, regVars>>
  BY DEF Stop, stop, objVars
<1>2. Told(t) /\ OwnRegs(t)
  BY <1>0, <1>1, StayStep DEF Known
<1>3. Local(t)
  BY <1>0, <1>1, <1>2 DEF Known, Local
<1>4. (t \in Queued(sq) => exists') /\ (pc[t] = "wait_lock" => exists')
  BY <1>0, <1>1, StillExists DEF Known, ThreadInv, WaiterInv
<1>5. t \in Queued(sq) => WaiterInv(t)'
  BY <1>0, <1>1, <1>4 DEF Known, ThreadInv, WaiterInv, InWaitLoop, Leaving, regVars
<1>6. ThreadInv(t)'
  BY <1>0, <1>1, <1>4, <1>5
     DEF Known, ThreadInv, LoadInv, InWaitLoop, Leaving, Answered, regVars
<1>7. QED
  BY <1>3, <1>6, LocalInv

\* A flag is destroyed when nobody uses it.
LEMMA DestroyInv ==
  ASSUME IndInv, NEW t \in Threads, Destroy(t)
  PROVE  IndInv'
<1>0. Known(t)
  BY Own
<1>1. /\ pc[t] = "idle" /\ t \notin stopped /\ loading = {} /\ sq = <<>> /\ exists' = FALSE
      /\ \A u \in Threads : pc[u] # "wait_lock"
      /\ UNCHANGED <<pattern, sq, mutex, run, signal, stopped, loading, pc, call, loaded, regVars>>
  BY DEF Destroy, Idle, threadVars
<1>2. Told(t) /\ OwnRegs(t) /\ call[t] = NoCall
  BY <1>0, <1>1, StayStep DEF Known, ThreadInv
<1>3. Queued(sq) = {}
  BY <1>1, SMT DEF Queued
<1>4. TypeOK'
  BY <1>0, <1>1, <1>2 DEF Known, TypeOK, ThreadsTypeOK, Told, OwnRegs, Labels, Calls, Results
<1>5. SingleInv'
  BY <1>1 DEF IndInv, SingleInv
<1>6. \A u \in Threads \ {t} : Kept(u)
  BY <1>1, <1>2, <1>3 DEF Kept, Frame, Told, OwnRegs
<1>7. t \notin signal /\ run[t] = "running" /\ mutex # t
  BY <1>1, EnterFacts
<1>8. ThreadInv(t)'
  BY <1>1, <1>2, <1>3, <1>7, IdleThread
<1>9. QED
  BY <1>1, <1>4, <1>5, <1>6, <1>8, StepInv

\* A flag is created when nobody uses the previous one.
LEMMA CreateInv ==
  ASSUME IndInv, NEW t \in Threads, NEW init \in InitArgs, Create(t, init)
  PROVE  IndInv'
<1>0. Known(t)
  BY Own
<1>1. /\ ~exists /\ pc[t] = "idle" /\ t \notin stopped /\ loading = {} /\ exists' = TRUE
      /\ pattern' = init /\ \A u \in Threads : pc[u] = "idle"
      /\ UNCHANGED <<sq, mutex, run, signal, stopped, loading, pc, call, loaded, regVars>>
  BY DEF Create, Idle, threadVars
<1>2. Told(t) /\ OwnRegs(t) /\ call[t] = NoCall
  BY <1>0, <1>1, StayStep DEF Known, ThreadInv
<1>3. \A u \in Threads : u \notin Queued(sq)
  BY <1>1 DEF IndInv, ThreadsInv, ThreadInv, WaiterInv
<1>4. pattern' \in SUBSET Bits
  BY <1>1, EventFlagAssumption DEF EventFlagAssumption
<1>5. TypeOK'
  BY <1>0, <1>1, <1>2, <1>4 DEF Known, TypeOK, ThreadsTypeOK, Told, OwnRegs, Labels, Calls, Results
<1>6. SingleInv'
  BY <1>1 DEF IndInv, SingleInv
<1>7. \A u \in Threads \ {t} : Kept(u)
  BY <1>1, <1>2, <1>3 DEF Kept, Frame, Told, OwnRegs
<1>8. t \notin signal /\ run[t] = "running" /\ mutex # t
  BY <1>1, EnterFacts
<1>9. ThreadInv(t)'
  BY <1>1, <1>2, <1>3, <1>8, IdleThread
<1>10. QED
  BY <1>1, <1>5, <1>6, <1>7, <1>9, StepInv

\* A load: the threads that were asleep come first, nothing satisfies them yet.
LEMMA LoadStepInv ==
  ASSUME IndInv, Load
  PROVE  IndInv'
<1>1. /\ \A t \in Threads : pc[t] \in {"idle", "again"} /\ t \in stopped
      /\ stopped' = {} /\ run' = [t \in Threads |-> "running"] /\ signal' = {}
      /\ loading' = {t \in Threads : pc[t] = "again" /\ run[t] = "asleep"}
      /\ pattern' = pattern /\ sq' = <<>>
      /\ UNCHANGED <<pc, exists, mutex, call, loaded, gpr3, gpr6>>
  BY DEF Load, load, saved, regVars
<1>2. Queued(sq') = {} /\ sq' \in Seq(Threads) /\ NoDuplicates(sq')
  BY <1>1, SMT DEF Queued, NoDuplicates
<1>3. \A t \in Threads : run'[t] = "running" /\ ThreadInv(t)
  BY <1>1 DEF IndInv, ThreadsInv
<1>4. loading' \subseteq Queued(sq)
  BY <1>1, <1>3 DEF ThreadInv
<1>5. run' \in [Threads -> RunStates] /\ loading' \subseteq Threads
  BY <1>1 DEF RunStates
<1>6. TypeOK'
  BY <1>1, <1>2, <1>5 DEF IndInv, TypeOK, ThreadsTypeOK
<1>7. SingleInv'
  BY <1>2, <1>4 DEF IndInv, SingleInv
<1>8. ASSUME NEW t \in Threads PROVE ThreadInv(t)'
  <2>1. ThreadInv(t) /\ pc[t] \in {"idle", "again"} /\ run'[t] = "running"
    BY <1>1, <1>3
  <2>2. t \in loading' => pc[t] = "again" /\ t \in Queued(sq)
    BY <1>1, <1>4
  <2>3. t \in loading' => exists' /\ call[t].name = "wait" /\ ~Met(pattern, call[t].req)
    BY <2>1, <2>2, <1>1, StillExists DEF ThreadInv, WaiterInv
  <2>4. LoadInv(t)'
    BY <2>1, <2>2, <2>3, <1>1, <1>2 DEF LoadInv, InWaitLoop
  <2>5. QED
    BY <2>1, <2>4, <1>1, <1>2 DEF ThreadInv, InWaitLoop, Answered
<1>9. QED
  BY <1>6, <1>7, <1>8 DEF IndInv, ThreadsInv

-----------------------------------------------------------------------------
(***************************************************************************)
(* The steps of set, and cancel.                                           *)
(***************************************************************************)
\* A thread that enters set or cancel is not one that a load waits for.
LEMMA NotLoading ==
  ASSUME IndInv, NEW t \in Threads, NEW name \in {"set", "cancel"}, NEW r,
         Enters(t, Call(name, FALSE, r))
  PROVE  /\ pc[t] \in {"idle", "again"} /\ t \notin stopped /\ loading = {}
         /\ t \notin Queued(sq) /\ t \notin signal /\ run[t] = "running" /\ mutex # t
<1>1. /\ t \notin stopped /\ (t \in loading \/ loading = {})
      /\ pc[t] = "idle" \/ (pc[t] = "again" /\ call[t] = Call(name, FALSE, r))
  BY DEF Enters, CanEnter
<1>2. Call(name, FALSE, r).name # "wait"
  BY DEF Call
<1>3. /\ t \notin Queued(sq) /\ t \notin signal /\ run[t] = "running" /\ mutex # t
      /\ t \in loading => pc[t] = "again" /\ call[t].name = "wait"
  BY <1>1, EnterFacts
<1>4. QED
  BY <1>1, <1>2, <1>3

\* The first look of set.
LEMMA SetInv ==
  ASSUME IndInv, NEW t \in Threads, NEW b \in SetArgs, Set(t, b)
  PROVE  IndInv'
<1> DEFINE c == Call("set", FALSE, OnlyBits(b))
<1>0. Known(t)
  BY Own
<1>1. /\ Enters(t, c)
      /\ UNCHANGED <<exists, pattern, sq, mutex, run, signal, stopped, loading, loaded, regVars>>
  BY DEF Set, objVars, threadVars
<1>2. /\ pc[t] \in {"idle", "again"} /\ t \notin stopped /\ loading = {}
      /\ t \notin Queued(sq) /\ t \notin signal /\ run[t] = "running" /\ mutex # t
  BY <1>1, NotLoading
<1>3. OnlyBits(b) \in RequestType
  BY EventFlagAssumption, OnlyBitsValue DEF EventFlagAssumption
<1>4. c \in Calls
  BY <1>3 DEF Call, Calls
<1> HIDE DEF c
<1>5. OwnRegs(t)
  BY <1>0, <1>1, StayStep DEF Known
<1>6. CASE b \subseteq pattern
  <2>1. Told(t) /\ pc'[t] = "idle" /\ call'[t] = NoCall
    BY <1>0, <1>6, ReturnStep DEF Known, Set
  <2>2. Local(t)
    BY <2>1, <1>0, <1>1, <1>5 DEF Known, Local
  <2>3. ThreadInv(t)'
    BY <2>1, <1>1, <1>2, IdleThread
  <2>4. QED
    BY <2>2, <2>3, LocalInv
<1>7. CASE ~(b \subseteq pattern)
  <2>1. Goto(t, "set_lock") /\ call' = [call EXCEPT ![t] = c] /\ "set_lock" \in Labels
    BY <1>7 DEF Set, c, Labels
  <2>2. Told(t) /\ pc'[t] = "set_lock" /\ call'[t] = c
    BY <2>1, <1>0, <1>4, BeginStep DEF Known
  <2>3. Local(t)
    BY <2>2, <1>0, <1>1, <1>5 DEF Known, Local
  <2>4. ThreadInv(t)'
    BY <2>2, <1>1, <1>2 DEF ThreadInv, LoadInv, InWaitLoop, Answered
  <2>5. QED
    BY <2>3, <2>4, LocalInv
<1>8. QED
  BY <1>6, <1>7

\* set takes the mutex and loads the pattern, or leaves for a savestate.
LEMMA SetLockInv ==
  ASSUME IndInv, NEW t \in Threads, SetLock(t)
  PROVE  IndInv'
<1>0. Known(t)
  BY Own
<1>1. /\ pc[t] = "set_lock" /\ mutex = NoThread
      /\ UNCHANGED <<exists, pattern, sq, run, signal, loading, regVars>>
  BY DEF SetLock
<1>2. t \notin Queued(sq) /\ t \notin signal /\ run[t] = "running" /\ loading = {} /\ mutex # t
  BY <1>0, <1>1 DEF Known, ThreadInv, WaiterInv, LoadInv, InWaitLoop, Leaving
<1>3. OwnRegs(t)
  BY <1>0, <1>1, StayStep DEF Known
<1>4. "again" \in Labels /\ "set_commit" \in Labels
  BY DEF Labels, WaitLabels
<1>5. CASE Again(t) /\ UNCHANGED <<mutex, loaded>>
  <2>1. Told(t) /\ pc'[t] = "again" /\ stopped' = stopped \union {t}
    BY <1>0, <1>4, <1>5, ContinueStep DEF Known, Again
  <2>2. Local(t)
    BY <2>1, <1>0, <1>1, <1>3, <1>5 DEF Known, Local
  <2>3. ThreadInv(t)'
    BY <2>1, <1>1, <1>2, <1>5 DEF ThreadInv, LoadInv, InWaitLoop, Answered
  <2>4. QED
    BY <2>2, <2>3, LocalInv
<1>6. CASE /\ mutex' = t /\ loaded' = [loaded EXCEPT ![t] = pattern]
           /\ Continue(t, "set_commit") /\ UNCHANGED stopped
  <2>1. Told(t) /\ pc'[t] = "set_commit"
    BY <1>0, <1>4, <1>6, ContinueStep DEF Known
  <2>2. /\ loaded' \in [Threads -> SUBSET Bits] /\ loaded'[t] = pattern
        /\ \A u \in Threads \ {t} : loaded'[u] = loaded[u]
    BY <1>0, <1>6 DEF Known
  <2>3. Local(t)
    BY <2>1, <2>2, <1>0, <1>1, <1>3, <1>6 DEF Known, Local
  <2>4. ThreadInv(t)'
    BY <2>1, <2>2, <1>1, <1>2, <1>6 DEF ThreadInv, LoadInv, InWaitLoop, Answered
  <2>5. QED
    BY <2>3, <2>4, LocalInv
<1>7. QED
  BY <1>5, <1>6 DEF SetLock

\* What an attempt of set finds and computes.
Attempt(t, b, w) ==
  /\ mutex = t /\ t \notin Queued(sq) /\ t \notin signal /\ run[t] = "running" /\ loading = {}
  /\ b \subseteq Bits /\ pattern \subseteq loaded[t]
  /\ Outcome(w, loaded[t], b)
  /\ Verdicts(w) \in [Threads -> Results] /\ w.gpr6 \in [Threads -> SUBSET Bits]
  /\ \A u \in Queued(sq) : Verdicts(w)[u] = OK => Met(w.gpr6[u], call[u].req)
  /\ \A u \in Threads \ Queued(sq) : Verdicts(w)[u] = gpr3[u] /\ w.gpr6[u] = gpr6[u]

\* The verdicts of an attempt are not made up, even those of an earlier one that this
\* one does not reach.
LEMMA AttemptFacts ==
  ASSUME IndInv, NEW t \in Threads, pc[t] = "set_commit"
  PROVE  Attempt(t, call[t].req.bits, ProcessWaiters(loaded[t], call[t].req.bits))
<1> DEFINE b == call[t].req.bits
           w == ProcessWaiters(loaded[t], b)
<1>0. Known(t)
  BY Own
<1>1. /\ mutex = t /\ t \notin Queued(sq) /\ t \notin signal /\ run[t] = "running" /\ loading = {}
      /\ pattern \subseteq loaded[t]
  BY <1>0 DEF Known, ThreadInv, WaiterInv, LoadInv, InWaitLoop, Leaving
<1>2. CallsTyped
  BY Own DEF Known, CallsTyped
<1>3. b \in SUBSET Bits /\ loaded[t] \in SUBSET Bits
  BY <1>0 DEF Known, RequestType
<1>4. /\ sq \in Seq(Threads) /\ gpr3 \in [Threads -> Results] /\ gpr6 \in [Threads -> SUBSET Bits]
  BY <1>0 DEF Known, TypeOK, Results
<1> HIDE DEF b
<1>5. Outcome(w, loaded[t], b)
  BY <1>2, <1>3, <1>4, ProcessOutcome
<1> HIDE DEF w
<1>6. /\ w.woken \subseteq Queued(sq) /\ w.unmet \subseteq Queued(sq)
      /\ w.gpr6 \in [Threads -> SUBSET Bits]
      /\ \A u \in Threads \ w.woken : w.gpr6[u] = gpr6[u]
      /\ \A u \in w.woken : Met(w.gpr6[u], call[u].req)
  BY <1>5 DEF Outcome
<1>7. Verdicts(w) \in [Threads -> Results]
  BY <1>4 DEF Verdicts, Results
<1>8. \A u \in Threads : Verdicts(w)[u] = IF u \in w.woken THEN OK
                                          ELSE IF u \in w.unmet THEN NoResult ELSE gpr3[u]
  BY DEF Verdicts
<1>9. ASSUME NEW u \in Queued(sq), Verdicts(w)[u] = OK
      PROVE  Met(w.gpr6[u], call[u].req)
  <2>1. u \in Threads
    BY <1>4, SMT DEF Queued
  <2>2. ThreadInv(u)
    BY <2>1, Own DEF Known
  <2>3. gpr3[u] = OK => Met(gpr6[u], call[u].req)
    BY <2>2 DEF ThreadInv, WaiterInv
  <2>4. OK # NoResult
    BY DEF OK, NoResult
  <2>5. QED
    BY <2>1, <2>3, <2>4, <1>6, <1>8, <1>9
<1>10. \A u \in Threads \ Queued(sq) : Verdicts(w)[u] = gpr3[u] /\ w.gpr6[u] = gpr6[u]
  BY <1>6, <1>8
<1>11. QED
  BY <1>1, <1>3, <1>5, <1>6, <1>7, <1>9, <1>10 DEF Attempt, w, b

\* An attempt that fails leaves its verdicts behind and loads the pattern again.
LEMMA SetRetryInv ==
  ASSUME IndInv, NEW t \in Threads, SetRetry(t)
  PROVE  IndInv'
<1> DEFINE b == call[t].req.bits
           w == ProcessWaiters(loaded[t], b)
<1>0. Known(t)
  BY Own
<1>1. /\ pc[t] = "set_commit" /\ gpr3' = Verdicts(w) /\ gpr6' = w.gpr6
      /\ loaded' = [loaded EXCEPT ![t] = pattern]
      /\ UNCHANGED <<exists, pattern, sq, mutex, run, signal, stopped, loading, pc, call>>
  BY DEF SetRetry, Reload, objVars, threadVars
<1>2. Attempt(t, b, w)
  BY <1>1, AttemptFacts
<1> HIDE DEF b, w
<1>3. Told(t)
  BY <1>0, <1>1, StayStep DEF Known
<1>4. /\ loaded' \in [Threads -> SUBSET Bits] /\ loaded'[t] = pattern
      /\ \A u \in Threads \ {t} : loaded'[u] = loaded[u]
  BY <1>0, <1>1 DEF Known
<1>5. TypeOK'
  BY <1>0, <1>1, <1>2, <1>3, <1>4
     DEF Known, TypeOK, ThreadsTypeOK, Told, Attempt, Labels, Calls, Results
<1>6. SingleInv'
  BY <1>1 DEF IndInv, SingleInv
<1>7. exists => exists'
  BY <1>1, StillExists
<1>8. \A u \in Threads \ {t} : Kept(u)
  BY <1>1, <1>2, <1>3, <1>4, <1>7 DEF Kept, Frame, Told, Attempt
<1>9. ThreadInv(t)'
  BY <1>1, <1>2, <1>4 DEF ThreadInv, LoadInv, InWaitLoop, Answered, Attempt
<1>10. QED
  BY <1>1, <1>5, <1>6, <1>8, <1>9, StepInv

\* The outcome that set publishes: which threads go, and that those that stay are not
\* satisfied by the new pattern.  The threads that go need not be those that the loop
\* woke: a verdict of an earlier attempt counts, but then no bit is left.
LEMMA CommitFacts ==
  ASSUME IndInv, NEW t \in Threads, NEW b, NEW w, Attempt(t, b, w),
         NEW removed, removed = IF w.woken = {} THEN {} ELSE Removed(Verdicts(w)),
         pattern' = Published(b, loaded[t], w.left)
  PROVE  /\ removed \subseteq Queued(sq)
         /\ \A u \in removed : Verdicts(w)[u] = OK
         /\ \A u \in Queued(sq) \ removed : ~Met(pattern', call[u].req)
         /\ \A u \in removed : call[u].req.clear # "no" => call[u].req.bits \intersect pattern' = {}
         /\ pattern' \subseteq pattern \union b
<1>1. pattern' \subseteq w.left /\ pattern' \subseteq pattern \union b
  BY DEF Attempt, Published
<1>2. removed \subseteq Queued(sq) /\ \A u \in removed : Verdicts(w)[u] = OK
  BY DEF Removed
<1>3. ASSUME NEW u \in Queued(sq)
      PROVE  /\ u \in Threads
             /\ ~Met(pattern, call[u].req)
             /\ Verdicts(w)[u] = IF u \in w.woken THEN OK
                                 ELSE IF u \in w.unmet THEN NoResult ELSE gpr3[u]
             /\ u \in w.woken \/ u \in w.unmet \/ w.left = {}
  <2>1. u \in Threads
    <3>1. sq \in Seq(Threads)
      BY DEF IndInv, TypeOK
    <3>2. QED
      BY <3>1, SMT DEF Queued
  <2>2. ThreadInv(u)
    BY <2>1, Own DEF Known
  <2>3. ~Met(pattern, call[u].req)
    BY <2>2 DEF ThreadInv, WaiterInv
  <2>4. u \in w.woken \/ u \in w.unmet \/ w.left = {}
    BY DEF Attempt, Outcome
  <2>5. QED
    BY <2>1, <2>3, <2>4 DEF Verdicts
<1>4. ASSUME NEW u \in Queued(sq) \ removed
      PROVE  ~Met(pattern', call[u].req)
  <2>1. u \notin w.woken
    BY <1>3 DEF Removed
  <2>2. CASE u \in w.unmet
    <3>1. ~Met(w.left, call[u].req)
      BY <2>2 DEF Attempt, Outcome
    <3>2. QED
      BY <3>1, <1>1 DEF Met
  <2>3. CASE w.left = {}
    <3>1. pattern' \subseteq pattern
      BY <2>3, <1>1
    <3>2. QED
      BY <3>1, <1>3, MetGrows
  <2>4. QED
    BY <2>1, <2>2, <2>3, <1>3
<1>5. ASSUME NEW u \in removed, call[u].req.clear # "no"
      PROVE  call[u].req.bits \intersect pattern' = {}
  <2>1. u \in Queued(sq) /\ Verdicts(w)[u] = OK /\ OK # NoResult
    BY <1>2 DEF OK, NoResult
  <2>2. CASE u \in w.woken
    BY <2>2, <1>1, <1>5 DEF Attempt, Outcome
  <2>3. CASE w.left = {}
    BY <2>3, <1>1
  <2>4. QED
    BY <2>1, <2>2, <2>3, <1>3
<1>6. QED
  BY <1>1, <1>2, <1>4, <1>5

\* The attempt that succeeds.
LEMMA SetCommitInv ==
  ASSUME IndInv, NEW t \in Threads, SetCommit(t)
  PROVE  IndInv'
<1> DEFINE b == call[t].req.bits
           w == ProcessWaiters(loaded[t], b)
           removed == IF w.woken = {} THEN {} ELSE Removed(Verdicts(w))
<1>0. Known(t)
  BY Own
<1>1. /\ pc[t] = "set_commit" /\ gpr3' = Verdicts(w) /\ gpr6' = w.gpr6
      /\ pattern' = Published(b, loaded[t], w.left)
      /\ sq' = RemoveWaiters(removed) /\ run' = awake(removed)
      /\ mutex' = NoThread /\ loaded' = [loaded EXCEPT ![t] = {}]
      /\ Return(t)
      /\ UNCHANGED <<exists, signal, stopped, loading>>
  BY DEF SetCommit
<1>2. Attempt(t, b, w)
  BY <1>1, AttemptFacts
<1> HIDE DEF b, w
<1>3. /\ removed \subseteq Queued(sq) /\ \A u \in removed : Verdicts(w)[u] = OK
      /\ \A u \in Queued(sq) \ removed : ~Met(pattern', call[u].req)
      /\ pattern' \subseteq pattern \union b
  BY <1>1, <1>2, CommitFacts
<1> HIDE DEF removed
<1>4. Told(t) /\ pc'[t] = "idle" /\ call'[t] = NoCall
  BY <1>0, <1>1, ReturnStep DEF Known
<1>5. sq' \in Seq(Threads) /\ NoDuplicates(sq') /\ Queued(sq') = Queued(sq) \ removed
  BY <1>0, <1>1, RemoveQueue DEF Known, TypeOK
<1>6. /\ loaded' \in [Threads -> SUBSET Bits]
      /\ \A u \in Threads \ {t} : loaded'[u] = loaded[u]
  BY <1>0, <1>1 DEF Known
<1>7. /\ run' \in [Threads -> RunStates]
      /\ \A u \in Threads : run'[u] = IF u \in removed /\ run[u] = "asleep" THEN "ready" ELSE run[u]
  BY <1>0, <1>1 DEF Known, awake, RunStates
<1>8. pattern' \in SUBSET Bits
  BY <1>0, <1>2, <1>3 DEF Known, Attempt
<1>9. TypeOK'
  BY <1>0, <1>1, <1>2, <1>4, <1>5, <1>6, <1>7, <1>8
     DEF Known, TypeOK, ThreadsTypeOK, Told, Attempt, Labels, Calls, Results
<1>10. SingleInv'
  BY <1>1, <1>5 DEF IndInv, SingleInv
<1>11. exists => exists'
  BY <1>1, StillExists
<1>12. ASSUME NEW u \in Threads \ {t} PROVE Kept(u) \/ Released(u)
  <2>1. Frame(u)
    BY <1>0, <1>1, <1>2, <1>4, <1>6 DEF Frame, Told, Attempt, Known
  <2>2. pc[u] # "set_commit" /\ loading = {}
    <3>1. ThreadInv(u)
      BY Own DEF Known
    <3>2. QED
      BY <3>1, <1>2 DEF ThreadInv, Attempt
  <2>3. u \in Queued(sq) => (Verdicts(w)[u] = OK => Met(w.gpr6[u], call[u].req))
    BY <1>2 DEF Attempt
  <2>4. CASE u \in removed
    BY <2>1, <2>2, <2>3, <2>4, <1>1, <1>3, <1>5, <1>7 DEF Released
  <2>5. CASE u \notin removed
    <3>1. u \notin Queued(sq) => gpr3'[u] = gpr3[u] /\ gpr6'[u] = gpr6[u]
      BY <1>1, <1>2 DEF Attempt
    <3>2. QED
      BY <3>1, <2>1, <2>2, <2>3, <2>5, <1>1, <1>3, <1>5, <1>7, <1>11 DEF Kept
  <2>6. QED
    BY <2>4, <2>5
<1>13. ThreadInv(t)'
  <2>1. /\ t \notin Queued(sq') /\ run'[t] = "running" /\ t \notin signal' /\ loading' = {}
        /\ mutex' # t
    BY <1>0, <1>1, <1>2, <1>3, <1>5, <1>7 DEF Attempt, Known
  <2>2. QED
    BY <2>1, <1>4, IdleThread
<1>14. QED
  BY <1>1, <1>9, <1>10, <1>12, <1>13, StepInv

\* cancel answers every waiter, or leaves for a savestate.
LEMMA CancelInv ==
  ASSUME IndInv, NEW t \in Threads, Cancel(t)
  PROVE  IndInv'
<1> DEFINE r == OnlyBits({})
           c == Call("cancel", FALSE, r)
<1>0. Known(t)
  BY Own
<1>1. Enters(t, c) /\ mutex = NoThread /\ UNCHANGED <<exists, pattern, mutex, signal, loading, loaded>>
  BY DEF Cancel
<1> HIDE DEF r
<1>2. /\ pc[t] \in {"idle", "again"} /\ t \notin stopped /\ loading = {}
      /\ t \notin Queued(sq) /\ t \notin signal /\ run[t] = "running" /\ mutex # t
  BY <1>1, NotLoading
<1>3. r \in RequestType
  BY OnlyBitsValue DEF r
<1>4. c \in Calls
  BY <1>3 DEF Call, Calls
<1> HIDE DEF c
<1>5. exists => exists'
  BY <1>1, StillExists
<1>6. CASE /\ stopped' = stopped \union {t} /\ Goto(t, "again") /\ call' = [call EXCEPT ![t] = c]
           /\ UNCHANGED <<sq, run, regVars>>
  <2>1. Told(t) /\ pc'[t] = "again"
    <3>1. "again" \in Labels
      BY DEF Labels, WaitLabels
    <3>2. QED
      BY <3>1, <1>0, <1>4, <1>6, BeginStep DEF Known
  <2>2. OwnRegs(t)
    BY <1>0, <1>6, StayStep DEF Known
  <2>3. Local(t)
    BY <2>1, <2>2, <1>0, <1>1, <1>6 DEF Known, Local
  <2>4. ThreadInv(t)'
    BY <2>1, <1>1, <1>2, <1>6 DEF ThreadInv, LoadInv, InWaitLoop, Answered
  <2>5. QED
    BY <2>3, <2>4, LocalInv
<1>7. CASE /\ gpr3' = [u \in Threads |-> IF u \in Queued(sq) THEN ECANCELED ELSE gpr3[u]]
           /\ gpr6' = [u \in Threads |-> IF u \in Queued(sq) THEN pattern ELSE gpr6[u]]
           /\ sq' = <<>> /\ run' = awake(Queued(sq)) /\ Return(t) /\ UNCHANGED stopped
  <2>1. Told(t) /\ pc'[t] = "idle" /\ call'[t] = NoCall
    BY <1>0, <1>7, ReturnStep DEF Known
  <2>2. Queued(sq') = {} /\ sq' \in Seq(Threads) /\ NoDuplicates(sq')
    BY <1>7, SMT DEF Queued, NoDuplicates
  <2>3. /\ run' \in [Threads -> RunStates]
        /\ \A u \in Threads :
             run'[u] = IF u \in Queued(sq) /\ run[u] = "asleep" THEN "ready" ELSE run[u]
    BY <1>0, <1>7 DEF Known, awake, RunStates
  <2>4. gpr3' \in [Threads -> Results] /\ gpr6' \in [Threads -> SUBSET Bits]
    BY <1>0, <1>7 DEF Known, TypeOK, Results
  <2>5. TypeOK'
    BY <2>1, <2>2, <2>3, <2>4, <1>0, <1>1, <1>7
       DEF Known, TypeOK, ThreadsTypeOK, Told, Labels, Calls, Results
  <2>6. SingleInv'
    BY <2>2, <1>1, <1>2 DEF SingleInv
  <2>7. ASSUME NEW u \in Threads \ {t} PROVE Kept(u) \/ Released(u)
    <3>1. Frame(u)
      BY <2>1, <1>1, <1>7 DEF Frame, Told
    <3>2. CASE u \in Queued(sq)
      <4>1. gpr3'[u] = ECANCELED /\ ECANCELED # OK
        BY <3>2, <1>7 DEF ECANCELED, OK
      <4>2. QED
        BY <4>1, <3>1, <3>2, <2>2, <2>3, <1>1, <1>2 DEF Released
    <3>3. CASE u \notin Queued(sq)
      BY <3>1, <3>3, <2>2, <2>3, <1>1, <1>5, <1>7 DEF Kept
    <3>4. QED
      BY <3>2, <3>3
  <2>8. ThreadInv(t)'
    BY <2>1, <2>2, <2>3, <1>1, <1>2, <1>7, IdleThread
  <2>9. QED
    BY <2>5, <2>6, <2>7, <2>8, <1>1, StepInv
<1>8. QED
  BY <1>6, <1>7 DEF Cancel, c, r

-----------------------------------------------------------------------------
(***************************************************************************)
(* The invariant, and what follows from it.                                *)
(***************************************************************************)
\* A new flag.
LEMMA InitInv ==
  ASSUME Init
  PROVE  IndInv
<1>1. /\ run = [t \in Threads |-> "running"] /\ signal = {} /\ pc = [t \in Threads |-> "idle"]
      /\ stopped = {} /\ loading = {} /\ exists = TRUE /\ pattern \in InitArgs /\ sq = <<>>
      /\ mutex = NoThread /\ call = [t \in Threads |-> NoCall]
      /\ loaded = [t \in Threads |-> {}] /\ gpr3 = [t \in Threads |-> NoResult]
      /\ gpr6 = [t \in Threads |-> {}]
  BY DEF Init, ThreadsInit
<1>2. Queued(sq) = {} /\ sq \in Seq(Threads) /\ NoDuplicates(sq)
  BY <1>1, SMT DEF Queued, NoDuplicates
<1>3. pattern \in SUBSET Bits
  BY <1>1, EventFlagAssumption DEF EventFlagAssumption
<1>4. NoCall \in Calls /\ {} \in SUBSET Bits /\ NoThread \notin Threads
  BY NoCallValue, Lv2Assumption DEF Lv2Assumption
<1>5. TypeOK
  <2>1. ThreadsTypeOK
    BY <1>1 DEF ThreadsTypeOK, RunStates
  <2>2. pc \in [Threads -> Labels] /\ gpr3 \in [Threads -> Results]
    BY <1>1 DEF Labels, WaitLabels, Results
  <2>3. call \in [Threads -> Calls] /\ loaded \in [Threads -> SUBSET Bits]
        /\ gpr6 \in [Threads -> SUBSET Bits]
    BY <1>1, <1>4
  <2>4. QED
    BY <2>1, <2>2, <2>3, <1>1, <1>2, <1>3 DEF TypeOK, Labels, Results, Calls
<1>6. SingleInv
  BY <1>1, <1>2 DEF SingleInv
<1>7. ASSUME NEW t \in Threads PROVE ThreadInv(t)
  <2>1. run[t] = "running" /\ pc[t] = "idle" /\ call[t] = NoCall /\ mutex # t
    BY <1>1, <1>4
  <2>2. LoadInv(t)
    BY <1>1 DEF LoadInv
  <2>3. QED
    BY <2>1, <2>2, <1>1, <1>2 DEF ThreadInv, InWaitLoop, Answered
<1>8. QED
  BY <1>5, <1>6, <1>7 DEF IndInv, ThreadsInv

\* Every step keeps the invariant.
LEMMA NextInv ==
  ASSUME IndInv, [Next]_vars
  PROVE  IndInv'
<1>1. ASSUME NEW t \in Threads, Step(t) PROVE IndInv'
  BY <1>1, WaitLockInv, WaitSignalInv, WaitStoppedInv, WaitTimeoutInv, CheckStateInv,
     WaitRecheckInv, SetLockInv, SetRetryInv, SetCommitInv DEF Step
<1>2. ASSUME NEW t \in Threads, NEW r \in Requests, TryWait(t, r) PROVE IndInv'
  <2>1. r \in RequestType
    BY EventFlagAssumption DEF EventFlagAssumption
  <2>2. /\ Idle(t) /\ pattern' = Cleared(pattern, r)
        /\ UNCHANGED <<exists, sq, mutex, threadVars, pc, call, loaded, regVars>>
    BY <1>2 DEF TryWait
  <2>3. pattern' \subseteq pattern
    BY <2>1, <2>2, ClearedBits
  <2>4. QED
    BY <2>2, <2>3, TakeBitsInv
<1>3. ASSUME NEW t \in Threads, NEW b \in ClearArgs, Clear(t, b) PROVE IndInv'
  <2>1. /\ Idle(t) /\ pattern' \subseteq pattern
        /\ UNCHANGED <<exists, sq, mutex, threadVars, pc, call, loaded, regVars>>
    BY <1>3 DEF Clear
  <2>2. QED
    BY <2>1, TakeBitsInv
<1>4. ASSUME NEW t \in Threads, Enter(t) PROVE IndInv'
  BY <1>2, <1>3, <1>4, WaitInv, CreateInv, SetInv, CancelInv, DestroyInv DEF Enter
<1>5. CASE UNCHANGED vars
  <2>1. UNCHANGED <<exists, pattern, sq, mutex, run, signal, stopped, loading, pc, call, loaded, gpr3, gpr6>>
    BY <1>5 DEF vars, objVars, threadVars, regVars
  <2>2. TypeOK' /\ SingleInv'
    BY <2>1 DEF IndInv, TypeOK, ThreadsTypeOK, SingleInv
  <2>3. exists => exists'
    BY <2>1, StillExists
  <2>4. ASSUME NEW u \in Threads PROVE ThreadInv(u)'
    <3>1. Kept(u)
      BY <2>1, <2>3 DEF Kept, Frame
    <3>2. ThreadInv(u)
      BY DEF IndInv, ThreadsInv
    <3>3. QED
      BY <3>1, <3>2, <2>1, KeptThread
  <2>5. QED
    BY <2>2, <2>4 DEF IndInv, ThreadsInv
<1>6. QED
  BY <1>1, <1>4, <1>5, ScheduleInv, StopInv, LoadStepInv DEF Next

\* The inductive invariant.
THEOREM Invariance == Spec => []IndInv
  BY InitInv, NextInv, PTL DEF Spec

\* Type correctness.
THEOREM TypeCorrect == Spec => []TypeOK
<1>1. IndInv => TypeOK
  BY DEF IndInv
<1>2. QED
  BY <1>1, Invariance, PTL

(***************************************************************************)
(* No wake-up is missed: outside of the critical section of set, the       *)
(* pattern satisfies no thread in the queue, whatever wait, trywait, clear *)
(* and cancel do around it.                                                *)
(***************************************************************************)
THEOREM NobodyReady == Spec => []NoReadyWaiter
<1>1. ASSUME IndInv PROVE NoReadyWaiter
  <2>1. ASSUME NEW t \in Queued(sq) PROVE ~Met(pattern, call[t].req)
    <3>1. sq \in Seq(Threads)
      BY <1>1 DEF IndInv, TypeOK
    <3>2. t \in Threads
      BY <3>1, SMT DEF Queued
    <3>3. QED
      BY <1>1, <3>2 DEF IndInv, ThreadsInv, ThreadInv, WaiterInv
  <2>2. QED
    BY <2>1 DEF NoReadyWaiter
<1>2. QED
  BY <1>1, Invariance, PTL

(***************************************************************************)
(* A thread that set or cancel takes off the queue has its answer, and if  *)
(* it is CELL_OK the pattern it reports satisfies it.                      *)
(***************************************************************************)
THEOREM WokenAnswered == Spec => []WokenHasAnswer
<1>1. IndInv => WokenHasAnswer
  BY DEF IndInv, ThreadsInv, ThreadInv, WokenHasAnswer
<1>2. QED
  BY <1>1, Invariance, PTL

(***************************************************************************)
(* After a load, the threads that were asleep are not satisfied yet.       *)
(***************************************************************************)
THEOREM LoadedSleep == Spec => []LoadedThreadsSleep
<1>1. ASSUME IndInv PROVE LoadedThreadsSleep
  <2>1. loading \subseteq Threads
    BY <1>1 DEF IndInv, TypeOK, ThreadsTypeOK
  <2>2. QED
    BY <1>1, <2>1 DEF IndInv, ThreadsInv, ThreadInv, LoadInv, LoadedThreadsSleep
<1>2. QED
  BY <1>1, Invariance, PTL

-----------------------------------------------------------------------------
(***************************************************************************)
(* What set publishes.                                                     *)
(***************************************************************************)
\* A step that goes on with no thread, with one that is not at the end of set, or is
\* the end of set.
Moves(u) ==
  \/ UNCHANGED pc
  \/ SetCommit(u)
  \/ pc[u] # "set_commit" /\ \E l : Goto(u, l)

\* Every step of a thread is one of these.
LEMMA StepMoves ==
  ASSUME NEW u \in Threads, Step(u) \/ Enter(u) \/ Schedule(u) \/ Stop(u)
  PROVE  Moves(u)
<1>1. WaitLock(u) \/ WaitRecheck(u) => Moves(u)
  BY DEF WaitLock, WaitRecheck, EndWait, Return, Continue, Moves
<1>2. WaitSignal(u) \/ WaitStopped(u) \/ WaitTimeout(u) => Moves(u)
  BY DEF WaitSignal, WaitEnds, WaitStopped, WaitTimeout, wait_timeout, EndWait, Return, Continue, Moves
<1>3. CheckState(u) => Moves(u)
  BY DEF CheckState, cpu_sleep, check_state, Moves
<1>4. SetLock(u) \/ SetRetry(u) \/ SetCommit(u) => Moves(u)
  BY DEF SetLock, SetRetry, Again, Continue, Moves
<1>5. (\E r \in Requests : TryWait(u, r)) \/ (\E b \in ClearArgs : Clear(u, b)) => Moves(u)
  BY DEF TryWait, Clear, Moves
<1>6. (\E r \in Requests, timed \in Timed : Wait(u, r, timed)) => Moves(u)
  BY DEF Wait, Enters, Return, Moves
<1>7. (\E b \in SetArgs : Set(u, b)) => Moves(u)
  BY DEF Set, Enters, Return, Moves
<1>8. (\E b \in InitArgs : Create(u, b)) \/ Destroy(u) => Moves(u)
  BY DEF Create, Destroy, Moves
<1>9. Cancel(u) => Moves(u)
  BY DEF Cancel, Enters, Return, Moves
<1>10. Schedule(u) \/ Stop(u) => Moves(u)
  BY DEF Schedule, schedule_all, Stop, stop, Moves
<1>11. Step(u) => Moves(u)
  BY <1>1, <1>2, <1>3, <1>4 DEF Step
<1>12. Enter(u) => Moves(u)
  BY <1>5, <1>6, <1>7, <1>8, <1>9 DEF Enter
<1>13. QED
  BY <1>10, <1>11, <1>12

\* Only the successful attempt of a set publishes.
LEMMA OnlyCommitPublishes ==
  ASSUME IndInv, [Next]_vars, NEW t \in Threads, Publishes(t)
  PROVE  SetCommit(t)
<1>1. pc[t] = "set_commit" /\ pc'[t] = "idle" /\ pc'[t] # pc[t]
  BY DEF Publishes
<1>2. ~UNCHANGED pc
  BY <1>1
<1>3. ~Load /\ ~UNCHANGED vars
  BY <1>2 DEF Load, load, vars
<1>4. PICK u \in Threads : Step(u) \/ Enter(u) \/ Schedule(u) \/ Stop(u)
  BY <1>3 DEF Next
<1>5. SetCommit(u) \/ (pc[u] # "set_commit" /\ \E l : Goto(u, l))
  BY <1>2, <1>4, StepMoves DEF Moves
<1>6. \A l : Goto(u, l) => (u = t \/ pc'[t] = pc[t])
  BY DEF Goto, IndInv, TypeOK
<1>7. SetCommit(u) => Goto(u, "idle")
  BY DEF SetCommit, Return
<1>8. QED
  BY <1>1, <1>5, <1>6, <1>7

\* What the successful attempt does to the pattern and to the threads it wakes.
LEMMA CommitPublishes ==
  ASSUME IndInv, NEW t \in Threads, SetCommit(t)
  PROVE  /\ pattern' \subseteq pattern \union call[t].req.bits
         /\ \A u \in Queued(sq) \ Queued(sq') :
              call[u].req.clear # "no" => call[u].req.bits \intersect pattern' = {}
<1> DEFINE b == call[t].req.bits
           w == ProcessWaiters(loaded[t], b)
           removed == IF w.woken = {} THEN {} ELSE Removed(Verdicts(w))
<1>1. /\ pc[t] = "set_commit" /\ pattern' = Published(b, loaded[t], w.left)
      /\ sq' = RemoveWaiters(removed)
  BY DEF SetCommit
<1>2. Attempt(t, b, w)
  BY <1>1, AttemptFacts
<1> HIDE DEF w
<1>3. /\ \A u \in removed : call[u].req.clear # "no" => call[u].req.bits \intersect pattern' = {}
      /\ pattern' \subseteq pattern \union b
  <2> HIDE DEF b
  <2>1. QED
    BY <1>1, <1>2, CommitFacts
<1> HIDE DEF removed
<1>4. Queued(sq') = Queued(sq) \ removed
  BY <1>1, RemoveQueue DEF IndInv, TypeOK
<1>5. QED
  BY <1>3, <1>4

(***************************************************************************)
(* set brings back no bit that was cleared while it was at work.           *)
(***************************************************************************)
THEOREM ClearedStayCleared == Spec => ClearedBitsStayCleared
<1>1. ASSUME IndInv, [Next]_vars, NEW t \in Threads, Publishes(t)
      PROVE  pattern' \subseteq pattern \union call[t].req.bits
  BY <1>1, OnlyCommitPublishes, CommitPublishes
<1>2. IndInv /\ [Next]_vars =>
        [\A t \in Threads : Publishes(t) => pattern' \subseteq pattern \union call[t].req.bits]_vars
  BY <1>1
<1>3. QED
  BY <1>2, Invariance, PTL DEF Spec, ClearedBitsStayCleared

(***************************************************************************)
(* The bits that a woken waiter asked to clear are not in the pattern that *)
(* set publishes, whichever attempt has found it satisfied.                *)
(***************************************************************************)
THEOREM ConsumedGo == Spec => ConsumedBitsGo
<1> DEFINE Gone(t, u) ==
             Publishes(t) /\ u \in Queued(sq) \ Queued(sq') /\ call[u].req.clear # "no"
               => call[u].req.bits \intersect pattern' = {}
<1>1. ASSUME IndInv, [Next]_vars, NEW t \in Threads, NEW u \in Threads
      PROVE  Gone(t, u)
  BY <1>1, OnlyCommitPublishes, CommitPublishes
<1>2. IndInv /\ [Next]_vars => [\A t, u \in Threads : Gone(t, u)]_vars
  BY <1>1
<1>3. QED
  BY <1>2, Invariance, PTL DEF Spec, ConsumedBitsGo

(***************************************************************************)
(* Every attempt of set that fails has lost a bit of the value it was      *)
(* computed from, and no step adds one: with finitely many bits the        *)
(* attempts come to an end.                                                *)
(***************************************************************************)
THEOREM RetriesEnd == Spec => RetriesUseUpBits
<1>1. ASSUME IndInv, NEW t \in Threads, SetRetry(t)
      PROVE  loaded'[t] \in (SUBSET loaded[t]) \ {loaded[t]}
  <2> DEFINE w == ProcessWaiters(loaded[t], call[t].req.bits)
  <2>1. pc[t] = "set_commit" /\ Conflict(t, w) /\ loaded' = [loaded EXCEPT ![t] = pattern]
    BY <1>1 DEF SetRetry, Reload
  <2> HIDE DEF w
  <2>2. Known(t)
    BY <1>1, Own
  <2>3. pattern \subseteq loaded[t] /\ loaded'[t] = pattern
    BY <2>1, <2>2 DEF Known, ThreadInv
  <2>4. pattern # loaded[t]
    BY <2>1 DEF Conflict
  <2>5. QED
    BY <2>3, <2>4
<1>2. IndInv /\ [Next]_vars =>
        [\A t \in Threads : SetRetry(t) => loaded'[t] \in (SUBSET loaded[t]) \ {loaded[t]}]_vars
  BY <1>1
<1>3. QED
  BY <1>2, Invariance, PTL DEF Spec, RetriesUseUpBits

=============================================================================
