-------------------------- MODULE SharedMutexProofs --------------------------
(***************************************************************************)
(* Proofs about SharedMutex, for every set of threads and every size of    *)
(* the fields of the word.                                                 *)
(*                                                                         *)
(* None of the properties is inductive.  The invariant that carries them   *)
(* has four parts beside the types.  The word is the sum of what the       *)
(* threads contribute, perhaps with the notification bit (WordInv).  The   *)
(* right to the lock is in one place: with the readers, with a writer,     *)
(* with a thread about to signal, or in the notification bit; it is in one *)
(* of the last two whenever threads wait and nobody has the lock           *)
(* (OwnerInv).  While the bit is set, some waiter is awake or about to be  *)
(* woken (WakeInv).  And the count that a thread in lock_unlock compares   *)
(* with is a lower bound of the present one for as long as one of those it *)
(* waits for has the lock (SeenInv).                                       *)
(***************************************************************************)
EXTENDS SharedMutex, FiniteSetTheorems, TLAPS

\* The backend of every leaf that does not name another one.
USE ZenonT(30)

\* Labels of the threads that count c_one, and of those inside lock_unlock.
Counting == Writing \union Waiting
Passing == {"unlock_spin", "unlock_wait", "unlock"}

Counted == {t \in Threads : pc[t] \in Counting}
Leaving == {t \in Threads : pc[t] = "signal"}
Notifying == {t \in Threads : pc[t] = "notify"}
nReaders == Cardinality(Readers)
nCounted == Cardinality(Counted)

\* The word without the notification bit, and the bit.
Base == nReaders + c_one * nCounted
Sig == m_value >= c_sig

\* The readers count as one when lock_unlock looks at the word.
Weight == nCounted + (IF Readers = {} THEN 0 ELSE 1)

\* The word is the sum of what the threads have added, and the bit.
WordInv ==
  /\ m_value = Base \/ m_value = Base + c_sig
  /\ nReaders < c_one

\* One owner, or readers, or the bit in flight; and if there is none of them,
\* nobody waits.
OwnerInv ==
  /\ \A t, u \in Writers \union Leaving : t = u
  /\ Writers \union Leaving # {} \/ Sig => Readers = {}
  /\ Sig => Writers \union Leaving = {}
  /\ Leaving # {} \/ Sig => Waiters # {}
  /\ Waiters # {} /\ Holders = {} => Leaving # {} \/ Sig

\* Who sleeps has looked at the word, and a bit has somebody to take it off.
WakeInv ==
  /\ \A t \in Threads : t \in asleep => old[t] # -1
  /\ \A t \in Threads : old[t] # -1 => t \in Waiters
  /\ Sig => Notifying # {} \/ Waiters \ asleep # {}

\* lock_unlock waits as long as one of those that it met holds the lock.
SeenInv ==
  \A t \in Threads :
    /\ seen[t] \subseteq Holders
    /\ pc[t] \in Passing => t \notin seen[t]
    /\ pc[t] = "unlock_spin" /\ seen[t] # {} => max[t] <= Weight

IndInv == TypeOK /\ WordInv /\ OwnerInv /\ WakeInv /\ SeenInv

-----------------------------------------------------------------------------
\* What a thread at label l adds to the number of threads of a kind, and to the
\* word.
Bit(l, S) == IF l \in S THEN 1 ELSE 0
Value(l) == Bit(l, Reading) + c_one * Bit(l, Counting)

\* What imp_wait returns to is the lock held for writing.
LEMMA LabelSets ==
  /\ Waiting = {"lock_wait", "shared_wait", "upgrade_wait", "unlock_wait"}
  /\ \A l \in Waiting : AfterWait[l] \in Writing
BY SMT DEF Waiting, AfterWait, Writing

\* Arithmetic of the part of the word that counts writers and waiters.
LEMMA Multiples ==
  ASSUME NEW n \in Nat
  PROVE  /\ c_one * n \in Nat
         /\ c_one * (n + 1) = c_one * n + c_one
         /\ c_one * (n - 1) = c_one * n - c_one
         /\ n > 0 => c_one * n >= c_one
         /\ n = 0 => c_one * n = 0
         /\ n < Slots => c_one * n + c_one <= c_sig
BY SharedMutexAssumption, SMT DEF c_sig

\* The parts of the word can be read back: the low bits are the readers,
\* the quotient by c_one is the number of writers and waiters.
LEMMA Quotients ==
  ASSUME NEW n \in Nat, NEW r \in 0 .. c_one - 1
  PROVE  /\ (r + c_one * n) % c_one = r
         /\ (r + c_one * n) \div c_one = n
         /\ (r + c_one * n + c_sig) % c_one = r
<1>1. ASSUME NEW k \in Nat
      PROVE  (r + c_one * k) % c_one = r /\ (r + c_one * k) \div c_one = k
  BY SharedMutexAssumption, SMT
<1>2. r + c_one * n + c_sig = r + c_one * (n + Slots) /\ n + Slots \in Nat
  BY SharedMutexAssumption, SMT DEF c_sig
<1> QED BY <1>1, <1>2

\* There are fewer threads than slots in the word, and one thread more or
\* less changes a count by one.
LEMMA SubsetCount ==
  ASSUME NEW S, S \subseteq Threads
  PROVE  /\ IsFiniteSet(S)
         /\ Cardinality(S) \in Nat
         /\ Cardinality(S) < Slots
         /\ Cardinality(S) = 0 <=> S = {}
         /\ \A t \in Threads : Cardinality(S \union {t}) =
              Cardinality(S) + (IF t \in S THEN 0 ELSE 1)
         /\ \A t \in Threads : Cardinality(S \ {t}) =
              Cardinality(S) - (IF t \in S THEN 1 ELSE 0)
<1>1. IsFiniteSet(S) /\ Cardinality(S) <= Cardinality(Threads)
  BY SharedMutexAssumption, FS_Subset
<1>2. Cardinality(S) \in Nat /\ Cardinality(Threads) \in Nat
  BY <1>1, SharedMutexAssumption, FS_CardinalityType
<1>3. Cardinality(S) = 0 <=> S = {}
  BY <1>1, FS_EmptySet
<1>4. \A t \in Threads : Cardinality(S \union {t}) =
              Cardinality(S) + (IF t \in S THEN 0 ELSE 1)
  BY <1>1, <1>2, FS_AddElement, SMT
<1>5. ASSUME NEW t \in Threads
      PROVE  Cardinality(S \ {t}) = Cardinality(S) - (IF t \in S THEN 1 ELSE 0)
  <2>1. CASE t \in S
    BY <2>1, <1>1, <1>2, FS_RemoveElement
  <2>2. CASE t \notin S
    <3>1. S \ {t} = S
      BY <2>2
    <3> QED BY <3>1, <2>2, <1>2, SMT
  <2> QED BY <2>1, <2>2
<1> QED BY <1>1, <1>2, <1>3, <1>4, <1>5, SharedMutexAssumption, SMT

\* When one thread changes its label, the counts change by that thread.
LEMMA Moves ==
  ASSUME TypeOK, NEW t \in Threads, NEW l \in Labels,
         pc' = [pc EXCEPT ![t] = l]
  PROVE  /\ Readers' = IF l \in Reading THEN Readers \union {t} ELSE Readers \ {t}
         /\ Counted' = IF l \in Counting THEN Counted \union {t} ELSE Counted \ {t}
         /\ nReaders' = nReaders + Bit(l, Reading) - Bit(pc[t], Reading)
         /\ nCounted' = nCounted + Bit(l, Counting) - Bit(pc[t], Counting)
<1>1. /\ Readers' = IF l \in Reading THEN Readers \union {t} ELSE Readers \ {t}
      /\ Counted' = IF l \in Counting THEN Counted \union {t} ELSE Counted \ {t}
  BY DEF TypeOK, Readers, Counted
<1>2. (t \in Readers <=> pc[t] \in Reading) /\ (t \in Counted <=> pc[t] \in Counting)
  BY DEF Readers, Counted
<1>3. Readers \subseteq Threads /\ Counted \subseteq Threads
  BY DEF Readers, Counted
<1>4. nReaders' = nReaders + Bit(l, Reading) - Bit(pc[t], Reading)
  BY <1>1, <1>2, <1>3, SubsetCount, SMT DEF nReaders, Bit
<1>5. nCounted' = nCounted + Bit(l, Counting) - Bit(pc[t], Counting)
  BY <1>1, <1>2, <1>3, SubsetCount, SMT DEF nCounted, Bit
<1> QED BY <1>1, <1>4, <1>5

\* The word, read back under WordInv: this is what the tests of mutex.cpp
\* on the word (its remainder, its quotient, c_sig) mean.
LEMMA Decoded ==
  ASSUME TypeOK, WordInv
  PROVE  /\ nReaders \in Nat /\ nCounted \in Nat
         /\ Base \in Nat /\ Base < c_sig
         /\ m_value = IF Sig THEN Base + c_sig ELSE Base
         /\ Signaled <=> Sig
         /\ m_value % c_one = nReaders
         /\ ~Sig => m_value \div c_one = nCounted
         /\ nReaders = 0 <=> Readers = {}
         /\ nCounted = 0 <=> Counted = {}
<1>1. /\ nReaders \in Nat /\ nCounted \in Nat /\ nCounted < Slots
      /\ nReaders = 0 <=> Readers = {}
      /\ nCounted = 0 <=> Counted = {}
  <2>1. Readers \subseteq Threads /\ Counted \subseteq Threads
    BY DEF Readers, Counted
  <2> QED BY <2>1, SubsetCount DEF nReaders, nCounted
<1>2. nReaders \in 0 .. c_one - 1
  BY <1>1, SharedMutexAssumption, SMT DEF WordInv
<1>3. /\ c_one * nCounted \in Nat
      /\ c_one * nCounted + c_one <= c_sig
  BY <1>1, Multiples
<1>4. /\ c_sig \in Nat /\ c_sig > 0
      /\ Base \in Nat /\ Base < c_sig
  <2>1. c_sig \in Nat
    BY SharedMutexAssumption, SMT DEF c_sig
  <2> QED BY <1>2, <1>3, <2>1, SharedMutexAssumption, SMT DEF Base
<1>5. m_value = IF Sig THEN Base + c_sig ELSE Base
  BY <1>4, SMT DEF WordInv, Sig
<1>6. Signaled <=> Sig
  <2>1. Base \div c_sig = 0 /\ (Base + c_sig) \div c_sig = 1
    BY <1>4, SMT
  <2> QED BY <2>1, <1>5, SMT DEF Signaled
<1>7. m_value % c_one = nReaders
  BY <1>1, <1>2, <1>5, Quotients DEF Base
<1>8. ~Sig => m_value \div c_one = nCounted
  BY <1>1, <1>2, <1>5, Quotients DEF Base
<1> QED BY <1>1, <1>4, <1>5, <1>6, <1>7, <1>8

\* The counts never reach the notification bit ("shared_mutex overflow").
LEMMA BaseRange ==
  ASSUME NEW R, R \subseteq Threads, NEW C, C \subseteq Threads,
         Cardinality(R) < c_one
  PROVE  Cardinality(R) + c_one * Cardinality(C) \in 0 .. c_sig - 1
<1>1. Cardinality(R) \in Nat /\ Cardinality(C) \in Nat /\ Cardinality(C) < Slots
  BY SubsetCount
<1>2. c_one * Cardinality(C) \in Nat /\ c_one * Cardinality(C) + c_one <= c_sig
  BY <1>1, Multiples
<1>3. c_sig \in Nat
  BY SharedMutexAssumption, SMT DEF c_sig
<1> QED BY <1>1, <1>2, <1>3, SharedMutexAssumption, SMT

\* The notification bit is a positive number.
LEMMA Constants == c_sig \in Nat /\ c_sig > 0 /\ c_sig' = c_sig
<1>1. 0 < Slots
  <2>1. {} \subseteq Threads
    OBVIOUS
  <2> QED BY <2>1, SubsetCount, SharedMutexAssumption
<1>2. c_sig \in Nat /\ c_sig > 0
  BY <1>1, SharedMutexAssumption, SMT DEF c_sig
<1>3. c_sig' = c_sig
  BY DEF c_sig
<1> QED BY <1>2, <1>3

\* Types, and what lock_unlock relies on, when one thread changes its label:
\* as long as one of those it has seen still has the lock, the count it
\* compares with does not fall.
LEMMA GotoSeen ==
  ASSUME IndInv, NEW t \in Threads, NEW l \in Labels \ {"unlock_spin"},
         Goto(t, l),
         max' = max \/ max' = [max EXCEPT ![t] = 1],
         l \in Passing => pc[t] \in Passing,
         Holders \intersect Holders' # {} => Weight <= Weight',
         WordInv',
         old' \in [Threads -> -1 .. c_sig - 1], asleep' \subseteq Threads
  PROVE  TypeOK' /\ SeenInv'
<1>1. pc' = [pc EXCEPT ![t] = l]
  BY DEF Goto
<1>2. TypeOK'
  <2>1. Readers' \subseteq Threads /\ Counted' \subseteq Threads
    BY DEF Readers, Counted
  <2>2. Base' \in 0 .. c_sig - 1
    BY <2>1, BaseRange DEF WordInv, Base, nReaders, nCounted
  <2>3. m_value' = Base' \/ m_value' = Base' + c_sig
    BY Constants DEF WordInv
  <2>4. m_value' \in 0 .. c_sig + (c_sig - 1)
    BY <2>2, <2>3, Constants, SMT
  <2>5. pc' \in [Threads -> Labels] /\ seen' \in [Threads -> SUBSET Threads]
    BY DEF IndInv, TypeOK, Goto
  <2>6. max' \in [Threads -> Nat]
    BY SMT DEF IndInv, TypeOK
  <2> QED BY <2>4, <2>5, <2>6, Constants DEF TypeOK
<1>3. SeenInv'
  <2> SUFFICES ASSUME NEW u \in Threads
               PROVE  /\ seen'[u] \subseteq Holders'
                      /\ pc'[u] \in Passing => u \notin seen'[u]
                      /\ pc'[u] = "unlock_spin" /\ seen'[u] # {} => max'[u] <= Weight'
    BY DEF SeenInv
  <2>1. seen'[u] \subseteq seen[u] /\ seen'[u] \subseteq Holders'
    BY DEF Goto, Holders, Readers, Writers
  <2>2. seen[u] \subseteq Holders
    BY DEF IndInv, SeenInv
  <2>3. pc'[u] \in Passing => pc[u] \in Passing
    BY <1>1 DEF IndInv, TypeOK
  <2>4. pc'[u] = "unlock_spin" => u # t /\ pc[u] = "unlock_spin" /\ max'[u] = max[u]
    BY <1>1 DEF IndInv, TypeOK
  <2>5. ASSUME pc'[u] = "unlock_spin", seen'[u] # {}
        PROVE  max'[u] <= Weight'
    <3>1. max[u] <= Weight /\ Weight <= Weight'
      BY <2>1, <2>2, <2>4, <2>5 DEF IndInv, SeenInv
    <3>2. max[u] \in Nat
      BY DEF IndInv, TypeOK
    <3>3. Weight \in Nat /\ Weight' \in Nat
      <4>1. Counted \subseteq Threads /\ Counted' \subseteq Threads
        BY DEF Counted
      <4> QED BY <4>1, SubsetCount, SMT DEF Weight, nCounted
    <3> QED BY <2>4, <2>5, <3>1, <3>2, <3>3, SMT
  <2> QED BY <2>1, <2>2, <2>3, <2>5 DEF IndInv, SeenInv
<1> QED BY <1>2, <1>3

\* A step that changes a label and the word keeps the invariant, if it keeps
\* the parts about the word and the owner, and neither leaves a set
\* notification bit without a waiter awake nor takes a waiter away.
LEMMA GotoStep ==
  ASSUME IndInv, NEW t \in Threads, NEW l \in Labels \ {"unlock_spin"},
         Goto(t, l), UNCHANGED waitVars,
         max' = max \/ max' = [max EXCEPT ![t] = 1],
         pc[t] # "notify",
         pc[t] \in Waiting => old[t] = -1,
         l \in Passing => pc[t] \in Passing,
         Sig' => (Sig /\ pc[t] \notin Waiting) \/ l = "notify",
         Holders \intersect Holders' # {} => Weight <= Weight',
         WordInv', OwnerInv'
  PROVE  IndInv'
<1>1. pc' = [pc EXCEPT ![t] = l]
  BY DEF Goto
<1>2. old' \in [Threads -> -1 .. c_sig - 1] /\ asleep' \subseteq Threads
  BY DEF IndInv, TypeOK, waitVars
<1>3. TypeOK' /\ SeenInv'
  BY <1>2, GotoSeen
<1>4. WakeInv'
  <2>1. \A u \in Threads : u \in asleep' => old'[u] # -1
    BY DEF IndInv, WakeInv, waitVars
  <2>2. \A u \in Threads : old'[u] # -1 => u \in Waiters'
    BY <1>1 DEF IndInv, TypeOK, WakeInv, waitVars, Waiters
  <2>3. Sig' => Notifying' # {} \/ Waiters' \ asleep' # {}
    BY <1>1 DEF IndInv, TypeOK, WakeInv, waitVars, Waiters, Notifying
  <2> QED BY <2>1, <2>2, <2>3 DEF WakeInv
<1> QED BY <1>3, <1>4 DEF IndInv

\* What a thread at each label contributes to the word.
LEMMA Values ==
  /\ \A l \in Labels : Bit(l, Reading) \in {0, 1} /\ Bit(l, Counting) \in {0, 1}
  /\ \A l \in Labels \ (Reading \union Counting) :
       Value(l) = 0 /\ Bit(l, Reading) = 0 /\ Bit(l, Counting) = 0
  /\ \A l \in Reading : Value(l) = 1 /\ Bit(l, Reading) = 1 /\ Bit(l, Counting) = 0
  /\ \A l \in Counting : Value(l) = c_one /\ Bit(l, Reading) = 0 /\ Bit(l, Counting) = 1
<1>1. \A l \in Reading : l \notin Counting
  BY LabelSets DEF Reading, Counting, Writing
<1>2. c_one * 0 = 0 /\ c_one * 1 = c_one
  BY SharedMutexAssumption, SMT
<1> QED BY <1>1, <1>2, SharedMutexAssumption, SMT DEF Value, Bit

\* The sum of the contributions moves with the thread; a word that equals it,
\* with or without the notification bit, is a word of WordInv.
LEMMA WordMove ==
  ASSUME IndInv, NEW t \in Threads, NEW l \in Labels,
         pc' = [pc EXCEPT ![t] = l],
         l \in Reading => pc[t] \in Reading \/ nReaders < c_one - 1
  PROVE  /\ nReaders' \in Nat
         /\ nReaders' = nReaders + Bit(l, Reading) - Bit(pc[t], Reading)
         /\ nCounted' \in Nat
         /\ nCounted' = nCounted + Bit(l, Counting) - Bit(pc[t], Counting)
         /\ Base' \in 0 .. c_sig - 1
         /\ Base' = Base + Value(l) - Value(pc[t])
         /\ m_value' = Base' => WordInv' /\ ~Sig'
         /\ m_value' = Base' + c_sig => WordInv' /\ Sig'
         /\ nReaders' = 0 <=> Readers' = {}
         /\ nCounted' = 0 <=> Counted' = {}
<1>1. /\ nReaders' = nReaders + Bit(l, Reading) - Bit(pc[t], Reading)
      /\ nCounted' = nCounted + Bit(l, Counting) - Bit(pc[t], Counting)
  BY Moves DEF IndInv
<1>2. pc[t] \in Labels
  BY DEF IndInv, TypeOK
<1>3. nReaders \in Nat /\ nReaders < c_one /\ nCounted \in Nat
  BY Decoded DEF IndInv, WordInv
<1>4. nReaders' < c_one
  <2>1. CASE l \in Reading /\ pc[t] \notin Reading
    BY <2>1, <1>1, <1>3, SharedMutexAssumption, SMT DEF Bit
  <2>2. CASE l \notin Reading \/ pc[t] \in Reading
    BY <2>2, <1>1, <1>3, SharedMutexAssumption, SMT DEF Bit
  <2> QED BY <2>1, <2>2
<1>5. Readers' \subseteq Threads /\ Counted' \subseteq Threads
  BY DEF Readers, Counted
<1>6. /\ nReaders' \in Nat /\ nCounted' \in Nat
      /\ nReaders' = 0 <=> Readers' = {}
      /\ nCounted' = 0 <=> Counted' = {}
  BY <1>5, SubsetCount DEF nReaders, nCounted
<1>7. Base' \in 0 .. c_sig - 1
  BY <1>4, <1>5, BaseRange DEF Base, nReaders, nCounted
<1>8. Base' = Base + Value(l) - Value(pc[t])
  <2>1. c_one * nCounted' = c_one * nCounted + c_one * Bit(l, Counting) - c_one * Bit(pc[t], Counting)
    <3>1. Bit(l, Counting) \in Int /\ Bit(pc[t], Counting) \in Int
      BY SMT DEF Bit
    <3> QED BY <1>1, <1>3, <3>1, SharedMutexAssumption, SMT
  <2>2. Bit(l, Reading) \in Int /\ Bit(pc[t], Reading) \in Int
        /\ c_one * Bit(l, Counting) \in Int /\ c_one * Bit(pc[t], Counting) \in Int
        /\ c_one * nCounted \in Int
    BY <1>3, SharedMutexAssumption, SMT DEF Bit
  <2> QED BY <1>1, <1>3, <2>1, <2>2, SMT DEF Base, Value
<1>9. /\ m_value' = Base' => WordInv' /\ ~Sig'
      /\ m_value' = Base' + c_sig => WordInv' /\ Sig'
  BY <1>4, <1>7, Constants, SMT DEF WordInv, Sig
<1> QED BY <1>1, <1>6, <1>7, <1>8, <1>9

-----------------------------------------------------------------------------
\* The word is 0 exactly when nobody has the lock or waits for it.
LEMMA FreeWord ==
  ASSUME IndInv
  PROVE  /\ m_value = 0 <=> ~Sig /\ Readers = {} /\ Writers = {} /\ Waiters = {}
         /\ m_value = 0 => Leaving = {}
<1>1. Counted = {} <=> Writers = {} /\ Waiters = {}
  BY DEF Counted, Writers, Waiters, Counting
<1>2. Base = 0 <=> nReaders = 0 /\ nCounted = 0
  <2>1. nReaders \in Nat /\ nCounted \in Nat
    BY Decoded DEF IndInv
  <2>2. /\ c_one * nCounted \in Nat
        /\ nCounted > 0 => c_one * nCounted >= c_one
        /\ nCounted = 0 => c_one * nCounted = 0
    BY <2>1, Multiples
  <2> QED BY <2>1, <2>2, SharedMutexAssumption, SMT DEF Base
<1>3. m_value = 0 <=> ~Sig /\ Base = 0
  BY Decoded, Constants, SMT DEF IndInv, Sig
<1> QED BY <1>1, <1>2, <1>3, Decoded DEF IndInv, OwnerInv

\* A thread that goes on without touching the word changes nobody's view.
LEMMA QuietMove ==
  ASSUME IndInv, NEW t \in Threads, NEW l \in Labels \ {"signal"},
         pc' = [pc EXCEPT ![t] = l], m_value' = m_value,
         pc[t] # "signal",
         \/ pc[t] \in Reading /\ l \in Reading
         \/ pc[t] \notin Reading \union Counting /\ l \notin Reading \union Counting
  PROVE  /\ WordInv' /\ OwnerInv' /\ (Sig' <=> Sig)
         /\ Holders' = Holders /\ Waiters' = Waiters
         /\ Weight <= Weight'
<1>1. pc[t] \in Labels
  BY DEF IndInv, TypeOK
<1>2. /\ Value(l) = Value(pc[t]) /\ Value(l) \in Nat
      /\ Bit(l, Reading) = Bit(pc[t], Reading)
      /\ Bit(l, Counting) = Bit(pc[t], Counting)
  BY <1>1, Values, SharedMutexAssumption, SMT
<1>3. Base' = Base /\ nCounted' = nCounted /\ Base \in Nat
  <2>1. Base \in Nat /\ nCounted \in Nat
    BY Decoded DEF IndInv
  <2>2. /\ Base' = Base + Value(l) - Value(pc[t])
        /\ nCounted' = nCounted + Bit(l, Counting) - Bit(pc[t], Counting)
    BY WordMove
  <2>3. Bit(l, Counting) \in Int
    BY SMT DEF Bit
  <2> QED BY <1>2, <2>1, <2>2, <2>3, SMT
<1>4. /\ Readers' = Readers /\ Writers' = Writers /\ Waiters' = Waiters
      /\ Leaving' = Leaving /\ Holders' = Holders
  BY LabelSets DEF IndInv, TypeOK, Readers, Writers, Waiters, Leaving, Holders,
     Counting, Reading, Writing
<1>5. WordInv' /\ (Sig' <=> Sig)
  BY <1>3, WordMove, Decoded, Constants DEF IndInv, Sig
<1>6. OwnerInv'
  BY <1>4, <1>5 DEF IndInv, OwnerInv
<1>7. Weight <= Weight'
  BY <1>3, <1>4, Decoded, SMT DEF Weight, IndInv
<1> QED BY <1>4, <1>5, <1>6, <1>7

\* Such a step keeps the invariant: the failed fast paths of lock, lock_shared
\* and lock_upgrade, and lock_unlock when it returns.
LEMMA QuietStep ==
  ASSUME IndInv, NEW t \in Threads, NEW l \in Labels \ {"unlock_spin", "signal", "notify"},
         Goto(t, l), UNCHANGED <<m_value, waitVars>>,
         max' = max \/ max' = [max EXCEPT ![t] = 1],
         pc[t] \notin {"signal", "notify"},
         \/ pc[t] \in Reading /\ l \in Reading
         \/ pc[t] \notin Reading \union Counting /\ l \notin Reading \union Counting
  PROVE  IndInv'
<1>1. pc' = [pc EXCEPT ![t] = l]
  BY DEF Goto
<1>2. /\ WordInv' /\ OwnerInv' /\ (Sig' <=> Sig)
      /\ Weight <= Weight'
  BY <1>1, QuietMove
<1>3. pc[t] \notin Waiting /\ (l \in Passing => pc[t] \in Passing)
  BY LabelSets DEF Counting, Reading, Writing, Passing
<1> QED BY <1>2, <1>3, GotoStep

\* A thread that adds c_one owns the lock if the word was 0 and waits
\* otherwise: lock, imp_lock, imp_lock_shared, imp_lock_unlock.
LEMMA CountInStep ==
  ASSUME IndInv, NEW t \in Threads, NEW l \in Labels,
         pc[t] \in {"idle", "lock_spin", "shared_spin", "unlock_spin"},
         l \in Passing => pc[t] \in Passing,
         IF m_value = 0 THEN l \in Writing ELSE l \in Waiting,
         m_value' = m_value + c_one,
         Goto(t, l), UNCHANGED waitVars,
         max' = max \/ max' = [max EXCEPT ![t] = 1]
  PROVE  IndInv'
<1>1. pc' = [pc EXCEPT ![t] = l] /\ l \in Labels \ {"unlock_spin"}
  BY LabelSets DEF Goto, Writing
<1>2. pc[t] \in Labels \ (Reading \union Counting) /\ l \in Counting /\ l \notin Reading
  BY LabelSets DEF Labels, Counting, Writing, Reading
<1>3. Value(l) = c_one /\ Value(pc[t]) = 0
      /\ Bit(l, Counting) = 1 /\ Bit(pc[t], Counting) = 0
  BY <1>2, Values
<1>4. Base' = Base + c_one /\ nCounted' = nCounted + 1 /\ Base \in Nat
  <2>1. Base \in Nat /\ nCounted \in Nat
    BY Decoded DEF IndInv
  <2>2. /\ Base' = Base + Value(l) - Value(pc[t])
        /\ nCounted' = nCounted + Bit(l, Counting) - Bit(pc[t], Counting)
    BY <1>1, <1>2, WordMove
  <2> QED BY <1>3, <2>1, <2>2, SharedMutexAssumption, SMT
<1>5. WordInv' /\ (Sig' <=> Sig)
  <2>1. m_value' = IF Sig THEN Base' + c_sig ELSE Base'
    BY <1>4, Decoded, Constants, SharedMutexAssumption, SMT DEF IndInv
  <2> QED BY <1>1, <1>2, <2>1, WordMove
<1>6. Readers' = Readers /\ Leaving' = Leaving
  BY <1>1, <1>2, LabelSets DEF IndInv, TypeOK, Readers, Leaving, Counting, Writing
<1>7. OwnerInv'
  <2>1. CASE m_value = 0
    BY <2>1, <1>1, <1>5, <1>6, FreeWord, LabelSets, SMT
       DEF OwnerInv, IndInv, TypeOK, Writers, Waiters, Holders, Writing
  <2>2. CASE m_value # 0
    <3>1. Writers' = Writers /\ Holders' = Holders
      BY <2>2, <1>1, <1>2, <1>6, LabelSets, SMT DEF IndInv, TypeOK, Writers, Holders, Writing, Counting
    <3>2. Waiters' = Waiters \union {t}
      BY <2>2, <1>1 DEF IndInv, TypeOK, Waiters
    <3> QED BY <2>2, <3>1, <3>2, <1>5, <1>6, FreeWord DEF OwnerInv, IndInv, Holders
  <2> QED BY <2>1, <2>2
<1>8. Weight <= Weight'
  BY <1>4, <1>6, Decoded, SMT DEF Weight, IndInv
<1>9. pc[t] \notin Waiting /\ pc[t] # "notify"
  BY LabelSets
<1> QED BY <1>1, <1>5, <1>7, <1>8, <1>9, GotoStep

\* A thread that takes the notification bit off owns the lock: imp_wait, and
\* the thefts of imp_lock and imp_lock_shared.
LEMMA TakeBitStep ==
  ASSUME IndInv, NEW t \in Threads, NEW l \in Labels, Sig,
         \/ l \in {"writer", "reader"} /\ pc[t] \in {"lock_spin", "shared_spin"}
         \/ l \in Writing /\ pc[t] \in Waiting /\ old[t] = -1,
         l \in Passing => pc[t] \in Passing,
         m_value' = m_value - c_sig + Value(l) - Value(pc[t]),
         Goto(t, l), UNCHANGED <<waitVars, max>>
  PROVE  IndInv'
<1>1. pc' = [pc EXCEPT ![t] = l] /\ l \in Labels \ {"unlock_spin"}
  BY LabelSets DEF Goto, Writing
<1>2. Readers = {} /\ Writers = {} /\ Leaving = {} /\ nReaders < c_one - 1
  BY Decoded, SharedMutexAssumption, SMT DEF IndInv, OwnerInv
<1>3. m_value = Base + c_sig /\ Base \in Nat
  BY Decoded DEF IndInv
<1>4. Base' = Base + Value(l) - Value(pc[t])
  BY <1>1, <1>2, WordMove
<1>5. Value(l) \in Nat /\ Value(pc[t]) \in Nat
  BY Values, SharedMutexAssumption, SMT DEF IndInv, TypeOK
<1>6. WordInv' /\ ~Sig'
  <2>1. m_value' = Base'
    BY <1>3, <1>4, <1>5, Constants, SMT
  <2> QED BY <1>1, <1>2, <2>1, WordMove
<1>7. OwnerInv'
  BY <1>1, <1>2, <1>6, LabelSets, SMT
     DEF OwnerInv, IndInv, TypeOK, Readers, Writers, Leaving, Waiters, Holders, Reading, Writing
<1>8. Holders \intersect Holders' = {}
  BY <1>2 DEF Holders
<1>9. pc[t] # "notify" /\ (pc[t] \in Waiting => old[t] = -1)
  BY LabelSets
<1> QED BY <1>1, <1>6, <1>7, <1>8, <1>9, GotoStep

-----------------------------------------------------------------------------
\* lock_shared enters only beside other readers.
LEMMA LockSharedStep ==
  ASSUME IndInv, NEW t \in Threads, LockShared(t)
  PROVE  IndInv'
<1>1. /\ pc' = [pc EXCEPT ![t] = "reader"]
      /\ "reader" \in Labels \ {"unlock_spin"} /\ "reader" \in Reading
      /\ pc[t] \in Labels \ (Reading \union Counting)
  BY LabelSets DEF LockShared, Goto, Labels, Reading, Writing, Counting
<1>2. ~Sig /\ m_value = Base /\ nCounted = 0 /\ nReaders < c_one - 1 /\ Base \in Nat
  <2>1. /\ nReaders \in Nat /\ nCounted \in Nat /\ Base \in Nat
        /\ m_value = IF Sig THEN Base + c_sig ELSE Base
    BY Decoded DEF IndInv
  <2>2. /\ c_one * nCounted \in Nat
        /\ nCounted > 0 => c_one * nCounted >= c_one
    BY <2>1, Multiples
  <2>3. c_one <= c_sig
    <3>1. {} \subseteq Threads
      OBVIOUS
    <3>2. Cardinality({}) \in Nat /\ Cardinality({}) < Slots /\ Cardinality({}) = 0
      BY <3>1, SubsetCount
    <3> QED BY <3>2, Multiples, SharedMutexAssumption, Constants, SMT
  <2>4. m_value < c_one - 1
    BY DEF LockShared, Sharable
  <2>5. ~Sig
    BY <2>1, <2>3, <2>4, Constants, SharedMutexAssumption, SMT DEF Sig
  <2> QED BY <2>1, <2>2, <2>4, <2>5, SharedMutexAssumption, SMT DEF Base
<1>3. Value("reader") = 1 /\ Value(pc[t]) = 0
      /\ Bit("reader", Counting) = 0 /\ Bit(pc[t], Counting) = 0
  BY <1>1, Values
<1>4. Base' = Base + 1 /\ nCounted' = nCounted
  <2>1. /\ Base' = Base + Value("reader") - Value(pc[t])
        /\ nCounted' = nCounted + Bit("reader", Counting) - Bit(pc[t], Counting)
    BY <1>1, <1>2, WordMove
  <2> QED BY <1>2, <1>3, <2>1, SMT
<1>5. WordInv' /\ ~Sig'
  <2>1. m_value' = Base'
    BY <1>2, <1>4 DEF LockShared
  <2> QED BY <1>1, <1>2, <2>1, WordMove
<1>6. Writers = {} /\ Waiters = {} /\ Leaving = {}
  <2>1. Counted = {}
    BY <1>2, Decoded DEF IndInv
  <2>2. Writers = {} /\ Waiters = {}
    BY <2>1 DEF Counted, Counting, Writers, Waiters
  <2> QED BY <2>2 DEF IndInv, OwnerInv
<1>7. OwnerInv'
  BY <1>1, <1>5, <1>6, LabelSets
     DEF OwnerInv, IndInv, TypeOK, Readers, Writers, Leaving, Waiters, Holders, Reading, Writing
<1>8. Weight <= Weight'
  <2>1. Readers' # {}
    BY <1>1 DEF IndInv, TypeOK, Readers
  <2> QED BY <2>1, <1>2, <1>4, SMT DEF Weight
<1>9. pc[t] # "notify" /\ pc[t] \notin Waiting /\ "reader" \notin Passing
  BY LabelSets DEF LockShared, Passing
<1> QED BY <1>1, <1>5, <1>7, <1>8, <1>9, GotoStep DEF LockShared

\* lock_downgrade turns the writer into the only reader.
LEMMA LockDowngradeStep ==
  ASSUME IndInv, NEW t \in Threads, LockDowngrade(t)
  PROVE  IndInv'
<1>1. /\ pc' = [pc EXCEPT ![t] = "reader"]
      /\ "reader" \in Labels \ {"unlock_spin"} /\ "reader" \in Reading
      /\ pc[t] \in Counting /\ pc[t] \in Writing
  BY LabelSets DEF LockDowngrade, Goto, Labels, Reading, Writing, Counting
<1>2. t \in Writers
  BY <1>1 DEF Writers
<1>3. Readers = {} /\ ~Sig /\ nReaders = 0 /\ m_value = Base /\ Base \in Nat /\ nCounted \in Nat
  BY <1>2, Decoded DEF IndInv, OwnerInv
<1>4. nReaders < c_one - 1
  BY <1>3, SharedMutexAssumption, SMT
<1>5. Value("reader") = 1 /\ Value(pc[t]) = c_one
      /\ Bit("reader", Counting) = 0 /\ Bit(pc[t], Counting) = 1
  BY <1>1, Values
<1>6. Base' = Base + 1 - c_one /\ nCounted' = nCounted - 1
  <2>1. /\ Base' = Base + Value("reader") - Value(pc[t])
        /\ nCounted' = nCounted + Bit("reader", Counting) - Bit(pc[t], Counting)
    BY <1>1, <1>4, WordMove
  <2> QED BY <1>3, <1>5, <2>1, SMT
<1>7. WordInv' /\ ~Sig'
  <2>1. m_value' = Base'
    BY <1>3, <1>6, SharedMutexAssumption, SMT DEF LockDowngrade
  <2> QED BY <1>1, <1>4, <2>1, WordMove
<1>8. OwnerInv'
  BY <1>1, <1>2, <1>3, <1>7, LabelSets, SMT
     DEF OwnerInv, IndInv, TypeOK, Readers, Writers, Leaving, Waiters, Holders, Reading, Writing
<1>9. Weight <= Weight'
  <2>1. Readers' # {}
    BY <1>1 DEF IndInv, TypeOK, Readers
  <2> QED BY <2>1, <1>3, <1>6, SMT DEF Weight
<1>10. pc[t] # "notify" /\ pc[t] \notin Waiting /\ "reader" \notin Passing
  BY LabelSets DEF LockDowngrade, Passing
<1> QED BY <1>1, <1>7, <1>8, <1>9, <1>10, GotoStep DEF LockDowngrade

\* A reader that becomes a writer is the last one, or waits: lock_upgrade.
LEMMA ConvertStep ==
  ASSUME IndInv, NEW t \in Threads, NEW l \in {"writer", "upgrade_wait"},
         pc[t] \in Reading,
         l = "writer" <=> nReaders = 1,
         m_value' = m_value + (c_one - 1),
         Goto(t, l), UNCHANGED <<waitVars, max>>
  PROVE  IndInv'
<1>1. /\ pc' = [pc EXCEPT ![t] = l]
      /\ l \in Labels \ {"unlock_spin"} /\ l \in Counting /\ l \notin Reading
  BY LabelSets DEF Goto, Labels, Reading, Writing, Counting
<1>2. t \in Readers
  BY DEF Readers
<1>3. /\ Writers = {} /\ Leaving = {} /\ ~Sig
      /\ nReaders \in Nat /\ nCounted \in Nat /\ Base \in Nat /\ m_value = Base
  BY <1>2, Decoded DEF IndInv, OwnerInv
<1>4. Value(l) = c_one /\ Value(pc[t]) = 1
      /\ Bit(l, Counting) = 1 /\ Bit(pc[t], Counting) = 0
      /\ Bit(l, Reading) = 0 /\ Bit(pc[t], Reading) = 1
  BY <1>1, Values
<1>5. Base' = Base + c_one - 1 /\ nCounted' = nCounted + 1 /\ nReaders' = nReaders - 1
  <2>1. /\ Base' = Base + Value(l) - Value(pc[t])
        /\ nCounted' = nCounted + Bit(l, Counting) - Bit(pc[t], Counting)
        /\ nReaders' = nReaders + Bit(l, Reading) - Bit(pc[t], Reading)
    BY <1>1, WordMove
  <2> QED BY <1>3, <1>4, <2>1, SharedMutexAssumption, SMT
<1>6. WordInv' /\ ~Sig'
  <2>1. m_value' = Base'
    BY <1>3, <1>5, SharedMutexAssumption
  <2> QED BY <1>1, <2>1, WordMove
<1>7. l = "writer" <=> Readers' = {}
  <2>1. nReaders' = 0 <=> Readers' = {}
    BY <1>1, WordMove
  <2> QED BY <2>1, <1>3, <1>5, SMT
<1>8. OwnerInv'
  BY <1>1, <1>3, <1>6, <1>7, LabelSets, SMT
     DEF OwnerInv, IndInv, TypeOK, Writers, Leaving, Waiters, Holders, Reading, Writing
<1>9. Weight <= Weight'
  BY <1>3, <1>5, SMT DEF Weight
<1>10. pc[t] # "notify" /\ pc[t] \notin Waiting /\ l \notin Passing
  BY LabelSets DEF Reading, Passing
<1> QED BY <1>1, <1>6, <1>8, <1>9, <1>10, GotoStep

\* imp_signal hands the lock over to the waiters.
LEMMA SignalStep ==
  ASSUME IndInv, NEW t \in Threads, Signal(t)
  PROVE  IndInv'
<1>1. /\ pc' = [pc EXCEPT ![t] = "notify"]
      /\ "notify" \in Labels \ (Reading \union Counting)
      /\ pc[t] \in Labels \ (Reading \union Counting)
  BY LabelSets DEF Signal, Goto, Labels, Reading, Writing, Counting
<1>2. t \in Leaving
  BY DEF Signal, Leaving
<1>3. /\ Readers = {} /\ Writers = {} /\ Waiters # {} /\ ~Sig
      /\ \A u \in Leaving : u = t
  <2>1. t \notin Writers
    BY DEF Signal, Writers, Writing
  <2> QED BY <1>2, <2>1, SMT DEF IndInv, OwnerInv
<1>4. m_value = Base /\ Base \in Nat
  BY <1>3, Decoded DEF IndInv
<1>5. Base' = Base
  <2>1. Base' = Base + Value("notify") - Value(pc[t])
    BY <1>1, WordMove
  <2>2. Value("notify") = 0 /\ Value(pc[t]) = 0
    BY <1>1, Values
  <2> QED BY <1>4, <2>1, <2>2, SMT
<1>6. WordInv' /\ Sig'
  <2>1. m_value' = Base' + c_sig
    BY <1>4, <1>5 DEF Signal
  <2> QED BY <1>1, <2>1, WordMove
<1>7. /\ Readers' = {} /\ Writers' = {} /\ Leaving' = {} /\ Waiters' = Waiters
  BY <1>1, <1>3, LabelSets
     DEF IndInv, TypeOK, Readers, Writers, Leaving, Waiters, Counting, Signal
<1>8. OwnerInv'
  BY <1>3, <1>6, <1>7 DEF OwnerInv
<1>9. Holders \intersect Holders' = {}
  BY <1>3 DEF Holders
<1>10. pc[t] # "notify" /\ pc[t] \notin Waiting
       /\ "notify" \notin Passing /\ "notify" # "unlock_spin"
  BY LabelSets DEF Signal, Passing
<1> QED BY <1>1, <1>6, <1>8, <1>9, <1>10, GotoStep DEF Signal

\* unlock signals exactly when threads wait.
LEMMA UnlockStep ==
  ASSUME IndInv, NEW t \in Threads, Unlock(t)
  PROVE  IndInv'
<1> DEFINE l == IF m_value # c_one THEN "signal" ELSE "idle"
<1>1. /\ pc' = [pc EXCEPT ![t] = l] /\ l \in {"signal", "idle"}
      /\ pc[t] \in Writing /\ pc[t] \in Counting
  BY DEF Unlock, AfterUnlock, Goto, Writing, Counting
<1>2. l \in Labels \ (Reading \union Counting) /\ l # "unlock_spin"
  BY <1>1, LabelSets DEF Labels, Reading, Writing, Counting
<1>3. t \in Writers
  BY <1>1 DEF Writers
<1>4. Readers = {} /\ Leaving = {} /\ ~Sig /\ (\A u \in Writers : u = t)
  <2>1. t \notin Leaving
    BY <1>1 DEF Leaving, Writing
  <2> QED BY <1>3, <2>1, SMT DEF IndInv, OwnerInv
<1>5. /\ m_value = Base /\ Base \in Nat /\ nReaders = 0 /\ nCounted \in Nat
      /\ Base = nReaders + c_one * nCounted
  BY <1>4, Decoded DEF IndInv, Base
<1>6. Base' = Base - c_one /\ nCounted' = nCounted - 1
  <2>1. /\ Base' = Base + Value(l) - Value(pc[t])
        /\ nCounted' = nCounted + Bit(l, Counting) - Bit(pc[t], Counting)
    BY <1>1, <1>2, WordMove
  <2>2. /\ Value(l) = 0 /\ Value(pc[t]) = c_one
        /\ Bit(l, Counting) = 0 /\ Bit(pc[t], Counting) = 1
    BY <1>1, <1>2, Values
  <2> QED BY <1>5, <2>1, <2>2, SharedMutexAssumption, SMT
<1>7. WordInv' /\ ~Sig'
  <2>1. m_value' = Base'
    BY <1>5, <1>6 DEF Unlock
  <2> QED BY <1>1, <1>2, <2>1, WordMove
<1>8. Readers' = {} /\ Writers' = {}
  BY <1>1, <1>2, <1>3, <1>4 DEF IndInv, TypeOK, Readers, Writers, Counting
<1>9. l = "signal" <=> Waiters' # {}
  <2>1. nCounted' \in Nat /\ (nCounted' = 0 <=> Counted' = {})
    BY <1>1, <1>2, WordMove
  <2>2. Counted' = Waiters'
    BY <1>8 DEF Counted, Waiters, Writers, Counting
  <2>3. m_value = c_one <=> nCounted = 1
    <3>1. c_one * nCounted = c_one <=> nCounted = 1
      BY <1>5, SharedMutexAssumption, SMT
    <3>2. m_value = c_one * nCounted
      BY <1>5, Multiples, SMT
    <3> QED BY <3>1, <3>2
  <2> QED BY <2>1, <2>2, <2>3, <1>5, <1>6, SMT
<1>10. \A u \in Leaving' : u = t
  BY <1>1, <1>4 DEF IndInv, TypeOK, Leaving
<1>11. l = "signal" <=> t \in Leaving'
  BY <1>1 DEF IndInv, TypeOK, Leaving
<1>12. OwnerInv'
  BY <1>7, <1>8, <1>9, <1>10, <1>11 DEF OwnerInv
<1>13. Holders \intersect Holders' = {}
  BY <1>8 DEF Holders
<1>14. pc[t] # "notify" /\ pc[t] \notin Waiting /\ l \notin Passing
  BY <1>1, LabelSets DEF Writing, Passing
<1>15. Goto(t, l) /\ UNCHANGED <<waitVars, max>>
  BY DEF Unlock, AfterUnlock
<1> HIDE DEF l
<1> QED BY <1>2, <1>7, <1>12, <1>13, <1>14, <1>15, GotoStep

\* unlock_shared signals exactly when it is the last reader and threads wait.
LEMMA UnlockSharedStep ==
  ASSUME IndInv, NEW t \in Threads, UnlockShared(t)
  PROVE  IndInv'
<1> DEFINE l == IF LastReader THEN "signal" ELSE "idle"
<1>1. /\ pc' = [pc EXCEPT ![t] = l] /\ l \in {"signal", "idle"}
      /\ pc[t] \in Reading
  BY DEF UnlockShared, Goto, Reading
<1>2. l \in Labels \ (Reading \union Counting) /\ l # "unlock_spin"
  BY <1>1, LabelSets DEF Labels, Reading, Writing, Counting
<1>3. t \in Readers
  BY <1>1 DEF Readers
<1>4. Writers = {} /\ Leaving = {} /\ ~Sig
  BY <1>3 DEF IndInv, OwnerInv
<1>5. /\ m_value = Base /\ Base \in Nat /\ nReaders \in Nat /\ nCounted \in Nat
      /\ Base = nReaders + c_one * nCounted /\ nReaders # 0 /\ nReaders < c_one
  BY <1>3, <1>4, Decoded DEF IndInv, Base, WordInv
<1>6. Base' = Base - 1 /\ nCounted' = nCounted /\ nReaders' = nReaders - 1
  <2>1. /\ Base' = Base + Value(l) - Value(pc[t])
        /\ nCounted' = nCounted + Bit(l, Counting) - Bit(pc[t], Counting)
        /\ nReaders' = nReaders + Bit(l, Reading) - Bit(pc[t], Reading)
    BY <1>1, <1>2, WordMove
  <2>2. /\ Value(l) = 0 /\ Value(pc[t]) = 1
        /\ Bit(l, Counting) = 0 /\ Bit(pc[t], Counting) = 0
        /\ Bit(l, Reading) = 0 /\ Bit(pc[t], Reading) = 1
    BY <1>1, <1>2, Values
  <2> QED BY <1>5, <2>1, <2>2, SMT
<1>7. WordInv' /\ ~Sig'
  <2>1. m_value' = Base'
    BY <1>5, <1>6 DEF UnlockShared
  <2> QED BY <1>1, <1>2, <2>1, WordMove
<1>8. Writers' = {} /\ Waiters' = Waiters
  BY <1>1, <1>2, <1>4, LabelSets
     DEF IndInv, TypeOK, Writers, Waiters, Counting, Reading, Writing
<1>9. l = "signal" <=> Waiters # {} /\ Readers' = {}
  <2>1. nReaders' = 0 <=> Readers' = {}
    BY <1>1, <1>2, WordMove
  <2>2. nCounted = 0 <=> Waiters = {}
    <3>1. Counted = Waiters
      BY <1>4 DEF Counted, Waiters, Writers, Counting
    <3> QED BY <3>1, Decoded DEF IndInv
  <2>3. (m_value - 1) % c_one = nReaders - 1
    <3>1. m_value - 1 = (nReaders - 1) + c_one * nCounted
      BY <1>5, Multiples, SMT
    <3>2. nReaders - 1 \in 0 .. c_one - 1
      BY <1>5, SharedMutexAssumption, SMT
    <3> QED BY <3>1, <3>2, <1>5, Quotients, SMT
  <2>4. m_value >= c_one <=> nCounted # 0
    <3>1. /\ c_one * nCounted \in Nat
          /\ nCounted > 0 => c_one * nCounted >= c_one
          /\ nCounted = 0 => c_one * nCounted = 0
      BY <1>5, Multiples
    <3> QED BY <3>1, <1>5, SharedMutexAssumption, SMT
  <2> QED BY <2>1, <2>2, <2>3, <2>4, <1>5, <1>6 DEF LastReader
<1>10. \A u \in Leaving' : u = t
  BY <1>1, <1>4 DEF IndInv, TypeOK, Leaving
<1>11. l = "signal" <=> t \in Leaving'
  BY <1>1 DEF IndInv, TypeOK, Leaving
<1>12. OwnerInv'
  BY <1>7, <1>8, <1>9, <1>10, <1>11 DEF OwnerInv, Holders
<1>13. Holders \intersect Holders' # {} => Weight <= Weight'
  BY <1>3, <1>5, <1>6, <1>8, SMT DEF Weight, Holders
<1>14. pc[t] # "notify" /\ pc[t] \notin Waiting /\ l \notin Passing
  BY <1>1, LabelSets DEF Reading, Passing
<1>15. Goto(t, l) /\ UNCHANGED <<waitVars, max>>
  BY DEF UnlockShared
<1> HIDE DEF l
<1> QED BY <1>2, <1>7, <1>12, <1>13, <1>14, <1>15, GotoStep

\* notify_one wakes a waiter if all of them sleep.
LEMMA NotifyStep ==
  ASSUME IndInv, NEW t \in Threads, Notify(t)
  PROVE  IndInv'
<1>1. /\ pc' = [pc EXCEPT ![t] = "idle"] /\ m_value' = m_value
      /\ "idle" \in Labels \ {"signal", "unlock_spin"} /\ pc[t] = "notify"
      /\ pc[t] \notin Reading \union Counting /\ "idle" \notin Reading \union Counting
  BY LabelSets DEF Notify, Goto, Labels, Counting, Reading, Writing
<1>2. /\ WordInv' /\ OwnerInv' /\ (Sig' <=> Sig)
      /\ Weight <= Weight' /\ Waiters' = Waiters
  BY <1>1, QuietMove
<1>3. old' \in [Threads -> -1 .. c_sig - 1] /\ asleep' \subseteq Threads
  BY Constants, SMT DEF IndInv, TypeOK, Notify, waitVars
<1>4. TypeOK' /\ SeenInv'
  BY <1>1, <1>2, <1>3, GotoSeen DEF Notify, Passing
<1>5. WakeInv'
  <2>1. Sig => Waiters # {}
    BY DEF IndInv, OwnerInv
  <2>2. asleep \subseteq Waiters
    BY DEF IndInv, TypeOK, WakeInv
  <2>3. CASE asleep = {} /\ UNCHANGED waitVars
    BY <2>1, <2>3, <1>2 DEF IndInv, WakeInv, waitVars
  <2>4. ASSUME NEW u \in asleep, asleep' = asleep \ {u}, old' = [old EXCEPT ![u] = -1]
        PROVE  WakeInv'
    BY <2>2, <2>4, <1>2 DEF IndInv, TypeOK, WakeInv
  <2> QED BY <2>3, <2>4 DEF Notify
<1> QED BY <1>2, <1>4, <1>5 DEF IndInv

\* Steps of imp_wait that touch neither the word nor a label.
LEMMA StillStep ==
  ASSUME IndInv, UNCHANGED <<m_value, pc, unlockVars>>,
         old' \in [Threads -> -1 .. c_sig - 1], asleep' \subseteq Threads,
         WakeInv'
  PROVE  IndInv'
BY Constants DEF IndInv, TypeOK, WordInv, OwnerInv, SeenInv, unlockVars, Sig, Base, Weight,
   nReaders, nCounted, Readers, Writers, Waiters, Holders, Leaving, Counted

\* imp_wait, the notification bit is not set.
LEMMA WaitFindStep ==
  ASSUME IndInv, NEW t \in Threads, WaitFind(t)
  PROVE  IndInv'
<1>1. old' \in [Threads -> -1 .. c_sig - 1] /\ asleep' \subseteq Threads
  BY Constants, SMT DEF IndInv, TypeOK, WaitFind
<1>2. WakeInv'
  BY DEF IndInv, TypeOK, WaitFind, WakeInv, Waiters, Sig
<1> QED BY <1>1, <1>2, StillStep DEF WaitFind

\* imp_wait goes to sleep only on a word without the notification bit.
LEMMA WaitSleepStep ==
  ASSUME IndInv, NEW t \in Threads, WaitSleep(t)
  PROVE  IndInv'
<1>1. old' \in [Threads -> -1 .. c_sig - 1] /\ asleep' \subseteq Threads
  BY Constants, SMT DEF IndInv, TypeOK, WaitSleep
<1>2. /\ UNCHANGED <<m_value, pc>>
      /\ Waiters' = Waiters /\ Notifying' = Notifying /\ (Sig' <=> Sig)
  BY Constants DEF WaitSleep, Waiters, Notifying, Sig
<1>3. WakeInv'
  <2>1. CASE Still(t)
    <3>1. ~Sig
      BY <2>1, Constants, SMT DEF Still, IndInv, TypeOK, Sig
    <3> QED BY <3>1, <2>1, <1>2 DEF IndInv, TypeOK, WaitSleep, WakeInv
  <2>2. CASE ~Still(t)
    BY <2>2, <1>2, SMT DEF IndInv, TypeOK, WaitSleep, WakeInv
  <2> QED BY <2>1, <2>2
<1> QED BY <1>1, <1>3, StillStep DEF WaitSleep

\* While somebody has the lock, the bit is not set and the word is not 0.
LEMMA HeldWeight ==
  ASSUME IndInv, Holders # {}
  PROVE  1 <= Weight /\ nCounted <= Weight /\ ~Sig
<1>1. nCounted \in Nat /\ (nCounted = 0 <=> Counted = {})
  BY Decoded DEF IndInv
<1>2. Readers = {} => Counted # {}
  BY DEF Holders, Writers, Counted, Counting
<1> QED BY <1>1, <1>2, SMT DEF Weight, IndInv, OwnerInv, Holders

\* lock_unlock begins.
LEMMA LockUnlockStep ==
  ASSUME IndInv, NEW t \in Threads, LockUnlock(t)
  PROVE  IndInv'
<1>1. /\ pc' = [pc EXCEPT ![t] = "unlock_spin"] /\ m_value' = m_value
      /\ "unlock_spin" \in Labels \ {"signal"} /\ pc[t] = "idle"
      /\ pc[t] \notin Reading \union Counting
      /\ "unlock_spin" \notin Reading \union Counting
  BY LabelSets DEF LockUnlock, Labels, Counting, Reading, Writing
<1>2. /\ WordInv' /\ OwnerInv' /\ (Sig' <=> Sig)
      /\ Weight <= Weight' /\ Waiters' = Waiters /\ Holders' = Holders
  BY <1>1, QuietMove
<1>3. TypeOK'
  <2>1. Holders \subseteq Threads
    BY DEF Holders, Readers, Writers
  <2> QED BY <1>1, <2>1, Constants DEF IndInv, TypeOK, LockUnlock, waitVars
<1>4. WakeInv'
  BY <1>1, <1>2 DEF IndInv, TypeOK, WakeInv, LockUnlock, waitVars, Notifying
<1>5. SeenInv'
  <2> SUFFICES ASSUME NEW u \in Threads
               PROVE  /\ seen'[u] \subseteq Holders'
                      /\ pc'[u] \in Passing => u \notin seen'[u]
                      /\ pc'[u] = "unlock_spin" /\ seen'[u] # {} => max'[u] <= Weight'
    BY DEF SeenInv
  <2>1. Weight \in Nat /\ Weight' \in Nat
    <3>1. Counted \subseteq Threads /\ Counted' \subseteq Threads
      BY DEF Counted
    <3> QED BY <3>1, SubsetCount, SMT DEF Weight, nCounted
  <2>2. CASE u = t
    <3>1. t \notin Holders
      BY <1>1 DEF Holders, Readers, Writers, Counting
    <3>2. seen'[u] = Holders /\ max'[u] = 1
      BY <2>2 DEF LockUnlock, IndInv, TypeOK
    <3> QED BY <3>1, <3>2, <2>1, <2>2, <1>2, HeldWeight, SMT
  <2>3. CASE u # t
    <3>1. seen'[u] = seen[u] /\ max'[u] = max[u] /\ pc'[u] = pc[u] /\ max[u] \in Nat
      BY <2>3 DEF LockUnlock, IndInv, TypeOK
    <3> QED BY <3>1, <2>1, <1>2, SMT DEF IndInv, SeenInv
  <2> QED BY <2>2, <2>3
<1> QED BY <1>2, <1>3, <1>4, <1>5 DEF IndInv

\* One turn of the loop of imp_lock_unlock.
LEMMA LockUnlockSpinStep ==
  ASSUME IndInv, NEW t \in Threads, LockUnlockSpin(t)
  PROVE  IndInv'
<1>1. CASE Caught(t)
  <2>1. /\ "idle" \in Labels \ {"unlock_spin", "signal", "notify"}
        /\ "idle" \notin Reading \union Counting
        /\ pc[t] \notin Reading \union Counting
        /\ pc[t] \notin {"signal", "notify"}
    BY LabelSets DEF LockUnlockSpin, Labels, Reading, Writing, Counting
  <2> QED BY <1>1, <2>1, QuietStep DEF LockUnlockSpin
<1>2. CASE ~Caught(t)
  <2>1. /\ max' = [max EXCEPT ![t] = m_value \div c_one]
        /\ UNCHANGED <<m_value, pc, seen, old, asleep>>
    BY <1>2 DEF LockUnlockSpin, waitVars
  <2>2. m_value \div c_one \in Nat
    BY SharedMutexAssumption, Constants, SMT DEF IndInv, TypeOK
  <2>3. TypeOK'
    BY <2>1, <2>2, Constants DEF IndInv, TypeOK
  <2>4. WordInv' /\ OwnerInv' /\ WakeInv' /\ Holders' = Holders /\ Weight' = Weight
    BY <2>1, Constants DEF IndInv, WordInv, OwnerInv, WakeInv, Sig, Base, Weight,
       nReaders, nCounted, Readers, Writers, Waiters, Holders, Leaving, Notifying, Counted
  <2>5. seen[t] # {} => m_value \div c_one <= Weight
    BY HeldWeight, Decoded DEF IndInv, SeenInv
  <2>6. SeenInv'
    BY <2>1, <2>4, <2>5 DEF IndInv, TypeOK, SeenInv
  <2> QED BY <2>3, <2>4, <2>6 DEF IndInv
<1> QED BY <1>1, <1>2

\* Every step keeps the inductive invariant.
LEMMA StepInv ==
  ASSUME IndInv, [Next]_vars
  PROVE  IndInv'
<1>1. CASE UNCHANGED vars
  <2>1. old' \in [Threads -> -1 .. c_sig - 1] /\ asleep' \subseteq Threads
    BY <1>1 DEF vars, waitVars, IndInv, TypeOK
  <2>2. WakeInv'
    BY <1>1, Constants DEF vars, waitVars, IndInv, WakeInv, Waiters, Notifying, Sig
  <2> QED BY <1>1, <2>1, <2>2, StillStep DEF vars
<1>2. ASSUME NEW t \in Threads, Request(t) \/ Step(t)
      PROVE  IndInv'
  <2>1. CASE LockFree(t)
    <3>1. "writer" \in Labels /\ "writer" \in Writing /\ "writer" \notin Passing
      BY DEF Labels, Writing, Passing
    <3>2. m_value' = m_value + c_one
      BY <2>1, SharedMutexAssumption, SMT DEF LockFree
    <3> QED BY <2>1, <3>1, <3>2, CountInStep DEF LockFree
  <2>2. CASE LockBusy(t) \/ LockSharedBusy(t)
    <3>1. \A l \in {"idle", "lock_spin", "shared_spin"} :
            /\ l \in Labels \ {"unlock_spin", "signal", "notify"}
            /\ l \notin Reading \union Counting
      BY LabelSets DEF Labels, Reading, Writing, Counting
    <3> QED BY <2>2, <3>1, QuietStep DEF LockBusy, LockSharedBusy
  <2>3. CASE LockSteal(t) \/ LockSharedSteal(t)
    <3>1. Sig
      BY <2>3, Decoded DEF LockSteal, LockSharedSteal, IndInv
    <3>2. /\ \A l \in {"writer", "reader"} : l \in Labels /\ l \notin Passing
          /\ Value("writer") = c_one /\ Value("reader") = 1 /\ Value(pc[t]) = 0
      <4>1. /\ pc[t] \in Labels \ (Reading \union Counting)
            /\ "writer" \in Counting /\ "reader" \in Reading
        BY <2>3, LabelSets DEF LockSteal, LockSharedSteal, Labels, Reading, Writing, Counting
      <4> QED BY <4>1, Values DEF Labels, Reading, Writing, Passing
    <3>3. m_value \in Int
      BY SMT DEF IndInv, TypeOK
    <3>4. CASE LockSteal(t)
      <4>1. m_value' = m_value - c_sig + Value("writer") - Value(pc[t])
        BY <3>2, <3>3, <3>4, Constants, SharedMutexAssumption, SMT DEF LockSteal
      <4> QED BY <3>1, <3>2, <3>4, <4>1, TakeBitStep DEF LockSteal
    <3>5. CASE LockSharedSteal(t)
      <4>1. m_value' = m_value - c_sig + Value("reader") - Value(pc[t])
        BY <3>2, <3>3, <3>5, Constants, SMT DEF LockSharedSteal
      <4> QED BY <3>1, <3>2, <3>5, <4>1, TakeBitStep DEF LockSharedSteal
    <3> QED BY <2>3, <3>4, <3>5
  <2>4. CASE LockCount(t)
    <3> DEFINE l == IF m_value = 0 THEN "writer" ELSE "lock_wait"
    <3>1. l \in Labels /\ l \notin Passing
      BY LabelSets DEF Labels, Writing, Passing
    <3>2. IF m_value = 0 THEN l \in Writing ELSE l \in Waiting
      BY LabelSets DEF Writing
    <3>3. Goto(t, l)
      BY <2>4 DEF LockCount
    <3> HIDE DEF l
    <3> QED BY <2>4, <3>1, <3>2, <3>3, CountInStep DEF LockCount
  <2>5. CASE LockSharedCount(t)
    <3> DEFINE l == IF m_value = 0 THEN "downgrade" ELSE "shared_wait"
    <3>1. l \in Labels /\ l \notin Passing
      BY LabelSets DEF Labels, Writing, Passing
    <3>2. IF m_value = 0 THEN l \in Writing ELSE l \in Waiting
      BY LabelSets DEF Writing
    <3>3. Goto(t, l)
      BY <2>5 DEF LockSharedCount
    <3> HIDE DEF l
    <3> QED BY <2>5, <3>1, <3>2, <3>3, CountInStep DEF LockSharedCount
  <2>6. CASE LockUnlockCount(t)
    <3> DEFINE l == IF m_value = 0 THEN "unlock" ELSE "unlock_wait"
    <3>1. l \in Labels /\ pc[t] \in Passing
      BY <2>6, LabelSets DEF Labels, Writing, Passing, LockUnlockCount
    <3>2. IF m_value = 0 THEN l \in Writing ELSE l \in Waiting
      BY LabelSets DEF Writing
    <3>3. Goto(t, l)
      BY <2>6 DEF LockUnlockCount
    <3> HIDE DEF l
    <3> QED BY <2>6, <3>1, <3>2, <3>3, CountInStep DEF LockUnlockCount
  <2>7. CASE LockUpgrade(t)
    <3>1. nReaders = 1
      <4>1. t \in Readers
        BY <2>7 DEF LockUpgrade, Readers
      <4>2. /\ ~Sig /\ m_value = nReaders + c_one * nCounted
            /\ nReaders \in Nat /\ nCounted \in Nat /\ nReaders # 0 /\ nReaders < c_one
        BY <4>1, Decoded DEF IndInv, OwnerInv, WordInv, Base
      <4>3. c_one * nCounted \in Nat /\ c_one * (nCounted + 1) = c_one * nCounted + c_one
        BY <4>2, Multiples
      <4>4. /\ m_value + c_one - 1 = (nReaders - 1) + c_one * (nCounted + 1)
            /\ nReaders - 1 \in 0 .. c_one - 1 /\ nCounted + 1 \in Nat
        BY <4>2, <4>3, SharedMutexAssumption, SMT
      <4>5. (m_value + c_one - 1) % c_one = nReaders - 1
        BY <4>4, Quotients
      <4> QED BY <2>7, <4>2, <4>5, SMT DEF LockUpgrade
    <3> QED BY <2>7, <3>1, ConvertStep DEF LockUpgrade
  <2>8. CASE LockUpgradeBusy(t)
    <3>1. /\ "upgrade_spin" \in Labels \ {"unlock_spin", "signal", "notify"}
          /\ "upgrade_spin" \in Reading /\ "reader" \in Reading
      BY DEF Labels, Reading
    <3> QED BY <2>8, <3>1, QuietStep DEF LockUpgradeBusy
  <2>9. CASE LockUpgradeCount(t)
    <3>1. m_value % c_one = nReaders
      BY Decoded DEF IndInv
    <3> DEFINE l == IF m_value % c_one = 1 THEN "writer" ELSE "upgrade_wait"
    <3>2. /\ l \in {"writer", "upgrade_wait"} /\ (l = "writer" <=> nReaders = 1)
          /\ Goto(t, l) /\ pc[t] \in Reading
      BY <2>9, <3>1 DEF LockUpgradeCount, Reading
    <3> HIDE DEF l
    <3> QED BY <2>9, <3>2, ConvertStep DEF LockUpgradeCount
  <2>10. CASE WaitTake(t)
    <3> DEFINE l == AfterWait[pc[t]]
    <3>1. /\ l \in Writing /\ pc[t] \in Waiting /\ l \in Labels
          /\ l \in Passing => pc[t] \in Passing
      BY <2>10, LabelSets DEF WaitTake, AfterWait, Passing, Labels, Writing
    <3>2. Value(l) = c_one /\ Value(pc[t]) = c_one
      BY <3>1, Values DEF Counting
    <3>3. m_value' = m_value - c_sig + Value(l) - Value(pc[t])
      BY <2>10, <3>2, Constants, SharedMutexAssumption, SMT DEF WaitTake, IndInv, TypeOK
    <3>4. Goto(t, l)
      BY <2>10 DEF WaitTake
    <3> HIDE DEF l
    <3> QED BY <2>10, <3>1, <3>3, <3>4, TakeBitStep DEF WaitTake, Sig
  <2> QED
    BY <1>2, <2>1, <2>2, <2>3, <2>4, <2>5, <2>6, <2>7, <2>8, <2>9, <2>10,
       LockSharedStep, LockDowngradeStep, WaitFindStep, WaitSleepStep, SignalStep, NotifyStep,
       UnlockStep, UnlockSharedStep, LockUnlockStep, LockUnlockSpinStep
       DEF Request, Step
<1> QED BY <1>1, <1>2 DEF Next

-----------------------------------------------------------------------------
\* The inductive invariant holds in every state of every lock, for any number
\* of threads below Slots and any reader limit.
THEOREM Invariance == Spec => []IndInv
<1>1. Init => IndInv
  <2> SUFFICES ASSUME Init
               PROVE  IndInv
    OBVIOUS
  <2>1. "idle" \in Labels /\ "idle" \notin Reading \union Counting
    BY LabelSets DEF Labels, Counting, Reading, Writing
  <2>2. /\ Readers = {} /\ Counted = {} /\ Writers = {} /\ Waiters = {} /\ Leaving = {}
        /\ Holders = {}
    BY <2>1 DEF Init, Readers, Counted, Writers, Waiters, Leaving, Holders, Counting
  <2>3. nReaders = 0 /\ nCounted = 0
    BY <2>2, FS_EmptySet DEF nReaders, nCounted
  <2>4. WordInv /\ ~Sig
    BY <2>3, Multiples, Constants, SharedMutexAssumption, SMT DEF Init, WordInv, Base, Sig
  <2>5. TypeOK
    BY <2>1, Constants, SMT DEF Init, TypeOK
  <2>6. OwnerInv
    BY <2>2, <2>4 DEF OwnerInv
  <2>7. WakeInv
    BY <2>4 DEF Init, WakeInv
  <2>8. SeenInv
    BY DEF Init, SeenInv
  <2> QED BY <2>4, <2>5, <2>6, <2>7, <2>8 DEF IndInv
<1>2. IndInv /\ [Next]_vars => IndInv'
  BY StepInv
<1> QED BY <1>1, <1>2, PTL DEF Spec

\* The word never reaches c_err and never falls below 0: the assertions
\* "shared_mutex underflow" and "shared_mutex overflow" never fail.
THEOREM TypeCorrect == Spec => []TypeOK
<1>1. IndInv => TypeOK
  BY DEF IndInv
<1> QED BY <1>1, Invariance, PTL

\* A writer is alone in the critical section.
THEOREM Exclusion == Spec => []MutualExclusion
<1>1. IndInv => MutualExclusion
  BY DEF IndInv, OwnerInv, MutualExclusion, Holders
<1> QED BY <1>1, Invariance, PTL

\* Waiters of a lock that nobody has are never left without a wake-up.
THEOREM NoLostSignal == Spec => []SignalReachesWaiter
<1>1. IndInv => SignalReachesWaiter
  BY DEF IndInv, OwnerInv, WakeInv, SignalReachesWaiter, Leaving, Notifying, Waiters, Sig
<1> QED BY <1>1, Invariance, PTL

\* lock_unlock returns only after every thread that had the lock when it was
\* called has left it.
THEOREM UnlockWaits == Spec => UnlockSeen
<1> DEFINE Returns(t) == pc[t] \in {"unlock_spin", "unlock"} /\ pc'[t] \in {"idle", "signal"}
<1>1. ASSUME IndInv, [Next]_vars, NEW t \in Threads, Returns(t)
      PROVE  seen[t] = {}
  <2>1. seen[t] \subseteq Holders /\ t \notin seen[t]
    BY <1>1 DEF IndInv, SeenInv, Passing
  <2>2. CASE pc[t] = "unlock"
    <3>1. t \in Writers
      BY <2>2 DEF Writers, Writing
    <3> QED BY <1>1, <2>1, <3>1, SMT DEF IndInv, OwnerInv, Holders
  <2>3. CASE pc[t] = "unlock_spin"
    <3>1. LockUnlockSpin(t) /\ Caught(t)
      <4>1. PICK u \in Threads : Request(u) \/ Step(u)
        BY <1>1, <2>3 DEF Next, vars
      <4>2. u = t
        BY <1>1, <2>3, <4>1 DEF IndInv, TypeOK, Request, Step, Goto, LockFree, LockBusy,
           LockSteal, LockCount, LockShared, LockSharedBusy, LockSharedSteal, LockSharedCount,
           LockDowngrade, LockUpgrade, LockUpgradeBusy, LockUpgradeCount, WaitTake, WaitFind,
           WaitSleep, Signal, Notify, Unlock, UnlockShared, LockUnlock, LockUnlockSpin,
           LockUnlockCount
      <4>3. "unlock" \notin {"idle", "signal"} /\ "unlock_wait" \notin {"idle", "signal"}
            /\ "unlock_spin" \notin Reading /\ "unlock_spin" \notin Waiting
        BY LabelSets DEF Reading
      <4>4. LockUnlockSpin(t)
        <5>1. LockUnlockSpin(t) \/ LockUnlockCount(t) \/ (WaitSleep(t) /\ pc' = pc)
          BY <2>3, <4>1, <4>2, <4>3 DEF Request, Step, LockFree, LockBusy,
             LockSteal, LockCount, LockShared, LockSharedBusy, LockSharedSteal, LockSharedCount,
             LockDowngrade, LockUpgrade, LockUpgradeBusy, LockUpgradeCount, WaitTake, WaitFind,
             WaitSleep, Signal, Notify, Unlock, UnlockShared, LockUnlock
        <5> QED BY <5>1, <1>1, <2>3, <4>3 DEF LockUnlockCount, Goto, IndInv, TypeOK
      <4> QED BY <1>1, <2>3, <4>3, <4>4 DEF LockUnlockSpin
    <3>2. nReaders = 0 /\ Readers = {} /\ nCounted \in Nat
      BY <1>1, <3>1, Decoded DEF IndInv, Caught
    <3>3. ASSUME seen[t] # {} PROVE FALSE
      <4>1. nCounted <= Weight /\ ~Sig /\ Weight = nCounted
        BY <1>1, <2>1, <3>2, <3>3, HeldWeight, SMT DEF Weight
      <4>2. nCounted < max[t]
        BY <1>1, <3>1, <4>1, Decoded DEF IndInv, Caught, Sig
      <4>3. max[t] <= Weight /\ max[t] \in Nat
        BY <1>1, <2>3, <3>3 DEF IndInv, SeenInv, TypeOK
      <4> QED BY <4>1, <4>2, <4>3, <3>2, SMT
    <3> QED BY <3>3
  <2> QED BY <1>1, <2>2, <2>3
<1>2. IndInv /\ [Next]_vars => [\A t \in Threads : Returns(t) => seen[t] = {}]_vars
  BY <1>1
<1> QED BY <1>2, Invariance, PTL DEF Spec, UnlockSeen
=============================================================================
