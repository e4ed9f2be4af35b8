-------------------------- MODULE Lv2RwlockProofs ---------------------------
(***************************************************************************)
(* The invariants of the LV2 reader-writer lock for any number of threads  *)
(* and any priorities, with and without savestates.  The inductive         *)
(* invariant IndInv is about the word owner, the queues and where the      *)
(* scheduler has each thread; it gives WaitersAreSeen, LoadedThreadsSleep  *)
(* and ReadersDoNotOvertake.  HoldInv adds, without savestates, who holds  *)
(* the lock; it gives OwnerMatchesHolders and ReadersNotStranded.          *)
(***************************************************************************)
EXTENDS Lv2Rwlock, Lv2ObjProofs, FiniteSetTheorems

\* The backend of every leaf that does not name another one.
USE ZenonT(30)

\* The mutex is held between two steps by the last reader that hands the lock
\* over, or by a thread that never leaves its loop.
MutexInv ==
  \A t \in Threads :
    /\ pc[t] \in {"runlock_grant", "stuck"} <=> mutex = t
    /\ pc[t] = "runlock_grant" => owner.readers = 1 /\ owner.waiters

\* A lock that is held exists, and is held in one way.
OwnerInv ==
  /\ owner # Free => exists
  /\ owner.writer # NoThread => owner.readers = 0

\* What a compare-and-swap in progress relies on.
CasInv ==
  \A t \in Threads :
    /\ InCallback(t) => exists
    /\ pc[t] = "rlock_cas" => CanRead(old[t])
    /\ pc[t] = "runlock_cas" =>
         old[t].writer = NoThread /\ old[t].readers > 0 /\ ~old[t].waiters

\* The system call that a thread in the wait loop, or about to enter it, made.
CallInv ==
  \A t \in Threads :
    /\ InWaitLoop(t) \/ (pc[t] = "again" /\ run[t] = "asleep")
         => call[t].name \in {"rlock", "wlock"}
    /\ pc[t] \in {"rlock_cas", "rlock_lock"} => call[t].name = "rlock"
    /\ pc[t] \in {"wlock_cas", "wlock_lock"} => call[t].name = "wlock"

\* Where the scheduler may have a thread.
RunInv ==
  \A t \in Threads :
    /\ t \in signal \/ pc[t] = "recheck" => run[t] = "running"
    /\ run[t] = "asleep" => pc[t] \in {"wait", "resched", "again"}
    /\ pc[t] = "again" /\ t \notin stopped => run[t] # "asleep"

Stuck == \E u \in Threads : pc[u] = "stuck"

\* A thread that is asleep is in the queue of its system call.
SleepInv ==
  \A t \in Threads : run[t] = "asleep" =>
    \/ t \in Queued(QueueOf(t))
    \/ Stuck /\ pc[t] # "again"

\* Where a thread may be while a load is not complete.
LoadingThread(t) ==
  \/ pc[t] = "idle" /\ t \notin loading
  \/ pc[t] = "again"
  \/ pc[t] \in {"rlock_lock", "wlock_lock"} /\ t \in loading
  \/ pc[t] \in {"wait", "resched"} /\ run[t] # "running" /\ t \notin loading

\* A load that is not complete: nothing moves but the threads that have to
\* sleep first.
LoadingInv ==
  loading # {} =>
    /\ stopped = {} /\ signal = {} /\ exists /\ owner.waiters
    /\ \A t \in Threads : LoadingThread(t)
    /\ \A t \in loading : call[t].name \in {"rlock", "wlock"}

IndInv ==
  /\ TypeOK /\ MutexInv /\ OwnerInv /\ WaitersAreSeen /\ CasInv /\ CallInv
  /\ RunInv /\ SleepInv /\ LoadingInv

-----------------------------------------------------------------------------
\* What the proofs use of the constants.
LEMMA Constants == NoThread \notin Threads
  BY Lv2Assumption DEF Lv2Assumption

Calls == [name : {"none", "rlock", "wlock", "runlock", "wunlock"}, timed : BOOLEAN]

\* What a step leaves alone, but for the thread that takes it.
OthersKeep(t) ==
  \A u \in Threads \ {t} : pc'[u] = pc[u] /\ call'[u] = call[u] /\ old'[u] = old[u]

\* The variables of the threads keep their types.
LocalTypes ==
  /\ pc' \in [Threads -> Labels]
  /\ call' \in [Threads -> Calls]
  /\ old' \in [Threads -> Owners]
  /\ held' \in [Threads -> {"none", "read", "write"}]

\* The value of owner that a step leaves.
OwnerStep == owner' \in Owners /\ OwnerInv' /\ WaitersAreSeen'

(***************************************************************************)
(* What a thread that takes a step has to see to if the step changes       *)
(* nothing but its own variables and owner.                                *)
(***************************************************************************)
LocalStep(t) ==
  /\ LocalTypes /\ OthersKeep(t) /\ OwnerStep
  /\ UNCHANGED <<exists, rq, wq, mutex, run, signal, stopped, loading>>
  /\ {pc[t], pc'[t]} \intersect {"runlock_grant", "stuck"} = {}
  /\ owner' = owner \/ ~owner.waiters \/ (mutex = NoThread /\ loading = {})

LocalObligation(t) ==
  /\ InCallback(t)' => exists
  /\ pc'[t] = "rlock_cas" => CanRead(old'[t])
  /\ pc'[t] = "runlock_cas" =>
       old'[t].writer = NoThread /\ old'[t].readers > 0 /\ ~old'[t].waiters
  /\ InWaitLoop(t)' => call'[t].name \in {"rlock", "wlock"}
  /\ pc'[t] \in {"rlock_cas", "rlock_lock"} => call'[t].name = "rlock"
  /\ pc'[t] \in {"wlock_cas", "wlock_lock"} => call'[t].name = "wlock"
  /\ pc'[t] = "recheck" => run[t] = "running"
  /\ run[t] = "asleep" =>
       /\ pc'[t] \in {"wait", "resched", "again"}
       /\ call'[t] = call[t]
       /\ pc'[t] = "again" =>
            /\ t \in stopped /\ t \in Queued(QueueOf(t))
            /\ call[t].name \in {"rlock", "wlock"}
  /\ loading # {} =>
       /\ LoadingThread(t)'
       /\ t \in loading => call'[t].name \in {"rlock", "wlock"}

\* A step that changes nothing but the thread's own variables and owner.
LEMMA LocalStepInv ==
  ASSUME IndInv, NEW t \in Threads, LocalStep(t), LocalObligation(t)
  PROVE  IndInv'
<1> USE Constants DEF IndInv, LocalStep, OthersKeep, OwnerStep
<1>1. TypeOK'
  BY DEF TypeOK, ThreadsTypeOK, LocalTypes, Calls
<1>2. MutexInv'
  BY DEF MutexInv
<1>3. CasInv'
  BY DEF CasInv, InCallback, LocalObligation, CanRead
<1>4. CallInv'
  BY DEF CallInv, InWaitLoop, LocalObligation
<1>5. RunInv'
  BY DEF RunInv, LocalObligation
<1>6. SleepInv'
  <2> SUFFICES ASSUME NEW u \in Threads, run[u] = "asleep"
               PROVE  \/ u \in Queued(QueueOf(u))'
                      \/ Stuck' /\ pc'[u] # "again"
    BY DEF SleepInv
  <2>1. Queued(QueueOf(u))' = Queued(QueueOf(u))
    BY DEF QueueOf, LocalObligation
  <2>2. Stuck => Stuck'
    BY DEF Stuck
  <2>3. QED
    BY <2>1, <2>2 DEF SleepInv, LocalObligation
<1>7. LoadingInv'
  <2> SUFFICES ASSUME loading # {} PROVE LoadingInv'
    BY DEF LoadingInv
  <2>1. owner' = owner
    BY DEF LoadingInv
  <2>2. ASSUME NEW u \in Threads PROVE LoadingThread(u)'
    <3>1. CASE u = t
      BY <3>1 DEF LocalObligation
    <3>2. CASE u # t
      BY <3>2 DEF LoadingThread, LoadingInv
    <3>3. QED
      BY <3>1, <3>2
  <2>3. ASSUME NEW u \in loading PROVE call'[u].name \in {"rlock", "wlock"}
    BY DEF LoadingInv, LocalObligation, TypeOK, ThreadsTypeOK
  <2>4. QED
    BY <2>1, <2>2, <2>3 DEF LoadingInv
<1>8. QED
  BY <1>1, <1>2, <1>3, <1>4, <1>5, <1>6, <1>7

\* What Return, Continue and Begin do to the variables of the threads.
LEMMA ReturnStep ==
  ASSUME TypeOK, NEW t \in Threads, NEW h \in {"none", "read", "write"}, Return(t, h)
  PROVE  /\ pc' \in [Threads -> Labels]
         /\ call' \in [Threads -> Calls]
         /\ held' \in [Threads -> {"none", "read", "write"}]
         /\ pc'[t] = "idle" /\ call'[t] = NoCall /\ held'[t] = h
         /\ \A u \in Threads \ {t} :
              pc'[u] = pc[u] /\ call'[u] = call[u] /\ held'[u] = held[u]
<1> USE DEF TypeOK, Return, Goto, Labels, WaitLabels, Calls, Call, NoCall
<1>1. call' \in [Threads -> Calls]
  OBVIOUS
<1>2. pc' \in [Threads -> Labels] /\ held' \in [Threads -> {"none", "read", "write"}]
  OBVIOUS
<1>3. QED
  BY <1>1, <1>2, SMT

\* The thread goes on in the same call.
LEMMA ContinueStep ==
  ASSUME TypeOK, NEW t \in Threads, NEW l \in Labels, Continue(t, l)
  PROVE  /\ pc' \in [Threads -> Labels] /\ UNCHANGED <<call, held>>
         /\ call' \in [Threads -> Calls]
         /\ held' \in [Threads -> {"none", "read", "write"}]
         /\ pc'[t] = l
         /\ \A u \in Threads \ {t} : pc'[u] = pc[u]
  BY DEF TypeOK, Continue, Goto, Calls

\* The thread begins a call, or begins it again.
LEMMA BeginStep ==
  ASSUME TypeOK, NEW t \in Threads, NEW c \in Calls, NEW l \in Labels, Begin(t, c, l)
  PROVE  /\ pc' \in [Threads -> Labels] /\ UNCHANGED held
         /\ call' \in [Threads -> Calls]
         /\ held' \in [Threads -> {"none", "read", "write"}]
         /\ pc'[t] = l /\ call'[t] = c
         /\ \A u \in Threads \ {t} : pc'[u] = pc[u] /\ call'[u] = call[u]
  BY DEF TypeOK, Begin, Goto, Calls

\* The thread remembers the value that its compare-and-swap expects.
LEMMA ExpectStep ==
  ASSUME TypeOK, NEW t \in Threads, NEW o \in Owners, Expect(t, o)
  PROVE  /\ old' \in [Threads -> Owners] /\ old'[t] = o
         /\ \A u \in Threads \ {t} : old'[u] = old[u]
  BY DEF TypeOK, Expect

\* The values of owner and their parts.
LEMMA FreeValue ==
  /\ Free \in Owners
  /\ Free.writer = NoThread /\ Free.readers = 0 /\ Free.waiters = FALSE
  BY DEF Owners, Owner, Free

\* The parts of the word owner; without any of them it is free.
LEMMA OwnerParts ==
  ASSUME NEW o \in Owners
  PROVE  /\ o.writer \in Threads \union {NoThread}
         /\ o.readers \in Nat /\ o.waiters \in BOOLEAN
         /\ o.writer = NoThread /\ o.readers = 0 /\ ~o.waiters => o = Free
  BY DEF Owners, Owner, Free

\* A word put together has its parts.
LEMMA OwnerValue ==
  ASSUME NEW w \in Threads \union {NoThread}, NEW r \in Nat, NEW b \in BOOLEAN
  PROVE  /\ Owner(w, r, b) \in Owners
         /\ Owner(w, r, b).writer = w
         /\ Owner(w, r, b).readers = r
         /\ Owner(w, r, b).waiters = b
  BY DEF Owners, Owner

\* To add readers changes their number only.
LEMMA AddReadersValue ==
  ASSUME NEW o \in Owners, NEW n \in Int, o.readers + n >= 0
  PROVE  /\ AddReaders(o, n) \in Owners
         /\ AddReaders(o, n).writer = o.writer
         /\ AddReaders(o, n).readers = o.readers + n
         /\ AddReaders(o, n).waiters = o.waiters
  BY SMT DEF Owners, AddReaders

\* A step of a thread that leaves owner alone, or lets one more reader in.
LEMMA KeepOwner ==
  ASSUME IndInv, UNCHANGED <<owner, exists, rq, wq>>
  PROVE  OwnerStep
  BY DEF IndInv, OwnerStep, OwnerInv, WaitersAreSeen, TypeOK

\* A reader gets the lock without waiting.
LEMMA OneMoreReader ==
  ASSUME IndInv, exists, CanRead(owner), owner' = AddReaders(owner, 1),
         UNCHANGED <<exists, rq, wq>>
  PROVE  OwnerStep /\ ~owner.waiters
<1> USE DEF IndInv
<1>1. owner \in Owners /\ owner.writer = NoThread /\ ~owner.waiters
  BY DEF TypeOK, CanRead
<1>2. /\ owner' \in Owners /\ owner'.writer = NoThread
      /\ owner'.readers = owner.readers + 1 /\ ~owner'.waiters
  BY <1>1, OwnerParts, AddReadersValue, SMT
<1>3. QED
  BY <1>1, <1>2 DEF OwnerStep, OwnerInv, WaitersAreSeen

\* A reader that hands the lock to nobody unlocks.
LEMMA OneReaderLess ==
  ASSUME IndInv, exists, owner.readers > 0, owner.readers > 1 \/ ~owner.waiters,
         owner' = AddReaders(owner, -1), UNCHANGED <<exists, rq, wq>>
  PROVE  OwnerStep
<1> USE Constants DEF IndInv
<1>1. owner \in Owners /\ owner.readers \in Nat
  BY OwnerParts DEF TypeOK
<1>2. /\ owner' \in Owners /\ owner'.writer = owner.writer
      /\ owner'.readers = owner.readers - 1 /\ owner'.waiters = owner.waiters
  BY <1>1, AddReadersValue, SMT
<1>3. QED
  BY <1>1, <1>2, SMT DEF OwnerStep, OwnerInv, WaitersAreSeen

\* A writer gets the lock without waiting.
LEMMA NewWriter ==
  ASSUME IndInv, exists, owner = Free, NEW t \in Threads, owner' = Owner(t, 0, FALSE),
         UNCHANGED <<exists, rq, wq>>
  PROVE  OwnerStep /\ ~owner.waiters
<1>1. owner' \in Owners /\ owner'.writer = t /\ owner'.readers = 0 /\ ~owner'.waiters
  BY DEF Owners, Owner
<1>2. QED
  BY <1>1, Constants, FreeValue DEF IndInv, OwnerStep, OwnerInv, WaitersAreSeen

\* rlock loads owner.
LEMMA RLockLoadInv ==
  ASSUME IndInv, NEW t \in Threads, NEW timed \in BOOLEAN, RLockLoad(t, timed)
  PROVE  IndInv'
<1> USE Constants DEF IndInv, objVars, threadVars, RLockLoad, Enters, CanEnter
<1> DEFINE c == Call("rlock", timed)
           l == IF CanRead(owner) THEN "rlock_cas" ELSE "rlock_lock"
           o == IF CanRead(owner) THEN owner ELSE Free
<1>1. /\ owner \in Owners /\ c \in Calls /\ l \in Labels /\ o \in Owners
      /\ c.name = "rlock" /\ c # NoCall
  BY FreeValue DEF TypeOK, Calls, Call, NoCall, Labels
<1>2. Begin(t, c, l) /\ Expect(t, o)
  OBVIOUS
<1>3. l \in {"rlock_cas", "rlock_lock"} /\ (l = "rlock_cas" => CanRead(o)) /\ (owner.waiters => l = "rlock_lock")
  BY DEF CanRead
<1> HIDE DEF c, l, o, RLockLoad
<1>4. LocalStep(t) /\ pc'[t] = l /\ call'[t] = c /\ old'[t] = o
  BY <1>1, <1>2, <1>3, BeginStep, ExpectStep, KeepOwner, SMT
     DEF LocalStep, LocalTypes, OthersKeep, RLockLoad
<1>5. LocalObligation(t)
  BY <1>1, <1>3, <1>4 DEF RLockLoad, LocalObligation, InCallback, InWaitLoop, LoadingThread, LoadingInv, RunInv
<1>6. QED
  BY <1>4, <1>5, LocalStepInv

\* wlock loads owner.
LEMMA WLockLoadInv ==
  ASSUME IndInv, NEW t \in Threads, NEW timed \in BOOLEAN, WLockLoad(t, timed)
  PROVE  IndInv'
<1> USE Constants DEF IndInv, objVars, threadVars, WLockLoad, Enters, CanEnter
<1> DEFINE c == Call("wlock", timed)
           l == IF owner = Free THEN "wlock_cas" ELSE "wlock_lock"
<1>1. c \in Calls /\ l \in Labels /\ c.name = "wlock" /\ c # NoCall
  BY DEF Calls, Call, NoCall, Labels
<1>2. Begin(t, c, l)
  OBVIOUS
<1>3. l \in {"wlock_cas", "wlock_lock"} /\ (owner.waiters => l = "wlock_lock")
  BY FreeValue
<1> HIDE DEF c, l, WLockLoad
<1>4. LocalStep(t) /\ pc'[t] = l /\ call'[t] = c
  BY <1>1, <1>2, <1>3, BeginStep, KeepOwner, SMT
     DEF LocalStep, LocalTypes, OthersKeep, WLockLoad, TypeOK
<1>5. LocalObligation(t)
  BY <1>1, <1>3, <1>4 DEF WLockLoad, LocalObligation, InCallback, InWaitLoop, LoadingThread, LoadingInv, RunInv
<1>6. QED
  BY <1>4, <1>5, LocalStepInv

\* tryrlock.
LEMMA TryRLockInv ==
  ASSUME IndInv, NEW t \in Threads, TryRLock(t)
  PROVE  IndInv'
<1> USE Constants DEF IndInv, objVars, threadVars, TryRLock, Idle
<1>1. OwnerStep /\ ~owner.waiters
  BY OneMoreReader
<1>2. LocalStep(t)
  BY <1>1 DEF LocalStep, LocalTypes, OthersKeep, TypeOK, Calls
<1>3. LocalObligation(t)
  BY DEF LocalObligation, InCallback, InWaitLoop, RunInv
<1>4. QED
  BY <1>2, <1>3, LocalStepInv

\* trywlock.
LEMMA TryWLockInv ==
  ASSUME IndInv, NEW t \in Threads, TryWLock(t)
  PROVE  IndInv'
<1> USE Constants DEF IndInv, objVars, threadVars, TryWLock, Idle
<1>1. OwnerStep /\ ~owner.waiters
  BY NewWriter
<1>2. LocalStep(t)
  BY <1>1 DEF LocalStep, LocalTypes, OthersKeep, TypeOK, Calls
<1>3. LocalObligation(t)
  BY DEF LocalObligation, InCallback, InWaitLoop, RunInv
<1>4. QED
  BY <1>2, <1>3, LocalStepInv

\* The wait loop sees the stop flag.
LEMMA WaitStoppedInv ==
  ASSUME IndInv, NEW t \in Threads, WaitStopped(t)
  PROVE  IndInv'
<1> USE Constants DEF IndInv, objVars, threadVars, WaitStopped
<1>1. UNCHANGED old /\ OwnerStep /\ loading = {} /\ ~Stuck
  BY KeepOwner DEF LoadingInv, MutexInv, Stuck
<1>2. "again" \in Labels /\ Wanted(t) \in {"none", "read", "write"}
  BY DEF Labels, WaitLabels, Wanted
<1>3. call[t].name \in {"rlock", "wlock"}
  BY DEF CallInv, InWaitLoop
<1>4. CASE t \in Queued(QueueOf(t))
  <2>1. Continue(t, "again")
    BY <1>4
  <2> HIDE DEF WaitStopped
  <2>2. LocalStep(t) /\ pc'[t] = "again" /\ call'[t] = call[t]
    BY <2>1, <1>1, <1>2, ContinueStep DEF WaitStopped, LocalStep, LocalTypes, OthersKeep, TypeOK
  <2>3. LocalObligation(t)
    BY <2>2, <1>1, <1>3, <1>4 DEF WaitStopped, LocalObligation, InCallback, InWaitLoop
  <2>4. QED
    BY <2>2, <2>3, LocalStepInv
<1>5. CASE t \notin Queued(QueueOf(t))
  <2>1. Return(t, Wanted(t)) /\ run[t] # "asleep"
    BY <1>1, <1>5 DEF SleepInv
  <2> HIDE DEF WaitStopped
  <2>2. LocalStep(t) /\ pc'[t] = "idle"
    BY <2>1, <1>1, <1>2, ReturnStep, SMT DEF WaitStopped, LocalStep, LocalTypes, OthersKeep, TypeOK
  <2>3. LocalObligation(t)
    BY <2>1, <2>2, <1>1 DEF LocalObligation, InCallback, InWaitLoop
  <2>4. QED
    BY <2>2, <2>3, LocalStepInv
<1>6. QED
  BY <1>4, <1>5

\* The time of a wait is over.
LEMMA WaitTimeoutInv ==
  ASSUME IndInv, NEW t \in Threads, WaitTimeout(t)
  PROVE  IndInv'
<1> USE Constants DEF IndInv, objVars, threadVars, WaitTimeout, wait_timeout, Goto
<1>1. LocalStep(t) /\ pc'[t] = "resched" /\ call'[t] = call[t]
  BY KeepOwner DEF LocalStep, LocalTypes, OthersKeep, TypeOK, Labels, WaitLabels, Calls
<1>2. LocalObligation(t)
  BY <1>1 DEF CallInv, LocalObligation, InCallback, InWaitLoop, LoadingThread, LoadingInv, RunInv
<1>3. QED
  BY <1>1, <1>2, LocalStepInv

\* A timeout of wlock that came after the hand-over.
LEMMA WLockRecheckOwnedInv ==
  ASSUME IndInv, NEW t \in Threads, WLockRecheckOwned(t)
  PROVE  IndInv'
<1> USE Constants DEF IndInv, objVars, threadVars, WLockRecheckOwned
<1>1. LocalStep(t) /\ pc'[t] = "idle"
  BY KeepOwner, ReturnStep DEF LocalStep, LocalTypes, OthersKeep, TypeOK
<1>2. LocalObligation(t)
  BY <1>1 DEF LocalObligation, InCallback, InWaitLoop, LoadingThread, LoadingInv, RunInv
<1>3. QED
  BY <1>1, <1>2, LocalStepInv

\* runlock loads owner.
LEMMA RUnlockLoadInv ==
  ASSUME IndInv, NEW t \in Threads, RUnlockLoad(t)
  PROVE  IndInv'
<1> USE Constants DEF IndInv, objVars, threadVars, RUnlockLoad, Enters, CanEnter
<1> DEFINE c == Call("runlock", FALSE)
           fast == owner.readers > 0 /\ ~owner.waiters
           l == IF fast THEN "runlock_cas" ELSE "runlock_lock"
           o == IF fast THEN owner ELSE Free
<1>1. /\ owner \in Owners /\ c \in Calls /\ l \in Labels /\ o \in Owners
      /\ c.name = "runlock"
  BY FreeValue DEF TypeOK, Calls, Call, Labels
<1>2. Begin(t, c, l) /\ Expect(t, o) /\ t \notin stopped
  OBVIOUS
<1>3. /\ l \in {"runlock_cas", "runlock_lock"}
      /\ l = "runlock_cas" => o.writer = NoThread /\ o.readers > 0 /\ ~o.waiters
  BY <1>1, OwnerParts, SMT DEF OwnerInv
<1>4. pc[t] = "idle" \/ (pc[t] = "again" /\ call[t] = c)
  OBVIOUS
<1>5. t \in loading \/ loading = {}
  OBVIOUS
<1>6. loading = {}
  BY <1>1, <1>4, <1>5 DEF LoadingInv, LoadingThread
<1>7. run[t] # "asleep"
  BY <1>2, <1>4 DEF RunInv
<1> HIDE DEF c, l, o, RUnlockLoad
<1>8. LocalStep(t) /\ pc'[t] = l /\ call'[t] = c /\ old'[t] = o
  BY <1>1, <1>2, <1>3, <1>4, BeginStep, ExpectStep, KeepOwner, SMT
     DEF LocalStep, LocalTypes, OthersKeep, RUnlockLoad
<1>9. LocalObligation(t)
  BY <1>1, <1>3, <1>6, <1>7, <1>8 DEF RUnlockLoad, LocalObligation, InCallback, InWaitLoop
<1>10. QED
  BY <1>8, <1>9, LocalStepInv

\* wunlock, but for the hand-over.
LEMMA WUnlockInv ==
  ASSUME IndInv, NEW t \in Threads, WUnlock(t)
  PROVE  IndInv'
<1> USE Constants DEF IndInv, objVars, threadVars, WUnlock, Enters, CanEnter
<1> DEFINE c == Call("wunlock", FALSE)
<1>1. owner \in Owners /\ c \in Calls /\ c.name = "wunlock" /\ "wunlock_grant" \in Labels
  BY DEF TypeOK, Calls, Call, Labels
<1>2. loading = {}
  BY <1>1 DEF LoadingInv, LoadingThread
<1>3. run[t] # "asleep" /\ pc[t] \in {"idle", "again"}
  BY DEF RunInv
<1>4. CASE owner.waiters
  <2>1. Begin(t, c, "wunlock_grant") /\ UNCHANGED owner
    BY <1>4
  <2> HIDE DEF c
  <2>2. LocalStep(t) /\ pc'[t] = "wunlock_grant"
    BY <2>1, <1>1, <1>3, BeginStep, KeepOwner, SMT DEF LocalStep, LocalTypes, OthersKeep, TypeOK
  <2>3. LocalObligation(t)
    BY <2>2, <1>2, <1>3 DEF LocalObligation, InCallback, InWaitLoop
  <2>4. QED
    BY <2>2, <2>3, LocalStepInv
<1>5. CASE ~owner.waiters
  <2>1. Return(t, "none") /\ owner' = Free
    BY <1>5
  <2>2. OwnerStep
    BY <2>1, <1>5, FreeValue DEF OwnerStep, OwnerInv, WaitersAreSeen
  <2>3. LocalStep(t) /\ pc'[t] = "idle"
    BY <2>1, <2>2, <1>3, <1>5, ReturnStep DEF LocalStep, LocalTypes, OthersKeep, TypeOK
  <2>4. LocalObligation(t)
    BY <2>3, <1>2, <1>3 DEF LocalObligation, InCallback, InWaitLoop
  <2>5. QED
    BY <2>3, <2>4, LocalStepInv
<1>6. QED
  BY <1>4, <1>5

\* The compare-and-swap of rlock.
LEMMA RLockCasInv ==
  ASSUME IndInv, NEW t \in Threads, RLockCas(t)
  PROVE  IndInv'
<1> USE Constants DEF IndInv, objVars, threadVars, RLockCas
<1>1. owner \in Owners /\ Free \in Owners /\ "rlock_lock" \in Labels /\ loading = {}
  BY FreeValue DEF TypeOK, Labels, LoadingInv, LoadingThread
<1>2. Expect(t, Free)
  OBVIOUS
<1>3. run[t] # "asleep" /\ exists
  BY DEF RunInv, CasInv, InCallback
<1>4. CASE owner = old[t]
  <2>1. owner' = AddReaders(owner, 1) /\ Return(t, "read")
    BY <1>4 DEF CasSucceeds
  <2>2. OwnerStep /\ ~owner.waiters
    BY <2>1, <1>3, <1>4, OneMoreReader DEF CasInv
  <2> HIDE DEF RLockCas
  <2>3. LocalStep(t) /\ pc'[t] = "idle"
    BY <2>1, <2>2, <1>1, <1>2, ExpectStep, ReturnStep, SMT DEF RLockCas, LocalStep, LocalTypes, OthersKeep, TypeOK
  <2>4. LocalObligation(t)
    BY <2>3, <1>1, <1>3 DEF LocalObligation, InCallback, InWaitLoop
  <2>5. QED
    BY <2>3, <2>4, LocalStepInv
<1>5. CASE ~(owner = old[t])
  <2>1. Continue(t, "rlock_lock") /\ UNCHANGED owner
    BY <1>5 DEF CasSucceeds
  <2> HIDE DEF RLockCas
  <2>2. LocalStep(t) /\ pc'[t] = "rlock_lock" /\ call'[t] = call[t]
    BY <2>1, <1>1, <1>2, ExpectStep, ContinueStep, KeepOwner, SMT DEF RLockCas, LocalStep, LocalTypes, OthersKeep, TypeOK
  <2>3. LocalObligation(t)
    BY <2>2, <1>1, <1>3 DEF RLockCas, CallInv, LocalObligation, InCallback, InWaitLoop
  <2>4. QED
    BY <2>2, <2>3, LocalStepInv
<1>6. QED
  BY <1>4, <1>5

\* The compare-and-swap of wlock.
LEMMA WLockCasInv ==
  ASSUME IndInv, NEW t \in Threads, WLockCas(t)
  PROVE  IndInv'
<1> USE Constants DEF IndInv, objVars, threadVars, WLockCas
<1>1. owner \in Owners /\ Free \in Owners /\ "wlock_lock" \in Labels /\ loading = {}
  BY FreeValue DEF TypeOK, Labels, LoadingInv, LoadingThread
<1>2. UNCHANGED old
  OBVIOUS
<1>3. run[t] # "asleep" /\ exists
  BY DEF RunInv, CasInv, InCallback
<1>4. CASE owner = Free
  <2>1. owner' = Owner(t, 0, FALSE) /\ Return(t, "write")
    BY <1>4
  <2>2. OwnerStep /\ ~owner.waiters
    BY <2>1, <1>3, <1>4, NewWriter
  <2> HIDE DEF WLockCas
  <2>3. LocalStep(t) /\ pc'[t] = "idle"
    BY <2>1, <2>2, <1>1, <1>2, ReturnStep DEF WLockCas, LocalStep, LocalTypes, OthersKeep, TypeOK
  <2>4. LocalObligation(t)
    BY <2>3, <1>1, <1>3 DEF LocalObligation, InCallback, InWaitLoop
  <2>5. QED
    BY <2>3, <2>4, LocalStepInv
<1>5. CASE ~(owner = Free)
  <2>1. Continue(t, "wlock_lock") /\ UNCHANGED owner
    BY <1>5
  <2> HIDE DEF WLockCas
  <2>2. LocalStep(t) /\ pc'[t] = "wlock_lock" /\ call'[t] = call[t]
    BY <2>1, <1>1, <1>2, ContinueStep, KeepOwner DEF WLockCas, LocalStep, LocalTypes, OthersKeep, TypeOK
  <2>3. LocalObligation(t)
    BY <2>2, <1>1, <1>3 DEF WLockCas, CallInv, LocalObligation, InCallback, InWaitLoop
  <2>4. QED
    BY <2>2, <2>3, LocalStepInv
<1>6. QED
  BY <1>4, <1>5

\* The compare-and-swap of runlock.
LEMMA RUnlockCasInv ==
  ASSUME IndInv, NEW t \in Threads, RUnlockCas(t)
  PROVE  IndInv'
<1> USE Constants DEF IndInv, objVars, threadVars, RUnlockCas
<1>1. owner \in Owners /\ Free \in Owners /\ "runlock_lock" \in Labels /\ loading = {}
  BY FreeValue DEF TypeOK, Labels, LoadingInv, LoadingThread
<1>2. Expect(t, Free)
  OBVIOUS
<1>3. run[t] # "asleep" /\ exists
  BY DEF RunInv, CasInv, InCallback
<1>4. CASE owner = old[t]
  <2>1. owner' = AddReaders(owner, -1) /\ Return(t, "none")
    BY <1>4 DEF CasSucceeds
  <2>2. OwnerStep /\ ~owner.waiters
    BY <2>1, <1>3, <1>4, OneReaderLess DEF CasInv
  <2> HIDE DEF RUnlockCas
  <2>3. LocalStep(t) /\ pc'[t] = "idle"
    BY <2>1, <2>2, <1>1, <1>2, ExpectStep, ReturnStep DEF RUnlockCas, LocalStep, LocalTypes, OthersKeep, TypeOK
  <2>4. LocalObligation(t)
    BY <2>3, <1>1, <1>3 DEF LocalObligation, InCallback, InWaitLoop
  <2>5. QED
    BY <2>3, <2>4, LocalStepInv
<1>5. CASE ~(owner = old[t])
  <2>1. Continue(t, "runlock_lock") /\ UNCHANGED owner
    BY <1>5 DEF CasSucceeds
  <2> HIDE DEF RUnlockCas
  <2>2. LocalStep(t) /\ pc'[t] = "runlock_lock" /\ call'[t] = call[t]
    BY <2>1, <1>1, <1>2, ExpectStep, ContinueStep, KeepOwner, SMT DEF RUnlockCas, LocalStep, LocalTypes, OthersKeep, TypeOK
  <2>3. LocalObligation(t)
    BY <2>2, <1>1, <1>3 DEF RUnlockCas, CallInv, LocalObligation, InCallback, InWaitLoop
  <2>4. QED
    BY <2>2, <2>3, LocalStepInv
<1>6. QED
  BY <1>4, <1>5

(***************************************************************************)
(* A step of a thread in its system call that takes threads off the queues *)
(* and awakes those in S, or only leaves its own place.                    *)
(***************************************************************************)
WakeStep(t, S) ==
  /\ LocalTypes /\ OthersKeep(t) /\ OwnerStep
  /\ rq' \in Seq(Threads) /\ wq' \in Seq(Threads)
  /\ Queued(rq) \subseteq Queued(rq') \union S \union {t}
  /\ Queued(wq) \subseteq Queued(wq') \union S \union {t}
  /\ run' = awake(S)
  /\ signal' \subseteq signal
  /\ pc[t] \notin {"idle", "stuck", "again"} /\ pc'[t] = "idle"
  /\ run[t] # "asleep"
  /\ mutex \in {NoThread, t} /\ mutex' = NoThread
  /\ loading = {}
  /\ UNCHANGED <<exists, stopped, loading>>

\* Every step that takes threads off the queues and wakes them.
LEMMA WakeStepInv ==
  ASSUME IndInv, NEW t \in Threads, NEW S \in SUBSET Threads, WakeStep(t, S)
  PROVE  IndInv'
<1> USE Constants DEF IndInv, WakeStep, OthersKeep, OwnerStep
<1>1. run' \in [Threads -> RunStates]
  BY DEF TypeOK, ThreadsTypeOK, RunStates, awake
<1>2. \A u \in Threads : run'[u] = IF u \in S /\ run[u] = "asleep" THEN "ready" ELSE run[u]
  BY DEF awake
<1>3. TypeOK'
  BY <1>1 DEF TypeOK, ThreadsTypeOK, LocalTypes, Calls
<1>4. MutexInv'
  BY SMT DEF MutexInv
<1>5. CasInv'
  BY SMT DEF CasInv, InCallback, CanRead
<1>6. CallInv'
  BY <1>2 DEF CallInv, InWaitLoop
<1>7. RunInv'
  BY <1>2 DEF RunInv
<1>8. SleepInv'
  <2> SUFFICES ASSUME NEW u \in Threads, run'[u] = "asleep"
               PROVE  u \in Queued(QueueOf(u))'
    BY DEF SleepInv
  <2>1. run[u] = "asleep" /\ u \notin S /\ u # t
    BY <1>2
  <2>2. ~Stuck
    BY SMT DEF MutexInv, Stuck
  <2>3. u \in Queued(QueueOf(u)) /\ call'[u] = call[u]
    BY <2>1, <2>2 DEF SleepInv
  <2>4. QED
    BY <2>1, <2>3 DEF QueueOf
<1>9. LoadingInv'
  BY DEF LoadingInv
<1>10. QED
  BY <1>3, <1>4, <1>5, <1>6, <1>7, <1>8, <1>9

\* awake of nobody changes nothing.
LEMMA AwakeNobody == ASSUME TypeOK PROVE awake({}) = run
  BY DEF TypeOK, ThreadsTypeOK, awake

\* The wait loop sees cpu_flag::signal.
LEMMA WaitSignalInv ==
  ASSUME IndInv, NEW t \in Threads, WaitSignal(t)
  PROVE  IndInv'
<1> USE Constants DEF IndInv, objVars, WaitSignal, WaitEnds
<1>1. Wanted(t) \in {"none", "read", "write"}
  BY DEF Wanted
<1>2. loading = {} /\ run[t] # "asleep"
  BY DEF LoadingInv, RunInv
<1>3. Return(t, Wanted(t)) /\ UNCHANGED old
  OBVIOUS
<1>4. QED
  <2>1. CASE mutex = NoThread
    <3>1. WakeStep(t, {})
      BY <2>1, <1>1, <1>2, <1>3, ReturnStep, KeepOwner, AwakeNobody, SMT
         DEF WakeStep, LocalTypes, OthersKeep, TypeOK
    <3>2. QED
      BY <3>1, WakeStepInv
  <2>2. CASE mutex # NoThread
    <3>1. /\ LocalTypes /\ OthersKeep(t) /\ OwnerStep /\ pc'[t] = "idle"
      BY <1>1, <1>3, ReturnStep, KeepOwner, SMT DEF LocalTypes, OthersKeep, TypeOK
    <3> HIDE DEF WaitSignal
    <3> USE DEF OthersKeep, OwnerStep
    <3>2. UNCHANGED <<objVars, run, stopped, loading>> /\ signal' \subseteq signal /\ pc[t] = "wait"
      BY DEF WaitSignal
    <3> USE <3>1, <3>2, <1>2
    <3>3. TypeOK'
      BY DEF TypeOK, ThreadsTypeOK, LocalTypes, Calls
    <3>4. MutexInv' /\ CasInv' /\ CallInv'
      <4>1. MutexInv'
        BY DEF MutexInv
      <4>2. CasInv'
        BY DEF CasInv, InCallback, CanRead
      <4>3. CallInv'
        BY DEF CallInv, InWaitLoop
      <4>4. QED
        BY <4>1, <4>2, <4>3
    <3>5. RunInv' /\ LoadingInv'
      BY DEF RunInv, LoadingInv
    <3>6. SleepInv'
      BY DEF SleepInv, QueueOf, Stuck
    <3>7. QED
      BY <3>3, <3>4, <3>5, <3>6
  <2>3. QED
    BY <2>1, <2>2

\* The end of a timeout of rlock.
LEMMA RLockRecheckInv ==
  ASSUME IndInv, NEW t \in Threads, RLockRecheck(t)
  PROVE  IndInv'
<1> USE Constants DEF IndInv, threadVars, RLockRecheck
<1>1. loading = {} /\ run[t] # "asleep"
  BY DEF LoadingInv, LoadingThread, RunInv
<1>2. PICK h \in {"none", "read", "write"} : Return(t, h)
  OBVIOUS
<1>3. rq \in Seq(Threads) /\ wq \in Seq(Threads) /\ WaitersAreSeen /\ OwnerInv /\ owner \in Owners
  BY DEF TypeOK
<1>4. rq' \in Seq(Threads) /\ Queued(rq) \subseteq Queued(rq') \union {t} /\ (rq' # <<>> => rq # <<>>)
  <2>1. CASE t \in Queued(rq)
    <3>1. rq' = unqueue(rq, t) /\ rq # <<>>
      BY <2>1, SMT DEF Queued
    <3>2. QED
      BY <3>1, <2>1, <1>3, UnqueueQueue
  <2>2. CASE t \notin Queued(rq)
    BY <2>2, <1>3
  <2>3. QED
    BY <2>1, <2>2
<1> HIDE DEF RLockRecheck
<1>5. OwnerStep
  BY <1>3, <1>4 DEF OwnerStep, OwnerInv, WaitersAreSeen, RLockRecheck
<1>6. WakeStep(t, {})
  BY <1>1, <1>2, <1>3, <1>4, <1>5, ReturnStep, AwakeNobody
     DEF WakeStep, LocalTypes, OthersKeep, TypeOK, RLockRecheck
<1>7. QED
  BY <1>6, WakeStepInv

\* The value of owner that lets n readers and the blocked ones in.
LEMMA AllReadersValue ==
  ASSUME TypeOK, NEW n \in Nat
  PROVE  /\ AllReaders(n) \in Owners /\ AllReaders(n).writer = NoThread
         /\ AllReaders(n).readers = n + Len(rq) /\ ~AllReaders(n).waiters
         /\ Len(rq) \in Nat /\ (Len(rq) = 0 <=> rq = <<>>)
<1>1. Len(rq) \in Nat /\ (Len(rq) = 0 <=> rq = <<>>)
  BY SMT DEF TypeOK
<1>2. QED
  <2>1. n + Len(rq) \in Nat /\ FALSE \in BOOLEAN /\ NoThread \in Threads \union {NoThread}
    BY <1>1, SMT
  <2>2. QED
    BY <2>1, <1>1, OwnerValue DEF AllReaders

\* The value of owner for the next writer.
LEMMA HandedToValue ==
  ASSUME NEW w \in Threads, NEW rest
  PROVE  /\ HandedTo(w, rest) \in Owners /\ HandedTo(w, rest).writer = w
         /\ HandedTo(w, rest).readers = 0
         /\ HandedTo(w, rest).waiters = (rest # <<>> \/ rq # <<>>)
  BY DEF HandedTo, Owner, Owners

\* The end of a timeout of wlock.
LEMMA WLockRecheckInv ==
  ASSUME IndInv, NEW t \in Threads, WLockRecheck(t)
  PROVE  IndInv'
<1> USE Constants DEF IndInv
<1> DEFINE rest == unqueue(wq, t)
<1>1. /\ pc[t] = "recheck" /\ mutex = NoThread /\ t \in Queued(wq) /\ wq' = rest
      /\ Return(t, "none") /\ UNCHANGED <<exists, mutex, old, signal, stopped, loading>>
  BY DEF WLockRecheck
<1>2. loading = {} /\ run[t] # "asleep"
  BY <1>1 DEF LoadingInv, LoadingThread, RunInv
<1>3. rq \in Seq(Threads) /\ wq \in Seq(Threads) /\ owner \in Owners /\ owner.readers \in Nat
  BY OwnerParts DEF TypeOK
<1>4. /\ rest \in Seq(Threads) /\ Queued(wq) \subseteq Queued(rest) \union {t}
      /\ wq # <<>>
  <2>1. wq # <<>>
    BY <1>1, SMT DEF Queued
  <2>2. QED
    BY <2>1, <1>1, <1>3, UnqueueQueue
<1>5. owner.waiters /\ exists
  BY <1>4, FreeValue DEF WaitersAreSeen, OwnerInv
<1>6. LocalTypes /\ OthersKeep(t) /\ pc'[t] = "idle"
  BY <1>1, ReturnStep DEF LocalTypes, OthersKeep, TypeOK
<1>7. CASE /\ WakesReaders(rest)
           /\ owner' = AllReaders(owner.readers)
           /\ run' = awake(Queued(rq))
           /\ rq' = <<>>
  <2>1. rest = <<>> /\ wq' = <<>>
    BY <1>1, <1>7 DEF WakesReaders
  <2>2. /\ owner' \in Owners /\ owner'.writer = NoThread /\ ~owner'.waiters
    BY <1>7, <1>3, AllReadersValue
  <2>3. OwnerStep
    BY <2>1, <2>2, <1>1, <1>5, <1>7 DEF OwnerStep, OwnerInv, WaitersAreSeen
  <2>4. Queued(rq) \in SUBSET Threads /\ <<>> \in Seq(Threads)
    BY <1>3, SMT DEF Queued
  <2>5. WakeStep(t, Queued(rq))
    BY <2>1, <2>3, <2>4, <1>1, <1>2, <1>4, <1>6, <1>7 DEF WakeStep
  <2>6. QED
    BY <2>4, <2>5, WakeStepInv
<1>8. CASE /\ owner' = IF rq = <<>> /\ rest = <<>>
                       THEN [owner EXCEPT !.waiters = FALSE] ELSE owner
           /\ UNCHANGED <<rq, run>>
  <2>1. /\ owner' \in Owners /\ owner'.writer = owner.writer
        /\ owner'.readers = owner.readers
        /\ owner'.waiters \/ (rq = <<>> /\ rest = <<>>)
        /\ owner'.waiters => owner.waiters
    BY <1>3, <1>5, <1>8 DEF Owners
  <2>2. OwnerStep
    BY <2>1, <1>1, <1>5, <1>8 DEF OwnerStep, OwnerInv, WaitersAreSeen
  <2>3. WakeStep(t, {})
    BY <2>2, <1>1, <1>2, <1>3, <1>4, <1>6, <1>8, AwakeNobody DEF WakeStep
  <2>4. QED
    BY <2>3, WakeStepInv
<1>9. QED
  BY <1>7, <1>8 DEF WLockRecheck

\* A thread hands the lock to the next writer, or leaves for a savestate.
LEMMA HandOverInv ==
  ASSUME IndInv, NEW t \in Threads, HandOver(t),
         pc[t] \in {"runlock_grant", "wunlock_grant"}, mutex \in {NoThread, t},
         mutex' = NoThread, UNCHANGED <<exists, old, signal, loading>>
  PROVE  IndInv'
<1> USE Constants DEF IndInv
<1> DEFINE i == schedule(wq)
<1>1. loading = {} /\ run[t] # "asleep"
  BY DEF LoadingInv, LoadingThread, RunInv
<1>2. /\ rq \in Seq(Threads) /\ wq \in Seq(Threads) /\ wq # <<>> /\ Len(wq) > 0
      /\ UNCHANGED rq
  BY SMT DEF TypeOK, HandOver
<1>3. i \in DOMAIN wq
  BY <1>2, ScheduleInQueue
<1>4. /\ Unlink(wq, i) \in Seq(Threads) /\ wq[i] \in Threads
      /\ Queued(wq) \subseteq Queued(Unlink(wq, i)) \union {wq[i]}
  BY <1>2, <1>3, UnlinkQueue
<1>5. owner.waiters /\ exists
  BY <1>2, FreeValue DEF WaitersAreSeen, OwnerInv
<1>6. CASE Again(t) /\ UNCHANGED <<owner, wq, run>>
  <2>1. Continue(t, "again") /\ "again" \in Labels /\ stopped' = stopped \union {t}
    BY <1>6 DEF Again, Labels, WaitLabels
  <2>2. LocalTypes /\ OthersKeep(t) /\ pc'[t] = "again" /\ UNCHANGED <<call, held>>
    BY <2>1, ContinueStep DEF LocalTypes, OthersKeep, TypeOK
  <2> USE <1>1, <1>2, <1>6, <2>1, <2>2 DEF OthersKeep
  <2>3. TypeOK'
    BY DEF TypeOK, ThreadsTypeOK, LocalTypes, Calls
  <2>4. MutexInv' /\ CasInv'
    BY DEF MutexInv, CasInv, InCallback, CanRead
  <2>5. OwnerInv' /\ WaitersAreSeen'
    BY DEF OwnerInv, WaitersAreSeen
  <2>6. CallInv' /\ RunInv'
    BY DEF CallInv, InWaitLoop, RunInv
  <2>7. SleepInv'
    BY DEF SleepInv, QueueOf, Stuck
  <2>8. LoadingInv'
    BY DEF LoadingInv
  <2>9. QED
    BY <2>3, <2>4, <2>5, <2>6, <2>7, <2>8
<1>7. CASE /\ wq' = Unlink(wq, i) /\ owner' = HandedTo(wq[i], wq')
           /\ run' = awake({wq[i]})
           /\ Return(t, "none") /\ UNCHANGED stopped
  <2>1. /\ owner' \in Owners /\ owner'.writer = wq[i] /\ owner'.readers = 0
        /\ owner'.waiters = (wq' # <<>> \/ rq # <<>>)
    BY <1>4, <1>7, HandedToValue
  <2>2. OwnerStep
    BY <2>1, <1>2, <1>4, <1>5 DEF OwnerStep, OwnerInv, WaitersAreSeen
  <2>3. LocalTypes /\ OthersKeep(t) /\ pc'[t] = "idle"
    BY <1>7, ReturnStep DEF LocalTypes, OthersKeep, TypeOK
  <2>4. WakeStep(t, {wq[i]})
    BY <2>2, <2>3, <1>1, <1>2, <1>4, <1>7 DEF WakeStep
  <2>5. QED
    BY <2>4, <1>4, WakeStepInv
<1>8. QED
  BY <1>6, <1>7 DEF HandOver

\* The second part of the critical section of runlock.
LEMMA RUnlockGrantInv ==
  ASSUME IndInv, NEW t \in Threads, RUnlockGrant(t)
  PROVE  IndInv'
<1> USE Constants DEF IndInv
<1>1. /\ pc[t] = "runlock_grant" /\ mutex' = NoThread
      /\ UNCHANGED <<exists, old, signal, loading>>
  BY DEF RUnlockGrant
<1>2. mutex = t /\ loading = {} /\ run[t] # "asleep"
  BY <1>1 DEF MutexInv, LoadingInv, LoadingThread, RunInv
<1>3. CASE HandOver(t)
  BY <1>1, <1>2, <1>3, HandOverInv
<1>4. CASE /\ wq = <<>> /\ rq = <<>> /\ owner' = Free
           /\ Return(t, "none") /\ UNCHANGED <<rq, wq, run, stopped>>
  <2>1. OwnerStep
    BY <1>4, FreeValue DEF OwnerStep, OwnerInv, WaitersAreSeen
  <2>2. LocalTypes /\ OthersKeep(t) /\ pc'[t] = "idle"
    BY <1>1, <1>4, ReturnStep DEF LocalTypes, OthersKeep, TypeOK
  <2>3. WakeStep(t, {})
    BY <2>1, <2>2, <1>1, <1>2, <1>4, AwakeNobody DEF WakeStep, TypeOK
  <2>4. QED
    BY <2>3, WakeStepInv
<1>5. QED
  BY <1>3, <1>4 DEF RUnlockGrant

\* The critical section of wunlock.
LEMMA WUnlockGrantInv ==
  ASSUME IndInv, NEW t \in Threads, WUnlockGrant(t)
  PROVE  IndInv'
<1> USE Constants DEF IndInv
<1>1. /\ pc[t] = "wunlock_grant" /\ mutex = NoThread
      /\ UNCHANGED <<exists, mutex, old, signal, loading>>
  BY DEF WUnlockGrant
<1>2. loading = {} /\ run[t] # "asleep"
  BY <1>1 DEF LoadingInv, LoadingThread, RunInv
<1>3. CASE HandOver(t)
  BY <1>1, <1>2, <1>3, HandOverInv
<1>4. CASE /\ Again(t) /\ UNCHANGED <<owner, rq, wq, run>>
  <2>1. Continue(t, "again") /\ "again" \in Labels /\ stopped' = stopped \union {t}
    BY <1>4 DEF Again, Labels, WaitLabels
  <2>2. LocalTypes /\ OthersKeep(t) /\ pc'[t] = "again" /\ UNCHANGED <<call, held>>
    BY <1>1, <2>1, ContinueStep DEF LocalTypes, OthersKeep, TypeOK
  <2> USE <1>1, <1>2, <1>4, <2>1, <2>2 DEF OthersKeep
  <2>3. TypeOK'
    BY DEF TypeOK, ThreadsTypeOK, LocalTypes, Calls
  <2>4. MutexInv' /\ CasInv'
    BY DEF MutexInv, CasInv, InCallback, CanRead
  <2>5. OwnerInv' /\ WaitersAreSeen'
    BY DEF OwnerInv, WaitersAreSeen
  <2>6. CallInv' /\ RunInv'
    BY DEF CallInv, InWaitLoop, RunInv
  <2>7. SleepInv'
    BY DEF SleepInv, QueueOf, Stuck
  <2>8. LoadingInv'
    BY DEF LoadingInv
  <2>9. QED
    BY <2>3, <2>4, <2>5, <2>6, <2>7, <2>8
<1>5. CASE /\ wq = <<>> /\ owner' = AllReaders(0) /\ run' = awake(Queued(rq))
           /\ rq' = <<>> /\ Return(t, "none") /\ UNCHANGED <<wq, stopped>>
  <2>1. rq \in Seq(Threads) /\ wq \in Seq(Threads) /\ <<>> \in Seq(Threads)
    BY SMT DEF TypeOK
  <2>2. /\ owner' \in Owners /\ owner'.writer = NoThread /\ ~owner'.waiters
        /\ owner'.readers = Len(rq) /\ (Len(rq) = 0 <=> rq = <<>>)
    BY <1>5, AllReadersValue, SMT
  <2>3. owner' # Free => exists
    <3>1. CASE rq = <<>>
      BY <3>1, <2>2, OwnerParts
    <3>2. CASE rq # <<>>
      BY <3>2, FreeValue DEF WaitersAreSeen, OwnerInv
    <3>3. QED
      BY <3>1, <3>2
  <2>4. OwnerStep
    BY <2>2, <2>3, <1>1, <1>5 DEF OwnerStep, OwnerInv, WaitersAreSeen
  <2>5. LocalTypes /\ OthersKeep(t) /\ pc'[t] = "idle"
    BY <1>1, <1>5, ReturnStep DEF LocalTypes, OthersKeep, TypeOK
  <2>6. Queued(rq) \in SUBSET Threads
    BY <2>1, SMT DEF Queued
  <2>7. WakeStep(t, Queued(rq))
    BY <2>1, <2>4, <2>5, <2>6, <1>1, <1>2, <1>5 DEF WakeStep
  <2>8. QED
    BY <2>6, <2>7, WakeStepInv
<1>6. QED
  BY <1>3, <1>4, <1>5 DEF WUnlockGrant

\* The loop that never ends.
LEMMA WLockRecheckStuckInv ==
  ASSUME IndInv, NEW t \in Threads, WLockRecheckStuck(t)
  PROVE  IndInv'
<1> USE Constants DEF IndInv
<1> DEFINE First(i) == /\ pc[rq[i]] = "again"
                       /\ \A j \in 1 .. i - 1 : pc[rq[j]] # "again"
           i == CHOOSE i \in DOMAIN rq : First(i)
<1>1. /\ pc[t] = "recheck" /\ mutex = NoThread /\ t \in Queued(wq)
      /\ wq' = unqueue(wq, t) /\ mutex' = t
      /\ \E u \in Queued(rq) : pc[u] = "again"
      /\ rq' = SubSeq(rq, i, Len(rq))
      /\ Continue(t, "stuck") /\ UNCHANGED <<exists, owner, threadVars, old>>
  BY DEF WLockRecheckStuck
<1>2. loading = {} /\ run[t] # "asleep"
  BY <1>1 DEF LoadingInv, LoadingThread, RunInv
<1>3. rq \in Seq(Threads) /\ wq \in Seq(Threads) /\ Len(rq) \in Nat /\ DOMAIN rq = 1 .. Len(rq)
  BY SMT DEF TypeOK
<1>4. \E k \in DOMAIN rq : First(k)
  <2> DEFINE A == {k \in DOMAIN rq : pc[rq[k]] = "again"}
  <2>1. A # {} /\ A \subseteq Nat
    BY <1>1, <1>3, SMT DEF Queued
  <2>2. PICK k \in A : \A j \in A : k <= j
    BY <2>1, LeastNatural
  <2>3. ASSUME NEW j \in 1 .. k - 1 PROVE pc[rq[j]] # "again"
    BY <2>2, <1>3, SMT
  <2>4. QED
    BY <2>2, <2>3
<1>5. i \in DOMAIN rq /\ First(i)
  BY <1>4
<1> HIDE DEF i
<1>6. rq' \in Seq(Threads)
  BY <1>1, <1>3, <1>5, SMT
<1>7. ASSUME NEW u \in Queued(rq), pc[u] = "again" PROVE u \in Queued(rq')
  <2>1. PICK k \in DOMAIN rq : rq[k] = u
    BY DEF Queued
  <2>2. i <= k
    BY <2>1, <1>3, <1>5, <1>7, SMT
  <2>3. /\ Len(rq') = Len(rq) - i + 1
        /\ \A m \in 1 .. Len(rq) - i + 1 : rq'[m] = rq[i + m - 1]
    BY <1>1, <1>3, <1>5, SMT
  <2>4. k - i + 1 \in 1 .. Len(rq) - i + 1 /\ rq'[k - i + 1] = u
    <3> DEFINE m == k - i + 1
    <3>1. m \in 1 .. Len(rq) - i + 1 /\ i + m - 1 = k
      BY <2>1, <2>2, <1>3, <1>5, SMT
    <3> HIDE DEF m
    <3>2. m \in 1 .. Len(rq) - i + 1 /\ rq'[m] = u
      BY <3>1, <2>1, <2>3
    <3>3. QED
      BY <3>2 DEF m
  <2>5. k - i + 1 \in DOMAIN rq'
    BY <2>3, <2>4, <1>6, SMT
  <2>6. QED
    BY <2>4, <2>5 DEF Queued
<1> HIDE DEF First
<1>8. /\ wq' \in Seq(Threads) /\ Queued(wq) \subseteq Queued(wq') \union {t} /\ wq # <<>>
  <2>1. wq # <<>>
    BY <1>1, SMT DEF Queued
  <2>2. QED
    BY <2>1, <1>1, <1>3, UnqueueQueue
<1>9. LocalTypes /\ OthersKeep(t) /\ pc'[t] = "stuck" /\ UNCHANGED <<call, held>>
  BY <1>1, ContinueStep DEF LocalTypes, OthersKeep, TypeOK, Labels
<1> USE DEF OthersKeep, threadVars
<1>10. TypeOK'
  BY <1>1, <1>6, <1>8, <1>9 DEF TypeOK, ThreadsTypeOK, LocalTypes, Calls
<1>11. MutexInv' /\ CasInv'
  BY <1>1, <1>9 DEF MutexInv, CasInv, InCallback, CanRead
<1>12. OwnerInv' /\ WaitersAreSeen'
  BY <1>1, <1>8 DEF OwnerInv, WaitersAreSeen
<1>13. CallInv' /\ RunInv'
  BY <1>1, <1>2, <1>9 DEF CallInv, InWaitLoop, RunInv
<1>14. SleepInv'
  <2> SUFFICES ASSUME NEW u \in Threads, run[u] = "asleep", pc'[u] = "again"
               PROVE  u \in Queued(QueueOf(u))'
    BY <1>1, <1>9 DEF SleepInv, Stuck
  <2>1. u # t /\ pc[u] = "again" /\ u \in Queued(QueueOf(u))
    BY <1>2, <1>9 DEF SleepInv
  <2>2. QED
    BY <2>1, <1>7, <1>8, <1>9 DEF QueueOf
<1>15. LoadingInv'
  BY <1>1, <1>2 DEF LoadingInv
<1>16. QED
  BY <1>10, <1>11, <1>12, <1>13, <1>14, <1>15

\* A thread queues and sleeps, in the queue q of its system call.
LEMMA BlockInv ==
  ASSUME IndInv, NEW t \in Threads, Block(t), mutex = NoThread,
         UNCHANGED <<exists, mutex, old, signal, stopped>>,
         owner.writer # NoThread \/ owner.readers > 0,
         \/ pc[t] = "rlock_lock" /\ rq' = emplace(rq, t) /\ wq' = wq
         \/ pc[t] = "wlock_lock" /\ wq' = emplace(wq, t) /\ rq' = rq
  PROVE  IndInv'
<1> USE Constants DEF IndInv
<1>1. /\ rq \in Seq(Threads) /\ wq \in Seq(Threads) /\ owner \in Owners
      /\ run \in [Threads -> RunStates] /\ loading \subseteq Threads
  BY DEF TypeOK, ThreadsTypeOK
<1>2. /\ rq' \in Seq(Threads) /\ wq' \in Seq(Threads)
      /\ Queued(rq) \subseteq Queued(rq') /\ Queued(wq) \subseteq Queued(wq')
      /\ pc[t] = "rlock_lock" => t \in Queued(rq')
      /\ pc[t] = "wlock_lock" => t \in Queued(wq')
  <2>1. /\ emplace(rq, t) \in Seq(Threads) /\ Queued(emplace(rq, t)) = Queued(rq) \union {t}
        /\ emplace(wq, t) \in Seq(Threads) /\ Queued(emplace(wq, t)) = Queued(wq) \union {t}
    BY <1>1, EmplaceQueue
  <2>2. CASE pc[t] = "rlock_lock" /\ rq' = emplace(rq, t) /\ wq' = wq
    BY ONLY <2>1, <2>2, <1>1, Zenon
  <2>3. CASE pc[t] = "wlock_lock" /\ wq' = emplace(wq, t) /\ rq' = rq
    BY ONLY <2>1, <2>3, <1>1, Zenon
  <2>4. QED
    BY <2>2, <2>3
<1>3. /\ owner' \in Owners /\ owner'.writer = owner.writer
      /\ owner'.readers = owner.readers /\ owner'.waiters
  BY <1>1 DEF Block, SetWaiters, Owners
<1>4. exists
  BY DEF CasInv, InCallback
<1>5. /\ LocalTypes /\ OthersKeep(t) /\ pc'[t] = "wait" /\ UNCHANGED <<call, held>>
  BY ContinueStep DEF Block, LocalTypes, OthersKeep, TypeOK, Labels, WaitLabels
<1>6. /\ run' \in [Threads -> RunStates]
      /\ \A u \in Threads : run'[u] = IF u = t /\ t \notin signal THEN "asleep" ELSE run[u]
      /\ loading' = loading \ {t}
  BY <1>1 DEF Block, sleep, slept, RunStates
<1>7. pc[t] \in {"rlock_lock", "wlock_lock"}
  OBVIOUS
<1> USE <1>2, <1>3, <1>4, <1>5, <1>6, <1>7 DEF OthersKeep
<1>8. TypeOK'
  BY DEF TypeOK, ThreadsTypeOK, LocalTypes, Calls
<1>9. MutexInv'
  BY DEF MutexInv
<1>10. CasInv'
  BY DEF CasInv, InCallback, CanRead
<1>11. OwnerInv' /\ WaitersAreSeen'
  BY DEF OwnerInv, WaitersAreSeen
<1>12. CallInv'
  BY SMT DEF CallInv, InWaitLoop
<1>13. RunInv'
  BY DEF RunInv
<1>14. SleepInv'
  <2> SUFFICES ASSUME NEW u \in Threads, run'[u] = "asleep"
               PROVE  \/ u \in Queued(QueueOf(u))'
                      \/ Stuck' /\ pc'[u] # "again"
    BY DEF SleepInv
  <2>1. CASE u = t
    BY <2>1 DEF QueueOf, CallInv
  <2>2. CASE u # t
    <3>1. run[u] = "asleep" /\ pc'[u] = pc[u] /\ call'[u] = call[u]
      BY <2>2
    <3>2. Stuck => Stuck'
      BY DEF Stuck
    <3>3. QED
      BY <3>1, <3>2 DEF SleepInv, QueueOf
  <2>3. QED
    BY <2>1, <2>2
<1>15. LoadingInv'
  <2> SUFFICES ASSUME loading' # {} PROVE LoadingInv'
    BY DEF LoadingInv
  <2>1. loading # {} /\ signal = {}
    BY DEF LoadingInv
  <2>2. ASSUME NEW u \in Threads PROVE LoadingThread(u)'
    BY <2>1 DEF LoadingThread, LoadingInv
  <2>3. ASSUME NEW u \in loading' PROVE call'[u].name \in {"rlock", "wlock"}
    BY <2>1 DEF LoadingInv
  <2>4. QED
    BY <2>1, <2>2, <2>3 DEF LoadingInv
<1>16. QED
  BY <1>8, <1>9, <1>10, <1>11, <1>12, <1>13, <1>14, <1>15

\* The critical section of rlock.
LEMMA RLockLockInv ==
  ASSUME IndInv, NEW t \in Threads, RLockLock(t)
  PROVE  IndInv'
<1> USE Constants DEF IndInv
<1>1. /\ pc[t] = "rlock_lock" /\ mutex = NoThread
      /\ UNCHANGED <<exists, wq, mutex, old, signal, stopped>>
      /\ exists /\ run[t] # "asleep"
  BY DEF RLockLock, CasInv, InCallback, RunInv
<1>2. CASE CanRead(owner)
  <2>1. /\ owner' = AddReaders(owner, 1) /\ Return(t, "read")
        /\ UNCHANGED <<rq, run, loading>>
    BY <1>2 DEF RLockLock
  <2>2. OwnerStep /\ ~owner.waiters
    BY <2>1, <1>1, <1>2, OneMoreReader
  <2>3. LocalStep(t) /\ pc'[t] = "idle"
    BY <2>1, <2>2, <1>1, ReturnStep DEF LocalStep, LocalTypes, OthersKeep, TypeOK
  <2>4. LocalObligation(t)
    BY <2>2, <2>3, <1>1 DEF LocalObligation, InCallback, InWaitLoop, LoadingInv
  <2>5. QED
    BY <2>3, <2>4, LocalStepInv
<1>3. CASE ~CanRead(owner)
  <2>1. Block(t) /\ rq' = emplace(rq, t)
    BY <1>3 DEF RLockLock
  <2>2. owner.writer # NoThread \/ owner.readers > 0
    BY <1>3 DEF CanRead, WaitersAreSeen
  <2>3. QED
    BY <2>1, <2>2, <1>1, BlockInv
<1>4. QED
  BY <1>2, <1>3

\* The critical section of wlock.
LEMMA WLockLockInv ==
  ASSUME IndInv, NEW t \in Threads, WLockLock(t)
  PROVE  IndInv'
<1> USE Constants DEF IndInv
<1>1. /\ pc[t] = "wlock_lock" /\ mutex = NoThread
      /\ UNCHANGED <<exists, rq, mutex, old, signal, stopped>>
      /\ exists /\ run[t] # "asleep"
  BY DEF WLockLock, CasInv, InCallback, RunInv
<1>2. CASE owner = Free
  <2>1. /\ owner' = Owner(t, 0, FALSE) /\ Return(t, "write")
        /\ UNCHANGED <<wq, run, loading>>
    BY <1>2 DEF WLockLock
  <2>2. OwnerStep /\ ~owner.waiters
    BY <2>1, <1>1, <1>2, NewWriter
  <2>3. LocalStep(t) /\ pc'[t] = "idle"
    BY <2>1, <2>2, <1>1, ReturnStep DEF LocalStep, LocalTypes, OthersKeep, TypeOK
  <2>4. LocalObligation(t)
    BY <2>2, <2>3, <1>1 DEF LocalObligation, InCallback, InWaitLoop, LoadingInv
  <2>5. QED
    BY <2>3, <2>4, LocalStepInv
<1>3. CASE owner # Free
  <2>1. Block(t) /\ wq' = emplace(wq, t)
    BY <1>3 DEF WLockLock
  <2>2. owner.writer # NoThread \/ owner.readers > 0
    <3>1. owner \in Owners /\ owner.readers \in Nat
      BY OwnerParts DEF TypeOK
    <3>2. QED
      BY <3>1, <1>3, OwnerParts, SMT DEF WaitersAreSeen
  <2>3. QED
    BY <2>1, <2>2, <1>1, BlockInv
<1>4. QED
  BY <1>2, <1>3

\* The first part of the critical section of runlock.
LEMMA RUnlockLockInv ==
  ASSUME IndInv, NEW t \in Threads, RUnlockLock(t)
  PROVE  IndInv'
<1> USE Constants DEF IndInv
<1>1. /\ pc[t] = "runlock_lock" /\ mutex = NoThread /\ owner.readers > 0
      /\ UNCHANGED <<exists, rq, wq, threadVars, old>>
  BY DEF RUnlockLock
<1>2. owner \in Owners /\ owner.readers \in Nat /\ exists
  BY <1>1, OwnerParts, FreeValue, SMT DEF TypeOK, OwnerInv
<1>3. loading = {} /\ run[t] # "asleep"
  BY <1>1 DEF LoadingInv, LoadingThread, RunInv
<1> USE DEF threadVars
<1>4. CASE owner.readers = 1 /\ owner.waiters
  <2>1. Continue(t, "runlock_grant") /\ mutex' = t /\ UNCHANGED owner
    BY <1>4 DEF RUnlockLock
  <2>2. LocalTypes /\ OthersKeep(t) /\ pc'[t] = "runlock_grant" /\ UNCHANGED <<call, held>>
    BY <1>1, <2>1, ContinueStep DEF LocalTypes, OthersKeep, TypeOK, Labels
  <2> USE <1>1, <1>3, <1>4, <2>1, <2>2 DEF OthersKeep
  <2>3. TypeOK'
    BY DEF TypeOK, ThreadsTypeOK, LocalTypes, Calls
  <2>4. MutexInv' /\ CasInv'
    BY DEF MutexInv, CasInv, InCallback, CanRead
  <2>5. OwnerInv' /\ WaitersAreSeen'
    BY DEF OwnerInv, WaitersAreSeen
  <2>6. CallInv' /\ RunInv'
    BY DEF CallInv, InWaitLoop, RunInv
  <2>7. SleepInv'
    BY DEF SleepInv, QueueOf, Stuck
  <2>8. LoadingInv'
    BY DEF LoadingInv
  <2>9. QED
    BY <2>3, <2>4, <2>5, <2>6, <2>7, <2>8
<1>5. CASE ~(owner.readers = 1 /\ owner.waiters)
  <2>1. Return(t, "none") /\ owner' = AddReaders(owner, -1) /\ UNCHANGED mutex
    BY <1>5 DEF RUnlockLock
  <2>2. owner.readers > 1 \/ ~owner.waiters
    BY <1>1, <1>2, <1>5, SMT
  <2>3. OwnerStep
    BY <2>1, <2>2, <1>1, <1>2, OneReaderLess
  <2>4. LocalStep(t) /\ pc'[t] = "idle"
    BY <2>1, <2>3, <1>1, <1>3, ReturnStep DEF LocalStep, LocalTypes, OthersKeep, TypeOK
  <2>5. LocalObligation(t)
    BY <2>4, <1>3 DEF LocalObligation, InCallback, InWaitLoop
  <2>6. QED
    BY <2>4, <2>5, LocalStepInv
<1>6. QED
  BY <1>4, <1>5

\* check_state of a thread whose time is over.
LEMMA CheckStateInv ==
  ASSUME IndInv, NEW t \in Threads, CheckState(t)
  PROVE  IndInv'
<1> USE Constants DEF IndInv, objVars
<1>1. UNCHANGED <<objVars, call, old, held>> /\ pc[t] = "resched"
  BY DEF CheckState, cpu_sleep, check_state
<1>2. call[t].name \in {"rlock", "wlock"}
  BY <1>1 DEF CallInv, InWaitLoop
<1>3. CASE cpu_sleep(t)
  <2>1. /\ run' \in [Threads -> RunStates]
        /\ \A u \in Threads : run'[u] = IF u = t THEN "ready" ELSE run[u]
        /\ UNCHANGED <<pc, signal, stopped, loading>>
    BY <1>3 DEF cpu_sleep, awake, TypeOK, ThreadsTypeOK, RunStates
  <2>2. t \notin signal
    BY <1>3 DEF cpu_sleep, RunInv
  <2> USE <1>1, <2>1, <2>2
  <2>3. TypeOK' /\ OwnerInv' /\ WaitersAreSeen'
    BY DEF TypeOK, ThreadsTypeOK, OwnerInv, WaitersAreSeen
  <2>4. MutexInv' /\ CasInv'
    BY DEF MutexInv, CasInv, InCallback
  <2>5. CallInv' /\ RunInv'
    BY DEF CallInv, InWaitLoop, RunInv
  <2>6. SleepInv'
    BY DEF SleepInv, QueueOf, Stuck
  <2>7. LoadingInv'
    BY DEF LoadingInv, LoadingThread
  <2>8. QED
    BY <2>3, <2>4, <2>5, <2>6, <2>7
<1>4. CASE check_state(t)
  <2> DEFINE l == IF t \in stopped THEN "wait" ELSE "recheck"
  <2>1. /\ pc' \in [Threads -> Labels] /\ pc'[t] = l
        /\ \A u \in Threads \ {t} : pc'[u] = pc[u]
        /\ signal' \subseteq signal /\ UNCHANGED <<run, stopped, loading>>
    BY <1>4 DEF check_state, Goto, unsignal, TypeOK, Labels, WaitLabels
  <2>2. loading = {} /\ (l = "recheck" => run[t] = "running")
    BY <1>1, <1>4 DEF check_state, LoadingInv, LoadingThread
  <2>3. l \in {"wait", "recheck"}
    OBVIOUS
  <2> HIDE DEF l
  <2> USE <1>1, <1>2, <2>1, <2>2, <2>3
  <2>4. TypeOK' /\ OwnerInv' /\ WaitersAreSeen'
    BY DEF TypeOK, ThreadsTypeOK, OwnerInv, WaitersAreSeen
  <2>5. MutexInv' /\ CasInv'
    BY DEF MutexInv, CasInv, InCallback
  <2>6. CallInv'
    BY DEF CallInv, InWaitLoop
  <2>7. RunInv'
    BY DEF RunInv
  <2>8. SleepInv'
    BY DEF SleepInv, QueueOf, Stuck
  <2>9. LoadingInv'
    BY DEF LoadingInv
  <2>10. QED
    BY <2>4, <2>5, <2>6, <2>7, <2>8, <2>9
<1>5. QED
  BY <1>3, <1>4 DEF CheckState

\* destroy and create.
LEMMA DestroyCreateInv ==
  ASSUME IndInv, NEW t \in Threads, Destroy(t) \/ Create(t)
  PROVE  IndInv'
<1> USE Constants DEF IndInv, threadVars
<1>1. /\ UNCHANGED <<owner, rq, wq, mutex, threadVars, pc, call, old, held>>
      /\ loading = {} /\ exists' \in BOOLEAN
      /\ ~exists' => owner = Free /\ \A u \in Threads : ~InCallback(u)
  BY DEF Destroy, Create, Idle
<1>2. TypeOK' /\ OwnerInv' /\ WaitersAreSeen' /\ MutexInv'
  BY <1>1 DEF TypeOK, ThreadsTypeOK, OwnerInv, WaitersAreSeen, MutexInv
<1>3. CasInv' /\ CallInv' /\ RunInv'
  BY <1>1 DEF CasInv, InCallback, CallInv, InWaitLoop, RunInv
<1>4. SleepInv' /\ LoadingInv'
  BY <1>1 DEF SleepInv, QueueOf, Stuck, LoadingInv
<1>5. QED
  BY <1>2, <1>3, <1>4

\* The scheduler grants the processor, or a thread gets its stop flag.
LEMMA ScheduleStopInv ==
  ASSUME IndInv, NEW t \in Threads, Schedule(t) \/ Stop(t)
  PROVE  IndInv'
<1> USE Constants DEF IndInv, objVars
<1>1. UNCHANGED <<objVars, call, old, held, pc, loading>> /\ loading = {}
  BY DEF Schedule, Stop, schedule_all, stop
<1>2. /\ run' \in [Threads -> RunStates]
      /\ \A u \in Threads : /\ run'[u] = "asleep" <=> run[u] = "asleep"
                            /\ run[u] = "running" => run'[u] = "running"
                            /\ u \in signal' => u \in signal \/ run'[u] = "running"
      /\ stopped \subseteq stopped'
      /\ signal' \subseteq Threads /\ stopped' \subseteq Threads
  <2>1. CASE Schedule(t)
    BY <2>1 DEF Schedule, schedule_all, TypeOK, ThreadsTypeOK, RunStates
  <2>2. CASE Stop(t)
    BY <2>2 DEF Stop, stop, TypeOK, ThreadsTypeOK, RunStates
  <2>3. QED
    BY <2>1, <2>2
<1>3. TypeOK' /\ OwnerInv' /\ WaitersAreSeen' /\ MutexInv'
  BY <1>1, <1>2 DEF TypeOK, ThreadsTypeOK, OwnerInv, WaitersAreSeen, MutexInv
<1>4. CasInv' /\ CallInv'
  BY <1>1, <1>2 DEF CasInv, InCallback, CallInv, InWaitLoop
<1>5. RunInv'
  BY <1>1, <1>2 DEF RunInv
<1>6. SleepInv' /\ LoadingInv'
  BY <1>1, <1>2 DEF SleepInv, QueueOf, Stuck, LoadingInv
<1>7. QED
  BY <1>3, <1>4, <1>5, <1>6

\* A savestate is loaded.
LEMMA LoadInv ==
  ASSUME IndInv, Load
  PROVE  IndInv'
<1> USE Constants DEF IndInv
<1>1. /\ UNCHANGED <<exists, owner, mutex, pc, call, old, held>>
      /\ rq' = <<>> /\ wq' = <<>> /\ signal' = {} /\ stopped' = {}
      /\ run' = [u \in Threads |-> "running"]
      /\ loading' = {u \in Threads : pc[u] = "again" /\ run[u] = "asleep"}
      /\ \A u \in Threads : pc[u] \in {"idle", "again"}
  BY DEF Load, load, saved
<1>2. ~Stuck
  BY <1>1 DEF Stuck
<1>3. loading' # {} => exists /\ owner.waiters
  <2> SUFFICES ASSUME NEW u \in Threads, pc[u] = "again", run[u] = "asleep"
               PROVE  exists /\ owner.waiters
    BY <1>1
  <2>1. u \in Queued(QueueOf(u))
    BY <1>2 DEF SleepInv
  <2>2. rq # <<>> \/ wq # <<>>
    BY <2>1, SMT DEF QueueOf, Queued
  <2>3. QED
    BY <2>2, FreeValue DEF WaitersAreSeen, OwnerInv
<1>4. TypeOK'
  BY <1>1, SMT DEF TypeOK, ThreadsTypeOK, RunStates
<1>5. OwnerInv' /\ WaitersAreSeen' /\ MutexInv'
  BY <1>1 DEF OwnerInv, WaitersAreSeen, MutexInv
<1>6. CasInv' /\ CallInv'
  BY <1>1 DEF CasInv, InCallback, CallInv, InWaitLoop
<1>7. RunInv' /\ SleepInv'
  BY <1>1 DEF RunInv, SleepInv
<1>8. LoadingInv'
  BY <1>1, <1>3 DEF LoadingInv, LoadingThread, CallInv
<1>9. QED
  BY <1>4, <1>5, <1>6, <1>7, <1>8

\* The lock starts in the invariant.
LEMMA InitInv == Init => IndInv
<1> SUFFICES ASSUME Init PROVE IndInv
  OBVIOUS
<1> USE Constants DEF Init, ThreadsInit
<1>1. TypeOK
  BY FreeValue, SMT DEF TypeOK, ThreadsTypeOK, Labels, WaitLabels, RunStates, NoCall, Call
<1>2. MutexInv /\ OwnerInv /\ WaitersAreSeen
  BY FreeValue DEF MutexInv, OwnerInv, WaitersAreSeen
<1>3. CasInv /\ CallInv /\ RunInv
  BY DEF CasInv, InCallback, CallInv, InWaitLoop, RunInv
<1>4. SleepInv /\ LoadingInv
  BY DEF SleepInv, LoadingInv
<1>5. QED
  BY <1>1, <1>2, <1>3, <1>4 DEF IndInv

\* Every step preserves the invariant.
LEMMA NextInv == IndInv /\ [Next]_vars => IndInv'
<1> SUFFICES ASSUME IndInv, [Next]_vars PROVE IndInv'
  OBVIOUS
<1>1. ASSUME NEW t \in Threads, Step(t) PROVE IndInv'
  BY <1>1, RLockCasInv, RLockLockInv, WLockCasInv, WLockLockInv, WaitSignalInv,
     WaitStoppedInv, WaitTimeoutInv, CheckStateInv, RLockRecheckInv,
     WLockRecheckOwnedInv, WLockRecheckInv, WLockRecheckStuckInv, RUnlockCasInv,
     RUnlockLockInv, RUnlockGrantInv, WUnlockGrantInv DEF Step
<1>2. ASSUME NEW t \in Threads, Enter(t) PROVE IndInv'
  BY <1>2, RLockLoadInv, WLockLoadInv, TryRLockInv, TryWLockInv, RUnlockLoadInv,
     WUnlockInv, DestroyCreateInv DEF Enter, Unlock
<1>3. CASE UNCHANGED vars
  <2> USE <1>3 DEF vars, objVars, threadVars, IndInv
  <2>1. TypeOK' /\ MutexInv' /\ OwnerInv' /\ WaitersAreSeen'
    BY DEF TypeOK, ThreadsTypeOK, MutexInv, OwnerInv, WaitersAreSeen
  <2>2. CasInv' /\ CallInv' /\ RunInv'
    BY DEF CasInv, InCallback, CallInv, InWaitLoop, RunInv
  <2>3. SleepInv' /\ LoadingInv'
    BY DEF SleepInv, QueueOf, Stuck, LoadingInv, LoadingThread
  <2>4. QED
    BY <2>1, <2>2, <2>3
<1>4. QED
  BY <1>1, <1>2, <1>3, ScheduleStopInv, LoadInv DEF Next

\* The invariant holds in every state of every behaviour.
THEOREM Invariance == Spec => []IndInv
  BY InitInv, NextInv, PTL DEF Spec

\* The variables keep their types.
THEOREM TypeCorrect == Spec => []TypeOK
<1>1. IndInv => TypeOK
  BY DEF IndInv
<1>2. QED
  BY <1>1, Invariance, PTL

(***************************************************************************)
(* The low bit of owner is set while a thread is queued, and only while    *)
(* somebody holds the lock, with savestates and without.                   *)
(***************************************************************************)
THEOREM WaitersSeen == Spec => []WaitersAreSeen
<1>1. IndInv => WaitersAreSeen
  BY DEF IndInv
<1>2. QED
  BY <1>1, Invariance, PTL

\* A thread that a load has to put to sleep finds the lock taken.
THEOREM LoadedSleep == Spec => []LoadedThreadsSleep
<1>1. IndInv => LoadedThreadsSleep
  <2> SUFFICES ASSUME IndInv, NEW t \in loading
               PROVE  exists /\ ~CanRead(owner) /\ owner # Free
    BY DEF LoadedThreadsSleep
  <2>1. exists /\ owner.waiters
    BY DEF IndInv, LoadingInv
  <2>2. QED
    BY <2>1, FreeValue DEF CanRead
<1>2. QED
  BY <1>1, Invariance, PTL

(***************************************************************************)
(* A step that lets readers in leaves no writer queued behind them: the    *)
(* low bit keeps them out of the fast paths, and the critical sections     *)
(* look at the queue of the writers first.                                 *)
(***************************************************************************)
LEMMA NoOvertaking ==
  ASSUME IndInv, Next, owner'.readers > owner.readers
  PROVE  wq' = <<>>
<1> USE DEF IndInv
<1>1. /\ owner \in Owners /\ owner.readers \in Nat /\ ~(0 > owner.readers)
      /\ ~(owner.readers > owner.readers) /\ owner' # owner
  <2>1. owner \in Owners /\ owner.readers \in Nat
    BY OwnerParts DEF TypeOK
  <2>2. QED
    BY <2>1, SMT
<1>2. ~owner.waiters => wq = <<>>
  BY DEF WaitersAreSeen
<1>3. ASSUME NEW t \in Threads, Step(t) PROVE wq' = <<>>
  <2>1. CASE RLockCas(t)
    BY <2>1, <1>1, <1>2 DEF RLockCas, CasSucceeds, CasInv, CanRead
  <2>2. CASE RLockLock(t)
    <3>1. CASE CanRead(owner)
      BY <3>1, <2>2, <1>2 DEF RLockLock, CanRead
    <3>2. CASE ~CanRead(owner)
      BY <3>2, <2>2, <1>1 DEF RLockLock, Block, SetWaiters, Owners
    <3>3. QED
      BY <3>1, <3>2
  <2>3. CASE WLockCas(t)
    <3>1. CASE owner = Free
      BY <3>1, <2>3, <1>1, SMT DEF WLockCas, Owner
    <3>2. CASE owner # Free
      BY <3>2, <2>3, <1>1 DEF WLockCas
    <3>3. QED
      BY <3>1, <3>2
  <2>4. CASE WLockLock(t)
    <3>1. CASE owner = Free
      BY <3>1, <2>4, <1>1, SMT DEF WLockLock, Owner
    <3>2. CASE owner # Free
      BY <3>2, <2>4, <1>1 DEF WLockLock, Block, SetWaiters, Owners
    <3>3. QED
      BY <3>1, <3>2
  <2>5. CASE WaitSignal(t) \/ WaitStopped(t) \/ WaitTimeout(t) \/ CheckState(t)
    BY <2>5, <1>1 DEF WaitSignal, WaitStopped, WaitTimeout, CheckState, objVars
  <2>6. CASE RLockRecheck(t) \/ WLockRecheckOwned(t) \/ WLockRecheckStuck(t)
    BY <2>6, <1>1 DEF RLockRecheck, WLockRecheckOwned, WLockRecheckStuck, objVars
  <2>7. CASE WLockRecheck(t)
    <3>1. CASE WakesReaders(unqueue(wq, t))
      BY <3>1, <2>7 DEF WLockRecheck, WakesReaders
    <3>2. CASE ~WakesReaders(unqueue(wq, t))
      BY <3>2, <2>7, <1>1 DEF WLockRecheck, Owners
    <3>3. QED
      BY <3>1, <3>2
  <2>8. CASE RUnlockCas(t) \/ RUnlockLock(t)
    <3>1. owner' = AddReaders(owner, -1)
      BY <2>8, <1>1 DEF RUnlockCas, RUnlockLock
    <3>2. owner'.readers = owner.readers - 1
      BY <3>1, <1>1 DEF AddReaders, Owners
    <3>3. QED
      BY <3>2, <1>1, SMT
  <2>9. CASE HandOver(t)
    <3>1. CASE pc[wq[schedule(wq)]] = "again"
      BY <3>1, <2>9, <1>1 DEF HandOver
    <3>2. CASE pc[wq[schedule(wq)]] # "again"
      BY <3>2, <2>9, <1>1, SMT DEF HandOver, HandedTo, Owner
    <3>3. QED
      BY <3>1, <3>2
  <2>10. CASE RUnlockGrant(t) /\ ~HandOver(t)
    BY <2>10, <1>1, FreeValue DEF RUnlockGrant
  <2>11. CASE WUnlockGrant(t) /\ ~HandOver(t)
    BY <2>11, <1>1 DEF WUnlockGrant
  <2>12. QED
    BY <1>3, <2>1, <2>2, <2>3, <2>4, <2>5, <2>6, <2>7, <2>8, <2>9, <2>10, <2>11 DEF Step
<1>4. ASSUME NEW t \in Threads, Enter(t) PROVE wq' = <<>>
  <2>1. CASE \E timed \in BOOLEAN : RLockLoad(t, timed) \/ WLockLoad(t, timed)
    BY <2>1, <1>1 DEF RLockLoad, WLockLoad, objVars
  <2>2. CASE TryRLock(t)
    BY <2>2, <1>2 DEF TryRLock, CanRead
  <2>3. CASE TryWLock(t)
    BY <2>3, <1>1 DEF TryWLock, Owner
  <2>4. CASE RUnlockLoad(t) \/ Destroy(t) \/ Create(t)
    BY <2>4, <1>1 DEF RUnlockLoad, Destroy, Create, objVars
  <2>5. CASE WUnlock(t)
    BY <2>5, <1>1, FreeValue DEF WUnlock
  <2>6. QED
    BY <1>4, <2>1, <2>2, <2>3, <2>4, <2>5 DEF Enter, Unlock
<1>5. ASSUME NEW t \in Threads, Schedule(t) \/ Stop(t) PROVE wq' = <<>>
  BY <1>5, <1>1 DEF Schedule, Stop, objVars
<1>6. CASE Load
  BY <1>6 DEF Load
<1>7. QED
  BY <1>3, <1>4, <1>5, <1>6 DEF Next

\* Readers never overtake a writer that waits.
THEOREM NoOvertake == Spec => ReadersDoNotOvertake
<1>1. IndInv /\ [Next]_vars => [owner'.readers > owner.readers => wq' = <<>>]_vars
  BY NoOvertaking
<1>2. QED
  BY <1>1, Invariance, PTL DEF Spec, ReadersDoNotOvertake

-----------------------------------------------------------------------------
(***************************************************************************)
(* Who holds the lock, without savestates.  The invariant HoldInv, next to *)
(* IndInv, relates owner to what each thread was told or is about to be    *)
(* told.                                                                   *)
(***************************************************************************)
\* No savestate is made.
Plain ==
  /\ stopped = {} /\ loading = {}
  /\ \A t \in Threads : pc[t] \notin {"again", "stuck"}

\* A thread is queued once, in the queue of its system call, while it is in
\* the wait loop.
QueueInv ==
  /\ NoDuplicates(rq) /\ NoDuplicates(wq)
  /\ \A t \in Queued(rq) : InWaitLoop(t) /\ call[t].name = "rlock"
  /\ \A t \in Queued(wq) : InWaitLoop(t) /\ call[t].name = "wlock"

\* A thread that waits in the queue is asleep; cpu_flag::signal does not leave
\* the wait loop.
WakeInv ==
  \A t \in Threads :
    /\ pc[t] = "wait" /\ t \in Queued(QueueOf(t)) => run[t] = "asleep"
    /\ t \in signal \/ run[t] = "ready" => InWaitLoop(t)
    /\ pc[t] = "recheck" => t \notin signal

\* What a thread in a system call was told before.
HeldThread(t) ==
  /\ \/ InWaitLoop(t)
     \/ pc[t] \in {"rlock_cas", "rlock_lock", "wlock_cas", "wlock_lock"}
     => held[t] = "none"
  /\ pc[t] \in {"runlock_cas", "runlock_lock", "runlock_grant"} => held[t] = "read"
  /\ pc[t] = "wunlock_grant" => held[t] = "write"

HeldInv == \A t \in Threads : HeldThread(t)

\* Threads wait for readers only if the first of them is a writer.
WaitForReaders == owner.readers > 0 /\ owner.waiters => wq # <<>>

HoldInv ==
  /\ Plain /\ QueueInv /\ WakeInv /\ HeldInv /\ WaitForReaders
  /\ IsFiniteSet(Readers) /\ OwnerMatchesHolders

-----------------------------------------------------------------------------
\* Counting: no element, one more element, one less, two disjoint sets.
LEMMA CountEmpty == IsFiniteSet({}) /\ Cardinality({}) = 0
  BY FS_EmptySet

\* A finite set has a size, which is 0 if it is empty.
LEMMA CountNat ==
  ASSUME NEW S, IsFiniteSet(S)
  PROVE  Cardinality(S) \in Nat /\ (Cardinality(S) = 0 <=> S = {})
  BY FS_CardinalityType, FS_EmptySet

\* One element more.
LEMMA CountAdd ==
  ASSUME NEW S, IsFiniteSet(S), NEW x, x \notin S
  PROVE  IsFiniteSet(S \union {x}) /\ Cardinality(S \union {x}) = Cardinality(S) + 1
  BY FS_AddElement

\* One element less.
LEMMA CountRemove ==
  ASSUME NEW S, IsFiniteSet(S), NEW x \in S
  PROVE  IsFiniteSet(S \ {x}) /\ Cardinality(S \ {x}) = Cardinality(S) - 1
  BY FS_RemoveElement

\* Two sets that have nothing in common.
LEMMA CountUnion ==
  ASSUME NEW S, IsFiniteSet(S), NEW T, IsFiniteSet(T), S \intersect T = {}
  PROVE  /\ IsFiniteSet(S \union T)
         /\ Cardinality(S \union T) = Cardinality(S) + Cardinality(T)
  BY FS_Union, FS_EmptySet, FS_CardinalityType, SMT

\* A queue has as many members as places.
LEMMA CountQueue ==
  ASSUME NEW sq \in Seq(Threads), NoDuplicates(sq)
  PROVE  IsFiniteSet(Queued(sq)) /\ Cardinality(Queued(sq)) = Len(sq)
<1>1. Len(sq) \in Nat /\ DOMAIN sq = 1 .. Len(sq)
  BY SMT
<1>2. sq \in [1 .. Len(sq) -> Queued(sq)]
  BY <1>1, SMT DEF Queued
<1>3. sq \in Bijection(1 .. Len(sq), Queued(sq))
  <2>1. \A a, b \in 1 .. Len(sq) : sq[a] = sq[b] => a = b
    BY <1>1 DEF NoDuplicates
  <2>2. \A t \in Queued(sq) : \E a \in 1 .. Len(sq) : sq[a] = t
    BY <1>1 DEF Queued
  <2>3. QED
    BY <1>2, <2>1, <2>2 DEF Bijection, Injection, Surjection, IsInjective
<1>4. ExistsBijection(1 .. Len(sq), Queued(sq))
  BY <1>3 DEF ExistsBijection
<1>5. IsFiniteSet(1 .. Len(sq)) /\ Cardinality(1 .. Len(sq)) = Len(sq)
  BY <1>1, FS_Interval, SMT
<1>6. QED
  BY <1>4, <1>5, FS_Bijection

-----------------------------------------------------------------------------
(***************************************************************************)
(* Without savestates: who holds the lock.                                 *)
(***************************************************************************)
\* A thread outside the wait loop is in no queue, and is no reader or writer
\* but for what it was told.
LEMMA NotWaiting ==
  ASSUME HoldInv, NEW t \in Threads, ~InWaitLoop(t)
  PROVE  /\ t \notin Queued(rq) /\ t \notin Queued(wq)
         /\ t \notin signal /\ run[t] # "ready"
         /\ t \in Readers <=> held[t] = "read"
         /\ t \in Writers <=> held[t] = "write"
  BY DEF HoldInv, QueueInv, WakeInv, Readers, Writers, Granted

\* What owner says of the holders.
LEMMA HolderFacts ==
  ASSUME IndInv, HoldInv
  PROVE  /\ owner.readers \in Nat /\ owner.writer \in Threads \union {NoThread}
         /\ Cardinality(Readers) = owner.readers
         /\ \A u \in Threads : u \in Writers <=> owner.writer = u
         /\ owner.writer # NoThread => Readers = {}
         /\ Readers # {} => owner.readers > 0
<1> USE Constants
<1>1. owner.readers \in Nat /\ owner.writer \in Threads \union {NoThread}
  BY OwnerParts DEF IndInv, TypeOK
<1>2. /\ Cardinality(Readers) = owner.readers
      /\ \A u \in Threads : u \in Writers <=> owner.writer = u
      /\ owner.writer # NoThread => owner.readers = 0
  BY DEF HoldInv, OwnerMatchesHolders
<1>3. owner.readers = 0 <=> Readers = {}
  BY <1>2, CountNat DEF HoldInv
<1>4. QED
  BY <1>1, <1>2, <1>3, SMT

\* The readers and owner change together.
LEMMA HoldersMatch ==
  ASSUME IndInv, HoldInv, IndInv',
         \/ Readers' = Readers /\ owner'.readers = owner.readers
         \/ \E t \in Threads \ Readers : /\ Readers' = Readers \union {t}
                                         /\ owner'.readers = owner.readers + 1
         \/ \E t \in Readers : /\ Readers' = Readers \ {t}
                               /\ owner'.readers = owner.readers - 1
         \/ /\ Readers' = Readers \union Queued(rq)
            /\ owner'.readers = owner.readers + Len(rq),
         Writers' = {owner'.writer} \ {NoThread}
  PROVE  IsFiniteSet(Readers)' /\ OwnerMatchesHolders'
<1> USE DEF HoldInv
<1>1. owner'.writer # NoThread => owner'.readers = 0
  BY DEF IndInv, OwnerInv
<1>2. IsFiniteSet(Readers) /\ Cardinality(Readers) = owner.readers
  BY DEF OwnerMatchesHolders
<1>3. IsFiniteSet(Readers') /\ Cardinality(Readers') = owner'.readers
  <2>1. CASE Readers' = Readers /\ owner'.readers = owner.readers
    BY <2>1, <1>2
  <2>2. CASE \E t \in Threads \ Readers : /\ Readers' = Readers \union {t}
                                          /\ owner'.readers = owner.readers + 1
    BY <2>2, <1>2, CountAdd
  <2>3. CASE \E t \in Readers : /\ Readers' = Readers \ {t}
                                /\ owner'.readers = owner.readers - 1
    BY <2>3, <1>2, CountRemove
  <2>4. CASE /\ Readers' = Readers \union Queued(rq)
             /\ owner'.readers = owner.readers + Len(rq)
    <3>1. IsFiniteSet(Queued(rq)) /\ Cardinality(Queued(rq)) = Len(rq)
      BY CountQueue DEF IndInv, TypeOK, QueueInv
    <3>2. Readers \intersect Queued(rq) = {}
      BY DEF Readers, Granted, QueueInv, HeldInv, HeldThread, QueueOf
    <3>3. QED
      BY <2>4, <3>1, <3>2, <1>2, CountUnion
  <2>5. QED
    BY <2>1, <2>2, <2>3, <2>4
<1>4. QED
  BY <1>1, <1>3 DEF OwnerMatchesHolders

\* The other threads keep what they were told.
OthersHold(t) == \A u \in Threads \ {t} : held'[u] = held[u]

\* The invariants of the queues and the scheduler, and how the holders follow.
Calm == Plain /\ QueueInv /\ WakeInv /\ HeldInv

\* A step outside the wait loop.
OutsideStep(t) ==
  /\ OthersKeep(t) /\ OthersHold(t)
  /\ ~InWaitLoop(t) /\ ~InWaitLoop(t)'
  /\ pc'[t] \notin {"again", "stuck"}
  /\ HeldThread(t)'
  /\ UNCHANGED <<rq, wq, run, signal, stopped, loading>>

\* A step outside of the queues concerns what its own thread was told only.
LEMMA OutsideCalm ==
  ASSUME IndInv, HoldInv, IndInv', NEW t \in Threads, OutsideStep(t)
  PROVE  /\ Calm'
         /\ \A u \in Threads \ {t} : /\ u \in Readers' <=> u \in Readers
                                     /\ u \in Writers' <=> u \in Writers
         /\ t \in Readers <=> held[t] = "read"
         /\ t \in Readers' <=> held'[t] = "read"
         /\ t \in Writers <=> held[t] = "write"
         /\ t \in Writers' <=> held'[t] = "write"
<1> USE DEF HoldInv, OutsideStep, OthersKeep, OthersHold
<1>1. t \notin Queued(rq) /\ t \notin Queued(wq) /\ t \notin signal /\ run[t] # "ready"
  BY NotWaiting
<1>2. Plain'
  BY DEF Plain
<1>3. QueueInv'
  <2>1. Queued(rq) \subseteq Threads /\ Queued(wq) \subseteq Threads
    BY SMT DEF IndInv, TypeOK, Queued
  <2>2. QED
    BY <1>1, <2>1, SMT DEF QueueInv, InWaitLoop
<1>4. WakeInv'
  BY <1>1 DEF WakeInv, InWaitLoop, QueueOf
<1>5. HeldInv'
  BY DEF HeldInv, HeldThread, InWaitLoop
<1>6. \A u \in Threads \ {t} : /\ u \in Readers' <=> u \in Readers
                               /\ u \in Writers' <=> u \in Writers
  BY DEF Readers, Writers, Granted, InWaitLoop, QueueOf
<1>7. /\ t \in Readers <=> held[t] = "read"
      /\ t \in Writers <=> held[t] = "write"
  BY NotWaiting
<1>8. /\ t \in Readers' <=> held'[t] = "read"
      /\ t \in Writers' <=> held'[t] = "write"
  BY DEF Readers, Writers, Granted
<1>9. QED
  BY <1>2, <1>3, <1>4, <1>5, <1>6, <1>7, <1>8 DEF Calm

\* A step outside the wait loop that changes the holders together with owner.
LEMMA OutsideHold ==
  ASSUME IndInv, HoldInv, IndInv', NEW t \in Threads, OutsideStep(t),
         owner'.readers > 0 /\ owner'.waiters => owner.readers > 0 /\ owner.waiters,
         \/ held'[t] = held[t] /\ owner' = owner
         \/ /\ held[t] = "none" /\ held'[t] = "read"
            /\ owner'.readers = owner.readers + 1
            /\ owner.writer = NoThread /\ owner'.writer = NoThread
         \/ /\ held[t] = "none" /\ held'[t] = "write"
            /\ owner.writer = NoThread /\ owner'.writer = t
            /\ owner'.readers = owner.readers
         \/ /\ held[t] = "read" /\ held'[t] = "none"
            /\ owner'.readers = owner.readers - 1
            /\ owner'.writer = owner.writer
         \/ /\ held[t] = "write" /\ held'[t] = "none"
            /\ owner.writer = t /\ owner'.writer = NoThread
            /\ owner'.readers = owner.readers
  PROVE  HoldInv'
<1> USE Constants
<1>1. /\ Calm'
      /\ \A u \in Threads \ {t} : /\ u \in Readers' <=> u \in Readers
                                  /\ u \in Writers' <=> u \in Writers
      /\ t \in Readers <=> held[t] = "read"
      /\ t \in Readers' <=> held'[t] = "read"
      /\ t \in Writers <=> held[t] = "write"
      /\ t \in Writers' <=> held'[t] = "write"
  BY OutsideCalm
<1>2. /\ owner.readers \in Nat /\ owner.writer \in Threads \union {NoThread}
      /\ \A u \in Threads : u \in Writers <=> owner.writer = u
      /\ owner'.writer \in Threads \union {NoThread} /\ owner'.readers \in Nat
  BY HolderFacts, OwnerParts DEF IndInv, TypeOK
<1>3. Readers \subseteq Threads /\ Readers' \subseteq Threads /\ Writers' \subseteq Threads
  BY DEF Readers, Writers
<1>4. \/ Readers' = Readers /\ owner'.readers = owner.readers
      \/ \E u \in Threads \ Readers : /\ Readers' = Readers \union {u}
                                      /\ owner'.readers = owner.readers + 1
      \/ \E u \in Readers : /\ Readers' = Readers \ {u}
                            /\ owner'.readers = owner.readers - 1
  <2>1. CASE held'[t] = held[t] \/ {held[t], held'[t]} = {"none", "write"}
    BY <2>1, <1>1, <1>3, SMT
  <2>2. CASE held[t] = "none" /\ held'[t] = "read"
    <3>1. t \in Threads \ Readers /\ Readers' = Readers \union {t}
      BY <2>2, <1>1, <1>3
    <3>2. QED
      BY <3>1, <2>2
  <2>3. CASE held[t] = "read" /\ held'[t] = "none"
    <3>1. t \in Readers /\ Readers' = Readers \ {t}
      BY <2>3, <1>1, <1>3
    <3>2. QED
      BY <3>1, <2>3
  <2>4. QED
    BY <2>1, <2>2, <2>3
<1>5. \A u \in Threads : u \in Writers' <=> owner'.writer = u
  BY <1>1, <1>2, SMT
<1>6. Writers' = {owner'.writer} \ {NoThread}
  BY <1>2, <1>3, <1>5
<1>7. IsFiniteSet(Readers)' /\ OwnerMatchesHolders'
  BY <1>4, <1>6, HoldersMatch
<1>8. WaitForReaders'
  BY DEF WaitForReaders, HoldInv, OutsideStep
<1>9. QED
  BY <1>1, <1>7, <1>8 DEF HoldInv, Calm

-----------------------------------------------------------------------------
(***************************************************************************)
(* A step that ends the system call of a thread, takes the threads in S    *)
(* off the queues and awakes them: those become holders.                   *)
(***************************************************************************)
GrantStep(t, S) ==
  /\ OthersKeep(t) /\ OthersHold(t)
  /\ pc'[t] = "idle"
  /\ NoDuplicates(rq') /\ NoDuplicates(wq')
  /\ Queued(rq') = Queued(rq) \ (S \union {t})
  /\ Queued(wq') = Queued(wq) \ (S \union {t})
  /\ S \subseteq Queued(rq) \union Queued(wq)
  /\ t \notin S
  /\ run' = awake(S)
  /\ signal' \subseteq signal /\ t \notin signal' /\ run[t] # "ready"
  /\ UNCHANGED <<stopped, loading>>

\* A step that wakes the threads of S adds those that it wakes to the holders.
LEMMA GrantCalm ==
  ASSUME IndInv, HoldInv, IndInv', NEW t \in Threads, NEW S \in SUBSET Threads,
         GrantStep(t, S)
  PROVE  /\ Calm'
         /\ \A u \in Threads \ {t} :
              /\ u \in Readers' <=> u \in Readers \/ u \in S \intersect Queued(rq)
              /\ u \in Writers' <=> u \in Writers \/ u \in S \intersect Queued(wq)
         /\ t \in Readers' <=> held'[t] = "read"
         /\ t \in Writers' <=> held'[t] = "write"
<1> USE DEF HoldInv, GrantStep, OthersKeep, OthersHold
<1>1. \A u \in Threads : run'[u] = IF u \in S /\ run[u] = "asleep" THEN "ready" ELSE run[u]
  BY DEF awake
<1>2. Plain'
  BY DEF Plain
<1>3. QueueInv'
  <2>1. Queued(rq') \subseteq Threads \ {t} /\ Queued(wq') \subseteq Threads \ {t}
    BY SMT DEF IndInv, TypeOK, Queued
  <2>2. QED
    BY <2>1 DEF QueueInv, InWaitLoop
<1>4. \A u \in Threads \ {t} :
        /\ u \in Queued(rq') => u \in Queued(rq)
        /\ u \in Queued(wq') => u \in Queued(wq)
        /\ u \in S => InWaitLoop(u)
  BY DEF QueueInv
<1>5. WakeInv'
  <2> SUFFICES ASSUME NEW u \in Threads
               PROVE  /\ (pc[u] = "wait" /\ u \in Queued(QueueOf(u)) => run[u] = "asleep")'
                      /\ (u \in signal \/ run[u] = "ready" => InWaitLoop(u))'
                      /\ (pc[u] = "recheck" => u \notin signal)'
    BY DEF WakeInv
  <2>1. CASE u = t
    BY <2>1, <1>1 DEF InWaitLoop
  <2>2. CASE u # t
    <3>1. pc'[u] = pc[u] /\ call'[u] = call[u] /\ (InWaitLoop(u)' <=> InWaitLoop(u))
      BY <2>2 DEF InWaitLoop
    <3>2. (pc[u] = "wait" /\ u \in Queued(QueueOf(u)) => run[u] = "asleep")'
      BY <2>2, <3>1, <1>1, <1>4 DEF WakeInv, QueueOf
    <3>3. (u \in signal \/ run[u] = "ready" => InWaitLoop(u))'
      BY <2>2, <3>1, <1>1, <1>4 DEF WakeInv
    <3>4. QED
      BY <3>1, <3>2, <3>3 DEF WakeInv
  <2>3. QED
    BY <2>1, <2>2
<1>6. HeldInv'
  BY DEF HeldInv, HeldThread, InWaitLoop
<1>7. ASSUME NEW u \in Threads \ {t}
      PROVE  /\ u \in Readers' <=> u \in Readers \/ u \in S \intersect Queued(rq)
             /\ u \in Writers' <=> u \in Writers \/ u \in S \intersect Queued(wq)
  <2>1. /\ u \in Queued(rq) => InWaitLoop(u) /\ call[u].name = "rlock"
        /\ u \in Queued(wq) => InWaitLoop(u) /\ call[u].name = "wlock"
        /\ InWaitLoop(u)' <=> InWaitLoop(u)
        /\ InWaitLoop(u) => call[u].name \in {"rlock", "wlock"}
        /\ call'[u] = call[u] /\ held'[u] = held[u]
    BY DEF QueueInv, InWaitLoop, IndInv, CallInv
  <2>2. /\ u \in Queued(rq') <=> u \in Queued(rq) /\ u \notin S
        /\ u \in Queued(wq') <=> u \in Queued(wq) /\ u \notin S
    OBVIOUS
  <2>3. QED
    BY <2>1, <2>2 DEF Readers, Writers, Granted, QueueOf
<1>8. /\ t \in Readers' <=> held'[t] = "read"
      /\ t \in Writers' <=> held'[t] = "write"
  BY DEF Readers, Writers, Granted, InWaitLoop
<1>9. QED
  BY <1>2, <1>3, <1>5, <1>6, <1>7, <1>8 DEF Calm

\* A thread in the wait loop holds the lock once it is out of the queue.
LEMMA Waiting ==
  ASSUME IndInv, HoldInv, NEW t \in Threads, InWaitLoop(t)
  PROVE  /\ held[t] = "none" /\ call[t].name \in {"rlock", "wlock"}
         /\ t \in Readers <=> call[t].name = "rlock" /\ t \notin Queued(rq)
         /\ t \in Writers <=> call[t].name = "wlock" /\ t \notin Queued(wq)
<1>1. held[t] = "none" /\ call[t].name \in {"rlock", "wlock"}
  BY DEF IndInv, CallInv, HoldInv, HeldInv, HeldThread
<1>2. QED
  BY <1>1 DEF Readers, Writers, Granted, QueueOf

\* The thread that unlocks hands the lock over, or the thread keeps it.
LEMMA HoldAfter ==
  ASSUME IndInv, HoldInv, IndInv', Calm', WaitForReaders',
         \/ Readers' = Readers /\ owner'.readers = owner.readers
         \/ \E t \in Threads \ Readers : /\ Readers' = Readers \union {t}
                                         /\ owner'.readers = owner.readers + 1
         \/ \E t \in Readers : /\ Readers' = Readers \ {t}
                               /\ owner'.readers = owner.readers - 1
         \/ /\ Readers' = Readers \union Queued(rq)
            /\ owner'.readers = owner.readers + Len(rq),
         \A u \in Threads : u \in Writers' <=> owner'.writer = u
  PROVE  HoldInv'
<1>1. owner'.writer \in Threads \union {NoThread}
  BY OwnerParts DEF IndInv, TypeOK
<1>2. Writers' \subseteq Threads
  BY DEF Writers
<1>3. Writers' = {owner'.writer} \ {NoThread}
  BY <1>1, <1>2, Constants
<1>4. QED
  BY <1>3, HoldersMatch DEF HoldInv, Calm

\* A step that ends the system call and wakes nobody.
LEMMA LeaveHold ==
  ASSUME IndInv, HoldInv, IndInv', NEW t \in Threads, GrantStep(t, {}), InWaitLoop(t),
         WaitForReaders',
         t \in Readers <=> held'[t] = "read", t \in Writers <=> held'[t] = "write",
         owner'.readers = owner.readers, owner'.writer = owner.writer
  PROVE  HoldInv'
<1>1. /\ Calm'
      /\ \A u \in Threads \ {t} : /\ u \in Readers' <=> u \in Readers
                                  /\ u \in Writers' <=> u \in Writers
      /\ t \in Readers' <=> held'[t] = "read"
      /\ t \in Writers' <=> held'[t] = "write"
  BY GrantCalm, SMT
<1>2. Readers \subseteq Threads /\ Readers' \subseteq Threads
  BY DEF Readers
<1>3. Readers' = Readers
  BY <1>1, <1>2, SMT
<1>4. \A u \in Threads : u \in Writers' <=> owner'.writer = u
  BY <1>1, HolderFacts
<1>5. QED
  BY <1>1, <1>3, <1>4, HoldAfter

\* cpu_flag::signal in the wait loop.
LEMMA WaitSignalHold ==
  ASSUME IndInv, HoldInv, IndInv', NEW t \in Threads, WaitSignal(t)
  PROVE  HoldInv'
<1>1. /\ pc[t] = "wait" /\ t \in signal /\ signal' = signal \ {t}
      /\ UNCHANGED <<run, stopped, loading, owner, rq, wq>>
      /\ Return(t, Wanted(t)) /\ Wanted(t) \in {"none", "read", "write"}
  BY DEF WaitSignal, WaitEnds, objVars, Wanted
<1>2. TypeOK /\ run[t] = "running" /\ InWaitLoop(t) /\ t \notin Queued(QueueOf(t))
  BY <1>1 DEF IndInv, RunInv, HoldInv, WakeInv, InWaitLoop
<1>3. /\ call[t].name \in {"rlock", "wlock"}
      /\ t \in Readers <=> call[t].name = "rlock"
      /\ t \in Writers <=> call[t].name = "wlock"
      /\ t \notin Queued(rq) /\ t \notin Queued(wq)
  BY <1>2, Waiting DEF QueueOf, HoldInv, QueueInv
<1>4. UNCHANGED old
  BY DEF WaitSignal
<1>5. OthersKeep(t) /\ OthersHold(t) /\ pc'[t] = "idle" /\ held'[t] = Wanted(t)
  BY <1>1, <1>2, <1>4, ReturnStep DEF OthersKeep, OthersHold
<1>6. GrantStep(t, {})
  BY <1>1, <1>2, <1>3, <1>5, AwakeNobody DEF GrantStep, HoldInv, QueueInv
<1>7. WaitForReaders'
  BY <1>1 DEF HoldInv, WaitForReaders
<1>8. t \in Readers <=> held'[t] = "read"
  BY <1>3, <1>5 DEF Wanted
<1>9. t \in Writers <=> held'[t] = "write"
  BY <1>3, <1>5 DEF Wanted
<1>10. QED
  BY <1>1, <1>2, <1>6, <1>7, <1>8, <1>9, LeaveHold

\* The end of a timeout of rlock.
LEMMA RLockRecheckHold ==
  ASSUME IndInv, HoldInv, IndInv', NEW t \in Threads, RLockRecheck(t)
  PROVE  HoldInv'
<1>1. /\ pc[t] = "recheck" /\ call[t].name = "rlock"
      /\ UNCHANGED <<owner, wq, run, signal, stopped, loading, old>>
  BY DEF RLockRecheck, threadVars
<1>2. /\ TypeOK /\ run[t] = "running" /\ InWaitLoop(t) /\ t \notin signal
      /\ t \notin Queued(wq) /\ NoDuplicates(rq) /\ NoDuplicates(wq) /\ rq \in Seq(Threads)
  BY <1>1 DEF IndInv, RunInv, HoldInv, WakeInv, InWaitLoop, QueueInv, TypeOK
<1>3. PICK h \in {"none", "read"} : /\ Return(t, h)
                                    /\ h = "read" <=> t \notin Queued(rq)
  BY DEF RLockRecheck
<1>4. OthersKeep(t) /\ OthersHold(t) /\ pc'[t] = "idle" /\ held'[t] = h
  BY <1>1, <1>2, <1>3, ReturnStep DEF OthersKeep, OthersHold
<1>5. Queued(rq') = Queued(rq) \ {t} /\ NoDuplicates(rq')
  <2>1. CASE t \in Queued(rq)
    <3>1. rq' = unqueue(rq, t)
      BY <2>1 DEF RLockRecheck
    <3>2. QED
      BY <3>1, <2>1, <1>2, UnqueueQueue, SMT
  <2>2. CASE t \notin Queued(rq)
    BY <2>2, <1>2 DEF RLockRecheck
  <2>3. QED
    BY <2>1, <2>2
<1>6. GrantStep(t, {})
  BY <1>1, <1>2, <1>4, <1>5, AwakeNobody DEF GrantStep
<1>7. WaitForReaders'
  BY <1>1 DEF HoldInv, WaitForReaders
<1>8. /\ t \in Readers <=> held'[t] = "read"
      /\ t \in Writers <=> held'[t] = "write"
  BY <1>1, <1>2, <1>3, <1>4, Waiting
<1>9. QED
  BY <1>1, <1>2, <1>6, <1>7, <1>8, LeaveHold

\* The end of a timeout of wlock, with the lock.
LEMMA WLockRecheckOwnedHold ==
  ASSUME IndInv, HoldInv, IndInv', NEW t \in Threads, WLockRecheckOwned(t)
  PROVE  HoldInv'
<1>1. /\ pc[t] = "recheck" /\ call[t].name = "wlock" /\ t \notin Queued(wq)
      /\ Return(t, "write")
      /\ UNCHANGED <<owner, rq, wq, run, signal, stopped, loading, old>>
  BY DEF WLockRecheckOwned, threadVars, objVars
<1>2. /\ TypeOK /\ run[t] = "running" /\ InWaitLoop(t) /\ t \notin signal
      /\ t \notin Queued(rq) /\ NoDuplicates(rq) /\ NoDuplicates(wq)
  BY <1>1 DEF IndInv, RunInv, HoldInv, WakeInv, InWaitLoop, QueueInv
<1>3. OthersKeep(t) /\ OthersHold(t) /\ pc'[t] = "idle" /\ held'[t] = "write"
  BY <1>1, <1>2, ReturnStep DEF OthersKeep, OthersHold
<1>4. GrantStep(t, {})
  BY <1>1, <1>2, <1>3, AwakeNobody DEF GrantStep
<1>5. WaitForReaders'
  BY <1>1 DEF HoldInv, WaitForReaders
<1>6. /\ t \in Readers <=> held'[t] = "read"
      /\ t \in Writers <=> held'[t] = "write"
  BY <1>1, <1>2, <1>3, Waiting
<1>7. QED
  BY <1>1, <1>2, <1>4, <1>5, <1>6, LeaveHold

\* The end of a timeout of wlock, without the lock.
LEMMA WLockRecheckHold ==
  ASSUME IndInv, HoldInv, IndInv', NEW t \in Threads, WLockRecheck(t)
  PROVE  HoldInv'
<1> DEFINE rest == unqueue(wq, t)
<1>1. /\ pc[t] = "recheck" /\ call[t].name = "wlock" /\ t \in Queued(wq) /\ wq' = rest
      /\ Return(t, "none") /\ UNCHANGED <<signal, stopped, loading, old>>
  BY DEF WLockRecheck
<1>2. /\ TypeOK /\ run[t] = "running" /\ InWaitLoop(t) /\ t \notin signal
      /\ t \notin Queued(rq) /\ NoDuplicates(rq) /\ NoDuplicates(wq)
      /\ rq \in Seq(Threads) /\ wq \in Seq(Threads)
  BY <1>1 DEF IndInv, RunInv, HoldInv, WakeInv, InWaitLoop, QueueInv, TypeOK
<1>3. /\ OthersKeep(t) /\ OthersHold(t) /\ pc'[t] = "idle" /\ held'[t] = "none"
  BY <1>1, <1>2, ReturnStep DEF OthersKeep, OthersHold
<1>4. Queued(wq') = Queued(wq) \ {t} /\ NoDuplicates(wq')
  BY <1>1, <1>2, UnqueueQueue, SMT
<1>5. t \notin Readers /\ t \notin Writers
  BY <1>1, <1>2, Waiting
<1>6. CASE /\ WakesReaders(rest)
           /\ owner' = AllReaders(owner.readers)
           /\ run' = awake(Queued(rq))
           /\ rq' = <<>>
  <2>1. /\ Queued(rq) \in SUBSET Threads /\ Queued(rq') = {} /\ NoDuplicates(rq')
        /\ Queued(rq) \intersect Queued(wq) = {}
    BY <1>6, <1>2, SMT DEF Queued, NoDuplicates, HoldInv, QueueInv
  <2>2. GrantStep(t, Queued(rq))
    BY <2>1, <1>1, <1>2, <1>3, <1>4, <1>6 DEF GrantStep
  <2>3. /\ Calm'
        /\ \A u \in Threads \ {t} :
             /\ u \in Readers' <=> u \in Readers \/ u \in Queued(rq)
             /\ u \in Writers' <=> u \in Writers
        /\ t \notin Readers' /\ t \notin Writers'
    BY <2>1, <2>2, <1>3, GrantCalm
  <2>4. /\ owner.readers \in Nat /\ owner.readers > 0
        /\ \A u \in Threads : u \in Writers <=> owner.writer = u
        /\ owner.writer = NoThread
    BY <1>6, HolderFacts, SMT DEF WakesReaders, IndInv, OwnerInv
  <2>5. /\ owner'.writer = NoThread /\ ~owner'.waiters
        /\ owner'.readers = owner.readers + Len(rq)
    BY <2>4, <1>2, <1>6, AllReadersValue
  <2>6. Readers \subseteq Threads /\ Readers' \subseteq Threads
    BY DEF Readers
  <2>7. Readers' = Readers \union Queued(rq)
    BY <2>1, <2>3, <2>6, <1>2, <1>5
  <2>8. \A u \in Threads : u \in Writers' <=> owner'.writer = u
    BY <2>3, <2>4, <2>5, <1>5, Constants
  <2>9. WaitForReaders'
    BY <2>5 DEF WaitForReaders
  <2>10. QED
    BY <2>3, <2>5, <2>7, <2>8, <2>9, HoldAfter
<1>7. CASE /\ ~WakesReaders(rest)
           /\ owner' = IF rq = <<>> /\ rest = <<>>
                       THEN [owner EXCEPT !.waiters = FALSE] ELSE owner
           /\ UNCHANGED <<rq, run>>
  <2>1. GrantStep(t, {})
    BY <1>1, <1>2, <1>3, <1>4, <1>7, AwakeNobody DEF GrantStep
  <2>2. /\ owner'.readers = owner.readers /\ owner'.writer = owner.writer
        /\ owner'.waiters => ~(rq = <<>> /\ rest = <<>>)
    BY <1>2, <1>7 DEF TypeOK, Owners
  <2>3. WaitForReaders'
    BY <2>2, <1>1, <1>7 DEF WaitForReaders, WakesReaders
  <2>4. QED
    BY <2>1, <2>2, <2>3, <1>2, <1>3, <1>5, LeaveHold
<1>8. QED
  BY <1>6, <1>7 DEF WLockRecheck

\* A thread that unlocks hands the lock to the next writer.
LEMMA HandOverHold ==
  ASSUME IndInv, HoldInv, IndInv', NEW t \in Threads, HandOver(t),
         pc[t] \in {"runlock_grant", "wunlock_grant"},
         UNCHANGED <<old, signal, loading>>
  PROVE  HoldInv'
<1> DEFINE i == schedule(wq)
<1>1. TypeOK /\ rq \in Seq(Threads) /\ wq \in Seq(Threads) /\ Len(wq) > 0 /\ UNCHANGED rq
  BY SMT DEF IndInv, TypeOK, HandOver
<1>2. i \in DOMAIN wq
  BY <1>1, ScheduleInQueue
<1>3. /\ wq[i] \in Queued(wq) /\ NoDuplicates(rq) /\ NoDuplicates(wq)
      /\ ~InWaitLoop(t)
  BY <1>2 DEF Queued, HoldInv, QueueInv, InWaitLoop
<1>4. /\ Queued(Unlink(wq, i)) = Queued(wq) \ {wq[i]} /\ wq[i] \in Threads
      /\ NoDuplicates(Unlink(wq, i))
  BY <1>1, <1>2, <1>3, UnlinkQueue, SMT
<1>5. /\ t \notin Queued(rq) /\ t \notin Queued(wq) /\ t \notin signal /\ run[t] # "ready"
      /\ t \in Readers <=> held[t] = "read"
      /\ t \in Writers <=> held[t] = "write"
  BY <1>3, NotWaiting
<1>6. /\ pc[wq[i]] # "again" /\ wq[i] \notin Queued(rq)
  BY <1>3, <1>4 DEF HoldInv, Plain, QueueInv
<1>7. /\ wq' = Unlink(wq, i) /\ owner' = HandedTo(wq[i], wq') /\ run' = awake({wq[i]})
      /\ Return(t, "none") /\ UNCHANGED stopped
  BY <1>6 DEF HandOver
<1> HIDE DEF i
<1>8. OthersKeep(t) /\ OthersHold(t) /\ pc'[t] = "idle" /\ held'[t] = "none"
  BY <1>1, <1>7, ReturnStep DEF OthersKeep, OthersHold
<1>9. GrantStep(t, {wq[i]})
  BY <1>1, <1>3, <1>4, <1>5, <1>6, <1>7, <1>8 DEF GrantStep
<1>10. /\ Calm'
       /\ \A u \in Threads \ {t} :
            /\ u \in Readers' <=> u \in Readers
            /\ u \in Writers' <=> u \in Writers \/ u = wq[i]
       /\ t \notin Readers' /\ t \notin Writers'
  BY <1>3, <1>4, <1>6, <1>8, <1>9, GrantCalm, SMT
<1>11. /\ owner.readers \in Nat /\ owner.writer \in Threads \union {NoThread}
       /\ \A u \in Threads : u \in Writers <=> owner.writer = u
       /\ owner.writer # NoThread => Readers = {} /\ owner.readers = 0
  BY HolderFacts DEF IndInv, OwnerInv
<1>12. owner'.writer = wq[i] /\ owner'.readers = 0
  BY <1>4, <1>7, HandedToValue
<1>13. Readers \subseteq Threads /\ Readers' \subseteq Threads
  BY DEF Readers
<1>14. WaitForReaders'
  BY <1>12, SMT DEF WaitForReaders
<1>15. t # wq[i]
  BY <1>3, <1>5
<1>16. CASE pc[t] = "runlock_grant"
  <2>1. held[t] = "read" /\ owner.readers = 1
    BY <1>16 DEF HoldInv, HeldInv, HeldThread, IndInv, MutexInv
  <2>2. t \in Readers /\ Readers' = Readers \ {t} /\ owner'.readers = owner.readers - 1
    BY <2>1, <1>5, <1>10, <1>12, <1>13, SMT
  <2>3. owner.writer = NoThread
    BY <2>1, <1>11, SMT
  <2>4. \A u \in Threads : u \in Writers' <=> owner'.writer = u
    BY <2>3, <1>10, <1>11, <1>12, <1>15, Constants
  <2>5. QED
    BY <2>2, <2>4, <1>10, <1>14, HoldAfter
<1>17. CASE pc[t] = "wunlock_grant"
  <2>1. owner.writer = t
    BY <1>17, <1>5, <1>11 DEF HoldInv, HeldInv, HeldThread
  <2>2. Readers = {} /\ owner.readers = 0 /\ t \notin Readers
    BY <2>1, <1>11, Constants
  <2>3. Readers' = Readers /\ owner'.readers = owner.readers
    BY <2>2, <1>10, <1>12, <1>13
  <2>4. \A u \in Threads : u \in Writers' <=> owner'.writer = u
    BY <2>1, <1>10, <1>11, <1>12, <1>15
  <2>5. QED
    BY <2>3, <2>4, <1>10, <1>14, HoldAfter
<1>18. QED
  BY <1>16, <1>17

\* The second part of the critical section of runlock.
LEMMA RUnlockGrantHold ==
  ASSUME IndInv, HoldInv, IndInv', NEW t \in Threads, RUnlockGrant(t)
  PROVE  HoldInv'
<1>1. pc[t] = "runlock_grant" /\ UNCHANGED <<old, signal, loading>>
  BY DEF RUnlockGrant
<1>2. owner.readers > 0 /\ owner.waiters
  BY <1>1, SMT DEF IndInv, MutexInv
<1>3. wq # <<>>
  BY <1>2 DEF HoldInv, WaitForReaders
<1>4. HandOver(t)
  BY <1>3 DEF RUnlockGrant
<1>5. QED
  BY <1>1, <1>4, HandOverHold

\* The critical section of wunlock.
LEMMA WUnlockGrantHold ==
  ASSUME IndInv, HoldInv, IndInv', NEW t \in Threads, WUnlockGrant(t)
  PROVE  HoldInv'
<1>1. pc[t] = "wunlock_grant" /\ UNCHANGED <<old, signal, loading>>
  BY DEF WUnlockGrant
<1>2. CASE HandOver(t)
  BY <1>1, <1>2, HandOverHold
<1>3. CASE \E u \in Queued(rq) : pc[u] = "again"
  BY <1>3 DEF HoldInv, QueueInv, InWaitLoop
<1>4. CASE /\ owner' = AllReaders(0) /\ run' = awake(Queued(rq)) /\ rq' = <<>>
           /\ Return(t, "none") /\ UNCHANGED <<wq, stopped>>
  <2>1. /\ TypeOK /\ ~InWaitLoop(t) /\ NoDuplicates(wq) /\ NoDuplicates(rq')
        /\ Queued(rq) \in SUBSET Threads /\ Queued(rq') = {}
        /\ Queued(rq) \intersect Queued(wq) = {}
    <3>1. TypeOK /\ ~InWaitLoop(t) /\ NoDuplicates(wq)
      BY <1>1 DEF HoldInv, QueueInv, InWaitLoop, IndInv
    <3>2. NoDuplicates(rq') /\ Queued(rq') = {}
      BY <1>4, SMT DEF Queued, NoDuplicates
    <3>3. Queued(rq) \in SUBSET Threads
      BY <3>1, SMT DEF Queued, TypeOK
    <3>4. Queued(rq) \intersect Queued(wq) = {}
      BY DEF HoldInv, QueueInv
    <3>5. QED
      BY <3>1, <3>2, <3>3, <3>4
  <2>2. /\ t \notin Queued(rq) /\ t \notin Queued(wq) /\ t \notin signal /\ run[t] # "ready"
        /\ t \in Writers
    BY <2>1, <1>1, NotWaiting DEF HoldInv, HeldInv, HeldThread
  <2>3. OthersKeep(t) /\ OthersHold(t) /\ pc'[t] = "idle" /\ held'[t] = "none"
    BY <2>1, <1>1, <1>4, ReturnStep DEF OthersKeep, OthersHold
  <2>4. GrantStep(t, Queued(rq))
    BY <2>1, <2>2, <2>3, <1>1, <1>4 DEF GrantStep
  <2>5. /\ Calm'
        /\ \A u \in Threads \ {t} :
             /\ u \in Readers' <=> u \in Readers \/ u \in Queued(rq)
             /\ u \in Writers' <=> u \in Writers
        /\ t \notin Readers' /\ t \notin Writers'
    BY <2>1, <2>3, <2>4, GrantCalm
  <2>6. /\ \A u \in Threads : u \in Writers <=> owner.writer = u
        /\ owner.writer = t /\ Readers = {} /\ owner.readers = 0
    BY <2>2, HolderFacts, Constants DEF IndInv, OwnerInv
  <2>7. /\ owner'.writer = NoThread /\ ~owner'.waiters
        /\ owner'.readers = 0 + Len(rq)
    BY <2>1, <1>4, AllReadersValue
  <2>8. Readers' \subseteq Threads
    BY DEF Readers
  <2>9. Readers' = Readers \union Queued(rq)
    BY <2>1, <2>2, <2>5, <2>6, <2>8
  <2>10. \A u \in Threads : u \in Writers' <=> owner'.writer = u
    BY <2>5, <2>6, <2>7, Constants
  <2>11. WaitForReaders'
    BY <2>7 DEF WaitForReaders
  <2>12. QED
    BY <2>5, <2>6, <2>7, <2>9, <2>10, <2>11, HoldAfter
<1>5. QED
  BY <1>2, <1>3, <1>4 DEF WUnlockGrant

-----------------------------------------------------------------------------
\* Steps outside the wait loop: the holders stay, one reader or the writer
\* comes, one reader goes.
LEMMA KeepHold ==
  ASSUME IndInv, HoldInv, IndInv', NEW t \in Threads, OutsideStep(t),
         held'[t] = held[t], owner' = owner
  PROVE  HoldInv'
  BY OutsideHold

\* A reader gets the lock without waiting.
LEMMA ReadHold ==
  ASSUME IndInv, HoldInv, IndInv', NEW t \in Threads, OutsideStep(t), CanRead(owner),
         owner' = AddReaders(owner, 1), held[t] = "none", held'[t] = "read"
  PROVE  HoldInv'
<1>1. owner \in Owners /\ owner.writer = NoThread /\ ~owner.waiters /\ owner.readers \in Nat
  BY OwnerParts DEF IndInv, TypeOK, CanRead
<1>2. /\ owner'.writer = NoThread /\ owner'.readers = owner.readers + 1
      /\ ~owner'.waiters
  BY <1>1, AddReadersValue, SMT
<1>3. QED
  BY <1>1, <1>2, OutsideHold

\* A writer gets the lock without waiting.
LEMMA WriteHold ==
  ASSUME IndInv, HoldInv, IndInv', NEW t \in Threads, OutsideStep(t), owner = Free,
         owner' = Owner(t, 0, FALSE), held[t] = "none", held'[t] = "write"
  PROVE  HoldInv'
<1>1. owner'.writer = t /\ owner'.readers = 0 /\ ~owner'.waiters
  BY DEF Owner
<1>2. QED
  BY <1>1, FreeValue, OutsideHold

\* A reader that hands the lock to nobody unlocks.
LEMMA UnreadHold ==
  ASSUME IndInv, HoldInv, IndInv', NEW t \in Threads, OutsideStep(t), owner.readers > 0,
         owner' = AddReaders(owner, -1), held[t] = "read", held'[t] = "none"
  PROVE  HoldInv'
<1>1. owner \in Owners /\ owner.readers \in Nat
  BY OwnerParts DEF IndInv, TypeOK
<1>2. /\ owner'.writer = owner.writer /\ owner'.readers = owner.readers - 1
      /\ owner'.waiters = owner.waiters
  BY <1>1, AddReadersValue, SMT
<1>3. QED
  BY <1>1, <1>2, OutsideHold

\* A system call that is more than one step begins.
LEMMA RLockLoadHold ==
  ASSUME IndInv, HoldInv, IndInv', NEW t \in Threads, NEW timed \in BOOLEAN,
         RLockLoad(t, timed)
  PROVE  HoldInv'
<1>1. pc[t] = "idle" /\ held[t] = "none" /\ TypeOK
  BY DEF RLockLoad, Enters, HoldInv, Plain, IndInv
<1>2. PICK l \in {"rlock_cas", "rlock_lock"} : Begin(t, Call("rlock", timed), l)
  BY DEF RLockLoad
<1>3. PICK o \in Owners : Expect(t, o)
  BY <1>1, FreeValue DEF RLockLoad, TypeOK
<1>4. l \in Labels /\ Call("rlock", timed) \in Calls
  BY DEF Labels, Call, Calls
<1>5. UNCHANGED <<owner, rq, wq, run, signal, stopped, loading>>
  BY DEF RLockLoad, objVars, threadVars
<1>6. OthersKeep(t) /\ OthersHold(t) /\ pc'[t] = l /\ UNCHANGED held
  <2>1. /\ pc'[t] = l /\ UNCHANGED held
        /\ \A u \in Threads \ {t} : pc'[u] = pc[u] /\ call'[u] = call[u]
    BY <1>1, <1>2, <1>4, BeginStep
  <2>2. \A u \in Threads \ {t} : old'[u] = old[u]
    BY <1>1, <1>3, ExpectStep
  <2>3. QED
    BY <2>1, <2>2 DEF OthersKeep, OthersHold
<1>7. OutsideStep(t)
  BY <1>1, <1>5, <1>6 DEF OutsideStep, InWaitLoop, HeldThread
<1>8. QED
  BY <1>5, <1>6, <1>7, KeepHold

\* sys_rwlock_wlock loads the word.
LEMMA WLockLoadHold ==
  ASSUME IndInv, HoldInv, IndInv', NEW t \in Threads, NEW timed \in BOOLEAN,
         WLockLoad(t, timed)
  PROVE  HoldInv'
<1>1. pc[t] = "idle" /\ held[t] = "none" /\ TypeOK
  BY DEF WLockLoad, Enters, HoldInv, Plain, IndInv
<1>2. PICK l \in {"wlock_cas", "wlock_lock"} : Begin(t, Call("wlock", timed), l)
  BY DEF WLockLoad
<1>3. l \in Labels /\ Call("wlock", timed) \in Calls
  BY DEF Labels, Call, Calls
<1>4. UNCHANGED <<owner, rq, wq, run, signal, stopped, loading, old>>
  BY DEF WLockLoad, objVars, threadVars
<1>5. OthersKeep(t) /\ OthersHold(t) /\ pc'[t] = l /\ UNCHANGED held
  BY <1>1, <1>2, <1>3, <1>4, BeginStep DEF OthersKeep, OthersHold
<1>6. OutsideStep(t)
  BY <1>1, <1>4, <1>5 DEF OutsideStep, InWaitLoop, HeldThread
<1>7. QED
  BY <1>4, <1>5, <1>6, KeepHold

\* sys_rwlock_runlock loads the word.
LEMMA RUnlockLoadHold ==
  ASSUME IndInv, HoldInv, IndInv', NEW t \in Threads, RUnlockLoad(t)
  PROVE  HoldInv'
<1>1. pc[t] = "idle" /\ held[t] = "read" /\ TypeOK
  BY DEF RUnlockLoad, Enters, HoldInv, Plain, IndInv
<1>2. PICK l \in {"runlock_cas", "runlock_lock"} : Begin(t, Call("runlock", FALSE), l)
  BY DEF RUnlockLoad
<1>3. PICK o \in Owners : Expect(t, o)
  BY <1>1, FreeValue DEF RUnlockLoad, TypeOK
<1>4. l \in Labels /\ Call("runlock", FALSE) \in Calls
  BY DEF Labels, Call, Calls
<1>5. UNCHANGED <<owner, rq, wq, run, signal, stopped, loading>>
  BY DEF RUnlockLoad, objVars, threadVars
<1>6. OthersKeep(t) /\ OthersHold(t) /\ pc'[t] = l /\ UNCHANGED held
  <2>1. /\ pc'[t] = l /\ UNCHANGED held
        /\ \A u \in Threads \ {t} : pc'[u] = pc[u] /\ call'[u] = call[u]
    BY <1>1, <1>2, <1>4, BeginStep
  <2>2. \A u \in Threads \ {t} : old'[u] = old[u]
    BY <1>1, <1>3, ExpectStep
  <2>3. QED
    BY <2>1, <2>2 DEF OthersKeep, OthersHold
<1>7. OutsideStep(t)
  BY <1>1, <1>5, <1>6 DEF OutsideStep, InWaitLoop, HeldThread
<1>8. QED
  BY <1>5, <1>6, <1>7, KeepHold

\* sys_rwlock_tryrlock and trywlock
LEMMA TryHold ==
  ASSUME IndInv, HoldInv, IndInv', NEW t \in Threads, TryRLock(t) \/ TryWLock(t)
  PROVE  HoldInv'
<1>1. /\ pc[t] = "idle" /\ held[t] = "none"
      /\ UNCHANGED <<rq, wq, run, signal, stopped, loading, pc, call, old>>
  BY DEF TryRLock, TryWLock, Idle, threadVars
<1>2. ASSUME NEW h \in {"read", "write"}, held' = [held EXCEPT ![t] = h]
      PROVE  OutsideStep(t) /\ held'[t] = h
  <2>1. OthersHold(t) /\ held'[t] = h
    BY <1>2 DEF OthersHold, IndInv, TypeOK
  <2>2. OthersKeep(t) /\ HeldThread(t)' /\ ~InWaitLoop(t) /\ ~InWaitLoop(t)'
    BY <1>1 DEF OthersKeep, HeldThread, InWaitLoop
  <2>3. QED
    BY <1>1, <2>1, <2>2 DEF OutsideStep
<1>3. CASE TryRLock(t)
  <2>1. CanRead(owner) /\ owner' = AddReaders(owner, 1) /\ held' = [held EXCEPT ![t] = "read"]
    BY <1>3 DEF TryRLock
  <2>2. QED
    BY <2>1, <1>1, <1>2, ReadHold
<1>4. CASE TryWLock(t)
  <2>1. /\ owner = Free /\ owner' = Owner(t, 0, FALSE)
        /\ held' = [held EXCEPT ![t] = "write"]
    BY <1>4 DEF TryWLock
  <2>2. QED
    BY <2>1, <1>1, <1>2, WriteHold
<1>5. QED
  BY <1>3, <1>4

\* The compare-and-swaps of the fast paths.
LEMMA RLockCasHold ==
  ASSUME IndInv, HoldInv, IndInv', NEW t \in Threads, RLockCas(t)
  PROVE  HoldInv'
<1>1. /\ pc[t] = "rlock_cas" /\ TypeOK /\ held[t] = "none" /\ CanRead(old[t])
      /\ Expect(t, Free) /\ UNCHANGED <<rq, wq, run, signal, stopped, loading>>
  BY DEF RLockCas, threadVars, IndInv, CasInv, HoldInv, HeldInv, HeldThread
<1>2. CASE CasSucceeds(t)
  <2>1. owner' = AddReaders(owner, 1) /\ Return(t, "read") /\ CanRead(owner)
    BY <1>1, <1>2 DEF RLockCas, CasSucceeds
  <2>2. OthersKeep(t) /\ OthersHold(t) /\ pc'[t] = "idle" /\ held'[t] = "read"
    BY <2>1, <1>1, FreeValue, ReturnStep, ExpectStep DEF OthersKeep, OthersHold
  <2>3. OutsideStep(t)
    BY <2>2, <1>1 DEF OutsideStep, InWaitLoop, HeldThread
  <2>4. QED
    BY <2>1, <2>2, <2>3, <1>1, ReadHold
<1>3. CASE ~CasSucceeds(t)
  <2>1. Continue(t, "rlock_lock") /\ UNCHANGED owner /\ "rlock_lock" \in Labels
    BY <1>3 DEF RLockCas, Labels
  <2>2. OthersKeep(t) /\ OthersHold(t) /\ pc'[t] = "rlock_lock" /\ UNCHANGED held
    BY <2>1, <1>1, FreeValue, ContinueStep, ExpectStep DEF OthersKeep, OthersHold
  <2>3. OutsideStep(t)
    BY <2>2, <1>1 DEF OutsideStep, InWaitLoop, HeldThread
  <2>4. QED
    BY <2>1, <2>2, <2>3, KeepHold
<1>4. QED
  BY <1>2, <1>3

\* The compare-and-swap of sys_rwlock_wlock.
LEMMA WLockCasHold ==
  ASSUME IndInv, HoldInv, IndInv', NEW t \in Threads, WLockCas(t)
  PROVE  HoldInv'
<1>1. /\ pc[t] = "wlock_cas" /\ TypeOK /\ held[t] = "none"
      /\ UNCHANGED <<rq, wq, run, signal, stopped, loading, old>>
  BY DEF WLockCas, threadVars, IndInv, HoldInv, HeldInv, HeldThread
<1>2. CASE owner = Free
  <2>1. owner' = Owner(t, 0, FALSE) /\ Return(t, "write")
    BY <1>2 DEF WLockCas
  <2>2. OthersKeep(t) /\ OthersHold(t) /\ pc'[t] = "idle" /\ held'[t] = "write"
    BY <2>1, <1>1, ReturnStep DEF OthersKeep, OthersHold
  <2>3. OutsideStep(t)
    BY <2>2, <1>1 DEF OutsideStep, InWaitLoop, HeldThread
  <2>4. QED
    BY <2>1, <2>2, <2>3, <1>1, <1>2, WriteHold
<1>3. CASE owner # Free
  <2>1. Continue(t, "wlock_lock") /\ UNCHANGED owner /\ "wlock_lock" \in Labels
    BY <1>3 DEF WLockCas, Labels
  <2>2. OthersKeep(t) /\ OthersHold(t) /\ pc'[t] = "wlock_lock" /\ UNCHANGED held
    BY <2>1, <1>1, ContinueStep DEF OthersKeep, OthersHold
  <2>3. OutsideStep(t)
    BY <2>2, <1>1 DEF OutsideStep, InWaitLoop, HeldThread
  <2>4. QED
    BY <2>1, <2>2, <2>3, KeepHold
<1>4. QED
  BY <1>2, <1>3

\* The compare-and-swap of sys_rwlock_runlock.
LEMMA RUnlockCasHold ==
  ASSUME IndInv, HoldInv, IndInv', NEW t \in Threads, RUnlockCas(t)
  PROVE  HoldInv'
<1>1. /\ pc[t] = "runlock_cas" /\ TypeOK /\ held[t] = "read" /\ old[t].readers > 0
      /\ Expect(t, Free) /\ UNCHANGED <<rq, wq, run, signal, stopped, loading>>
  BY DEF RUnlockCas, threadVars, IndInv, CasInv, HoldInv, HeldInv, HeldThread
<1>2. CASE CasSucceeds(t)
  <2>1. owner' = AddReaders(owner, -1) /\ Return(t, "none") /\ owner.readers > 0
    BY <1>1, <1>2 DEF RUnlockCas, CasSucceeds
  <2>2. OthersKeep(t) /\ OthersHold(t) /\ pc'[t] = "idle" /\ held'[t] = "none"
    BY <2>1, <1>1, FreeValue, ReturnStep, ExpectStep DEF OthersKeep, OthersHold
  <2>3. OutsideStep(t)
    BY <2>2, <1>1 DEF OutsideStep, InWaitLoop, HeldThread
  <2>4. QED
    BY <2>1, <2>2, <2>3, <1>1, UnreadHold
<1>3. CASE ~CasSucceeds(t)
  <2>1. Continue(t, "runlock_lock") /\ UNCHANGED owner /\ "runlock_lock" \in Labels
    BY <1>3 DEF RUnlockCas, Labels
  <2>2. OthersKeep(t) /\ OthersHold(t) /\ pc'[t] = "runlock_lock" /\ UNCHANGED held
    BY <2>1, <1>1, FreeValue, ContinueStep, ExpectStep DEF OthersKeep, OthersHold
  <2>3. OutsideStep(t)
    BY <2>2, <1>1 DEF OutsideStep, InWaitLoop, HeldThread
  <2>4. QED
    BY <2>1, <2>2, <2>3, KeepHold
<1>4. QED
  BY <1>2, <1>3

\* The first part of the critical section of runlock.
LEMMA RUnlockLockHold ==
  ASSUME IndInv, HoldInv, IndInv', NEW t \in Threads, RUnlockLock(t)
  PROVE  HoldInv'
<1>1. /\ pc[t] = "runlock_lock" /\ TypeOK /\ held[t] = "read" /\ owner.readers > 0
      /\ UNCHANGED <<rq, wq, run, signal, stopped, loading, old>>
  BY DEF RUnlockLock, threadVars, IndInv, HoldInv, HeldInv, HeldThread
<1>2. CASE owner.readers = 1 /\ owner.waiters
  <2>1. Continue(t, "runlock_grant") /\ UNCHANGED owner /\ "runlock_grant" \in Labels
    BY <1>2 DEF RUnlockLock, Labels
  <2>2. OthersKeep(t) /\ OthersHold(t) /\ pc'[t] = "runlock_grant" /\ UNCHANGED held
    BY <2>1, <1>1, ContinueStep DEF OthersKeep, OthersHold
  <2>3. OutsideStep(t)
    BY <2>2, <1>1 DEF OutsideStep, InWaitLoop, HeldThread
  <2>4. QED
    BY <2>1, <2>2, <2>3, KeepHold
<1>3. CASE ~(owner.readers = 1 /\ owner.waiters)
  <2>1. owner' = AddReaders(owner, -1) /\ Return(t, "none")
    BY <1>3 DEF RUnlockLock
  <2>2. OthersKeep(t) /\ OthersHold(t) /\ pc'[t] = "idle" /\ held'[t] = "none"
    BY <2>1, <1>1, ReturnStep DEF OthersKeep, OthersHold
  <2>3. OutsideStep(t)
    BY <2>2, <1>1 DEF OutsideStep, InWaitLoop, HeldThread
  <2>4. QED
    BY <2>1, <2>2, <2>3, <1>1, UnreadHold
<1>4. QED
  BY <1>2, <1>3

\* sys_rwlock_wunlock
LEMMA WUnlockHold ==
  ASSUME IndInv, HoldInv, IndInv', NEW t \in Threads, WUnlock(t)
  PROVE  HoldInv'
<1>1. /\ pc[t] = "idle" /\ TypeOK /\ held[t] = "write" /\ owner.writer = t
      /\ UNCHANGED <<rq, wq, run, signal, stopped, loading, old>>
  BY DEF WUnlock, Enters, threadVars, IndInv, HoldInv, Plain
<1>2. CASE owner.waiters
  <2>1. /\ Begin(t, Call("wunlock", FALSE), "wunlock_grant") /\ UNCHANGED owner
        /\ "wunlock_grant" \in Labels /\ Call("wunlock", FALSE) \in Calls /\ t \in Threads
    BY <1>2 DEF WUnlock, Labels, Call, Calls
  <2>2. OthersKeep(t) /\ OthersHold(t) /\ pc'[t] = "wunlock_grant" /\ UNCHANGED held
    <3>1. /\ pc'[t] = "wunlock_grant" /\ UNCHANGED held
          /\ \A u \in Threads \ {t} : pc'[u] = pc[u] /\ call'[u] = call[u]
      <4>1. PICK c \in Calls, l \in Labels : Begin(t, c, l) /\ l = "wunlock_grant"
        BY <2>1
      <4>2. QED
        BY <4>1, <1>1, BeginStep, SMT
    <3>2. QED
      BY <3>1, <1>1 DEF OthersKeep, OthersHold
  <2>3. OutsideStep(t)
    BY <2>2, <1>1 DEF OutsideStep, InWaitLoop, HeldThread
  <2>4. QED
    BY <2>1, <2>2, <2>3, KeepHold
<1>3. CASE ~owner.waiters
  <2>1. owner' = Free /\ Return(t, "none")
    BY <1>3 DEF WUnlock
  <2>2. OthersKeep(t) /\ OthersHold(t) /\ pc'[t] = "idle" /\ held'[t] = "none"
    BY <2>1, <1>1, ReturnStep DEF OthersKeep, OthersHold
  <2>3. OutsideStep(t)
    BY <2>2, <1>1 DEF OutsideStep, InWaitLoop, HeldThread
  <2>4. owner.readers = 0 /\ owner'.readers = 0 /\ owner'.writer = NoThread
    BY <2>1, <1>1, FreeValue, Constants DEF IndInv, OwnerInv
  <2>5. QED
    BY <2>2, <2>3, <2>4, <1>1, OutsideHold, SMT
<1>4. QED
  BY <1>2, <1>3

-----------------------------------------------------------------------------
\* A thread queues and sleeps.
LEMMA BlockHold ==
  ASSUME IndInv, HoldInv, IndInv', NEW t \in Threads, Block(t),
         UNCHANGED <<old, signal, stopped>>, WaitForReaders',
         \/ pc[t] = "rlock_lock" /\ rq' = emplace(rq, t) /\ wq' = wq
         \/ pc[t] = "wlock_lock" /\ wq' = emplace(wq, t) /\ rq' = rq
  PROVE  HoldInv'
<1>1. /\ TypeOK /\ owner \in Owners /\ rq \in Seq(Threads) /\ wq \in Seq(Threads)
      /\ loading = {} /\ ~InWaitLoop(t) /\ held[t] = "none"
      /\ NoDuplicates(rq) /\ NoDuplicates(wq)
      /\ pc[t] = "rlock_lock" => call[t].name = "rlock"
      /\ pc[t] = "wlock_lock" => call[t].name = "wlock"
  BY DEF IndInv, TypeOK, HoldInv, Plain, QueueInv, HeldInv, HeldThread, InWaitLoop, CallInv
<1>2. /\ t \notin Queued(rq) /\ t \notin Queued(wq) /\ t \notin signal
      /\ t \notin Readers /\ t \notin Writers
  BY <1>1, NotWaiting
<1>3. /\ pc'[t] = "wait" /\ UNCHANGED <<call, held>>
      /\ \A u \in Threads \ {t} : pc'[u] = pc[u]
  BY <1>1, ContinueStep DEF Block, Labels, WaitLabels
<1>4. /\ \A u \in Threads : run'[u] = IF u = t THEN "asleep" ELSE run[u]
      /\ loading' = {}
  BY <1>1, <1>2 DEF Block, sleep, slept, TypeOK, ThreadsTypeOK
<1>5. owner'.writer = owner.writer /\ owner'.readers = owner.readers
  BY <1>1 DEF Block, SetWaiters, Owners
<1>6. /\ NoDuplicates(rq') /\ NoDuplicates(wq')
      /\ Queued(rq') = Queued(rq) \union {u \in {t} : call[u].name = "rlock"}
      /\ Queued(wq') = Queued(wq) \union {u \in {t} : call[u].name = "wlock"}
  <2>1. /\ Queued(emplace(rq, t)) = Queued(rq) \union {t} /\ NoDuplicates(emplace(rq, t))
        /\ Queued(emplace(wq, t)) = Queued(wq) \union {t} /\ NoDuplicates(emplace(wq, t))
    BY ONLY <1>1, <1>2, EmplaceQueue, Zenon
  <2>2. CASE pc[t] = "rlock_lock" /\ rq' = emplace(rq, t) /\ wq' = wq
    BY ONLY <2>1, <2>2, <1>1, Zenon
  <2>3. CASE pc[t] = "wlock_lock" /\ wq' = emplace(wq, t) /\ rq' = rq
    BY ONLY <2>1, <2>3, <1>1, Zenon
  <2>4. QED
    BY <2>2, <2>3
<1>7. call[t].name \in {"rlock", "wlock"}
  BY <1>1
<1>8. Queued(rq) \subseteq Threads /\ Queued(wq) \subseteq Threads
  BY <1>1, SMT DEF Queued
<1>9. Calm'
  <2>1. Plain'
    BY <1>3, <1>4 DEF HoldInv, Plain
  <2>2. QueueInv'
    BY <1>3, <1>6, <1>8 DEF HoldInv, QueueInv, InWaitLoop
  <2>3. WakeInv'
    BY <1>2, <1>3, <1>4, <1>6 DEF HoldInv, WakeInv, InWaitLoop, QueueOf
  <2>4. HeldInv'
    BY <1>1, <1>3 DEF HoldInv, HeldInv, HeldThread, InWaitLoop
  <2>5. QED
    BY <2>1, <2>2, <2>3, <2>4 DEF Calm
<1>10. ASSUME NEW u \in Threads
       PROVE  (u \in Readers' <=> u \in Readers) /\ (u \in Writers' <=> u \in Writers)
  <2>1. CASE u = t
    BY <2>1, <1>1, <1>2, <1>3, <1>6, <1>7 DEF Readers, Writers, Granted, QueueOf
  <2>2. CASE u # t
    BY <2>2, <1>3, <1>6 DEF Readers, Writers, Granted, QueueOf, InWaitLoop
  <2>3. QED
    BY <2>1, <2>2
<1>11. Readers' = Readers
  BY <1>10 DEF Readers
<1>12. \A u \in Threads : u \in Writers' <=> owner'.writer = u
  BY <1>5, <1>10, HolderFacts
<1>13. QED
  BY <1>5, <1>9, <1>11, <1>12, HoldAfter

\* The critical sections of rlock and wlock.
LEMMA RLockLockHold ==
  ASSUME IndInv, HoldInv, IndInv', NEW t \in Threads, RLockLock(t)
  PROVE  HoldInv'
<1>1. /\ pc[t] = "rlock_lock" /\ TypeOK /\ held[t] = "none"
      /\ UNCHANGED <<wq, signal, stopped, old>>
  BY DEF RLockLock, IndInv, HoldInv, HeldInv, HeldThread
<1>2. CASE CanRead(owner)
  <2>1. owner' = AddReaders(owner, 1) /\ Return(t, "read") /\ UNCHANGED <<rq, run, loading>>
    BY <1>2 DEF RLockLock
  <2>2. OthersKeep(t) /\ OthersHold(t) /\ pc'[t] = "idle" /\ held'[t] = "read"
    BY <2>1, <1>1, ReturnStep DEF OthersKeep, OthersHold
  <2>3. OutsideStep(t)
    BY <2>1, <2>2, <1>1 DEF OutsideStep, InWaitLoop, HeldThread
  <2>4. QED
    BY <2>1, <2>2, <2>3, <1>1, <1>2, ReadHold
<1>3. CASE ~CanRead(owner)
  <2>1. Block(t) /\ rq' = emplace(rq, t)
    BY <1>3 DEF RLockLock
  <2>2. owner.waiters \/ owner.readers = 0
    BY <1>3 DEF CanRead, IndInv, OwnerInv
  <2>3. owner'.readers = owner.readers
    BY <2>1, <1>1 DEF Block, SetWaiters, TypeOK, Owners
  <2>4. WaitForReaders'
    BY <2>2, <2>3, <1>1, SMT DEF HoldInv, WaitForReaders
  <2>5. QED
    BY <2>1, <2>4, <1>1, BlockHold
<1>4. QED
  BY <1>2, <1>3

\* The critical section of sys_rwlock_wlock.
LEMMA WLockLockHold ==
  ASSUME IndInv, HoldInv, IndInv', NEW t \in Threads, WLockLock(t)
  PROVE  HoldInv'
<1>1. /\ pc[t] = "wlock_lock" /\ TypeOK /\ held[t] = "none"
      /\ UNCHANGED <<rq, signal, stopped, old>>
  BY DEF WLockLock, IndInv, HoldInv, HeldInv, HeldThread
<1>2. CASE owner = Free
  <2>1. owner' = Owner(t, 0, FALSE) /\ Return(t, "write") /\ UNCHANGED <<wq, run, loading>>
    BY <1>2 DEF WLockLock
  <2>2. OthersKeep(t) /\ OthersHold(t) /\ pc'[t] = "idle" /\ held'[t] = "write"
    BY <2>1, <1>1, ReturnStep DEF OthersKeep, OthersHold
  <2>3. OutsideStep(t)
    BY <2>1, <2>2, <1>1 DEF OutsideStep, InWaitLoop, HeldThread
  <2>4. QED
    BY <2>1, <2>2, <2>3, <1>1, <1>2, WriteHold
<1>3. CASE owner # Free
  <2>1. Block(t) /\ wq' = emplace(wq, t)
    BY <1>3 DEF WLockLock
  <2>2. wq' # <<>>
    BY <2>1, <1>1, EmplaceQueue, SMT DEF TypeOK
  <2>3. WaitForReaders'
    BY <2>2 DEF WaitForReaders
  <2>4. QED
    BY <2>1, <2>3, <1>1, BlockHold
<1>4. QED
  BY <1>2, <1>3

(***************************************************************************)
(* A step in the wait loop that neither ends it nor changes the queues, or *)
(* a step of the scheduler.                                                *)
(***************************************************************************)
LEMMA LoopHold ==
  ASSUME IndInv, HoldInv, IndInv', NEW t \in Threads, WakeInv',
         UNCHANGED <<owner, rq, wq, call, held, stopped, loading>>,
         \A u \in Threads \ {t} : pc'[u] = pc[u],
         \/ pc'[t] = pc[t]
         \/ InWaitLoop(t) /\ InWaitLoop(t)'
  PROVE  HoldInv'
<1>1. \A u \in Threads : InWaitLoop(u)' <=> InWaitLoop(u)
  BY DEF InWaitLoop
<1>2. Plain'
  BY DEF HoldInv, Plain, InWaitLoop
<1>3. QueueInv'
  <2>1. Queued(rq) \subseteq Threads /\ Queued(wq) \subseteq Threads
    BY SMT DEF IndInv, TypeOK, Queued
  <2>2. QED
    BY <2>1, <1>1 DEF HoldInv, QueueInv
<1>4. HeldInv'
  <2> SUFFICES ASSUME NEW u \in Threads PROVE HeldThread(u)'
    BY DEF HeldInv
  <2>1. HeldThread(u) /\ held'[u] = held[u] /\ (InWaitLoop(u)' <=> InWaitLoop(u))
    BY <1>1 DEF HoldInv, HeldInv
  <2>2. pc'[u] = pc[u] \/ (InWaitLoop(u) /\ InWaitLoop(u)')
    OBVIOUS
  <2>3. QED
    BY <2>1, <2>2 DEF HeldThread, InWaitLoop
<1>5. Readers' = Readers /\ Writers' = Writers
  BY <1>1 DEF Readers, Writers, Granted, QueueOf
<1>6. WaitForReaders'
  BY DEF HoldInv, WaitForReaders
<1>7. \A u \in Threads : u \in Writers' <=> owner'.writer = u
  BY <1>5, HolderFacts
<1>8. QED
  BY <1>2, <1>3, <1>4, <1>5, <1>6, <1>7, HoldAfter DEF Calm

\* A timeout in the wait loop, and check_state after it.
LEMMA WaitTimeoutHold ==
  ASSUME IndInv, HoldInv, IndInv', NEW t \in Threads, WaitTimeout(t)
  PROVE  HoldInv'
<1>1. /\ pc[t] = "wait" /\ pc'[t] = "resched"
      /\ \A u \in Threads \ {t} : pc'[u] = pc[u]
      /\ UNCHANGED <<owner, rq, wq, call, held, run, signal, stopped, loading>>
  BY DEF WaitTimeout, wait_timeout, Goto, objVars, IndInv, TypeOK
<1>2. WakeInv'
  BY <1>1 DEF HoldInv, WakeInv, InWaitLoop, QueueOf
<1>3. InWaitLoop(t) /\ InWaitLoop(t)'
  BY <1>1 DEF InWaitLoop
<1>4. QED
  BY <1>1, <1>2, <1>3, LoopHold

\* check_state after a timeout.
LEMMA CheckStateHold ==
  ASSUME IndInv, HoldInv, IndInv', NEW t \in Threads, CheckState(t)
  PROVE  HoldInv'
<1>1. pc[t] = "resched" /\ UNCHANGED <<owner, rq, wq, call, held, stopped, loading>>
  BY DEF CheckState, cpu_sleep, check_state, objVars
<1>2. CASE cpu_sleep(t)
  <2>1. /\ UNCHANGED <<pc, signal>>
        /\ \A u \in Threads : u # t => run'[u] = run[u]
    BY <1>2 DEF cpu_sleep, awake
  <2>2. WakeInv'
    BY <2>1, <1>1 DEF HoldInv, WakeInv, InWaitLoop, QueueOf
  <2>3. QED
    BY <2>1, <2>2, <1>1, LoopHold
<1>3. CASE check_state(t)
  <2>1. t \notin stopped
    BY DEF HoldInv, Plain
  <2>2. /\ pc'[t] = "recheck" /\ \A u \in Threads \ {t} : pc'[u] = pc[u]
        /\ signal' = signal \ {t} /\ UNCHANGED run
    BY <2>1, <1>3 DEF check_state, unsignal, Goto, IndInv, TypeOK
  <2>3. WakeInv'
    BY <2>2, <1>1 DEF HoldInv, WakeInv, InWaitLoop, QueueOf
  <2>4. InWaitLoop(t) /\ InWaitLoop(t)'
    BY <2>2, <1>1 DEF InWaitLoop
  <2>5. QED
    BY <2>2, <2>3, <2>4, <1>1, LoopHold
<1>4. QED
  BY <1>2, <1>3 DEF CheckState

\* The scheduler grants the processor.
LEMMA ScheduleHold ==
  ASSUME IndInv, HoldInv, IndInv', NEW t \in Threads, Schedule(t)
  PROVE  HoldInv'
<1>1. /\ run[t] = "ready" /\ signal' = signal \union {t}
      /\ run'[t] = "running" /\ \A u \in Threads \ {t} : run'[u] = run[u]
      /\ UNCHANGED <<owner, rq, wq, pc, call, held, stopped, loading>>
  BY DEF Schedule, schedule_all, objVars, IndInv, TypeOK, ThreadsTypeOK
<1>2. /\ InWaitLoop(t) /\ pc[t] # "recheck"
      /\ ~(pc[t] = "wait" /\ t \in Queued(QueueOf(t)))
  BY <1>1 DEF HoldInv, WakeInv, IndInv, RunInv
<1>3. WakeInv'
  BY <1>1, <1>2 DEF HoldInv, WakeInv, InWaitLoop, QueueOf
<1>4. QED
  BY <1>1, <1>3, LoopHold

\* Nothing of it changes.
LEMMA SameHold ==
  ASSUME HoldInv,
         UNCHANGED <<owner, rq, wq, run, signal, stopped, loading, pc, call, held>>
  PROVE  HoldInv'
<1>1. Plain' /\ QueueInv' /\ WakeInv' /\ HeldInv' /\ WaitForReaders'
  BY DEF HoldInv, Plain, QueueInv, WakeInv, HeldInv, HeldThread, WaitForReaders,
         InWaitLoop, QueueOf
<1>2. Readers' = Readers /\ Writers' = Writers
  BY DEF Readers, Writers, Granted, InWaitLoop, QueueOf
<1>3. QED
  BY <1>1, <1>2 DEF HoldInv, OwnerMatchesHolders

\* The lock starts in the invariant.
LEMMA InitHold == Init => HoldInv
<1> SUFFICES ASSUME Init PROVE HoldInv
  OBVIOUS
<1> USE DEF Init, ThreadsInit
<1>1. Plain /\ QueueInv
  BY SMT DEF Plain, QueueInv, NoDuplicates, Queued
<1>2. WakeInv /\ HeldInv /\ WaitForReaders
  BY FreeValue DEF WakeInv, HeldInv, HeldThread, InWaitLoop, WaitForReaders
<1>3. Readers = {} /\ Writers = {}
  BY DEF Readers, Writers, Granted, InWaitLoop
<1>4. IsFiniteSet(Readers) /\ OwnerMatchesHolders
  BY <1>3, FreeValue, CountEmpty DEF OwnerMatchesHolders
<1>5. QED
  BY <1>1, <1>2, <1>4 DEF HoldInv

\* Every step preserves the invariant, if no savestate is made.
LEMMA NextHold ==
  ASSUME Savestates = FALSE, IndInv, HoldInv, IndInv', [Next]_vars
  PROVE  HoldInv'
<1>1. ASSUME NEW t \in Threads, Step(t) PROVE HoldInv'
  <2>1. ~WaitStopped(t)
    BY DEF WaitStopped, HoldInv, Plain
  <2>2. ~WLockRecheckStuck(t)
    BY DEF WLockRecheckStuck, HoldInv, QueueInv, InWaitLoop
  <2>3. QED
    BY <1>1, <2>1, <2>2, RLockCasHold, RLockLockHold, WLockCasHold, WLockLockHold,
       WaitSignalHold, WaitTimeoutHold, CheckStateHold, RLockRecheckHold,
       WLockRecheckOwnedHold, WLockRecheckHold, RUnlockCasHold, RUnlockLockHold,
       RUnlockGrantHold, WUnlockGrantHold DEF Step
<1>2. ASSUME NEW t \in Threads, Enter(t) PROVE HoldInv'
  <2>1. ASSUME Destroy(t) \/ Create(t) PROVE HoldInv'
    BY <2>1, SameHold DEF Destroy, Create, threadVars
  <2>2. QED
    BY <1>2, <2>1, RLockLoadHold, WLockLoadHold, TryHold, RUnlockLoadHold, WUnlockHold
       DEF Enter, Unlock
<1>3. ASSUME NEW t \in Threads PROVE ~Stop(t)
  BY DEF Stop, stop
<1>4. ASSUME Load PROVE HoldInv'
  <2>1. /\ UNCHANGED <<owner, pc, call, held>> /\ Threads = {}
        /\ stopped' = {} /\ loading' = {} /\ rq' = <<>> /\ wq' = <<>>
    BY <1>4 DEF Load, load, saved, HoldInv, Plain
  <2>2. Calm'
    BY <2>1, SMT DEF Calm, Plain, QueueInv, NoDuplicates, Queued, WakeInv, HeldInv
  <2>3. Readers' = Readers
    BY <2>1 DEF Readers
  <2>4. owner.readers = 0
    BY <2>1, HolderFacts, CountEmpty DEF Readers
  <2>5. WaitForReaders'
    BY <2>1, <2>4, SMT DEF WaitForReaders
  <2>6. QED
    BY <2>1, <2>2, <2>3, <2>5, HoldAfter
<1>5. CASE UNCHANGED vars
  BY <1>5, SameHold DEF vars, objVars, threadVars
<1>6. QED
  BY <1>1, <1>2, <1>3, <1>4, <1>5, ScheduleHold DEF Next

\* HoldInv holds in every state of every behaviour without savestates.
THEOREM HoldInvariance ==
  ASSUME Savestates = FALSE
  PROVE  Spec => []HoldInv
<1>1. Init => IndInv /\ HoldInv
  BY InitInv, InitHold
<1>2. IndInv /\ HoldInv /\ [Next]_vars => (IndInv /\ HoldInv)'
  BY NextInv, NextHold
<1>3. QED
  BY <1>1, <1>2, PTL DEF Spec

(***************************************************************************)
(* Mutual exclusion without savestates: the word owner that the fast paths *)
(* compare and swap tells exactly who holds the lock.                      *)
(***************************************************************************)
THEOREM OwnerMatches ==
  ASSUME Savestates = FALSE
  PROVE  Spec => []OwnerMatchesHolders
<1>1. HoldInv => OwnerMatchesHolders
  BY DEF HoldInv
<1>2. QED
  BY <1>1, HoldInvariance, PTL

(***************************************************************************)
(* Without savestates, readers that hold the lock leave no reader behind:  *)
(* the ensure() of runlock holds.                                          *)
(***************************************************************************)
THEOREM NotStranded ==
  ASSUME Savestates = FALSE
  PROVE  Spec => []ReadersNotStranded
<1>1. IndInv /\ HoldInv => ReadersNotStranded
  <2> SUFFICES ASSUME IndInv, HoldInv, rq # <<>>,
                      owner.readers > 0 \/ \E t \in Threads : pc[t] = "runlock_grant"
               PROVE  wq # <<>>
    BY DEF ReadersNotStranded
  <2>1. owner.waiters
    BY DEF IndInv, WaitersAreSeen
  <2>2. owner.readers > 0
    BY SMT DEF IndInv, MutexInv
  <2>3. QED
    BY <2>1, <2>2 DEF HoldInv, WaitForReaders
<1>2. QED
  BY <1>1, Invariance, HoldInvariance, PTL

=============================================================================
