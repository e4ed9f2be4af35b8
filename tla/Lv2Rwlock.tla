----------------------------- MODULE Lv2Rwlock ------------------------------
(***************************************************************************)
(* The LV2 reader-writer lock, kernel/cellos/src/sys_rwlock.cpp, used by a *)
(* set of PPU threads that unlock only what they have locked.              *)
(*                                                                         *)
(* owner is one 64-bit word: twice the id of the writer, or minus twice    *)
(* the number of readers, with the low bit set while threads wait.  Here   *)
(* it is a record with the three parts.  Every operation first tries a     *)
(* compare-and-swap that fails if the low bit is set; only then it takes   *)
(* the host mutex.  A step of the model is one atomic operation on owner   *)
(* or one critical section, except that the critical section of runlock is *)
(* split between its update of owner and the store that hands the lock     *)
(* over, which rely on the low bit to keep the fast paths out.             *)
(*                                                                         *)
(* held is not a variable of the program: it is what the system calls have *)
(* told each thread.  Calls that only return an error have no action.      *)
(***************************************************************************)
EXTENDS Lv2Obj, FiniteSets

VARIABLES exists,   \* the id is in the id manager
          owner,    \* lv2_rwlock::owner
          rq, wq,   \* lv2_rwlock::rq, wq
          mutex,    \* the thread that holds lv2_rwlock::mutex between two steps
          call,     \* the system call and whether it has a timeout
          old,      \* the value of owner that a compare-and-swap expects
          held      \* what the thread was told it holds

objVars == <<exists, owner, rq, wq, mutex>>
threadVars == <<run, signal, stopped, loading>>
vars == <<objVars, threadVars, pc, call, old, held>>

Owner(w, r, b) == [writer |-> w, readers |-> r, waiters |-> b]
Free == Owner(NoThread, 0, FALSE)
Call(name, timed) == [name |-> name, timed |-> timed]
NoCall == Call("none", FALSE)

Labels == WaitLabels \union
  {"rlock_cas", "rlock_lock", "wlock_cas", "wlock_lock", "runlock_cas",
   "runlock_lock", "runlock_grant", "wunlock_grant", "stuck"}

Owners == [writer : Threads \union {NoThread}, readers : Nat, waiters : BOOLEAN]

\* Type invariant.
TypeOK ==
  /\ ThreadsTypeOK
  /\ exists \in BOOLEAN
  /\ owner \in Owners
  /\ rq \in Seq(Threads)
  /\ wq \in Seq(Threads)
  /\ mutex \in Threads \union {NoThread}
  /\ pc \in [Threads -> Labels]
  /\ call \in [Threads -> [name : {"none", "rlock", "wlock", "runlock", "wunlock"},
                           timed : BOOLEAN]]
  /\ old \in [Threads -> Owners]
  /\ held \in [Threads -> {"none", "read", "write"}]

Init ==
  /\ ThreadsInit
  /\ exists = TRUE
  /\ owner = Free
  /\ rq = <<>>
  /\ wq = <<>>
  /\ mutex = NoThread
  /\ call = [t \in Threads |-> NoCall]
  /\ old = [t \in Threads |-> Free]
  /\ held = [t \in Threads |-> "none"]

-----------------------------------------------------------------------------
\* The system call ends; from now on the thread holds h.
Return(t, h) ==
  /\ Goto(t, "idle")
  /\ call' = [call EXCEPT ![t] = NoCall]
  /\ held' = [held EXCEPT ![t] = h]

\* The system call goes on.
Continue(t, label) == Goto(t, label) /\ UNCHANGED <<call, held>>

Enters(t, c) ==
  /\ exists
  /\ CanEnter(t)
  /\ pc[t] = "idle" \/ (pc[t] = "again" /\ call[t] = c)

\* The system call is more than one step.
Begin(t, c, label) == Goto(t, label) /\ call' = [call EXCEPT ![t] = c] /\ UNCHANGED held

\* Mutant: a plain store instead of a compare-and-swap.
CasStores(t) == TRUE

\* The compare-and-swap finds the value that was loaded.
CasSucceeds(t) == owner = old[t]

Expect(t, value) == old' = [old EXCEPT ![t] = value]

\* Operations that run inside an idm callback, which withdraw excludes.
InCallback(t) ==
  pc[t] \in {"rlock_cas", "rlock_lock", "wlock_cas", "wlock_lock", "runlock_cas"}

\* Mutant: the readers do not look at the low bit.
CanReadBarging(o) == o.writer = NoThread

\* val <= 0 && !(val & 1)
CanRead(o) == o.writer = NoThread /\ ~o.waiters

AddReaders(o, n) == [o EXCEPT !.readers = @ + n]

\* val |= 1
SetWaiters(o) == [o EXCEPT !.waiters = TRUE]

\* Mutant: the low bit is only set for writers that wait.
HandedToWritersOnly(w, rest) == Owner(w, 0, rest # <<>>)

\* The value of owner for the next writer; rest are the other writers.
HandedTo(w, rest) == Owner(w, 0, rest # <<>> \/ rq # <<>>)

\* The value of owner when the blocked readers join n others.
AllReaders(n) == Owner(NoThread, n + Len(rq), FALSE)

\* Queue and sleep.
Block(t) ==
  /\ owner' = SetWaiters(owner)
  /\ run' = sleep(t)
  /\ loading' = slept(t)
  /\ Continue(t, "wait")

Again(t) == stopped' = stopped \union {t} /\ Continue(t, "again")

-----------------------------------------------------------------------------
\* sys_rwlock_rlock
RLockLoad(t, timed) ==
  /\ Enters(t, Call("rlock", timed))
  /\ held[t] = "none"
  /\ Expect(t, IF CanRead(owner) THEN owner ELSE Free)
  /\ Begin(t, Call("rlock", timed), IF CanRead(owner) THEN "rlock_cas" ELSE "rlock_lock")
  /\ UNCHANGED <<objVars, threadVars>>

RLockCas(t) ==
  /\ pc[t] = "rlock_cas"
  /\ Expect(t, Free)
  /\ IF CasSucceeds(t)
     THEN owner' = AddReaders(owner, 1) /\ Return(t, "read")
     ELSE Continue(t, "rlock_lock") /\ UNCHANGED owner
  /\ UNCHANGED <<exists, rq, wq, mutex, threadVars>>

RLockLock(t) ==
  /\ pc[t] = "rlock_lock"
  /\ mutex = NoThread
  /\ IF CanRead(owner)
     THEN /\ owner' = AddReaders(owner, 1)
          /\ Return(t, "read")
          /\ UNCHANGED <<rq, run, loading>>
     ELSE Block(t) /\ rq' = emplace(rq, t)
  /\ UNCHANGED <<exists, wq, mutex, old, signal, stopped>>

\* sys_rwlock_tryrlock
TryRLock(t) ==
  /\ exists /\ Idle(t) /\ held[t] = "none"
  /\ CanRead(owner)
  /\ owner' = AddReaders(owner, 1)
  /\ held' = [held EXCEPT ![t] = "read"]
  /\ UNCHANGED <<exists, rq, wq, mutex, threadVars, pc, call, old>>

\* sys_rwlock_wlock
WLockLoad(t, timed) ==
  /\ Enters(t, Call("wlock", timed))
  /\ held[t] = "none"
  /\ Begin(t, Call("wlock", timed), IF owner = Free THEN "wlock_cas" ELSE "wlock_lock")
  /\ UNCHANGED <<objVars, threadVars, old>>

WLockCas(t) ==
  /\ pc[t] = "wlock_cas"
  /\ IF owner = Free
     THEN owner' = Owner(t, 0, FALSE) /\ Return(t, "write")
     ELSE Continue(t, "wlock_lock") /\ UNCHANGED owner
  /\ UNCHANGED <<exists, rq, wq, mutex, threadVars, old>>

WLockLock(t) ==
  /\ pc[t] = "wlock_lock"
  /\ mutex = NoThread
  /\ IF owner = Free
     THEN /\ owner' = Owner(t, 0, FALSE)
          /\ Return(t, "write")
          /\ UNCHANGED <<wq, run, loading>>
     ELSE Block(t) /\ wq' = emplace(wq, t)
  /\ UNCHANGED <<exists, rq, mutex, old, signal, stopped>>

\* sys_rwlock_trywlock
TryWLock(t) ==
  /\ exists /\ Idle(t) /\ held[t] = "none"
  /\ owner = Free
  /\ owner' = Owner(t, 0, FALSE)
  /\ held' = [held EXCEPT ![t] = "write"]
  /\ UNCHANGED <<exists, rq, wq, mutex, threadVars, pc, call, old>>

-----------------------------------------------------------------------------
Wanted(t) == IF call[t].name = "rlock" THEN "read" ELSE "write"

\* The sleep queue of the thread's system call.
QueueOf(t) == IF call[t].name = "rlock" THEN rq ELSE wq

\* cpu_flag::signal in the wait loop: CELL_OK
WaitSignal(t) ==
  /\ WaitEnds(t)
  /\ Return(t, Wanted(t))
  /\ UNCHANGED <<objVars, old>>

WaitStopped(t) ==
  /\ pc[t] = "wait"
  /\ t \in stopped
  /\ mutex = NoThread
  /\ IF t \in Queued(QueueOf(t)) THEN Continue(t, "again") ELSE Return(t, Wanted(t))
  /\ UNCHANGED <<objVars, threadVars, old>>

WaitTimeout(t) ==
  /\ call[t].timed
  /\ wait_timeout(t)
  /\ UNCHANGED <<objVars, call, old, held>>

CheckState(t) ==
  /\ cpu_sleep(t) \/ check_state(t)
  /\ UNCHANGED <<objVars, call, old, held>>

\* The end of a timeout of rlock.
RLockRecheck(t) ==
  /\ pc[t] = "recheck" /\ call[t].name = "rlock"
  /\ mutex = NoThread
  /\ IF t \in Queued(rq)
     THEN rq' = unqueue(rq, t) /\ Return(t, "none")
     ELSE Return(t, "read") /\ UNCHANGED rq
  /\ UNCHANGED <<exists, owner, wq, mutex, threadVars, old>>

\* The end of a timeout of wlock: the lock was handed over just in time.
WLockRecheckOwned(t) ==
  /\ pc[t] = "recheck" /\ call[t].name = "wlock"
  /\ mutex = NoThread
  /\ t \notin Queued(wq)
  /\ Return(t, "write")
  /\ UNCHANGED <<objVars, threadVars, old>>

\* Mutant: the last writer to give up leaves the blocked readers alone.
WakesReadersNever(rest) == FALSE

\* The condition for waking the blocked readers; rest are the other writers.
WakesReaders(rest) == rq # <<>> /\ rest = <<>> /\ owner.readers > 0

\* It was not: CELL_ETIMEDOUT.  The last writer to give up lets the blocked
\* readers in, if readers hold the lock.
WLockRecheck(t) ==
  LET rest == unqueue(wq, t)
  IN /\ pc[t] = "recheck" /\ call[t].name = "wlock"
     /\ mutex = NoThread
     /\ t \in Queued(wq)
     /\ wq' = rest
     /\ \/ /\ WakesReaders(rest)
           /\ ~ \E u \in Queued(rq) : pc[u] = "again"
           /\ owner' = AllReaders(owner.readers)
           /\ run' = awake(Queued(rq))
           /\ rq' = <<>>
        \/ /\ ~WakesReaders(rest)
           /\ owner' = IF rq = <<>> /\ rest = <<>>
                       THEN [owner EXCEPT !.waiters = FALSE] ELSE owner
           /\ UNCHANGED <<rq, run>>
     /\ Return(t, "none")
     /\ UNCHANGED <<exists, mutex, old, signal, stopped, loading>>

\* schedule does not unlink a reader that has left with cpu_flag::again, and
\* the loop that wakes the readers takes the same one for ever.
WLockRecheckStuck(t) ==
  LET i == CHOOSE i \in DOMAIN rq : /\ pc[rq[i]] = "again"
                                    /\ \A j \in 1 .. i - 1 : pc[rq[j]] # "again"
  IN /\ pc[t] = "recheck" /\ call[t].name = "wlock"
     /\ mutex = NoThread
     /\ t \in Queued(wq)
     /\ wq' = unqueue(wq, t)
     /\ WakesReaders(wq')
     /\ \E u \in Queued(rq) : pc[u] = "again"
     /\ rq' = SubSeq(rq, i, Len(rq))
     /\ mutex' = t
     /\ Continue(t, "stuck")
     /\ UNCHANGED <<exists, owner, threadVars, old>>

-----------------------------------------------------------------------------
\* Hand the lock to the next writer, unless it has left for a savestate.
HandOver(t) ==
  LET i == schedule(wq)
  IN /\ wq # <<>>
     /\ IF pc[wq[i]] = "again"
        THEN Again(t) /\ UNCHANGED <<owner, wq, run>>
        ELSE /\ wq' = Unlink(wq, i)
             /\ owner' = HandedTo(wq[i], wq')
             /\ run' = awake({wq[i]})
             /\ Return(t, "none")
             /\ UNCHANGED stopped
     /\ UNCHANGED rq

\* sys_rwlock_runlock
RUnlockLoad(t) ==
  LET fast == owner.readers > 0 /\ ~owner.waiters
  IN /\ Enters(t, Call("runlock", FALSE))
     /\ held[t] = "read"
     /\ Expect(t, IF fast THEN owner ELSE Free)
     /\ Begin(t, Call("runlock", FALSE), IF fast THEN "runlock_cas" ELSE "runlock_lock")
     /\ UNCHANGED <<objVars, threadVars>>

RUnlockCas(t) ==
  /\ pc[t] = "runlock_cas"
  /\ Expect(t, Free)
  /\ IF CasSucceeds(t)
     THEN owner' = AddReaders(owner, -1) /\ Return(t, "none")
     ELSE Continue(t, "runlock_lock") /\ UNCHANGED owner
  /\ UNCHANGED <<exists, rq, wq, mutex, threadVars>>

\* The critical section up to the update of owner; the last reader keeps the
\* mutex if threads wait (_old == -1).
RUnlockLock(t) ==
  /\ pc[t] = "runlock_lock"
  /\ mutex = NoThread
  /\ owner.readers > 0
  /\ IF owner.readers = 1 /\ owner.waiters
     THEN Continue(t, "runlock_grant") /\ mutex' = t /\ UNCHANGED owner
     ELSE Return(t, "none") /\ owner' = AddReaders(owner, -1) /\ UNCHANGED mutex
  /\ UNCHANGED <<exists, rq, wq, threadVars, old>>

RUnlockGrant(t) ==
  /\ pc[t] = "runlock_grant"
  /\ mutex' = NoThread
  /\ \/ HandOver(t)
     \/ /\ wq = <<>>
        /\ rq = <<>>      \* ensure, the program aborts if not
        /\ owner' = Free
        /\ Return(t, "none")
        /\ UNCHANGED <<rq, wq, run, stopped>>
  /\ UNCHANGED <<exists, old, signal, loading>>

\* sys_rwlock_wunlock
WUnlock(t) ==
  /\ Enters(t, Call("wunlock", FALSE))
  /\ held[t] = "write" /\ owner.writer = t
  /\ IF owner.waiters
     THEN Begin(t, Call("wunlock", FALSE), "wunlock_grant") /\ UNCHANGED owner
     ELSE owner' = Free /\ Return(t, "none")
  /\ UNCHANGED <<exists, rq, wq, mutex, threadVars, old>>

WUnlockGrant(t) ==
  /\ pc[t] = "wunlock_grant"
  /\ mutex = NoThread
  /\ \/ HandOver(t)
     \/ /\ wq = <<>> /\ \E u \in Queued(rq) : pc[u] = "again"
        /\ Again(t)
        /\ UNCHANGED <<owner, rq, wq, run>>
     \/ /\ wq = <<>> /\ ~ \E u \in Queued(rq) : pc[u] = "again"
        /\ owner' = AllReaders(0)
        /\ run' = awake(Queued(rq))
        /\ rq' = <<>>
        /\ Return(t, "none")
        /\ UNCHANGED <<wq, stopped>>
  /\ UNCHANGED <<exists, mutex, old, signal, loading>>

-----------------------------------------------------------------------------
\* sys_rwlock_destroy, not with an owner
Destroy(t) ==
  /\ exists /\ Idle(t)
  /\ ~ \E u \in Threads : InCallback(u)
  /\ owner = Free
  /\ exists' = FALSE
  /\ UNCHANGED <<owner, rq, wq, mutex, threadVars, pc, call, old, held>>

\* sys_rwlock_create, once no thread refers to the previous lock
Create(t) ==
  /\ ~exists /\ Idle(t)
  /\ \A u \in Threads : pc[u] = "idle"
  /\ exists' = TRUE
  /\ UNCHANGED <<owner, rq, wq, mutex, threadVars, pc, call, old, held>>

Schedule(t) == schedule_all(t) /\ UNCHANGED <<objVars, call, old, held>>

Stop(t) == stop(t) /\ UNCHANGED <<objVars, call, old, held>>

\* Mutant: the low bit is not saved, as nobody is in the queues after a load.
savedUnmarked == [owner EXCEPT !.waiters = FALSE]

\* lv2_rwlock::save: owner as it is, with its low bit
saved == owner

\* The constructor that loads a lock; its queues fill up again.
Load ==
  /\ load
  /\ owner' = saved
  /\ rq' = <<>>
  /\ wq' = <<>>
  /\ UNCHANGED <<exists, mutex, call, old, held>>

-----------------------------------------------------------------------------
\* The steps of a thread in a system call.
Step(t) ==
  \/ RLockCas(t) \/ RLockLock(t) \/ WLockCas(t) \/ WLockLock(t)
  \/ WaitSignal(t) \/ WaitStopped(t) \/ WaitTimeout(t) \/ CheckState(t)
  \/ RLockRecheck(t) \/ WLockRecheckOwned(t) \/ WLockRecheck(t) \/ WLockRecheckStuck(t)
  \/ RUnlockCas(t) \/ RUnlockLock(t) \/ RUnlockGrant(t) \/ WUnlockGrant(t)

Unlock(t) == RUnlockLoad(t) \/ WUnlock(t)

Enter(t) ==
  \/ \E timed \in BOOLEAN : RLockLoad(t, timed) \/ WLockLoad(t, timed)
  \/ TryRLock(t) \/ TryWLock(t) \/ Unlock(t) \/ Destroy(t) \/ Create(t)

Next ==
  \/ \E t \in Threads : Step(t) \/ Enter(t) \/ Schedule(t) \/ Stop(t)
  \/ Load

Spec == Init /\ [][Next]_vars

(***************************************************************************)
(* Fairness: the host runs every thread and grants its mutex to a thread   *)
(* that keeps asking for it, the PPU scheduler gets round to every thread  *)
(* that is ready, and the guest unlocks what it has locked.                *)
(***************************************************************************)
Fairness ==
  \A t \in Threads :
    SF_vars(Step(t)) /\ WF_vars(Schedule(t)) /\ WF_vars(Unlock(t))

FairSpec == Spec /\ Fairness

-----------------------------------------------------------------------------
\* A thread that waited was handed the lock and does not know yet.
Granted(t) == InWaitLoop(t) /\ t \notin Queued(QueueOf(t))

Readers == {t \in Threads : held[t] = "read" \/ (Granted(t) /\ call[t].name = "rlock")}
Writers == {t \in Threads : held[t] = "write" \/ (Granted(t) /\ call[t].name = "wlock")}

(***************************************************************************)
(* The word owner tells exactly who holds the lock, whatever the fast      *)
(* paths, the hand-overs and the timeouts do: it is the writer that was    *)
(* told so or that is about to be, or the number of such readers.  Mutual  *)
(* exclusion follows: one writer and nobody else, or readers only.         *)
(***************************************************************************)
OwnerMatchesHolders ==
  /\ Writers = {owner.writer} \ {NoThread}
  /\ Cardinality(Readers) = owner.readers
  /\ owner.writer # NoThread => owner.readers = 0

(***************************************************************************)
(* Nobody waits for a free lock: while a thread is queued the low bit is   *)
(* set, and the low bit is set only while somebody holds the lock and will *)
(* have to look at the queues when unlocking.                              *)
(***************************************************************************)
WaitersAreSeen ==
  /\ rq # <<>> \/ wq # <<>> => owner.waiters
  /\ owner.waiters => owner.writer # NoThread \/ owner.readers > 0

(***************************************************************************)
(* Readers that hold the lock block other readers only while a writer      *)
(* waits, even if the writers gave up one after the other; so the ensure() *)
(* of runlock holds, that the last reader leaves nobody behind if no       *)
(* writer waits.                                                           *)
(***************************************************************************)
ReadersNotStranded ==
  \/ owner.readers > 0
  \/ \E t \in Threads : pc[t] = "runlock_grant"
  => (rq # <<>> => wq # <<>>)

(***************************************************************************)
(* After a load the threads that were asleep find the lock taken, so that  *)
(* each of them sleeps again and the scheduler can start (g_to_sleep       *)
(* empties): a lock that is loaded with waiters keeps its low bit.         *)
(***************************************************************************)
LoadedThreadsSleep ==
  \A t \in loading :
    exists /\ (IF call[t].name = "rlock" THEN ~CanRead(owner) ELSE owner # Free)

\* Readers never overtake a writer that waits (rlock's test of the low bit).
ReadersDoNotOvertake == [][owner'.readers > owner.readers => wq' = <<>>]_vars

(***************************************************************************)
(* A writer that waits without a timeout gets the lock, if whoever holds   *)
(* the lock unlocks it: nobody overtakes it for ever, neither readers nor  *)
(* other writers, unless they are more urgent.                             *)
(***************************************************************************)
WriterServed ==
  \A t \in Threads : Urgent(t) =>
    pc[t] = "wait" /\ call[t] = Call("wlock", FALSE) ~> held[t] = "write"

=============================================================================
