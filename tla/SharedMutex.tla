---------------------------- MODULE SharedMutex -----------------------------
(***************************************************************************)
(* The reader-writer lock under every host critical section of the         *)
(* emulator: shared_mutex, rpcs3/util/mutex.h and mutex.cpp (the one of    *)
(* rx/SharedMutex.hpp is the same but for lock_unlock).                    *)
(*                                                                         *)
(* The lock is one word.  A reader adds 1 to it, a writer c_one, and so    *)
(* does a thread that waits for the lock, for writing or for reading.      *)
(* Whoever leaves the lock to others adds the notification bit c_sig and   *)
(* wakes one waiter; the waiter that takes the bit off owns the lock, and  *)
(* so does a newcomer that is faster (it steals the bit).                  *)
(*                                                                         *)
(* A step is one atomic operation on the word.  A load followed by a       *)
(* compare-and-swap of the loaded value is a conditional step on the word  *)
(* when it succeeds, and no step at all when it fails.  The loops that     *)
(* spin 10 or 30 times may be given up at any turn.                        *)
(***************************************************************************)
EXTENDS Integers, FiniteSets

CONSTANTS Threads,
          c_one,   \* 1 << 14: one writer, and one more than the readers can be
          Slots    \* c_sig / c_one, 1 << 16

\* The notification bit.
c_sig == c_one * Slots

ASSUME SharedMutexAssumption ==
  /\ IsFiniteSet(Threads)
  /\ c_one \in Nat /\ c_one >= 2
  /\ Slots \in Nat /\ Cardinality(Threads) < Slots

VARIABLES m_value,  \* the word
          pc,       \* what each thread does with the lock
          old,      \* the value that a thread in imp_wait has found, or -1
          asleep,   \* threads asleep in m_value.wait
          max,      \* _max of a thread in imp_lock_unlock
          seen      \* whom a thread in lock_unlock has to wait for, see below

waitVars == <<old, asleep>>
unlockVars == <<max, seen>>
vars == <<m_value, pc, waitVars, unlockVars>>

\* What follows when imp_wait returns.
AfterWait == [lock_wait |-> "writer", shared_wait |-> "downgrade",
              upgrade_wait |-> "writer", unlock_wait |-> "unlock"]

Waiting == DOMAIN AfterWait
Reading == {"reader", "upgrade_spin"}
Writing == {"writer", "downgrade", "unlock"}
Labels == {"idle", "lock_spin", "shared_spin", "unlock_spin", "signal", "notify"}
            \union Waiting \union Reading \union Writing

Readers == {t \in Threads : pc[t] \in Reading}
Writers == {t \in Threads : pc[t] \in Writing}
Holders == Readers \union Writers
Waiters == {t \in Threads : pc[t] \in Waiting}

\* Type invariant.  The word stays below c_err, which is twice c_sig
\* ("shared_mutex underflow"), so that it never wraps.
TypeOK ==
  /\ m_value \in 0 .. c_sig + (c_sig - 1)
  /\ pc \in [Threads -> Labels]
  /\ old \in [Threads -> -1 .. c_sig - 1]
  /\ asleep \subseteq Threads
  /\ max \in [Threads -> Nat]
  /\ seen \in [Threads -> SUBSET Threads]

Init ==
  /\ m_value = 0
  /\ pc = [t \in Threads |-> "idle"]
  /\ old = [t \in Threads |-> -1]
  /\ asleep = {}
  /\ max = [t \in Threads |-> 1]
  /\ seen = [t \in Threads |-> {}]

-----------------------------------------------------------------------------
(***************************************************************************)
(* Thread t goes on at a label.  seen is kept for the property of          *)
(* lock_unlock: those who held the lock when it was called and have held   *)
(* it without interruption since.                                          *)
(***************************************************************************)
Goto(t, label) ==
  /\ pc' = [pc EXCEPT ![t] = label]
  /\ seen' = [u \in Threads |-> seen[u] \intersect
                {h \in Threads : pc'[h] \in Reading \union Writing}]

\* The notification bit is set.
Signaled == (m_value \div c_sig) % 2 = 1

-----------------------------------------------------------------------------
\* lock and try_lock: compare-and-swap from 0
LockFree(t) ==
  /\ pc[t] \in {"idle", "lock_spin"}
  /\ m_value = 0
  /\ m_value' = c_one
  /\ Goto(t, "writer")
  /\ UNCHANGED <<waitVars, max>>

\* lock finds the lock taken: imp_lock
LockBusy(t) ==
  /\ pc[t] = "idle"
  /\ m_value # 0
  /\ Goto(t, "lock_spin")
  /\ UNCHANGED <<m_value, waitVars, max>>

\* imp_lock steals the notification bit.
LockSteal(t) ==
  /\ pc[t] = "lock_spin"
  /\ Signaled
  /\ m_value' = m_value - c_sig + c_one
  /\ Goto(t, "writer")
  /\ UNCHANGED <<waitVars, max>>

\* imp_lock stops spinning and counts itself in.
LockCount(t) ==
  /\ pc[t] = "lock_spin"
  /\ m_value' = m_value + c_one
  /\ Goto(t, IF m_value = 0 THEN "writer" ELSE "lock_wait")
  /\ UNCHANGED <<waitVars, max>>

-----------------------------------------------------------------------------
\* Mutant: a reader does not mind the threads that are counted.
SharableBit == m_value < c_sig

\* No writer, no waiter and not the last number of readers.
Sharable == m_value < c_one - 1

\* lock_shared and try_lock_shared
LockShared(t) ==
  /\ pc[t] \in {"idle", "shared_spin"}
  /\ Sharable
  /\ m_value' = m_value + 1
  /\ Goto(t, "reader")
  /\ UNCHANGED <<waitVars, max>>

\* lock_shared fails, perhaps only because the word has changed:
\* imp_lock_shared
LockSharedBusy(t) ==
  /\ pc[t] = "idle"
  /\ Goto(t, "shared_spin")
  /\ UNCHANGED <<m_value, waitVars, max>>

LockSharedSteal(t) ==
  /\ pc[t] = "shared_spin"
  /\ Signaled
  /\ m_value' = m_value - c_sig + 1
  /\ Goto(t, "reader")
  /\ UNCHANGED <<waitVars, max>>

\* "Acquire writer lock and downgrade"
LockSharedCount(t) ==
  /\ pc[t] = "shared_spin"
  /\ m_value' = m_value + c_one
  /\ Goto(t, IF m_value = 0 THEN "downgrade" ELSE "shared_wait")
  /\ UNCHANGED <<waitVars, max>>

\* lock_downgrade, by imp_lock_shared or by a writer
LockDowngrade(t) ==
  /\ pc[t] \in {"downgrade", "writer"}
  /\ m_value' = m_value - (c_one - 1)
  /\ Goto(t, "reader")
  /\ UNCHANGED <<waitVars, max>>

-----------------------------------------------------------------------------
\* try_lock_upgrade: the only reader becomes a writer, "ignoring other
\* writers" that wait
LockUpgrade(t) ==
  /\ pc[t] \in Reading
  /\ (m_value + c_one - 1) % c_one = 0
  /\ m_value' = m_value + (c_one - 1)
  /\ Goto(t, "writer")
  /\ UNCHANGED <<waitVars, max>>

\* lock_upgrade fails: imp_lock_upgrade
LockUpgradeBusy(t) ==
  /\ pc[t] = "reader"
  /\ Goto(t, "upgrade_spin")
  /\ UNCHANGED <<m_value, waitVars, max>>

\* "Convert to writer lock"
LockUpgradeCount(t) ==
  /\ pc[t] = "upgrade_spin"
  /\ m_value' = m_value + (c_one - 1)
  /\ Goto(t, IF m_value % c_one = 1 THEN "writer" ELSE "upgrade_wait")
  /\ UNCHANGED <<waitVars, max>>

-----------------------------------------------------------------------------
\* Mutant: imp_wait compares the word with the bit alone, and looks again when
\* others wait too.
WaitTakeAlone(t) ==
  /\ pc[t] \in Waiting
  /\ old[t] = -1
  /\ m_value >= c_sig
  /\ IF m_value = c_sig + c_one
     THEN /\ m_value' = m_value - c_sig
          /\ Goto(t, AfterWait[pc[t]])
          /\ UNCHANGED <<waitVars, max>>
     ELSE UNCHANGED vars

\* imp_wait takes the notification bit.
WaitTake(t) ==
  /\ pc[t] \in Waiting
  /\ old[t] = -1
  /\ m_value >= c_sig
  /\ m_value' = m_value - c_sig
  /\ Goto(t, AfterWait[pc[t]])
  /\ UNCHANGED <<waitVars, max>>

\* imp_wait finds none.
WaitFind(t) ==
  /\ pc[t] \in Waiting
  /\ old[t] = -1
  /\ m_value < c_sig
  /\ old' = [old EXCEPT ![t] = m_value]
  /\ UNCHANGED <<m_value, pc, asleep, unlockVars>>

\* Mutant: wait sleeps whatever the word is by now.
StillAny(t) == TRUE

\* The word is still what imp_wait has found.
Still(t) == m_value = old[t]

\* m_value.wait(old): sleep, or look again if the word has changed
WaitSleep(t) ==
  /\ old[t] # -1
  /\ t \notin asleep
  /\ IF Still(t)
     THEN asleep' = asleep \union {t} /\ UNCHANGED old
     ELSE old' = [old EXCEPT ![t] = -1] /\ UNCHANGED asleep
  /\ UNCHANGED <<m_value, pc, unlockVars>>

\* imp_signal: the bit, and then the wake-up
Signal(t) ==
  /\ pc[t] = "signal"
  /\ m_value' = m_value + c_sig
  /\ Goto(t, "notify")
  /\ UNCHANGED <<waitVars, max>>

\* m_value.notify_one
Notify(t) ==
  /\ pc[t] = "notify"
  /\ \/ asleep = {} /\ UNCHANGED waitVars
     \/ \E u \in asleep :
          /\ asleep' = asleep \ {u}
          /\ old' = [old EXCEPT ![u] = -1]
  /\ Goto(t, "idle")
  /\ UNCHANGED <<m_value, max>>

-----------------------------------------------------------------------------
\* imp_unlock: imp_signal if the lock was not only this writer's
AfterUnlock == IF m_value # c_one THEN "signal" ELSE "idle"

\* unlock
Unlock(t) ==
  /\ pc[t] \in {"writer", "unlock"}
  /\ m_value' = m_value - c_one
  /\ Goto(t, AfterUnlock)
  /\ UNCHANGED <<waitVars, max>>

\* imp_unlock_shared: threads wait, and no reader remains
LastReader == m_value >= c_one /\ (m_value - 1) % c_one = 0

\* unlock_shared
UnlockShared(t) ==
  /\ pc[t] = "reader"
  /\ m_value' = m_value - 1
  /\ Goto(t, IF LastReader THEN "signal" ELSE "idle")
  /\ UNCHANGED <<waitVars, max>>

-----------------------------------------------------------------------------
\* lock_unlock, unless the lock is free: imp_lock_unlock
LockUnlock(t) ==
  /\ pc[t] = "idle"
  /\ m_value # 0
  /\ pc' = [pc EXCEPT ![t] = "unlock_spin"]
  /\ max' = [max EXCEPT ![t] = 1]
  /\ seen' = [seen EXCEPT ![t] = Holders]
  /\ UNCHANGED <<m_value, waitVars>>

\* Mutant: readers do not matter.
CaughtWriters(t) == m_value \div c_one < max[t] \/ m_value >= c_sig

\* "Return if have cought a state where" the mutex is free, the number of
\* waiters has decreased, or the notification bit is set
Caught(t) ==
  /\ m_value % c_one = 0
  /\ m_value \div c_one < max[t] \/ m_value >= c_sig

\* One turn of the loop of imp_lock_unlock.
LockUnlockSpin(t) ==
  /\ pc[t] = "unlock_spin"
  /\ IF Caught(t)
     THEN Goto(t, "idle") /\ max' = [max EXCEPT ![t] = 1]
     ELSE max' = [max EXCEPT ![t] = m_value \div c_one] /\ UNCHANGED <<pc, seen>>
  /\ UNCHANGED <<m_value, waitVars>>

\* "Lock and unlock"
LockUnlockCount(t) ==
  /\ pc[t] = "unlock_spin"
  /\ m_value' = m_value + c_one
  /\ max' = [max EXCEPT ![t] = 1]
  /\ Goto(t, IF m_value = 0 THEN "unlock" ELSE "unlock_wait")
  /\ UNCHANGED waitVars

-----------------------------------------------------------------------------
\* A thread begins to use the lock, or has it and goes on to something else.
Request(t) ==
  \/ pc[t] = "idle" /\ (LockFree(t) \/ LockShared(t))
  \/ LockBusy(t) \/ LockSharedBusy(t) \/ LockUnlock(t)
  \/ pc[t] \in {"reader", "writer"} /\ (LockUpgrade(t) \/ LockDowngrade(t))
  \/ LockUpgradeBusy(t)

\* The steps of an operation that has begun, and the end of a critical section.
Step(t) ==
  \/ pc[t] = "lock_spin" /\ LockFree(t)
  \/ pc[t] = "shared_spin" /\ LockShared(t)
  \/ pc[t] = "upgrade_spin" /\ LockUpgrade(t)
  \/ pc[t] = "downgrade" /\ LockDowngrade(t)
  \/ LockSteal(t) \/ LockCount(t) \/ LockSharedSteal(t) \/ LockSharedCount(t)
  \/ LockUpgradeCount(t)
  \/ WaitTake(t) \/ WaitFind(t) \/ WaitSleep(t) \/ Signal(t) \/ Notify(t)
  \/ Unlock(t) \/ UnlockShared(t) \/ LockUnlockSpin(t) \/ LockUnlockCount(t)

Next == \E t \in Threads : Request(t) \/ Step(t)

Spec == Init /\ [][Next]_vars

\* Fairness: the host runs every thread, and nobody keeps the lock for ever.
FairSpec == Spec /\ \A t \in Threads : WF_vars(Step(t))

-----------------------------------------------------------------------------
(***************************************************************************)
(* The lock excludes: a thread that writes is alone.  Every model of this  *)
(* project in which a critical section is one step relies on this.         *)
(***************************************************************************)
MutualExclusion ==
  \A t \in Writers : Holders = {t}

(***************************************************************************)
(* No wake-up is lost: when threads wait and nobody has the lock, then     *)
(* somebody is about to set the notification bit, or it is set and some    *)
(* waiter is awake to take it or about to be woken.                        *)
(***************************************************************************)
SignalReachesWaiter ==
  Waiters # {} /\ Holders = {} =>
    \E t \in Threads :
      \/ pc[t] = "signal"
      \/ m_value >= c_sig /\ (pc[t] = "notify" \/ t \in Waiters \ asleep)

(***************************************************************************)
(* lock_unlock returns only when each thread that had the lock when it was *)
(* called has left it.  The wait loops of the LV2 objects rely on this: a  *)
(* thread that timed out and finds the queue empty waits in this way for   *)
(* the one that took it off.                                               *)
(***************************************************************************)
UnlockSeen ==
  [][\A t \in Threads :
       pc[t] \in {"unlock_spin", "unlock"} /\ pc'[t] \in {"idle", "signal"}
         => seen[t] = {}]_vars

\* While threads wait for a lock that nobody has, somebody will get it.
LockMoves == Waiters # {} /\ Holders = {} ~> Holders # {}

=============================================================================
