---------------------------- MODULE Lv2EventFlag ----------------------------
(***************************************************************************)
(* The LV2 event flag, kernel/cellos/src/sys_event_flag.cpp.  A pattern of *)
(* bits is a set.  wait, trywait and clear change it with one atomic       *)
(* operation and no lock.  set computes, under the host mutex, which       *)
(* waiters the new bits satisfy, each in turn and each perhaps clearing    *)
(* bits for those after it, and then publishes the outcome with one        *)
(* compare-and-swap; if a bit that mattered was cleared meanwhile it       *)
(* starts over with the new value.                                         *)
(*                                                                         *)
(* What set decides is left in the registers of the waiting threads,       *)
(* gpr[3] the result and gpr[6] the pattern reported to the guest, until   *)
(* the wait ends; what is in gpr[6] of a thread that was not woken is never*)
(* used and left out.                                                      *)
(***************************************************************************)
EXTENDS Lv2Obj

CONSTANTS Bits,       \* the bits of a pattern
          Type,       \* SYS_SYNC_WAITER_SINGLE or SYS_SYNC_WAITER_MULTIPLE
          Timed,      \* whether waits have a timeout: both, or one of them
          Requests,   \* what wait and trywait are called with
          InitArgs,   \* the patterns that create is called with
          SetArgs,    \* the patterns that set is called with
          ClearArgs   \* the masks that clear is called with

SINGLE == "SYS_SYNC_WAITER_SINGLE"
MULTIPLE == "SYS_SYNC_WAITER_MULTIPLE"

\* A pattern, SYS_EVENT_FLAG_WAIT_AND or OR, and which bits to clear.
RequestType == [bits : SUBSET Bits, all : BOOLEAN, clear : {"no", "bits", "all"}]

ASSUME EventFlagAssumption ==
  /\ Type \in {SINGLE, MULTIPLE}
  /\ Timed \subseteq BOOLEAN
  /\ Requests \subseteq RequestType
  /\ InitArgs \subseteq SUBSET Bits
  /\ SetArgs \subseteq SUBSET Bits
  /\ ClearArgs \subseteq SUBSET Bits

VARIABLES exists,   \* the id is in the id manager
          pattern,  \* lv2_event_flag::pattern
          sq,       \* lv2_event_flag::sq
          mutex,    \* the thread that holds lv2_event_flag::mutex between two steps
          call,     \* the system call and its arguments
          loaded,   \* the local variable pattern of set
          gpr3,     \* the result of a wait, NoResult is -1
          gpr6      \* the pattern that a wait reports

objVars == <<exists, pattern, sq, mutex>>
threadVars == <<run, signal, stopped, loading>>
regVars == <<gpr3, gpr6>>
vars == <<objVars, threadVars, pc, call, loaded, regVars>>

OK == "CELL_OK"
NoResult == "-1"
ECANCELED == "CELL_ECANCELED"

Call(name, timed, r) == [name |-> name, timed |-> timed, req |-> r]
OnlyBits(b) == [bits |-> b, all |-> FALSE, clear |-> "no"]
NoCall == Call("none", FALSE, OnlyBits({}))

\* Type invariant.
TypeOK ==
  /\ ThreadsTypeOK
  /\ exists \in BOOLEAN
  /\ pattern \in SUBSET Bits
  /\ sq \in Seq(Threads) /\ NoDuplicates(sq)
  /\ mutex \in Threads \union {NoThread}
  /\ pc \in [Threads -> WaitLabels \union {"wait_lock", "set_lock", "set_commit"}]
  /\ call \in [Threads -> [name : {"none", "wait", "set", "cancel"}, timed : BOOLEAN,
                           req : RequestType]]
  /\ loaded \in [Threads -> SUBSET Bits]
  /\ gpr3 \in [Threads -> {OK, ECANCELED, NoResult}]
  /\ gpr6 \in [Threads -> SUBSET Bits]

Init ==
  /\ ThreadsInit
  /\ exists = TRUE
  /\ pattern \in InitArgs
  /\ sq = <<>>
  /\ mutex = NoThread
  /\ call = [t \in Threads |-> NoCall]
  /\ loaded = [t \in Threads |-> {}]
  /\ gpr3 = [t \in Threads |-> NoResult]
  /\ gpr6 = [t \in Threads |-> {}]

-----------------------------------------------------------------------------
\* check_pattern: the condition, and what remains of the pattern
Met(p, r) == IF r.all THEN r.bits \subseteq p ELSE r.bits \intersect p # {}

Cleared(p, r) ==
  CASE r.clear = "no" -> p
    [] r.clear = "bits" -> p \ r.bits
    [] r.clear = "all" -> {}

\* get_next: the position of the next waiter among those that set has not looked
\* at yet, chosen as schedule chooses
get_next(rest) == schedule(rest)

\* dependant_mask_or: the old bits that waking a waiter relies on
DependantMask(p, b, r) ==
  IF ~r.all \/ r.bits \subseteq b \intersect p THEN {} ELSE r.bits

(***************************************************************************)
(* The loop of set over the waiters, for the bits b.  rest are the waiters *)
(* that it has not looked at, woken those that it wakes, unmet those that  *)
(* it does not; left is to_write, mask is dependant_mask, gpr6 the pattern *)
(* that each woken one reports.  Once nothing is left the loop ends.       *)
(***************************************************************************)
Ended(acc) == acc.rest = <<>> \/ (acc.woken # {} /\ acc.left = {})

Visit(acc, b) ==
  LET i == get_next(acc.rest)
      t == acc.rest[i]
      r == call[t].req
      rest == Unlink(acc.rest, i)
  IN IF Ended(acc) THEN acc
     ELSE IF Met(acc.left, r)
     THEN [rest |-> rest, woken |-> acc.woken \union {t}, unmet |-> acc.unmet,
           left |-> Cleared(acc.left, r),
           mask |-> acc.mask \union DependantMask(acc.left, b, r),
           gpr6 |-> [acc.gpr6 EXCEPT ![t] = acc.left]]
     ELSE [rest |-> rest, woken |-> acc.woken, unmet |-> acc.unmet \union {t},
           left |-> acc.left, mask |-> acc.mask, gpr6 |-> acc.gpr6]

\* The loop starts with the whole queue and the value p of the pattern.
Unvisited(p, b) ==
  [rest |-> sq, woken |-> {}, unmet |-> {}, left |-> p \union b, mask |-> {}, gpr6 |-> gpr6]

\* The whole loop; the mask is without the new bits in the end.
ProcessWaiters(p, b) ==
  LET loop[n \in 0 .. Len(sq)] ==
        IF n = 0 THEN Unvisited(p, b) ELSE Visit(loop[n - 1], b)
      end == loop[Len(sq)]
  IN [end EXCEPT !.mask = @ \ b]

-----------------------------------------------------------------------------
Return(t) == Goto(t, "idle") /\ call' = [call EXCEPT ![t] = NoCall]

\* A wait ends, with what is in the registers if it was woken.
EndWait(t) ==
  /\ Return(t)
  /\ gpr3' = [gpr3 EXCEPT ![t] = NoResult]
  /\ gpr6' = [gpr6 EXCEPT ![t] = {}]

Continue(t, label) == Goto(t, label) /\ UNCHANGED call

Enters(t, c) ==
  /\ exists
  /\ CanEnter(t)
  /\ pc[t] = "idle" \/ (pc[t] = "again" /\ call[t] = c)

\* The test at the head of set and cancel: a waiter has left for a savestate.
WaiterAgain == \E u \in Queued(sq) : pc[u] = "again"
Again(t) == stopped' = stopped \union {t} /\ Continue(t, "again")

\* sys_event_flag_wait: the first look at the pattern, without the mutex
Wait(t, r, timed) ==
  /\ Enters(t, Call("wait", timed, r))
  /\ gpr3' = [gpr3 EXCEPT ![t] = NoResult]
  /\ IF Met(pattern, r)
     THEN pattern' = Cleared(pattern, r) /\ Return(t)
     ELSE /\ Goto(t, "wait_lock")
          /\ call' = [call EXCEPT ![t] = Call("wait", timed, r)]
          /\ UNCHANGED pattern
  /\ UNCHANGED <<exists, sq, mutex, threadVars, loaded, gpr6>>

\* Mutant: the pattern is not looked at again under the mutex.
MetUnlockedOnly(t) == FALSE

\* The second look at the pattern.
MetLocked(t) == Met(pattern, call[t].req)

\* The critical section of wait: CELL_OK, CELL_EPERM, or queue and sleep.
WaitLock(t) ==
  /\ pc[t] = "wait_lock"
  /\ mutex = NoThread
  /\ \/ /\ MetLocked(t)
        /\ pattern' = Cleared(pattern, call[t].req)
        /\ Return(t)
        /\ UNCHANGED <<sq, run, loading>>
     \/ /\ ~MetLocked(t) /\ Type = SINGLE /\ sq # <<>>
        /\ Return(t)
        /\ UNCHANGED <<pattern, sq, run, loading>>
     \/ /\ ~MetLocked(t) /\ (Type = MULTIPLE \/ sq = <<>>)
        /\ run' = sleep(t)
        /\ loading' = slept(t)
        /\ sq' = emplace(sq, t)
        /\ Continue(t, "wait")
        /\ UNCHANGED pattern
  /\ UNCHANGED <<exists, mutex, signal, stopped, loaded, regVars>>

WaitSignal(t) == WaitEnds(t) /\ EndWait(t) /\ UNCHANGED <<objVars, loaded>>

WaitStopped(t) ==
  /\ pc[t] = "wait"
  /\ t \in stopped
  /\ mutex = NoThread
  /\ IF t \in Queued(sq)
     THEN Continue(t, "again") /\ UNCHANGED regVars
     ELSE EndWait(t)
  /\ UNCHANGED <<objVars, threadVars, loaded>>

WaitTimeout(t) ==
  /\ call[t].timed
  /\ wait_timeout(t)
  /\ UNCHANGED <<objVars, call, loaded, regVars>>

CheckState(t) ==
  /\ cpu_sleep(t) \/ check_state(t)
  /\ UNCHANGED <<objVars, call, loaded, regVars>>

\* The thread leaves the queue if it is still there.
unqueueSelf(t) == IF t \in Queued(sq) THEN unqueue(sq, t) ELSE sq

\* The end of a timeout: CELL_ETIMEDOUT, or what the set or cancel left that
\* came just in time.
WaitRecheck(t) ==
  /\ pc[t] = "recheck"
  /\ mutex = NoThread
  /\ sq' = unqueueSelf(t)
  /\ EndWait(t)
  /\ UNCHANGED <<exists, pattern, mutex, threadVars, loaded>>

\* sys_event_flag_trywait
TryWait(t, r) ==
  /\ exists /\ Idle(t)
  /\ Met(pattern, r)
  /\ pattern' = Cleared(pattern, r)
  /\ UNCHANGED <<exists, sq, mutex, threadVars, pc, call, loaded, regVars>>

-----------------------------------------------------------------------------
\* sys_event_flag_set: nothing to do if all the bits are set
Set(t, b) ==
  /\ Enters(t, Call("set", FALSE, OnlyBits(b)))
  /\ IF b \subseteq pattern
     THEN Return(t)
     ELSE /\ Goto(t, "set_lock")
          /\ call' = [call EXCEPT ![t] = Call("set", FALSE, OnlyBits(b))]
  /\ UNCHANGED <<objVars, threadVars, loaded, regVars>>

SetLock(t) ==
  /\ pc[t] = "set_lock"
  /\ mutex = NoThread
  /\ \/ WaiterAgain /\ Again(t) /\ UNCHANGED <<mutex, loaded>>
     \/ /\ ~WaiterAgain
        /\ mutex' = t
        /\ loaded' = [loaded EXCEPT ![t] = pattern]
        /\ Continue(t, "set_commit")
        /\ UNCHANGED stopped
  /\ UNCHANGED <<exists, pattern, sq, run, signal, loading, regVars>>

\* gpr[3] after the loop over the waiters; those it did not reach keep theirs.
Verdicts(w) == [t \in Threads |-> IF t \in w.woken THEN OK
                                  ELSE IF t \in w.unmet THEN NoResult ELSE gpr3[t]]

\* A bit that a woken thread relies on is no longer what it was.
Conflict(t, w) ==
  ((pattern \ loaded[t]) \union (loaded[t] \ pattern)) \intersect w.mask # {}

\* Mutant: the value that was found is not used for the next attempt.
ReloadStale(t) == loaded

\* pattern = new_val
Reload(t) == [loaded EXCEPT ![t] = pattern]

\* The compare-and-swap fails: start over.
SetRetry(t) ==
  LET w == ProcessWaiters(loaded[t], call[t].req.bits)
  IN /\ pc[t] = "set_commit"
     /\ Conflict(t, w)
     /\ gpr3' = Verdicts(w)
     /\ gpr6' = w.gpr6
     /\ loaded' = Reload(t)
     /\ UNCHANGED <<objVars, threadVars, pc, call>>

\* Mutant: what a waiter clears is cleared for those after it, and kept.
PublishedUncleared(b, old, left) == pattern \union b

\* Mutant: what was computed is stored, whatever the pattern is by now.
PublishedStale(b, old, left) == left

\* The new value: add the bits, and clear those that the waiters have cleared.
Published(b, old, left) == (pattern \union b) \ ((old \union b) \ left)

\* Mutant: every waiter is taken off the queue.
RemovedAll(verdict) == Queued(sq)

\* The waiters to take off the queue and awake.
Removed(verdict) == {u \in Queued(sq) : verdict[u] = OK}

\* The loop that takes the threads of S off the queue.
RemoveWaiters(S) ==
  LET kept[n \in 0 .. Len(sq)] ==
        IF n = 0 THEN <<>>
        ELSE IF sq[n] \in S THEN kept[n - 1] ELSE Append(kept[n - 1], sq[n])
  IN kept[Len(sq)]

\* It succeeds: take the threads with CELL_OK in gpr[3] off the queue and
\* awake them, if the loop counted any.
SetCommit(t) ==
  LET b == call[t].req.bits
      w == ProcessWaiters(loaded[t], b)
      removed == IF w.woken = {} THEN {} ELSE Removed(Verdicts(w))
  IN /\ pc[t] = "set_commit"
     /\ ~Conflict(t, w)
     /\ gpr3' = Verdicts(w)
     /\ gpr6' = w.gpr6
     /\ pattern' = Published(b, loaded[t], w.left)
     /\ sq' = RemoveWaiters(removed)
     /\ run' = awake(removed)
     /\ mutex' = NoThread
     /\ loaded' = [loaded EXCEPT ![t] = {}]
     /\ Return(t)
     /\ UNCHANGED <<exists, signal, stopped, loading>>

\* sys_event_flag_clear keeps the bits of its argument only
Clear(t, b) ==
  /\ exists /\ Idle(t)
  /\ pattern' = pattern \intersect b
  /\ UNCHANGED <<exists, sq, mutex, threadVars, pc, call, loaded, regVars>>

\* sys_event_flag_cancel
Cancel(t) ==
  LET c == Call("cancel", FALSE, OnlyBits({}))
  IN /\ Enters(t, c)
     /\ mutex = NoThread
     /\ \/ /\ WaiterAgain
           /\ stopped' = stopped \union {t}
           /\ Goto(t, "again")
           /\ call' = [call EXCEPT ![t] = c]
           /\ UNCHANGED <<sq, run, regVars>>
        \/ /\ ~WaiterAgain
           /\ gpr3' = [u \in Threads |-> IF u \in Queued(sq) THEN ECANCELED ELSE gpr3[u]]
           /\ gpr6' = [u \in Threads |-> IF u \in Queued(sq) THEN pattern ELSE gpr6[u]]
           /\ sq' = <<>>
           /\ run' = awake(Queued(sq))
           /\ Return(t)
           /\ UNCHANGED stopped
     /\ UNCHANGED <<exists, pattern, mutex, signal, loading, loaded>>

\* sys_event_flag_destroy, not while threads wait
Destroy(t) ==
  /\ exists /\ Idle(t)
  /\ ~ \E u \in Threads : pc[u] = "wait_lock"
  /\ sq = <<>>
  /\ exists' = FALSE
  /\ UNCHANGED <<pattern, sq, mutex, threadVars, pc, call, loaded, regVars>>

\* sys_event_flag_create, once no thread refers to the previous flag
Create(t, init) ==
  /\ ~exists /\ Idle(t)
  /\ \A u \in Threads : pc[u] = "idle"
  /\ exists' = TRUE
  /\ pattern' = init
  /\ UNCHANGED <<sq, mutex, threadVars, pc, call, loaded, regVars>>

Schedule(t) == schedule_all(t) /\ UNCHANGED <<objVars, call, loaded, regVars>>

Stop(t) == stop(t) /\ UNCHANGED <<objVars, call, loaded, regVars>>

\* Mutant: the pattern comes back with every bit set.
savedAll == Bits

\* lv2_event_flag::save
saved == pattern

\* The constructor that loads a flag; its queue fills up again.
Load ==
  /\ load
  /\ pattern' = saved
  /\ sq' = <<>>
  /\ UNCHANGED <<exists, mutex, call, loaded, regVars>>

-----------------------------------------------------------------------------
\* The steps of a thread in a system call.
Step(t) ==
  \/ WaitLock(t) \/ WaitSignal(t) \/ WaitStopped(t) \/ WaitTimeout(t) \/ CheckState(t)
  \/ WaitRecheck(t) \/ SetLock(t) \/ SetRetry(t) \/ SetCommit(t)

Enter(t) ==
  \/ \E r \in Requests : TryWait(t, r) \/ \E timed \in Timed : Wait(t, r, timed)
  \/ \E b \in InitArgs : Create(t, b)
  \/ \E b \in SetArgs : Set(t, b)
  \/ \E b \in ClearArgs : Clear(t, b)
  \/ Cancel(t) \/ Destroy(t)

Next ==
  \/ \E t \in Threads : Step(t) \/ Enter(t) \/ Schedule(t) \/ Stop(t)
  \/ Load

Spec == Init /\ [][Next]_vars

-----------------------------------------------------------------------------
(***************************************************************************)
(* No wake-up is missed: whatever the lock-free operations do around a set *)
(* and a wait, no thread sleeps in the queue while the pattern already     *)
(* satisfies it.                                                           *)
(***************************************************************************)
NoReadyWaiter ==
  mutex = NoThread => \A t \in Queued(sq) : ~Met(pattern, call[t].req)

\* A thread that was taken off the queue and does not know yet.
Answered(t) == InWaitLoop(t) /\ t \notin Queued(sq)

(***************************************************************************)
(* A thread that is taken off the queue finds an answer in its registers,  *)
(* never the -1 that wait puts there first, and if the answer is CELL_OK   *)
(* then the pattern it reports satisfies what it waited for.               *)
(***************************************************************************)
WokenHasAnswer ==
  \A t \in Threads : Answered(t) =>
    /\ gpr3[t] \in {OK, ECANCELED}
    /\ gpr3[t] = OK => Met(gpr6[t], call[t].req)

\* The step of set that publishes its outcome.
Publishes(t) == pc[t] = "set_commit" /\ pc'[t] = "idle"

(***************************************************************************)
(* set never brings back a bit that a lock-free clear or trywait took away *)
(* while it was at work, unless it is a bit that set itself sets.          *)
(***************************************************************************)
ClearedBitsStayCleared ==
  [][\A t \in Threads : Publishes(t) => pattern' \subseteq pattern \union call[t].req.bits]_vars

(***************************************************************************)
(* A bit that a woken waiter asked to clear is not left in the pattern for *)
(* the next one, even if set was computed from an older value.             *)
(***************************************************************************)
ConsumedBitsGo ==
  [][\A t, u \in Threads :
       Publishes(t) /\ u \in Queued(sq) \ Queued(sq') /\ call[u].req.clear # "no"
         => call[u].req.bits \intersect pattern' = {}]_vars

(***************************************************************************)
(* sys_event_flag.cpp:319, "Process all waiters in single atomic op": set  *)
(* wakes the threads that one pass over the waiters would wake if it were  *)
(* made at the moment of the atomic operation.                             *)
(***************************************************************************)
SingleAtomicOp ==
  [][\A t \in Threads : Publishes(t) =>
       Queued(sq) \ Queued(sq') = ProcessWaiters(pattern, call[t].req.bits).woken]_vars

(***************************************************************************)
(* The loop of set ends although clear and trywait may disturb it: only    *)
(* set adds bits, and it holds the mutex, so every failure of the          *)
(* compare-and-swap has used up a bit of the value it started from.        *)
(***************************************************************************)
RetriesUseUpBits ==
  [][\A t \in Threads : SetRetry(t) => loaded'[t] \in (SUBSET loaded[t]) \ {loaded[t]}]_vars

(***************************************************************************)
(* After a load the threads that were asleep are still not satisfied, so   *)
(* that each of them sleeps again and the scheduler can start (g_to_sleep  *)
(* empties).                                                               *)
(***************************************************************************)
LoadedThreadsSleep ==
  \A t \in loading : exists /\ ~Met(pattern, call[t].req)

=============================================================================
