------------------------------ MODULE Lv2Sched ------------------------------
(***************************************************************************)
(* The scheduler of PPU threads, kernel/cellos/src/lv2.cpp: the run queue  *)
(* g_ppu, priorities, preemption and the timeouts in g_waiting.            *)
(*                                                                         *)
(* Threads are host threads; the scheduler only asks them to stop.  A      *)
(* thread that loses its place in the first ppu_threads of g_ppu gets      *)
(* cpu_flag::suspend and is counted in g_pending until it says, in its     *)
(* next call of sleep or awake, that it has stopped; as long as one has    *)
(* not, schedule_all gives nobody a place.                                 *)
(*                                                                         *)
(* Under g_mutex every call is one step.  The objects that threads wait    *)
(* for are reduced to the set of threads that are queued in one; a thread  *)
(* is taken off and awoken under the mutex of the object, which a thread   *)
(* whose time is over takes before it leaves, so that both are one step    *)
(* here.  The time is left out: an entry of g_waiting can expire at any    *)
(* moment, those before it first.  cancel_sleep is in Lv2Mutex, the start  *)
(* after a load in Lv2Obj; the hints cpu_flag::yield and preempt are left  *)
(* out.                                                                    *)
(***************************************************************************)
EXTENDS Integers, Sequences, FiniteSetsExt

CONSTANTS Threads,      \* the PPU threads
          Host,         \* any other host thread
          Prios,        \* thread priorities, the lower the more urgent
          InitPrio,     \* the priorities the threads are created with
          InitQueue,    \* the run queue that they are in
          Targets,      \* threads whose priority the guest changes
          Impatient,    \* threads that wait with timeouts too
          ppu_threads   \* g_cfg.core.ppu_threads

\* The threads in a queue.
Members(q) == {q[i] : i \in DOMAIN q}

ASSUME SchedAssumption ==
  /\ IsFiniteSet(Threads) /\ Host \notin Threads
  /\ Prios \subseteq Int /\ InitPrio \in [Threads -> Prios]
  /\ InitQueue \in Seq(Threads) /\ Members(InitQueue) = Threads
  /\ \A i, j \in DOMAIN InitQueue : i < j =>
       /\ InitQueue[i] # InitQueue[j]
       /\ InitPrio[InitQueue[i]] <= InitPrio[InitQueue[j]]
  /\ Targets \subseteq Threads /\ Impatient \subseteq Threads
  /\ ppu_threads \in Nat \ {0}

VARIABLES g_ppu,        \* runnable threads, most urgent first
          prio,         \* ppu_thread::prio
          suspend,      \* threads with cpu_flag::suspend
          signal,       \* threads with cpu_flag::signal
          notify,       \* threads with cpu_flag::notify
          ack_suspend,  \* threads that have not stopped yet
          g_pending,    \* their number, as counted
          g_waiting,    \* sleeping threads with a timeout, the next one first
          pc,           \* what each thread does
          sleeping,     \* cpu_sleep_called of threads in check_state
          queued,       \* threads in the sleep queue of some object
          timed         \* threads whose present wait has a timeout

flags == <<suspend, signal, notify>>
waits == <<queued, timed>>
vars == <<g_ppu, prio, flags, ack_suspend, g_pending, g_waiting, pc, sleeping, waits>>

(***************************************************************************)
(* "guest": guest code, and a system call that has not come to the         *)
(* scheduler; "wait": the wait loop of one; "resched", "leave":            *)
(* check_state in that loop, and at the end of a system call or between    *)
(* instructions; "recheck": the loop after a timeout.                      *)
(***************************************************************************)
Labels == {"guest", "wait", "resched", "recheck", "leave"}

Goto(t, label) == pc' = [pc EXCEPT ![t] = label]

-----------------------------------------------------------------------------
\* Put a thread before position i, and take the one at position i out.
Link(q, i, u) == SubSeq(q, 1, i - 1) \o <<u>> \o SubSeq(q, i, Len(q))

Unlink(q, i) == SubSeq(q, 1, i - 1) \o SubSeq(q, i + 1, Len(q))

\* "Use priority, also preserve FIFO order"
insert(q, u, p) ==
  Link(q, Min({i \in DOMAIN q : prio[q[i]] > p} \union {Len(q) + 1}), u)

\* emplace_thread, unless the thread is in the queue already
emplace(q, u) == IF u \in Members(q) THEN q ELSE insert(q, u, prio[u])

\* unqueue: take the thread out of the queue, if it is there.
unqueue(q, u) ==
  IF u \in Members(q) THEN Unlink(q, CHOOSE i \in DOMAIN q : q[i] = u) ELSE q

\* Mutant: the timeout stays registered.
UnregisterNot(q, w, u) == w

\* "Unregister timeout if necessary", of a thread that emplace_thread puts in
\* the queue q
Unregister(q, w, u) == IF u \in Members(q) THEN w ELSE unqueue(w, u)

\* Threads with and without a place on a hardware thread.
Placed(q) == {q[i] : i \in {j \in DOMAIN q : j <= ppu_threads}}

OutOfPlace(q) == {q[i] : i \in {j \in DOMAIN q : j > ppu_threads}}

\* Mutant: one place too many.
ToSuspendLate(q, s) == {q[i] : i \in {j \in DOMAIN q : j > ppu_threads + 1}} \ s

\* Mutant: threads that are suspended already are counted again.
ToSuspendAgain(q, s) == OutOfPlace(q)

\* "Suspend threads if necessary"
ToSuspend(q, s) == OutOfPlace(q) \ s

\* schedule_all may give places away.
MaySchedule == g_pending' = 0

(***************************************************************************)
(* schedule_all, called by cur, with run queue q, timeouts w and suspended *)
(* threads s: wakes up the threads with a place, and those whose timeout   *)
(* has expired.                                                            *)
(***************************************************************************)
schedule_all(q, w, s, cur) ==
  LET woken == IF MaySchedule THEN Placed(q) \intersect s ELSE {}
  IN  /\ g_ppu' = q
      /\ suspend' = s \ woken
      /\ signal' = signal \union woken
      /\ \E n \in 0 .. Len(w) :
           /\ g_waiting' = SubSeq(w, n + 1, Len(w))
           /\ notify' = notify \union (Members(SubSeq(w, 1, n)) \ {cur})

(***************************************************************************)
(* The end of awake, with the run queue and the timeouts as the command    *)
(* has left them: threads without a place are told to stop, and            *)
(* schedule_all is called.  The caller says that it has stopped ("Remove   *)
(* pending if necessary"): it stops when it leaves the system call.        *)
(***************************************************************************)
awake(q, w, s, acks, pending, cur) ==
  LET over == ToSuspend(q, s)
      owed == acks \union over
      done == owed \intersect {cur}
  IN  /\ ack_suspend' = owed \ done
      /\ g_pending' = pending + Cardinality(over) - Cardinality(done)
      /\ schedule_all(q, w, s \union over, cur)

\* enqueue_cmd for the threads of g_to_awake: first u, then v, or only one.
\* Two are the bound of this model.
emplace_all(q, u, v) == emplace(emplace(q, u), v)

Unregister_all(q, w, u, v) == Unregister(emplace(q, u), Unregister(q, w, u), v)

awake_all(u, v, cur) ==
  awake(emplace_all(g_ppu, u, v), Unregister_all(g_ppu, g_waiting, u, v),
        suspend, ack_suspend, g_pending, cur)

-----------------------------------------------------------------------------
\* awake_all or awake, by a thread that unlocks, posts, sends...
Awake(t) ==
  /\ pc[t] = "guest"
  /\ \E u, v \in queued : awake_all(u, v, t) /\ queued' = queued \ {u, v}
  /\ Goto(t, "leave")
  /\ UNCHANGED <<prio, sleeping, timed>>

\* The same by a host thread that is not a PPU thread (a timer, an SPU...).
HostAwake ==
  /\ \E u, v \in queued : awake_all(u, v, Host) /\ queued' = queued \ {u, v}
  /\ UNCHANGED <<prio, pc, sleeping, timed>>

(***************************************************************************)
(* sleep, with the threads of g_to_awake, if any: the thread leaves the    *)
(* run queue and registers its timeout, and the threads that it unlocks    *)
(* something for come in.  With cpu_flag::signal set it fails.             *)
(***************************************************************************)
Sleep(t) ==
  /\ pc[t] = "guest"
  /\ \E expires \in BOOLEAN, i \in 1 .. Len(g_waiting) + 1 :
       LET ok == t \notin signal
           s == IF ok THEN suspend \union {t} ELSE suspend
           q == IF ok THEN unqueue(g_ppu, t) ELSE g_ppu
           w == IF ok /\ expires /\ t \in Members(g_ppu)
                THEN Link(g_waiting, i, t) ELSE g_waiting
           acks == ack_suspend \ {t}
           pending == g_pending - Cardinality(ack_suspend \intersect {t})
       IN  /\ IF expires THEN t \in Impatient ELSE i = 1
           /\ \/ /\ ack_suspend' = acks
                 /\ g_pending' = pending
                 /\ schedule_all(q, w, s, t)
                 /\ queued' = queued \union {t}
              \/ \E u, v \in queued :
                   /\ awake(emplace_all(q, u, v), Unregister_all(q, w, u, v), s, acks, pending, t)
                   /\ queued' = (queued \ {u, v}) \union {t}
           /\ timed' = IF expires THEN timed \union {t} ELSE timed
  /\ Goto(t, "wait")
  /\ UNCHANGED <<prio, sleeping>>

-----------------------------------------------------------------------------
\* The wait loop sees cpu_flag::signal and takes it off.
WaitSignal(t) ==
  /\ pc[t] = "wait"
  /\ t \in signal
  /\ signal' = signal \ {t}
  /\ timed' = timed \ {t}
  /\ Goto(t, "leave")
  /\ UNCHANGED <<g_ppu, prio, suspend, notify, ack_suspend, g_pending, g_waiting, sleeping, queued>>

\* wait_timeout returns true: forced by cpu_flag::notify, or the time is over
\* and there is no signal.
WaitTimeout(t) ==
  /\ pc[t] = "wait"
  /\ t \in timed
  /\ t \in notify \/ t \notin signal
  /\ Goto(t, "resched")
  /\ UNCHANGED <<g_ppu, prio, flags, ack_suspend, g_pending, g_waiting, sleeping, waits>>

\* Mutant: a thread that is not in the queue any more waits on.
RecheckAgain(t) ==
  /\ pc[t] = "recheck"
  /\ queued' = queued \ {t}
  /\ timed' = timed \ (queued \intersect {t})
  /\ Goto(t, IF t \in queued THEN "leave" ELSE "wait")
  /\ UNCHANGED <<g_ppu, prio, flags, ack_suspend, g_pending, g_waiting, sleeping>>

\* After a timeout: whoever takes the thread off the queue of the object
\* decides about the result, and the wait is over.
Recheck(t) ==
  /\ pc[t] = "recheck"
  /\ queued' = queued \ {t}
  /\ timed' = timed \ {t}
  /\ Goto(t, "leave")
  /\ UNCHANGED <<g_ppu, prio, flags, ack_suspend, g_pending, g_waiting, sleeping>>

\* Guest code, or the end of a system call, finds that the state is not 0.
Poll(t) ==
  /\ pc[t] = "guest"
  /\ t \in suspend \union signal \union notify
  /\ Goto(t, "leave")
  /\ UNCHANGED <<g_ppu, prio, flags, ack_suspend, g_pending, g_waiting, sleeping, waits>>

\* cpu_sleep is called once, and once more after each signal.
CallsAgain(t) == sleeping[t] = "no" \/ t \in signal

\* Mutant: a thread that has called cpu_sleep does not wait.
LeavesCalled(t) == t \notin suspend \/ sleeping[t] = "called"

\* check_state returns.
Leaves(t) == t \notin suspend

\* The atomic operation of check_state: signal and notify go, and a thread
\* without cpu_flag::suspend returns.
CheckState(t) ==
  /\ pc[t] \in {"resched", "leave"}
  /\ sleeping[t] # "call"
  /\ signal' = signal \ {t}
  /\ notify' = notify \ {t}
  /\ IF Leaves(t)
     THEN /\ Goto(t, IF pc[t] = "resched" THEN "recheck" ELSE "guest")
          /\ sleeping' = [sleeping EXCEPT ![t] = "no"]
     ELSE /\ CallsAgain(t) \/ t \in signal \union notify
          /\ sleeping' = [sleeping EXCEPT ![t] = IF CallsAgain(t) THEN "call" ELSE @]
          /\ UNCHANGED pc
  /\ UNCHANGED <<g_ppu, prio, suspend, ack_suspend, g_pending, g_waiting, waits>>

\* cpu_sleep: the thread awakes itself, or only says that it has stopped.
CpuSleep(t) ==
  /\ sleeping[t] = "call"
  /\ sleeping' = [sleeping EXCEPT ![t] = "called"]
  /\ awake(emplace(g_ppu, t), Unregister(g_ppu, g_waiting, t),
           suspend, ack_suspend, g_pending, t)
  /\ UNCHANGED <<prio, pc, waits>>

-----------------------------------------------------------------------------
\* The last position of the threads with the priority of the one at i.
LastEqual(i) ==
  Max({j \in i .. Len(g_ppu) : \A k \in i .. j : prio[g_ppu[k]] = prio[g_ppu[i]]})

\* "Nothing to do": the thread is the last one of the queue.
NothingToYield(i) == i = Len(g_ppu)

(***************************************************************************)
(* yield: "Rotate current thread to the last position of the 'same prio'   *)
(* threads list"; when that is still a place, nobody has to stop.          *)
(***************************************************************************)
Yield(t) ==
  /\ pc[t] = "guest"
  /\ LET i == CHOOSE i \in DOMAIN g_ppu : g_ppu[i] = t
         j == LastEqual(i)
         q == Link(Unlink(g_ppu, i), j, t)
     IN  CASE NothingToYield(i) -> UNCHANGED <<g_ppu, flags, ack_suspend, g_pending, g_waiting>>
           [] ~NothingToYield(i) /\ (j = i \/ j <= ppu_threads) ->
                /\ UNCHANGED <<ack_suspend, g_pending>>
                /\ schedule_all(q, g_waiting, suspend, t)
           [] OTHER -> awake(q, g_waiting, suspend, ack_suspend, g_pending, t)
  /\ Goto(t, "leave")
  /\ UNCHANGED <<prio, sleeping, waits>>

\* sys_ppu_thread_set_priority, which leaves out a thread that sets its own
\* priority to what it is: a runnable thread is queued anew.
SetPriority(t) ==
  /\ pc[t] = "guest"
  /\ \E u \in Targets, p \in Prios :
       /\ u = t => prio[u] # p
       /\ prio' = [prio EXCEPT ![u] = p]
       /\ IF u \in Members(g_ppu)
          THEN awake(insert(unqueue(g_ppu, u), u, p),
                     Unregister(unqueue(g_ppu, u), g_waiting, u),
                     suspend, ack_suspend, g_pending, t)
          ELSE /\ UNCHANGED <<ack_suspend, g_pending>>
               /\ schedule_all(g_ppu, g_waiting, suspend, t)
  /\ Goto(t, "leave")
  /\ UNCHANGED <<sleeping, waits>>

-----------------------------------------------------------------------------
\* The threads run, those without a place are in check_state.
Init ==
  /\ prio = InitPrio
  /\ g_ppu = InitQueue
  /\ suspend = OutOfPlace(g_ppu)
  /\ signal = {} /\ notify = {}
  /\ ack_suspend = {} /\ g_pending = 0
  /\ g_waiting = <<>>
  /\ pc = [t \in Threads |-> IF t \in suspend THEN "leave" ELSE "guest"]
  /\ sleeping = [t \in Threads |-> IF t \in suspend THEN "called" ELSE "no"]
  /\ queued = {} /\ timed = {}

Next ==
  \/ HostAwake
  \/ \E t \in Threads :
       \/ Awake(t) \/ Sleep(t) \/ WaitSignal(t) \/ WaitTimeout(t)
       \/ Recheck(t) \/ Poll(t) \/ CheckState(t) \/ CpuSleep(t) \/ Yield(t)
       \/ SetPriority(t)

Spec == Init /\ [][Next]_vars

(***************************************************************************)
(* Host threads run.  A thread polls its state in guest code, a wait loop  *)
(* sees a flag and the end of its time, check_state goes on.  Nobody has   *)
(* to enter a system call or to awake another thread.                      *)
(***************************************************************************)
Proceed(t) ==
  \/ Poll(t) \/ WaitSignal(t) \/ WaitTimeout(t) \/ Recheck(t)
  \/ CheckState(t) \/ CpuSleep(t)

FairSpec == Spec /\ \A t \in Threads : WF_vars(Proceed(t))

-----------------------------------------------------------------------------
(***************************************************************************)
(* g_pending is the number of threads that were told to stop and have not  *)
(* said that they did, and each of them is suspended (awake_unlocked,      *)
(* sleep_unlocked).  One too many and no thread is ever given a place      *)
(* again, one too few and two threads run on one hardware thread.          *)
(***************************************************************************)
PendingCounts ==
  /\ g_pending = Cardinality(ack_suspend)
  /\ ack_suspend \subseteq suspend

(***************************************************************************)
(* Not more than ppu_threads threads run guest code, although threads are  *)
(* only asked to stop: the count of threads that have a place, or have not *)
(* stopped since they lost it, is bounded (schedule_all waits for          *)
(* g_pending = 0).                                                         *)
(***************************************************************************)
AtMostHw ==
  Cardinality({t \in Threads : pc[t] = "guest"}) <= ppu_threads

(***************************************************************************)
(* g_ppu stays sorted by priority, the threads beyond the first            *)
(* ppu_threads are suspended, and unless one of them has yet to stop, the  *)
(* first ones are not (awake_unlocked, schedule_all).                      *)
(***************************************************************************)
TopRuns ==
  /\ \A i, j \in DOMAIN g_ppu : i < j => prio[g_ppu[i]] <= prio[g_ppu[j]]
  /\ OutOfPlace(g_ppu) \subseteq suspend
  /\ g_pending = 0 => Placed(g_ppu) \intersect suspend = {}

(***************************************************************************)
(* What the code says with ensure and "sleep() failed (signaled)": a       *)
(* thread that comes to sleep is in the run queue, has no signal and no    *)
(* notification left over from an earlier wait, and no timeout of a thread *)
(* that is runnable or has been notified stays registered.                 *)
(***************************************************************************)
CleanCall ==
  /\ \A t \in Threads : pc[t] = "guest" =>
       t \in Members(g_ppu) /\ t \notin signal \union notify
  /\ Members(g_waiting) \intersect (Members(g_ppu) \union notify) = {}

(***************************************************************************)
(* A thread that keeps a place runs guest code again and again: no wakeup  *)
(* is lost between schedule_all, the wait loops and check_state, and       *)
(* g_pending comes back to 0.                                              *)
(***************************************************************************)
PlacedRuns ==
  \A t \in Threads : []<>(t \notin Placed(g_ppu) \/ pc[t] = "guest")

=============================================================================
