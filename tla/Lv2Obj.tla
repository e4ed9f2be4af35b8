------------------------------- MODULE Lv2Obj -------------------------------
(***************************************************************************)
(* What every LV2 synchronisation object shares: the sleep queue of        *)
(* waiting PPU threads (kernel/cellos/include/cellos/sys_sync.h), the      *)
(* thread states that sleep and awake move a thread between                *)
(* (kernel/cellos/src/lv2.cpp), and the steps of the wait loop that each   *)
(* blocking system call ends in, seen from one object.                     *)
(*                                                                         *)
(* A sleep queue is a linked list that emplace pushes at the front and     *)
(* that is searched for the thread to wake; here it is a sequence with the *)
(* thread that was pushed first at its head.  The priority order tag that  *)
(* emplace gives a thread is its position in the sequence.                 *)
(***************************************************************************)
EXTENDS Integers, Sequences

CONSTANTS Threads,    \* the PPU threads
          NoThread,   \* no thread: a free host mutex, a null pointer
          Prio,       \* thread priority, the lower the more urgent
          Protocol,   \* SYS_SYNC_FIFO or SYS_SYNC_PRIORITY
          Savestates  \* savestates are made and loaded

FIFO == "SYS_SYNC_FIFO"
PRIORITY == "SYS_SYNC_PRIORITY"

ASSUME Lv2Assumption ==
  /\ NoThread \notin Threads
  /\ Prio \in [Threads -> Int]
  /\ \A t \in Threads : Prio[t] >= -512
  /\ Protocol \in {FIFO, PRIORITY}
  /\ Savestates \in BOOLEAN

VARIABLES run,        \* where the scheduler has the thread, see below
          signal,     \* threads with cpu_flag::signal
          pc,         \* what each thread is doing
          stopped,    \* threads with a stop flag
          loading     \* g_to_sleep: threads to sleep before the scheduler starts

(***************************************************************************)
(* "running": in g_ppu without cpu_flag::suspend; "ready": in g_ppu with   *)
(* cpu_flag::suspend, waiting for schedule_all; "asleep": not in g_ppu.    *)
(* Preemption is left to module Lv2Sched: a preempted thread runs on in    *)
(* its system call until it sleeps or reaches check_state, and cannot be   *)
(* granted the processor again before, so an object does not notice.       *)
(***************************************************************************)
RunStates == {"running", "ready", "asleep"}

\* Where a thread is in the wait loop of a system call, outside of one, or
\* out of one with cpu_flag::again.
WaitLabels == {"idle", "wait", "resched", "recheck", "again"}

ThreadsTypeOK ==
  /\ run \in [Threads -> RunStates]
  /\ signal \in SUBSET Threads
  /\ stopped \in SUBSET Threads
  /\ loading \in SUBSET Threads

ThreadsInit ==
  /\ run = [t \in Threads |-> "running"]
  /\ signal = {}
  /\ pc = [t \in Threads |-> "idle"]
  /\ stopped = {}
  /\ loading = {}

-----------------------------------------------------------------------------
Queued(sq) == {sq[i] : i \in DOMAIN sq}

\* No thread is in the list twice.
NoDuplicates(sq) == \A i, j \in DOMAIN sq : sq[i] = sq[j] => i = j

\* emplace: push the thread, it becomes the newest waiter
emplace(sq, t) == Append(sq, t)

\* Take the thread at position i out of the list.
Unlink(sq, i) == SubSeq(sq, 1, i - 1) \o SubSeq(sq, i + 1, Len(sq))

\* unqueue: take the thread out of the list, wherever it is
unqueue(sq, t) == Unlink(sq, CHOOSE i \in DOMAIN sq : sq[i] = t)

\* Mutant: the head of the linked list, which is the newest waiter.
scheduleNewest(sq) == Len(sq)

(***************************************************************************)
(* schedule: the position of the waiter to wake, the oldest one under      *)
(* FIFO, else the oldest of those with the most urgent priority.           *)
(***************************************************************************)
schedule(sq) ==
  IF Protocol = FIFO
  THEN 1
  ELSE CHOOSE i \in DOMAIN sq : \A j \in DOMAIN sq :
         \/ Prio[sq[i]] < Prio[sq[j]]
         \/ Prio[sq[i]] = Prio[sq[j]] /\ i <= j

\* Nobody can be preferred to the thread for ever.
Urgent(t) == Protocol = FIFO \/ \A u \in Threads : Prio[t] <= Prio[u]

-----------------------------------------------------------------------------
\* sleep: leave the scheduler's queue until somebody awakes the thread; with
\* cpu_flag::signal set it fails and the thread goes on
sleep(t) == [run EXCEPT ![t] = IF t \in signal THEN @ ELSE "asleep"]

\* Mutant: append drops the thread.
appendNot(S, t) == S

\* append: put the thread in g_to_awake
append(S, t) == S \union {t}

\* awake_all: enqueue the threads; those already enqueued stay as they are
awake(S) == [t \in Threads |->
               IF t \in S /\ run[t] = "asleep" THEN "ready" ELSE run[t]]

\* check_state takes cpu_flag::signal off
unsignal(t) == signal \ {t}

\* Mutant: sleep does not look for the thread in g_to_sleep.
sleptForgotten(t) == loading

\* What sleep does to g_to_sleep.
slept(t) == loading \ {t}

-----------------------------------------------------------------------------
Goto(t, label) == pc' = [pc EXCEPT ![t] = label]

InWaitLoop(t) == pc[t] \in {"wait", "resched", "recheck"}

\* A thread can enter a system call from guest code, or again after a load;
\* the threads that were asleep come first.
CanEnter(t) ==
  /\ t \notin stopped
  /\ t \in loading \/ loading = {}

\* A thread can enter a system call that does not block.
Idle(t) == pc[t] = "idle" /\ t \notin stopped /\ loading = {}

\* The wait loop sees cpu_flag::signal and resets it.
WaitEnds(t) ==
  /\ pc[t] = "wait"
  /\ t \in signal
  /\ signal' = signal \ {t}
  /\ UNCHANGED <<run, stopped, loading>>

\* wait_timeout reports that the time is over.
wait_timeout(t) ==
  /\ pc[t] = "wait"
  /\ Goto(t, "resched")
  /\ UNCHANGED <<run, signal, stopped, loading>>

\* check_state: a thread that is asleep awakes itself (cpu_sleep); once it is
\* scheduled, or stopped, cpu_flag::signal is taken off.
cpu_sleep(t) ==
  /\ pc[t] = "resched"
  /\ t \notin stopped
  /\ run[t] = "asleep"
  /\ run' = awake({t})
  /\ UNCHANGED <<pc, signal, stopped, loading>>

check_state(t) ==
  /\ pc[t] = "resched"
  /\ t \in stopped \/ run[t] = "running"
  /\ signal' = unsignal(t)
  /\ Goto(t, IF t \in stopped THEN "wait" ELSE "recheck")
  /\ UNCHANGED <<run, stopped, loading>>

\* Mutant: cpu_flag::suspend goes, but the thread is not signalled.
schedule_allSilent(t) ==
  /\ run[t] = "ready"
  /\ loading = {}
  /\ run' = [run EXCEPT ![t] = "running"]
  /\ UNCHANGED <<pc, signal, stopped, loading>>

\* schedule_all grants the processor: suspend goes, signal comes.
schedule_all(t) ==
  /\ run[t] = "ready"
  /\ loading = {}
  /\ run' = [run EXCEPT ![t] = "running"]
  /\ signal' = signal \union {t}
  /\ UNCHANGED <<pc, stopped, loading>>

\* A savestate is being made: a thread gets its stop flag.
stop(t) ==
  /\ Savestates
  /\ t \notin stopped /\ loading = {}
  /\ stopped' = stopped \union {t}
  /\ UNCHANGED <<pc, run, signal, loading>>

\* All threads are stopped and out of their system calls; they are saved, and
\* loaded in a new process.
load ==
  /\ stopped = Threads
  /\ \A t \in Threads : pc[t] \in {"idle", "again"}
  /\ stopped' = {}
  /\ loading' = {t \in Threads : pc[t] = "again" /\ run[t] = "asleep"}
  /\ run' = [t \in Threads |-> "running"]
  /\ signal' = {}
  /\ UNCHANGED pc

=============================================================================
