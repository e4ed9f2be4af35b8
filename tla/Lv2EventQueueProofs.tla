------------------------ MODULE Lv2EventQueueProofs -------------------------
(***************************************************************************)
(* The invariants of the LV2 event queue and its port for any number of    *)
(* threads, any priorities, any size of the queue and any events.  The     *)
(* inductive invariant is about the queue as a whole (QueueInv), the       *)
(* senders that is_busy counts, and each thread (ThreadInv); what a        *)
(* receive has been given (AnswerInv) is kept by every step.               *)
(***************************************************************************)
EXTENDS Lv2EventQueue, Lv2ObjProofs, FiniteSetTheorems

\* The backend of every leaf that does not name another one.
USE ZenonT(30)

Calls == [name : {"none", "receive", "send", "destroy"}, timed : BOOLEAN,
          event : Events \union {NoEvent}, delivered : BOOLEAN]

\* The types, without is_busy.
Types ==
  /\ ThreadsTypeOK
  /\ exists \in BOOLEAN /\ port \in BOOLEAN /\ connected \in BOOLEAN
  /\ events \in Seq(Events) /\ Len(events) <= QueueSize
  /\ pq \in Seq(Threads) /\ NoDuplicates(pq)
  /\ pc \in [Threads -> WaitLabels \union {"requeue"}]
  /\ call \in [Threads -> Calls]
  /\ gpr3 \in [Threads -> {OK, ETIMEDOUT, ECANCELED}]
  /\ gpr4 \in [Threads -> Events \union {NoEvent}]

Busy == IsFiniteSet(Senders) /\ is_busy = Cardinality(Senders)

\* The list and the waiters exclude each other, a queue that is in use or
\* connected exists, and a load finds it as the waiters left it.
QueueInv ==
  /\ events = <<>> \/ pq = <<>>
  /\ connected \/ pq # <<>> \/ events # <<>> => exists
  /\ loading # {} => exists /\ events = <<>>

\* Where a thread may be: which call it waits in, and what the scheduler, the
\* queue, a stop flag and a load make of it.
ThreadInv(t) ==
  /\ InWaitLoop(t) => call[t].name = "receive"
  /\ t \in signal \/ pc[t] = "recheck" => run[t] = "running"
  /\ pc[t] = "recheck" => t \notin signal
  /\ t \notin stopped /\ (t \in signal \/ run[t] = "ready") => InWaitLoop(t)
  /\ t \notin stopped /\ pc[t] = "wait" /\ t \in Queued(pq) => run[t] = "asleep"
  /\ run[t] = "asleep" => /\ t \in Queued(pq) /\ call[t].name = "receive"
                          /\ InWaitLoop(t) \/ (pc[t] = "again" /\ t \in stopped)
  /\ t \in Queued(pq) => InWaitLoop(t) \/ t \in stopped
  /\ t \in loading => pc[t] = "again" /\ call[t].name = "receive"

\* What the registers hold while a thread is queued, and once it was answered.
AnswerInv(t) ==
  /\ Answered(t) => (gpr3[t] = OK <=> gpr4[t] # NoEvent)
  /\ t \in Queued(pq) => gpr3[t] = OK /\ gpr4[t] = NoEvent

ThreadsInv == \A t \in Threads : ThreadInv(t) /\ AnswerInv(t)

IndInv == Types /\ Busy /\ QueueInv /\ ThreadsInv

-----------------------------------------------------------------------------

\* The constants are what the assumptions say.
LEMMA Constants == NoThread \notin Threads /\ NoEvent \notin Events /\ QueueSize \in Nat
  BY Lv2Assumption, EventQueueAssumption, SMT DEF Lv2Assumption, EventQueueAssumption

\* The type invariant has a part for is_busy.
LEMMA TypesOK == Types /\ Busy => TypeOK
  BY DEF Types, Busy, TypeOK, Calls

\* Nothing happens to a thread.
Same(u) ==
  /\ pc'[u] = pc[u] /\ call'[u] = call[u] /\ run'[u] = run[u]
  /\ gpr3'[u] = gpr3[u] /\ gpr4'[u] = gpr4[u]
  /\ u \in signal' <=> u \in signal
  /\ u \in stopped' <=> u \in stopped
  /\ u \in loading' <=> u \in loading
  /\ u \in Queued(pq') <=> u \in Queued(pq)

\* A thread to which nothing happens is where it may be.
LEMMA SameThread ==
  ASSUME NEW u \in Threads, ThreadInv(u), AnswerInv(u), Same(u)
  PROVE  ThreadInv(u)' /\ AnswerInv(u)'
<1>1. ThreadInv(u)'
  BY DEF Same, ThreadInv, InWaitLoop
<1>2. AnswerInv(u) => AnswerInv(u)'
  BY DEF Same, AnswerInv, Answered, InWaitLoop
<1>3. QED
  BY <1>1, <1>2

\* A waiter is taken off the queue, given an answer and awoken.
Woken(u) ==
  /\ u \in Queued(pq) /\ u \notin Queued(pq')
  /\ pc[u] # "again"
  /\ pc'[u] = pc[u] /\ call'[u] = call[u]
  /\ run'[u] = IF run[u] = "asleep" THEN "ready" ELSE run[u]
  /\ gpr3[u] = OK /\ gpr4[u] = NoEvent => (gpr3'[u] = OK <=> gpr4'[u] # NoEvent)
  /\ u \in signal' <=> u \in signal
  /\ u \in stopped' <=> u \in stopped
  /\ u \in loading' <=> u \in loading

\* So is one that is taken off the queue with an answer.
LEMMA WokenThread ==
  ASSUME NEW u \in Threads, ThreadInv(u), AnswerInv(u), Woken(u)
  PROVE  ThreadInv(u)' /\ AnswerInv(u)'
<1>1. ThreadInv(u)'
  BY DEF Woken, ThreadInv, InWaitLoop
<1>2. AnswerInv(u) => AnswerInv(u)'
  BY DEF Woken, AnswerInv, Answered, InWaitLoop
<1>3. QED
  BY <1>1, <1>2

\* The other threads stay as they are, or are woken.
LEMMA OtherThreads ==
  ASSUME ThreadsInv, NEW t \in Threads,
         \A u \in Threads \ {t} : Same(u) \/ Woken(u),
         ThreadInv(t)', AnswerInv(t)'
  PROVE  ThreadsInv'
<1> SUFFICES ASSUME NEW u \in Threads
             PROVE  ThreadInv(u)' /\ AnswerInv(u)'
  BY DEF ThreadsInv
<1>1. ThreadInv(u) /\ AnswerInv(u)
  BY DEF ThreadsInv
<1>2. CASE u = t
  BY <1>2
<1>3. CASE u # t
  BY <1>1, <1>3, SameThread, WokenThread
<1>4. QED
  BY <1>2, <1>3

\* Both for all threads.
LEMMA AllThreads ==
  ASSUME ThreadsInv, \A u \in Threads : Same(u) \/ Woken(u)
  PROVE  ThreadsInv'
<1> SUFFICES ASSUME NEW u \in Threads
             PROVE  ThreadInv(u)' /\ AnswerInv(u)'
  BY DEF ThreadsInv
<1>1. ThreadInv(u) /\ AnswerInv(u)
  BY DEF ThreadsInv
<1>2. QED
  BY <1>1, SameThread, WokenThread

\* is_busy counts the senders.
LEMMA BusyKeep ==
  ASSUME Busy, UNCHANGED is_busy,
         \A u \in Threads : pc'[u] = "requeue" <=> pc[u] = "requeue"
  PROVE  Busy'
<1>1. Senders' = Senders
  BY DEF Senders
<1>2. QED
  BY <1>1 DEF Busy

\* A sender begins its second step.
LEMMA BusyMore ==
  ASSUME Busy, NEW t \in Threads, is_busy' = is_busy + 1,
         pc[t] # "requeue", pc'[t] = "requeue",
         \A u \in Threads \ {t} : pc'[u] = pc[u]
  PROVE  Busy'
<1>1. Senders' = Senders \union {t} /\ t \notin Senders
  BY SMT DEF Senders
<1>2. QED
  BY <1>1, FS_AddElement DEF Busy

\* A sender ends its second step.
LEMMA BusyLess ==
  ASSUME Busy, NEW t \in Threads, is_busy' = is_busy - 1,
         pc[t] = "requeue", pc'[t] # "requeue",
         \A u \in Threads \ {t} : pc'[u] = pc[u]
  PROVE  Busy'
<1>1. Senders' = Senders \ {t} /\ t \in Senders
  BY DEF Senders
<1>2. QED
  BY <1>1, FS_RemoveElement DEF Busy

\* The values of call.
LEMMA CallValues ==
  /\ \A b \in BOOLEAN : /\ Receive(b) \in Calls /\ Receive(b).name = "receive"
  /\ \A e \in Events, d \in BOOLEAN :
       /\ PortSend(e, d) \in Calls /\ PortSend(e, d).name = "send"
  /\ ForceDestroy \in Calls /\ ForceDestroy.name = "destroy"
  /\ NoCall \in Calls /\ NoCall.name = "none"
<1>1. ASSUME NEW b \in BOOLEAN
      PROVE  Receive(b) \in Calls /\ Receive(b).name = "receive"
  BY DEF Receive, Calls
<1>2. ASSUME NEW e \in Events, NEW d \in BOOLEAN
      PROVE  /\ PortSend(e, d) \in Calls /\ PortSend(e, d).name = "send"
  BY DEF PortSend, Calls
<1>3. ForceDestroy \in Calls /\ ForceDestroy.name = "destroy"
  BY DEF ForceDestroy, Calls
<1>4. NoCall \in Calls /\ NoCall.name = "none"
  BY DEF NoCall, Calls
<1>5. QED
  BY <1>1, <1>2, <1>3, <1>4

\* What the parts of a step do to pc and call.
LEMMA ReturnStep ==
  ASSUME Types, NEW t \in Threads, Return(t)
  PROVE  /\ pc' \in [Threads -> WaitLabels \union {"requeue"}]
         /\ call' \in [Threads -> Calls]
         /\ pc'[t] = "idle"
         /\ \A u \in Threads \ {t} : pc'[u] = pc[u] /\ call'[u] = call[u]
<1>1. NoCall \in Calls
  BY CallValues
<1>2. QED
  BY <1>1 DEF Types, Return, Goto, WaitLabels

\* One thread goes on.
LEMMA GotoStep ==
  ASSUME Types, NEW t \in Threads, NEW l \in WaitLabels \union {"requeue"}, Goto(t, l)
  PROVE  /\ pc' \in [Threads -> WaitLabels \union {"requeue"}]
         /\ pc'[t] = l
         /\ \A u \in Threads \ {t} : pc'[u] = pc[u]
  BY DEF Types, Goto

\* One thread begins or ends a call.
LEMMA CallStep ==
  ASSUME Types, NEW t \in Threads, NEW c \in Calls, call' = [call EXCEPT ![t] = c]
  PROVE  /\ call' \in [Threads -> Calls] /\ call'[t] = c
         /\ \A u \in Threads \ {t} : call'[u] = call[u]
  BY DEF Types

\* One thread has its registers reset.
LEMMA ForgetStep ==
  ASSUME Types, NEW t \in Threads, Forget(t)
  PROVE  /\ gpr3' \in [Threads -> {OK, ETIMEDOUT, ECANCELED}]
         /\ gpr4' \in [Threads -> Events \union {NoEvent}]
         /\ gpr3'[t] = OK /\ gpr4'[t] = NoEvent
         /\ \A u \in Threads \ {t} : gpr3'[u] = gpr3[u] /\ gpr4'[u] = gpr4[u]
  BY DEF Types, Forget

\* A thread that is neither in the wait loop nor stopped.
LEMMA IdleFacts ==
  ASSUME IndInv, NEW t \in Threads, ~InWaitLoop(t), t \notin stopped
  PROVE  t \notin Queued(pq) /\ t \notin signal /\ run[t] = "running"
<1>1. ThreadInv(t) /\ run[t] \in RunStates
  BY DEF IndInv, ThreadsInv, Types, ThreadsTypeOK
<1>2. QED
  BY <1>1 DEF ThreadInv, RunStates

\* What is left to show of a thread that ends up outside the wait loop.
LEMMA OutThread ==
  ASSUME NEW t \in Threads, ~InWaitLoop(t)', t \notin Queued(pq'), t \notin signal',
         run'[t] = "running", t \notin loading'
  PROVE  ThreadInv(t)' /\ AnswerInv(t)'
<1>1. ThreadInv(t)'
  BY DEF ThreadInv, InWaitLoop
<1>2. AnswerInv(t)'
  BY DEF AnswerInv, Answered, InWaitLoop
<1>3. QED
  BY <1>1, <1>2

\* A system call that does not block and leaves the waiters alone.
LEMMA GuestStep ==
  ASSUME IndInv, NEW t \in Threads, Idle(t), Types', QueueInv',
         UNCHANGED <<pq, is_busy, run, signal, stopped, loading, pc, call>>,
         \A u \in Threads \ {t} : gpr3'[u] = gpr3[u] /\ gpr4'[u] = gpr4[u]
  PROVE  IndInv'
<1>1. ThreadsInv /\ ThreadInv(t) /\ AnswerInv(t)
  BY DEF IndInv, ThreadsInv
<1>2. \A u \in Threads \ {t} : Same(u) \/ Woken(u)
  BY DEF Same
<1>3. pc[t] = "idle" /\ ~InWaitLoop(t) /\ t \notin stopped
  BY DEF Idle, InWaitLoop
<1>4. t \notin Queued(pq) /\ t \notin signal /\ run[t] = "running"
  BY <1>3, IdleFacts
<1>5. ThreadInv(t)'
  BY <1>1 DEF ThreadInv, InWaitLoop
<1>6. AnswerInv(t) => AnswerInv(t)'
  BY <1>3, <1>4 DEF AnswerInv, Answered, InWaitLoop
<1>7. ThreadsInv'
  BY <1>1, <1>2, <1>5, <1>6, OtherThreads
<1>8. Busy'
  BY BusyKeep DEF IndInv
<1>9. QED
  BY <1>7, <1>8 DEF IndInv

\* sys_event_queue_tryreceive.
LEMMA TryReceiveInv ==
  ASSUME IndInv, NEW t \in Threads, NEW size \in TrySizes, TryReceive(t, size)
  PROVE  IndInv'
<1>1. /\ Idle(t) /\ events' = SubSeq(events, size + 1, Len(events)) /\ Forget(t)
      /\ UNCHANGED <<exists, pq, port, connected, is_busy, run, signal, stopped, loading, pc, call>>
  BY DEF TryReceive, portVars, threadVars
<1>2. size \in Nat /\ events \in Seq(Events) /\ Len(events) \in Nat
  BY EventQueueAssumption, SMT DEF EventQueueAssumption, IndInv, Types
<1>3. /\ events' \in Seq(Events) /\ Len(events') <= Len(events)
      /\ events = <<>> => events' = <<>>
  <2>1. CASE size + 1 > Len(events)
    BY <2>1, <1>1, <1>2, SMT
  <2>2. CASE size + 1 <= Len(events)
    BY <2>2, <1>1, <1>2, SMT
  <2>3. QED
    BY <2>1, <2>2, <1>2, SMT
<1>4. Types'
  BY <1>1, <1>2, <1>3, ForgetStep, Constants, SMT DEF IndInv, Types, ThreadsTypeOK
<1>5. QueueInv'
  BY <1>1, <1>3 DEF IndInv, QueueInv
<1>6. QED
  BY <1>1, <1>4, <1>5, ForgetStep, GuestStep DEF IndInv

\* sys_event_queue_drain.
LEMMA DrainInv ==
  ASSUME IndInv, NEW t \in Threads, Drain(t)
  PROVE  IndInv'
<1>1. /\ Idle(t) /\ events' = <<>> /\ Forget(t)
      /\ UNCHANGED <<exists, pq, port, connected, is_busy, run, signal, stopped, loading, pc, call>>
  BY DEF Drain, portVars, threadVars
<1>2. Types'
  BY <1>1, ForgetStep, Constants, SMT DEF IndInv, Types, ThreadsTypeOK
<1>3. QueueInv'
  BY <1>1 DEF IndInv, QueueInv
<1>4. QED
  BY <1>1, <1>2, <1>3, ForgetStep, GuestStep DEF IndInv

\* sys_event_queue_destroy without waiters, and sys_event_queue_create.
LEMMA DestroyCreateInv ==
  ASSUME IndInv, NEW t \in Threads, Destroy(t) \/ Create(t)
  PROVE  IndInv'
<1>1. /\ Idle(t) /\ loading = {} /\ Forget(t)
      /\ UNCHANGED <<pq, port, is_busy, run, signal, stopped, loading, pc, call>>
      /\ exists' \in BOOLEAN /\ connected' \in BOOLEAN
      /\ events' = <<>> \/ events' = events
  BY DEF Destroy, Destroyed, Create, Idle, portVars, threadVars, IndInv, Types
<1>2. events' \in Seq(Events) /\ Len(events') <= QueueSize
  <2>1. CASE events' = <<>>
    BY <2>1, Constants, SMT
  <2>2. CASE events' = events
    BY <2>2 DEF IndInv, Types
  <2>3. QED
    BY <2>1, <2>2, <1>1
<1>3. Types'
  BY <1>1, <1>2, ForgetStep DEF IndInv, Types, ThreadsTypeOK
<1>4. QueueInv'
  BY <1>1 DEF IndInv, QueueInv, Destroy, Destroyed, Create
<1>5. QED
  BY <1>1, <1>3, <1>4, ForgetStep, GuestStep DEF IndInv

\* The operations on the port.
LEMMA PortInv ==
  ASSUME IndInv, NEW t \in Threads,
         Connect(t) \/ Disconnect(t) \/ PortDestroy(t) \/ PortCreate(t)
  PROVE  IndInv'
<1>1. /\ Idle(t) /\ port' \in BOOLEAN /\ connected' \in BOOLEAN
      /\ connected' => connected \/ exists
      /\ UNCHANGED <<exists, events, pq, is_busy, run, signal, stopped, loading, pc, call,
                     gpr3, gpr4>>
  <2> USE DEF queueVars, threadVars, regVars, IndInv, Types
  <2>1. CASE Connect(t)
    BY <2>1 DEF Connect
  <2>2. CASE Disconnect(t)
    BY <2>2 DEF Disconnect
  <2>3. CASE PortDestroy(t)
    BY <2>3 DEF PortDestroy
  <2>4. CASE PortCreate(t)
    BY <2>4 DEF PortCreate
  <2>5. QED
    BY <2>1, <2>2, <2>3, <2>4
<1>2. Types'
  BY <1>1 DEF IndInv, Types, ThreadsTypeOK
<1>3. QueueInv'
  BY <1>1 DEF IndInv, QueueInv
<1>4. QED
  BY <1>1, <1>2, <1>3, GuestStep

-----------------------------------------------------------------------------
\* What an event that is delivered does.
LEMMA DeliverStep ==
  ASSUME IndInv, NEW e \in Events, Deliver(e), ~NobodyWaits, pc[Receiver] # "again"
  PROVE  /\ Receiver \in Queued(pq) /\ Receiver \in Threads
         /\ pq' \in Seq(Threads) /\ NoDuplicates(pq')
         /\ Queued(pq') = Queued(pq) \ {Receiver}
         /\ run' \in [Threads -> RunStates]
         /\ gpr4' \in [Threads -> Events \union {NoEvent}] /\ gpr4'[Receiver] = e
         /\ run'[Receiver] = IF run[Receiver] = "asleep" THEN "ready" ELSE run[Receiver]
         /\ \A u \in Threads \ {Receiver} : run'[u] = run[u] /\ gpr4'[u] = gpr4[u]
         /\ UNCHANGED events /\ events = <<>> /\ exists
<1> DEFINE i == schedule(pq)
<1>1. pq \in Seq(Threads) /\ NoDuplicates(pq) /\ Len(pq) > 0 /\ pq # <<>>
  BY SMT DEF IndInv, Types, NobodyWaits
<1>2. i \in DOMAIN pq
  BY <1>1, ScheduleInQueue
<1>3. Receiver = pq[i] /\ Receiver \in Queued(pq)
  BY <1>2 DEF Receiver, Queued
<1>4. pq' = Unlink(pq, i)
  BY DEF Deliver
<1>5. /\ Receiver \in Threads /\ pq' \in Seq(Threads) /\ NoDuplicates(pq')
      /\ Queued(pq') = Queued(pq) \ {Receiver}
  BY <1>1, <1>2, <1>3, <1>4, UnlinkQueue, SMT
<1>6. /\ run \in [Threads -> RunStates] /\ gpr4 \in [Threads -> Events \union {NoEvent}]
      /\ run' = awake({Receiver}) /\ gpr4' = [gpr4 EXCEPT ![Receiver] = e]
      /\ UNCHANGED events
  BY DEF Deliver, IndInv, Types, ThreadsTypeOK
<1>7. /\ run' \in [Threads -> RunStates]
      /\ run'[Receiver] = IF run[Receiver] = "asleep" THEN "ready" ELSE run[Receiver]
      /\ \A u \in Threads \ {Receiver} : run'[u] = run[u]
  BY <1>5, <1>6 DEF awake, RunStates
<1>8. /\ gpr4' \in [Threads -> Events \union {NoEvent}] /\ gpr4'[Receiver] = e
      /\ \A u \in Threads \ {Receiver} : gpr4'[u] = gpr4[u]
  BY <1>5, <1>6
<1>9. events = <<>> /\ exists
  BY <1>1 DEF IndInv, QueueInv
<1>10. QED
  BY <1>3, <1>5, <1>6, <1>7, <1>8, <1>9

\* The receiver of an event is answered; nothing happens to other waiters.
LEMMA DeliverThreads ==
  ASSUME IndInv, NEW e \in Events, Deliver(e), ~NobodyWaits, pc[Receiver] # "again",
         UNCHANGED <<gpr3, signal, stopped, loading>>,
         NEW u \in Threads, pc'[u] = pc[u], call'[u] = call[u]
  PROVE  Same(u) \/ Woken(u)
<1>1. /\ Receiver \in Queued(pq)
      /\ Queued(pq') = Queued(pq) \ {Receiver}
      /\ gpr4'[Receiver] = e
      /\ run'[Receiver] = IF run[Receiver] = "asleep" THEN "ready" ELSE run[Receiver]
      /\ \A v \in Threads \ {Receiver} : run'[v] = run[v] /\ gpr4'[v] = gpr4[v]
  BY DeliverStep
<1>2. CASE u = Receiver
  BY <1>1, <1>2, Constants DEF Woken
<1>3. CASE u # Receiver
  BY <1>1, <1>3 DEF Same
<1>4. QED
  BY <1>2, <1>3

\* An event goes to the list.
LEMMA RoomStep ==
  ASSUME IndInv, NEW e \in Events, NobodyWaits, Room, events' = Append(events, e)
  PROVE  events' \in Seq(Events) /\ Len(events') <= QueueSize /\ pq = <<>>
  BY Constants, SMT DEF IndInv, Types, NobodyWaits, Room

\* A host thread sends.
LEMMA HostSendInv ==
  ASSUME IndInv, NEW e \in Events, HostSend(e)
  PROVE  IndInv'
<1>1. /\ exists /\ loading = {}
      /\ UNCHANGED <<exists, port, connected, is_busy, pc, call, gpr3, signal, stopped, loading>>
  BY DEF HostSend, portVars
<1>2. Busy'
  BY <1>1, BusyKeep DEF IndInv
<1>3. CASE NobodyWaits /\ Room /\ events' = Append(events, e) /\ UNCHANGED <<pq, gpr4, run>>
  <2>1. events' \in Seq(Events) /\ Len(events') <= QueueSize /\ pq = <<>>
    BY <1>3, RoomStep
  <2>2. Types'
    BY <2>1, <1>1, <1>3 DEF IndInv, Types, ThreadsTypeOK
  <2>3. QueueInv'
    BY <2>1, <1>1, <1>3 DEF IndInv, QueueInv
  <2>4. \A u \in Threads : Same(u) \/ Woken(u)
    BY <1>1, <1>3 DEF Same
  <2>5. QED
    BY <2>2, <2>3, <2>4, <1>2, AllThreads DEF IndInv
<1>4. CASE ~NobodyWaits /\ pc[Receiver] # "again" /\ Deliver(e)
  <2>1. /\ pq' \in Seq(Threads) /\ NoDuplicates(pq')
        /\ run' \in [Threads -> RunStates]
        /\ gpr4' \in [Threads -> Events \union {NoEvent}]
        /\ UNCHANGED events /\ events = <<>>
    BY <1>4, DeliverStep
  <2>2. Types'
    BY <2>1, <1>1 DEF IndInv, Types, ThreadsTypeOK
  <2>3. QueueInv'
    BY <2>1, <1>1 DEF IndInv, QueueInv
  <2>4. \A u \in Threads : Same(u) \/ Woken(u)
    BY <1>1, <1>4, DeliverThreads
  <2>5. QED
    BY <2>2, <2>3, <2>4, <1>2, AllThreads DEF IndInv
<1>5. QED
  BY <1>3, <1>4 DEF HostSend

\* sys_event_port_send
LEMMA SendInv ==
  ASSUME IndInv, NEW t \in Threads, NEW e \in Events, Send(t, e)
  PROVE  IndInv'
<1>1. PICK d \in BOOLEAN :
        /\ Enters(t, PortSend(e, d))
        /\ \/ /\ Return(t)
              /\ UNCHANGED <<events, pq, is_busy, gpr4, run, stopped>>
           \/ /\ connected /\ NobodyWaits /\ Room
              /\ events' = Append(events, e)
              /\ Return(t)
              /\ UNCHANGED <<pq, is_busy, gpr4, run, stopped>>
           \/ /\ connected /\ ~NobodyWaits /\ pc[Receiver] = "again"
              /\ stopped' = stopped \union {t}
              /\ Goto(t, "again")
              /\ call' = [call EXCEPT ![t] = PortSend(e, d)]
              /\ UNCHANGED <<events, pq, is_busy, gpr4, run>>
           \/ /\ connected /\ ~NobodyWaits /\ pc[Receiver] # "again"
              /\ Deliver(e)
              /\ \/ /\ is_busy' = is_busy + 1
                    /\ Goto(t, "requeue")
                    /\ call' = [call EXCEPT ![t] = PortSend(e, TRUE)]
                 \/ Return(t) /\ UNCHANGED is_busy
              /\ UNCHANGED stopped
        /\ UNCHANGED <<exists, port, connected, gpr3, signal, loading>>
  BY DEF Send
<1>2. /\ t \notin stopped /\ pc[t] \in {"idle", "again"}
      /\ pc[t] = "again" => call[t].name = "send"
      /\ t \in loading \/ loading = {}
  BY <1>1, CallValues DEF Enters, CanEnter
<1>3. ThreadsInv /\ ThreadInv(t) /\ Types /\ Busy /\ QueueInv
  BY DEF IndInv, ThreadsInv
<1>4. loading = {} /\ ~InWaitLoop(t) /\ pc[t] # "requeue"
  BY <1>2, <1>3 DEF ThreadInv, InWaitLoop
<1>5. t \notin Queued(pq) /\ t \notin signal /\ run[t] = "running"
  BY <1>2, <1>4, IdleFacts
<1>6. UNCHANGED <<exists, port, connected, gpr3, signal, loading>>
  BY <1>1
<1>7. CASE /\ Return(t) /\ UNCHANGED <<pq, is_busy, gpr4, run, stopped>>
           /\ \/ UNCHANGED events
              \/ connected /\ NobodyWaits /\ Room /\ events' = Append(events, e)
  <2>1. /\ pc' \in [Threads -> WaitLabels \union {"requeue"}]
        /\ call' \in [Threads -> Calls]
        /\ pc'[t] = "idle"
        /\ \A u \in Threads \ {t} : pc'[u] = pc[u] /\ call'[u] = call[u]
    BY <1>3, <1>7, ReturnStep
  <2>2. /\ events' \in Seq(Events) /\ Len(events') <= QueueSize
        /\ UNCHANGED events \/ (pq = <<>> /\ connected)
    BY <1>3, <1>7, RoomStep DEF Types
  <2>3. Types'
    BY <2>1, <2>2, <1>3, <1>6, <1>7 DEF Types, ThreadsTypeOK
  <2>4. QueueInv'
    BY <2>2, <1>3, <1>4, <1>6, <1>7 DEF QueueInv
  <2>5. Busy'
    BY <2>1, <1>3, <1>4, <1>7, BusyKeep
  <2>6. ThreadInv(t)' /\ AnswerInv(t)'
    <3>1. /\ ~InWaitLoop(t)' /\ pc'[t] # "again" /\ t \notin Queued(pq')
          /\ t \notin signal' /\ t \notin loading' /\ t \notin stopped'
          /\ run'[t] = "running"
      BY <2>1, <1>2, <1>4, <1>5, <1>6, <1>7 DEF InWaitLoop
    <3>2. QED
      BY <3>1, OutThread
  <2>7. \A u \in Threads \ {t} : Same(u) \/ Woken(u)
    BY <2>1, <1>6, <1>7 DEF Same
  <2>8. QED
    BY <2>3, <2>4, <2>5, <2>6, <2>7, <1>3, OtherThreads DEF IndInv
<1>8. CASE /\ connected /\ ~NobodyWaits /\ pc[Receiver] = "again"
           /\ stopped' = stopped \union {t}
           /\ Goto(t, "again")
           /\ call' = [call EXCEPT ![t] = PortSend(e, d)]
           /\ UNCHANGED <<events, pq, is_busy, gpr4, run>>
  <2>1. /\ pc' \in [Threads -> WaitLabels \union {"requeue"}] /\ pc'[t] = "again"
        /\ \A u \in Threads \ {t} : pc'[u] = pc[u]
    BY <1>3, <1>8, GotoStep DEF WaitLabels
  <2>2. /\ call' \in [Threads -> Calls]
        /\ \A u \in Threads \ {t} : call'[u] = call[u]
    <3>1. PortSend(e, d) \in Calls
      BY CallValues
    <3>2. QED
      BY <3>1, <1>3, <1>8, CallStep
  <2>3. Types'
    BY <2>1, <2>2, <1>3, <1>6, <1>8 DEF Types, ThreadsTypeOK
  <2>4. QueueInv'
    BY <1>3, <1>6, <1>8 DEF QueueInv
  <2>5. Busy'
    BY <2>1, <1>3, <1>4, <1>8, BusyKeep
  <2>6. ThreadInv(t)' /\ AnswerInv(t)'
    <3>1. /\ ~InWaitLoop(t)' /\ t \notin Queued(pq') /\ t \notin signal'
          /\ t \notin loading' /\ run'[t] = "running"
      BY <2>1, <1>4, <1>5, <1>6, <1>8 DEF InWaitLoop
    <3>2. QED
      BY <3>1, OutThread
  <2>7. \A u \in Threads \ {t} : Same(u) \/ Woken(u)
    BY <2>1, <2>2, <1>6, <1>8 DEF Same
  <2>8. QED
    BY <2>3, <2>4, <2>5, <2>6, <2>7, <1>3, OtherThreads DEF IndInv
<1>9. CASE /\ connected /\ ~NobodyWaits /\ pc[Receiver] # "again"
           /\ Deliver(e)
           /\ \/ /\ is_busy' = is_busy + 1
                 /\ Goto(t, "requeue")
                 /\ call' = [call EXCEPT ![t] = PortSend(e, TRUE)]
              \/ Return(t) /\ UNCHANGED is_busy
           /\ UNCHANGED stopped
  <2>1. /\ pc' \in [Threads -> WaitLabels \union {"requeue"}]
        /\ call' \in [Threads -> Calls]
        /\ \/ pc'[t] = "idle" /\ UNCHANGED is_busy
           \/ pc'[t] = "requeue" /\ is_busy' = is_busy + 1
        /\ \A u \in Threads \ {t} : pc'[u] = pc[u] /\ call'[u] = call[u]
    <3>1. CASE Return(t) /\ UNCHANGED is_busy
      BY <3>1, <1>3, ReturnStep
    <3>2. CASE /\ is_busy' = is_busy + 1 /\ Goto(t, "requeue")
               /\ call' = [call EXCEPT ![t] = PortSend(e, TRUE)]
      <4>1. PortSend(e, TRUE) \in Calls
        BY CallValues
      <4>2. QED
        BY <4>1, <3>2, <1>3, GotoStep, CallStep
    <3>3. QED
      BY <3>1, <3>2, <1>9
  <2>2. /\ Receiver \in Queued(pq)
        /\ pq' \in Seq(Threads) /\ NoDuplicates(pq') /\ Queued(pq') = Queued(pq) \ {Receiver}
        /\ run' \in [Threads -> RunStates]
        /\ gpr4' \in [Threads -> Events \union {NoEvent}]
        /\ \A u \in Threads \ {Receiver} : run'[u] = run[u]
        /\ UNCHANGED events /\ events = <<>> /\ exists
    BY <1>9, DeliverStep
  <2>3. Types'
    BY <2>1, <2>2, <1>3, <1>6, <1>9 DEF Types, ThreadsTypeOK
  <2>4. QueueInv'
    BY <2>2, <1>3, <1>6 DEF QueueInv
  <2>5. Busy'
    <3>1. CASE pc'[t] = "idle" /\ UNCHANGED is_busy
      BY <3>1, <2>1, <1>3, <1>4, BusyKeep
    <3>2. CASE pc'[t] = "requeue" /\ is_busy' = is_busy + 1
      BY <3>2, <2>1, <1>3, <1>4, BusyMore
    <3>3. QED
      BY <3>1, <3>2, <2>1
  <2>6. ThreadInv(t)' /\ AnswerInv(t)'
    <3>1. t # Receiver
      BY <2>2, <1>5
    <3>2. run'[t] = "running" /\ t \notin Queued(pq') /\ ~InWaitLoop(t)' /\ pc'[t] # "again"
      BY <3>1, <2>1, <2>2, <1>5 DEF InWaitLoop
    <3>3. t \notin signal' /\ t \notin loading' /\ t \notin stopped'
      BY <1>2, <1>4, <1>5, <1>6, <1>9
    <3>4. QED
      BY <3>2, <3>3, OutThread
  <2>7. \A u \in Threads \ {t} : Same(u) \/ Woken(u)
    BY <2>1, <1>6, <1>9, DeliverThreads
  <2>8. QED
    BY <2>3, <2>4, <2>5, <2>6, <2>7, <1>3, OtherThreads DEF IndInv
<1>10. QED
  BY <1>1, <1>7, <1>8, <1>9

\* The end of sys_event_port_send.
LEMMA SendRequeuedInv ==
  ASSUME IndInv, NEW t \in Threads, SendRequeued(t)
  PROVE  IndInv'
<1>1. /\ pc[t] = "requeue" /\ is_busy' = is_busy - 1
      /\ IF t \in stopped THEN Continue(t, "again") ELSE Return(t)
      /\ UNCHANGED <<exists, events, pq, port, connected, run, signal, stopped, loading, gpr3, gpr4>>
  BY DEF SendRequeued, queueVars, threadVars, regVars
<1>2. ThreadsInv /\ ThreadInv(t) /\ AnswerInv(t) /\ Types /\ Busy /\ QueueInv
  BY DEF IndInv, ThreadsInv
<1>3. /\ pc' \in [Threads -> WaitLabels \union {"requeue"}]
      /\ call' \in [Threads -> Calls]
      /\ pc'[t] = IF t \in stopped THEN "again" ELSE "idle"
      /\ \A u \in Threads \ {t} : pc'[u] = pc[u] /\ call'[u] = call[u]
  <2>1. CASE t \in stopped
    BY <2>1, <1>1, <1>2, GotoStep DEF Continue, WaitLabels, Types
  <2>2. CASE t \notin stopped
    BY <2>2, <1>1, <1>2, ReturnStep
  <2>3. QED
    BY <2>1, <2>2
<1>4. Types' /\ QueueInv'
  BY <1>1, <1>2, <1>3 DEF Types, ThreadsTypeOK, QueueInv
<1>5. Busy'
  BY <1>1, <1>2, <1>3, BusyLess
<1>6. ThreadInv(t)'
  BY <1>1, <1>2, <1>3 DEF ThreadInv, InWaitLoop
<1>7. AnswerInv(t) => AnswerInv(t)'
  BY <1>1, <1>2, <1>3 DEF AnswerInv, Answered, InWaitLoop
<1>8. \A u \in Threads \ {t} : Same(u) \/ Woken(u)
  BY <1>1, <1>3 DEF Same
<1>9. QED
  BY <1>2, <1>4, <1>5, <1>6, <1>7, <1>8, OtherThreads DEF IndInv

\* sys_event_queue_receive
LEMMA ReceiveEnterInv ==
  ASSUME IndInv, NEW t \in Threads, NEW timed \in Timed, ReceiveEnter(t, timed)
  PROVE  IndInv'
<1>1. /\ exists /\ Enters(t, Receive(timed))
      /\ UNCHANGED <<exists, port, connected, is_busy, signal, stopped>>
  BY DEF ReceiveEnter, portVars
<1>2. timed \in BOOLEAN
  BY EventQueueAssumption DEF EventQueueAssumption
<1>3. t \notin stopped /\ pc[t] \in {"idle", "again"}
  BY <1>1 DEF Enters, CanEnter
<1>4. ThreadsInv /\ ThreadInv(t) /\ AnswerInv(t) /\ Types /\ Busy /\ QueueInv
  BY DEF IndInv, ThreadsInv
<1>5. ~InWaitLoop(t)
  BY <1>3 DEF InWaitLoop
<1>6. t \notin Queued(pq) /\ t \notin signal /\ run[t] = "running"
  BY <1>3, <1>5, IdleFacts
<1>7. CASE /\ NothingToReceive
           /\ run' = sleep(t)
           /\ loading' = slept(t)
           /\ pq' = emplace(pq, t)
           /\ Forget(t)
           /\ Goto(t, "wait")
           /\ call' = [call EXCEPT ![t] = Receive(timed)]
           /\ UNCHANGED events
  <2>1. /\ pc' \in [Threads -> WaitLabels \union {"requeue"}] /\ pc'[t] = "wait"
        /\ \A u \in Threads \ {t} : pc'[u] = pc[u]
    BY <1>4, <1>7, GotoStep DEF WaitLabels
  <2>2. /\ call' \in [Threads -> Calls] /\ call'[t].name = "receive"
        /\ \A u \in Threads \ {t} : call'[u] = call[u]
    <3>1. /\ Receive(timed) \in Calls /\ Receive(timed).name = "receive"
      BY <1>2, CallValues
    <3>2. QED
      BY <3>1, <1>4, <1>7, CallStep
  <2>3. /\ pq' \in Seq(Threads) /\ NoDuplicates(pq') /\ Queued(pq') = Queued(pq) \union {t}
    BY <1>4, <1>6, <1>7, EmplaceQueue DEF Types
  <2>4. /\ run' \in [Threads -> RunStates] /\ run'[t] = "asleep"
        /\ \A u \in Threads \ {t} : run'[u] = run[u]
        /\ loading' = loading \ {t}
    BY <1>4, <1>6, <1>7 DEF sleep, slept, Types, ThreadsTypeOK, RunStates
  <2>5. /\ gpr3' \in [Threads -> {OK, ETIMEDOUT, ECANCELED}]
        /\ gpr4' \in [Threads -> Events \union {NoEvent}]
        /\ gpr3'[t] = OK /\ gpr4'[t] = NoEvent
        /\ \A u \in Threads \ {t} : gpr3'[u] = gpr3[u] /\ gpr4'[u] = gpr4[u]
    BY <1>4, <1>7, ForgetStep
  <2>6. Types'
    BY <2>1, <2>2, <2>3, <2>4, <2>5, <1>1, <1>4, <1>7 DEF Types, ThreadsTypeOK
  <2>7. QueueInv'
    BY <2>4, <1>1, <1>4, <1>7 DEF QueueInv, NothingToReceive
  <2>8. Busy'
    BY <2>1, <1>1, <1>3, <1>4, BusyKeep
  <2>9. ThreadInv(t)'
    BY <2>1, <2>2, <2>3, <2>4, <1>1, <1>6 DEF ThreadInv, InWaitLoop
  <2>10. AnswerInv(t) => AnswerInv(t)'
    BY <2>1, <2>2, <2>3, <2>4, <2>5, <1>1 DEF AnswerInv, Answered, InWaitLoop
  <2>11. \A u \in Threads \ {t} : Same(u) \/ Woken(u)
    BY <2>1, <2>2, <2>3, <2>4, <2>5, <1>1 DEF Same
  <2>12. QED
    BY <2>6, <2>7, <2>8, <2>9, <2>10, <2>11, <1>4, OtherThreads DEF IndInv
<1>8. CASE /\ ~NothingToReceive
           /\ events' = Tail(events)
           /\ gpr3' = [gpr3 EXCEPT ![t] = OK]
           /\ gpr4' = [gpr4 EXCEPT ![t] = Head(events)]
           /\ Return(t)
           /\ UNCHANGED <<run, loading, pq>>
  <2>1. /\ pc' \in [Threads -> WaitLabels \union {"requeue"}]
        /\ call' \in [Threads -> Calls]
        /\ pc'[t] = "idle"
        /\ \A u \in Threads \ {t} : pc'[u] = pc[u] /\ call'[u] = call[u]
    BY <1>4, <1>8, ReturnStep
  <2>2. /\ events' \in Seq(Events) /\ Len(events') <= Len(events) /\ Head(events) \in Events
        /\ events # <<>> /\ loading = {}
    BY <1>4, <1>8, SMT DEF Types, NothingToReceive, QueueInv
  <2>3. /\ gpr3' \in [Threads -> {OK, ETIMEDOUT, ECANCELED}]
        /\ gpr4' \in [Threads -> Events \union {NoEvent}]
        /\ \A u \in Threads \ {t} : gpr3'[u] = gpr3[u] /\ gpr4'[u] = gpr4[u]
    BY <2>2, <1>4, <1>8 DEF Types
  <2>4. Types'
    BY <2>1, <2>2, <2>3, <1>1, <1>4, <1>8, Constants, SMT DEF Types, ThreadsTypeOK
  <2>5. QueueInv'
    BY <2>2, <1>1, <1>4, <1>8 DEF QueueInv
  <2>6. Busy'
    BY <2>1, <1>1, <1>3, <1>4, BusyKeep
  <2>7. ThreadInv(t)' /\ AnswerInv(t)'
    <3>1. /\ ~InWaitLoop(t)' /\ pc'[t] # "again" /\ t \notin Queued(pq')
          /\ t \notin signal' /\ t \notin loading' /\ t \notin stopped'
          /\ run'[t] = "running"
      BY <2>1, <2>2, <1>1, <1>3, <1>6, <1>8 DEF InWaitLoop
    <3>2. QED
      BY <3>1, OutThread
  <2>8. \A u \in Threads \ {t} : Same(u) \/ Woken(u)
    BY <2>1, <2>3, <1>1, <1>8 DEF Same
  <2>9. QED
    BY <2>4, <2>5, <2>6, <2>7, <2>8, <1>4, OtherThreads DEF IndInv
<1>9. QED
  BY <1>7, <1>8 DEF ReceiveEnter

-----------------------------------------------------------------------------
(***************************************************************************)
(* A step of a thread in the wait loop that concerns nobody else.          *)
(***************************************************************************)
LoopStep(t) ==
  /\ pc' \in [Threads -> WaitLabels \union {"requeue"}]
  /\ call' \in [Threads -> Calls]
  /\ run' \in [Threads -> RunStates]
  /\ gpr3' \in [Threads -> {OK, ETIMEDOUT, ECANCELED}]
  /\ pc[t] # "requeue" /\ pc'[t] # "requeue"
  /\ signal' \subseteq signal
  /\ pq' \in Seq(Threads) /\ NoDuplicates(pq')
  /\ pq = <<>> => pq' = <<>>
  /\ \A u \in Threads \ {t} :
       /\ pc'[u] = pc[u] /\ call'[u] = call[u] /\ run'[u] = run[u] /\ gpr3'[u] = gpr3[u]
       /\ u \in signal' <=> u \in signal
       /\ u \in Queued(pq') <=> u \in Queued(pq)
  /\ UNCHANGED <<exists, events, port, connected, is_busy, stopped, loading, gpr4>>

\* For a step within the wait loop it is enough to look at its thread.
LEMMA LoopStepInv ==
  ASSUME IndInv, NEW t \in Threads, LoopStep(t),
         ThreadInv(t)', AnswerInv(t)'
  PROVE  IndInv'
<1> USE DEF IndInv, LoopStep
<1>1. Types'
  BY DEF Types, ThreadsTypeOK
<1>2. QueueInv'
  BY DEF QueueInv
<1>3. Busy'
  BY BusyKeep
<1>4. \A u \in Threads \ {t} : Same(u) \/ Woken(u)
  BY DEF Same
<1>5. QED
  BY <1>1, <1>2, <1>3, <1>4, OtherThreads

\* The wait loop sees cpu_flag::signal.
LEMMA ReceiveSignalInv ==
  ASSUME IndInv, NEW t \in Threads, ReceiveSignal(t)
  PROVE  IndInv'
<1>1. /\ pc[t] = "wait" /\ t \in signal /\ signal' = signal \ {t} /\ Return(t)
      /\ UNCHANGED <<run, stopped, loading, exists, events, pq, port, connected, is_busy, gpr3, gpr4>>
  BY DEF ReceiveSignal, WaitEnds, queueVars, portVars, regVars
<1>2. ThreadInv(t) /\ AnswerInv(t) /\ Types
  BY DEF IndInv, ThreadsInv
<1>3. /\ pc' \in [Threads -> WaitLabels \union {"requeue"}]
      /\ call' \in [Threads -> Calls]
      /\ pc'[t] = "idle"
      /\ \A u \in Threads \ {t} : pc'[u] = pc[u] /\ call'[u] = call[u]
  BY <1>1, <1>2, ReturnStep
<1>4. LoopStep(t)
  BY <1>1, <1>2, <1>3 DEF LoopStep, Types, ThreadsTypeOK
<1>5. ThreadInv(t)'
  BY <1>1, <1>2, <1>3 DEF ThreadInv, InWaitLoop
<1>6. AnswerInv(t) => AnswerInv(t)'
  BY <1>1, <1>2, <1>3 DEF AnswerInv, ThreadInv, Answered, InWaitLoop
<1>7. QED
  BY <1>2, <1>4, <1>5, <1>6, LoopStepInv

\* A stop flag in the wait loop.
LEMMA ReceiveStoppedInv ==
  ASSUME IndInv, NEW t \in Threads, ReceiveStopped(t)
  PROVE  IndInv'
<1>1. /\ pc[t] = "wait" /\ t \in stopped
      /\ IF t \in Queued(pq) THEN Continue(t, "again") ELSE Return(t)
      /\ UNCHANGED <<exists, events, pq, port, connected, is_busy, run, signal, stopped, loading, gpr3, gpr4>>
  BY DEF ReceiveStopped, queueVars, portVars, threadVars, regVars
<1>2. ThreadInv(t) /\ AnswerInv(t) /\ Types
  BY DEF IndInv, ThreadsInv
<1>3. /\ pc' \in [Threads -> WaitLabels \union {"requeue"}]
      /\ call' \in [Threads -> Calls]
      /\ \/ t \in Queued(pq) /\ pc'[t] = "again" /\ call'[t] = call[t]
         \/ t \notin Queued(pq) /\ pc'[t] = "idle"
      /\ \A u \in Threads \ {t} : pc'[u] = pc[u] /\ call'[u] = call[u]
  <2>1. CASE t \in Queued(pq)
    BY <2>1, <1>1, <1>2, GotoStep DEF Continue, WaitLabels, Types
  <2>2. CASE t \notin Queued(pq)
    BY <2>2, <1>1, <1>2, ReturnStep
  <2>3. QED
    BY <2>1, <2>2
<1>4. LoopStep(t)
  BY <1>1, <1>2, <1>3 DEF LoopStep, Types, ThreadsTypeOK
<1>5. ThreadInv(t)'
  BY <1>1, <1>2, <1>3 DEF ThreadInv, InWaitLoop
<1>6. AnswerInv(t) => AnswerInv(t)'
  BY <1>1, <1>2, <1>3 DEF AnswerInv, ThreadInv, Answered, InWaitLoop
<1>7. QED
  BY <1>2, <1>4, <1>5, <1>6, LoopStepInv

\* A timeout in the wait loop.
LEMMA ReceiveTimeoutInv ==
  ASSUME IndInv, NEW t \in Threads, ReceiveTimeout(t)
  PROVE  IndInv'
<1>1. /\ pc[t] = "wait" /\ call[t].timed /\ Goto(t, "resched")
      /\ UNCHANGED <<exists, events, pq, port, connected, is_busy, run, signal, stopped, loading, call, gpr3, gpr4>>
  BY DEF ReceiveTimeout, wait_timeout, queueVars, portVars, regVars
<1>2. ThreadInv(t) /\ AnswerInv(t) /\ Types
  BY DEF IndInv, ThreadsInv
<1>3. /\ pc' \in [Threads -> WaitLabels \union {"requeue"}]
      /\ pc'[t] = "resched"
      /\ \A u \in Threads \ {t} : pc'[u] = pc[u]
  BY <1>1, <1>2, GotoStep DEF WaitLabels
<1>4. LoopStep(t)
  BY <1>1, <1>2, <1>3 DEF LoopStep, Types, ThreadsTypeOK
<1>5. ThreadInv(t)'
  BY <1>1, <1>2, <1>3 DEF ThreadInv, InWaitLoop
<1>6. AnswerInv(t) => AnswerInv(t)'
  BY <1>1, <1>2, <1>3 DEF AnswerInv, Answered, InWaitLoop
<1>7. QED
  BY <1>2, <1>4, <1>5, <1>6, LoopStepInv

\* check_state after it.
LEMMA CheckStateInv ==
  ASSUME IndInv, NEW t \in Threads, CheckState(t)
  PROVE  IndInv'
<1>1. /\ pc[t] = "resched"
      /\ UNCHANGED <<exists, events, pq, port, connected, is_busy, stopped, loading, call, gpr3, gpr4>>
  BY DEF CheckState, cpu_sleep, check_state, queueVars, portVars, regVars
<1>2. /\ ThreadInv(t) /\ AnswerInv(t) /\ Types
      /\ run \in [Threads -> RunStates]
  BY DEF IndInv, ThreadsInv, Types, ThreadsTypeOK
<1>3. CASE cpu_sleep(t)
  <2>1. /\ UNCHANGED <<pc, signal>> /\ t \notin stopped
        /\ run' \in [Threads -> RunStates] /\ run'[t] = "ready"
        /\ \A u \in Threads \ {t} : run'[u] = run[u]
    BY <1>2, <1>3 DEF cpu_sleep, awake, RunStates
  <2>2. LoopStep(t)
    BY <2>1, <1>1, <1>2 DEF LoopStep, Types, ThreadsTypeOK
  <2>3. ThreadInv(t)'
    BY <2>1, <1>1, <1>2, <1>3 DEF ThreadInv, InWaitLoop, cpu_sleep
  <2>4. AnswerInv(t) => AnswerInv(t)'
    BY <2>1, <1>1, <1>2 DEF AnswerInv, Answered, InWaitLoop
  <2>5. QED
    BY <2>2, <2>3, <2>4, <1>2, LoopStepInv
<1>4. CASE check_state(t)
  <2>1. /\ signal' = signal \ {t} /\ UNCHANGED run
        /\ t \in stopped \/ run[t] = "running"
        /\ Goto(t, IF t \in stopped THEN "wait" ELSE "recheck")
    BY <1>4 DEF check_state, unsignal
  <2>2. /\ pc' \in [Threads -> WaitLabels \union {"requeue"}]
        /\ pc'[t] = IF t \in stopped THEN "wait" ELSE "recheck"
        /\ \A u \in Threads \ {t} : pc'[u] = pc[u]
    BY <2>1, <1>2, GotoStep DEF WaitLabels
  <2>3. LoopStep(t)
    BY <2>1, <2>2, <1>1, <1>2 DEF LoopStep, Types, ThreadsTypeOK
  <2>4. ThreadInv(t)'
    BY <2>1, <2>2, <1>1, <1>2 DEF ThreadInv, InWaitLoop
  <2>5. AnswerInv(t)'
    BY <2>1, <2>2, <1>1, <1>2 DEF AnswerInv, Answered, InWaitLoop
  <2>6. QED
    BY <2>3, <2>4, <2>5, LoopStepInv
<1>5. QED
  BY <1>3, <1>4 DEF CheckState

\* The end of a timeout.
LEMMA ReceiveRecheckInv ==
  ASSUME IndInv, NEW t \in Threads, ReceiveRecheck(t)
  PROVE  IndInv'
<1>1. /\ pc[t] = "recheck" /\ Return(t)
      /\ gpr3' = [gpr3 EXCEPT ![t] = timedOut(t)]
      /\ pq' = IF t \in Queued(pq) THEN unqueue(pq, t) ELSE pq
      /\ UNCHANGED <<exists, events, port, connected, is_busy, run, signal, stopped, loading, gpr4>>
  BY DEF ReceiveRecheck, portVars, threadVars
<1>2. ThreadInv(t) /\ AnswerInv(t) /\ Types
  BY DEF IndInv, ThreadsInv
<1>3. /\ pc' \in [Threads -> WaitLabels \union {"requeue"}]
      /\ call' \in [Threads -> Calls]
      /\ pc'[t] = "idle"
      /\ \A u \in Threads \ {t} : pc'[u] = pc[u] /\ call'[u] = call[u]
  BY <1>1, <1>2, ReturnStep
<1>4. /\ gpr3' \in [Threads -> {OK, ETIMEDOUT, ECANCELED}]
      /\ \A u \in Threads \ {t} : gpr3'[u] = gpr3[u]
  BY <1>1, <1>2 DEF Types, timedOut
<1>5. /\ pq' \in Seq(Threads) /\ NoDuplicates(pq') /\ Queued(pq') = Queued(pq) \ {t}
      /\ pq = <<>> => pq' = <<>>
  <2>1. pq \in Seq(Threads) /\ NoDuplicates(pq) /\ (pq = <<>> => Queued(pq) = {})
    BY <1>2, SMT DEF Types, Queued
  <2>2. CASE t \in Queued(pq)
    BY <2>1, <2>2, <1>1, UnqueueQueue
  <2>3. CASE t \notin Queued(pq)
    BY <2>1, <2>3, <1>1
  <2>4. QED
    BY <2>2, <2>3
<1>6. LoopStep(t)
  BY <1>1, <1>2, <1>3, <1>4, <1>5 DEF LoopStep, Types, ThreadsTypeOK
<1>7. ThreadInv(t)'
  BY <1>1, <1>2, <1>3, <1>5 DEF ThreadInv, InWaitLoop
<1>8. AnswerInv(t) => AnswerInv(t)'
  BY <1>1, <1>2, <1>3, <1>5 DEF AnswerInv, Answered, InWaitLoop
<1>9. QED
  BY <1>2, <1>6, <1>7, <1>8, LoopStepInv

-----------------------------------------------------------------------------
\* sys_event_queue_destroy with SYS_EVENT_QUEUE_DESTROY_FORCE
LEMMA DestroyForceInv ==
  ASSUME IndInv, NEW t \in Threads, DestroyForce(t)
  PROVE  IndInv'
<1>1. /\ Enters(t, ForceDestroy)
      /\ UNCHANGED <<port, is_busy, gpr4, signal, loading>>
  BY DEF DestroyForce
<1>2. /\ t \notin stopped /\ pc[t] \in {"idle", "again"}
      /\ t \in loading \/ loading = {}
      /\ pc[t] = "again" => call[t] = ForceDestroy
  BY <1>1 DEF Enters, CanEnter
<1>3. ThreadsInv /\ ThreadInv(t) /\ AnswerInv(t) /\ Types /\ Busy /\ QueueInv
  BY DEF IndInv, ThreadsInv
<1>4. ~InWaitLoop(t)
  BY <1>2 DEF InWaitLoop
<1>5. t \notin Queued(pq) /\ t \notin signal /\ run[t] = "running"
  BY <1>2, <1>4, IdleFacts
<1>6. ForceDestroy \in Calls /\ ForceDestroy.name = "destroy"
  BY CallValues
<1>7. loading = {} /\ t \notin loading
  BY <1>2, <1>3, <1>6 DEF ThreadInv
<1>8. CASE ~exists /\ Return(t) /\ UNCHANGED <<exists, events, pq, connected, gpr3, run, stopped>>
  <2>1. /\ pc' \in [Threads -> WaitLabels \union {"requeue"}]
        /\ call' \in [Threads -> Calls]
        /\ pc'[t] = "idle"
        /\ \A u \in Threads \ {t} : pc'[u] = pc[u] /\ call'[u] = call[u]
    BY <1>3, <1>8, ReturnStep
  <2>2. Types' /\ QueueInv'
    BY <2>1, <1>1, <1>3, <1>8 DEF Types, ThreadsTypeOK, QueueInv
  <2>3. Busy'
    BY <2>1, <1>1, <1>2, <1>3, BusyKeep
  <2>4. ThreadInv(t)' /\ AnswerInv(t)'
    <3>1. /\ ~InWaitLoop(t)' /\ pc'[t] # "again" /\ t \notin Queued(pq')
          /\ t \notin signal' /\ t \notin loading' /\ t \notin stopped'
          /\ run'[t] = "running"
      BY <2>1, <1>1, <1>2, <1>5, <1>7, <1>8 DEF InWaitLoop
    <3>2. QED
      BY <3>1, OutThread
  <2>5. \A u \in Threads \ {t} : Same(u) \/ Woken(u)
    BY <2>1, <1>1, <1>8 DEF Same
  <2>6. QED
    BY <2>2, <2>3, <2>4, <2>5, <1>3, OtherThreads DEF IndInv
<1>9. CASE /\ exists /\ WaiterAgain
           /\ Goto(t, "again")
           /\ call' = [call EXCEPT ![t] = ForceDestroy]
           /\ stopped' = stopped \union {t}
           /\ UNCHANGED <<exists, events, pq, connected, gpr3, run>>
  <2>1. /\ pc' \in [Threads -> WaitLabels \union {"requeue"}] /\ pc'[t] = "again"
        /\ \A u \in Threads \ {t} : pc'[u] = pc[u]
    BY <1>3, <1>9, GotoStep DEF WaitLabels
  <2>2. /\ call' \in [Threads -> Calls] /\ call'[t] = ForceDestroy
        /\ \A u \in Threads \ {t} : call'[u] = call[u]
    BY <1>3, <1>6, <1>9, CallStep
  <2>3. Types' /\ QueueInv'
    BY <2>1, <2>2, <1>1, <1>3, <1>9 DEF Types, ThreadsTypeOK, QueueInv
  <2>4. Busy'
    BY <2>1, <1>1, <1>2, <1>3, BusyKeep
  <2>5. ThreadInv(t)' /\ AnswerInv(t)'
    <3>1. /\ ~InWaitLoop(t)' /\ t \notin Queued(pq') /\ t \notin signal'
          /\ t \notin loading' /\ run'[t] = "running"
      BY <2>1, <1>1, <1>5, <1>7, <1>9 DEF InWaitLoop
    <3>2. QED
      BY <3>1, OutThread
  <2>6. \A u \in Threads \ {t} : Same(u) \/ Woken(u)
    BY <2>1, <2>2, <1>1, <1>9 DEF Same
  <2>7. QED
    BY <2>3, <2>4, <2>5, <2>6, <1>3, OtherThreads DEF IndInv
<1>10. CASE /\ exists /\ ~WaiterAgain
            /\ exists' = FALSE /\ connected' = FALSE /\ events' = <<>>
            /\ gpr3' = [u \in Threads |-> IF u \in Queued(pq) THEN ECANCELED ELSE gpr3[u]]
            /\ pq' = <<>>
            /\ run' = awake(Queued(pq))
            /\ Return(t) /\ UNCHANGED stopped
  <2>1. /\ pc' \in [Threads -> WaitLabels \union {"requeue"}]
        /\ call' \in [Threads -> Calls]
        /\ pc'[t] = "idle"
        /\ \A u \in Threads \ {t} : pc'[u] = pc[u] /\ call'[u] = call[u]
    BY <1>3, <1>10, ReturnStep
  <2>2. /\ pq' \in Seq(Threads) /\ NoDuplicates(pq') /\ Queued(pq') = {}
    BY <1>10, SMT DEF NoDuplicates, Queued
  <2>3. /\ run' \in [Threads -> RunStates]
        /\ \A u \in Threads : run'[u] = IF u \in Queued(pq) /\ run[u] = "asleep"
                                        THEN "ready" ELSE run[u]
    BY <1>3, <1>10 DEF awake, Types, ThreadsTypeOK, RunStates
  <2>4. /\ gpr3' \in [Threads -> {OK, ETIMEDOUT, ECANCELED}]
        /\ \A u \in Threads : gpr3'[u] = IF u \in Queued(pq) THEN ECANCELED ELSE gpr3[u]
    BY <1>3, <1>10 DEF Types
  <2>5. Types'
    <3>1. events' \in Seq(Events) /\ Len(events') <= QueueSize
      BY <1>10, Constants, SMT
    <3>2. ThreadsTypeOK'
      BY <2>1, <2>3, <1>1, <1>3, <1>10 DEF Types, ThreadsTypeOK
    <3>3. QED
      BY <2>1, <2>2, <2>4, <3>1, <3>2, <1>1, <1>3, <1>10 DEF Types
  <2>6. QueueInv'
    BY <1>1, <1>7, <1>10 DEF QueueInv
  <2>7. Busy'
    BY <2>1, <1>1, <1>2, <1>3, BusyKeep
  <2>8. ThreadInv(t)' /\ AnswerInv(t)'
    <3>1. /\ ~InWaitLoop(t)' /\ pc'[t] # "again" /\ t \notin Queued(pq')
          /\ t \notin signal' /\ t \notin loading' /\ t \notin stopped'
          /\ run'[t] = "running"
      BY <2>1, <2>2, <2>3, <1>1, <1>2, <1>5, <1>7, <1>10 DEF InWaitLoop
    <3>2. QED
      BY <3>1, OutThread
  <2>9. ASSUME NEW u \in Threads \ {t} PROVE Same(u) \/ Woken(u)
    <3>1. CASE u \in Queued(pq)
      <4>1. pc[u] # "again"
        BY <3>1, <1>10 DEF WaiterAgain
      <4>2. gpr3'[u] = ECANCELED /\ gpr4'[u] = gpr4[u] /\ OK # ECANCELED
        BY <3>1, <2>4, <1>1 DEF OK, ECANCELED
      <4>3. Woken(u)
        BY <3>1, <4>1, <4>2, <2>1, <2>2, <2>3, <1>1, <1>10 DEF Woken
      <4>4. QED
        BY <4>3
    <3>2. CASE u \notin Queued(pq)
      BY <3>2, <2>1, <2>2, <2>3, <2>4, <1>1, <1>10 DEF Same
    <3>3. QED
      BY <3>1, <3>2
  <2>10. QED
    BY <2>5, <2>6, <2>7, <2>8, <2>9, <1>3, OtherThreads DEF IndInv
<1>11. QED
  BY <1>8, <1>9, <1>10 DEF DestroyForce, BailOut, Destroyed, Cancelled, queueVars

-----------------------------------------------------------------------------
(***************************************************************************)
(* The scheduler, the stop flags and a load.                               *)
(***************************************************************************)
LEMMA ScheduleInv ==
  ASSUME IndInv, NEW t \in Threads, Schedule(t)
  PROVE  IndInv'
<1>1. /\ run[t] = "ready" /\ loading = {}
      /\ run' = [run EXCEPT ![t] = "running"] /\ signal' = signal \union {t}
      /\ UNCHANGED <<pc, stopped, loading, exists, events, pq, port, connected, is_busy, call, gpr3, gpr4>>
  BY DEF Schedule, schedule_all, queueVars, portVars, regVars
<1>2. /\ ThreadsInv /\ ThreadInv(t) /\ AnswerInv(t) /\ Types /\ Busy /\ QueueInv
      /\ run \in [Threads -> RunStates]
  BY DEF IndInv, ThreadsInv, Types, ThreadsTypeOK
<1>3. run' \in [Threads -> RunStates] /\ run'[t] = "running"
      /\ \A u \in Threads \ {t} : run'[u] = run[u]
  BY <1>1, <1>2 DEF RunStates
<1>4. Types' /\ QueueInv'
  BY <1>1, <1>2, <1>3 DEF Types, ThreadsTypeOK, QueueInv
<1>5. Busy'
  BY <1>1, <1>2, BusyKeep
<1>6. ThreadInv(t)'
  BY <1>1, <1>2, <1>3 DEF ThreadInv, InWaitLoop
<1>7. AnswerInv(t) => AnswerInv(t)'
  BY <1>1, <1>2, <1>3 DEF AnswerInv, ThreadInv, Answered, InWaitLoop
<1>8. \A u \in Threads \ {t} : Same(u) \/ Woken(u)
  BY <1>1, <1>3 DEF Same
<1>9. QED
  BY <1>2, <1>4, <1>5, <1>6, <1>7, <1>8, OtherThreads DEF IndInv

\* A thread gets its stop flag.
LEMMA StopInv ==
  ASSUME IndInv, NEW t \in Threads, Stop(t)
  PROVE  IndInv'
<1>1. /\ Savestates /\ stopped' = stopped \union {t}
      /\ UNCHANGED <<pc, run, signal, loading, exists, events, pq, port, connected, is_busy, call, gpr3, gpr4>>
  BY DEF Stop, stop, queueVars, portVars, regVars
<1>2. ThreadsInv /\ ThreadInv(t) /\ AnswerInv(t) /\ Types /\ Busy /\ QueueInv
  BY DEF IndInv, ThreadsInv
<1>3. Types' /\ QueueInv'
  BY <1>1, <1>2 DEF Types, ThreadsTypeOK, QueueInv
<1>4. Busy'
  BY <1>1, <1>2, BusyKeep
<1>5. ThreadInv(t)'
  BY <1>1, <1>2 DEF ThreadInv, InWaitLoop
<1>6. AnswerInv(t) => AnswerInv(t)'
  BY <1>1, <1>2 DEF AnswerInv, Answered, InWaitLoop
<1>7. \A u \in Threads \ {t} : Same(u) \/ Woken(u)
  BY <1>1 DEF Same
<1>8. QED
  BY <1>2, <1>3, <1>4, <1>5, <1>6, <1>7, OtherThreads DEF IndInv

\* A load.
LEMMA LoadInv ==
  ASSUME IndInv, Load
  PROVE  IndInv'
<1>1. /\ stopped = Threads /\ \A t \in Threads : pc[t] \in {"idle", "again"}
      /\ stopped' = {} /\ loading' = {t \in Threads : pc[t] = "again" /\ run[t] = "asleep"}
      /\ run' = [t \in Threads |-> "running"] /\ signal' = {} /\ pq' = <<>>
      /\ UNCHANGED <<pc, exists, events, port, connected, is_busy, call, gpr3, gpr4>>
  BY DEF Load, load, portVars, regVars
<1>2. ThreadsInv /\ Types /\ Busy /\ QueueInv
  BY DEF IndInv
<1>3. pq' \in Seq(Threads) /\ NoDuplicates(pq') /\ Queued(pq') = {}
  BY <1>1, SMT DEF NoDuplicates, Queued
<1>4. Types'
  BY <1>1, <1>2, <1>3 DEF Types, ThreadsTypeOK, RunStates
<1>5. Busy'
  BY <1>1, <1>2 DEF Busy, Senders
<1>6. \A t \in Threads : t \in loading' => t \in Queued(pq) /\ pc[t] = "again" /\ call[t].name = "receive"
  BY <1>1, <1>2 DEF ThreadsInv, ThreadInv
<1>7. QueueInv'
  <2>1. loading' # {} => pq # <<>>
    BY <1>1, <1>6, SMT DEF Queued
  <2>2. QED
    BY <2>1, <1>1, <1>2 DEF QueueInv
<1>8. ASSUME NEW t \in Threads PROVE ThreadInv(t)' /\ AnswerInv(t)'
  <2>1. ThreadInv(t) /\ AnswerInv(t)
    BY <1>2 DEF ThreadsInv
  <2>2. ThreadInv(t)'
    BY <1>1, <1>3, <1>6 DEF ThreadInv, InWaitLoop
  <2>3. AnswerInv(t) => AnswerInv(t)'
    BY <1>1, <1>3 DEF AnswerInv, Answered, InWaitLoop
  <2>4. QED
    BY <2>1, <2>2, <2>3
<1>9. ThreadsInv'
  BY <1>8 DEF ThreadsInv
<1>10. QED
  BY <1>4, <1>5, <1>7, <1>9 DEF IndInv

-----------------------------------------------------------------------------
(***************************************************************************)
(* The theorems.                                                           *)
(***************************************************************************)
LEMMA InitInv == Init => IndInv
<1> SUFFICES ASSUME Init PROVE IndInv
  OBVIOUS
<1>1. /\ exists /\ port /\ connected /\ events = <<>> /\ pq = <<>> /\ is_busy = 0
      /\ exists \in BOOLEAN /\ port \in BOOLEAN /\ connected \in BOOLEAN
      /\ call = [t \in Threads |-> NoCall]
      /\ gpr3 = [t \in Threads |-> OK] /\ gpr4 = [t \in Threads |-> NoEvent]
      /\ pc = [t \in Threads |-> "idle"] /\ run = [t \in Threads |-> "running"]
      /\ signal = {} /\ stopped = {} /\ loading = {}
  BY DEF Init, ThreadsInit
<1>2. NoCall \in Calls
  BY CallValues
<1>3. pq \in Seq(Threads) /\ NoDuplicates(pq) /\ Queued(pq) = {}
      /\ events \in Seq(Events) /\ Len(events) <= QueueSize
  BY <1>1, Constants, SMT DEF NoDuplicates, Queued
<1>4. ThreadsTypeOK
  BY <1>1 DEF ThreadsTypeOK, RunStates
<1>5. Types
  BY <1>1, <1>2, <1>3, <1>4 DEF Types, WaitLabels
<1>6. Busy
  <2>1. Senders = {}
    BY <1>1 DEF Senders
  <2>2. QED
    BY <2>1, <1>1, FS_EmptySet DEF Busy
<1>7. QueueInv
  BY <1>1 DEF QueueInv
<1>8. ASSUME NEW t \in Threads PROVE ThreadInv(t) /\ AnswerInv(t)
  BY <1>1, <1>2, <1>3 DEF ThreadInv, AnswerInv, Answered, InWaitLoop
<1>9. QED
  BY <1>5, <1>6, <1>7, <1>8 DEF IndInv, ThreadsInv

\* Every step keeps the invariant.
LEMMA NextInv == IndInv /\ [Next]_vars => IndInv'
<1> SUFFICES ASSUME IndInv, [Next]_vars PROVE IndInv'
  OBVIOUS
<1>1. ASSUME NEW t \in Threads, Step(t) PROVE IndInv'
  BY <1>1, SendRequeuedInv, ReceiveSignalInv, ReceiveStoppedInv, ReceiveTimeoutInv,
     CheckStateInv, ReceiveRecheckInv DEF Step
<1>2. ASSUME NEW t \in Threads, Enter(t) PROVE IndInv'
  <2>1. ASSUME NEW e \in Events, Send(t, e) PROVE IndInv'
    BY <2>1, SendInv
  <2>2. ASSUME NEW timed \in Timed, ReceiveEnter(t, timed) PROVE IndInv'
    BY <2>2, ReceiveEnterInv
  <2>3. ASSUME NEW size \in TrySizes, TryReceive(t, size) PROVE IndInv'
    BY <2>3, TryReceiveInv
  <2>4. ASSUME Drain(t) \/ Destroy(t) \/ DestroyForce(t) \/ Create(t) PROVE IndInv'
    BY <2>4, DrainInv, DestroyCreateInv, DestroyForceInv
  <2>5. ASSUME Connect(t) \/ Disconnect(t) \/ PortDestroy(t) \/ PortCreate(t) PROVE IndInv'
    BY <2>5, PortInv
  <2>6. QED
    BY <1>2, <2>1, <2>2, <2>3, <2>4, <2>5 DEF Enter
<1>3. ASSUME NEW t \in Threads, Schedule(t) \/ Stop(t) PROVE IndInv'
  BY <1>3, ScheduleInv, StopInv
<1>4. ASSUME NEW e \in Events, HostSend(e) PROVE IndInv'
  BY <1>4, HostSendInv
<1>5. ASSUME UNCHANGED vars PROVE IndInv'
  <2>1. UNCHANGED <<pc, run, signal, stopped, loading, exists, events, pq, port,
                    connected, is_busy, call, gpr3, gpr4>>
    BY <1>5 DEF vars, threadVars, queueVars, portVars, regVars
  <2>2. Types' /\ QueueInv'
    BY <2>1 DEF IndInv, Types, ThreadsTypeOK, QueueInv
  <2>3. Busy'
    BY <2>1 DEF IndInv, Busy, Senders
  <2>4. \A u \in Threads : Same(u) \/ Woken(u)
    BY <2>1 DEF Same
  <2>5. QED
    BY <2>2, <2>3, <2>4, AllThreads DEF IndInv
<1>6. QED
  BY <1>1, <1>2, <1>3, <1>4, <1>5, LoadInv DEF Next

(***************************************************************************)
(* The invariant of lv2_event_queue and lv2_event_port holds in every      *)
(* state, savestates included.                                             *)
(***************************************************************************)
THEOREM Invariance == Spec => []IndInv
  BY InitInv, NextInv, PTL DEF Spec

(***************************************************************************)
(* The list of events never outgrows the size of the queue, no thread is   *)
(* in pq twice, and is_busy is the number of senders in test_stopped, so   *)
(* that it never wraps.                                                    *)
(***************************************************************************)
THEOREM TypeCorrect == Spec => []TypeOK
<1>1. IndInv => TypeOK
  BY TypesOK DEF IndInv
<1>2. QED
  BY <1>1, Invariance, PTL

(***************************************************************************)
(* A receive whose answer was given, by an event, a destruction or a stop, *)
(* is not asleep: no wakeup is lost, savestates included.                  *)
(***************************************************************************)
THEOREM Awake == Spec => []AnsweredAwake
<1>1. IndInv => AnsweredAwake
  BY DEF IndInv, ThreadsInv, ThreadInv, AnsweredAwake, Answered
<1>2. QED
  BY <1>1, Invariance, PTL

(***************************************************************************)
(* A thread that the load of a savestate waits for finds the queue, with   *)
(* no event in it, and so it sleeps again.                                 *)
(***************************************************************************)
THEOREM LoadedSleep == Spec => []LoadedThreadsSleep
<1>1. IndInv => LoadedThreadsSleep
  BY DEF IndInv, QueueInv, LoadedThreadsSleep
<1>2. QED
  BY <1>1, Invariance, PTL

(***************************************************************************)
(* sys_event_port_disconnect never takes the queue from a port whose       *)
(* sender is still in test_stopped.                                        *)
(***************************************************************************)
THEOREM BusyStaysConnected == Spec => BusyPortConnected
<1>1. ASSUME IndInv, [Next]_vars,
             Senders # {}, Senders' # {}, connected, exists'
      PROVE  connected'
  <2>1. ASSUME NEW t \in Threads, Disconnect(t) PROVE FALSE
    BY <2>1, <1>1, FS_EmptySet DEF Disconnect, MayDisconnect, IndInv, Busy
  <2>2. ASSUME NEW t \in Threads, Step(t) PROVE connected' = connected
    BY <2>2 DEF Step, SendRequeued, ReceiveSignal, ReceiveStopped, ReceiveTimeout, CheckState,
                ReceiveRecheck, portVars
  <2>3. ASSUME NEW t \in Threads, Enter(t) PROVE connected'
    <3>1. ASSUME NEW e \in Events, Send(t, e) PROVE connected' = connected
      BY <3>1 DEF Send
    <3>2. ASSUME NEW timed \in Timed, ReceiveEnter(t, timed) PROVE connected' = connected
      BY <3>2 DEF ReceiveEnter, portVars
    <3>3. ASSUME NEW size \in TrySizes, TryReceive(t, size) PROVE connected' = connected
      BY <3>3 DEF TryReceive, portVars
    <3>4. ASSUME Drain(t) \/ Create(t) PROVE connected' = connected
      BY <3>4 DEF Drain, Create, portVars
    <3>5. ASSUME Destroy(t) PROVE FALSE
      BY <3>5, <1>1 DEF Destroy, Destroyed
    <3>6. ASSUME DestroyForce(t) PROVE connected' = connected
      BY <3>6, <1>1 DEF DestroyForce, Destroyed, BailOut
    <3>7. ASSUME Connect(t) \/ PortDestroy(t) \/ PortCreate(t) PROVE connected'
      BY <3>7, <1>1 DEF Connect, PortDestroy, PortCreate
    <3>8. QED
      BY <2>1, <2>3, <3>1, <3>2, <3>3, <3>4, <3>5, <3>6, <3>7, <1>1 DEF Enter
  <2>4. ASSUME NEW t \in Threads, Schedule(t) \/ Stop(t) PROVE connected' = connected
    BY <2>4 DEF Schedule, Stop, portVars
  <2>5. ASSUME NEW e \in Events, HostSend(e) PROVE connected' = connected
    BY <2>5 DEF HostSend, portVars
  <2>6. ASSUME Load PROVE connected' = connected
    BY <2>6 DEF Load, portVars
  <2>7. ASSUME UNCHANGED vars PROVE connected' = connected
    BY <2>7 DEF vars, portVars
  <2>8. QED
    BY <2>2, <2>3, <2>4, <2>5, <2>6, <2>7, <1>1 DEF Next
<1>2. IndInv /\ [Next]_vars =>
        [Senders # {} /\ Senders' # {} /\ connected /\ exists' => connected']_vars
  BY <1>1
<1>3. QED
  BY <1>2, Invariance, PTL DEF Spec, BusyPortConnected

(***************************************************************************)
(* An event in the list while a thread waits does not happen, and a waiter *)
(* in pq has been given nothing and waits, or is being stopped.            *)
(***************************************************************************)
THEOREM IdleEvent == Spec => []NoIdleEvent
<1>1. IndInv => NoIdleEvent
  <2> SUFFICES ASSUME IndInv PROVE NoIdleEvent
    OBVIOUS
  <2>1. Queued(pq) \subseteq Threads
    BY SMT DEF IndInv, Types, Queued
  <2>2. QED
    BY <2>1 DEF IndInv, QueueInv, ThreadsInv, ThreadInv, AnswerInv, NoIdleEvent
<1>2. QED
  BY <1>1, Invariance, PTL

-----------------------------------------------------------------------------
(***************************************************************************)
(* What a step does to the registers of the threads that wait.             *)
(***************************************************************************)
AnswerKept(u) ==
  /\ Answered(u) => gpr3'[u] = gpr3[u] /\ gpr4'[u] = gpr4[u]
  /\ InWaitLoop(u) /\ pc'[u] = "idle" /\ ~EarlyReturn(u) =>
       (gpr3'[u] = OK <=> gpr4'[u] # NoEvent)

\* The other threads stay where they are, and those that are not queued keep
\* their registers.
OthersAnswers(t) ==
  \A u \in Threads \ {t} :
    /\ pc'[u] = pc[u]
    /\ u \notin Queued(pq) => gpr3'[u] = gpr3[u] /\ gpr4'[u] = gpr4[u]

\* When one thread's registers change, the others keep their answers.
LEMMA OthersKept ==
  ASSUME NEW t \in Threads, OthersAnswers(t), AnswerKept(t)
  PROVE  \A u \in Threads : AnswerKept(u)
  BY DEF OthersAnswers, AnswerKept, Answered, InWaitLoop

\* The steps of the wait loop.
LEMMA StepAnswers ==
  ASSUME IndInv, NEW t \in Threads, Step(t)
  PROVE  \A u \in Threads : AnswerKept(u)
<1>1. /\ ThreadInv(t) /\ AnswerInv(t)
      /\ pc \in [Threads -> WaitLabels \union {"requeue"}]
      /\ gpr3 \in [Threads -> {OK, ETIMEDOUT, ECANCELED}]
  BY DEF IndInv, ThreadsInv, Types
<1>2. CASE SendRequeued(t) \/ ReceiveTimeout(t) \/ CheckState(t)
  <2>1. pc[t] \in {"requeue", "wait", "resched"} /\ UNCHANGED <<gpr3, gpr4>>
    BY <1>2 DEF SendRequeued, ReceiveTimeout, wait_timeout, CheckState, cpu_sleep, check_state, regVars
  <2>2. \/ pc' = pc
        \/ \E l \in {"idle", "again", "wait", "resched", "recheck"} :
             pc' = [pc EXCEPT ![t] = l] /\ (l = "idle" => pc[t] = "requeue")
    <3>1. CASE SendRequeued(t)
      BY <3>1 DEF SendRequeued, Continue, Return, Goto
    <3>2. CASE ReceiveTimeout(t)
      BY <3>2 DEF ReceiveTimeout, wait_timeout, Goto
    <3>3. CASE CheckState(t)
      BY <3>3 DEF CheckState, cpu_sleep, check_state, Goto
    <3>4. QED
      BY <1>2, <3>1, <3>2, <3>3
  <2>3. OthersAnswers(t)
    BY <2>1, <2>2, <1>1 DEF OthersAnswers
  <2>4. AnswerKept(t)
    BY <2>1, <2>2, <1>1 DEF AnswerKept, InWaitLoop
  <2>5. QED
    BY <2>3, <2>4, OthersKept
<1>3. CASE ReceiveSignal(t)
  <2>1. pc[t] = "wait" /\ t \in signal /\ pc' = [pc EXCEPT ![t] = "idle"] /\ UNCHANGED <<gpr3, gpr4>>
    BY <1>3 DEF ReceiveSignal, WaitEnds, Return, Goto, regVars
  <2>2. Answered(t) \/ EarlyReturn(t)
    BY <2>1, <1>1 DEF Answered, InWaitLoop, ThreadInv, EarlyReturn
  <2>3. AnswerKept(t)
    BY <2>1, <2>2, <1>1 DEF AnswerKept, AnswerInv
  <2>4. OthersAnswers(t)
    BY <2>1, <1>1 DEF OthersAnswers
  <2>5. QED
    BY <2>3, <2>4, OthersKept
<1>4. CASE ReceiveStopped(t)
  <2>1. /\ pc[t] = "wait" /\ UNCHANGED <<gpr3, gpr4>>
        /\ pc' = [pc EXCEPT ![t] = IF t \in Queued(pq) THEN "again" ELSE "idle"]
    BY <1>4 DEF ReceiveStopped, Return, Continue, Goto, regVars
  <2>2. t \notin Queued(pq) => Answered(t)
    BY <2>1 DEF Answered, InWaitLoop
  <2>3. AnswerKept(t)
    BY <2>1, <2>2, <1>1 DEF AnswerKept, AnswerInv
  <2>4. OthersAnswers(t)
    BY <2>1, <1>1 DEF OthersAnswers
  <2>5. QED
    BY <2>3, <2>4, OthersKept
<1>5. CASE ReceiveRecheck(t)
  <2>1. /\ pc[t] = "recheck" /\ UNCHANGED gpr4
        /\ pc' = [pc EXCEPT ![t] = "idle"]
        /\ gpr3' = [gpr3 EXCEPT ![t] = IF t \in Queued(pq) THEN ETIMEDOUT ELSE gpr3[t]]
    BY <1>5 DEF ReceiveRecheck, timedOut, Return, Goto
  <2>2. t \notin Queued(pq) => Answered(t)
    BY <2>1 DEF Answered, InWaitLoop
  <2>3. OK # ETIMEDOUT
    BY DEF OK, ETIMEDOUT
  <2>4. AnswerKept(t)
    BY <2>1, <2>2, <2>3, <1>1 DEF AnswerKept, AnswerInv, Answered
  <2>5. OthersAnswers(t)
    BY <2>1, <1>1 DEF OthersAnswers
  <2>6. QED
    BY <2>4, <2>5, OthersKept
<1>6. QED
  BY <1>2, <1>3, <1>4, <1>5 DEF Step

\* The calls that a thread enters.
LEMMA EnterAnswers ==
  ASSUME IndInv, NEW t \in Threads, Enter(t)
  PROVE  \A u \in Threads : AnswerKept(u)
<1>1. /\ pc \in [Threads -> WaitLabels \union {"requeue"}]
      /\ gpr3 \in [Threads -> {OK, ETIMEDOUT, ECANCELED}]
      /\ gpr4 \in [Threads -> Events \union {NoEvent}]
      /\ pq \in Seq(Threads)
  BY DEF IndInv, Types
<1>2. ASSUME pc[t] \in {"idle", "again"}, OthersAnswers(t)
      PROVE  \A u \in Threads : AnswerKept(u)
  <2>1. AnswerKept(t)
    BY <1>2 DEF AnswerKept, Answered, InWaitLoop
  <2>2. QED
    BY <2>1, <1>2, OthersKept
<1>3. ASSUME NEW e \in Events, Send(t, e) PROVE \A u \in Threads : AnswerKept(u)
  <2>1. pc[t] \in {"idle", "again"} /\ UNCHANGED gpr3
    BY <1>3 DEF Send, Enters
  <2>2. \E l \in {"idle", "again", "requeue"} : pc' = [pc EXCEPT ![t] = l]
    BY <1>3 DEF Send, Return, Goto
  <2>3. UNCHANGED gpr4 \/ (pq # <<>> /\ gpr4' = [gpr4 EXCEPT ![Receiver] = e])
    BY <1>3 DEF Send, Deliver, NobodyWaits
  <2>4. pq # <<>> => Receiver \in Queued(pq)
    BY <1>1, ScheduleInQueue, SMT DEF Receiver, Queued
  <2>5. OthersAnswers(t)
    BY <2>1, <2>2, <2>3, <2>4, <1>1 DEF OthersAnswers
  <2>6. QED
    BY <2>1, <2>5, <1>2
<1>4. ASSUME NEW timed \in Timed, ReceiveEnter(t, timed) PROVE \A u \in Threads : AnswerKept(u)
  <2>1. /\ pc[t] \in {"idle", "again"}
        /\ \E l \in {"idle", "wait"} : pc' = [pc EXCEPT ![t] = l]
        /\ \E r : gpr3' = [gpr3 EXCEPT ![t] = r]
        /\ \E e : gpr4' = [gpr4 EXCEPT ![t] = e]
    BY <1>4 DEF ReceiveEnter, Enters, Return, Goto, Forget
  <2>2. OthersAnswers(t)
    BY <2>1, <1>1 DEF OthersAnswers
  <2>3. QED
    BY <2>1, <2>2, <1>2
<1>5. ASSUME \/ \E size \in TrySizes : TryReceive(t, size)
             \/ Drain(t) \/ Destroy(t) \/ Create(t)
      PROVE  \A u \in Threads : AnswerKept(u)
  <2>1. pc[t] = "idle" /\ UNCHANGED pc /\ Forget(t)
    BY <1>5 DEF TryReceive, Drain, Destroy, Create, Idle
  <2>2. OthersAnswers(t)
    BY <2>1, <1>1 DEF OthersAnswers, Forget
  <2>3. QED
    BY <2>1, <2>2, <1>2
<1>6. ASSUME DestroyForce(t) PROVE \A u \in Threads : AnswerKept(u)
  <2>1. /\ pc[t] \in {"idle", "again"} /\ UNCHANGED gpr4
        /\ \E l \in {"idle", "again"} : pc' = [pc EXCEPT ![t] = l]
    BY <1>6 DEF DestroyForce, Enters, Return, Goto
  <2>2. \/ UNCHANGED gpr3
        \/ gpr3' = [u \in Threads |-> IF u \in Queued(pq) THEN ECANCELED ELSE gpr3[u]]
    BY <1>6 DEF DestroyForce
  <2>3. OthersAnswers(t)
    BY <2>1, <2>2, <1>1 DEF OthersAnswers
  <2>4. QED
    BY <2>1, <2>3, <1>2
<1>7. ASSUME Connect(t) \/ Disconnect(t) \/ PortDestroy(t) \/ PortCreate(t)
      PROVE  \A u \in Threads : AnswerKept(u)
  <2>1. pc[t] = "idle" /\ UNCHANGED <<pc, gpr3, gpr4>>
    BY <1>7 DEF Connect, Disconnect, PortDestroy, PortCreate, Idle, regVars
  <2>2. OthersAnswers(t)
    BY <2>1 DEF OthersAnswers
  <2>3. QED
    BY <2>1, <2>2, <1>2
<1>8. QED
  BY <1>3, <1>4, <1>5, <1>6, <1>7 DEF Enter

(***************************************************************************)
(* An event that lv2_event_queue::send put in the registers of a waiting   *)
(* thread, or CELL_ECANCELED from a forced destruction, is what the guest  *)
(* gets, and a receive that waited returns CELL_OK exactly when it has an  *)
(* event, but for a thread that is stopped on its way out of a timeout.    *)
(***************************************************************************)
THEOREM AnswerReaches == Spec => AnswerReachesGuest
<1>1. ASSUME IndInv, Next PROVE \A u \in Threads : AnswerKept(u)
  <2>1. ASSUME NEW t \in Threads, Schedule(t) \/ Stop(t) PROVE UNCHANGED <<pc, gpr3, gpr4>>
    BY <2>1 DEF Schedule, schedule_all, Stop, stop, regVars
  <2>2. ASSUME Load PROVE UNCHANGED <<pc, gpr3, gpr4>>
    BY <2>2 DEF Load, load, regVars
  <2>3. ASSUME UNCHANGED <<pc, gpr3, gpr4>> PROVE \A u \in Threads : AnswerKept(u)
    BY <2>3 DEF AnswerKept, InWaitLoop
  <2>4. ASSUME NEW e \in Events, HostSend(e) PROVE \A u \in Threads : AnswerKept(u)
    <3>1. /\ pq \in Seq(Threads) /\ gpr4 \in [Threads -> Events \union {NoEvent}]
      BY <1>1 DEF IndInv, Types
    <3>2. /\ UNCHANGED <<pc, gpr3>>
          /\ UNCHANGED gpr4 \/ (pq # <<>> /\ gpr4' = [gpr4 EXCEPT ![Receiver] = e])
      BY <2>4 DEF HostSend, Deliver, NobodyWaits
    <3>3. pq # <<>> => Receiver \in Queued(pq)
      BY <3>1, ScheduleInQueue, SMT DEF Receiver, Queued
    <3>4. QED
      BY <3>1, <3>2, <3>3 DEF AnswerKept, Answered, InWaitLoop
  <2>5. QED
    BY <1>1, <2>1, <2>2, <2>3, <2>4, StepAnswers, EnterAnswers DEF Next
<1>2. IndInv /\ [Next]_vars =>
        [\A t \in Threads :
           /\ Answered(t) => gpr3'[t] = gpr3[t] /\ gpr4'[t] = gpr4[t]
           /\ InWaitLoop(t) /\ pc'[t] = "idle" /\ ~EarlyReturn(t) =>
                (gpr3'[t] = OK <=> gpr4'[t] # NoEvent)]_vars
  BY <1>1 DEF AnswerKept
<1>3. QED
  BY <1>2, Invariance, PTL DEF Spec, AnswerReachesGuest

=============================================================================
