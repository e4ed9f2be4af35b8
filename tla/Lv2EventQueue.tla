--------------------------- MODULE Lv2EventQueue ----------------------------
(***************************************************************************)
(* The LV2 event queue and an event port that threads send to it through,  *)
(* kernel/cellos/src/sys_event.cpp, for a queue of type SYS_PPU_QUEUE.     *)
(*                                                                         *)
(* An event goes to the registers gpr[4..7] of a waiting thread, or to the *)
(* list of events if none waits.  Every operation is one critical section  *)
(* of the queue's mutex, entered under the lock of the id manager, so it   *)
(* is one step; the exception is the end of sys_event_port_send.  A sender *)
(* that has awoken a more urgent thread counts itself in is_busy, waits    *)
(* until it is scheduled again, and only then returns: meanwhile the port  *)
(* must not be disconnected.                                               *)
(*                                                                         *)
(* A port keeps its pointer to a queue that was destroyed; lv2_obj::check  *)
(* tells the two cases apart, and connected is its answer.  Calls that     *)
(* only return an error have no action unless they end a repeated call.    *)
(***************************************************************************)
EXTENDS Lv2Obj, FiniteSets

CONSTANTS QueueSize,  \* lv2_event_queue::size
          Events,     \* what can be sent
          NoEvent,    \* registers without an event
          Timed,      \* whether receives have a timeout: both, or one of them
          TrySizes    \* how many events tryreceive asks for

ASSUME EventQueueAssumption ==
  /\ QueueSize \in 1 .. 127
  /\ NoEvent \notin Events
  /\ Timed \subseteq BOOLEAN
  /\ TrySizes \subseteq Nat

VARIABLES exists,     \* the queue is in the id manager
          events,     \* lv2_event_queue::events
          pq,         \* lv2_event_queue::pq
          port,       \* the port is in the id manager
          connected,  \* lv2_obj::check(port.queue)
          is_busy,    \* lv2_event_port::is_busy
          call,       \* the system call and its arguments
          gpr3,       \* the result of the latest receive
          gpr4        \* the event that the thread was given

queueVars == <<exists, events, pq>>
portVars == <<port, connected, is_busy>>
threadVars == <<run, signal, stopped, loading>>
regVars == <<gpr3, gpr4>>
vars == <<queueVars, portVars, threadVars, pc, call, regVars>>

OK == "CELL_OK"
ETIMEDOUT == "CELL_ETIMEDOUT"
ECANCELED == "CELL_ECANCELED"

\* delivered is for SentOnce only: the call has got its event into the queue.
Receive(timed) == [name |-> "receive", timed |-> timed, event |-> NoEvent, delivered |-> FALSE]
PortSend(e, d) == [name |-> "send", timed |-> FALSE, event |-> e, delivered |-> d]
ForceDestroy == [name |-> "destroy", timed |-> FALSE, event |-> NoEvent, delivered |-> FALSE]
NoCall == [name |-> "none", timed |-> FALSE, event |-> NoEvent, delivered |-> FALSE]

Senders == {t \in Threads : pc[t] = "requeue"}

(***************************************************************************)
(* Type invariant.  The list never grows beyond the size of the queue, a   *)
(* thread waits in it once, and is_busy, which is unsigned, is the number  *)
(* of senders that wait to be scheduled again.                             *)
(***************************************************************************)
TypeOK ==
  /\ ThreadsTypeOK
  /\ exists \in BOOLEAN /\ port \in BOOLEAN /\ connected \in BOOLEAN
  /\ events \in Seq(Events) /\ Len(events) <= QueueSize
  /\ pq \in Seq(Threads) /\ NoDuplicates(pq)
  /\ is_busy = Cardinality(Senders)
  /\ pc \in [Threads -> WaitLabels \union {"requeue"}]
  /\ call \in [Threads -> [name : {"none", "receive", "send", "destroy"}, timed : BOOLEAN,
                           event : Events \union {NoEvent}, delivered : BOOLEAN]]
  /\ gpr3 \in [Threads -> {OK, ETIMEDOUT, ECANCELED}]
  /\ gpr4 \in [Threads -> Events \union {NoEvent}]

Init ==
  /\ ThreadsInit
  /\ exists = TRUE /\ port = TRUE /\ connected = TRUE
  /\ events = <<>>
  /\ pq = <<>>
  /\ is_busy = 0
  /\ call = [t \in Threads |-> NoCall]
  /\ gpr3 = [t \in Threads |-> OK]
  /\ gpr4 = [t \in Threads |-> NoEvent]

-----------------------------------------------------------------------------
Return(t) == Goto(t, "idle") /\ call' = [call EXCEPT ![t] = NoCall]

Continue(t, label) == Goto(t, label) /\ UNCHANGED call

\* The guest goes on and forgets the registers of its previous receive.
Forget(t) ==
  /\ gpr3' = [gpr3 EXCEPT ![t] = OK]
  /\ gpr4' = [gpr4 EXCEPT ![t] = NoEvent]

Enters(t, c) == CanEnter(t) /\ (pc[t] = "idle" \/ (pc[t] = "again" /\ call[t] = c))

-----------------------------------------------------------------------------
\* Mutant: one event too many.
RoomOffByOne == Len(events) <= QueueSize

\* There is room in the list of events.
Room == Len(events) < QueueSize

\* The waiter that an event is for.
Receiver == pq[schedule(pq)]

\* Nobody waits for the event.
NobodyWaits == pq = <<>>

\* send, the case of a thread that waits and has not left for a savestate
Deliver(e) ==
  LET u == Receiver
  IN /\ gpr4' = [gpr4 EXCEPT ![u] = e]
     /\ pq' = Unlink(pq, schedule(pq))
     /\ run' = awake({u})
     /\ UNCHANGED events

\* The receiver is the more urgent one, so the sender may have to wait.
Preempts(t) == Prio[Receiver] < Prio[t]

\* sys_event_port_send, the callback, with lv2_event_queue::send in it
Send(t, e) ==
  \E d \in BOOLEAN :
  /\ Enters(t, PortSend(e, d))
  /\ pc[t] = "idle" => ~d
  /\ \/ /\ ~port \/ ~connected \/ (NobodyWaits /\ ~Room)  \* an error
        /\ Return(t)
        /\ UNCHANGED <<events, pq, is_busy, gpr4, run, stopped>>
     \/ /\ port /\ connected /\ NobodyWaits /\ Room
        /\ events' = Append(events, e)
        /\ Return(t)
        /\ UNCHANGED <<pq, is_busy, gpr4, run, stopped>>
     \/ /\ port /\ connected /\ ~NobodyWaits /\ pc[Receiver] = "again"
        /\ stopped' = stopped \union {t}
        /\ Goto(t, "again")
        /\ call' = [call EXCEPT ![t] = PortSend(e, d)]
        /\ UNCHANGED <<events, pq, is_busy, gpr4, run>>
     \/ /\ port /\ connected /\ ~NobodyWaits /\ pc[Receiver] # "again"
        /\ Deliver(e)
        /\ IF Preempts(t)
           THEN /\ is_busy' = is_busy + 1
                /\ Goto(t, "requeue")
                /\ call' = [call EXCEPT ![t] = PortSend(e, TRUE)]
           ELSE Return(t) /\ UNCHANGED is_busy
        /\ UNCHANGED stopped
  /\ UNCHANGED <<exists, port, connected, gpr3, signal, loading>>

(***************************************************************************)
(* The end of sys_event_port_send: test_stopped has returned.  When it     *)
(* repeats the call after a load, loaded_from_savestate is not set: it is  *)
(* set only while the calls of threads that were asleep are repeated, and  *)
(* a sender is not asleep.                                                 *)
(***************************************************************************)
SendRequeued(t) ==
  /\ pc[t] = "requeue"
  /\ is_busy' = is_busy - 1
  /\ IF t \in stopped THEN Continue(t, "again") ELSE Return(t)
  /\ UNCHANGED <<queueVars, port, connected, threadVars, regVars>>

(***************************************************************************)
(* send by a host thread, such as the timer thread: nobody repeats it, and *)
(* an event for a thread that has left for a savestate is ignored.  Host   *)
(* threads that send do so while the emulation runs.                       *)
(***************************************************************************)
HostSend(e) ==
  /\ exists /\ loading = {}
  /\ \/ /\ NobodyWaits /\ Room
        /\ events' = Append(events, e)
        /\ UNCHANGED <<pq, gpr4, run>>
     \/ ~NobodyWaits /\ pc[Receiver] # "again" /\ Deliver(e)
  /\ UNCHANGED <<exists, portVars, pc, call, gpr3, signal, stopped, loading>>

-----------------------------------------------------------------------------
\* Mutant: receive always queues.
NothingToReceiveNow == TRUE

\* There is no event to receive.
NothingToReceive == events = <<>>

\* sys_event_queue_receive: queue and sleep, or take the oldest event
ReceiveEnter(t, timed) ==
  /\ exists
  /\ Enters(t, Receive(timed))
  /\ \/ /\ NothingToReceive
        /\ run' = sleep(t)
        /\ loading' = slept(t)
        /\ pq' = emplace(pq, t)
        /\ Forget(t)
        /\ Goto(t, "wait")
        /\ call' = [call EXCEPT ![t] = Receive(timed)]
        /\ UNCHANGED events
     \/ /\ ~NothingToReceive
        /\ events' = Tail(events)
        /\ gpr3' = [gpr3 EXCEPT ![t] = OK]
        /\ gpr4' = [gpr4 EXCEPT ![t] = Head(events)]
        /\ Return(t)
        /\ UNCHANGED <<run, loading, pq>>
  /\ UNCHANGED <<exists, portVars, signal, stopped>>

\* cpu_flag::signal in the wait loop: the registers hold the answer
ReceiveSignal(t) == WaitEnds(t) /\ Return(t) /\ UNCHANGED <<queueVars, portVars, regVars>>

\* A stop flag: a thread still queued waits again after the load, any other
\* has its answer.
ReceiveStopped(t) ==
  /\ pc[t] = "wait"
  /\ t \in stopped
  /\ IF t \in Queued(pq) THEN Continue(t, "again") ELSE Return(t)
  /\ UNCHANGED <<queueVars, portVars, threadVars, regVars>>

ReceiveTimeout(t) ==
  /\ call[t].timed
  /\ wait_timeout(t)
  /\ UNCHANGED <<queueVars, portVars, call, regVars>>

CheckState(t) ==
  /\ cpu_sleep(t) \/ check_state(t)
  /\ UNCHANGED <<queueVars, portVars, call, regVars>>

\* Mutant: it is too late, whatever the queue says.
timedOutAlways(t) == ETIMEDOUT

\* The result after a timeout: unqueue tells whether the thread was still
\* queued.
timedOut(t) == IF t \in Queued(pq) THEN ETIMEDOUT ELSE gpr3[t]

ReceiveRecheck(t) ==
  /\ pc[t] = "recheck"
  /\ gpr3' = [gpr3 EXCEPT ![t] = timedOut(t)]
  /\ pq' = IF t \in Queued(pq) THEN unqueue(pq, t) ELSE pq
  /\ Return(t)
  /\ UNCHANGED <<exists, events, portVars, threadVars, gpr4>>

\* sys_event_queue_tryreceive: the events it takes go to an array of the guest
TryReceive(t, size) ==
  /\ exists /\ Idle(t)
  /\ events' = SubSeq(events, size + 1, Len(events))
  /\ Forget(t)
  /\ UNCHANGED <<exists, pq, portVars, threadVars, pc, call>>

\* sys_event_queue_drain
Drain(t) ==
  /\ exists /\ Idle(t)
  /\ events' = <<>>
  /\ Forget(t)
  /\ UNCHANGED <<exists, pq, portVars, threadVars, pc, call>>

-----------------------------------------------------------------------------
\* Mutant: the loop over the waiters misses one of them.
CancelledButOne == Queued(SubSeq(pq, 2, Len(pq)))

\* The threads that a forced destruction awakes.
Cancelled == Queued(pq)

\* A waiter has left for a savestate.
WaiterAgain == \E u \in Queued(pq) : pc[u] = "again"

\* Mutant: the queue is destroyed before the waiters are looked at.
BailOutLate == exists' = FALSE /\ connected' = FALSE /\ UNCHANGED <<events, pq>>

\* "Bail on an again-flagged waiter BEFORE destroying state"
BailOut == UNCHANGED <<queueVars, connected>>

\* The port's queue is no longer there.
Destroyed ==
  /\ exists' = FALSE
  /\ connected' = FALSE
  /\ events' = <<>>

\* sys_event_queue_destroy without SYS_EVENT_QUEUE_DESTROY_FORCE, not with
\* waiters
Destroy(t) ==
  /\ exists /\ Idle(t)
  /\ pq = <<>>
  /\ Destroyed
  /\ Forget(t)
  /\ UNCHANGED <<pq, port, is_busy, threadVars, pc, call>>

\* With SYS_EVENT_QUEUE_DESTROY_FORCE the waiters get CELL_ECANCELED.
DestroyForce(t) ==
  /\ Enters(t, ForceDestroy)
  /\ \/ /\ ~exists                                        \* CELL_ESRCH
        /\ Return(t)
        /\ UNCHANGED <<queueVars, connected, gpr3, run, stopped>>
     \/ /\ exists /\ WaiterAgain
        /\ Goto(t, "again")
        /\ call' = [call EXCEPT ![t] = ForceDestroy]
        /\ stopped' = stopped \union {t}
        /\ BailOut
        /\ UNCHANGED <<gpr3, run>>
     \/ /\ exists /\ ~WaiterAgain
        /\ Destroyed
        /\ gpr3' = [u \in Threads |-> IF u \in Queued(pq) THEN ECANCELED ELSE gpr3[u]]
        /\ pq' = <<>>
        /\ run' = awake(Cancelled)
        /\ Return(t)
        /\ UNCHANGED stopped
  /\ UNCHANGED <<port, is_busy, gpr4, signal, loading>>

\* sys_event_queue_create, once no thread refers to the previous queue
Create(t) ==
  /\ ~exists /\ Idle(t)
  /\ \A u \in Threads : ~InWaitLoop(u)
  /\ exists' = TRUE
  /\ Forget(t)
  /\ UNCHANGED <<events, pq, portVars, threadVars, pc, call>>

\* sys_event_port_connect_local and sys_event_port_connect_ipc
Connect(t) ==
  /\ exists /\ port /\ Idle(t)
  /\ ~connected
  /\ connected' = TRUE
  /\ UNCHANGED <<queueVars, port, is_busy, threadVars, pc, call, regVars>>

\* Mutant: the port is disconnected under a sender.
MayDisconnectBusy == TRUE

MayDisconnect == is_busy = 0

\* sys_event_port_disconnect
Disconnect(t) ==
  /\ port /\ Idle(t)
  /\ connected
  /\ MayDisconnect
  /\ connected' = FALSE
  /\ UNCHANGED <<queueVars, port, is_busy, threadVars, pc, call, regVars>>

\* sys_event_port_destroy, not while the port is connected
PortDestroy(t) ==
  /\ port /\ Idle(t)
  /\ ~connected
  /\ port' = FALSE
  /\ UNCHANGED <<queueVars, connected, is_busy, threadVars, pc, call, regVars>>

\* sys_event_port_create, once no sender refers to the previous port
PortCreate(t) ==
  /\ ~port /\ Idle(t)
  /\ Senders = {}
  /\ port' = TRUE
  /\ UNCHANGED <<queueVars, connected, is_busy, threadVars, pc, call, regVars>>

-----------------------------------------------------------------------------
Schedule(t) ==
  schedule_all(t) /\ UNCHANGED <<queueVars, portVars, call, regVars>>

Stop(t) == stop(t) /\ UNCHANGED <<queueVars, portVars, call, regVars>>

\* lv2_event_queue::save, lv2_event_port::save and the constructors that load
\* them: the events come back, the waiters queue again.
Load ==
  /\ load
  /\ pq' = <<>>
  /\ UNCHANGED <<exists, events, portVars, call, regVars>>

-----------------------------------------------------------------------------
\* The steps of a thread in a system call.
Step(t) ==
  \/ SendRequeued(t) \/ ReceiveSignal(t) \/ ReceiveStopped(t)
  \/ ReceiveTimeout(t) \/ CheckState(t) \/ ReceiveRecheck(t)

Enter(t) ==
  \/ \E e \in Events : Send(t, e)
  \/ \E timed \in Timed : ReceiveEnter(t, timed)
  \/ \E size \in TrySizes : TryReceive(t, size)
  \/ Drain(t) \/ Destroy(t) \/ DestroyForce(t) \/ Create(t)
  \/ Connect(t) \/ Disconnect(t) \/ PortDestroy(t) \/ PortCreate(t)

Next ==
  \/ \E t \in Threads : Step(t) \/ Enter(t) \/ Schedule(t) \/ Stop(t)
  \/ \E e \in Events : HostSend(e)
  \/ Load

Spec == Init /\ [][Next]_vars

-----------------------------------------------------------------------------
(***************************************************************************)
(* Nobody waits for an event that is there: the list and the queue of      *)
(* waiters are never both in use.  A thread in the queue has no event yet  *)
(* and is one that waits, so that no event is given to a thread that has   *)
(* left; only a thread that is being stopped for a savestate may have left *)
(* (EarlyReturn).                                                          *)
(***************************************************************************)
NoIdleEvent ==
  /\ events = <<>> \/ pq = <<>>
  /\ \A t \in Queued(pq) :
       gpr4[t] = NoEvent /\ (call[t].name = "receive" \/ t \in stopped)

\* A receive that has its answer and does not know yet.
Answered(t) == InWaitLoop(t) /\ t \notin Queued(pq)

\* A receive that has an answer is awake, or will be.
AnsweredAwake == \A t \in Threads : Answered(t) => run[t] # "asleep"

(***************************************************************************)
(* The one case in which sys_event_queue_receive returns CELL_OK without   *)
(* an event, against the comment before its wait loop (sys_event.cpp:475): *)
(* the time of the receive is over and the thread has awoken itself in     *)
(* check_state; it is stopped for a savestate, goes back to the top of the *)
(* loop and is scheduled.  It takes cpu_flag::signal, which that sets, for *)
(* an answer and leaves, still in the queue.                               *)
(***************************************************************************)
EarlyReturn(t) == t \in stopped /\ t \in signal /\ t \in Queued(pq)

(***************************************************************************)
(* An event that was put in the registers of a waiting thread reaches the  *)
(* guest with CELL_OK, and a cancelled thread reports it, whatever timeout,*)
(* stop flag, second event or destruction comes before the thread looks;   *)
(* and a receive that waited reports CELL_OK if and only if it has an      *)
(* event, but for EarlyReturn, where it has none.                          *)
(***************************************************************************)
AnswerReachesGuest ==
  [][\A t \in Threads :
       /\ Answered(t) => gpr3'[t] = gpr3[t] /\ gpr4'[t] = gpr4[t]
       /\ InWaitLoop(t) /\ pc'[t] = "idle" /\ ~EarlyReturn(t) =>
            (gpr3'[t] = OK <=> gpr4'[t] # NoEvent)]_vars

(***************************************************************************)
(* "Block event port disconnection for the time being of sending events":  *)
(* while a sender waits to be scheduled again its port stays connected, or *)
(* the queue itself has been destroyed.                                    *)
(***************************************************************************)
BusyPortConnected ==
  [][Senders # {} /\ Senders' # {} /\ connected /\ exists' => connected']_vars

(***************************************************************************)
(* After a load the threads that were asleep find the queue there and no   *)
(* event in it, so that each of them sleeps again and the scheduler can    *)
(* start (g_to_sleep empties).                                             *)
(***************************************************************************)
LoadedThreadsSleep == loading # {} => exists /\ events = <<>>

(***************************************************************************)
(* sys_event.cpp:736, "Wait again on savestate load": a sender that was    *)
(* stopped while it waited to be scheduled again does not send its event a *)
(* second time when its call is repeated.                                  *)
(***************************************************************************)
SentOnce ==
  [][\A t \in Threads :
       pc[t] = "again" /\ call[t].delivered /\ pc'[t] # "again"
         => events' = events /\ pq' = pq]_vars

=============================================================================
