--------------------------- MODULE PosixMailbox ---------------------------
(***************************************************************************)
(* The mailbox and the thread of one actor of the POSIX port               *)
(* (src/src/port/posix/posix_ipc_port.c): the ring of message slots with   *)
(* head, tail and count, the running flag, and ipc_thread_fn's loop over   *)
(* the mutex and the condition variable.                                   *)
(*                                                                         *)
(* Every critical section of p->lock is one action.  Senders, stoppers and *)
(* supervisors are any threads of the process, the actor's own handler     *)
(* included, so Send, Stop and Restart are possible in every state.        *)
(* Stop and Restart begin with cancel_delayed_send, whose own lock and     *)
(* helper thread are the business of module DelayedSend.                   *)
(***************************************************************************)
EXTENDS Integers, Sequences, FiniteSets

CONSTANTS Msg,       \* messages, told apart by identity
          NoMsg,     \* an unused slot
          Capacity   \* cfg.queue_depth

ASSUME CapacityAssumption == Capacity \in Nat \ {0}
ASSUME NoMsgAssumption == NoMsg \notin Msg

VARIABLES ring,      \* p->ring, one message per slot
          head,      \* p->head
          tail,      \* p->tail
          count,     \* p->count
          running,   \* p->running
          recv,      \* p->recv_slot, the message the handler works on
          pc         \* where ipc_thread_fn is

vars == <<ring, head, tail, count, running, recv, pc>>

Index == 0 .. Capacity - 1

(* "start"    created, p->lock not yet taken                               *)
(* "waiting"  blocked in pthread_cond_wait                                 *)
(* "woken"    left the wait, p->lock not yet re-acquired                   *)
(* "handling" in self->handler, p->lock released                           *)
(* "exited"   returned from ipc_thread_fn                                  *)
ThreadState == {"start", "waiting", "woken", "handling", "exited"}

TypeOK == /\ ring \in [Index -> Msg \cup {NoMsg}]
          /\ head \in Index
          /\ tail \in Index
          /\ count \in 0 .. Capacity
          /\ running \in BOOLEAN
          /\ recv \in Msg \cup {NoMsg}
          /\ pc \in ThreadState

\* ipc_port_actor_init has succeeded: the ring is empty, the thread is created.
Init == /\ ring = [i \in Index |-> NoMsg]
        /\ head = 0
        /\ tail = 0
        /\ count = 0
        /\ running = TRUE
        /\ recv = NoMsg
        /\ pc = "start"

-----------------------------------------------------------------------------
(* The port's entry points *)

\* The messages in the ring, oldest first.
Queued == [i \in 1 .. count |-> ring[(head + i - 1) % Capacity]]

\* A message's identity is not in use while it is in the ring, so that the
\* properties can follow one message.
Fresh(m) == \A i \in 1 .. count : Queued[i] # m

\* pthread_cond_signal and pthread_cond_broadcast: at most one thread waits.
Signalled == IF pc = "waiting" THEN "woken" ELSE pc

\* Mutants of Send: no signal; the test for a full ring off by one.
SendWithoutSignal(m) == /\ Fresh(m)
                        /\ count < Capacity
                        /\ ring' = [ring EXCEPT ![tail] = m]
                        /\ tail' = (tail + 1) % Capacity
                        /\ count' = count + 1
                        /\ UNCHANGED <<head, running, recv, pc>>

\* ipc_port_send, the branch with room.  The other branch returns -ENOMEM
\* and changes nothing.
Send(m) == /\ Fresh(m)
           /\ count < Capacity
           /\ ring' = [ring EXCEPT ![tail] = m]
           /\ tail' = (tail + 1) % Capacity
           /\ count' = count + 1
           /\ pc' = Signalled
           /\ UNCHANGED <<head, running, recv>>

\* Mutant of Stop: no broadcast.
StopWithoutSignal == running' = FALSE /\ UNCHANGED <<ring, head, tail, count, recv, pc>>

\* ipc_port_stop_actor
Stop == /\ running' = FALSE
        /\ pc' = Signalled
        /\ UNCHANGED <<ring, head, tail, count, recv>>

\* Mutant of Restart: the tail is forgotten.
RestartKeepsTail == /\ head' = 0
                    /\ count' = 0
                    /\ running' = TRUE
                    /\ UNCHANGED <<ring, tail, recv, pc>>

\* ipc_port_restart_actor: no signal, the thread is not told.
Restart == /\ head' = 0
           /\ tail' = 0
           /\ count' = 0
           /\ running' = TRUE
           /\ UNCHANGED <<ring, recv, pc>>

-----------------------------------------------------------------------------
(* ipc_thread_fn.  Each action is one stretch with p->lock held, from where *)
(* the thread gets the lock to where it gives it up.                        *)

Dequeue == /\ recv' = ring[head]
           /\ head' = (head + 1) % Capacity
           /\ count' = count - 1
           /\ pc' = "handling"
           /\ UNCHANGED <<ring, tail, running>>

Leave(state) == /\ recv' = NoMsg
                /\ pc' = state
                /\ UNCHANGED <<ring, head, tail, count, running>>

\* The first test of the outer loop is of running alone.
ThreadStart == /\ pc = "start"
               /\ \/ ~running /\ Leave("exited")
                  \/ running /\ count > 0 /\ Dequeue
                  \/ running /\ count = 0 /\ Leave("waiting")

\* Mutant of Serve: running is looked at before the ring is drained.
ServeUntilStopped == \/ ~running /\ Leave("exited")
                     \/ running /\ count > 0 /\ Dequeue
                     \/ running /\ count = 0 /\ Leave("waiting")

\* Out of the wait, or back from the handler: the inner loop drains the ring
\* before the outer loop looks at running again.
Serve == \/ count > 0 /\ Dequeue
         \/ count = 0 /\ running /\ Leave("waiting")
         \/ count = 0 /\ ~running /\ Leave("exited")

ThreadWake == pc = "woken" /\ Serve

HandlerReturn == pc = "handling" /\ Serve

\* pthread_cond_wait may return without a signal.
SpuriousWakeup == /\ pc = "waiting"
                  /\ pc' = "woken"
                  /\ UNCHANGED <<ring, head, tail, count, running, recv>>

Thread == ThreadStart \/ ThreadWake \/ HandlerReturn

SendAny == \E m \in Msg : Send(m)

Next == \/ SendAny
        \/ Stop
        \/ Restart
        \/ ThreadStart
        \/ ThreadWake
        \/ HandlerReturn
        \/ SpuriousWakeup

\* The scheduler runs a thread that is ready, the mutex is eventually
\* granted, and handlers return.
Spec == Init /\ [][Next]_vars /\ WF_vars(Thread)

-----------------------------------------------------------------------------
(* Properties *)

\* head, tail and count, three variables updated by senders, the thread and
\* restarts, always describe the same stretch of the ring, and every slot of
\* that stretch holds a message.
RingConsistent == /\ tail = (head + count) % Capacity
                  /\ \A i \in 1 .. count : Queued[i] \in Msg

\* No lost wake-up: a thread blocked in pthread_cond_wait has nothing to do.
\* Restart changes what the thread waits for without signalling, and a
\* message may arrive between the thread's test and its wait.
NoLostWakeup == pc = "waiting" => count = 0 /\ running

Phase == IF pc = "start" THEN "new" ELSE IF pc = "exited" THEN "gone" ELSE "up"

Abstract == INSTANCE Mailbox
            WITH queue <- Queued, current <- recv, open <- running, phase <- Phase

\* The ring, the lock and the thread implement the abstract mailbox: FIFO,
\* bounded, one handler call at a time, nothing left behind by a thread that
\* served, and every queued message taken in the end.
AbstractSpec == Abstract!Spec

\* The safety part of the refinement, which is proved for every capacity.
AbstractSafety == Abstract!Safety

\* Once an actor is asked to stop, is not restarted, and nobody sends to it
\* any more, its thread returns: the pthread_join of ipc_port_run_all ends.
StopEndsThread ==
    (<>[](~running) /\ <>[][~SendAny]_vars) => <>(pc = "exited")
=============================================================================
