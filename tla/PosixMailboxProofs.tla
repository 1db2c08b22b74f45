------------------------ MODULE PosixMailboxProofs ------------------------
(***************************************************************************)
(* Proofs about the POSIX mailbox, for every capacity and every set of     *)
(* messages: the inductive invariant Inv, and the safety part of the       *)
(* refinement of module Mailbox.                                           *)
(***************************************************************************)
EXTENDS PosixMailbox, TLAPS

\* The strengthening that every action preserves.  TypeOK alone does not
\* bound count: Dequeue needs count > 0, which a woken thread only has
\* because the test and the dequeue share one critical section; RingConsistent
\* is what makes the dequeued slot a message.
Inv == TypeOK /\ RingConsistent /\ NoLostWakeup

-----------------------------------------------------------------------------
(* Slot arithmetic *)

\* One step around the ring, the arithmetic behind slot_at.
LEMMA ModSum == ASSUME NEW n \in Nat \ {0}, NEW a \in 0 .. n - 1, NEW b \in 0 .. n
                PROVE  (a + b) % n = IF a + b < n THEN a + b ELSE a + b - n
  OBVIOUS

\* The index of any queued slot is a ring index.
LEMMA SlotIndex == ASSUME TypeOK, NEW i \in 1 .. count
                   PROVE  (head + i - 1) % Capacity \in Index
  BY CapacityAssumption DEF TypeOK, Index

\* Distinct positions of the queue are distinct slots of the ring, none of
\* them the free slot at tail.
LEMMA TailIsFree ==
    ASSUME TypeOK, tail = (head + count) % Capacity, count < Capacity, NEW i \in 1 .. count
    PROVE  (head + i - 1) % Capacity # tail
  <1>1. head \in 0 .. Capacity - 1 /\ count \in 0 .. Capacity /\ i - 1 \in 0 .. Capacity
        /\ Capacity \in Nat \ {0}
    BY CapacityAssumption DEF TypeOK, Index
  <1>2. (head + count) % Capacity = IF head + count < Capacity THEN head + count
                                    ELSE head + count - Capacity
    BY <1>1, ModSum
  <1>3. (head + (i - 1)) % Capacity = IF head + (i - 1) < Capacity THEN head + (i - 1)
                                      ELSE head + (i - 1) - Capacity
    BY <1>1, ModSum
  <1>4. head + (i - 1) = head + i - 1
    BY <1>1
  <1> QED
    BY <1>1, <1>2, <1>3, <1>4

\* Advancing head by one slot renumbers the queue: position i of the shorter
\* queue is position i + 1 of the longer one.
LEMMA Shift ==
    ASSUME TypeOK, NEW i \in 0 .. count - 1
    PROVE  (((head + 1) % Capacity) + i) % Capacity = (head + (i + 1)) % Capacity
  <1>1. head \in 0 .. Capacity - 1 /\ i \in 0 .. Capacity /\ 1 \in 0 .. Capacity
        /\ i + 1 \in 0 .. Capacity /\ Capacity \in Nat \ {0}
    BY CapacityAssumption DEF TypeOK, Index
  <1>2. (head + 1) % Capacity = IF head + 1 < Capacity THEN head + 1 ELSE head + 1 - Capacity
    BY <1>1, ModSum
  <1>3. (head + 1) % Capacity \in 0 .. Capacity - 1
    BY <1>1, <1>2
  <1>4. (((head + 1) % Capacity) + i) % Capacity =
          IF ((head + 1) % Capacity) + i < Capacity THEN ((head + 1) % Capacity) + i
          ELSE ((head + 1) % Capacity) + i - Capacity
    BY <1>1, <1>3, ModSum
  <1>5. (head + (i + 1)) % Capacity = IF head + (i + 1) < Capacity THEN head + (i + 1)
                                      ELSE head + (i + 1) - Capacity
    BY <1>1, ModSum
  <1> QED
    BY <1>1, <1>2, <1>4, <1>5

-----------------------------------------------------------------------------
(* What the critical sections do to the queue *)

\* Storing at tail leaves the queued messages alone and adds one at the end.
LEMMA SendAppends ==
    ASSUME Inv, NEW m \in Msg, Send(m)
    PROVE  /\ count' = count + 1
           /\ \A i \in 1 .. count : Queued'[i] = Queued[i]
           /\ Queued'[count + 1] = m
  <1>1. count \in Nat /\ count < Capacity /\ Capacity \in Nat \ {0} /\ head' = head
        /\ tail = (head + count) % Capacity /\ tail \in Index /\ head \in Index
        /\ count' = count + 1 /\ ring' = [ring EXCEPT ![tail] = m]
        /\ ring \in [Index -> Msg \cup {NoMsg}]
    BY CapacityAssumption DEF Inv, TypeOK, RingConsistent, Send
  <1>2. Queued' = [i \in 1 .. count + 1 |-> ring'[(head + i - 1) % Capacity]]
    BY <1>1 DEF Queued
  <1>3. ASSUME NEW i \in 1 .. count
        PROVE  Queued'[i] = Queued[i]
    <2>1. (head + i - 1) % Capacity # tail /\ (head + i - 1) % Capacity \in Index
      BY <1>1, TailIsFree, SlotIndex DEF Inv
    <2>2. ring'[(head + i - 1) % Capacity] = ring[(head + i - 1) % Capacity]
      BY <1>1, <2>1
    <2>3. Queued'[i] = ring'[(head + i - 1) % Capacity]
      BY <1>1, <1>2
    <2> QED
      BY <2>2, <2>3 DEF Queued
  <1>4. Queued'[count + 1] = m
    <2>1. head + (count + 1) - 1 = head + count
      BY <1>1 DEF Index
    <2>2. Queued'[count + 1] = ring'[(head + (count + 1) - 1) % Capacity]
      BY <1>1, <1>2
    <2>3. Queued'[count + 1] = ring'[tail]
      BY <1>1, <2>1, <2>2
    <2> QED
      BY <1>1, <2>3
  <1> QED
    BY <1>1, <1>3, <1>4

\* Dequeue hands over the oldest message and keeps the rest in order.
LEMMA DequeueShifts ==
    ASSUME Inv, count > 0, Dequeue
    PROVE  /\ count' = count - 1
           /\ recv' = Queued[1]
           /\ recv' \in Msg
           /\ \A i \in 1 .. count - 1 : Queued'[i] = Queued[i + 1]
  <1>1. count \in Nat /\ count \in 1 .. Capacity /\ Capacity \in Nat \ {0}
        /\ head \in 0 .. Capacity - 1
        /\ head' = (head + 1) % Capacity /\ count' = count - 1 /\ ring' = ring
        /\ recv' = ring[head]
    BY CapacityAssumption DEF Inv, TypeOK, Dequeue, Index
  <1>2. recv' = Queued[1]
    <2>1. (head + 1 - 1) % Capacity = head
      BY <1>1
    <2>2. 1 \in 1 .. count
      BY <1>1
    <2> QED
      BY <1>1, <2>1, <2>2 DEF Queued
  <1>3. ASSUME NEW i \in 1 .. count - 1
        PROVE  Queued'[i] = Queued[i + 1]
    <2>1. (((head + 1) % Capacity) + (i - 1)) % Capacity = (head + ((i - 1) + 1)) % Capacity
      <3>1. i - 1 \in 0 .. count - 1
        BY <1>1
      <3> QED
        BY <3>1, Shift DEF Inv
    <2>2. head + ((i - 1) + 1) = head + (i + 1) - 1
      BY <1>1
    <2>3. head' + (i - 1) = head' + i - 1
      BY <1>1
    <2>4. Queued'[i] = ring[(head' + i - 1) % Capacity]
      BY <1>1 DEF Queued
    <2>5. i + 1 \in 1 .. count
      BY <1>1
    <2>6. Queued[i + 1] = ring[(head + (i + 1) - 1) % Capacity]
      BY <2>5 DEF Queued
    <2> QED
      BY <1>1, <2>1, <2>2, <2>3, <2>4, <2>6
  <1>4. recv' \in Msg
    BY <1>1, <1>2 DEF Inv, RingConsistent
  <1> QED
    BY <1>1, <1>2, <1>3, <1>4

-----------------------------------------------------------------------------
(* The inductive invariant *)

\* A freshly initialised mailbox satisfies the invariant.
LEMMA InitInv == Init => Inv
  BY CapacityAssumption
     DEF Init, Inv, TypeOK, RingConsistent, NoLostWakeup, Index, ThreadState, Queued

\* Storing a message keeps the invariant; the signal keeps NoLostWakeup.
LEMMA SendInv == ASSUME Inv, NEW m \in Msg, Send(m)
                 PROVE  Inv'
  <1>1. count \in Nat /\ count < Capacity /\ Capacity \in Nat \ {0}
        /\ head \in 0 .. Capacity - 1 /\ tail = (head + count) % Capacity
    BY CapacityAssumption DEF Inv, TypeOK, RingConsistent, Send, Index
  <1>2. tail' = (tail + 1) % Capacity /\ count' = count + 1 /\ head' = head
    BY DEF Send
  <1>3. TypeOK'
    <2>1. tail' \in Index
      BY <1>1, <1>2 DEF Index
    <2> QED
      BY <1>1, <1>2, <2>1 DEF Inv, TypeOK, Send, Signalled, ThreadState
  <1>4. tail' = (head' + count') % Capacity
    <2>1. count \in 0 .. Capacity /\ count + 1 \in 0 .. Capacity /\ 1 \in 0 .. Capacity
      BY <1>1
    <2>2. tail \in 0 .. Capacity - 1
      BY DEF Inv, TypeOK, Index
    <2>3. (head + count) % Capacity = IF head + count < Capacity THEN head + count
                                      ELSE head + count - Capacity
      BY <1>1, <2>1, ModSum
    <2>4. (head + (count + 1)) % Capacity =
            IF head + (count + 1) < Capacity THEN head + (count + 1)
            ELSE head + (count + 1) - Capacity
      BY <1>1, <2>1, ModSum
    <2>5. (tail + 1) % Capacity = IF tail + 1 < Capacity THEN tail + 1 ELSE tail + 1 - Capacity
      BY <1>1, <2>1, <2>2, ModSum
    <2> QED
      BY <1>1, <1>2, <2>2, <2>3, <2>4, <2>5
  <1>5. \A i \in 1 .. count' : Queued'[i] \in Msg
    <2>1. \A i \in 1 .. count : Queued[i] \in Msg
      BY DEF Inv, RingConsistent
    <2> QED
      BY <1>1, <2>1, SendAppends
  <1>6. NoLostWakeup'
    BY DEF Inv, NoLostWakeup, Send, Signalled
  <1> QED
    BY <1>3, <1>4, <1>5, <1>6 DEF Inv, RingConsistent

\* Taking the oldest message keeps the invariant.
LEMMA DequeueInv == ASSUME Inv, count > 0, Dequeue
                    PROVE  Inv'
  <1>1. count \in 1 .. Capacity /\ Capacity \in Nat \ {0}
        /\ head \in 0 .. Capacity - 1 /\ tail = (head + count) % Capacity
    BY CapacityAssumption DEF Inv, TypeOK, RingConsistent, Index
  <1>2. head' = (head + 1) % Capacity /\ count' = count - 1 /\ tail' = tail
    BY DEF Dequeue
  <1>3. TypeOK'
    <2>1. head' \in Index
      BY <1>1, <1>2 DEF Index
    <2> QED
      BY <1>1, <1>2, <2>1, DequeueShifts DEF Inv, TypeOK, Dequeue, ThreadState
  <1>4. tail' = (head' + count') % Capacity
    <2>1. count - 1 \in 0 .. count - 1 /\ (count - 1) + 1 = count
      BY <1>1
    <2>2. (((head + 1) % Capacity) + (count - 1)) % Capacity = (head + ((count - 1) + 1)) % Capacity
      BY <2>1, Shift DEF Inv
    <2> QED
      BY <1>1, <1>2, <2>1, <2>2
  <1>5. \A i \in 1 .. count' : Queued'[i] \in Msg
    <2>1. \A i \in 1 .. count : Queued[i] \in Msg
      BY DEF Inv, RingConsistent
    <2>2. \A i \in 1 .. count - 1 : i + 1 \in 1 .. count
      BY <1>1
    <2> QED
      BY <1>2, <2>1, <2>2, DequeueShifts
  <1>6. NoLostWakeup'
    BY DEF NoLostWakeup, Dequeue
  <1> QED
    BY <1>3, <1>4, <1>5, <1>6 DEF Inv, RingConsistent

\* Steps that leave the ring, head, tail and count alone keep RingConsistent.
LEMMA SameRing == ASSUME RingConsistent, UNCHANGED <<ring, head, tail, count>>
                  PROVE  RingConsistent'
  BY DEF RingConsistent, Queued

\* Every step of the port and of the thread keeps the invariant.
LEMMA NextInv == Inv /\ [Next]_vars => Inv'
  <1> SUFFICES ASSUME Inv, [Next]_vars
               PROVE  Inv'
    OBVIOUS
  <1>1. CASE SendAny
    BY <1>1, SendInv DEF SendAny
  <1>2. CASE Stop
    <2>1. TypeOK' /\ NoLostWakeup'
      BY <1>2 DEF Stop, Inv, TypeOK, NoLostWakeup, Signalled, ThreadState
    <2> QED
      BY <1>2, <2>1, SameRing DEF Stop, Inv
  <1>3. CASE Restart
    BY <1>3, CapacityAssumption
       DEF Restart, Inv, TypeOK, RingConsistent, NoLostWakeup, Queued, Index, ThreadState
  <1>4. ASSUME NEW s \in {"waiting", "exited"}, Leave(s), s = "waiting" => count = 0 /\ running
        PROVE  Inv'
    <2>1. TypeOK' /\ NoLostWakeup'
      BY <1>4 DEF Leave, Inv, TypeOK, NoLostWakeup, ThreadState
    <2> QED
      BY <1>4, <2>1, SameRing DEF Leave, Inv
  <1>5. CASE ThreadStart
    BY <1>4, <1>5, DequeueInv DEF ThreadStart
  <1>6. CASE ThreadWake
    BY <1>4, <1>6, DequeueInv DEF ThreadWake, Serve
  <1>7. CASE HandlerReturn
    BY <1>4, <1>7, DequeueInv DEF HandlerReturn, Serve
  <1>8. CASE SpuriousWakeup
    <2>1. TypeOK' /\ NoLostWakeup'
      BY <1>8 DEF SpuriousWakeup, Inv, TypeOK, NoLostWakeup, ThreadState
    <2> QED
      BY <1>8, <2>1, SameRing DEF SpuriousWakeup, Inv
  <1>9. CASE UNCHANGED vars
    <2>1. TypeOK' /\ NoLostWakeup'
      BY <1>9 DEF vars, Inv, TypeOK, NoLostWakeup
    <2> QED
      BY <1>9, <2>1, SameRing DEF vars, Inv
  <1> QED
    BY <1>1, <1>2, <1>3, <1>5, <1>6, <1>7, <1>8, <1>9 DEF Next

\* The inductive invariant holds in every state of every execution.
THEOREM InvHolds == Spec => []Inv
  <1>1. Init => Inv
    BY InitInv
  <1>2. Inv /\ [Next]_vars => Inv'
    BY NextInv
  <1> QED
    BY <1>1, <1>2, PTL DEF Spec

\* The ring, its indices and the thread keep their types: head and tail stay
\* within the ring and count within its capacity.
THEOREM TypesAreCorrect == Spec => []TypeOK
  BY InvHolds, PTL DEF Inv

\* head, tail and count describe one stretch of stored messages, whatever the
\* capacity and however senders, restarts and the thread interleave.
THEOREM RingIsConsistent == Spec => []RingConsistent
  BY InvHolds, PTL DEF Inv

\* The thread never sleeps on a mailbox with work or after a stop request.
THEOREM WakeupsAreNotLost == Spec => []NoLostWakeup
  BY InvHolds, PTL DEF Inv

-----------------------------------------------------------------------------
(* Refinement of the abstract mailbox *)

QueueShape == Queued \in Seq(Msg) /\ Len(Queued) = count

\* The queue is a sequence of messages as long as count says.
LEMMA QueuedIsSeq == Inv => QueueShape
  <1> SUFFICES ASSUME Inv PROVE QueueShape
    OBVIOUS
  <1>1. count \in Nat
    BY CapacityAssumption DEF Inv, TypeOK
  <1>2. Queued = [i \in 1 .. count |-> Queued[i]]
    BY DEF Queued
  <1>3. \A i \in 1 .. count : Queued[i] \in Msg
    BY DEF Inv, RingConsistent
  <1>4. Queued \in [1 .. count -> Msg]
    BY <1>2, <1>3
  <1> QED
    BY <1>1, <1>4 DEF QueueShape

\* The same after a step.
LEMMA QueuedIsSeqPrime == Inv' => QueueShape'
  BY QueuedIsSeq, PTL

\* The initial mailbox is the abstract empty one.
LEMMA InitRefines == Init => Abstract!Init
  <1> SUFFICES ASSUME Init PROVE Abstract!Init
    OBVIOUS
  <1>1. Queued = << >>
    BY DEF Init, Queued
  <1> QED
    BY <1>1 DEF Init, Abstract!Init, Phase

\* A stored message is an accepted one.
LEMMA SendRefines == ASSUME Inv, NEW m \in Msg, Send(m)
                     PROVE  Abstract!Accept(m)
  <1>1. Inv'
    BY SendInv
  <1>2. count' = count + 1 /\ count < Capacity /\ count \in Nat
    BY CapacityAssumption DEF Send, Inv, TypeOK
  <1>3. /\ Queued \in Seq(Msg) /\ Len(Queued) = count
        /\ Queued' \in Seq(Msg) /\ Len(Queued') = count + 1
    BY <1>1, <1>2, QueuedIsSeq, QueuedIsSeqPrime DEF QueueShape
  <1>4. Queued' = Append(Queued, m)
    <2>1. \A i \in 1 .. count : Queued'[i] = Queued[i]
      BY SendAppends
    <2>2. Queued'[count + 1] = m
      BY SendAppends
    <2> QED
      BY <1>2, <1>3, <2>1, <2>2
  <1>5. UNCHANGED <<recv, running, Phase>>
    BY DEF Send, Signalled, Phase
  <1> QED
    BY <1>2, <1>3, <1>4, <1>5 DEF Abstract!Accept

\* Dequeue hands the head of the queue to the handler.
LEMMA DequeueRefines == ASSUME Inv, count > 0, Dequeue, pc # "exited"
                        PROVE  Abstract!Take
  <1>1. Inv'
    BY DequeueInv
  <1>2. count' = count - 1 /\ count \in Nat /\ count > 0
    BY CapacityAssumption DEF Dequeue, Inv, TypeOK
  <1>3. /\ Queued \in Seq(Msg) /\ Len(Queued) = count
        /\ Queued' \in Seq(Msg) /\ Len(Queued') = count - 1
    BY <1>1, <1>2, QueuedIsSeq, QueuedIsSeqPrime DEF QueueShape
  <1>4. Queued' = Tail(Queued) /\ Queued # << >> /\ recv' = Head(Queued)
    <2>1. \A i \in 1 .. count - 1 : Queued'[i] = Queued[i + 1]
      BY DequeueShifts
    <2>2. recv' = Queued[1]
      BY DequeueShifts
    <2> QED
      BY <1>2, <1>3, <2>1, <2>2
  <1>5. Phase # "gone" /\ Phase' = "up" /\ running' = running
    BY DEF Dequeue, Phase
  <1> QED
    BY <1>4, <1>5 DEF Abstract!Take

\* Steps that leave ring, head and count alone leave the queue alone.
LEMMA SameQueue == ASSUME UNCHANGED <<ring, head, count>>
                   PROVE  Queued' = Queued
  BY DEF Queued

\* Every step of the POSIX mailbox is a step of the abstract one, or none.
LEMMA NextRefines == Inv /\ [Next]_vars => [Abstract!Next]_(Abstract!vars)
  <1> SUFFICES ASSUME Inv, [Next]_vars
               PROVE  Abstract!Next \/ UNCHANGED Abstract!vars
    OBVIOUS
  <1>0. count \in Nat /\ pc \in ThreadState
    BY CapacityAssumption DEF Inv, TypeOK
  <1>e. count = 0 => Queued = << >>
    BY DEF Queued
  <1>1. CASE SendAny
    BY <1>1, SendRefines DEF SendAny, Abstract!Next
  <1>2. CASE Stop
    <2>1. Queued' = Queued
      BY <1>2, SameQueue DEF Stop
    <2>2. Phase' = Phase /\ running' = FALSE /\ recv' = recv
      BY <1>2 DEF Stop, Signalled, Phase
    <2> QED
      BY <2>1, <2>2 DEF Abstract!Next, Abstract!Close
  <1>3. CASE Restart
    <2>1. Queued' = << >>
      BY <1>3 DEF Restart, Queued
    <2>2. Phase' = Phase /\ running' = TRUE /\ recv' = recv
      BY <1>3 DEF Restart, Phase
    <2> QED
      BY <2>1, <2>2 DEF Abstract!Next, Abstract!Flush
  <1>4. ASSUME Leave("waiting"), count = 0, pc # "exited"
        PROVE  Abstract!Idle
    <2>1. Queued' = Queued
      BY <1>4, SameQueue DEF Leave
    <2>2. Phase # "gone" /\ Phase' = "up" /\ running' = running /\ recv' = NoMsg
      BY <1>4 DEF Leave, Phase
    <2> QED
      BY <1>e, <1>4, <2>1, <2>2 DEF Abstract!Idle
  <1>5. ASSUME Leave("exited"), ~running, count = 0 \/ pc = "start", pc # "exited"
        PROVE  Abstract!Leave
    <2>1. Queued' = Queued
      BY <1>5, SameQueue DEF Leave
    <2>2. Phase # "gone" /\ Phase' = "gone" /\ running' = running /\ recv' = NoMsg
      BY <1>5 DEF Leave, Phase
    <2>3. Phase = "up" => Queued = << >>
      BY <1>e, <1>5 DEF Phase
    <2> QED
      BY <1>5, <2>1, <2>2, <2>3 DEF Abstract!Leave
  <1>6. CASE ThreadStart
    BY <1>0, <1>4, <1>5, <1>6, DequeueRefines DEF ThreadStart, Abstract!Next
  <1>7. CASE ThreadWake
    BY <1>0, <1>4, <1>5, <1>7, DequeueRefines DEF ThreadWake, Serve, Abstract!Next
  <1>8. CASE HandlerReturn
    BY <1>0, <1>4, <1>5, <1>8, DequeueRefines DEF HandlerReturn, Serve, Abstract!Next
  <1>9. CASE SpuriousWakeup
    <2>1. Queued' = Queued
      BY <1>9, SameQueue DEF SpuriousWakeup
    <2> QED
      BY <1>9, <2>1 DEF SpuriousWakeup, Phase, Abstract!vars
  <1>10. CASE UNCHANGED vars
    <2>1. Queued' = Queued
      BY <1>10, SameQueue DEF vars
    <2> QED
      BY <1>10, <2>1 DEF vars, Phase, Abstract!vars
  <1> QED
    BY <1>1, <1>2, <1>3, <1>6, <1>7, <1>8, <1>9, <1>10 DEF Next

\* The POSIX ring, lock and thread implement the abstract bounded FIFO
\* mailbox (safety part), for every capacity.
THEOREM PosixMailboxRefines == Spec => AbstractSafety
  <1>1. Init => Abstract!Init
    BY InitRefines
  <1>2. Inv /\ [Next]_vars => [Abstract!Next]_(Abstract!vars)
    BY NextRefines
  <1> QED
    BY <1>1, <1>2, InvHolds, PTL DEF Spec, AbstractSafety, Abstract!Safety
=============================================================================
