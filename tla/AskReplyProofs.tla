-------------------------- MODULE AskReplyProofs --------------------------
(***************************************************************************)
(* Proofs about the table of pending asks, for every number of actors,     *)
(* threads, slots, ids and messages, the wrap-around of next_ask_id        *)
(* included.                                                               *)
(***************************************************************************)
EXTENDS AskReply, TLAPS

-----------------------------------------------------------------------------
(* Type correctness *)

\* A reply under way has the id of a reply descriptor, so that the message it
\* becomes can be dispatched.
ReplyNamed == \A t \in Thread : pc[t] = "reply_send" => call[t].reply_id \in ReplyId

\* An id that alloc_ask_id looks at is an id.
LEMMA CandidateType == ASSUME next_ask_id \in Id, NEW k \in Nat
                       PROVE  Candidate(k) \in Id
  BY SizeAssumption DEF Candidate, Id

\* The records the code stores are of the right shape.
LEMMA ClearedType == Cleared \in Pending
  BY SizeAssumption DEF Cleared, Pending, Id

LEMMA WithoutAskType == ASSUME TypeOK, NEW id
                        PROVE  WithoutAsk(id) \in [Slot -> Pending]
  BY ClearedType DEF TypeOK, WithoutAsk

LEMMA NoCallType == NoCall \in Call
  BY SizeAssumption DEF NoCall, Call, Id

LEMMA EnqueueType == ASSUME mailbox \in [Actor -> Seq(Message)], NEW m \in Message, NEW a,
                            Enqueue(a, m)
                     PROVE  mailbox' \in [Actor -> Seq(Message)]
  <1>1. CASE a \in Actor
    BY <1>1 DEF Enqueue
  <1>2. CASE a \notin Actor
    <2>1. mailbox' = mailbox
      BY <1>2 DEF Enqueue
    <2> QED
      BY <2>1
  <1> QED
    BY <1>1, <1>2

\* Counting keeps a family of counters a family of counters.
LEMMA CountType == ASSUME NEW f \in [Serial -> Nat], NEW x
                   PROVE  [f EXCEPT ![x] = @ + 1] \in [Serial -> Nat]
  <1>1. CASE x \in Serial
    BY <1>1
  <1>2. CASE x \notin Serial
    BY <1>2
  <1> QED
    BY <1>1, <1>2

\* ipc_ask
LEMMA AskType == ASSUME TypeOK, NEW t \in Thread, NEW a \in Actor, NEW b \in Actor,
                        NEW d \in ReplyId, NEW timed \in BOOLEAN, Ask(t, a, b, d, timed)
                 PROVE  TypeOK'
  <1> USE DEF TypeOK
  <1>1. PICK i \in Slot, k \in 0 .. MaxInflight :
          /\ ask_table' = [ask_table EXCEPT ![i] =
                             [used |-> TRUE, reply_sent |-> FALSE, timeout_queued |-> FALSE,
                              ask_id |-> Candidate(k), reply_id |-> d, actor |-> a,
                              ser |-> asked + 1]]
          /\ next_ask_id' = Candidate(k + 1)
          /\ call' = [call EXCEPT ![t] = [to |-> b, ask_id |-> Candidate(k),
                                          reply_id |-> d, ser |-> asked + 1]]
          /\ info' = [info EXCEPT ![asked + 1] = [actor |-> a, ask_id |-> Candidate(k),
                                                  by |-> t]]
    BY DEF Ask
  <1>2. Candidate(k) \in Id /\ Candidate(k + 1) \in Id
    BY SizeAssumption, CandidateType
  <1>3. asked + 1 \in 0 .. MaxAsks
    BY SizeAssumption DEF Ask
  <1>4. ask_table' \in [Slot -> Pending]
    BY <1>1, <1>2, <1>3 DEF Pending
  <1>5. next_ask_id' \in Id
    BY <1>1, <1>2
  <1>6. call' \in [Thread -> Call]
    BY <1>1, <1>2, <1>3 DEF Call
  <1>7. info' \in [Serial -> Info]
    <2>1. [actor |-> a, ask_id |-> Candidate(k), by |-> t] \in Info
      BY <1>2 DEF Info
    <2> QED
      BY <1>1, <2>1
  <1>8. pc' \in [Thread -> ThreadState]
    BY DEF Ask, Goto, ThreadState
  <1>9. status' \in [Serial -> Status]
    BY DEF Ask, Status
  <1> QED
    BY <1>3, <1>4, <1>5, <1>6, <1>7, <1>8, <1>9 DEF Ask

\* The return of ipc_ask to its caller
LEMMA AskReturnsType == ASSUME TypeOK, NEW t \in Thread, NEW r \in Status, AskReturns(t, r)
                        PROVE  /\ pc' \in [Thread -> ThreadState]
                               /\ call' \in [Thread -> Call]
                               /\ status' \in [Serial -> Status]
  BY NoCallType DEF TypeOK, AskReturns, Goto, ThreadState

\* The steps of a thread inside a call
LEMMA CallStepType == ASSUME TypeOK, ReplyNamed, NEW t \in Thread, CallStep(t)
                      PROVE  TypeOK'
  <1>c. call[t] \in Call
    BY DEF TypeOK
  <1>1. CASE AskArm(t)
    BY <1>1 DEF TypeOK, AskArm, table, history, Goto, ThreadState, TimerState
  <1>2. CASE AskArmFails(t)
    BY <1>2 DEF TypeOK, AskArmFails, table, history, Goto, ThreadState
  <1>3. CASE AskSend(t)
    <2>1. Request(call[t]) \in Message
      BY <1>c DEF Call, Message, Request
    <2>2. mailbox' \in [Actor -> Seq(Message)]
      BY <1>3, <2>1, EnqueueType DEF TypeOK, AskSend
    <2> QED
      BY <1>3, <2>2, AskReturnsType DEF TypeOK, AskSend, Status, table
  <1>4. CASE AskSendFails(t)
    BY <1>4 DEF TypeOK, AskSendFails, table, history, Goto, ThreadState
  <1>5. CASE AskUndo(t)
    BY <1>5, AskReturnsType, WithoutAskType DEF TypeOK, AskUndo, Status
  <1>6. CASE ReplySend(t)
    <2>1. call[t].reply_id \in ReplyId
      BY <1>6 DEF ReplyNamed, ReplySend
    <2>2. Answer(call[t]) \in Message
      BY <1>c, <2>1 DEF Call, Message, Answer
    <2>3. mailbox' \in [Actor -> Seq(Message)]
      BY <1>6, <2>2, EnqueueType DEF TypeOK, ReplySend
    <2> QED
      BY <1>6, <2>3, NoCallType DEF TypeOK, ReplySend, table, history, Goto, ThreadState
  <1>7. CASE ReplySendFails(t)
    BY <1>7 DEF TypeOK, ReplySendFails, table, history, Goto, ThreadState
  <1>8. CASE ReplyUndo(t)
    BY <1>8, WithoutAskType, NoCallType DEF TypeOK, ReplyUndo, Goto, ThreadState
  <1> QED
    BY <1>1, <1>2, <1>3, <1>4, <1>5, <1>6, <1>7, <1>8 DEF CallStep

\* The other calls of application code
LEMMA UserStepType == ASSUME TypeOK, NEW t \in Thread, UserStep(t)
                      PROVE  TypeOK'
  <1>1. CASE \E a, b \in Actor, d \in ReplyId, timed \in TimedAsks : Ask(t, a, b, d, timed)
    BY <1>1, AskType, TimedAssumption
  <1>2. CASE \E s \in Serial : Cancel(t, s)
    <2>1. PICK s \in Serial : Cancel(t, s)
      BY <1>2
    <2>2. ask_table' \in [Slot -> Pending] /\ status' \in [Serial -> Status]
      BY <2>1, ClearedType DEF TypeOK, Cancel, Status
    <2> QED
      BY <2>1, <2>2 DEF TypeOK, Cancel, threads
  <1>3. ASSUME NEW i \in Slot, NEW d \in ReplyId, Repliable(t, i, d), AcceptReply(t, i)
        PROVE  TypeOK'
    <2>1. cur[t] \in Message /\ ask_table[i] \in Pending
      BY <1>3 DEF TypeOK, Repliable
    <2>2. ask_table' \in [Slot -> Pending]
      <3>1. [ask_table[i] EXCEPT !.reply_sent = TRUE] \in Pending
        BY <2>1 DEF Pending
      <3>2. ask_table' = [ask_table EXCEPT ![i] = [ask_table[i] EXCEPT !.reply_sent = TRUE]]
        BY <1>3 DEF AcceptReply
      <3> QED
        BY <3>1, <3>2 DEF TypeOK
    <2>3. call' \in [Thread -> Call]
      <3>1. [to |-> ask_table[i].actor, ask_id |-> cur[t].ask_id,
             reply_id |-> ask_table[i].reply_id, ser |-> cur[t].ser] \in Call
        <4>1. ask_table[i].actor \in Actor \cup {NoActor}
              /\ ask_table[i].reply_id \in ReplyId \cup {NoReply}
          BY <2>1 DEF Pending
        <4>2. cur[t].ask_id \in Id /\ cur[t].ser \in 0 .. MaxAsks
          BY <2>1 DEF Message
        <4> QED
          BY <4>1, <4>2 DEF Call
      <3> QED
        BY <1>3, <3>1 DEF TypeOK, AcceptReply
    <2>4. pc' \in [Thread -> ThreadState] /\ accepted' \in [Serial -> Nat]
      BY <1>3, CountType DEF TypeOK, AcceptReply, Goto, ThreadState
    <2> QED
      BY <1>3, <2>2, <2>3, <2>4 DEF TypeOK, AcceptReply
  <1>4. CASE \E d \in ReplyId : Reply(t, d)
    BY <1>3, <1>4 DEF Reply
  <1>5. CASE \E d \in ReplyId : ReplyTooLarge(t, d)
    <2>1. ask_table' \in [Slot -> Pending] /\ lost' \in [Serial -> BOOLEAN]
      BY <1>5, ClearedType DEF TypeOK, ReplyTooLarge
    <2> QED
      BY <1>5, <2>1 DEF TypeOK, ReplyTooLarge, threads
  <1>6. CASE ReplyError(t)
    BY <1>3, <1>6 DEF ReplyError
  <1> QED
    BY <1>1, <1>2, <1>4, <1>5, <1>6 DEF UserStep

\* The thread of an actor
LEMMA DispatchStepType == ASSUME TypeOK, NEW a \in Actor, DispatchStep(a)
                          PROVE  TypeOK'
  <1>1. CASE Dequeue(a)
    <2>1. mailbox[a] \in Seq(Message) /\ mailbox[a] # << >>
      BY <1>1 DEF TypeOK, Dequeue
    <2>2. Head(mailbox[a]) \in Message /\ Tail(mailbox[a]) \in Seq(Message)
      BY <2>1
    <2>3. cur' \in [Thread -> Message \cup {NoMsg}] /\ mailbox' \in [Actor -> Seq(Message)]
      BY <1>1, <2>2 DEF TypeOK, Dequeue
    <2> QED
      BY <1>1, <2>3 DEF TypeOK, Dequeue, Goto, ThreadState, table, history
  <1>2. CASE DispatchCallback(a)
    <2>0. PICK i \in Slot : /\ ask_table' = [ask_table EXCEPT ![i] = Cleared]
                            /\ callbacks' = [callbacks EXCEPT ![ask_table[i].ser] = @ + 1]
      BY <1>2 DEF DispatchCallback
    <2>1. ask_table' \in [Slot -> Pending] /\ callbacks' \in [Serial -> Nat]
      BY <2>0, ClearedType, CountType DEF TypeOK
    <2> QED
      BY <1>2, <2>1 DEF TypeOK, DispatchCallback, Goto, ThreadState
  <1>3. CASE DispatchHandler(a)
    BY <1>3 DEF TypeOK, DispatchHandler, Goto, ThreadState, table, history
  <1>4. CASE HandlerReturn(a)
    BY <1>4 DEF TypeOK, HandlerReturn, Goto, ThreadState, table, history
  <1> QED
    BY <1>1, <1>2, <1>3, <1>4 DEF DispatchStep

\* Writing the two flags of a slot leaves it a slot.
LEMMA FlagsType ==
    ASSUME NEW p \in Pending, NEW f \in BOOLEAN
    PROVE  [p EXCEPT !.reply_sent = f, !.timeout_queued = f] \in Pending
  BY DEF Pending

\* The timeout helper
LEMMA TimerStepType == ASSUME TypeOK, NEW s \in Serial, TimerStep(s)
                       PROVE  TypeOK'
  <1>1. CASE TimerExpires(s)
    <2>1. ask_table \in [Slot -> Pending]
      BY DEF TypeOK
    <2>2. PICK i \in Slot : ask_table' = [ask_table EXCEPT ![i] =
             [ask_table[i] EXCEPT !.reply_sent = TRUE, !.timeout_queued = TRUE]]
      BY <1>1 DEF TimerExpires
    <2>3. [ask_table[i] EXCEPT !.reply_sent = TRUE, !.timeout_queued = TRUE] \in Pending
      BY <2>1, FlagsType
    <2>4. ask_table' \in [Slot -> Pending]
      BY <2>1, <2>2, <2>3
    <2>5. timer' \in [Serial -> TimerState]
      BY <1>1 DEF TypeOK, TimerExpires, TimerState
    <2> QED
      BY <1>1, <2>4, <2>5 DEF TypeOK, TimerExpires, threads, history
  <1>2. CASE TimerLate(s)
    BY <1>2 DEF TypeOK, TimerLate, TimerState, table, threads, history
  <1>3. CASE TimerSend(s)
    <2>1. Timeout(s) \in Message
      BY SizeAssumption DEF TypeOK, Timeout, Message, Info, Serial
    <2>2. mailbox' \in [Actor -> Seq(Message)]
      BY <1>3, <2>1, EnqueueType DEF TypeOK, TimerSend
    <2> QED
      BY <1>3, <2>2 DEF TypeOK, TimerSend, TimerState, table, threads, history
  <1>4. CASE TimerSendFails(s)
    BY <1>4 DEF TypeOK, TimerSendFails, TimerState, table, threads, history
  <1>5. CASE TimerUndo(s)
    <2>1. ask_table \in [Slot -> Pending]
      BY DEF TypeOK
    <2>2. \A i \in Slot : [ask_table[i] EXCEPT !.reply_sent = FALSE,
                                              !.timeout_queued = FALSE] \in Pending
      BY <2>1, FlagsType
    <2>3. ask_table' \in [Slot -> Pending]
      BY <1>5, <2>1, <2>2 DEF TimerUndo
    <2> QED
      BY <1>5, <2>3 DEF TypeOK, TimerUndo, TimerState, threads
  <1> QED
    BY <1>1, <1>2, <1>3, <1>4, <1>5 DEF TimerStep

\* Other messages and restarts
LEMMA EnvironmentType == ASSUME TypeOK, NEW a \in Actor, Traffic(a) \/ Restart(a)
                         PROVE  TypeOK'
  <1>1. CASE Traffic(a)
    <2>1. Plain \in Message
      BY SizeAssumption DEF Plain, Message, Id
    <2>2. mailbox' \in [Actor -> Seq(Message)]
      BY <1>1, <2>1, EnqueueType DEF TypeOK, Traffic
    <2> QED
      BY <1>1, <2>2 DEF TypeOK, Traffic, table, threads, history
  <1>2. CASE Restart(a)
    <2>1. mailbox' \in [Actor -> Seq(Message)]
      BY <1>2 DEF TypeOK, Restart
    <2>2. lost' \in [Serial -> BOOLEAN]
      BY <1>2 DEF TypeOK, Restart
    <2>3. restarts' \in 0 .. MaxRestarts
      BY <1>2, SizeAssumption DEF TypeOK, Restart
    <2> QED
      BY <1>2, <2>1, <2>2, <2>3 DEF TypeOK, Restart, table, threads
  <1> QED
    BY <1>1, <1>2

-----------------------------------------------------------------------------
(* The inductive invariant *)

Safe == UniqueIds /\ AskBookkeeping /\ AtMostOneCallback /\ CancelPreventsCallback

Inv == TypeOK /\ ReplyNamed /\ Safe

\* The initial table is empty and no ask was begun.
LEMMA InitInv == Init => Inv
  <1> SUFFICES ASSUME Init PROVE Inv
    OBVIOUS
  <1>1. TypeOK
    <2>1. ask_table \in [Slot -> Pending]
      BY ClearedType DEF Init
    <2>2. next_ask_id \in Id /\ asked \in 0 .. MaxAsks /\ restarts \in 0 .. MaxRestarts
      BY SizeAssumption DEF Init, Id
    <2>3. info \in [Serial -> Info]
      BY SizeAssumption DEF Init, Info, Id
    <2>4. pc \in [Thread -> ThreadState] /\ call \in [Thread -> Call]
      BY NoCallType DEF Init, ThreadState
    <2> QED
      BY <2>1, <2>2, <2>3, <2>4 DEF Init, TypeOK, TimerState, Status
  <1>2. ReplyNamed
    BY DEF Init, ReplyNamed
  <1>3. Safe
    BY DEF Init, Safe, UniqueIds, AskBookkeeping, AtMostOneCallback, CancelPreventsCallback,
           Cleared
  <1> QED
    BY <1>1, <1>2, <1>3 DEF Inv

\* A step that begins no ask, runs no callback and cancels nothing is safe
\* when every slot that is in use afterwards held the same ask before.
LEMMA ShrinkSafe ==
    ASSUME Inv, asked' = asked, callbacks' = callbacks,
           \A s \in Serial : status'[s] = "cancelled" => status[s] = "cancelled",
           \A i \in Slot : ask_table'[i].used =>
              /\ ask_table[i].used
              /\ ask_table'[i].ask_id = ask_table[i].ask_id
              /\ ask_table'[i].ser = ask_table[i].ser
    PROVE  Safe'
  <1>1. UniqueIds'
    BY DEF Inv, Safe, UniqueIds
  <1>2. AtMostOneCallback' /\ CancelPreventsCallback'
    BY DEF Inv, Safe, AtMostOneCallback, CancelPreventsCallback
  <1>3. asked \in Nat /\ asked <= MaxAsks
    BY SizeAssumption DEF Inv, TypeOK
  <1>4. ASSUME NEW i \in Slot, ask_table'[i].used
        PROVE  /\ ask_table'[i].ser \in 1 .. asked'
               /\ callbacks'[ask_table'[i].ser] = 0
               /\ status'[ask_table'[i].ser] # "cancelled"
    <2>1. /\ ask_table[i].ser \in 1 .. asked /\ callbacks[ask_table[i].ser] = 0
          /\ status[ask_table[i].ser] # "cancelled"
          /\ ask_table'[i].ser = ask_table[i].ser
      BY <1>4 DEF Inv, Safe, AskBookkeeping
    <2>2. ask_table[i].ser \in Serial
      BY <1>3, <2>1, SizeAssumption DEF Serial
    <2> QED
      BY <2>1, <2>2
  <1>5. AskBookkeeping'
    BY <1>4 DEF Inv, Safe, AskBookkeeping
  <1> QED
    BY <1>1, <1>2, <1>5 DEF Safe

\* The same for steps that leave the whole table alone.
LEMMA SameTableSafe ==
    ASSUME Inv, asked' = asked, callbacks' = callbacks, ask_table' = ask_table,
           \A s \in Serial : status'[s] = "cancelled" => status[s] = "cancelled"
    PROVE  Safe'
  BY ShrinkSafe

\* Clearing the slot of an id is such a step, whatever the id.
LEMMA WithoutAskSafe ==
    ASSUME Inv, asked' = asked, callbacks' = callbacks, NEW id, ask_table' = WithoutAsk(id),
           \A s \in Serial : status'[s] = "cancelled" => status[s] = "cancelled"
    PROVE  Safe'
  <1>1. \A i \in Slot : ask_table'[i] = Cleared \/ ask_table'[i] = ask_table[i]
    BY DEF WithoutAsk
  <1>2. ~Cleared.used
    BY DEF Cleared
  <1>3. \A i \in Slot : ask_table'[i].used =>
              /\ ask_table[i].used
              /\ ask_table'[i].ask_id = ask_table[i].ask_id
              /\ ask_table'[i].ser = ask_table[i].ser
    BY <1>1, <1>2
  <1> QED
    BY <1>3, ShrinkSafe

\* An error or a success returned by ipc_ask cancels nothing.
LEMMA AskReturnsCancelsNothing ==
    ASSUME TypeOK, NEW t \in Thread, NEW r \in {"ok", "error"}, AskReturns(t, r)
    PROVE  \A s \in Serial : status'[s] = "cancelled" => status[s] = "cancelled"
  BY DEF TypeOK, AskReturns

-----------------------------------------------------------------------------
(* Every step preserves the invariant *)

\* A new ask takes an unused slot, an id that is not pending and a new number.
LEMMA AskSafe == ASSUME Inv, NEW t \in Thread, NEW a \in Actor, NEW b \in Actor,
                        NEW d \in ReplyId, NEW timed \in BOOLEAN, Ask(t, a, b, d, timed)
                 PROVE  Safe'
  <1>1. PICK i \in Slot, k \in 0 .. MaxInflight :
          /\ FirstFree(i)
          /\ AllocId(k)
          /\ ask_table' = [ask_table EXCEPT ![i] =
                             [used |-> TRUE, reply_sent |-> FALSE, timeout_queued |-> FALSE,
                              ask_id |-> Candidate(k), reply_id |-> d, actor |-> a,
                              ser |-> asked + 1]]
    BY DEF Ask
  <1>2. /\ asked' = asked + 1 /\ asked \in Nat /\ asked + 1 \in Serial
        /\ callbacks' = callbacks /\ status' = [status EXCEPT ![asked + 1] = "calling"]
        /\ ask_table \in [Slot -> Pending] /\ status \in [Serial -> Status]
    BY SizeAssumption DEF Inv, TypeOK, Ask, Serial
  <1>3. /\ ask_table'[i].used /\ ask_table'[i].ask_id = Candidate(k)
        /\ ask_table'[i].ser = asked + 1
        /\ \A j \in Slot : j # i => ask_table'[j] = ask_table[j]
    BY <1>1, <1>2
  <1>4. Candidate(k) # 0 /\ \A j \in Slot : ask_table[j].used => ask_table[j].ask_id # Candidate(k)
    BY <1>1 DEF AllocId, IsPending, Holds
  <1>5. UniqueIds'
    BY <1>3, <1>4 DEF Inv, Safe, UniqueIds
  <1>7. \A j \in Slot : ask_table[j].used =>
           /\ ask_table[j].ser \in 1 .. asked /\ callbacks[ask_table[j].ser] = 0
           /\ status[ask_table[j].ser] # "cancelled"
    BY DEF Inv, Safe, AskBookkeeping
  <1>8. \A s \in Serial : s > asked => callbacks[s] = 0
    BY DEF Inv, Safe, AskBookkeeping
  <1>9. ASSUME NEW j \in Slot, ask_table'[j].used
        PROVE  /\ ask_table'[j].ser \in 1 .. asked'
               /\ callbacks'[ask_table'[j].ser] = 0
               /\ status'[ask_table'[j].ser] # "cancelled"
    <2>1. CASE j = i
      BY <1>2, <1>3, <1>8, <2>1
    <2>2. CASE j # i
      <3>1. ask_table[j].ser \in 1 .. asked /\ ask_table[j].ser # asked + 1
        BY <1>2, <1>3, <1>7, <1>9, <2>2
      <3> QED
        BY <1>2, <1>3, <1>7, <1>9, <2>2, <3>1
    <2> QED
      BY <2>1, <2>2
  <1>10. \A j, l \in Slot : (ask_table'[j].used /\ ask_table'[l].used
                             /\ ask_table'[j].ser = ask_table'[l].ser) => j = l
    <2>1. \A j \in Slot : (j # i /\ ask_table'[j].used) => ask_table'[j].ser # asked + 1
      BY <1>2, <1>3, <1>7
    <2>2. \A j, l \in Slot : (ask_table[j].used /\ ask_table[l].used
                              /\ ask_table[j].ser = ask_table[l].ser) => j = l
      BY DEF Inv, Safe, AskBookkeeping
    <2> QED
      BY <1>3, <2>1, <2>2
  <1>11. AskBookkeeping'
    BY <1>2, <1>8, <1>9, <1>10 DEF AskBookkeeping, Serial
  <1>12. AtMostOneCallback' /\ CancelPreventsCallback'
    BY <1>2 DEF Inv, Safe, AtMostOneCallback, CancelPreventsCallback
  <1> QED
    BY <1>5, <1>11, <1>12 DEF Safe

\* Cancelling clears the slot, so the callback that has not run cannot run.
LEMMA CancelSafe == ASSUME Inv, NEW t \in Thread, NEW s \in Serial, Cancel(t, s)
                    PROVE  Safe'
  <1>1. PICK i \in Slot : /\ Found(info[s].ask_id, i)
                          /\ ask_table' = [ask_table EXCEPT ![i] = Cleared]
                          /\ status' = [status EXCEPT ![ask_table[i].ser] = "cancelled"]
    BY DEF Cancel
  <1>2. /\ asked' = asked /\ callbacks' = callbacks /\ ask_table \in [Slot -> Pending]
        /\ status \in [Serial -> Status]
    BY DEF Inv, TypeOK, Cancel
  <1>3. ask_table[i].used /\ callbacks[ask_table[i].ser] = 0
    BY <1>1 DEF Inv, Safe, AskBookkeeping, Found, Holds
  <1>4. ~ask_table'[i].used
        /\ \A j \in Slot : j # i => ask_table'[j] = ask_table[j]
    BY <1>1, <1>2 DEF Cleared
  <1>5. UniqueIds'
    BY <1>4 DEF Inv, Safe, UniqueIds
  <1>6. AtMostOneCallback' /\ CancelPreventsCallback'
    BY <1>1, <1>2, <1>3 DEF Inv, Safe, AtMostOneCallback, CancelPreventsCallback
  <1>7. ASSUME NEW j \in Slot, ask_table'[j].used
        PROVE  status'[ask_table'[j].ser] # "cancelled"
    <2>1. j # i /\ ask_table[j].used /\ ask_table'[j].ser = ask_table[j].ser
      BY <1>4, <1>7
    <2>2. ask_table[j].ser # ask_table[i].ser /\ status[ask_table[j].ser] # "cancelled"
      BY <1>3, <2>1 DEF Inv, Safe, AskBookkeeping
    <2> QED
      BY <1>1, <1>2, <2>1, <2>2
  <1>8. AskBookkeeping'
    BY <1>2, <1>4, <1>7 DEF Inv, Safe, AskBookkeeping
  <1> QED
    BY <1>5, <1>6, <1>8 DEF Safe

\* A callback runs only for a pending ask, whose slot is cleared with it.
LEMMA CallbackSafe == ASSUME Inv, NEW a \in Actor, DispatchCallback(a)
                      PROVE  Safe'
  <1>1. PICK i \in Slot : /\ Completes(a, i)
                          /\ ask_table' = [ask_table EXCEPT ![i] = Cleared]
                          /\ callbacks' = [callbacks EXCEPT ![ask_table[i].ser] = @ + 1]
    BY DEF DispatchCallback
  <1>2. /\ asked' = asked /\ status' = status /\ ask_table \in [Slot -> Pending]
        /\ callbacks \in [Serial -> Nat] /\ asked \in 0 .. MaxAsks
    BY DEF Inv, TypeOK, DispatchCallback
  <1>3. /\ ask_table[i].used /\ callbacks[ask_table[i].ser] = 0
        /\ ask_table[i].ser \in 1 .. asked /\ status[ask_table[i].ser] # "cancelled"
    BY <1>1 DEF Inv, Safe, AskBookkeeping, Completes, Found, Holds
  <1>4. ~ask_table'[i].used
        /\ \A j \in Slot : j # i => ask_table'[j] = ask_table[j]
    BY <1>1, <1>2 DEF Cleared
  <1>5. /\ ask_table[i].ser \in Serial
        /\ callbacks'[ask_table[i].ser] = 1
        /\ \A s \in Serial : s # ask_table[i].ser => callbacks'[s] = callbacks[s]
    BY <1>1, <1>2, <1>3, SizeAssumption DEF Serial
  <1>6. UniqueIds'
    BY <1>4 DEF Inv, Safe, UniqueIds
  <1>7. AtMostOneCallback' /\ CancelPreventsCallback'
    BY <1>2, <1>3, <1>5 DEF Inv, Safe, AtMostOneCallback, CancelPreventsCallback
  <1>8. ASSUME NEW j \in Slot, ask_table'[j].used
        PROVE  /\ ask_table'[j].ser \in 1 .. asked'
               /\ callbacks'[ask_table'[j].ser] = 0
               /\ status'[ask_table'[j].ser] # "cancelled"
    <2>1. j # i /\ ask_table[j].used /\ ask_table'[j].ser = ask_table[j].ser
      BY <1>4, <1>8
    <2>2. /\ ask_table[j].ser # ask_table[i].ser /\ ask_table[j].ser \in 1 .. asked
          /\ callbacks[ask_table[j].ser] = 0 /\ status[ask_table[j].ser] # "cancelled"
      BY <1>3, <2>1 DEF Inv, Safe, AskBookkeeping
    <2>3. ask_table[j].ser \in Serial
      BY <1>2, <2>2, SizeAssumption DEF Serial
    <2> QED
      BY <1>2, <1>5, <2>1, <2>2, <2>3
  <1>9. \A s \in Serial : s > asked' => callbacks'[s] = 0
    <2>1. \A s \in Serial : s > asked => s # ask_table[i].ser
      BY <1>2, <1>3 DEF Serial
    <2> QED
      BY <1>2, <1>5, <2>1 DEF Inv, Safe, AskBookkeeping
  <1>10. AskBookkeeping'
    BY <1>4, <1>8, <1>9 DEF Inv, Safe, AskBookkeeping
  <1> QED
    BY <1>6, <1>7, <1>10 DEF Safe

\* Setting or resetting the flags of one slot.
LEMMA FlagsSafe ==
    ASSUME Inv, asked' = asked, callbacks' = callbacks, status' = status,
           NEW i \in Slot, NEW rs \in BOOLEAN, NEW tq \in BOOLEAN,
           ask_table' = [ask_table EXCEPT ![i] =
                           [@ EXCEPT !.reply_sent = rs, !.timeout_queued = tq]]
    PROVE  Safe'
  <1>1. ask_table \in [Slot -> Pending]
    BY DEF Inv, TypeOK
  <1>2. \A j \in Slot : /\ ask_table'[j].used = ask_table[j].used
                        /\ ask_table'[j].ask_id = ask_table[j].ask_id
                        /\ ask_table'[j].ser = ask_table[j].ser
    BY <1>1 DEF Pending
  <1> QED
    BY <1>2, ShrinkSafe

\* Accepting a reply sets reply_sent and leaves the rest of the slot alone.
LEMMA AcceptReplySafe ==
    ASSUME Inv, NEW t \in Thread, NEW i \in Slot, AcceptReply(t, i)
    PROVE  Safe'
  <1>1. ask_table \in [Slot -> Pending] /\ asked' = asked /\ callbacks' = callbacks
        /\ status' = status /\ ask_table' = [ask_table EXCEPT ![i].reply_sent = TRUE]
    BY DEF Inv, TypeOK, AcceptReply
  <1>2. \A j \in Slot : /\ ask_table'[j].used = ask_table[j].used
                        /\ ask_table'[j].ask_id = ask_table[j].ask_id
                        /\ ask_table'[j].ser = ask_table[j].ser
    BY <1>1 DEF Pending
  <1> QED
    BY <1>1, <1>2, ShrinkSafe

\* A thread inside ipc_ask or ipc_reply.
LEMMA CallStepInv == ASSUME Inv, NEW t \in Thread, CallStep(t)
                     PROVE  Inv'
  <1>t. TypeOK'
    BY CallStepType DEF Inv
  <1>r. ReplyNamed'
    BY DEF Inv, TypeOK, ReplyNamed, CallStep, AskArm, AskArmFails, AskSend, AskSendFails,
           AskUndo, ReplySend, ReplySendFails, ReplyUndo, AskReturns, Goto
  <1>1. ASSUME AskArm(t) PROVE Safe'
    BY <1>1, SameTableSafe DEF AskArm, table, history
  <1>2. ASSUME AskArmFails(t) PROVE Safe'
    BY <1>2, SameTableSafe DEF AskArmFails, table, history
  <1>3. ASSUME AskSend(t) PROVE Safe'
    BY <1>3, SameTableSafe, AskReturnsCancelsNothing DEF Inv, AskSend, table
  <1>4. ASSUME AskSendFails(t) PROVE Safe'
    BY <1>4, SameTableSafe DEF AskSendFails, table, history
  <1>5. ASSUME AskUndo(t) PROVE Safe'
    BY <1>5, WithoutAskSafe, AskReturnsCancelsNothing DEF Inv, AskUndo
  <1>6. ASSUME ReplySend(t) PROVE Safe'
    BY <1>6, SameTableSafe DEF ReplySend, table, history
  <1>7. ASSUME ReplySendFails(t) PROVE Safe'
    BY <1>7, SameTableSafe DEF ReplySendFails, table, history
  <1>8. ASSUME ReplyUndo(t) PROVE Safe'
    BY <1>8, WithoutAskSafe DEF ReplyUndo
  <1>9. Safe'
    BY <1>1, <1>2, <1>3, <1>4, <1>5, <1>6, <1>7, <1>8 DEF CallStep
  <1> QED
    BY <1>t, <1>r, <1>9 DEF Inv

\* Application code.
LEMMA UserStepInv == ASSUME Inv, NEW t \in Thread, UserStep(t)
                     PROVE  Inv'
  <1>t. TypeOK'
    BY UserStepType DEF Inv
  <1>1. CASE \E a, b \in Actor, d \in ReplyId, timed \in TimedAsks : Ask(t, a, b, d, timed)
    <2>1. PICK a \in Actor, b \in Actor, d \in ReplyId, timed \in TimedAsks :
            Ask(t, a, b, d, timed)
      BY <1>1
    <2>2. Safe'
      BY <2>1, AskSafe, TimedAssumption
    <2>3. ReplyNamed'
      BY <2>1 DEF Inv, TypeOK, ReplyNamed, Ask, Goto
    <2> QED
      BY <1>t, <2>2, <2>3 DEF Inv
  <1>2. CASE \E s \in Serial : Cancel(t, s)
    <2>1. Safe'
      BY <1>2, CancelSafe
    <2>2. ReplyNamed'
      BY <1>2 DEF Inv, ReplyNamed, Cancel, threads
    <2> QED
      BY <1>t, <2>1, <2>2 DEF Inv
  <1>3. ASSUME NEW i \in Slot, NEW d \in ReplyId, Repliable(t, i, d), AcceptReply(t, i)
        PROVE  Inv'
    <2>1. Safe'
      BY <1>3, AcceptReplySafe
    <2>2. ReplyNamed'
      BY <1>3 DEF Inv, TypeOK, ReplyNamed, AcceptReply, Repliable, Goto
    <2> QED
      BY <1>t, <2>1, <2>2 DEF Inv
  <1>4. CASE \E d \in ReplyId : Reply(t, d)
    BY <1>3, <1>4 DEF Reply
  <1>5. CASE \E d \in ReplyId : ReplyTooLarge(t, d)
    <2>1. PICK i \in Slot : ask_table' = [ask_table EXCEPT ![i] = Cleared]
      BY <1>5 DEF ReplyTooLarge
    <2>2. ask_table \in [Slot -> Pending] /\ asked' = asked /\ callbacks' = callbacks
          /\ status' = status /\ UNCHANGED <<pc, call>>
      BY <1>5 DEF Inv, TypeOK, ReplyTooLarge, threads
    <2>3. \A j \in Slot : ask_table'[j].used =>
             /\ ask_table[j].used /\ ask_table'[j].ask_id = ask_table[j].ask_id
             /\ ask_table'[j].ser = ask_table[j].ser
      BY <2>1, <2>2 DEF Cleared
    <2>4. Safe'
      BY <2>2, <2>3, ShrinkSafe
    <2>5. ReplyNamed'
      BY <2>2 DEF Inv, ReplyNamed
    <2> QED
      BY <1>t, <2>4, <2>5 DEF Inv
  <1>6. CASE ReplyError(t)
    BY <1>3, <1>6 DEF ReplyError
  <1> QED
    BY <1>1, <1>2, <1>4, <1>5, <1>6 DEF UserStep

\* The thread of an actor.
LEMMA DispatchStepInv == ASSUME Inv, NEW a \in Actor, DispatchStep(a)
                         PROVE  Inv'
  <1>t. TypeOK'
    BY DispatchStepType DEF Inv
  <1>r. ReplyNamed'
    BY DEF Inv, TypeOK, ReplyNamed, DispatchStep, Dequeue, DispatchCallback, DispatchHandler,
           HandlerReturn, Goto
  <1>1. ASSUME Dequeue(a) PROVE Safe'
    BY <1>1, SameTableSafe DEF Dequeue, table, history
  <1>2. ASSUME DispatchCallback(a) PROVE Safe'
    BY <1>2, CallbackSafe
  <1>3. ASSUME DispatchHandler(a) PROVE Safe'
    BY <1>3, SameTableSafe DEF DispatchHandler, table, history
  <1>4. ASSUME HandlerReturn(a) PROVE Safe'
    BY <1>4, SameTableSafe DEF HandlerReturn, table, history
  <1>5. Safe'
    BY <1>1, <1>2, <1>3, <1>4 DEF DispatchStep
  <1> QED
    BY <1>t, <1>r, <1>5 DEF Inv

\* Resetting the two flags of a slot leaves the rest of it alone.
LEMMA FlagsReset ==
    ASSUME NEW p \in Pending, NEW q,
           q = [p EXCEPT !.reply_sent = FALSE, !.timeout_queued = FALSE]
    PROVE  q.used = p.used /\ q.ask_id = p.ask_id /\ q.ser = p.ser
  BY DEF Pending

\* The timeout helper: setting both flags, or resetting both.
LEMMA TimerStepInv == ASSUME Inv, NEW s \in Serial, TimerStep(s)
                      PROVE  Inv'
  <1>t. TypeOK'
    BY TimerStepType DEF Inv
  <1>r. ReplyNamed'
    BY DEF Inv, ReplyNamed, TimerStep, TimerExpires, TimerLate, TimerSend, TimerSendFails,
           TimerUndo, threads
  <1>1. ASSUME TimerExpires(s) PROVE Safe'
    BY <1>1, FlagsSafe DEF TimerExpires, history
  <1>2. ASSUME TimerLate(s) PROVE Safe'
    BY <1>2, SameTableSafe DEF TimerLate, table, history
  <1>3. ASSUME TimerSend(s) PROVE Safe'
    BY <1>3, SameTableSafe DEF TimerSend, table, history
  <1>4. ASSUME TimerSendFails(s) PROVE Safe'
    BY <1>4, SameTableSafe DEF TimerSendFails, table, history
  <1>5. ASSUME TimerUndo(s) PROVE Safe'
    <2>1. ask_table \in [Slot -> Pending] /\ asked' = asked /\ callbacks' = callbacks
          /\ status' = status
      BY <1>5 DEF Inv, TypeOK, TimerUndo
    <2>2. ASSUME NEW i \in Slot
          PROVE  \/ ask_table'[i] = ask_table[i]
                 \/ ask_table'[i] = [ask_table[i] EXCEPT !.reply_sent = FALSE,
                                                         !.timeout_queued = FALSE]
      BY <1>5 DEF TimerUndo
    <2>3. ASSUME NEW i \in Slot
          PROVE  /\ ask_table'[i].used = ask_table[i].used
                 /\ ask_table'[i].ask_id = ask_table[i].ask_id
                 /\ ask_table'[i].ser = ask_table[i].ser
      <3>1. ask_table[i] \in Pending
        BY <2>1
      <3>2. CASE ask_table'[i] = ask_table[i]
        BY <3>2
      <3>3. CASE ask_table'[i] = [ask_table[i] EXCEPT !.reply_sent = FALSE,
                                                     !.timeout_queued = FALSE]
        BY <3>1, <3>3, FlagsReset
      <3> QED
        BY <2>2, <3>2, <3>3
    <2> QED
      BY <2>1, <2>3, ShrinkSafe
  <1>6. Safe'
    BY <1>1, <1>2, <1>3, <1>4, <1>5 DEF TimerStep
  <1> QED
    BY <1>t, <1>r, <1>6 DEF Inv

\* Every step preserves the invariant.
LEMMA NextInv == Inv /\ [Next]_vars => Inv'
  <1> SUFFICES ASSUME Inv, [Next]_vars PROVE Inv'
    OBVIOUS
  <1>1. CASE \E t \in Thread : CallStep(t)
    BY <1>1, CallStepInv
  <1>2. CASE \E t \in Thread : UserStep(t)
    BY <1>2, UserStepInv
  <1>3. CASE \E a \in Actor : DispatchStep(a)
    BY <1>3, DispatchStepInv
  <1>4. CASE \E s \in Serial : TimerStep(s)
    BY <1>4, TimerStepInv
  <1>5. ASSUME NEW a \in Actor, Traffic(a) \/ Restart(a)
        PROVE  Inv'
    <2>1. TypeOK'
      BY <1>5, EnvironmentType DEF Inv
    <2>2. UNCHANGED <<ask_table, asked, callbacks, status, pc, call>>
      BY <1>5 DEF Traffic, Restart, table, threads, history
    <2>3. Safe'
      BY <2>2, SameTableSafe
    <2>4. ReplyNamed'
      BY <2>2 DEF Inv, ReplyNamed
    <2> QED
      BY <2>1, <2>3, <2>4 DEF Inv
  <1>6. CASE \E a \in Noisy : Traffic(a)
    BY <1>5, <1>6, ActorAssumption
  <1>7. CASE \E a \in Actor : Restart(a)
    BY <1>5, <1>7
  <1>8. CASE UNCHANGED vars
    <2>1. Safe'
      BY <1>8, SameTableSafe DEF vars
    <2>2. TypeOK' /\ ReplyNamed'
      BY <1>8 DEF vars, Inv, TypeOK, ReplyNamed
    <2> QED
      BY <2>1, <2>2 DEF Inv
  <1> QED
    BY <1>1, <1>2, <1>3, <1>4, <1>6, <1>7, <1>8 DEF Next

-----------------------------------------------------------------------------
(* The theorems *)

\* The inductive invariant holds in every state of every execution.
THEOREM InvHolds == Spec => []Inv
  <1>1. Init => Inv
    BY InitInv
  <1>2. Inv /\ [Next]_vars => Inv'
    BY NextInv
  <1> QED
    BY <1>1, <1>2, PTL DEF Spec

\* The table, the messages and the calls in progress keep their types: in
\* particular next_ask_id and every stored id stay within IdSpace.
THEOREM TypesAreCorrect == Spec => []TypeOK
  BY InvHolds, PTL DEF Inv

\* An ask sits in at most one slot of ask_table; while it is there it was
\* begun, is not cancelled and has had no callback.
THEOREM BookkeepingHolds == Spec => []AskBookkeeping
  BY InvHolds, PTL DEF Inv, Safe

\* Correlation ids of pending asks are distinct and never 0, through every
\* wrap-around of the counter and whatever is cancelled, answered or timed out.
THEOREM PendingIdsAreUnique == Spec => []UniqueIds
  BY InvHolds, PTL DEF Inv, Safe

\* The callback of an ask runs at most once, however replies, error replies,
\* timeouts, cancellations and restarts interleave.
THEOREM CallbackRunsAtMostOnce == Spec => []AtMostOneCallback
  BY InvHolds, PTL DEF Inv, Safe

\* A cancelled ask has no callback, before or after.
THEOREM CancelledAskHasNoCallback == Spec => []CancelPreventsCallback
  BY InvHolds, PTL DEF Inv, Safe
=============================================================================
