-------------------------- MODULE ZephyrPortProofs --------------------------
(***************************************************************************)
(* Proofs about the Zephyr port, for every number of actors, every use     *)
(* they make of delayed sends, asks, failures and stops, on one core or on *)
(* several, and for every size of the timeout pool: the delayed message is *)
(* never overwritten while it is sent, each actor's delayed work           *)
(* implements the slot of module DelaySlot, and the pool of ask timeouts   *)
(* loses and repeats none, although k_thread_abort ends actors anywhere.   *)
(***************************************************************************)
EXTENDS ZephyrPort, TLAPS

-----------------------------------------------------------------------------
(* The inductive invariant *)

\* Until ipc_start_all_actors returns nobody sends, so no handler runs.
Starting ==
    pc[Main] = "start" =>
        /\ call[Main].target \in Actor
        /\ wq = Idle
        /\ \A w \in Work : work[w] = "idle"
        /\ \A a \in Actor : pc[a] \in {"new", "wait"} /\ queue[a] = 0

\* delay_lock is held from the cancellation on, so that nobody schedules the
\* cancelled work meanwhile.
Flushing ==
    \A t \in Thread :
        /\ pc[t] \in {"lock", "flush"} => call[t].target \in Actor
        /\ pc[t] = "flush" => /\ delay_lock[call[t].target] = t
                              /\ work[call[t].target] \in {"idle", "running"}

\* The work items of delayed sends: what is scheduled has not fired, and a
\* handler that is about to send holds its item in state "running", which is
\* what k_work_flush waits for.
DelayInv ==
    /\ \A a \in Actor : work[a] \in {"scheduled", "queued"} =>
                          delayed[a] # 0 /\ delayed[a] \notin fired[a]
    /\ wq.step = "send" => /\ wq.item \in Actor
                           /\ work[wq.item] = "running"
                           /\ wq.arg = delayed[wq.item]

\* Calls under way that carry a message or an ask of their own.
Carries(t) == call[t].op \in {"send_after", "ask"}

\* Their serials are not in use yet, by any other call, slot or pool entry.
FreshCalls ==
    /\ \A t \in Thread : Carries(t) => call[t].arg \in 1 .. calls
    /\ \A t, u \in Thread : t # u /\ Carries(t) /\ Carries(u) => call[t].arg # call[u].arg
    /\ \A t \in Thread : call[t].op = "ask" => call[t].arg \notin armed
    /\ \A t \in Thread, a \in Actor :
          call[t].op = "send_after" => call[t].arg # delayed[a] /\ call[t].arg \notin fired[a]
    /\ \A t \in Thread : pc[t] \in {"arm", "arming"} => call[t].op = "ask"
    /\ \A s \in armed : s <= calls
    /\ \A a \in Actor : delayed[a] <= calls /\ \A s \in fired[a] : s <= calls

\* The pool: a used entry belongs to an ask whose timeout is armed and on its
\* way, an unused one is not scheduled, and nothing armed is missing.
PoolInv ==
    /\ wq.step \in {"take", "expire", "post", "undo"} => wq.item \in Slot
    /\ wq.step = "take" => ask_timeouts[wq.item].used /\ work[wq.item] = "running"
    /\ \A i \in Slot : ask_timeouts[i].used =>
          /\ OnItsWay(i)
          /\ ask_timeouts[i].ask \in armed
          /\ expired[ask_timeouts[i].ask] = 0
    /\ \A i \in Slot : ~ask_timeouts[i].used => work[i] \in {"idle", "running"}
    /\ \A i, j \in Slot : i # j /\ ask_timeouts[i].used /\ ask_timeouts[j].used =>
          ask_timeouts[i].ask # ask_timeouts[j].ask
    /\ \A s \in armed : expired[s] = 0 =>
          \E i \in Slot : ask_timeouts[i].used /\ ask_timeouts[i].ask = s
    /\ \A s \in Serial : expired[s] <= 1 /\ (expired[s] > 0 => s \in armed)

Inv == TypeOK /\ Starting /\ Flushing /\ DelayInv /\ FreshCalls /\ PoolInv

-----------------------------------------------------------------------------
(* Type correctness *)

LEMMA Sets == /\ N \in Nat /\ N >= 1 /\ MaxCalls \in Nat /\ QueueDepth \in Nat
              /\ Actor \subseteq Thread /\ Main \in Thread /\ Main \notin Actor /\ 1 \in Actor
              /\ Actor \subseteq Work /\ Slot \subseteq Work
              /\ \A w \in Work : w \in Actor \/ w \in Slot
              /\ \A w : ~(w \in Actor /\ w \in Slot)
              /\ 0 \notin Work /\ Free \notin Thread
              /\ Delayers \subseteq Thread /\ Stoppers \subseteq Thread
              /\ Askers \subseteq Actor /\ Targets \subseteq Actor
  BY SizeAssumption, ThreadAssumption DEF Actor, Thread, Main, Slot, Work, Free

LEMMA NoCallType == NoCall \in Call
  BY SizeAssumption DEF NoCall, Call, Op

\* Setting one entry keeps the mailboxes within their depth.
LEMMA QueueType == ASSUME TypeOK, NEW a, NEW v, a \in Actor => v \in 0 .. QueueDepth
                   PROVE  [queue EXCEPT ![a] = v] \in [Actor -> 0 .. QueueDepth]
  BY DEF TypeOK

\* The steps that begin a call
LEMMA UserStepType == ASSUME TypeOK, UserStep
                      PROVE  TypeOK'
  <1>1. ASSUME NEW t \in Delayers, NEW a \in Targets, SendAfter(t, a)
        PROVE  TypeOK'
    <2>1. t \in Thread /\ a \in 0 .. N /\ calls + 1 \in 0 .. MaxCalls
      BY <1>1, Sets, SizeAssumption, ThreadAssumption DEF TypeOK, SendAfter, Actor
    <2>2. [op |-> "send_after", target |-> a, arg |-> calls + 1] \in Call
      BY <2>1 DEF Call, Op
    <2> QED
      BY <1>1, <2>1, <2>2 DEF TypeOK, SendAfter, Enter, Goto, ThreadState, locks
  <1>2. ASSUME NEW a \in Actor, Fail(a)
        PROVE  TypeOK'
    <2>1. a \in Thread /\ fails + 1 \in 0 .. MaxFails
      BY <1>2, Sets, SizeAssumption DEF TypeOK, Fail
    <2>2. [op |-> IF a \in StopActors THEN "stop" ELSE "restart", target |-> a, arg |-> 0] \in Call
      BY <2>1, SizeAssumption DEF Call, Op, Thread
    <2> QED
      BY <1>2, <2>1, <2>2 DEF TypeOK, Fail, Enter, Goto, ThreadState, locks
  <1>3. ASSUME NEW t \in Stoppers, StopAll(t)
        PROVE  TypeOK'
    <2>1. t \in Thread /\ [op |-> "stop_all", target |-> 1, arg |-> 0] \in Call
      BY SizeAssumption, Sets DEF Call, Op
    <2> QED
      BY <1>3, <2>1 DEF TypeOK, StopAll, Enter, Goto, ThreadState, locks, history
  <1>4. ASSUME NEW t \in Askers, Ask(t)
        PROVE  TypeOK'
    <2>1. t \in Thread /\ calls + 1 \in 0 .. MaxCalls
      BY <1>4, Sets, SizeAssumption DEF TypeOK, Ask
    <2>2. [op |-> "ask", target |-> 0, arg |-> calls + 1] \in Call
      BY <2>1, SizeAssumption DEF Call, Op
    <2> QED
      BY <1>4, <2>1, <2>2 DEF TypeOK, Ask, Enter, Goto, ThreadState, locks
  <1>5. ASSUME NEW t \in Askers, NEW s \in Serial, EndAsk(t, s)
        PROVE  TypeOK'
    <2>1. t \in Thread /\ [op |-> "end", target |-> 0, arg |-> s] \in Call
      BY SizeAssumption, Sets DEF Call, Op, Serial
    <2> QED
      BY <1>5, <2>1 DEF TypeOK, EndAsk, Enter, Goto, ThreadState, locks, history
  <1> QED
    BY <1>1, <1>2, <1>3, <1>4, <1>5 DEF UserStep

\* The steps of a thread inside a call
LEMMA CallStepType == ASSUME TypeOK, FreshCalls, NEW t \in Thread, CallStep(t)
                      PROVE  TypeOK'
  <1>c. call[t] \in Call /\ call \in [Thread -> Call]
    BY DEF TypeOK
  <1>1. CASE t = Main /\ StartActor
    <2>1. call[Main] \in Call /\ Main \in Thread
      BY Sets DEF TypeOK
    <2>2. call' \in [Thread -> Call]
      <3>1. call[Main].target < N =>
              [call[Main] EXCEPT !.target = call[Main].target + 1] \in Call
        BY <2>1, Sets DEF Call
      <3> QED
        BY <1>1, <2>1, <3>1, NoCallType DEF TypeOK, StartActor
    <2> QED
      <3>1. queue' \in [Actor -> 0 .. QueueDepth]
        BY <1>1, Sets, QueueType DEF StartActor
      <3>2. pc' \in [Thread -> ThreadState]
        BY <1>1 DEF TypeOK, StartActor, ThreadState
      <3>3. work' \in [Work -> WorkState] /\ delay_lock' \in [Actor -> Thread \cup {Free}]
        BY <1>1 DEF TypeOK, StartActor, WorkState
      <3> QED
        BY <1>1, <2>2, <3>1, <3>2, <3>3 DEF TypeOK, StartActor, history
  <1>2. CASE Cancel(t)
    BY <1>2 DEF TypeOK, Cancel, Goto, ThreadState, WorkState, history
  <1>3. CASE Install(t)
    <2>1. call[t].arg \in 0 .. MaxCalls
      BY <1>c DEF Call
    <2> QED
      BY <1>3, <2>1, NoCallType DEF TypeOK, Install, Flushed, Leave, Enter, Goto, ThreadState,
         WorkState, history
  <1>4. CASE Cancelled(t)
    BY <1>4 DEF TypeOK, Cancelled, Flushed, Goto, ThreadState, history
  <1>5. CASE Purge(t)
    <2>1. queue' \in [Actor -> 0 .. QueueDepth]
      BY <1>5, Sets, QueueType DEF Purge
    <2> QED
      BY <1>5, <2>1, NoCallType DEF TypeOK, Purge, Leave, Enter, Goto, ThreadState, locks, history
  <1>6. CASE Abort(t)
    <2>1. call' \in [Thread -> Call]
      <3>1. call[t].target < N => [call[t] EXCEPT !.target = call[t].target + 1] \in Call
        BY <1>c, Sets DEF Call
      <3> QED
        BY <1>6, <1>c, <3>1, NoCallType DEF Abort, Enter
    <2>2. pc' \in [Thread -> ThreadState]
      BY <1>6 DEF TypeOK, Abort, Enter, Goto, ThreadState
    <2> QED
      BY <1>6, <2>1, <2>2 DEF TypeOK, Abort, locks, history
  <1>7. CASE LockAsks(t)
    BY <1>7 DEF TypeOK, LockAsks, Goto, ThreadState, history
  <1>8. CASE UnlockAsks(t)
    <2>1. status' \in [Serial -> [state : Status, actor : 0 .. N]]
      <3>1. [state |-> "pending", actor |-> t] \in [state : Status, actor : 0 .. N]
        BY DEF Status, Thread
      <3>2. CASE call[t].op = "ask"
        <4>1. status' = [status EXCEPT ![call[t].arg] = [state |-> "pending", actor |-> t]]
          BY <1>8, <3>2 DEF UnlockAsks
        <4> QED
          BY <3>1, <4>1 DEF TypeOK
      <3>3. CASE call[t].op # "ask"
        <4>1. status' = [status EXCEPT ![call[t].arg].state = "over"]
          BY <1>8, <3>3 DEF UnlockAsks
        <4> QED
          BY <4>1 DEF TypeOK, Status
      <3> QED
        BY <3>2, <3>3
    <2> QED
      BY <1>8, <2>1, NoCallType DEF TypeOK, UnlockAsks, Leave, Enter, Goto, ThreadState, history
  <1>9. CASE LockPool(t)
    BY <1>9 DEF TypeOK, LockPool, Goto, ThreadState, history
  <1>10. CASE Arm(t)
    <2>1. call[t].arg \in 0 .. MaxCalls /\ call[t].arg \in Serial
      BY <1>10, <1>c, SizeAssumption DEF Call, FreshCalls, Carries, Arm, At, Serial, TypeOK
    <2>2. ask_timeouts' \in [Slot -> [used : BOOLEAN, ask : 0 .. MaxCalls]]
      BY <1>10, <2>1 DEF TypeOK, Arm
    <2>3. work' \in [Work -> WorkState]
      BY <1>10 DEF TypeOK, Arm, WorkState
    <2>4. pc' \in [Thread -> ThreadState] /\ call' \in [Thread -> Call]
      BY <1>10, NoCallType DEF TypeOK, Arm, Leave, Enter, Goto, ThreadState
    <2> QED
      BY <1>10, <2>1, <2>2, <2>3, <2>4 DEF TypeOK, Arm
  <1>11. CASE ArmFails(t)
    <2>1. [call[t] EXCEPT !.op = "withdraw"] \in Call
      BY <1>c DEF Call, Op
    <2> QED
      BY <1>11, <2>1 DEF TypeOK, ArmFails, Enter, Goto, ThreadState, history
  <1> QED
    BY <1>1, <1>2, <1>3, <1>4, <1>5, <1>6, <1>7, <1>8, <1>9, <1>10, <1>11 DEF CallStep

\* The steps of the system workqueue
LEMMA WorkqueueType == ASSUME TypeOK, DelayInv, PoolInv, WorkqueueStep
                       PROVE  TypeOK'
  <1>d. ASSUME WorkDone
        PROVE  /\ wq' \in [item : Work \cup {0}, step : WqStep, arg : 0 .. MaxCalls]
               /\ work' \in [Work -> WorkState]
    <2>1. Idle \in [item : Work \cup {0}, step : WqStep, arg : 0 .. MaxCalls]
      BY SizeAssumption DEF Idle, WqStep
    <2> QED
      BY <1>d, <2>1 DEF TypeOK, WorkDone, WorkState
  <1>w. wq \in [item : Work \cup {0}, step : WqStep, arg : 0 .. MaxCalls]
    BY DEF TypeOK
  <1>1. ASSUME NEW w \in Work, WorkBegin(w)
        PROVE  TypeOK'
    <2>1. work' \in [Work -> WorkState]
      BY <1>1 DEF TypeOK, WorkBegin, WorkState
    <2>2. wq' \in [item : Work \cup {0}, step : WqStep, arg : 0 .. MaxCalls]
      BY <1>1, SizeAssumption DEF TypeOK, WorkBegin, WqStep
    <2>3. fired' \in [Actor -> SUBSET Serial]
      <3>1. CASE w \in Actor
        <4>1. delayed[w] \in Serial
          BY <1>1, <3>1, SizeAssumption DEF TypeOK, DelayInv, WorkBegin, Serial
        <4>2. fired' = fired \/ fired' = [fired EXCEPT ![w] = @ \cup {delayed[w]}]
          BY <1>1 DEF WorkBegin
        <4> QED
          BY <3>1, <4>1, <4>2 DEF TypeOK
      <3>2. CASE w \notin Actor
        BY <1>1, <3>2 DEF TypeOK, WorkBegin
      <3> QED
        BY <3>1, <3>2
    <2> QED
      BY <1>1, <2>1, <2>2, <2>3 DEF TypeOK, WorkBegin, locks
  <1>2. CASE DelayedSend
    <2>1. wq.item \in Actor
      BY <1>2 DEF DelayInv, DelayedSend
    <2>2. queue[wq.item] \in 0 .. QueueDepth
      BY <2>1 DEF TypeOK
    <2>3. queue' \in [Actor -> 0 .. QueueDepth]
      BY <1>2, <2>2, Sets, QueueType DEF DelayedSend, Room
    <2> QED
      BY <1>2, <1>d, <2>3 DEF TypeOK, DelayedSend, locks, history
  <1>3. CASE Take
    <2>1. wq.item \in Slot /\ ask_timeouts[wq.item].ask \in 0 .. MaxCalls
      BY <1>3 DEF PoolInv, Take, TypeOK
    <2>2. wq' \in [item : Work \cup {0}, step : WqStep, arg : 0 .. MaxCalls]
      BY <1>3, <1>w, <2>1 DEF Take, WqStep
    <2>3. ask_timeouts' \in [Slot -> [used : BOOLEAN, ask : 0 .. MaxCalls]]
      BY <1>3, <2>1 DEF TypeOK, Take
    <2>4. expired' \in [Serial -> Nat]
      <3> DEFINE s == ask_timeouts[wq.item].ask
      <3>1. expired' = [expired EXCEPT ![s] = @ + 1] /\ expired \in [Serial -> Nat]
        BY <1>3 DEF TypeOK, Take
      <3> HIDE DEF s
      <3>2. CASE s \in Serial
        BY <3>1, <3>2
      <3>3. CASE s \notin Serial
        BY <3>1, <3>3
      <3> QED
        BY <3>2, <3>3
    <2> QED
      BY <1>3, <2>2, <2>3, <2>4 DEF TypeOK, Take, locks
  <1>4. CASE ExpireAsk
    <2>1. wq' \in [item : Work \cup {0}, step : WqStep, arg : 0 .. MaxCalls]
      BY <1>4, <1>w DEF ExpireAsk, WqStep
    <2>2. status' \in [Serial -> [state : Status, actor : 0 .. N]]
      BY <1>4 DEF TypeOK, ExpireAsk, Status
    <2> QED
      BY <1>4, <2>1, <2>2 DEF TypeOK, ExpireAsk, locks, history
  <1>5. CASE ExpireLate
    BY <1>5, <1>d DEF TypeOK, ExpireLate, locks, history
  <1>6. CASE PostTimeout
    <2> DEFINE a == status[wq.arg].actor
    <2>1. queue' = [queue EXCEPT ![a] = queue[a] + 1] /\ queue[a] < QueueDepth
      BY <1>6 DEF PostTimeout, Room
    <2>2. a \in Actor => queue[a] \in 0 .. QueueDepth
      BY DEF TypeOK
    <2>3. queue' \in [Actor -> 0 .. QueueDepth]
      BY <2>1, <2>2, Sets, QueueType
    <2> QED
      BY <1>6, <1>d, <2>3 DEF TypeOK, PostTimeout, locks, history
  <1>7. CASE PostTimeoutFails
    <2>1. wq' \in [item : Work \cup {0}, step : WqStep, arg : 0 .. MaxCalls]
      BY <1>7, <1>w DEF PostTimeoutFails, WqStep
    <2> QED
      BY <1>7, <2>1 DEF TypeOK, PostTimeoutFails, locks, history
  <1>8. CASE UndoTimeout
    <2>1. status' \in [Serial -> [state : Status, actor : 0 .. N]]
      BY <1>8 DEF TypeOK, UndoTimeout, Status
    <2> QED
      BY <1>8, <1>d, <2>1 DEF TypeOK, UndoTimeout, locks, history
  <1> QED
    BY <1>1, <1>2, <1>3, <1>4, <1>5, <1>6, <1>7, <1>8 DEF WorkqueueStep

LEMMA TypeStep == ASSUME Inv, [Next]_vars
                  PROVE  TypeOK'
  <1>1. CASE UserStep
    BY <1>1, UserStepType DEF Inv
  <1>2. CASE \E t \in Thread : CallStep(t)
    BY <1>2, CallStepType DEF Inv
  <1>3. CASE \E a \in Actor : Send(a)
    BY <1>3, SizeAssumption DEF Inv, TypeOK, Send, Room, locks, history
  <1>4. CASE \E a \in Actor : Get(a)
    <2>1. PICK a \in Actor : Get(a)
      BY <1>4
    <2>2. queue[a] \in 0 .. QueueDepth /\ queue[a] > 0 /\ queue' = [queue EXCEPT ![a] = queue[a] - 1]
      BY <2>1 DEF Inv, TypeOK, Get
    <2>3. queue' \in [Actor -> 0 .. QueueDepth]
      BY <2>2, Sets, QueueType DEF Inv
    <2> QED
      BY <2>1, <2>3 DEF Inv, TypeOK, Get, Goto, ThreadState, locks, history
  <1>5. CASE \E a \in Actor : HandlerReturn(a)
    BY <1>5 DEF Inv, TypeOK, HandlerReturn, Goto, ThreadState, locks, history
  <1>6. CASE \E w \in Work : Expire(w)
    BY <1>6 DEF Inv, TypeOK, Expire, WorkState, locks, history
  <1>7. CASE WorkqueueStep
    BY <1>7, WorkqueueType DEF Inv
  <1>8. CASE UNCHANGED vars
    BY <1>8 DEF Inv, TypeOK, vars
  <1> QED
    BY <1>1, <1>2, <1>3, <1>4, <1>5, <1>6, <1>7, <1>8 DEF Next

-----------------------------------------------------------------------------
(* The start, and who holds delay_lock *)

\* While Main is in ipc_start_all_actors only its own steps change anything.
LEMMA StartingStep == ASSUME Inv, [Next]_vars
                      PROVE  Starting'
  <1>1. CASE pc[Main] # "start"
    <2> SUFFICES pc'[Main] # "start"
      BY DEF Starting
    <2>p. pc \in [Thread -> ThreadState] /\ Main \in Thread
      BY Sets DEF Inv, TypeOK
    <2>1. CASE UserStep
      BY <1>1, <2>p, <2>1 DEF UserStep, SendAfter, Fail, StopAll, Ask, EndAsk, Enter, Goto
    <2>2. ASSUME NEW t \in Thread, CallStep(t)
          PROVE  pc'[Main] # "start"
      <3>1. CASE t = Main /\ StartActor
        BY <1>1, <3>1 DEF StartActor, At
      <3>2. CASE Cancel(t) \/ Install(t) \/ Cancelled(t) \/ Purge(t)
        BY <1>1, <2>p, <3>2 DEF Cancel, Install, Cancelled, Purge, Leave, Enter, Goto
      <3>3. CASE Abort(t)
        BY <1>1, <2>p, <3>3 DEF Abort, Enter, Goto
      <3>4. CASE LockAsks(t) \/ UnlockAsks(t) \/ LockPool(t) \/ Arm(t) \/ ArmFails(t)
        BY <1>1, <2>p, <3>4 DEF LockAsks, UnlockAsks, LockPool, Arm, ArmFails, Leave, Enter, Goto
      <3> QED
        BY <2>2, <3>1, <3>2, <3>3, <3>4 DEF CallStep
    <2>3. CASE \E a \in Actor : Get(a) \/ HandlerReturn(a)
      BY <1>1, <2>p, <2>3 DEF Get, HandlerReturn, Goto
    <2>4. CASE pc' = pc
      BY <1>1, <2>4
    <2>5. CASE WorkqueueStep
      BY <1>1, <2>5 DEF WorkqueueStep, WorkBegin, DelayedSend, Take, ExpireAsk, ExpireLate,
         PostTimeout, PostTimeoutFails, UndoTimeout
    <2> QED
      BY <2>1, <2>2, <2>3, <2>4, <2>5 DEF Next, Send, Expire, vars
  <1>2. CASE pc[Main] = "start"
    <2>1. /\ call[Main].target \in Actor /\ wq = Idle /\ \A w \in Work : work[w] = "idle"
          /\ \A a \in Actor : pc[a] \in {"new", "wait"} /\ queue[a] = 0
      BY <1>2 DEF Inv, Starting
    <2>2. \A t \in Thread : t = Main \/ t \in Actor
      BY DEF Thread, Actor, Main
    <2>3. ASSUME Next
          PROVE  StartActor
      <3>1. ~UserStep
        BY <1>2, <2>1, <2>2, Sets DEF UserStep, SendAfter, Fail, StopAll, Ask, EndAsk, At
      <3>2. ~WorkqueueStep
        BY <2>1 DEF WorkqueueStep, WorkBegin, DelayedSend, Take, ExpireAsk, ExpireLate,
           PostTimeout, PostTimeoutFails, UndoTimeout, Idle
      <3>3. ASSUME NEW t \in Thread, CallStep(t)
            PROVE  StartActor
        BY <1>2, <2>1, <2>2, <3>3 DEF CallStep, Cancel, Install, Cancelled, Flushed, Purge,
           Abort, LockAsks, UnlockAsks, LockPool, Arm, ArmFails, At
      <3>4. \A a \in Actor : ~Send(a) /\ ~Get(a) /\ ~HandlerReturn(a)
        BY <1>2, <2>1, Sets DEF Send, Get, HandlerReturn, At
      <3>5. \A w \in Work : ~Expire(w)
        BY <2>1 DEF Expire
      <3> QED
        BY <2>3, <3>1, <3>2, <3>3, <3>4, <3>5 DEF Next
    <2>4. CASE StartActor
      <3>1. /\ wq' = Idle /\ \A w \in Work : work'[w] = "idle"
            /\ \A a \in Actor : queue'[a] = 0
        BY <2>1, <2>4 DEF StartActor, Inv, TypeOK
      <3>2. \A a \in Actor : pc'[a] \in {"new", "wait"}
        BY <2>1, <2>4, Sets DEF StartActor, Inv, TypeOK
      <3>3. pc'[Main] = "start" => call'[Main].target \in Actor
        <4>1. call[Main] \in Call /\ Main \in Thread /\ call[Main].target # Main
          BY <2>1, Sets DEF Inv, TypeOK
        <4>2. pc'[Main] = "start" => call[Main].target < N
          BY <2>4, <4>1, Sets DEF StartActor, Inv, TypeOK
        <4>3. call[Main].target < N => call'[Main] = [call[Main] EXCEPT !.target = call[Main].target + 1]
          BY <2>4, <4>1 DEF StartActor, Inv, TypeOK
        <4>4. call[Main].target < N => call'[Main].target = call[Main].target + 1
          BY <4>1, <4>3 DEF Call
        <4> QED
          BY <2>1, <4>2, <4>4, Sets DEF Actor
      <3> QED
        BY <3>1, <3>2, <3>3 DEF Starting
    <2>5. CASE UNCHANGED vars
      BY <1>2, <2>1, <2>5 DEF vars, Starting
    <2> QED
      BY <2>3, <2>4, <2>5
  <1> QED
    BY <1>1, <1>2

\* A thread in k_work_flush holds delay_lock: only it, or the start of a new
\* generation, releases or reschedules.
LEMMA FlushingStep == ASSUME Inv, [Next]_vars
                      PROVE  Flushing'
  <1>t. /\ pc \in [Thread -> ThreadState] /\ call \in [Thread -> Call]
        /\ work \in [Work -> WorkState] /\ delay_lock \in [Actor -> Thread \cup {Free}]
    BY DEF Inv, TypeOK
  <1>f. ASSUME NEW t \in Thread
        PROVE  /\ pc[t] \in {"lock", "flush"} => call[t].target \in Actor /\ call[t].target \in Work
               /\ pc[t] = "flush" => /\ delay_lock[call[t].target] = t
                                     /\ work[call[t].target] \in {"idle", "running"}
    BY Sets DEF Inv, Flushing
  <1>w. Actor \subseteq Work /\ \A a \in Actor : a \notin Slot
    BY Sets
  <1>1. CASE UserStep
    <2>1. /\ work' = work /\ delay_lock' = delay_lock
          /\ \A t \in Thread : \/ pc'[t] = pc[t] /\ call'[t] = call[t]
                               \/ pc'[t] = "lock" /\ call'[t].target \in Actor
                               \/ pc'[t] = "spin"
      BY <1>1, <1>t, Sets DEF UserStep, SendAfter, Fail, StopAll, Ask, EndAsk, Enter, Goto, locks
    <2> QED
      BY <1>f, <2>1 DEF Flushing
  <1>2. ASSUME NEW u \in Thread, CallStep(u)
        PROVE  Flushing'
    <2>1. CASE u = Main /\ StartActor
      <3>1. \A t \in Thread : pc'[t] \notin {"lock", "flush"}
        <4>1. \A t \in Thread : t = Main \/ t \in Actor
          BY DEF Thread, Actor, Main
        <4>2. pc[Main] = "start" /\ \A a \in Actor : pc[a] \in {"new", "wait"}
          BY <2>1 DEF StartActor, At, Inv, Starting
        <4> QED
          BY <1>t, <2>1, <4>1, <4>2, Sets DEF StartActor
      <3> QED
        BY <3>1 DEF Flushing
    <2>2. CASE Cancel(u)
      <3> DEFINE a == call[u].target
      <3>1. /\ a \in Actor /\ delay_lock[a] = Free
            /\ delay_lock' = [delay_lock EXCEPT ![a] = u]
            /\ work' = [work EXCEPT ![a] = IF @ = "running" THEN @ ELSE "idle"]
            /\ pc' = [pc EXCEPT ![u] = "flush"] /\ call' = call
        BY <1>f, <2>2 DEF Cancel, At, Goto
      <3>2. \A t \in Thread : pc[t] = "flush" => call[t].target # a
        BY <1>f, <3>1, Sets
      <3> QED
        BY <1>t, <1>f, <1>w, <3>1, <3>2 DEF Flushing
    <2>3. CASE Install(u) \/ Cancelled(u)
      <3> DEFINE a == call[u].target
      <3>1. /\ pc[u] = "flush" /\ a \in Actor /\ delay_lock[a] = u
            /\ delay_lock' = [delay_lock EXCEPT ![a] = Free]
            /\ \A w \in Work : w # a => work'[w] = work[w]
            /\ \A t \in Thread : t # u => pc'[t] = pc[t] /\ call'[t] = call[t]
            /\ pc'[u] \notin {"lock", "flush"}
        BY <1>t, <1>f, <2>3 DEF Install, Cancelled, Flushed, At, Leave, Enter, Goto
      <3>2. \A t \in Thread : t # u /\ pc[t] = "flush" => call[t].target # a
        BY <1>f, <3>1
      <3> QED
        BY <1>t, <1>f, <1>w, <3>1, <3>2 DEF Flushing
    <2>4. CASE Abort(u)
      <3> DEFINE a == call[u].target
      <3>1. /\ work' = work /\ delay_lock' = delay_lock
            /\ \A t \in Thread : t # u /\ t # a => pc'[t] = pc[t] /\ call'[t] = call[t]
        BY <1>t, <2>4 DEF Abort, Enter, Goto, locks
      <3>2. a # u => pc'[a] \notin {"lock", "flush"} \/ a \notin Thread
        BY <1>t, <2>4 DEF Abort, Enter, Goto
      <3>3. pc'[u] # "flush"
        BY <1>t, <2>4 DEF Abort, Enter, Goto
      <3>4. pc'[u] = "lock" => call'[u].target \in Actor
        <4>1. ASSUME pc'[u] = "lock"
              PROVE  a < N /\ call'[u] = [call[u] EXCEPT !.target = a + 1]
          BY <1>t, <2>4, <4>1 DEF Abort, Enter, Goto
        <4>2. call[u] \in Call
          BY <1>t
        <4> QED
          BY <4>1, <4>2, Sets DEF Call, Actor
      <3> HIDE DEF a
      <3>5. ASSUME NEW t \in Thread
            PROVE  /\ pc'[t] \in {"lock", "flush"} => call'[t].target \in Actor
                   /\ pc'[t] = "flush" => /\ delay_lock'[call'[t].target] = t
                                          /\ work'[call'[t].target] \in {"idle", "running"}
        BY <1>f, <3>1, <3>2, <3>3, <3>4
      <3> QED
        BY <3>5 DEF Flushing
    <2>5. CASE Arm(u)
      <3>1. /\ delay_lock' = delay_lock
            /\ \A w \in Work : w \notin Slot => work'[w] = work[w]
            /\ \A t \in Thread : t # u => pc'[t] = pc[t] /\ call'[t] = call[t]
            /\ pc'[u] = "user"
        BY <1>t, <2>5 DEF Arm, Leave, Enter, Goto
      <3> QED
        BY <1>f, <1>w, <3>1 DEF Flushing
    <2>6. CASE Purge(u) \/ LockAsks(u) \/ UnlockAsks(u) \/ LockPool(u) \/ ArmFails(u)
      <3>1. /\ delay_lock' = delay_lock /\ work' = work
            /\ \A t \in Thread : t # u => pc'[t] = pc[t] /\ call'[t] = call[t]
            /\ pc'[u] \notin {"lock", "flush"}
        BY <1>t, <2>6 DEF Purge, LockAsks, UnlockAsks, LockPool, ArmFails, Leave, Enter, Goto, locks
      <3> QED
        BY <1>f, <3>1 DEF Flushing
    <2> QED
      BY <1>2, <2>1, <2>2, <2>3, <2>4, <2>5, <2>6 DEF CallStep
  <1>3. CASE \E a \in Actor : Get(a) \/ HandlerReturn(a)
    <2>1. /\ delay_lock' = delay_lock /\ work' = work /\ call' = call
          /\ \A t \in Thread : pc'[t] = pc[t] \/ pc'[t] \in {"user", "wait"}
      BY <1>t, <1>3 DEF Get, HandlerReturn, Goto, locks
    <2> QED
      BY <1>f, <2>1 DEF Flushing
  <1>4. CASE pc' = pc /\ call' = call /\ delay_lock' = delay_lock
              /\ \A w \in Work : work'[w] = work[w] \/ work[w] \in {"scheduled", "queued"}
                                \/ work'[w] = "idle"
    BY <1>f, <1>4 DEF Flushing
  <1>5. ASSUME NEW w \in Work, Expire(w)
        PROVE  /\ pc' = pc /\ call' = call /\ delay_lock' = delay_lock
               /\ \A v \in Work : work'[v] = work[v] \/ work[v] \in {"scheduled", "queued"}
    BY <1>t, <1>5 DEF Expire, locks
  <1>6. ASSUME WorkqueueStep
        PROVE  /\ pc' = pc /\ call' = call /\ delay_lock' = delay_lock
               /\ \A v \in Work : work'[v] = work[v] \/ work[v] \in {"scheduled", "queued"}
                                 \/ work'[v] = "idle"
    <2>1. CASE \E w \in Work : WorkBegin(w)
      BY <1>t, <2>1 DEF WorkBegin, locks
    <2>2. CASE WorkDone
      BY <1>t, <1>6, <2>2 DEF WorkqueueStep, WorkBegin, DelayedSend, Take, ExpireAsk, ExpireLate,
         PostTimeout, PostTimeoutFails, UndoTimeout, WorkDone, locks
    <2>3. CASE Take \/ ExpireAsk \/ PostTimeoutFails
      BY <2>3 DEF Take, ExpireAsk, PostTimeoutFails, locks
    <2> QED
      BY <1>6, <2>1, <2>2, <2>3 DEF WorkqueueStep, DelayedSend, ExpireLate, PostTimeout, UndoTimeout
  <1>7. CASE pc' = pc /\ call' = call /\ delay_lock' = delay_lock /\ work' = work
    BY <1>4, <1>7
  <1> QED
    BY <1>1, <1>2, <1>3, <1>4, <1>5, <1>6, <1>7 DEF Next, Send, locks, vars

-----------------------------------------------------------------------------
(* The delayed message *)

\* A message is scheduled under delay_lock and after the flush, by a call
\* whose message is new; a handler that runs keeps "running" until it is done.
LEMMA DelayStep == ASSUME Inv, [Next]_vars
                   PROVE  DelayInv'
  <1>t. /\ call \in [Thread -> Call] /\ work \in [Work -> WorkState]
        /\ delayed \in [Actor -> 0 .. MaxCalls] /\ fired \in [Actor -> SUBSET Serial]
        /\ wq \in [item : Work \cup {0}, step : WqStep, arg : 0 .. MaxCalls]
    BY DEF Inv, TypeOK
  <1>d. /\ \A a \in Actor : work[a] \in {"scheduled", "queued"} =>
                              delayed[a] # 0 /\ delayed[a] \notin fired[a]
        /\ wq.step = "send" => wq.item \in Actor /\ work[wq.item] = "running"
                               /\ wq.arg = delayed[wq.item]
    BY DEF Inv, DelayInv
  <1>w. Actor \subseteq Work /\ \A a \in Actor : a \notin Slot
    BY Sets
  <1>1. ASSUME StartActor
        PROVE  DelayInv'
    <2>1. wq.step # "send" /\ wq' = wq /\ delayed' = delayed /\ fired' = fired
          /\ \A a \in Actor : work'[a] = "idle"
      BY <1>1, <1>t, <1>w DEF StartActor, At, Inv, Starting, Idle, history
    <2> QED
      BY <2>1 DEF DelayInv
  <1>2. ASSUME NEW t \in Thread, Cancel(t)
        PROVE  DelayInv'
    <2>1. /\ wq' = wq /\ delayed' = delayed /\ fired' = fired
          /\ work' = [work EXCEPT ![call[t].target] = IF @ = "running" THEN @ ELSE "idle"]
      BY <1>2 DEF Cancel, history
    <2> QED
      BY <1>t, <1>d, <1>w, <2>1 DEF DelayInv
  <1>3. ASSUME NEW t \in Thread, Install(t)
        PROVE  DelayInv'
    <2> DEFINE a == call[t].target
    <2>1. /\ a \in Actor /\ work[a] # "running" /\ call[t].op = "send_after"
          /\ wq' = wq /\ fired' = fired
          /\ delayed' = [delayed EXCEPT ![a] = call[t].arg]
          /\ work' = [work EXCEPT ![a] = "scheduled"]
      BY <1>3 DEF Install, Flushed, At, Inv, Flushing, history
    <2>2. call[t].arg # 0 /\ call[t].arg \notin fired[a]
      BY <2>1 DEF Inv, FreshCalls, Carries
    <2> QED
      BY <1>t, <1>d, <1>w, <2>1, <2>2 DEF DelayInv
  <1>4. ASSUME NEW t \in Thread, Arm(t)
        PROVE  DelayInv'
    <2>1. /\ wq' = wq /\ delayed' = delayed /\ fired' = fired
          /\ \A a \in Actor : work'[a] = work[a]
      BY <1>4, <1>t, <1>w DEF Arm
    <2> QED
      BY <1>d, <2>1 DEF DelayInv
  <1>5. ASSUME NEW w \in Work, Expire(w)
        PROVE  DelayInv'
    <2>1. /\ wq' = wq /\ delayed' = delayed /\ fired' = fired
          /\ work[w] = "scheduled" /\ work' = [work EXCEPT ![w] = "queued"]
      BY <1>5 DEF Expire, history
    <2> QED
      BY <1>t, <1>d, <1>w, <2>1 DEF DelayInv
  <1>6. ASSUME NEW w \in Work, WorkBegin(w)
        PROVE  DelayInv'
    <2>1. /\ delayed' = delayed /\ work' = [work EXCEPT ![w] = "running"]
          /\ \A a \in Actor : a # w => fired'[a] = fired[a]
          /\ wq'.step = "send" => w \in Actor /\ wq'.item = w /\ wq'.arg = delayed[w]
      BY <1>6, <1>t DEF WorkBegin
    <2> QED
      BY <1>t, <1>d, <1>w, <2>1 DEF DelayInv
  <1>7. ASSUME WorkDone, delayed' = delayed, fired' = fired
        PROVE  DelayInv'
    <2>1. wq'.step = "idle" /\ \A a \in Actor : work'[a] = work[a] \/ work'[a] = "idle"
      BY <1>7, <1>t, <1>w DEF WorkDone, Idle
    <2> QED
      BY <1>7, <1>d, <2>1 DEF DelayInv
  <1>8. ASSUME Take \/ ExpireAsk \/ PostTimeoutFails
        PROVE  DelayInv'
    <2>1. wq'.step # "send" /\ work' = work /\ delayed' = delayed /\ fired' = fired
      BY <1>8, <1>t DEF Take, ExpireAsk, PostTimeoutFails, history
    <2> QED
      BY <1>d, <2>1 DEF DelayInv
  <1>9. ASSUME UNCHANGED <<work, wq, delayed, fired>>
        PROVE  DelayInv'
    BY <1>9, <1>d DEF DelayInv
  <1>10. CASE WorkqueueStep
    BY <1>6, <1>7, <1>8, <1>10 DEF WorkqueueStep, DelayedSend, ExpireLate, PostTimeout,
       UndoTimeout, history
  <1>11. CASE \E t \in Thread : CallStep(t)
    BY <1>1, <1>2, <1>3, <1>4, <1>9, <1>11 DEF CallStep, Cancelled, Flushed, Purge, Abort,
       LockAsks, UnlockAsks, LockPool, ArmFails, history
  <1>12. CASE UserStep
    BY <1>9, <1>12 DEF UserStep, SendAfter, Fail, StopAll, Ask, EndAsk, history
  <1> QED
    BY <1>5, <1>9, <1>10, <1>11, <1>12 DEF Next, Send, Get, HandlerReturn, vars, history

-----------------------------------------------------------------------------
(* Serials *)

\* A call that begins takes the next serial; one that ends hands it over to
\* the slot or the pool and keeps no claim to it.
LEMMA FreshStep == ASSUME Inv, [Next]_vars
                   PROVE  FreshCalls'
  <1>t. /\ pc \in [Thread -> ThreadState] /\ call \in [Thread -> Call]
        /\ delayed \in [Actor -> 0 .. MaxCalls] /\ fired \in [Actor -> SUBSET Serial]
        /\ calls \in 0 .. MaxCalls /\ armed \in SUBSET Serial
        /\ Serial \subseteq Nat /\ calls \in Nat
    BY SizeAssumption DEF Inv, TypeOK, Serial
  <1>n. NoCall.op = "none"
    BY DEF NoCall
  <1>1. ASSUME NEW t \in Thread, NEW c \in Call, c.arg = calls + 1, calls' = calls + 1,
               call' = [call EXCEPT ![t] = c], pc' = [pc EXCEPT ![t] = "lock"] \/
               pc' = [pc EXCEPT ![t] = "spin"],
               UNCHANGED <<delayed, fired, armed>>
        PROVE  FreshCalls'
    <2>1. \A u \in Thread : u # t => call'[u] = call[u] /\ pc'[u] = pc[u]
      BY <1>1, <1>t
    <2>2. call'[t] = c /\ pc'[t] \in {"lock", "spin"}
      BY <1>1, <1>t
    <2>3. \A u \in Thread : Carries(u) => call[u].arg \in Nat /\ call[u].arg # calls + 1
      BY <1>t DEF Inv, FreshCalls
    <2>4. \A a \in Actor : calls + 1 # delayed[a] /\ calls + 1 \notin fired[a]
      BY <1>t DEF Inv, FreshCalls
    <2>5. calls + 1 \notin armed
      BY <1>t DEF Inv, FreshCalls
    <2>6. \A u \in Thread : Carries(u)' => call'[u].arg \in 1 .. calls'
      BY <1>1, <1>t, <2>1, <2>2 DEF Inv, FreshCalls, Carries
    <2>7. \A v, u \in Thread : v # u /\ Carries(v)' /\ Carries(u)' => call'[v].arg # call'[u].arg
      BY <1>1, <2>1, <2>2, <2>3 DEF Inv, FreshCalls, Carries
    <2>8. \A u \in Thread : call'[u].op = "ask" => call'[u].arg \notin armed'
      BY <1>1, <2>1, <2>2, <2>5 DEF Inv, FreshCalls
    <2>9. \A u \in Thread, a \in Actor : call'[u].op = "send_after" =>
            call'[u].arg # delayed'[a] /\ call'[u].arg \notin fired'[a]
      BY <1>1, <2>1, <2>2, <2>4 DEF Inv, FreshCalls
    <2>10. \A u \in Thread : pc'[u] \in {"arm", "arming"} => call'[u].op = "ask"
      BY <2>1, <2>2 DEF Inv, FreshCalls
    <2>11. \A s \in armed' : s <= calls'
      BY <1>1, <1>t DEF Inv, FreshCalls
    <2>12. \A a \in Actor : delayed'[a] <= calls' /\ \A s \in fired'[a] : s <= calls'
      BY <1>1, <1>t DEF Inv, FreshCalls
    <2> QED
      BY <2>6, <2>7, <2>8, <2>9, <2>10, <2>11, <2>12 DEF FreshCalls
  <1>2. ASSUME \A u \in Thread : \/ call'[u].op \notin {"send_after", "ask"}
                                 \/ call'[u] = call[u],
               \A u \in Thread : pc'[u] \in {"arm", "arming"} => call'[u].op = "ask",
               calls' = calls, UNCHANGED <<delayed, fired, armed>>
        PROVE  FreshCalls'
    BY <1>2 DEF Inv, FreshCalls, Carries
  <1>3. ASSUME NEW t \in Thread, Install(t)
        PROVE  FreshCalls'
    <2> DEFINE b == call[t].target
               m == call[t].arg
    <2>1. /\ Carries(t) /\ call[t].op = "send_after" /\ delayed' = [delayed EXCEPT ![b] = m]
          /\ call' = [call EXCEPT ![t] = NoCall] /\ pc' = [pc EXCEPT ![t] = "user"]
          /\ UNCHANGED <<calls, fired, armed>>
      BY <1>3 DEF Install, Flushed, Leave, Enter, Goto, history, Carries
    <2>2. \A u \in Thread : u # t => call'[u] = call[u] /\ pc'[u] = pc[u]
      BY <1>t, <2>1
    <2>3. call'[t].op = "none" /\ pc'[t] = "user"
      BY <1>t, <1>n, <2>1
    <2>4. \A a \in Actor : delayed'[a] = delayed[a] \/ delayed'[a] = m
      BY <1>t, <2>1
    <2>5. m \in 1 .. calls /\ \A u \in Thread : u # t /\ Carries(u) => call[u].arg # m
      BY <2>1 DEF Inv, FreshCalls
    <2> HIDE DEF m
    <2>6. \A u \in Thread, a \in Actor : call'[u].op = "send_after" =>
            call'[u].arg # delayed'[a] /\ call'[u].arg \notin fired'[a]
      BY <2>1, <2>2, <2>3, <2>4, <2>5 DEF Inv, FreshCalls, Carries
    <2>7. \A a \in Actor : delayed'[a] <= calls' /\ \A s \in fired'[a] : s <= calls'
      BY <1>t, <2>1, <2>4, <2>5 DEF Inv, FreshCalls
    <2>8. \A u \in Thread : Carries(u)' => u # t /\ Carries(u) /\ call'[u] = call[u]
      BY <2>2, <2>3 DEF Carries
    <2>9. \A u \in Thread : pc'[u] \in {"arm", "arming"} => call'[u].op = "ask"
      BY <2>2, <2>3 DEF Inv, FreshCalls
    <2>10. \A u \in Thread : call'[u].op = "ask" => call'[u].arg \notin armed'
      BY <2>1, <2>2, <2>3 DEF Inv, FreshCalls
    <2> QED
      BY <2>1, <2>6, <2>7, <2>8, <2>9, <2>10 DEF Inv, FreshCalls
  <1>4. ASSUME NEW t \in Thread, Arm(t)
        PROVE  FreshCalls'
    <2> DEFINE m == call[t].arg
    <2>1. /\ Carries(t) /\ armed' = armed \cup {m}
          /\ call' = [call EXCEPT ![t] = NoCall] /\ pc' = [pc EXCEPT ![t] = "user"]
          /\ UNCHANGED <<calls, delayed, fired>>
      BY <1>4 DEF Arm, Leave, Enter, Goto, Carries, Inv, FreshCalls, At
    <2>2. \A u \in Thread : u # t => call'[u] = call[u] /\ pc'[u] = pc[u]
      BY <1>t, <2>1
    <2>3. call'[t].op = "none" /\ pc'[t] = "user"
      BY <1>t, <1>n, <2>1
    <2>5. m \in 1 .. calls /\ \A u \in Thread : u # t /\ Carries(u) => call[u].arg # m
      BY <2>1 DEF Inv, FreshCalls
    <2> HIDE DEF m
    <2>6. \A u \in Thread : call'[u].op = "ask" => call'[u].arg \notin armed'
      BY <2>1, <2>2, <2>3, <2>5 DEF Inv, FreshCalls, Carries
    <2>7. \A s \in armed' : s <= calls'
      BY <1>t, <2>1, <2>5 DEF Inv, FreshCalls
    <2>8. \A u \in Thread : Carries(u)' => u # t /\ Carries(u) /\ call'[u] = call[u]
      BY <2>2, <2>3 DEF Carries
    <2>9. \A u \in Thread : pc'[u] \in {"arm", "arming"} => call'[u].op = "ask"
      BY <2>2, <2>3 DEF Inv, FreshCalls
    <2>10. \A u \in Thread, a \in Actor : call'[u].op = "send_after" =>
            call'[u].arg # delayed'[a] /\ call'[u].arg \notin fired'[a]
      BY <2>1, <2>2, <2>3 DEF Inv, FreshCalls
    <2> QED
      BY <2>1, <2>6, <2>7, <2>8, <2>9, <2>10 DEF Inv, FreshCalls
  <1>5. ASSUME NEW w \in Work, WorkBegin(w)
        PROVE  FreshCalls'
    <2>1. /\ UNCHANGED <<pc, call, calls, delayed, armed>>
          /\ \A a \in Actor : fired'[a] = fired[a] \/ fired'[a] = fired[a] \cup {delayed[a]}
      BY <1>t, <1>5 DEF WorkBegin
    <2>2. \A u \in Thread, a \in Actor : call'[u].op = "send_after" =>
            call'[u].arg # delayed'[a] /\ call'[u].arg \notin fired'[a]
      BY <2>1 DEF Inv, FreshCalls
    <2>3. \A a \in Actor : delayed'[a] <= calls' /\ \A s \in fired'[a] : s <= calls'
      BY <2>1 DEF Inv, FreshCalls
    <2> QED
      BY <2>1, <2>2, <2>3 DEF Inv, FreshCalls, Carries
  <1>6. ASSUME UNCHANGED <<pc, call, calls, delayed, fired, armed>>
        PROVE  FreshCalls'
    BY <1>6 DEF Inv, FreshCalls, Carries
  <1>q. \A u \in Thread : pc[u] \in {"arm", "arming"} => call[u].op = "ask"
    BY DEF Inv, FreshCalls
  <1>7. CASE UserStep
    <2>1. ASSUME NEW t \in Delayers, NEW a \in Targets, SendAfter(t, a)
          PROVE  FreshCalls'
      <3> DEFINE c == [op |-> "send_after", target |-> a, arg |-> calls + 1]
      <3>1. t \in Thread /\ calls + 1 \in 0 .. MaxCalls /\ a \in 0 .. N
        BY <2>1, <1>t, Sets, SizeAssumption, ThreadAssumption DEF SendAfter
      <3>2. c \in Call /\ c.arg = calls + 1
        BY <3>1 DEF Call, Op
      <3> HIDE DEF c
      <3> QED
        BY <1>1, <2>1, <3>1, <3>2 DEF SendAfter, Enter, Goto, c
    <2>2. ASSUME NEW t \in Askers, Ask(t)
          PROVE  FreshCalls'
      <3> DEFINE c == [op |-> "ask", target |-> 0, arg |-> calls + 1]
      <3>1. t \in Thread /\ calls + 1 \in 0 .. MaxCalls
        BY <2>2, <1>t, Sets, SizeAssumption DEF Ask
      <3>2. c \in Call /\ c.arg = calls + 1
        BY <3>1, SizeAssumption DEF Call, Op
      <3> HIDE DEF c
      <3> QED
        BY <1>1, <2>2, <3>1, <3>2 DEF Ask, Enter, Goto, c
    <2>3. ASSUME \/ \E a \in Actor : Fail(a)
                 \/ \E t \in Stoppers : StopAll(t)
                 \/ \E t \in Askers, s \in Serial : EndAsk(t, s)
          PROVE  FreshCalls'
      <3>1. /\ calls' = calls /\ UNCHANGED <<delayed, fired, armed>>
            /\ \A u \in Thread : \/ call'[u] = call[u] /\ pc'[u] = pc[u]
                                 \/ call'[u].op \notin {"send_after", "ask"}
                                    /\ pc'[u] \in {"lock", "spin"}
        BY <1>t, <2>3, Sets DEF Fail, StopAll, EndAsk, Enter, Goto, history
      <3> QED
        BY <1>2, <1>q, <3>1
    <2> QED
      BY <1>7, <2>1, <2>2, <2>3 DEF UserStep
  <1>8. ASSUME NEW t \in Thread, CallStep(t)
        PROVE  FreshCalls'
    <2>1. CASE t = Main /\ StartActor
      <3>1. call[Main] \in Call /\ Main \in Thread /\ Main \notin Actor /\ call[Main].target \in Actor
        BY <1>t, <2>1, Sets DEF StartActor, At, Inv, Starting
      <3>2. /\ calls' = calls /\ UNCHANGED <<delayed, fired, armed>>
            /\ \A u \in Thread : u # Main => call'[u] = call[u]
        BY <1>t, <2>1, <3>1 DEF StartActor, history
      <3>p. \A u \in Thread : pc'[u] \in {"wait", "start", "user"} \/ (pc'[u] = pc[u] /\ u # Main)
        BY <1>t, <2>1, <3>1 DEF StartActor
      <3>3. call[Main].op \notin {"send_after", "ask"} => call'[Main].op \notin {"send_after", "ask"}
        BY <1>t, <1>n, <2>1, <3>1 DEF StartActor, Call
      <3>4. Carries(Main)' => Carries(Main) /\ call'[Main].arg = call[Main].arg
                              /\ call'[Main].op = call[Main].op
        BY <1>t, <1>n, <2>1, <3>1 DEF StartActor, Call, Carries
      <3>5. \A u \in Thread : Carries(u)' => Carries(u) /\ call'[u].arg = call[u].arg
                              /\ call'[u].op = call[u].op
        BY <3>2, <3>4 DEF Carries
      <3>6. \A u \in Thread : pc'[u] \in {"arm", "arming"} => call'[u].op = "ask"
        BY <1>q, <3>2, <3>p
      <3> QED
        BY <3>2, <3>5, <3>6 DEF Inv, FreshCalls, Carries
    <2>2. CASE Install(t) \/ Arm(t)
      BY <1>3, <1>4, <2>2
    <2>3. CASE Abort(t)
      <3> DEFINE a == call[t].target
      <3>1. /\ calls' = calls /\ UNCHANGED <<delayed, fired, armed>>
            /\ \A u \in Thread : u # t /\ u # a => pc'[u] = pc[u] /\ call'[u] = call[u]
            /\ \A u \in Thread : u = t \/ u = a => pc'[u] \in {"dead", "lock", "user"}
            /\ a # t /\ a \in Thread => call'[a] = NoCall
        BY <1>t, <2>3 DEF Abort, Enter, Goto, history
      <3>2. call'[t].op \notin {"send_after", "ask"}
        <4>1. call[t] \in Call
          BY <1>t
        <4>2. \/ call'[t] = NoCall
              \/ call[t].op = "stop_all" /\ call'[t] = [call[t] EXCEPT !.target = a + 1]
          BY <1>t, <2>3 DEF Abort, Enter
        <4> QED
          BY <1>n, <4>1, <4>2 DEF Call
      <3> HIDE DEF a
      <3> QED
        BY <1>2, <1>n, <1>q, <3>1, <3>2
    <2>4. CASE ArmFails(t)
      <3>1. /\ calls' = calls /\ UNCHANGED <<delayed, fired, armed>>
            /\ \A u \in Thread : u # t => pc'[u] = pc[u] /\ call'[u] = call[u]
            /\ pc'[t] = "spin" /\ call'[t] = [call[t] EXCEPT !.op = "withdraw"]
        BY <1>t, <2>4 DEF ArmFails, Enter, Goto, history
      <3>2. call'[t].op = "withdraw"
        BY <1>t, <3>1 DEF Call
      <3> QED
        BY <1>2, <1>q, <3>1, <3>2
    <2>5. CASE Cancel(t) \/ Cancelled(t) \/ Purge(t) \/ LockAsks(t) \/ UnlockAsks(t) \/ LockPool(t)
      <3>1. /\ calls' = calls /\ UNCHANGED <<delayed, fired, armed>>
            /\ \A u \in Thread : u # t => pc'[u] = pc[u] /\ call'[u] = call[u]
            /\ call'[t] = call[t] \/ call'[t].op = "none"
        BY <1>t, <1>n, <2>5 DEF Cancel, Cancelled, Flushed, Purge, LockAsks, UnlockAsks, LockPool,
           Leave, Enter, Goto, history
      <3>2. pc'[t] \in {"arm", "arming"} => call'[t].op = "ask"
        BY <1>t, <1>q, <2>5 DEF Cancel, Cancelled, Flushed, Purge, LockAsks, UnlockAsks, LockPool,
           Leave, Enter, Goto, At
      <3> QED
        BY <1>2, <1>q, <3>1, <3>2
    <2> QED
      BY <1>8, <2>1, <2>2, <2>3, <2>4, <2>5 DEF CallStep
  <1>9. CASE WorkqueueStep
    BY <1>5, <1>6, <1>9 DEF WorkqueueStep, DelayedSend, Take, ExpireAsk, ExpireLate, PostTimeout,
       PostTimeoutFails, UndoTimeout, history
  <1>10. ASSUME \E a \in Actor : Get(a) \/ HandlerReturn(a)
         PROVE  FreshCalls'
    <2>1. /\ UNCHANGED <<call, calls, delayed, fired, armed>>
          /\ \A u \in Thread : pc'[u] = pc[u] \/ pc'[u] \in {"user", "wait"}
      BY <1>t, <1>10 DEF Get, HandlerReturn, Goto, history
    <2> QED
      BY <1>2, <1>q, <2>1
  <1> QED
    BY <1>6, <1>7, <1>8, <1>9, <1>10 DEF Next, Send, Expire, vars, history

-----------------------------------------------------------------------------
(* The pool of ask timeouts *)

LEMMA PoolStep == ASSUME Inv, [Next]_vars
                  PROVE  PoolInv'
  <1>t. /\ call \in [Thread -> Call] /\ work \in [Work -> WorkState]
        /\ ask_timeouts \in [Slot -> [used : BOOLEAN, ask : 0 .. MaxCalls]]
        /\ wq \in [item : Work \cup {0}, step : WqStep, arg : 0 .. MaxCalls]
        /\ armed \in SUBSET Serial /\ expired \in [Serial -> Nat]
    BY DEF Inv, TypeOK
  <1>w. Slot \subseteq Work /\ \A i \in Slot : i \notin Actor
    BY Sets
  <1>p. PoolInv
    BY DEF Inv
  <1>1. ASSUME wq' = wq, \A i \in Slot : work'[i] = work[i],
               UNCHANGED <<ask_timeouts, armed, expired>>
        PROVE  PoolInv'
    BY <1>1, <1>p DEF PoolInv, OnItsWay
  <1>2. ASSUME NEW t \in Thread, Arm(t)
        PROVE  PoolInv'
    <2> DEFINE s == call[t].arg
    <2>1. PICK i \in Slot :
            /\ FirstFree(i)
            /\ ask_timeouts' = [ask_timeouts EXCEPT ![i] = [used |-> TRUE, ask |-> s]]
            /\ work' = [work EXCEPT ![i] = "scheduled"]
      BY <1>2 DEF Arm
    <2>2. armed' = armed \cup {s} /\ wq' = wq /\ expired' = expired
      BY <1>2 DEF Arm
    <2>3. s \in Serial /\ s \notin armed
      <3>1. call[t].op = "ask"
        BY <1>2 DEF Arm, At, Inv, FreshCalls
      <3>2. s \in 1 .. calls /\ s \notin armed
        BY <3>1 DEF Inv, FreshCalls, Carries
      <3>3. calls \in 0 .. MaxCalls
        BY DEF Inv, TypeOK
      <3> QED
        BY <3>2, <3>3, SizeAssumption DEF Serial
    <2>4. expired[s] = 0
      BY <1>t, <1>p, <2>3 DEF PoolInv
    <2>5. /\ ask_timeouts'[i].used /\ ask_timeouts'[i].ask = s /\ work'[i] = "scheduled"
          /\ ~ask_timeouts[i].used
          /\ \A j \in Slot : j # i => ask_timeouts'[j] = ask_timeouts[j] /\ work'[j] = work[j]
      BY <1>t, <1>w, <2>1 DEF FirstFree
    <2> HIDE DEF s
    <2>6. wq.step = "take" => wq.item # i
      BY <1>p, <2>5 DEF PoolInv
    <2>7. \A j \in Slot : ask_timeouts'[j].used =>
            /\ OnItsWay(j)'
            /\ ask_timeouts'[j].ask \in armed'
            /\ expired'[ask_timeouts'[j].ask] = 0
      BY <1>p, <2>2, <2>4, <2>5 DEF PoolInv, OnItsWay
    <2>8. \A j, k \in Slot : j # k /\ ask_timeouts'[j].used /\ ask_timeouts'[k].used =>
            ask_timeouts'[j].ask # ask_timeouts'[k].ask
      BY <1>p, <2>3, <2>5 DEF PoolInv
    <2>9. \A r \in armed' : expired'[r] = 0 =>
            \E j \in Slot : ask_timeouts'[j].used /\ ask_timeouts'[j].ask = r
      <3>1. ASSUME NEW r \in armed, expired[r] = 0
            PROVE  \E j \in Slot : ask_timeouts'[j].used /\ ask_timeouts'[j].ask = r
        <4>1. PICK j \in Slot : ask_timeouts[j].used /\ ask_timeouts[j].ask = r
          BY <1>p, <3>1 DEF PoolInv
        <4> QED
          BY <2>5, <4>1
      <3> QED
        BY <2>2, <2>5, <3>1
    <2>10. \A j \in Slot : ~ask_timeouts'[j].used => work'[j] \in {"idle", "running"}
      BY <1>p, <2>5 DEF PoolInv
    <2>11. wq'.step = "take" => ask_timeouts'[wq'.item].used /\ work'[wq'.item] = "running"
      BY <1>p, <2>2, <2>5, <2>6 DEF PoolInv
    <2>12. \A r \in Serial : expired'[r] <= 1 /\ (expired'[r] > 0 => r \in armed')
      BY <1>p, <2>2 DEF PoolInv
    <2> QED
      BY <1>p, <2>2, <2>7, <2>8, <2>9, <2>10, <2>11, <2>12 DEF PoolInv
  <1>3. ASSUME NEW w \in Work, Expire(w)
        PROVE  PoolInv'
    <2>1. /\ UNCHANGED <<ask_timeouts, wq, armed, expired>> /\ work[w] = "scheduled"
          /\ work' = [work EXCEPT ![w] = "queued"]
      BY <1>3 DEF Expire, history
    <2> QED
      BY <1>t, <1>w, <1>p, <2>1 DEF PoolInv, OnItsWay
  <1>4. ASSUME NEW w \in Work, WorkBegin(w)
        PROVE  PoolInv'
    <2>1. /\ wq.step = "idle" /\ work[w] = "queued" /\ work' = [work EXCEPT ![w] = "running"]
          /\ UNCHANGED <<ask_timeouts, armed, expired>>
          /\ \/ w \in Actor /\ wq'.step = "send"
             \/ w \in Slot /\ wq'.step = "take" /\ wq'.item = w
      BY <1>4 DEF WorkBegin, Idle
    <2>2. w \in Slot => ask_timeouts[w].used
      BY <1>p, <2>1 DEF PoolInv
    <2>3. \A i \in Slot : ask_timeouts[i].used => OnItsWay(i)'
      BY <1>t, <1>w, <1>p, <2>1 DEF PoolInv, OnItsWay
    <2> QED
      BY <1>t, <1>w, <1>p, <2>1, <2>2, <2>3 DEF PoolInv
  <1>5. ASSUME WorkDone, wq.step # "take", UNCHANGED <<ask_timeouts, armed, expired>>
        PROVE  PoolInv'
    <2>1. /\ wq'.step = "idle"
          /\ \A i \in Slot : work'[i] = work[i] \/ (work[i] = "running" /\ work'[i] = "idle")
      BY <1>5, <1>t, <1>w DEF WorkDone, Idle
    <2> QED
      BY <1>5, <1>p, <2>1 DEF PoolInv, OnItsWay
  <1>6. ASSUME Take
        PROVE  PoolInv'
    <2> DEFINE k == wq.item
               s == ask_timeouts[k].ask
    <2>1. /\ k \in Slot /\ wq.step = "take" /\ ask_timeouts[k].used /\ work[k] = "running"
          /\ wq'.step = "expire" /\ wq'.item = k /\ work' = work /\ armed' = armed
          /\ ask_timeouts' = [ask_timeouts EXCEPT ![k].used = FALSE]
          /\ expired' = [expired EXCEPT ![s] = @ + 1]
      BY <1>6, <1>p, <1>t DEF Take, PoolInv
    <2>2. s \in armed /\ s \in Serial /\ expired[s] = 0
      BY <1>p, <1>t, <2>1 DEF PoolInv
    <2>3. /\ ~ask_timeouts'[k].used
          /\ \A j \in Slot : j # k => ask_timeouts'[j] = ask_timeouts[j]
      BY <1>t, <2>1
    <2>4. \A j \in Slot : j # k /\ ask_timeouts[j].used => ask_timeouts[j].ask # s
      BY <1>p, <2>1 DEF PoolInv
    <2>5. expired'[s] = 1 /\ \A r \in Serial : r # s => expired'[r] = expired[r]
      BY <1>t, <2>1, <2>2
    <2> HIDE DEF k, s
    <2>6. \A j \in Slot : ask_timeouts'[j].used =>
            /\ OnItsWay(j)'
            /\ ask_timeouts'[j].ask \in armed'
            /\ expired'[ask_timeouts'[j].ask] = 0
      <3>1. ASSUME NEW j \in Slot, ask_timeouts'[j].used
            PROVE  j # k /\ ask_timeouts[j].used /\ ask_timeouts'[j] = ask_timeouts[j]
        BY <2>3, <3>1
      <3>2. ASSUME NEW j \in Slot, ask_timeouts'[j].used
            PROVE  OnItsWay(j)'
        BY <1>p, <2>1, <3>1, <3>2 DEF PoolInv, OnItsWay, k
      <3>3. ASSUME NEW j \in Slot, ask_timeouts'[j].used
            PROVE  ask_timeouts'[j].ask \in armed' /\ expired'[ask_timeouts'[j].ask] = 0
        BY <1>t, <1>p, <2>1, <2>4, <2>5, <3>1, <3>3 DEF PoolInv
      <3> QED
        BY <3>2, <3>3
    <2>7. \A r \in armed' : expired'[r] = 0 =>
            \E j \in Slot : ask_timeouts'[j].used /\ ask_timeouts'[j].ask = r
      <3>1. ASSUME NEW r \in armed, expired'[r] = 0
            PROVE  \E j \in Slot : ask_timeouts'[j].used /\ ask_timeouts'[j].ask = r
        <4>1. r # s /\ expired[r] = 0
          BY <1>t, <2>5, <3>1
        <4>2. PICK j \in Slot : ask_timeouts[j].used /\ ask_timeouts[j].ask = r
          BY <1>p, <4>1 DEF PoolInv
        <4>3. j # k
          BY <4>1, <4>2 DEF s
        <4> QED
          BY <2>3, <4>2, <4>3
      <3> QED
        BY <2>1, <3>1
    <2>8. \A i, j \in Slot : i # j /\ ask_timeouts'[i].used /\ ask_timeouts'[j].used =>
            ask_timeouts'[i].ask # ask_timeouts'[j].ask
      BY <1>p, <2>3 DEF PoolInv
    <2>9. \A j \in Slot : ~ask_timeouts'[j].used => work'[j] \in {"idle", "running"}
      BY <1>p, <2>1, <2>3 DEF PoolInv
    <2>10. \A r \in Serial : expired'[r] <= 1 /\ (expired'[r] > 0 => r \in armed')
      BY <1>p, <2>1, <2>2, <2>5 DEF PoolInv
    <2> QED
      BY <2>1, <2>6, <2>7, <2>8, <2>9, <2>10 DEF PoolInv
  <1>7. ASSUME ExpireAsk \/ PostTimeoutFails
        PROVE  PoolInv'
    <2>1. /\ UNCHANGED <<ask_timeouts, work, armed, expired>> /\ wq'.item = wq.item
          /\ wq.step \in {"expire", "post"} /\ wq'.step \in {"post", "undo"}
      BY <1>7, <1>t DEF ExpireAsk, PostTimeoutFails, history
    <2> QED
      BY <1>p, <2>1 DEF PoolInv, OnItsWay
  <1>8. CASE WorkqueueStep
    <2>1. CASE DelayedSend \/ ExpireLate \/ PostTimeout \/ UndoTimeout
      BY <1>5, <2>1 DEF DelayedSend, ExpireLate, PostTimeout, UndoTimeout, history
    <2> QED
      BY <1>4, <1>6, <1>7, <1>8, <2>1 DEF WorkqueueStep
  <1>9. ASSUME NEW t \in Thread, CallStep(t)
        PROVE  PoolInv'
    <2>1. CASE t = Main /\ StartActor
      <3>1. \A i \in Slot : work'[i] = work[i]
        <4>1. call[Main].target \in Actor
          BY <2>1 DEF StartActor, At, Inv, Starting
        <4> QED
          BY <1>t, <1>w, <2>1, <4>1 DEF StartActor
      <3> QED
        BY <1>1, <2>1, <3>1 DEF StartActor, history
    <2>2. CASE Cancel(t) \/ Install(t)
      <3>1. \A i \in Slot : work'[i] = work[i]
        <4>1. call[t].target \in Actor
          BY <2>2 DEF Cancel, Install, Flushed, At, Inv, Flushing
        <4> QED
          BY <1>t, <1>w, <2>2, <4>1 DEF Cancel, Install
      <3> QED
        BY <1>1, <2>2, <3>1 DEF Cancel, Install, Flushed, history
    <2>3. CASE Arm(t)
      BY <1>2, <2>3
    <2>4. CASE Cancelled(t) \/ Purge(t) \/ Abort(t) \/ LockAsks(t) \/ UnlockAsks(t) \/ LockPool(t)
               \/ ArmFails(t)
      BY <1>1, <2>4 DEF Cancelled, Flushed, Purge, Abort, LockAsks, UnlockAsks, LockPool,
         ArmFails, history
    <2> QED
      BY <1>9, <2>1, <2>2, <2>3, <2>4 DEF CallStep
  <1>10. CASE UserStep
    BY <1>1, <1>10 DEF UserStep, SendAfter, Fail, StopAll, Ask, EndAsk, history
  <1> QED
    BY <1>1, <1>3, <1>8, <1>9, <1>10 DEF Next, Send, Get, HandlerReturn, vars, history

-----------------------------------------------------------------------------
(* The theorems *)

LEMMA InitInv == Init => Inv
  <1> SUFFICES ASSUME Init PROVE Inv
    OBVIOUS
  <1>n. NoCall.op = "none" /\ NoCall.target = 0 /\ NoCall.arg = 0 /\ NoCall \in Call
    BY NoCallType DEF NoCall
  <1>c. /\ call = [t \in Thread |-> IF t = Main THEN [op |-> "start", target |-> 1, arg |-> 0]
                                               ELSE NoCall]
        /\ [op |-> "start", target |-> 1, arg |-> 0] \in Call
    BY Sets, SizeAssumption DEF Init, Call, Op
  <1>1. TypeOK
    <2>1. call \in [Thread -> Call]
      BY <1>c, <1>n
    <2>2. wq \in [item : Work \cup {0}, step : WqStep, arg : 0 .. MaxCalls]
      BY SizeAssumption DEF Init, Idle, WqStep
    <2>3. /\ pc \in [Thread -> ThreadState] /\ queue \in [Actor -> 0 .. QueueDepth]
          /\ status \in [Serial -> [state : Status, actor : 0 .. N]]
          /\ ask_timeouts \in [Slot -> [used : BOOLEAN, ask : 0 .. MaxCalls]]
      BY SizeAssumption DEF Init, ThreadState, Status
    <2> QED
      BY <2>1, <2>2, <2>3, SizeAssumption DEF Init, TypeOK, WorkState
  <1>2. Starting
    BY <1>c, Sets DEF Init, Starting
  <1>3. Flushing
    BY DEF Init, Flushing
  <1>4. DelayInv
    BY Sets DEF Init, DelayInv, Idle
  <1>5. FreshCalls
    <2>1. \A t \in Thread : call[t].op \in {"none", "start"}
      BY <1>c, <1>n
    <2> QED
      BY <2>1 DEF Init, FreshCalls, Carries
  <1>6. PoolInv
    BY Sets DEF Init, PoolInv, Idle
  <1> QED
    BY <1>1, <1>2, <1>3, <1>4, <1>5, <1>6 DEF Inv

\* The invariant that the others rest on.
THEOREM PortInvariant == Spec => []Inv
  <1>1. Inv /\ [Next]_vars => Inv'
    BY TypeStep, StartingStep, FlushingStep, DelayStep, FreshStep, PoolStep DEF Inv
  <1> QED
    BY InitInv, <1>1, PTL DEF Spec

\* Nobody overwrites delayed_msg or delayed_payload while delayed_work_fn
\* sends it, whoever calls ipc_send_after, stops or restarts the actor.
THEOREM DelayedStaysIntact == Spec => []DelayedIntact
  <1>1. Inv => DelayedIntact
    BY DEF Inv, DelayInv, DelayedIntact
  <1> QED
    BY PortInvariant, <1>1, PTL

\* Every armed timeout has exactly one entry of the pool until it is taken up,
\* and is taken up at most once, for any size of the pool.
THEOREM PoolIsConsistent == Spec => []PoolConsistent
  <1>1. ASSUME Inv
        PROVE  PoolConsistent
    <2>1. ASSUME NEW s \in Serial, s \in armed, expired[s] = 0
          PROVE  InPool(s)
      <3>1. PICK i \in Slot : ask_timeouts[i].used /\ ask_timeouts[i].ask = s
        BY <1>1, <2>1 DEF Inv, PoolInv
      <3>2. ask_timeouts[i] = [used |-> TRUE, ask |-> s]
        BY <1>1, <3>1 DEF Inv, TypeOK
      <3>3. \A j \in Slot \ {i} : ask_timeouts[j] # ask_timeouts[i]
        BY <1>1, <3>1 DEF Inv, PoolInv
      <3>4. OnItsWay(i)
        BY <1>1, <3>1 DEF Inv, PoolInv
      <3> QED
        BY <3>2, <3>3, <3>4 DEF InPool
    <2> QED
      BY <1>1, <2>1 DEF PoolConsistent, Inv, PoolInv
  <1> QED
    BY PortInvariant, <1>1, PTL

-----------------------------------------------------------------------------
(* The delayed work of each actor implements module DelaySlot *)

\* The slot of actor a after a step that leaves its work and message alone.
LEMMA SlotKept == ASSUME NEW a \in Actor, work'[a] = work[a], delayed'[a] = delayed[a],
                         fired'[a] = fired[a]
                  PROVE  UNCHANGED Slots(a)!vars
  BY DEF Slots!vars, Pending

\* Each step is a step of the slot of actor a, or leaves it as it is.
LEMMA SlotStep == ASSUME Inv, [Next]_vars, NEW a \in Actor
                  PROVE  Slots(a)!Next \/ UNCHANGED Slots(a)!vars
  <1>t. /\ call \in [Thread -> Call] /\ work \in [Work -> WorkState]
        /\ delayed \in [Actor -> 0 .. MaxCalls] /\ fired \in [Actor -> SUBSET Serial]
        /\ wq \in [item : Work \cup {0}, step : WqStep, arg : 0 .. MaxCalls]
    BY DEF Inv, TypeOK
  <1>w. a \in Work /\ a \notin Slot
    BY Sets
  <1>1. ASSUME work'[a] = work[a], delayed'[a] = delayed[a], fired'[a] = fired[a]
        PROVE  UNCHANGED Slots(a)!vars
    BY <1>1, SlotKept
  \* k_work_cancel_delayable empties the slot.
  <1>2. ASSUME NEW t \in Thread, Cancel(t)
        PROVE  Slots(a)!Next \/ UNCHANGED Slots(a)!vars
    <2>1. /\ delayed' = delayed /\ fired' = fired
          /\ work' = [work EXCEPT ![call[t].target] = IF @ = "running" THEN @ ELSE "idle"]
      BY <1>2 DEF Cancel, history
    <2>2. CASE work[a] \in {"scheduled", "queued"} /\ call[t].target = a
      <3>1. Pending(a) = delayed[a] /\ delayed[a] # 0 /\ Pending(a)' = 0 /\ fired'[a] = fired[a]
        BY <1>t, <1>w, <2>1, <2>2 DEF Pending, Inv, DelayInv
      <3> QED
        BY <3>1 DEF Slots!Next, Slots!Clear
    <2>3. CASE call[t].target # a
      BY <1>1, <1>t, <1>w, <2>1, <2>3
    <2>4. CASE work[a] \notin {"scheduled", "queued"} /\ call[t].target = a
      <3>1. Pending(a) = 0 /\ Pending(a)' = 0 /\ fired'[a] = fired[a]
        BY <1>t, <1>w, <2>1, <2>4 DEF Pending
      <3> QED
        BY <3>1 DEF Slots!vars
    <2> QED
      BY <2>2, <2>3, <2>4
  \* After the flush the slot is empty and takes the new message.
  <1>3. ASSUME NEW t \in Thread, Install(t)
        PROVE  Slots(a)!Next \/ UNCHANGED Slots(a)!vars
    <2> DEFINE b == call[t].target
               m == call[t].arg
    <2>1. /\ b \in Actor /\ work[b] \in {"idle", "running"} /\ fired' = fired
          /\ call[t].op = "send_after"
          /\ delayed' = [delayed EXCEPT ![b] = m]
          /\ work' = [work EXCEPT ![b] = "scheduled"]
      BY <1>3 DEF Install, Flushed, At, Inv, Flushing, history
    <2>2. m \in Serial
      <3>1. m \in 1 .. calls /\ calls \in 0 .. MaxCalls
        BY <2>1 DEF Inv, FreshCalls, Carries, TypeOK
      <3> QED
        BY <3>1, SizeAssumption DEF Serial
    <2>3. CASE b = a
      <3>1. Pending(a) = 0 /\ Pending(a)' = m /\ fired'[a] = fired[a]
        BY <1>t, <1>w, <2>1, <2>3 DEF Pending
      <3> QED
        BY <2>2, <3>1 DEF Slots!Next, Slots!Put
    <2>4. CASE b # a
      BY <1>1, <1>t, <1>w, <2>1, <2>4
    <2> QED
      BY <2>3, <2>4
  \* The handler begins: the pending message fires, for the first time.
  <1>4. ASSUME NEW w \in Work, WorkBegin(w)
        PROVE  Slots(a)!Next \/ UNCHANGED Slots(a)!vars
    <2>1. /\ delayed' = delayed /\ work[w] = "queued" /\ work' = [work EXCEPT ![w] = "running"]
          /\ \/ w \in Actor /\ fired' = [fired EXCEPT ![w] = @ \cup {delayed[w]}]
             \/ w \in Slot /\ fired' = fired
      BY <1>4 DEF WorkBegin
    <2>2. CASE w = a
      <3>1. /\ Pending(a) = delayed[a] /\ delayed[a] # 0 /\ delayed[a] \notin fired[a]
            /\ Pending(a)' = 0 /\ fired'[a] = fired[a] \cup {delayed[a]}
        BY <1>t, <1>w, <2>1, <2>2 DEF Pending, Inv, DelayInv
      <3> QED
        BY <3>1 DEF Slots!Next, Slots!Fire
    <2>3. CASE w # a
      BY <1>1, <1>t, <1>w, <2>1, <2>3
    <2> QED
      BY <2>2, <2>3
  <1>5. ASSUME delayed' = delayed, fired' = fired,
               \/ work'[a] = work[a]
               \/ work[a] = "scheduled" /\ work'[a] = "queued"
               \/ work[a] \in {"idle", "running"} /\ work'[a] = "idle"
        PROVE  UNCHANGED Slots(a)!vars
    BY <1>5 DEF Slots!vars, Pending
  <1>6. ASSUME NEW t \in Thread, CallStep(t)
        PROVE  Slots(a)!Next \/ UNCHANGED Slots(a)!vars
    <2>1. CASE t = Main /\ StartActor
      <3>1. work[a] = "idle"
        BY <1>w, <2>1 DEF StartActor, At, Inv, Starting
      <3> QED
        BY <1>5, <1>t, <1>w, <2>1, <3>1 DEF StartActor, history
    <2>2. CASE Arm(t)
      BY <1>5, <1>t, <1>w, <2>2 DEF Arm
    <2>3. CASE Cancelled(t) \/ Purge(t) \/ Abort(t) \/ LockAsks(t) \/ UnlockAsks(t) \/ LockPool(t)
               \/ ArmFails(t)
      BY <1>5, <2>3 DEF Cancelled, Flushed, Purge, Abort, LockAsks, UnlockAsks, LockPool,
         ArmFails, history
    <2> QED
      BY <1>2, <1>3, <1>6, <2>1, <2>2, <2>3 DEF CallStep
  <1>7. CASE WorkqueueStep
    <2>1. CASE DelayedSend \/ ExpireLate \/ PostTimeout \/ UndoTimeout
      <3>1. WorkDone /\ delayed' = delayed /\ fired' = fired
        BY <2>1 DEF DelayedSend, ExpireLate, PostTimeout, UndoTimeout, history
      <3>2. work'[a] = work[a] \/ (work[a] = "running" /\ work'[a] = "idle")
        BY <1>t, <1>w, <3>1 DEF WorkDone
      <3> QED
        BY <1>5, <3>1, <3>2
    <2>2. CASE Take \/ ExpireAsk \/ PostTimeoutFails
      BY <1>5, <2>2 DEF Take, ExpireAsk, PostTimeoutFails, history
    <2> QED
      BY <1>4, <1>7, <2>1, <2>2 DEF WorkqueueStep
  <1>8. CASE UserStep
    BY <1>5, <1>8 DEF UserStep, SendAfter, Fail, StopAll, Ask, EndAsk, history
  <1>9. CASE \E w \in Work : Expire(w)
    BY <1>5, <1>9, <1>t, <1>w DEF Expire, history
  <1>10. CASE UNCHANGED <<work, delayed, fired>>
    BY <1>5, <1>10
  <1> QED
    BY <1>6, <1>7, <1>8, <1>9, <1>10 DEF Next, Send, Get, HandlerReturn, vars, history

\* The safety of DelaySlot, for every actor: a message that was replaced, or
\* cancelled by a stop or a restart, never fires, and none fires twice.
THEOREM PortImplementsDelaySlot == Spec => OneDelayedMessage
  <1>1. Init => \A a \in Actor : Slots(a)!Init
    <2> SUFFICES ASSUME Init, NEW a \in Actor PROVE Slots(a)!Init
      OBVIOUS
    <2>1. Pending(a) = 0 /\ fired[a] = {}
      BY Sets DEF Init, Pending
    <2> QED
      BY <2>1 DEF Slots!Init
  <1>2. Inv /\ [Next]_vars => [\A a \in Actor : Slots(a)!Next \/ UNCHANGED Slots(a)!vars]_vars
    BY SlotStep
  <1> QED
    BY PortInvariant, <1>1, <1>2, PTL DEF Spec, OneDelayedMessage
=============================================================================
