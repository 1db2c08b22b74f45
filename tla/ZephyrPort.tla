----------------------------- MODULE ZephyrPort -----------------------------
(***************************************************************************)
(* The Zephyr port (src/src/port/zephyr/zephyr_ipc_port.c) with the part   *)
(* of src/src/ipc.c that runs on the system workqueue: actor threads on    *)
(* their k_msgq, one k_work_delayable per actor for delayed sends, a pool  *)
(* of k_work_delayable for ask timeouts, and k_thread_abort, which ends an *)
(* actor wherever it is and releases none of its locks.                    *)
(*                                                                         *)
(* A section under delay_lock, ask_timeout_lock or ask_lock is two actions *)
(* of a thread, so that it can be aborted in between.  The workqueue is    *)
(* never aborted: its sections are one action, enabled when the lock is    *)
(* free.  k_msgq_put runs under a kernel spin lock: ipc_port_send is one   *)
(* action.  Kernel objects (mutexes, work items) are external, modelled as *)
(* this code uses them.  Messages in a mailbox are only counted; contents, *)
(* order and replies are in modules Mailbox and AskReply.                  *)
(***************************************************************************)
EXTENDS Integers, FiniteSets

CONSTANTS N,             \* actors 1 .. N, in the order of _ipc_actor_list
          Delayers,      \* threads that call ipc_send_after,
          Targets,       \* and actors whose messages they send
          Askers,        \* actors that call ipc_ask with a timeout
          StopActors,    \* actors under IPC_SUPERVISE_STOP
          RestartActors, \* actors under IPC_SUPERVISE_RESTART
          Stoppers,      \* threads that call ipc_stop_all
          UniProcessor,  \* one core: threads run when the workqueue does not
          QueueDepth,    \* cfg.queue_depth
          PoolSize,      \* CONFIG_ACTOR_MAX_PENDING_ASK_TIMEOUTS
          MaxCalls,      \* bound: calls of ipc_send_after and ipc_ask in a behaviour,
          MaxFails       \*        and of ipc_actor_fail

ASSUME SizeAssumption == /\ N \in Nat \ {0} /\ QueueDepth \in Nat \ {0}
                         /\ PoolSize \in Nat \ {0}
                         /\ MaxCalls \in Nat /\ MaxFails \in Nat
                         /\ UniProcessor \in BOOLEAN
ASSUME ThreadAssumption == /\ Delayers \subseteq 0 .. N /\ Stoppers \subseteq 0 .. N
                           /\ Askers \subseteq 1 .. N /\ Targets \subseteq 1 .. N
                           /\ StopActors \subseteq 1 .. N /\ RestartActors \subseteq 1 .. N
                           /\ StopActors \cap RestartActors = {}

Actor == 1 .. N
Main == 0
Thread == 0 .. N
Free == N + 1                     \* a lock that nobody holds
Slot == N + 1 .. N + PoolSize     \* the entries of ask_timeouts
Work == Actor \cup Slot           \* the work items, delayed_work of each actor first
Serial == 1 .. MaxCalls           \* the calls, and the messages and asks they are about

VARIABLES lifecycle_state,
          pc,               \* where each thread is
          call,             \* arguments of the call it is in
          queue,            \* messages in each actor's msgq
          delay_lock,       \* owner of each actor's delay_lock
          delayed,          \* delayed_msg with delayed_payload of each actor
          ask_timeout_lock, ask_lock,   \* their owners
          ask_timeouts,     \* the pool
          work,             \* state of each work item
          wq,               \* what the system workqueue is doing
          status,           \* the entry of each ask in ask_table
          calls, fails,     \* calls so far
          fired,            \* auxiliary: delayed messages whose handler has begun, per actor
          armed,            \* auxiliary: asks whose timeout was scheduled
          expired           \* auxiliary: how often the timeout of each ask was taken up

locks == <<delay_lock, ask_timeout_lock, ask_lock>>
history == <<calls, fails, fired, armed, expired>>
vars == <<lifecycle_state, pc, call, queue, delay_lock, delayed, ask_timeout_lock, ask_lock,
          ask_timeouts, work, wq, status, calls, fails, fired, armed, expired>>

(* "new" no thread yet     "dead" aborted                                   *)
(* "start" main, in ipc_start_all_actors                                   *)
(* "wait" in k_msgq_get    "user" in a handler or other application code   *)
(* "lock" before delay_lock                                                *)
(* "flush" holds delay_lock, in k_work_flush                               *)
(* "abort", "purge" delayed work cancelled, before k_thread_abort or       *)
(*                  k_msgq_purge                                           *)
(* "spin" before ask_lock            "table" holds ask_lock                *)
(* "arm" before ask_timeout_lock     "arming" holds ask_timeout_lock       *)
ThreadState == {"new", "dead", "start", "wait", "user", "lock", "flush", "abort", "purge",
                "spin", "table", "arm", "arming"}
Op == {"none", "start", "send_after", "stop", "restart", "stop_all", "ask", "withdraw", "end"}
Call == [op : Op, target : 0 .. N, arg : 0 .. MaxCalls]
NoCall == [op |-> "none", target |-> 0, arg |-> 0]

WorkState == {"idle", "scheduled", "queued", "running"}
(* "idle"; "send" in delayed_work_fn; "take" in ask_timeout_work_fn before  *)
(* its lock; "expire", "post", "undo" in ipc_ask_timeout_expired            *)
WqStep == {"idle", "send", "take", "expire", "post", "undo"}
Idle == [item |-> 0, step |-> "idle", arg |-> 0]

\* Of an ask's entry in ask_table: "pending", or "queued" when timeout_queued is set.
Status == {"unused", "pending", "queued", "over"}

TypeOK == /\ lifecycle_state \in {"running", "stopping"}
          /\ pc \in [Thread -> ThreadState]
          /\ call \in [Thread -> Call]
          /\ queue \in [Actor -> 0 .. QueueDepth]
          /\ delay_lock \in [Actor -> Thread \cup {Free}]
          /\ delayed \in [Actor -> 0 .. MaxCalls]
          /\ ask_timeout_lock \in Thread \cup {Free}
          /\ ask_lock \in Thread \cup {Free}
          /\ ask_timeouts \in [Slot -> [used : BOOLEAN, ask : 0 .. MaxCalls]]
          /\ work \in [Work -> WorkState]
          /\ wq \in [item : Work \cup {0}, step : WqStep, arg : 0 .. MaxCalls]
          /\ status \in [Serial -> [state : Status, actor : 0 .. N]]
          /\ calls \in 0 .. MaxCalls
          /\ fails \in 0 .. MaxFails
          /\ fired \in [Actor -> SUBSET Serial]
          /\ armed \in SUBSET Serial
          /\ expired \in [Serial -> Nat]

Init == /\ lifecycle_state = "running"
        /\ pc = [t \in Thread |-> IF t = Main THEN "start" ELSE "new"]
        /\ call = [t \in Thread |-> IF t = Main THEN [op |-> "start", target |-> 1, arg |-> 0]
                                                ELSE NoCall]
        /\ queue = [a \in Actor |-> 0]
        /\ delay_lock = [a \in Actor |-> Free]
        /\ delayed = [a \in Actor |-> 0]
        /\ ask_timeout_lock = Free
        /\ ask_lock = Free
        /\ ask_timeouts = [i \in Slot |-> [used |-> FALSE, ask |-> 0]]
        /\ work = [w \in Work |-> "idle"]
        /\ wq = Idle
        /\ status = [s \in Serial |-> [state |-> "unused", actor |-> 0]]
        /\ calls = 0
        /\ fails = 0
        /\ fired = [a \in Actor |-> {}]
        /\ armed = {}
        /\ expired = [s \in Serial |-> 0]

-----------------------------------------------------------------------------

\* On one core the workqueue, whose cooperative priority is above that of
\* the actors, gives the core up when it is idle or waits for a mutex; it
\* does not while it spins in lock_asks.
Occupied == UniProcessor /\ wq # Idle /\ ~(wq.step = "take" /\ ask_timeout_lock # Free)

\* Thread t runs and is at this place.
At(t, state) == pc[t] = state /\ ~Occupied

Goto(t, state) == pc' = [pc EXCEPT ![t] = state]

\* Thread t enters a call and goes to the given place in it.
Enter(t, c, state) == call' = [call EXCEPT ![t] = c] /\ Goto(t, state)

\* It returns to application code.
Leave(t) == Enter(t, NoCall, "user")

-----------------------------------------------------------------------------
(* Actor threads and their message queues *)

\* ipc_port_actor_init, in the loop of ipc_start_all_actors.  Its checks of
\* the declared resources hold for every actor of IPC_ACTOR_DEFINE.
StartActor == LET a == call[Main].target IN
    /\ At(Main, "start")
    /\ queue' = [queue EXCEPT ![a] = 0]
    /\ work' = [work EXCEPT ![a] = "idle"]
    /\ delay_lock' = [delay_lock EXCEPT ![a] = Free]
    /\ pc' = [pc EXCEPT ![a] = "wait", ![Main] = IF a < N THEN "start" ELSE "user"]
    /\ call' = [call EXCEPT ![Main] = IF a < N THEN [@ EXCEPT !.target = a + 1] ELSE NoCall]
    /\ UNCHANGED <<lifecycle_state, delayed, ask_timeout_lock, ask_lock, ask_timeouts, wq,
                   status, history>>

\* ipc_port_send finds room, or it returns -ENOMEM and changes nothing.
Room(a) == queue[a] < QueueDepth

\* Any message to actor a, from a thread or from an interrupt, once
\* ipc_start_all_actors has returned (ipc.h:750, README.md:721).
Send(a) == /\ pc[Main] # "start"
           /\ Room(a)
           /\ queue' = [queue EXCEPT ![a] = @ + 1]
           /\ UNCHANGED <<lifecycle_state, pc, call, locks, delayed, ask_timeouts, work, wq,
                          status, history>>

\* ipc_thread_fn takes a message, and its handler returns.
Get(a) == /\ At(a, "wait")
          /\ queue[a] > 0
          /\ queue' = [queue EXCEPT ![a] = @ - 1]
          /\ Goto(a, "user")
          /\ UNCHANGED <<lifecycle_state, call, locks, delayed, ask_timeouts, work, wq, status,
                         history>>

HandlerReturn(a) == /\ At(a, "user")
                    /\ Goto(a, "wait")
                    /\ UNCHANGED <<lifecycle_state, call, queue, locks, delayed, ask_timeouts,
                                   work, wq, status, history>>

-----------------------------------------------------------------------------
(* Delayed sends, stops and restarts *)

SendAfter(t, a) ==
    /\ At(t, "user")
    /\ calls < MaxCalls
    /\ calls' = calls + 1
    /\ Enter(t, [op |-> "send_after", target |-> a, arg |-> calls + 1], "lock")
    /\ UNCHANGED <<lifecycle_state, queue, locks, delayed, ask_timeouts, work, wq, status,
                   fails, fired, armed, expired>>

\* ipc_actor_fail: under the two strategies that reach the port.
Fail(a) ==
    /\ At(a, "user")
    /\ a \in StopActors \cup RestartActors
    /\ fails < MaxFails
    /\ fails' = fails + 1
    /\ Enter(a, [op |-> IF a \in StopActors THEN "stop" ELSE "restart", target |-> a,
                 arg |-> 0], "lock")
    /\ UNCHANGED <<lifecycle_state, queue, locks, delayed, ask_timeouts, work, wq, status,
                   calls, fired, armed, expired>>

StopAll(t) ==
    /\ At(t, "user")
    /\ lifecycle_state = "running"
    /\ lifecycle_state' = "stopping"
    /\ Enter(t, [op |-> "stop_all", target |-> 1, arg |-> 0], "lock")
    /\ UNCHANGED <<queue, locks, delayed, ask_timeouts, work, wq, status, history>>

\* Mutant of Cancel: scheduled work is left alone.
CancelNothing(t) == LET a == call[t].target IN
    /\ At(t, "lock")
    /\ delay_lock[a] = Free
    /\ delay_lock' = [delay_lock EXCEPT ![a] = t]
    /\ Goto(t, "flush")
    /\ UNCHANGED <<lifecycle_state, call, queue, delayed, ask_timeout_lock, ask_lock,
                   ask_timeouts, work, wq, status, history>>

\* k_mutex_lock(&p->delay_lock) and k_work_cancel_delayable: a handler that
\* runs goes on.
Cancel(t) == LET a == call[t].target IN
    /\ At(t, "lock")
    /\ delay_lock[a] = Free
    /\ delay_lock' = [delay_lock EXCEPT ![a] = t]
    /\ work' = [work EXCEPT ![a] = IF @ = "running" THEN @ ELSE "idle"]
    /\ Goto(t, "flush")
    /\ UNCHANGED <<lifecycle_state, call, queue, delayed, ask_timeout_lock, ask_lock,
                   ask_timeouts, wq, status, history>>

\* Mutant of Flushed: k_work_flush is not called.
FlushedAtOnce(t) == /\ At(t, "flush")
                    /\ delay_lock' = [delay_lock EXCEPT ![call[t].target] = Free]
                    /\ UNCHANGED <<lifecycle_state, queue, ask_timeout_lock, ask_lock,
                                   ask_timeouts, wq, status, history>>

\* k_work_flush returns: no handler of delayed_work runs.
Flushed(t) == /\ At(t, "flush")
              /\ work[call[t].target] # "running"
              /\ delay_lock' = [delay_lock EXCEPT ![call[t].target] = Free]
              /\ UNCHANGED <<lifecycle_state, queue, ask_timeout_lock, ask_lock, ask_timeouts, wq,
                             status, history>>

\* The rest of ipc_port_send_after: the message is installed and its work
\* rescheduled.
Install(t) == /\ Flushed(t)
              /\ call[t].op = "send_after"
              /\ delayed' = [delayed EXCEPT ![call[t].target] = call[t].arg]
              /\ work' = [work EXCEPT ![call[t].target] = "scheduled"]
              /\ Leave(t)

\* Mutant of Cancelled: delay_lock is kept.
CancelledKeepsLock(t) == /\ At(t, "flush")
                         /\ call[t].op # "send_after"
                         /\ work[call[t].target] # "running"
                         /\ Goto(t, IF call[t].op = "restart" THEN "purge" ELSE "abort")
                         /\ UNCHANGED <<lifecycle_state, call, queue, locks, delayed, ask_timeouts,
                                        work, wq, status, history>>

\* The end of cancel_delayed_send.
Cancelled(t) == /\ Flushed(t)
                /\ call[t].op # "send_after"
                /\ Goto(t, IF call[t].op = "restart" THEN "purge" ELSE "abort")
                /\ UNCHANGED <<call, delayed, work>>

\* k_msgq_purge
Purge(t) == /\ At(t, "purge")
            /\ queue' = [queue EXCEPT ![call[t].target] = 0]
            /\ Leave(t)
            /\ UNCHANGED <<lifecycle_state, locks, delayed, ask_timeouts, work, wq, status,
                           history>>

\* k_thread_abort.  A thread that aborts itself does not return; otherwise
\* ipc_stop_all goes on to the next actor.
Abort(t) == LET a == call[t].target IN
    /\ At(t, "abort")
    /\ \/ /\ a # t /\ call[t].op = "stop_all" /\ a < N
          /\ pc' = [pc EXCEPT ![a] = "dead", ![t] = "lock"]
          /\ call' = [call EXCEPT ![a] = NoCall, ![t] = [@ EXCEPT !.target = a + 1]]
       \/ /\ a # t /\ a = N
          /\ pc' = [pc EXCEPT ![a] = "dead", ![t] = "user"]
          /\ call' = [call EXCEPT ![a] = NoCall, ![t] = NoCall]
       \/ /\ a = t
          /\ Enter(t, NoCall, "dead")
    /\ UNCHANGED <<lifecycle_state, queue, locks, delayed, ask_timeouts, work, wq, status,
                   history>>

-----------------------------------------------------------------------------
(* Asks with a timeout, made by actor t *)

Ask(t) ==
    /\ At(t, "user")
    /\ calls < MaxCalls
    /\ calls' = calls + 1
    /\ Enter(t, [op |-> "ask", target |-> 0, arg |-> calls + 1], "spin")
    /\ UNCHANGED <<lifecycle_state, queue, locks, delayed, ask_timeouts, work, wq, status,
                   fails, fired, armed, expired>>

\* The asker dispatches the reply or the timeout of ask s, or cancels it.
EndAsk(t, s) ==
    /\ At(t, "user")
    /\ status[s].actor = t /\ status[s].state \in {"pending", "queued"}
    /\ Enter(t, [op |-> "end", target |-> 0, arg |-> s], "spin")
    /\ UNCHANGED <<lifecycle_state, queue, locks, delayed, ask_timeouts, work, wq, status,
                   history>>

\* lock_asks
LockAsks(t) == /\ At(t, "spin")
               /\ ask_lock = Free
               /\ ask_lock' = t
               /\ Goto(t, "table")
               /\ UNCHANGED <<lifecycle_state, call, queue, delay_lock, ask_timeout_lock, delayed,
                              ask_timeouts, work, wq, status, history>>

\* The section under ask_lock and unlock_asks: the ask enters the table, and
\* its timeout is scheduled next, or it leaves the table.
UnlockAsks(t) == LET s == call[t].arg IN
    /\ At(t, "table")
    /\ ask_lock' = Free
    /\ \/ /\ call[t].op = "ask"
          /\ status' = [status EXCEPT ![s] = [state |-> "pending", actor |-> t]]
          /\ Goto(t, "arm")
          /\ UNCHANGED call
       \/ /\ call[t].op # "ask"
          /\ status' = [status EXCEPT ![s].state = "over"]
          /\ Leave(t)
    /\ UNCHANGED <<lifecycle_state, queue, delay_lock, ask_timeout_lock, delayed, ask_timeouts,
                   work, wq, history>>

\* ipc_port_schedule_ask_timeout
LockPool(t) == /\ At(t, "arm")
               /\ ask_timeout_lock = Free
               /\ ask_timeout_lock' = t
               /\ Goto(t, "arming")
               /\ UNCHANGED <<lifecycle_state, call, queue, delay_lock, ask_lock, delayed,
                              ask_timeouts, work, wq, status, history>>

\* Mutant of FirstFree: the first entry, used or not.
FirstFreeUnchecked(i) == \A j \in Slot : j >= i

FirstFree(i) == ~ask_timeouts[i].used /\ \A j \in Slot : j < i => ask_timeouts[j].used

\* Mutant of Arm: the lock is given up on the path that fails only.
ArmKeepsLock(t) ==
    /\ At(t, "arming")
    /\ \E i \in Slot :
          /\ FirstFree(i)
          /\ ask_timeouts' = [ask_timeouts EXCEPT ![i] = [used |-> TRUE, ask |-> call[t].arg]]
          /\ work' = [work EXCEPT ![i] = "scheduled"]
    /\ armed' = armed \cup {call[t].arg}
    /\ Leave(t)
    /\ UNCHANGED <<lifecycle_state, queue, locks, delayed, wq, status, calls, fails, fired,
                   expired>>

\* The first free entry is taken and its work initialised anew, even while
\* the handler of its last ask is still running; ipc_ask goes on and returns.
Arm(t) ==
    /\ At(t, "arming")
    /\ ask_timeout_lock' = Free
    /\ \E i \in Slot :
          /\ FirstFree(i)
          /\ ask_timeouts' = [ask_timeouts EXCEPT ![i] = [used |-> TRUE, ask |-> call[t].arg]]
          /\ work' = [work EXCEPT ![i] = "scheduled"]
    /\ armed' = armed \cup {call[t].arg}
    /\ Leave(t)
    /\ UNCHANGED <<lifecycle_state, queue, delay_lock, ask_lock, delayed, wq, status, calls,
                   fails, fired, expired>>

\* -ENOMEM: ipc_ask withdraws the ask.
ArmFails(t) ==
    /\ At(t, "arming")
    /\ \A i \in Slot : ask_timeouts[i].used
    /\ ask_timeout_lock' = Free
    /\ Enter(t, [call[t] EXCEPT !.op = "withdraw"], "spin")
    /\ UNCHANGED <<lifecycle_state, queue, delay_lock, ask_lock, delayed, ask_timeouts, work, wq,
                   status, history>>

-----------------------------------------------------------------------------
(* The system workqueue *)

\* The delay of a work item is over.
Expire(w) == /\ work[w] = "scheduled"
             /\ work' = [work EXCEPT ![w] = "queued"]
             /\ UNCHANGED <<lifecycle_state, pc, call, queue, locks, delayed, ask_timeouts, wq,
                            status, history>>

\* Its handler begins; delayed_work_fn copies delayed_msg.  Items are taken
\* in any order.
WorkBegin(w) ==
    /\ wq = Idle
    /\ work[w] = "queued"
    /\ work' = [work EXCEPT ![w] = "running"]
    /\ \/ /\ w \in Actor
          /\ wq' = [item |-> w, step |-> "send", arg |-> delayed[w]]
          /\ fired' = [fired EXCEPT ![w] = @ \cup {delayed[w]}]
       \/ /\ w \in Slot
          /\ wq' = [item |-> w, step |-> "take", arg |-> 0]
          /\ UNCHANGED fired
    /\ UNCHANGED <<lifecycle_state, pc, call, queue, locks, delayed, ask_timeouts, status,
                   calls, fails, armed, expired>>

\* The handler returns.  The work item may have been scheduled anew by then.
WorkDone == /\ wq' = Idle
            /\ work' = [work EXCEPT ![wq.item] = IF @ = "running" THEN "idle" ELSE @]

\* delayed_work_fn: ipc_port_send reads delayed_payload.
DelayedSend == /\ wq.step = "send"
               /\ queue' = [queue EXCEPT ![wq.item] = IF Room(wq.item) THEN @ + 1 ELSE @]
               /\ WorkDone
               /\ UNCHANGED <<lifecycle_state, pc, call, locks, delayed, ask_timeouts, status,
                              history>>

\* ask_timeout_work_fn under ask_timeout_lock: the entry is free from here on.
Take == LET s == ask_timeouts[wq.item].ask IN
    /\ wq.step = "take"
    /\ ask_timeout_lock = Free
    /\ ask_timeouts' = [ask_timeouts EXCEPT ![wq.item].used = FALSE]
    /\ wq' = [wq EXCEPT !.step = "expire", !.arg = s]
    /\ expired' = [expired EXCEPT ![s] = @ + 1]
    /\ UNCHANGED <<lifecycle_state, pc, call, queue, locks, delayed, work, status, calls, fails,
                   fired, armed>>

\* ipc_ask_timeout_expired, first section
ExpireAsk == /\ wq.step = "expire"
             /\ ask_lock = Free
             /\ status[wq.arg].state = "pending"
             /\ status' = [status EXCEPT ![wq.arg].state = "queued"]
             /\ wq' = [wq EXCEPT !.step = "post"]
             /\ UNCHANGED <<lifecycle_state, pc, call, queue, locks, delayed, ask_timeouts, work,
                            history>>

ExpireLate == /\ wq.step = "expire"
              /\ ask_lock = Free
              /\ status[wq.arg].state # "pending"
              /\ WorkDone
              /\ UNCHANGED <<lifecycle_state, pc, call, queue, locks, delayed, ask_timeouts,
                             status, history>>

\* It sends the timeout message,
PostTimeout == LET a == status[wq.arg].actor IN
    /\ wq.step = "post"
    /\ Room(a)
    /\ queue' = [queue EXCEPT ![a] = @ + 1]
    /\ WorkDone
    /\ UNCHANGED <<lifecycle_state, pc, call, locks, delayed, ask_timeouts, status, history>>

PostTimeoutFails == /\ wq.step = "post"
                    /\ ~Room(status[wq.arg].actor)
                    /\ wq' = [wq EXCEPT !.step = "undo"]
                    /\ UNCHANGED <<lifecycle_state, pc, call, queue, locks, delayed, ask_timeouts,
                                   work, status, history>>

\* or reopens the ask.
UndoTimeout == /\ wq.step = "undo"
               /\ ask_lock = Free
               /\ status' = [status EXCEPT ![wq.arg].state = IF @ = "queued" THEN "pending" ELSE @]
               /\ WorkDone
               /\ UNCHANGED <<lifecycle_state, pc, call, queue, locks, delayed, ask_timeouts,
                              history>>

-----------------------------------------------------------------------------

\* What a thread does of its own accord once it is in a call.
CallStep(t) == \/ t = Main /\ StartActor
               \/ Cancel(t)
               \/ Install(t)
               \/ Cancelled(t)
               \/ Purge(t)
               \/ Abort(t)
               \/ LockAsks(t)
               \/ UnlockAsks(t)
               \/ LockPool(t)
               \/ Arm(t)
               \/ ArmFails(t)

WorkqueueStep == \/ \E w \in Work : WorkBegin(w)
                 \/ DelayedSend
                 \/ Take
                 \/ ExpireAsk
                 \/ ExpireLate
                 \/ PostTimeout
                 \/ PostTimeoutFails
                 \/ UndoTimeout

UserStep == \/ \E t \in Delayers, a \in Targets : SendAfter(t, a)
            \/ \E a \in Actor : Fail(a)
            \/ \E t \in Stoppers : StopAll(t)
            \/ \E t \in Askers : Ask(t)
            \/ \E t \in Askers, s \in Serial : EndAsk(t, s)

Next == \/ UserStep
        \/ \E t \in Thread : CallStep(t)
        \/ \E a \in Actor : Send(a)
        \/ \E a \in Actor : Get(a)
        \/ \E a \in Actor : HandlerReturn(a)
        \/ \E w \in Work : Expire(w)
        \/ WorkqueueStep

\* Ready threads run and delays end; whether messages come and handlers
\* return is open.
Fairness == /\ \A t \in Thread : WF_vars(CallStep(t))
            /\ \A w \in Work : WF_vars(Expire(w))
            /\ WF_vars(WorkqueueStep)

Spec == Init /\ [][Next]_vars /\ Fairness

-----------------------------------------------------------------------------
(* Properties *)

\* While delayed_work_fn is between its copy of delayed_msg and the end of
\* ipc_port_send, nobody overwrites delayed_msg or delayed_payload: the
\* message that is sent has the header and the payload of one call.
DelayedIntact == wq.step = "send" => wq.arg = delayed[wq.item]

\* A timeout that was scheduled and not yet taken up is in exactly one used
\* entry of the pool, whose work is on its way: an entry that is taken again
\* while its handler still runs loses neither ask.  No timeout is taken up
\* twice, and none whose scheduling failed.
OnItsWay(i) == work[i] \in {"scheduled", "queued"} \/ (wq.item = i /\ wq.step = "take")
InPool(s) == \E i \in Slot : /\ ask_timeouts[i] = [used |-> TRUE, ask |-> s]
                             /\ OnItsWay(i)
                             /\ \A j \in Slot \ {i} : ask_timeouts[j] # ask_timeouts[i]
PoolConsistent ==
    /\ TypeOK
    /\ \A s \in Serial : /\ s \in armed /\ expired[s] = 0 => InPool(s)
                         /\ expired[s] <= 1
                         /\ expired[s] > 0 => s \in armed

\* A lock whose owner was aborted.
Orphan(owner) == owner \in Actor /\ pc[owner] = "dead"
AskOrphan == Orphan(ask_lock) \/ Orphan(ask_timeout_lock)
DelayOrphan == \E a \in Actor : Orphan(delay_lock[a])

\* The workqueue gets to every timeout, unless k_thread_abort ended an actor
\* that held ask_lock or ask_timeout_lock.
TimeoutsExpire == \A s \in Serial : s \in armed ~> (expired[s] = 1 \/ AskOrphan)

\* A shutdown aborts every actor and ipc_stop_all returns: it waits for
\* delay_lock and for the workqueue, which wait for asks and for callers of
\* ipc_send_after, and none of them waits for it, unless an aborted actor
\* took a lock with it.
Stopped == (\A a \in Actor : pc[a] = "dead") /\ pc[Main] = "user"
StopAllEnds == (lifecycle_state = "stopping") ~> (Stopped \/ AskOrphan \/ DelayOrphan)

\* The abstract slot of module DelaySlot, for each actor.
Pending(a) == IF work[a] \in {"scheduled", "queued"} THEN delayed[a] ELSE 0
Slots(a) == INSTANCE DelaySlot WITH Msg <- Serial, NoMsg <- 0,
                                    slot <- Pending(a), fired <- fired[a]

\* The work item, its cancellation and the flush implement the documented
\* single delayed slot: a replaced or cancelled message never fires.
OneDelayedMessage == /\ \A a \in Actor : Slots(a)!Init
                     /\ [][\A a \in Actor : Slots(a)!Next \/ UNCHANGED Slots(a)!vars]_vars

-----------------------------------------------------------------------------
(* What a comment of the code says, and the code does not do *)

\* ipc.c:103, lock_asks: "Spin until the ask table lock is available."
\* Whoever holds ask_lock gives it up again.
AskLockIsReleased == ask_lock # Free ~> ask_lock = Free
=============================================================================
